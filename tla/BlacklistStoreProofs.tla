--------------------------- MODULE BlacklistStoreProofs ---------------------------
(***************************************************************************)
(* The blacklist file keeps two promises.                                  *)
(*                                                                         *)
(* Its lock does what its comment says until a lock file outlives the      *)
(* stale window, for any number of processes and updates, killed at any    *)
(* point.  (BlacklistLock_stale shows that it does not after that.)        *)
(*                                                                         *)
(* The deposit freezes it records can be undone: the operator's cap is on  *)
(* record whenever the chain has another one, through failures, restarts   *)
(* and late landings at any point, for any caps, up to the first change of *)
(* a cap that the file cannot tell (`unnoticed` of DepositFreeze).         *)
(***************************************************************************)
EXTENDS BlacklistLock, DepositFreeze, TLAPS

-----------------------------------------------------------------------------
(* The lock                                                                *)

\* A process inside the lock owns the lock file, which nobody removes.
Owner ==
  /\ lock # NoLock => ~lock.stale
  /\ \A a \in Actors : at[a] # "remove"
  /\ \A a \in Actors : at[a] \in Inside => lock # NoLock /\ lock.by = a

\* What a process is about to write still contains all that the file does.
UpToDate ==
  /\ ~present => file = {}
  /\ \A a \in Actors : at[a] = "rename" => file \subseteq local[a]

Protected == Owner /\ UpToDate

LockInv == LockTypeOK /\ (stales = 0 => Protected)

LEMMA LockInitInv == LockInit => LockInv
BY LockAssumption
DEF LockInit, LockInv, LockTypeOK, Protected, Owner, UpToDate, Outside, Inside

LEMMA LockTypeStep ==
  ASSUME LockTypeOK, [LockNext]_lockVars
  PROVE  LockTypeOK'
<1> USE LockAssumption DEF LockTypeOK, Goto, Outside, Inside, disk, control,
                           bounds
<1>1. ASSUME NEW a \in Actors, NEW upd \in BOOLEAN, Begin(a, upd)
      PROVE  LockTypeOK'
  BY <1>1 DEF Begin
<1>2. ASSUME NEW a \in Actors, Open(a) PROVE LockTypeOK'
  <2>1. [by |-> a, stale |-> FALSE] \in Locks
    BY DEF Locks
  <2> QED
    BY <1>2, <2>1 DEF Open
<1>3. ASSUME NEW a \in Actors, Stamp(a) PROVE LockTypeOK'
  BY <1>3 DEF Stamp, Locks
<1>4. ASSUME NEW a \in Actors, Stat(a) PROVE LockTypeOK'
  BY <1>4 DEF Stat
<1>5. ASSUME NEW a \in Actors, RemoveStale(a) PROVE LockTypeOK'
  BY <1>5 DEF RemoveStale
<1>6. ASSUME NEW a \in Actors, Read(a) PROVE LockTypeOK'
  BY <1>6 DEF Read
<1>7. ASSUME NEW a \in Actors, Rename(a) PROVE LockTypeOK'
  <2>1. <<a, count[a]>> \in Updates
    BY <1>7 DEF Updates
  <2> QED
    BY <1>7, <2>1 DEF Rename
<1>8. ASSUME NEW a \in Actors, Release(a) PROVE LockTypeOK'
  BY <1>8 DEF Release
<1>9. ASSUME NEW a \in Actors, StampFails(a) PROVE LockTypeOK'
  BY <1>9 DEF StampFails
<1>10. ASSUME NEW a \in Actors, UpdateThrows(a) PROVE LockTypeOK'
  BY <1>10 DEF UpdateThrows
<1>11. ASSUME NEW a \in Actors, Crash(a) PROVE LockTypeOK'
  BY <1>11 DEF Crash
<1>12. ASSUME Age PROVE LockTypeOK'
  <2>1. lock \in Locks
    BY <1>12 DEF Age
  <2>2. [lock EXCEPT !.stale = TRUE] \in Locks
    BY <2>1 DEF Locks
  <2> QED
    BY <1>12, <2>2 DEF Age
<1>13. CASE UNCHANGED lockVars
  BY <1>13 DEF lockVars
<1> QED
  BY <1>1, <1>2, <1>3, <1>4, <1>5, <1>6, <1>7, <1>8, <1>9, <1>10, <1>11, <1>12,
     <1>13 DEF LockNext, Step

\* Without stale locks only Release removes the lock, and only its owner is
\* about to release it.
LEMMA OwnerStep ==
  ASSUME LockTypeOK, Owner, stales' = 0, [LockNext]_lockVars
  PROVE  Owner'
<1> USE LockAssumption
    DEF LockTypeOK, Owner, Goto, Outside, Inside, disk, control, bounds
<1>1. ASSUME NEW a \in Actors, NEW upd \in BOOLEAN, Begin(a, upd)
      PROVE  Owner'
  BY <1>1 DEF Begin
<1>2. ASSUME NEW a \in Actors, Open(a) PROVE Owner'
  <2>1. CASE lock # NoLock
    BY <1>2, <2>1 DEF Open
  <2>2. CASE lock = NoLock
    <3> DEFINE new == [by |-> a, stale |-> FALSE]
    <3>1. new \in Locks /\ new.by = a /\ ~new.stale
      BY DEF Locks
    <3>2. lock' = new /\ lock' # NoLock
      BY <1>2, <2>2, <3>1 DEF Open, Locks
    <3>3. \A b \in Actors : at'[b] \in Inside => b = a
      BY <1>2, <2>2 DEF Open
    <3> HIDE DEF new
    <3> QED
      BY <1>2, <2>2, <3>1, <3>2, <3>3 DEF Open
  <2> QED
    BY <2>1, <2>2
<1>3. ASSUME NEW a \in Actors, Stamp(a) PROVE Owner'
  <2>1. lock' = lock
    BY <1>3 DEF Stamp, Locks
  <2> QED
    BY <1>3, <2>1 DEF Stamp
<1>4. ASSUME NEW a \in Actors, Stat(a) PROVE Owner'
  BY <1>4 DEF Stat
<1>5. ASSUME NEW a \in Actors, RemoveStale(a) PROVE Owner'
  BY <1>5 DEF RemoveStale
<1>6. ASSUME NEW a \in Actors, Read(a) PROVE Owner'
  BY <1>6 DEF Read
<1>7. ASSUME NEW a \in Actors, Rename(a) PROVE Owner'
  BY <1>7 DEF Rename
<1>8. ASSUME NEW a \in Actors, Release(a) PROVE Owner'
  BY <1>8 DEF Release
<1>9. ASSUME NEW a \in Actors, StampFails(a) PROVE Owner'
  BY <1>9 DEF StampFails
<1>10. ASSUME NEW a \in Actors, UpdateThrows(a) PROVE Owner'
  BY <1>10 DEF UpdateThrows
<1>11. ASSUME NEW a \in Actors, Crash(a) PROVE Owner'
  BY <1>11 DEF Crash
<1>12. ASSUME Age PROVE Owner'
  BY <1>12 DEF Age
<1>13. CASE UNCHANGED lockVars
  BY <1>13 DEF lockVars
<1> QED
  BY <1>1, <1>2, <1>3, <1>4, <1>5, <1>6, <1>7, <1>8, <1>9, <1>10, <1>11, <1>12,
     <1>13 DEF LockNext, Step

\* What the owner has read stays current, since nobody else writes.
LEMMA UpToDateStep ==
  ASSUME LockTypeOK, Protected, [LockNext]_lockVars
  PROVE  UpToDate'
<1> USE DEF Protected, LockTypeOK, UpToDate, Goto, disk, control, bounds
<1>1. ASSUME NEW a \in Actors, Read(a) PROVE UpToDate'
  BY <1>1 DEF Read
<1>2. ASSUME NEW a \in Actors, Rename(a) PROVE UpToDate'
  <2>1. \A b \in Actors : at[b] = "rename" => b = a
    BY <1>2 DEF Rename, Owner, Inside
  <2> QED
    BY <1>2, <2>1 DEF Rename
<1>3. CASE /\ UNCHANGED <<present, file, local>>
           /\ \A a \in Actors : at'[a] = "rename" => at[a] = "rename"
  BY <1>3
<1> QED
  BY <1>1, <1>2, <1>3
  DEF LockNext, Step, Begin, Open, Stamp, Stat, RemoveStale, Release, StampFails,
      UpdateThrows, Crash, Age, lockVars

\* No step makes the count of stale locks zero again.
LEMMA StalesGrow ==
  ASSUME LockTypeOK, [LockNext]_lockVars, stales' = 0
  PROVE  stales = 0
BY DEF LockNext, Step, Begin, Open, Stamp, Stat, RemoveStale, Read, Rename,
       Release,
       StampFails, UpdateThrows, Crash, Age, lockVars, bounds, LockTypeOK

\* The strengthening is inductive, however many locks go stale in the end.
THEOREM LockInvariance == LockSpec => []LockInv
<1>1. LockInv /\ [LockNext]_lockVars => LockInv'
  <2> SUFFICES ASSUME LockInv, [LockNext]_lockVars PROVE LockInv'
    OBVIOUS
  <2>1. LockTypeOK'
    BY LockTypeStep DEF LockInv
  <2>2. ASSUME stales' = 0 PROVE Protected'
    BY <2>2, StalesGrow, OwnerStep, UpToDateStep DEF LockInv, Protected
  <2> QED
    BY <2>1, <2>2 DEF LockInv
<1> QED
  BY <1>1, LockInitInv, PTL DEF LockSpec

\* Two processes never read the same old file and overwrite each other's
\* changes, as long as no lock file outlives the stale window.
THEOREM FreshLockKeepsUpdates ==
  ASSUME MaxStale = 0
  PROVE  LockSpec => NoLostUpdate
<1>1. LockInv /\ [LockNext]_lockVars => [file \subseteq file']_lockVars
  <2> SUFFICES ASSUME LockInv, LockNext PROVE file \subseteq file'
    OBVIOUS
  <2>1. Protected
    BY MaxStale = 0 DEF LockInv, LockTypeOK
  <2>2. ASSUME NEW a \in Actors, Rename(a) PROVE file \subseteq file'
    BY <2>1, <2>2 DEF Rename, Protected, UpToDate
  <2> QED
    BY <2>2
    DEF LockNext, Step, Begin, Open, Stamp, Stat, RemoveStale, Read, Release,
        StampFails, UpdateThrows, Crash, Age, disk
<1> QED
  BY <1>1, LockInvariance, PTL DEF LockSpec, NoLostUpdate

\* The protocol keeps its types, with stale locks too.
THEOREM LockTypeCorrect == LockSpec => []LockTypeOK
<1>1. LockInit => LockTypeOK
  BY LockInitInv DEF LockInv
<1> QED BY <1>1, LockTypeStep, PTL DEF LockSpec

-----------------------------------------------------------------------------
(* The refinement of BlacklistFile *)

\* What the owner is about to write is exactly the content it replaces, and the
\* updates in the file have been called.
Exact ==
  /\ \A a \in Actors : at[a] = "rename" => local[a] = file
  /\ \A u \in file : u[2] <= count[u[1]]
  /\ \A a \in Actors :
       at[a] \notin {"idle", "release", "dead"} => <<a, count[a]>> \notin file

LEMMA ExactStep ==
  ASSUME LockTypeOK, Protected, Exact, [LockNext]_lockVars
  PROVE  Exact'
<1> USE DEF Protected, LockTypeOK, Exact, Goto, disk, control, bounds, Outside,
            Inside
<1>0. ASSUME NEW u \in file PROVE u[1] \in Actors /\ u = <<u[1], u[2]>>
  BY DEF Updates
<1>1. ASSUME NEW a \in Actors, NEW upd \in BOOLEAN, Begin(a, upd)
      PROVE  Exact'
  <2>1. count' = [count EXCEPT ![a] = count[a] + 1] /\ file' = file
    BY <1>1 DEF Begin
  <2>2. <<a, count[a] + 1>> \notin file
    <3>1. ~(count[a] + 1 <= count[a])
      OBVIOUS
    <3> QED
      BY <3>1
  <2>3. \A u \in file : u[2] <= count'[u[1]]
    <3> TAKE u \in file
    <3>1. u[1] \in Actors /\ u[2] \in Nat
      BY DEF Updates
    <3> QED
      BY <2>1, <3>1
  <2> QED
    BY <1>1, <2>1, <2>2, <2>3 DEF Begin
<1>2. ASSUME NEW a \in Actors, Read(a) PROVE Exact'
  BY <1>2 DEF Read, UpToDate
<1>3. ASSUME NEW a \in Actors, Rename(a) PROVE Exact'
  <2>1. \A b \in Actors : at[b] = "rename" => b = a
    BY <1>3 DEF Rename, Owner
  <2>2. file' \subseteq file \cup {<<a, count[a]>>}
    BY <1>3 DEF Rename
  <2>3. UNCHANGED <<local, count>> /\ at' = [at EXCEPT ![a] = "release"]
    BY <1>3 DEF Rename
  <2> QED
    BY <2>1, <2>2, <2>3
<1>4. CASE /\ UNCHANGED <<file, local, count>>
           /\ \A a \in Actors : /\ at'[a] = "rename" => at[a] = "rename"
                                /\ at'[a] \notin {"idle", "release", "dead"}
                                     => at[a] \notin {"idle", "release", "dead"}
  BY <1>4
<1> QED
  BY <1>1, <1>2, <1>3, <1>4
  DEF LockNext, Step, Open, Stamp, Stat, RemoveStale, Release, StampFails,
      UpdateThrows, Crash, Age, lockVars

Over == {"idle", "release", "dead"}

\* A call that goes on stays pending,
LEMMA CallGoesOn ==
  ASSUME LockTypeOK, NEW a \in Actors, UNCHANGED <<updating, count>>,
         NEW there, there \notin Over, at[a] \notin Over,
         at' = [at EXCEPT ![a] = there]
  PROVE  Pending' = Pending
<1>1. \A b \in Actors : at'[b] \in Over <=> at[b] \in Over
  BY DEF LockTypeOK
<1> QED
  BY <1>1 DEF Pending, Over

\* and one that ends does not.
LEMMA CallEnds ==
  ASSUME LockTypeOK, NEW a \in Actors, UNCHANGED <<updating, count>>,
         NEW there \in Over, at' = [at EXCEPT ![a] = there]
  PROVE  Pending' = Pending \ {<<a, count[a]>>}
<1>1. \A b \in Actors : at'[b] \notin Over <=> at[b] \notin Over /\ b # a
  BY DEF LockTypeOK
<1>2. \A u : u \in Pending' <=> \E b \in Actors : /\ updating[b] /\ at'[b] \notin Over
                                                  /\ u = <<b, count[b]>>
  BY DEF Pending, Over
<1>3. \A u : u \in Pending <=> \E b \in Actors : /\ updating[b] /\ at[b] \notin Over
                                                 /\ u = <<b, count[b]>>
  BY DEF Pending, Over
<1>4. \A u : u \in Pending' <=> u \in Pending /\ u # <<a, count[a]>>
  BY <1>1, <1>2, <1>3
<1> QED
  BY <1>4

\* A call that ends without a change of the file has failed, or asked for none.
LEMMA FailedCall ==
  ASSUME LockTypeOK, NEW a \in Actors, UNCHANGED <<file, updating, count>>,
         NEW there \in Over, at' = [at EXCEPT ![a] = there]
  PROVE  [Abstract!Next]_(Abstract!vars)
<1>1. Pending' = Pending \ {<<a, count[a]>>}
  BY CallEnds
<1>2. <<a, count[a]>> \in Updates
  BY DEF LockTypeOK, Updates
<1>3. CASE <<a, count[a]>> \in Pending
  BY <1>1, <1>2, <1>3 DEF Abstract!Next, Abstract!Fail
<1>4. CASE <<a, count[a]>> \notin Pending
  BY <1>1, <1>4 DEF Abstract!vars
<1> QED
  BY <1>3, <1>4

\* A call starts with a number its process has not used.
LEMMA BeginStep ==
  ASSUME LockTypeOK, Exact, NEW a \in Actors, NEW upd \in BOOLEAN, Begin(a, upd)
  PROVE  [Abstract!Next]_(Abstract!vars)
<1> DEFINE new == <<a, count[a] + 1>>
<1>1. /\ at[a] = "idle" /\ UNCHANGED file
      /\ at' = [at EXCEPT ![a] = "open"]
      /\ updating' = [updating EXCEPT ![a] = upd]
      /\ count' = [count EXCEPT ![a] = count[a] + 1]
  BY DEF Begin, Goto, disk
<1>2. new \in Updates
  BY LockAssumption DEF Begin, LockTypeOK, Updates
<1>3. new \notin file
  <2>1. ~(count[a] + 1 <= count[a])
    BY DEF LockTypeOK
  <2> QED
    BY <2>1 DEF Exact
<1>4. new \notin Pending
  BY <1>1 DEF Pending
<1>5. \A b \in Actors : b # a => /\ at'[b] = at[b] /\ updating'[b] = updating[b]
                                 /\ count'[b] = count[b]
  BY <1>1 DEF LockTypeOK
<1>6. at'[a] = "open" /\ updating'[a] = upd /\ count'[a] = count[a] + 1
  BY <1>1 DEF LockTypeOK
<1>7. \A u : u \in Pending' <=> u \in Pending \/ (upd /\ u = new)
  <2> TAKE u
  <2>1. u \in Pending' <=> \E b \in Actors : /\ updating'[b] /\ at'[b] \notin Over
                                             /\ u = <<b, count'[b]>>
    BY DEF Pending, Over
  <2>2. u \in Pending <=> \E b \in Actors : /\ updating[b] /\ at[b] \notin Over
                                            /\ u = <<b, count[b]>>
    BY DEF Pending, Over
  <2>3. at'[a] \notin Over /\ at[a] \in Over
    BY <1>1, <1>6 DEF Over
  <2> QED
    BY <1>5, <1>6, <2>1, <2>2, <2>3
<1>8. CASE upd
  <2>1. Pending' = Pending \cup {new}
    BY <1>7, <1>8
  <2> QED
    BY <1>1, <1>2, <1>3, <1>4, <2>1 DEF Abstract!Next, Abstract!Request
<1>9. CASE ~upd
  <2>1. Pending' = Pending
    BY <1>7, <1>9
  <2> QED
    BY <1>1, <2>1 DEF Abstract!vars
<1> QED
  BY <1>8, <1>9

\* The rename is the step in which an update happens.
LEMMA RenameStep ==
  ASSUME LockTypeOK, Exact, NEW a \in Actors, Rename(a)
  PROVE  [Abstract!Next]_(Abstract!vars)
<1>1. Pending' = Pending \ {<<a, count[a]>>}
  BY CallEnds DEF Rename, Goto, Over
<1>2. local[a] = file /\ at[a] = "rename"
  BY DEF Rename, Exact
<1>3. <<a, count[a]>> \in Updates
  BY DEF LockTypeOK, Updates
<1>4. CASE updating[a]
  <2>1. <<a, count[a]>> \in Pending
    BY <1>2, <1>4 DEF Pending
  <2>2. file' = file \cup {<<a, count[a]>>}
    BY <1>2, <1>4 DEF Rename
  <2> QED
    BY <1>1, <1>3, <2>1, <2>2 DEF Abstract!Next, Abstract!Apply
<1>5. CASE ~updating[a]
  <2>1. file' = file
    BY <1>2, <1>5 DEF Rename
  <2> QED
    BY <1>1, <1>3, <2>1 DEF Abstract!Next, Abstract!Fail, Abstract!vars
<1> QED
  BY <1>4, <1>5

LEMMA RefinementStep ==
  ASSUME LockTypeOK, Exact, [LockNext]_lockVars
  PROVE  [Abstract!Next]_(Abstract!vars)
<1>1. ASSUME NEW a \in Actors, NEW upd \in BOOLEAN, Begin(a, upd)
      PROVE  [Abstract!Next]_(Abstract!vars)
  BY <1>1, BeginStep
<1>2. ASSUME NEW a \in Actors, Rename(a)
      PROVE  [Abstract!Next]_(Abstract!vars)
  BY <1>2, RenameStep
<1>3. ASSUME NEW a \in Actors,
             \/ Open(a) \/ Stamp(a) \/ Stat(a) \/ RemoveStale(a) \/ Read(a)
             \/ Release(a) \/ StampFails(a) \/ UpdateThrows(a) \/ Crash(a)
      PROVE  [Abstract!Next]_(Abstract!vars)
  <2>1. UNCHANGED <<file, updating, count>>
    BY <1>3 DEF Open, Stamp, Stat, RemoveStale, Read, Release, StampFails,
                UpdateThrows, Crash, disk
  <2>2. \E there : /\ at' = [at EXCEPT ![a] = there]
                   /\ there \in Over \/ (there \notin Over /\ at[a] \notin Over)
    BY <1>3 DEF Open, Stamp, Stat, RemoveStale, Read, Release, StampFails,
                UpdateThrows, Crash, Goto, Over
  <2>3. PICK there : /\ at' = [at EXCEPT ![a] = there]
                     /\ there \in Over \/ (there \notin Over /\ at[a] \notin Over)
    BY <2>2
  <2>4. CASE there \in Over
    BY <2>1, <2>3, <2>4, FailedCall
  <2>5. CASE there \notin Over
    <3>1. Pending' = Pending
      BY <2>1, <2>3, <2>5, CallGoesOn
    <3> QED
      BY <2>1, <3>1 DEF Abstract!vars
  <2> QED
    BY <2>3, <2>4, <2>5
<1>4. CASE Age \/ UNCHANGED lockVars
  BY <1>4 DEF Age, lockVars, control, Pending, Abstract!vars, disk
<1> QED
  BY <1>1, <1>2, <1>3, <1>4 DEF LockNext, Step

\* Until a lock file outlives the stale window, an update of the blacklist is one
\* step for everybody else: it adds its own change, once and while its call
\* lasts, to everything the file has.
THEOREM FreshLockIsAtomic == LockSpec => UpdatesAreAtomic
<1> DEFINE Refined == stales = 0 => Exact
<1>1. LockInit => Refined /\ Abstract!Init
  BY DEF LockInit, Exact, Abstract!Init, Pending
<1>2. LockInv /\ Refined /\ [LockNext]_lockVars => Refined'
  BY StalesGrow, ExactStep DEF LockInv
<1>3. LockInv /\ Refined /\ [LockNext]_lockVars
        => [stales' = 0 => [Abstract!Next]_(Abstract!vars)]_lockVars
  BY StalesGrow, RefinementStep DEF LockInv
<1> HIDE DEF Refined
<1> QED
  BY <1>1, <1>2, <1>3, LockInvariance, PTL DEF LockSpec, UpdatesAreAtomic

\* Where no lock file ever does, the protocol implements the abstract file.
THEOREM LockImplementsFile ==
  ASSUME MaxStale = 0
  PROVE  LockSpec => Abstract!Spec
<1>1. [stales' = 0 => [Abstract!Next]_(Abstract!vars)]_lockVars
        /\ LockTypeOK /\ LockTypeOK' => [Abstract!Next]_(Abstract!vars)
  <2>1. LockTypeOK' => stales' = 0
    BY MaxStale = 0 DEF LockTypeOK
  <2>2. UNCHANGED lockVars => UNCHANGED Abstract!vars
    BY DEF lockVars, disk, control, Abstract!vars, Pending
  <2> QED
    BY <2>1, <2>2
<1> QED
  BY <1>1, FreshLockIsAtomic, LockTypeCorrect, PTL
  DEF UpdatesAreAtomic, Abstract!Spec

-----------------------------------------------------------------------------
(* The journal of deposit freezes                                          *)

\* A cap the bot may find, or send, without losing track of the operator's.
Accounted(cap) == cap # operatorCap => OnRecord(cap)

\* The operator's cap is above any frozen one, so the two are told apart.
Apart == record # NoFreeze => operatorCap > record.frozen

\* What the pass has loaded is as much of a vault as the chain has, with a cap
\* that is accounted for.  The chain gets no other cap late while the record is
\* about to be dropped for the one loaded.
Cached ==
  /\ pc \in {"deciding", "sending"} => chain.listed = cached.listed
  /\ pc \in {"deciding", "sending", "rebalancing"} /\ cached.listed =>
       chain.listed /\ Accounted(cached.cap)
  /\ pc = "deciding" /\ ~excluded => chain.cap \in {cached.cap, operatorCap}

\* An update that is to be sent or recorded leaves the cap accounted for.
Updating ==
  pc \in {"sending", "recording"} =>
    /\ chain.listed
    /\ record.original = operatorCap
    /\ IF update.kind = "restore" THEN update.cap = operatorCap
                                  ELSE update.cap <= record.frozen
    /\ pc = "recording" => chain.cap \in {update.cap, operatorCap}

Safe == Journaled /\ Apart /\ Cached /\ Updating

\* What is sent and what is recorded is there, whatever lands late.
UpdateOnRecord ==
  pc \in {"sending", "recording"} => update # NoFreeze /\ record # NoFreeze

Typed == TypeOK /\ UpdateOnRecord

IInv == Typed /\ (~unnoticed => Safe)

LEMMA InitInv == Init => IInv
<1> SUFFICES ASSUME Init PROVE IInv
  OBVIOUS
<1>0. 0 \in Caps /\ 0 \in 0..MaxFaults /\ 0 \in 0..MaxChanges
  BY FreezeAssumption DEF Caps
<1>00. chain \in [listed : {TRUE}, cap : Caps, weighted : BOOLEAN, held : {0}]
  BY DEF Init
<1> USE FreezeAssumption
<1>1. chain \in Allocation /\ operatorCap \in Caps /\ operatorCap = chain.cap
  BY <1>0, <1>00 DEF Init, Allocation
<1>2. TypeOK
  BY <1>0, <1>1 DEF Init, TypeOK
<1> QED
  BY <1>1, <1>2
  DEF Init, IInv, Typed, UpdateOnRecord, Safe, Journaled, Accountable, Apart,
      Cached,
      Accounted, Updating

LEMMA TypeStep ==
  ASSUME Typed, [Next]_vars
  PROVE  Typed'
<1> USE FreezeAssumption DEF Typed, UpdateOnRecord, TypeOK, Fine, Fault,
                             passVars, UpdateKind
<1>1. ASSUME Load PROVE Typed'
  BY <1>1 DEF Load
<1>2. ASSUME NEW rec \in Record \cup {NoFreeze}, NEW upd \in Update \cup {NoFreeze},
             Decided(rec, upd), upd # NoFreeze => rec # NoFreeze
      PROVE  Typed'
  BY <1>2 DEF Decided
<1>3. ASSUME Freeze PROVE Typed'
  <2>1. [original |-> cached.cap, frozen |-> cached.held] \in Record
    BY DEF Allocation, Record
  <2>2. [kind |-> "freeze", cap |-> cached.held] \in Update
    BY DEF Allocation, Update
  <2> QED
    BY <1>2, <1>3, <2>1, <2>2 DEF Freeze
<1>4. ASSUME Lower PROVE Typed'
  <2>1. [kind |-> "lower", cap |-> cached.held] \in Update
    BY DEF Allocation, Update
  <2> QED
    BY <1>2, <1>4, <2>1 DEF Lower, Frozen
<1>5. ASSUME Resend PROVE Typed'
  <2>1. /\ [kind |-> "lower", cap |-> cached.held] \in Update
        /\ [kind |-> "freeze", cap |-> record.frozen] \in Update
    BY <1>5 DEF Resend, Allocation, Update, Record
  <2> QED
    BY <1>2, <1>5, <2>1 DEF Resend
<1>6. ASSUME Restore PROVE Typed'
  <2>1. [kind |-> "restore", cap |-> record.original] \in Update
    BY <1>6 DEF Restore, Frozen, Update, Record
  <2> QED
    BY <1>2, <1>6, <2>1 DEF Restore, Frozen
<1>7. ASSUME Drop \/ Keep PROVE Typed'
  BY <1>2, <1>7 DEF Drop, Keep
<1>8. ASSUME pc = "sending", Landed PROVE chain' \in Allocation
  <2>1. update.cap \in Caps /\ cached.weighted \in BOOLEAN
    BY <1>8 DEF Update, Allocation
  <2> QED
    BY <1>8, <2>1 DEF Landed, Allocation
<1>9. ASSUME Send PROVE Typed'
  BY <1>8, <1>9 DEF Send
<1>10. ASSUME RecordUpdate PROVE Typed'
  <2>1. [record EXCEPT !.frozen = update.cap] \in Record
    BY <1>10 DEF RecordUpdate, Update, Record
  <2> QED
    BY <1>10, <2>1 DEF RecordUpdate
<1>11. ASSUME Reload PROVE Typed'
  BY <1>11 DEF Reload
<1>12. ASSUME Rebalance PROVE Typed'
  <2>1. [chain EXCEPT !.cap = cached.cap, !.weighted = ~cached.weighted]
          \in Allocation
    BY DEF Allocation
  <2> QED
    BY <1>12, <2>1 DEF Rebalance
<1>13. ASSUME DecisionFails \/ RecordingFails \/ ReloadFails PROVE Typed'
  BY <1>13 DEF DecisionFails, RecordingFails, ReloadFails
<1>20. ASSUME SendFails \/ RebalanceFails \/ Restart PROVE Typed'
  <2>1. lingering' \subseteq LateUpdate
    <3>1. GiveUp
      BY <1>20 DEF SendFails, RebalanceFails, Restart
    <3>2. pc = "sending" =>
            [cap |-> update.cap, weighted |-> cached.weighted, nr |-> faults]
              \in LateUpdate
      BY DEF Update, LateUpdate, Allocation
    <3>3. [cap |-> cached.cap, weighted |-> ~cached.weighted, nr |-> faults]
            \in LateUpdate
      BY DEF LateUpdate, Allocation
    <3> QED BY <3>1, <3>2, <3>3 DEF GiveUp
  <2> QED BY <1>20, <2>1 DEF SendFails, RebalanceFails, Restart
<1>21. ASSUME NEW u \in lingering, LandLate(u) \/ Expire(u) PROVE Typed'
  <2>1. CASE LandLate(u)
    <3>1. chain' \in Allocation
      BY <2>1 DEF LandLate, Allocation, LateUpdate
    <3> QED BY <2>1, <3>1 DEF LandLate
  <2>2. CASE Expire(u)
    BY <2>2 DEF Expire
  <2> QED BY <1>21, <2>1, <2>2
<1>14. ASSUME LandsUnconfirmed PROVE Typed'
  BY <1>8, <1>14 DEF LandsUnconfirmed
<1>15. ASSUME Deposit PROVE Typed'
  BY <1>15 DEF Deposit, Allocation, Caps
<1>16. ASSUME Withdraw PROVE Typed'
  BY <1>16 DEF Withdraw, Allocation, Caps
<1>17. ASSUME OperatorSetsCap PROVE Typed'
  <2>1. PICK c \in Caps :
          /\ chain' = [chain EXCEPT !.listed = TRUE, !.cap = c]
          /\ operatorCap' = c
          /\ unnoticed' \in BOOLEAN
    BY <1>17 DEF OperatorSetsCap
  <2>2. chain' \in Allocation
    BY <2>1 DEF Allocation
  <2> QED
    BY <1>17, <2>1, <2>2 DEF OperatorSetsCap, Operator
<1>18. ASSUME OperatorDelists PROVE Typed'
  <2>1. chain' \in Allocation
    BY <1>18 DEF OperatorDelists, Allocation
  <2> QED
    BY <1>18, <2>1 DEF OperatorDelists, Operator
<1>19. CASE UNCHANGED vars
  BY <1>19 DEF vars
<1> QED
  BY <1>1, <1>3, <1>4, <1>5, <1>6, <1>7, <1>9, <1>10, <1>11, <1>12, <1>13,
     <1>14, <1>15, <1>16, <1>17, <1>18, <1>19, <1>20, <1>21
  DEF Next, PassStep, PassFault, Reconcile

-----------------------------------------------------------------------------
(* The cap stays accounted for                                             *)

\* A decision keeps the chain as it is, and records only what it must.
LEMMA DecideSafe ==
  ASSUME IInv, ~unnoticed, Reconcile
  PROVE  Safe'
<1> USE DEF IInv, Typed, UpdateOnRecord, TypeOK, Safe, Journaled, Accountable,
            OnRecord, Apart, Cached, Updating, Accounted,
            Frozen, Decided, Caps, Allocation, Record, Update
<1>1. CASE Freeze
  BY <1>1, FreezeAssumption DEF Freeze
<1>2. CASE Lower
  BY <1>2, FreezeAssumption DEF Lower
<1>3. CASE Resend
  BY <1>3, FreezeAssumption DEF Resend
<1>4. CASE Restore
  BY <1>4, FreezeAssumption DEF Restore
<1>5. CASE Drop
  BY <1>5, FreezeAssumption DEF Drop
<1>6. CASE Keep
  BY <1>6, FreezeAssumption DEF Keep
<1> QED
  BY <1>1, <1>2, <1>3, <1>4, <1>5, <1>6 DEF Reconcile

\* A send, confirmed or not, sets a cap the record accounts for.
LEMMA SendSafe ==
  ASSUME IInv, ~unnoticed, Send \/ LandsUnconfirmed
  PROVE  Safe'
<1>1. /\ chain'.cap = update.cap /\ chain'.listed = chain.listed
      /\ pc = "sending" /\ UNCHANGED <<lingering, operatorCap, record, cached, update>>
      /\ pc' \in {"reloading", "recording", "rebalancing"}
  BY DEF IInv, Typed, UpdateOnRecord, TypeOK, Allocation, Send, LandsUnconfirmed,
         Landed
<1> QED
  BY <1>1 DEF IInv, Typed, UpdateOnRecord, Safe, Journaled, Accountable,
              OnRecord, Apart, Cached, Updating, Accounted, Frozen

LEMMA RecordSafe ==
  ASSUME IInv, ~unnoticed, RecordUpdate
  PROVE  Safe'
<1> USE DEF IInv, Typed, UpdateOnRecord, TypeOK, Safe, Journaled, Accountable,
            OnRecord, Apart, Cached, Updating, Accounted,
            Frozen, RecordUpdate, Caps, Record, Update, UpdateKind
<1>1. CASE update.kind = "restore"
  BY <1>1
<1>2. CASE update.kind # "restore"
  <2>1. /\ record'.original = record.original
        /\ record'.frozen = update.cap /\ record' # NoFreeze
    BY <1>2, FreezeAssumption
  <2> QED
    BY <1>2, <2>1, FreezeAssumption
<1> QED
  BY <1>1, <1>2

\* What the rest of the pass does, and its failures.
LEMMA PassSafe ==
  ASSUME IInv, ~unnoticed, \/ Load \/ Reload \/ Rebalance
               \/ DecisionFails \/ RecordingFails \/ ReloadFails
  PROVE  Safe'
<1> USE DEF IInv, Typed, UpdateOnRecord, Safe, Journaled, Accountable, OnRecord,
            Apart, Cached, Updating, Accounted, Frozen
<1>1. CASE Load \/ Reload
  BY <1>1 DEF Load, Reload
<1>2. CASE Rebalance
  <2>1. CASE UNCHANGED chain
    BY <1>2, <2>1 DEF Rebalance
  <2>2. CASE /\ cached.listed /\ chain'.cap = cached.cap
             /\ chain'.listed = chain.listed
    BY <1>2, <2>2 DEF Rebalance
  <2> QED
    BY <1>2, <2>1, <2>2 DEF Rebalance, Reweighs, TypeOK, Allocation
<1>3. CASE DecisionFails \/ RecordingFails \/ ReloadFails
  BY <1>3 DEF DecisionFails, RecordingFails, ReloadFails
<1> QED
  BY <1>1, <1>2, <1>3

\* What is given up is not on chain yet.  When it lands, its cap is one that the
\* file accounts for and that no decision under way drops, or it is unnoticed.
LEMMA LateSafe ==
  ASSUME IInv, ~unnoticed, ~unnoticed',
         \/ SendFails \/ RebalanceFails \/ Restart
         \/ \E u \in lingering : LandLate(u) \/ Expire(u)
  PROVE  Safe'
<1> USE DEF IInv, Typed, UpdateOnRecord, Safe, Journaled, Accountable, OnRecord,
            Apart, Cached, Updating, Accounted, Frozen
<1>1. CASE SendFails \/ RebalanceFails \/ Restart
  BY <1>1 DEF SendFails, RebalanceFails, Restart
<1>2. ASSUME NEW u \in lingering, LandLate(u) PROVE Safe'
  <2>1. /\ chain'.listed = chain.listed /\ chain'.cap = u.cap
        /\ UNCHANGED <<operatorCap, record, pc, excluded, cached, update>>
        /\ u.cap # operatorCap =>
             OnRecord(u.cap) /\ ~(pc = "deciding" /\ ~excluded) /\ pc # "recording"
    BY <1>2 DEF LandLate, TypeOK, Allocation, passVars
  <2> QED BY <2>1
<1>3. ASSUME NEW u \in lingering, Expire(u) PROVE Safe'
  BY <1>3 DEF Expire, passVars
<1> QED BY <1>1, <1>2, <1>3

\* Deposits and withdrawals leave caps alone; the operator, who acts between
\* passes, sets a cap above a frozen one.
LEMMA OutsideSafe ==
  ASSUME IInv, ~unnoticed, ~unnoticed',
         Deposit \/ Withdraw \/ OperatorSetsCap \/ OperatorDelists
  PROVE  Safe'
<1> USE DEF IInv, Typed, UpdateOnRecord, TypeOK, Safe, Journaled, Accountable,
            OnRecord, Apart, Cached, Updating, Accounted,
            Frozen
<1>1. CASE Deposit \/ Withdraw
  <2>1. chain'.cap = chain.cap /\ chain'.listed = chain.listed
    BY <1>1 DEF Deposit, Withdraw, Allocation
  <2> QED
    BY <1>1, <2>1 DEF Deposit, Withdraw, passVars
<1>2. CASE OperatorSetsCap
  <2>1. PICK c \in Caps :
          /\ chain' = [chain EXCEPT !.listed = TRUE, !.cap = c]
          /\ operatorCap' = c
          /\ ~Frozen(c)
    BY <1>2 DEF OperatorSetsCap
  <2>2. chain'.cap = c
    BY <2>1 DEF Allocation
  <2>3. record # NoFreeze => c > record.frozen
    BY <2>1, FreezeAssumption DEF Caps, Record
  <2> QED
    BY <1>2, <2>1, <2>2, <2>3 DEF OperatorSetsCap, Operator, passVars
<1>3. CASE OperatorDelists
  <2>1. ~chain'.listed
    BY <1>3 DEF OperatorDelists, Allocation
  <2> QED
    BY <1>3, <2>1 DEF OperatorDelists, Operator, passVars
<1> QED
  BY <1>1, <1>2, <1>3

-----------------------------------------------------------------------------
(* Theorems                                                                *)

\* The strengthening is inductive.  Its second part ends with the first change of
\* a cap that the file cannot tell, for which there is no way back.
THEOREM Invariance == Spec => []IInv
<1>1. IInv /\ [Next]_vars => IInv'
  <2> SUFFICES ASSUME IInv, [Next]_vars, ~unnoticed' PROVE Safe'
    BY TypeStep DEF IInv
  <2>0. ~unnoticed
    BY DEF IInv, Typed, TypeOK, Next, vars, passVars, PassStep, PassFault, Load,
       Reconcile, Freeze, Lower, Resend, Restore, Drop, Keep, Decided, Send,
       RecordUpdate, Reload, Rebalance, DecisionFails, SendFails, LandsUnconfirmed,
       RecordingFails, ReloadFails, RebalanceFails, Restart, LandLate, Expire,
       Deposit, Withdraw, OperatorSetsCap, OperatorDelists
  <2>1. CASE UNCHANGED vars
    BY <2>0, <2>1 DEF vars, passVars, IInv, Safe, Journaled, Accountable,
                      OnRecord,
       Apart, Cached, Updating, Accounted, Frozen
  <2> QED
    BY <2>0, <2>1, DecideSafe, SendSafe, RecordSafe, PassSafe, LateSafe, OutsideSafe
    DEF Next, PassStep, PassFault
<1> QED
  BY <1>1, InitInv, PTL DEF Spec

\* Every variable keeps its type, whatever lands late and whatever the operator
\* does.
THEOREM TypeCorrect == Spec => []TypeOK
<1>1. IInv => TypeOK
  BY DEF IInv, Typed
<1> QED
  BY <1>1, Invariance, PTL

\* Up to the first change of a cap that the file cannot tell, the operator's cap
\* is on record whenever the chain has another one, so that a crash, a failure or
\* a late landing at any point leaves a freeze that can be undone.
THEOREM FreezeJournaled == Spec => []Journaled
<1>1. IInv => Journaled
  BY DEF IInv, Safe, Journaled
<1> QED
  BY <1>1, Invariance, PTL

\* Up to the same change, a restore that lands sets the cap the operator last set.
THEOREM RestoreExactCap == Spec => RestoresOperatorCap
<1>1. IInv /\ [Next]_vars =>
        [~unnoticed /\ pc = "sending" /\ update.kind = "restore" /\ pc' # "sending"
           /\ chain'.cap # chain.cap => chain'.cap = operatorCap]_vars
  <2> SUFFICES ASSUME IInv, Next, ~unnoticed, pc = "sending",
                      update.kind = "restore", pc' # "sending",
                      chain'.cap # chain.cap
               PROVE  chain'.cap = operatorCap
    OBVIOUS
  <2>1. CASE Send \/ LandsUnconfirmed
    BY <2>1 DEF Send, LandsUnconfirmed, Landed, IInv, Typed, TypeOK, Allocation,
                Safe, Updating
  <2> QED
    BY <2>1
    DEF Next, PassStep, PassFault, Load, Reconcile, Freeze, Lower, Resend,
        Restore, Drop, Keep, Decided, RecordUpdate, Reload, Rebalance,
        DecisionFails, SendFails, RecordingFails, ReloadFails, RebalanceFails,
        Restart, LandLate, Expire, Deposit, Withdraw, passVars, OperatorSetsCap,
        OperatorDelists, Operator
<1> QED
  BY <1>1, Invariance, PTL DEF Spec, RestoresOperatorCap

=============================================================================
