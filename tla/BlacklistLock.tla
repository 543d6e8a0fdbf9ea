------------------------------ MODULE BlacklistLock ------------------------------
(***************************************************************************)
(* Updates of the blacklist file under its lock file (blacklistStore.ts).  *)
(*                                                                         *)
(* The bot and the admin CLI are separate processes.  Every call here is   *)
(* synchronous, so within a process an update is never interleaved with    *)
(* another; between processes every system call is a step of its own, and  *)
(* a process may be killed between two of them.                            *)
(*                                                                         *)
(* The content of the file is the set of updates it is the result of.  An  *)
(* update is named by its process and its number.                          *)
(***************************************************************************)
EXTENDS Naturals

CONSTANTS
  Actors,      \* the processes: the bots and the CLI commands; none runs twice
  NoLock,      \* no lock file
  MaxUpdates,  \* bound: updates a process attempts
  MaxMishaps,   \* bound: processes killed and lock files that cannot be written
  Prompt,      \* whether an update always ends within the stale window
  MaxStale     \* bound: how often a lock file outlives the stale window

ASSUME LockAssumption ==
  /\ NoLock \notin [by : Actors, stale : BOOLEAN]
  /\ MaxUpdates \in Nat
  /\ MaxMishaps \in Nat
  /\ Prompt \in BOOLEAN
  /\ MaxStale \in Nat

VARIABLES
  lock,      \* the lock file: who created it, and whether it is older than 30 s
  present,   \* the blacklist file exists
  file,      \* its content
  at,        \* where each process is
  attempt,   \* the attempt of acquireBlacklistLock, 0 or 1
  updating,  \* the process runs updateBlacklistFile, not initBlacklistFile
  local,     \* the content each process has read
  count,     \* updates each process has attempted
  mishaps, stales

control == <<at, attempt, updating>>
disk == <<lock, present, file>>
bounds == <<mishaps, stales>>
lockVars == <<disk, control, local, count, bounds>>

Updates == Actors \X (0..MaxUpdates)
Locks == [by : Actors, stale : BOOLEAN]
Outside == {"idle", "open", "stat", "remove", "dead"}
Inside == {"stamp", "read", "rename", "release"}

LockTypeOK ==
  /\ lock \in Locks \cup {NoLock}
  /\ present \in BOOLEAN
  /\ file \subseteq Updates
  /\ at \in [Actors -> Outside \cup Inside]
  /\ attempt \in [Actors -> {0, 1}]
  /\ updating \in [Actors -> BOOLEAN]
  /\ local \in [Actors -> SUBSET Updates]
  /\ count \in [Actors -> 0..MaxUpdates]
  /\ mishaps \in 0..MaxMishaps
  /\ stales \in 0..MaxStale

LockInit ==
  /\ lock = NoLock
  /\ present \in BOOLEAN
  /\ file = {}
  /\ at = [a \in Actors |-> "idle"]
  /\ attempt = [a \in Actors |-> 0]
  /\ updating = [a \in Actors |-> FALSE]
  /\ local = [a \in Actors |-> {}]
  /\ count = [a \in Actors |-> 0]
  /\ mishaps = 0
  /\ stales = 0

Goto(a, there) == at' = [at EXCEPT ![a] = there]

\* updateBlacklistFile or initBlacklistFile is called.
Begin(a, update) ==
  /\ at[a] = "idle"
  /\ count[a] < MaxUpdates
  /\ count' = [count EXCEPT ![a] = @ + 1]
  /\ attempt' = [attempt EXCEPT ![a] = 0]
  /\ updating' = [updating EXCEPT ![a] = update]
  /\ Goto(a, "open")
  /\ UNCHANGED <<disk, local, bounds>>

\* openSync(lockPath, 'wx') creates the lock file or fails with EEXIST.
Open(a) ==
  /\ at[a] = "open"
  /\ \/ /\ lock = NoLock
        /\ lock' = [by |-> a, stale |-> FALSE]
        /\ Goto(a, "stamp")
     \/ /\ lock # NoLock
        /\ Goto(a, "stat")
        /\ UNCHANGED lock
  /\ UNCHANGED <<present, file, attempt, updating, local, count, bounds>>

\* The pid and the time are written to the lock, through the descriptor.
Stamp(a) ==
  /\ at[a] = "stamp"
  /\ lock' = IF lock # NoLock /\ lock.by = a THEN [lock EXCEPT !.stale = FALSE]
                                             ELSE lock
  /\ Goto(a, "read")
  /\ UNCHANGED <<present, file, attempt, updating, local, count, bounds>>

\* The write fails: the caller gets the error and the lock is left behind.
StampFails(a) ==
  /\ at[a] = "stamp"
  /\ mishaps < MaxMishaps
  /\ mishaps' = mishaps + 1
  /\ Goto(a, "idle")
  /\ UNCHANGED <<disk, attempt, updating, local, count, stales>>

\* Faulty variant of Stat: a stale lock is reported like any other.
StatNeverStale(a) ==
  /\ at[a] = "stat"
  /\ Goto(a, "idle")
  /\ UNCHANGED <<disk, attempt, updating, local, count, bounds>>

\* statSync(lockPath).  Without the file the open is tried once more; a stale
\* lock is removed on the first attempt; anything else throws.
Stat(a) ==
  /\ at[a] = "stat"
  /\ \/ /\ lock = NoLock /\ attempt[a] = 0
        /\ attempt' = [attempt EXCEPT ![a] = 1]
        /\ Goto(a, "open")
     \/ /\ lock # NoLock /\ lock.stale /\ attempt[a] = 0
        /\ Goto(a, "remove")
        /\ UNCHANGED attempt
     \/ /\ attempt[a] = 1 \/ (lock # NoLock /\ ~lock.stale)
        /\ Goto(a, "idle")
        /\ UNCHANGED attempt
  /\ UNCHANGED <<disk, updating, local, count, bounds>>

\* unlinkSync(lockPath), whatever the file is by now; without one it throws.
RemoveStale(a) ==
  /\ at[a] = "remove"
  /\ lock' = NoLock
  /\ IF lock = NoLock
       THEN Goto(a, "idle") /\ UNCHANGED attempt
       ELSE Goto(a, "open") /\ attempt' = [attempt EXCEPT ![a] = 1]
  /\ UNCHANGED <<present, file, updating, local, count, bounds>>

\* Faulty variant of Read: danger init does not look for a file.
ReadAnyway(a) ==
  /\ at[a] = "read"
  /\ local' = [local EXCEPT ![a] = IF updating[a] THEN file ELSE {}]
  /\ Goto(a, "rename")
  /\ UNCHANGED <<disk, attempt, updating, count, bounds>>

\* readBlacklistFile, or the existsSync of initBlacklistFile.
Read(a) ==
  /\ at[a] = "read"
  /\ local' = [local EXCEPT ![a] = IF updating[a] THEN file ELSE {}]
  /\ Goto(a, IF updating[a] \/ ~present THEN "rename" ELSE "release")
  /\ UNCHANGED <<disk, attempt, updating, count, bounds>>

\* The temp file is written and renamed onto the blacklist file.
Rename(a) ==
  /\ at[a] = "rename"
  /\ present' = TRUE
  /\ file' = IF updating[a] THEN local[a] \cup {<<a, count[a]>>} ELSE local[a]
  /\ Goto(a, "release")
  /\ UNCHANGED <<lock, attempt, updating, local, count, bounds>>

\* The read finds a corrupt file or the write fails; the lock is released.
UpdateThrows(a) ==
  /\ at[a] \in {"read", "rename"}
  /\ Goto(a, "release")
  /\ UNCHANGED <<disk, attempt, updating, local, count, bounds>>

\* closeSync and unlinkSync(lockPath), whatever the file is by now.
Release(a) ==
  /\ at[a] = "release"
  /\ lock' = NoLock
  /\ Goto(a, "idle")
  /\ UNCHANGED <<present, file, attempt, updating, local, count, bounds>>

\* The process is killed.  What it left on disk stays.
Crash(a) ==
  /\ at[a] # "dead"
  /\ mishaps < MaxMishaps
  /\ mishaps' = mishaps + 1
  /\ Goto(a, "dead")
  /\ UNCHANGED <<disk, attempt, updating, local, count, stales>>

\* The lock file exists and no process is going to release it.
LeftBehind ==
  lock # NoLock /\ \A a \in Actors : at[a] \in Outside

\* The stale window passes.
Age ==
  /\ lock # NoLock
  /\ ~lock.stale
  /\ Prompt => LeftBehind
  /\ stales < MaxStale
  /\ stales' = stales + 1
  /\ lock' = [lock EXCEPT !.stale = TRUE]
  /\ UNCHANGED <<present, file, control, local, count, mishaps>>

Step(a) ==
  \/ Open(a)
  \/ Stamp(a)
  \/ Stat(a)
  \/ RemoveStale(a)
  \/ Read(a)
  \/ Rename(a)
  \/ Release(a)

LockNext ==
  \/ \E a \in Actors :
       \/ \E update \in BOOLEAN : Begin(a, update)
       \/ Step(a)
       \/ StampFails(a)
       \/ UpdateThrows(a)
       \/ Crash(a)
  \/ Age

LockSpec == LockInit /\ [][LockNext]_lockVars

\* A process finishes the calls it has begun, and time passes.
Fairness ==
  /\ \A a \in Actors : WF_lockVars(Step(a))
  /\ WF_lockVars(Age)

FairLockSpec == LockSpec /\ Fairness

-----------------------------------------------------------------------------
(* Properties                                                              *)

\* No update and no `danger init` overwrites the changes of another: every
\* content of the file contains all the updates written before.
NoLostUpdate == [][file \subseteq file']_lockVars

\* The updates that have been called and have neither written nor failed.
Pending ==
  {<<a, count[a]>> :
     a \in {b \in Actors : updating[b] /\ at[b] \notin {"idle", "release", "dead"}}}

Abstract == INSTANCE BlacklistFile WITH pending <- Pending

\* The lock makes an update one step: whatever the other processes do between
\* its system calls, it adds its own change, once, to everything the file has,
\* and an update that threw or whose process died changes nothing later.  This
\* holds of every step up to the first lock file that outlives the stale window.
UpdatesAreAtomic ==
  /\ Abstract!Init
  /\ [][stales' = 0 => [Abstract!Next]_(Abstract!vars)]_lockVars

\* A lock left behind by a crash is recoverable: a call that comes after the
\* stale window removes it, or finds it removed, unless it is killed itself.
LockRecovered ==
  \A a \in Actors :
    (LeftBehind /\ lock.stale /\ at[a] = "open" /\ attempt[a] = 0)
      ~> (~LeftBehind \/ at[a] = "dead")

=============================================================================
