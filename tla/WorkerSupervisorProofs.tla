------------------------- MODULE WorkerSupervisorProofs -------------------------
(***************************************************************************)
(* One worker, honest readiness and the order of the shutdown, for every   *)
(* restart budget, every length of the inbox and a signal at any time: one *)
(* that comes before the first worker is the case `early`, in which that   *)
(* worker is started and not stopped (WorkerSupervisor_early.cfg shows it).*)
(* And what bounds the restarts: the budget and the completed passes.      *)
(***************************************************************************)
EXTENDS WorkerSupervisor, FiniteSetTheorems, TLAPS

WorkerTypeOK ==
  /\ worker \in Worker
  /\ started \in BOOLEAN /\ pendingRestart \in BOOLEAN
  /\ dangerFailing \in BOOLEAN /\ ready \in BOOLEAN /\ loaded \in BOOLEAN
  /\ early \in BOOLEAN
  /\ beat \in [Loops -> {"none", "fresh", "stale"}]
  /\ shutdown \in {"no", "stopping", "closing", "exited"}
  /\ lastReady \in {"unset", "ready", "notReady"}

\* The exit is the last message of a worker, and one that is over has left none.
Posts ==
  /\ inbox \in Seq(Message)
  /\ \A i \in 1..Len(inbox) :
       inbox[i] = "exit" => i = Len(inbox) /\ worker.status = "exited"
  /\ worker.status = "exited" => Len(inbox) > 0 /\ inbox[Len(inbox)] = "exit"
  /\ worker.status \in {"none", "gone"} => Len(inbox) = 0

\* A restart is only pending between two workers, and start-up has come to the
\* worker before a shutdown begins, unless the signal was early.
Supervised ==
  /\ started <=> worker.status # "none"
  /\ pendingRestart => worker.status = "gone" /\ shutdown = "no"
  /\ shutdown # "no" => started \/ early
  /\ early => shutdown # "no"

\* Whatever tells the main thread that the loop works has loaded a vault, or has
\* none to load.
Evidence ==
  /\ worker.phase \in {"assessing", "rebalancing", "sleeping", "idle"} => loaded
  /\ worker.checkpoint => loaded
  /\ \A i \in 1..Len(inbox) : inbox[i] \in {"heartbeat", "pass-completed"} => loaded
  /\ beat["allocation"] # "none" => loaded

\* Readiness is what was published last, except in a shutdown.
Published ==
  /\ ready => lastReady = "ready" /\ shutdown = "no" /\ loaded
  /\ shutdown = "no" /\ lastReady = "ready" => ready
  /\ GivenUp => ~ready /\ beat["allocation"] = "none"

IInv ==
  /\ WorkerTypeOK
  /\ Posts
  /\ Supervised
  /\ Evidence
  /\ Published
  /\ WorkerStopsFirst

\* A field of a worker is set to a value of its own.
LEMMA Fields ==
  ASSUME NEW w \in Worker
  PROVE  /\ \A b \in BOOLEAN : [w EXCEPT !.checkpoint = b] \in Worker
         /\ \A n \in 0..EscalationPasses : [w EXCEPT !.failures = n] \in Worker
         /\ \A r \in {"unset", "failing", "fine"} : [w EXCEPT !.reported = r] \in Worker
         /\ \A p \in Phases : [w EXCEPT !.phase = p] \in Worker
BY DEF Worker

\* A new tracker counts from zero and leaves the thread alone.
LEMMA TrackerFields ==
  ASSUME NEW w \in Worker
  PROVE  /\ NewTracker(w) \in Worker
         /\ NewTracker(w).status = w.status /\ NewTracker(w).phase = w.phase
         /\ NewTracker(w).told = w.told /\ ~NewTracker(w).checkpoint
<1>1. [w EXCEPT !.checkpoint = FALSE] \in Worker
  BY Fields
<1>2. 0 \in 0..EscalationPasses
  BY SupervisorAssumption
<1>3. [w EXCEPT !.checkpoint = FALSE, !.failures = 0] \in Worker
  BY <1>1, <1>2, Fields
<1>4. [w EXCEPT !.checkpoint = FALSE, !.failures = 0, !.reported = "unset"] \in Worker
  BY <1>3, Fields
<1>5. ASSUME NEW t, t = NewTracker(w)
      PROVE  t.status = w.status /\ t.phase = w.phase /\ t.told = w.told /\ ~t.checkpoint
  BY <1>5 DEF NewTracker, Worker
<1> QED BY <1>4, <1>5 DEF NewTracker

LEMMA NewWorkerFields ==
  /\ NewWorker \in Worker /\ NewWorker.status = "alive" /\ NewWorker.phase = "booting"
  /\ ~NewWorker.told /\ ~NewWorker.checkpoint
<1> DEFINE w == [status |-> "alive", phase |-> "booting", told |-> FALSE,
                 checkpoint |-> FALSE, failures |-> 0, reported |-> "unset"]
<1>1. w \in Worker /\ w.status = "alive" /\ w.phase = "booting" /\ ~w.told
  BY SupervisorAssumption DEF Worker, Phases
<1>2. NewWorker = NewTracker(w)
  BY DEF NewWorker
<1> HIDE DEF w
<1> QED BY <1>1, <1>2, TrackerFields

LEMMA InitHolds == Init => IInv
<1> SUFFICES ASSUME Init PROVE IInv
  OBVIOUS
<1>1. worker \in Worker /\ worker.status = "none" /\ worker.phase = "booting"
      /\ ~worker.checkpoint
  <2>1. worker = [NewWorker EXCEPT !.status = "none"]
    BY DEF Init
  <2> QED BY <2>1, NewWorkerFields DEF Worker
<1>2. Posts /\ Len(inbox) = 0
  BY <1>1 DEF Init, Posts
<1>3. beat \in [Loops -> {"none", "fresh", "stale"}] /\ beat["allocation"] = "none"
  BY DEF Init, Loops
<1>4. WorkerTypeOK /\ Supervised /\ WorkerStopsFirst
  BY <1>1, <1>3 DEF Init, WorkerTypeOK, Supervised, WorkerStopsFirst, StoppedFirst
<1>5. Evidence /\ Published
  BY <1>1, <1>2, <1>3 DEF Init, Evidence, Published, GivenUp
<1> QED BY <1>2, <1>4, <1>5 DEF IInv

\* A message other than the exit is posted behind the others.
LEMMA PostKeeps ==
  ASSUME Posts, NEW messages \in Seq(Message \ {"exit"}), inbox' = inbox \o messages,
         worker.status = "alive", worker'.status = "alive",
         Len(messages) <= 1
  PROVE  Posts'
BY DEF Posts, Message

\* The exit of a worker is posted behind its other messages.
LEMMA ExitKeeps ==
  ASSUME Posts, NEW messages, messages = <<"exit">> \/ messages = <<"error", "exit">>,
         inbox' = inbox \o messages,
         worker.status = "alive", worker'.status = "exited"
  PROVE  Posts'
<1>1. CASE messages = <<"exit">>
  BY <1>1 DEF Posts, Message
<1>2. CASE messages = <<"error", "exit">>
  BY <1>2 DEF Posts, Message
<1> QED BY <1>1, <1>2

\* What a step of the worker may do: the main thread's state stays, and nothing
\* says that the loop works before a vault is loaded.
LEMMA WorkerActs ==
  ASSUME IInv, worker' \in Worker, loaded' \in BOOLEAN, Posts', loaded => loaded',
         worker.status = "alive", worker'.status \in {"alive", "exited"},
         UNCHANGED <<supVars, healthVars, shutdown, early>>,
         worker'.phase \in {"assessing", "rebalancing", "sleeping", "idle"} => loaded',
         worker'.checkpoint => loaded',
         NEW messages, messages \in Seq(Message), inbox' = inbox \o messages,
         \A i \in 1..Len(messages) :
           messages[i] \in {"heartbeat", "pass-completed"} => loaded'
  PROVE  IInv'
<1> USE DEF IInv, supVars, healthVars
<1>1. WorkerTypeOK'
  BY DEF WorkerTypeOK
<1>2. Supervised'
  BY DEF Supervised
<1>3. Evidence'
  <2>1. ASSUME NEW i \in 1..Len(inbox'), inbox'[i] \in {"heartbeat", "pass-completed"}
        PROVE  loaded'
    <3>1. CASE i \in 1..Len(inbox)
      BY <2>1, <3>1 DEF Posts, Evidence
    <3>2. CASE i \notin 1..Len(inbox)
      <4>1. i - Len(inbox) \in 1..Len(messages) /\ inbox'[i] = messages[i - Len(inbox)]
        BY <2>1, <3>2 DEF Posts
      <4> QED BY <2>1, <4>1
    <3> QED BY <3>1, <3>2
  <2> QED BY <2>1 DEF Evidence
<1>4. Published'
  BY DEF Published, GivenUp
<1>5. WorkerStopsFirst'
  BY DEF WorkerStopsFirst, StoppedFirst, Supervised
<1> QED BY <1>1, <1>2, <1>3, <1>4, <1>5

\* Posting one message or none.
LEMMA PostsOne ==
  ASSUME IInv, NEW messages, Post(messages),
         messages = <<>> \/ \E m \in Message \ {"exit"} : messages = <<m>>,
         worker.status = "alive", worker'.status = "alive"
  PROVE  /\ Posts' /\ messages \in Seq(Message)
         /\ inbox' = inbox \o messages
<1>1. CASE messages = <<>>
  <2>1. messages \in Seq(Message \ {"exit"}) /\ messages \in Seq(Message) /\ Len(messages) <= 1
    BY <1>1
  <2> QED BY <2>1, PostKeeps DEF Post, IInv
<1>2. ASSUME NEW m \in Message \ {"exit"}, messages = <<m>>
      PROVE  Posts' /\ messages \in Seq(Message) /\ inbox' = inbox \o messages
  <2>1. messages \in Seq(Message \ {"exit"}) /\ messages \in Seq(Message) /\ Len(messages) <= 1
    BY <1>2
  <2> QED BY <2>1, PostKeeps DEF Post, IInv
<1> QED BY <1>1, <1>2

LEMMA FailureKeeps ==
  ASSUME IInv, NEW before \in Phases, NEW after \in Phases,
         Working(before), RecordFailure(after), UNCHANGED loaded,
         after \in {"assessing", "rebalancing", "sleeping", "idle"} => loaded
  PROVE  IInv'
<1>1. PICK messages : Post(messages) /\ (messages = <<>> \/ messages = <<"danger-failing">>)
  BY DEF RecordFailure
<1>2. worker' \in Worker /\ worker'.status = "alive" /\ worker'.phase = after
      /\ worker'.checkpoint = worker.checkpoint
  <2>1. PICK n \in 0..EscalationPasses, r \in {"unset", "failing", "fine"} :
          worker' = [worker EXCEPT !.failures = n, !.phase = after, !.reported = r]
    <3> DEFINE n == IF worker.failures < EscalationPasses THEN worker.failures + 1
                    ELSE EscalationPasses
               r == IF n = EscalationPasses /\ worker.reported # "failing" THEN "failing"
                    ELSE worker.reported
    <3>1. n \in 0..EscalationPasses
      BY SupervisorAssumption DEF IInv, WorkerTypeOK, Worker
    <3>2. r \in {"unset", "failing", "fine"}
      BY DEF IInv, WorkerTypeOK, Worker
    <3>3. worker' = [worker EXCEPT !.failures = n, !.phase = after, !.reported = r]
      BY DEF RecordFailure
    <3> HIDE DEF n, r
    <3> QED BY <3>1, <3>2, <3>3
  <2>2. worker \in Worker /\ worker.status = "alive"
    BY DEF IInv, WorkerTypeOK, Working
  <2>3. [worker EXCEPT !.failures = n] \in Worker
    BY <2>2, Fields
  <2>4. [worker EXCEPT !.failures = n, !.phase = after] \in Worker
    BY <2>3, Fields
  <2>5. [worker EXCEPT !.failures = n, !.phase = after, !.reported = r] \in Worker
    BY <2>4, Fields
  <2>6. worker'.status = "alive" /\ worker'.phase = after
        /\ worker'.checkpoint = worker.checkpoint
    BY <2>1, <2>2 DEF Worker
  <2> QED BY <2>1, <2>5, <2>6
<1>3. Posts' /\ messages \in Seq(Message) /\ inbox' = inbox \o messages
  <2>1. messages = <<>> \/ \E m \in Message \ {"exit"} : messages = <<m>>
    BY <1>1 DEF Message
  <2> QED BY <1>1, <1>2, <2>1, PostsOne DEF Working
<1>4. \A i \in 1..Len(messages) : messages[i] \notin {"heartbeat", "pass-completed"}
  BY <1>1
<1> QED BY <1>2, <1>3, <1>4, WorkerActs DEF IInv, WorkerTypeOK, Working, Evidence

\* The steps of the worker that leave its loop running.
LEMMA LoopStep ==
  ASSUME IInv, PassStep \/ Beat \/ LoopThrows, ~Return
  PROVE  IInv'
<1> USE DEF Working
<1>1. WorkerTypeOK /\ Evidence /\ Posts
  BY DEF IInv
<1>2. inbox = inbox \o <<>> /\ <<>> \in Seq(Message) /\ 1..Len(<<>>) = {}
  BY <1>1 DEF Posts
<1>3. ASSUME UNCHANGED inbox, worker'.status = worker.status PROVE Posts'
  BY <1>1, <1>3 DEF Posts
<1>4. CASE Boot \/ Wake
  <2>1. worker' \in Worker /\ worker'.status = "alive" /\ worker'.phase = "loading"
        /\ worker'.checkpoint = worker.checkpoint
    BY <1>1, <1>4 DEF Boot, Wake, WorkerTypeOK, Worker, Phases
  <2>2. UNCHANGED <<inbox, loaded, supVars, healthVars, shutdown, early>> /\ worker.status = "alive"
    BY <1>4 DEF Boot, Wake
  <2> QED BY <1>1, <1>2, <1>3, <2>1, <2>2, WorkerActs DEF WorkerTypeOK, Evidence
<1>5. CASE LoadVaults
  <2>1. worker' \in Worker /\ worker'.status = "alive"
        /\ worker'.checkpoint = worker.checkpoint
    BY <1>1, <1>5 DEF LoadVaults, WorkerTypeOK, Worker, Phases
  <2>2. loaded' /\ UNCHANGED <<inbox, supVars, healthVars, shutdown, early>>
        /\ worker.status = "alive" /\ loaded' \in BOOLEAN
    BY <1>5 DEF LoadVaults
  <2> QED BY <1>2, <1>3, <2>1, <2>2, WorkerActs
<1>6. CASE LoadFails
  BY <1>6, FailureKeeps DEF LoadFails, Phases
<1>7. CASE DangerFails
  BY <1>1, <1>7, FailureKeeps DEF DangerFails, Phases, Evidence
<1>8. CASE DangerSucceeds
  <2>1. PICK messages : Post(messages) /\ (messages = <<>> \/ messages = <<"danger-recovered">>)
    BY <1>8 DEF DangerSucceeds
  <2>2. worker' \in Worker /\ worker'.status = "alive" /\ loaded /\ loaded'
        /\ worker.status = "alive" /\ loaded' \in BOOLEAN
        /\ UNCHANGED <<supVars, healthVars, shutdown, early>>
    <3>1. worker' = [worker EXCEPT !.failures = 0, !.reported = "fine", !.checkpoint = TRUE,
                                   !.phase = "rebalancing"]
      BY <1>8 DEF DangerSucceeds
    <3>2. worker \in Worker /\ 0 \in 0..EscalationPasses /\ "rebalancing" \in Phases
      BY <1>1, SupervisorAssumption DEF WorkerTypeOK, Phases
    <3>3. [worker EXCEPT !.failures = 0] \in Worker
      BY <3>2, Fields
    <3>4. [worker EXCEPT !.failures = 0, !.reported = "fine"] \in Worker
      BY <3>3, Fields
    <3>5. [worker EXCEPT !.failures = 0, !.reported = "fine", !.checkpoint = TRUE] \in Worker
      BY <3>4, Fields
    <3>6. worker' \in Worker
      BY <3>1, <3>2, <3>5, Fields
    <3>7. worker'.status = worker.status
      BY <3>1, <3>2 DEF Worker
    <3> QED BY <1>1, <1>8, <3>6, <3>7 DEF DangerSucceeds, Evidence
  <2>3. messages = <<>> \/ \E m \in Message \ {"exit"} : messages = <<m>>
    BY <2>1 DEF Message
  <2>4. Posts' /\ messages \in Seq(Message) /\ inbox' = inbox \o messages
    BY <2>1, <2>2, <2>3, PostsOne
  <2> QED BY <2>2, <2>4, WorkerActs
<1>9. CASE CompletePass
  <2>1. Post(<<"pass-completed">>) /\ \E m \in Message \ {"exit"} : <<"pass-completed">> = <<m>>
    BY <1>9 DEF CompletePass, Message
  <2>2. worker' \in Worker /\ worker'.status = "alive" /\ loaded /\ loaded'
        /\ worker.status = "alive" /\ loaded' \in BOOLEAN
        /\ UNCHANGED <<supVars, healthVars, shutdown, early>>
    BY <1>1, <1>9 DEF CompletePass, WorkerTypeOK, Worker, Phases, Evidence
  <2>3. Posts' /\ <<"pass-completed">> \in Seq(Message)
        /\ inbox' = inbox \o <<"pass-completed">>
    BY <2>1, <2>2, PostsOne
  <2> QED BY <2>2, <2>3, WorkerActs
<1>10. CASE Beat
  <2>1. Post(<<"heartbeat">>) /\ \E m \in Message \ {"exit"} : <<"heartbeat">> = <<m>>
    BY <1>10 DEF Beat, Message
  <2>2. UNCHANGED <<worker, loaded, supVars, healthVars, shutdown, early>> /\ loaded
        /\ worker.status = "alive"
    BY <1>1, <1>10 DEF Beat, Evidence, WorkerTypeOK, Phases
  <2>3. Posts' /\ <<"heartbeat">> \in Seq(Message) /\ inbox' = inbox \o <<"heartbeat">>
    BY <2>1, <2>2, PostsOne
  <2> QED BY <1>1, <2>2, <2>3, WorkerActs DEF WorkerTypeOK
<1>11. CASE LoopThrows
  <2>1. worker' \in Worker /\ worker'.status = "alive" /\ worker'.phase = "booting"
        /\ ~worker'.checkpoint
    <3>1. worker' = NewTracker([worker EXCEPT !.phase = "booting"])
      BY <1>11 DEF LoopThrows
    <3>2. [worker EXCEPT !.phase = "booting"] \in Worker
          /\ [worker EXCEPT !.phase = "booting"].status = "alive"
          /\ [worker EXCEPT !.phase = "booting"].phase = "booting"
      BY <1>1, <1>11 DEF LoopThrows, WorkerTypeOK, Worker, Phases
    <3> QED BY <3>1, <3>2, TrackerFields
  <2>2. UNCHANGED <<inbox, loaded, supVars, healthVars, shutdown, early>> /\ worker.status = "alive"
    BY <1>11 DEF LoopThrows
  <2> QED BY <1>1, <1>2, <1>3, <2>1, <2>2, WorkerActs DEF WorkerTypeOK
<1>12. CASE BootIdle
  <2>1. worker' \in Worker /\ worker'.status = "alive"
        /\ worker'.checkpoint = worker.checkpoint
    BY <1>1, <1>12 DEF BootIdle, WorkerTypeOK, Worker, Phases
  <2>2. loaded' /\ UNCHANGED <<inbox, supVars, healthVars, shutdown, early>>
        /\ worker.status = "alive" /\ loaded' \in BOOLEAN
    BY <1>12 DEF BootIdle
  <2> QED BY <1>2, <1>3, <2>1, <2>2, WorkerActs
<1> QED BY <1>4, <1>5, <1>6, <1>7, <1>8, <1>9, <1>10, <1>11, <1>12 DEF PassStep

\* The steps that end the worker's thread.
LEMMA ThreadEnds ==
  ASSUME IInv, Return \/ Dies \/ Terminate
  PROVE  IInv'
<1>1. worker.status = "alive" /\ worker' = [worker EXCEPT !.status = "exited"]
      /\ UNCHANGED <<supVars, healthVars, shutdown, loaded, early>>
  BY DEF Return, Dies, Terminate, Working
<1>2. worker' \in Worker /\ worker'.status = "exited" /\ worker'.phase = worker.phase
      /\ worker'.checkpoint = worker.checkpoint
  BY <1>1 DEF IInv, WorkerTypeOK, Worker
<1>3. PICK messages : inbox' = inbox \o messages
        /\ (messages = <<"exit">> \/ messages = <<"error", "exit">>)
  BY DEF Return, Dies, Terminate, Posted
<1>4. messages \in Seq(Message)
      /\ \A i \in 1..Len(messages) : messages[i] \notin {"heartbeat", "pass-completed"}
  BY <1>3 DEF Message
<1>5. Posts'
  BY <1>1, <1>2, <1>3, ExitKeeps DEF IInv
<1> QED BY <1>1, <1>2, <1>3, <1>4, <1>5, WorkerActs DEF IInv, WorkerTypeOK, Evidence

\* What readiness is when something on the main thread changes: the loops that
\* beat, and what the supervisor knows of the worker.
LEMMA Publishes ==
  ASSUME WorkerTypeOK, WorkerTypeOK', Published, NEW beats, NEW failing, Publish(beats, failing),
         beats = beat', beat'["allocation"] # "none" => loaded, UNCHANGED <<loaded, shutdown, early>>,
         GivenUp' => beat'["allocation"] = "none"
  PROVE  Published'
<1>1. Loops # {} /\ "allocation" \in Loops
  BY DEF Loops
<1>2. CASE shutdown = "no" /\ (\A l \in Loops : beats[l] = "fresh") /\ ~failing
  BY <1>1, <1>2 DEF Publish, Published, WorkerTypeOK
<1>3. CASE ~(shutdown = "no" /\ (\A l \in Loops : beats[l] = "fresh") /\ ~failing)
  BY <1>3 DEF Publish, Published, WorkerTypeOK
<1> QED BY <1>2, <1>3

\* Publishing keeps the types.
LEMMA PublishTypes ==
  ASSUME WorkerTypeOK, NEW beats, NEW failing, Publish(beats, failing)
  PROVE  ready' \in BOOLEAN /\ lastReady' \in {"unset", "ready", "notReady"}
<1> DEFINE r == shutdown = "no" /\ (\A l \in Loops : beats[l] = "fresh") /\ ~failing
<1>1. CASE r
  BY <1>1 DEF Publish, WorkerTypeOK
<1>2. CASE ~r
  BY <1>2 DEF Publish, WorkerTypeOK
<1> QED BY <1>1, <1>2

\* The main thread on its own.
LEMMA MainStep ==
  ASSUME IInv, InvestBeats \/ InvestFails \/ (\E l \in Loops : Stale(l)) \/ Monitor
  PROVE  IInv'
<1>1. UNCHANGED <<worker, inbox, started, restartCount, pendingRestart, shutdown, loaded, early>>
      /\ UNCHANGED dangerFailing
  BY DEF InvestBeats, InvestFails, Stale, Monitor, Marked, MainAlone, supVars
<1>2. beat' \in [Loops -> {"none", "fresh", "stale"}]
      /\ (beat'["allocation"] # "none" <=> beat["allocation"] # "none")
  BY DEF InvestBeats, InvestFails, Stale, Monitor, Marked, MainAlone, IInv, WorkerTypeOK, Loops
<1>3. WorkerTypeOK' /\ Published'
  <2>1. CASE \E l \in Loops : Stale(l)
    BY <1>1, <1>2, <2>1 DEF Stale, IInv, WorkerTypeOK, Published, GivenUp
  <2>2. CASE InvestBeats \/ InvestFails \/ Monitor
    <3>1. PICK beats : Publish(beats, dangerFailing) /\ beats = beat'
      BY <2>2 DEF InvestBeats, InvestFails, Monitor, Marked
    <3>2. WorkerTypeOK'
      BY <1>1, <1>2, <3>1, PublishTypes DEF IInv, WorkerTypeOK
    <3>3. GivenUp' => beat'["allocation"] = "none"
      BY <1>1, <1>2 DEF GivenUp, IInv, Published
    <3> QED BY <1>1, <1>2, <3>1, <3>2, <3>3, Publishes DEF IInv, Evidence
  <2> QED BY <2>1, <2>2
<1>4. Posts' /\ Supervised' /\ Evidence' /\ WorkerStopsFirst'
  BY <1>1, <1>2 DEF IInv, Posts, Supervised, Evidence, WorkerStopsFirst, StoppedFirst
<1> QED BY <1>3, <1>4 DEF IInv

\* A message that is not the exit is taken off the inbox.
LEMMA TakeKeeps ==
  ASSUME IInv, NEW m \in Message \ {"exit"}, HandleMessage(m), UNCHANGED worker
  PROVE  /\ Posts'
         /\ \A i \in 1..Len(inbox') : inbox'[i] \in {"heartbeat", "pass-completed"} => loaded
         /\ m \in {"heartbeat", "pass-completed"} => loaded
         /\ worker.status \notin {"none", "gone"}
<1>1. Len(inbox) > 0 /\ inbox[1] = m /\ inbox' \in Seq(Message)
      /\ Len(inbox') = Len(inbox) - 1
      /\ \A i \in 1..Len(inbox') : inbox'[i] = inbox[i + 1] /\ i + 1 \in 1..Len(inbox)
  BY DEF HandleMessage, IInv, Posts
<1> QED BY <1>1 DEF IInv, Posts, Evidence

\* Messages of a worker that goes on.
LEMMA MessageStep ==
  ASSUME IInv, HandleHeartbeat \/ HandlePassCompleted \/ HandleDangerStatus \/ HandleError
  PROVE  IInv'
<1>1. PICK m \in Message \ {"exit"} : HandleMessage(m)
        /\ (HandleHeartbeat => m = "heartbeat")
        /\ (HandlePassCompleted => m = "pass-completed")
  BY DEF HandleHeartbeat, HandlePassCompleted, HandleDangerStatus, HandleError, Message,
         HandleMessage
<1>2. UNCHANGED <<worker, started, pendingRestart, shutdown, loaded, early>>
  BY DEF HandleHeartbeat, HandlePassCompleted, HandleDangerStatus, HandleError,
         HandleMessage, healthVars
<1>3. /\ beat' \in [Loops -> {"none", "fresh", "stale"}] /\ dangerFailing' \in BOOLEAN
      /\ beat'["allocation"] # "none" => loaded
  BY <1>1, TakeKeeps
  DEF HandleHeartbeat, HandlePassCompleted, HandleDangerStatus, HandleError, Marked,
      DangerStatus, healthVars, IInv, WorkerTypeOK, Evidence, Loops
<1>4. ~GivenUp'
  BY <1>1, <1>2, TakeKeeps DEF GivenUp
<1>5. WorkerTypeOK' /\ Published'
  <2>1. CASE UNCHANGED healthVars
    BY <1>2, <1>4, <2>1 DEF healthVars, IInv, WorkerTypeOK, Published
  <2>2. CASE \E failing : Publish(beat', failing)
    <3>1. PICK failing : Publish(beat', failing)
      BY <2>2
    <3>2. WorkerTypeOK'
      BY <1>2, <1>3, <3>1, PublishTypes DEF IInv, WorkerTypeOK
    <3> QED BY <1>2, <1>3, <1>4, <3>1, <3>2, Publishes DEF IInv
  <2> QED BY <2>1, <2>2
      DEF HandleHeartbeat, HandlePassCompleted, HandleDangerStatus, HandleError, Marked,
          DangerStatus
<1>6. Posts' /\ Supervised' /\ Evidence' /\ WorkerStopsFirst'
  BY <1>1, <1>2, <1>3, TakeKeeps DEF IInv, Supervised, Evidence, WorkerStopsFirst, StoppedFirst
<1> QED BY <1>5, <1>6 DEF IInv

\* The exit of a worker, which leaves nothing behind.
LEMMA ExitStep ==
  ASSUME IInv, HandleExit \/ HandleStoppedExit
  PROVE  IInv'
<1>1. worker.status = "exited" /\ inbox' \in Seq(Message) /\ Len(inbox') = 0
  <2>1. Len(inbox) > 0 /\ inbox[1] = "exit" /\ inbox' = Tail(inbox)
    BY DEF HandleExit, HandleStoppedExit, HandleMessage, IInv, Posts
  <2>2. inbox \in Seq(Message)
    BY DEF IInv, Posts
  <2>3. Len(inbox) = 1 /\ worker.status = "exited"
    <3>1. 1 \in 1..Len(inbox)
      BY <2>1, <2>2
    <3> QED BY <2>1, <3>1 DEF IInv, Posts
  <2>4. inbox' \in Seq(Message) /\ Len(inbox') = Len(inbox) - 1
    BY <2>1, <2>2
  <2> QED BY <2>3, <2>4
<1>2. worker' \in Worker /\ worker'.status = "gone" /\ worker'.phase = worker.phase
      /\ worker'.checkpoint = worker.checkpoint /\ UNCHANGED <<started, loaded, early>>
  BY DEF HandleExit, HandleStoppedExit, HandleMessage, IInv, WorkerTypeOK, Worker
<1>3. Posts' /\ WorkerStopsFirst'
  BY <1>1, <1>2 DEF Posts, WorkerStopsFirst, StoppedFirst
<1>4. CASE HandleStoppedExit
  <2>1. shutdown # "no" /\ shutdown' = "closing"
        /\ UNCHANGED <<pendingRestart, beat, dangerFailing, lastReady, ready>>
    BY <1>4 DEF HandleStoppedExit, healthVars
  <2> QED BY <1>1, <1>2, <1>3, <2>1
      DEF IInv, WorkerTypeOK, Supervised, Evidence, Published, GivenUp
<1>5. CASE HandleExit /\ restartCount < MaxRestarts /\ pendingRestart' /\ UNCHANGED healthVars
  <2>1. shutdown = "no" /\ shutdown' = "no" /\ pendingRestart' = TRUE
        /\ UNCHANGED <<beat, dangerFailing, lastReady, ready>>
    BY <1>5 DEF HandleExit, healthVars, ScheduleRestart
  <2> QED BY <1>1, <1>2, <1>3, <2>1
      DEF IInv, WorkerTypeOK, Supervised, Evidence, Published, GivenUp
<1>6. CASE HandleExit /\ Marked("allocation", "none") /\ UNCHANGED pendingRestart
  <2>1. shutdown = "no" /\ shutdown' = "no" /\ UNCHANGED dangerFailing
        /\ beat' = [beat EXCEPT !["allocation"] = "none"] /\ Publish(beat', dangerFailing)
    BY <1>6 DEF HandleExit, Marked
  <2>2. beat' \in [Loops -> {"none", "fresh", "stale"}] /\ beat'["allocation"] = "none"
    BY <2>1 DEF IInv, WorkerTypeOK, Loops
  <2>3. WorkerTypeOK'
    BY <1>2, <1>6, <2>1, <2>2, PublishTypes DEF IInv, WorkerTypeOK
  <2>4. Published'
    BY <1>2, <2>1, <2>2, <2>3, Publishes DEF IInv
  <2>5. Supervised' /\ Evidence'
    BY <1>1, <1>2, <1>6, <2>1, <2>2 DEF IInv, Supervised, Evidence
  <2> QED BY <1>3, <2>3, <2>4, <2>5 DEF IInv
<1> QED BY <1>4, <1>5, <1>6 DEF HandleExit, ScheduleRestart

\* A worker starts, the first one or another.
LEMMA StartStep ==
  ASSUME IInv, StartFirst \/ Restart
  PROVE  /\ IInv'
         /\ worker.status \in {"none", "gone"}
         /\ shutdown = "no" \/ (early /\ StartFirst)
<1>1. worker.status \in {"none", "gone"} /\ (shutdown = "no" \/ (early /\ StartFirst))
  BY DEF IInv, Supervised, StartFirst, Restart
<1>2. worker' \in Worker /\ worker'.status = "alive" /\ worker'.phase = "booting"
      /\ ~worker'.checkpoint /\ inbox' = <<>> /\ UNCHANGED <<loaded, shutdown, early>>
      /\ UNCHANGED <<beat, dangerFailing, lastReady, ready>>
  BY NewWorkerFields DEF StartFirst, Restart, StartWorker, healthVars
<1>3. started' = TRUE /\ pendingRestart' = FALSE
  <2>1. CASE StartFirst
    BY <2>1 DEF StartFirst, IInv, WorkerTypeOK, Supervised
  <2>2. CASE Restart
    BY <2>2 DEF Restart, IInv, WorkerTypeOK, Supervised
  <2> QED BY <2>1, <2>2
<1>4. Posts' /\ Len(inbox') = 0
  BY <1>2 DEF Posts
<1>5. Evidence'
  BY <1>2, <1>4 DEF IInv, Evidence
<1> QED BY <1>1, <1>2, <1>3, <1>4, <1>5
    DEF IInv, WorkerTypeOK, Supervised, Published, WorkerStopsFirst, StoppedFirst, GivenUp

\* The steps of the shutdown.
LEMMA ShutdownStep ==
  ASSUME IInv, Signal \/ Exit \/ ForceExit
  PROVE  IInv'
<1>1. CASE Signal
  <2>1. worker' \in Worker /\ worker'.status = worker.status /\ worker'.phase = worker.phase
        /\ worker'.checkpoint = worker.checkpoint
    <3>1. Awaited \in BOOLEAN
      BY DEF Awaited
    <3> QED BY <1>1, <3>1 DEF Signal, IInv, WorkerTypeOK, Worker
  <2>2. shutdown' \in {"stopping", "closing"} /\ (shutdown' = "closing" => ~Awaited)
        /\ early' = ~started /\ ready' = FALSE /\ pendingRestart' = FALSE
        /\ UNCHANGED <<inbox, started, beat, dangerFailing, lastReady, loaded>>
    BY <1>1 DEF Signal
  <2>3. WorkerStopsFirst'
    BY <2>1, <2>2 DEF WorkerStopsFirst, StoppedFirst, Awaited, IInv, WorkerTypeOK, Worker
  <2> QED BY <2>1, <2>2, <2>3
      DEF IInv, WorkerTypeOK, Posts, Supervised, Evidence, Published, GivenUp
<1>2. CASE Exit \/ ForceExit
  BY <1>2 DEF Exit, ForceExit, supVars, healthVars, IInv, WorkerTypeOK, Posts, Supervised,
              Evidence, Published, WorkerStopsFirst, StoppedFirst, GivenUp
<1> QED BY <1>1, <1>2

\* Every step keeps the invariant.
LEMMA StepKeepsInvariant == IInv /\ [Next]_vars => IInv'
<1> SUFFICES ASSUME IInv, [Next]_vars PROVE IInv'
  OBVIOUS
<1>1. CASE PassStep \/ Beat \/ LoopThrows
  BY <1>1, LoopStep, ThreadEnds
<1>2. CASE Dies \/ Terminate
  BY <1>2, ThreadEnds
<1>3. CASE InvestBeats \/ InvestFails \/ (\E l \in Loops : Stale(l)) \/ Monitor
  BY <1>3, MainStep
<1>4. CASE HandlePosted
  BY <1>4, MessageStep, ExitStep DEF HandlePosted
<1>5. CASE StartFirst \/ Restart
  BY <1>5, StartStep
<1>6. CASE Signal \/ Exit \/ ForceExit
  BY <1>6, ShutdownStep
<1>7. CASE UNCHANGED vars
  BY <1>7 DEF vars, supVars, healthVars, IInv, WorkerTypeOK, Posts, Supervised, Evidence,
              Published, WorkerStopsFirst, StoppedFirst, GivenUp
<1> QED BY <1>1, <1>2, <1>3, <1>4, <1>5, <1>6, <1>7 DEF Next

\* The invariant holds in every state.
THEOREM Invariance == Spec => []IInv
<1>1. IInv /\ [Next]_vars => IInv'
  BY StepKeepsInvariant
<1> QED BY <1>1, InitHolds, PTL DEF Spec

\* The bot is ready only while it works, whatever is said late and out of turn
\* (LoopHealth.isReady).
THEOREM ReadyMeansWorking == Spec => []NotReadyUnlessWorking
<1>1. IInv => NotReadyUnlessWorking
  BY DEF IInv, Published, NotReadyUnlessWorking
<1> QED BY <1>1, Invariance, PTL

\* The health server closes after the worker has gone, unless the signal came
\* before there was one (index.ts).
THEOREM StopsWorkerFirst == Spec => []WorkerStopsFirst
<1>1. IInv => WorkerStopsFirst
  BY DEF IInv
<1> QED BY <1>1, Invariance, PTL

\* Two allocation loops never run, and in a shutdown none starts that was not on
\* its way before (AllocationWorkerSupervisor.start).
THEOREM NeverTwoWorkers == Spec => OneWorker
<1>1. IInv /\ [Next]_vars =>
        [StartFirst \/ Restart => /\ worker.status \in {"none", "gone"}
                                  /\ shutdown = "no" \/ (early /\ StartFirst)]_vars
  BY StartStep
<1> QED BY <1>1, Invariance, PTL DEF Spec, OneWorker
-----------------------------------------------------------------------------
(* The restarts that are left                                              *)
(*                                                                         *)
(* Without a completed pass a worker is not started again and again: each  *)
(* restart spends credit that only a completed pass gives back.            *)

Completions(messages) ==
  {i \in 1..Len(messages) : messages[i] = "pass-completed"}

\* The restart that is pending, what is left of the budget, and a new budget for
\* each completed pass whose message is under way.
Credit ==
  (MaxRestarts + 1) * Cardinality(Completions(inbox))
    + (MaxRestarts - restartCount) + (IF pendingRestart THEN 1 ELSE 0)

CreditOK ==
  inbox \in Seq(Message) /\ restartCount \in 0..MaxRestarts /\ pendingRestart \in BOOLEAN

LEMMA CompletionsFinite ==
  ASSUME NEW messages \in Seq(Message)
  PROVE  /\ IsFiniteSet(Completions(messages))
         /\ Cardinality(Completions(messages)) \in Nat
<1>1. /\ 1 \in Int /\ Len(messages) \in Int
      /\ Completions(messages) \in SUBSET (1..Len(messages))
  BY DEF Completions
<1> QED BY <1>1, FS_Interval, FS_Subset, FS_CardinalityType

\* Other messages do not count.
LEMMA OthersPosted ==
  ASSUME NEW s \in Seq(Message), NEW messages \in Seq(Message \ {"pass-completed"})
  PROVE  /\ s \o messages \in Seq(Message)
         /\ Completions(s \o messages) = Completions(s)
<1>1. \A i \in 1..Len(messages) : messages[i] # "pass-completed"
  OBVIOUS
<1>2. messages \in Seq(Message)
  OBVIOUS
<1>3. /\ s \o messages \in Seq(Message)
      /\ Len(s \o messages) = Len(s) + Len(messages)
      /\ \A i \in 1..Len(s) : (s \o messages)[i] = s[i]
      /\ \A i \in 1..Len(s \o messages) :
           i \notin 1..Len(s) => /\ i - Len(s) \in 1..Len(messages)
                                 /\ (s \o messages)[i] = messages[i - Len(s)]
  BY <1>2
<1>4. Completions(s \o messages) \subseteq Completions(s)
  BY <1>1, <1>3 DEF Completions
<1>5. Completions(s) \subseteq Completions(s \o messages)
  BY <1>2, <1>3 DEF Completions
<1> QED BY <1>3, <1>4, <1>5

\* A message that is handled no longer counts.
LEMMA OneHandled ==
  ASSUME NEW s \in Seq(Message), s # <<>>
  PROVE  /\ Tail(s) \in Seq(Message)
         /\ Cardinality(Completions(Tail(s)))
              <= Cardinality(Completions(s)) - (IF Head(s) = "pass-completed" THEN 1 ELSE 0)
<1> DEFINE t == Tail(s)  S == Completions(t)  T == Completions(s) \ {1}
           f == [i \in S |-> i + 1]
<1>1. /\ t \in Seq(Message) /\ Len(t) = Len(s) - 1 /\ Len(s) \in Nat \ {0}
      /\ \A i \in 1..Len(t) : t[i] = s[i + 1]
  OBVIOUS
<1>2. Head(s) = s[1] /\ (1 \in Completions(s) <=> Head(s) = "pass-completed")
  BY <1>1 DEF Completions
<1>3. \A i \in S : i \in Nat \ {0} /\ f[i] \in T
  BY <1>1 DEF Completions
<1>4. f \in Injection(S, T)
  <2>1. f \in [S -> T]
    BY <1>3
  <2>2. \A a, b \in S : f[a] = f[b] => a = b
    BY <1>3
  <2>3. DOMAIN f = S
    OBVIOUS
  <2> HIDE DEF f, S, T
  <2> QED BY <2>1, <2>2, <2>3 DEF Injection, IsInjective
<1>5. /\ IsFiniteSet(Completions(s)) /\ Cardinality(Completions(s)) \in Nat
      /\ IsFiniteSet(T)
      /\ Cardinality(T) = IF 1 \in Completions(s) THEN Cardinality(Completions(s)) - 1
                          ELSE Cardinality(Completions(s))
  BY CompletionsFinite, FS_RemoveElement
<1>6. Cardinality(S) <= Cardinality(T)
  <2> HIDE DEF f, S, T
  <2> QED BY <1>4, <1>5, FS_Injection
<1> QED BY <1>1, <1>2, <1>5, <1>6

\* How a step may move the credit.
Earned == /\ inbox' = inbox \o <<"pass-completed">>
          /\ UNCHANGED <<restartCount, pendingRestart>>
Kept == /\ \E messages \in Seq(Message \ {"pass-completed"}) : inbox' = inbox \o messages
        /\ UNCHANGED <<restartCount, pendingRestart>>
Cleared == /\ inbox # <<>> /\ Head(inbox) = "pass-completed" /\ inbox' = Tail(inbox)
           /\ restartCount' = 0 /\ UNCHANGED pendingRestart
Taken == /\ inbox # <<>> /\ inbox' = Tail(inbox)
         /\ \/ UNCHANGED <<restartCount, pendingRestart>>
            \/ restartCount < MaxRestarts /\ restartCount' = restartCount + 1
                 /\ pendingRestart' = TRUE
Started == /\ inbox' = <<>> /\ UNCHANGED restartCount
           /\ pendingRestart' \in {pendingRestart, FALSE}
Cancelled == UNCHANGED <<inbox, restartCount>> /\ pendingRestart' = FALSE

LEMMA StepsMoveCredit ==
  ASSUME CreditOK, [Next]_vars
  PROVE  /\ CompletePass \/ Kept \/ Cleared \/ Taken \/ Started \/ Cancelled
         /\ CompletePass => Earned
<1>1. ASSUME NEW messages \in Seq(Message \ {"pass-completed"}), inbox' = inbox \o messages,
             UNCHANGED supVars
      PROVE  Kept
  BY <1>1 DEF Kept, supVars
<1>2. ASSUME UNCHANGED inbox, UNCHANGED supVars PROVE Kept
  <2>1. <<>> \in Seq(Message \ {"pass-completed"}) /\ inbox \o <<>> = inbox
    BY DEF CreditOK
  <2> QED BY <1>2, <2>1 DEF Kept, supVars
<1>3. \A m \in Message \ {"pass-completed"} : <<m>> \in Seq(Message \ {"pass-completed"})
  OBVIOUS
<1>4. <<>> \in Seq(Message \ {"pass-completed"})
  OBVIOUS
<1>5. CompletePass => Earned
  BY DEF CompletePass, Earned, Post, Working, supVars
<1>6. ASSUME PassStep \/ Beat \/ LoopThrows \/ Dies PROVE CompletePass \/ Kept
  <2>1. CASE Boot \/ BootIdle \/ LoadVaults \/ Wake \/ LoopThrows
    BY <1>2, <2>1 DEF Boot, BootIdle, LoadVaults, Wake, LoopThrows, Working
  <2>2. CASE LoadFails \/ DangerFails
    <3>1. PICK messages \in {<<"danger-failing">>, <<>>} : Post(messages)
      BY <2>2 DEF LoadFails, DangerFails, RecordFailure
    <3>2. messages \in Seq(Message \ {"pass-completed"})
      BY <1>3, <1>4 DEF Message
    <3>3. UNCHANGED supVars
      BY <2>2 DEF LoadFails, DangerFails, Working
    <3> QED BY <1>1, <3>1, <3>2, <3>3 DEF Post
  <2>3. CASE DangerSucceeds
    <3>1. PICK messages \in {<<"danger-recovered">>, <<>>} : Post(messages)
      BY <2>3 DEF DangerSucceeds
    <3>2. messages \in Seq(Message \ {"pass-completed"})
      BY <1>3, <1>4 DEF Message
    <3>3. UNCHANGED supVars
      BY <2>3 DEF DangerSucceeds, Working
    <3> QED BY <1>1, <3>1, <3>2, <3>3 DEF Post
  <2>4. CASE Return
    <3>1. <<"exit">> \in Seq(Message \ {"pass-completed"})
      BY <1>3 DEF Message
    <3> QED BY <1>1, <2>4, <3>1 DEF Return, Posted, Working
  <2>5. CASE Beat
    <3>1. <<"heartbeat">> \in Seq(Message \ {"pass-completed"})
      BY <1>3 DEF Message
    <3> QED BY <1>1, <2>5, <3>1 DEF Beat, Post, Working
  <2>6. CASE Dies
    <3>1. <<"error", "exit">> \in Seq(Message \ {"pass-completed"})
      BY DEF Message
    <3> QED BY <1>1, <2>6, <3>1 DEF Dies, Posted
  <2> QED BY <1>6, <2>1, <2>2, <2>3, <2>4, <2>5, <2>6 DEF PassStep
<1>7. ASSUME InvestBeats \/ InvestFails \/ (\E l \in Loops : Stale(l)) \/ Monitor PROVE Kept
  BY <1>2, <1>7 DEF InvestBeats, InvestFails, Stale, Monitor, MainAlone
<1>8. ASSUME HandlePosted PROVE Cleared \/ Taken
  BY <1>8 DEF HandlePosted, HandleHeartbeat, HandlePassCompleted, HandleDangerStatus,
              HandleError, HandleExit, HandleStoppedExit, HandleMessage, ScheduleRestart,
              Cleared, Taken
<1>9. ASSUME StartFirst \/ Restart PROVE Started
  BY <1>9 DEF StartFirst, Restart, StartWorker, Started
<1>10. ASSUME Signal PROVE Cancelled
  BY <1>10 DEF Signal, Cancelled
<1>11. ASSUME Terminate PROVE Kept
  <2>1. <<"exit">> \in Seq(Message \ {"pass-completed"})
    BY <1>3 DEF Message
  <2> QED BY <1>1, <1>11, <2>1 DEF Terminate, Posted
<1>12. ASSUME Exit \/ ForceExit \/ UNCHANGED vars PROVE Kept
  BY <1>2, <1>12 DEF Exit, ForceExit, vars, supVars
<1> QED
  BY <1>5, <1>6, <1>7, <1>8, <1>9, <1>10, <1>11, <1>12 DEF Next

\* A restart is pending no more once the worker is started.
LEMMA CreditStep ==
  ASSUME CreditOK, [Next]_vars
  PROVE  /\ CreditOK'
         /\ ~CompletePass => Credit' <= Credit
         /\ ~CompletePass /\ Restart => Credit' < Credit
         /\ Credit \in Nat
<1> DEFINE k == MaxRestarts + 1
           c == Cardinality(Completions(inbox))  d == Cardinality(Completions(inbox'))
           b == IF pendingRestart THEN 1 ELSE 0  e == IF pendingRestart' THEN 1 ELSE 0
<1>1. /\ k \in Nat \ {0} /\ c \in Nat /\ b \in 0..1 /\ e \in 0..1
      /\ MaxRestarts \in Nat /\ restartCount \in 0..MaxRestarts
  BY SupervisorAssumption, CompletionsFinite DEF CreditOK
<1>2. /\ Credit = k * c + (MaxRestarts - restartCount) + b
      /\ Credit' = k * d + (MaxRestarts - restartCount') + e
  BY DEF Credit
<1>3. /\ CompletePass \/ Kept \/ Cleared \/ Taken \/ Started \/ Cancelled
      /\ CompletePass => Earned
  BY StepsMoveCredit
<1>4. CreditOK' /\ d \in Nat
  <2>1. inbox' \in Seq(Message)
    <3>1. <<"pass-completed">> \in Seq(Message)
      BY DEF Message
    <3>2. <<>> \in Seq(Message)
      OBVIOUS
    <3>3. CASE Earned
      BY <3>1, <3>3 DEF Earned, CreditOK
    <3>4. CASE Kept
      BY <3>4, OthersPosted DEF Kept, CreditOK
    <3>5. CASE Cleared \/ Taken
      BY <3>5, OneHandled DEF Cleared, Taken, CreditOK
    <3>6. CASE Started \/ Cancelled
      BY <3>2, <3>6 DEF Started, Cancelled, CreditOK
    <3> QED BY <1>3, <3>3, <3>4, <3>5, <3>6
  <2>2. restartCount' \in 0..MaxRestarts
    <3>1. \/ restartCount' = restartCount \/ restartCount' = 0
          \/ restartCount < MaxRestarts /\ restartCount' = restartCount + 1
      BY <1>3 DEF Earned, Kept, Cleared, Taken, Started, Cancelled
    <3> QED BY <1>1, <3>1
  <2>3. pendingRestart' \in BOOLEAN
    BY <1>3 DEF CreditOK, Earned, Kept, Cleared, Taken, Started, Cancelled
  <2> QED BY <2>1, <2>2, <2>3, CompletionsFinite DEF CreditOK
<1>5. Restart => pendingRestart /\ ~pendingRestart' /\ inbox' = <<>> /\ UNCHANGED restartCount
  BY DEF Restart, StartWorker
<1>6. Cardinality(Completions(<<>>)) = 0
  <2>1. Completions(<<>>) = {}
    BY DEF Completions
  <2> QED BY <2>1, FS_EmptySet
<1>7. Credit \in Nat /\ Credit' \in Nat /\ k * c \in Nat /\ k * d \in Nat
  <2>1. restartCount' \in 0..MaxRestarts
    BY <1>4 DEF CreditOK
  <2> HIDE DEF k, c, d, b, e
  <2>2. k * c \in Nat /\ k * d \in Nat
    BY <1>1, <1>4
  <2> QED BY <1>1, <1>2, <2>1, <2>2
<1>8. \A n \in Nat : n <= c => k * n <= k * c
  <2> HIDE DEF k, c
  <2> QED BY <1>1
<1>9. \A n \in Nat : n <= c - 1 => k * n <= k * c - k
  <2> HIDE DEF k, c
  <2> QED BY <1>1
<1>10. CASE Restart
  <2>1. d = 0 /\ b = 1 /\ e = 0 /\ UNCHANGED restartCount
    BY <1>5, <1>6, <1>10
  <2>2. k * d <= k * c
    BY <1>1, <1>4, <1>8, <2>1
  <2> HIDE DEF k, c, d, b, e, Credit
  <2>3. k * d \in Int /\ k * c \in Int
    BY <1>1, <1>4
  <2>4. Credit' < Credit
    BY <1>1, <1>2, <2>1, <2>2, <2>3
  <2> QED BY <1>4, <1>7, <2>4
<1>11. CASE ~Restart /\ ~CompletePass
  <2>1. Credit' <= Credit
    <3>1. CASE Kept
      <4>1. d = c /\ b = e /\ UNCHANGED restartCount
        BY <3>1, OthersPosted DEF Kept, CreditOK
      <4> HIDE DEF k, c, d, b, e, Credit
      <4> QED BY <1>1, <1>2, <1>7, <4>1
    <3>2. CASE Cleared
      <4>1. d <= c - 1 /\ b = e /\ restartCount' = 0
        BY <3>2, OneHandled DEF Cleared, CreditOK
      <4>2. k * d <= k * c - k
        BY <1>4, <1>9, <4>1
      <4>3. k = MaxRestarts + 1
        OBVIOUS
      <4> HIDE DEF k, c, d, b, e, Credit
      <4>4. k * d \in Int /\ k * c \in Int
        BY <1>1, <1>4
      <4> QED BY <1>1, <1>2, <4>1, <4>2, <4>3, <4>4
    <3>3. CASE Taken
      <4>1. d <= c
        <5>1. d <= c - (IF Head(inbox) = "pass-completed" THEN 1 ELSE 0)
          BY <3>3, OneHandled DEF Taken, CreditOK
        <5> HIDE DEF c, d
        <5> QED BY <1>1, <1>4, <5>1
      <4>2. k * d <= k * c
        BY <1>4, <1>8, <4>1
      <4>3. \/ e = b /\ restartCount' = restartCount
            \/ restartCount' = restartCount + 1
        BY <3>3 DEF Taken
      <4> DEFINE x == k * c  y == k * d
      <4>4. x \in Nat /\ y \in Nat /\ y <= x
        BY <1>7, <4>2
      <4> HIDE DEF x, y, e, b
      <4>5. y + (MaxRestarts - restartCount') + e <= x + (MaxRestarts - restartCount) + b
        BY <1>1, <4>3, <4>4
      <4> QED BY <1>2, <4>5 DEF x, y
    <3>4. CASE Started
      <4>1. d = 0 /\ e <= b /\ UNCHANGED restartCount
        <5>1. inbox' = <<>> /\ UNCHANGED restartCount
          BY <3>4 DEF Started
        <5>2. pendingRestart' => pendingRestart
          BY <3>4 DEF Started
        <5>3. d = 0
          BY <1>6, <5>1
        <5> QED BY <5>1, <5>2, <5>3
      <4>2. k * d <= k * c
        BY <1>1, <1>4, <1>8, <4>1
      <4> HIDE DEF k, c, d, b, e, Credit
      <4>3. k * d \in Int /\ k * c \in Int
        BY <1>1, <1>4
      <4> QED BY <1>1, <1>2, <4>1, <4>2, <4>3
    <3>5. CASE Cancelled
      <4>1. d = c /\ e <= b /\ UNCHANGED restartCount
        BY <3>5 DEF Cancelled
      <4> HIDE DEF k, c, d, b, e, Credit
      <4>2. k * c \in Int
        BY <1>1
      <4> QED BY <1>1, <1>2, <4>1, <4>2
    <3> QED BY <1>3, <1>11, <3>1, <3>2, <3>3, <3>4, <3>5
  <2> QED BY <1>4, <1>7, <1>11, <2>1
<1>12. CASE CompletePass
  BY <1>4, <1>7, <1>12
<1> QED BY <1>10, <1>11, <1>12

LEMMA CreditNat ==
  ASSUME CreditOK
  PROVE  Credit \in Nat
<1>1. /\ MaxRestarts \in Nat /\ restartCount \in 0..MaxRestarts
      /\ Cardinality(Completions(inbox)) \in Nat
  BY SupervisorAssumption, CompletionsFinite DEF CreditOK
<1>2. (MaxRestarts + 1) * Cardinality(Completions(inbox)) \in Nat
  BY <1>1
<1> QED BY <1>1, <1>2 DEF Credit

\* Each restart spends credit and only a completed pass gives credit, so that from
\* any state there are at most Credit restarts until the next completed pass
\* (AllocationWorkerSupervisor.scheduleRestart), whenever signals come.
THEOREM RestartsSpendCredit ==
  Spec => /\ [](Credit \in Nat)
          /\ [][~CompletePass => /\ Credit' <= Credit
                                 /\ Restart => Credit' < Credit]_vars
<1>1. Init => CreditOK
  <2>1. <<>> \in Seq(Message) /\ 0 \in 0..MaxRestarts
    BY SupervisorAssumption
  <2> QED BY <2>1 DEF Init, CreditOK
<1>2. CreditOK /\ [Next]_vars => CreditOK'
  BY CreditStep
<1>3. CreditOK /\ [Next]_vars =>
        [~CompletePass => /\ Credit' <= Credit
                          /\ Restart => Credit' < Credit]_vars
  BY CreditStep
<1>4. CreditOK => Credit \in Nat
  BY CreditNat
<1> QED BY <1>1, <1>2, <1>3, <1>4, PTL DEF Spec
=============================================================================
