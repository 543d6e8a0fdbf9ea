----------------------------- MODULE WorkerSupervisor -----------------------------
(***************************************************************************)
(* The bot process: the allocation worker thread, its supervisor on the    *)
(* main thread (allocationWorkerSupervisor.ts), the readiness it publishes *)
(* (loopHealth.ts) and the shutdown (index.ts).                            *)
(*                                                                         *)
(* The worker posts messages, handled on the main thread one at a time, in *)
(* order, the exit event last.  Inside the worker recursiveTryCatch starts *)
(* a loop that throws again, with a new danger pass tracker; the supervisor*)
(* starts a worker that exits again, up to MaxRestarts times in a row.     *)
(***************************************************************************)
EXTENDS Naturals, Sequences

CONSTANTS
  MaxRestarts,       \* exits in a row after which there are no more restarts
  EscalationPasses,  \* failed danger passes in a row that are reported
  MaxInbox           \* bound: messages under way, with room left by heartbeats

ASSUME SupervisorAssumption ==
  /\ MaxRestarts \in Nat
  /\ EscalationPasses \in Nat \ {0}
  /\ MaxInbox \in Nat

Message == {"heartbeat", "pass-completed", "danger-failing", "danger-recovered",
            "error", "exit"}

Phases == {"booting", "loading", "assessing", "rebalancing", "sleeping", "idle"}

\* The loops readiness depends on.
Loops == {"invest", "allocation"}

VARIABLES
  worker,         \* the thread, its place in the loop and its DangerPassTracker
  inbox,          \* what the worker has posted and the main thread not handled
  started,        \* whether start-up has come to the first worker
  restartCount, pendingRestart,          \* the supervisor
  beat, dangerFailing, lastReady, ready, \* LoopHealth, and what it published
  shutdown,       \* how far the shutdown is
  loaded,         \* history: a pass has loaded a vault, or there is none to load
  early           \* history: the signal came before the first worker

supVars == <<started, restartCount, pendingRestart>>
healthVars == <<beat, dangerFailing, lastReady, ready>>
vars == <<worker, inbox, supVars, healthVars, shutdown, loaded, early>>

Worker ==
  [status : {"none", "alive", "exited", "gone"},  \* exited, and seen to be: gone
   phase : Phases,
   told : BOOLEAN,          \* whether it has been sent 'shutdown'
   checkpoint : BOOLEAN,    \* hasOperationalCheckpoint
   failures : 0..EscalationPasses,
   reported : {"unset", "failing", "fine"}]

TypeOK ==
  /\ worker \in Worker
  /\ inbox \in Seq(Message) /\ Len(inbox) <= MaxInbox + 2
  /\ started \in BOOLEAN
  /\ restartCount \in 0..MaxRestarts
  /\ pendingRestart \in BOOLEAN
  /\ beat \in [Loops -> {"none", "fresh", "stale"}]
  /\ dangerFailing \in BOOLEAN
  /\ lastReady \in {"unset", "ready", "notReady"}
  /\ ready \in BOOLEAN
  /\ shutdown \in {"no", "stopping", "closing", "exited"}
  /\ loaded \in BOOLEAN
  /\ early \in BOOLEAN

\* Faulty variant of NewTracker: nothing is failing until reported.
TrackerTakenFine(w) ==
  [w EXCEPT !.checkpoint = FALSE, !.failures = 0, !.reported = "fine"]

\* What runAllocationPasses starts with.
NewTracker(w) ==
  [w EXCEPT !.checkpoint = FALSE, !.failures = 0, !.reported = "unset"]

NewWorker ==
  NewTracker([status |-> "alive", phase |-> "booting", told |-> FALSE,
              checkpoint |-> FALSE, failures |-> 0, reported |-> "unset"])

Init ==
  /\ worker = [NewWorker EXCEPT !.status = "none"]
  /\ inbox = <<>>
  /\ started = FALSE
  /\ restartCount = 0
  /\ pendingRestart = FALSE
  /\ beat = [l \in Loops |-> "none"]
  /\ dangerFailing = FALSE
  /\ lastReady = "notReady"
  /\ ready = FALSE
  /\ shutdown = "no"
  /\ loaded = FALSE
  /\ early = FALSE

-----------------------------------------------------------------------------
(* The worker                                                              *)

Post(messages) ==
  /\ Len(inbox) + Len(messages) <= MaxInbox
  /\ inbox' = inbox \o messages

Posted(last) == inbox' = inbox \o last

Working(phase) ==
  /\ worker.status = "alive" /\ worker.phase = phase
  /\ shutdown # "exited"
  /\ UNCHANGED <<supVars, healthVars, shutdown, early>>

\* The loop checks for a shutdown at the start of an iteration and in sleeps.
Continues == ~worker.told

\* The loop has read its settings and made its connections.
Boot ==
  /\ Working("booting") /\ Continues
  /\ worker' = [worker EXCEPT !.phase = "loading"]
  /\ UNCHANGED <<inbox, loaded>>

\* The allocation config, read again by every worker, has no vault: the loop
\* only sleeps and beats.
BootIdle ==
  /\ Working("booting") /\ Continues
  /\ worker' = [worker EXCEPT !.phase = "idle"]
  /\ loaded' = TRUE
  /\ UNCHANGED inbox

LoadVaults ==
  /\ Working("loading")
  /\ worker' = [worker EXCEPT !.phase = "assessing"]
  /\ loaded' = TRUE
  /\ UNCHANGED inbox

\* DangerPassTracker.record of a failure: from the third in a row it is
\* reported, unless that is what it reported last.
RecordFailure(phase) ==
  LET failures == IF worker.failures < EscalationPasses THEN worker.failures + 1
                  ELSE EscalationPasses
      reports == failures = EscalationPasses /\ worker.reported # "failing"
  IN /\ worker' = [worker EXCEPT !.failures = failures, !.phase = phase,
                     !.reported = IF reports THEN "failing" ELSE @]
     /\ Post(IF reports THEN <<"danger-failing">> ELSE <<>>)

\* No vault loads: the loop waits and tries again.
LoadFails ==
  /\ Working("loading")
  /\ RecordFailure("loading")
  /\ UNCHANGED loaded

\* The danger pass throws, runs out of time or assesses no vault.
DangerFails ==
  /\ Working("assessing")
  /\ RecordFailure("sleeping")
  /\ UNCHANGED loaded

DangerSucceeds ==
  /\ Working("assessing")
  /\ worker' = [worker EXCEPT !.failures = 0, !.reported = "fine",
                  !.checkpoint = TRUE, !.phase = "rebalancing"]
  /\ Post(IF worker.reported = "fine" THEN <<>> ELSE <<"danger-recovered">>)
  /\ UNCHANGED loaded

CompletePass ==
  /\ Working("rebalancing")
  /\ worker' = [worker EXCEPT !.phase = "sleeping"]
  /\ Post(<<"pass-completed">>)
  /\ UNCHANGED loaded

Wake ==
  /\ Working("sleeping") /\ Continues
  /\ worker' = [worker EXCEPT !.phase = "loading"]
  /\ UNCHANGED <<inbox, loaded>>

\* Faulty variant of Beat: it beats from the start.
BeatAlways ==
  /\ \E phase \in Phases \ {"booting"} : Working(phase)
  /\ Len(inbox) + 1 < MaxInbox
  /\ Post(<<"heartbeat">>)
  /\ UNCHANGED <<worker, loaded>>

\* Before the first checkpoint a loop that loads nothing does not beat.
Beat ==
  /\ \E phase \in Phases \ {"booting"} : Working(phase)
  /\ worker.phase = "loading" => worker.checkpoint
  /\ Len(inbox) + 1 < MaxInbox
  /\ Post(<<"heartbeat">>)
  /\ UNCHANGED <<worker, loaded>>

\* The loop throws and recursiveTryCatch starts it again.
LoopThrows ==
  /\ \E phase \in Phases \ {"idle"} : Working(phase)
  /\ Continues
  /\ worker' = NewTracker([worker EXCEPT !.phase = "booting"])
  /\ UNCHANGED <<inbox, loaded>>

\* Told to shut down, the loop returns and the thread ends.
Return ==
  /\ \E phase \in Phases : Working(phase)
  /\ worker.told
  /\ worker' = [worker EXCEPT !.status = "exited"]
  /\ Posted(<<"exit">>)
  /\ UNCHANGED loaded

\* An error that nothing catches, or the heap limit.
Dies ==
  /\ worker.status = "alive"
  /\ shutdown # "exited"
  /\ worker' = [worker EXCEPT !.status = "exited"]
  /\ Posted(<<"error", "exit">>)
  /\ UNCHANGED <<supVars, healthVars, shutdown, loaded, early>>

PassStep ==
  \/ Boot \/ BootIdle
  \/ LoadVaults \/ LoadFails
  \/ DangerFails \/ DangerSucceeds
  \/ CompletePass
  \/ Wake
  \/ Return

-----------------------------------------------------------------------------
(* Readiness                                                               *)

\* Faulty variant of Publish: a shutdown does not count.
PublishAnyway(beats, failing) ==
  LET r == (\A l \in Loops : beats[l] = "fresh") /\ ~failing
  IN /\ lastReady' = IF r THEN "ready" ELSE "notReady"
     /\ ready' = IF lastReady' = lastReady THEN ready ELSE r

\* update(): readiness is computed, and published when it changed.
Publish(beats, failing) ==
  LET r == shutdown = "no" /\ (\A l \in Loops : beats[l] = "fresh") /\ ~failing
  IN /\ lastReady' = IF r THEN "ready" ELSE "notReady"
     /\ ready' = IF lastReady' = lastReady THEN ready ELSE r

Marked(loop, as) ==
  /\ beat' = [beat EXCEPT ![loop] = as]
  /\ UNCHANGED dangerFailing
  /\ Publish(beat', dangerFailing)

DangerStatus(failing) ==
  /\ dangerFailing' = failing
  /\ UNCHANGED beat
  /\ Publish(beat, failing)

MainAlone ==
  /\ shutdown # "exited"
  /\ UNCHANGED <<worker, inbox, supVars, shutdown, loaded, early>>

InvestBeats == MainAlone /\ Marked("invest", "fresh")

\* The invest loop cannot be started.
InvestFails == MainAlone /\ Marked("invest", "none")

\* A loop's last heartbeat passes the timeout.
Stale(loop) ==
  /\ MainAlone
  /\ beat[loop] = "fresh"
  /\ beat' = [beat EXCEPT ![loop] = "stale"]
  /\ UNCHANGED <<dangerFailing, lastReady, ready>>

\* The interval timer.
Monitor ==
  /\ MainAlone
  /\ UNCHANGED <<beat, dangerFailing>>
  /\ Publish(beat, dangerFailing)

-----------------------------------------------------------------------------
(* The supervisor                                                          *)

HandleMessage(m) ==
  /\ shutdown # "exited"
  /\ inbox # <<>> /\ Head(inbox) = m
  /\ inbox' = Tail(inbox)
  /\ UNCHANGED <<started, loaded, early>>

\* Faulty variant of HandleHeartbeat: it clears the restart budget.
HandleHeartbeatAsPass ==
  /\ HandleMessage("heartbeat")
  /\ Marked("allocation", "fresh")
  /\ restartCount' = 0
  /\ UNCHANGED <<worker, pendingRestart, shutdown>>

HandleHeartbeat ==
  /\ HandleMessage("heartbeat")
  /\ Marked("allocation", "fresh")
  /\ UNCHANGED <<worker, restartCount, pendingRestart, shutdown>>

\* A completed pass, not a heartbeat, clears the restart budget.
HandlePassCompleted ==
  /\ HandleMessage("pass-completed")
  /\ restartCount' = 0
  /\ Marked("allocation", "fresh")
  /\ UNCHANGED <<worker, pendingRestart, shutdown>>

HandleDangerStatus ==
  /\ \/ HandleMessage("danger-failing") /\ DangerStatus(TRUE)
     \/ HandleMessage("danger-recovered") /\ DangerStatus(FALSE)
  /\ UNCHANGED <<worker, restartCount, pendingRestart, shutdown>>

\* Faulty variant of HandleError: it schedules a restart, like the exit.
HandleErrorRestarts ==
  /\ HandleMessage("error")
  /\ shutdown = "no" /\ restartCount < MaxRestarts
  /\ restartCount' = restartCount + 1
  /\ pendingRestart' = TRUE
  /\ UNCHANGED <<worker, healthVars, shutdown>>

\* An error is logged: the exit follows.
HandleError ==
  /\ HandleMessage("error")
  /\ UNCHANGED <<worker, restartCount, pendingRestart, healthVars, shutdown>>

\* Faulty variant of ScheduleRestart: a spent budget is only logged.
ScheduleRestartOnly ==
  /\ IF restartCount < MaxRestarts
       THEN restartCount' = restartCount + 1 /\ pendingRestart' = TRUE
       ELSE UNCHANGED <<restartCount, pendingRestart>>
  /\ UNCHANGED healthVars

\* The restart, or the report that the budget is spent.
ScheduleRestart ==
  \/ /\ restartCount < MaxRestarts
     /\ restartCount' = restartCount + 1
     /\ pendingRestart' = TRUE
     /\ UNCHANGED healthVars
  \/ /\ restartCount >= MaxRestarts
     /\ Marked("allocation", "none")
     /\ UNCHANGED <<restartCount, pendingRestart>>

\* The exit of a worker that has not been stopped.
HandleExit ==
  /\ HandleMessage("exit")
  /\ shutdown = "no"
  /\ worker' = [worker EXCEPT !.status = "gone"]
  /\ ScheduleRestart
  /\ UNCHANGED shutdown

\* The exit stop() waits for, and one that comes later.
HandleStoppedExit ==
  /\ HandleMessage("exit")
  /\ shutdown # "no"
  /\ worker' = [worker EXCEPT !.status = "gone"]
  /\ shutdown' = "closing"
  /\ UNCHANGED <<restartCount, pendingRestart, healthVars>>

\* start()
StartWorker ==
  /\ worker' = NewWorker
  /\ inbox' = <<>>
  /\ UNCHANGED <<restartCount, healthVars, shutdown, loaded, early>>

\* Start-up comes to its end.  It does not look at the shutdown.
StartFirst ==
  /\ shutdown # "exited"
  /\ ~started
  /\ started' = TRUE
  /\ StartWorker
  /\ UNCHANGED pendingRestart

\* The timer of a restart.
Restart ==
  /\ pendingRestart
  /\ pendingRestart' = FALSE
  /\ shutdown = "no"
  /\ StartWorker
  /\ UNCHANGED started

-----------------------------------------------------------------------------
(* The shutdown                                                            *)

\* Whether stop() has a worker to wait for.
Awaited == worker.status \in {"alive", "exited"}

\* Faulty variant of Signal: a scheduled restart is left alone, and no worker
\* to wait for is taken to be a worker that exits.
SignalWaits ==
  /\ shutdown = "no"
  /\ ready' = FALSE
  /\ shutdown' = IF worker.status = "none" THEN "closing" ELSE "stopping"
  /\ pendingRestart' = FALSE
  /\ worker' = [worker EXCEPT !.told = TRUE]
  /\ early' = ~started
  /\ UNCHANGED <<inbox, started, restartCount, beat, dangerFailing, lastReady, loaded>>

\* Faulty variant of Signal: the health server does not wait for the worker.
SignalClosesFirst ==
  /\ shutdown = "no"
  /\ ready' = FALSE
  /\ shutdown' = "closing"
  /\ pendingRestart' = FALSE
  /\ worker' = [worker EXCEPT !.told = Awaited]
  /\ early' = ~started
  /\ UNCHANGED <<inbox, started, restartCount, beat, dangerFailing, lastReady, loaded>>

\* The first SIGINT or SIGTERM: not ready, and stop() up to its await.
Signal ==
  /\ shutdown = "no"
  /\ ready' = FALSE
  /\ shutdown' = IF Awaited THEN "stopping" ELSE "closing"
  /\ pendingRestart' = FALSE
  /\ worker' = [worker EXCEPT !.told = Awaited]
  /\ early' = ~started
  /\ UNCHANGED <<inbox, started, restartCount, beat, dangerFailing, lastReady, loaded>>

\* The grace period of the worker ends: it is terminated.
Terminate ==
  /\ shutdown = "stopping"
  /\ worker.status = "alive"
  /\ worker' = [worker EXCEPT !.status = "exited"]
  /\ Posted(<<"exit">>)
  /\ UNCHANGED <<supVars, healthVars, shutdown, loaded, early>>

\* The health server has been shut down.
Exit ==
  /\ shutdown = "closing"
  /\ shutdown' = "exited"
  /\ UNCHANGED <<worker, inbox, supVars, healthVars, loaded, early>>

\* The process has been shutting down for too long.
ForceExit ==
  /\ shutdown \in {"stopping", "closing"}
  /\ shutdown' = "exited"
  /\ UNCHANGED <<worker, inbox, supVars, healthVars, loaded, early>>

HandlePosted ==
  \/ HandleHeartbeat
  \/ HandlePassCompleted
  \/ HandleDangerStatus
  \/ HandleError
  \/ HandleExit
  \/ HandleStoppedExit

Next ==
  \/ PassStep
  \/ Beat
  \/ LoopThrows
  \/ Dies
  \/ InvestBeats
  \/ InvestFails
  \/ \E l \in Loops : Stale(l)
  \/ Monitor
  \/ HandlePosted
  \/ StartFirst
  \/ Restart
  \/ Signal
  \/ Terminate
  \/ Exit
  \/ ForceExit

Spec == Init /\ [][Next]_vars

\* The main thread handles what is posted, its timers fire, and a worker goes
\* on with its pass.  ForceExit is not needed for the shutdown to end.
FairSpec ==
  /\ Spec
  /\ WF_vars(PassStep)
  /\ WF_vars(HandlePosted)
  /\ WF_vars(StartFirst)
  /\ WF_vars(Restart)
  /\ WF_vars(Terminate)
  /\ WF_vars(Exit)

-----------------------------------------------------------------------------
(* Properties                                                              *)

\* The supervisor has given up: the worker is gone and none will follow.
GivenUp == started /\ worker.status = "gone" /\ ~pendingRestart /\ shutdown = "no"

\* The bot is not ready while it shuts down, whatever beats still come in, nor
\* without an allocation worker to come, nor before a pass has loaded a vault or
\* the allocation config turned out to have none.
NotReadyUnlessWorking ==
  ready => shutdown = "no" /\ ~GivenUp /\ loaded

\* A new worker starts after the exit of the old one has been handled, so that
\* two allocation loops never run.  In a shutdown none starts, but for the first
\* one when the signal came before it (start-up does not look at the shutdown).
OneWorker ==
  [][StartFirst \/ Restart => /\ worker.status \in {"none", "gone"}
                              /\ shutdown = "no" \/ (early /\ StartFirst)]_vars

\* The worker is stopped first, the health server last.
StoppedFirst == shutdown = "closing" => worker.status \in {"none", "gone"}

\* That order, unless the signal came before there was a worker to stop.
WorkerStopsFirst == ~early => StoppedFirst

\* Workers that complete no pass are not started again and again.
RestartsBounded ==
  <>[][~CompletePass]_vars => <>[][~Restart]_vars

\* The alarm of a worker that died or whose loop threw is cleared by the passes
\* of the next one, if it has any: a loop without vaults leaves the alarm alone.
AlarmClears ==
  <>[][~(LoadFails \/ DangerFails \/ LoopThrows \/ Dies)]_vars
    => <>[](~dangerFailing \/ GivenUp \/ shutdown # "no" \/ worker.phase = "idle")

\* A shutdown ends without the forced exit.
ShutdownEnds == shutdown # "no" ~> shutdown = "exited"

=============================================================================
