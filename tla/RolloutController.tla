------------------------- MODULE RolloutController -------------------------
(***************************************************************************)
(* The controller of an interactive rollout                                *)
(* (src/lerobot/rollout/controller.py): the operator's threads call        *)
(* start(), reset() and stop(); the serve loop, on a thread of its own,    *)
(* runs segments of the control loop and returns the robot home.  The      *)
(* calls hold _control_lock and set flags one after the other; the serve   *)
(* loop reads the flags without the lock, except where it consumes a start *)
(* and where it ends a segment.  The segment's shutdown event is a         *)
(* LinkedEvent: it is also set while the process shuts down, and the       *)
(* inference engine sets it when it dies.  _wake only shortens the idle    *)
(* wait, which ends after 0.2 s anyway, and is left out.                    *)
(***************************************************************************)
EXTENDS Integers

CONSTANT
  MaxCalls   \* bound: calls of the operator that are not refused

ASSUME ControllerAssumption == MaxCalls \in Nat

VARIABLES
  pc,             \* serve loop
  startReq, resetReq, stopReq,  \* _start_requested, _reset_requested, _stop_requested
  segmentStop,    \* the local flag of the LinkedEvent
  global,         \* its parent, the process shutdown
  running,        \* _running
  strategyFailed, \* _strategy_failure_traceback
  engine,         \* "alive", "dying" (failed, the event not set yet), "dead"
  call,           \* the call that holds the control lock: "none", "reset", "resetFlag",
                  \* "stop", "stopFlag"
  calls,
  last,           \* history: the last call that took effect
  homeOwed,       \* history: a reset() was requested and no return home began since
  promised        \* history: start() returned True, no later call withdrew it, and
                  \* its segment has not started

flags == <<startReq, resetReq, stopReq>>
serving == <<pc, running, strategyFailed>>
history == <<last, homeOwed, promised>>
vars == <<serving, flags, segmentStop, global, engine, call, calls, history>>

Init ==
  /\ pc = "loop" /\ running = FALSE /\ strategyFailed = FALSE
  /\ startReq = FALSE /\ resetReq = FALSE /\ stopReq = FALSE
  /\ segmentStop = FALSE /\ global = FALSE /\ engine = "alive"
  /\ call = "none" /\ calls = 0
  /\ last = "none" /\ homeOwed = FALSE /\ promised = FALSE

stopped == pc = "stopped"
engineFailed == engine # "alive"
Failed == engineFailed \/ strategyFailed

-----------------------------------------------------------------------------
(* Calls of the operator.                                                    *)

\* The serve loop holds the lock for whole actions only.
LockFree == call = "none" /\ calls < MaxCalls

Start ==
  /\ LockFree /\ ~stopped /\ ~stopReq /\ ~Failed /\ ~running
  /\ startReq' = TRUE
  /\ calls' = calls + 1 /\ last' = "start" /\ promised' = TRUE
  /\ UNCHANGED <<serving, resetReq, stopReq, segmentStop, global, engine, call, homeOwed>>

\* Mutant of ResetBegins: the pending start stays.
ResetBeginsKeepingStart ==
  /\ LockFree /\ ~stopped /\ ~stopReq
  /\ call' = "reset" /\ calls' = calls + 1
  /\ promised' = FALSE
  /\ UNCHANGED <<serving, flags, segmentStop, global, engine, last, homeOwed>>

\* reset(): cancel a pending start (and restore the task), ...
ResetBegins ==
  /\ LockFree /\ ~stopped /\ ~stopReq
  /\ call' = "reset" /\ calls' = calls + 1
  /\ startReq' = FALSE /\ promised' = FALSE
  /\ UNCHANGED <<serving, resetReq, stopReq, segmentStop, global, engine, last, homeOwed>>

\* ... then the flag, ...
ResetFlag ==
  /\ call = "reset"
  /\ resetReq' = TRUE /\ homeOwed' = TRUE
  /\ call' = "resetFlag"
  /\ UNCHANGED <<serving, startReq, stopReq, segmentStop, global, engine, calls, last, promised>>

\* Mutant of ResetReturns: the running segment is not told.
ResetReturnsQuietly ==
  /\ call = "resetFlag"
  /\ call' = "none" /\ last' = "reset"
  /\ UNCHANGED <<serving, flags, segmentStop, global, engine, calls, homeOwed, promised>>

\* ... then the segment's event; reset() returns.
ResetReturns ==
  /\ call = "resetFlag"
  /\ segmentStop' = TRUE
  /\ call' = "none" /\ last' = "reset"
  /\ UNCHANGED <<serving, flags, global, engine, calls, homeOwed, promised>>

\* stop() has the same three steps.
StopBegins ==
  /\ LockFree /\ ~stopped
  /\ call' = "stop" /\ calls' = calls + 1
  /\ startReq' = FALSE /\ promised' = FALSE
  /\ UNCHANGED <<serving, resetReq, stopReq, segmentStop, global, engine, last, homeOwed>>

StopFlag ==
  /\ call = "stop"
  /\ stopReq' = TRUE
  /\ call' = "stopFlag"
  /\ UNCHANGED <<serving, startReq, resetReq, segmentStop, global, engine, calls, history>>

StopReturns ==
  /\ call = "stopFlag"
  /\ segmentStop' = TRUE
  /\ call' = "none" /\ last' = "stop"
  /\ UNCHANGED <<serving, flags, global, engine, calls, homeOwed, promised>>

-----------------------------------------------------------------------------
(* The rest of the process.                                                  *)

ShutDown ==
  /\ ~global
  /\ global' = TRUE
  /\ UNCHANGED <<serving, flags, segmentStop, engine, call, calls, history>>

EngineFails ==
  /\ engine = "alive"
  /\ engine' = "dying"
  /\ UNCHANGED <<serving, flags, segmentStop, global, call, calls, history>>

EngineSignals ==
  /\ engine = "dying"
  /\ engine' = "dead" /\ segmentStop' = TRUE
  /\ UNCHANGED <<serving, flags, global, call, calls, history>>

-----------------------------------------------------------------------------
(* The serve loop.                                                           *)

others == <<segmentStop, global, engine, call, calls>>

\* The top of the loop: shutdown, failures, stop().
ServeTop ==
  /\ pc = "loop"
  /\ pc' = IF global \/ Failed \/ stopReq THEN "leaving" ELSE "checkReset"
  /\ UNCHANGED <<running, strategyFailed, flags, others, history>>

ServeEnds ==
  /\ pc = "leaving"
  /\ pc' = "stopped"
  /\ UNCHANGED <<running, strategyFailed, flags, others, history>>

CheckReset ==
  /\ pc = "checkReset"
  /\ pc' = IF resetReq THEN "clearReset" ELSE "checkStart"
  /\ UNCHANGED <<running, strategyFailed, flags, others, history>>

ClearReset ==
  /\ pc = "clearReset"
  /\ resetReq' = FALSE
  /\ pc' = "homing"
  /\ UNCHANGED <<running, strategyFailed, startReq, stopReq, others, history>>

\* _reset_robot returns the robot home; a reset() that comes now is another one.
ReturnBegins ==
  /\ pc = "homing"
  /\ homeOwed' = resetReq
  /\ pc' = "returning"
  /\ UNCHANGED <<running, strategyFailed, flags, others, last, promised>>

ReturnEnds ==
  /\ pc = "returning"
  /\ pc' = "loop"
  /\ UNCHANGED <<running, strategyFailed, flags, others, history>>

\* A start request, or the idle wait.
CheckStart ==
  /\ pc = "checkStart"
  /\ pc' = IF startReq THEN "consume" ELSE "loop"
  /\ UNCHANGED <<running, strategyFailed, flags, others, history>>

\* Under the control lock the request is consumed and the segment is running.
ConsumeStart ==
  /\ pc = "consume" /\ call = "none"
  /\ running' = startReq
  /\ startReq' = FALSE
  /\ pc' = IF startReq THEN "enter" ELSE "loop"
  /\ UNCHANGED <<strategyFailed, resetReq, stopReq, others, history>>

\* _run_segment clears its event before it looks at the requests.
ClearStop ==
  /\ pc = "enter"
  /\ segmentStop' = FALSE
  /\ pc' = "recheck"
  /\ UNCHANGED <<running, strategyFailed, flags, global, engine, call, calls, history>>

\* Mutant of Recheck: only stop() and the shutdown are looked for.
RecheckNoReset ==
  /\ pc = "recheck"
  /\ pc' = IF stopReq \/ global \/ engineFailed THEN "finish" ELSE "prepare"
  /\ UNCHANGED <<running, strategyFailed, flags, others, history>>

\* Mutant of Recheck: the event alone tells that the engine is dead.
RecheckNoFailure ==
  /\ pc = "recheck"
  /\ pc' = IF stopReq \/ resetReq \/ global THEN "finish" ELSE "prepare"
  /\ UNCHANGED <<running, strategyFailed, flags, others, history>>

Recheck ==
  /\ pc = "recheck"
  /\ pc' = IF stopReq \/ resetReq \/ global \/ engineFailed THEN "finish" ELSE "prepare"
  /\ UNCHANGED <<running, strategyFailed, flags, others, history>>

\* The control state is reset and SEGMENT_STARTED is emitted.
SegmentStarts ==
  /\ pc = "prepare"
  /\ promised' = FALSE
  /\ pc' = "run"
  /\ UNCHANGED <<running, strategyFailed, flags, others, last, homeOwed>>

\* The control loop finds no shutdown and moves the robot.
Tick ==
  /\ pc = "run" /\ ~segmentStop /\ ~global
  /\ pc' = "moving"
  /\ UNCHANGED <<running, strategyFailed, flags, others, history>>

TickEnds ==
  /\ pc = "moving"
  /\ \/ pc' = "run" /\ UNCHANGED strategyFailed
     \/ pc' = "finish" /\ strategyFailed' = TRUE
  /\ UNCHANGED <<running, flags, others, history>>

\* The loop ends: its event, the shutdown, or its duration.
LoopEnds ==
  /\ pc = "run"
  /\ pc' = "finish"
  /\ UNCHANGED <<running, strategyFailed, flags, others, history>>

\* The end of _run_segment, under the control lock.
SegmentEnds ==
  /\ pc = "finish" /\ call = "none"
  /\ running' = FALSE
  /\ pc' = "loop"
  /\ UNCHANGED <<strategyFailed, flags, others, history>>

Serve ==
  \/ ServeTop \/ ServeEnds \/ CheckReset \/ ClearReset \/ ReturnBegins \/ ReturnEnds
  \/ CheckStart \/ ConsumeStart \/ ClearStop \/ Recheck \/ SegmentStarts
  \/ Tick \/ TickEnds \/ LoopEnds \/ SegmentEnds

CallGoesOn == ResetFlag \/ ResetReturns \/ StopFlag \/ StopReturns

Next ==
  \/ Start \/ ResetBegins \/ StopBegins \/ CallGoesOn
  \/ ShutDown \/ EngineFails \/ EngineSignals
  \/ Serve

Spec == Init /\ [][Next]_vars

\* The serve loop runs, a call that has begun comes back, and a dying engine says
\* so; the control loop leaves when its event is set, which it checks in every
\* round.  Nobody has to call anything.
FairSpec ==
  Spec /\ WF_vars(Serve) /\ WF_vars(CallGoesOn) /\ WF_vars(EngineSignals)

-----------------------------------------------------------------------------
(* Properties.                                                               *)

TypeOK ==
  /\ pc \in {"loop", "leaving", "stopped", "checkReset", "clearReset", "homing",
             "returning", "checkStart", "consume", "enter", "recheck", "prepare", "run",
             "moving", "finish"}
  /\ startReq \in BOOLEAN /\ resetReq \in BOOLEAN /\ stopReq \in BOOLEAN
  /\ segmentStop \in BOOLEAN /\ global \in BOOLEAN
  /\ running \in BOOLEAN /\ strategyFailed \in BOOLEAN
  /\ engine \in {"alive", "dying", "dead"}
  /\ call \in {"none", "reset", "resetFlag", "stop", "stopFlag"}
  /\ calls \in 0..MaxCalls
  /\ last \in {"none", "start", "reset", "stop"}
  /\ homeOwed \in BOOLEAN /\ promised \in BOOLEAN

\* start() cannot re-arm its flag behind a running segment: a segment that ends is
\* not followed by one that nobody asked for.
NoStartBehindSegment == running => ~startReq

\* Once reset() or stop() has returned, no control step begins before start() is
\* called again, wherever the serve loop was when the call came.
LastCommandWins == [][Tick => last = "start" \/ call # "none"]_vars

\* Once reset() has returned, no control step begins before the robot was sent home.
HomeBeforeMotion == [][Tick => ~homeOwed \/ call # "none"]_vars

\* Every reset() is carried out, unless the controller ends.
ResetHappens == resetReq ~> (~resetReq \/ stopped)

\* The controller ends after stop(), a shutdown or a failure: none of them is
\* absorbed when a segment clears its event.
ControllerEnds == (stopReq \/ global \/ Failed) ~> stopped

-----------------------------------------------------------------------------
(* A statement of the documentation that the code does not meet.             *)

\* start() returns True when the segment was scheduled, so it starts unless a later
\* reset() or stop() withdraws it or the controller ends.
AcceptedStartRuns == promised ~> (~promised \/ global \/ Failed)
=============================================================================
