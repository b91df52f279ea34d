---------------------- MODULE RolloutController_proofs ----------------------
(***************************************************************************)
(* Theorems about RolloutController for any number of calls: the last      *)
(* command wins, and the robot goes home before it moves again.            *)
(***************************************************************************)
EXTENDS RolloutController, TLAPS

-----------------------------------------------------------------------------
(* The type invariant: the Boolean variables apart, for Zenon's sake.        *)

FlagTypeOK ==
  /\ startReq \in BOOLEAN /\ resetReq \in BOOLEAN /\ stopReq \in BOOLEAN
  /\ segmentStop \in BOOLEAN /\ global \in BOOLEAN
  /\ running \in BOOLEAN /\ strategyFailed \in BOOLEAN
  /\ homeOwed \in BOOLEAN /\ promised \in BOOLEAN

PlaceTypeOK ==
  /\ pc \in {"loop", "leaving", "stopped", "checkReset", "clearReset", "homing",
             "returning", "checkStart", "consume", "enter", "recheck", "prepare", "run",
             "moving", "finish"}
  /\ engine \in {"alive", "dying", "dead"}
  /\ call \in {"none", "reset", "resetFlag", "stop", "stopFlag"}
  /\ calls \in 0..MaxCalls
  /\ last \in {"none", "start", "reset", "stop"}

LEMMA TypeParts == TypeOK <=> FlagTypeOK /\ PlaceTypeOK
  BY Zenon DEF TypeOK, FlagTypeOK, PlaceTypeOK

LEMMA FlagStep == FlagTypeOK /\ [Next]_vars => FlagTypeOK'
<1> SUFFICES ASSUME FlagTypeOK, [Next]_vars PROVE FlagTypeOK'
  OBVIOUS
<1> USE DEF FlagTypeOK, flags, serving, history, others, vars
<1>1. CASE Start BY Zenon, <1>1 DEF Start
<1>2. CASE ResetBegins BY Zenon, <1>2 DEF ResetBegins
<1>3. CASE StopBegins BY Zenon, <1>3 DEF StopBegins
<1>4. CASE CallGoesOn
  BY Zenon, <1>4 DEF CallGoesOn, ResetFlag, ResetReturns, StopFlag, StopReturns
<1>5. CASE ShutDown \/ EngineFails \/ EngineSignals
  BY Zenon, <1>5 DEF ShutDown, EngineFails, EngineSignals
<1>6. CASE ServeTop \/ ServeEnds \/ CheckReset \/ ClearReset \/ ReturnBegins \/ ReturnEnds
  BY Zenon, <1>6 DEF ServeTop, ServeEnds, CheckReset, ClearReset, ReturnBegins, ReturnEnds
<1>7. CASE CheckStart \/ ConsumeStart \/ ClearStop \/ Recheck \/ SegmentStarts
  BY Zenon, <1>7 DEF CheckStart, ConsumeStart, ClearStop, Recheck, SegmentStarts
<1>8. CASE Tick \/ TickEnds \/ LoopEnds \/ SegmentEnds
  BY Zenon, <1>8 DEF Tick, TickEnds, LoopEnds, SegmentEnds
<1>9. CASE UNCHANGED vars BY Zenon, <1>9
<1> QED
  BY <1>1, <1>2, <1>3, <1>4, <1>5, <1>6, <1>7, <1>8, <1>9 DEF Next, Serve

LEMMA PlaceStep == PlaceTypeOK /\ [Next]_vars => PlaceTypeOK'
<1> SUFFICES ASSUME PlaceTypeOK, [Next]_vars PROVE PlaceTypeOK'
  OBVIOUS
<1> USE ControllerAssumption
        DEF PlaceTypeOK, ControllerAssumption, flags, serving, history, others, vars
<1>1. CASE Start BY <1>1 DEF Start, LockFree
<1>2. CASE ResetBegins BY <1>2 DEF ResetBegins, LockFree
<1>3. CASE StopBegins BY <1>3 DEF StopBegins, LockFree
<1>4. CASE CallGoesOn
  BY <1>4 DEF CallGoesOn, ResetFlag, ResetReturns, StopFlag, StopReturns
<1>5. CASE ShutDown \/ EngineFails \/ EngineSignals
  BY <1>5 DEF ShutDown, EngineFails, EngineSignals
<1>6. CASE Serve
  BY <1>6 DEF Serve, ServeTop, ServeEnds, CheckReset, ClearReset, ReturnBegins, ReturnEnds,
     CheckStart, ConsumeStart, ClearStop, Recheck, SegmentStarts, Tick, TickEnds, LoopEnds,
     SegmentEnds
<1>7. CASE UNCHANGED vars BY <1>7
<1> QED
  BY <1>1, <1>2, <1>3, <1>4, <1>5, <1>6, <1>7 DEF Next

\* Every variable keeps its type.
THEOREM ControllerTypeCorrect == Spec => []TypeOK
<1>1. Init => FlagTypeOK
  BY Zenon DEF Init, FlagTypeOK
<1>2. Init => PlaceTypeOK
  BY ControllerAssumption DEF Init, PlaceTypeOK, ControllerAssumption
<1> QED
  BY <1>1, <1>2, FlagStep, PlaceStep, TypeParts, PTL DEF Spec

-----------------------------------------------------------------------------
(* No start behind a segment.                                                *)

\* A segment that runs has consumed its start, and start() refuses to set the
\* flag again before the segment is over.
THEOREM NoStartHolds == Spec => []NoStartBehindSegment
<1>1. Init => NoStartBehindSegment
  BY DEF Init, NoStartBehindSegment
<1>2. NoStartBehindSegment /\ [Next]_vars => NoStartBehindSegment'
  BY DEF NoStartBehindSegment, Next, Serve, CallGoesOn, Start, ResetBegins, StopBegins,
     ResetFlag, ResetReturns, StopFlag, StopReturns, ShutDown, EngineFails, EngineSignals,
     ServeTop, ServeEnds, CheckReset, ClearReset, ReturnBegins, ReturnEnds,
     CheckStart, ConsumeStart, ClearStop, Recheck, SegmentStarts, Tick, TickEnds, LoopEnds,
     SegmentEnds, flags, serving, history, others, vars
<1> QED
  BY <1>1, <1>2, PTL DEF Spec

-----------------------------------------------------------------------------
(* Commands and motion.                                                      *)

\* Where the serve loop has consumed a start, and where it no longer looks at the
\* requests but only at its event.
InSegment == pc \in {"enter", "recheck", "prepare", "run", "moving", "finish"}
PastRecheck == pc \in {"prepare", "run", "moving"}

\* What a command leaves behind at each stage of its call, whatever the serve loop
\* does between: a start is withdrawn; the request flag stays up as long as a
\* segment is on its way; the event is set behind the recheck.
CommandInv ==
  /\ (call # "none" \/ last # "start") => ~startReq
  /\ (call = "resetFlag" \/ (call = "none" /\ last = "reset")) /\ InSegment => resetReq
  /\ (call = "stopFlag" \/ last = "stop") => stopReq
  /\ stopReq /\ call # "stopFlag" /\ PastRecheck => segmentStop
  /\ resetReq /\ call # "resetFlag" /\ PastRecheck => segmentStop
  /\ last = "none" => ~InSegment
  /\ homeOwed /\ pc # "homing" => resetReq

LEMMA CommandInit == Init => CommandInv
  BY DEF Init, CommandInv, InSegment, PastRecheck

LEMMA CommandStep == PlaceTypeOK /\ CommandInv /\ [Next]_vars => CommandInv'
<1> SUFFICES ASSUME PlaceTypeOK, CommandInv, [Next]_vars PROVE CommandInv'
  OBVIOUS
<1> USE DEF PlaceTypeOK, CommandInv, InSegment, PastRecheck,
            flags, serving, history, others, vars
<1>1. CASE Start \/ ResetBegins \/ StopBegins
  BY <1>1 DEF Start, ResetBegins, StopBegins, LockFree
<1>2. CASE CallGoesOn
  BY <1>2 DEF CallGoesOn, ResetFlag, ResetReturns, StopFlag, StopReturns
<1>3. CASE ShutDown \/ EngineFails \/ EngineSignals
  BY <1>3 DEF ShutDown, EngineFails, EngineSignals
<1>4. CASE ServeTop \/ ServeEnds \/ CheckReset \/ ClearReset \/ ReturnBegins \/ ReturnEnds
  BY <1>4 DEF ServeTop, ServeEnds, CheckReset, ClearReset, ReturnBegins, ReturnEnds
<1>5. CASE CheckStart \/ ConsumeStart
  BY <1>5 DEF CheckStart, ConsumeStart
<1>6. CASE ClearStop \/ Recheck \/ SegmentStarts
  BY <1>6 DEF ClearStop, Recheck, SegmentStarts
<1>7. CASE Tick \/ TickEnds \/ LoopEnds \/ SegmentEnds
  BY <1>7 DEF Tick, TickEnds, LoopEnds, SegmentEnds
<1>8. CASE UNCHANGED vars
  BY <1>8
<1> QED
  BY <1>1, <1>2, <1>3, <1>4, <1>5, <1>6, <1>7, <1>8 DEF Next, Serve

LEMMA CommandHolds == Spec => [](PlaceTypeOK /\ CommandInv)
<1>1. TypeOK => PlaceTypeOK
  BY TypeParts
<1> QED
  BY <1>1, ControllerTypeCorrect, CommandInit, CommandStep, PTL DEF Spec

\* After reset() or stop() has returned, no control step begins before the next
\* start(), wherever the call met the serve loop.
THEOREM LastCommandHolds == Spec => LastCommandWins
<1>1. PlaceTypeOK /\ CommandInv /\ [Next]_vars => [Tick => last = "start" \/ call # "none"]_vars
  BY DEF PlaceTypeOK, CommandInv, InSegment, PastRecheck, Tick
<1> QED
  BY <1>1, CommandHolds, PTL DEF Spec, LastCommandWins

\* A control step begins only when the last reset() that returned has sent the
\* robot home.
THEOREM HomeBeforeMotionHolds == Spec => HomeBeforeMotion
<1>1. PlaceTypeOK /\ CommandInv /\ [Next]_vars => [Tick => ~homeOwed \/ call # "none"]_vars
  BY DEF PlaceTypeOK, CommandInv, InSegment, PastRecheck, Tick
<1> QED
  BY <1>1, CommandHolds, PTL DEF Spec, HomeBeforeMotion
=============================================================================
