---------------------- MODULE LegacyControlLoop_proofs ----------------------
(***************************************************************************)
(* Theorems about LegacyControlLoop, for every horizon, rate and timeout:  *)
(* one request at a time, plans that never get older and, if every tick    *)
(* leaves time to sleep, requests that fail when their timeout has passed. *)
(***************************************************************************)
EXTENDS LegacyControlLoop, TLAPS

-----------------------------------------------------------------------------
(* The action queue and the requests.                                      *)

\* What is left of a chunk: timesteps of the chunk, all planned from ts.
LEMMA MergedQueue ==
  ASSUME NEW ts \in 0..MaxSteps, NEW length \in 0..Horizon, NEW current \in Nat
  PROVE  /\ DOMAIN MergeActionQueue(ts, length, current) \subseteq Steps
         /\ \A t \in DOMAIN MergeActionQueue(ts, length, current) :
              MergeActionQueue(ts, length, current)[t] = ts
  BY LegacyAssumption DEF MergeActionQueue, Steps

LEMMA CreatedType ==
  ASSUME TypeOK, NEW ts \in 0..MaxSteps, Create(ts)
  PROVE  request' \in Requests
  BY LegacyAssumption DEF TypeOK, Create, Requests

LEMMA EndedRequest ==
  ASSUME request \in Requests, EndRequest
  PROVE  /\ request' \in Requests /\ request'.state \in {"done", "failed"}
         /\ request'.ts = request.ts
<1>1. ASSUME NEW length \in 1..Horizon,
             request' = [request EXCEPT !.state = "done", !.length = length]
      PROVE  /\ request' \in Requests /\ request'.state \in {"done", "failed"}
             /\ request'.ts = request.ts
  <2>1. length \in 0..Horizon
    OBVIOUS
  <2> QED
    BY <1>1, <2>1 DEF Requests
<1>2. ASSUME request' = [request EXCEPT !.state = "failed"]
      PROVE  /\ request' \in Requests /\ request'.state \in {"done", "failed"}
             /\ request'.ts = request.ts
  BY <1>2 DEF Requests
<1> QED
  BY <1>1, <1>2, Zenon DEF EndRequest

LEMMA NoRequestType == NoRequest \in Requests
  BY LegacyAssumption DEF NoRequest, Requests

-----------------------------------------------------------------------------
(* Types and the single request.                                           *)

\* One call is on its way exactly while the first request or the task of the
\* pending one runs; a loop that has ended, or not begun, has no request.
FlightInv ==
  /\ inflight = (IF pc = "first" \/ request.state = "running" THEN 1 ELSE 0)
  /\ pc \in {"first", "finished", "raised"} => request = NoRequest

LEMMA TypeInit == Init => TypeOK /\ FlightInv
<1> SUFFICES ASSUME Init PROVE TypeOK /\ FlightInv
  OBVIOUS
<1>1. request \in Requests
  BY NoRequestType DEF Init
<1>2. DOMAIN queue = {}
  BY DEF Init
<1>3. step \in 0..MaxSteps - 1
  BY LegacyAssumption DEF Init
<1>4. TypeOK
  BY <1>1, <1>2, <1>3 DEF Init, TypeOK
<1> QED
  BY <1>4 DEF Init, FlightInv

\* The end of a tick, after a sleep or without one.
LEMMA NextStepType ==
  ASSUME TypeOK, NextStep
  PROVE  step' \in 0..MaxSteps - 1 /\ request' \in Requests /\ inflight' \in Nat
  BY NoRequestType, LegacyAssumption DEF TypeOK, NextStep

LEMMA NextStepFlight ==
  ASSUME TypeOK, FlightInv, NextStep, pc \in {"pace", "sleep"}
  PROVE  FlightInv'
  BY DEF FlightInv, NextStep, NoRequest

LEMMA TypeStep ==
  ASSUME TypeOK, FlightInv, [Next]_vars
  PROVE  TypeOK' /\ FlightInv'
<1> USE LegacyAssumption
<1>1. CASE First
  <2>1. 0 \in 0..MaxSteps /\ 1..Horizon \subseteq 0..Horizon
    OBVIOUS
  <2>2. DOMAIN queue' \subseteq Steps /\ \A t \in DOMAIN queue' : queue'[t] \in Steps
    <3>1. CASE \E length \in 1..Horizon : queue' = MergeActionQueue(0, length, 0)
      BY <2>1, <3>1, MergedQueue DEF Steps
    <3> QED
      BY <1>1, <3>1 DEF First, TypeOK
  <2> QED
    BY <1>1, <2>2 DEF First, TypeOK, FlightInv, NoRequest
<1>2. CASE Poll
  <2>1. DOMAIN queue' \subseteq Steps /\ \A t \in DOMAIN queue' : queue'[t] \in Steps
    <3>1. CASE request.state = "done"
      <4>1. /\ request.ts \in 0..MaxSteps /\ request.length \in 0..Horizon /\ step \in Nat
            /\ queue' = MergeActionQueue(request.ts, request.length, step)
        BY <1>2, <3>1 DEF Poll, TypeOK, Requests
      <4>2. /\ DOMAIN queue' \subseteq Steps
            /\ \A t \in DOMAIN queue' : queue'[t] = request.ts
        BY <4>1, MergedQueue
      <4> QED
        BY <4>1, <4>2 DEF Steps
    <3> QED
      BY <1>2, <3>1 DEF Poll, TypeOK
  <2> QED
    BY <1>2, <2>1, NoRequestType DEF Poll, TypeOK, FlightInv, NoRequest
<1>3. CASE ApplyQueued
  BY <1>3 DEF ApplyQueued, TypeOK, FlightInv
<1>4. CASE HoldLast
  <2>1. request' \in Requests
    BY <1>4, CreatedType DEF HoldLast, TypeOK
  <2> QED
    BY <1>4, <2>1 DEF HoldLast, TypeOK, FlightInv, Create
<1>5. CASE Prefetch
  <2>1. request' \in Requests
    <3>1. step + 1 \in 0..MaxSteps
      BY DEF TypeOK
    <3> QED
      BY <1>5, <3>1, CreatedType DEF Prefetch, TypeOK
  <2> QED
    BY <1>5, <2>1 DEF Prefetch, TypeOK, FlightInv, Create
<1>6. CASE Pace
  <2>1. now' \in Nat /\ deadline' \in Nat
    BY <1>6 DEF Pace, TypeOK
  <2>2. CASE deadline + Period > now'
    BY <1>6, <2>1, <2>2 DEF Pace, TypeOK, FlightInv
  <2>3. CASE ~(deadline + Period > now')
    <3>1. NextStep /\ pc = "pace"
      BY <1>6, <2>3 DEF Pace
    <3> QED
      BY <1>6, <2>1, <3>1, NextStepType, NextStepFlight DEF Pace, TypeOK, NextStep
  <2> QED
    BY <2>2, <2>3
<1>7. CASE StartRequest
  <2>1. request' \in Requests /\ request'.state = "running"
    BY <1>7 DEF StartRequest, TypeOK, Requests
  <2>2. pc = "sleep" /\ inflight = 0
    BY <1>7 DEF StartRequest, FlightInv
  <2>3. inflight' = 1
    BY <1>7, <2>2 DEF StartRequest
  <2> QED
    BY <1>7, <2>1, <2>3 DEF StartRequest, TypeOK, FlightInv
<1>8. CASE EndRequest
  <2>1. request \in Requests /\ inflight \in Nat
    BY DEF TypeOK
  <2>2. pc = "sleep" /\ request.state = "running" /\ inflight = 1
    BY <1>8 DEF EndRequest, FlightInv
  <2>3. /\ UNCHANGED <<pc, step, now, deadline, queue, source, held>>
        /\ inflight' = inflight - 1
    BY <1>8, Zenon DEF EndRequest
  <2>4. inflight' = 0
    BY <2>2, <2>3
  <2>5. request' \in Requests /\ request'.state \in {"done", "failed"}
    BY <1>8, <2>1, EndedRequest
  <2> QED
    BY <2>2, <2>3, <2>4, <2>5 DEF TypeOK, FlightInv
<1>9. CASE WakeUp
  BY <1>9, NextStepType, NextStepFlight DEF WakeUp, TypeOK, NextStep
<1>10. CASE Leave
  BY <1>10, NoRequestType DEF Leave, TypeOK, FlightInv, NoRequest
<1>11. CASE UNCHANGED vars
  BY <1>11 DEF vars, TypeOK, FlightInv
<1> QED
  BY <1>1, <1>2, <1>3, <1>4, <1>5, <1>6, <1>7, <1>8, <1>9, <1>10, <1>11 DEF Next

LEMMA FlightHolds == Spec => [](TypeOK /\ FlightInv)
<1> QED
  BY TypeInit, TypeStep, PTL DEF Spec

\* The loop's variables keep their types, the step within max_steps, the queue
\* within the horizon.
THEOREM LegacyTypeCorrect == Spec => []TypeOK
<1> QED
  BY FlightHolds, PTL

\* The policy never computes two chunks for the loop at once: a tick makes a
\* request only when none is pending, wherever it makes it (run_control_loop).
THEOREM SingleFlightHolds == Spec => []SingleFlight
<1>1. FlightInv => SingleFlight
  BY DEF FlightInv, SingleFlight
<1> QED
  BY <1>1, FlightHolds, PTL

-----------------------------------------------------------------------------
(* Plans never get older.                                                  *)

\* The queue holds what is left of one chunk, and a pending request is for a
\* timestep not before the one this chunk was planned from: it was made when
\* the chunk was already there.
PlanInv ==
  /\ \A t \in DOMAIN queue : queue[t] <= step
  /\ \A t, u \in DOMAIN queue : queue[t] = queue[u]
  /\ pc = "first" => source = None
  /\ source # None => /\ source <= step
                      /\ \A t \in DOMAIN queue : source <= queue[t]
  /\ request.state # "none" =>
       /\ request.ts <= (IF pc \in {"poll", "apply"} THEN step ELSE step + 1)
       /\ \A t \in DOMAIN queue : queue[t] <= request.ts
       /\ source # None => source <= request.ts

\* What one step may do to the source of the actions in force.
SourceAdvances == source # None => source' # None /\ source' >= source

LEMMA PlanInit == Init => PlanInv
<1> SUFFICES ASSUME Init PROVE PlanInv
  OBVIOUS
<1>1. DOMAIN queue = {} /\ source = None /\ request.state = "none"
  BY DEF Init, NoRequest
<1> QED
  BY <1>1 DEF PlanInv

\* The end of a tick brings a pending request's timestep to the present.
LEMMA NextStepPlan ==
  ASSUME TypeOK, PlanInv, NextStep, UNCHANGED <<queue, source>>, pc \in {"pace", "sleep"}
  PROVE  PlanInv'
<1>1. CASE pc' = "finished" /\ request' = NoRequest /\ UNCHANGED step
  BY <1>1 DEF PlanInv, NoRequest
<1>2. CASE pc' = "poll" /\ step' = step + 1 /\ UNCHANGED request
  <2>1. /\ step \in Int /\ None \notin Int /\ (source # None => source \in Int)
        /\ \A t \in DOMAIN queue : queue[t] \in Int
    BY LegacyAssumption DEF TypeOK, Steps
  <2>2. request.state # "none" => request.ts <= step + 1
    BY DEF PlanInv
  <2> QED
    BY <1>2, <2>1, <2>2 DEF PlanInv
<1> QED
  BY <1>1, <1>2 DEF NextStep

\* A request made now is for this timestep or the next one.
LEMMA CreatePlan ==
  ASSUME TypeOK, PlanInv, NEW ts \in {step, step + 1}, Create(ts),
         UNCHANGED <<step, queue, source>>, pc' \in {"prefetch", "pace"}
  PROVE  PlanInv'
<1>1. /\ step \in Int /\ (source # None => source \in Int)
      /\ \A t \in DOMAIN queue : queue[t] \in Int
  BY DEF TypeOK, Steps
<1>2. request'.ts = ts /\ ts \in Int /\ step <= ts /\ ts <= step + 1
  BY <1>1 DEF Create
<1> QED
  BY <1>1, <1>2 DEF PlanInv

LEMMA PlanStep ==
  ASSUME TypeOK, FlightInv, PlanInv, [Next]_vars
  PROVE  PlanInv' /\ SourceAdvances
<1>0. /\ step \in Nat /\ (source # None => source \in Int) /\ request.ts \in 0..MaxSteps
      /\ request.length \in 0..Horizon
      /\ \A t \in DOMAIN queue : queue[t] \in Steps /\ queue[t] \in Int
  BY LegacyAssumption DEF TypeOK, Steps, Requests
<1>1. CASE First
  <2>1. source = source' /\ step' = step /\ request' = request /\ request.state = "none"
    BY <1>1 DEF First, FlightInv, NoRequest
  <2>2. CASE \E length \in 1..Horizon : queue' = MergeActionQueue(0, length, 0)
    <3>1. 0 \in 0..MaxSteps /\ 1..Horizon \subseteq 0..Horizon
      BY LegacyAssumption
    <3>2. \A t \in DOMAIN queue' : queue'[t] = 0
      BY <2>2, <3>1, MergedQueue
    <3>3. source = None
      BY <1>1 DEF First, PlanInv
    <3> QED
      BY <1>0, <2>1, <3>2, <3>3 DEF PlanInv, SourceAdvances
  <2>3. CASE UNCHANGED queue
    BY <1>0, <1>1, <2>1, <2>3 DEF First, PlanInv, SourceAdvances
  <2> QED
    BY <1>1, <2>2, <2>3 DEF First
<1>2. CASE Poll
  <2>1. source' = source /\ step' = step /\ pc' # "first"
    BY <1>2 DEF Poll
  <2>2. CASE request.state = "done"
    <3>1. queue' = MergeActionQueue(request.ts, request.length, step) /\ request'.state = "none"
      BY <1>2, <2>2 DEF Poll, NoRequest
    <3>2. \A t \in DOMAIN queue' : queue'[t] = request.ts
      BY <1>0, <3>1, MergedQueue
    <3>3. request.ts <= step /\ (source # None => source <= request.ts)
      BY <1>2, <2>2 DEF Poll, PlanInv
    <3> QED
      BY <1>0, <2>1, <3>1, <3>2, <3>3 DEF PlanInv, SourceAdvances
  <2>3. CASE request.state # "done"
    <3>1. /\ UNCHANGED queue
          /\ \/ request' = request /\ pc' = "apply"
             \/ request'.state = "none"
      BY <1>2, <2>3 DEF Poll, NoRequest
    <3>2. pc = "poll"
      BY <1>2 DEF Poll
    <3> QED
      BY <1>0, <2>1, <3>1, <3>2 DEF PlanInv, SourceAdvances
  <2> QED
    BY <2>2, <2>3
<1>3. CASE ApplyQueued
  <2>1. /\ step \in DOMAIN queue /\ source' = queue[step] /\ pc = "apply" /\ pc' = "prefetch"
        /\ UNCHANGED <<step, request>>
    BY <1>3 DEF ApplyQueued
  <2>2. DOMAIN queue' \subseteq DOMAIN queue /\ \A t \in DOMAIN queue' : queue'[t] = queue[t]
    BY <1>3 DEF ApplyQueued
  <2>3. source' \in Int /\ None \notin Int
    BY <1>0, <2>1, LegacyAssumption
  <2>4. source' <= step /\ \A t \in DOMAIN queue' : source' <= queue'[t]
    BY <1>0, <2>1, <2>2 DEF PlanInv
  <2>5. SourceAdvances
    BY <1>0, <2>1, <2>3 DEF PlanInv, SourceAdvances
  <2>6. request.state # "none" => /\ request.ts <= step /\ source' <= request.ts
                                  /\ \A t \in DOMAIN queue' : queue'[t] <= request.ts
    BY <2>1, <2>2 DEF PlanInv
  <2>7. request.state # "none" => request.ts <= step + 1
    BY <1>0, <2>6
  <2>8. \A t, u \in DOMAIN queue' : queue'[t] = queue'[u] /\ queue'[t] <= step
    BY <2>2 DEF PlanInv
  <2> QED
    BY <2>1, <2>4, <2>5, <2>6, <2>7, <2>8 DEF PlanInv
<1>4. CASE HoldLast
  <2>1. /\ UNCHANGED <<step, queue, source>> /\ pc = "apply" /\ pc' = "prefetch"
        /\ (Create(step) \/ UNCHANGED request)
    BY <1>4 DEF HoldLast
  <2>2. CASE Create(step)
    BY <1>0, <2>1, <2>2, CreatePlan DEF SourceAdvances
  <2>3. CASE UNCHANGED request
    BY <1>0, <2>1, <2>3 DEF PlanInv, SourceAdvances
  <2> QED
    BY <2>1, <2>2, <2>3
<1>5. CASE Prefetch
  <2>1. /\ UNCHANGED <<step, queue, source>> /\ pc = "prefetch" /\ pc' = "pace"
        /\ (Create(step + 1) \/ UNCHANGED request)
    BY <1>5 DEF Prefetch
  <2>2. CASE Create(step + 1)
    BY <1>0, <2>1, <2>2, CreatePlan DEF SourceAdvances
  <2>3. CASE UNCHANGED request
    BY <1>0, <2>1, <2>3 DEF PlanInv, SourceAdvances
  <2> QED
    BY <2>1, <2>2, <2>3
<1>6. CASE Pace
  <2>1. UNCHANGED <<queue, source>> /\ pc = "pace"
    BY <1>6 DEF Pace
  <2>2. CASE pc' = "sleep" /\ UNCHANGED <<step, request>>
    BY <1>0, <2>1, <2>2 DEF PlanInv, SourceAdvances
  <2>3. CASE NextStep
    BY <1>0, <2>1, <2>3, NextStepPlan DEF SourceAdvances
  <2> QED
    BY <1>6, <2>2, <2>3 DEF Pace
<1>7. CASE StartRequest
  <2>1. UNCHANGED <<pc, step, queue, source>> /\ request.state = "created"
    BY <1>7 DEF StartRequest
  <2>2. request'.ts = request.ts
    BY <1>7 DEF StartRequest, TypeOK, Requests
  <2> QED
    BY <1>0, <2>1, <2>2 DEF PlanInv, SourceAdvances
<1>8. CASE EndRequest
  <2>1. UNCHANGED <<pc, step, queue, source>> /\ request.state = "running"
    BY <1>8, Zenon DEF EndRequest
  <2>2. request'.ts = request.ts
    BY <1>8, EndedRequest DEF TypeOK
  <2> QED
    BY <1>0, <2>1, <2>2 DEF PlanInv, SourceAdvances
<1>9. CASE WakeUp
  BY <1>0, <1>9, NextStepPlan DEF WakeUp, SourceAdvances
<1>10. CASE Leave
  BY <1>0, <1>10 DEF Leave, PlanInv, SourceAdvances, NoRequest
<1>11. CASE UNCHANGED vars
  BY <1>0, <1>11 DEF vars, PlanInv, SourceAdvances
<1> QED
  BY <1>1, <1>2, <1>3, <1>4, <1>5, <1>6, <1>7, <1>8, <1>9, <1>10, <1>11 DEF Next

\* The timestep from which the actions in force were planned never goes back:
\* also in this loop, where a chunk replaces the whole queue (active_source_timestep).
THEOREM LegacyPlansNeverOlder == Spec => [][SourceAdvances]_vars
<1>1. Spec => [](TypeOK /\ FlightInv)
  BY FlightHolds
<1> QED
  BY <1>1, PlanInit, PlanStep, PTL DEF Spec

-----------------------------------------------------------------------------
(* Timeouts, if every tick leaves time to sleep.                           *)

TicksLeaveTime == \A work \in WorkTimes : work < Period

\* A tick begins on its deadline and sleeps to the next one.  A request starts
\* in the sleep of the tick that made it, less than a period later, and no tick
\* begins while one runs whose timeout has passed.
PaceInv ==
  /\ pc \in {"poll", "apply", "prefetch", "pace"} => now = deadline
  /\ pc = "sleep" => now < deadline /\ deadline <= now + Period
  /\ request.state = "created" =>
       /\ pc \in {"prefetch", "pace", "sleep"}
       /\ pc = "sleep" => request.madeAt + Period = deadline
       /\ pc # "sleep" => request.madeAt = now
  /\ request.state = "running" =>
       /\ request.startedAt < request.madeAt + Period
       /\ pc # "sleep" => now - request.startedAt <= RequestTimeout

LEMMA PaceInit == Init => PaceInv
  BY DEF Init, PaceInv, NoRequest

LEMMA PaceStep ==
  ASSUME TicksLeaveTime, TypeOK, FlightInv, PaceInv, [Next]_vars
  PROVE  PaceInv'
<1>0. /\ now \in Nat /\ deadline \in Nat /\ Period \in Nat /\ RequestTimeout \in Nat
      /\ request.madeAt \in Nat /\ request.startedAt \in Nat
  BY LegacyAssumption DEF TypeOK, Requests
<1>1. CASE First
  BY <1>1 DEF First, PaceInv, FlightInv, NoRequest
<1>2. CASE Poll
  <2>1. /\ pc = "poll" /\ pc' \in {"apply", "raised"} /\ UNCHANGED <<now, deadline>>
        /\ (request' = request \/ request'.state = "none")
    BY <1>2 DEF Poll, NoRequest
  <2> QED
    BY <1>0, <2>1 DEF PaceInv
<1>3. CASE ApplyQueued
  BY <1>0, <1>3 DEF ApplyQueued, PaceInv
<1>4. CASE HoldLast
  <2>1. /\ pc = "apply" /\ pc' = "prefetch" /\ UNCHANGED <<now, deadline>>
        /\ (Create(step) \/ UNCHANGED request)
    BY <1>4 DEF HoldLast
  <2> QED
    BY <1>0, <2>1 DEF PaceInv, Create
<1>5. CASE Prefetch
  <2>1. /\ pc = "prefetch" /\ pc' = "pace" /\ UNCHANGED <<now, deadline>>
        /\ (Create(step + 1) \/ UNCHANGED request)
    BY <1>5 DEF Prefetch
  <2> QED
    BY <1>0, <2>1 DEF PaceInv, Create
<1>6. CASE Pace
  <2>1. PICK work \in WorkTimes : now' = now + work
    BY <1>6 DEF Pace
  <2>2. work \in Nat /\ work < Period /\ now = deadline /\ pc = "pace"
    BY <1>6, LegacyAssumption DEF Pace, PaceInv, TicksLeaveTime
  <2>3. now' \in Nat /\ now' < deadline + Period /\ deadline <= now'
    BY <1>0, <2>1, <2>2
  <2>4. deadline' = deadline + Period /\ pc' = "sleep" /\ UNCHANGED request
    BY <1>0, <1>6, <2>3 DEF Pace
  <2>5. request.state = "created" => request.madeAt = deadline
    BY <2>2 DEF PaceInv
  <2>6. request.state = "running" => request.startedAt < request.madeAt + Period
    BY DEF PaceInv
  <2>7. now' < deadline' /\ deadline' <= now' + Period
    <3>1. \A d, n, p \in Nat : d <= n => d + p <= n + p
      OBVIOUS
    <3> QED
      BY <1>0, <2>3, <2>4, <3>1
  <2> QED
    BY <1>0, <2>4, <2>5, <2>6, <2>7 DEF PaceInv
<1>7. CASE StartRequest
  <2>1. /\ pc = "sleep" /\ request.state = "created" /\ UNCHANGED <<pc, now, deadline>>
    BY <1>7 DEF StartRequest
  <2>2. /\ request'.state = "running" /\ request'.startedAt = now
        /\ request'.madeAt = request.madeAt
    BY <1>7 DEF StartRequest, TypeOK, Requests
  <2>3. request.madeAt + Period = deadline /\ now < deadline /\ deadline <= now + Period
    BY <2>1 DEF PaceInv
  <2> QED
    BY <1>0, <2>1, <2>2, <2>3 DEF PaceInv
<1>8. CASE EndRequest
  <2>1. pc = "sleep" /\ UNCHANGED <<pc, now, deadline>>
    BY <1>8, Zenon DEF EndRequest
  <2>2. request'.state \in {"done", "failed"}
    BY <1>8, EndedRequest DEF TypeOK
  <2> QED
    BY <1>0, <2>1, <2>2 DEF PaceInv
<1>9. CASE WakeUp
  <2>1. /\ pc = "sleep" /\ request.state # "created" /\ now' = deadline
        /\ deadline' = deadline
        /\ request.state = "running" => deadline - request.startedAt <= RequestTimeout
    BY <1>9 DEF WakeUp
  <2>2. /\ pc' \in {"poll", "finished"}
        /\ request' = request \/ request'.state = "none"
    BY <1>9 DEF WakeUp, NextStep, NoRequest
  <2> QED
    BY <1>0, <2>1, <2>2 DEF PaceInv
<1>10. CASE Leave
  BY <1>10 DEF Leave, PaceInv, NoRequest
<1>11. CASE UNCHANGED vars
  BY <1>11 DEF vars, PaceInv
<1> QED
  BY <1>1, <1>2, <1>3, <1>4, <1>5, <1>6, <1>7, <1>8, <1>9, <1>10, <1>11 DEF Next

\* If every tick leaves time to sleep, no tick begins with a request that is
\* older by a period than its timeout: asyncio.wait_for has failed it in a sleep
\* of the loop before (_request_action_chunk, run_control_loop).
THEOREM PrefetchTimesOutHolds ==
  ASSUME TicksLeaveTime
  PROVE  Spec => []PrefetchTimesOut
<1>1. TypeOK /\ FlightInv /\ PaceInv /\ [Next]_vars => PaceInv'
  BY PaceStep
<1>2. TypeOK /\ PaceInv => PrefetchTimesOut
  <2>1. TypeOK => /\ now \in Nat /\ request.madeAt \in Nat /\ request.startedAt \in Nat
                  /\ Period \in Nat /\ RequestTimeout \in Nat
    BY LegacyAssumption DEF TypeOK, Requests
  <2>2. ASSUME PaceInv, pc = "poll", request.state \in {"created", "running"}
        PROVE  /\ request.startedAt < request.madeAt + Period
               /\ now - request.startedAt <= RequestTimeout
    BY <2>2 DEF PaceInv
  <2> QED
    BY <2>1, <2>2 DEF PrefetchTimesOut
<1>3. Spec => PaceInv /\ [][Next]_vars
  BY PaceInit DEF Spec
<1> QED
  BY <1>1, <1>2, <1>3, FlightHolds, PTL

=============================================================================
