------------------------- MODULE LegacyControlLoop -------------------------
(***************************************************************************)
(* The "legacy" control loop of scripts/xtrainer/run_real.py               *)
(* (run_control_loop): one request at a time, made by a task of its own    *)
(* under asyncio.wait_for, whose chunk replaces the action queue.  The loop *)
(* and the request's task share one event loop, so the request advances    *)
(* only while the loop sleeps at the end of a tick.  Time is an integer;   *)
(* an action is the timestep it is for and the one it was planned from.    *)
(***************************************************************************)
EXTENDS Integers, FiniteSets

CONSTANTS
  Horizon,         \* action_horizon
  MaxSteps,        \* max_steps
  Threshold,       \* prefetch_threshold, in percent
  Period,          \* 1 / control_hz
  RequestTimeout,  \* request_timeout_s
  WorkTimes,       \* how long the body of a tick may last
  None             \* no timestep

ASSUME LegacyAssumption ==
  /\ {Horizon, MaxSteps, Period, RequestTimeout} \subseteq Nat \ {0}
  /\ Threshold \in 0..100
  /\ WorkTimes \subseteq Nat
  /\ None \notin Int

VARIABLES
  pc,        \* "first", then "poll", "apply", "prefetch", "pace" and "sleep" in
             \* every tick, then "finished" or "raised"
  step,      \* step
  now,       \* monotonic_fn()
  deadline,  \* deadline
  queue,     \* action_queue: timestep -> observation_timestep of its chunk
  source,    \* active_source_timestep
  held,      \* used_fallback of the current tick
  request,   \* pending_request: its state, observation_timestep and start time
  inflight   \* history: calls of policy.infer that have not ended

vars == <<pc, step, now, deadline, queue, source, held, request, inflight>>

NoRequest == [state |-> "none", ts |-> 0, madeAt |-> 0, startedAt |-> 0, length |-> 0]

\* _merge_action_queue
MergeActionQueue(ts, length, current) ==
  [t \in {i \in ts..ts + length - 1 : i >= current} |-> ts]

\* _should_prefetch
ShouldPrefetch(size) == Threshold > 0 /\ size * 100 <= Threshold * Horizon

\* asyncio.create_task(_request_action_chunk(...)): it runs at the next await.
Create(ts) ==
  request' = [state |-> "created", ts |-> ts, madeAt |-> now, startedAt |-> 0, length |-> 0]

Init ==
  /\ pc = "first" /\ step = 0 /\ now = 0 /\ deadline = 0
  /\ queue = [t \in {} |-> 0] /\ source = None /\ held = FALSE
  /\ request = NoRequest /\ inflight = 1

\* The first request is awaited; it may fail or time out.
First ==
  /\ pc = "first"
  /\ inflight' = 0
  /\ \/ /\ \E length \in 1..Horizon : queue' = MergeActionQueue(0, length, 0)
        /\ pc' = "poll"
     \/ pc' = "raised" /\ UNCHANGED queue
  /\ deadline' = now
  /\ UNCHANGED <<step, now, source, held, request>>

\* The start of a tick: a finished request is taken over, whatever is left of
\* its chunk; a failed one raises.
Poll ==
  /\ pc = "poll"
  /\ CASE request.state = "done" ->
            /\ queue' = MergeActionQueue(request.ts, request.length, step)
            /\ request' = NoRequest
            /\ pc' = "apply"
       [] request.state = "failed" ->
            pc' = "raised" /\ request' = NoRequest /\ UNCHANGED queue
       [] OTHER -> pc' = "apply" /\ UNCHANGED <<queue, request>>
  /\ UNCHANGED <<step, now, deadline, source, held, inflight>>

\* The action of this timestep is applied ...
ApplyQueued ==
  /\ pc = "apply" /\ step \in DOMAIN queue
  /\ source' = queue[step]
  /\ queue' = [t \in DOMAIN queue \ {step} |-> queue[t]]
  /\ held' = FALSE
  /\ pc' = "prefetch"
  /\ UNCHANGED <<step, now, deadline, request, inflight>>

\* Mutant of HoldLast: it does not look for a request on its way.
HoldLastAndRequest ==
  /\ pc = "apply" /\ step \notin DOMAIN queue
  /\ source # None
  /\ Create(step)
  /\ held' = TRUE
  /\ pc' = "prefetch"
  /\ UNCHANGED <<step, now, deadline, queue, source, inflight>>

\* ... or the last one is held, and a replacement requested from this timestep.
HoldLast ==
  /\ pc = "apply" /\ step \notin DOMAIN queue
  /\ source # None          \* before the first action the loop raises instead
  /\ IF request.state = "none" THEN Create(step) ELSE UNCHANGED request
  /\ held' = TRUE
  /\ pc' = "prefetch"
  /\ UNCHANGED <<step, now, deadline, queue, source, inflight>>

\* A request for the next timestep, when few actions are left.
Prefetch ==
  /\ pc = "prefetch"
  /\ IF request.state = "none" /\ ShouldPrefetch(Cardinality(DOMAIN queue))
     THEN Create(step + 1)
     ELSE UNCHANGED request
  /\ pc' = "pace"
  /\ UNCHANGED <<step, now, deadline, queue, source, held, inflight>>

\* The end of the loop cancels a request that is still pending.
NextStep ==
  IF step + 1 = MaxSteps
  THEN pc' = "finished" /\ request' = NoRequest /\ inflight' = 0 /\ UNCHANGED step
  ELSE pc' = "poll" /\ step' = step + 1 /\ UNCHANGED <<request, inflight>>

\* The tick's body took "work".  If there is time left until the deadline the
\* loop sleeps, otherwise it goes on at once: nothing else runs.
Pace ==
  /\ pc = "pace"
  /\ \E work \in WorkTimes : now' = now + work
  /\ IF deadline + Period > now'
     THEN /\ deadline' = deadline + Period
          /\ pc' = "sleep"
          /\ UNCHANGED <<step, request, inflight>>
     ELSE deadline' = now' /\ NextStep
  /\ UNCHANGED <<queue, source, held>>

\* In the sleep the request's task calls policy.infer ...
StartRequest ==
  /\ pc = "sleep" /\ request.state = "created"
  /\ request' = [request EXCEPT !.state = "running", !.startedAt = now]
  /\ inflight' = inflight + 1
  /\ UNCHANGED <<pc, step, now, deadline, queue, source, held>>

\* ... and the call ends: with a chunk, or by an error or its timeout.
EndRequest ==
  /\ pc = "sleep" /\ request.state = "running"
  /\ \/ \E length \in 1..Horizon :
          request' = [request EXCEPT !.state = "done", !.length = length]
     \/ request' = [request EXCEPT !.state = "failed"]
  /\ inflight' = inflight - 1
  /\ UNCHANGED <<pc, step, now, deadline, queue, source, held>>

\* Mutant of WakeUp: without asyncio.wait_for.
WakeUpWithoutTimeout ==
  /\ pc = "sleep"
  /\ request.state # "created"
  /\ now' = deadline
  /\ NextStep
  /\ UNCHANGED <<deadline, queue, source, held>>

\* The sleep ends, not before a created request has started and an expired one
\* has failed.
WakeUp ==
  /\ pc = "sleep"
  /\ request.state # "created"
  /\ request.state = "running" => deadline - request.startedAt <= RequestTimeout
  /\ now' = deadline
  /\ NextStep
  /\ UNCHANGED <<deadline, queue, source, held>>

\* apply_action or get_observation raised, or the loop was cancelled in its
\* sleep: the finally block cancels a request that is still pending.
Leave ==
  /\ pc \in {"apply", "prefetch", "sleep"}
  /\ pc' = "raised"
  /\ request' = NoRequest /\ inflight' = 0
  /\ UNCHANGED <<step, now, deadline, queue, source, held>>

Next ==
  \/ First \/ Poll \/ ApplyQueued \/ HoldLast \/ Prefetch \/ Pace
  \/ StartRequest \/ EndRequest \/ WakeUp \/ Leave

Spec == Init /\ [][Next]_vars

-----------------------------------------------------------------------------
(* Properties.                                                              *)

Requests ==
  [state: {"none", "created", "running", "done", "failed"}, ts: 0..MaxSteps,
   madeAt: Nat, startedAt: Nat, length: 0..Horizon]

Steps == 0..MaxSteps + Horizon

TypeOK ==
  /\ pc \in {"first", "poll", "apply", "prefetch", "pace", "sleep", "finished", "raised"}
  /\ step \in 0..MaxSteps - 1 /\ now \in Nat /\ deadline \in Nat
  /\ DOMAIN queue \subseteq Steps /\ \A t \in DOMAIN queue : queue[t] \in Steps
  /\ source \in Steps \cup {None} /\ held \in BOOLEAN
  /\ request \in Requests /\ inflight \in Nat

\* The policy never computes two chunks for the loop at once (test:
\* max_active_infers == 1), although two places of a tick make requests.
SingleFlight == inflight <= 1

\* A request that nobody answers fails in the sleep in which its timeout
\* passes, and the next tick raises (test: a hanging prefetch raises
\* TimeoutError): no tick begins with one that is older by a period than the
\* timeout.  It holds if every tick leaves time to sleep.  After a tick that
\* overruns the loop does not yield, so the request is not even sent.
PrefetchTimesOut ==
  (pc = "poll" /\ request.state \in {"created", "running"})
    => now - request.madeAt < RequestTimeout + Period
=============================================================================
