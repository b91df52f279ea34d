------------------------- MODULE AsyncControlLoop -------------------------
(***************************************************************************)
(* The "latest" control loop of scripts/xtrainer/run_real.py               *)
(* (run_async_control_loop) over the mailbox that the transport            *)
(* implements, with its background capture thread (_ObservationWorker).    *)
(*                                                                         *)
(* The loop is one asyncio task: the transport makes progress only where   *)
(* the loop awaits, in the wait for the first chunk and in the sleep that  *)
(* ends every tick.  The capture thread runs at any time.  An action is    *)
(* identified by the timestep it is for and the timestep of the            *)
(* observation it was computed from; its 14 numbers, smoothing, blending   *)
(* and rate limiting do not influence the control flow.  Time is counted   *)
(* in control periods.                                                     *)
(***************************************************************************)
EXTENDS ObservationMailbox, FiniteSets

CONSTANTS
  Horizon,            \* action_horizon
  MaxSteps,           \* max_steps
  Threshold,          \* prefetch_threshold, in percent
  ObservationPeriod,  \* control_hz / observation_hz
  RequestTimeout,     \* request_timeout_s, in control periods
  TickLengths,        \* how long a tick may last, in periods (> 1: overrun)
  CanFail,            \* may the connection or a capture fail
  None                \* no timestep

ASSUME LoopAssumption ==
  /\ Horizon \in Nat \ {0} /\ MaxSteps \in Nat \ {0}
  /\ Threshold \in 0..100
  /\ ObservationPeriod \in Nat \ {0} /\ RequestTimeout \in Nat \ {0}
  /\ TickLengths \subseteq Nat \ {0} /\ TickLengths # {}
  /\ CanFail \in BOOLEAN
  /\ MaxSessions = 1 /\ {MaxObservations, MaxTimestep} \subseteq Nat
  /\ MaxObservations > MaxSteps /\ MaxTimestep >= MaxSteps
  /\ None \notin Int

VARIABLES
  pc,            \* "awaitFirst", then "drain", "capture", "poll" and "sleep" in
                 \* every tick, then "finished" or "raised", then "end"
  step,          \* step
  now,           \* monotonic_fn()
  queue,         \* action_queue: timestep -> source observation_timestep
  sent,          \* last_sent_action is not None
  source,        \* active_source_timestep
  fallback,      \* used_fallback of the current tick
  wasFallback,   \* was_fallback
  fallbackAt,    \* fallback_started_at
  nextCaptureAt, \* next_observation_at
  capture,       \* the capture worker: its future and its context
  hardware,      \* "open" or "closed" (environment.close)
  \* history
  heldSince,     \* when the current run of held actions began
  lastSubmitted, \* the timestep of the last submitted observation
  heldIds        \* the observations submitted while holding

loopVars == <<pc, step, now, queue, sent, source, fallback, wasFallback,
              fallbackAt, nextCaptureAt, capture, hardware>>
historyVars == <<heldSince, lastSubmitted, heldIds>>
vars == <<mailboxVars, loopVars, historyVars>>

NoActions == [t \in {} |-> 0]
NoCapture == [state |-> "none", ts |-> 0, must_go |-> FALSE]

\* Mutant of SubmitObservation: must_go is not passed on.
SubmitUnmarked(ts, mustGo) ==
  /\ SubmitTo([session |-> epoch, id |-> newest + 1, ts |-> ts, must_go |-> FALSE])
  /\ lastSubmitted' = ts

\* submit_observation as the loop calls it.
SubmitObservation(ts, mustGo) ==
  /\ SubmitTo([session |-> epoch, id |-> newest + 1, ts |-> ts, must_go |-> mustGo])
  /\ lastSubmitted' = ts

\* The first capture and submission are made before the loop first awaits.
Init ==
  /\ epoch = 1 /\ resetting = FALSE /\ up = TRUE /\ processed = -1 /\ inbox = <<>>
  /\ newest = 0
  /\ open = {[session |-> 1, id |-> 0, ts |-> 0, must_go |-> TRUE]}
  /\ pc = "awaitFirst" /\ step = 0 /\ now = 0
  /\ queue = NoActions /\ sent = FALSE /\ source = None
  /\ fallback = FALSE /\ wasFallback = FALSE /\ fallbackAt = None
  /\ nextCaptureAt = 0 /\ capture = NoCapture /\ hardware = "open"
  /\ heldSince = None /\ lastSubmitted = 0 /\ heldIds = {}

\* _merge_action_queue: the chunk replaces the queue, without its past.
MergeActionQueue(ts, length, current) ==
  [t \in {i \in ts..ts + length - 1 : i >= current} |-> ts]

\* _should_prefetch
ShouldPrefetch(size) == Threshold > 0 /\ size * 100 <= Threshold * Horizon


-----------------------------------------------------------------------------
(* The wait for the first chunk.                                            *)

\* One event of the initial loop; the answer's chunk may be shorter than the
\* horizon, and an error event raises.
AwaitFirst ==
  /\ pc = "awaitFirst"
  /\ ReadInbox
  /\ LET answer == Head(inbox)
     IN CASE answer.status = "actions" ->
               \E length \in 1..Horizon :
                 LET merged == MergeActionQueue(answer.ts, length, 0)
                 IN /\ queue' = merged
                    /\ pc' = IF merged = NoActions THEN "raised" ELSE "drain"
          [] answer.status = "error" -> pc' = "raised" /\ UNCHANGED queue
          [] OTHER -> UNCHANGED <<pc, queue>>
  /\ nextCaptureAt' = now
  /\ UNCHANGED <<step, now, sent, source, fallback, wasFallback, fallbackAt,
                 capture, hardware, historyVars>>

\* The loop is left: asyncio.wait_for gave up on the first chunk, the task was
\* cancelled where it awaits, or apply_action raised.
Leave ==
  /\ CanFail
  /\ pc \in {"awaitFirst", "drain", "sleep"}
  /\ pc' = "raised"
  /\ UNCHANGED <<mailboxVars, step, now, queue, sent, source, fallback,
                 wasFallback, fallbackAt, nextCaptureAt, capture, hardware,
                 historyVars>>

-----------------------------------------------------------------------------
(* One control step.                                                        *)

\* An answer read at the start of the tick.  A chunk that lies in the past is
\* discarded: the queue and the fallback timer stay as they are.
ReadAnswer ==
  /\ pc = "drain"
  /\ ReadInbox
  /\ LET answer == Head(inbox)
     IN CASE answer.status = "actions" ->
               /\ \E length \in 1..Horizon :
                    LET merged == MergeActionQueue(answer.ts, length, step)
                    IN IF merged # NoActions
                       THEN queue' = merged /\ fallbackAt' = None
                       ELSE UNCHANGED <<queue, fallbackAt>>
               /\ UNCHANGED pc
          [] answer.status = "error" -> pc' = "raised" /\ UNCHANGED <<queue, fallbackAt>>
          [] OTHER -> UNCHANGED <<pc, queue, fallbackAt>>
  /\ UNCHANGED <<step, now, sent, source, fallback, wasFallback, nextCaptureAt,
                 capture, hardware, historyVars>>

\* The action of this timestep is popped and applied.
ApplyQueued ==
  /\ pc = "drain" /\ inbox = <<>>
  /\ step \in DOMAIN queue
  /\ queue' = [t \in DOMAIN queue \ {step} |-> queue[t]]
  /\ source' = queue[step]
  /\ sent' = TRUE
  /\ fallback' = FALSE
  /\ heldSince' = None
  /\ pc' = "capture"
  /\ UNCHANGED <<mailboxVars, step, now, wasFallback, fallbackAt, nextCaptureAt,
                 capture, hardware, lastSubmitted, heldIds>>

\* Mutant of Expired: the boundary is missed.
ExpiredLate == fallbackAt # None /\ now - fallbackAt > RequestTimeout

\* The fallback timeout of _run_async_control_loop.
Expired == fallbackAt # None /\ now - fallbackAt >= RequestTimeout

\* There is none: the last action is held, for at most request_timeout_s.
HoldLast ==
  /\ pc = "drain" /\ inbox = <<>>
  /\ step \notin DOMAIN queue
  /\ fallback' = TRUE
  /\ IF ~sent \/ Expired
     THEN pc' = "raised" /\ UNCHANGED <<fallbackAt, heldSince>>
     ELSE /\ fallbackAt' = IF fallbackAt = None THEN now ELSE fallbackAt
          /\ heldSince' = IF heldSince = None THEN now ELSE heldSince
          /\ pc' = "capture"
  /\ UNCHANGED <<mailboxVars, step, now, queue, sent, source, wasFallback,
                 nextCaptureAt, capture, hardware, lastSubmitted, heldIds>>

\* _ObservationWorker.start.  Without background_observation the capture is made
\* by start itself: that is the case in which CaptureEnds is the next step.
StartCapture ==
  /\ pc = "capture"
  /\ LET entered == fallback /\ ~wasFallback
         wanted == fallback \/ ShouldPrefetch(Cardinality(DOMAIN queue))
     IN IF (entered \/ (wanted /\ now >= nextCaptureAt)) /\ capture.state = "none"
        THEN /\ capture' = [state |-> "running", ts |-> step + 1, must_go |-> entered]
             /\ nextCaptureAt' = now + ObservationPeriod
        ELSE UNCHANGED <<capture, nextCaptureAt>>
  /\ pc' = "poll"
  /\ UNCHANGED <<mailboxVars, step, now, queue, sent, source, fallback,
                 wasFallback, fallbackAt, hardware, historyVars>>

\* The capture thread ends its read; its future is done from now on.
CaptureEnds ==
  /\ capture.state = "running"
  /\ \E state \in {"ready"} \cup IF CanFail THEN {"failed"} ELSE {} :
       capture' = [capture EXCEPT !.state = state]
  /\ UNCHANGED <<mailboxVars, pc, step, now, queue, sent, source, fallback,
                 wasFallback, fallbackAt, nextCaptureAt, hardware, historyVars>>

\* _ObservationWorker.poll, and what the loop does with a finished capture.
PollCapture ==
  /\ pc = "poll"
  /\ wasFallback' = fallback
  /\ CASE capture.state \in {"none", "running"} ->
            /\ pc' = "sleep"
            /\ UNCHANGED <<mailboxVars, capture, nextCaptureAt, lastSubmitted, heldIds>>
       [] capture.state = "failed" ->
            /\ pc' = "raised" /\ capture' = NoCapture
            /\ UNCHANGED <<mailboxVars, nextCaptureAt, lastSubmitted, heldIds>>
       [] capture.state = "ready" /\ step + 1 - capture.ts >= Horizon ->
            /\ pc' = "sleep" /\ capture' = NoCapture /\ nextCaptureAt' = now
            /\ UNCHANGED <<mailboxVars, lastSubmitted, heldIds>>
       [] OTHER ->
            /\ pc' = "sleep" /\ capture' = NoCapture
            /\ nextCaptureAt' = now + ObservationPeriod
            /\ SubmitObservation(capture.ts, capture.must_go \/ fallback)
            /\ heldIds' = IF fallback THEN heldIds \cup {newest'} ELSE heldIds
  /\ UNCHANGED <<step, now, queue, sent, source, fallback, fallbackAt, hardware,
                 heldSince>>

\* The sleep ends: always awaited, even after an overrun.
EndTick ==
  /\ pc = "sleep"
  /\ \E length \in TickLengths : now' = now + length
  /\ IF step + 1 = MaxSteps
     THEN pc' = "finished" /\ UNCHANGED step
     ELSE pc' = "drain" /\ step' = step + 1
  /\ UNCHANGED <<mailboxVars, queue, sent, source, fallback, wasFallback,
                 fallbackAt, nextCaptureAt, capture, hardware, historyVars>>

\* Mutant of CloseHardware: the capture thread is not joined.
CloseHardwareAtOnce ==
  /\ pc \in {"finished", "raised"}
  /\ hardware' = "closed"
  /\ pc' = "end"
  /\ UNCHANGED <<mailboxVars, step, now, queue, sent, source, fallback,
                 wasFallback, fallbackAt, nextCaptureAt, capture, historyVars>>

\* Mutant of CloseHardware: not in a finally block.
CloseHardwareOnSuccess ==
  /\ pc = "finished"
  /\ capture.state # "running"
  /\ hardware' = "closed"
  /\ pc' = "end"
  /\ UNCHANGED <<mailboxVars, step, now, queue, sent, source, fallback,
                 wasFallback, fallbackAt, nextCaptureAt, capture, historyVars>>

\* run_async_control_loop joins the capture thread, then run() closes the
\* hardware.
CloseHardware ==
  /\ pc \in {"finished", "raised"}
  /\ capture.state # "running"
  /\ hardware' = "closed"
  /\ pc' = "end"
  /\ UNCHANGED <<mailboxVars, step, now, queue, sent, source, fallback,
                 wasFallback, fallbackAt, nextCaptureAt, capture, historyVars>>

-----------------------------------------------------------------------------
\* The transport, as the mailbox allows it, while the loop awaits.
Transport ==
  /\ pc \in {"awaitFirst", "sleep"}
  /\ \/ \E o \in open :
          \/ Supersede(o)
          \/ \E status \in {"actions", "similar", "error"} : Process(o, status)
     \/ CanFail /\ up /\ Fail
  /\ UNCHANGED <<loopVars, historyVars>>

Loop ==
  \/ AwaitFirst \/ ReadAnswer \/ ApplyQueued \/ HoldLast \/ StartCapture
  \/ PollCapture \/ EndTick \/ CloseHardware

Next == Loop \/ CaptureEnds \/ Leave \/ Transport

Spec == Init /\ [][Next]_vars

\* The loop's task runs while it can, a capture ends, and the wait for the first
\* chunk ends: by an answer, or by its timeout.
FairSpec ==
  Spec /\ WF_vars(Loop) /\ WF_vars(CaptureEnds)
       /\ WF_vars(Leave /\ pc = "awaitFirst")

-----------------------------------------------------------------------------
(* Properties.                                                              *)

Steps == 0..MaxSteps + Horizon

TypeOK ==
  /\ open \subseteq Observation
  /\ \A k \in 1..Len(inbox) :
       inbox[k].status \in {"actions", "similar", "superseded", "error"}
  /\ pc \in {"awaitFirst", "drain", "capture", "poll", "sleep", "finished",
             "raised", "end"}
  /\ step \in 0..MaxSteps - 1 /\ now \in Nat
  /\ DOMAIN queue \subseteq Steps /\ \A t \in DOMAIN queue : queue[t] \in Steps
  /\ {sent, fallback, wasFallback} \subseteq BOOLEAN
  /\ source \in Nat \cup {None}
  /\ fallbackAt \in Nat \cup {None} /\ heldSince \in Nat \cup {None}
  /\ nextCaptureAt \in Nat
  /\ capture \in [state: {"none", "running", "ready", "failed"},
                  ts: 0..MaxSteps, must_go: BOOLEAN]
  /\ hardware \in {"open", "closed"}

InTick == pc \in {"capture", "poll", "sleep"}

\* The loop holds its last action only when it has no action for a later step
\* either: a merge never leaves a gap in front of queued actions.
HoldOnlyWhenEmpty == (InTick /\ fallback) => DOMAIN queue = {}

\* The robot never goes back to a plan made from an older observation, even if
\* answers come late, are discarded or overlap (docs: no misattributed source).
SourceNeverOlder == [][source # None => source' >= source]_source

\* Every submission has a new, larger timestep: the server would answer a
\* repeated one with "duplicate", without the ack that the client's sender waits
\* for.
TimestepsIncrease == [][newest' # newest => lastSubmitted' > lastSubmitted]_vars

\* No action is held for longer than the request timeout: answers that bring no
\* usable chunk (stale, similar, superseded) do not extend it.
HoldBounded == (InTick /\ fallback) => now - heldSince < RequestTimeout

\* An observation submitted while holding is never skipped as similar, also if
\* its capture began before the queue ran out.
HeldNeverFiltered ==
  \A k \in 1..Len(inbox) : inbox[k].status = "similar" => inbox[k].id \notin heldIds

\* The capture thread never touches hardware that is closed.
NoReadAfterClose == hardware = "closed" => capture.state # "running"

\* However the loop ends, the hardware is closed in the end.
HardwareGetsClosed == <>(hardware = "closed")
===========================================================================
