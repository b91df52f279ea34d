------------------------- MODULE LatestTransport -------------------------
(***************************************************************************)
(* One WebSocket connection in latest-observation mode: the client's       *)
(* replaceable slot with its sender and receiver tasks                     *)
(* (deploy/xtrainer/websocket_client_policy.py) and the server's           *)
(* connection handler with its _LatestSession and worker task              *)
(* (deploy/xtrainer/websocket_policy_server.py).                           *)
(*                                                                         *)
(* Both programs are asyncio programs, so a step is what one task does     *)
(* between two awaits that really suspend.  Putting a frame in the         *)
(* server's outgoing queue suspends only when the queue is full;           *)
(* OutgoingStaysShort shows that it never is, hence a handler step that    *)
(* sends two frames is one action.  A payload is abstracted to a number,   *)
(* the joint posture along one axis: |p - q| is the joint distance that    *)
(* observations_similar compares with epsilon.                             *)
(***************************************************************************)
EXTENDS Integers, Sequences

CONSTANTS
  MaxObservations,   \* bound: observations submitted per session
  MaxSessions,       \* bound: sessions of the connection (1 + resets)
  Payloads,          \* payloads the caller submits, as joint postures
  Malformed,         \* the payloads that policy.validate_payload refuses
  Epsilon,           \* observation_similarity_epsilon; 0 stands for None too
  PolicyOutcomes,    \* how a policy call may end, see below
  RepeatTimesteps,   \* may the caller submit a timestep twice
  CanClose,          \* may the caller close the client
  CanDrop,           \* may the network connection be lost
  None               \* no observation, no baseline

ASSUME BoundsAssumption == MaxObservations \in Nat /\ MaxSessions \in Nat \ {0}
ASSUME PayloadAssumption == Payloads \subseteq Int /\ Malformed \subseteq Payloads
ASSUME EpsilonAssumption == Epsilon \in Nat
ASSUME OutcomesAssumption ==
  /\ "ok" \in PolicyOutcomes
  /\ PolicyOutcomes \subseteq {"ok", "raise", "unsendable"}
ASSUME FlagsAssumption == {RepeatTimesteps, CanClose, CanDrop} \subseteq BOOLEAN

\* Session ids are fresh uuids in the code: only their identity matters.
Sessions == 1..MaxSessions
Ids == 0..MaxObservations - 1

Observation ==
  [session: Nat, id: Nat, ts: Nat, must_go: BOOLEAN, payload: Payloads]

ASSUME NoneAssumption == None \notin Observation /\ None \notin Payloads

\* A frame from the server.  "reset" answers the reset request and carries the
\* new session, "error" is the {"ok": false} frame, id and ts are -1 in both.
Statuses == {"actions", "similar", "superseded", "duplicate", "error"}
Frame ==
  [type: {"ack", "result", "reset", "error"}, session: Nat, id: Int, ts: Int,
   status: Statuses \cup {"accepted", "ok"}]

VARIABLES
  \* the caller of the client (the control program)
  caller,         \* "run", "resetting", "failed", "closing", "joining", "closed"
  callerTs,       \* the last timestep it submitted
  \* the client
  slot,           \* _pending_observation
  slotEvent,      \* _pending_event
  nextId,         \* _next_observation_id
  clientSession,  \* _session_id
  sender,         \* _sender_loop: "slot" or "ack" (what it awaits), "done"
  ackId,          \* the key of its future in _ack_waiters
  ackWaiter,      \* that future: "none", "pending", "set", "failed"
  rpcWaiter,      \* the future of the reset request, likewise
  rpcSession,     \* the session id in its result
  receiver,       \* _receiver_loop: "run", "closing", "lastFrame", "dead", "done"
  events,         \* _events
  \* the connection
  link,           \* "up" or "down"
  c2s,            \* messages on their way to the server
  s2c,            \* the server's outgoing queue and frames on their way
  \* the server's handler and _LatestSession
  handler,        \* "recv", "resetWait", "resetPolicy", "closing", "done"
  session,        \* session_id
  generation,
  pending,
  pendingEvent,   \* pending_event
  sessionClosed,  \* closed
  highestId,      \* highest_id
  highestTs,      \* highest_timestep
  baseline,       \* last_successful_payload
  worker,         \* _worker: "wait", "infer", "done"; idle <=> worker # "infer"
  item,           \* the observation it infers
  itemGeneration,
  \* history: the statuses sent about each observation, in order
  log

callerVars == <<caller, callerTs>>
slotVars == <<slot, slotEvent, nextId, clientSession>>
senderVars == <<sender, ackId, ackWaiter>>
rpcVars == <<rpcWaiter, rpcSession>>
receiverVars == <<receiver, events>>
clientVars == <<callerVars, slotVars, senderVars, rpcVars, receiverVars>>
netVars == <<link, c2s, s2c>>
sessionVars == <<session, generation, highestId, highestTs>>
pendingVars == <<pending, pendingEvent>>
workerVars == <<worker, item, itemGeneration>>
serverVars == <<handler, sessionVars, pendingVars, sessionClosed, baseline,
                workerVars, log>>
vars == <<clientVars, netVars, serverVars>>

Init ==
  /\ caller = "run" /\ callerTs = -1
  /\ slot = None /\ slotEvent = FALSE /\ nextId = 0 /\ clientSession = 1
  /\ sender = "slot" /\ ackId = -1 /\ ackWaiter = "none"
  /\ rpcWaiter = "none" /\ rpcSession = 0
  /\ receiver = "run" /\ events = <<>>
  /\ link = "up" /\ c2s = <<>> /\ s2c = <<>>
  /\ handler = "recv" /\ session = 1 /\ generation = 0
  /\ pending = None /\ pendingEvent = FALSE /\ sessionClosed = FALSE
  /\ highestId = -1 /\ highestTs = -1 /\ baseline = None
  /\ worker = "wait" /\ item = None /\ itemGeneration = 0
  /\ log = [s \in Sessions |-> [i \in Ids |-> <<>>]]

-----------------------------------------------------------------------------
(* The caller: the API calls of the control program, one task.             *)

NextTimesteps ==
  IF RepeatTimesteps /\ callerTs >= 0 THEN {callerTs, callerTs + 1}
                                      ELSE {callerTs + 1}

\* Mutant of Submit: a must_go flag already in the slot is lost.
SubmitLosingMark(ts, mustGo, payload) ==
  /\ caller = "run"
  /\ nextId < MaxObservations
  /\ slot' = [session |-> clientSession, id |-> nextId, ts |-> ts,
              must_go |-> mustGo, payload |-> payload]
  /\ slotEvent' = TRUE
  /\ nextId' = nextId + 1
  /\ callerTs' = ts
  /\ UNCHANGED <<caller, clientSession, senderVars, rpcVars, receiverVars,
                 netVars, serverVars>>

\* submit_observation: replaces the slot, keeping a must_go flag already there.
Submit(ts, mustGo, payload) ==
  /\ caller = "run"
  /\ nextId < MaxObservations
  /\ slot' = [session |-> clientSession, id |-> nextId, ts |-> ts,
              must_go |-> mustGo \/ (slot # None /\ slot.must_go),
              payload |-> payload]
  /\ slotEvent' = TRUE
  /\ nextId' = nextId + 1
  /\ callerTs' = ts
  /\ UNCHANGED <<caller, clientSession, senderVars, rpcVars, receiverVars,
                 netVars, serverVars>>

\* get_observation_event_nowait
PollEvent ==
  /\ caller = "run"
  /\ events # <<>>
  /\ events' = Tail(events)
  /\ UNCHANGED <<callerVars, slotVars, senderVars, rpcVars, receiver, netVars,
                 serverVars>>

\* reset(): sends the request; without a connection _send raises at once.
ResetCall ==
  /\ caller = "run"
  /\ clientSession < MaxSessions
  /\ IF link = "up"
     THEN /\ caller' = "resetting"
          /\ rpcWaiter' = "pending"
          /\ c2s' = Append(c2s, [type |-> "reset", session |-> clientSession])
     ELSE caller' = "failed" /\ UNCHANGED <<rpcWaiter, c2s>>
  /\ UNCHANGED <<callerTs, slotVars, senderVars, rpcSession, receiverVars, link,
                 s2c, serverVars>>

\* reset() resumes: only now are the id counter and the slot cleared.
ResetReturn ==
  /\ caller = "resetting"
  /\ rpcWaiter = "set"
  /\ clientSession' = rpcSession
  /\ nextId' = 0
  /\ slot' = None
  /\ caller' = "run"
  /\ callerTs' = -1
  /\ rpcWaiter' = "none"
  /\ UNCHANGED <<slotEvent, senderVars, rpcSession, receiverVars, netVars,
                 serverVars>>

\* reset() raises: _async_request drops its waiter, nothing else changes.
ResetRaise ==
  /\ caller = "resetting"
  /\ rpcWaiter = "failed"
  /\ caller' = "failed"
  /\ rpcWaiter' = "none"
  /\ UNCHANGED <<callerTs, slotVars, senderVars, rpcSession, receiverVars,
                 netVars, serverVars>>

\* close() up to ws.close(), which wakes the receiver with a CLOSING message.
\* A frame that was already in the reader's buffer is returned before it.
Close ==
  /\ CanClose
  /\ caller \in {"run", "failed"}
  /\ caller' = "closing"
  /\ slotEvent' = TRUE
  /\ receiver' \in
       IF receiver # "run" THEN {receiver}
       ELSE {"closing"} \cup (IF s2c # <<>> THEN {"lastFrame"} ELSE {})
  /\ UNCHANGED <<callerTs, slot, nextId, clientSession, senderVars, rpcVars,
                 events, netVars, serverVars>>

closed == caller \in {"closing", "joining", "closed"}   \* _closed

\* ws.close() goes on once receive() has returned; close() then gathers tasks.
CloseSocket ==
  /\ caller = "closing"
  /\ receiver \in {"done", "dead"}
  /\ caller' = "joining"
  /\ c2s' = IF link = "up" THEN Append(c2s, [type |-> "close"]) ELSE c2s
  /\ UNCHANGED <<callerTs, slotVars, senderVars, rpcVars, receiverVars, link,
                 s2c, serverVars>>

\* gather() returns when the sender task has ended; close() clears the fields.
CloseReturn ==
  /\ caller = "joining"
  /\ sender = "done"
  /\ caller' = "closed"
  /\ UNCHANGED <<callerTs, slotVars, senderVars, rpcVars, receiverVars, netVars,
                 serverVars>>

-----------------------------------------------------------------------------
(* The client's sender task.                                               *)

\* _sender_loop from the wait to the next suspension.
SenderTake ==
  /\ sender = "slot"
  /\ slotEvent
  /\ ~closed
  /\ slotEvent' = FALSE
  /\ slot' = None
  /\ IF slot = None
     THEN UNCHANGED <<senderVars, c2s>>
     ELSE IF link = "up"
     THEN /\ sender' = "ack"
          /\ ackId' = slot.id
          /\ ackWaiter' = "pending"
          /\ c2s' = Append(c2s, [type |-> "observation", obs |-> slot])
     ELSE /\ sender' = "done"      \* _send raises and ends the task
          /\ UNCHANGED <<ackId, ackWaiter, c2s>>
  /\ UNCHANGED <<callerVars, nextId, clientSession, rpcVars, receiverVars, link,
                 s2c, serverVars>>

SenderStop ==
  /\ sender = "slot"
  /\ slotEvent
  /\ closed
  /\ sender' = "done"
  /\ UNCHANGED <<callerVars, slotVars, ackId, ackWaiter, rpcVars, receiverVars,
                 netVars, serverVars>>

\* Mutant of SenderResume: the sender does not wait for the acknowledgement.
SenderResumeAtOnce ==
  /\ sender = "ack"
  /\ sender' = IF ackWaiter = "failed" \/ closed THEN "done" ELSE "slot"
  /\ slotEvent' = (slotEvent \/ slot # None)
  /\ ackId' = -1
  /\ ackWaiter' = "none"
  /\ UNCHANGED <<callerVars, slot, nextId, clientSession, rpcVars, receiverVars,
                 netVars, serverVars>>

\* The ack arrived, or its waiter was failed (the exception ends the task).
SenderResume ==
  /\ sender = "ack"
  /\ ackWaiter \in {"set", "failed"}
  /\ sender' = IF ackWaiter = "failed" \/ closed THEN "done" ELSE "slot"
  /\ slotEvent' = (slotEvent \/ (ackWaiter = "set" /\ slot # None))
  /\ ackId' = -1
  /\ ackWaiter' = "none"
  /\ UNCHANGED <<callerVars, slot, nextId, clientSession, rpcVars, receiverVars,
                 netVars, serverVars>>

-----------------------------------------------------------------------------
(* The client's receiver task.                                             *)

\* Mutant of FailWaiters: the waiter of a request is forgotten.
FailAckWaiter ==
  /\ ackWaiter' = IF ackWaiter = "pending" THEN "failed" ELSE ackWaiter
  /\ UNCHANGED rpcWaiter

\* _fail_waiters
FailWaiters ==
  /\ ackWaiter' = IF ackWaiter = "pending" THEN "failed" ELSE ackWaiter
  /\ rpcWaiter' = IF rpcWaiter = "pending" THEN "failed" ELSE rpcWaiter

ErrorEvent == [type |-> "result", session |-> 0, id |-> -1, ts |-> -1,
               status |-> "error"]

\* The except branch of _receiver_loop.
ReceiverFails(state) ==
  /\ receiver' = state
  /\ FailWaiters
  /\ events' = IF closed THEN events ELSE Append(events, ErrorEvent)
  /\ UNCHANGED <<callerVars, slotVars, sender, ackId, rpcSession>>

\* The body of the loop for one frame; afterwards the task is in "state".
Receive(frame, state) ==
  CASE frame.type = "ack" ->
         /\ ackWaiter' = IF sender = "ack" /\ ackId = frame.id /\ ackWaiter = "pending"
                         THEN "set" ELSE ackWaiter
         /\ receiver' = state
         /\ UNCHANGED <<callerVars, slotVars, sender, ackId, rpcVars, events>>
    [] frame.type = "result" ->
         /\ events' = Append(events, frame)
         /\ receiver' = state
         /\ UNCHANGED <<callerVars, slotVars, senderVars, rpcVars>>
    [] frame.type = "reset" /\ rpcWaiter = "pending" ->
         /\ rpcWaiter' = "set"
         /\ rpcSession' = frame.session
         /\ receiver' = state
         /\ UNCHANGED <<callerVars, slotVars, senderVars, events>>
    [] OTHER -> ReceiverFails("dead")

ReceiverFrame ==
  /\ receiver = "run"
  /\ s2c # <<>>
  /\ s2c' = Tail(s2c)
  /\ Receive(Head(s2c), "run")
  /\ UNCHANGED <<link, c2s, serverVars>>

\* The frame received while close() runs: "while not self._closed" then ends
\* the loop normally, without failing the waiters.
ReceiverLastFrame ==
  /\ receiver = "lastFrame"
  /\ s2c # <<>>
  /\ s2c' = Tail(s2c)
  /\ Receive(Head(s2c), "done")
  /\ UNCHANGED <<link, c2s, serverVars>>

\* receive() returns a message that is not binary: CLOSING, CLOSED or ERROR.
ReceiverEnds ==
  /\ \/ receiver = "closing" /\ ReceiverFails("done")
     \/ receiver = "run" /\ link = "down" /\ s2c = <<>> /\ ReceiverFails("dead")
  /\ UNCHANGED <<netVars, serverVars>>

-----------------------------------------------------------------------------
(* The server.                                                             *)

FrameOf(type, o, status) ==
  [type |-> type, session |-> o.session, id |-> o.id, ts |-> o.ts,
   status |-> status]

ErrorFrame == [type |-> "error", session |-> 0, id |-> -1, ts |-> -1,
               status |-> "error"]

\* send(): a frame put after the connection is lost reaches nobody.
Send(frames) == s2c' = IF link = "up" THEN s2c \o frames ELSE s2c

Logged(l, o, status) ==
  [l EXCEPT ![o.session][o.id] = Append(@, status)]

\* Mutant of Accept: the worker is not woken.
AcceptSilently(o) ==
  /\ highestId' = o.id
  /\ highestTs' = o.ts
  /\ pending' = o
  /\ UNCHANGED pendingEvent
  /\ LET acked == Logged(log, o, "ack")
         ack == FrameOf("ack", o, "accepted")
     IN IF pending = None
        THEN Send(<<ack>>) /\ log' = acked
        ELSE /\ Send(<<ack, FrameOf("result", pending, "superseded")>>)
             /\ log' = Logged(acked, pending, "superseded")

\* submit: the observation is acknowledged, then takes the place of pending.
Accept(o) ==
  /\ highestId' = o.id
  /\ highestTs' = o.ts
  /\ pending' = o
  /\ pendingEvent' = TRUE
  /\ LET acked == Logged(log, o, "ack")
         ack == FrameOf("ack", o, "accepted")
     IN IF pending = None
        THEN Send(<<ack>>) /\ log' = acked
        ELSE /\ Send(<<ack, FrameOf("result", pending, "superseded")>>)
             /\ log' = Logged(acked, pending, "superseded")

Repeated(o) == o.id <= highestId \/ o.ts <= highestTs

SubmitHandler(o) ==
  /\ \/ /\ o.session # session \/ (~Repeated(o) /\ o.payload \in Malformed)
        /\ Send(<<ErrorFrame>>)
        /\ UNCHANGED <<highestId, highestTs, pendingVars, log>>
     \/ /\ o.session = session /\ Repeated(o)
        /\ Send(<<FrameOf("result", o, "duplicate")>>)
        /\ log' = Logged(log, o, "duplicate")
        /\ UNCHANGED <<highestId, highestTs, pendingVars>>
     \/ /\ o.session = session /\ ~Repeated(o) /\ o.payload \notin Malformed
        /\ Accept(o)
  /\ UNCHANGED <<handler, session, generation>>

\* Mutant of EmptyPending: the slot keeps what was taken out of it.
KeepPending == UNCHANGED pending /\ pendingEvent' = FALSE

\* The slot is emptied, by the worker or by a reset.
EmptyPending == pending' = None /\ pendingEvent' = FALSE

\* reset up to "await self.idle.wait()".
ResetHandler(s) ==
  IF s # session
  THEN /\ Send(<<ErrorFrame>>)
       /\ UNCHANGED <<handler, sessionVars, pendingVars, log>>
  ELSE /\ generation' = generation + 1
       /\ EmptyPending
       /\ handler' = "resetWait"
       /\ IF pending = None
          THEN UNCHANGED <<s2c, log>>
          ELSE /\ Send(<<FrameOf("result", pending, "superseded")>>)
               /\ log' = Logged(log, pending, "superseded")
       /\ UNCHANGED <<session, highestId, highestTs>>

HandleMessage ==
  /\ handler = "recv"
  /\ c2s # <<>>
  /\ LET m == Head(c2s)
     IN \/ m.type = "observation" /\ SubmitHandler(m.obs)
        \/ m.type = "reset" /\ ResetHandler(m.session)
  /\ c2s' = Tail(c2s)
  /\ UNCHANGED <<clientVars, link, sessionClosed, baseline, workerVars>>

\* Mutant of ResetPolicy: the reset does not wait for the worker.
ResetPolicyAtOnce ==
  /\ handler = "resetWait"
  /\ handler' = "resetPolicy"
  /\ UNCHANGED <<clientVars, netVars, sessionVars, pendingVars, sessionClosed,
                 baseline, workerVars, log>>

\* reset: the worker is idle, policy.reset is called on the policy executor.
ResetPolicy ==
  /\ handler = "resetWait"
  /\ worker # "infer"
  /\ handler' = "resetPolicy"
  /\ UNCHANGED <<clientVars, netVars, sessionVars, pendingVars, sessionClosed,
                 baseline, workerVars, log>>

\* reset: policy.reset returned; a new session opens and is announced.
ResetDone ==
  /\ handler = "resetPolicy"
  /\ session' = session + 1
  /\ highestId' = -1
  /\ highestTs' = -1
  /\ baseline' = None
  /\ Send(<<[type |-> "reset", session |-> session + 1, id |-> -1, ts |-> -1,
             status |-> "ok"]>>)
  /\ handler' = "recv"
  /\ UNCHANGED <<clientVars, link, c2s, generation, pendingVars, sessionClosed,
                 workerVars, log>>

\* reset: policy.reset raised, _handle_websocket answers with an error frame.
ResetFails ==
  /\ handler = "resetPolicy"
  /\ "raise" \in PolicyOutcomes
  /\ Send(<<ErrorFrame>>)
  /\ handler' = "recv"
  /\ UNCHANGED <<clientVars, link, c2s, sessionVars, pendingVars, sessionClosed,
                 baseline, workerVars, log>>

\* Mutant of SessionClose: the worker is not woken.
SessionCloseSilently ==
  /\ handler = "recv"
  /\ \/ link = "down" /\ c2s = <<>>
     \/ c2s # <<>> /\ Head(c2s).type = "close"
  /\ handler' = "closing"
  /\ link' = "down" /\ c2s' = <<>>
  /\ sessionClosed' = TRUE
  /\ generation' = generation + 1
  /\ pending' = None
  /\ UNCHANGED <<clientVars, s2c, session, highestId, highestTs, baseline,
                 pendingEvent, workerVars, log>>

\* The message loop ends: _LatestSession.close up to "await self.worker_task".
SessionClose ==
  /\ handler = "recv"
  /\ \/ link = "down" /\ c2s = <<>>
     \/ c2s # <<>> /\ Head(c2s).type = "close"
  /\ handler' = "closing"
  /\ link' = "down" /\ c2s' = <<>>
  /\ sessionClosed' = TRUE
  /\ generation' = generation + 1
  /\ pending' = None
  /\ pendingEvent' = TRUE
  /\ UNCHANGED <<clientVars, s2c, session, highestId, highestTs, baseline,
                 workerVars, log>>

HandlerDone ==
  /\ handler = "closing"
  /\ worker = "done"
  /\ handler' = "done"
  /\ UNCHANGED <<clientVars, netVars, sessionVars, pendingVars, sessionClosed,
                 baseline, workerVars, log>>

-----------------------------------------------------------------------------
(* The server's worker task.                                               *)

Abs(n) == IF n < 0 THEN -n ELSE n

\* observations_similar
Similar(p, q) == Epsilon > 0 /\ Abs(p - q) < Epsilon

\* _worker from the wait to the next suspension.
WorkerTake ==
  /\ worker = "wait"
  /\ pendingEvent
  /\ ~sessionClosed
  /\ EmptyPending
  /\ CASE pending = None -> UNCHANGED <<s2c, log, workerVars>>
       [] pending # None /\ ~pending.must_go /\ baseline # None
            /\ Similar(pending.payload, baseline) ->
            /\ Send(<<FrameOf("result", pending, "similar")>>)
            /\ log' = Logged(log, pending, "similar")
            /\ UNCHANGED workerVars
       [] OTHER ->
            /\ worker' = "infer"
            /\ item' = pending
            /\ itemGeneration' = generation
            /\ UNCHANGED <<s2c, log>>
  /\ UNCHANGED <<clientVars, link, c2s, handler, sessionVars, sessionClosed,
                 baseline>>

\* The session was reset or closed since the worker took its observation.
Outdated == itemGeneration # generation \/ sessionClosed

\* Mutant of BaselineAfter: a failed inference leaves a baseline too.
BaselineAfterAny(outcome) == item.payload

BaselineAfter(outcome) == IF outcome = "raise" THEN baseline ELSE item.payload

\* The policy call ended.  "unsendable" is a result that send() cannot encode:
\* the baseline is already set when the error branch runs.
WorkerFinish(outcome) ==
  /\ worker = "infer"
  /\ worker' = "wait"
  /\ item' = None
  /\ IF Outdated
     THEN UNCHANGED <<s2c, log, baseline, pendingEvent>>
     ELSE LET status == IF outcome = "ok" THEN "actions" ELSE "error"
          IN /\ baseline' = BaselineAfter(outcome)
             /\ Send(<<FrameOf("result", item, status)>>)
             /\ log' = Logged(log, item, status)
             /\ pendingEvent' = (pendingEvent \/ pending # None)
  /\ UNCHANGED <<clientVars, link, c2s, handler, sessionVars, pending,
                 sessionClosed, itemGeneration>>

WorkerStop ==
  /\ worker = "wait"
  /\ pendingEvent
  /\ sessionClosed
  /\ worker' = "done"
  /\ UNCHANGED <<clientVars, netVars, handler, sessionVars, pendingVars,
                 sessionClosed, baseline, item, itemGeneration, log>>

-----------------------------------------------------------------------------
\* The TCP connection is lost.  What a reader has buffered is still read, what
\* was in flight or waits to be sent is not.
Drop ==
  /\ CanDrop
  /\ link = "up"
  /\ link' = "down"
  /\ \E n \in 0..Len(c2s) : c2s' = SubSeq(c2s, 1, n)
  /\ \E n \in 0..Len(s2c) : /\ receiver = "lastFrame" => n > 0
                            /\ s2c' = SubSeq(s2c, 1, n)
  /\ UNCHANGED <<clientVars, serverVars>>

Caller ==
  \/ \E ts \in NextTimesteps, mustGo \in BOOLEAN, payload \in Payloads :
       Submit(ts, mustGo, payload)
  \/ PollEvent
  \/ ResetCall
  \/ Close

CallerResumes == ResetReturn \/ ResetRaise \/ CloseSocket \/ CloseReturn
Sender == SenderTake \/ SenderStop \/ SenderResume
Receiver == ReceiverFrame \/ ReceiverLastFrame \/ ReceiverEnds
Handler ==
  \/ HandleMessage \/ ResetPolicy \/ ResetDone \/ ResetFails
  \/ SessionClose \/ HandlerDone
Worker == WorkerTake \/ WorkerStop \/ \E o \in PolicyOutcomes : WorkerFinish(o)

Next == Caller \/ CallerResumes \/ Sender \/ Receiver \/ Handler \/ Worker \/ Drop

Spec == Init /\ [][Next]_vars

\* The event loops run every ready task, TCP delivers while the connection is
\* up, and a policy call ends.  The caller owes nothing.
FairSpec ==
  /\ Spec
  /\ WF_vars(CallerResumes) /\ WF_vars(Sender) /\ WF_vars(Receiver)
  /\ WF_vars(Handler) /\ WF_vars(Worker)

-----------------------------------------------------------------------------
(* Properties.                                                             *)

Message ==
  [type: {"observation"}, obs: Observation]
    \cup [type: {"reset"}, session: Nat] \cup [type: {"close"}]

ClientTypeOK ==
  /\ caller \in {"run", "resetting", "failed", "closing", "joining", "closed"}
  /\ callerTs \in Nat \cup {-1}
  /\ slot \in Observation \cup {None}
  /\ nextId \in Nat /\ clientSession \in Nat
  /\ sender \in {"slot", "ack", "done"}
  /\ ackId \in Int
  /\ ackWaiter \in {"none", "pending", "set", "failed"}
  /\ rpcWaiter \in {"none", "pending", "set", "failed"}
  /\ rpcSession \in Nat
  /\ receiver \in {"run", "closing", "lastFrame", "dead", "done"}
  /\ events \in Seq(Frame)

NetTypeOK == link \in {"up", "down"} /\ c2s \in Seq(Message) /\ s2c \in Seq(Frame)

SessionTypeOK ==
  /\ handler \in {"recv", "resetWait", "resetPolicy", "closing", "done"}
  /\ session \in Nat /\ generation \in Nat
  /\ pending \in Observation \cup {None}
  /\ highestId \in Int /\ highestTs \in Int
  /\ baseline \in Payloads \cup {None}
  /\ worker \in {"wait", "infer", "done"}
  /\ item \in Observation \cup {None}
  /\ worker = "infer" => item # None
  /\ itemGeneration \in Nat

FlagTypeOK ==
  slotEvent \in BOOLEAN /\ pendingEvent \in BOOLEAN /\ sessionClosed \in BOOLEAN

LogTypeOK == log \in [Sessions -> [Ids -> Seq(Statuses \cup {"ack"})]]

\* The values every variable takes; an observation is in inference only if the
\* worker holds one.
TypeOK ==
  ClientTypeOK /\ NetTypeOK /\ SessionTypeOK /\ FlagTypeOK /\ LogTypeOK

\* Every observation the server takes is acknowledged first and gets at most one
\* terminal result, whatever resets, replacements, failures and losses happen
\* meanwhile; a duplicate is answered once (_LatestSession.submit and _worker).
AckThenOneTerminal ==
  \A s \in Sessions, i \in Ids :
    log[s][i] \in {<<>>, <<"ack">>, <<"duplicate">>}
                    \cup {<<"ack", t>> : t \in Statuses \ {"duplicate"}}

Processed == {"actions", "similar", "error"}

\* reset() is a barrier: once it has returned, no frame about an observation of
\* an older session can still arrive (_LatestSession.reset waits for the worker).
ResetIsBarrier ==
  (caller = "run" /\ receiver = "run") =>
    \A i \in 1..Len(s2c) : s2c[i].type \in {"ack", "result"}
                              => s2c[i].session = clientSession

\* The policy is never inferring while it is being reset for a new session.
PolicyCallsSerial == handler = "resetPolicy" => worker # "infer"

\* An observation is skipped as similar only after actions were delivered for an
\* earlier one of the same session: a failed inference is no basis for skipping.
SimilarHasBasis ==
  \A s \in Sessions, i \in Ids :
    log[s][i] = <<"ack", "similar">>
      => \E j \in 0..i - 1 : log[s][j] = <<"ack", "actions">>

\* The client sends one observation per acknowledgement, so at most one
\* acknowledgement is unread and the outgoing queue (32 frames) never fills: in
\* front of that acknowledgement there may be the results of the three
\* observations that were open when the last one was read, behind it the result
\* of its own observation, and the answer of a reset.
OutgoingStaysShort ==
  /\ Len(s2c) <= 6
  /\ \A i, j \in 1..Len(s2c) : (s2c[i].type = "ack" /\ s2c[j].type = "ack") => i = j

\* From the moment a reset or a close has begun until the next session, nothing
\* more is published about any observation (the generation counter).
SilentBehindBarrier == [][handler # "recv" => log' = log]_vars

\* The newest observation is always answered, unless the caller moves on or
\* learns from the receiver's error event that the connection failed.
NewestIsAnswered ==
  \A s \in Sessions, i \in Ids :
    (clientSession = s /\ nextId = i + 1)
      ~> \/ clientSession # s \/ nextId # i + 1 \/ caller # "run"
         \/ receiver # "run"
         \/ Len(log[s][i]) = 2

\* reset() returns or raises if the receiver is alive when it is called, also
\* when the connection is lost while the server waits for its worker.
ResetReturns == (caller = "resetting" /\ receiver = "run") ~> (caller # "resetting")

\* A lost or closed connection ends the session: its worker stops and the
\* handler goes on to release the ownership of the policy.
SessionEnds == (link = "down") ~> (handler = "done")

-----------------------------------------------------------------------------
(* What becomes of each observation: the refinement of ObservationLedger.   *)

Inferring == worker = "infer" /\ ~Outdated

\* The observations in a queue of messages to the server.
InFlight(q) == {q[k].obs : k \in {j \in 1..Len(q) : q[j].type = "observation"}}

\* The observations of the client's session that may still be answered, wherever
\* they are: in either slot, in inference or on the wire.
OpenObservations ==
  LET held == ({slot, pending} \ {None}) \cup (IF Inferring THEN {item} ELSE {})
  IN {o \in held \cup InFlight(c2s) : o.session = clientSession}

\* The answers given in the client's session, from the history.
AnswersGiven ==
  {[id |-> a[1], status |-> a[2]] :
     a \in {b \in Ids \X Statuses : log[clientSession][b[1]] = <<"ack", b[2]>>}}

Ledger == INSTANCE ObservationLedger WITH
  Submissions <- [session: Sessions, id: Ids, ts: Ids, must_go: BOOLEAN, payload: Payloads],
  program <- IF caller \in {"run", "resetting"} THEN caller ELSE "ended",
  epoch <- clientSession,
  newest <- nextId - 1,
  up <- link = "up",
  open <- OpenObservations,
  answers <- AnswersGiven

\* Each observation is answered at most once and the oldest open one first; it is
\* withdrawn only by a reset, lost only with the connection, and replaced in the
\* client's slot only by the next one, which takes over its must_go mark.  This
\* is for a program that repeats no timestep and submits no malformed payload.
ImplementsLedger == Ledger!LedgerSpec

-----------------------------------------------------------------------------
(* A statement of the design document that the code does not meet.          *)

\* close() terminates.  It does not when a frame other than the awaited
\* acknowledgement is already in the reader's buffer: the receiver then leaves
\* its loop normally, nobody fails the sender's waiter and gather() never ends.
CloseReturns == (caller = "closing") ~> (caller = "closed")
===========================================================================
