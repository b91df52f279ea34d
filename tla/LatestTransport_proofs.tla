---------------------- MODULE LatestTransport_proofs ----------------------
(***************************************************************************)
(* Theorems about LatestTransport, for every value of its constants.       *)
(* First the type invariant, that the policy is never reset while it       *)
(* infers, and that nothing is published behind a reset or a close.  Then  *)
(* what is delivered: an observation is acknowledged before it is answered *)
(* and answered once, a reset is a barrier for the frames of the old       *)
(* session, the outgoing queue stays short, and what is filtered as        *)
(* similar has a basis.  They share one inductive invariant, DeliveryInv,  *)
(* which follows every frame and message through the connection's queues.  *)
(* From it follows at last that the transport implements ObservationLedger.*)
(***************************************************************************)
EXTENDS LatestTransport, SequenceTheorems, TLAPS

-----------------------------------------------------------------------------
(* Lemmas about the operators the actions are built from.                  *)

\* Answers and acknowledgements about an observation are frames.
LEMMA FrameOfType ==
  ASSUME NEW o \in Observation, NEW type \in {"ack", "result"},
         NEW status \in Statuses \cup {"accepted"}
  PROVE  FrameOf(type, o, status) \in Frame
  BY DEF FrameOf, Frame, Observation

LEMMA ErrorFrameType == ErrorFrame \in Frame
  BY DEF ErrorFrame, Frame, Statuses

\* The history stays well-formed, also for an observation outside its bounds.
LEMMA LoggedType ==
  ASSUME NEW l \in [Sessions -> [Ids -> Seq(Statuses \cup {"ack"})]],
         NEW o \in Observation, NEW status \in Statuses \cup {"ack"}
  PROVE  Logged(l, o, status) \in [Sessions -> [Ids -> Seq(Statuses \cup {"ack"})]]
<1>1. CASE o.session \in Sessions /\ o.id \in Ids
  <2>1. l[o.session][o.id] \in Seq(Statuses \cup {"ack"})
    BY <1>1
  <2>2. Append(l[o.session][o.id], status) \in Seq(Statuses \cup {"ack"})
    BY <2>1
  <2>3. [l[o.session] EXCEPT ![o.id] = Append(l[o.session][o.id], status)]
          \in [Ids -> Seq(Statuses \cup {"ack"})]
    BY <2>2, <1>1
  <2> QED
    BY <2>3, <1>1 DEF Logged
<1>2. CASE o.session \in Sessions /\ o.id \notin Ids
  <2>1. [l[o.session] EXCEPT ![o.id] = Append(l[o.session][o.id], status)]
          = l[o.session]
    BY <1>2
  <2> QED
    BY <2>1, <1>2 DEF Logged
<1>3. CASE o.session \notin Sessions
  BY <1>3 DEF Logged
<1> QED
  BY <1>1, <1>2, <1>3

\* send() keeps the outgoing queue a queue of frames.
LEMMA SendType ==
  ASSUME s2c \in Seq(Frame), NEW frames \in Seq(Frame), Send(frames)
  PROVE  s2c' \in Seq(Frame)
  BY DEF Send

LEMMA SendOneType ==
  ASSUME s2c \in Seq(Frame), NEW frame \in Frame, Send(<<frame>>)
  PROVE  s2c' \in Seq(Frame)
<1>1. <<frame>> \in Seq(Frame)
  OBVIOUS
<1> QED
  BY <1>1, SendType

-----------------------------------------------------------------------------
(* The type invariant.                                                     *)

LEMMA TypeInit == Init => TypeOK
<1> SUFFICES ASSUME Init PROVE TypeOK
  OBVIOUS
<1>1. ClientTypeOK
  BY DEF Init, ClientTypeOK
<1>2. NetTypeOK
  BY DEF Init, NetTypeOK
<1>3. SessionTypeOK
  BY DEF Init, SessionTypeOK
<1>4. FlagTypeOK
  BY DEF Init, FlagTypeOK
<1>5. LogTypeOK
  <2> DEFINE Histories == Seq(Statuses \cup {"ack"})
  <2>1. <<>> \in Histories
    OBVIOUS
  <2> HIDE DEF Histories
  <2>2. [s \in Sessions |-> [i \in Ids |-> <<>>]] \in [Sessions -> [Ids -> Histories]]
    BY <2>1
  <2>3. log \in [Sessions -> [Ids -> Histories]]
    BY <2>2 DEF Init
  <2> QED
    BY <2>3 DEF LogTypeOK, Histories
<1> QED
  BY <1>1, <1>2, <1>3, <1>4, <1>5 DEF TypeOK

\* A step of one program leaves the other's variables well-typed.
LEMMA ServerUnchanged ==
  ASSUME TypeOK, UNCHANGED serverVars
  PROVE  /\ SessionTypeOK' /\ LogTypeOK'
         /\ slotEvent' \in BOOLEAN => FlagTypeOK'
<1>1. SessionTypeOK'
  BY DEF TypeOK, SessionTypeOK, serverVars, sessionVars, pendingVars, workerVars
<1>2. LogTypeOK'
  BY DEF TypeOK, LogTypeOK, serverVars
<1>3. slotEvent' \in BOOLEAN => FlagTypeOK'
  BY Zenon DEF TypeOK, FlagTypeOK, serverVars, pendingVars
<1> QED
  BY <1>1, <1>2, <1>3

LEMMA ClientUnchanged ==
  ASSUME TypeOK, UNCHANGED clientVars
  PROVE  /\ ClientTypeOK'
         /\ (pendingEvent' \in BOOLEAN /\ sessionClosed' \in BOOLEAN) => FlagTypeOK'
<1>1. ClientTypeOK'
  BY DEF TypeOK, ClientTypeOK, clientVars, callerVars, slotVars, senderVars,
         rpcVars, receiverVars
<1>2. (pendingEvent' \in BOOLEAN /\ sessionClosed' \in BOOLEAN) => FlagTypeOK'
  BY Zenon DEF TypeOK, FlagTypeOK, clientVars, slotVars
<1> QED
  BY <1>1, <1>2

\* The calls of the control program, up to the point where they suspend.
LEMMA CallerTypes == TypeOK /\ Caller => TypeOK'
<1> SUFFICES ASSUME TypeOK, Caller PROVE TypeOK'
  OBVIOUS
<1> USE DEF TypeOK
<1>1. ASSUME NEW ts \in NextTimesteps, NEW mustGo \in BOOLEAN,
             NEW payload \in Payloads, Submit(ts, mustGo, payload)
      PROVE  TypeOK'
  <2> DEFINE marked == mustGo \/ (slot # None /\ slot.must_go)
  <2>1. ts \in Nat
    BY DEF NextTimesteps, ClientTypeOK
  <2>2. marked \in BOOLEAN
    OBVIOUS
  <2>3. slot' = [session |-> clientSession, id |-> nextId, ts |-> ts,
                 must_go |-> marked, payload |-> payload]
    BY <1>1 DEF Submit
  <2> HIDE DEF marked
  <2>4. slot' \in Observation
    BY <2>1, <2>2, <2>3 DEF Observation, ClientTypeOK
  <2>5. ClientTypeOK'
    BY <1>1, <2>1, <2>4 DEF Submit, ClientTypeOK, senderVars, rpcVars, receiverVars
  <2>6. slotEvent' \in BOOLEAN /\ NetTypeOK'
    BY <1>1 DEF Submit, netVars, NetTypeOK
  <2> QED
    BY <1>1, <2>5, <2>6, ServerUnchanged DEF Submit
<1>2. CASE PollEvent
  <2>1. events' \in Seq(Frame)
    BY <1>2 DEF PollEvent, ClientTypeOK
  <2>2. ClientTypeOK'
    BY <1>2, <2>1 DEF PollEvent, ClientTypeOK, callerVars, slotVars, senderVars, rpcVars
  <2>3. slotEvent' \in BOOLEAN /\ NetTypeOK'
    BY <1>2 DEF PollEvent, slotVars, netVars, FlagTypeOK, NetTypeOK
  <2> QED
    BY <1>2, <2>2, <2>3, ServerUnchanged DEF PollEvent
<1>3. CASE ResetCall
  <2> DEFINE request == [type |-> "reset", session |-> clientSession]
  <2>1. request \in Message
    BY DEF Message, ClientTypeOK
  <2>2. c2s' = Append(c2s, request) \/ c2s' = c2s
    BY <1>3 DEF ResetCall
  <2> HIDE DEF request
  <2>3. c2s' \in Seq(Message)
    BY <2>1, <2>2 DEF NetTypeOK
  <2>4. ClientTypeOK'
    BY <1>3 DEF ResetCall, ClientTypeOK, slotVars, senderVars, receiverVars
  <2>5. slotEvent' \in BOOLEAN /\ NetTypeOK'
    BY <1>3, <2>3 DEF ResetCall, slotVars, FlagTypeOK, NetTypeOK
  <2> QED
    BY <1>3, <2>4, <2>5, ServerUnchanged DEF ResetCall
<1>4. CASE Close
  <2>1. ClientTypeOK'
    BY <1>4 DEF Close, ClientTypeOK, senderVars, rpcVars
  <2>2. slotEvent' \in BOOLEAN /\ NetTypeOK'
    BY <1>4 DEF Close, netVars, FlagTypeOK, NetTypeOK
  <2> QED
    BY <1>4, <2>1, <2>2, ServerUnchanged DEF Close
<1> QED
  BY <1>1, <1>2, <1>3, <1>4 DEF Caller

\* The calls of the control program that resume.
LEMMA CallerResumesTypes == TypeOK /\ CallerResumes => TypeOK'
<1> SUFFICES ASSUME TypeOK, CallerResumes PROVE TypeOK'
  OBVIOUS
<1> USE DEF TypeOK
<1>1. CASE ResetReturn
  <2>1. ClientTypeOK'
    BY <1>1 DEF ResetReturn, ClientTypeOK, senderVars, receiverVars
  <2>2. slotEvent' \in BOOLEAN /\ NetTypeOK'
    BY <1>1 DEF ResetReturn, netVars, FlagTypeOK, NetTypeOK
  <2> QED
    BY <1>1, <2>1, <2>2, ServerUnchanged DEF ResetReturn
<1>2. CASE ResetRaise
  <2>1. ClientTypeOK'
    BY <1>2 DEF ResetRaise, ClientTypeOK, slotVars, senderVars, receiverVars
  <2>2. slotEvent' \in BOOLEAN /\ NetTypeOK'
    BY <1>2 DEF ResetRaise, slotVars, netVars, FlagTypeOK, NetTypeOK
  <2> QED
    BY <1>2, <2>1, <2>2, ServerUnchanged DEF ResetRaise
<1>3. CASE CloseSocket
  <2>1. ClientTypeOK'
    BY <1>3 DEF CloseSocket, ClientTypeOK, slotVars, senderVars, rpcVars, receiverVars
  <2> DEFINE farewell == [type |-> "close"]
  <2>2. farewell \in Message
    BY DEF Message
  <2>3. c2s' = Append(c2s, farewell) \/ c2s' = c2s
    BY <1>3 DEF CloseSocket
  <2> HIDE DEF farewell
  <2>4. slotEvent' \in BOOLEAN /\ NetTypeOK'
    BY <1>3, <2>2, <2>3 DEF CloseSocket, slotVars, FlagTypeOK, NetTypeOK
  <2> QED
    BY <1>3, <2>1, <2>4, ServerUnchanged DEF CloseSocket
<1>4. CASE CloseReturn
  <2>1. ClientTypeOK'
    BY <1>4 DEF CloseReturn, ClientTypeOK, slotVars, senderVars, rpcVars, receiverVars
  <2>2. slotEvent' \in BOOLEAN /\ NetTypeOK'
    BY <1>4 DEF CloseReturn, slotVars, netVars, FlagTypeOK, NetTypeOK
  <2> QED
    BY <1>4, <2>1, <2>2, ServerUnchanged DEF CloseReturn
<1> QED
  BY <1>1, <1>2, <1>3, <1>4 DEF CallerResumes

\* The client's sender task.
LEMMA SenderTypes == TypeOK /\ Sender => TypeOK'
<1> SUFFICES ASSUME TypeOK, Sender PROVE TypeOK'
  OBVIOUS
<1> USE DEF TypeOK
<1>1. CASE SenderTake
  <2> DEFINE message == [type |-> "observation", obs |-> slot]
  <2>1. slot # None => message \in Message
    BY DEF Message, ClientTypeOK
  <2>2. \/ slot # None /\ c2s' = Append(c2s, message)
        \/ c2s' = c2s
    BY <1>1 DEF SenderTake
  <2> HIDE DEF message
  <2>3. NetTypeOK'
    BY <1>1, <2>1, <2>2 DEF SenderTake, NetTypeOK
  <2>4. slot # None => slot.id \in Int
    BY DEF ClientTypeOK, Observation
  <2>5. ClientTypeOK'
    BY <1>1, <2>4 DEF SenderTake, ClientTypeOK, callerVars, senderVars, rpcVars, receiverVars
  <2>6. slotEvent' \in BOOLEAN
    BY <1>1 DEF SenderTake
  <2> QED
    BY <1>1, <2>3, <2>5, <2>6, ServerUnchanged DEF SenderTake
<1>2. CASE SenderStop
  <2>1. ClientTypeOK'
    BY <1>2 DEF SenderStop, ClientTypeOK, callerVars, slotVars, rpcVars, receiverVars
  <2>2. slotEvent' \in BOOLEAN /\ NetTypeOK'
    BY <1>2 DEF SenderStop, slotVars, netVars, FlagTypeOK, NetTypeOK
  <2> QED
    BY <1>2, <2>1, <2>2, ServerUnchanged DEF SenderStop
<1>3. CASE SenderResume
  <2>1. ClientTypeOK'
    BY <1>3 DEF SenderResume, ClientTypeOK, callerVars, rpcVars, receiverVars
  <2>2. slotEvent' \in BOOLEAN
    BY <1>3 DEF SenderResume
  <2>3. NetTypeOK'
    BY <1>3 DEF SenderResume, netVars, NetTypeOK
  <2> QED
    BY <1>3, <2>1, <2>2, <2>3, ServerUnchanged DEF SenderResume
<1> QED
  BY <1>1, <1>2, <1>3 DEF Sender

\* The client's receiver task: one frame, and its failure.
LEMMA ReceiverFailsTypes ==
  ASSUME ClientTypeOK, NEW state \in {"dead", "done"}, ReceiverFails(state)
  PROVE  ClientTypeOK'
<1>1. ErrorEvent \in Frame
  BY DEF ErrorEvent, Frame, Statuses
<1>2. events' \in Seq(Frame)
  BY <1>1 DEF ReceiverFails, ClientTypeOK
<1> QED
  BY <1>2 DEF ReceiverFails, FailWaiters, ClientTypeOK, callerVars, slotVars

LEMMA ReceiveTypes ==
  ASSUME ClientTypeOK, NEW frame \in Frame, NEW state \in {"run", "done"},
         Receive(frame, state)
  PROVE  ClientTypeOK'
<1>1. CASE frame.type = "ack"
  BY <1>1 DEF Receive, ClientTypeOK, callerVars, slotVars, rpcVars
<1>2. CASE frame.type = "result"
  <2>1. events' \in Seq(Frame)
    BY <1>2 DEF Receive, ClientTypeOK
  <2> QED
    BY <1>2, <2>1 DEF Receive, ClientTypeOK, callerVars, slotVars, senderVars, rpcVars
<1>3. CASE frame.type = "reset" /\ rpcWaiter = "pending"
  <2>1. frame.session \in Nat
    BY DEF Frame
  <2> QED
    BY <1>3, <2>1 DEF Receive, ClientTypeOK, callerVars, slotVars, senderVars
<1>4. CASE /\ frame.type # "ack" /\ frame.type # "result"
           /\ ~(frame.type = "reset" /\ rpcWaiter = "pending")
  <2>1. ReceiverFails("dead")
    BY <1>4 DEF Receive
  <2> QED
    BY <2>1, ReceiverFailsTypes
<1> QED
  BY <1>1, <1>2, <1>3, <1>4

LEMMA ReceiverTypes == TypeOK /\ Receiver => TypeOK'
<1> SUFFICES ASSUME TypeOK, Receiver PROVE TypeOK'
  OBVIOUS
<1> USE DEF TypeOK
<1>1. slotEvent' \in BOOLEAN
  BY Zenon DEF Receiver, ReceiverFrame, ReceiverLastFrame, ReceiverEnds, Receive,
     ReceiverFails, slotVars, FlagTypeOK
<1>2. CASE ReceiverFrame \/ ReceiverLastFrame
  <2>1. Head(s2c) \in Frame /\ s2c' \in Seq(Frame)
    <3>1. s2c # <<>> /\ s2c' = Tail(s2c) /\ s2c \in Seq(Frame)
      BY <1>2 DEF ReceiverFrame, ReceiverLastFrame, NetTypeOK
    <3> QED
      BY <3>1, HeadTailProperties
  <2>2. Receive(Head(s2c), "run") \/ Receive(Head(s2c), "done")
    BY <1>2 DEF ReceiverFrame, ReceiverLastFrame
  <2>3. ClientTypeOK'
    BY <2>1, <2>2, ReceiveTypes
  <2>4. NetTypeOK'
    BY <1>2, <2>1 DEF ReceiverFrame, ReceiverLastFrame, NetTypeOK
  <2> QED
    BY <1>1, <1>2, <2>3, <2>4, ServerUnchanged DEF ReceiverFrame, ReceiverLastFrame
<1>3. CASE ReceiverEnds
  <2>1. ClientTypeOK'
    BY <1>3, ReceiverFailsTypes DEF ReceiverEnds
  <2>2. NetTypeOK'
    BY <1>3 DEF ReceiverEnds, netVars, NetTypeOK
  <2> QED
    BY <1>1, <1>3, <2>1, <2>2, ServerUnchanged DEF ReceiverEnds
<1> QED
  BY <1>2, <1>3 DEF Receiver

\* The server's handler.
LEMMA AcceptTypes ==
  ASSUME TypeOK, NEW o \in Observation, Accept(o)
  PROVE  /\ s2c' \in Seq(Frame) /\ LogTypeOK'
         /\ highestId' \in Int /\ highestTs' \in Int
         /\ pending' \in Observation /\ pendingEvent' \in BOOLEAN
<1> DEFINE ack == FrameOf("ack", o, "accepted")
           gone == FrameOf("result", pending, "superseded")
           acked == Logged(log, o, "ack")
<1>1. ack \in Frame
  BY FrameOfType
<1>2. acked \in [Sessions -> [Ids -> Seq(Statuses \cup {"ack"})]]
  BY LoggedType DEF TypeOK, LogTypeOK
<1>3. CASE pending = None
  <2> HIDE DEF ack
  <2>1. <<ack>> \in Seq(Frame) /\ Send(<<ack>>)
    BY <1>1, <1>3 DEF Accept, ack
  <2>2. s2c' \in Seq(Frame)
    BY <2>1, SendType DEF TypeOK, NetTypeOK
  <2> QED
    BY <1>2, <1>3, <2>2 DEF Accept, LogTypeOK, Observation
<1>4. CASE pending # None
  <2>1. pending \in Observation
    BY <1>4 DEF TypeOK, SessionTypeOK
  <2>2. gone \in Frame
    BY <2>1, FrameOfType DEF Statuses
  <2>3. Logged(acked, pending, "superseded") \in [Sessions -> [Ids -> Seq(Statuses \cup {"ack"})]]
    BY <1>2, <2>1, LoggedType DEF Statuses
  <2>4. Send(<<ack, gone>>) /\ log' = Logged(acked, pending, "superseded")
    BY <1>4 DEF Accept
  <2> HIDE DEF ack, gone, acked
  <2>5. <<ack, gone>> \in Seq(Frame)
    BY <1>1, <2>2
  <2>6. s2c' \in Seq(Frame)
    BY <2>4, <2>5, SendType DEF TypeOK, NetTypeOK
  <2> QED
    BY <2>3, <2>4, <2>6 DEF Accept, LogTypeOK, Observation
<1> QED
  BY <1>3, <1>4

LEMMA SubmitTypes ==
  ASSUME TypeOK, NEW o \in Observation, SubmitHandler(o)
  PROVE  /\ s2c' \in Seq(Frame) /\ LogTypeOK'
         /\ highestId' \in Int /\ highestTs' \in Int
         /\ pending' \in Observation \cup {None} /\ pendingEvent' \in BOOLEAN
<1> DEFINE rest == <<highestId, highestTs, pendingVars>>
<1>1. CASE Accept(o)
  BY <1>1, AcceptTypes
<1>2. ASSUME NEW frame \in Frame, Send(<<frame>>), UNCHANGED rest, LogTypeOK'
      PROVE  /\ s2c' \in Seq(Frame) /\ LogTypeOK'
             /\ highestId' \in Int /\ highestTs' \in Int
             /\ pending' \in Observation \cup {None} /\ pendingEvent' \in BOOLEAN
  <2>1. s2c' \in Seq(Frame)
    BY <1>2, SendOneType DEF TypeOK, NetTypeOK
  <2>2. highestId' \in Int /\ highestTs' \in Int /\ pending' \in Observation \cup {None}
    BY <1>2 DEF TypeOK, SessionTypeOK, pendingVars
  <2>3. pendingEvent' \in BOOLEAN
    BY Zenon, <1>2 DEF TypeOK, FlagTypeOK, pendingVars
  <2> QED
    BY <1>2, <2>1, <2>2, <2>3
<1>3. CASE Send(<<ErrorFrame>>) /\ UNCHANGED rest /\ UNCHANGED log
  <2>1. LogTypeOK'
    BY <1>3 DEF TypeOK, LogTypeOK
  <2> QED
    BY <1>2, <1>3, <2>1, ErrorFrameType
<1>4. CASE /\ Send(<<FrameOf("result", o, "duplicate")>>) /\ UNCHANGED rest
           /\ log' = Logged(log, o, "duplicate")
  <2>1. LogTypeOK'
    BY <1>4, LoggedType DEF TypeOK, LogTypeOK, Statuses
  <2>2. FrameOf("result", o, "duplicate") \in Frame
    BY FrameOfType DEF Statuses
  <2> QED
    BY <1>2, <1>4, <2>1, <2>2
<1>5. \/ Accept(o)
      \/ Send(<<ErrorFrame>>) /\ UNCHANGED rest /\ UNCHANGED log
      \/ /\ Send(<<FrameOf("result", o, "duplicate")>>) /\ UNCHANGED rest
         /\ log' = Logged(log, o, "duplicate")
  BY DEF SubmitHandler
<1> QED
  BY <1>1, <1>3, <1>4, <1>5

\* The handler of a reset request, up to its wait for the worker.
LEMMA ResetHandlerTypes ==
  ASSUME TypeOK, NEW s, ResetHandler(s)
  PROVE  /\ s2c' \in Seq(Frame) /\ LogTypeOK'
         /\ handler' \in {handler, "resetWait"}
         /\ session' = session /\ generation' \in Nat
         /\ highestId' = highestId /\ highestTs' = highestTs
         /\ pending' \in {pending, None} /\ pendingEvent' \in BOOLEAN
<1>1. CASE s # session
  <2>1. Send(<<ErrorFrame>>) /\ UNCHANGED <<handler, sessionVars, pendingVars, log>>
    BY <1>1 DEF ResetHandler, EmptyPending
  <2>2. s2c' \in Seq(Frame)
    BY <2>1, SendOneType, ErrorFrameType DEF TypeOK, NetTypeOK
  <2>3. pendingEvent' \in BOOLEAN
    BY Zenon, <2>1 DEF TypeOK, FlagTypeOK, pendingVars
  <2> QED
    BY <2>1, <2>2, <2>3 DEF TypeOK, LogTypeOK, SessionTypeOK, sessionVars, pendingVars
<1>2. CASE s = session
  <2>1. /\ s2c' \in Seq(Frame)
        /\ LogTypeOK'
    <3>1. CASE pending = None
      BY <1>2, <3>1 DEF ResetHandler, EmptyPending, TypeOK, NetTypeOK, LogTypeOK
    <3>2. CASE pending # None
      <4>1. pending \in Observation
        BY <3>2 DEF TypeOK, SessionTypeOK
      <4>2. FrameOf("result", pending, "superseded") \in Frame
        BY <4>1, FrameOfType DEF Statuses
      <4>3. Send(<<FrameOf("result", pending, "superseded")>>)
        BY <1>2, <3>2 DEF ResetHandler, EmptyPending
      <4>4. s2c' \in Seq(Frame)
        BY <4>2, <4>3, SendOneType DEF TypeOK, NetTypeOK
      <4>5. LogTypeOK'
        BY <1>2, <3>2, <4>1, LoggedType DEF ResetHandler, EmptyPending, TypeOK, LogTypeOK, Statuses
      <4> QED
        BY <4>4, <4>5
    <3> QED
      BY <3>1, <3>2
  <2>2. pendingEvent' \in BOOLEAN
    BY <1>2 DEF ResetHandler, EmptyPending
  <2>3. /\ handler' = "resetWait" /\ session' = session /\ generation' \in Nat
        /\ highestId' = highestId /\ highestTs' = highestTs /\ pending' = None
    BY <1>2 DEF ResetHandler, EmptyPending, TypeOK, SessionTypeOK
  <2> QED
    BY <2>1, <2>2, <2>3
<1> QED
  BY <1>1, <1>2

LEMMA HandlerTypes == TypeOK /\ Handler => TypeOK'
<1> SUFFICES ASSUME TypeOK, Handler PROVE TypeOK'
  OBVIOUS
<1> USE DEF TypeOK
<1>1. CASE HandleMessage
  <2>1. Head(c2s) \in Message /\ c2s' \in Seq(Message)
    <3>1. c2s # <<>> /\ c2s' = Tail(c2s) /\ c2s \in Seq(Message)
      BY <1>1 DEF HandleMessage, NetTypeOK
    <3> QED
      BY <3>1, HeadTailProperties
  <2>2. /\ s2c' \in Seq(Frame) /\ LogTypeOK'
        /\ highestId' \in Int /\ highestTs' \in Int
        /\ pending' \in Observation \cup {None} /\ pendingEvent' \in BOOLEAN
        /\ handler' \in {handler, "resetWait"}
        /\ session' = session /\ generation' \in Nat
    <3>1. CASE Head(c2s).type = "observation" /\ SubmitHandler(Head(c2s).obs)
      <4>1. Head(c2s).obs \in Observation
        BY <2>1, <3>1 DEF Message
      <4>2. handler' = handler /\ session' = session /\ generation' \in Nat
        BY <3>1 DEF SubmitHandler, SessionTypeOK
      <4> QED
        BY <3>1, <4>1, <4>2, SubmitTypes
    <3>2. CASE ResetHandler(Head(c2s).session)
      BY <3>2, ResetHandlerTypes DEF SessionTypeOK
    <3> QED
      BY <1>1, <3>1, <3>2 DEF HandleMessage
  <2>3. SessionTypeOK'
    BY <1>1, <2>2 DEF HandleMessage, SessionTypeOK, workerVars
  <2>4. NetTypeOK'
    BY <1>1, <2>1, <2>2 DEF HandleMessage, NetTypeOK
  <2>5. pendingEvent' \in BOOLEAN /\ sessionClosed' \in BOOLEAN
    BY Zenon, <1>1, <2>2 DEF HandleMessage, FlagTypeOK
  <2> QED
    BY <1>1, <2>2, <2>3, <2>4, <2>5, ClientUnchanged DEF HandleMessage
<1>2. CASE ResetPolicy \/ HandlerDone
  <2>1. SessionTypeOK' /\ NetTypeOK' /\ LogTypeOK'
    BY <1>2 DEF ResetPolicy, HandlerDone, SessionTypeOK, NetTypeOK, LogTypeOK, netVars,
       sessionVars, pendingVars, workerVars
  <2>2. pendingEvent' \in BOOLEAN /\ sessionClosed' \in BOOLEAN
    BY Zenon, <1>2 DEF ResetPolicy, HandlerDone, pendingVars, FlagTypeOK
  <2> QED
    BY <1>2, <2>1, <2>2, ClientUnchanged DEF ResetPolicy, HandlerDone
<1>3. CASE ResetDone
  <2> DEFINE answer == [type |-> "reset", session |-> session + 1, id |-> -1, ts |-> -1,
                        status |-> "ok"]
  <2>1. answer \in Frame
    BY DEF Frame, SessionTypeOK
  <2>2. Send(<<answer>>)
    BY <1>3 DEF ResetDone
  <2> HIDE DEF answer
  <2>3. s2c' \in Seq(Frame)
    BY <2>1, <2>2, SendOneType DEF NetTypeOK
  <2>4. SessionTypeOK' /\ NetTypeOK' /\ LogTypeOK'
    BY <1>3, <2>3 DEF ResetDone, SessionTypeOK, NetTypeOK, LogTypeOK, pendingVars, workerVars
  <2>5. pendingEvent' \in BOOLEAN /\ sessionClosed' \in BOOLEAN
    BY Zenon, <1>3 DEF ResetDone, pendingVars, FlagTypeOK
  <2> QED
    BY <1>3, <2>4, <2>5, ClientUnchanged DEF ResetDone
<1>4. CASE ResetFails
  <2>1. s2c' \in Seq(Frame)
    BY <1>4, SendOneType, ErrorFrameType DEF ResetFails, NetTypeOK
  <2>2. SessionTypeOK' /\ NetTypeOK' /\ LogTypeOK'
    BY <1>4, <2>1 DEF ResetFails, SessionTypeOK, NetTypeOK, LogTypeOK, sessionVars,
       pendingVars, workerVars
  <2>3. pendingEvent' \in BOOLEAN /\ sessionClosed' \in BOOLEAN
    BY Zenon, <1>4 DEF ResetFails, pendingVars, FlagTypeOK
  <2> QED
    BY <1>4, <2>2, <2>3, ClientUnchanged DEF ResetFails
<1>5. CASE SessionClose
  <2>1. NetTypeOK'
    BY <1>5 DEF SessionClose, NetTypeOK
  <2>2. SessionTypeOK'
    BY <1>5 DEF SessionClose, SessionTypeOK, workerVars
  <2>3. LogTypeOK' /\ pendingEvent' \in BOOLEAN /\ sessionClosed' \in BOOLEAN
    BY <1>5 DEF SessionClose, LogTypeOK
  <2> QED
    BY <1>5, <2>1, <2>2, <2>3, ClientUnchanged DEF SessionClose
<1> QED
  BY <1>1, <1>2, <1>3, <1>4, <1>5 DEF Handler

\* The server's worker task.
LEMMA WorkerTypes == TypeOK /\ Worker => TypeOK'
<1> SUFFICES ASSUME TypeOK, Worker PROVE TypeOK'
  OBVIOUS
<1> USE DEF TypeOK
<1>1. CASE WorkerTake
  <2>1. pending # None => pending \in Observation
    BY DEF SessionTypeOK
  <2>2. pending # None => FrameOf("result", pending, "similar") \in Frame
    BY <2>1, FrameOfType DEF Statuses
  <2>3. pending # None => Logged(log, pending, "similar")
                            \in [Sessions -> [Ids -> Seq(Statuses \cup {"ack"})]]
    BY <2>1, LoggedType DEF LogTypeOK, Statuses
  <2>4. \/ UNCHANGED <<s2c, log, workerVars>>
        \/ /\ pending # None
           /\ Send(<<FrameOf("result", pending, "similar")>>)
           /\ log' = Logged(log, pending, "similar")
           /\ UNCHANGED workerVars
        \/ /\ pending # None
           /\ worker' = "infer" /\ item' = pending /\ itemGeneration' = generation
           /\ UNCHANGED <<s2c, log>>
    BY <1>1 DEF WorkerTake, EmptyPending
  <2>5. s2c' \in Seq(Frame)
    BY <2>2, <2>4, SendOneType DEF NetTypeOK
  <2>6. LogTypeOK'
    BY <2>3, <2>4 DEF LogTypeOK
  <2>7. SessionTypeOK'
    BY <1>1, <2>4 DEF WorkerTake, EmptyPending, SessionTypeOK, sessionVars, workerVars
  <2>8. pendingEvent' \in BOOLEAN /\ sessionClosed' \in BOOLEAN
    BY Zenon, <1>1 DEF WorkerTake, EmptyPending, FlagTypeOK
  <2>9. NetTypeOK'
    BY <1>1, <2>5 DEF WorkerTake, EmptyPending, NetTypeOK
  <2> QED
    BY <1>1, <2>6, <2>7, <2>8, <2>9, ClientUnchanged DEF WorkerTake, EmptyPending
<1>2. ASSUME NEW outcome \in PolicyOutcomes, WorkerFinish(outcome)
      PROVE  TypeOK'
  <2> DEFINE status == IF outcome = "ok" THEN "actions" ELSE "error"
  <2>1. status \in Statuses \cup {"ack", "accepted"} /\ status # "ack" /\ status # "accepted"
    BY DEF Statuses
  <2>2. item \in Observation
    BY <1>2 DEF WorkerFinish, Outdated, BaselineAfter, SessionTypeOK
  <2>3. FrameOf("result", item, status) \in Frame
    BY <2>1, <2>2, FrameOfType
  <2>4. Logged(log, item, status) \in [Sessions -> [Ids -> Seq(Statuses \cup {"ack"})]]
    BY <2>1, <2>2, LoggedType DEF LogTypeOK
  <2>5. \/ UNCHANGED <<s2c, log, baseline, pendingEvent>>
        \/ /\ baseline' \in {baseline, item.payload}
           /\ Send(<<FrameOf("result", item, status)>>)
           /\ log' = Logged(log, item, status)
    BY <1>2 DEF WorkerFinish, Outdated, BaselineAfter
  <2>6. pendingEvent' \in BOOLEAN
    BY Zenon, <1>2 DEF WorkerFinish, Outdated, FlagTypeOK
  <2> HIDE DEF status
  <2>7. s2c' \in Seq(Frame)
    BY <2>3, <2>5, SendOneType DEF NetTypeOK
  <2>8. LogTypeOK' /\ NetTypeOK'
    BY <1>2, <2>4, <2>5, <2>7 DEF WorkerFinish, Outdated, LogTypeOK, NetTypeOK
  <2>9. SessionTypeOK'
    <3>1. item.payload \in Payloads
      BY <2>2 DEF Observation
    <3> QED
      BY <1>2, <2>5, <3>1 DEF WorkerFinish, Outdated, BaselineAfter, SessionTypeOK, sessionVars
  <2>10. sessionClosed' \in BOOLEAN
    BY Zenon, <1>2 DEF WorkerFinish, Outdated, FlagTypeOK
  <2> QED
    BY <1>2, <2>6, <2>8, <2>9, <2>10, ClientUnchanged DEF WorkerFinish, Outdated
<1>3. CASE WorkerStop
  <2>1. SessionTypeOK' /\ NetTypeOK' /\ LogTypeOK'
    BY <1>3 DEF WorkerStop, SessionTypeOK, NetTypeOK, LogTypeOK, netVars, sessionVars,
       pendingVars
  <2>2. pendingEvent' \in BOOLEAN /\ sessionClosed' \in BOOLEAN
    BY Zenon, <1>3 DEF WorkerStop, pendingVars, FlagTypeOK
  <2> QED
    BY <1>3, <2>1, <2>2, ClientUnchanged DEF WorkerStop
<1> QED
  BY <1>1, <1>2, <1>3 DEF Worker

LEMMA DropTypes == TypeOK /\ Drop => TypeOK'
<1> SUFFICES ASSUME TypeOK, Drop PROVE TypeOK'
  OBVIOUS
<1> USE DEF TypeOK
<1>1. ASSUME NEW S, NEW q \in Seq(S), NEW n \in 0..Len(q)
      PROVE  SubSeq(q, 1, n) \in Seq(S)
  BY <1>1, SubSeqProperties
<1>2. NetTypeOK'
  BY <1>1 DEF Drop, NetTypeOK
<1>3. slotEvent' \in BOOLEAN /\ ClientTypeOK'
  <2>1. ClientTypeOK'
    BY ClientUnchanged DEF Drop
  <2> QED
    BY Zenon, <2>1 DEF Drop, clientVars, slotVars, FlagTypeOK
<1> QED
  BY <1>2, <1>3, ServerUnchanged DEF Drop

\* Every variable keeps its type: the server's queues hold frames, the session's
\* counters are numbers, and an inference always has its observation.
THEOREM TypeCorrect == Spec => []TypeOK
<1>1. TypeOK /\ [Next]_vars => TypeOK'
  <2> SUFFICES ASSUME TypeOK, [Next]_vars PROVE TypeOK'
    OBVIOUS
  <2>1. CASE UNCHANGED vars
    <3>1. UNCHANGED serverVars /\ UNCHANGED clientVars /\ UNCHANGED netVars
      BY <2>1 DEF vars
    <3>2. NetTypeOK'
      BY <3>1 DEF TypeOK, NetTypeOK, netVars
    <3>3. pendingEvent' \in BOOLEAN /\ sessionClosed' \in BOOLEAN
      BY Zenon, <3>1 DEF TypeOK, FlagTypeOK, serverVars, pendingVars
    <3> QED
      BY <3>1, <3>2, <3>3, ServerUnchanged, ClientUnchanged DEF TypeOK
  <2> QED
    BY <2>1, CallerTypes, CallerResumesTypes, SenderTypes, ReceiverTypes, HandlerTypes,
       WorkerTypes, DropTypes DEF Next
<1> QED
  BY <1>1, TypeInit, PTL DEF Spec

-----------------------------------------------------------------------------
(* The barrier: a reset or a close makes every older inference stale.      *)

\* The strengthening of PolicyCallsSerial and of SilentBehindBarrier: while the
\* handler is in a reset or a close nothing is pending, and an inference that
\* is still running belongs to an earlier generation or to a closed session.
BarrierInv ==
  /\ handler # "recv" => pending = None
  /\ handler \in {"closing", "done"} => sessionClosed
  /\ worker = "infer" => itemGeneration <= generation
  /\ (handler = "resetWait" /\ worker = "infer") => itemGeneration < generation
  /\ handler = "resetPolicy" => worker # "infer"

barrierVars == <<handler, pending, sessionClosed, worker, itemGeneration, generation>>

LEMMA BarrierInit == Init => BarrierInv
  BY DEF Init, BarrierInv

LEMMA BarrierUnchanged == BarrierInv /\ UNCHANGED barrierVars => BarrierInv'
  BY DEF BarrierInv, barrierVars

\* The client's tasks and the network leave the server's state alone ...
LEMMA ClientLeaves ==
  ASSUME Caller \/ CallerResumes \/ Sender \/ Receiver \/ Drop
  PROVE  UNCHANGED serverVars
  BY DEF Caller, Submit, PollEvent, ResetCall, Close, CallerResumes, ResetReturn,
     ResetRaise, CloseSocket, CloseReturn, Sender, SenderTake, SenderStop,
     SenderResume, Receiver, ReceiverFrame, ReceiverLastFrame, ReceiverEnds, Drop

\* ... and so cannot touch what the barrier is about.
LEMMA ClientBarrier ==
  ASSUME Caller \/ CallerResumes \/ Sender \/ Receiver \/ Drop
  PROVE  UNCHANGED <<barrierVars, log>>
  BY ClientLeaves DEF serverVars, sessionVars, pendingVars, workerVars, barrierVars

LEMMA BarrierStep == TypeOK /\ BarrierInv /\ [Next]_vars => BarrierInv'
<1> SUFFICES ASSUME TypeOK, BarrierInv, [Next]_vars PROVE BarrierInv'
  OBVIOUS
<1>1. generation \in Nat /\ itemGeneration \in Nat
  BY DEF TypeOK, SessionTypeOK
<1>2. CASE Caller \/ CallerResumes \/ Sender \/ Receiver \/ Drop
  BY <1>2, ClientBarrier, BarrierUnchanged
<1>3. CASE HandleMessage
  <2>1. UNCHANGED sessionClosed /\ UNCHANGED workerVars
    BY <1>3 DEF HandleMessage
  <2>2. CASE \E o : SubmitHandler(o)
    BY <1>3, <2>1, <2>2 DEF SubmitHandler, HandleMessage, BarrierInv, workerVars
  <2>3. CASE \E s : ResetHandler(s)
    BY <1>1, <1>3, <2>1, <2>3 DEF ResetHandler, EmptyPending, HandleMessage, BarrierInv, workerVars,
       sessionVars, pendingVars
  <2> QED
    BY <1>3, <2>2, <2>3 DEF HandleMessage
<1>4. CASE ResetPolicy \/ ResetDone \/ ResetFails \/ HandlerDone
  BY <1>4 DEF ResetPolicy, ResetDone, ResetFails, HandlerDone, BarrierInv, sessionVars,
     pendingVars, workerVars
<1>5. CASE SessionClose
  BY <1>1, <1>5 DEF SessionClose, BarrierInv, workerVars
<1>6. CASE WorkerTake
  <2>1. CASE UNCHANGED workerVars
    BY <1>6, <2>1 DEF WorkerTake, EmptyPending, BarrierInv, sessionVars, workerVars
  <2>2. CASE pending # None /\ worker' = "infer" /\ itemGeneration' = generation
    BY <1>1, <1>6, <2>2 DEF WorkerTake, EmptyPending, BarrierInv, sessionVars
  <2> QED
    BY <1>6, <2>1, <2>2 DEF WorkerTake, EmptyPending
<1>7. CASE \E outcome \in PolicyOutcomes : WorkerFinish(outcome)
  BY <1>7 DEF WorkerFinish, Outdated, BarrierInv, sessionVars
<1>8. CASE WorkerStop
  BY <1>8 DEF WorkerStop, BarrierInv, sessionVars, pendingVars
<1>9. CASE UNCHANGED vars
  BY <1>9, BarrierUnchanged DEF vars, serverVars, sessionVars, pendingVars, workerVars,
     barrierVars
<1> QED
  BY <1>2, <1>3, <1>4, <1>5, <1>6, <1>7, <1>8, <1>9 DEF Next, Handler, Worker

LEMMA BarrierHolds == Spec => [](TypeOK /\ BarrierInv)
<1>1. Spec => [][Next]_vars
  BY DEF Spec
<1>2. Spec => BarrierInv
  BY BarrierInit DEF Spec
<1> QED
  BY <1>1, <1>2, TypeCorrect, BarrierStep, PTL

\* The policy is never reset while it infers, whatever the order in which the
\* two tasks of a session run (_LatestSession.reset awaits idle).
THEOREM PolicySerial == Spec => []PolicyCallsSerial
<1>1. BarrierInv => PolicyCallsSerial
  BY DEF BarrierInv, PolicyCallsSerial
<1> QED
  BY <1>1, BarrierHolds, PTL

\* From the beginning of a reset or a close until the handler reads messages
\* again, nothing is published about any observation: an inference that ends in
\* between finds its generation gone.
THEOREM BarrierSilent == Spec => SilentBehindBarrier
<1>1. TypeOK /\ BarrierInv /\ [Next]_vars => [handler # "recv" => log' = log]_vars
  <2> SUFFICES ASSUME TypeOK, BarrierInv, Next, handler # "recv" PROVE log' = log
    OBVIOUS
  <2>1. CASE Caller \/ CallerResumes \/ Sender \/ Receiver \/ Drop
    BY <2>1, ClientBarrier
  <2>2. CASE Handler
    BY <2>2 DEF Handler, HandleMessage, ResetPolicy, ResetDone, ResetFails, SessionClose,
       HandlerDone
  <2>3. CASE WorkerTake
    BY <2>3 DEF WorkerTake, EmptyPending, BarrierInv
  <2>4. CASE \E outcome \in PolicyOutcomes : WorkerFinish(outcome)
    <3>1. worker = "infer"
      BY <2>4 DEF WorkerFinish
    <3>2. Outdated
      BY <3>1 DEF Outdated, BarrierInv, TypeOK, SessionTypeOK
    <3> QED
      BY <2>4, <3>2 DEF WorkerFinish
  <2>5. CASE WorkerStop
    BY <2>5 DEF WorkerStop
  <2> QED
    BY <2>1, <2>2, <2>3, <2>4, <2>5 DEF Next, Worker
<1> QED
  BY <1>1, BarrierHolds, PTL DEF Spec, SilentBehindBarrier

-----------------------------------------------------------------------------
(* What a step may do to the two queues of the connection.                 *)

\* r is what is left of the queue q: its first element was read, or it was cut.
Kept(q, r) ==
  \E d \in {0, 1} : /\ Len(r) + d <= Len(q)
                    /\ \A i \in 1..Len(r) : r[i] = q[i + d]

\* r is the queue q with x behind it.
Grown(q, r, x) ==
  /\ Len(r) = Len(q) + 1 /\ r[Len(q) + 1] = x
  /\ \A i \in 1..Len(q) : r[i] = q[i]

\* r is the queue q with x and y behind it.
GrownTwice(q, r, x, y) ==
  /\ Len(r) = Len(q) + 2 /\ r[Len(q) + 1] = x /\ r[Len(q) + 2] = y
  /\ \A i \in 1..Len(q) : r[i] = q[i]

LEMMA KeptSame ==
  ASSUME NEW S, NEW q \in Seq(S)
  PROVE  Kept(q, q)
<1>1. Len(q) \in Nat
  BY LenProperties
<1>2. Len(q) + 0 <= Len(q) /\ \A i \in 1..Len(q) : q[i] = q[i + 0]
  BY <1>1
<1> QED
  BY <1>2 DEF Kept

LEMMA KeptTail ==
  ASSUME NEW S, NEW q \in Seq(S), q # <<>>
  PROVE  /\ Kept(q, Tail(q)) /\ q[1] = Head(q)
         /\ Len(Tail(q)) = Len(q) - 1 /\ Len(q) >= 1
         /\ \A i \in 1..Len(Tail(q)) : Tail(q)[i] = q[i + 1]
<1>1. /\ Len(Tail(q)) = Len(q) - 1
      /\ \A i \in 1..Len(Tail(q)) : Tail(q)[i] = q[i + 1]
      /\ q[1] = Head(q)
  BY HeadTailProperties
<1>2. Len(q) \in Nat /\ Len(q) # 0
  BY LenProperties, EmptySeq
<1>3. Len(Tail(q)) + 1 <= Len(q)
  BY <1>1, <1>2
<1> QED
  BY <1>1, <1>2, <1>3 DEF Kept

LEMMA KeptPrefix ==
  ASSUME NEW S, NEW q \in Seq(S), NEW n \in 0..Len(q)
  PROVE  Kept(q, SubSeq(q, 1, n))
<1>1. /\ Len(SubSeq(q, 1, n)) = n
      /\ \A i \in 1..n : SubSeq(q, 1, n)[i] = q[i]
  BY SubSeqProperties
<1>2. Len(q) \in Nat
  BY LenProperties
<1>3. /\ Len(SubSeq(q, 1, n)) + 0 <= Len(q)
      /\ \A i \in 1..Len(SubSeq(q, 1, n)) : SubSeq(q, 1, n)[i] = q[i + 0]
  BY <1>1, <1>2
<1> QED
  BY <1>3 DEF Kept

LEMMA KeptNothing ==
  ASSUME NEW S, NEW q \in Seq(S)
  PROVE  Kept(q, <<>>)
<1>1. Len(q) \in Nat /\ Len(<<>>) = 0
  BY LenProperties
<1>2. Len(<<>>) + 0 <= Len(q) /\ \A i \in 1..Len(<<>>) : <<>>[i] = q[i + 0]
  BY <1>1
<1> QED
  BY <1>2 DEF Kept

LEMMA GrownAppend ==
  ASSUME NEW S, NEW q \in Seq(S), NEW x \in S
  PROVE  Grown(q, Append(q, x), x)
BY AppendProperties DEF Grown

LEMMA GrownAt ==
  ASSUME NEW S, NEW q \in Seq(S), NEW r, NEW x, Grown(q, r, x)
  PROVE  \A i \in 1..Len(r) :
           (i \in 1..Len(q) /\ r[i] = q[i]) \/ (i = Len(q) + 1 /\ r[i] = x)
<1>1. Len(q) \in Nat
  BY LenProperties
<1>2. /\ Len(r) = Len(q) + 1 /\ r[Len(q) + 1] = x
      /\ \A i \in 1..Len(q) : r[i] = q[i]
  BY DEF Grown
<1>3. \A i \in 1..Len(r) : i \in 1..Len(q) \/ i = Len(q) + 1
  BY <1>1, <1>2
<1> QED
  BY <1>2, <1>3

LEMMA GrownTwiceAt ==
  ASSUME NEW S, NEW q \in Seq(S), NEW r, NEW x, NEW y, GrownTwice(q, r, x, y)
  PROVE  \A i \in 1..Len(r) :
           \/ i \in 1..Len(q) /\ r[i] = q[i]
           \/ i = Len(q) + 1 /\ r[i] = x
           \/ i = Len(q) + 2 /\ r[i] = y
<1>1. Len(q) \in Nat
  BY LenProperties
<1>2. /\ Len(r) = Len(q) + 2 /\ r[Len(q) + 1] = x /\ r[Len(q) + 2] = y
      /\ \A i \in 1..Len(q) : r[i] = q[i]
  BY DEF GrownTwice
<1>3. \A i \in 1..Len(r) : i \in 1..Len(q) \/ i = Len(q) + 1 \/ i = Len(q) + 2
  BY <1>1, <1>2
<1> QED
  BY <1>2, <1>3

LEMMA SendOne ==
  ASSUME s2c \in Seq(Frame), NEW f \in Frame, Send(<<f>>)
  PROVE  s2c' = s2c \/ Grown(s2c, s2c', f)
<1>1. s2c \o <<f>> = Append(s2c, f)
  OBVIOUS
<1> QED
  BY <1>1, GrownAppend DEF Send

LEMMA SendTwo ==
  ASSUME s2c \in Seq(Frame), NEW f \in Frame, NEW g \in Frame, Send(<<f, g>>)
  PROVE  s2c' = s2c \/ GrownTwice(s2c, s2c', f, g)
<1>1. CASE s2c' = s2c \o <<f, g>>
  <2>1. /\ Len(s2c \o <<f, g>>) = Len(s2c) + 2
        /\ (s2c \o <<f, g>>)[Len(s2c) + 1] = f
        /\ (s2c \o <<f, g>>)[Len(s2c) + 2] = g
        /\ \A i \in 1..Len(s2c) : (s2c \o <<f, g>>)[i] = s2c[i]
    OBVIOUS
  <2> QED
    BY <1>1, <2>1 DEF GrownTwice
<1> QED
  BY <1>1 DEF Send

\* No element of type t was added to the queue q.
NoneAdded(q, r, t) == Kept(q, r) \/ \E x : x.type # t /\ Grown(q, r, x)

\* Every element of type t in r was in q before.
Traced(q, r, t) ==
  \E d \in {0, 1} : \A i \in 1..Len(r) :
    r[i].type = t => i + d \in 1..Len(q) /\ r[i] = q[i + d]

LEMMA Origin ==
  ASSUME NEW S, NEW q \in Seq(S), NEW r \in Seq(S), NEW t, NoneAdded(q, r, t)
  PROVE  Traced(q, r, t)
<1>1. Len(q) \in Nat /\ Len(r) \in Nat
  BY LenProperties
<1>2. CASE Kept(q, r)
  <2>1. PICK d \in {0, 1} : Len(r) + d <= Len(q) /\ \A i \in 1..Len(r) : r[i] = q[i + d]
    BY <1>2 DEF Kept
  <2>2. \A i \in 1..Len(r) : i + d \in 1..Len(q) /\ r[i] = q[i + d]
    BY <1>1, <2>1
  <2> QED
    BY <2>2 DEF Traced
<1>3. ASSUME NEW x, x.type # t, Grown(q, r, x)
      PROVE  Traced(q, r, t)
  <2>1. \A i \in 1..Len(r) : r[i].type = t => i + 0 \in 1..Len(q) /\ r[i] = q[i + 0]
    BY <1>1, <1>3 DEF Grown
  <2> QED
    BY <2>1 DEF Traced
<1> QED
  BY <1>2, <1>3 DEF NoneAdded

\* At most one element of type t is in the queue q.
AtMostOne(q, t) == \A i, j \in 1..Len(q) : q[i].type = t /\ q[j].type = t => i = j

LEMMA AtMostOneTraced ==
  ASSUME NEW S, NEW q \in Seq(S), NEW r \in Seq(S), NEW t, Traced(q, r, t), AtMostOne(q, t)
  PROVE  AtMostOne(r, t)
<1>1. PICK d \in {0, 1} : \A i \in 1..Len(r) :
        r[i].type = t => i + d \in 1..Len(q) /\ r[i] = q[i + d]
  BY DEF Traced
<1>2. ASSUME NEW i \in 1..Len(r), NEW j \in 1..Len(r), r[i].type = t, r[j].type = t
      PROVE  i = j
  <2>1. i + d = j + d
    BY <1>1, <1>2 DEF AtMostOne
  <2> QED
    BY <2>1
<1> QED
  BY <1>2 DEF AtMostOne

LEMMA AtMostOneTail ==
  ASSUME NEW S, NEW q \in Seq(S), q # <<>>, NEW t, AtMostOne(q, t), q[1].type = t
  PROVE  \A i \in 1..Len(Tail(q)) : Tail(q)[i].type # t
<1>1. /\ Len(Tail(q)) = Len(q) - 1 /\ Len(q) >= 1
      /\ \A i \in 1..Len(Tail(q)) : Tail(q)[i] = q[i + 1]
  BY KeptTail
<1>2. Len(q) \in Nat
  BY LenProperties
<1>3. ASSUME NEW i \in 1..Len(Tail(q)), Tail(q)[i].type = t
      PROVE  FALSE
  <2>1. i + 1 \in 1..Len(q) /\ 1 \in 1..Len(q) /\ q[i + 1].type = t
    BY <1>1, <1>2, <1>3
  <2>2. i + 1 = 1
    BY <2>1 DEF AtMostOne
  <2> QED
    BY <1>2, <2>2
<1> QED
  BY <1>3

\* The same for the two queues of the connection.
LEMMA MessageOrigin ==
  ASSUME TypeOK, TypeOK', NEW t, NoneAdded(c2s, c2s', t)
  PROVE  Traced(c2s, c2s', t)
<1>1. c2s \in Seq(Message) /\ c2s' \in Seq(Message)
  BY DEF TypeOK, NetTypeOK
<1> QED
  BY <1>1, Origin

LEMMA FrameOrigin ==
  ASSUME TypeOK, TypeOK', NEW t, NoneAdded(s2c, s2c', t)
  PROVE  Traced(s2c, s2c', t)
<1>1. s2c \in Seq(Frame) /\ s2c' \in Seq(Frame)
  BY DEF TypeOK, NetTypeOK
<1> QED
  BY <1>1, Origin

LEMMA FrameOfFields ==
  ASSUME NEW type, NEW o, NEW status
  PROVE  /\ FrameOf(type, o, status).type = type
         /\ FrameOf(type, o, status).session = o.session
  BY DEF FrameOf

-----------------------------------------------------------------------------
(* Flow control: one observation is under way per acknowledgement.         *)

\* The sender task would send what it finds in the slot.
MaySend == sender = "slot" \/ ackWaiter = "set"

\* There is one permission to send: the sender has it, or it is on its way to
\* the server as an observation, or on its way back as an acknowledgement.
FlowInv ==
  /\ ackWaiter = "set" => sender = "ack"
  /\ AtMostOne(c2s, "observation")
  /\ AtMostOne(s2c, "ack")
  /\ \A i \in 1..Len(c2s) : c2s[i].type = "observation" => ~MaySend
  /\ \A i \in 1..Len(s2c) : s2c[i].type = "ack" => ~MaySend
  /\ \A i \in 1..Len(c2s), j \in 1..Len(s2c) :
       ~(c2s[i].type = "observation" /\ s2c[j].type = "ack")

LEMMA FlowInit == Init => FlowInv
  BY DEF Init, FlowInv, MaySend, AtMostOne

\* The permission cannot multiply while nothing is sent that carries it.
LEMMA FlowQuiet ==
  ASSUME TypeOK, TypeOK', FlowInv,
         NoneAdded(c2s, c2s', "observation"),
         NoneAdded(s2c, s2c', "ack"),
         MaySend' => MaySend, ackWaiter' = "set" => sender' = "ack"
  PROVE  FlowInv'
<1>1. \E d \in {0, 1} : \A i \in 1..Len(c2s') : c2s'[i].type = "observation"
        => i + d \in 1..Len(c2s) /\ c2s'[i] = c2s[i + d]
  BY MessageOrigin DEF Traced
<1>2. \E d \in {0, 1} : \A i \in 1..Len(s2c') : s2c'[i].type = "ack"
        => i + d \in 1..Len(s2c) /\ s2c'[i] = s2c[i + d]
  BY FrameOrigin DEF Traced
<1>3. Len(c2s') \in Nat /\ Len(s2c') \in Nat
  BY LenProperties DEF TypeOK, NetTypeOK
<1>4. PICK d \in {0, 1} : \A i \in 1..Len(c2s') : c2s'[i].type = "observation"
        => i + d \in 1..Len(c2s) /\ c2s'[i] = c2s[i + d]
  BY <1>1
<1>5. PICK e \in {0, 1} : \A i \in 1..Len(s2c') : s2c'[i].type = "ack"
        => i + e \in 1..Len(s2c) /\ s2c'[i] = s2c[i + e]
  BY <1>2
<1>6. AtMostOne(c2s', "observation")
  <2>1. AtMostOne(c2s, "observation") /\ c2s \in Seq(Message) /\ c2s' \in Seq(Message)
    BY DEF FlowInv, TypeOK, NetTypeOK
  <2> QED
    BY <2>1, AtMostOneTraced, MessageOrigin
<1>7. AtMostOne(s2c', "ack")
  <2>1. AtMostOne(s2c, "ack") /\ s2c \in Seq(Frame) /\ s2c' \in Seq(Frame)
    BY DEF FlowInv, TypeOK, NetTypeOK
  <2> QED
    BY <2>1, AtMostOneTraced, FrameOrigin
<1>8. /\ \A i \in 1..Len(c2s') : c2s'[i].type = "observation" => ~MaySend'
      /\ \A i \in 1..Len(s2c') : s2c'[i].type = "ack" => ~MaySend'
  BY <1>4, <1>5 DEF FlowInv
<1>9. \A i \in 1..Len(c2s'), j \in 1..Len(s2c') :
        ~(c2s'[i].type = "observation" /\ s2c'[j].type = "ack")
  BY <1>4, <1>5 DEF FlowInv
<1> QED
  BY <1>6, <1>7, <1>8, <1>9 DEF FlowInv

\* What send() adds to the outgoing queue, for the three kinds of frames.
LEMMA SentAbout ==
  ASSUME TypeOK, NEW o \in Observation, NEW type \in {"ack", "result"},
         NEW status \in Statuses \cup {"accepted"}, Send(<<FrameOf(type, o, status)>>)
  PROVE  s2c' = s2c \/ \E f : f.type = type /\ f.session = o.session /\ Grown(s2c, s2c', f)
<1>1. s2c \in Seq(Frame)
  BY DEF TypeOK, NetTypeOK
<1> QED
  BY <1>1, SendOne, FrameOfType, FrameOfFields

LEMMA SentError ==
  ASSUME TypeOK, Send(<<ErrorFrame>>)
  PROVE  s2c' = s2c \/ \E f : f.type = "error" /\ Grown(s2c, s2c', f)
<1>1. s2c \in Seq(Frame)
  BY DEF TypeOK, NetTypeOK
<1>2. ErrorFrame.type = "error"
  BY DEF ErrorFrame
<1> QED
  BY <1>1, <1>2, SendOne, ErrorFrameType

\* The handler's answers to an observation other than accepting it.
LEMMA RefusalSends ==
  ASSUME TypeOK, NEW o \in Observation, SubmitHandler(o), ~Accept(o)
  PROVE  /\ UNCHANGED <<highestId, highestTs, pendingVars, handler, session, generation>>
         /\ \/ /\ o.session # session \/ ~Repeated(o)
               /\ log' = log
               /\ s2c' = s2c \/ \E f : f.type = "error" /\ Grown(s2c, s2c', f)
            \/ /\ o.session = session
               /\ log' = Logged(log, o, "duplicate")
               /\ s2c' = s2c \/ \E f : /\ f.type = "result" /\ f.session = session
                                       /\ Grown(s2c, s2c', f)
<1>1. CASE /\ o.session # session \/ (~Repeated(o) /\ o.payload \in Malformed)
           /\ Send(<<ErrorFrame>>)
           /\ UNCHANGED <<highestId, highestTs, pendingVars, log>>
  BY <1>1, SentError DEF SubmitHandler
<1>2. CASE /\ o.session = session /\ Repeated(o)
           /\ Send(<<FrameOf("result", o, "duplicate")>>)
           /\ log' = Logged(log, o, "duplicate")
           /\ UNCHANGED <<highestId, highestTs, pendingVars>>
  <2>1. "duplicate" \in Statuses \cup {"accepted"} /\ "result" \in {"ack", "result"}
    BY DEF Statuses
  <2> QED
    BY <1>2, <2>1, SentAbout DEF SubmitHandler
<1> QED
  BY <1>1, <1>2 DEF SubmitHandler

\* Accepting an observation: its acknowledgement and the replaced one's result.
LEMMA AcceptSends ==
  ASSUME TypeOK, NEW o \in Observation, Accept(o)
  PROVE  \/ s2c' = s2c
         \/ /\ pending = None
            /\ \E f : f.type = "ack" /\ f.session = o.session /\ Grown(s2c, s2c', f)
         \/ /\ pending # None
            /\ \E f, g : /\ f.type = "ack" /\ f.session = o.session
                         /\ g.type = "result" /\ g.session = pending.session
                         /\ GrownTwice(s2c, s2c', f, g)
<1> DEFINE ack == FrameOf("ack", o, "accepted")
           sup == FrameOf("result", pending, "superseded")
<1>1. s2c \in Seq(Frame)
  BY DEF TypeOK, NetTypeOK
<1>2. ack \in Frame /\ ack.type = "ack" /\ ack.session = o.session
  BY FrameOfType, FrameOfFields
<1>3. pending # None =>
        sup \in Frame /\ sup.type = "result" /\ sup.session = pending.session
  BY FrameOfType, FrameOfFields DEF TypeOK, SessionTypeOK, Statuses
<1>4. IF pending = None THEN Send(<<ack>>) ELSE Send(<<ack, sup>>)
  BY DEF Accept
<1> HIDE DEF ack, sup
<1> QED
  BY <1>1, <1>2, <1>3, <1>4, SendOne, SendTwo

\* A reset request that is taken up: the result of what was pending.
LEMMA ResetSends ==
  ASSUME TypeOK, NEW s, ResetHandler(s)
  PROVE  \/ s2c' = s2c
         \/ s # session /\ \E f : f.type = "error" /\ Grown(s2c, s2c', f)
         \/ /\ s = session /\ pending # None
            /\ \E f : /\ f.type = "result" /\ f.session = pending.session
                      /\ Grown(s2c, s2c', f)
<1>1. CASE s # session
  BY <1>1, SentError DEF ResetHandler
<1>2. CASE s = session /\ pending # None
  <2>1. /\ pending \in Observation /\ "result" \in {"ack", "result"}
        /\ "superseded" \in Statuses \cup {"accepted"}
    BY <1>2 DEF TypeOK, SessionTypeOK, Statuses
  <2>2. Send(<<FrameOf("result", pending, "superseded")>>)
    BY <1>2 DEF ResetHandler, EmptyPending
  <2> QED
    BY <1>2, <2>1, <2>2, SentAbout
<1>3. CASE s = session /\ pending = None
  BY <1>3 DEF ResetHandler, EmptyPending
<1> QED
  BY <1>1, <1>2, <1>3

\* The answer of a reset.
LEMMA AnswerSends ==
  ASSUME TypeOK, ResetDone
  PROVE  \/ s2c' = s2c
         \/ \E f : f.type = "reset" /\ f.session = session + 1 /\ Grown(s2c, s2c', f)
<1> DEFINE answer == [type |-> "reset", session |-> session + 1, id |-> -1, ts |-> -1,
                      status |-> "ok"]
<1>1. s2c \in Seq(Frame)
  BY DEF TypeOK, NetTypeOK
<1>2. answer \in Frame /\ answer.type = "reset" /\ answer.session = session + 1
  BY DEF Frame, TypeOK, SessionTypeOK
<1>3. Send(<<answer>>)
  BY DEF ResetDone
<1> HIDE DEF answer
<1> QED
  BY <1>1, <1>2, <1>3, SendOne

\* What the worker publishes, and about which observation.
LEMMA TakeSends ==
  ASSUME TypeOK, WorkerTake
  PROVE  /\ pending' = None
         /\ \/ pending = None /\ UNCHANGED <<s2c, log, workerVars>>
            \/ /\ pending # None /\ UNCHANGED workerVars
               /\ log' = Logged(log, pending, "similar") /\ baseline # None
               /\ s2c' = s2c \/ \E f : /\ f.type = "result" /\ f.session = pending.session
                                       /\ Grown(s2c, s2c', f)
            \/ /\ pending # None /\ UNCHANGED <<s2c, log>>
               /\ worker' = "infer" /\ item' = pending /\ itemGeneration' = generation
<1>1. pending # None => pending \in Observation
  BY DEF TypeOK, SessionTypeOK
<1>2. "similar" \in Statuses \cup {"accepted"} /\ "result" \in {"ack", "result"}
  BY DEF Statuses
<1>3. pending' = None
  BY DEF WorkerTake, EmptyPending
<1>4. \/ pending = None /\ UNCHANGED <<s2c, log, workerVars>>
      \/ /\ pending # None /\ UNCHANGED workerVars /\ baseline # None
         /\ log' = Logged(log, pending, "similar")
         /\ Send(<<FrameOf("result", pending, "similar")>>)
      \/ /\ pending # None /\ UNCHANGED <<s2c, log>>
         /\ worker' = "infer" /\ item' = pending /\ itemGeneration' = generation
  BY DEF WorkerTake, EmptyPending
<1> QED
  BY <1>1, <1>2, <1>3, <1>4, SentAbout

LEMMA FinishSends ==
  ASSUME TypeOK, NEW outcome \in PolicyOutcomes, WorkerFinish(outcome)
  PROVE  \/ Outdated /\ UNCHANGED <<s2c, log, baseline>>
         \/ /\ ~Outdated
            /\ baseline' = BaselineAfter(outcome)
            /\ log' = Logged(log, item, IF outcome = "ok" THEN "actions" ELSE "error")
            /\ s2c' = s2c \/ \E f : /\ f.type = "result" /\ f.session = item.session
                                    /\ Grown(s2c, s2c', f)
<1> DEFINE status == IF outcome = "ok" THEN "actions" ELSE "error"
<1>1. /\ item \in Observation /\ "result" \in {"ack", "result"}
      /\ status \in Statuses \cup {"accepted"}
  BY DEF WorkerFinish, TypeOK, SessionTypeOK, Statuses
<1>2. CASE ~Outdated
  <2>1. /\ Send(<<FrameOf("result", item, status)>>)
        /\ log' = Logged(log, item, status) /\ baseline' = BaselineAfter(outcome)
    BY <1>2 DEF WorkerFinish
  <2> QED
    BY <1>1, <1>2, <2>1, SentAbout
<1>3. CASE Outdated
  BY <1>3 DEF WorkerFinish
<1> QED
  BY <1>2, <1>3

\* What the client's tasks put on the wire.
LEMMA CallerSends ==
  ASSUME TypeOK, Caller \/ CallerResumes
  PROVE  /\ s2c' = s2c /\ UNCHANGED senderVars
         /\ \/ c2s' = c2s
            \/ ResetCall /\ \E m : /\ m.type = "reset" /\ m.session = clientSession
                                   /\ Grown(c2s, c2s', m)
            \/ CloseSocket /\ \E m : m.type = "close" /\ Grown(c2s, c2s', m)
<1> DEFINE request == [type |-> "reset", session |-> clientSession]
           farewell == [type |-> "close"]
<1>1. /\ request \in Message /\ request.type = "reset" /\ request.session = clientSession
      /\ farewell \in Message /\ farewell.type = "close"
  BY DEF Message, TypeOK, ClientTypeOK
<1>2. c2s \in Seq(Message)
  BY DEF TypeOK, NetTypeOK
<1>3. s2c' = s2c /\ UNCHANGED senderVars
  BY DEF Caller, CallerResumes, Submit, PollEvent, ResetCall, Close, ResetReturn,
         ResetRaise, CloseSocket, CloseReturn, netVars
<1>4. \/ c2s' = c2s
      \/ ResetCall /\ c2s' = Append(c2s, request)
      \/ CloseSocket /\ c2s' = Append(c2s, farewell)
  BY DEF Caller, CallerResumes, Submit, PollEvent, ResetCall, Close, ResetReturn,
         ResetRaise, CloseSocket, CloseReturn, netVars
<1> HIDE DEF request, farewell
<1> QED
  BY <1>1, <1>2, <1>3, <1>4, GrownAppend

LEMMA TakeSlotSends ==
  ASSUME TypeOK, SenderTake
  PROVE  /\ s2c' = s2c /\ sender = "slot" /\ slot' = None
         /\ \/ UNCHANGED <<senderVars, c2s>>
            \/ /\ slot # None /\ sender' = "ack" /\ ackWaiter' = "pending"
               /\ \E m : m.type = "observation" /\ m.obs = slot /\ Grown(c2s, c2s', m)
            \/ sender' = "done" /\ UNCHANGED <<ackWaiter, c2s>>
<1> DEFINE message == [type |-> "observation", obs |-> slot]
<1>1. c2s \in Seq(Message)
  BY DEF TypeOK, NetTypeOK
<1>2. slot # None => message \in Message /\ message.type = "observation" /\ message.obs = slot
  BY DEF Message, TypeOK, ClientTypeOK
<1>3. \/ UNCHANGED <<senderVars, c2s>>
      \/ slot # None /\ sender' = "ack" /\ ackWaiter' = "pending" /\ c2s' = Append(c2s, message)
      \/ sender' = "done" /\ UNCHANGED <<ackWaiter, c2s>>
  BY DEF SenderTake
<1>4. s2c' = s2c /\ sender = "slot" /\ slot' = None
  BY DEF SenderTake
<1> HIDE DEF message
<1> QED
  BY <1>1, <1>2, <1>3, <1>4, GrownAppend

\* What the receiver does with the frame in front of the queue.
LEMMA ReceiverReads ==
  ASSUME TypeOK, ReceiverFrame \/ ReceiverLastFrame
  PROVE  /\ s2c # <<>> /\ s2c' = Tail(s2c) /\ s2c[1] \in Frame /\ UNCHANGED <<c2s, slotVars>>
         /\ UNCHANGED <<callerVars, sender, ackId, link, serverVars>>
         /\ \/ s2c[1].type = "ack" /\ ackWaiter' \in {ackWaiter, "set"} /\ UNCHANGED rpcVars
               /\ (ackWaiter' = ackWaiter \/ sender = "ack")
            \/ s2c[1].type = "result" /\ UNCHANGED <<ackWaiter, rpcVars>>
            \/ /\ s2c[1].type = "reset" /\ rpcWaiter = "pending" /\ UNCHANGED ackWaiter
               /\ rpcWaiter' = "set" /\ rpcSession' = s2c[1].session
            \/ /\ s2c[1].type \in {"reset", "error"} /\ FailWaiters /\ UNCHANGED rpcSession
<1>1. s2c \in Seq(Frame) /\ s2c # <<>> /\ s2c' = Tail(s2c)
  BY DEF ReceiverFrame, ReceiverLastFrame, TypeOK, NetTypeOK
<1>2. Head(s2c) = s2c[1] /\ s2c[1] \in Frame
  BY <1>1, KeptTail, HeadTailProperties
<1>3. Receive(s2c[1], "run") \/ Receive(s2c[1], "done")
  BY <1>2 DEF ReceiverFrame, ReceiverLastFrame
<1>4. UNCHANGED <<link, c2s, serverVars>>
  BY DEF ReceiverFrame, ReceiverLastFrame
<1>5. PICK state \in {"run", "done"} : Receive(s2c[1], state)
  BY <1>3
<1>6. CASE s2c[1].type = "ack"
  <2>1. /\ ackWaiter' = IF sender = "ack" /\ ackId = s2c[1].id /\ ackWaiter = "pending"
                        THEN "set" ELSE ackWaiter
        /\ UNCHANGED <<callerVars, slotVars, sender, ackId, rpcVars>>
    BY <1>5, <1>6 DEF Receive
  <2> QED
    BY <1>1, <1>2, <1>4, <1>6, <2>1
<1>7. CASE s2c[1].type = "result"
  BY <1>1, <1>2, <1>4, <1>5, <1>7 DEF Receive, senderVars
<1>8. CASE s2c[1].type = "reset" /\ rpcWaiter = "pending"
  BY <1>1, <1>2, <1>4, <1>5, <1>8 DEF Receive, senderVars
<1>9. CASE /\ s2c[1].type # "ack" /\ s2c[1].type # "result"
           /\ ~(s2c[1].type = "reset" /\ rpcWaiter = "pending")
  <2>1. ReceiverFails("dead")
    BY <1>5, <1>9 DEF Receive
  <2>2. s2c[1].type \in {"reset", "error"}
    BY <1>2, <1>9 DEF Frame
  <2> QED
    BY <1>1, <1>2, <1>4, <2>1, <2>2 DEF ReceiverFails
<1> QED
  BY <1>6, <1>7, <1>8, <1>9

LEMMA ReceiverEndsSends ==
  ASSUME ReceiverEnds
  PROVE  /\ FailWaiters
         /\ UNCHANGED <<callerVars, slotVars, sender, ackId, rpcSession, netVars, serverVars>>
  BY DEF ReceiverEnds, ReceiverFails

LEMMA DropSends ==
  ASSUME TypeOK, Drop
  PROVE  /\ \E n \in 0..Len(c2s) : c2s' = SubSeq(c2s, 1, n)
         /\ \E n \in 0..Len(s2c) : s2c' = SubSeq(s2c, 1, n)
         /\ Kept(c2s, c2s') /\ Kept(s2c, s2c') /\ UNCHANGED <<clientVars, serverVars>>
<1>1. c2s \in Seq(Message) /\ s2c \in Seq(Frame)
  BY DEF TypeOK, NetTypeOK
<1>2. /\ \E n \in 0..Len(c2s) : c2s' = SubSeq(c2s, 1, n)
      /\ \E n \in 0..Len(s2c) : s2c' = SubSeq(s2c, 1, n)
      /\ UNCHANGED <<clientVars, serverVars>>
  BY DEF Drop
<1> QED
  BY <1>1, <1>2, KeptPrefix

\* The message in front of the handler.
LEMMA MessageRead ==
  ASSUME TypeOK, HandleMessage
  PROVE  /\ c2s # <<>> /\ c2s' = Tail(c2s) /\ Kept(c2s, c2s') /\ Len(c2s) >= 1 /\ c2s[1] \in Message
         /\ UNCHANGED <<clientVars, link, sessionClosed, baseline, workerVars>>
         /\ handler = "recv"
         /\ \/ /\ c2s[1].type = "observation" /\ c2s[1].obs \in Observation
               /\ SubmitHandler(c2s[1].obs)
            \/ c2s[1].type = "reset" /\ ResetHandler(c2s[1].session)
         /\ \A i \in 1..Len(c2s') : i + 1 \in 1..Len(c2s) /\ c2s'[i] = c2s[i + 1]
<1>1. /\ c2s \in Seq(Message) /\ c2s # <<>> /\ c2s' = Tail(c2s) /\ handler = "recv"
      /\ UNCHANGED <<clientVars, link, sessionClosed, baseline, workerVars>>
  BY DEF HandleMessage, TypeOK, NetTypeOK
<1>2. Head(c2s) = c2s[1] /\ c2s[1] \in Message
  BY <1>1, KeptTail, HeadTailProperties
<1>3. \/ c2s[1].type = "observation" /\ SubmitHandler(c2s[1].obs)
      \/ c2s[1].type = "reset" /\ ResetHandler(c2s[1].session)
  BY <1>2 DEF HandleMessage
<1>4. c2s[1].type = "observation" => c2s[1].obs \in Observation
  BY <1>2 DEF Message
<1>5. /\ Kept(c2s, c2s') /\ Len(c2s) >= 1 /\ Len(c2s') = Len(c2s) - 1
      /\ \A i \in 1..Len(c2s') : c2s'[i] = c2s[i + 1]
  BY <1>1, KeptTail
<1>6. Len(c2s) \in Nat
  BY <1>1, LenProperties
<1>7. \A i \in 1..Len(c2s') : i + 1 \in 1..Len(c2s) /\ c2s'[i] = c2s[i + 1]
  BY <1>5, <1>6
<1> QED
  BY <1>1, <1>2, <1>3, <1>4, <1>5, <1>7

LEMMA FlowStep == TypeOK /\ TypeOK' /\ FlowInv /\ [Next]_vars => FlowInv'
<1> SUFFICES ASSUME TypeOK, TypeOK', FlowInv, [Next]_vars PROVE FlowInv'
  OBVIOUS
<1>1. /\ c2s \in Seq(Message) /\ s2c \in Seq(Frame)
      /\ c2s' \in Seq(Message) /\ s2c' \in Seq(Frame)
  BY DEF TypeOK, NetTypeOK
<1>2. Kept(c2s, c2s) /\ Kept(s2c, s2c)
  BY <1>1, KeptSame
<1>3. /\ Len(c2s) \in Nat /\ Len(s2c) \in Nat
      /\ Len(c2s') \in Nat /\ Len(s2c') \in Nat
  BY <1>1, LenProperties
<1>4. ackWaiter = "set" => sender = "ack"
  BY DEF FlowInv
<1>5. CASE Caller \/ CallerResumes
  <2>1. NoneAdded(c2s, c2s', "observation")
    BY <1>2, <1>5, CallerSends DEF NoneAdded
  <2>2. Kept(s2c, s2c') /\ sender' = sender /\ ackWaiter' = ackWaiter
    BY <1>2, <1>5, CallerSends DEF senderVars
  <2> QED
    BY <1>4, <2>1, <2>2, FlowQuiet DEF MaySend, NoneAdded
<1>6. CASE SenderTake
  <2>1. CASE c2s' = c2s
    <3>1. Kept(c2s, c2s') /\ Kept(s2c, s2c') /\ ackWaiter' = ackWaiter
      BY <1>2, <1>6, <2>1, TakeSlotSends DEF SenderTake, senderVars
    <3>2. ackWaiter # "set" /\ MaySend
      BY <1>4, <1>6, TakeSlotSends DEF MaySend
    <3> QED
      BY <3>1, <3>2, FlowQuiet DEF NoneAdded
  <2>2. CASE c2s' # c2s
    <3>1. PICK m : Grown(c2s, c2s', m)
      BY <1>6, <2>2, TakeSlotSends
    <3>2. s2c' = s2c /\ sender = "slot" /\ sender' = "ack" /\ ackWaiter' = "pending"
      BY <1>6, <2>2, TakeSlotSends
    <3>3. /\ \A i \in 1..Len(c2s) : c2s[i].type # "observation"
          /\ \A i \in 1..Len(s2c) : s2c[i].type # "ack"
      BY <3>2 DEF FlowInv, MaySend
    <3>4. \A i \in 1..Len(c2s') : c2s'[i].type = "observation" => i = Len(c2s) + 1
      BY <1>3, <3>1, <3>3 DEF Grown
    <3> QED
      BY <1>3, <3>2, <3>3, <3>4 DEF FlowInv, MaySend, AtMostOne
  <2> QED
    BY <2>1, <2>2
<1>7. CASE SenderStop \/ SenderResume
  <2>1. c2s' = c2s /\ s2c' = s2c
    BY <1>7 DEF SenderStop, SenderResume, netVars
  <2>2. (MaySend' => MaySend) /\ (ackWaiter' = "set" => sender' = "ack")
    BY <1>4, <1>7 DEF SenderStop, SenderResume, MaySend
  <2> QED
    BY <1>2, <2>1, <2>2, FlowQuiet DEF NoneAdded
<1>8. CASE ReceiverFrame \/ ReceiverLastFrame
  <2>1. /\ s2c' = Tail(s2c) /\ s2c # <<>> /\ c2s' = c2s /\ sender' = sender
        /\ ackWaiter' \in {ackWaiter, "set", "failed"}
        /\ ackWaiter' = "set" =>
             ackWaiter = "set" \/ (s2c[1].type = "ack" /\ sender = "ack")
    BY <1>8, ReceiverReads DEF FailWaiters
  <2>2. Kept(s2c, s2c') /\ Len(s2c) >= 1 /\ Len(s2c') = Len(s2c) - 1
        /\ \A i \in 1..Len(s2c') : s2c'[i] = s2c[i + 1]
    BY <1>1, <2>1, KeptTail
  <2>3. CASE s2c[1].type = "ack"
    <3>1. /\ \A i \in 1..Len(s2c') : s2c'[i].type # "ack"
          /\ \A i \in 1..Len(c2s') : c2s'[i].type # "observation"
      BY <1>3, <2>1, <2>2, <2>3 DEF FlowInv, AtMostOne
    <3> QED
      BY <1>4, <2>1, <3>1 DEF FlowInv, AtMostOne
  <2>4. CASE s2c[1].type # "ack"
    BY <1>2, <1>4, <2>1, <2>2, <2>4, FlowQuiet DEF MaySend, NoneAdded
  <2> QED
    BY <2>3, <2>4
<1>9. CASE ReceiverEnds
  <2>1. c2s' = c2s /\ s2c' = s2c /\ sender' = sender /\ ackWaiter' \in {ackWaiter, "failed"}
    BY <1>9, ReceiverEndsSends DEF netVars, FailWaiters
  <2> QED
    BY <1>2, <1>4, <2>1, FlowQuiet DEF MaySend, NoneAdded
<1>10. CASE HandleMessage
  <2>1. UNCHANGED <<sender, ackWaiter>> /\ Kept(c2s, c2s')
    BY <1>10, MessageRead DEF clientVars, senderVars
  <2>2. ASSUME c2s[1].type = "observation", Accept(c2s[1].obs), c2s[1].obs \in Observation
        PROVE  FlowInv'
    <3>1. /\ \A i \in 1..Len(c2s') : c2s'[i].type # "observation"
          /\ \A i \in 1..Len(s2c) : s2c[i].type # "ack"
          /\ ~MaySend
      BY <1>3, <1>10, <2>2, MessageRead DEF FlowInv, AtMostOne
    <3>2. \A i \in 1..Len(s2c') : s2c'[i].type = "ack" => i = Len(s2c) + 1
      <4>1. CASE s2c' = s2c
        BY <3>1, <4>1
      <4>2. ASSUME NEW f, Grown(s2c, s2c', f)
            PROVE  \A i \in 1..Len(s2c') : s2c'[i].type = "ack" => i = Len(s2c) + 1
        BY <1>3, <3>1, <4>2 DEF Grown
      <4>3. ASSUME NEW f, NEW g, g.type = "result", GrownTwice(s2c, s2c', f, g)
            PROVE  \A i \in 1..Len(s2c') : s2c'[i].type = "ack" => i = Len(s2c) + 1
        BY <1>3, <3>1, <4>3 DEF GrownTwice
      <4> QED
        BY <2>2, <4>1, <4>2, <4>3, AcceptSends
    <3>3. ~MaySend' /\ (ackWaiter' = "set" => sender' = "ack")
      BY <1>4, <2>1, <3>1 DEF MaySend
    <3> QED
      BY <1>3, <3>1, <3>2, <3>3 DEF FlowInv, AtMostOne
  <2>3. ASSUME c2s[1].type = "observation", ~Accept(c2s[1].obs), c2s[1].obs \in Observation,
               SubmitHandler(c2s[1].obs)
        PROVE  FlowInv'
    <3>1. NoneAdded(s2c, s2c', "ack")
      BY <1>2, <2>3, RefusalSends DEF NoneAdded
    <3> QED
      BY <1>2, <1>4, <2>1, <3>1, FlowQuiet DEF MaySend, NoneAdded
  <2>4. CASE ResetHandler(c2s[1].session)
    <3>1. NoneAdded(s2c, s2c', "ack")
      BY <1>2, <2>4, ResetSends DEF NoneAdded
    <3> QED
      BY <1>2, <1>4, <2>1, <3>1, FlowQuiet DEF MaySend, NoneAdded
  <2> QED
    BY <1>10, <2>2, <2>3, <2>4, MessageRead
<1>11. CASE ResetPolicy \/ ResetDone \/ ResetFails \/ SessionClose \/ HandlerDone \/ Worker
  <2>1. UNCHANGED <<sender, ackWaiter>>
    BY <1>11 DEF ResetPolicy, ResetDone, ResetFails, SessionClose, HandlerDone, Worker,
                 WorkerTake, WorkerFinish, WorkerStop, clientVars, senderVars
  <2>2. Kept(c2s, c2s')
    <3>1. c2s' = c2s \/ c2s' = <<>>
      BY <1>11 DEF ResetPolicy, ResetDone, ResetFails, SessionClose, HandlerDone, Worker,
                   WorkerTake, WorkerFinish, WorkerStop, netVars
    <3> QED
      BY <1>1, <1>2, <3>1, KeptNothing
  <2>3. NoneAdded(s2c, s2c', "ack")
    <3>1. CASE ResetPolicy \/ SessionClose \/ HandlerDone \/ WorkerStop
      BY <1>2, <3>1 DEF ResetPolicy, SessionClose, HandlerDone, WorkerStop, netVars, NoneAdded
    <3>2. CASE ResetDone
      BY <1>2, <3>2, AnswerSends DEF NoneAdded
    <3>3. CASE ResetFails
      BY <1>2, <3>3, SentError DEF ResetFails, NoneAdded
    <3>4. CASE WorkerTake
      BY <1>2, <3>4, TakeSends DEF NoneAdded
    <3>5. ASSUME NEW outcome \in PolicyOutcomes, WorkerFinish(outcome)
          PROVE  NoneAdded(s2c, s2c', "ack")
      BY <1>2, <3>5, FinishSends DEF NoneAdded
    <3> QED
      BY <1>11, <3>1, <3>2, <3>3, <3>4, <3>5 DEF Worker
  <2> QED
    BY <1>2, <1>4, <2>1, <2>2, <2>3, FlowQuiet DEF MaySend, NoneAdded
<1>12. CASE Drop
  <2>1. Kept(c2s, c2s') /\ Kept(s2c, s2c') /\ UNCHANGED <<sender, ackWaiter>>
    BY <1>12, DropSends DEF clientVars, senderVars
  <2> QED
    BY <1>4, <2>1, FlowQuiet DEF MaySend, NoneAdded
<1>13. CASE UNCHANGED vars
  <2>1. UNCHANGED <<c2s, s2c, sender, ackWaiter>>
    BY <1>13 DEF vars, netVars, clientVars, senderVars
  <2> QED
    BY <1>2, <1>4, <2>1, FlowQuiet DEF MaySend, NoneAdded
<1> QED
  BY <1>5, <1>6, <1>7, <1>8, <1>9, <1>10, <1>11, <1>12, <1>13
     DEF Next, Sender, Receiver, Handler

-----------------------------------------------------------------------------
(* The reset protocol: at most one reset is under way.                     *)

InReset == handler \in {"resetWait", "resetPolicy"}

\* The server has not answered the reset the caller waits for (or waited for).
Unanswered == session = clientSession /\ caller # "run" /\ clientSession < MaxSessions

\* The server has opened the session whose announcement the client has not taken.
Announced == session = clientSession + 1 /\ caller # "run"

\* A reset is in one place only: the request on the wire, the handler, the
\* answer on the wire, or the result of the caller's future.
ResetInv ==
  /\ session \in Sessions /\ session \in {clientSession, clientSession + 1}
  /\ caller = "run" => session = clientSession
  /\ rpcWaiter # "none" => caller = "resetting"
  /\ rpcWaiter = "set" => Announced /\ rpcSession = session
  /\ InReset => Unanswered
  /\ \A i \in 1..Len(c2s) : c2s[i].type = "reset"
       => Unanswered /\ ~InReset /\ c2s[i].session = clientSession
  /\ AtMostOne(c2s, "reset")
  /\ \A i \in 1..Len(s2c) : s2c[i].type = "reset"
       => Announced /\ rpcWaiter # "set" /\ s2c[i].session = session
  /\ AtMostOne(s2c, "reset")

LEMMA ResetInit == Init => ResetInv
<1>1. 1 \in Sessions
  BY BoundsAssumption DEF Sessions
<1> QED
  BY <1>1 DEF Init, ResetInv, InReset, AtMostOne

\* A step that neither begins a reset nor moves it on.
LEMMA ResetQuiet ==
  ASSUME TypeOK, TypeOK', ResetInv,
         NoneAdded(c2s, c2s', "reset"),
         NoneAdded(s2c, s2c', "reset"),
         caller' = "run" => caller = "run", InReset' => InReset,
         rpcWaiter' = "set" => rpcWaiter = "set", rpcWaiter' # "none" => caller' = "resetting",
         UNCHANGED <<session, clientSession, rpcSession>>
  PROVE  ResetInv'
<1>1. \E d \in {0, 1} : \A i \in 1..Len(c2s') : c2s'[i].type = "reset"
        => i + d \in 1..Len(c2s) /\ c2s'[i] = c2s[i + d]
  BY MessageOrigin DEF Traced
<1>2. \E d \in {0, 1} : \A i \in 1..Len(s2c') : s2c'[i].type = "reset"
        => i + d \in 1..Len(s2c) /\ s2c'[i] = s2c[i + d]
  BY FrameOrigin DEF Traced
<1>3. Len(c2s') \in Nat /\ Len(s2c') \in Nat
  BY LenProperties DEF TypeOK, NetTypeOK
<1>4. PICK d \in {0, 1} : \A i \in 1..Len(c2s') : c2s'[i].type = "reset"
        => i + d \in 1..Len(c2s) /\ c2s'[i] = c2s[i + d]
  BY <1>1
<1>5. PICK e \in {0, 1} : \A i \in 1..Len(s2c') : s2c'[i].type = "reset"
        => i + e \in 1..Len(s2c) /\ s2c'[i] = s2c[i + e]
  BY <1>2
<1>6. (Unanswered => Unanswered') /\ (Announced => Announced')
  BY DEF Unanswered, Announced
<1>7. \A i \in 1..Len(c2s') : c2s'[i].type = "reset"
        => Unanswered' /\ ~InReset' /\ c2s'[i].session = clientSession'
  BY <1>4, <1>6 DEF ResetInv
<1>8. AtMostOne(c2s', "reset")
  <2>1. AtMostOne(c2s, "reset") /\ c2s \in Seq(Message) /\ c2s' \in Seq(Message)
    BY DEF ResetInv, TypeOK, NetTypeOK
  <2> QED
    BY <2>1, AtMostOneTraced, MessageOrigin
<1>9. \A i \in 1..Len(s2c') : s2c'[i].type = "reset"
        => Announced' /\ rpcWaiter' # "set" /\ s2c'[i].session = session'
  BY <1>5, <1>6 DEF ResetInv
<1>10. AtMostOne(s2c', "reset")
  <2>1. AtMostOne(s2c, "reset") /\ s2c \in Seq(Frame) /\ s2c' \in Seq(Frame)
    BY DEF ResetInv, TypeOK, NetTypeOK
  <2> QED
    BY <2>1, AtMostOneTraced, FrameOrigin
<1>11. /\ session' \in Sessions /\ session' \in {clientSession', clientSession' + 1}
       /\ caller' = "run" => session' = clientSession'
       /\ rpcWaiter' = "set" => Announced' /\ rpcSession' = session'
       /\ InReset' => Unanswered'
  BY <1>6 DEF ResetInv
<1> QED
  BY <1>7, <1>8, <1>9, <1>10, <1>11 DEF ResetInv

\* The calls of the control program.
LEMMA ResetCaller ==
  ASSUME TypeOK, TypeOK', ResetInv, Caller \/ CallerResumes
  PROVE  ResetInv'
<1>1. /\ c2s \in Seq(Message) /\ s2c \in Seq(Frame)
      /\ Len(c2s) \in Nat /\ Len(s2c) \in Nat /\ clientSession \in Nat /\ session \in Nat
  BY LenProperties DEF TypeOK, NetTypeOK, ClientTypeOK, SessionTypeOK
<1>2. s2c' = s2c /\ UNCHANGED <<session, handler>> /\ (InReset' <=> InReset)
  BY CallerSends DEF Caller, CallerResumes, Submit, PollEvent, ResetCall, Close, ResetReturn,
       ResetRaise, CloseSocket, CloseReturn, serverVars, sessionVars, InReset
<1>3. Kept(s2c, s2c') /\ Kept(c2s, c2s)
  BY <1>1, <1>2, KeptSame
<1>4. CASE ResetCall
  <2>1. /\ caller = "run" /\ caller' \in {"resetting", "failed"} /\ clientSession < MaxSessions
        /\ UNCHANGED <<clientSession, rpcSession>>
        /\ (rpcWaiter' = "pending" /\ caller' = "resetting") \/ rpcWaiter' = rpcWaiter
    BY <1>4 DEF ResetCall, slotVars
  <2>2. /\ session = clientSession /\ rpcWaiter = "none" /\ ~InReset
        /\ \A i \in 1..Len(c2s) : c2s[i].type # "reset"
        /\ \A i \in 1..Len(s2c) : s2c[i].type # "reset"
    BY <2>1 DEF ResetInv, Unanswered, Announced
  <2>3. CASE c2s' = c2s
    BY <1>2, <1>3, <2>1, <2>2, <2>3, ResetQuiet DEF NoneAdded
  <2>4. ASSUME NEW m, m.type = "reset", m.session = clientSession, Grown(c2s, c2s', m)
        PROVE  ResetInv'
    <3>1. \A i \in 1..Len(c2s') : c2s'[i].type = "reset"
            => i = Len(c2s) + 1 /\ c2s'[i].session = clientSession
      BY <1>1, <2>2, <2>4 DEF Grown
    <3>2. Unanswered'
      BY <1>2, <2>1, <2>2 DEF Unanswered
    <3>3. rpcWaiter' # "set" /\ (rpcWaiter' # "none" => caller' = "resetting")
      BY <2>1, <2>2
    <3> QED
      BY <1>2, <2>1, <2>2, <3>1, <3>2, <3>3 DEF ResetInv, AtMostOne
  <2>5. c2s' = c2s \/ \E m : /\ m.type = "reset" /\ m.session = clientSession
                             /\ Grown(c2s, c2s', m)
    BY <1>4, CallerSends DEF ResetCall, CloseSocket
  <2> QED
    BY <2>3, <2>4, <2>5
<1>5. CASE ResetReturn
  <2>1. /\ rpcWaiter = "set" /\ clientSession' = rpcSession /\ rpcWaiter' = "none"
        /\ c2s' = c2s /\ caller' = "run"
    BY <1>5 DEF ResetReturn, netVars
  <2>2. /\ session = clientSession + 1 /\ rpcSession = session /\ ~InReset
        /\ \A i \in 1..Len(c2s) : c2s[i].type # "reset"
        /\ \A i \in 1..Len(s2c) : s2c[i].type # "reset"
    BY <1>1, <2>1 DEF ResetInv, Unanswered, Announced
  <2> QED
    BY <1>2, <2>1, <2>2 DEF ResetInv
<1>6. CASE ~ResetCall /\ ~ResetReturn
  <2>1. /\ UNCHANGED <<clientSession, rpcSession>>
        /\ caller' = "run" => caller = "run"
        /\ rpcWaiter' \in {rpcWaiter, "none"}
        /\ rpcWaiter' # "none" => caller' = caller \/ caller # "resetting"
    BY <1>6 DEF Caller, CallerResumes, Submit, PollEvent, Close,
         ResetRaise, CloseSocket, CloseReturn, rpcVars, slotVars, callerVars
  <2>2. NoneAdded(c2s, c2s', "reset")
    BY <1>3, <1>6, CallerSends DEF NoneAdded
  <2>3. (rpcWaiter' = "set" => rpcWaiter = "set") /\ (rpcWaiter' # "none" => caller' = "resetting")
    BY <2>1 DEF ResetInv
  <2> QED
    BY <1>2, <1>3, <2>1, <2>2, <2>3, ResetQuiet DEF NoneAdded
<1> QED
  BY <1>4, <1>5, <1>6

\* The client's own tasks, the worker and a loss of the connection.
LEMMA ResetTasks ==
  ASSUME TypeOK, TypeOK', ResetInv, Sender \/ ReceiverEnds \/ Worker \/ Drop \/ UNCHANGED vars
  PROVE  ResetInv'
<1>1. c2s \in Seq(Message) /\ s2c \in Seq(Frame)
  BY DEF TypeOK, NetTypeOK
<1>2. Kept(c2s, c2s) /\ Kept(s2c, s2c)
  BY <1>1, KeptSame
<1>3. rpcWaiter # "none" => caller = "resetting"
  BY DEF ResetInv
<1>4. CASE Sender
  <2>1. /\ s2c' = s2c
        /\ UNCHANGED <<caller, handler, session, clientSession, rpcWaiter, rpcSession>>
    BY <1>4 DEF Sender, SenderTake, SenderStop, SenderResume, callerVars, slotVars, rpcVars,
         netVars, serverVars, sessionVars
  <2>2. NoneAdded(c2s, c2s', "reset")
    <3>1. CASE SenderTake
      <4>1. c2s' = c2s \/ \E m : m.type = "observation" /\ Grown(c2s, c2s', m)
        BY <3>1, TakeSlotSends DEF NoneAdded
      <4> QED
        BY <1>2, <4>1 DEF NoneAdded
    <3>2. CASE SenderStop \/ SenderResume
      BY <1>2, <3>2 DEF SenderStop, SenderResume, netVars, NoneAdded
    <3> QED
      BY <1>4, <3>1, <3>2 DEF Sender
  <2> QED
    BY <1>2, <1>3, <2>1, <2>2, ResetQuiet DEF InReset, NoneAdded
<1>5. CASE ReceiverEnds
  <2>1. /\ UNCHANGED <<c2s, s2c, caller, handler, session, clientSession, rpcSession>>
        /\ rpcWaiter' \in {rpcWaiter, "failed"} /\ (rpcWaiter' # "none" => rpcWaiter # "none")
    BY <1>5, ReceiverEndsSends DEF FailWaiters, callerVars, slotVars, netVars, serverVars,
         sessionVars
  <2> QED
    BY <1>2, <1>3, <2>1, ResetQuiet DEF InReset, NoneAdded
<1>6. CASE Worker
  <2>1. UNCHANGED <<c2s, caller, handler, session, clientSession, rpcWaiter, rpcSession>>
    BY <1>6 DEF Worker, WorkerTake, WorkerFinish, WorkerStop, clientVars, callerVars, slotVars,
         rpcVars, netVars, sessionVars
  <2>2. NoneAdded(s2c, s2c', "reset")
    <3>1. CASE WorkerStop
      BY <1>2, <3>1 DEF WorkerStop, netVars, NoneAdded
    <3>2. CASE WorkerTake
      BY <1>2, <3>2, TakeSends DEF NoneAdded
    <3>3. ASSUME NEW outcome \in PolicyOutcomes, WorkerFinish(outcome)
          PROVE  NoneAdded(s2c, s2c', "reset")
      BY <1>2, <3>3, FinishSends DEF NoneAdded
    <3> QED
      BY <1>6, <3>1, <3>2, <3>3 DEF Worker
  <2> QED
    BY <1>2, <1>3, <2>1, <2>2, ResetQuiet DEF InReset, NoneAdded
<1>7. CASE Drop
  <2>1. /\ Kept(c2s, c2s') /\ Kept(s2c, s2c')
        /\ UNCHANGED <<caller, handler, session, clientSession, rpcWaiter, rpcSession>>
    BY <1>7, DropSends DEF clientVars, callerVars, slotVars, rpcVars, serverVars, sessionVars
  <2> QED
    BY <1>3, <2>1, ResetQuiet DEF InReset, NoneAdded
<1>8. CASE UNCHANGED vars
  <2>1. UNCHANGED <<c2s, s2c, caller, handler, session, clientSession, rpcWaiter, rpcSession>>
    BY <1>8 DEF vars, clientVars, callerVars, slotVars, rpcVars, netVars, serverVars, sessionVars
  <2> QED
    BY <1>2, <1>3, <2>1, ResetQuiet DEF InReset, NoneAdded
<1> QED
  BY <1>4, <1>5, <1>6, <1>7, <1>8

\* The receiver takes the answer of a reset from the wire.
LEMMA ResetReceiver ==
  ASSUME TypeOK, TypeOK', ResetInv, ReceiverFrame \/ ReceiverLastFrame
  PROVE  ResetInv'
<1>1. /\ c2s \in Seq(Message) /\ s2c \in Seq(Frame)
      /\ Len(c2s) \in Nat /\ Len(s2c) \in Nat /\ Len(s2c') \in Nat
  BY LenProperties DEF TypeOK, NetTypeOK
<1>2. /\ s2c # <<>> /\ s2c' = Tail(s2c)
      /\ UNCHANGED <<c2s, caller, clientSession, handler, session>>
  BY ReceiverReads DEF callerVars, slotVars, serverVars, sessionVars
<1>3. /\ Kept(s2c, s2c') /\ Len(s2c) >= 1 /\ Len(s2c') = Len(s2c) - 1
      /\ \A i \in 1..Len(s2c') : s2c'[i] = s2c[i + 1]
  BY <1>1, <1>2, KeptTail
<1>4. Kept(c2s, c2s)
  BY <1>1, KeptSame
<1>5. CASE s2c[1].type = "reset" /\ rpcWaiter' = "set" /\ rpcSession' = s2c[1].session
  <2>1. Announced /\ s2c[1].session = session
    BY <1>1, <1>3, <1>5 DEF ResetInv
  <2>2. \A i \in 1..Len(s2c') : s2c'[i].type # "reset"
    <3>1. AtMostOne(s2c, "reset")
      BY DEF ResetInv
    <3>2. SUFFICES ASSUME NEW i \in 1..Len(s2c')
                   PROVE  s2c'[i].type # "reset"
      OBVIOUS
    <3>3. /\ 1 \in 1..Len(s2c) /\ i + 1 \in 1..Len(s2c) /\ i + 1 # 1
          /\ s2c'[i] = s2c[i + 1]
      BY <1>1, <1>3, <3>2
    <3>4. ~(s2c[1].type = "reset" /\ s2c[i + 1].type = "reset")
      BY <3>1, <3>3 DEF AtMostOne
    <3> QED
      BY <1>5, <3>3, <3>4
  <2>3. rpcWaiter # "none" => caller = "resetting"
    BY DEF ResetInv
  <2>4. rpcWaiter # "none"
    BY <1>5, <2>1, ReceiverReads DEF FailWaiters, rpcVars, ResetInv
  <2>5. Announced'
    BY <1>2, <2>1 DEF Announced
  <2>6. /\ session' \in Sessions /\ session' \in {clientSession', clientSession' + 1}
        /\ caller' = "run" => session' = clientSession'
        /\ InReset' => Unanswered'
        /\ \A i \in 1..Len(c2s') : c2s'[i].type = "reset"
             => Unanswered' /\ ~InReset' /\ c2s'[i].session = clientSession'
        /\ AtMostOne(c2s', "reset")
    BY <1>2 DEF ResetInv, InReset, Unanswered
  <2> QED
    BY <1>2, <1>5, <2>1, <2>2, <2>3, <2>4, <2>5, <2>6 DEF ResetInv, AtMostOne
<1>6. CASE rpcSession' = rpcSession /\ rpcWaiter' \in {rpcWaiter, "failed"}
           /\ (rpcWaiter' # "none" => rpcWaiter # "none")
  <2>1. rpcWaiter # "none" => caller = "resetting"
    BY DEF ResetInv
  <2> QED
    BY <1>2, <1>3, <1>4, <1>6, <2>1, ResetQuiet DEF InReset, NoneAdded
<1> QED
  BY <1>5, <1>6, ReceiverReads DEF FailWaiters, rpcVars

\* The server's handler takes the request and answers it.
LEMMA ResetHandlerStep ==
  ASSUME TypeOK, TypeOK', ResetInv, Handler
  PROVE  ResetInv'
<1>1. /\ c2s \in Seq(Message) /\ s2c \in Seq(Frame) /\ Len(c2s) \in Nat /\ Len(s2c) \in Nat
      /\ Len(c2s') \in Nat /\ Len(s2c') \in Nat /\ clientSession \in Nat /\ session \in Nat
      /\ c2s' \in Seq(Message)
  BY LenProperties DEF TypeOK, NetTypeOK, ClientTypeOK, SessionTypeOK
<1>2. Kept(c2s, c2s) /\ Kept(s2c, s2c) /\ Kept(c2s, <<>>)
  BY <1>1, KeptSame, KeptNothing
<1>3. /\ UNCHANGED <<caller, clientSession, rpcWaiter, rpcSession>>
      /\ rpcWaiter # "none" => caller = "resetting"
  BY DEF Handler, HandleMessage, ResetPolicy, ResetDone, ResetFails, SessionClose, HandlerDone,
       clientVars, callerVars, slotVars, rpcVars, ResetInv
<1>4. CASE HandleMessage
  <2>1. /\ Kept(c2s, c2s') /\ Len(c2s) >= 1
        /\ \A i \in 1..Len(c2s') : i + 1 \in 1..Len(c2s) /\ c2s'[i] = c2s[i + 1]
    BY <1>4, MessageRead
  <2>2. CASE c2s[1].type = "observation" /\ SubmitHandler(c2s[1].obs) /\ c2s[1].obs \in Observation
    <3>1. UNCHANGED <<handler, session>>
      BY <2>2 DEF SubmitHandler
    <3>2. Accept(c2s[1].obs) \/ NoneAdded(s2c, s2c', "reset")
      BY <1>2, <2>2, RefusalSends DEF NoneAdded
    <3>3. CASE Accept(c2s[1].obs) /\ pending # None /\ s2c' # s2c
      <4>1. PICK f, g : /\ f.type = "ack" /\ g.type = "result"
                        /\ GrownTwice(s2c, s2c', f, g)
        BY <2>2, <3>3, AcceptSends
      <4>2. \A i \in 1..Len(s2c') : s2c'[i].type = "reset"
              => i \in 1..Len(s2c) /\ s2c'[i] = s2c[i]
        BY <1>1, <4>1 DEF GrownTwice
      <4>3. /\ \A i \in 1..Len(s2c') : s2c'[i].type = "reset"
                 => Announced' /\ rpcWaiter' # "set" /\ s2c'[i].session = session'
            /\ AtMostOne(s2c', "reset")
        BY <1>3, <3>1, <4>2 DEF ResetInv, Announced, AtMostOne
      <4>4. /\ \A i \in 1..Len(c2s') : c2s'[i].type = "reset"
                 => Unanswered' /\ ~InReset' /\ c2s'[i].session = clientSession'
            /\ AtMostOne(c2s', "reset")
        <5>1. AtMostOne(c2s, "reset")
          BY DEF ResetInv
        <5>2. \A i \in 1..Len(c2s) : c2s[i].type = "reset"
                => Unanswered' /\ ~InReset' /\ c2s[i].session = clientSession'
          BY <1>3, <3>1 DEF ResetInv, Unanswered, InReset
        <5>3. \A i \in 1..Len(c2s') : c2s'[i].type = "reset"
                => Unanswered' /\ ~InReset' /\ c2s'[i].session = clientSession'
          BY <2>1, <5>2
        <5>4. AtMostOne(c2s', "reset")
          <6>1. AtMostOne(c2s, "reset") /\ NoneAdded(c2s, c2s', "reset")
            BY <2>1, <5>1 DEF NoneAdded
          <6> QED
            BY <1>1, <6>1, AtMostOneTraced, Origin
        <5> QED
          BY <5>3, <5>4
      <4>5. /\ session' \in Sessions /\ session' \in {clientSession', clientSession' + 1}
            /\ caller' = "run" => session' = clientSession'
            /\ rpcWaiter' = "set" => Announced' /\ rpcSession' = session'
            /\ InReset' => Unanswered'
        BY <1>3, <3>1 DEF ResetInv, Announced, Unanswered, InReset
      <4> QED
        BY <1>3, <4>3, <4>4, <4>5 DEF ResetInv
    <3>4. CASE ~(Accept(c2s[1].obs) /\ pending # None /\ s2c' # s2c)
      <4>1. NoneAdded(s2c, s2c', "reset")
        BY <1>2, <2>2, <3>2, <3>4, AcceptSends DEF NoneAdded
      <4> QED
        BY <1>2, <1>3, <2>1, <3>1, <4>1, ResetQuiet DEF InReset, NoneAdded
    <3> QED
      BY <3>3, <3>4
  <2>3. CASE c2s[1].type = "reset" /\ ResetHandler(c2s[1].session)
    <3>1. /\ Unanswered /\ ~InReset /\ c2s[1].session = clientSession
      BY <1>1, <2>1, <2>3 DEF ResetInv
    <3>2. \A i \in 1..Len(c2s') : c2s'[i].type # "reset"
      <4>1. AtMostOne(c2s, "reset")
        BY DEF ResetInv
      <4> QED
        BY <1>1, <1>4, <2>1, <2>3, <4>1, AtMostOneTail, MessageRead
    <3>3. c2s[1].session = session /\ handler' = "resetWait" /\ session' = session
      BY <2>3, <3>1 DEF ResetHandler, Unanswered
    <3>4. \A i \in 1..Len(s2c') : s2c'[i].type # "reset"
      <4>1. \A i \in 1..Len(s2c) : s2c[i].type # "reset"
        BY <1>1, <3>1 DEF ResetInv, Unanswered, Announced
      <4>2. s2c' = s2c \/ \E f : f.type = "result" /\ Grown(s2c, s2c', f)
        BY <2>3, <3>3, ResetSends
      <4>3. ASSUME NEW f, f.type = "result", Grown(s2c, s2c', f)
            PROVE  \A i \in 1..Len(s2c') : s2c'[i].type # "reset"
        BY <1>1, <4>1, <4>3 DEF Grown
      <4> QED
        BY <4>1, <4>2, <4>3
    <3>5. Unanswered' /\ session' \in Sessions /\ (rpcWaiter' = "set" => Announced')
      BY <1>3, <3>1, <3>3 DEF ResetInv, Unanswered, Announced
    <3>6. rpcWaiter' # "set"
      BY <1>1, <1>3, <3>1 DEF ResetInv, Unanswered, Announced
    <3> QED
      BY <1>3, <3>2, <3>4, <3>5, <3>6 DEF ResetInv, Unanswered, AtMostOne
  <2> QED
    BY <1>4, <2>2, <2>3, MessageRead
<1>5. CASE ResetDone
  <2>1. /\ c2s' = c2s /\ session' = session + 1 /\ handler' = "recv"
        /\ InReset /\ ~InReset'
    BY <1>5 DEF ResetDone, InReset
  <2>2. Unanswered /\ \A i \in 1..Len(c2s) : c2s[i].type # "reset"
    BY <2>1 DEF ResetInv
  <2>3. rpcWaiter # "set" /\ \A i \in 1..Len(s2c) : s2c[i].type # "reset"
    BY <1>1, <2>2 DEF ResetInv, Unanswered, Announced
  <2>4. \A i \in 1..Len(s2c') : s2c'[i].type = "reset"
          => i = Len(s2c) + 1 /\ s2c'[i].session = session'
    <3>1. s2c' = s2c \/ \E f : f.session = session + 1 /\ Grown(s2c, s2c', f)
      BY <1>5, AnswerSends
    <3>2. ASSUME NEW f, f.session = session + 1, Grown(s2c, s2c', f)
          PROVE  \A i \in 1..Len(s2c') : s2c'[i].type = "reset"
                   => i = Len(s2c) + 1 /\ s2c'[i].session = session'
      BY <1>1, <2>1, <2>3, <3>2 DEF Grown
    <3> QED
      BY <2>3, <3>1, <3>2
  <2>5. Announced' /\ session' \in Sessions
    BY <1>1, <1>3, <2>1, <2>2, BoundsAssumption DEF Unanswered, Announced, Sessions
  <2> QED
    BY <1>3, <2>1, <2>2, <2>3, <2>4, <2>5 DEF ResetInv, Announced, AtMostOne
<1>6. CASE ResetPolicy \/ ResetFails \/ SessionClose \/ HandlerDone
  <2>1. /\ session' = session /\ (InReset' => InReset)
        /\ c2s' = c2s \/ c2s' = <<>>
    BY <1>6 DEF ResetPolicy, ResetFails, SessionClose, HandlerDone, netVars, sessionVars, InReset
  <2>2. NoneAdded(s2c, s2c', "reset")
    <3>1. CASE ResetFails
      BY <1>2, <3>1, SentError DEF ResetFails, NoneAdded
    <3>2. CASE ResetPolicy \/ SessionClose \/ HandlerDone
      BY <1>2, <3>2 DEF ResetPolicy, SessionClose, HandlerDone, netVars, NoneAdded
    <3> QED
      BY <1>6, <3>1, <3>2
  <2> QED
    BY <1>2, <1>3, <2>1, <2>2, ResetQuiet DEF NoneAdded
<1> QED
  BY <1>4, <1>5, <1>6 DEF Handler

LEMMA ResetStep == TypeOK /\ TypeOK' /\ ResetInv /\ [Next]_vars => ResetInv'
  BY ResetCaller, ResetTasks, ResetReceiver, ResetHandlerStep DEF Next, Receiver

-----------------------------------------------------------------------------
(* The client's numbering: ids grow from the wire to the slot.             *)

IdInv ==
  /\ nextId <= MaxObservations
  /\ slot # None => slot.session = clientSession /\ slot.id < nextId
  /\ \A i \in 1..Len(c2s) : c2s[i].type = "observation"
       => /\ c2s[i].obs.session <= clientSession
          /\ c2s[i].obs.session = clientSession
               => c2s[i].obs.id < nextId /\ (slot # None => c2s[i].obs.id < slot.id)

LEMMA IdInit == Init => IdInv
  BY BoundsAssumption DEF Init, IdInv

\* A step that numbers nothing and sends no observation.
LEMMA IdQuiet ==
  ASSUME TypeOK, TypeOK', IdInv,
         NoneAdded(c2s, c2s', "observation"),
         UNCHANGED <<nextId, clientSession>>, slot' \in {slot, None}
  PROVE  IdInv'
<1>1. \E d \in {0, 1} : \A i \in 1..Len(c2s') : c2s'[i].type = "observation"
        => i + d \in 1..Len(c2s) /\ c2s'[i] = c2s[i + d]
  BY MessageOrigin DEF Traced
<1>2. PICK d \in {0, 1} : \A i \in 1..Len(c2s') : c2s'[i].type = "observation"
        => i + d \in 1..Len(c2s) /\ c2s'[i] = c2s[i + d]
  BY <1>1
<1> QED
  BY <1>2 DEF IdInv

LEMMA IdStep == TypeOK /\ TypeOK' /\ ResetInv /\ IdInv /\ [Next]_vars => IdInv'
<1> SUFFICES ASSUME TypeOK, TypeOK', ResetInv, IdInv, [Next]_vars PROVE IdInv'
  OBVIOUS
<1>1. /\ c2s \in Seq(Message) /\ Len(c2s) \in Nat /\ clientSession \in Nat /\ session \in Nat
      /\ nextId \in Nat
      /\ \A i \in 1..Len(c2s) : c2s[i].type = "observation" => c2s[i].obs \in Observation
  <2>1. c2s \in Seq(Message) /\ clientSession \in Nat /\ session \in Nat /\ nextId \in Nat
    BY DEF TypeOK, NetTypeOK, ClientTypeOK, SessionTypeOK
  <2>2. \A i \in 1..Len(c2s) : c2s[i] \in Message
    BY <2>1, ElementOfSeq
  <2> QED
    BY <2>1, <2>2, LenProperties DEF Message
<1>2. Kept(c2s, c2s)
  BY <1>1, KeptSame
<1>3. ASSUME NEW ts \in NextTimesteps, NEW mustGo \in BOOLEAN, NEW payload \in Payloads,
             Submit(ts, mustGo, payload)
      PROVE  IdInv'
  <2>1. /\ slot'.session = clientSession /\ slot'.id = nextId /\ nextId' = nextId + 1
        /\ nextId < MaxObservations /\ c2s' = c2s /\ clientSession' = clientSession
    BY <1>3 DEF Submit, netVars
  <2>2. \A i \in 1..Len(c2s') : c2s'[i].type = "observation"
          => c2s'[i].obs.session <= clientSession'
    BY <2>1 DEF IdInv
  <2>3. \A i \in 1..Len(c2s') :
          c2s'[i].type = "observation" /\ c2s'[i].obs.session = clientSession'
            => c2s'[i].obs.id < slot'.id /\ c2s'[i].obs.id \in Nat
    BY <1>1, <2>1 DEF IdInv, Observation
  <2>4. \A i \in 1..Len(c2s') :
          c2s'[i].type = "observation" /\ c2s'[i].obs.session = clientSession'
            => c2s'[i].obs.id < nextId'
    BY <1>1, <2>1, <2>3
  <2> QED
    BY <1>1, <2>1, <2>2, <2>3, <2>4, BoundsAssumption DEF IdInv
<1>4. CASE ResetReturn
  <2>1. /\ clientSession' = rpcSession /\ nextId' = 0 /\ slot' = None /\ c2s' = c2s
        /\ rpcWaiter = "set"
    BY <1>4 DEF ResetReturn, netVars
  <2>2. rpcSession = clientSession + 1
    BY <2>1 DEF ResetInv, Announced
  <2>3. \A i \in 1..Len(c2s) : c2s[i].type = "observation"
          => c2s[i].obs.session <= clientSession /\ c2s[i].obs.session \in Nat
    BY <1>1 DEF IdInv, Observation
  <2> QED
    BY <1>1, <2>1, <2>2, <2>3, BoundsAssumption DEF IdInv
<1>5. CASE SenderTake
  <2>1. /\ slot' = None /\ UNCHANGED <<nextId, clientSession>>
    BY <1>5 DEF SenderTake
  <2>2. CASE c2s' = c2s
    BY <1>2, <2>1, <2>2, IdQuiet DEF NoneAdded
  <2>3. CASE c2s' # c2s
    <3>1. PICK m : slot # None /\ m.type = "observation" /\ m.obs = slot /\ Grown(c2s, c2s', m)
      BY <1>5, <2>3, TakeSlotSends
    <3>2. slot.session = clientSession /\ slot.id < nextId
      BY <3>1 DEF IdInv
    <3>3. \A i \in 1..Len(c2s') : (i \in 1..Len(c2s) /\ c2s'[i] = c2s[i]) \/ c2s'[i] = m
      BY <1>1, <3>1 DEF Grown
    <3> QED
      BY <1>1, <2>1, <3>1, <3>2, <3>3 DEF IdInv
  <2> QED
    BY <2>2, <2>3
<1>6. CASE (Caller \/ CallerResumes) /\ UNCHANGED <<nextId, clientSession, slot>>
  <2>1. NoneAdded(c2s, c2s', "observation")
    BY <1>2, <1>6, CallerSends DEF NoneAdded
  <2> QED
    BY <1>6, <2>1, IdQuiet DEF NoneAdded
<1>7. CASE SenderStop \/ SenderResume \/ Receiver \/ UNCHANGED vars
  <2>1. UNCHANGED <<c2s, nextId, clientSession, slot>>
    BY <1>7, ReceiverReads, ReceiverEndsSends DEF SenderStop, SenderResume, Receiver, vars,
         clientVars, slotVars, netVars
  <2> QED
    BY <1>2, <2>1, IdQuiet DEF NoneAdded
<1>8. CASE Handler \/ Worker \/ Drop
  <2>1. UNCHANGED <<nextId, clientSession, slot>>
    BY <1>8 DEF Handler, HandleMessage, ResetPolicy, ResetDone, ResetFails, SessionClose,
         HandlerDone, Worker, WorkerTake, WorkerFinish, WorkerStop, Drop, clientVars, slotVars
  <2>2. c2s' = c2s \/ c2s' = <<>> \/ HandleMessage \/ Drop
    BY <1>8 DEF Handler, ResetPolicy, ResetDone, ResetFails, SessionClose, HandlerDone, Worker,
         WorkerTake, WorkerFinish, WorkerStop, netVars
  <2>3. Kept(c2s, c2s')
    BY <1>1, <1>2, <2>2, KeptNothing, MessageRead, DropSends
  <2> QED
    BY <2>1, <2>3, IdQuiet DEF NoneAdded
<1>9. Caller \/ CallerResumes =>
        \/ \E ts \in NextTimesteps, mustGo \in BOOLEAN, payload \in Payloads :
             Submit(ts, mustGo, payload)
        \/ ResetReturn
        \/ UNCHANGED <<nextId, clientSession, slot>>
  BY DEF Caller, CallerResumes, PollEvent, ResetCall, Close, ResetRaise, CloseSocket,
         CloseReturn, slotVars
<1> QED
  BY <1>3, <1>4, <1>5, <1>6, <1>7, <1>8, <1>9 DEF Next, Sender

-----------------------------------------------------------------------------
(* The history: where an observation is decides what was said about it.    *)

\* The last id taken up is below n, and nothing was said about n or a later one.
NothingFrom(highest, history, n) ==
  highest < n /\ \A j \in Ids : j >= n => history[j] = <<>>

\* o belongs to the session and was acknowledged, but has no result yet.
Open(current, history, o) ==
  o.session = current /\ o.id \in Ids /\ history[o.id] = <<"ack">>

\* The observations that may still be sent are unknown to the server, and the
\* pending one and the one in inference are open and not the same.
LogInv ==
  /\ \A s \in Sessions, i \in Ids : s > session => log[s][i] = <<>>
  /\ session # clientSession => /\ pending = None /\ worker # "infer"
                                /\ NothingFrom(highestId, log[session], 0)
  /\ session = clientSession
       => /\ NothingFrom(highestId, log[session], nextId)
          /\ slot # None => NothingFrom(highestId, log[session], slot.id)
  /\ \A i \in 1..Len(c2s) :
       c2s[i].type = "observation" /\ c2s[i].obs.session = session
         => NothingFrom(highestId, log[session], c2s[i].obs.id)
  /\ pending # None => Open(session, log[session], pending) /\ pending.id = highestId
  /\ Inferring => /\ Open(session, log[session], item) /\ item.id <= highestId
                  /\ pending # None => item.id # pending.id

\* What a step may do to the history of one observation.
Advances(before, after) ==
  \/ after = before
  \/ before = <<>> /\ after \in {<<"ack">>, <<"duplicate">>}
  \/ before = <<"ack">> /\ \E t \in Statuses \ {"duplicate"} : after = <<"ack", t>>

LogAdvances == \A s \in Sessions, i \in Ids : Advances(log[s][i], log'[s][i])

LEMMA LogInit == Init => LogInv
<1> SUFFICES ASSUME Init PROVE LogInv
  OBVIOUS
<1>1. 1 \in Sessions /\ \A s \in Sessions, i \in Ids : log[s][i] = <<>>
  BY BoundsAssumption DEF Init, Sessions
<1>2. NothingFrom(highestId, log[session], 0)
  BY <1>1 DEF Init, NothingFrom
<1> QED
  BY <1>1, <1>2 DEF Init, LogInv, Inferring

\* The history m differs from l in what was said last about o.
SaidAbout(l, m, o, status) ==
  /\ m[o.session][o.id] = Append(l[o.session][o.id], status)
  /\ \A s \in Sessions, i \in Ids : s # o.session \/ i # o.id => m[s][i] = l[s][i]

LEMMA LoggedAt ==
  ASSUME NEW l \in [Sessions -> [Ids -> Seq(Statuses \cup {"ack"})]], NEW status,
         NEW o, o.session \in Sessions, o.id \in Ids
  PROVE  SaidAbout(l, Logged(l, o, status), o, status)
  BY DEF Logged, SaidAbout

LEMMA AppendSecond ==
  ASSUME NEW S, NEW first \in S, NEW second \in S
  PROVE  Append(<<first>>, second) = <<first, second>>
<1>1. /\ <<first>> \in Seq(S) /\ <<first, second>> \in Seq(S)
      /\ <<first, second>>[1] = first /\ <<first, second>>[2] = second
      /\ Len(<<first, second>>) = 2
  OBVIOUS
<1>2. Len(Append(<<first>>, second)) = 2 /\ Append(<<first>>, second) \in Seq(S)
  BY <1>1, AppendProperties
<1>3. Append(<<first>>, second)[1] = first /\ Append(<<first>>, second)[2] = second
  BY <1>1
<1>4. \A i \in 1..Len(<<first, second>>) : Append(<<first>>, second)[i] = <<first, second>>[i]
  BY <1>1, <1>3
<1> QED
  BY <1>1, <1>2, <1>4, SeqEqual

LEMMA Histories ==
  /\ Append(<<>>, "ack") = <<"ack">> /\ Append(<<>>, "duplicate") = <<"duplicate">>
  /\ \A t \in Statuses : Append(<<"ack">>, t) = <<"ack", t>>
<1>1. Append(<<>>, "ack") = <<"ack">> /\ Append(<<>>, "duplicate") = <<"duplicate">>
  OBVIOUS
<1>2. ASSUME NEW t \in Statuses PROVE Append(<<"ack">>, t) = <<"ack", t>>
  <2>1. "ack" \in Statuses \cup {"ack"} /\ t \in Statuses \cup {"ack"}
    OBVIOUS
  <2> QED
    BY <2>1, AppendSecond
<1> QED
  BY <1>1, <1>2

\* Facts about the types that every step needs.
LEMMA Numbers ==
  ASSUME TypeOK, ResetInv
  PROVE  /\ session \in Sessions /\ session \in Nat /\ clientSession \in Nat
         /\ highestId \in Int /\ nextId \in Nat /\ generation \in Nat /\ itemGeneration \in Nat
         /\ slot # None => slot \in Observation
         /\ pending # None => pending \in Observation
         /\ worker = "infer" => item \in Observation
         /\ \A i \in 1..Len(c2s) : c2s[i].type = "observation" => c2s[i].obs \in Observation
         /\ Ids \subseteq Nat
<1>1. \A i \in 1..Len(c2s) : c2s[i] \in Message
  BY ElementOfSeq DEF TypeOK, NetTypeOK
<1>2. Ids \subseteq Nat
  BY BoundsAssumption DEF Ids
<1> QED
  BY <1>1, <1>2 DEF TypeOK, ClientTypeOK, SessionTypeOK, ResetInv, Message

LEMMA LogNumbered ==
  ASSUME TypeOK, NEW highest \in Int, NEW history, NEW n \in Nat,
         NothingFrom(highest, history, n)
  PROVE  NothingFrom(highest, history, n + 1)
<1>1. Ids \subseteq Nat
  BY BoundsAssumption DEF Ids
<1> QED
  BY <1>1 DEF NothingFrom

\* A step that says nothing, opens nothing and sends no observation.
LEMMA LogQuiet ==
  ASSUME TypeOK, TypeOK', LogInv,
         UNCHANGED <<log, session, highestId, clientSession>>,
         NoneAdded(c2s, c2s', "observation"),
         nextId' = nextId \/ nextId' = nextId + 1,
         slot' \in {slot, None} \/ slot'.id = nextId,
         pending' \in {pending, None},
         Inferring' => Inferring /\ item' = item,
         worker' \in {worker, "wait", "done"}
  PROVE  LogInv'
<1> DEFINE Nothing(n) == NothingFrom(highestId, log[session], n)
<1>1. PICK d \in {0, 1} : \A i \in 1..Len(c2s') : c2s'[i].type = "observation"
        => i + d \in 1..Len(c2s) /\ c2s'[i] = c2s[i + d]
  BY MessageOrigin DEF Traced
<1>2. /\ \A s \in Sessions, i \in Ids : s > session' => log'[s][i] = <<>>
      /\ session' # clientSession' => pending' = None /\ worker' # "infer" /\ Nothing(0)
  BY DEF LogInv
<1>3. session = clientSession => Nothing(nextId) /\ Nothing(nextId + 1)
  BY LogNumbered DEF LogInv, TypeOK, ClientTypeOK, SessionTypeOK
<1>4. session' = clientSession'
        => Nothing(nextId') /\ (slot' # None => Nothing(slot'.id))
  BY <1>3 DEF LogInv
<1>5. \A i \in 1..Len(c2s') :
        c2s'[i].type = "observation" /\ c2s'[i].obs.session = session'
          => Nothing(c2s'[i].obs.id)
  BY <1>1 DEF LogInv
<1>6. /\ pending' # None
           => Open(session', log'[session'], pending') /\ pending'.id = highestId'
      /\ Inferring' => /\ Open(session', log'[session'], item') /\ item'.id <= highestId'
                       /\ pending' # None => item'.id # pending'.id
  BY DEF LogInv
<1> QED
  BY <1>2, <1>4, <1>5, <1>6 DEF LogInv

LEMMA SameLog == log' = log => LogAdvances
  BY DEF LogAdvances, Advances

LEMMA LogClient ==
  ASSUME TypeOK, TypeOK', ResetInv, IdInv, LogInv,
         Caller \/ CallerResumes \/ Sender \/ Receiver \/ Drop \/ UNCHANGED vars
  PROVE  LogInv' /\ log' = log
<1>1. UNCHANGED serverVars
  BY DEF Caller, Submit, PollEvent, ResetCall, Close, CallerResumes, ResetReturn,
     ResetRaise, CloseSocket, CloseReturn, Sender, SenderTake, SenderStop,
     SenderResume, Receiver, ReceiverFrame, ReceiverLastFrame, ReceiverEnds, Drop, vars
<1>2. /\ UNCHANGED <<session, log, highestId, pending, worker, item>>
      /\ Inferring' => Inferring
  BY <1>1 DEF serverVars, sessionVars, pendingVars, workerVars, Outdated, Inferring
<1>3. Kept(c2s, c2s) /\ c2s \in Seq(Message) /\ Len(c2s) \in Nat
  BY KeptSame, LenProperties DEF TypeOK, NetTypeOK
<1>4. ASSUME NEW ts \in NextTimesteps, NEW mustGo \in BOOLEAN, NEW payload \in Payloads,
             Submit(ts, mustGo, payload)
      PROVE  LogInv'
  <2>1. /\ slot'.id = nextId /\ nextId' = nextId + 1 /\ c2s' = c2s
        /\ clientSession' = clientSession
    BY <1>4 DEF Submit, netVars
  <2> QED
    BY <1>2, <1>3, <2>1, LogQuiet DEF NoneAdded
<1>5. CASE ResetReturn
  <2>1. /\ clientSession' = rpcSession /\ nextId' = 0 /\ slot' = None /\ c2s' = c2s
        /\ rpcWaiter = "set"
    BY <1>5 DEF ResetReturn, netVars
  <2>2. rpcSession = clientSession + 1 /\ session = rpcSession
    BY <2>1 DEF ResetInv, Announced
  <2>3. session # clientSession
    BY <2>2, Numbers
  <2> QED
    BY <1>2, <2>1, <2>2, <2>3 DEF LogInv
<1>6. CASE SenderTake
  <2>1. slot' = None /\ UNCHANGED <<nextId, clientSession>>
    BY <1>6 DEF SenderTake
  <2>2. CASE c2s' = c2s
    BY <1>2, <1>3, <2>1, <2>2, LogQuiet DEF NoneAdded
  <2>3. CASE c2s' # c2s
    <3>1. PICK m : slot # None /\ m.type = "observation" /\ m.obs = slot /\ Grown(c2s, c2s', m)
      BY <1>6, <2>3, TakeSlotSends
    <3>2. slot.session = clientSession
      BY <3>1 DEF IdInv
    <3>3. \A i \in 1..Len(c2s') : (i \in 1..Len(c2s) /\ c2s'[i] = c2s[i]) \/ c2s'[i] = m
      BY <1>3, <3>1 DEF Grown
    <3>4. \A i \in 1..Len(c2s') :
            c2s'[i].type = "observation" /\ c2s'[i].obs.session = session
              => NothingFrom(highestId, log[session], c2s'[i].obs.id)
      BY <3>1, <3>2, <3>3 DEF LogInv
    <3> QED
      BY <1>2, <2>1, <3>4 DEF LogInv
  <2> QED
    BY <2>2, <2>3
<1>7. CASE (Caller \/ CallerResumes) /\ UNCHANGED <<nextId, clientSession, slot>>
  <2>1. NoneAdded(c2s, c2s', "observation")
    BY <1>3, <1>7, CallerSends DEF NoneAdded
  <2> QED
    BY <1>2, <1>7, <2>1, LogQuiet
<1>8. CASE SenderStop \/ SenderResume \/ Receiver \/ Drop \/ UNCHANGED vars
  <2>1. UNCHANGED <<nextId, clientSession, slot>> /\ (c2s' = c2s \/ Drop)
    BY <1>8, ReceiverReads, ReceiverEndsSends DEF SenderStop, SenderResume, Receiver, vars,
         clientVars, slotVars, netVars, Drop
  <2>2. NoneAdded(c2s, c2s', "observation")
    BY <1>3, <2>1, DropSends DEF NoneAdded
  <2> QED
    BY <1>2, <2>1, <2>2, LogQuiet
<1>9. Caller \/ CallerResumes =>
        \/ \E ts \in NextTimesteps, mustGo \in BOOLEAN, payload \in Payloads :
             Submit(ts, mustGo, payload)
        \/ ResetReturn
        \/ UNCHANGED <<nextId, clientSession, slot>>
  BY DEF Caller, CallerResumes, PollEvent, ResetCall, Close, ResetRaise, CloseSocket,
         CloseReturn, slotVars
<1> QED
  BY <1>2, <1>4, <1>5, <1>6, <1>7, <1>8, <1>9 DEF Sender

\* What becomes of the history when an open observation gets its result.
LEMMA LogConcludes ==
  ASSUME TypeOK, ResetInv, NEW o, NEW t \in Statuses \ {"duplicate"},
         Open(session, log[session], o), log' = Logged(log, o, t)
  PROVE  /\ LogAdvances /\ o.id \in Nat /\ log'[session][o.id] = <<"ack", t>>
         /\ \A s \in Sessions, i \in Ids :
              s # session \/ i # o.id => log'[s][i] = log[s][i]
<1>1. o.session = session /\ session \in Sessions /\ o.id \in Ids /\ o.id \in Nat
  BY Numbers DEF Open
<1>0. SaidAbout(log, log', o, t)
  BY <1>1, LoggedAt DEF TypeOK, LogTypeOK
<1>2. log[session][o.id] = <<"ack">>
  BY DEF Open
<1>3. log'[session][o.id] = <<"ack", t>>
  <2>1. log'[o.session][o.id] = Append(log[o.session][o.id], t)
    BY <1>0 DEF SaidAbout
  <2>2. log'[session][o.id] = Append(<<"ack">>, t)
    BY <1>1, <1>2, <2>1
  <2> QED
    BY <2>2, Histories
<1>4. \A s \in Sessions, i \in Ids :
        s # session \/ i # o.id => log'[s][i] = log[s][i]
  BY <1>0, <1>1 DEF SaidAbout
<1>5. LogAdvances
  BY <1>2, <1>3, <1>4 DEF LogAdvances, Advances
<1> QED
  BY <1>1, <1>3, <1>4, <1>5

LEMMA NothingKept ==
  ASSUME TypeOK, NEW highest \in Int, NEW before, NEW after, NEW n \in Int, NEW k \in Int,
         NothingFrom(highest, before, n), k < n,
         \A i \in Ids : i # k => after[i] = before[i]
  PROVE  NothingFrom(highest, after, n)
<1>1. Ids \subseteq Int
  BY BoundsAssumption DEF Ids
<1> QED
  BY <1>1 DEF NothingFrom

\* A step that publishes the result of an open observation and forgets it.
LEMMA LogResult ==
  ASSUME TypeOK, TypeOK', ResetInv, LogInv, NEW o, NEW t \in Statuses \ {"duplicate"},
         Open(session, log[session], o), o.id <= highestId, log' = Logged(log, o, t),
         UNCHANGED <<session, highestId, clientSession, nextId, slot>>,
         session = clientSession,
         NoneAdded(c2s, c2s', "observation"),
         pending' \in {pending, None}, pending' # None => pending.id # o.id,
         Inferring' => Inferring /\ item' = item /\ item.id # o.id
  PROVE  LogInv' /\ LogAdvances
<1>1. /\ LogAdvances /\ o.id \in Nat
      /\ \A s \in Sessions, i \in Ids :
           s # session \/ i # o.id => log'[s][i] = log[s][i]
  BY LogConcludes
<1>2. PICK d \in {0, 1} : \A i \in 1..Len(c2s') : c2s'[i].type = "observation"
        => i + d \in 1..Len(c2s) /\ c2s'[i] = c2s[i + d]
  BY MessageOrigin DEF Traced
<1>3. session \in Sessions /\ session \in Nat /\ highestId \in Int /\ Sessions \subseteq Nat
  BY Numbers, BoundsAssumption DEF Sessions
<1>4. \A n \in Int :
        NothingFrom(highestId, log[session], n) => NothingFrom(highestId, log'[session], n)
  <2> SUFFICES ASSUME NEW n \in Int, NothingFrom(highestId, log[session], n)
               PROVE  NothingFrom(highestId, log'[session], n)
    OBVIOUS
  <2>1. o.id < n
    BY <1>1, <1>3 DEF NothingFrom
  <2>2. \A i \in Ids : i # o.id => log'[session][i] = log[session][i]
    BY <1>1, <1>3
  <2> QED
    BY <1>1, <1>3, <2>1, <2>2, NothingKept
<1>5. /\ \A s \in Sessions, i \in Ids : s > session' => log'[s][i] = <<>>
      /\ session' = clientSession'
  BY <1>1, <1>3 DEF LogInv
<1>6. /\ NothingFrom(highestId', log'[session'], nextId')
      /\ slot' # None => NothingFrom(highestId', log'[session'], slot'.id)
  BY <1>4, Numbers DEF LogInv, Observation
<1>7. ASSUME NEW i \in 1..Len(c2s'), c2s'[i].type = "observation", c2s'[i].obs.session = session'
      PROVE  NothingFrom(highestId', log'[session'], c2s'[i].obs.id)
  <2>1. i + d \in 1..Len(c2s) /\ c2s'[i] = c2s[i + d]
    BY <1>2, <1>7
  <2>2. /\ NothingFrom(highestId, log[session], c2s'[i].obs.id)
        /\ c2s'[i].obs \in Observation
    BY <1>7, <2>1, Numbers DEF LogInv
  <2> QED
    BY <1>4, <2>2 DEF Observation
<1>8. pending' # None
        => Open(session', log'[session'], pending') /\ pending'.id = highestId'
  BY <1>1, <1>3 DEF LogInv, Open
<1>9. Inferring' => /\ Open(session', log'[session'], item') /\ item'.id <= highestId'
                    /\ pending' # None => item'.id # pending'.id
  BY <1>1, <1>3 DEF LogInv, Open
<1> QED
  BY <1>1, <1>5, <1>6, <1>7, <1>8, <1>9 DEF LogInv

\* An observation that is taken up is newer than all the server knows of.
LEMMA TakenUp ==
  ASSUME TypeOK, ResetInv, IdInv, FlowInv, LogInv, HandleMessage,
         c2s[1].type = "observation", c2s[1].obs.session = session
  PROVE  /\ session = clientSession /\ c2s[1].obs.id \in Ids /\ c2s[1].obs.id < nextId
         /\ slot # None => c2s[1].obs.id < slot.id
         /\ NothingFrom(highestId, log[session], c2s[1].obs.id)
         /\ log[session][c2s[1].obs.id] = <<>> /\ highestId < c2s[1].obs.id
         /\ \A i \in 1..Len(c2s') : c2s'[i].type # "observation"
<1>1. c2s # <<>> /\ c2s' = Tail(c2s) /\ c2s \in Seq(Message)
  BY DEF HandleMessage, TypeOK, NetTypeOK
<1>2. 1 \in 1..Len(c2s) /\ c2s[1].obs \in Observation
  BY <1>1, KeptTail, LenProperties, Numbers
<1>3. session = clientSession
  <2>1. c2s[1].obs.session <= clientSession
    BY <1>2 DEF IdInv
  <2>2. session \in {clientSession, clientSession + 1}
    BY DEF ResetInv
  <2> QED
    BY <2>1, <2>2, Numbers
<1>4. c2s[1].obs.id < nextId /\ (slot # None => c2s[1].obs.id < slot.id)
  BY <1>2, <1>3 DEF IdInv
<1>5. c2s[1].obs.id \in Ids /\ c2s[1].obs.id \in Nat
  BY <1>2, <1>4, Numbers, BoundsAssumption DEF IdInv, Ids, Observation
<1>6. NothingFrom(highestId, log[session], c2s[1].obs.id)
  BY <1>2 DEF LogInv
<1>7. log[session][c2s[1].obs.id] = <<>> /\ highestId < c2s[1].obs.id
  BY <1>5, <1>6 DEF NothingFrom
<1>8. AtMostOne(c2s, "observation")
  BY DEF FlowInv
<1>9. \A i \in 1..Len(c2s') : c2s'[i].type # "observation"
  BY <1>1, <1>8, AtMostOneTail
<1> QED
  BY <1>3, <1>4, <1>5, <1>6, <1>7, <1>9

\* Accepting an observation: what is said about it and the one it replaces.
LEMMA AcceptHistories ==
  ASSUME TypeOK, TypeOK', ResetInv, IdInv, FlowInv, LogInv, HandleMessage,
         c2s[1].type = "observation", c2s[1].obs.session = session, Accept(c2s[1].obs)
  PROVE  /\ log'[session][c2s[1].obs.id] = <<"ack">>
         /\ pending # None => /\ log'[session][pending.id] = <<"ack", "superseded">>
                              /\ pending.id \in Ids /\ pending.id # c2s[1].obs.id
         /\ \A s \in Sessions, i \in Ids :
              s # session \/ (i # c2s[1].obs.id /\ (pending # None => i # pending.id))
                => log'[s][i] = log[s][i]
<1> DEFINE o == c2s[1].obs
<1>1. /\ session = clientSession /\ o.id \in Ids /\ o.id < nextId
      /\ log[session][o.id] = <<>> /\ highestId < o.id
  BY TakenUp
<1>3. /\ o \in Observation /\ o.id \in Nat /\ o.session = session /\ session \in Sessions
      /\ session \in Nat /\ Sessions \subseteq Nat /\ highestId \in Int /\ nextId \in Nat
      /\ Ids \subseteq Nat
  <2>1. 1 \in 1..Len(c2s)
    BY MessageRead, LenProperties DEF TypeOK, NetTypeOK
  <2>2. o \in Observation
    BY <2>1, Numbers
  <2>3. o.id \in Nat
    BY <2>2 DEF Observation
  <2>4. Sessions \subseteq Nat /\ o.session = session
    BY DEF Sessions
  <2> HIDE DEF o
  <2> QED
    BY <1>1, <2>2, <2>3, <2>4, Numbers
<1>4. pending # None => /\ Open(session, log[session], pending) /\ pending.id = highestId
                        /\ pending.session = session /\ pending.id \in Ids
                        /\ log[session][pending.id] = <<"ack">> /\ pending.id # o.id
  BY <1>1, <1>3 DEF LogInv, Open
<1>5. /\ log'[session][o.id] = <<"ack">>
      /\ pending # None => log'[session][pending.id] = <<"ack", "superseded">>
      /\ \A s \in Sessions, i \in Ids :
           s # session \/ (i # o.id /\ (pending # None => i # pending.id))
             => log'[s][i] = log[s][i]
  <2> DEFINE acked == Logged(log, o, "ack")
  <2>1. /\ log \in [Sessions -> [Ids -> Seq(Statuses \cup {"ack"})]]
        /\ acked \in [Sessions -> [Ids -> Seq(Statuses \cup {"ack"})]]
    BY <1>3, LoggedType DEF TypeOK, LogTypeOK
  <2>2. /\ acked[session][o.id] = <<"ack">>
        /\ \A s \in Sessions, i \in Ids : s # session \/ i # o.id => acked[s][i] = log[s][i]
    <3>1. SaidAbout(log, acked, o, "ack")
      <4>1. o.session \in Sessions /\ o.id \in Ids
        BY <1>1, <1>3
      <4> QED
        BY <2>1, <4>1, LoggedAt
    <3>2. log[o.session][o.id] = <<>> /\ o.session = session
      BY <1>1, <1>3
    <3> HIDE DEF acked
    <3> QED
      BY <3>1, <3>2, Histories DEF SaidAbout
  <2>3. CASE pending = None
    BY <2>2, <2>3 DEF Accept
  <2>4. CASE pending # None
    <3>1. log' = Logged(acked, pending, "superseded")
      BY <2>4 DEF Accept
    <3>2. /\ log'[session][pending.id] = Append(acked[session][pending.id], "superseded")
          /\ \A s \in Sessions, i \in Ids :
               s # session \/ i # pending.id => log'[s][i] = acked[s][i]
      <4>1. pending.session \in Sessions /\ pending.id \in Ids /\ pending.session = session
        BY <1>3, <1>4, <2>4
      <4>2. SaidAbout(acked, Logged(acked, pending, "superseded"), pending, "superseded")
        <5> HIDE DEF acked
        <5> QED
          BY <2>1, <4>1, LoggedAt
      <4> HIDE DEF acked
      <4> QED
        BY <3>1, <4>1, <4>2 DEF SaidAbout
    <3>3. acked[session][pending.id] = <<"ack">>
      BY <1>3, <1>4, <2>2, <2>4
    <3>4. log'[session][pending.id] = <<"ack", "superseded">>
      BY <3>2, <3>3, Histories DEF Statuses
    <3>5. log'[session][o.id] = acked[session][o.id]
      BY <1>1, <1>3, <1>4, <2>4, <3>2
    <3>6. \A s \in Sessions, i \in Ids :
            s # session \/ (i # o.id /\ i # pending.id) => log'[s][i] = log[s][i]
      BY <2>2, <3>2
    <3> HIDE DEF acked
    <3> QED
      BY <2>2, <2>4, <3>4, <3>5, <3>6
  <2> QED
    BY <2>3, <2>4
<1> QED
  BY <1>4, <1>5

LEMMA AcceptHistory ==
  ASSUME TypeOK, TypeOK', ResetInv, IdInv, FlowInv, LogInv, HandleMessage,
         c2s[1].type = "observation", c2s[1].obs.session = session, Accept(c2s[1].obs)
  PROVE  \A s \in Sessions, i \in Ids :
           \/ log'[s][i] = log[s][i]
           \/ log'[s][i] \in {<<"ack">>, <<"ack", "superseded">>}
  BY AcceptHistories

\* Accepting an observation acknowledges it and concludes the replaced one.
LEMMA LogAccept ==
  ASSUME TypeOK, TypeOK', ResetInv, IdInv, FlowInv, LogInv, HandleMessage,
         c2s[1].type = "observation", c2s[1].obs.session = session, Accept(c2s[1].obs)
  PROVE  LogInv' /\ LogAdvances
<1> DEFINE o == c2s[1].obs
<1>1. /\ session = clientSession /\ o.id \in Ids /\ o.id < nextId
      /\ slot # None => o.id < slot.id
      /\ log[session][o.id] = <<>> /\ highestId < o.id
      /\ \A i \in 1..Len(c2s') : c2s'[i].type # "observation"
      /\ NothingFrom(highestId, log[session], o.id)
  BY TakenUp
<1>2. /\ UNCHANGED <<session, clientSession, nextId, slot, worker, item>>
      /\ highestId' = o.id /\ pending' = o /\ (Inferring' => Inferring)
  <2>1. UNCHANGED <<slotVars, workerVars, sessionClosed, session, generation>>
    BY Numbers DEF HandleMessage, SubmitHandler, clientVars
  <2> QED
    BY <2>1 DEF Accept, slotVars, workerVars, Inferring, Outdated
<1>3. /\ o \in Observation /\ o.id \in Nat /\ o.session = session /\ session \in Sessions
      /\ session \in Nat /\ Sessions \subseteq Nat /\ highestId \in Int /\ nextId \in Nat
      /\ Ids \subseteq Nat
  <2>1. 1 \in 1..Len(c2s)
    BY MessageRead, LenProperties DEF TypeOK, NetTypeOK
  <2>2. o \in Observation
    BY <2>1, Numbers
  <2>3. o.id \in Nat
    BY <2>2 DEF Observation
  <2>4. Sessions \subseteq Nat /\ o.session = session
    BY DEF Sessions
  <2> HIDE DEF o
  <2> QED
    BY <1>1, <2>2, <2>3, <2>4, Numbers
<1>4. pending # None => /\ Open(session, log[session], pending) /\ pending.id = highestId
                        /\ pending.session = session /\ pending.id \in Ids
                        /\ log[session][pending.id] = <<"ack">> /\ pending.id # o.id
  BY <1>1, <1>3 DEF LogInv, Open
<1>5. /\ log'[session][o.id] = <<"ack">>
      /\ pending # None => log'[session][pending.id] = <<"ack", "superseded">>
      /\ \A s \in Sessions, i \in Ids :
           s # session \/ (i # o.id /\ (pending # None => i # pending.id))
             => log'[s][i] = log[s][i]
  BY AcceptHistories
<1>6. LogAdvances
  <2>1. "superseded" \in Statuses \ {"duplicate"}
    BY DEF Statuses
  <2> QED
    BY <1>1, <1>3, <1>4, <1>5, <2>1 DEF LogAdvances, Advances
<1>7. \A n \in Int : o.id < n /\ NothingFrom(highestId, log[session], n)
        => NothingFrom(highestId', log'[session], n)
  BY <1>1, <1>2, <1>3, <1>4, <1>5 DEF NothingFrom
<1>8. /\ \A s \in Sessions, i \in Ids : s > session' => log'[s][i] = <<>>
      /\ session' = clientSession'
  BY <1>1, <1>2, <1>3, <1>5 DEF LogInv
<1>9. /\ NothingFrom(highestId', log'[session'], nextId')
      /\ slot' # None => NothingFrom(highestId', log'[session'], slot'.id)
  BY <1>1, <1>2, <1>3, <1>7, Numbers DEF LogInv, Observation
<1>10. pending' # None
         => Open(session', log'[session'], pending') /\ pending'.id = highestId'
  BY <1>1, <1>2, <1>3, <1>5 DEF Open
<1>11. Inferring' => /\ Open(session', log'[session'], item') /\ item'.id <= highestId'
                     /\ pending' # None => item'.id # pending'.id
  <2>1. Inferring => /\ Open(session, log[session], item) /\ item.id <= highestId
                     /\ pending # None => item.id # pending.id
    BY DEF LogInv
  <2>2. ASSUME Inferring
        PROVE  /\ log'[session][item.id] = <<"ack">> /\ item.id # o.id
               /\ item.id <= highestId'
    <3>1. item.id \in Ids /\ log[session][item.id] = <<"ack">> /\ item.id <= highestId
      BY <2>1, <2>2 DEF Open
    <3>2. item.id \in Nat /\ highestId \in Int /\ o.id \in Nat /\ highestId < o.id
      BY <1>1, <1>3, <3>1
    <3>3. item.id < o.id /\ item.id # o.id /\ item.id <= highestId'
      BY <1>2, <3>1, <3>2
    <3>4. pending # None => item.id # pending.id
      BY <2>1, <2>2
    <3>5. log'[session][item.id] = log[session][item.id]
      BY <1>3, <1>5, <3>1, <3>3, <3>4
    <3> QED
      BY <3>1, <3>3, <3>5
  <2> QED
    BY <1>2, <2>1, <2>2 DEF Open
<1> QED
  BY <1>1, <1>6, <1>8, <1>9, <1>10, <1>11 DEF LogInv

\* Refusing an observation as a repetition is the first thing said about it.
LEMMA LogDuplicate ==
  ASSUME TypeOK, TypeOK', ResetInv, IdInv, FlowInv, LogInv, HandleMessage,
         c2s[1].type = "observation", c2s[1].obs.session = session,
         log' = Logged(log, c2s[1].obs, "duplicate"),
         UNCHANGED <<session, generation, highestId, pending>>
  PROVE  LogInv' /\ LogAdvances
<1> DEFINE o == c2s[1].obs
<1>1. /\ session = clientSession /\ o.id \in Ids /\ o.id < nextId
      /\ slot # None => o.id < slot.id
      /\ log[session][o.id] = <<>> /\ highestId < o.id
      /\ \A i \in 1..Len(c2s') : c2s'[i].type # "observation"
      /\ NothingFrom(highestId, log[session], o.id)
  BY TakenUp
<1>2. /\ UNCHANGED <<session, clientSession, nextId, slot, worker, item, highestId, pending>>
      /\ Inferring' => Inferring
  BY DEF HandleMessage, clientVars, slotVars, workerVars, Inferring, Outdated
<1>3. /\ o.session = session /\ session \in Sessions /\ session \in Nat
      /\ Sessions \subseteq Nat /\ highestId \in Int /\ nextId \in Nat /\ Ids \subseteq Nat
  BY Numbers, BoundsAssumption DEF Sessions
<1>4. SaidAbout(log, log', o, "duplicate")
  <2>1. o.session \in Sessions /\ o.id \in Ids
    BY <1>1, <1>3
  <2> QED
    BY <2>1, LoggedAt DEF TypeOK, LogTypeOK
<1>5. /\ log'[session][o.id] = <<"duplicate">>
      /\ \A s \in Sessions, i \in Ids : s # session \/ i # o.id => log'[s][i] = log[s][i]
  BY <1>1, <1>3, <1>4, Histories DEF SaidAbout
<1>6. LogAdvances
  BY <1>1, <1>5 DEF LogAdvances, Advances
<1>7. \A n \in Int : o.id < n /\ NothingFrom(highestId, log[session], n)
        => NothingFrom(highestId, log'[session], n)
  BY <1>1, <1>3, <1>5 DEF NothingFrom
<1>8. /\ \A s \in Sessions, i \in Ids : s > session => log'[s][i] = <<>>
      /\ NothingFrom(highestId, log'[session], nextId)
      /\ slot # None => NothingFrom(highestId, log'[session], slot.id)
  <2>1. \A s \in Sessions, i \in Ids : s > session => log'[s][i] = <<>>
    <3>1. \A s \in Sessions, i \in Ids : s > session => s # session /\ log[s][i] = <<>>
      BY <1>3 DEF LogInv
    <3> QED
      BY <1>5, <3>1
  <2>2. NothingFrom(highestId, log'[session], nextId)
    <3>1. nextId \in Int /\ NothingFrom(highestId, log[session], nextId)
      BY <1>1, <1>3 DEF LogInv
    <3> QED
      BY <1>1, <1>7, <3>1
  <2>3. slot # None => NothingFrom(highestId, log'[session], slot.id)
    <3>1. slot # None => slot.id \in Int
      BY Numbers DEF Observation
    <3>2. slot # None => NothingFrom(highestId, log[session], slot.id)
      BY <1>1 DEF LogInv
    <3> QED
      BY <1>1, <1>7, <3>1, <3>2
  <2> QED
    BY <2>1, <2>2, <2>3
<1>9. \A i \in Ids : i <= highestId => log'[session][i] = log[session][i]
  <2>1. \A i \in Ids : i <= highestId => i # o.id
    BY <1>1, <1>3
  <2> QED
    BY <1>3, <1>5, <2>1
<1>10. pending # None => Open(session, log'[session], pending)
  <2>1. pending # None => Open(session, log[session], pending) /\ pending.id = highestId
    BY DEF LogInv
  <2> QED
    BY <1>3, <1>9, <2>1 DEF Open
<1>11. Inferring => Open(session, log'[session], item)
  <2>1. Inferring => Open(session, log[session], item) /\ item.id <= highestId
    BY DEF LogInv
  <2> QED
    BY <1>9, <2>1 DEF Open
<1> QED
  BY <1>1, <1>2, <1>6, <1>8, <1>10, <1>11 DEF LogInv

LEMMA LogHandle ==
  ASSUME TypeOK, TypeOK', ResetInv, IdInv, FlowInv, BarrierInv, LogInv, HandleMessage
  PROVE  LogInv' /\ LogAdvances
<1>1. NoneAdded(c2s, c2s', "observation")
  BY MessageRead DEF NoneAdded
<1>2. UNCHANGED <<clientSession, nextId, slot, workerVars, sessionClosed>>
  BY DEF HandleMessage, clientVars, slotVars
<1>3. CASE c2s[1].type = "observation" /\ SubmitHandler(c2s[1].obs) /\ c2s[1].obs \in Observation
  <2> DEFINE o == c2s[1].obs
  <2>1. CASE Accept(o) /\ o.session = session
    BY <1>3, <2>1, LogAccept
  <2>2. CASE /\ UNCHANGED <<highestId, pendingVars, session, generation>>
             /\ log' = log \/ (o.session = session /\ log' = Logged(log, o, "duplicate"))
    <3>1. UNCHANGED <<highestId, pending, session, generation>>
      BY <2>2 DEF pendingVars
    <3>2. CASE log' = log
      <4>1. Inferring' => Inferring /\ item' = item
        BY <1>2, <3>1 DEF workerVars, Inferring, Outdated
      <4> QED
        BY <1>1, <1>2, <3>1, <3>2, <4>1, LogQuiet, SameLog DEF workerVars
    <3>3. CASE o.session = session /\ log' = Logged(log, o, "duplicate")
      BY <1>3, <3>1, <3>3, LogDuplicate
    <3> QED
      BY <2>2, <3>2, <3>3
  <2> QED
    BY <1>3, <2>1, <2>2 DEF SubmitHandler
<1>4. CASE c2s[1].type = "reset" /\ ResetHandler(c2s[1].session)
  <2>1. CASE c2s[1].session # session
    <3>1. UNCHANGED <<session, generation, highestId, pending, log>>
      BY <1>4, <2>1 DEF ResetHandler, sessionVars, pendingVars
    <3>2. Inferring' => Inferring /\ item' = item
      BY <1>2, <3>1 DEF workerVars, Inferring, Outdated
    <3> QED
      BY <1>1, <1>2, <3>1, <3>2, LogQuiet, SameLog DEF workerVars
  <2>2. CASE c2s[1].session = session
    <3>1. /\ generation' = generation + 1 /\ pending' = None
          /\ UNCHANGED <<session, highestId>>
          /\ IF pending = None THEN log' = log ELSE log' = Logged(log, pending, "superseded")
      BY <1>4, <2>2 DEF ResetHandler, EmptyPending
    <3>2. ~Inferring'
      BY <1>2, <3>1, Numbers DEF workerVars, Inferring, Outdated, BarrierInv
    <3>3. CASE pending = None
      BY <1>1, <1>2, <3>1, <3>2, <3>3, LogQuiet, SameLog DEF workerVars
    <3>4. CASE pending # None
      <4>1. /\ Open(session, log[session], pending) /\ pending.id = highestId
            /\ session = clientSession /\ highestId <= highestId
        BY <3>4, Numbers DEF LogInv
      <4>2. "superseded" \in Statuses \ {"duplicate"}
        BY DEF Statuses
      <4> QED
        BY <1>1, <1>2, <3>1, <3>2, <3>4, <4>1, <4>2, LogResult
    <3> QED
      BY <3>3, <3>4
  <2> QED
    BY <2>1, <2>2
<1> QED
  BY <1>3, <1>4, MessageRead

LEMMA LogStep ==
  TypeOK /\ TypeOK' /\ FlowInv /\ ResetInv /\ ResetInv' /\ IdInv /\ BarrierInv /\ LogInv
    /\ [Next]_vars => LogInv' /\ LogAdvances
<1> SUFFICES ASSUME TypeOK, TypeOK', FlowInv, ResetInv, ResetInv', IdInv, BarrierInv, LogInv,
                    [Next]_vars
             PROVE  LogInv' /\ LogAdvances
  OBVIOUS
<1>1. /\ c2s \in Seq(Message) /\ Kept(c2s, c2s) /\ Kept(c2s, <<>>) /\ highestId \in Int
      /\ session \in Nat /\ clientSession \in Nat /\ generation \in Nat
      /\ session \in Sessions
  BY Numbers, KeptSame, KeptNothing DEF TypeOK, NetTypeOK
<1>2. CASE Caller \/ CallerResumes \/ Sender \/ Receiver \/ Drop \/ UNCHANGED vars
  BY <1>2, LogClient, SameLog
<1>3. CASE HandleMessage
  BY <1>3, LogHandle
<1>4. CASE ResetDone
  <2>1. /\ session' = session + 1 /\ highestId' = -1 /\ clientSession' = clientSession
        /\ UNCHANGED <<c2s, pending, worker, item, log>> /\ handler = "resetPolicy"
    BY <1>4 DEF ResetDone, clientVars, slotVars, pendingVars, workerVars
  <2>2. session = clientSession /\ pending = None /\ worker # "infer"
    BY <2>1 DEF ResetInv, InReset, Unanswered, BarrierInv
  <2>3. session' \in Sessions /\ \A i \in Ids : log[session'][i] = <<>>
    BY <1>1, <2>1 DEF ResetInv, LogInv
  <2>4. NothingFrom(highestId', log'[session'], 0)
    BY <2>1, <2>3 DEF NothingFrom
  <2>5. \A s \in Sessions, i \in Ids : s > session' => log'[s][i] = <<>>
    BY <1>1, <2>1, BoundsAssumption DEF LogInv, Sessions
  <2>6. \A i \in 1..Len(c2s) : c2s[i].type = "observation" => c2s[i].obs.session # session'
    BY <1>1, <2>1, <2>2, Numbers DEF IdInv, Observation
  <2> QED
    BY <1>1, <2>1, <2>2, <2>4, <2>5, <2>6, SameLog DEF LogInv, Inferring
<1>5. CASE ResetPolicy \/ ResetFails \/ SessionClose \/ HandlerDone \/ WorkerStop
  <2>1. /\ UNCHANGED <<clientSession, nextId, slot, session, highestId, item, log>>
        /\ worker' \in {worker, "done"}
        /\ pending' \in {pending, None} /\ c2s' \in {c2s, <<>>}
    BY <1>5 DEF ResetPolicy, ResetFails, SessionClose, HandlerDone, WorkerStop, clientVars,
         slotVars, sessionVars, pendingVars, workerVars, netVars
  <2>2. Inferring' => Inferring
    BY <1>5 DEF ResetPolicy, ResetFails, SessionClose, HandlerDone, WorkerStop, sessionVars,
         workerVars, Inferring, Outdated
  <2> QED
    BY <1>1, <2>1, <2>2, LogQuiet, SameLog DEF NoneAdded
<1>6. CASE WorkerTake
  <2>1. /\ UNCHANGED <<clientSession, nextId, slot, session, highestId, c2s, generation,
                        sessionClosed>>
        /\ pending' = None /\ worker = "wait" /\ ~sessionClosed
    BY <1>6 DEF WorkerTake, EmptyPending, clientVars, slotVars, sessionVars
  <2>2. CASE UNCHANGED <<log, workerVars>>
    BY <1>1, <2>1, <2>2, LogQuiet, SameLog DEF NoneAdded, workerVars, Inferring
  <2>3. CASE pending # None /\ UNCHANGED workerVars /\ log' = Logged(log, pending, "similar")
    <3>1. /\ Open(session, log[session], pending) /\ pending.id = highestId
          /\ session = clientSession /\ highestId <= highestId
      BY <1>1, <2>3 DEF LogInv
    <3>2. "similar" \in Statuses \ {"duplicate"} /\ ~Inferring'
      BY <2>1, <2>3 DEF Statuses, Inferring, workerVars
    <3> QED
      BY <1>1, <2>1, <2>3, <3>1, <3>2, LogResult DEF NoneAdded
  <2>4. CASE /\ pending # None /\ log' = log
             /\ worker' = "infer" /\ item' = pending /\ itemGeneration' = generation
    <3>1. /\ Open(session, log[session], pending) /\ pending.id = highestId
          /\ session = clientSession /\ highestId <= highestId
      BY <1>1, <2>4 DEF LogInv
    <3> QED
      BY <2>1, <2>4, <3>1, SameLog DEF LogInv
  <2> QED
    BY <1>6, <2>2, <2>3, <2>4, TakeSends
<1>7. ASSUME NEW outcome \in PolicyOutcomes, WorkerFinish(outcome)
      PROVE  LogInv' /\ LogAdvances
  <2>1. /\ UNCHANGED <<clientSession, nextId, slot, session, highestId, c2s, pending>>
        /\ worker = "infer" /\ worker' = "wait"
    BY <1>7 DEF WorkerFinish, clientVars, slotVars, sessionVars
  <2>2. ~Inferring'
    BY <2>1 DEF Inferring
  <2>3. CASE log' = log
    BY <1>1, <2>1, <2>2, <2>3, LogQuiet, SameLog DEF NoneAdded
  <2>4. CASE /\ ~Outdated
             /\ log' = Logged(log, item, IF outcome = "ok" THEN "actions" ELSE "error")
    <3>1. /\ Open(session, log[session], item) /\ item.id <= highestId
          /\ session = clientSession /\ (pending' # None => pending'.id # item.id)
      BY <2>1, <2>4 DEF LogInv, Inferring
    <3>2. (IF outcome = "ok" THEN "actions" ELSE "error") \in Statuses \ {"duplicate"}
      BY DEF Statuses
    <3> QED
      BY <1>1, <2>1, <2>2, <2>4, <3>1, <3>2, LogResult DEF NoneAdded
  <2> QED
    BY <1>7, <2>3, <2>4, FinishSends
<1> QED
  BY <1>2, <1>3, <1>4, <1>5, <1>6, <1>7 DEF Next, Handler, Worker

\* One answer per observation, in the words of the run.
LEMMA HistoriesOnly ==
  ASSUME TypeOK, AckThenOneTerminal, LogAdvances
  PROVE  AckThenOneTerminal'
  BY DEF AckThenOneTerminal, LogAdvances, Advances

-----------------------------------------------------------------------------
(* The barrier on the wire: nothing old comes behind the answer of a reset. *)

Quiet(q) == \A i \in 1..Len(q) : q[i].type = "error"

\* While the sessions of the two sides agree, answers are about that session;
\* behind the announcement of a new one only errors are on the way.
FrameInv ==
  /\ session = clientSession
       => \A i \in 1..Len(s2c) : s2c[i].type \in {"ack", "result"} => s2c[i].session = session
  /\ \A i, j \in 1..Len(s2c) : i < j /\ s2c[i].type = "reset" => s2c[j].type = "error"
  /\ rpcWaiter = "set" => Quiet(s2c)

LEMMA FrameInit == Init => FrameInv
  BY DEF Init, FrameInv

\* A step that at most loses frames from one end.
LEMMA FrameKept ==
  ASSUME TypeOK, TypeOK', FrameInv, UNCHANGED <<session, clientSession>>,
         Kept(s2c, s2c'), rpcWaiter' = "set" => rpcWaiter = "set"
  PROVE  FrameInv'
<1>1. Len(s2c) \in Nat /\ Len(s2c') \in Nat
  BY LenProperties DEF TypeOK, NetTypeOK
<1>2. PICK d \in {0, 1} : Len(s2c') + d <= Len(s2c) /\ \A i \in 1..Len(s2c') : s2c'[i] = s2c[i + d]
  BY DEF Kept
<1>3. \A i \in 1..Len(s2c') : i + d \in 1..Len(s2c) /\ s2c'[i] = s2c[i + d]
  BY <1>1, <1>2
<1>4. ASSUME NEW i \in 1..Len(s2c'), NEW j \in 1..Len(s2c'), i < j, s2c'[i].type = "reset"
      PROVE  s2c'[j].type = "error"
  <2>1. i + d < j + d
    BY <1>1, <1>4
  <2> QED
    BY <1>3, <1>4, <2>1 DEF FrameInv
<1>5. rpcWaiter' = "set" => Quiet(s2c')
  BY <1>3 DEF FrameInv, Quiet
<1>6. session' = clientSession' => \A i \in 1..Len(s2c') :
        s2c'[i].type \in {"ack", "result"} => s2c'[i].session = session'
  BY <1>3 DEF FrameInv
<1> QED
  BY <1>4, <1>5, <1>6 DEF FrameInv

\* A step of the server that adds an error frame.
LEMMA FrameError ==
  ASSUME TypeOK, FrameInv, UNCHANGED <<session, clientSession, rpcWaiter>>,
         NEW f, f.type = "error", Grown(s2c, s2c', f)
  PROVE  FrameInv'
<1>1. s2c \in Seq(Frame) /\ Len(s2c) \in Nat
  BY LenProperties DEF TypeOK, NetTypeOK
<1>2. /\ Len(s2c') = Len(s2c) + 1
      /\ \A i \in 1..Len(s2c) : s2c'[i] = s2c[i]
  BY DEF Grown
<1>3. \A i \in 1..Len(s2c') :
        \/ i \in 1..Len(s2c) /\ s2c'[i] = s2c[i]
        \/ i = Len(s2c) + 1 /\ s2c'[i].type = "error"
  BY <1>1, GrownAt
<1>4. ASSUME NEW i \in 1..Len(s2c'), NEW j \in 1..Len(s2c'), i < j, s2c'[i].type = "reset"
      PROVE  s2c'[j].type = "error"
  BY <1>1, <1>2, <1>3, <1>4 DEF FrameInv
<1>5. rpcWaiter' = "set" => Quiet(s2c')
  BY <1>3 DEF FrameInv, Quiet
<1>6. session' = clientSession' => \A i \in 1..Len(s2c') :
        s2c'[i].type \in {"ack", "result"} => s2c'[i].session = session'
  BY <1>3 DEF FrameInv
<1> QED
  BY <1>4, <1>5, <1>6 DEF FrameInv

\* What the server adds to the outgoing queue is about its session.
Speaks(q, r) ==
  \A i \in 1..Len(r) :
    \/ i \in 1..Len(q) /\ r[i] = q[i]
    \/ r[i].type \in {"ack", "result"} /\ r[i].session = session

\* It answers about observations only while the client is in the same session.
LEMMA FrameSpoken ==
  ASSUME ResetInv, FrameInv, UNCHANGED <<session, clientSession, rpcWaiter>>,
         session \in Nat, session = clientSession, Speaks(s2c, s2c')
  PROVE  FrameInv'
<1>1. /\ rpcWaiter # "set"
      /\ \A i \in 1..Len(s2c) : s2c[i].type # "reset"
  BY DEF ResetInv, Announced
<1>2. \A i \in 1..Len(s2c') : s2c'[i].type # "reset"
  BY <1>1 DEF Speaks
<1>3. \A i \in 1..Len(s2c') : s2c'[i].type \in {"ack", "result"} => s2c'[i].session = session
  BY DEF Speaks, FrameInv
<1> QED
  BY <1>1, <1>2, <1>3 DEF FrameInv

LEMMA SpeaksOne ==
  ASSUME TypeOK, s2c' = s2c \/ \E f : /\ f.type \in {"ack", "result"} /\ f.session = session
                                      /\ Grown(s2c, s2c', f)
  PROVE  Speaks(s2c, s2c')
<1>1. s2c \in Seq(Frame)
  BY DEF TypeOK, NetTypeOK
<1>2. ASSUME NEW f, f.type \in {"ack", "result"}, f.session = session, Grown(s2c, s2c', f)
      PROVE  Speaks(s2c, s2c')
  <2>1. \A i \in 1..Len(s2c') :
          (i \in 1..Len(s2c) /\ s2c'[i] = s2c[i]) \/ (i = Len(s2c) + 1 /\ s2c'[i] = f)
    BY <1>1, <1>2, GrownAt
  <2> QED
    BY <1>2, <2>1 DEF Speaks
<1>3. CASE s2c' = s2c
  BY <1>3 DEF Speaks
<1> QED
  BY <1>2, <1>3

LEMMA SpeaksTwo ==
  ASSUME TypeOK, NEW f, NEW g, f.type = "ack", f.session = session,
         g.type = "result", g.session = session, GrownTwice(s2c, s2c', f, g)
  PROVE  Speaks(s2c, s2c')
<1>1. s2c \in Seq(Frame)
  BY DEF TypeOK, NetTypeOK
<1>2. \A i \in 1..Len(s2c') :
        \/ i \in 1..Len(s2c) /\ s2c'[i] = s2c[i]
        \/ i = Len(s2c) + 1 /\ s2c'[i] = f
        \/ i = Len(s2c) + 2 /\ s2c'[i] = g
  BY <1>1, GrownTwiceAt
<1> QED
  BY <1>2 DEF Speaks

LEMMA FrameClient ==
  ASSUME TypeOK, TypeOK', ResetInv, FrameInv,
         Caller \/ CallerResumes \/ Sender \/ ReceiverEnds \/ Drop \/ UNCHANGED vars
  PROVE  FrameInv'
<1>1. s2c \in Seq(Frame) /\ Kept(s2c, s2c)
  BY KeptSame DEF TypeOK, NetTypeOK
<1>2. UNCHANGED session
  BY DEF Caller, Submit, PollEvent, ResetCall, Close, CallerResumes, ResetReturn,
     ResetRaise, CloseSocket, CloseReturn, Sender, SenderTake, SenderStop,
     SenderResume, ReceiverEnds, Drop, vars, serverVars, sessionVars
<1>3. CASE ResetReturn
  <2>1. rpcWaiter = "set" /\ rpcWaiter' = "none" /\ s2c' = s2c
    BY <1>3 DEF ResetReturn, netVars
  <2>2. Quiet(s2c)
    BY <2>1 DEF FrameInv
  <2> QED
    BY <2>1, <2>2 DEF FrameInv, Quiet
<1>4. CASE UNCHANGED clientSession
  <2>1. rpcWaiter' = "set" => rpcWaiter = "set"
    BY ReceiverEndsSends DEF Caller, Submit, PollEvent, ResetCall, Close, CallerResumes,
       ResetReturn, ResetRaise, CloseSocket, CloseReturn, Sender, SenderTake, SenderStop,
       SenderResume, FailWaiters, Drop, vars, clientVars, rpcVars
  <2>2. s2c' = s2c \/ Drop
    BY CallerSends, TakeSlotSends, ReceiverEndsSends DEF Sender, SenderStop, SenderResume,
       vars, netVars
  <2> QED
    BY <1>1, <1>2, <1>4, <2>1, <2>2, FrameKept, DropSends
<1>5. ResetReturn \/ UNCHANGED clientSession
  BY ReceiverEndsSends DEF Caller, Submit, PollEvent, ResetCall, Close, CallerResumes,
     ResetRaise, CloseSocket, CloseReturn, Sender, SenderTake, SenderStop, SenderResume,
     Drop, vars, clientVars, slotVars
<1> QED
  BY <1>3, <1>4, <1>5

LEMMA FrameReceiver ==
  ASSUME TypeOK, TypeOK', ResetInv, FrameInv, ReceiverFrame \/ ReceiverLastFrame
  PROVE  FrameInv'
<1>1. /\ s2c \in Seq(Frame) /\ Len(s2c) \in Nat /\ Len(s2c') \in Nat
  BY LenProperties DEF TypeOK, NetTypeOK
<1>2. /\ s2c # <<>> /\ s2c' = Tail(s2c) /\ UNCHANGED <<session, clientSession>>
  BY ReceiverReads DEF slotVars, serverVars, sessionVars
<1>3. /\ Kept(s2c, s2c') /\ Len(s2c) >= 1 /\ Len(s2c') = Len(s2c) - 1
      /\ \A i \in 1..Len(s2c') : s2c'[i] = s2c[i + 1]
  BY <1>1, <1>2, KeptTail
<1>4. CASE rpcWaiter' = "set" => rpcWaiter = "set"
  BY <1>2, <1>3, <1>4, FrameKept
<1>5. CASE s2c[1].type = "reset"
  <2>1. Announced
    BY <1>1, <1>3, <1>5 DEF ResetInv
  <2>2. session' # clientSession'
    BY <1>2, <2>1 DEF Announced, TypeOK, ClientTypeOK
  <2>3. \A i \in 1..Len(s2c') : s2c'[i].type = "error"
    <3>1. \A i \in 1..Len(s2c') : i + 1 \in 1..Len(s2c) /\ 1 < i + 1 /\ 1 \in 1..Len(s2c)
      BY <1>1, <1>3
    <3> QED
      BY <1>3, <1>5, <3>1 DEF FrameInv
  <2> QED
    BY <2>2, <2>3 DEF FrameInv, Quiet
<1> QED
  BY <1>4, <1>5, ReceiverReads DEF FailWaiters, rpcVars

LEMMA FrameServer ==
  ASSUME TypeOK, TypeOK', ResetInv, IdInv, FlowInv, BarrierInv, LogInv, FrameInv,
         Handler \/ Worker
  PROVE  FrameInv'
<1>1. /\ s2c \in Seq(Frame) /\ Len(s2c) \in Nat /\ Kept(s2c, s2c) /\ session \in Nat
      /\ clientSession \in Nat
  BY KeptSame, LenProperties DEF TypeOK, NetTypeOK, SessionTypeOK, ClientTypeOK
<1>2. UNCHANGED <<rpcWaiter, clientSession>>
  BY DEF Handler, HandleMessage, ResetPolicy, ResetDone, ResetFails, SessionClose, HandlerDone,
     Worker, WorkerTake, WorkerFinish, WorkerStop, clientVars, slotVars, rpcVars
<1>3. pending # None => session = clientSession /\ pending.session = session
  BY DEF LogInv, Open
<1>4. Inferring => session = clientSession /\ item.session = session
  BY DEF LogInv, Open, Inferring
<1>5. CASE HandleMessage
  <2>1. CASE c2s[1].type = "observation" /\ SubmitHandler(c2s[1].obs) /\ c2s[1].obs \in Observation
    <3> DEFINE o == c2s[1].obs
    <3>1. session' = session /\ (o.session = session => session = clientSession)
      BY <1>5, <2>1, TakenUp DEF SubmitHandler
    <3>2. CASE Accept(o) /\ o.session = session
      <4>1. Speaks(s2c, s2c')
        <5>1. s2c' = s2c \/ (\E f : /\ f.type \in {"ack", "result"} /\ f.session = session
                                    /\ Grown(s2c, s2c', f))
                \/ \E f, g : /\ f.type = "ack" /\ f.session = session
                             /\ g.type = "result" /\ g.session = session
                             /\ GrownTwice(s2c, s2c', f, g)
          BY <1>3, <2>1, <3>2, AcceptSends
        <5> QED
          BY <5>1, SpeaksOne, SpeaksTwo
      <4> QED
        BY <1>1, <1>2, <3>1, <3>2, <4>1, FrameSpoken
    <3>3. CASE Send(<<ErrorFrame>>)
      BY <1>1, <1>2, <3>1, <3>3, SentError, FrameError, FrameKept
    <3>4. CASE o.session = session /\ Send(<<FrameOf("result", o, "duplicate")>>)
      <4>1. "duplicate" \in Statuses \cup {"accepted"} /\ "result" \in {"ack", "result"}
        BY DEF Statuses
      <4>2. s2c' = s2c \/ \E f : f.type = "result" /\ f.session = session /\ Grown(s2c, s2c', f)
        BY <2>1, <3>4, <4>1, SentAbout
      <4>3. Speaks(s2c, s2c')
        BY <4>2, SpeaksOne
      <4> QED
        BY <1>1, <1>2, <3>1, <3>4, <4>3, FrameSpoken
    <3> QED
      BY <2>1, <3>2, <3>3, <3>4 DEF SubmitHandler
  <2>2. CASE c2s[1].type = "reset" /\ ResetHandler(c2s[1].session)
    <3>1. session' = session
      BY <2>2 DEF ResetHandler, sessionVars
    <3>2. CASE s2c' = s2c
      BY <1>1, <1>2, <3>1, <3>2, FrameKept
    <3>3. CASE \E f : f.type = "error" /\ Grown(s2c, s2c', f)
      BY <1>2, <3>1, <3>3, FrameError
    <3>4. CASE pending # None /\ \E f : f.type = "result" /\ f.session = pending.session
                                        /\ Grown(s2c, s2c', f)
      <4>1. Speaks(s2c, s2c')
        BY <1>3, <3>4, SpeaksOne
      <4> QED
        BY <1>1, <1>2, <1>3, <3>1, <3>4, <4>1, FrameSpoken
    <3> QED
      BY <2>2, <3>2, <3>3, <3>4, ResetSends
  <2> QED
    BY <1>5, <2>1, <2>2, MessageRead
<1>6. CASE ResetDone
  <2>1. InReset /\ session' = session + 1
    BY <1>6 DEF ResetDone, InReset
  <2>2. /\ session' # clientSession' /\ rpcWaiter # "set"
        /\ \A i \in 1..Len(s2c) : s2c[i].type # "reset"
    BY <1>1, <1>2, <2>1 DEF ResetInv, Unanswered, Announced
  <2>3. \A i \in 1..Len(s2c') : (i \in 1..Len(s2c) /\ s2c'[i] = s2c[i]) \/ i = Len(s2c')
    <3>1. CASE s2c' = s2c
      BY <3>1
    <3>2. ASSUME NEW f, Grown(s2c, s2c', f)
          PROVE  \A i \in 1..Len(s2c') : (i \in 1..Len(s2c) /\ s2c'[i] = s2c[i]) \/ i = Len(s2c')
      <4>1. \A i \in 1..Len(s2c') :
              (i \in 1..Len(s2c) /\ s2c'[i] = s2c[i]) \/ (i = Len(s2c) + 1 /\ s2c'[i] = f)
        BY <1>1, <3>2, GrownAt
      <4> QED
        BY <3>2, <4>1 DEF Grown
    <3> QED
      BY <1>6, <3>1, <3>2, AnswerSends
  <2>4. ASSUME NEW i \in 1..Len(s2c'), NEW j \in 1..Len(s2c'), i < j, s2c'[i].type = "reset"
        PROVE  FALSE
    <3>1. Len(s2c') \in Nat
      BY LenProperties DEF TypeOK, NetTypeOK
    <3> QED
      BY <2>2, <2>3, <2>4, <3>1
  <2> QED
    BY <1>2, <2>2, <2>4 DEF FrameInv
<1>7. CASE ResetPolicy \/ SessionClose \/ HandlerDone \/ WorkerStop
  <2>1. s2c' = s2c /\ session' = session
    BY <1>7 DEF ResetPolicy, SessionClose, HandlerDone, WorkerStop, netVars, sessionVars
  <2> QED
    BY <1>1, <1>2, <2>1, FrameKept
<1>8. CASE ResetFails
  <2>1. session' = session /\ Send(<<ErrorFrame>>)
    BY <1>8 DEF ResetFails, sessionVars
  <2> QED
    BY <1>1, <1>2, <2>1, SentError, FrameError, FrameKept
<1>9. CASE WorkerTake
  <2>1. session' = session
    BY <1>9 DEF WorkerTake, sessionVars
  <2>2. CASE s2c' = s2c
    BY <1>1, <1>2, <2>1, <2>2, FrameKept
  <2>3. CASE pending # None /\ \E f : f.type = "result" /\ f.session = pending.session
                                      /\ Grown(s2c, s2c', f)
    <3>1. Speaks(s2c, s2c')
      BY <1>3, <2>3, SpeaksOne
    <3> QED
      BY <1>1, <1>2, <1>3, <2>1, <2>3, <3>1, FrameSpoken
  <2> QED
    BY <1>9, <2>2, <2>3, TakeSends
<1>10. ASSUME NEW outcome \in PolicyOutcomes, WorkerFinish(outcome)
       PROVE  FrameInv'
  <2>1. session' = session /\ worker = "infer"
    BY <1>10 DEF WorkerFinish, sessionVars
  <2>2. CASE s2c' = s2c
    BY <1>1, <1>2, <2>1, <2>2, FrameKept
  <2>3. CASE ~Outdated /\ \E f : f.type = "result" /\ f.session = item.session
                                 /\ Grown(s2c, s2c', f)
    <3>1. session = clientSession /\ item.session = session
      BY <1>4, <2>1, <2>3 DEF Inferring
    <3>2. Speaks(s2c, s2c')
      BY <2>3, <3>1, SpeaksOne
    <3> QED
      BY <1>1, <1>2, <2>1, <3>1, <3>2, FrameSpoken
  <2> QED
    BY <1>10, <2>2, <2>3, FinishSends
<1> QED
  BY <1>5, <1>6, <1>7, <1>8, <1>9, <1>10 DEF Handler, Worker

LEMMA FrameStep ==
  TypeOK /\ TypeOK' /\ FlowInv /\ ResetInv /\ IdInv /\ BarrierInv /\ LogInv /\ FrameInv
    /\ [Next]_vars => FrameInv'
  BY FrameClient, FrameReceiver, FrameServer DEF Next, Receiver

-----------------------------------------------------------------------------
(* What a skipped observation rests on.                                    *)

\* The baseline is the payload of an observation of this session that was
\* answered with actions.
BasisInv ==
  baseline # None =>
    \E j \in Ids : j <= highestId /\ log[session][j] = <<"ack", "actions">>

LEMMA BasisInit == Init => BasisInv /\ SimilarHasBasis
<1> SUFFICES ASSUME Init PROVE BasisInv /\ SimilarHasBasis
  OBVIOUS
<1>1. \A s \in Sessions, i \in Ids : log[s][i] = <<>>
  BY DEF Init
<1> QED
  BY <1>1 DEF Init, BasisInv, SimilarHasBasis

\* A session ends with its baseline; within it ids only grow.
LEMMA SessionGrows ==
  ASSUME TypeOK, [Next]_vars
  PROVE  \/ session' = session /\ highestId <= highestId'
         \/ ResetDone
<1>1. highestId \in Int
  BY DEF TypeOK, SessionTypeOK
<1>2. CASE UNCHANGED <<session, highestId>>
  BY <1>1, <1>2
<1>3. CASE HandleMessage
  <2>1. CASE c2s[1].type = "observation" /\ SubmitHandler(c2s[1].obs) /\ c2s[1].obs \in Observation
    <3> DEFINE o == c2s[1].obs
    <3>1. session' = session /\ o.id \in Nat
      BY <2>1 DEF SubmitHandler, Observation
    <3>2. CASE ~Repeated(o) /\ Accept(o)
      BY <1>1, <3>1, <3>2 DEF Accept, Repeated
    <3>3. CASE UNCHANGED highestId
      BY <1>1, <3>1, <3>3
    <3> QED
      BY <2>1, <3>2, <3>3 DEF SubmitHandler
  <2>2. CASE c2s[1].type = "reset" /\ ResetHandler(c2s[1].session)
    BY <1>1, <2>2 DEF ResetHandler, sessionVars
  <2> QED
    BY <1>3, <2>1, <2>2, MessageRead
<1>4. CASE ~HandleMessage /\ ~ResetDone
  <2>1. UNCHANGED <<session, highestId>>
    BY <1>4 DEF Next, Caller, Submit, PollEvent, ResetCall, Close, CallerResumes, ResetReturn,
       ResetRaise, CloseSocket, CloseReturn, Sender, SenderTake, SenderStop,
       SenderResume, Receiver, ReceiverFrame, ReceiverLastFrame, ReceiverEnds, Drop,
       Handler, ResetPolicy, ResetFails, SessionClose, HandlerDone, Worker, WorkerTake,
       WorkerFinish, WorkerStop, vars, serverVars, sessionVars
  <2> QED
    BY <1>2, <2>1
<1> QED
  BY <1>3, <1>4

\* Nothing but the worker's comparison calls an observation similar.
OnlyOld == \A s \in Sessions, i \in Ids :
  log'[s][i] = <<"ack", "similar">> => log[s][i] = <<"ack", "similar">>

LEMMA SimilarFromWorker ==
  ASSUME TypeOK, TypeOK', ResetInv, IdInv, FlowInv, BarrierInv, LogInv, [Next]_vars
  PROVE  \/ OnlyOld
         \/ WorkerTake /\ pending # None /\ baseline # None /\ log' = Logged(log, pending, "similar")
<1>1. log' = log => OnlyOld
  BY DEF OnlyOld
<1>2. ASSUME NEW o, NEW t \in Statuses \ {"duplicate", "similar"},
             Open(session, log[session], o), log' = Logged(log, o, t)
      PROVE  OnlyOld
  <2>1. /\ log'[session][o.id] = <<"ack", t>>
        /\ \A s \in Sessions, i \in Ids : s # session \/ i # o.id => log'[s][i] = log[s][i]
    BY <1>2, LogConcludes
  <2> QED
    BY <2>1 DEF OnlyOld
<1>3. CASE HandleMessage
  <2>1. CASE c2s[1].type = "observation" /\ SubmitHandler(c2s[1].obs) /\ c2s[1].obs \in Observation
    <3> DEFINE o == c2s[1].obs
    <3>1. CASE o.session = session /\ Accept(o)
      <4>1. \A s \in Sessions, i \in Ids : log'[s][i] = log[s][i]
              \/ log'[s][i] = <<"ack">> \/ log'[s][i] = <<"ack", "superseded">>
        BY <1>3, <2>1, <3>1, AcceptHistory
      <4> QED
        BY <4>1 DEF OnlyOld
    <3>2. CASE o.session = session /\ log' = Logged(log, o, "duplicate")
      <4>1. log[session][o.id] = <<>> /\ o.id \in Ids /\ session \in Sessions
        BY <1>3, <2>1, <3>2, TakenUp, Numbers
      <4>2. SaidAbout(log, log', o, "duplicate")
        BY <3>2, <4>1, LoggedAt DEF TypeOK, LogTypeOK
      <4>3. /\ log'[session][o.id] = <<"duplicate">>
            /\ \A s \in Sessions, i \in Ids : s # session \/ i # o.id => log'[s][i] = log[s][i]
        BY <3>2, <4>1, <4>2, Histories DEF SaidAbout
      <4> QED
        BY <4>3 DEF OnlyOld
    <3> QED
      BY <1>1, <2>1, <3>1, <3>2 DEF SubmitHandler
  <2>2. CASE c2s[1].type = "reset" /\ ResetHandler(c2s[1].session)
    <3>1. log' = log \/ (pending # None /\ log' = Logged(log, pending, "superseded"))
      BY <2>2 DEF ResetHandler
    <3>2. pending # None => Open(session, log[session], pending)
      BY DEF LogInv
    <3>3. "superseded" \in Statuses \ {"duplicate", "similar"}
      BY DEF Statuses
    <3> QED
      BY <1>1, <1>2, <3>1, <3>2, <3>3
  <2> QED
    BY <1>3, <2>1, <2>2, MessageRead
<1>4. ASSUME NEW outcome \in PolicyOutcomes, WorkerFinish(outcome)
      PROVE  OnlyOld
  <2>1. (IF outcome = "ok" THEN "actions" ELSE "error") \in Statuses \ {"duplicate", "similar"}
    BY DEF Statuses
  <2>2. CASE /\ ~Outdated
             /\ log' = Logged(log, item, IF outcome = "ok" THEN "actions" ELSE "error")
    <3>1. Open(session, log[session], item)
      BY <1>4, <2>2 DEF WorkerFinish, LogInv, Inferring
    <3> QED
      BY <1>2, <2>1, <2>2, <3>1
  <2>3. CASE log' = log
    BY <1>1, <2>3
  <2> QED
    BY <1>4, <2>2, <2>3, FinishSends
<1>5. CASE WorkerTake
  BY <1>1, <1>5, TakeSends
<1>6. CASE ~HandleMessage /\ ~Worker
  <2>1. log' = log
    BY <1>6 DEF Next, Caller, Submit, PollEvent, ResetCall, Close, CallerResumes, ResetReturn,
       ResetRaise, CloseSocket, CloseReturn, Sender, SenderTake, SenderStop,
       SenderResume, Receiver, ReceiverFrame, ReceiverLastFrame, ReceiverEnds, Drop,
       Handler, ResetPolicy, ResetDone, ResetFails, SessionClose, HandlerDone, vars, serverVars
  <2> QED
    BY <1>1, <2>1
<1>7. CASE WorkerStop
  BY <1>1, <1>7 DEF WorkerStop
<1> QED
  BY <1>3, <1>4, <1>5, <1>6, <1>7 DEF Worker

\* The baseline is set by a delivered result only, if every result can be sent.
LEMMA BasisStep ==
  ASSUME "unsendable" \notin PolicyOutcomes, TypeOK, TypeOK', ResetInv, LogInv, LogAdvances,
         BasisInv, [Next]_vars
  PROVE  BasisInv'
<1> DEFINE actions == <<"ack", "actions">>
<1>1. session \in Sessions /\ highestId \in Int /\ Ids \subseteq Nat /\ highestId' \in Int
  BY Numbers DEF TypeOK, SessionTypeOK
<1>2. \A j \in Ids : log[session][j] = actions => log'[session][j] = actions
  <2> SUFFICES ASSUME NEW j \in Ids, log[session][j] = actions PROVE log'[session][j] = actions
    OBVIOUS
  <2>1. Advances(log[session][j], log'[session][j])
    BY <1>1 DEF LogAdvances
  <2> QED
    BY <2>1 DEF Advances
<1>3. CASE baseline' = baseline /\ session' = session /\ highestId <= highestId'
  <2>1. \A j \in Ids : j <= highestId => j <= highestId'
    BY <1>1, <1>3
  <2> QED
    BY <1>2, <1>3, <2>1 DEF BasisInv
<1>4. CASE ResetDone
  BY <1>4 DEF ResetDone, BasisInv
<1>5. ASSUME NEW outcome \in PolicyOutcomes, WorkerFinish(outcome)
      PROVE  BasisInv'
  <2>1. UNCHANGED <<session, highestId>> /\ worker = "infer"
    BY <1>5 DEF WorkerFinish, sessionVars
  <2>2. CASE baseline' = baseline
    BY <1>1, <1>3, <2>1, <2>2
  <2>3. CASE outcome = "ok" /\ ~Outdated /\ log' = Logged(log, item, "actions")
    <3>1. /\ Open(session, log[session], item) /\ item.id <= highestId /\ item.id \in Ids
          /\ "actions" \in Statuses \ {"duplicate"}
      BY <2>1, <2>3 DEF LogInv, Inferring, Open, Statuses
    <3>2. log'[session][item.id] = actions
      BY <2>3, <3>1, LogConcludes
    <3> QED
      BY <2>1, <3>1, <3>2 DEF BasisInv
  <2> QED
    BY <1>5, <2>2, <2>3, FinishSends, OutcomesAssumption DEF BaselineAfter
<1>6. CASE ~ResetDone /\ ~\E outcome \in PolicyOutcomes : WorkerFinish(outcome)
  <2>1. baseline' = baseline
    BY <1>6 DEF Next, Caller, Submit, PollEvent, ResetCall, Close, CallerResumes, ResetReturn,
       ResetRaise, CloseSocket, CloseReturn, Sender, SenderTake, SenderStop,
       SenderResume, Receiver, ReceiverFrame, ReceiverLastFrame, ReceiverEnds, Drop,
       Handler, HandleMessage, ResetPolicy, ResetFails, SessionClose, HandlerDone, Worker,
       WorkerTake, WorkerStop, vars, serverVars
  <2> QED
    BY <1>3, <1>6, <2>1, SessionGrows
<1> QED
  BY <1>4, <1>5, <1>6

LEMMA SimilarStep ==
  ASSUME TypeOK, TypeOK', ResetInv, IdInv, FlowInv, BarrierInv, LogInv, LogAdvances, BasisInv,
         SimilarHasBasis, [Next]_vars
  PROVE  SimilarHasBasis'
<1> DEFINE actions == <<"ack", "actions">>
<1>1. \A s \in Sessions, j \in Ids : log[s][j] = actions => log'[s][j] = actions
  <2> SUFFICES ASSUME NEW s \in Sessions, NEW j \in Ids, log[s][j] = actions
               PROVE  log'[s][j] = actions
    OBVIOUS
  <2>1. Advances(log[s][j], log'[s][j])
    BY DEF LogAdvances
  <2> QED
    BY <2>1 DEF Advances
<1>2. \A i \in Ids : 0..i - 1 \subseteq Ids
  BY BoundsAssumption DEF Ids
<1> SUFFICES ASSUME NEW s \in Sessions, NEW i \in Ids, log'[s][i] = <<"ack", "similar">>
             PROVE  \E j \in 0..i - 1 : log'[s][j] = actions
  BY DEF SimilarHasBasis
<1>3. CASE log[s][i] = <<"ack", "similar">>
  BY <1>1, <1>2, <1>3 DEF SimilarHasBasis
<1>4. CASE /\ log[s][i] # <<"ack", "similar">>
           /\ pending # None /\ baseline # None /\ log' = Logged(log, pending, "similar")
  <2>1. /\ Open(session, log[session], pending) /\ pending.id = highestId
        /\ log[session][pending.id] = <<"ack">> /\ pending.id \in Ids /\ session \in Sessions
    BY <1>4, Numbers DEF LogInv, Open
  <2>2. s = session /\ i = pending.id
    <3>1. "similar" \in Statuses \ {"duplicate"}
      BY DEF Statuses
    <3> QED
      BY <1>4, <2>1, <3>1, LogConcludes
  <2>3. PICK j \in Ids : j <= highestId /\ log[session][j] = actions
    BY <1>4 DEF BasisInv
  <2>4. j # pending.id
    BY <2>1, <2>3
  <2>5. j \in 0..i - 1
    BY <2>1, <2>2, <2>3, <2>4, BoundsAssumption DEF Ids
  <2> QED
    BY <1>1, <2>1, <2>2, <2>3, <2>5
<1> QED
  BY <1>3, <1>4, SimilarFromWorker DEF OnlyOld

-----------------------------------------------------------------------------
(* How many frames can wait for the client.                                *)

Flag(b) == IF b THEN 1 ELSE 0

Has(q, t) == \E i \in 1..Len(q) : q[i].type = t

\* The answers the server still owes without being sent anything: about the
\* pending observation, about the one in inference, and to a reset.
Resetting == InReset \/ Has(c2s, "reset")
Load == Flag(pending # None) + Flag(Inferring) + Flag(Resetting)

\* The permission to send an observation, before the server has used it.
Permit == Flag(MaySend \/ Has(c2s, "observation"))

Away == Flag(caller # "run")

\* An observation may add two frames and stay pending, so the permission weighs
\* two.  Behind an unread acknowledgement there is room for what was owed when
\* it was sent, and behind the answer of a reset for one acknowledged error.
LoadInv ==
  /\ Len(s2c) + Load + Permit + Permit <= 5 + Away
  /\ \A k \in 1..Len(s2c) : s2c[k].type = "ack" => Len(s2c) - k + Load <= 3 + Away
  /\ \A k \in 1..Len(s2c) :
       s2c[k].type = "reset" => Len(s2c) - k + Permit + Flag(Has(s2c, "ack")) <= 1
  /\ rpcWaiter = "set" => Len(s2c) + Permit <= 1

LEMMA Counts ==
  /\ Load \in Nat /\ Load' \in Nat /\ Load <= 3 /\ Load' <= 3
  /\ Permit \in Nat /\ Permit' \in Nat /\ Permit <= 1 /\ Permit' <= 1
  /\ Away \in Nat /\ Away' \in Nat /\ Away <= 1 /\ Away' <= 1
  BY DEF Load, Permit, Away, Flag

\* Three sums the provers need in this form.
LEMMA SumBehindAck == \A load, away \in Nat : load <= 2 + away => 1 + load <= 3 + away
  OBVIOUS

LEMMA SumWithPermit ==
  \A frames, load, permit, away \in Nat : frames + load <= 3 + away /\ permit <= 1
    => frames + load + permit + permit <= 5 + away
  OBVIOUS

LEMMA SumOfFew ==
  \A frames, load, permit, away \in Nat : frames + permit <= 1 /\ load <= 3 /\ permit <= 1
    => frames + load + permit + permit <= 5 + away
  OBVIOUS

LEMMA HasBefore ==
  ASSUME NEW S, NEW q \in Seq(S), NEW r \in Seq(S), NEW t, NoneAdded(q, r, t), Has(r, t)
  PROVE  Has(q, t)
<1>1. PICK d \in {0, 1} : \A i \in 1..Len(r) :
        r[i].type = t => i + d \in 1..Len(q) /\ r[i] = q[i + d]
  BY Origin DEF Traced
<1>2. PICK i \in 1..Len(r) : r[i].type = t
  BY DEF Has
<1>3. i + d \in 1..Len(q) /\ q[i + d].type = t
  BY <1>1, <1>2
<1> QED
  BY <1>3 DEF Has

LEMMA LoadInit == Init => LoadInv
<1> SUFFICES ASSUME Init PROVE LoadInv
  OBVIOUS
<1>1. Len(s2c) = 0 /\ Load = 0 /\ Permit = 1 /\ Away = 0 /\ rpcWaiter = "none"
  BY DEF Init, Load, Permit, Away, Flag, Inferring, Resetting, InReset, Has, MaySend
<1> QED
  BY <1>1 DEF LoadInv

\* What is owed does not grow while nothing is taken up.
LEMMA LoadNotMore ==
  ASSUME pending' # None => pending # None, Inferring' => Inferring, Resetting' => Resetting
  PROVE  Load' <= Load
  BY DEF Load, Flag

LEMMA PermitNotMore ==
  ASSUME TypeOK, TypeOK', NoneAdded(c2s, c2s', "observation"), MaySend' => MaySend
  PROVE  Permit' <= Permit
<1>1. Has(c2s', "observation") => Has(c2s, "observation")
  BY HasBefore DEF TypeOK, NetTypeOK
<1> QED
  BY <1>1 DEF Permit, Flag

\* A step that answers nothing.
LEMMA LoadQuiet ==
  ASSUME TypeOK, TypeOK', LoadInv, Kept(s2c, s2c'), Load' <= Load, Permit' <= Permit,
         Away <= Away', rpcWaiter' = "set" => rpcWaiter = "set"
  PROVE  LoadInv'
<1>1. /\ s2c \in Seq(Frame) /\ s2c' \in Seq(Frame) /\ Len(s2c) \in Nat /\ Len(s2c') \in Nat
      /\ NoneAdded(s2c, s2c', "ack")
  BY LenProperties DEF TypeOK, NetTypeOK, NoneAdded
<1>2. PICK d \in {0, 1} : Len(s2c') + d <= Len(s2c) /\ \A i \in 1..Len(s2c') : s2c'[i] = s2c[i + d]
  BY DEF Kept
<1>3. Flag(Has(s2c', "ack")) <= Flag(Has(s2c, "ack")) /\ Flag(Has(s2c', "ack")) \in 0..1
      /\ Flag(Has(s2c, "ack")) \in 0..1
  BY <1>1, HasBefore DEF Flag
<1>0. /\ Load \in Nat /\ Load' \in Nat /\ Permit \in Nat /\ Permit' \in Nat
      /\ Away \in Nat /\ Away' \in Nat
  BY Counts
<1>4. Len(s2c') + Load' + Permit' + Permit' <= 5 + Away'
  <2>1. Len(s2c) + Load + Permit + Permit <= 5 + Away
    BY DEF LoadInv
  <2>2. Len(s2c') <= Len(s2c)
    BY <1>1, <1>2
  <2>3. \A n, m, l, k, p, r, a, b \in Nat :
          n <= m /\ l <= k /\ p <= r /\ a <= b /\ m + k + r + r <= 5 + a => n + l + p + p <= 5 + b
    OBVIOUS
  <2> QED
    BY <1>0, <1>1, <2>1, <2>2, <2>3
<1>5. ASSUME NEW k \in 1..Len(s2c'), s2c'[k].type = "ack"
      PROVE  Len(s2c') - k + Load' <= 3 + Away'
  <2>1. k + d \in 1..Len(s2c) /\ s2c[k + d].type = "ack"
    BY <1>1, <1>2, <1>5
  <2>2. Len(s2c) - (k + d) + Load <= 3 + Away
    BY <2>1 DEF LoadInv
  <2>3. Len(s2c') - k <= Len(s2c) - (k + d) /\ k \in Nat /\ k + d \in Nat
    BY <1>1, <1>2
  <2>4. \A n, m \in Int, l, j, a, b \in Nat :
          n <= m /\ l <= j /\ a <= b /\ m + j <= 3 + a => n + l <= 3 + b
    OBVIOUS
  <2>5. Len(s2c') - k \in Int /\ Len(s2c) - (k + d) \in Int /\ Load' <= Load /\ Away <= Away'
    BY <1>1, <2>3
  <2> QED
    BY <1>0, <2>2, <2>3, <2>4, <2>5
<1>6. ASSUME NEW k \in 1..Len(s2c'), s2c'[k].type = "reset"
      PROVE  Len(s2c') - k + Permit' + Flag(Has(s2c', "ack")) <= 1
  <2>1. k + d \in 1..Len(s2c) /\ s2c[k + d].type = "reset"
    BY <1>1, <1>2, <1>6
  <2>2. Len(s2c) - (k + d) + Permit + Flag(Has(s2c, "ack")) <= 1
    BY <2>1 DEF LoadInv
  <2>3. Len(s2c') - k <= Len(s2c) - (k + d) /\ k \in Nat /\ k + d \in Nat
    BY <1>1, <1>2
  <2>4. \A n, m \in Int, p, r \in Nat, a, b \in 0..1 :
          n <= m /\ p <= r /\ a <= b /\ m + r + b <= 1 => n + p + a <= 1
    OBVIOUS
  <2> QED
    BY <1>0, <1>1, <1>3, <2>2, <2>3, <2>4
<1>7. ASSUME rpcWaiter' = "set" PROVE Len(s2c') + Permit' <= 1
  <2>1. Len(s2c) + Permit <= 1
    BY <1>7 DEF LoadInv
  <2>2. Len(s2c') <= Len(s2c)
    BY <1>1, <1>2
  <2> QED
    BY <1>0, <1>1, <2>1, <2>2
<1> QED
  BY <1>4, <1>5, <1>6, <1>7 DEF LoadInv

\* A step that gives one of the answers that are owed.
LEMMA LoadAnswer ==
  ASSUME TypeOK, TypeOK', ResetInv, LoadInv, session = clientSession,
         NEW f, f.type \in {"result", "error"}, Grown(s2c, s2c', f),
         Load' < Load, Permit' <= Permit, UNCHANGED <<caller, rpcWaiter>>
  PROVE  LoadInv'
<1>1. s2c \in Seq(Frame) /\ Len(s2c) \in Nat /\ session \in Nat
  BY LenProperties DEF TypeOK, NetTypeOK, SessionTypeOK
<1>2. rpcWaiter # "set" /\ \A k \in 1..Len(s2c) : s2c[k].type # "reset"
  BY <1>1 DEF ResetInv, Announced
<1>3. /\ Len(s2c') = Len(s2c) + 1
      /\ \A i \in 1..Len(s2c') :
           (i \in 1..Len(s2c) /\ s2c'[i] = s2c[i]) \/ (i = Len(s2c) + 1 /\ s2c'[i] = f)
  BY <1>1, GrownAt DEF Grown
<1>4. Away' = Away
  BY DEF Away
<1>0. /\ Len(s2c') \in Nat /\ Len(s2c') + Load' <= Len(s2c) + Load
      /\ Load \in Nat /\ Load' \in Nat /\ Permit \in Nat /\ Permit' \in Nat /\ Away \in Nat
  <2>1. Len(s2c') = Len(s2c) + 1
    BY <1>3
  <2>2. Load \in Nat /\ Load' \in Nat /\ Permit \in Nat /\ Permit' \in Nat /\ Away \in Nat
    BY Counts
  <2>3. Load' < Load
    OBVIOUS
  <2> QED
    BY <1>1, <2>1, <2>2, <2>3
<1>5. Len(s2c') + Load' + Permit' + Permit' <= 5 + Away'
  <2>1. Len(s2c) + Load + Permit + Permit <= 5 + Away
    BY DEF LoadInv
  <2>2. \A n, m, l, j, p, r, a \in Nat :
          n + l <= m + j /\ p <= r /\ m + j + r + r <= 5 + a => n + l + p + p <= 5 + a
    OBVIOUS
  <2> QED
    BY <1>0, <1>1, <1>4, <2>1, <2>2
<1>6. ASSUME NEW k \in 1..Len(s2c'), s2c'[k].type = "ack"
      PROVE  Len(s2c') - k + Load' <= 3 + Away'
  <2>1. k \in 1..Len(s2c) /\ s2c[k].type = "ack"
    BY <1>3, <1>6
  <2>2. Len(s2c) - k + Load <= 3 + Away
    BY <2>1 DEF LoadInv
  <2>3. Len(s2c') = Len(s2c) + 1 /\ k \in Nat
    BY <1>3, <2>1
  <2> QED
    BY <1>0, <1>1, <1>4, <2>2, <2>3
<1>7. \A k \in 1..Len(s2c') : s2c'[k].type # "reset"
  BY <1>2, <1>3
<1> QED
  BY <1>2, <1>5, <1>6, <1>7 DEF LoadInv

\* A step that refuses an observation: its permission pays for the answer.
LEMMA LoadRefuse ==
  ASSUME TypeOK, TypeOK', LoadInv, NEW f, f.type \in {"result", "error"}, Grown(s2c, s2c', f),
         ~Has(s2c, "ack"), Permit = 1, Permit' = 0, Load' <= Load,
         UNCHANGED <<caller, rpcWaiter>>
  PROVE  LoadInv'
<1>1. s2c \in Seq(Frame) /\ Len(s2c) \in Nat
  BY LenProperties DEF TypeOK, NetTypeOK
<1>2. /\ Len(s2c') = Len(s2c) + 1
      /\ \A i \in 1..Len(s2c') :
           (i \in 1..Len(s2c) /\ s2c'[i] = s2c[i]) \/ (i = Len(s2c) + 1 /\ s2c'[i] = f)
  BY <1>1, GrownAt DEF Grown
<1>3. Away' = Away
  BY DEF Away
<1>4. \A k \in 1..Len(s2c') : s2c'[k].type # "ack"
  BY <1>2 DEF Has
<1>5. Flag(Has(s2c', "ack")) = 0 /\ Flag(Has(s2c, "ack")) = 0
  BY <1>4 DEF Flag, Has
<1>6. Len(s2c') + Load' + Permit' + Permit' <= 5 + Away'
  BY <1>1, <1>2, <1>3, Counts DEF LoadInv
<1>7. ASSUME NEW k \in 1..Len(s2c'), s2c'[k].type = "reset"
      PROVE  Len(s2c') - k + Permit' + Flag(Has(s2c', "ack")) <= 1
  <2>1. k \in 1..Len(s2c) /\ s2c[k].type = "reset"
    BY <1>2, <1>7
  <2>2. Len(s2c) - k + Permit + Flag(Has(s2c, "ack")) <= 1
    BY <2>1 DEF LoadInv
  <2> QED
    BY <1>1, <1>2, <1>5, <2>2
<1>8. rpcWaiter' = "set" => Len(s2c') + Permit' <= 1
  BY <1>1, <1>2 DEF LoadInv
<1> QED
  BY <1>4, <1>6, <1>7, <1>8 DEF LoadInv

\* An accepted observation is acknowledged, and the one it replaces answered.
LEMMA LoadAccept ==
  ASSUME TypeOK, TypeOK', ResetInv, LoadInv, session = clientSession,
         ~Has(s2c, "ack"), Permit = 1, Permit' = 0, UNCHANGED <<caller, rpcWaiter>>,
         Inferring' => Inferring, Resetting' => Resetting, pending' # None,
         \/ s2c' = s2c
         \/ pending = None /\ \E f : f.type = "ack" /\ Grown(s2c, s2c', f)
         \/ /\ pending # None
            /\ \E f, g : f.type = "ack" /\ g.type = "result" /\ GrownTwice(s2c, s2c', f, g)
  PROVE  LoadInv'
<1>1. s2c \in Seq(Frame) /\ Len(s2c) \in Nat /\ session \in Nat
  BY LenProperties DEF TypeOK, NetTypeOK, SessionTypeOK
<1>2. rpcWaiter # "set" /\ \A k \in 1..Len(s2c) : s2c[k].type # "reset"
  BY <1>1 DEF ResetInv, Announced
<1>3. Away' = Away /\ (Resetting => Away = 1) /\ Resetting \in BOOLEAN
  BY DEF Away, Flag, ResetInv, Resetting, Unanswered, Has
<1>4. \A k \in 1..Len(s2c) : s2c[k].type # "ack"
  BY DEF Has
<1>5. Len(s2c) + Load + 2 <= 5 + Away
  BY <1>1, Counts DEF LoadInv
<1>6. Load' <= 2 + Away' /\ Load' <= Load + 1 /\ (pending # None => Load' <= Load)
  BY <1>3 DEF Load, Flag, Away
<1>7. CASE s2c' = s2c
  <2>1. Len(s2c') + Load' + Permit' + Permit' <= 5 + Away'
    BY <1>1, <1>3, <1>5, <1>6, <1>7, Counts
  <2> QED
    BY <1>2, <1>4, <1>7, <2>1 DEF LoadInv
<1>8. ASSUME NEW f, pending = None, f.type = "ack", Grown(s2c, s2c', f)
      PROVE  LoadInv'
  <2>1. /\ Len(s2c') = Len(s2c) + 1
        /\ \A i \in 1..Len(s2c') :
             (i \in 1..Len(s2c) /\ s2c'[i] = s2c[i]) \/ (i = Len(s2c) + 1 /\ s2c'[i] = f)
    BY <1>1, <1>8, GrownAt DEF Grown
  <2>2. Len(s2c') + Load' + Permit' + Permit' <= 5 + Away'
    BY <1>1, <1>3, <1>5, <1>6, <2>1, Counts
  <2>3. ASSUME NEW k \in 1..Len(s2c'), s2c'[k].type = "ack"
        PROVE  Len(s2c') - k + Load' <= 3 + Away'
    <3>1. k = Len(s2c')
      BY <1>4, <2>1, <2>3
    <3>2. Len(s2c') - k = 0
      BY <1>1, <2>1, <3>1
    <3>3. Load' <= 2 + Away'
      BY <1>6
    <3> QED
      BY <3>2, <3>3, Counts
  <2>4. \A k \in 1..Len(s2c') : s2c'[k].type # "reset"
    BY <1>2, <1>8, <2>1
  <2> QED
    BY <1>2, <2>2, <2>3, <2>4 DEF LoadInv
<1>9. ASSUME NEW f, NEW g, pending # None, f.type = "ack", g.type = "result",
             GrownTwice(s2c, s2c', f, g)
      PROVE  LoadInv'
  <2>1. /\ Len(s2c') = Len(s2c) + 2
        /\ \A i \in 1..Len(s2c') :
             \/ i \in 1..Len(s2c) /\ s2c'[i] = s2c[i]
             \/ i = Len(s2c) + 1 /\ s2c'[i] = f
             \/ i = Len(s2c) + 2 /\ s2c'[i] = g
    BY <1>1, <1>9, GrownTwiceAt DEF GrownTwice
  <2>2. Len(s2c') + Load' + Permit' + Permit' <= 5 + Away'
    BY <1>1, <1>3, <1>5, <1>6, <1>9, <2>1, Counts
  <2>3. ASSUME NEW k \in 1..Len(s2c'), s2c'[k].type = "ack"
        PROVE  Len(s2c') - k + Load' <= 3 + Away'
    <3>1. k = Len(s2c) + 1
      BY <1>4, <1>9, <2>1, <2>3
    <3>2. Len(s2c') - k = 1
      BY <1>1, <2>1, <3>1
    <3>3. Load' <= 2 + Away'
      BY <1>6
    <3>4. Load' \in Nat /\ Away' \in Nat
      BY Counts
    <3>5. 1 + Load' <= 3 + Away'
      BY <3>3, <3>4, SumBehindAck
    <3> QED
      BY <3>2, <3>5
  <2>4. \A k \in 1..Len(s2c') : s2c'[k].type # "reset"
    BY <1>2, <1>9, <2>1
  <2> QED
    BY <1>2, <2>2, <2>3, <2>4 DEF LoadInv
<1> QED
  BY <1>7, <1>8, <1>9

\* The answer of a reset is the last answer for as long as it is unread.
LEMMA LoadAnnounce ==
  ASSUME TypeOK, TypeOK', ResetInv, FlowInv, LoadInv, session = clientSession,
         NEW f, f.type = "reset", Grown(s2c, s2c', f),
         Load' < Load, Permit' = Permit, UNCHANGED <<caller, rpcWaiter>>
  PROVE  LoadInv'
<1>1. s2c \in Seq(Frame) /\ Len(s2c) \in Nat /\ session \in Nat
  BY LenProperties DEF TypeOK, NetTypeOK, SessionTypeOK
<1>2. rpcWaiter # "set" /\ \A k \in 1..Len(s2c) : s2c[k].type # "reset"
  BY <1>1 DEF ResetInv, Announced
<1>3. /\ Len(s2c') = Len(s2c) + 1
      /\ \A i \in 1..Len(s2c') :
           (i \in 1..Len(s2c) /\ s2c'[i] = s2c[i]) \/ (i = Len(s2c) + 1 /\ s2c'[i] = f)
  BY <1>1, GrownAt DEF Grown
<1>4. Away' = Away
  BY DEF Away
<1>5. Permit + Flag(Has(s2c', "ack")) <= 1
  <2>1. Has(s2c', "ack") => Has(s2c, "ack")
    BY <1>3 DEF Has
  <2>2. ~(Has(s2c, "ack") /\ (MaySend \/ Has(c2s, "observation")))
    BY DEF FlowInv, Has
  <2> QED
    BY <2>1, <2>2 DEF Permit, Flag
<1>6. Len(s2c') + Load' + Permit' + Permit' <= 5 + Away'
  <2>1. Len(s2c) + Load + Permit + Permit <= 5 + Away
    BY DEF LoadInv
  <2> QED
    BY <1>1, <1>3, <1>4, <2>1, Counts
<1>7. ASSUME NEW k \in 1..Len(s2c'), s2c'[k].type = "ack"
      PROVE  Len(s2c') - k + Load' <= 3 + Away'
  <2>1. k \in 1..Len(s2c) /\ s2c[k].type = "ack"
    BY <1>3, <1>7
  <2>2. Len(s2c) - k + Load <= 3 + Away
    BY <2>1 DEF LoadInv
  <2>3. Len(s2c') = Len(s2c) + 1 /\ k \in Nat
    BY <1>3, <2>1
  <2> QED
    BY <1>1, <1>4, <2>2, <2>3, Counts
<1>8. ASSUME NEW k \in 1..Len(s2c'), s2c'[k].type = "reset"
      PROVE  Len(s2c') - k + Permit' + Flag(Has(s2c', "ack")) <= 1
  <2>1. k = Len(s2c')
    BY <1>2, <1>3, <1>8
  <2>2. Len(s2c') \in Nat /\ Flag(Has(s2c', "ack")) \in Nat
    BY <1>1, <1>3 DEF Flag
  <2> QED
    BY <1>5, <2>1, <2>2, Counts
<1> QED
  BY <1>2, <1>6, <1>7, <1>8 DEF LoadInv

LEMMA LoadClient ==
  ASSUME TypeOK, TypeOK', FlowInv, ResetInv, BarrierInv, LogInv, FrameInv, LoadInv,
         Caller \/ CallerResumes \/ Sender \/ ReceiverEnds \/ Drop \/ UNCHANGED vars
  PROVE  LoadInv'
<1>1. /\ s2c \in Seq(Frame) /\ c2s \in Seq(Message) /\ Len(s2c) \in Nat
      /\ Kept(s2c, s2c) /\ Kept(c2s, c2s)
  BY KeptSame, LenProperties DEF TypeOK, NetTypeOK
<1>2. /\ UNCHANGED <<pending, worker, handler>> /\ (Inferring' => Inferring)
      /\ (InReset' => InReset)
  <2>1. UNCHANGED serverVars
    BY DEF Caller, Submit, PollEvent, ResetCall, Close, CallerResumes, ResetReturn,
       ResetRaise, CloseSocket, CloseReturn, Sender, SenderTake, SenderStop,
       SenderResume, ReceiverEnds, Drop, vars
  <2> QED
    BY <2>1 DEF serverVars, pendingVars, workerVars, sessionVars, Inferring, Outdated, InReset
<1>3. ASSUME NoneAdded(c2s, c2s', "reset") PROVE Load' <= Load
  <2>1. Has(c2s', "reset") => Has(c2s, "reset")
    BY <1>3, HasBefore DEF TypeOK, NetTypeOK
  <2> QED
    BY <1>2, <2>1, LoadNotMore DEF Resetting
<1>4. ASSUME caller # "run" => caller' # "run" PROVE Away <= Away'
  BY <1>4 DEF Away, Flag
<1>5. CASE ResetReturn
  <2>1. /\ rpcWaiter = "set" /\ rpcWaiter' = "none" /\ UNCHANGED <<s2c, c2s, sender, ackWaiter>>
    BY <1>5 DEF ResetReturn, netVars, senderVars
  <2>2. session # clientSession /\ pending = None /\ worker # "infer"
    BY <2>1 DEF ResetInv, Announced, LogInv, TypeOK, ClientTypeOK
  <2>3. ~Resetting
    BY <2>2 DEF Resetting, ResetInv, Unanswered, Has
  <2>4. Load' = 0
    BY <1>2, <2>1, <2>2, <2>3 DEF Load, Flag, Inferring, Resetting
  <2>5. Permit' = Permit /\ Len(s2c) + Permit <= 1
    BY <2>1 DEF Permit, MaySend, LoadInv
  <2>6. \A k \in 1..Len(s2c) : s2c[k].type = "error"
    BY <2>1 DEF FrameInv, Quiet
  <2>7. Len(s2c') + Load' + Permit' + Permit' <= 5 + Away'
    BY <1>1, <2>1, <2>4, <2>5, Counts
  <2> QED
    BY <2>1, <2>6, <2>7 DEF LoadInv
<1>6. CASE ResetCall
  <2>1. /\ caller = "run" /\ s2c' = s2c /\ UNCHANGED <<sender, ackWaiter>>
        /\ caller' # "run" /\ (rpcWaiter' = "set" => rpcWaiter = "set")
    BY <1>6 DEF ResetCall, senderVars
  <2>2. ~Resetting /\ Resetting \in BOOLEAN /\ Resetting' \in BOOLEAN
    BY <2>1 DEF ResetInv, Unanswered, Resetting, Has
  <2>3. Load' <= Load + 1 /\ Away = 0 /\ Away' = 1
    BY <1>2, <2>1, <2>2 DEF Load, Flag, Away
  <2>4. Permit' <= Permit
    <3>1. NoneAdded(c2s, c2s', "observation")
      BY <1>1, <1>6, CallerSends DEF NoneAdded, Caller
    <3> QED
      BY <2>1, <3>1, PermitNotMore DEF MaySend
  <2>5. Len(s2c') + Load' + Permit' + Permit' <= 5 + Away'
    <3>1. Len(s2c) + Load + Permit + Permit <= 5 + Away
      BY DEF LoadInv
    <3> QED
      BY <1>1, <2>1, <2>3, <2>4, <3>1, Counts
  <2>6. ASSUME NEW k \in 1..Len(s2c), s2c[k].type = "ack"
        PROVE  Len(s2c) - k + Load' <= 3 + Away'
    <3>1. Len(s2c) - k + Load <= 3 + Away /\ k \in Nat
      BY <2>6 DEF LoadInv
    <3> QED
      BY <1>1, <2>3, <3>1, Counts
  <2>7. ASSUME NEW k \in 1..Len(s2c), s2c[k].type = "reset"
        PROVE  Len(s2c) - k + Permit' + Flag(Has(s2c, "ack")) <= 1
    BY <1>1, <2>1, <2>7 DEF ResetInv, Announced
  <2>8. rpcWaiter # "set"
    BY <2>1 DEF ResetInv
  <2> QED
    BY <2>1, <2>5, <2>6, <2>7, <2>8 DEF LoadInv
<1>7. CASE (Caller \/ CallerResumes) /\ ~ResetReturn /\ ~ResetCall
  <2>1. /\ UNCHANGED <<s2c, sender, ackWaiter>> /\ NoneAdded(c2s, c2s', "reset")
        /\ NoneAdded(c2s, c2s', "observation")
    BY <1>1, <1>7, CallerSends DEF senderVars, NoneAdded
  <2>2. (caller # "run" => caller' # "run") /\ (rpcWaiter' = "set" => rpcWaiter = "set")
    BY <1>7 DEF Caller, Submit, PollEvent, Close, CallerResumes, ResetRaise, CloseSocket,
       CloseReturn, callerVars, rpcVars
  <2> QED
    BY <1>1, <1>3, <1>4, <2>1, <2>2, PermitNotMore, LoadQuiet DEF MaySend
<1>8. CASE SenderTake
  <2>1. /\ s2c' = s2c /\ sender = "slot" /\ UNCHANGED <<caller, rpcWaiter>>
    BY <1>8 DEF SenderTake, callerVars, rpcVars
  <2>2. NoneAdded(c2s, c2s', "reset")
    BY <1>1, <1>8, TakeSlotSends DEF NoneAdded
  <2>3. Permit' <= Permit /\ Away <= Away'
    BY <2>1 DEF Permit, MaySend, Flag, Away
  <2> QED
    BY <1>1, <1>3, <2>1, <2>2, <2>3, LoadQuiet
<1>9. CASE SenderStop \/ SenderResume \/ UNCHANGED vars
  <2>1. UNCHANGED <<s2c, c2s, caller, rpcWaiter>> /\ (MaySend' => MaySend)
    BY <1>9 DEF SenderStop, SenderResume, MaySend, vars, clientVars, callerVars, senderVars,
       rpcVars, netVars
  <2>2. NoneAdded(c2s, c2s', "reset") /\ NoneAdded(c2s, c2s', "observation")
    BY <1>1, <2>1 DEF NoneAdded
  <2> QED
    BY <1>1, <1>3, <1>4, <2>1, <2>2, PermitNotMore, LoadQuiet
<1>10. CASE ReceiverEnds
  <2>1. /\ UNCHANGED <<s2c, c2s, caller, sender>> /\ (MaySend' => MaySend)
        /\ (rpcWaiter' = "set" => rpcWaiter = "set")
    BY <1>10, ReceiverEndsSends DEF FailWaiters, MaySend, callerVars, netVars
  <2>2. NoneAdded(c2s, c2s', "reset") /\ NoneAdded(c2s, c2s', "observation")
    BY <1>1, <2>1 DEF NoneAdded
  <2> QED
    BY <1>1, <1>3, <1>4, <2>1, <2>2, PermitNotMore, LoadQuiet
<1>11. CASE Drop
  <2>1. /\ Kept(s2c, s2c') /\ Kept(c2s, c2s')
        /\ UNCHANGED <<caller, sender, ackWaiter, rpcWaiter>>
    BY <1>11, DropSends DEF clientVars, callerVars, senderVars, rpcVars
  <2>2. NoneAdded(c2s, c2s', "reset") /\ NoneAdded(c2s, c2s', "observation")
    BY <2>1 DEF NoneAdded
  <2> QED
    BY <1>3, <1>4, <2>1, <2>2, PermitNotMore, LoadQuiet DEF MaySend
<1> QED
  BY <1>5, <1>6, <1>7, <1>8, <1>9, <1>10, <1>11 DEF Sender

LEMMA LoadReceiver ==
  ASSUME TypeOK, TypeOK', FlowInv, ResetInv, FrameInv, LoadInv,
         ReceiverFrame \/ ReceiverLastFrame
  PROVE  LoadInv'
<1>1. /\ s2c \in Seq(Frame) /\ c2s \in Seq(Message) /\ Len(s2c) \in Nat /\ Len(s2c') \in Nat
      /\ Kept(c2s, c2s)
  BY KeptSame, LenProperties DEF TypeOK, NetTypeOK
<1>2. /\ s2c # <<>> /\ s2c' = Tail(s2c) /\ UNCHANGED <<c2s, caller, sender, serverVars>>
  BY ReceiverReads DEF callerVars
<1>3. /\ Kept(s2c, s2c') /\ Len(s2c) >= 1 /\ Len(s2c') = Len(s2c) - 1
      /\ \A i \in 1..Len(s2c') : s2c'[i] = s2c[i + 1]
  BY <1>1, <1>2, KeptTail
<1>4. Load' <= Load /\ Away' = Away
  <2>1. /\ UNCHANGED <<pending, handler>> /\ (Inferring' => Inferring)
    BY <1>2 DEF serverVars, pendingVars, workerVars, sessionVars, Inferring, Outdated
  <2>2. Resetting' => Resetting
    BY <1>2, <2>1 DEF Resetting, InReset
  <2> QED
    BY <1>2, <2>1, <2>2, LoadNotMore DEF Away
<1>5. CASE (MaySend' => MaySend) /\ (rpcWaiter' = "set" => rpcWaiter = "set")
  <2>1. NoneAdded(c2s, c2s', "observation")
    BY <1>1, <1>2 DEF NoneAdded
  <2>2. Permit' <= Permit
    BY <1>5, <2>1, PermitNotMore
  <2>3. Away <= Away'
    BY <1>4, Counts
  <2> QED
    BY <1>3, <1>4, <1>5, <2>2, <2>3, LoadQuiet
<1>6. CASE s2c[1].type = "ack" /\ UNCHANGED rpcVars
  <2>1. 1 \in 1..Len(s2c) /\ AtMostOne(s2c, "ack")
    BY <1>1, <1>3 DEF FlowInv
  <2>2. \A k \in 1..Len(s2c') : s2c'[k].type # "ack"
    BY <1>1, <1>2, <1>6, <2>1, AtMostOneTail
  <2>3. Len(s2c) - 1 + Load <= 3 + Away /\ Flag(Has(s2c, "ack")) = 1 /\ Flag(Has(s2c', "ack")) = 0
    BY <1>6, <2>1, <2>2 DEF LoadInv, Has, Flag
  <2>4. Len(s2c') + Load' + Permit' + Permit' <= 5 + Away'
    <3>1. Len(s2c') + Load' <= 3 + Away'
      BY <1>1, <1>3, <1>4, <2>3, Counts
    <3>2. Load' \in Nat /\ Away' \in Nat /\ Permit' \in Nat /\ Permit' <= 1
      BY Counts
    <3> QED
      BY <1>1, <3>1, <3>2, SumWithPermit
  <2>5. ASSUME NEW k \in 1..Len(s2c'), s2c'[k].type = "reset"
        PROVE  Len(s2c') - k + Permit' + Flag(Has(s2c', "ack")) <= 1
    <3>1. k + 1 \in 1..Len(s2c) /\ s2c[k + 1].type = "reset" /\ k \in Nat
      <4>1. k \in Nat /\ k >= 1 /\ k <= Len(s2c')
        BY <1>1
      <4>2. k + 1 \in 1..Len(s2c)
        BY <1>1, <1>3, <4>1
      <4> QED
        BY <1>3, <2>5, <4>1, <4>2
    <3>2. Len(s2c) - (k + 1) + Permit + 1 <= 1
      BY <2>3, <3>1 DEF LoadInv
    <3>3. Len(s2c') - k <= 0
      BY <1>1, <1>3, <3>1, <3>2, Counts
    <3> QED
      BY <1>1, <2>3, <3>1, <3>3, Counts
  <2>6. rpcWaiter' # "set"
    BY <1>6, <2>1 DEF FrameInv, Quiet, rpcVars
  <2> QED
    BY <2>2, <2>4, <2>5, <2>6 DEF LoadInv
<1>7. CASE s2c[1].type = "reset" /\ UNCHANGED ackWaiter /\ rpcWaiter' = "set"
  <2>1. 1 \in 1..Len(s2c)
    BY <1>1, <1>3
  <2>2. Permit' = Permit
    BY <1>2, <1>7 DEF Permit, MaySend
  <2>3. Len(s2c) - 1 + Permit + Flag(Has(s2c, "ack")) <= 1
    BY <1>7, <2>1 DEF LoadInv
  <2>4. Len(s2c') + Permit' <= 1
    <3>1. Flag(Has(s2c, "ack")) \in Nat
      BY DEF Flag
    <3> QED
      BY <1>1, <1>3, <2>2, <2>3, <3>1, Counts
  <2>5. Len(s2c') + Load' + Permit' + Permit' <= 5 + Away'
    <3>1. /\ Len(s2c') \in Nat /\ Load' \in Nat /\ Permit' \in Nat /\ Away' \in Nat
          /\ Load' <= 3 /\ Permit' <= 1
      BY <1>1, Counts
    <3> QED
      BY <2>4, <3>1, SumOfFew
  <2>6. \A k \in 1..Len(s2c') : s2c'[k].type = "error"
    <3>1. \A i \in 1..Len(s2c') : i + 1 \in 1..Len(s2c) /\ 1 < i + 1
      BY <1>1, <1>3
    <3> QED
      BY <1>3, <1>7, <2>1, <3>1 DEF FrameInv
  <2> QED
    BY <2>4, <2>5, <2>6 DEF LoadInv
<1> QED
  BY <1>2, <1>5, <1>6, <1>7, ReceiverReads DEF FailWaiters, MaySend, rpcVars

LEMMA LoadServer ==
  ASSUME TypeOK, TypeOK', FlowInv, ResetInv, IdInv, BarrierInv, LogInv, FrameInv, LoadInv,
         Handler \/ Worker
  PROVE  LoadInv'
<1>1. /\ s2c \in Seq(Frame) /\ c2s \in Seq(Message) /\ c2s' \in Seq(Message)
      /\ Len(s2c) \in Nat /\ session \in Nat /\ clientSession \in Nat
      /\ Kept(s2c, s2c) /\ Kept(c2s, c2s) /\ Kept(c2s, <<>>)
  BY KeptSame, KeptNothing, LenProperties DEF TypeOK, NetTypeOK, SessionTypeOK, ClientTypeOK
<1>2. UNCHANGED <<caller, rpcWaiter, clientSession>> /\ (MaySend' <=> MaySend)
  BY DEF Handler, HandleMessage, ResetPolicy, ResetDone, ResetFails, SessionClose, HandlerDone,
     Worker, WorkerTake, WorkerFinish, WorkerStop, clientVars, callerVars, slotVars, senderVars,
     rpcVars, MaySend
<1>3. Away <= Away' /\ Away' = Away
  BY <1>2, Counts DEF Away
<1>4. pending # None \/ Inferring => session = clientSession
  BY DEF LogInv, Inferring
<1>5. CASE HandleMessage
  <2>1. /\ Kept(c2s, c2s') /\ c2s # <<>> /\ c2s' = Tail(c2s) /\ 1 \in 1..Len(c2s)
        /\ UNCHANGED <<worker, itemGeneration, sessionClosed>>
    BY <1>5, MessageRead, LenProperties DEF workerVars, TypeOK, NetTypeOK
  <2>2. Has(c2s', "reset") => Has(c2s, "reset")
    BY <1>1, <2>1, HasBefore DEF NoneAdded
  <2>3. CASE c2s[1].type = "observation" /\ SubmitHandler(c2s[1].obs) /\ c2s[1].obs \in Observation
    <3> DEFINE o == c2s[1].obs
    <3>1. /\ UNCHANGED <<session, handler>> /\ (Inferring' => Inferring)
      BY <2>1, <2>3 DEF SubmitHandler, Inferring, Outdated
    <3>2. Resetting' => Resetting
      BY <2>2, <3>1 DEF Resetting, InReset
    <3>3. Permit = 1 /\ Permit' = 0 /\ ~Has(s2c, "ack")
      <4>1. ~MaySend /\ ~Has(s2c, "ack")
        BY <2>1, <2>3 DEF FlowInv, Has
      <4>2. AtMostOne(c2s, "observation")
        BY DEF FlowInv
      <4>3. \A i \in 1..Len(c2s') : c2s'[i].type # "observation"
        BY <1>1, <2>1, <2>3, <4>2, AtMostOneTail
      <4> QED
        BY <1>2, <2>1, <2>3, <4>1, <4>3 DEF Permit, Flag, Has
    <3>4. CASE Accept(o) /\ o.session = session
      <4>1. session = clientSession
        BY <1>5, <2>3, <3>4, TakenUp
      <4>2. pending' # None
        BY <2>3, <3>4, NoneAssumption DEF Accept
      <4>3. \/ s2c' = s2c
            \/ pending = None /\ \E f : f.type = "ack" /\ Grown(s2c, s2c', f)
            \/ /\ pending # None
               /\ \E f, g : f.type = "ack" /\ g.type = "result" /\ GrownTwice(s2c, s2c', f, g)
        BY <2>3, <3>4, AcceptSends
      <4> QED
        BY <1>2, <3>1, <3>2, <3>3, <4>1, <4>2, <4>3, LoadAccept
    <3>5. CASE /\ UNCHANGED pendingVars
               /\ s2c' = s2c \/ \E f : f.type \in {"result", "error"} /\ Grown(s2c, s2c', f)
      <4>1. Load' <= Load
        BY <3>1, <3>2, <3>5, LoadNotMore DEF pendingVars
      <4> QED
        BY <1>1, <1>2, <1>3, <3>3, <3>5, <4>1, LoadQuiet, LoadRefuse
    <3>6. CASE Send(<<ErrorFrame>>) /\ UNCHANGED pendingVars
      BY <3>5, <3>6, SentError
    <3>7. CASE Send(<<FrameOf("result", o, "duplicate")>>) /\ UNCHANGED pendingVars
      <4>1. "duplicate" \in Statuses \cup {"accepted"} /\ "result" \in {"ack", "result"}
        BY DEF Statuses
      <4>2. s2c' = s2c \/ \E f : f.type = "result" /\ f.session = o.session /\ Grown(s2c, s2c', f)
        BY <2>3, <3>7, <4>1, SentAbout
      <4> QED
        BY <3>5, <3>7, <4>2
    <3> QED
      BY <2>3, <3>4, <3>6, <3>7 DEF SubmitHandler
  <2>4. CASE c2s[1].type = "reset" /\ ResetHandler(c2s[1].session)
    <3>1. /\ Unanswered /\ c2s[1].session = clientSession /\ Has(c2s, "reset")
      BY <2>1, <2>4 DEF ResetInv, Has
    <3>2. session = clientSession /\ Resetting
      BY <3>1 DEF Unanswered, Resetting
    <3>3. /\ generation' = generation + 1 /\ pending' = None
      BY <2>4, <3>1, <3>2 DEF ResetHandler, EmptyPending
    <3>4. Inferring' => Inferring
      BY <2>1, <3>3 DEF Inferring, Outdated, BarrierInv, TypeOK, SessionTypeOK
    <3>5. Permit' <= Permit
      BY <1>2, <2>1, PermitNotMore DEF NoneAdded
    <3>6. CASE s2c' = s2c
      BY <1>1, <1>2, <1>3, <3>2, <3>3, <3>4, <3>5, <3>6, LoadNotMore, LoadQuiet
    <3>7. CASE pending # None /\ \E f : f.type = "result" /\ Grown(s2c, s2c', f)
      <4>1. Load' < Load
        BY <3>2, <3>3, <3>4, <3>7 DEF Load, Flag
      <4> QED
        BY <1>2, <3>2, <3>5, <3>7, <4>1, LoadAnswer
    <3> QED
      BY <2>4, <3>1, <3>2, <3>6, <3>7, ResetSends
  <2> QED
    BY <1>5, <2>3, <2>4, MessageRead
<1>6. CASE ResetDone \/ ResetFails
  <2>1. /\ InReset /\ ~InReset' /\ UNCHANGED <<c2s, pending>> /\ (Inferring' => Inferring)
    BY <1>6 DEF ResetDone, ResetFails, InReset, sessionVars, pendingVars, workerVars, Inferring,
       Outdated
  <2>2. session = clientSession /\ Resetting /\ ~Resetting'
    BY <2>1 DEF ResetInv, Unanswered, Resetting, Has
  <2>3. Load' < Load /\ Permit' = Permit
    BY <1>2, <2>1, <2>2 DEF Load, Permit, Flag
  <2>4. Load' <= Load /\ Permit' <= Permit
    BY <2>3, Counts
  <2>5. CASE s2c' = s2c
    BY <1>1, <1>2, <1>3, <2>4, <2>5, LoadQuiet
  <2>6. CASE \E f : f.type = "reset" /\ Grown(s2c, s2c', f)
    BY <1>2, <2>2, <2>3, <2>6, LoadAnnounce
  <2>7. CASE \E f : f.type = "error" /\ Grown(s2c, s2c', f)
    BY <1>2, <2>2, <2>3, <2>4, <2>7, LoadAnswer
  <2> QED
    BY <1>6, <2>5, <2>6, <2>7, AnswerSends, SentError DEF ResetFails
<1>7. CASE ResetPolicy \/ SessionClose \/ HandlerDone \/ WorkerStop
  <2>1. /\ s2c' = s2c /\ c2s' \in {c2s, <<>>} /\ pending' \in {pending, None}
        /\ (Inferring' => Inferring) /\ (InReset' => InReset)
    BY <1>7 DEF ResetPolicy, SessionClose, HandlerDone, WorkerStop, netVars, sessionVars,
       pendingVars, workerVars, Inferring, Outdated, InReset
  <2>2. NoneAdded(c2s, c2s', "reset") /\ NoneAdded(c2s, c2s', "observation")
    BY <1>1, <2>1 DEF NoneAdded
  <2>3. Resetting' => Resetting
    BY <1>1, <2>1, <2>2, HasBefore DEF Resetting
  <2>4. Load' <= Load /\ Permit' <= Permit
    BY <1>2, <2>1, <2>2, <2>3, LoadNotMore, PermitNotMore
  <2> QED
    BY <1>1, <1>2, <1>3, <2>1, <2>4, LoadQuiet
<1>8. CASE Worker /\ ~WorkerStop
  <2>1. UNCHANGED <<c2s, handler, session>>
    BY <1>8 DEF Worker, WorkerTake, WorkerFinish, sessionVars
  <2>2. /\ Resetting' <=> Resetting
        /\ Permit' = Permit /\ Permit' <= Permit
    BY <1>2, <2>1, Counts DEF Resetting, InReset, Permit
  <2>3. CASE WorkerTake
    <3>1. ~Inferring /\ pending' = None
      BY <2>3, TakeSends DEF WorkerTake, Inferring
    <3>2. CASE s2c' = s2c /\ UNCHANGED workerVars
      <4>1. ~Inferring'
        BY <2>3, <3>2 DEF workerVars, WorkerTake, Inferring
      <4>2. Load' <= Load
        BY <2>2, <3>1, <4>1, LoadNotMore
      <4> QED
        BY <1>1, <1>2, <1>3, <2>2, <3>2, <4>2, LoadQuiet
    <3>3. CASE pending # None /\ UNCHANGED workerVars /\ \E f : f.type = "result" /\ Grown(s2c, s2c', f)
      <4>1. ~Inferring'
        BY <2>3, <3>3 DEF workerVars, WorkerTake, Inferring
      <4>2. Load' < Load
        BY <2>2, <3>1, <3>3, <4>1 DEF Load, Flag
      <4> QED
        BY <1>2, <1>4, <2>2, <3>3, <4>2, LoadAnswer
    <3>4. CASE pending # None /\ s2c' = s2c
      <4>1. Load' <= Load
        BY <2>2, <3>1, <3>4 DEF Load, Flag
      <4> QED
        BY <1>1, <1>2, <1>3, <2>2, <3>4, <4>1, LoadQuiet
    <3> QED
      BY <2>3, <3>2, <3>3, <3>4, TakeSends
  <2>4. ASSUME NEW outcome \in PolicyOutcomes, WorkerFinish(outcome)
        PROVE  LoadInv'
    <3>1. worker = "infer" /\ ~Inferring' /\ UNCHANGED pending
      BY <2>4 DEF WorkerFinish, Inferring
    <3>2. CASE s2c' = s2c
      <4>1. Load' <= Load
        BY <2>2, <3>1, LoadNotMore
      <4> QED
        BY <1>1, <1>2, <1>3, <2>2, <3>2, <4>1, LoadQuiet
    <3>3. CASE ~Outdated /\ \E f : f.type = "result" /\ Grown(s2c, s2c', f)
      <4>1. Inferring
        BY <3>1, <3>3 DEF Inferring
      <4>2. Load' < Load
        BY <2>2, <3>1, <4>1 DEF Load, Flag
      <4> QED
        BY <1>2, <1>4, <2>2, <3>3, <4>1, <4>2, LoadAnswer
    <3> QED
      BY <2>4, <3>2, <3>3, FinishSends
  <2> QED
    BY <1>8, <2>3, <2>4 DEF Worker
<1> QED
  BY <1>5, <1>6, <1>7, <1>8 DEF Handler, Worker

LEMMA LoadStep ==
  TypeOK /\ TypeOK' /\ FlowInv /\ ResetInv /\ IdInv /\ BarrierInv /\ LogInv /\ FrameInv
    /\ LoadInv /\ [Next]_vars => LoadInv'
  BY LoadClient, LoadReceiver, LoadServer DEF Next, Receiver

-----------------------------------------------------------------------------
(* The theorems.                                                           *)

DeliveryInv ==
  FlowInv /\ ResetInv /\ IdInv /\ BarrierInv /\ LogInv /\ FrameInv /\ LoadInv

LEMMA DeliveryInit == Init => DeliveryInv /\ AckThenOneTerminal
<1>1. Init => AckThenOneTerminal
  BY DEF Init, AckThenOneTerminal
<1> QED
  BY <1>1, FlowInit, ResetInit, IdInit, BarrierInit, LogInit, FrameInit, LoadInit DEF DeliveryInv

LEMMA DeliveryStep ==
  TypeOK /\ TypeOK' /\ DeliveryInv /\ [Next]_vars => DeliveryInv' /\ LogAdvances
<1> SUFFICES ASSUME TypeOK, TypeOK', DeliveryInv, [Next]_vars
             PROVE  DeliveryInv' /\ LogAdvances
  OBVIOUS
<1>1. FlowInv /\ ResetInv /\ IdInv /\ BarrierInv /\ LogInv /\ FrameInv /\ LoadInv
  BY DEF DeliveryInv
<1>2. FlowInv' /\ ResetInv' /\ IdInv' /\ BarrierInv'
  BY <1>1, FlowStep, ResetStep, IdStep, BarrierStep
<1>3. LogInv' /\ LogAdvances
  BY <1>1, <1>2, LogStep
<1>4. FrameInv' /\ LoadInv'
  BY <1>1, FrameStep, LoadStep
<1> QED
  BY <1>2, <1>3, <1>4 DEF DeliveryInv

LEMMA DeliveryHolds == Spec => [](TypeOK /\ DeliveryInv)
<1>1. Spec => [][Next]_vars
  BY DEF Spec
<1>2. Spec => DeliveryInv
  BY DeliveryInit DEF Spec
<1> QED
  BY <1>1, <1>2, TypeCorrect, DeliveryStep, PTL

\* The history of an observation only grows, and only by what may follow: its
\* acknowledgement or its refusal as a repetition first, one result afterwards
\* (_LatestSession.submit, reset and _worker are the only ones to send).
THEOREM HistoryAdvances == Spec => [][LogAdvances]_vars
<1>1. Spec => [][Next]_vars
  BY DEF Spec
<1> QED
  BY <1>1, DeliveryHolds, DeliveryStep, PTL

\* Every observation the server takes is acknowledged first and answered at most
\* once, however replacements, resets, failures and a loss of the connection are
\* interleaved (_LatestSession.submit, reset, close and _worker).
THEOREM OneTerminal == Spec => []AckThenOneTerminal
<1>1. Spec => [][Next]_vars
  BY DEF Spec
<1>2. Spec => AckThenOneTerminal
  BY DeliveryInit DEF Spec
<1>3. TypeOK /\ AckThenOneTerminal /\ LogAdvances => AckThenOneTerminal'
  BY HistoriesOnly
<1>4. TypeOK /\ TypeOK' /\ DeliveryInv /\ AckThenOneTerminal /\ [Next]_vars
        => AckThenOneTerminal'
  BY <1>3, DeliveryStep
<1> QED
  BY <1>1, <1>2, <1>4, TypeCorrect, DeliveryHolds, PTL

\* Once reset() has returned, no answer about an older session can arrive any
\* more: the answers on the wire are about the session the client has adopted
\* (_LatestSession.reset, which waits for the worker, and client reset()).
THEOREM ResetBarrier == Spec => []ResetIsBarrier
<1>1. DeliveryInv => ResetIsBarrier
  BY DEF DeliveryInv, ResetInv, FrameInv, ResetIsBarrier
<1> QED
  BY <1>1, DeliveryHolds, PTL

\* The outgoing queue never holds more than six frames, of which one is an
\* acknowledgement, so that send() never suspends on the queue of 32 and a
\* handler step that sends two frames is one step (_handle_websocket).
THEOREM OutgoingBounded == Spec => []OutgoingStaysShort
<1>1. ASSUME TypeOK, FlowInv, LoadInv PROVE OutgoingStaysShort
  <2>1. Len(s2c) \in Nat
    BY <1>1, LenProperties DEF TypeOK, NetTypeOK
  <2>2. Len(s2c) + Load + Permit + Permit <= 5 + Away
    BY <1>1 DEF LoadInv
  <2>3. Load \in Nat /\ Permit \in Nat /\ Away \in Nat /\ Away <= 1
    BY Counts
  <2>4. Len(s2c) <= 6
    BY <2>1, <2>2, <2>3
  <2> QED
    BY <1>1, <2>4 DEF FlowInv, AtMostOne, OutgoingStaysShort
<1>2. TypeOK /\ DeliveryInv => OutgoingStaysShort
  BY <1>1 DEF DeliveryInv
<1> QED
  BY <1>2, DeliveryHolds, PTL

\* If every result of the policy can be encoded, an observation is skipped as
\* similar only after actions were delivered for an earlier one of the session:
\* neither a failed inference nor another session is a basis (_worker, reset).
THEOREM SkipsHaveBasis ==
  ASSUME "unsendable" \notin PolicyOutcomes
  PROVE  Spec => []SimilarHasBasis
<1>1. Spec => [][Next]_vars
  BY DEF Spec
<1>2. Spec => BasisInv /\ SimilarHasBasis
  BY BasisInit DEF Spec
<1>3. TypeOK /\ TypeOK' /\ DeliveryInv /\ BasisInv /\ SimilarHasBasis /\ [Next]_vars
        => BasisInv' /\ SimilarHasBasis'
  <2> SUFFICES ASSUME TypeOK, TypeOK', DeliveryInv, BasisInv, SimilarHasBasis, [Next]_vars
               PROVE  BasisInv' /\ SimilarHasBasis'
    OBVIOUS
  <2>1. FlowInv /\ ResetInv /\ IdInv /\ BarrierInv /\ LogInv /\ LogAdvances
    BY DeliveryStep DEF DeliveryInv
  <2> QED
    BY <2>1, BasisStep, SimilarStep
<1> QED
  BY <1>1, <1>2, <1>3, TypeCorrect, DeliveryHolds, PTL

-----------------------------------------------------------------------------
(* The refinement of ObservationLedger.                                    *)

(* The observations on the wire.                                           *)

LEMMA FlightFewer ==
  ASSUME NEW S, NEW q \in Seq(S), NEW r \in Seq(S), NoneAdded(q, r, "observation")
  PROVE  InFlight(r) \subseteq InFlight(q)
<1>1. PICK d \in {0, 1} : \A i \in 1..Len(r) :
        r[i].type = "observation" => i + d \in 1..Len(q) /\ r[i] = q[i + d]
  BY Origin DEF Traced
<1>2. ASSUME NEW i \in 1..Len(r), r[i].type = "observation"
      PROVE  r[i].obs \in InFlight(q)
  <2>1. i + d \in 1..Len(q) /\ q[i + d].type = "observation" /\ r[i].obs = q[i + d].obs
    BY <1>1, <1>2
  <2> QED
    BY <2>1 DEF InFlight
<1> QED
  BY <1>2 DEF InFlight

LEMMA FlightSame ==
  ASSUME NEW S, NEW q \in Seq(S), NEW r \in Seq(S), NEW m, Grown(q, r, m), m.type # "observation"
  PROVE  InFlight(r) = InFlight(q)
<1>1. InFlight(r) \subseteq InFlight(q)
  BY FlightFewer DEF NoneAdded
<1>2. \A i \in 1..Len(q) : i \in 1..Len(r) /\ r[i] = q[i]
  BY LenProperties DEF Grown
<1>3. InFlight(q) \subseteq InFlight(r)
  BY <1>2 DEF InFlight
<1> QED
  BY <1>1, <1>3

LEMMA FlightGrown ==
  ASSUME NEW S, NEW q \in Seq(S), NEW r \in Seq(S), NEW m, Grown(q, r, m), m.type = "observation"
  PROVE  InFlight(r) = InFlight(q) \cup {m.obs}
<1>1. \A i \in 1..Len(r) : (i \in 1..Len(q) /\ r[i] = q[i]) \/ (i = Len(q) + 1 /\ r[i] = m)
  BY GrownAt
<1>2. \A i \in 1..Len(q) : i \in 1..Len(r) /\ r[i] = q[i]
  BY LenProperties DEF Grown
<1>3. Len(q) + 1 \in 1..Len(r) /\ r[Len(q) + 1] = m
  BY LenProperties DEF Grown
<1>4. InFlight(q) \subseteq InFlight(r)
  BY <1>2 DEF InFlight
<1>5. m.obs \in InFlight(r)
  BY <1>3 DEF InFlight
<1>6. ASSUME NEW i \in 1..Len(r), r[i].type = "observation"
      PROVE  r[i].obs \in InFlight(q) \cup {m.obs}
  BY <1>1, <1>6 DEF InFlight
<1>7. InFlight(r) \subseteq InFlight(q) \cup {m.obs}
  BY <1>6 DEF InFlight
<1> QED
  BY <1>4, <1>5, <1>7

LEMMA FlightHead ==
  ASSUME NEW S, NEW q \in Seq(S), q # <<>>
  PROVE  /\ q[1].type = "observation" => InFlight(q) = InFlight(Tail(q)) \cup {q[1].obs}
         /\ q[1].type # "observation" => InFlight(q) = InFlight(Tail(q))
<1>1. /\ Kept(q, Tail(q)) /\ Len(Tail(q)) = Len(q) - 1 /\ Len(q) >= 1
      /\ \A i \in 1..Len(Tail(q)) : Tail(q)[i] = q[i + 1]
  BY KeptTail
<1>2. Len(q) \in Nat /\ Tail(q) \in Seq(S)
  BY LenProperties
<1>3. InFlight(Tail(q)) \subseteq InFlight(q)
  BY <1>1, <1>2, FlightFewer DEF NoneAdded
<1>4. 1 \in 1..Len(q)
  BY <1>1, <1>2
<1>5. q[1].type = "observation" => q[1].obs \in InFlight(q)
  BY <1>4 DEF InFlight
<1>6. ASSUME NEW i \in 1..Len(q), q[i].type = "observation", i # 1
      PROVE  q[i].obs \in InFlight(Tail(q))
  <2>1. i - 1 \in 1..Len(Tail(q)) /\ Tail(q)[i - 1] = q[i]
    BY <1>1, <1>2, <1>6
  <2> QED
    BY <1>6, <2>1 DEF InFlight
<1>7. InFlight(q) \subseteq InFlight(Tail(q)) \cup {o : o \in IF q[1].type = "observation" THEN {q[1].obs} ELSE {}}
  BY <1>6 DEF InFlight
<1> QED
  BY <1>3, <1>5, <1>7

LEMMA FlightNothing == InFlight(<<>>) = {}
  BY DEF InFlight

-----------------------------------------------------------------------------
(* The open observations and the answers, as the refinement sees them.     *)

OpenIn(current, inSlot, waiting, inferring, inferred, q) ==
  {o \in ({inSlot, waiting} \ {None}) \cup (IF inferring THEN {inferred} ELSE {}) \cup InFlight(q) :
     o.session = current}

LEMMA OpenAre ==
  /\ OpenObservations = OpenIn(clientSession, slot, pending, Inferring, item, c2s)
  /\ OpenObservations' = OpenIn(clientSession', slot', pending', Inferring', item', c2s')
  BY DEF OpenObservations, OpenIn

AnswersIn(history) ==
  {[id |-> a[1], status |-> a[2]] : a \in {b \in Ids \X Statuses : history[b[1]] = <<"ack", b[2]>>}}

LEMMA AnswersAre ==
  /\ AnswersGiven = AnswersIn(log[clientSession])
  /\ AnswersGiven' = AnswersIn(log'[clientSession'])
  BY DEF AnswersGiven, AnswersIn

LEMMA AnswerIn ==
  ASSUME NEW history, NEW x
  PROVE  x \in AnswersIn(history) <=>
           \E i \in Ids, t \in Statuses : x = [id |-> i, status |-> t] /\ history[i] = <<"ack", t>>
<1>1. ASSUME NEW i \in Ids, NEW t \in Statuses, x = [id |-> i, status |-> t], history[i] = <<"ack", t>>
      PROVE  x \in AnswersIn(history)
  <2>1. <<i, t>> \in Ids \X Statuses /\ <<i, t>>[1] = i /\ <<i, t>>[2] = t
    OBVIOUS
  <2> QED
    BY <1>1, <2>1 DEF AnswersIn
<1>2. ASSUME x \in AnswersIn(history)
      PROVE  \E i \in Ids, t \in Statuses :
               x = [id |-> i, status |-> t] /\ history[i] = <<"ack", t>>
  <2>1. PICK a \in Ids \X Statuses :
          history[a[1]] = <<"ack", a[2]>> /\ x = [id |-> a[1], status |-> a[2]]
    BY <1>2 DEF AnswersIn
  <2>2. a[1] \in Ids /\ a[2] \in Statuses
    OBVIOUS
  <2> QED
    BY <2>1, <2>2
<1> QED
  BY <1>1, <1>2

\* A history in which nothing is concluded any more than before.
LEMMA AnswersKept ==
  ASSUME NEW before, NEW after,
         \A i \in Ids : \/ after[i] = before[i]
                        \/ \A t \in Statuses : before[i] # <<"ack", t>> /\ after[i] # <<"ack", t>>
  PROVE  AnswersIn(after) = AnswersIn(before)
<1>1. \A x : x \in AnswersIn(after) <=> x \in AnswersIn(before)
  BY AnswerIn
<1> QED
  BY <1>1

\* Of the results in a history, that of observation k is new: it is t.
Concludes(before, after, k, t) ==
  /\ before[k] = <<"ack">> /\ after[k] = <<"ack", t>>
  /\ \A i \in Ids : \/ i = k \/ after[i] = before[i]
                    \/ \A u \in Statuses : before[i] # <<"ack", u>> /\ after[i] # <<"ack", u>>

LEMMA AnswersGrow ==
  ASSUME NEW before, NEW after, NEW k \in Ids, NEW t \in Statuses,
         Concludes(before, after, k, t)
  PROVE  AnswersIn(after) = AnswersIn(before) \cup {[id |-> k, status |-> t]}
<1>1. \A u \in Statuses : before[k] # <<"ack", u>>
  BY DEF Concludes
<1>2. \A u \in Statuses : after[k] = <<"ack", u>> => u = t
  BY DEF Concludes
<1>3. ASSUME NEW x, x \in AnswersIn(after)
      PROVE  x \in AnswersIn(before) \cup {[id |-> k, status |-> t]}
  BY <1>2, <1>3, AnswerIn DEF Concludes
<1>4. ASSUME NEW x, x \in AnswersIn(before)
      PROVE  x \in AnswersIn(after)
  BY <1>1, <1>4, AnswerIn DEF Concludes
<1>5. [id |-> k, status |-> t] \in AnswersIn(after)
  BY AnswerIn DEF Concludes
<1> QED
  BY <1>3, <1>4, <1>5

-----------------------------------------------------------------------------
(* The steps of the ledger, in terms of the transport.                     *)

Program == IF caller \in {"run", "resetting"} THEN caller ELSE "ended"

LedgerStep == [Ledger!LedgerNext]_(Ledger!ledgerVars)

SameLedger == UNCHANGED <<Program, clientSession, nextId, link, OpenObservations, AnswersGiven>>

LEMMA LedgerQuiet == SameLedger => LedgerStep
  BY DEF SameLedger, LedgerStep, Ledger!ledgerVars, Program

LEMMA LedgerLoses ==
  ASSUME link' = "down", OpenObservations' \subseteq OpenObservations,
         UNCHANGED <<Program, clientSession, nextId, AnswersGiven>>
  PROVE  LedgerStep
<1>1. Ledger!Lose
  BY DEF Ledger!Lose, Program
<1> QED
  BY <1>1 DEF LedgerStep, Ledger!LedgerNext

LEMMA LedgerLeaves ==
  ASSUME \/ Program' = "ended"
         \/ Program = "run" /\ Program' = "resetting",
         UNCHANGED <<clientSession, nextId, link, OpenObservations, AnswersGiven>>
  PROVE  LedgerStep
<1>1. Ledger!End \/ Ledger!BeginReset
  BY DEF Ledger!End, Ledger!BeginReset, Program
<1> QED
  BY <1>1 DEF LedgerStep, Ledger!LedgerNext

LEMMA LedgerResets ==
  ASSUME caller = "resetting", caller' = "run", clientSession' = clientSession + 1,
         nextId' = 0, OpenObservations' = {}, AnswersGiven' = {}, UNCHANGED link
  PROVE  LedgerStep
<1>1. Ledger!EndReset
  BY DEF Ledger!EndReset
<1> QED
  BY <1>1 DEF LedgerStep, Ledger!LedgerNext

LEMMA LedgerWithdraws ==
  ASSUME caller # "run", NEW gone \in SUBSET OpenObservations,
         OpenObservations' = OpenObservations \ gone,
         \/ AnswersGiven' = AnswersGiven
         \/ \E o \in gone :
              AnswersGiven' = AnswersGiven \cup {[id |-> o.id, status |-> "superseded"]},
         UNCHANGED <<caller, clientSession, nextId, link>>
  PROVE  LedgerStep
<1>1. Ledger!Withdraw
  BY DEF Ledger!Withdraw
<1> QED
  BY <1>1 DEF LedgerStep, Ledger!LedgerNext

LEMMA LedgerAnswers ==
  ASSUME NEW o \in OpenObservations, NEW status,
         OpenObservations' = OpenObservations \ {o},
         AnswersGiven' = AnswersGiven \cup {[id |-> o.id, status |-> status]},
         UNCHANGED <<caller, clientSession, nextId, link>>,
         \/ status = "superseded" /\ \E p \in OpenObservations : p.id > o.id
         \/ /\ status \in {"actions", "similar", "error"}
            /\ status = "similar" => ~o.must_go
            /\ \A p \in OpenObservations : o.id <= p.id
  PROVE  LedgerStep
<1>1. Ledger!Answer(o, status)
  BY DEF Ledger!Answer
<1>2. \/ Ledger!Supersede(o)
      \/ status \in {"actions", "similar", "error"} /\ Ledger!Process(o, status)
  BY <1>1 DEF Ledger!Supersede, Ledger!Process
<1> QED
  BY <1>2 DEF LedgerStep, Ledger!LedgerNext

LEMMA LedgerSubmits ==
  ASSUME caller = "run", caller' = "run", nextId \in Nat,
         NEW o \in [session: Sessions, id: Ids, ts: Ids, must_go: BOOLEAN, payload: Payloads],
         o.session = clientSession, o.id = nextId, nextId' = nextId + 1,
         \/ OpenObservations' = OpenObservations \cup {o}
         \/ \E last \in OpenObservations :
              /\ last.id = nextId - 1 /\ (last.must_go => o.must_go)
              /\ OpenObservations' = (OpenObservations \ {last}) \cup {o},
         UNCHANGED <<clientSession, link, AnswersGiven>>
  PROVE  LedgerStep
<1>1. o.id = (nextId - 1) + 1 /\ nextId' - 1 = o.id
  OBVIOUS
<1>2. Ledger!SubmitTo(o)
  BY <1>1 DEF Ledger!SubmitTo
<1> QED
  BY <1>2 DEF LedgerStep, Ledger!LedgerNext

-----------------------------------------------------------------------------
(* A program that repeats no timestep numbers them like its observations.  *)

NumberInv ==
  /\ nextId = callerTs + 1
  /\ slot # None => slot.id = callerTs /\ slot.ts = slot.id
  /\ \A k \in 1..Len(c2s) : c2s[k].type = "observation" => c2s[k].obs.ts = c2s[k].obs.id
  /\ highestTs = highestId

LEMMA NumberInit == Init => NumberInv
  BY DEF Init, NumberInv

\* A step that numbers nothing and sends no observation.
LEMMA NumberQuiet ==
  ASSUME TypeOK, TypeOK', NumberInv, NoneAdded(c2s, c2s', "observation"),
         UNCHANGED <<nextId, callerTs, highestId, highestTs>>, slot' \in {slot, None}
  PROVE  NumberInv'
<1>1. \E d \in {0, 1} : \A i \in 1..Len(c2s') : c2s'[i].type = "observation"
        => i + d \in 1..Len(c2s) /\ c2s'[i] = c2s[i + d]
  BY MessageOrigin DEF Traced
<1>2. PICK d \in {0, 1} : \A i \in 1..Len(c2s') : c2s'[i].type = "observation"
        => i + d \in 1..Len(c2s) /\ c2s'[i] = c2s[i + d]
  BY <1>1
<1> QED
  BY <1>2 DEF NumberInv

LEMMA NumberStep ==
  ASSUME RepeatTimesteps = FALSE, TypeOK, TypeOK', NumberInv, [Next]_vars
  PROVE  NumberInv'
<1>1. /\ c2s \in Seq(Message) /\ Len(c2s) \in Nat /\ nextId \in Nat /\ callerTs \in Int
      /\ Kept(c2s, c2s)
  BY LenProperties, KeptSame DEF TypeOK, NetTypeOK, ClientTypeOK
<1>2. ASSUME NEW ts \in NextTimesteps, NEW mustGo \in BOOLEAN, NEW payload \in Payloads,
             Submit(ts, mustGo, payload)
      PROVE  NumberInv'
  <2>1. ts = callerTs + 1
    BY DEF NextTimesteps
  <2>2. /\ slot'.id = nextId /\ slot'.ts = ts /\ callerTs' = ts /\ nextId' = nextId + 1
        /\ UNCHANGED <<c2s, highestId, highestTs>>
    BY <1>2 DEF Submit, netVars, serverVars, sessionVars
  <2>3. nextId = callerTs + 1
    BY DEF NumberInv
  <2>4. nextId' = callerTs' + 1 /\ slot'.id = callerTs' /\ slot'.ts = slot'.id
    BY <2>1, <2>2, <2>3
  <2> QED
    BY <2>2, <2>4 DEF NumberInv
<1>3. CASE ResetReturn
  <2>1. /\ nextId' = 0 /\ slot' = None /\ callerTs' = -1 /\ UNCHANGED <<c2s, highestId, highestTs>>
    BY <1>3 DEF ResetReturn, netVars, serverVars, sessionVars
  <2>2. nextId' = callerTs' + 1
    BY <2>1
  <2> QED
    BY <2>1, <2>2 DEF NumberInv
<1>4. CASE SenderTake
  <2>1. slot' = None /\ UNCHANGED <<nextId, callerTs, highestId, highestTs>>
    BY <1>4 DEF SenderTake, callerVars, serverVars, sessionVars
  <2>2. CASE c2s' = c2s
    BY <1>1, <2>1, <2>2, NumberQuiet DEF NoneAdded
  <2>3. CASE c2s' # c2s
    <3>1. PICK m : slot # None /\ m.type = "observation" /\ m.obs = slot /\ Grown(c2s, c2s', m)
      BY <1>4, <2>3, TakeSlotSends
    <3>2. \A i \in 1..Len(c2s') : (i \in 1..Len(c2s) /\ c2s'[i] = c2s[i]) \/ c2s'[i] = m
      BY <1>1, <3>1 DEF Grown
    <3> QED
      BY <2>1, <3>1, <3>2 DEF NumberInv
  <2> QED
    BY <2>2, <2>3
<1>5. CASE (Caller \/ CallerResumes) /\ UNCHANGED <<nextId, callerTs, slot>>
  <2>1. NoneAdded(c2s, c2s', "observation")
    BY <1>1, <1>5, CallerSends DEF NoneAdded
  <2>2. UNCHANGED <<highestId, highestTs>>
    BY <1>5, ClientLeaves DEF serverVars, sessionVars
  <2> QED
    BY <1>5, <2>1, <2>2, NumberQuiet
<1>6. CASE SenderStop \/ SenderResume \/ Receiver \/ UNCHANGED vars
  <2>1. UNCHANGED <<c2s, nextId, callerTs, slot, highestId, highestTs>>
    BY <1>6, ReceiverReads, ReceiverEndsSends DEF SenderStop, SenderResume, Receiver, vars,
         clientVars, callerVars, slotVars, netVars, serverVars, sessionVars
  <2> QED
    BY <1>1, <2>1, NumberQuiet DEF NoneAdded
<1>7. CASE HandleMessage
  <2>1. /\ c2s # <<>> /\ c2s[1] \in Message /\ Len(c2s) >= 1 /\ Kept(c2s, c2s')
        /\ UNCHANGED clientVars
        /\ \/ c2s[1].type = "observation" /\ SubmitHandler(c2s[1].obs)
           \/ c2s[1].type = "reset" /\ ResetHandler(c2s[1].session)
        /\ \A i \in 1..Len(c2s') : i + 1 \in 1..Len(c2s) /\ c2s'[i] = c2s[i + 1]
    BY <1>7, MessageRead
  <2>2. UNCHANGED <<nextId, callerTs, slot>>
    BY <2>1 DEF clientVars, callerVars, slotVars
  <2>3. highestTs' = highestId'
    <3>1. CASE UNCHANGED <<highestId, highestTs>>
      BY <3>1 DEF NumberInv
    <3>2. CASE c2s[1].type = "observation" /\ highestId' = c2s[1].obs.id /\ highestTs' = c2s[1].obs.ts
      <4>1. 1 \in 1..Len(c2s)
        BY <1>1, <2>1
      <4> QED
        BY <3>2, <4>1 DEF NumberInv
    <3> QED
      BY <2>1, <3>1, <3>2 DEF SubmitHandler, Accept, ResetHandler, sessionVars
  <2> QED
    BY <2>1, <2>2, <2>3 DEF NumberInv
<1>8. CASE ResetDone
  <2>1. /\ highestId' = -1 /\ highestTs' = -1 /\ UNCHANGED <<c2s, nextId, callerTs, slot>>
    BY <1>8 DEF ResetDone, clientVars, callerVars, slotVars
  <2> QED
    BY <2>1 DEF NumberInv
<1>9. CASE ResetPolicy \/ ResetFails \/ SessionClose \/ HandlerDone \/ Worker \/ Drop
  <2>1. UNCHANGED <<nextId, callerTs, slot, highestId, highestTs>>
    BY <1>9 DEF ResetPolicy, ResetFails, SessionClose, HandlerDone, Worker, WorkerTake,
         WorkerFinish, WorkerStop, Drop, clientVars, callerVars, slotVars, serverVars, sessionVars
  <2>2. c2s' = c2s \/ c2s' = <<>> \/ Drop
    BY <1>9 DEF ResetPolicy, ResetFails, SessionClose, HandlerDone, Worker, WorkerTake,
         WorkerFinish, WorkerStop, netVars
  <2>3. Kept(c2s, c2s')
    BY <1>1, <2>2, KeptNothing, DropSends
  <2> QED
    BY <2>1, <2>3, NumberQuiet DEF NoneAdded
<1>10. Caller \/ CallerResumes =>
        \/ \E ts \in NextTimesteps, mustGo \in BOOLEAN, payload \in Payloads :
             Submit(ts, mustGo, payload)
        \/ ResetReturn
        \/ UNCHANGED <<nextId, callerTs, slot>>
  BY DEF Caller, CallerResumes, PollEvent, ResetCall, Close, ResetRaise, CloseSocket,
         CloseReturn, slotVars, callerVars
<1> QED
  BY <1>2, <1>3, <1>4, <1>5, <1>6, <1>7, <1>8, <1>9, <1>10 DEF Next, Sender, Handler

-----------------------------------------------------------------------------
(* Each step of the transport is one of the ledger.                        *)

\* A step of the receiver, the handler or the worker that moves no observation.
LEMMA LedgerStays ==
  ASSUME UNCHANGED <<caller, clientSession, nextId, link, slot, pending, c2s, log,
                     item, Inferring>>
  PROVE  LedgerStep
<1>1. UNCHANGED <<OpenObservations, AnswersGiven>>
  BY OpenAre, AnswersAre
<1> QED
  BY <1>1, LedgerQuiet DEF SameLedger, Program

\* Each observation that is not yet taken up is newer than all the server knows of.
LEMMA NewerThanKnown ==
  ASSUME TypeOK, ResetInv, IdInv, LogInv, session = clientSession,
         NEW o, (o = slot /\ o # None) \/ (o \in InFlight(c2s) /\ o.session = session)
  PROVE  /\ o.id \in Nat
         /\ pending # None => pending.id \in Nat /\ pending.id < o.id
         /\ Inferring => item.id \in Nat /\ item.id < o.id
<1>1. o \in Observation /\ NothingFrom(highestId, log[session], o.id)
  <2>1. CASE o = slot /\ o # None
    BY <2>1, Numbers DEF LogInv
  <2>2. CASE o \in InFlight(c2s) /\ o.session = session
    <3>1. PICK k \in 1..Len(c2s) : c2s[k].type = "observation" /\ o = c2s[k].obs
      BY <2>2 DEF InFlight
    <3> QED
      BY <2>2, <3>1, Numbers DEF LogInv
  <2> QED
    BY <2>1, <2>2
<1>2. highestId \in Int /\ highestId < o.id /\ o.id \in Nat
  BY <1>1, Numbers DEF NothingFrom, Observation
<1>3. pending # None => pending.id = highestId /\ pending.id \in Nat
  BY Numbers DEF LogInv, Observation
<1>4. Inferring => item.id \in Nat /\ item.id <= highestId
  BY Numbers DEF LogInv, Observation, Inferring
<1> QED
  BY <1>2, <1>3, <1>4

\* Where an open observation can be.
LEMMA OpenOnes ==
  ASSUME NEW o \in OpenObservations
  PROVE  /\ o.session = clientSession
         /\ \/ o = slot /\ o # None
            \/ o = pending /\ o # None
            \/ o = item /\ Inferring
            \/ o \in InFlight(c2s)
  BY OpenAre DEF OpenIn

LEMMA StepSubmit ==
  ASSUME TypeOK, ResetInv, IdInv, LogInv, NumberInv, RepeatTimesteps = FALSE,
         NEW ts \in NextTimesteps, NEW mustGo \in BOOLEAN, NEW payload \in Payloads,
         Submit(ts, mustGo, payload)
  PROVE  LedgerStep
<1> DEFINE o == slot'
<1>1. /\ caller = "run" /\ caller' = "run" /\ nextId \in Nat /\ nextId < MaxObservations
      /\ nextId' = nextId + 1
      /\ UNCHANGED <<clientSession, link, pending, item, c2s, log>>
      /\ Inferring' = Inferring
  BY DEF Submit, TypeOK, ClientTypeOK, netVars, serverVars, pendingVars, workerVars, sessionVars,
         Inferring, Outdated
<1>2. session = clientSession /\ clientSession \in Sessions
  BY <1>1 DEF ResetInv
<1>3. ts = nextId
  BY DEF NextTimesteps, NumberInv
<1>4. /\ o = [session |-> clientSession, id |-> nextId, ts |-> ts,
              must_go |-> mustGo \/ (slot # None /\ slot.must_go), payload |-> payload]
      /\ mustGo \/ (slot # None /\ slot.must_go) \in BOOLEAN
  <2>1. slot # None => slot.must_go \in BOOLEAN
    BY Numbers DEF Observation
  <2> QED
    BY <2>1 DEF Submit
<1>5. nextId \in Ids
  BY <1>1, BoundsAssumption DEF Ids
<1>6. /\ o \in [session: Sessions, id: Ids, ts: Ids, must_go: BOOLEAN, payload: Payloads]
      /\ o.session = clientSession /\ o.id = nextId /\ o.must_go = (mustGo \/ (slot # None /\ slot.must_go))
  BY <1>2, <1>3, <1>4, <1>5
<1>7. o # None
  <2>1. o \in Observation
    <3>1. Sessions \subseteq Nat /\ Ids \subseteq Nat
      BY Numbers DEF Sessions
    <3> QED
      BY <1>6, <3>1 DEF Observation
  <2> QED
    BY <2>1, NoneAssumption
<1>8. AnswersGiven' = AnswersGiven
  BY <1>1, AnswersAre
<1>9. CASE slot = None
  <2>1. OpenObservations' = OpenObservations \cup {o}
    BY <1>1, <1>6, <1>7, <1>9, OpenAre DEF OpenIn
  <2> HIDE DEF o
  <2> QED
    BY <1>1, <1>6, <1>8, <2>1, LedgerSubmits
<1>10. CASE slot # None
  <2>1. slot.session = clientSession /\ slot.id = nextId - 1
    <3>1. callerTs \in Int /\ nextId = callerTs + 1 /\ slot.id = callerTs
      BY <1>10 DEF NumberInv, TypeOK, ClientTypeOK
    <3> QED
      BY <1>10, <3>1 DEF IdInv
  <2>2. slot.must_go => o.must_go
    BY <1>6, <1>10
  <2>3. slot # pending /\ (Inferring => slot # item)
    BY <1>2, <1>10, NewerThanKnown
  <2>4. slot \notin InFlight(c2s)
    <3>1. ASSUME NEW k \in 1..Len(c2s), c2s[k].type = "observation", c2s[k].obs = slot
          PROVE  FALSE
      <4>1. slot.id < slot.id /\ slot.id \in Nat
        BY <1>10, <2>1, <3>1, Numbers DEF IdInv, Observation
      <4> QED
        BY <4>1
    <3> QED
      BY <3>1 DEF InFlight
  <2>5. slot \in OpenObservations
    BY <1>10, <2>1, OpenAre DEF OpenIn
  <2>6. OpenObservations' = (OpenObservations \ {slot}) \cup {o}
    <3> HIDE DEF o
    <3>1. OpenObservations' = OpenIn(clientSession, o, pending, Inferring, item, c2s)
      BY <1>1, OpenAre DEF o
    <3> QED
      BY <1>6, <1>7, <1>10, <2>3, <2>4, <3>1, OpenAre DEF OpenIn
  <2> HIDE DEF o
  <2> QED
    BY <1>1, <1>6, <1>8, <2>1, <2>2, <2>5, <2>6, LedgerSubmits
<1> QED
  BY <1>9, <1>10

LEMMA StepCaller ==
  ASSUME TypeOK, ResetInv, IdInv, LogInv, NumberInv, RepeatTimesteps = FALSE,
         Caller \/ CallerResumes
  PROVE  LedgerStep
<1>0. /\ UNCHANGED <<pending, log>> /\ item' = item /\ Inferring' = Inferring /\ session' = session
      /\ c2s \in Seq(Message) /\ c2s' \in Seq(Message)
  <2>1. UNCHANGED serverVars
    BY ClientLeaves
  <2>2. TypeOK'
    BY CallerTypes, CallerResumesTypes
  <2> QED
    BY <2>1, <2>2 DEF serverVars, pendingVars, workerVars, sessionVars, Inferring, Outdated,
         TypeOK, NetTypeOK
<1>1. InFlight(c2s') = InFlight(c2s)
  BY <1>0, CallerSends, FlightSame
<1>2. CASE \E ts \in NextTimesteps, mustGo \in BOOLEAN, payload \in Payloads :
             Submit(ts, mustGo, payload)
  BY <1>2, StepSubmit
<1>3. CASE ResetReturn
  <2>1. /\ caller = "resetting" /\ rpcWaiter = "set" /\ clientSession' = rpcSession /\ nextId' = 0
        /\ slot' = None /\ caller' = "run" /\ link' = link
    BY <1>3 DEF ResetReturn, netVars
  <2>2. session = clientSession + 1 /\ rpcSession = session /\ session # clientSession
    BY <2>1, Numbers DEF ResetInv, Announced
  <2>3. pending = None /\ ~Inferring /\ NothingFrom(highestId, log[session], 0)
    BY <2>2 DEF LogInv, Inferring
  <2>4. ASSUME NEW o \in InFlight(c2s), o.session = session
        PROVE  FALSE
    <3>1. o.session <= clientSession
      BY <2>4 DEF InFlight, IdInv
    <3> QED
      BY <2>2, <2>4, <3>1, Numbers
  <2>5. OpenObservations' = {}
    <3>1. OpenObservations' = OpenIn(session, None, None, Inferring, item, c2s')
      BY <1>0, <2>1, <2>2, <2>3, OpenAre
    <3> QED
      BY <1>1, <2>3, <2>4, <3>1 DEF OpenIn
  <2>6. AnswersGiven' = {}
    <3>1. AnswersGiven' = AnswersIn(log[session])
      BY <1>0, <2>1, <2>2, AnswersAre
    <3>2. \A i \in Ids : log[session][i] = <<>>
      BY <2>3, Numbers DEF NothingFrom
    <3>3. \A i \in Ids, t \in Statuses : log[session][i] # <<"ack", t>>
      BY <3>2
    <3> QED
      BY <3>1, <3>3, AnswerIn
  <2> QED
    BY <2>1, <2>2, <2>5, <2>6, LedgerResets
<1>4. CASE PollEvent \/ ResetCall \/ Close \/ ResetRaise \/ CloseSocket \/ CloseReturn
  <2>1. UNCHANGED <<slot, nextId, clientSession, link>>
    BY <1>4 DEF PollEvent, ResetCall, Close, ResetRaise, CloseSocket, CloseReturn, slotVars, netVars
  <2>2. UNCHANGED <<OpenObservations, AnswersGiven>>
    <3>1. OpenIn(clientSession, slot, pending, Inferring, item, c2s') = OpenObservations
      BY <1>1, OpenAre DEF OpenIn
    <3> QED
      BY <1>0, <2>1, <3>1, OpenAre, AnswersAre
  <2>3. \/ Program' = Program
        \/ Program' = "ended"
        \/ Program = "run" /\ Program' = "resetting"
    BY <1>4 DEF PollEvent, ResetCall, Close, ResetRaise, CloseSocket, CloseReturn, callerVars, Program
  <2> QED
    BY <2>1, <2>2, <2>3, LedgerQuiet, LedgerLeaves DEF SameLedger
<1> QED
  BY <1>2, <1>3, <1>4 DEF Caller, CallerResumes

LEMMA StepSender ==
  ASSUME TypeOK, Sender
  PROVE  LedgerStep
<1>0. /\ UNCHANGED <<pending, log>> /\ item' = item /\ Inferring' = Inferring
      /\ c2s \in Seq(Message) /\ c2s' \in Seq(Message)
  <2>1. UNCHANGED serverVars
    BY ClientLeaves
  <2>2. TypeOK'
    BY SenderTypes
  <2> QED
    BY <2>1, <2>2 DEF serverVars, pendingVars, workerVars, sessionVars, Inferring, Outdated,
         TypeOK, NetTypeOK
<1>1. CASE SenderTake
  <2>1. UNCHANGED <<caller, clientSession, nextId, link>> /\ slot' = None
    BY <1>1 DEF SenderTake, callerVars
  <2>2. AnswersGiven' = AnswersGiven
    BY <1>0, <2>1, AnswersAre
  <2>3. CASE slot = None \/ link = "up"
    <3>1. \/ slot = None /\ c2s' = c2s
          \/ /\ slot # None /\ c2s' = Append(c2s, [type |-> "observation", obs |-> slot])
      BY <1>1, <2>3 DEF SenderTake
    <3>2. ({slot} \ {None}) \cup InFlight(c2s) = InFlight(c2s')
      <4>1. CASE slot = None
        BY <3>1, <4>1
      <4>2. CASE slot # None
        <5> DEFINE m == [type |-> "observation", obs |-> slot]
        <5>1. \E x : x.type = "observation" /\ x.obs = slot /\ Grown(c2s, c2s', x)
          BY <1>1, <2>1, <3>1, <4>2, TakeSlotSends, AppendProperties
        <5> QED
          BY <1>0, <4>2, <5>1, FlightGrown
      <4> QED
        BY <4>1, <4>2
    <3>3. OpenObservations' = OpenObservations
      <4>1. OpenIn(clientSession, None, pending, Inferring, item, c2s') = OpenObservations
        BY <3>2, OpenAre DEF OpenIn
      <4> QED
        BY <1>0, <2>1, <4>1, OpenAre
    <3> QED
      BY <2>1, <2>2, <3>3, LedgerQuiet DEF SameLedger, Program
  <2>4. CASE slot # None /\ link # "up"
    <3>1. link' = "down" /\ c2s' = c2s
      BY <1>1, <2>4 DEF SenderTake, TypeOK, NetTypeOK
    <3>2. OpenObservations' \subseteq OpenObservations
      <4>1. OpenIn(clientSession, None, pending, Inferring, item, c2s) \subseteq OpenObservations
        BY OpenAre DEF OpenIn
      <4> QED
        BY <1>0, <2>1, <3>1, <4>1, OpenAre
    <3> QED
      BY <2>1, <2>2, <3>1, <3>2, LedgerLoses DEF Program
  <2> QED
    BY <2>3, <2>4
<1>2. CASE SenderStop \/ SenderResume
  BY <1>0, <1>2, LedgerStays DEF SenderStop, SenderResume, slotVars, callerVars, netVars
<1> QED
  BY <1>1, <1>2 DEF Sender

LEMMA StepReceiver ==
  ASSUME TypeOK, Receiver
  PROVE  LedgerStep
<1>1. UNCHANGED <<callerVars, slotVars, c2s, link, serverVars>>
  BY ReceiverReads, ReceiverEndsSends DEF Receiver, netVars
<1>2. Inferring' = Inferring
  BY <1>1 DEF serverVars, workerVars, sessionVars, Inferring, Outdated
<1> QED
  BY <1>1, <1>2, LedgerStays DEF callerVars, slotVars, serverVars, pendingVars, workerVars

LEMMA StepDrop ==
  ASSUME TypeOK, TypeOK', Drop
  PROVE  LedgerStep
<1>1. Kept(c2s, c2s') /\ UNCHANGED <<clientVars, serverVars>> /\ link' = "down"
  BY DropSends DEF Drop
<1>2. InFlight(c2s') \subseteq InFlight(c2s)
  BY <1>1, FlightFewer DEF NoneAdded, TypeOK, NetTypeOK
<1>3. /\ UNCHANGED <<caller, clientSession, nextId, slot, pending, log>> /\ item' = item
      /\ Inferring' = Inferring
  BY <1>1 DEF clientVars, callerVars, slotVars, serverVars, pendingVars, workerVars, sessionVars,
       Inferring, Outdated
<1>4. OpenIn(clientSession, slot, pending, Inferring, item, c2s') \subseteq OpenObservations
  BY <1>2, OpenAre DEF OpenIn
<1> QED
  BY <1>1, <1>3, <1>4, OpenAre, AnswersAre, LedgerLoses DEF Program

LEMMA OnlyOneInFlight ==
  ASSUME TypeOK, FlowInv, c2s # <<>>, c2s[1].type = "observation"
  PROVE  InFlight(c2s) = {c2s[1].obs} /\ InFlight(Tail(c2s)) = {}
<1>1. /\ c2s \in Seq(Message) /\ Len(c2s) \in Nat /\ Len(c2s) >= 1
      /\ Len(Tail(c2s)) = Len(c2s) - 1 /\ \A i \in 1..Len(Tail(c2s)) : Tail(c2s)[i] = c2s[i + 1]
  BY KeptTail, LenProperties DEF TypeOK, NetTypeOK
<1>2. \A i \in 1..Len(Tail(c2s)) : Tail(c2s)[i].type # "observation"
  BY <1>1, AtMostOneTail DEF FlowInv
<1>3. InFlight(Tail(c2s)) = {}
  BY <1>2 DEF InFlight
<1> QED
  BY <1>1, <1>3, FlightHead

\* An observation is taken up and replaces the one that was pending.
LEMMA StepAccept ==
  ASSUME TypeOK, TypeOK', FlowInv, ResetInv, IdInv, LogInv, HandleMessage,
         c2s[1].type = "observation", c2s[1].obs.session = session, Accept(c2s[1].obs)
  PROVE  LedgerStep
<1> DEFINE o == c2s[1].obs
<1>1. /\ c2s # <<>> /\ c2s' = Tail(c2s)
      /\ UNCHANGED <<caller, clientSession, nextId, slot, link, item>>
      /\ Inferring' = Inferring /\ pending' = o
  <2>1. c2s # <<>> /\ c2s' = Tail(c2s) /\ UNCHANGED <<clientVars, link, sessionClosed, workerVars>>
    BY MessageRead
  <2>2. generation' = generation
    BY DEF HandleMessage, SubmitHandler, ResetHandler
  <2> QED
    BY <2>1, <2>2 DEF clientVars, callerVars, slotVars, workerVars, Inferring, Outdated, Accept
<1>2. InFlight(c2s) = {o} /\ InFlight(c2s') = {}
  BY <1>1, OnlyOneInFlight
<1>3. /\ session = clientSession /\ o.id \in Ids /\ log[session][o.id] = <<>> /\ highestId < o.id
      /\ o \in Observation /\ o # None /\ o.session = session /\ o.id \in Nat /\ session \in Sessions
  <2>1. 1 \in 1..Len(c2s)
    BY MessageRead, LenProperties DEF TypeOK, NetTypeOK
  <2>2. o \in Observation
    BY <2>1, Numbers
  <2>3. o.id \in Nat /\ o # None
    BY <2>2, NoneAssumption DEF Observation
  <2> QED
    BY <2>2, <2>3, TakenUp, Numbers
<1>4. /\ log'[session][o.id] = <<"ack">>
      /\ pending # None => log'[session][pending.id] = <<"ack", "superseded">>
      /\ \A i \in Ids : i # o.id /\ (pending # None => i # pending.id)
           => log'[session][i] = log[session][i]
  BY <1>3, AcceptHistories
<1>5. \A t \in Statuses : log[session][o.id] # <<"ack", t>> /\ log'[session][o.id] # <<"ack", t>>
  BY <1>3, <1>4
<1>6. CASE pending = None
  <2>1. OpenObservations' = OpenObservations
    <3> HIDE DEF o
    <3>1. OpenObservations' = OpenIn(clientSession, slot, o, Inferring, item, c2s')
      BY <1>1, OpenAre
    <3> QED
      BY <1>2, <1>3, <1>6, <3>1, OpenAre DEF OpenIn
  <2>2. AnswersGiven' = AnswersGiven
    <3>0. \A i \in Ids : \/ log'[session][i] = log[session][i]
                         \/ \A u \in Statuses : log[session][i] # <<"ack", u>> /\ log'[session][i] # <<"ack", u>>
      BY <1>4, <1>5, <1>6
    <3>1. AnswersIn(log'[session]) = AnswersIn(log[session])
      BY <3>0, AnswersKept
    <3> QED
      BY <1>1, <1>3, <3>1, AnswersAre
  <2> QED
    BY <1>1, <2>1, <2>2, LedgerQuiet DEF SameLedger, Program
<1>7. CASE pending # None
  <2>1. /\ Open(session, log[session], pending) /\ pending.id = highestId /\ pending \in Observation
        /\ pending.session = session /\ pending.id \in Ids /\ log[session][pending.id] = <<"ack">>
    BY <1>7, Numbers DEF LogInv, Open
  <2>2. pending.id \in Nat /\ pending.id < o.id /\ pending # o
    BY <1>3, <2>1 DEF Observation
  <2>3. slot # pending \/ slot = None
    BY <1>3, <2>2, NewerThanKnown
  <2>4. Inferring => item # pending
    BY <1>7 DEF LogInv
  <2>5. o \in OpenObservations /\ pending \in OpenObservations
    BY <1>2, <1>3, <1>7, <2>1, OpenAre DEF OpenIn
  <2>6. OpenObservations' = OpenObservations \ {pending}
    <3> HIDE DEF o
    <3>1. OpenObservations' = OpenIn(clientSession, slot, o, Inferring, item, c2s')
      BY <1>1, OpenAre
    <3> QED
      BY <1>2, <1>3, <1>7, <2>1, <2>2, <2>3, <2>4, <3>1, OpenAre DEF OpenIn
  <2>7. AnswersGiven' = AnswersGiven \cup {[id |-> pending.id, status |-> "superseded"]}
    <3>1. \A i \in Ids : \/ i = pending.id \/ log'[session][i] = log[session][i]
                         \/ \A u \in Statuses : log[session][i] # <<"ack", u>> /\ log'[session][i] # <<"ack", u>>
      BY <1>4, <1>5
    <3>2. "superseded" \in Statuses
      BY DEF Statuses
    <3>3. AnswersIn(log'[session]) = AnswersIn(log[session]) \cup {[id |-> pending.id, status |-> "superseded"]}
      <4>1. log'[session][pending.id] = <<"ack", "superseded">>
        BY <1>4, <1>7
      <4>2. Concludes(log[session], log'[session], pending.id, "superseded")
        BY <2>1, <3>1, <4>1 DEF Concludes
      <4> QED
        BY <2>1, <3>2, <4>2, AnswersGrow
    <3> QED
      BY <1>1, <1>3, <3>3, AnswersAre
  <2> QED
    BY <1>1, <2>2, <2>5, <2>6, <2>7, LedgerAnswers
<1> QED
  BY <1>6, <1>7

\* An observation of the session that has been reset meanwhile is refused.
LEMMA StepStale ==
  ASSUME TypeOK, TypeOK', FlowInv, ResetInv, HandleMessage,
         c2s[1].type = "observation", c2s[1].obs.session # session, SubmitHandler(c2s[1].obs)
  PROVE  LedgerStep
<1>1. /\ c2s # <<>> /\ c2s' = Tail(c2s)
      /\ UNCHANGED <<caller, clientSession, nextId, slot, link, item, pending, log>>
      /\ Inferring' = Inferring
  <2>1. c2s # <<>> /\ c2s' = Tail(c2s) /\ UNCHANGED <<clientVars, link, sessionClosed, workerVars>>
    BY MessageRead
  <2>3. UNCHANGED <<pendingVars, generation, log>>
    BY DEF SubmitHandler
  <2> QED
    BY <2>1, <2>3 DEF clientVars, callerVars, slotVars, workerVars, pendingVars, Inferring, Outdated
<1>2. InFlight(c2s) = {c2s[1].obs} /\ InFlight(c2s') = {}
  BY <1>1, OnlyOneInFlight
<1>3. OpenObservations' = OpenIn(clientSession, slot, pending, Inferring, item, c2s')
  BY <1>1, OpenAre
<1>4. AnswersGiven' = AnswersGiven
  BY <1>1, AnswersAre
<1>5. CASE c2s[1].obs.session # clientSession
  <2>1. OpenObservations' = OpenObservations
    BY <1>2, <1>3, <1>5, OpenAre DEF OpenIn
  <2> QED
    BY <1>1, <1>4, <2>1, LedgerQuiet DEF SameLedger, Program
<1>6. CASE c2s[1].obs.session = clientSession
  <2>1. caller # "run"
    BY <1>6 DEF ResetInv
  <2>2. OpenObservations' \subseteq OpenObservations
    BY <1>2, <1>3, OpenAre DEF OpenIn
  <2>3. OpenObservations' = OpenObservations \ (OpenObservations \ OpenObservations')
    BY <2>2
  <2> QED
    BY <1>1, <1>4, <2>1, <2>3, LedgerWithdraws
<1> QED
  BY <1>5, <1>6

\* A reset request withdraws what waits and what is in inference.
LEMMA StepResetHandler ==
  ASSUME TypeOK, TypeOK', ResetInv, IdInv, BarrierInv, LogInv, HandleMessage,
         c2s[1].type = "reset", ResetHandler(c2s[1].session)
  PROVE  LedgerStep
<1>1. /\ c2s # <<>> /\ c2s' = Tail(c2s) /\ Len(c2s) >= 1 /\ c2s \in Seq(Message)
      /\ UNCHANGED <<caller, clientSession, nextId, slot, link, item, worker, itemGeneration,
                     sessionClosed, session>>
  <2>1. /\ c2s # <<>> /\ c2s' = Tail(c2s) /\ Len(c2s) >= 1
        /\ UNCHANGED <<clientVars, link, sessionClosed, workerVars>>
    BY MessageRead
  <2>2. session' = session
    BY DEF ResetHandler, sessionVars
  <2> QED
    BY <2>1, <2>2 DEF clientVars, callerVars, slotVars, workerVars, TypeOK, NetTypeOK
<1>2. InFlight(c2s') = InFlight(c2s)
  BY <1>1, FlightHead
<1>3. 1 \in 1..Len(c2s)
  BY <1>1, LenProperties
<1>4. /\ session = clientSession /\ caller # "run" /\ c2s[1].session = session
  BY <1>3 DEF ResetInv, Unanswered
<1>5. pending' = None /\ generation' = generation + 1
  BY <1>4 DEF ResetHandler, EmptyPending
<1>6. ~Inferring'
  <2>1. worker = "infer" => itemGeneration # generation'
    BY <1>5 DEF BarrierInv, TypeOK, SessionTypeOK
  <2> QED
    BY <1>1, <2>1 DEF Inferring, Outdated
<1>7. OpenObservations' = OpenIn(clientSession, slot, None, Inferring', item, c2s')
  BY <1>1, <1>5, OpenAre
<1>8. OpenObservations' \subseteq OpenObservations
  BY <1>2, <1>6, <1>7, OpenAre DEF OpenIn
<1>9. OpenObservations' = OpenObservations \ (OpenObservations \ OpenObservations')
  BY <1>8
<1>10. CASE pending = None
  <2>1. AnswersGiven' = AnswersGiven
    BY <1>1, <1>4, <1>10, AnswersAre DEF ResetHandler
  <2> QED
    BY <1>1, <1>4, <1>9, <2>1, LedgerWithdraws
<1>11. CASE pending # None
  <2>1. Open(session, log[session], pending) /\ log' = Logged(log, pending, "superseded")
    BY <1>4, <1>11 DEF LogInv, ResetHandler
  <2>2. "superseded" \in Statuses \ {"duplicate"}
    BY DEF Statuses
  <2>3. /\ log'[session][pending.id] = <<"ack", "superseded">>
        /\ \A i \in Ids : i # pending.id => log'[session][i] = log[session][i]
    BY <2>1, <2>2, LogConcludes, Numbers
  <2>4. /\ Concludes(log[session], log'[session], pending.id, "superseded")
        /\ pending.id \in Ids
    BY <2>1, <2>3 DEF Concludes, Open
  <2>5. AnswersGiven' = AnswersGiven \cup {[id |-> pending.id, status |-> "superseded"]}
    BY <1>1, <1>4, <2>2, <2>4, AnswersAre, AnswersGrow
  <2>6. pending \in OpenObservations
    BY <1>4, <1>11, <2>1, OpenAre DEF OpenIn, Open
  <2>7. pending \notin OpenObservations'
    <3>1. slot # pending
      BY <1>4, <1>11, NewerThanKnown
    <3>2. pending \notin InFlight(c2s)
      BY <1>4, <1>11, <2>1, NewerThanKnown DEF Open
    <3> QED
      BY <1>2, <1>6, <1>7, <3>1, <3>2 DEF OpenIn
  <2> QED
    BY <1>1, <1>4, <1>9, <2>5, <2>6, <2>7, LedgerWithdraws
<1> QED
  BY <1>10, <1>11

LEMMA StepHandler ==
  ASSUME TypeOK, TypeOK', FlowInv, ResetInv, IdInv, BarrierInv, LogInv, NumberInv,
         Malformed = {}, Handler
  PROVE  LedgerStep
<1>1. CASE HandleMessage
  <2>1. \/ c2s[1].type = "observation" /\ c2s[1].obs \in Observation /\ SubmitHandler(c2s[1].obs)
        \/ c2s[1].type = "reset" /\ ResetHandler(c2s[1].session)
    BY <1>1, MessageRead
  <2>2. CASE c2s[1].type = "reset" /\ ResetHandler(c2s[1].session)
    BY <1>1, <2>2, StepResetHandler
  <2>3. CASE /\ c2s[1].type = "observation" /\ SubmitHandler(c2s[1].obs)
             /\ c2s[1].obs.session # session
    BY <1>1, <2>3, StepStale
  <2>4. CASE /\ c2s[1].type = "observation" /\ SubmitHandler(c2s[1].obs)
             /\ c2s[1].obs.session = session
    <3>1. highestId < c2s[1].obs.id
      BY <1>1, <2>4, TakenUp
    <3>2. c2s[1].obs.ts = c2s[1].obs.id /\ highestTs = highestId
      <4>1. 1 \in 1..Len(c2s)
        BY <1>1, MessageRead, LenProperties DEF TypeOK, NetTypeOK
      <4> QED
        BY <2>4, <4>1 DEF NumberInv
    <3>3. c2s[1].obs.id \in Int /\ highestId \in Int
      BY <1>1, <2>1, <2>4, Numbers DEF Observation
    <3>4. ~Repeated(c2s[1].obs)
      BY <3>1, <3>2, <3>3 DEF Repeated
    <3>5. Accept(c2s[1].obs)
      BY <2>4, <3>4 DEF SubmitHandler
    <3> QED
      BY <1>1, <2>4, <3>5, StepAccept
  <2> QED
    BY <2>1, <2>2, <2>3, <2>4
<1>2. CASE ResetPolicy \/ ResetDone \/ ResetFails \/ HandlerDone
  <2>1. UNCHANGED <<clientVars, link, c2s, pendingVars, sessionClosed, generation, workerVars, log>>
    BY <1>2 DEF ResetPolicy, ResetDone, ResetFails, HandlerDone, netVars, sessionVars
  <2>2. Inferring' = Inferring
    BY <2>1 DEF Inferring, Outdated, workerVars
  <2> QED
    BY <2>1, <2>2, LedgerStays DEF clientVars, callerVars, slotVars, pendingVars, workerVars
<1>3. CASE SessionClose
  <2>1. /\ link' = "down" /\ c2s' = <<>> /\ pending' = None /\ sessionClosed' = TRUE
        /\ UNCHANGED <<clientVars, workerVars, log>>
    BY <1>3 DEF SessionClose
  <2>2. ~Inferring' /\ UNCHANGED <<caller, clientSession, nextId, slot, item>>
    BY <2>1 DEF Inferring, Outdated, clientVars, callerVars, slotVars, workerVars
  <2>3. OpenObservations' = OpenIn(clientSession, slot, None, Inferring', item, <<>>)
    BY <2>1, <2>2, OpenAre
  <2>4. OpenObservations' \subseteq OpenObservations
    BY <2>2, <2>3, FlightNothing, OpenAre DEF OpenIn
  <2>5. AnswersGiven' = AnswersGiven
    BY <2>1, <2>2, AnswersAre
  <2> QED
    BY <2>1, <2>2, <2>4, <2>5, LedgerLoses DEF Program
<1> QED
  BY <1>1, <1>2, <1>3 DEF Handler

LEMMA StepTake ==
  ASSUME TypeOK, ResetInv, IdInv, LogInv, WorkerTake
  PROVE  LedgerStep
<1>1. /\ UNCHANGED <<caller, clientSession, nextId, slot, link, c2s, generation, sessionClosed>>
      /\ worker = "wait" /\ ~sessionClosed /\ ~Inferring /\ pending' = None
  BY DEF WorkerTake, EmptyPending, clientVars, callerVars, slotVars, sessionVars, Inferring
<1>2. CASE pending = None /\ UNCHANGED <<log, workerVars>>
  <2>1. UNCHANGED <<pending, item>> /\ ~Inferring'
    BY <1>1, <1>2 DEF Inferring, workerVars
  <2>2. OpenObservations' = OpenIn(clientSession, slot, pending, Inferring', item, c2s)
    BY <1>1, <2>1, OpenAre
  <2>3. OpenObservations' = OpenObservations
    BY <1>1, <2>1, <2>2, OpenAre DEF OpenIn
  <2> QED
    BY <1>1, <1>2, <2>3, AnswersAre, LedgerQuiet DEF SameLedger, Program
<1>3. CASE pending # None /\ UNCHANGED log /\ worker' = "infer" /\ item' = pending
           /\ itemGeneration' = generation
  <2>1. Inferring'
    BY <1>1, <1>3 DEF Inferring, Outdated
  <2>2. OpenObservations' = OpenIn(clientSession, slot, None, Inferring', pending, c2s)
    BY <1>1, <1>3, OpenAre
  <2>3. OpenObservations' = OpenObservations
    BY <1>1, <1>3, <2>1, <2>2, OpenAre DEF OpenIn
  <2> QED
    BY <1>1, <1>3, <2>3, AnswersAre, LedgerQuiet DEF SameLedger, Program
<1>4. CASE /\ pending # None /\ ~pending.must_go /\ UNCHANGED workerVars
           /\ log' = Logged(log, pending, "similar")
  <2>1. session = clientSession /\ Open(session, log[session], pending) /\ "similar" \in Statuses \ {"duplicate"}
    BY <1>4 DEF LogInv, Statuses
  <2>2. /\ log'[session][pending.id] = <<"ack", "similar">>
        /\ \A i \in Ids : i # pending.id => log'[session][i] = log[session][i]
    BY <1>4, <2>1, LogConcludes, Numbers
  <2>3. Concludes(log[session], log'[session], pending.id, "similar") /\ pending.id \in Ids
    BY <2>1, <2>2 DEF Concludes, Open
  <2>4. AnswersGiven' = AnswersGiven \cup {[id |-> pending.id, status |-> "similar"]}
    BY <1>1, <2>1, <2>3, AnswersAre, AnswersGrow
  <2>5. pending \in OpenObservations
    BY <1>4, <2>1, OpenAre DEF OpenIn, Open
  <2>6. UNCHANGED item /\ ~Inferring'
    BY <1>1, <1>4 DEF Inferring, workerVars
  <2>7. pending.id \in Nat /\ pending.session = session
    BY <1>4, <2>1, Numbers DEF Observation, Open
  <2>8. ASSUME NEW p \in OpenObservations
        PROVE  p = pending \/ (p.id \in Nat /\ pending.id < p.id)
    BY <1>1, <1>4, <2>1, <2>8, OpenOnes, NewerThanKnown
  <2>9. \A p \in OpenObservations : pending.id <= p.id
    BY <2>7, <2>8
  <2>10. slot # pending \/ slot = None
    BY <1>4, <2>1, <2>7, NewerThanKnown
  <2>11. pending \notin InFlight(c2s)
    BY <1>4, <2>1, <2>7, NewerThanKnown
  <2>12. OpenObservations' = OpenIn(clientSession, slot, None, Inferring', item, c2s)
    BY <1>1, <2>6, OpenAre
  <2>13. OpenObservations' = OpenObservations \ {pending}
    BY <1>1, <1>4, <2>6, <2>10, <2>11, <2>12, OpenAre DEF OpenIn
  <2> QED
    BY <1>1, <1>4, <2>4, <2>5, <2>9, <2>13, LedgerAnswers
<1> QED
  BY <1>2, <1>3, <1>4 DEF WorkerTake

LEMMA StepFinish ==
  ASSUME TypeOK, ResetInv, IdInv, LogInv, NEW outcome \in PolicyOutcomes, WorkerFinish(outcome)
  PROVE  LedgerStep
<1>1. /\ UNCHANGED <<caller, clientSession, nextId, slot, link, c2s, pending>>
      /\ worker = "infer" /\ ~Inferring'
  BY DEF WorkerFinish, clientVars, callerVars, slotVars, Inferring
<1>2. OpenObservations' = OpenIn(clientSession, slot, pending, Inferring', item', c2s)
  BY <1>1, OpenAre
<1>3. CASE Outdated
  <2>1. ~Inferring /\ log' = log
    BY <1>3 DEF Inferring, WorkerFinish
  <2>2. OpenObservations' = OpenObservations
    BY <1>1, <1>2, <2>1, OpenAre DEF OpenIn
  <2> QED
    BY <1>1, <2>1, <2>2, AnswersAre, LedgerQuiet DEF SameLedger, Program
<1>4. CASE ~Outdated
  <2> DEFINE status == IF outcome = "ok" THEN "actions" ELSE "error"
  <2>1. Inferring /\ log' = Logged(log, item, status)
    BY <1>1, <1>4 DEF Inferring, WorkerFinish
  <2>2. /\ session = clientSession /\ Open(session, log[session], item)
        /\ status \in Statuses \ {"duplicate"} /\ status \in {"actions", "error"}
    BY <2>1 DEF LogInv, Statuses, Inferring
  <2> HIDE DEF status
  <2>3. /\ log'[session][item.id] = <<"ack", status>>
        /\ \A i \in Ids : i # item.id => log'[session][i] = log[session][i]
    BY <2>1, <2>2, LogConcludes, Numbers
  <2>4. Concludes(log[session], log'[session], item.id, status) /\ item.id \in Ids
    BY <2>2, <2>3 DEF Concludes, Open
  <2>5. AnswersGiven' = AnswersGiven \cup {[id |-> item.id, status |-> status]}
    BY <1>1, <2>2, <2>4, AnswersAre, AnswersGrow
  <2>6. item \in OpenObservations
    BY <2>1, <2>2, OpenAre DEF OpenIn, Open
  <2>7. item.id \in Nat /\ item.session = session
    BY <2>1, <2>2, Numbers DEF Observation, Open, Inferring
  <2>8. pending # None => pending.id \in Nat /\ item.id <= pending.id /\ pending # item
    BY <2>1, Numbers DEF LogInv, Observation
  <2>9. ASSUME NEW p \in OpenObservations
        PROVE  p = item \/ (p.id \in Nat /\ item.id <= p.id)
    BY <2>1, <2>2, <2>8, <2>9, OpenOnes, NewerThanKnown
  <2>10. \A p \in OpenObservations : item.id <= p.id
    BY <2>7, <2>9
  <2>11. (slot # item \/ slot = None) /\ item \notin InFlight(c2s)
    BY <2>1, <2>2, <2>7, NewerThanKnown
  <2>12. item # None
    BY <2>1, Numbers, NoneAssumption DEF Inferring
  <2>13. OpenObservations' = OpenObservations \ {item}
    BY <1>1, <1>2, <2>1, <2>8, <2>11, <2>12, OpenAre DEF OpenIn
  <2> QED
    BY <1>1, <2>2, <2>5, <2>6, <2>10, <2>13, LedgerAnswers
<1> QED
  BY <1>3, <1>4

LEMMA StepStop == WorkerStop => LedgerStep
<1> SUFFICES ASSUME WorkerStop PROVE LedgerStep
  OBVIOUS
<1>1. /\ UNCHANGED <<clientVars, netVars, pendingVars, item, log>>
      /\ worker = "wait" /\ worker' = "done"
  BY DEF WorkerStop
<1>2. Inferring' = Inferring
  BY <1>1 DEF Inferring
<1> QED
  BY <1>1, <1>2, LedgerStays DEF clientVars, callerVars, slotVars, netVars, pendingVars

LEMMA LedgerInitial == Init => Ledger!LedgerInit
<1> SUFFICES ASSUME Init PROVE Ledger!LedgerInit
  OBVIOUS
<1>1. /\ slot = None /\ pending = None /\ ~Inferring /\ c2s = <<>> /\ clientSession = 1
      /\ caller = "run" /\ nextId = 0 /\ link = "up"
      /\ \A i \in Ids : log[clientSession][i] = <<>>
  BY BoundsAssumption DEF Init, Inferring, Sessions
<1>2. OpenObservations = {}
  BY <1>1, OpenAre, FlightNothing DEF OpenIn
<1>3. AnswersGiven = {}
  <2>1. \A i \in Ids, t \in Statuses : log[clientSession][i] # <<"ack", t>>
    BY <1>1
  <2> QED
    BY <2>1, AnswersAre, AnswerIn
<1> QED
  BY <1>1, <1>2, <1>3 DEF Ledger!LedgerInit

LEMMA StepLedger ==
  ASSUME Malformed = {}, RepeatTimesteps = FALSE, TypeOK, TypeOK', DeliveryInv, NumberInv,
         [Next]_vars
  PROVE  LedgerStep
<1> USE DEF DeliveryInv
<1>1. CASE Caller \/ CallerResumes
  BY <1>1, StepCaller
<1>2. CASE Sender \/ Receiver \/ Drop
  BY <1>2, StepSender, StepReceiver, StepDrop
<1>3. CASE Handler
  BY <1>3, StepHandler
<1>4. CASE Worker
  BY <1>4, StepTake, StepFinish, StepStop DEF Worker
<1>5. CASE UNCHANGED vars
  <2>1. Inferring' = Inferring
    BY <1>5 DEF vars, serverVars, workerVars, sessionVars, Inferring, Outdated
  <2> QED
    BY <1>5, <2>1, LedgerStays DEF vars, clientVars, callerVars, slotVars, netVars, serverVars,
       pendingVars, workerVars
<1> QED
  BY <1>1, <1>2, <1>3, <1>4, <1>5 DEF Next

\* The transport implements the ledger, for a program that repeats no timestep and
\* submits no malformed payload: whatever the connection, the policy and close() do,
\* an observation is answered at most once, the oldest first, and none vanishes but
\* by a reset, with the connection or for the next one, which takes over its mark.
THEOREM TransportImplementsLedger ==
  ASSUME Malformed = {}, RepeatTimesteps = FALSE
  PROVE  Spec => ImplementsLedger
<1>1. Init => Ledger!LedgerInit /\ NumberInv
  BY LedgerInitial, NumberInit
<1>2. TypeOK /\ TypeOK' /\ DeliveryInv /\ NumberInv /\ [Next]_vars => NumberInv' /\ LedgerStep
  BY NumberStep, StepLedger
<1> QED
  BY <1>1, <1>2, DeliveryHolds, PTL DEF Spec, ImplementsLedger, Ledger!LedgerSpec, LedgerStep

=============================================================================
