------------------------ MODULE PolicyServer_proofs ------------------------
(***************************************************************************)
(* Theorems about PolicyServer for any set of connections: who owns the    *)
(* policy, and who may begin to call it.                                   *)
(***************************************************************************)
EXTENDS PolicyServer, SequenceTheorems, TLAPS

-----------------------------------------------------------------------------
(* Lemmas about the queue of calls.                                         *)

\* A call that begins is the only one that is new in the queue.
LEMMA CallBegins ==
  ASSUME TypeOK, NEW u \in Tasks, callQueue' = Append(callQueue, u), NEW t
  PROVE  Calling(t)' <=> (Calling(t) \/ t = u)
<1>1. callQueue \in Seq(Tasks) /\ Len(callQueue) \in Nat
  BY DEF TypeOK
<1>2. /\ Len(callQueue') = Len(callQueue) + 1
      /\ \A k \in 1..Len(callQueue) : callQueue'[k] = callQueue[k]
      /\ callQueue'[Len(callQueue) + 1] = u
  BY <1>1, AppendProperties
<1> QED
  BY <1>1, <1>2 DEF Calling

\* No call begins when one ends.
LEMMA CallEnded ==
  ASSUME TypeOK, callQueue # <<>>, callQueue' = Tail(callQueue), NEW t, Calling(t)'
  PROVE  Calling(t)
<1>1. callQueue \in Seq(Tasks)
  BY DEF TypeOK
<1>2. /\ Len(callQueue') = Len(callQueue) - 1
      /\ \A k \in 1..Len(callQueue') : callQueue'[k] = callQueue[k + 1]
  BY <1>1, HeadTailProperties
<1>3. PICK k \in 1..Len(callQueue') : callQueue'[k] = t
  BY DEF Calling
<1>4. k + 1 \in 1..Len(callQueue) /\ callQueue[k + 1] = t
  BY <1>1, <1>2, <1>3
<1> QED
  BY <1>4 DEF Calling

LEMMA CallUnchanged == UNCHANGED callQueue => \A t : Calling(t)' <=> Calling(t)
  BY DEF Calling

-----------------------------------------------------------------------------
(* The type invariant.                                                      *)

\* Every variable keeps its type.
THEOREM ServerTypeCorrect == Spec => []TypeOK
<1>1. Init => TypeOK
  BY DEF Init, TypeOK
<1>2. TypeOK /\ [Next]_vars => TypeOK'
  <2> SUFFICES ASSUME TypeOK, [Next]_vars PROVE TypeOK'
    OBVIOUS
  <2> USE DEF TypeOK
  <2>1. ASSUME NEW c \in Connections, LegacyCall(c) \/ SessionResetCall(c)
        PROVE  TypeOK'
    <3>1. <<c, "handler">> \in Tasks
      BY DEF Tasks
    <3>2. callQueue \in Seq(Tasks) /\ callQueue' = Append(callQueue, <<c, "handler">>)
      BY <2>1 DEF LegacyCall, SessionResetCall
    <3>3. callQueue' \in Seq(Tasks)
      BY <3>1, <3>2, AppendProperties
    <3> QED
      BY <2>1, <3>3 DEF LegacyCall, SessionResetCall
  <2>2. ASSUME NEW c \in Connections, WorkerCall(c)
        PROVE  TypeOK'
    <3>1. <<c, "worker">> \in Tasks
      BY DEF Tasks
    <3>2. callQueue' \in Seq(Tasks)
      BY <2>2, <3>1 DEF WorkerCall
    <3> QED
      BY <2>2, <3>2 DEF WorkerCall
  <2>3. ASSUME NEW c \in Connections,
               Connect(c) \/ StartAsync(c) \/ SessionReset(c) \/ PeerLeaves(c)
                 \/ ConnectionEnds(c) \/ Release(c)
        PROVE  TypeOK'
    BY <2>3 DEF Connect, StartAsync, SessionReset, PeerLeaves, ConnectionEnds, Release
  <2>4. CASE CallEnds
    <3>1. callQueue' \in Seq(Tasks) /\ Head(callQueue) \in Tasks
      BY <2>4, HeadTailProperties DEF CallEnds
    <3>2. handler' \in [Connections -> {"off", "recv", "idleWait", "call", "closing"}]
      BY <2>4, <3>1 DEF CallEnds, Tasks
    <3> QED
      BY <2>4, <3>1, <3>2 DEF CallEnds
  <2>5. CASE UNCHANGED vars
    BY <2>5 DEF vars
  <2> QED
    BY <2>1, <2>2, <2>3, <2>4, <2>5 DEF Next, Server
<1> QED
  BY <1>1, <1>2, PTL DEF Spec

-----------------------------------------------------------------------------
(* The ownership of the policy.                                             *)

\* OwnedUntilIdle and ResetAfterWorker with what keeps them: a reset that waits
\* for its worker belongs to a session.
OwnerInv ==
  /\ OwnedUntilIdle
  /\ ResetAfterWorker
  /\ \A c \in Connections : handler[c] = "idleWait" => session[c] = "open"

LEMMA OwnerInit == Init => OwnerInv
<1>1. Init => \A t : ~Calling(t)
  BY DEF Init, Calling
<1> QED
  BY <1>1 DEF Init, OwnerInv, OwnedUntilIdle, ResetAfterWorker

LEMMA OwnerStep == TypeOK /\ OwnerInv /\ [Next]_vars => OwnerInv'
<1> SUFFICES ASSUME TypeOK, OwnerInv, [Next]_vars PROVE OwnerInv'
  OBVIOUS
<1> USE DEF OwnerInv, OwnedUntilIdle, ResetAfterWorker
<1>1. ASSUME NEW c \in Connections,
             Connect(c) \/ StartAsync(c) \/ SessionReset(c) \/ PeerLeaves(c)
               \/ ConnectionEnds(c)
      PROVE  OwnerInv'
  <2>1. \A t : Calling(t)' <=> Calling(t)
    BY <1>1, CallUnchanged DEF Connect, StartAsync, SessionReset, PeerLeaves, ConnectionEnds
  <2> QED
    BY <1>1, <2>1, ConnectionsAssumption DEF TypeOK, Connect, StartAsync, SessionReset,
       PeerLeaves, ConnectionEnds
<1>2. ASSUME NEW c \in Connections, LegacyCall(c) \/ SessionResetCall(c)
      PROVE  OwnerInv'
  <2>1. <<c, "handler">> \in Tasks
    BY DEF Tasks
  <2>2. callQueue' = Append(callQueue, <<c, "handler">>)
    BY <1>2 DEF LegacyCall, SessionResetCall
  <2>3. \A d \in Connections : Calling(<<d, "worker">>)' <=> Calling(<<d, "worker">>)
    BY <2>1, <2>2, CallBegins
  <2> QED
    BY <1>2, <2>3 DEF TypeOK, LegacyCall, SessionResetCall
<1>3. ASSUME NEW c \in Connections, WorkerCall(c)
      PROVE  OwnerInv'
  <2>1. <<c, "worker">> \in Tasks
    BY DEF Tasks
  <2>2. \A d \in Connections :
          Calling(<<d, "worker">>)' <=> (Calling(<<d, "worker">>) \/ d = c)
    BY <1>3, <2>1, CallBegins DEF WorkerCall
  <2> QED
    BY <1>3, <2>2 DEF TypeOK, WorkerCall
<1>4. ASSUME NEW c \in Connections, Release(c)
      PROVE  OwnerInv'
  <2>1. \A t : Calling(t)' <=> Calling(t)
    BY <1>4, CallUnchanged DEF Release
  <2> QED
    BY <1>4, <2>1 DEF TypeOK, Release
<1>5. CASE CallEnds
  <2>1. \A t : Calling(t)' => Calling(t)
    BY <1>5, CallEnded DEF CallEnds
  <2>2. Head(callQueue) \in Tasks
    BY <1>5, HeadTailProperties DEF CallEnds, TypeOK
  <2>3. \A d \in Connections : handler'[d] \in {handler[d], "recv"}
    BY <1>5, <2>2 DEF CallEnds, TypeOK, Tasks
  <2> QED
    BY <1>5, <2>1, <2>3 DEF CallEnds
<1>6. CASE UNCHANGED vars
  BY <1>6, CallUnchanged DEF vars
<1> QED
  BY <1>1, <1>2, <1>3, <1>4, <1>5, <1>6 DEF Next, Server

LEMMA OwnerHolds == Spec => [](TypeOK /\ OwnerInv)
<1>1. Spec => Init /\ [][Next]_vars
  BY DEF Spec
<1> QED
  BY <1>1, ServerTypeCorrect, OwnerInit, OwnerStep, PTL

\* A session keeps the policy until its worker's last call has ended: at most
\* one session uses the policy at a time, however its connection ends.
THEOREM Owned == Spec => []OwnedUntilIdle
<1>1. OwnerInv => OwnedUntilIdle
  BY DEF OwnerInv
<1> QED
  BY <1>1, OwnerHolds, PTL

\* No inference of a session runs or waits while its reset does.
THEOREM ResetSerial == Spec => []ResetAfterWorker
<1>1. OwnerInv => ResetAfterWorker
  BY DEF OwnerInv
<1> QED
  BY <1>1, OwnerHolds, PTL

\* While a session owns the policy, no other connection enters the queue for it.
THEOREM NoNewForeign == Spec => NoNewForeignCalls
<1>1. ASSUME TypeOK, OwnerInv, Next, owner # None, owner' = owner,
             NEW t \in Tasks, Foreign(t), Calling(t)'
      PROVE  Calling(t)
  <2> USE DEF OwnerInv, OwnedUntilIdle
  <2>1. ASSUME NEW c \in Connections, LegacyCall(c) \/ SessionResetCall(c)
        PROVE  Calling(t)
    <3>1. <<c, "handler">> \in Tasks /\ callQueue' = Append(callQueue, <<c, "handler">>)
      BY <2>1 DEF LegacyCall, SessionResetCall, Tasks
    <3>2. owner = c
      BY <1>1, <2>1 DEF LegacyCall, SessionResetCall
    <3> QED
      BY <1>1, <3>1, <3>2, CallBegins DEF Foreign
  <2>2. ASSUME NEW c \in Connections, WorkerCall(c)
        PROVE  Calling(t)
    <3>1. <<c, "worker">> \in Tasks /\ callQueue' = Append(callQueue, <<c, "worker">>)
      BY <2>2 DEF WorkerCall, Tasks
    <3>2. owner = c
      BY <1>1, <2>2 DEF WorkerCall
    <3> QED
      BY <1>1, <3>1, <3>2, CallBegins DEF Foreign
  <2>3. ASSUME NEW c \in Connections,
               Connect(c) \/ StartAsync(c) \/ SessionReset(c) \/ PeerLeaves(c)
                 \/ ConnectionEnds(c) \/ Release(c)
        PROVE  Calling(t)
    BY <1>1, <2>3, CallUnchanged DEF Connect, StartAsync, SessionReset, PeerLeaves,
       ConnectionEnds, Release
  <2>4. CASE CallEnds
    BY <1>1, <2>4, CallEnded DEF CallEnds
  <2> QED
    BY <1>1, <2>1, <2>2, <2>3, <2>4 DEF Next, Server
<1>2. TypeOK /\ OwnerInv /\ [Next]_vars
        => [(owner # None /\ owner' = owner) =>
              \A t \in Tasks : (Foreign(t) /\ Calling(t)') => Calling(t)]_vars
  BY <1>1
<1> QED
  BY <1>2, OwnerHolds, PTL DEF Spec, NoNewForeignCalls

=============================================================================
