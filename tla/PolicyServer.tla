--------------------------- MODULE PolicyServer ---------------------------
(***************************************************************************)
(* The policy server as its connections share it                           *)
(* (deploy/xtrainer/websocket_policy_server.py): the ownership of the      *)
(* asynchronous control session (_async_owner), the lock around every      *)
(* policy call, the request/response ("legacy") calls of other connections *)
(* and the end of a connection.  What happens inside one session is        *)
(* LatestTransport's subject; here its worker calls the policy whenever it *)
(* likes while the session is open.                                        *)
(*                                                                         *)
(* asyncio.Lock wakes its waiters first in, first out, and a new caller    *)
(* queues behind them: callQueue holds the caller that has the lock, whose *)
(* policy call is running in the executor, and then those that wait.       *)
(***************************************************************************)
EXTENDS Integers, Sequences, FiniteSets

CONSTANTS
  Connections,  \* WebSocket connections, each of which may come back
  None          \* no owner

ASSUME ConnectionsAssumption == None \notin Connections

\* The tasks that call the policy: a connection's message loop and the worker
\* of its session.
Tasks == Connections \X {"handler", "worker"}

VARIABLES
  peer,       \* connections whose client is still there
  handler,    \* the message loop: "off", "recv", "idleWait", "call", "closing"
  session,    \* the loop's session variable: "none", "open", "closed"
  owner,      \* _async_owner
  callQueue   \* tasks inside _call_policy, in the order of the lock

vars == <<peer, handler, session, owner, callQueue>>

Init ==
  /\ peer = {}
  /\ handler = [c \in Connections |-> "off"]
  /\ session = [c \in Connections |-> "none"]
  /\ owner = None
  /\ callQueue = <<>>

Calling(t) == \E k \in 1..Len(callQueue) : callQueue[k] = t
Foreign(t) == t[1] # owner

Connect(c) ==
  /\ handler[c] = "off"
  /\ peer' = peer \cup {c}
  /\ handler' = [handler EXCEPT ![c] = "recv"]
  /\ UNCHANGED <<session, owner, callQueue>>

\* start_async; while another connection owns the policy it is refused.
StartAsync(c) ==
  /\ handler[c] = "recv" /\ c \in peer
  /\ session[c] = "none"
  /\ owner \in {None, c}
  /\ owner' = c
  /\ session' = [session EXCEPT ![c] = "open"]
  /\ UNCHANGED <<peer, handler, callQueue>>

\* infer or reset on a connection without a session (_dispatch): the ownership
\* is checked before the lock is awaited, and not again.
LegacyCall(c) ==
  /\ handler[c] = "recv" /\ c \in peer
  /\ session[c] = "none"
  /\ owner \in {None, c}
  /\ handler' = [handler EXCEPT ![c] = "call"]
  /\ callQueue' = Append(callQueue, <<c, "handler">>)
  /\ UNCHANGED <<peer, session, owner>>

\* The session's worker takes an observation and calls policy.infer.  There is
\* none to take while the handler resets or closes the session.
WorkerCall(c) ==
  /\ session[c] = "open" /\ handler[c] = "recv"
  /\ ~Calling(<<c, "worker">>)
  /\ callQueue' = Append(callQueue, <<c, "worker">>)
  /\ UNCHANGED <<peer, handler, session, owner>>

\* A reset of the session waits until its worker is idle ...
SessionReset(c) ==
  /\ session[c] = "open" /\ handler[c] = "recv" /\ c \in peer
  /\ handler' = [handler EXCEPT ![c] = "idleWait"]
  /\ UNCHANGED <<peer, session, owner, callQueue>>

\* ... and then calls policy.reset.
SessionResetCall(c) ==
  /\ handler[c] = "idleWait"
  /\ ~Calling(<<c, "worker">>)
  /\ handler' = [handler EXCEPT ![c] = "call"]
  /\ callQueue' = Append(callQueue, <<c, "handler">>)
  /\ UNCHANGED <<peer, session, owner>>

\* Mutant of CallEnds: the lock goes to the caller that came last.
CallEndsUnfairly ==
  /\ callQueue # <<>>
  /\ LET waiting == Tail(callQueue)
         last == Len(waiting)
     IN callQueue' = IF waiting = <<>> THEN <<>>
                     ELSE <<waiting[last]>> \o SubSeq(waiting, 1, last - 1)
  /\ LET t == Head(callQueue)
     IN handler' = IF t[2] = "handler" THEN [handler EXCEPT ![t[1]] = "recv"]
                                       ELSE handler
  /\ UNCHANGED <<peer, session, owner>>

\* The running policy call ends, well or badly: its caller goes on.
CallEnds ==
  /\ callQueue # <<>>
  /\ callQueue' = Tail(callQueue)
  /\ LET t == Head(callQueue)
     IN handler' = IF t[2] = "handler" THEN [handler EXCEPT ![t[1]] = "recv"]
                                       ELSE handler
  /\ UNCHANGED <<peer, session, owner>>

PeerLeaves(c) ==
  /\ c \in peer
  /\ peer' = peer \ {c}
  /\ UNCHANGED <<handler, session, owner, callQueue>>

\* The message loop notices and runs its finally block: session.close waits for
\* the worker, with the policy call it may be in.
ConnectionEnds(c) ==
  /\ handler[c] = "recv" /\ c \notin peer
  /\ handler' = [handler EXCEPT ![c] = "closing"]
  /\ session' = [session EXCEPT ![c] = IF @ = "open" THEN "closed" ELSE @]
  /\ UNCHANGED <<peer, owner, callQueue>>

\* Mutant of Release: it does not wait for the worker's last call.
ReleaseAtOnce(c) ==
  /\ handler[c] = "closing"
  /\ owner' = IF owner = c THEN None ELSE owner
  /\ session' = [session EXCEPT ![c] = "none"]
  /\ handler' = [handler EXCEPT ![c] = "off"]
  /\ UNCHANGED <<peer, callQueue>>

\* Mutant of Release: the ownership is kept.
ReleaseNothing(c) ==
  /\ handler[c] = "closing"
  /\ ~Calling(<<c, "worker">>)
  /\ session' = [session EXCEPT ![c] = "none"]
  /\ handler' = [handler EXCEPT ![c] = "off"]
  /\ UNCHANGED <<peer, owner, callQueue>>

\* Only then is the ownership given back.
Release(c) ==
  /\ handler[c] = "closing"
  /\ ~Calling(<<c, "worker">>)
  /\ owner' = IF owner = c THEN None ELSE owner
  /\ session' = [session EXCEPT ![c] = "none"]
  /\ handler' = [handler EXCEPT ![c] = "off"]
  /\ UNCHANGED <<peer, callQueue>>

Server(c) == SessionResetCall(c) \/ ConnectionEnds(c) \/ Release(c)

Next ==
  \/ \E c \in Connections :
       \/ Connect(c) \/ StartAsync(c) \/ LegacyCall(c) \/ WorkerCall(c)
       \/ SessionReset(c) \/ PeerLeaves(c) \/ Server(c)
  \/ CallEnds

Spec == Init /\ [][Next]_vars

\* Every policy call ends and the server's tasks run; clients owe nothing.
FairSpec ==
  /\ Spec
  /\ WF_vars(CallEnds)
  /\ \A c \in Connections : WF_vars(Server(c))

-----------------------------------------------------------------------------
(* Properties.                                                              *)

TypeOK ==
  /\ peer \subseteq Connections
  /\ handler \in [Connections -> {"off", "recv", "idleWait", "call", "closing"}]
  /\ session \in [Connections -> {"none", "open", "closed"}]
  /\ owner \in Connections \cup {None}
  /\ callQueue \in Seq(Tasks)

\* The policy stays with a session until the worker's last call has really
\* ended, so two sessions never use it at once (docs: no transfer of the
\* ownership before the running model call ends).
OwnedUntilIdle ==
  \A c \in Connections :
    (session[c] # "none" \/ Calling(<<c, "worker">>)) => owner = c

\* While a session's reset is in the lock's queue or runs, its worker neither
\* infers nor waits to: no observation of the old session reaches the policy
\* after the reset.
ResetAfterWorker ==
  \A c \in Connections :
    (session[c] = "open" /\ handler[c] = "call") => ~Calling(<<c, "worker">>)

\* While a session owns the policy, no other connection begins to call it.
NoNewForeignCalls ==
  [][(owner # None /\ owner' = owner) =>
       \A t \in Tasks : (Foreign(t) /\ Calling(t)') => Calling(t)]_vars

\* Nobody starves at the policy lock, whoever else keeps calling.
CallsEnd == \A t \in Tasks : Calling(t) ~> ~Calling(t)

\* The policy of a client that left becomes free again.
OwnershipReturns ==
  \A c \in Connections : (owner = c /\ c \notin peer) ~> (owner # c \/ c \in peer)
===========================================================================
