----------------------- MODULE MCLatestTransport -----------------------
(***************************************************************************)
(* LatestTransport for TLC, with the refinement mapping that shows that it *)
(* implements ObservationMailbox.                                          *)
(***************************************************************************)
EXTENDS LatestTransport

MarkedOnly(o) ==
  [session |-> o.session, id |-> o.id, ts |-> o.ts, must_go |-> o.must_go]

LastProcessed ==
  LET done == {i \in Ids : \E t \in Processed : log[clientSession][i] = <<"ack", t>>}
  IN CHOOSE m \in done \cup {-1} : \A i \in done : i <= m

\* Frames after an error frame are never read: the receiver ends there.
ErrorAhead == \E k \in 1..Len(s2c) : s2c[k].type = "error"

Readable ==
  LET sound == {n \in 0..Len(s2c) : \A k \in 1..n : s2c[k].type # "error"}
      last == CASE receiver = "run" -> Len(s2c)
                [] receiver = "lastFrame" -> 1
                [] OTHER -> 0
  IN SubSeq(s2c, 1, CHOOSE n \in sound \cap 0..last :
                      \A m \in sound \cap 0..last : m <= n)

AnswerOf(f) == [session |-> f.session, id |-> f.id, ts |-> f.ts, status |-> f.status]

Answers ==
  LET frames == events \o SelectSeq(Readable, LAMBDA f : f.type = "result")
  IN [k \in 1..Len(frames) |-> AnswerOf(frames[k])]

Mailbox == INSTANCE ObservationMailbox WITH
  MaxTimestep <- MaxObservations - 1,
  epoch <- clientSession,
  resetting <- caller = "resetting",
  up <- receiver = "run" /\ link = "up" /\ ~ErrorAhead,
  open <- {MarkedOnly(o) : o \in OpenObservations},
  newest <- nextId - 1,
  processed <- LastProcessed,
  inbox <- Answers

\* The client and the server together implement the mailbox: every step of
\* either program is a step of ObservationMailbox or invisible to the caller.
ImplementsMailbox == Mailbox!MailboxSpec
========================================================================
