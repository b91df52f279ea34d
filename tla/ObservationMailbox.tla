------------------------ MODULE ObservationMailbox ------------------------
(***************************************************************************)
(* What the latest-observation transport promises to the control program:  *)
(* a mailbox.  The program submits observations; each of them is answered  *)
(* at most once, by the outcome of an inference or because a newer one     *)
(* replaced it; inferences are answered in the order of submission; an     *)
(* observation marked must_go is never skipped as similar, and the mark    *)
(* passes to the observation that silently replaces it; a reset forgets    *)
(* everything.  Once the connection has failed (up is FALSE), answers may  *)
(* be missing but are still neither repeated nor reordered.                *)
(*                                                                         *)
(* The API modelled is that of websocket_client_policy.py:                 *)
(* submit_observation, get_observation_event_nowait and reset.             *)
(***************************************************************************)
EXTENDS Integers, Sequences

CONSTANTS MaxObservations, MaxSessions, MaxTimestep

Observation ==
  [session: 1..MaxSessions, id: 0..MaxObservations - 1, ts: 0..MaxTimestep,
   must_go: BOOLEAN]

VARIABLES
  epoch,      \* the session of the program
  resetting,  \* is it waiting for reset()
  up,         \* is the connection sound
  open,       \* its observations that may still be answered
  newest,     \* the id of the last one, -1 at the start of a session
  processed,  \* the id of the last one answered from an inference or a filter
  inbox       \* the answers it has not read

mailboxVars == <<epoch, resetting, up, open, newest, processed, inbox>>

Answer(o, status) ==
  [session |-> o.session, id |-> o.id, ts |-> o.ts, status |-> status]

MailboxInit ==
  /\ epoch = 1 /\ resetting = FALSE /\ up = TRUE
  /\ open = {} /\ newest = -1 /\ processed = -1 /\ inbox = <<>>

\* The new observation may silently replace one that has not left the client.
SubmitTo(o) ==
  /\ ~resetting
  /\ o.session = epoch /\ o.id = newest + 1
  /\ newest' = o.id
  /\ \/ open' = open \cup {o}
     \/ \E old \in open : /\ old.must_go => o.must_go
                          /\ open' = (open \ {old}) \cup {o}
  /\ UNCHANGED <<epoch, resetting, up, processed, inbox>>

Close(o, status) ==
  /\ open' = open \ {o}
  /\ inbox' = Append(inbox, Answer(o, status))

Supersede(o) ==
  /\ up
  /\ \E p \in open : p.id > o.id
  /\ Close(o, "superseded")
  /\ UNCHANGED <<epoch, resetting, up, newest, processed>>

\* Mutant of Process: answers are not in the order of submission.
ProcessInAnyOrder(o, status) ==
  /\ up
  /\ status = "similar" => ~o.must_go
  /\ processed' = o.id
  /\ Close(o, status)
  /\ UNCHANGED <<epoch, resetting, up, newest>>

Process(o, status) ==
  /\ up
  /\ o.id > processed
  /\ status = "similar" => ~o.must_go
  /\ processed' = o.id
  /\ Close(o, status)
  /\ UNCHANGED <<epoch, resetting, up, newest>>

\* A reset withdraws the observations that wait, the one in inference silently.
Withdraw ==
  /\ resetting
  /\ \E gone \in SUBSET open :
       /\ open' = open \ gone
       /\ inbox' \in {inbox} \cup {Append(inbox, Answer(o, "superseded")) : o \in gone}
  /\ UNCHANGED <<epoch, resetting, up, newest, processed>>

ReadInbox ==
  /\ ~resetting
  /\ inbox # <<>>
  /\ inbox' = Tail(inbox)
  /\ UNCHANGED <<epoch, resetting, up, open, newest, processed>>

BeginReset ==
  /\ ~resetting
  /\ epoch < MaxSessions
  /\ resetting' = TRUE
  /\ UNCHANGED <<epoch, up, open, newest, processed, inbox>>

EndReset ==
  /\ resetting
  /\ resetting' = FALSE
  /\ \/ /\ epoch' = epoch + 1
        /\ open' = {} /\ newest' = -1 /\ processed' = -1
     \/ /\ ~up                              \* reset() raises
        /\ UNCHANGED <<epoch, open, newest, processed>>
  /\ UNCHANGED <<up, inbox>>

\* The connection fails, or has failed: answers get lost, an error is reported.
Fail ==
  /\ up' = FALSE
  /\ open' \in SUBSET open
  /\ processed' \in processed..newest
  /\ \E n \in 0..Len(inbox) :
       LET kept == SubSeq(inbox, 1, n)
       IN inbox' \in {kept, Append(kept, [session |-> 0, id |-> -1, ts |-> -1,
                                          status |-> "error"])}
  /\ UNCHANGED <<epoch, resetting, newest>>

MailboxNext ==
  \/ \E i \in 0..MaxObservations - 1, t \in 0..MaxTimestep, m \in BOOLEAN :
       SubmitTo([session |-> epoch, id |-> i, ts |-> t, must_go |-> m])
  \/ \E o \in open :
       \/ Supersede(o)
       \/ \E status \in {"actions", "similar", "error"} : Process(o, status)
  \/ Withdraw
  \/ ReadInbox
  \/ BeginReset
  \/ EndReset
  \/ Fail

MailboxSpec == MailboxInit /\ [][MailboxNext]_mailboxVars
===========================================================================
