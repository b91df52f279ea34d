------------------------- MODULE ObservationLedger -------------------------
(***************************************************************************)
(* What the latest-observation transport does with each observation of the *)
(* control program, without saying when the program learns of it: at most  *)
(* one answer, the oldest open observation first, unless a newer one takes *)
(* its place or a reset withdraws it.  An observation is lost only with    *)
(* the connection, and replaced silently only by the next one, to which    *)
(* its must_go mark passes.  The program submits what the server accepts:  *)
(* valid payloads, each timestep once.                                     *)
(***************************************************************************)
EXTENDS Integers

CONSTANT Submissions    \* what the program may submit: records with a session,
                        \* an id and a must_go mark

VARIABLES
  program,   \* "run", "resetting" or "ended" (an exception, or close())
  epoch,     \* its session
  newest,    \* the id of its last observation, -1 at the start of a session
  up,        \* is the connection there
  open,      \* the observations of this session that may still be answered
  answers    \* the answers given in this session

ledgerVars == <<program, epoch, newest, up, open, answers>>

LedgerInit ==
  /\ program = "run" /\ epoch = 1 /\ newest = -1 /\ up = TRUE
  /\ open = {} /\ answers = {}

\* A new observation; one that has not left the client is replaced by the next.
SubmitTo(o) ==
  /\ program = "run"
  /\ o.session = epoch /\ o.id = newest + 1
  /\ newest' = o.id
  /\ \/ open' = open \cup {o}
     \/ \E last \in open : /\ last.id = newest
                           /\ last.must_go => o.must_go
                           /\ open' = (open \ {last}) \cup {o}
  /\ UNCHANGED <<program, epoch, up, answers>>

Answer(o, status) ==
  /\ open' = open \ {o}
  /\ answers' = answers \cup {[id |-> o.id, status |-> status]}
  /\ UNCHANGED <<program, epoch, newest, up>>

\* A newer observation has taken the place of o.
Supersede(o) ==
  /\ \E p \in open : p.id > o.id
  /\ Answer(o, "superseded")

\* The inference about o has ended, or it was filtered.
Process(o, status) ==
  /\ \A p \in open : o.id <= p.id
  /\ status = "similar" => ~o.must_go
  /\ Answer(o, status)

\* A reset withdraws what waits, and what is in inference without an answer.
Withdraw ==
  /\ program # "run"
  /\ \E gone \in SUBSET open :
       /\ open' = open \ gone
       /\ answers' \in {answers} \cup
            {answers \cup {[id |-> o.id, status |-> "superseded"]} : o \in gone}
  /\ UNCHANGED <<program, epoch, newest, up>>

BeginReset ==
  /\ program = "run"
  /\ program' = "resetting"
  /\ UNCHANGED <<epoch, newest, up, open, answers>>

EndReset ==
  /\ program = "resetting"
  /\ program' = "run"
  /\ epoch' = epoch + 1 /\ newest' = -1
  /\ open' = {} /\ answers' = {}
  /\ UNCHANGED up

\* The program gets an exception from reset(), or closes the client.
End ==
  /\ program' = "ended"
  /\ UNCHANGED <<epoch, newest, up, open, answers>>

\* The connection fails, or has failed: observations get lost.
Lose ==
  /\ up' = FALSE
  /\ open' \in SUBSET open
  /\ UNCHANGED <<program, epoch, newest, answers>>

LedgerNext ==
  \/ \E o \in Submissions : SubmitTo(o)
  \/ \E o \in open : Supersede(o) \/ \E status \in {"actions", "similar", "error"} : Process(o, status)
  \/ Withdraw \/ BeginReset \/ EndReset \/ End \/ Lose

LedgerSpec == LedgerInit /\ [][LedgerNext]_ledgerVars
=============================================================================
