---------------------- MODULE AsyncControlLoop_proofs ----------------------
(***************************************************************************)
(* Theorems about AsyncControlLoop over any mailbox that behaves as        *)
(* ObservationMailbox promises, for every horizon, threshold, timeout,      *)
(* number of steps and length of the ticks.                                 *)
(***************************************************************************)
EXTENDS AsyncControlLoop, FiniteSetTheorems, SequenceTheorems, TLAPS

-----------------------------------------------------------------------------
(* The loop's own variables.                                                *)

\* The largest timestep that has been submitted by now.
Limit == IF pc \in {"awaitFirst", "drain", "capture", "poll"} THEN step ELSE step + 1

LoopInv ==
  /\ pc \in {"awaitFirst", "drain", "capture", "poll", "sleep", "finished", "raised", "end"}
  /\ step \in 0..MaxSteps - 1 /\ now \in Nat /\ nextCaptureAt \in Nat
  /\ pc = "awaitFirst" => step = 0
  /\ hardware \in {"open", "closed"}
  /\ capture.state \in {"none", "running", "ready", "failed"}
  /\ capture.ts \in 0..step + 1
  /\ DOMAIN capture = {"state", "ts", "must_go"}
  /\ capture = [state |-> capture.state, ts |-> capture.ts, must_go |-> capture.must_go]
  /\ hardware = "closed" => pc = "end" /\ capture.state # "running"

LEMMA Constants ==
  /\ Horizon \in Nat \ {0} /\ MaxSteps \in Nat \ {0} /\ ObservationPeriod \in Nat \ {0}
  /\ RequestTimeout \in Nat \ {0} /\ TickLengths \subseteq Nat /\ MaxSessions = 1
  /\ MaxObservations \in Int /\ MaxTimestep \in Int
  /\ MaxObservations > MaxSteps /\ MaxTimestep >= MaxSteps /\ None \notin Int
  BY LoopAssumption DEF LoopAssumption

LEMMA LoopInit == Init => LoopInv
  BY Constants DEF Init, LoopInv, NoCapture

LEMMA LoopStep == LoopInv /\ [Next]_vars => LoopInv'
<1> SUFFICES ASSUME LoopInv, [Next]_vars PROVE LoopInv'
  OBVIOUS
<1> USE Constants DEF LoopInv
<1>1. CASE AwaitFirst
  BY <1>1 DEF AwaitFirst
<1>2. CASE ReadAnswer
  BY <1>2 DEF ReadAnswer
<1>3. CASE ApplyQueued
  BY <1>3 DEF ApplyQueued
<1>4. CASE HoldLast
  BY <1>4 DEF HoldLast
<1>5. CASE StartCapture
  BY <1>5 DEF StartCapture
<1>6. CASE PollCapture
  BY <1>6 DEF PollCapture, NoCapture
<1>7. CASE EndTick
  <2>1. now' \in Nat
    BY <1>7 DEF EndTick
  <2>2. UNCHANGED <<capture, hardware, nextCaptureAt>> /\ pc = "sleep"
        /\ pc' \in {"finished", "drain"} /\ step' \in {step, step + 1}
        /\ step' \in 0..MaxSteps - 1 /\ hardware # "closed"
    BY <1>7 DEF EndTick
  <2> QED
    BY <2>1, <2>2
<1>8. CASE CloseHardware
  BY <1>8 DEF CloseHardware
<1>9. CASE CaptureEnds
  BY <1>9 DEF CaptureEnds
<1>10. CASE Leave
  BY <1>10 DEF Leave
<1>11. CASE Transport
  BY <1>11 DEF Transport, loopVars, historyVars
<1>12. CASE UNCHANGED vars
  BY <1>12 DEF vars, loopVars, historyVars
<1> QED
  BY <1>1, <1>2, <1>3, <1>4, <1>5, <1>6, <1>7, <1>8, <1>9, <1>10, <1>11, <1>12 DEF Next, Loop

\* The capture thread never touches closed hardware: the loop joins it first.
THEOREM NoReadAfterCloseHolds == Spec => []NoReadAfterClose
<1>1. LoopInv => NoReadAfterClose
  BY DEF LoopInv, NoReadAfterClose
<1> QED
  BY <1>1, LoopInit, LoopStep, PTL DEF Spec

-----------------------------------------------------------------------------
(* The mailbox, as the loop uses it.                                        *)

Answers ==
  [session : Int, id : Int, ts : Int, status : {"actions", "similar", "superseded", "error"}]

MailInv ==
  /\ epoch = 1 /\ newest \in Nat /\ processed \in Int /\ lastSubmitted \in Nat
  /\ newest <= Limit /\ lastSubmitted <= Limit
  /\ capture.state # "none" => capture.ts > lastSubmitted
  /\ inbox \in Seq(Answers)
  /\ \A k \in 1..Len(inbox) :
       inbox[k].id <= newest /\ inbox[k].ts <= lastSubmitted
       /\ (inbox[k].status # "error" => inbox[k].ts >= 0)
  /\ \A o \in open : /\ o.session = 1 /\ o.id \in 0..newest /\ o.ts \in 0..lastSubmitted
                     /\ o = [session |-> o.session, id |-> o.id, ts |-> o.ts,
                             must_go |-> o.must_go]

\* What the steps do to the mailbox.
Reads == /\ inbox # <<>> /\ inbox' = Tail(inbox)
         /\ UNCHANGED <<epoch, open, newest, processed, lastSubmitted, heldIds>>

Quiet == UNCHANGED <<epoch, open, newest, processed, inbox, lastSubmitted, heldIds>>

Submits(o) ==
  /\ newest' = o.id /\ newest' = newest + 1 /\ lastSubmitted' = o.ts
  /\ o.session = epoch /\ o.ts = capture.ts
  /\ \/ open' = open \cup {o}
     \/ \E old \in open : open' = (open \ {old}) \cup {o}
  /\ UNCHANGED <<epoch, processed, inbox>>

Answered(o, status) ==
  /\ open' = open \ {o} /\ inbox' = Append(inbox, Answer(o, status))
  /\ \/ status = "superseded" /\ processed' = processed
     \/ /\ status \in {"actions", "similar", "error"} /\ o.id > processed /\ processed' = o.id
        /\ status = "similar" => ~o.must_go
  /\ UNCHANGED <<epoch, newest, lastSubmitted, heldIds>>

ErrorEvent == [session |-> 0, id |-> -1, ts |-> -1, status |-> "error"]

Fails ==
  /\ open' \subseteq open /\ processed' \in processed..newest
  /\ \E n \in 0..Len(inbox) :
       \/ inbox' = SubSeq(inbox, 1, n)
       \/ inbox' = Append(SubSeq(inbox, 1, n), ErrorEvent)
  /\ UNCHANGED <<epoch, newest, lastSubmitted, heldIds>>

\* The observation that a tick submits.
Fresh == [session |-> epoch, id |-> newest + 1, ts |-> capture.ts,
          must_go |-> capture.must_go \/ fallback]

LEMMA MailKinds ==
  ASSUME [Next]_vars
  PROVE  \/ Quiet \/ Fails
         \/ Reads /\ (AwaitFirst \/ ReadAnswer)
         \/ PollCapture /\ pc' = "sleep" /\ capture.state # "none" /\ Submits(Fresh)
            /\ heldIds' = IF fallback THEN heldIds \cup {newest'} ELSE heldIds
         \/ \E o \in open, status \in {"actions", "similar", "superseded", "error"} :
              Transport /\ Answered(o, status)
<1>1. CASE AwaitFirst \/ ReadAnswer
  BY <1>1 DEF AwaitFirst, ReadAnswer, ReadInbox, Reads, historyVars
<1>2. CASE PollCapture
  <2>1. CASE SubmitObservation(capture.ts, capture.must_go \/ fallback)
             /\ pc' = "sleep" /\ capture.state \notin {"none", "running", "failed"}
             /\ heldIds' = IF fallback THEN heldIds \cup {newest'} ELSE heldIds
    <3>1. Submits(Fresh)
      BY <2>1 DEF SubmitObservation, SubmitTo, Submits, Fresh
    <3> QED
      BY <1>2, <2>1, <3>1
  <2>2. CASE UNCHANGED <<mailboxVars, lastSubmitted, heldIds>>
    BY <2>2 DEF Quiet, mailboxVars
  <2> QED
    BY <1>2, <2>1, <2>2 DEF PollCapture
<1>3. CASE Transport
  <2>1. lastSubmitted' = lastSubmitted /\ heldIds' = heldIds
    BY <1>3 DEF Transport, historyVars
  <2>2. CASE \E o \in open :
               Supersede(o) \/ \E status \in {"actions", "similar", "error"} : Process(o, status)
    BY <1>3, <2>1, <2>2 DEF Supersede, Process, Close, Answered
  <2>3. CASE Fail
    BY <2>1, <2>3 DEF Fail, Fails, ErrorEvent
  <2> QED
    BY <1>3, <2>2, <2>3 DEF Transport
<1>4. CASE ApplyQueued \/ HoldLast \/ StartCapture \/ EndTick \/ CloseHardware \/ CaptureEnds \/ Leave
  BY <1>4 DEF ApplyQueued, HoldLast, StartCapture, EndTick, CloseHardware, CaptureEnds, Leave,
     mailboxVars, historyVars, Quiet
<1>5. CASE UNCHANGED vars
  BY <1>5 DEF vars, mailboxVars, historyVars, Quiet
<1> QED
  BY <1>1, <1>2, <1>3, <1>4, <1>5 DEF Next, Loop

LEMMA LimitGrows ==
  ASSUME LoopInv, [Next]_vars
  PROVE  /\ Limit \in Nat /\ Limit' \in Nat /\ Limit <= Limit'
         /\ PollCapture /\ pc' = "sleep" => Limit' = Limit + 1 /\ capture.ts <= Limit'
<1> USE Constants DEF Limit, LoopInv
<1>1. CASE AwaitFirst \/ ReadAnswer
  BY <1>1 DEF AwaitFirst, ReadAnswer, PollCapture
<1>2. CASE ApplyQueued \/ HoldLast \/ StartCapture \/ CloseHardware \/ CaptureEnds \/ Leave
  BY <1>2 DEF ApplyQueued, HoldLast, StartCapture, CloseHardware, CaptureEnds, Leave, PollCapture
<1>3. CASE PollCapture
  BY <1>3 DEF PollCapture
<1>4. CASE EndTick
  <2>1. pc = "sleep" /\ \/ pc' = "finished" /\ step' = step
                        \/ pc' = "drain" /\ step' = step + 1
    BY <1>4 DEF EndTick
  <2> QED
    BY <2>1 DEF PollCapture
<1>5. CASE Transport \/ UNCHANGED vars
  BY <1>5 DEF Transport, loopVars, vars, PollCapture
<1> QED
  BY <1>1, <1>2, <1>3, <1>4, <1>5 DEF Next, Loop

-----------------------------------------------------------------------------
(* Lemmas about the inbox.                                                  *)

LEMMA TailOf ==
  ASSUME NEW S, NEW s \in Seq(S), s # <<>>
  PROVE  /\ Tail(s) \in Seq(S) /\ Head(s) = s[1] /\ Head(s) \in S
         /\ Len(s) \in Nat \ {0} /\ Len(Tail(s)) = Len(s) - 1
         /\ \A i \in 1..Len(Tail(s)) : Tail(s)[i] = s[i + 1] /\ i + 1 \in 1..Len(s)
  BY HeadTailProperties, EmptySeq

LEMMA PrefixOf ==
  ASSUME NEW S, NEW s \in Seq(S), NEW n \in 0..Len(s)
  PROVE  /\ SubSeq(s, 1, n) \in Seq(S) /\ Len(SubSeq(s, 1, n)) = n /\ Len(s) \in Nat
         /\ \A i \in 1..n : SubSeq(s, 1, n)[i] = s[i] /\ i \in 1..Len(s)
<1>1. Len(s) \in Nat /\ \A i \in 1..n : i \in 1..Len(s) /\ s[i] \in S
  BY ElementOfSeq, LenProperties
<1>2. /\ SubSeq(s, 1, n) \in Seq(S) /\ Len(SubSeq(s, 1, n)) = n
      /\ \A i \in 1..n : SubSeq(s, 1, n)[i] = s[i]
  BY <1>1, SubSeqProperties
<1> QED
  BY <1>1, <1>2

LEMMA AppendOf ==
  ASSUME NEW S, NEW s \in Seq(S), NEW x \in S
  PROVE  /\ Append(s, x) \in Seq(S) /\ Len(Append(s, x)) = Len(s) + 1 /\ Len(s) \in Nat
         /\ Append(s, x)[Len(s) + 1] = x
         /\ \A i \in 1..Len(s) : Append(s, x)[i] = s[i]
  BY AppendProperties

\* The inbox after a step: the answers that were there, in their order, and at most one new.
InboxKept == \E n \in Nat : /\ Len(inbox') = n
                            /\ \A k \in 1..n : k \in 1..Len(inbox) /\ inbox'[k] = inbox[k]
InboxTail == \A k \in 1..Len(inbox') : k + 1 \in 1..Len(inbox) /\ inbox'[k] = inbox[k + 1]
InboxGrown(new) ==
  \E n \in Nat : /\ Len(inbox') = n + 1 /\ inbox'[n + 1] = new
                 /\ \A k \in 1..n : k \in 1..Len(inbox) /\ inbox'[k] = inbox[k]

LEMMA InboxKinds ==
  ASSUME MailInv
  PROVE  /\ Quiet => inbox' \in Seq(Answers) /\ InboxKept
         /\ Reads => inbox' \in Seq(Answers) /\ InboxTail
         /\ \A o : Submits(o) => inbox' \in Seq(Answers) /\ InboxKept
         /\ Fails => inbox' \in Seq(Answers) /\ (InboxKept \/ InboxGrown(ErrorEvent))
         /\ \A o \in open, status \in {"actions", "similar", "superseded", "error"} :
              Answered(o, status) => inbox' \in Seq(Answers) /\ InboxGrown(Answer(o, status))
<1>1. inbox \in Seq(Answers) /\ Len(inbox) \in Nat
  BY LenProperties DEF MailInv
<1>2. inbox' = inbox => InboxKept
  BY <1>1 DEF InboxKept
<1>3. Reads => inbox' \in Seq(Answers) /\ InboxTail
  BY <1>1, TailOf DEF Reads, InboxTail
<1>4. ErrorEvent \in Answers
  BY DEF ErrorEvent, Answers
<1>5. Fails => inbox' \in Seq(Answers) /\ (InboxKept \/ InboxGrown(ErrorEvent))
  <2> SUFFICES ASSUME Fails PROVE inbox' \in Seq(Answers) /\ (InboxKept \/ InboxGrown(ErrorEvent))
    OBVIOUS
  <2>1. PICK n \in 0..Len(inbox) : \/ inbox' = SubSeq(inbox, 1, n)
                                   \/ inbox' = Append(SubSeq(inbox, 1, n), ErrorEvent)
    BY DEF Fails
  <2>2. /\ SubSeq(inbox, 1, n) \in Seq(Answers) /\ Len(SubSeq(inbox, 1, n)) = n /\ n \in Nat
        /\ \A i \in 1..n : SubSeq(inbox, 1, n)[i] = inbox[i] /\ i \in 1..Len(inbox)
    BY <1>1, PrefixOf
  <2>3. CASE inbox' = SubSeq(inbox, 1, n)
    BY <2>2, <2>3 DEF InboxKept
  <2>4. CASE inbox' = Append(SubSeq(inbox, 1, n), ErrorEvent)
    <3> DEFINE kept == SubSeq(inbox, 1, n)
    <3>1. /\ Append(kept, ErrorEvent) \in Seq(Answers) /\ Len(Append(kept, ErrorEvent)) = n + 1
          /\ Append(kept, ErrorEvent)[n + 1] = ErrorEvent
          /\ \A i \in 1..n : Append(kept, ErrorEvent)[i] = kept[i]
      BY <1>4, <2>2, AppendOf
    <3> QED
      BY <2>2, <2>4, <3>1 DEF InboxGrown
  <2> QED
    BY <2>1, <2>3, <2>4
<1>6. ASSUME NEW o \in open, NEW status \in {"actions", "similar", "superseded", "error"},
             Answered(o, status)
      PROVE  inbox' \in Seq(Answers) /\ InboxGrown(Answer(o, status))
  <2>1. Answer(o, status) \in Answers
    BY DEF Answer, Answers, MailInv
  <2>2. inbox' = Append(inbox, Answer(o, status))
    BY <1>6 DEF Answered
  <2>3. /\ Append(inbox, Answer(o, status)) \in Seq(Answers)
        /\ Len(Append(inbox, Answer(o, status))) = Len(inbox) + 1
        /\ Append(inbox, Answer(o, status))[Len(inbox) + 1] = Answer(o, status)
        /\ \A i \in 1..Len(inbox) : Append(inbox, Answer(o, status))[i] = inbox[i]
    BY <1>1, <2>1, AppendOf
  <2> QED
    BY <1>1, <2>2, <2>3 DEF InboxGrown
<1> QED
  BY <1>1, <1>2, <1>3, <1>5, <1>6 DEF Quiet, Submits

\* Every answer in the inbox was there before, or is the new one.
LEMMA InboxElements ==
  /\ InboxKept \/ InboxTail =>
       \A k \in 1..Len(inbox') : \E j \in 1..Len(inbox) : inbox'[k] = inbox[j]
  /\ \A new : InboxGrown(new) =>
       \A k \in 1..Len(inbox') :
         inbox'[k] = new \/ \E j \in 1..Len(inbox) : inbox'[k] = inbox[j]
<1>1. InboxKept \/ InboxTail =>
        \A k \in 1..Len(inbox') : \E j \in 1..Len(inbox) : inbox'[k] = inbox[j]
  BY DEF InboxKept, InboxTail
<1>2. ASSUME NEW new, InboxGrown(new), NEW k \in 1..Len(inbox')
      PROVE  inbox'[k] = new \/ \E j \in 1..Len(inbox) : inbox'[k] = inbox[j]
  <2>1. PICK n \in Nat : /\ Len(inbox') = n + 1 /\ inbox'[n + 1] = new
                         /\ \A i \in 1..n : i \in 1..Len(inbox) /\ inbox'[i] = inbox[i]
    BY <1>2 DEF InboxGrown
  <2>2. k \in 1..n \/ k = n + 1
    BY <1>2, <2>1
  <2> QED
    BY <2>1, <2>2
<1> QED
  BY <1>1, <1>2

LEMMA MailInit == Init => MailInv
<1>1. <<>> \in Seq(Answers) /\ Len(<<>>) = 0
  BY EmptySeq
<1> QED
  BY <1>1, Constants DEF Init, MailInv, Limit, NoCapture

\* A capture is for a timestep after those that were submitted.
LEMMA CaptureIsAhead ==
  ASSUME LoopInv, MailInv, [Next]_vars
  PROVE  capture'.state # "none" =>
           /\ capture'.ts > lastSubmitted /\ ~(PollCapture /\ Submits(Fresh) /\ pc' = "sleep")
<1> USE DEF LoopInv, MailInv
<1>1. CASE StartCapture
  BY <1>1, LimitGrows DEF StartCapture, PollCapture, Limit
<1>2. CASE PollCapture
  BY <1>2 DEF PollCapture, NoCapture, Submits, Fresh, mailboxVars
<1>3. CASE AwaitFirst \/ ReadAnswer \/ ApplyQueued \/ HoldLast \/ EndTick \/ CloseHardware \/ Leave
  BY <1>3
     DEF AwaitFirst, ReadAnswer, ApplyQueued, HoldLast, EndTick, CloseHardware, Leave, PollCapture
<1>4. CASE CaptureEnds
  BY <1>4 DEF CaptureEnds, PollCapture
<1>5. CASE Transport \/ UNCHANGED vars
  BY <1>5 DEF Transport, loopVars, vars, PollCapture
<1> QED
  BY <1>1, <1>2, <1>3, <1>4, <1>5 DEF Next, Loop

LEMMA MailStep ==
  ASSUME LoopInv, MailInv, [Next]_vars
  PROVE  MailInv'
<1>1. /\ Limit \in Nat /\ Limit' \in Nat /\ Limit <= Limit'
      /\ PollCapture /\ pc' = "sleep" => Limit' = Limit + 1 /\ capture.ts <= Limit'
  BY LimitGrows
<1>2. capture.ts \in Nat /\ capture'.ts \in Int
  BY LoopStep, Constants DEF LoopInv
<1> USE DEF MailInv
<1>3. CASE Quiet \/ Reads
  <2>1. inbox' \in Seq(Answers)
        /\ \A k \in 1..Len(inbox') : \E j \in 1..Len(inbox) : inbox'[k] = inbox[j]
    BY <1>3, InboxKinds, InboxElements
  <2>2. lastSubmitted' = lastSubmitted /\ newest' = newest
    BY <1>3 DEF Quiet, Reads
  <2>3. capture'.state # "none" => capture'.ts > lastSubmitted'
    BY <2>2, CaptureIsAhead
  <2>4. \A k \in 1..Len(inbox') :
          inbox'[k].id <= newest' /\ inbox'[k].ts <= lastSubmitted'
          /\ (inbox'[k].status # "error" => inbox'[k].ts >= 0)
    BY <2>1, <2>2
  <2>5. epoch' = 1 /\ open' = open /\ processed' = processed
    BY <1>3 DEF Quiet, Reads
  <2> QED
    BY <1>1, <2>1, <2>2, <2>3, <2>4, <2>5
<1>4. CASE Fails
  <2>1. inbox' \in Seq(Answers)
        /\ \A k \in 1..Len(inbox') :
             inbox'[k] = ErrorEvent \/ \E j \in 1..Len(inbox) : inbox'[k] = inbox[j]
    BY <1>4, InboxKinds, InboxElements
  <2>2. lastSubmitted' = lastSubmitted /\ newest' = newest /\ epoch' = 1
        /\ open' \subseteq open /\ processed' \in Int
    BY <1>4 DEF Fails
  <2>3. capture'.state # "none" => capture'.ts > lastSubmitted'
    BY <2>2, CaptureIsAhead
  <2>4. \A k \in 1..Len(inbox') :
          inbox'[k].id <= newest' /\ inbox'[k].ts <= lastSubmitted'
          /\ (inbox'[k].status # "error" => inbox'[k].ts >= 0)
    BY <2>1, <2>2 DEF ErrorEvent
  <2> QED
    BY <1>1, <2>1, <2>2, <2>3, <2>4
<1>5. CASE PollCapture /\ pc' = "sleep" /\ capture.state # "none" /\ Submits(Fresh)
  <2>1. inbox' = inbox /\ newest' = newest + 1 /\ lastSubmitted' = capture.ts /\ epoch' = 1
        /\ processed' = processed /\ open' \subseteq open \cup {Fresh}
    BY <1>5 DEF Submits, Fresh
  <2>2. capture'.state = "none"
    BY <1>5, CaptureIsAhead
  <2>3. lastSubmitted' > lastSubmitted
    BY <1>5, <2>1
  <2>4. /\ Fresh.session = 1 /\ Fresh.id = newest' /\ Fresh.ts = lastSubmitted'
        /\ Fresh = [session |-> Fresh.session, id |-> Fresh.id, ts |-> Fresh.ts,
                    must_go |-> Fresh.must_go]
    BY <2>1 DEF Fresh
  <2>5. \A o \in open' : /\ o.session = 1 /\ o.id \in 0..newest' /\ o.ts \in 0..lastSubmitted'
                         /\ o = [session |-> o.session, id |-> o.id, ts |-> o.ts,
                                 must_go |-> o.must_go]
    BY <1>2, <2>1, <2>3, <2>4
  <2>6. \A k \in 1..Len(inbox') :
          inbox'[k].id <= newest' /\ inbox'[k].ts <= lastSubmitted'
          /\ (inbox'[k].status # "error" => inbox'[k].ts >= 0)
    <3>1. \A k \in 1..Len(inbox) : inbox[k] \in Answers
      BY ElementOfSeq
    <3>2. \A k \in 1..Len(inbox) : inbox[k].id \in Int /\ inbox[k].ts \in Int
      BY <3>1 DEF Answers
    <3> QED
      BY <1>2, <2>1, <2>3, <3>2
  <2> QED
    BY <1>1, <1>2, <1>5, <2>1, <2>2, <2>5, <2>6
<1>6. ASSUME NEW o \in open, NEW status \in {"actions", "similar", "superseded", "error"},
             Answered(o, status)
      PROVE  MailInv'
  <2>1. inbox' \in Seq(Answers)
        /\ \A k \in 1..Len(inbox') :
             inbox'[k] = Answer(o, status) \/ \E j \in 1..Len(inbox) : inbox'[k] = inbox[j]
    BY <1>6, InboxKinds, InboxElements
  <2>2. lastSubmitted' = lastSubmitted /\ newest' = newest /\ epoch' = 1
        /\ open' \subseteq open /\ processed' \in Int
    BY <1>6 DEF Answered
  <2>3. capture'.state # "none" => capture'.ts > lastSubmitted'
    BY <2>2, CaptureIsAhead
  <2>4. /\ Answer(o, status).id <= newest /\ Answer(o, status).ts <= lastSubmitted
        /\ Answer(o, status).ts >= 0
    BY DEF Answer
  <2>5. \A k \in 1..Len(inbox') :
          inbox'[k].id <= newest' /\ inbox'[k].ts <= lastSubmitted'
          /\ (inbox'[k].status # "error" => inbox'[k].ts >= 0)
    BY <2>1, <2>2, <2>4
  <2> QED
    BY <1>1, <2>1, <2>2, <2>3, <2>5
<1> QED
  BY <1>3, <1>4, <1>5, <1>6, MailKinds

-----------------------------------------------------------------------------
(* Submissions: their timesteps, and those made while holding.               *)

LEMMA MailHolds == Spec => [](LoopInv /\ MailInv)
  BY LoopInit, LoopStep, MailInit, MailStep, PTL DEF Spec

\* Every submission has a larger timestep than the one before.
THEOREM TimestepsIncreaseHolds == Spec => TimestepsIncrease
<1>1. LoopInv /\ MailInv /\ [Next]_vars => [newest' # newest => lastSubmitted' > lastSubmitted]_vars
  BY MailKinds DEF MailInv, LoopInv, Quiet, Fails, Reads, Submits, Answered, Fresh
<1> QED
  BY <1>1, MailHolds, PTL DEF Spec, TimestepsIncrease

HeldInv ==
  /\ \A o \in open : o.id \in heldIds => o.must_go
  /\ heldIds \subseteq 0..newest
  /\ \A k \in 1..Len(inbox) : inbox[k].status = "similar" => inbox[k].id \notin heldIds

LEMMA HeldStep ==
  ASSUME LoopInv, MailInv, HeldInv, [Next]_vars
  PROVE  HeldInv'
<1> USE DEF HeldInv
<1>1. CASE Quiet \/ Reads
  <2>1. \A k \in 1..Len(inbox') : \E j \in 1..Len(inbox) : inbox'[k] = inbox[j]
    BY <1>1, InboxKinds, InboxElements
  <2>2. newest' = newest /\ open' = open /\ heldIds' = heldIds
    BY <1>1 DEF Quiet, Reads
  <2> QED
    BY <2>1, <2>2
<1>2. CASE Fails
  <2>1. \A k \in 1..Len(inbox') :
          inbox'[k] = ErrorEvent \/ \E j \in 1..Len(inbox) : inbox'[k] = inbox[j]
    BY <1>2, InboxKinds, InboxElements
  <2>2. newest' = newest /\ open' \subseteq open /\ heldIds' = heldIds
    BY <1>2 DEF Fails
  <2>3. ErrorEvent.status # "similar"
    BY DEF ErrorEvent
  <2> QED
    BY <2>1, <2>2, <2>3
<1>3. CASE PollCapture /\ pc' = "sleep" /\ capture.state # "none" /\ Submits(Fresh)
           /\ heldIds' = IF fallback THEN heldIds \cup {newest'} ELSE heldIds
  <2>1. inbox' = inbox /\ newest' = newest + 1 /\ open' \subseteq open \cup {Fresh}
        /\ Fresh.id = newest + 1 /\ newest \in Nat
    BY <1>3 DEF Submits, Fresh, MailInv
  <2>2. fallback => Fresh.must_go
    <3>1. Fresh.must_go = (capture.must_go \/ fallback)
      BY DEF Fresh
    <3> QED
      BY Zenon, <3>1
  <2>3. \A o \in open : o.id \in 0..newest
    BY DEF MailInv
  <2>4. \A k \in 1..Len(inbox) : inbox[k].id <= newest
    BY DEF MailInv
  <2>5. \A o \in open' : o.id \in heldIds' => o.must_go
    BY <1>3, <2>1, <2>2, <2>3
  <2> QED
    BY <1>3, <2>1, <2>4, <2>5
<1>4. ASSUME NEW o \in open, NEW status \in {"actions", "similar", "superseded", "error"},
             Answered(o, status)
      PROVE  HeldInv'
  <2>1. \A k \in 1..Len(inbox') :
          inbox'[k] = Answer(o, status) \/ \E j \in 1..Len(inbox) : inbox'[k] = inbox[j]
    BY <1>4, InboxKinds, InboxElements
  <2>2. newest' = newest /\ open' \subseteq open /\ heldIds' = heldIds
        /\ (status = "similar" => ~o.must_go)
    BY <1>4 DEF Answered
  <2>3. Answer(o, status).status = status /\ Answer(o, status).id = o.id
    BY DEF Answer
  <2> QED
    BY <2>1, <2>2, <2>3
<1> QED
  BY <1>1, <1>2, <1>3, <1>4, MailKinds

\* An observation that was submitted while holding is never skipped as similar.
THEOREM HeldNeverFilteredHolds == Spec => []HeldNeverFiltered
<1>1. Init => HeldInv
  BY DEF Init, HeldInv
<1>2. LoopInv /\ MailInv /\ HeldInv /\ [Next]_vars => HeldInv'
  BY HeldStep
<1>3. HeldInv => HeldNeverFiltered
  BY DEF HeldInv, HeldNeverFiltered
<1> QED
  BY <1>1, <1>2, <1>3, MailHolds, PTL DEF Spec

-----------------------------------------------------------------------------
(* The action queue.                                                        *)

\* The queue holds the actions from one timestep on, all of one chunk: no gaps.
FilledFrom(t) == \E k \in 0..MaxSteps + Horizon : DOMAIN queue = t..k - 1

QueueInv ==
  /\ DOMAIN queue \subseteq Steps
  /\ \A t \in DOMAIN queue : queue[t] \in 0..MaxSteps
  /\ \A t, u \in DOMAIN queue : queue[t] = queue[u]
  /\ pc = "awaitFirst" => queue = NoActions
  /\ pc = "drain" => FilledFrom(step)
  /\ InTick => FilledFrom(step + 1)
  /\ (InTick /\ fallback) => DOMAIN queue = {}
  /\ source \in Nat \cup {None}

\* What a merge makes of a chunk that does not begin after the current timestep.
IsMerge(merged, ts, current) ==
  /\ DOMAIN merged \subseteq Steps /\ \A t \in DOMAIN merged : merged[t] = ts
  /\ \E k \in 0..MaxSteps + Horizon : DOMAIN merged = current..k - 1
  /\ merged # NoActions => DOMAIN merged # {}

LEMMA Merge ==
  ASSUME NEW ts \in 0..MaxSteps, NEW length \in 1..Horizon, NEW current \in 0..MaxSteps,
         ts <= current
  PROVE  IsMerge(MergeActionQueue(ts, length, current), ts, current)
<1> DEFINE merged == MergeActionQueue(ts, length, current)
<1> USE Constants
<1>1. merged = [t \in {i \in ts..ts + length - 1 : i >= current} |-> ts]
  BY DEF MergeActionQueue
<1>2. DOMAIN merged = current..(ts + length) - 1 /\ \A t \in DOMAIN merged : merged[t] = ts
  BY <1>1
<1>3. merged # NoActions => DOMAIN merged # {}
  BY <1>1 DEF NoActions
<1>4. ts + length \in 0..MaxSteps + Horizon /\ DOMAIN merged \subseteq Steps
  BY <1>2 DEF Steps
<1> HIDE DEF merged
<1>5. IsMerge(merged, ts, current)
  BY <1>2, <1>3, <1>4 DEF IsMerge
<1> QED
  BY <1>5 DEF merged

\* The answer that is read next.
LEMMA HeadOfInbox ==
  ASSUME LoopInv, MailInv, inbox # <<>>, pc \in {"awaitFirst", "drain"}
  PROVE  /\ Head(inbox) = inbox[1] /\ 1 \in 1..Len(inbox)
         /\ Head(inbox).status \in {"actions", "similar", "superseded", "error"}
         /\ Head(inbox).status = "actions" =>
              Head(inbox).ts \in 0..MaxSteps /\ Head(inbox).ts <= step
<1>1. /\ Head(inbox) = inbox[1] /\ 1 \in 1..Len(inbox) /\ Head(inbox) \in Answers
  BY TailOf DEF MailInv
<1>2. /\ inbox[1].ts <= lastSubmitted /\ (inbox[1].status # "error" => inbox[1].ts >= 0)
      /\ lastSubmitted <= step /\ step \in 0..MaxSteps - 1 /\ lastSubmitted \in Nat
  BY <1>1 DEF MailInv, LoopInv, Limit
<1>3. inbox[1].ts \in Int /\ inbox[1].status \in {"actions", "similar", "superseded", "error"}
  BY <1>1 DEF Answers
<1> QED
  BY <1>1, <1>2, <1>3, Constants

LEMMA QueueStep ==
  ASSUME LoopInv, MailInv, QueueInv, [Next]_vars
  PROVE  QueueInv'
<1> USE Constants DEF QueueInv, InTick
<1>1. CASE AwaitFirst
  <2>1. pc = "awaitFirst" /\ inbox # <<>> /\ UNCHANGED <<source, step, fallback>> /\ step = 0
    BY <1>1 DEF AwaitFirst, ReadInbox, LoopInv
  <2>2. CASE Head(inbox).status = "actions"
    <3>1. PICK length \in 1..Horizon :
            LET merged == MergeActionQueue(Head(inbox).ts, length, 0)
            IN queue' = merged /\ pc' = IF merged = NoActions THEN "raised" ELSE "drain"
      BY <1>1, <2>2 DEF AwaitFirst
    <3>2. Head(inbox).ts \in 0..MaxSteps /\ Head(inbox).ts <= 0
      BY <2>1, <2>2, HeadOfInbox
    <3>3. 0 \in 0..MaxSteps
      OBVIOUS
    <3>4. IsMerge(MergeActionQueue(Head(inbox).ts, length, 0), Head(inbox).ts, 0)
      BY <3>2, <3>3, Merge
    <3>5. IsMerge(queue', Head(inbox).ts, 0)
      BY <3>1, <3>4
    <3> QED
      BY <2>1, <3>1, <3>2, <3>5 DEF FilledFrom, IsMerge
  <2>3. CASE Head(inbox).status # "actions"
    <3>1. queue' = queue /\ pc' \in {"raised", "awaitFirst"}
      BY <1>1, <2>1, <2>3 DEF AwaitFirst
    <3> QED
      BY <2>1, <3>1
  <2> QED
    BY <2>2, <2>3
<1>2. CASE ReadAnswer
  <2>1. pc = "drain" /\ inbox # <<>> /\ UNCHANGED <<source, step, fallback>>
    BY <1>2 DEF ReadAnswer, ReadInbox
  <2>2. CASE Head(inbox).status = "actions"
    <3>1. pc' = "drain"
          /\ \E length \in 1..Horizon :
               LET merged == MergeActionQueue(Head(inbox).ts, length, step)
               IN IF merged # NoActions
                  THEN queue' = merged /\ fallbackAt' = None
                  ELSE UNCHANGED <<queue, fallbackAt>>
      BY <1>2, <2>2 DEF ReadAnswer
    <3>2. PICK length \in 1..Horizon :
            LET merged == MergeActionQueue(Head(inbox).ts, length, step)
            IN IF merged # NoActions
               THEN queue' = merged /\ fallbackAt' = None
               ELSE UNCHANGED <<queue, fallbackAt>>
      BY <3>1
    <3>3. Head(inbox).ts \in 0..MaxSteps /\ Head(inbox).ts <= step /\ step \in 0..MaxSteps
      BY <2>1, <2>2, HeadOfInbox DEF LoopInv
    <3>4. CASE queue' = queue
      BY <2>1, <3>1, <3>4 DEF FilledFrom
    <3>5. CASE queue' = MergeActionQueue(Head(inbox).ts, length, step)
      <4>1. IsMerge(MergeActionQueue(Head(inbox).ts, length, step), Head(inbox).ts, step)
        BY <3>3, Merge
      <4>2. IsMerge(queue', Head(inbox).ts, step)
        BY <3>5, <4>1
      <4> QED
        BY <2>1, <3>1, <3>3, <4>2 DEF FilledFrom, IsMerge
    <3> QED
      BY <3>2, <3>4, <3>5
  <2>3. CASE Head(inbox).status # "actions"
    <3>1. queue' = queue /\ pc' \in {"raised", "drain"}
      BY <1>2, <2>1, <2>3 DEF ReadAnswer
    <3> QED
      BY <2>1, <3>1 DEF FilledFrom
  <2> QED
    BY <2>2, <2>3
<1>3. CASE ApplyQueued
  <2>1. /\ pc = "drain" /\ pc' = "capture" /\ step \in DOMAIN queue /\ step' = step
        /\ queue' = [t \in DOMAIN queue \ {step} |-> queue[t]] /\ source' = queue[step]
        /\ fallback' = FALSE
    BY <1>3 DEF ApplyQueued
  <2>2. PICK k \in 0..MaxSteps + Horizon : DOMAIN queue = step..k - 1
    BY <2>1 DEF FilledFrom
  <2>3. DOMAIN queue' = DOMAIN queue \ {step} /\ \A t \in DOMAIN queue' : queue'[t] = queue[t]
    BY <2>1
  <2>4. DOMAIN queue' = step + 1..k - 1
    <3>1. step \in Int /\ k \in Int
      BY DEF LoopInv
    <3> QED
      BY <2>2, <2>3, <3>1
  <2> QED
    BY <2>1, <2>3, <2>4 DEF FilledFrom
<1>4. CASE HoldLast
  <2>1. /\ pc = "drain" /\ pc' \in {"capture", "raised"} /\ step \notin DOMAIN queue
        /\ UNCHANGED <<step, queue, source>>
    BY <1>4 DEF HoldLast
  <2>2. PICK k \in 0..MaxSteps + Horizon : DOMAIN queue = step..k - 1
    BY <2>1 DEF FilledFrom
  <2>3. DOMAIN queue = {} /\ step \in Nat
    BY <2>1, <2>2 DEF LoopInv
  <2>4. step + 1 .. 0 - 1 = {}
    BY <2>3
  <2> QED
    BY <2>1, <2>3, <2>4 DEF FilledFrom
<1>5. CASE EndTick
  <2>1. /\ pc = "sleep" /\ UNCHANGED <<queue, source, fallback>>
        /\ \/ pc' = "finished" /\ step' = step
           \/ pc' = "drain" /\ step' = step + 1
    BY <1>5 DEF EndTick
  <2> QED
    BY <2>1 DEF FilledFrom
<1>6. CASE StartCapture \/ PollCapture \/ CloseHardware \/ Leave
  <2>1. /\ UNCHANGED <<queue, source, fallback, step>>
        /\ pc' \in {"poll", "sleep", "raised", "end"}
        /\ pc' \in {"poll", "sleep"} => pc \in {"capture", "poll"}
    BY <1>6 DEF StartCapture, PollCapture, CloseHardware, Leave
  <2> QED
    BY <2>1 DEF FilledFrom
<1>7. CASE CaptureEnds \/ Transport \/ UNCHANGED vars
  <2>1. UNCHANGED <<queue, source, fallback, step, pc>>
    BY <1>7 DEF CaptureEnds, Transport, vars, loopVars
  <2> QED
    BY <2>1 DEF FilledFrom
<1> QED
  BY <1>1, <1>2, <1>3, <1>4, <1>5, <1>6, <1>7 DEF Next, Loop

LEMMA QueueInit == Init => QueueInv
  BY DEF Init, QueueInv, NoActions, InTick

LEMMA QueueHolds == Spec => [](LoopInv /\ MailInv /\ QueueInv)
<1>1. LoopInv /\ MailInv /\ QueueInv /\ [Next]_vars => QueueInv'
  BY QueueStep
<1> QED
  BY <1>1, QueueInit, MailHolds, PTL DEF Spec

\* The last action is held only when there is none for a later step either.
THEOREM HoldOnlyWhenEmptyHolds == Spec => []HoldOnlyWhenEmpty
<1>1. QueueInv => HoldOnlyWhenEmpty
  BY DEF QueueInv, HoldOnlyWhenEmpty
<1> QED
  BY <1>1, QueueHolds, PTL

-----------------------------------------------------------------------------
(* How long an action is held.                                              *)

\* The fallback timer runs from the time at which holding began, and only a chunk with an
\* action for the present stops it.
HoldInv ==
  /\ pc = "awaitFirst" => fallbackAt = None /\ heldSince = None
  /\ fallbackAt \in Nat \cup {None} /\ heldSince \in Nat \cup {None}
  /\ fallbackAt # None => heldSince = fallbackAt /\ DOMAIN queue = {}
  /\ heldSince # None => fallbackAt = heldSince \/ DOMAIN queue # {}
  /\ (InTick /\ fallback) => heldSince \in Nat /\ now - heldSince < RequestTimeout

LEMMA HoldStep ==
  ASSUME LoopInv, MailInv, QueueInv, HoldInv, [Next]_vars
  PROVE  HoldInv'
<1> USE Constants DEF HoldInv, InTick
<1>1. CASE AwaitFirst
  BY <1>1 DEF AwaitFirst, QueueInv, historyVars, NoActions
<1>2. CASE ReadAnswer
  <2>1. pc = "drain" /\ pc' \in {"drain", "raised"} /\ inbox # <<>>
        /\ UNCHANGED <<source, step, fallback, heldSince, now>>
    BY <1>2 DEF ReadAnswer, ReadInbox, historyVars
  <2>2. CASE UNCHANGED <<queue, fallbackAt>>
    BY <2>1, <2>2
  <2>3. CASE ~(UNCHANGED <<queue, fallbackAt>>)
    <3>1. Head(inbox).status = "actions"
      BY <1>2, <2>1, <2>3, HeadOfInbox DEF ReadAnswer
    <3>2. PICK length \in 1..Horizon :
            LET merged == MergeActionQueue(Head(inbox).ts, length, step)
            IN merged # NoActions /\ queue' = merged /\ fallbackAt' = None
      BY <1>2, <2>3, <3>1 DEF ReadAnswer
    <3>3. Head(inbox).ts \in 0..MaxSteps /\ Head(inbox).ts <= step /\ step \in 0..MaxSteps
      BY <2>1, <3>1, HeadOfInbox DEF LoopInv
    <3>4. IsMerge(MergeActionQueue(Head(inbox).ts, length, step), Head(inbox).ts, step)
      BY <3>3, Merge
    <3>5. DOMAIN queue' # {}
      BY <3>2, <3>4 DEF IsMerge
    <3> QED
      BY <2>1, <3>2, <3>5
  <2> QED
    BY <2>2, <2>3
<1>3. CASE ApplyQueued
  <2>1. pc' = "capture" /\ fallback' = FALSE /\ heldSince' = None /\ fallbackAt' = fallbackAt
        /\ DOMAIN queue # {}
    BY <1>3 DEF ApplyQueued
  <2> QED
    BY <2>1
<1>4. CASE HoldLast
  <2>1. DOMAIN queue = {} /\ queue' = queue /\ now' = now /\ now \in Nat
    <3>1. pc = "drain" /\ step \notin DOMAIN queue /\ queue' = queue /\ now' = now
      BY <1>4 DEF HoldLast
    <3>2. PICK k \in 0..MaxSteps + Horizon : DOMAIN queue = step..k - 1
      BY <3>1 DEF QueueInv, FilledFrom
    <3> QED
      BY <3>1, <3>2 DEF LoopInv
  <2>2. CASE pc' = "raised"
    <3>1. UNCHANGED <<fallbackAt, heldSince>>
      BY <1>4, <2>2 DEF HoldLast
    <3> QED
      BY <2>1, <2>2, <3>1
  <2>3. CASE pc' # "raised"
    <3>1. /\ fallbackAt' = IF fallbackAt = None THEN now ELSE fallbackAt
          /\ heldSince' = IF heldSince = None THEN now ELSE heldSince
          /\ fallbackAt # None => ~(now - fallbackAt >= RequestTimeout)
          /\ pc' = "capture"
      BY <1>4, <2>3 DEF HoldLast, Expired
    <3>2. fallbackAt = heldSince
      BY <2>1
    <3>3. CASE fallbackAt = None
      <4>1. fallbackAt' = now /\ heldSince' = now
        BY <3>1, <3>2, <3>3
      <4> QED
        BY <2>1, <3>1, <4>1
    <3>4. CASE fallbackAt # None
      <4>1. fallbackAt' = fallbackAt /\ heldSince' = fallbackAt /\ fallbackAt \in Nat
        BY <3>1, <3>2, <3>4
      <4> QED
        BY <2>1, <3>1, <3>4, <4>1
    <3> QED
      BY <3>3, <3>4
  <2> QED
    BY <2>2, <2>3
<1>5. CASE EndTick
  <2>1. UNCHANGED <<queue, fallbackAt, heldSince>> /\ pc' \in {"drain", "finished"}
    BY <1>5 DEF EndTick, historyVars
  <2> QED
    BY <2>1
<1>6. CASE StartCapture \/ PollCapture \/ CloseHardware \/ Leave
  <2>1. /\ UNCHANGED <<queue, fallback, fallbackAt, heldSince, now>>
        /\ pc' \in {"poll", "sleep", "raised", "end"}
        /\ pc' \in {"poll", "sleep"} => pc \in {"capture", "poll"}
    BY <1>6 DEF StartCapture, PollCapture, CloseHardware, Leave, historyVars
  <2> QED
    BY <2>1
<1>7. CASE CaptureEnds \/ Transport \/ UNCHANGED vars
  <2>1. UNCHANGED <<queue, fallback, fallbackAt, heldSince, now, pc>>
    BY <1>7 DEF CaptureEnds, Transport, vars, loopVars, historyVars
  <2> QED
    BY <2>1
<1> QED
  BY <1>1, <1>2, <1>3, <1>4, <1>5, <1>6, <1>7 DEF Next, Loop

LEMMA HoldHolds == Spec => [](LoopInv /\ MailInv /\ QueueInv /\ HoldInv)
<1>1. Init => HoldInv
  BY Constants DEF Init, HoldInv, InTick
<1>2. LoopInv /\ MailInv /\ QueueInv /\ HoldInv /\ [Next]_vars => HoldInv'
  BY HoldStep
<1> QED
  BY <1>1, <1>2, QueueHolds, PTL DEF Spec

\* No action is held for longer than the request timeout, whatever the mailbox answers.
THEOREM HoldBoundedHolds == Spec => []HoldBounded
<1>1. HoldInv => HoldBounded
  BY DEF HoldInv, HoldBounded
<1> QED
  BY <1>1, HoldHolds, PTL

-----------------------------------------------------------------------------
(* The observations that the actions come from.                             *)

IsPlan(k) == inbox[k].status = "actions"

\* The source of the last action, the queue, the chunks in the inbox and the
\* observations that may still be answered, from old to new.
SourceInv ==
  /\ source # None => source <= lastSubmitted
                      /\ \A t \in DOMAIN queue : source <= queue[t]
  /\ \A t \in DOMAIN queue : queue[t] <= lastSubmitted
  /\ \A k \in 1..Len(inbox) : IsPlan(k) =>
       /\ source # None => source <= inbox[k].ts
       /\ \A t \in DOMAIN queue : queue[t] <= inbox[k].ts
       /\ \A j \in 1..k : IsPlan(j) => inbox[j].ts <= inbox[k].ts
  /\ \A o \in open : o.id > processed =>
       /\ source # None => source <= o.ts
       /\ \A t \in DOMAIN queue : queue[t] <= o.ts
       /\ \A k \in 1..Len(inbox) : IsPlan(k) => inbox[k].ts <= o.ts
  /\ \A o, p \in open : o.id < p.id => o.ts < p.ts

\* Numbers can be compared only if they are numbers.
LEMMA SourceTypes ==
  ASSUME MailInv, QueueInv
  PROVE  /\ source # None => source \in Int
         /\ \A t \in DOMAIN queue : queue[t] \in Int
         /\ \A k \in 1..Len(inbox) : inbox[k] \in Answers /\ inbox[k].ts \in Int
         /\ \A o \in open : o.ts \in Int /\ o.id \in Int
         /\ lastSubmitted \in Int /\ processed \in Int /\ newest \in Int
         /\ Len(inbox) \in Nat
<1>1. \A k \in 1..Len(inbox) : inbox[k] \in Answers
  BY ElementOfSeq DEF MailInv
<1>2. \A k \in 1..Len(inbox) : inbox[k].ts \in Int
  BY <1>1 DEF Answers
<1>3. Len(inbox) \in Nat
  BY LenProperties DEF MailInv
<1> QED
  BY <1>1, <1>2, <1>3, Constants DEF MailInv, QueueInv

LEMMA QueueKinds ==
  ASSUME LoopInv, MailInv, QueueInv, [Next]_vars
  PROVE  \/ UNCHANGED <<queue, source>>
         \/ /\ AwaitFirst \/ ReadAnswer
            /\ source' = source /\ Head(inbox).status = "actions"
            /\ \A t \in DOMAIN queue' : queue'[t] = Head(inbox).ts
         \/ /\ ApplyQueued /\ step \in DOMAIN queue /\ source' = queue[step]
            /\ DOMAIN queue' \subseteq DOMAIN queue
            /\ \A t \in DOMAIN queue' : queue'[t] = queue[t]
<1>1. CASE AwaitFirst
  <2>1. Head(inbox).status # "actions" => queue' = queue
    BY <1>1, HeadOfInbox DEF AwaitFirst, ReadInbox
  <2>2. Head(inbox).status = "actions" =>
          \E length \in 1..Horizon : queue' = MergeActionQueue(Head(inbox).ts, length, 0)
    BY <1>1 DEF AwaitFirst
  <2>3. source' = source
    BY <1>1 DEF AwaitFirst
  <2> QED
    BY <1>1, <2>1, <2>2, <2>3 DEF MergeActionQueue
<1>2. CASE ReadAnswer
  <2>1. Head(inbox).status # "actions" => queue' = queue
    BY <1>2, HeadOfInbox DEF ReadAnswer, ReadInbox
  <2>2. Head(inbox).status = "actions" =>
          \E length \in 1..Horizon :
            queue' = queue \/ queue' = MergeActionQueue(Head(inbox).ts, length, step)
    BY <1>2 DEF ReadAnswer
  <2>3. source' = source
    BY <1>2 DEF ReadAnswer
  <2> QED
    BY <1>2, <2>1, <2>2, <2>3 DEF MergeActionQueue
<1>3. CASE ApplyQueued
  BY <1>3 DEF ApplyQueued
<1>4. CASE HoldLast \/ EndTick \/ StartCapture \/ PollCapture \/ CloseHardware \/ Leave
  BY <1>4 DEF HoldLast, EndTick, StartCapture, PollCapture, CloseHardware, Leave
<1>5. CASE CaptureEnds \/ Transport \/ UNCHANGED vars
  BY <1>5 DEF CaptureEnds, Transport, vars, loopVars
<1> QED
  BY <1>1, <1>2, <1>3, <1>4, <1>5 DEF Next, Loop

\* An answer is read: the chunk, if there is one, comes after what was done and before
\* what is still in the inbox.
LEMMA SourceRead ==
  ASSUME LoopInv, MailInv, QueueInv, SourceInv, Reads, source' = source,
         \/ queue' = queue
         \/ /\ Head(inbox).status = "actions"
            /\ \A t \in DOMAIN queue' : queue'[t] = Head(inbox).ts
  PROVE  SourceInv'
<1>1. /\ Head(inbox) = inbox[1] /\ 1 \in 1..Len(inbox) /\ Len(inbox) \in Nat
      /\ \A k \in 1..Len(inbox') : k + 1 \in 1..Len(inbox) /\ inbox'[k] = inbox[k + 1]
      /\ Len(inbox') \in Nat
  BY TailOf, InboxKinds, LenProperties DEF Reads, MailInv, InboxTail
<1>2. \A k \in 1..Len(inbox') : \A j \in 1..k : j + 1 \in 1..(k + 1) /\ j \in 1..Len(inbox')
  BY <1>1
<1>3. open' = open /\ processed' = processed /\ lastSubmitted' = lastSubmitted
  BY DEF Reads
<1>4. \A k \in 1..Len(inbox') : IsPlan(k)' => IsPlan(k + 1)
  BY <1>1 DEF IsPlan
<1>5. \A k \in 1..Len(inbox') : IsPlan(k)' =>
        \A j \in 1..k : IsPlan(j)' => inbox'[j].ts <= inbox'[k].ts
  BY <1>1, <1>2, <1>4 DEF SourceInv
<1>6. CASE queue' = queue
  BY <1>1, <1>3, <1>4, <1>5, <1>6 DEF SourceInv
<1>7. CASE Head(inbox).status = "actions" /\ \A t \in DOMAIN queue' : queue'[t] = inbox[1].ts
  <2>1. IsPlan(1)
    BY <1>1, <1>7 DEF IsPlan
  <2>2. inbox[1].ts <= lastSubmitted /\ (source # None => source <= inbox[1].ts)
    BY <1>1, <2>1 DEF SourceInv, MailInv
  <2>3. \A k \in 1..Len(inbox) : IsPlan(k) => inbox[1].ts <= inbox[k].ts
    <3>1. \A k \in 1..Len(inbox) : 1 \in 1..k
      BY <1>1
    <3> QED
      BY <2>1, <3>1 DEF SourceInv
  <2>4. \A o \in open : o.id > processed => inbox[1].ts <= o.ts
    BY <1>1, <2>1 DEF SourceInv
  <2> QED
    BY <1>1, <1>3, <1>4, <1>5, <1>7, <2>2, <2>3, <2>4 DEF SourceInv
<1> QED
  BY <1>1, <1>6, <1>7

\* An answer is added, or some are lost.
LEMMA SourceAnswered ==
  ASSUME MailInv, QueueInv, SourceInv, UNCHANGED <<queue, source, lastSubmitted>>,
         open' \subseteq open, processed' \in Int, processed' >= processed,
         NEW new, InboxKept \/ InboxGrown(new),
         \/ new.status # "actions"
         \/ /\ new.status = "actions"
            /\ \E o \in open : /\ o.id > processed /\ processed' = o.id /\ new.ts = o.ts
  PROVE  SourceInv'
<1>1. /\ \A k \in 1..Len(inbox) : inbox[k].ts \in Int
      /\ \A o \in open : o.ts \in Int /\ o.id \in Int
      /\ \A t \in DOMAIN queue : queue[t] \in Int
      /\ processed \in Int /\ (source # None => source \in Int)
  BY SourceTypes
<1>2. \A o \in open' : o \in open /\ (o.id > processed' => o.id > processed)
  BY <1>1
<1>3. CASE InboxKept
  <2>1. PICK n \in Nat : /\ Len(inbox') = n
                         /\ \A k \in 1..n : k \in 1..Len(inbox) /\ inbox'[k] = inbox[k]
    BY <1>3 DEF InboxKept
  <2>2. \A k \in 1..n : \A j \in 1..k : j \in 1..n
    BY <2>1
  <2> QED
    BY <1>2, <2>1, <2>2 DEF SourceInv, IsPlan
<1>4. CASE InboxGrown(new)
  <2>1. PICK n \in Nat : /\ Len(inbox') = n + 1 /\ inbox'[n + 1] = new
                         /\ \A k \in 1..n : k \in 1..Len(inbox) /\ inbox'[k] = inbox[k]
    BY <1>4 DEF InboxGrown
  <2>2. \A k \in 1..Len(inbox') : k \in 1..n \/ k = n + 1
    BY <2>1
  <2>3. \A k \in 1..n : \A j \in 1..k : j \in 1..n
    BY <2>1
  <2>4. CASE new.status # "actions"
    <3>1. \A k \in 1..Len(inbox') : IsPlan(k)' => k \in 1..n /\ IsPlan(k) /\ inbox'[k] = inbox[k]
      BY <2>1, <2>2, <2>4 DEF IsPlan
    <3> QED
      BY <1>2, <2>1, <2>3, <3>1 DEF SourceInv
  <2>5. CASE new.status = "actions"
    <3>1. PICK o \in open : o.id > processed /\ processed' = o.id /\ new.ts = o.ts
      BY <2>5
    <3>2. /\ source # None => source <= new.ts
          /\ \A t \in DOMAIN queue : queue[t] <= new.ts
          /\ \A k \in 1..Len(inbox) : IsPlan(k) => inbox[k].ts <= new.ts
      BY <3>1 DEF SourceInv
    <3>3. \A p \in open' : p.id > processed' => new.ts <= p.ts
      BY <1>1, <3>1 DEF SourceInv
    <3>4. \A k \in 1..n : IsPlan(k)' => IsPlan(k)
      BY <2>1 DEF IsPlan
    <3>5. \A k \in 1..Len(inbox') : IsPlan(k)' =>
            /\ source' # None => source' <= inbox'[k].ts
            /\ \A t \in DOMAIN queue' : queue'[t] <= inbox'[k].ts
      BY <2>1, <2>2, <3>2, <3>4 DEF SourceInv
    <3>6. \A k \in 1..Len(inbox') : IsPlan(k)' =>
            \A j \in 1..k : IsPlan(j)' => inbox'[j].ts <= inbox'[k].ts
      <4>1. ASSUME NEW k \in 1..n, IsPlan(k)', NEW j \in 1..k, IsPlan(j)'
            PROVE  inbox'[j].ts <= inbox'[k].ts
        BY <2>1, <2>3, <3>4, <4>1 DEF SourceInv
      <4>2. ASSUME NEW j \in 1..n + 1, IsPlan(j)' PROVE inbox'[j].ts <= inbox'[n + 1].ts
        <5>1. CASE j \in 1..n
          BY <2>1, <3>2, <3>4, <4>2, <5>1
        <5>2. CASE j = n + 1
          BY <1>1, <2>1, <3>1, <5>2
        <5> QED
          BY <4>2, <5>1, <5>2
      <4> QED
        BY <2>2, <4>1, <4>2
    <3>7. \A p \in open' : p.id > processed' =>
            \A k \in 1..Len(inbox') : IsPlan(k)' => inbox'[k].ts <= p.ts
      BY <1>2, <2>1, <2>2, <3>3, <3>4 DEF SourceInv
    <3> QED
      BY <1>2, <3>5, <3>6, <3>7 DEF SourceInv
  <2> QED
    BY <2>4, <2>5
<1> QED
  BY <1>3, <1>4

LEMMA SourceStep ==
  ASSUME LoopInv, MailInv, QueueInv, SourceInv, [Next]_vars
  PROVE  SourceInv'
<1>0. /\ \A k \in 1..Len(inbox) : inbox[k].ts \in Int
      /\ \A o \in open : o.ts \in Int /\ o.id \in Int
      /\ \A t \in DOMAIN queue : queue[t] \in Int
      /\ processed \in Int /\ lastSubmitted \in Int /\ newest \in Int
      /\ (source # None => source \in Int) /\ None \notin Int
  BY SourceTypes, Constants
<1>1. CASE Reads /\ (AwaitFirst \/ ReadAnswer)
  <2>1. ~ApplyQueued \/ UNCHANGED inbox
    BY DEF ApplyQueued, mailboxVars
  <2>2. ~ApplyQueued
    <3>1. inbox' # inbox
      BY <1>1, TailOf DEF Reads, MailInv
    <3> QED
      BY <2>1, <3>1
  <2> QED
    BY <1>1, <2>2, QueueKinds, SourceRead
<1>2. CASE ApplyQueued
  <2>1. Quiet
    BY <1>2 DEF ApplyQueued, Quiet, mailboxVars
  <2>2. /\ step \in DOMAIN queue /\ source' = queue[step]
        /\ DOMAIN queue' \subseteq DOMAIN queue
        /\ \A t \in DOMAIN queue' : queue'[t] = queue[t]
    BY <1>2 DEF ApplyQueued
  <2>3. \A t \in DOMAIN queue : queue[step] <= queue[t]
    <3>1. \A t \in DOMAIN queue : queue[t] = queue[step]
      BY <2>2 DEF QueueInv
    <3> QED
      BY <1>0, <2>2, <3>1
  <2> QED
    BY <2>1, <2>2, <2>3 DEF Quiet, SourceInv, IsPlan
<1>3. CASE ~ApplyQueued /\ ~(AwaitFirst \/ ReadAnswer)
  <2>1. UNCHANGED <<queue, source>>
    BY <1>3, QueueKinds
  <2>2. CASE Quiet
    BY <2>1, <2>2 DEF Quiet, SourceInv, IsPlan
  <2>3. CASE Fails
    <3>1. InboxKept \/ InboxGrown(ErrorEvent)
      BY <2>3, InboxKinds
    <3>2. /\ lastSubmitted' = lastSubmitted /\ open' \subseteq open /\ processed' \in Int
          /\ processed' >= processed
      BY <1>0, <2>3 DEF Fails
    <3>3. ErrorEvent.status # "actions"
      BY DEF ErrorEvent
    <3> QED
      BY <2>1, <3>1, <3>2, <3>3, SourceAnswered
  <2>4. CASE capture.state # "none" /\ Submits(Fresh)
    <3>1. /\ inbox' = inbox /\ processed' = processed /\ lastSubmitted' = Fresh.ts
          /\ open' \subseteq open \cup {Fresh} /\ Fresh.id = newest + 1
          /\ Fresh.ts > lastSubmitted /\ Fresh.ts \in Int
      BY <2>4 DEF Submits, Fresh, MailInv, LoopInv
    <3>2. \A o \in open : o.id <= newest /\ o.ts <= lastSubmitted
      BY DEF MailInv
    <3>3. \A k \in 1..Len(inbox) : inbox[k].ts <= lastSubmitted
      BY DEF MailInv
    <3>4. \A o, p \in open' : o.id < p.id => o.ts < p.ts
      <4> SUFFICES ASSUME NEW o \in open', NEW p \in open', o.id < p.id PROVE o.ts < p.ts
        OBVIOUS
      <4>1. CASE o \in open /\ p \in open
        BY <4>1 DEF SourceInv
      <4>2. CASE o \in open /\ p = Fresh
        BY <1>0, <3>1, <3>2, <4>2
      <4>3. CASE o = Fresh
        BY <1>0, <3>1, <3>2, <4>3
      <4> QED
        BY <3>1, <4>1, <4>2, <4>3
    <3>5. /\ source # None => source <= Fresh.ts
          /\ \A t \in DOMAIN queue : queue[t] <= Fresh.ts
          /\ \A k \in 1..Len(inbox) : inbox[k].ts <= Fresh.ts
      BY <1>0, <3>1, <3>3 DEF SourceInv
    <3> QED
      BY <2>1, <3>1, <3>4, <3>5 DEF SourceInv, IsPlan
  <2>5. ASSUME NEW o \in open, NEW status \in {"actions", "similar", "superseded", "error"},
               Answered(o, status)
        PROVE  SourceInv'
    <3>1. InboxGrown(Answer(o, status))
      BY <2>5, InboxKinds
    <3>2. /\ lastSubmitted' = lastSubmitted /\ open' \subseteq open /\ processed' \in Int
          /\ processed' >= processed
          /\ status = "actions" => o.id > processed /\ processed' = o.id
      BY <1>0, <2>5 DEF Answered
    <3>3. Answer(o, status).status = status /\ Answer(o, status).ts = o.ts
      BY DEF Answer
    <3> QED
      BY <2>1, <3>1, <3>2, <3>3, SourceAnswered
  <2> QED
    BY <1>3, <2>2, <2>3, <2>4, <2>5, MailKinds
<1>4. CASE AwaitFirst \/ ReadAnswer
  <2>1. Reads
    BY <1>4 DEF AwaitFirst, ReadAnswer, ReadInbox, Reads, historyVars
  <2> QED
    BY <1>1, <1>4, <2>1
<1> QED
  BY <1>2, <1>3, <1>4

LEMMA SourceHolds == Spec => [](LoopInv /\ MailInv /\ QueueInv /\ SourceInv)
<1>1. Init => SourceInv
  <2>1. Len(<<>>) = 0
    BY EmptySeq
  <2> QED
    BY <2>1 DEF Init, SourceInv, NoActions
<1>2. LoopInv /\ MailInv /\ QueueInv /\ SourceInv /\ [Next]_vars => SourceInv'
  BY SourceStep
<1> QED
  BY <1>1, <1>2, QueueHolds, PTL DEF Spec

\* The robot never goes back to a plan made from an older observation.
THEOREM SourceNeverOlderHolds == Spec => SourceNeverOlder
<1>1. LoopInv /\ MailInv /\ QueueInv /\ SourceInv /\ [Next]_vars
        => [source # None => source' >= source]_source
  <2> SUFFICES ASSUME LoopInv, MailInv, QueueInv, SourceInv, [Next]_vars,
                      source' # source, source # None
               PROVE  source' >= source
    OBVIOUS
  <2>1. step \in DOMAIN queue /\ source' = queue[step]
    BY QueueKinds
  <2> QED
    BY <2>1, SourceTypes DEF SourceInv
<1> QED
  BY <1>1, SourceHolds, PTL DEF Spec, SourceNeverOlder

-----------------------------------------------------------------------------
(* Types.                                                                   *)

FlagInv ==
  /\ sent \in BOOLEAN /\ fallback \in BOOLEAN /\ wasFallback \in BOOLEAN
  /\ capture.must_go \in BOOLEAN
  /\ \A o \in open : o.must_go \in BOOLEAN

LEMMA FlagStep ==
  ASSUME LoopInv, MailInv, FlagInv, [Next]_vars
  PROVE  FlagInv'
<1> USE DEF FlagInv
<1>1. sent' \in BOOLEAN /\ fallback' \in BOOLEAN /\ wasFallback' \in BOOLEAN
  BY Zenon DEF Next, Loop, AwaitFirst, ReadAnswer, ApplyQueued, HoldLast, StartCapture,
     PollCapture, EndTick, CloseHardware, CaptureEnds, Leave, Transport, loopVars, vars
<1>2. capture'.must_go \in BOOLEAN
  <2>1. CASE StartCapture
    <3>1. ASSUME NEW m \in BOOLEAN, capture' = [state |-> "running", ts |-> step + 1, must_go |-> m]
          PROVE  capture'.must_go \in BOOLEAN
      BY <3>1
    <3>2. (fallback /\ ~wasFallback) \in BOOLEAN
      BY Zenon
    <3>3. \/ capture' = capture
          \/ capture' = [state |-> "running", ts |-> step + 1,
                         must_go |-> fallback /\ ~wasFallback]
      BY Zenon, <2>1 DEF StartCapture
    <3> QED
      BY Zenon, <3>1, <3>2, <3>3
  <2>2. CASE PollCapture
    <3>1. NoCapture.must_go \in BOOLEAN
      BY DEF NoCapture
    <3>2. capture' = capture \/ capture' = NoCapture
      BY Zenon, <2>2 DEF PollCapture
    <3> QED
      BY Zenon, <3>1, <3>2
  <2>3. CASE CaptureEnds
    BY <2>3 DEF CaptureEnds, LoopInv
  <2>4. CASE UNCHANGED capture
    BY <2>4
  <2> QED
    BY <2>1, <2>2, <2>3, <2>4 DEF Next, Loop, AwaitFirst, ReadAnswer, ApplyQueued, HoldLast,
       EndTick, CloseHardware, Leave, Transport, loopVars, vars
<1>3. \A o \in open' : o \in open \/ o = Fresh
  BY MailKinds DEF Quiet, Fails, Reads, Submits, Answered
<1>4. Fresh.must_go \in BOOLEAN
  BY Zenon DEF Fresh
<1> QED
  BY <1>1, <1>2, <1>3, <1>4

\* Every variable of the loop and of its mailbox keeps its type.
THEOREM LoopTypeCorrect == Spec => []TypeOK
<1>1. Init => FlagInv
  <2> SUFFICES ASSUME Init PROVE FlagInv
    OBVIOUS
  <2>1. sent \in BOOLEAN /\ fallback \in BOOLEAN /\ wasFallback \in BOOLEAN
    BY Zenon DEF Init
  <2>2. capture.must_go \in BOOLEAN /\ \A o \in open : o.must_go \in BOOLEAN
    BY DEF Init, NoCapture
  <2> QED
    BY <2>1, <2>2 DEF FlagInv
<1>2. LoopInv /\ MailInv /\ QueueInv /\ HoldInv /\ FlagInv => TypeOK
  <2> SUFFICES ASSUME LoopInv, MailInv, QueueInv, HoldInv, FlagInv PROVE TypeOK
    OBVIOUS
  <2>1. ASSUME NEW o \in open PROVE o \in Observation
    <3>1. newest <= MaxSteps /\ lastSubmitted <= MaxSteps /\ newest \in Nat /\ lastSubmitted \in Nat
      BY Constants DEF MailInv, LoopInv, Limit
    <3>2. /\ o.session = 1 /\ o.id \in 0..newest /\ o.ts \in 0..lastSubmitted
          /\ o = [session |-> o.session, id |-> o.id, ts |-> o.ts, must_go |-> o.must_go]
          /\ o.must_go \in BOOLEAN
      BY DEF MailInv, FlagInv
    <3>3. o.session \in 1..MaxSessions /\ o.id \in 0..MaxObservations - 1
          /\ o.ts \in 0..MaxTimestep
      BY <3>1, <3>2, Constants
    <3> QED
      BY <3>2, <3>3 DEF Observation
  <2>2. \A k \in 1..Len(inbox) :
          inbox[k].status \in {"actions", "similar", "superseded", "error"}
    <3>1. \A k \in 1..Len(inbox) : inbox[k] \in Answers
      BY ElementOfSeq DEF MailInv
    <3> QED
      BY <3>1 DEF Answers
  <2>3. capture \in [state: {"none", "running", "ready", "failed"},
                     ts: 0..MaxSteps, must_go: BOOLEAN]
    BY Constants DEF LoopInv, FlagInv
  <2>4. \A t \in DOMAIN queue : queue[t] \in Steps
    BY Constants DEF QueueInv, Steps
  <2> QED
    BY <2>1, <2>2, <2>3, <2>4 DEF TypeOK, LoopInv, QueueInv, HoldInv, FlagInv
<1>3. LoopInv /\ MailInv /\ FlagInv /\ [Next]_vars => FlagInv'
  BY FlagStep
<1> QED
  BY <1>1, <1>2, <1>3, HoldHolds, PTL DEF Spec
=============================================================================
