-------------------------- MODULE RtcEngine_proofs --------------------------
(***************************************************************************)
(* Theorems about RtcEngine for any tasks, goals, chunk sizes and numbers  *)
(* of segments, questions, warm-up inferences and errors.                  *)
(***************************************************************************)
EXTENDS RtcEngine, SequenceTheorems, TLAPS

-----------------------------------------------------------------------------
(* Lemmas about the action queue.                                           *)

Entries == [obs : Nat \cup {NoObs}, task : Tasks]

\* The actions of a chunk carry the observation and the task of the inference.
LEMMA ActionsAre ==
  ASSUME TypeOK, NEW n \in Nat
  PROVE  /\ Actions(n) \in Seq(Entries) /\ Len(Actions(n)) = n
         /\ \A i \in 1..n : Actions(n)[i] = [obs |-> mine.obs, task |-> mine.task]
<1>1. [obs |-> mine.obs, task |-> mine.task] \in Entries
  BY DEF TypeOK, Entries
<1>2. Actions(n) \in [1..n -> Entries]
  BY <1>1 DEF Actions
<1> QED
  BY <1>2 DEF Actions

LEMMA ConcatEntries ==
  ASSUME NEW s \in Seq(Entries), NEW t \in Seq(Entries)
  PROVE  /\ s \o t \in Seq(Entries) /\ Len(s \o t) = Len(s) + Len(t)
         /\ \A i \in 1..Len(s) + Len(t) : (s \o t)[i] = IF i <= Len(s) THEN s[i] ELSE t[i - Len(s)]
  BY ConcatProperties

\* After a merge every queued action is an old one or one of the chunk.
LEMMA MergeKeeps ==
  ASSUME TypeOK, EngineAssumption, NEW delay \in 1..MaxDelay, Merge(delay)
  PROVE  /\ queue' \in Seq(Entries)
         /\ \A i \in 1..Len(queue') :
              \/ queue'[i] = [obs |-> mine.obs, task |-> mine.task]
              \/ \E j \in 1..Len(queue) : queue'[i] = queue[j]
<1>1. queue \in Seq(Entries) /\ Chunk \in Nat /\ Chunk - delay \in Nat
  BY DEF TypeOK, Entries, EngineAssumption
<1>2. CASE blending
  BY <1>1, <1>2, ActionsAre DEF Merge
<1>3. CASE ~blending
  <2> DEFINE new == Actions(Chunk)
  <2>1. queue' = queue \o new
    BY <1>3 DEF Merge
  <2>2. /\ new \in Seq(Entries) /\ Len(new) = Chunk
        /\ \A i \in 1..Chunk : new[i] = [obs |-> mine.obs, task |-> mine.task]
    BY <1>1, ActionsAre
  <2> HIDE DEF new
  <2>3. /\ queue \o new \in Seq(Entries) /\ Len(queue \o new) = Len(queue) + Chunk
        /\ \A i \in 1..Len(queue) + Chunk :
             (queue \o new)[i] = IF i <= Len(queue) THEN queue[i] ELSE new[i - Len(queue)]
    <3>1. /\ queue \o new \in Seq(Entries) /\ Len(queue \o new) = Len(queue) + Len(new)
          /\ \A i \in 1..Len(queue) + Len(new) :
               (queue \o new)[i] = IF i <= Len(queue) THEN queue[i] ELSE new[i - Len(queue)]
      BY <1>1, <2>2, ConcatEntries
    <3> QED
      BY <2>2, <3>1
  <2>4. ASSUME NEW i \in 1..Len(queue')
        PROVE  \/ queue'[i] = [obs |-> mine.obs, task |-> mine.task]
               \/ \E j \in 1..Len(queue) : queue'[i] = queue[j]
    <3>1. Len(queue) \in Nat /\ Chunk \in Nat /\ i \in 1..(Len(queue) + Chunk)
      BY <1>1, <2>1, <2>3, LenProperties
    <3>2. CASE i <= Len(queue)
      BY <2>1, <2>3, <3>1, <3>2
    <3>3. CASE ~(i <= Len(queue))
      <4>1. i - Len(queue) \in 1..Chunk
        BY <3>1, <3>3
      <4> QED
        BY <2>1, <2>2, <2>3, <3>1, <3>3, <4>1
    <3> QED
      BY <3>2, <3>3
  <2> QED
    BY <2>1, <2>3, <2>4
<1> QED
  BY <1>2, <1>3

-----------------------------------------------------------------------------
(* The type invariant: the Boolean variables apart, for Zenon's sake.        *)

FlagTypeOK ==
  /\ blending \in BOOLEAN /\ running \in BOOLEAN /\ saying \in BOOLEAN
  /\ due \in BOOLEAN /\ inFlight \in BOOLEAN /\ active \in BOOLEAN
  /\ flushed \in BOOLEAN /\ failed \in BOOLEAN

DataTypeOK ==
  /\ pc \in {"serve", "idle", "starting", "reset", "relabel", "observe", "act", "pump",
             "leave", "drop", "dropAnswers", "ended"}
  /\ segments \in 0..MaxSegments
  /\ ending \in {"nothing", "segment", "serve"}
  /\ task \in Tasks /\ dispatched \in Tasks
  /\ word \in OperatorTasks \cup {None} /\ inForce \subseteq Tasks
  /\ goal \in Goals \cup {None}
  /\ pending \in Queries \cup {None}
  /\ answers \in [questions : Nat, turns : Nat]
  /\ asked \in 0..MaxQuestions /\ resolved \in Nat
  /\ obs \in Nat \cup {NoObs} /\ epoch \in Nat
  /\ queue \in Seq(Entries)
  /\ cold \in 0..Warmup
  /\ rtc \in {"top", "take", "generate", "publish", "reread", "refill", "infer", "dying", "dead"}
  /\ mine \in [obs : Nat \cup {NoObs}, epoch : Nat, task : Tasks]
  /\ query \in Queries \cup {None}
  /\ errors \in 0..MaxErrors

\* A thread that is not dying has an error left.
RetryOK == rtc \notin {"dying", "dead"} => errors < MaxErrors

LEMMA AnswerCounts ==
  ASSUME NEW r \in [questions : Nat, turns : Nat]
  PROVE  /\ [r EXCEPT !.questions = @ + 1] \in [questions : Nat, turns : Nat]
         /\ [r EXCEPT !.turns = @ + 1] \in [questions : Nat, turns : Nat]
  OBVIOUS

LEMMA TypeParts == TypeOK <=> FlagTypeOK /\ DataTypeOK
  BY Zenon DEF TypeOK, FlagTypeOK, DataTypeOK, Entries

LEMMA FlagStep == TypeOK /\ [Next]_vars => FlagTypeOK'
<1> SUFFICES ASSUME FlagTypeOK, [Next]_vars PROVE FlagTypeOK'
  BY TypeParts
<1> USE DEF FlagTypeOK, control, tasks, channel, buffers, warming, thread
<1>1. CASE SetTaskBegin BY Zenon, <1>1 DEF SetTaskBegin, NoGoal
<1>2. CASE SetTaskEnd BY Zenon, <1>2 DEF SetTaskEnd
<1>3. CASE Ask BY Zenon, <1>3 DEF Ask
<1>4. CASE StartAutosteer BY Zenon, <1>4 DEF StartAutosteer
<1>5. CASE StopAutosteer BY Zenon, <1>5 DEF StopAutosteer, NoGoal
<1>6. CASE StopSegment BY Zenon, <1>6 DEF StopSegment
<1>7. CASE BeginSegment BY Zenon, <1>7 DEF BeginSegment
<1>8. CASE IdlePump BY Zenon, <1>8 DEF IdlePump
<1>9. CASE TurnDue BY Zenon, <1>9 DEF TurnDue
<1>10. CASE ResetClear BY Zenon, <1>10 DEF ResetClear
<1>11. CASE Relabel BY Zenon, <1>11 DEF Relabel
<1>12. CASE Observe BY Zenon, <1>12 DEF Observe
<1>13. CASE Act BY Zenon, <1>13 DEF Act
<1>14. CASE PumpQuery BY Zenon, <1>14 DEF PumpQuery
<1>15. CASE LeaveLoop BY Zenon, <1>15 DEF LeaveLoop
<1>16. CASE EndSteering BY Zenon, <1>16 DEF EndSteering, NoGoal
<1>17. CASE DropPending BY Zenon, <1>17 DEF DropPending
<1>18. CASE DropReadySubtaskAnswers BY Zenon, <1>18 DEF DropReadySubtaskAnswers
<1>19. CASE Snapshot BY Zenon, <1>19 DEF Snapshot
<1>20. CASE TakeQuery BY Zenon, <1>20 DEF TakeQuery
<1>21. CASE AnswerQuestion BY Zenon, <1>21 DEF AnswerQuestion
<1>22. CASE DiscardTurn BY Zenon, <1>22 DEF DiscardTurn
<1>23. CASE ApplySubtask BY Zenon, <1>23 DEF ApplySubtask
<1>24. CASE FailSubtask BY Zenon, <1>24 DEF FailSubtask, NoGoal
<1>25. CASE PublishAnswer BY Zenon, <1>25 DEF PublishAnswer
<1>26. CASE Reread BY Zenon, <1>26 DEF Reread, AtTop
<1>27. CASE Refill BY Zenon, <1>27 DEF Refill, AtTop
<1>28. CASE ChunkDone BY Zenon, <1>28 DEF ChunkDone, AtTop
<1>29. CASE ChunkFails BY Zenon, <1>29 DEF ChunkFails
<1>30. CASE Die BY Zenon, <1>30 DEF Die
<1>31. CASE UNCHANGED vars BY Zenon, <1>31 DEF vars
<1>32. CASE EndController BY Zenon, <1>32 DEF EndController
<1>33. CASE CheckRequests BY Zenon, <1>33 DEF CheckRequests
<1>34. CASE SegmentStarts BY Zenon, <1>34 DEF SegmentStarts
<1>35. CASE StrategyFails BY Zenon, <1>35 DEF StrategyFails
<1> QED
  BY <1>1, <1>2, <1>3, <1>4, <1>5, <1>6, <1>7, <1>8, <1>9, <1>10, <1>11, <1>12, <1>13,
     <1>14, <1>15, <1>16, <1>17, <1>18, <1>19, <1>20, <1>21, <1>22, <1>23, <1>24, <1>25,
     <1>26, <1>27, <1>28, <1>29, <1>30, <1>31, <1>32, <1>33, <1>34, <1>35
     DEF Next, Operator, Control, Thread

LEMMA DataOperator ==
  ASSUME TypeOK, EngineAssumption, Operator \/ BeginSegment \/ StrategyFails \/ TurnDue
  PROVE  DataTypeOK'
<1>0. DataTypeOK
  BY TypeParts
<1> USE <1>0 DEF DataTypeOK, control, tasks, channel, buffers, warming, thread
<1>1. CASE SetTaskBegin BY <1>1 DEF SetTaskBegin, NoGoal
<1>2. CASE SetTaskEnd BY <1>2 DEF SetTaskEnd, Tasks
<1>3. CASE Ask BY <1>3 DEF Ask, Queries, EngineAssumption
<1>4. CASE StartAutosteer BY <1>4 DEF StartAutosteer
<1>5. CASE StopAutosteer BY <1>5 DEF StopAutosteer, NoGoal
<1>6. CASE StopSegment BY <1>6 DEF StopSegment, SegmentEnds
<1>7. CASE EndController BY <1>7 DEF EndController
<1>8. CASE BeginSegment BY <1>8 DEF BeginSegment, EngineAssumption
<1>9. CASE StrategyFails BY <1>9 DEF StrategyFails
<1>10. CASE TurnDue BY <1>10 DEF TurnDue
<1> QED
  BY <1>1, <1>2, <1>3, <1>4, <1>5, <1>6, <1>7, <1>8, <1>9, <1>10 DEF Operator

LEMMA DataControl ==
  ASSUME TypeOK, EngineAssumption, Control
  PROVE  DataTypeOK'
<1>0. DataTypeOK
  BY TypeParts
<1> USE <1>0 DEF DataTypeOK, control, tasks, channel, buffers, warming, thread
<1>1. CASE ResetClear BY <1>1 DEF ResetClear
<1>2. CASE Relabel BY <1>2 DEF Relabel
<1>3. CASE Observe BY <1>3 DEF Observe
<1>4. CASE Act
  <2>1. CASE queue = <<>> BY <1>4, <2>1 DEF Act
  <2>2. CASE queue # <<>>
    <3>1. Head(queue) \in Entries /\ Tail(queue) \in Seq(Entries)
      BY <2>2, HeadTailProperties
    <3>2. queue' \in Seq(Entries)
      BY <1>4, <2>2, <3>1 DEF Act
    <3>3. dispatched' \in Tasks
      BY <1>4, <2>2, <3>1 DEF Act, Entries
    <3> QED
      BY <1>4, <3>2, <3>3 DEF Act, Entries
  <2> QED BY <2>1, <2>2
<1>5. CASE PumpQuery BY <1>5 DEF PumpQuery, DeliverAnswers, NoAnswers, Queries
<1>6. CASE LeaveLoop BY <1>6 DEF LeaveLoop, SegmentEnds
<1>7. CASE EndSteering BY <1>7 DEF EndSteering, NoGoal
<1>8. CASE DropPending BY <1>8 DEF DropPending
<1>9. CASE DropReadySubtaskAnswers
  <2>1. answers' \in [questions : Nat, turns : Nat]
    BY <1>9 DEF DropReadySubtaskAnswers
  <2> QED
    BY <1>9, <2>1 DEF DropReadySubtaskAnswers
<1>10. CASE CheckRequests BY <1>10 DEF CheckRequests
<1>11. CASE SegmentStarts BY <1>11 DEF SegmentStarts
<1>12. CASE IdlePump BY <1>12 DEF IdlePump, DeliverAnswers, NoAnswers
<1> QED
  BY <1>1, <1>2, <1>3, <1>4, <1>5, <1>6, <1>7, <1>8, <1>9, <1>10, <1>11, <1>12 DEF Control

LEMMA DataThread ==
  ASSUME TypeOK, RetryOK, EngineAssumption, Thread
  PROVE  DataTypeOK'
<1>0. DataTypeOK
  BY TypeParts
<1> USE <1>0 DEF DataTypeOK, control, tasks, channel, buffers, warming, thread
<1>1. Nothing \in [obs : Nat \cup {NoObs}, epoch : Nat, task : Tasks]
  BY DEF Nothing, Tasks, EngineAssumption
<1>2. CASE Snapshot BY <1>2 DEF Snapshot
<1>3. CASE TakeQuery BY <1>3 DEF TakeQuery
<1>4. CASE AnswerQuestion BY <1>4 DEF AnswerQuestion
<1>5. CASE DiscardTurn BY <1>5 DEF DiscardTurn
<1>6. CASE ApplySubtask BY <1>6 DEF ApplySubtask, Tasks
<1>7. CASE FailSubtask BY <1>7 DEF FailSubtask, NoGoal
<1>8. CASE PublishAnswer
  <2>1. \/ answers' = [answers EXCEPT !.questions = @ + 1]
        \/ answers' = [answers EXCEPT !.turns = @ + 1]
    BY <1>8 DEF PublishAnswer
  <2>2. answers' \in [questions : Nat, turns : Nat]
    BY <2>1, AnswerCounts
  <2> QED
    BY <1>8, <2>2 DEF PublishAnswer
<1>9. CASE Reread
  <2>1. mine' \in [obs : Nat \cup {NoObs}, epoch : Nat, task : Tasks]
    BY <1>1, <1>9 DEF Reread, AtTop
  <2>2. rtc' \in {"top", "refill", "infer"}
    BY <1>9 DEF Reread, AtTop
  <2>3. UNCHANGED <<control, tasks, channel, buffers, warming, query, errors, failed>>
    BY <1>9 DEF Reread
  <2> QED
    BY <2>1, <2>2, <2>3
<1>10. CASE Refill
  <2>1. mine' \in [obs : Nat \cup {NoObs}, epoch : Nat, task : Tasks]
    BY <1>1, <1>10 DEF Refill, AtTop
  <2>2. rtc' \in {"top", "refill", "infer"}
    BY <1>10 DEF Refill, AtTop
  <2>3. UNCHANGED <<control, tasks, channel, buffers, warming, query, errors, failed>>
    BY <1>10 DEF Refill
  <2> QED
    BY <2>1, <2>2, <2>3
<1>11. CASE ChunkDone
  <2>1. queue' \in Seq(Entries)
    BY <1>11, MergeKeeps DEF ChunkDone
  <2> QED
    BY <1>1, <1>11, <2>1 DEF ChunkDone, AtTop, Warmer, EngineAssumption
<1>12. CASE ChunkFails BY <1>1, <1>12 DEF ChunkFails, EngineAssumption, RetryOK
<1>13. CASE Die BY <1>13 DEF Die, SegmentEnds, EngineAssumption
<1> QED
  BY <1>2, <1>3, <1>4, <1>5, <1>6, <1>7, <1>8, <1>9, <1>10, <1>11, <1>12, <1>13 DEF
     Thread

LEMMA RetryStep == TypeOK /\ RetryOK /\ [Next]_vars => RetryOK'
<1> SUFFICES ASSUME DataTypeOK, RetryOK, [Next]_vars PROVE RetryOK'
  BY TypeParts
<1> USE EngineAssumption DEF RetryOK, DataTypeOK, EngineAssumption
<1>1. CASE ChunkDone BY <1>1 DEF ChunkDone
<1>2. CASE ChunkFails BY <1>2 DEF ChunkFails
<1>3. CASE Die BY <1>3 DEF Die
<1>4. CASE Thread /\ ~(ChunkDone \/ ChunkFails \/ Die)
  BY <1>4 DEF Thread, Snapshot, TakeQuery, AnswerQuestion, DiscardTurn, ApplySubtask,
     FailSubtask, PublishAnswer, Reread, Refill, AtTop
<1>5. CASE UNCHANGED thread
  BY <1>5 DEF thread
<1>6. Operator \/ BeginSegment \/ Control \/ StrategyFails \/ TurnDue \/ UNCHANGED vars
        => UNCHANGED thread
  BY DEF Operator, SetTaskBegin, SetTaskEnd, Ask, StartAutosteer, StopAutosteer, StopSegment,
     EndController, BeginSegment, Control, CheckRequests, SegmentStarts, IdlePump, ResetClear,
     Relabel, Observe, Act, PumpQuery, LeaveLoop, EndSteering, DropPending,
     DropReadySubtaskAnswers, StrategyFails, TurnDue, vars
<1> QED
  BY <1>1, <1>2, <1>3, <1>4, <1>5, <1>6 DEF Next

LEMMA TypeHolds == Spec => [](TypeOK /\ RetryOK)
<1>1. Init => TypeOK /\ RetryOK
  <2>1. Init => FlagTypeOK
    BY Zenon DEF Init, FlagTypeOK
  <2>2. Init => DataTypeOK
    BY EngineAssumption DEF Init, DataTypeOK, EngineAssumption, Tasks, Nothing
  <2>3. Init => RetryOK
    BY EngineAssumption DEF Init, RetryOK, EngineAssumption
  <2> QED
    BY <2>1, <2>2, <2>3, TypeParts
<1>2. TypeOK /\ RetryOK /\ [Next]_vars => (TypeOK /\ RetryOK)'
  <2>1. ASSUME TypeOK, RetryOK, Next PROVE DataTypeOK'
    BY <2>1, EngineAssumption, DataOperator, DataControl, DataThread DEF Next
  <2>2. DataTypeOK /\ UNCHANGED vars => DataTypeOK'
    BY DEF DataTypeOK, vars, control, tasks, channel, buffers, warming, thread
  <2>3. TypeOK' <=> FlagTypeOK' /\ DataTypeOK'
    BY TypeParts, PTL
  <2> QED
    BY <2>1, <2>2, <2>3, FlagStep, RetryStep, TypeParts
<1> QED
  BY <1>1, <1>2, PTL DEF Spec

\* Every variable keeps its type; in particular a thread with no error left ends.
THEOREM EngineTypeCorrect == Spec => []TypeOK
  BY TypeHolds, PTL

-----------------------------------------------------------------------------
(* What the queue holds, and under which task.                               *)

Working == rtc \in {"take", "generate", "publish", "reread", "refill", "infer"}

\* FreshActions and LabelsInForce with what keeps them: the thread's observation is
\* of its epoch, which is not from the future, and if that epoch is still the
\* current one, the task under which it infers is in force.
QueueInv ==
  /\ FreshActions
  /\ LabelsInForce
  /\ obs # NoObs => obs = epoch
  /\ Working => mine.obs = mine.epoch /\ mine.epoch <= epoch
  /\ rtc = "infer" /\ mine.epoch = epoch => mine.task \in inForce
  /\ task \in inForce

LEMMA QueueInit == Init => QueueInv
  BY EngineAssumption DEF Init, QueueInv, FreshActions, LabelsInForce, Working, EngineAssumption

LEMMA QueueStep == TypeOK /\ QueueInv /\ [Next]_vars => QueueInv'
<1> SUFFICES ASSUME DataTypeOK, TypeOK, QueueInv, [Next]_vars PROVE QueueInv'
  BY TypeParts
<1> USE DEF QueueInv, FreshActions, LabelsInForce, Working,
            control, tasks, channel, buffers, warming, thread
<1>1. CASE SetTaskBegin BY <1>1 DEF SetTaskBegin
<1>2. CASE SetTaskEnd BY <1>2 DEF SetTaskEnd
<1>3. CASE Ask BY <1>3 DEF Ask
<1>4. CASE StartAutosteer BY <1>4 DEF StartAutosteer
<1>5. CASE StopAutosteer BY <1>5 DEF StopAutosteer
<1>6. CASE StopSegment BY <1>6 DEF StopSegment
<1>7. CASE BeginSegment BY <1>7 DEF BeginSegment
<1>8. CASE IdlePump BY <1>8 DEF IdlePump
<1>9. CASE TurnDue BY <1>9 DEF TurnDue
<1>10. CASE ResetClear BY <1>10 DEF ResetClear, AtTop, DataTypeOK, NoObs
<1>11. CASE Relabel BY <1>11 DEF Relabel
<1>12. CASE Observe BY <1>12 DEF Observe, AtTop, DataTypeOK, NoObs
<1>13. CASE Act
  <2>1. CASE queue = <<>>
    BY <1>13, <2>1 DEF Act
  <2>2. CASE queue # <<>>
    <3>1. queue \in Seq(Entries)
      BY DEF DataTypeOK
    <3>2. /\ Len(queue') = Len(queue) - 1 /\ Len(queue) \in Nat \ {0}
          /\ \A i \in 1..Len(queue') : queue'[i] = queue[i + 1]
          /\ dispatched' = queue[1].task
      BY <1>13, <2>2, <3>1, HeadTailProperties, EmptySeq DEF Act
    <3>3. /\ 1 \in 1..Len(queue)
          /\ \A i \in 1..Len(queue') : i + 1 \in 1..Len(queue)
      BY <3>2
    <3> QED
      BY <1>13, <2>2, <3>2, <3>3 DEF Act
  <2> QED BY <2>1, <2>2
<1>14. CASE PumpQuery BY <1>14 DEF PumpQuery
<1>15. CASE LeaveLoop BY <1>15 DEF LeaveLoop
<1>16. CASE EndSteering BY <1>16 DEF EndSteering
<1>17. CASE DropPending BY <1>17 DEF DropPending
<1>18. CASE DropReadySubtaskAnswers BY <1>18 DEF DropReadySubtaskAnswers
<1>19. CASE Snapshot BY <1>19 DEF Snapshot, AtTop, DataTypeOK, NoObs
<1>20. CASE TakeQuery BY <1>20 DEF TakeQuery, DataTypeOK
<1>21. CASE AnswerQuestion BY <1>21 DEF AnswerQuestion
<1>22. CASE DiscardTurn BY <1>22 DEF DiscardTurn
<1>23. CASE ApplySubtask BY <1>23 DEF ApplySubtask
<1>24. CASE FailSubtask BY <1>24 DEF FailSubtask
<1>25. CASE PublishAnswer BY <1>25 DEF PublishAnswer
<1>26. CASE Reread
  <2>1. CASE obs = NoObs
    BY <1>26, <2>1 DEF Reread, AtTop
  <2>2. CASE obs # NoObs
    <3>1. mine'.obs = epoch /\ mine'.epoch = epoch /\ epoch \in Nat
      BY <1>26, <2>2 DEF Reread, DataTypeOK
    <3> QED
      BY <1>26, <2>2, <3>1 DEF Reread
  <2> QED BY <2>1, <2>2
<1>27. CASE Refill BY <1>27 DEF Refill, AtTop, DataTypeOK
<1>28. CASE ChunkDone
  <2>1. CASE mine.epoch # epoch
    BY <1>28, <2>1 DEF ChunkDone, AtTop
  <2>2. CASE mine.epoch = epoch
    <3>1. PICK delay \in 1..MaxDelay : Merge(delay)
      BY <1>28, <2>2 DEF ChunkDone
    <3>2. \A i \in 1..Len(queue') :
            \/ queue'[i] = [obs |-> mine.obs, task |-> mine.task]
            \/ \E j \in 1..Len(queue) : queue'[i] = queue[j]
      BY <3>1, EngineAssumption, MergeKeeps
    <3>3. mine.obs = epoch /\ mine.task \in inForce /\ UNCHANGED <<epoch, inForce>>
      BY <1>28, <2>2 DEF ChunkDone
    <3>4. \A i \in 1..Len(queue') : queue'[i].obs = epoch' /\ queue'[i].task \in inForce'
      BY <3>2, <3>3
    <3> QED
      BY <1>28, <3>3, <3>4 DEF ChunkDone, AtTop
  <2> QED BY <2>1, <2>2
<1>29. CASE ChunkFails BY <1>29 DEF ChunkFails, AtTop
<1>30. CASE Die BY <1>30 DEF Die
<1>31. CASE UNCHANGED vars BY <1>31 DEF vars
<1>32. CASE EndController BY <1>32 DEF EndController
<1>33. CASE CheckRequests BY <1>33 DEF CheckRequests
<1>34. CASE SegmentStarts BY <1>34 DEF SegmentStarts
<1>35. CASE StrategyFails BY <1>35 DEF StrategyFails
<1> QED
  BY <1>1, <1>2, <1>3, <1>4, <1>5, <1>6, <1>7, <1>8, <1>9, <1>10, <1>11, <1>12, <1>13,
     <1>14, <1>15, <1>16, <1>17, <1>18, <1>19, <1>20, <1>21, <1>22, <1>23, <1>24, <1>25,
     <1>26, <1>27, <1>28, <1>29, <1>30, <1>31, <1>32, <1>33, <1>34, <1>35
     DEF Next, Operator, Control, Thread

LEMMA QueueHolds == Spec => []QueueInv
  BY TypeHolds, QueueInit, QueueStep, PTL DEF Spec

\* No queued action was inferred from an observation of before the last reset: the
\* epoch that the RTC thread reads together with its observation is the current
\* one only if the observation is, and a chunk is merged only then.
THEOREM FreshActionsHold == Spec => []FreshActions
<1>1. QueueInv => FreshActions
  BY DEF QueueInv
<1> QED
  BY <1>1, QueueHolds, PTL

\* The labels of the queued actions, and of the recorded frames, name instructions
\* that were in force since the last reset.
THEOREM LabelsHold == Spec => []LabelsInForce
<1>1. QueueInv => LabelsInForce
  BY DEF QueueInv
<1> QED
  BY <1>1, QueueHolds, PTL

-----------------------------------------------------------------------------
(* The operator and the sequencer.                                           *)

\* OperatorWins with what keeps it: while the operator's word counts there is no
\* goal, and none while a set_task() holds the control lock; a query that is
\* served is one.
WordInv ==
  /\ OperatorWins
  /\ word # None => goal = None
  /\ saying => goal = None
  /\ rtc = "generate" => query # None

LEMMA WordStep == TypeOK /\ WordInv /\ [Next]_vars => WordInv'
<1> SUFFICES ASSUME DataTypeOK, WordInv, [Next]_vars PROVE WordInv'
  BY TypeParts
<1> USE DEF WordInv, OperatorWins, control, tasks, channel, buffers, warming, thread
<1>1. CASE Operator \/ BeginSegment \/ StrategyFails \/ TurnDue
  BY <1>1 DEF Operator, SetTaskBegin, SetTaskEnd, Ask, StartAutosteer, StopAutosteer,
     StopSegment, EndController, BeginSegment, StrategyFails, TurnDue, NoGoal, ControlLockFree
<1>2. CASE Control
  BY <1>2 DEF Control, CheckRequests, SegmentStarts, IdlePump, ResetClear, Relabel, Observe,
     Act, PumpQuery, LeaveLoop, EndSteering, DropPending, DropReadySubtaskAnswers, NoGoal
<1>3. CASE ApplySubtask
  BY <1>3 DEF ApplySubtask
<1>4. CASE Thread /\ ~ApplySubtask
  BY <1>4 DEF Thread, Snapshot, TakeQuery, AnswerQuestion, DiscardTurn, FailSubtask, NoGoal,
     PublishAnswer, Reread, Refill, AtTop, ChunkDone, ChunkFails, Die
<1>5. CASE UNCHANGED vars
  BY <1>5 DEF vars
<1> QED
  BY <1>1, <1>2, <1>3, <1>4, <1>5 DEF Next

\* What the operator said last stays in force until the operator turns the
\* sequencer on, whatever turn the RTC thread is generating meanwhile.
THEOREM OperatorWinsHolds == Spec => []OperatorWins
<1>1. Init => WordInv
  BY EngineAssumption DEF Init, WordInv, OperatorWins, EngineAssumption
<1>2. WordInv => OperatorWins
  BY DEF WordInv
<1> QED
  BY <1>1, <1>2, WordStep, TypeHolds, PTL DEF Spec

-----------------------------------------------------------------------------
(* The questions.                                                            *)

LEMMA QuestionStep == TypeOK /\ QuestionsKept /\ [Next]_vars => QuestionsKept'
<1> SUFFICES ASSUME DataTypeOK, QuestionsKept, [Next]_vars PROVE QuestionsKept'
  BY TypeParts
<1>0. /\ asked \in Nat /\ resolved \in Nat /\ answers.questions \in Nat
      /\ answers \in [questions : Nat, turns : Nat]
  BY EngineAssumption DEF DataTypeOK, EngineAssumption
<1> USE <1>0, EngineAssumption
        DEF QuestionsKept, EngineAssumption, control, tasks, channel, buffers, warming, thread
<1>1. CASE Operator \/ BeginSegment \/ StrategyFails \/ TurnDue
  BY <1>1 DEF Operator, SetTaskBegin, SetTaskEnd, Ask, StartAutosteer, StopAutosteer,
     StopSegment, EndController, BeginSegment, StrategyFails, TurnDue
<1>2. CASE IdlePump
  BY <1>2 DEF IdlePump, DeliverAnswers, NoAnswers
<1>3. CASE PumpQuery
  BY <1>3 DEF PumpQuery, DeliverAnswers, NoAnswers, DataTypeOK
<1>4. CASE DropPending
  BY <1>4 DEF DropPending
<1>5. CASE DropReadySubtaskAnswers
  BY <1>5 DEF DropReadySubtaskAnswers
<1>6. CASE Control /\ ~(IdlePump \/ PumpQuery \/ DropPending \/ DropReadySubtaskAnswers)
  BY <1>6 DEF Control, CheckRequests, SegmentStarts, ResetClear, Relabel, Observe, Act,
     LeaveLoop, EndSteering
<1>7. CASE TakeQuery
  BY <1>7 DEF TakeQuery
<1>8. CASE PublishAnswer
  BY <1>8 DEF PublishAnswer
<1>9. CASE AnswerQuestion \/ DiscardTurn \/ ApplySubtask \/ FailSubtask
  BY <1>9 DEF AnswerQuestion, DiscardTurn, ApplySubtask, FailSubtask
<1>10. CASE Snapshot \/ Reread \/ Refill \/ ChunkDone \/ ChunkFails \/ Die
  BY <1>10 DEF Snapshot, Reread, Refill, AtTop, ChunkDone, ChunkFails, Die
<1>11. CASE UNCHANGED vars
  BY <1>11 DEF vars
<1> QED
  BY <1>1, <1>2, <1>3, <1>4, <1>5, <1>6, <1>7, <1>8, <1>9, <1>10, <1>11 DEF Next, Thread

\* No accepted question is lost and none is answered twice: each is in one place
\* of the channel until it is answered or reported as dropped.
THEOREM QuestionsKeptHold == Spec => []QuestionsKept
<1>1. Init => QuestionsKept
  BY EngineAssumption DEF Init, QuestionsKept, EngineAssumption
<1> QED
  BY <1>1, QuestionStep, TypeHolds, PTL DEF Spec
=============================================================================
