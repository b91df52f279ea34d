----------------------------- MODULE RtcEngine -----------------------------
(***************************************************************************)
(* The RTC inference engine of a rollout: the background thread that owns  *)
(* the policy (src/lerobot/rollout/inference/rtc.py, _rtc_loop), the       *)
(* control thread that resets the engine, publishes observations, consumes *)
(* actions and pumps the text-query channel (strategies/base.py, core.py), *)
(* and the operator's commands, which arrive on any other thread           *)
(* (controller.py).  A step is one critical section of one of the locks    *)
(* _obs_lock, _query_lock, _task_lock, ActionQueue.lock, or a lock-free    *)
(* stretch; generating a text and inferring a chunk end in a step of their *)
(* own.                                                                     *)
(*                                                                          *)
(* An observation is the reset epoch in which it was published; an action  *)
(* is the observation it was inferred from and the task it is labelled     *)
(* with.  A query is the goal of the sequencer's turn, or Question.        *)
(***************************************************************************)
EXTENDS Integers, Sequences

CONSTANTS
  OperatorTasks,  \* instructions the operator may give
  InitialTask,    \* the one of them the rollout is launched with
  Subtasks,       \* instructions the policy's text head may plan
  Goals,          \* goals of the sequencer (autosteer)
  Question,       \* an operator's question
  None,
  Chunk,          \* actions in a chunk
  MaxDelay,       \* largest delay, in actions, of an inference
  Threshold,      \* queue length up to which a chunk is requested
  Warmup,         \* warm-up inferences (0 without torch.compile)
  MaxErrors,      \* consecutive inference errors that are fatal
  MaxSegments,    \* bound: run segments
  MaxQuestions    \* bound: questions accepted

ASSUME EngineAssumption ==
  /\ InitialTask \in OperatorTasks
  /\ None \notin OperatorTasks \cup Subtasks \cup Goals \cup {Question}
  /\ Question \notin Goals
  /\ Chunk \in Nat /\ MaxDelay \in Nat /\ 0 < MaxDelay /\ MaxDelay < Chunk
  /\ Threshold \in Nat /\ Warmup \in Nat /\ MaxErrors \in Nat \ {0}
  /\ MaxSegments \in Nat /\ MaxQuestions \in Nat

\* Nothing observed: below every epoch.
NoObs == -1

Tasks == OperatorTasks \cup Subtasks
Queries == Goals \cup {Question}

VARIABLES
  blending,    \* RTCConfig.enabled: a chunk replaces the queue, else it is appended
  pc,          \* control thread
  segments,    \* segments begun
  running,     \* the controller's _running
  saying,      \* a set_task() holds the control lock
  ending,      \* what ends: nothing; the segment (its shutdown event is set, or its
               \* loop is over); serve() (stop(), a shutdown, a failed strategy)
  task,        \* _task
  dispatched,  \* _dispatched_task
  goal,        \* _autosteer_goal
  due,         \* there is a goal and _autosteer_due_at has passed
  pending,     \* _pending_query
  inFlight,    \* _query_in_flight
  answers,     \* _ready_answers: how many of them for questions and for turns
  active,      \* _policy_active
  obs,         \* _obs_holder["obs"]
  epoch,       \* _reset_epoch
  queue,       \* ActionQueue, from last_index on
  cold,        \* warm-up inferences left; 0: _compile_warmup_done is set
  flushed,     \* _warmup_flushed
  rtc,         \* RTC thread
  mine,        \* its observation, epoch and task
  query,       \* the query it serves
  errors,      \* consecutive_errors
  failed,      \* _rtc_error
  asked, resolved,  \* history: questions accepted; answered or reported as dropped
  word,        \* history: the operator's last task, None once the sequencer is on
  inForce      \* history: tasks in force since the last reset

control == <<pc, segments, running, saying, ending>>
tasks == <<task, dispatched, word, inForce>>
channel == <<goal, due, pending, inFlight, answers, asked, resolved>>
buffers == <<active, obs, epoch, queue>>
warming == <<cold, flushed>>
thread == <<rtc, mine, query, errors, failed>>
vars == <<blending, control, tasks, channel, buffers, warming, thread>>

\* The locals of the RTC thread between two rounds.
Nothing == [obs |-> NoObs, epoch |-> 0, task |-> InitialTask]

Init ==
  /\ blending \in BOOLEAN
  /\ pc = "serve" /\ segments = 0 /\ running = FALSE
  /\ saying = FALSE /\ ending = "nothing"
  /\ task = InitialTask /\ dispatched = InitialTask
  /\ word = InitialTask /\ inForce = {InitialTask}
  /\ goal = None /\ due = FALSE /\ pending = None /\ inFlight = FALSE
  /\ answers = [questions |-> 0, turns |-> 0] /\ asked = 0 /\ resolved = 0
  /\ active = FALSE /\ obs = NoObs /\ epoch = 0 /\ queue = <<>>
  /\ cold = Warmup /\ flushed = FALSE
  /\ rtc = "top" /\ mine = Nothing
  /\ query = None /\ errors = 0 /\ failed = FALSE

-----------------------------------------------------------------------------
(* The operator.  A command holds the control lock, which the end of a      *)
(* segment holds as well.                                                    *)

NoGoal == goal' = None /\ due' = FALSE

ControlLockFree == ~saying /\ pc \notin {"drop", "dropAnswers"}

\* set_task() and reset() of the controller first stop the sequencer ...  (Both are
\* refused once serve() has returned; stop() refuses them at once, a shutdown does not.)
SetTaskBegin ==
  /\ ControlLockFree /\ pc # "ended"
  /\ saying' = TRUE
  /\ NoGoal
  /\ UNCHANGED <<blending, pc, segments, running, ending, tasks, pending, inFlight,
                 answers, asked, resolved, buffers, warming, thread>>

\* ... and then change the task.
SetTaskEnd ==
  /\ saying
  /\ \E t \in OperatorTasks : task' = t /\ word' = t /\ inForce' = inForce \cup {t}
  /\ saying' = FALSE
  /\ UNCHANGED <<blending, pc, segments, running, ending, dispatched, channel, buffers,
                 warming, thread>>

Ask ==
  /\ ControlLockFree /\ running /\ pending = None /\ asked < MaxQuestions
  /\ pending' = Question /\ asked' = asked + 1
  /\ UNCHANGED <<blending, control, tasks, goal, due, inFlight, answers, resolved,
                 buffers, warming, thread>>

StartAutosteer ==
  /\ ControlLockFree /\ running
  /\ \E g \in Goals : goal' = g
  /\ due' = TRUE /\ word' = None
  /\ UNCHANGED <<blending, control, task, dispatched, inForce, pending, inFlight,
                 answers, asked, resolved, buffers, warming, thread>>

StopAutosteer ==
  /\ ControlLockFree /\ goal # None
  /\ NoGoal
  /\ UNCHANGED <<blending, control, tasks, pending, inFlight, answers, asked, resolved,
                 buffers, warming, thread>>

SegmentEnds == ending' = IF ending = "serve" THEN "serve" ELSE "segment"

\* reset() of the controller ends the segment.
StopSegment ==
  /\ ControlLockFree /\ running
  /\ SegmentEnds
  /\ UNCHANGED <<blending, pc, segments, running, saying, tasks, channel, buffers,
                 warming, thread>>

\* stop() of the controller ends the segment and serve(); so does the process's
\* shutdown event, which takes no lock.
EndController ==
  /\ pc # "ended"
  /\ ending' = "serve"
  /\ UNCHANGED <<blending, pc, segments, running, saying, tasks, channel, buffers,
                 warming, thread>>

-----------------------------------------------------------------------------
(* The control thread: serve() and the segments it runs.                     *)

\* A failed engine, a failed strategy, stop() and a shutdown leave the loop of
\* serve() at its head, before the next pump.
CheckRequests ==
  /\ pc = "serve"
  /\ pc' = IF failed \/ ending = "serve" THEN "ended" ELSE "idle"
  /\ UNCHANGED <<blending, segments, running, saying, ending, tasks, channel, buffers,
                 warming, thread>>

\* A start request is found: the segment is marked running under the control lock.
BeginSegment ==
  /\ pc = "idle" /\ segments < MaxSegments /\ ~saying
  /\ pc' = "starting" /\ segments' = segments + 1 /\ running' = TRUE
  /\ UNCHANGED <<blending, saying, ending, tasks, channel, buffers, warming, thread>>

\* _run_segment clears the stop event and then looks for what ends the segment at
\* once; that can also be a reset() that came in the meantime.
SegmentStarts ==
  /\ pc = "starting"
  /\ ending' = IF ending = "serve" THEN "serve" ELSE "nothing"
  /\ pc' \in IF failed \/ ending = "serve" THEN {"leave"} ELSE {"reset", "leave"}
  /\ UNCHANGED <<blending, segments, running, saying, tasks, channel, buffers, warming,
                 thread>>

ResetClear ==
  /\ pc = "reset"
  /\ queue' = <<>> /\ epoch' = epoch + 1 /\ obs' = NoObs
  /\ inForce' = {task}
  /\ pc' = "relabel"
  /\ UNCHANGED <<blending, segments, running, saying, ending, task, dispatched, word,
                 channel, active, warming, thread>>

\* Mutant of Relabel: reset() leaves the label of the last action.
RelabelNothing ==
  /\ pc = "relabel"
  /\ active' = TRUE /\ pc' = IF active THEN "act" ELSE "observe"
  /\ UNCHANGED <<blending, segments, running, saying, ending, tasks, channel, obs,
                 epoch, queue, warming, thread>>

\* _discard_task_change, then resume(); the tick that flushed the warm-up goes on.
Relabel ==
  /\ pc = "relabel"
  /\ dispatched' = task
  /\ active' = TRUE /\ pc' = IF active THEN "act" ELSE "observe"
  /\ UNCHANGED <<blending, segments, running, saying, ending, task, word, inForce,
                 channel, obs, epoch, queue, warming, thread>>

\* The first half of a tick: publish the observation; while the engine warms up
\* that is all, and the first warm tick resets the engine again.
Observe ==
  /\ pc = "observe" /\ ending = "nothing"
  /\ obs' = epoch
  /\ flushed' = (flushed \/ cold = 0)
  /\ pc' = IF cold > 0 THEN "observe"
           ELSE IF Warmup > 0 /\ ~flushed THEN "reset" ELSE "act"
  /\ UNCHANGED <<blending, segments, running, saying, ending, tasks, channel, active,
                 epoch, queue, cold, thread>>

\* send_next_action: a queued action, if there is one.
Act ==
  /\ pc = "act"
  /\ IF queue = <<>>
     THEN UNCHANGED <<queue, dispatched>>
     ELSE queue' = Tail(queue) /\ dispatched' = Head(queue).task
  /\ pc' = "pump"
  /\ UNCHANGED <<blending, segments, running, saying, ending, task, word, inForce,
                 channel, active, obs, epoch, warming, thread>>

NoAnswers == [questions |-> 0, turns |-> 0]

\* _deliver_answer: every answer that is there goes to the observer.
DeliverAnswers == answers' = NoAnswers /\ resolved' = resolved + answers.questions

\* Mutant of PumpQuery: a question that is still queued is overwritten.
PumpQueryOver ==
  /\ pc = "pump"
  /\ pending' = IF goal # None /\ due /\ ~inFlight THEN goal ELSE pending
  /\ DeliverAnswers
  /\ pc' = "observe"
  /\ UNCHANGED <<blending, segments, running, saying, ending, tasks, goal, due,
                 inFlight, asked, buffers, warming, thread>>

\* The end of a tick, pump_query: the sequencer's turn is queued if it is due and
\* the channel is free, and the answers are delivered.  (An answer that is
\* published between these two critical sections could as well come after both.)
PumpQuery ==
  /\ pc = "pump"
  /\ pending' = IF goal # None /\ due /\ pending = None /\ ~inFlight THEN goal ELSE pending
  /\ DeliverAnswers
  /\ pc' = "observe"
  /\ UNCHANGED <<blending, segments, running, saying, ending, tasks, goal, due,
                 inFlight, asked, buffers, warming, thread>>

\* The loop ends because of its shutdown event or its duration; engine.pause().
LeaveLoop ==
  /\ pc = "observe"
  /\ active' = FALSE /\ SegmentEnds
  /\ pc' = "leave"
  /\ UNCHANGED <<blending, segments, running, saying, tasks, channel, obs, epoch, queue,
                 warming, thread>>

\* strategy.run() raises: the robot, a camera or the recording failed in a tick.
StrategyFails ==
  /\ pc \in {"observe", "act", "pump"}
  /\ active' = FALSE /\ ending' = "serve"
  /\ pc' = "leave"
  /\ UNCHANGED <<blending, segments, running, saying, tasks, channel, obs, epoch, queue,
                 warming, thread>>

\* The end of _run_segment, under the control lock, in three critical sections.
EndSteering ==
  /\ pc = "leave" /\ ~saying
  /\ running' = FALSE /\ NoGoal
  /\ pc' = "drop"
  /\ UNCHANGED <<blending, segments, saying, ending, tasks, pending, inFlight, answers,
                 asked, resolved, buffers, warming, thread>>

DropPending ==
  /\ pc = "drop"
  /\ pending' = None
  /\ resolved' = IF pending = Question THEN resolved + 1 ELSE resolved
  /\ pc' = "dropAnswers"
  /\ UNCHANGED <<blending, segments, running, saying, ending, tasks, goal, due,
                 inFlight, answers, asked, buffers, warming, thread>>

\* Mutant of DropReadySubtaskAnswers: all answers are dropped.
DropReadyAnswers ==
  /\ pc = "dropAnswers"
  /\ answers' = NoAnswers
  /\ pc' = "serve"
  /\ UNCHANGED <<blending, segments, running, saying, ending, tasks, goal, due, pending,
                 inFlight, asked, resolved, buffers, warming, thread>>

DropReadySubtaskAnswers ==
  /\ pc = "dropAnswers"
  /\ answers' = [answers EXCEPT !.turns = 0]
  /\ pc' = "serve"
  /\ UNCHANGED <<blending, segments, running, saying, ending, tasks, goal, due, pending,
                 inFlight, asked, resolved, buffers, warming, thread>>

\* serve() found nothing to do: the answers that landed as the segment ended are
\* delivered, and the loop comes round.
IdlePump ==
  /\ pc = "idle"
  /\ DeliverAnswers
  /\ pc' = "serve"
  /\ UNCHANGED <<blending, segments, running, saying, ending, tasks, goal, due, pending,
                 inFlight, asked, buffers, warming, thread>>

Control ==
  \/ CheckRequests \/ SegmentStarts \/ IdlePump
  \/ ResetClear \/ Relabel \/ Observe \/ Act \/ PumpQuery \/ LeaveLoop
  \/ EndSteering \/ DropPending \/ DropReadySubtaskAnswers

-----------------------------------------------------------------------------
(* The RTC thread.  At the top of its loop it has no snapshot and no query.    *)

AtTop == rtc' = "top" /\ mine' = Nothing

Snapshot ==
  /\ rtc = "top" /\ active /\ obs # NoObs
  /\ mine' = [mine EXCEPT !.obs = obs, !.epoch = epoch]
  /\ rtc' = "take"
  /\ UNCHANGED <<blending, control, tasks, channel, buffers, warming, query, errors,
                 failed>>

\* _take_query
TakeQuery ==
  /\ rtc = "take"
  /\ IF pending = None
     THEN rtc' = "refill" /\ UNCHANGED <<pending, inFlight, query>>
     ELSE /\ query' = pending /\ pending' = None /\ inFlight' = TRUE
          /\ rtc' = "generate"
  /\ UNCHANGED <<blending, control, tasks, goal, due, answers, asked, resolved, buffers,
                 warming, mine, errors, failed>>

\* A question's text, or the error that takes its place, is there.
AnswerQuestion ==
  /\ rtc = "generate" /\ query = Question
  /\ rtc' = "publish"
  /\ UNCHANGED <<blending, control, tasks, channel, buffers, warming, mine, query,
                 errors, failed>>

\* Mutant of DiscardTurn: the turn stays in flight.
DiscardTurnInFlight ==
  /\ rtc = "generate" /\ query # Question /\ goal # query
  /\ rtc' = "reread" /\ query' = None
  /\ UNCHANGED <<blending, control, tasks, channel, buffers, warming, mine, errors,
                 failed>>

\* The sequencer was stopped or retargeted while its turn was generated.
DiscardTurn ==
  /\ rtc = "generate" /\ query # Question /\ goal # query
  /\ inFlight' = FALSE
  /\ rtc' = "reread" /\ query' = None
  /\ UNCHANGED <<blending, control, tasks, goal, due, pending, answers, asked, resolved,
                 buffers, warming, mine, errors, failed>>

\* Mutant of ApplySubtask: a stale turn is applied too.
ApplySubtaskAlways ==
  /\ rtc = "generate" /\ query # Question
  /\ \E s \in Subtasks : task' = s /\ inForce' = inForce \cup {s}
  /\ due' = FALSE
  /\ rtc' = "publish"
  /\ UNCHANGED <<blending, control, dispatched, word, goal, pending, inFlight, answers,
                 asked, resolved, buffers, warming, mine, query, errors, failed>>

\* _apply_subtask
ApplySubtask ==
  /\ rtc = "generate" /\ query # Question /\ goal = query
  /\ \E s \in Subtasks : task' = s /\ inForce' = inForce \cup {s}
  /\ due' = FALSE
  /\ rtc' = "publish"
  /\ UNCHANGED <<blending, control, dispatched, word, goal, pending, inFlight, answers,
                 asked, resolved, buffers, warming, mine, query, errors, failed>>

\* _fail_subtask
FailSubtask ==
  /\ rtc = "generate" /\ query # Question /\ goal = query
  /\ NoGoal
  /\ rtc' = "publish"
  /\ UNCHANGED <<blending, control, tasks, pending, inFlight, answers, asked, resolved,
                 buffers, warming, mine, query, errors, failed>>

PublishAnswer ==
  /\ rtc = "publish"
  /\ inFlight' = FALSE
  /\ answers' = IF query = Question THEN [answers EXCEPT !.questions = @ + 1]
                ELSE [answers EXCEPT !.turns = @ + 1]
  /\ rtc' = "reread" /\ query' = None
  /\ UNCHANGED <<blending, control, tasks, goal, due, pending, asked, resolved, buffers,
                 warming, mine, errors, failed>>

\* Mutant of Reread: the epoch is read again, the observation is not.
RereadEpochOnly ==
  /\ rtc = "reread"
  /\ IF obs = NoObs
     THEN AtTop
     ELSE mine' = [mine EXCEPT !.epoch = epoch] /\ rtc' = "refill"
  /\ UNCHANGED <<blending, control, tasks, channel, buffers, warming, query, errors,
                 failed>>

\* Generating took long: the observation and the epoch are read again.
Reread ==
  /\ rtc = "reread"
  /\ IF obs = NoObs
     THEN AtTop
     ELSE mine' = [mine EXCEPT !.obs = obs, !.epoch = epoch] /\ rtc' = "refill"
  /\ UNCHANGED <<blending, control, tasks, channel, buffers, warming, query, errors,
                 failed>>

\* A queue that is short enough: an inference begins under the task of the moment.
Refill ==
  /\ rtc = "refill"
  /\ IF Len(queue) <= Threshold
     THEN mine' = [mine EXCEPT !.task = task] /\ rtc' = "infer"
     ELSE AtTop
  /\ UNCHANGED <<blending, control, tasks, channel, buffers, warming, query, errors,
                 failed>>

\* n labelled actions of the RTC thread's chunk.
Actions(n) == [i \in 1..n |-> [obs |-> mine.obs, task |-> mine.task]]

\* ActionQueue.merge
Merge(delay) ==
  queue' = IF blending THEN Actions(Chunk - delay) ELSE queue \o Actions(Chunk)

Warmer == cold' = IF cold > 0 THEN cold - 1 ELSE 0

\* The chunk is merged, unless the engine was reset since its observation was read.
ChunkDone ==
  /\ rtc = "infer"
  /\ IF mine.epoch = epoch THEN \E delay \in 1..MaxDelay : Merge(delay) ELSE UNCHANGED queue
  /\ Warmer /\ errors' = 0
  /\ AtTop
  /\ UNCHANGED <<blending, control, tasks, channel, active, obs, epoch, flushed, query,
                 failed>>

\* Mutant of ChunkFails: errors are never fatal.
ChunkFailsForEver ==
  /\ rtc = "infer"
  /\ AtTop
  /\ UNCHANGED <<blending, control, tasks, channel, buffers, warming, query, errors,
                 failed>>

\* An error is retried; the last of MaxErrors in a row is fatal.
ChunkFails ==
  /\ rtc = "infer"
  /\ errors' = errors + 1
  /\ failed' = (errors + 1 = MaxErrors)
  /\ rtc' = IF errors + 1 = MaxErrors THEN "dying" ELSE "top"
  /\ mine' = Nothing
  /\ UNCHANGED <<blending, control, tasks, channel, buffers, warming, query>>

\* The dying thread releases a control loop that waits for the warm-up and ends it.
Die ==
  /\ rtc = "dying"
  /\ cold' = 0 /\ SegmentEnds
  /\ rtc' = "dead"
  /\ UNCHANGED <<blending, pc, segments, running, saying, tasks, channel, buffers,
                 flushed, mine, query, errors, failed>>

Thread ==
  \/ Snapshot \/ TakeQuery \/ AnswerQuestion \/ DiscardTurn \/ ApplySubtask \/ FailSubtask
  \/ PublishAnswer \/ Reread \/ Refill \/ ChunkDone \/ ChunkFails \/ Die

\* The sequencer's interval is over.
TurnDue ==
  /\ goal # None /\ ~due
  /\ due' = TRUE
  /\ UNCHANGED <<blending, control, tasks, goal, pending, inFlight, answers, asked,
                 resolved, buffers, warming, thread>>

Operator ==
  \/ SetTaskBegin \/ SetTaskEnd \/ Ask \/ StartAutosteer \/ StopAutosteer
  \/ StopSegment \/ EndController

Next == Operator \/ BeginSegment \/ Control \/ StrategyFails \/ Thread \/ TurnDue

Spec == Init /\ [][Next]_vars

\* Both threads are scheduled, a set_task() that has begun comes back, and the
\* sequencer's clock runs; the operator owes nothing else, segments need not start
\* and no strategy has to fail.  The end of a segment gets the control lock although
\* the operator may take it again and again, and an idle serve() gets to its pump
\* although it may find another reset() first: commands are far apart.
FairSpec ==
  /\ Spec
  /\ WF_vars(Control) /\ WF_rtc(Thread) /\ WF_saying(SetTaskEnd) /\ WF_due(TurnDue)
  /\ SF_pc(EndSteering)

-----------------------------------------------------------------------------
(* Properties.                                                               *)

TypeOK ==
  /\ blending \in BOOLEAN
  /\ pc \in {"serve", "idle", "starting", "reset", "relabel", "observe", "act", "pump",
             "leave", "drop", "dropAnswers", "ended"}
  /\ segments \in 0..MaxSegments /\ running \in BOOLEAN
  /\ saying \in BOOLEAN /\ ending \in {"nothing", "segment", "serve"}
  /\ task \in Tasks /\ dispatched \in Tasks
  /\ word \in OperatorTasks \cup {None} /\ inForce \subseteq Tasks
  /\ goal \in Goals \cup {None} /\ due \in BOOLEAN
  /\ pending \in Queries \cup {None} /\ inFlight \in BOOLEAN
  /\ answers \in [questions : Nat, turns : Nat]
  /\ asked \in 0..MaxQuestions /\ resolved \in Nat
  /\ active \in BOOLEAN /\ obs \in Nat \cup {NoObs} /\ epoch \in Nat
  /\ queue \in Seq([obs : Nat \cup {NoObs}, task : Tasks])
  /\ cold \in 0..Warmup /\ flushed \in BOOLEAN
  /\ rtc \in {"top", "take", "generate", "publish", "reread", "refill", "infer", "dying",
              "dead"}
  /\ mine \in [obs : Nat \cup {NoObs}, epoch : Nat, task : Tasks]
  /\ query \in Queries \cup {None}
  /\ errors \in 0..MaxErrors /\ failed \in BOOLEAN

\* No action that waits for the robot was inferred from an observation of before
\* the last reset, whatever the RTC thread was doing when the reset came.
FreshActions == \A i \in 1..Len(queue) : queue[i].obs = epoch

\* The label of every queued action, and the one that recorded frames get, is an
\* instruction that was in force since the last reset.
LabelsInForce ==
  /\ \A i \in 1..Len(queue) : queue[i].task \in inForce
  /\ pc # "relabel" => dispatched \in inForce

\* What the operator said stays in force until the operator turns the sequencer
\* on: no plan that is still being generated overwrites it.
OperatorWins == word # None => task = word

\* Every accepted question is queued, being answered, answered but not delivered
\* yet, or was answered or reported as dropped, and that once.
QuestionsKept ==
  asked = resolved + answers.questions
          + (IF pending = Question THEN 1 ELSE 0)
          + (IF rtc \in {"generate", "publish"} /\ query = Question THEN 1 ELSE 0)

\* A question is answered or reported as dropped, whatever segment ends and engine
\* resets come between.  Only the end of serve() (stop(), a shutdown, a failed strategy
\* or engine) loses one, and only one that the RTC thread has already taken: one that
\* is still queued is reported even then.
QuestionsResolve ==
  asked # resolved ~> (asked = resolved \/ (pc = "ended" /\ pending # Question))

\* While the control loop runs, the sequencer gets its next turn.
SteeringGoesOn ==
  goal # None ~> (goal = None \/ (rtc = "generate" /\ query # Question) \/ failed)

\* A robot without actions gets some, or its segment ends.
RobotIsFed == (pc = "act" /\ queue = <<>>) ~> (queue # <<>> \/ pc = "leave")
=============================================================================
