--------------------------- MODULE AsyncInference ---------------------------
(***************************************************************************)
(* LeRobot's inference over gRPC with one robot: RobotClient               *)
(* (src/lerobot/async_inference/robot_client.py) with its control thread   *)
(* and its receiver thread, and PolicyServer (policy_server.py), which      *)
(* serves SendObservations to the one and GetActions to the other in        *)
(* threads of its own.  Every call is synchronous, so the place of a        *)
(* handler is part of its caller's place.  A step is what a thread does     *)
(* between two uses of a lock, a queue or an event.  An action is its       *)
(* timestep; an observation is its timestep and must_go.  Whether two       *)
(* observations are similar is left open.                                  *)
(***************************************************************************)
EXTENDS Integers, Sequences

CONSTANTS
  ChunkSize,   \* actions_per_chunk
  Threshold,   \* chunk_size_threshold, in per cent
  MaxStep,     \* bound: the client is stopped after this timestep
  MaxFaults,   \* bound: calls that fail and inferences that raise
  None

\* With chunks of one action, which the configuration allows, every action but the
\* first is skipped: a chunk begins with the timestep that was done last.
ASSUME AsyncAssumption ==
  /\ ChunkSize \in Nat /\ ChunkSize >= 2
  /\ Threshold \in 0..100
  /\ MaxStep \in Nat /\ MaxFaults \in Nat
  /\ None \notin Int /\ None \notin [ts : Int, must : BOOLEAN]

VARIABLES
  pc,         \* control thread: "check", "pop", "act", "ready", "look", in the call
              \* "send", "accept", "room", "pull", "put", then "clear"; "stopped", "crashed"
  held,       \* the action that has left the queue and is being done
  latest,     \* latest_action
  queue,      \* action_queue
  obs,        \* the observation being sent
  mustGo,     \* the event must_go
  rx,         \* receiver thread: in the call "call", "take", "mark", "prepare", "infer",
              \* then "scan", "build", "swap", "set"; "dead"
  src,        \* timestep of the observation that the server works on
  next,       \* the next action of the chunk to be looked at
  future,     \* future_action_queue
  slot,       \* the server's observation_queue
  predicted,  \* _predicted_timesteps
  processed,  \* last_processed_obs is not None
  faults,
  torn,       \* history: an action left the queue while the receiver was scanning it
  overlapped, \* history: an action was being done while the receiver built the queue
  overtaken   \* history: must_go was set before a must-go send cleared it

control == <<pc, held, latest, obs>>
receiver == <<rx, src, next, future>>
server == <<slot, predicted, processed>>
history == <<faults, torn, overlapped, overtaken>>
vars == <<control, receiver, server, history, queue, mustGo>>

Init ==
  /\ pc = "check" /\ held = None /\ latest = -1 /\ obs = None
  /\ rx = "call" /\ src = None /\ next = None /\ future = <<>>
  /\ slot = None /\ predicted = {} /\ processed = FALSE
  /\ faults = 0 /\ torn = FALSE /\ overlapped = FALSE /\ overtaken = FALSE
  /\ queue = <<>> /\ mustGo = TRUE

Fault == faults < MaxFaults /\ faults' = faults + 1

-----------------------------------------------------------------------------
(* The control thread: one action if there is one.                           *)

Goto(place) == pc' = place

Check ==
  /\ pc = "check"
  /\ Goto(IF latest >= MaxStep THEN "stopped" ELSE IF queue # <<>> THEN "pop" ELSE "ready")
  /\ UNCHANGED <<held, latest, obs, receiver, server, history, queue, mustGo>>

\* get_nowait() raises if the receiver has put an empty queue in place.
Pop ==
  /\ pc = "pop"
  /\ IF queue = <<>>
     THEN Goto("crashed") /\ UNCHANGED <<held, queue, torn, overlapped>>
     ELSE /\ held' = Head(queue) /\ queue' = Tail(queue)
          /\ torn' = (torn \/ rx = "scan")
          /\ overlapped' = (overlapped \/ rx \in {"build", "swap"})
          /\ Goto("act")
  /\ UNCHANGED <<latest, obs, receiver, server, faults, overtaken, mustGo>>

\* send_action has returned.
Act ==
  /\ pc = "act"
  /\ latest' = held /\ held' = None
  /\ Goto("ready")
  /\ UNCHANGED <<obs, receiver, server, history, queue, mustGo>>

-----------------------------------------------------------------------------
(* The control thread: an observation, if few actions are left.              *)

Ready ==
  /\ pc = "ready"
  /\ Goto(IF 100 * Len(queue) <= Threshold * ChunkSize THEN "look" ELSE "check")
  /\ UNCHANGED <<held, latest, obs, receiver, server, history, queue, mustGo>>

Look ==
  /\ pc = "look"
  /\ obs' = [ts |-> IF latest < 0 THEN 0 ELSE latest, must |-> mustGo /\ queue = <<>>]
  /\ Goto("send")
  /\ UNCHANGED <<held, latest, receiver, server, history, queue, mustGo>>

\* robot.get_observation() raises; control_loop_observation logs it.
LookFails ==
  /\ pc = "look" /\ Fault
  /\ Goto("check")
  /\ UNCHANGED <<held, latest, obs, receiver, server, torn, overlapped, overtaken, queue, mustGo>>

Send ==
  /\ pc = "send"
  /\ \/ Goto("accept") /\ UNCHANGED faults
     \/ Goto("clear") /\ Fault
  /\ UNCHANGED <<held, latest, obs, receiver, server, torn, overlapped, overtaken, queue, mustGo>>

\* Mutant of Accept: must_go does not pass by the other conditions.
AcceptChecking ==
  /\ pc = "accept"
  /\ \/ ~processed /\ Goto("room")
     \/ processed /\ obs.ts \notin predicted /\ Goto("room")
     \/ processed /\ Goto("clear")
  /\ UNCHANGED <<held, latest, obs, receiver, server, history, queue, mustGo>>

\* _enqueue_observation: an observation without must_go may be too similar to the
\* last one; the timestep must not have been predicted.
Accept ==
  /\ pc = "accept"
  /\ \/ (obs.must \/ ~processed \/ obs.ts \notin predicted) /\ Goto("room")
     \/ ~obs.must /\ processed /\ Goto("clear")
  /\ UNCHANGED <<held, latest, obs, receiver, server, history, queue, mustGo>>

Room ==
  /\ pc = "room"
  /\ Goto(IF slot # None THEN "pull" ELSE "put")
  /\ UNCHANGED <<held, latest, obs, receiver, server, history, queue, mustGo>>

\* get_nowait() raises if GetActions has come first; the client sees a failed call.
Pull ==
  /\ pc = "pull"
  /\ Goto(IF slot # None THEN "put" ELSE "clear")
  /\ slot' = None
  /\ UNCHANGED <<held, latest, obs, receiver, predicted, processed, history, queue, mustGo>>

\* The answer may be lost, too, which makes no difference to the client.
Put ==
  /\ pc = "put" /\ slot = None
  /\ slot' = obs
  /\ Goto("clear")
  /\ UNCHANGED <<held, latest, obs, receiver, predicted, processed, history, queue, mustGo>>

\* send_observation has returned, True or False.
Clear ==
  /\ pc = "clear"
  /\ mustGo' = (mustGo /\ ~obs.must)
  /\ obs' = None
  /\ Goto("check")
  /\ UNCHANGED <<held, latest, receiver, server, history, queue>>

-----------------------------------------------------------------------------
(* The receiver thread.                                                      *)

RxGoto(place) == rx' = place

\* Nothing is there for the receiver: it calls again.
EmptyAnswer == RxGoto("call") /\ src' = None

Call ==
  /\ rx = "call"
  /\ RxGoto("take")
  /\ UNCHANGED <<src, next, future, control, server, history, queue, mustGo>>

\* The call fails before it reaches the server.
CallFails ==
  /\ rx = "take" /\ Fault
  /\ EmptyAnswer
  /\ UNCHANGED <<next, future, control, server, torn, overlapped, overtaken, queue, mustGo>>

\* observation_queue.get; after obs_queue_timeout the receiver only calls again.
Take ==
  /\ rx = "take" /\ slot # None
  /\ src' = slot.ts /\ slot' = None
  /\ RxGoto("mark")
  /\ UNCHANGED <<next, future, control, predicted, processed, history, queue, mustGo>>

Mark ==
  /\ rx = "mark"
  /\ predicted' = predicted \cup {src}
  /\ RxGoto("prepare")
  /\ UNCHANGED <<src, next, future, control, slot, processed, history, queue, mustGo>>

Prepare ==
  /\ rx = "prepare"
  /\ processed' = TRUE
  /\ RxGoto("infer")
  /\ UNCHANGED <<src, next, future, control, slot, predicted, history, queue, mustGo>>

Infer ==
  /\ rx = "infer"
  /\ RxGoto("scan") /\ torn' = FALSE
  /\ UNCHANGED <<src, next, future, control, server, faults, overlapped, overtaken, queue, mustGo>>

\* The preprocessor or the policy raises, or the answer is lost.
InferFails ==
  /\ rx \in {"prepare", "infer"} /\ Fault
  /\ EmptyAnswer
  /\ UNCHANGED <<next, future, control, server, torn, overlapped, overtaken, queue, mustGo>>

\* current_action_queue: the loop over the deque raises RuntimeError if the control
\* thread pops from it meanwhile, and receive_actions catches RpcError only.
Scan ==
  /\ rx = "scan"
  /\ IF torn THEN RxGoto("dead") /\ UNCHANGED next
     ELSE RxGoto("build") /\ next' = src
  /\ UNCHANGED <<src, future, control, server, history, queue, mustGo>>

\* Mutant of Skipped: the action done last is taken for a new one.
SkippedIfOlder(ts) == ts < latest

Skipped(ts) == ts <= latest

\* One action of the chunk; what is combined with an old one keeps its timestep.
Build ==
  /\ rx = "build" /\ next < src + ChunkSize
  /\ future' = IF Skipped(next) THEN future ELSE Append(future, next)
  /\ next' = next + 1
  /\ overlapped' = (overlapped \/ pc = "act")
  /\ UNCHANGED <<rx, src, control, server, faults, torn, overtaken, queue, mustGo>>

Built ==
  /\ rx = "build" /\ next = src + ChunkSize
  /\ RxGoto("swap")
  /\ UNCHANGED <<src, next, future, control, server, history, queue, mustGo>>

Swap ==
  /\ rx = "swap"
  /\ queue' = future /\ future' = <<>> /\ next' = None
  /\ RxGoto("set")
  /\ UNCHANGED <<src, control, server, history, mustGo>>

\* Mutant of Set: must_go is set only if the chunk brought new actions.
SetIfUseful ==
  /\ rx = "set"
  /\ mustGo' = (mustGo \/ queue # <<>>)
  /\ overtaken' = (overtaken \/ (pc \in {"pull", "clear"} /\ obs.must))
  /\ RxGoto("call") /\ src' = None
  /\ UNCHANGED <<next, future, control, server, faults, torn, overlapped, queue>>

Set ==
  /\ rx = "set"
  /\ mustGo' = TRUE
  /\ overtaken' = (overtaken \/ (pc \in {"pull", "clear"} /\ obs.must))
  /\ RxGoto("call") /\ src' = None
  /\ UNCHANGED <<next, future, control, server, faults, torn, overlapped, queue>>

ControlThread ==
  \/ Check \/ Pop \/ Act \/ Ready \/ Look \/ Send \/ Accept \/ Room \/ Pull \/ Put \/ Clear

ReceiverThread ==
  \/ Call \/ Take \/ Mark \/ Prepare \/ Infer \/ Scan \/ Build \/ Built \/ Swap \/ Set

Next == ControlThread \/ LookFails \/ ReceiverThread \/ CallFails \/ InferFails

Spec == Init /\ [][Next]_vars

\* The two threads run.  The receiver, which waits for an observation, gets one in
\* the end although each is pulled out for the next: the control thread sleeps
\* after every put.
FairSpec == Spec /\ WF_vars(ControlThread) /\ WF_vars(ReceiverThread) /\ SF_vars(Take)

-----------------------------------------------------------------------------
(* Properties.                                                               *)

Timesteps == 0..(MaxStep + ChunkSize)

TypeOK ==
  /\ pc \in {"check", "pop", "act", "ready", "look", "send", "accept", "room", "pull",
             "put", "clear", "stopped", "crashed"}
  /\ held \in Timesteps \cup {None} /\ latest \in Timesteps \cup {-1}
  /\ obs \in [ts : Timesteps, must : BOOLEAN] \cup {None}
  /\ rx \in {"call", "take", "mark", "prepare", "infer", "scan", "build", "swap", "set", "dead"}
  /\ src \in Timesteps \cup {None}
  /\ next \in (0..(MaxStep + 2 * ChunkSize)) \cup {None}
  /\ queue \in Seq(Timesteps) /\ future \in Seq(Timesteps)
  /\ slot \in [ts : Timesteps, must : BOOLEAN] \cup {None}
  /\ predicted \subseteq Timesteps
  /\ processed \in BOOLEAN /\ mustGo \in BOOLEAN /\ faults \in 0..MaxFaults
  /\ torn \in BOOLEAN /\ overlapped \in BOOLEAN /\ overtaken \in BOOLEAN

\* "never blocks as queue is non-full here" (policy_server.py:306): although
\* GetActions empties the queue in the meantime.
PutNeverBlocks == pc = "put" => slot = None

\* The receiver will set must_go: it has an observation, or one waits or is being put.
AnswerUnderWay ==
  slot # None \/ pc = "put" \/ rx \in {"mark", "prepare", "infer", "scan", "build", "swap", "set"}

\* While must_go is clear an answer is under way that sets it again, whatever the
\* server filtered or replaced, unless a call failed, the receiver died, or the
\* answer came before the sender cleared must_go.
MustGoComesBack ==
  ~mustGo => AnswerUnderWay \/ faults > 0 \/ rx = "dead" \/ overtaken

\* An action is done again, or an older one is done, only if an action was being
\* done while the receiver built the new queue.
NoStepBack == pc = "act" /\ ~overlapped => held > latest

\* The robot stands still for ever only for one of these reasons: a call that
\* failed, an answer that overtook the clear, a receiver that died of a changed
\* deque, an action that was popped from an empty queue.
RobotKeepsGoing ==
  <>(pc \in {"stopped", "crashed"} \/ faults > 0 \/ overtaken \/ rx = "dead")
=============================================================================
