# X-Trainer deployment: formal models

TLA+ models of the programs of this repository in which several threads, tasks
or machines move a robot together:

- the X-Trainer deployment: `deploy/xtrainer/` (policy server, policy client,
  robot environment and drivers) and `scripts/xtrainer/run_real.py` (the control
  loops);
- the two ways in which the LeRobot library, of which the repository is a fork,
  runs a policy away from the control loop: the RTC rollout
  (`src/lerobot/rollout/`, `src/lerobot/policies/rtc/`) and the asynchronous
  inference over gRPC (`src/lerobot/async_inference/`).

The rest of the library (networks, datasets, training, drivers of other robots) is
not modelled; see the end.

## The system

    run_real.py                        policy client            policy server
    control loop ---submit/poll/reset--> slot, sender,  <--ws-->  message loop,
      |    \                             receiver                 session, worker
      |     capture thread                                           |
      v      v                                                       v
    XTrainerRealEnvironment --> arms, grippers, cameras         policy executor

    operator's threads                  serve loop / control loop      RTC thread
    start, reset, stop, set_task,  -->  RolloutController,        <-->  chunks into the
    ask, autosteer                      BaseStrategy                    action queue, texts

    RobotClient: control thread  --SendObservations-->  PolicyServer: queue of one
                 receiver thread <----GetActions------                observation, policy

| Part | State | Operations | Interacts with |
|---|---|---|---|
| Client, `websocket_client_policy.py` | one-place slot and its event, id counter, session id, futures of the awaited ack and request, event queue | `submit_observation`, `get_observation_event_nowait`, `reset`, `close`; tasks `_sender_loop`, `_receiver_loop` | the loop by calls, the server by frames |
| Session, `_LatestSession` in `websocket_policy_server.py` | session id, generation, pending slot and its event, idle event, highest id and timestep, last successful payload | `submit`, `reset`, `close`; task `_worker` | the message loop by calls, the policy by `_call_policy` |
| Server, `XTrainerWebSocketPolicyServer` | `_async_owner`, `_policy_lock`, one-thread executor | `_handle_websocket`, `_dispatch`, `_call_policy` | all connections |
| Latest loop, `_run_async_control_loop` | action queue, last action, fallback timer, capture worker | one tick per control period | client, environment, capture thread |
| Legacy loop, `run_control_loop` | action queue, one pending request | one tick per control period | client, environment |
| Environment, `real/environment.py` | `_enabled_arms`, `_closed`, `_last_state`, the devices | `reset`, `enable_arms`, `apply_action`, `smooth_reset`, `get_observation_snapshot`, `close` | device drivers; both threads of the loop |
| Gripper driver, `feetech/sms_sts.py` | serial port, transaction lock | `_request` | control loop's writes, capture thread's reads |
| Rollout controller, `rollout/controller.py` | request flags, `_running`, segment event, failure | `start`, `reset`, `stop`, `set_task`, `ask`, `autosteer`; `serve` | operator's threads, engine, strategy |
| RTC engine, `rollout/inference/rtc.py`, `base.py`, `action_queue.py` | observation, reset epoch, action queue with labels, task, query slot, answers, sequencer | `reset`, `pause`, `resume`, `get_action`, `pump_query`; thread `_rtc_loop` | control thread, operator, policy |
| gRPC client and server, `async_inference/` | action queue, `latest_action`, `must_go`; observation queue, predicted timesteps | `control_loop`, `receive_actions`; `SendObservations`, `GetActions` | each other |

What is hard here: the slot of the client and the slot of the server both
replace what they hold while a sender, a receiver, a message loop and a worker
run between each other's awaits; a reset and a close cut across all of them;
the loop must survive answers that come late, not at all or for the past; the
capture thread shares the devices with the loop; the ownership of the policy
outlives the client that had it; any device call may fail halfway through
opening, enabling, moving and closing. In a rollout a text or a chunk is
generated for seconds without a lock, and in the meantime the operator, a reset
or the end of a segment changes what it was generated for; flags are set and
cleared in an order on which everything depends. The gRPC client shares its queue
between two threads and remembers in one event whether an observation must be
served. `PROJECT.json` lists these hazards line by line.

What makes each part correct:

- **transport** (client + session): every accepted observation is acknowledged
  and answered once, in order; a reset is a barrier; the newest observation is
  answered; nothing waits for ever.
- **server**: one session owns the policy from its start to the end of its last
  policy call; nobody starves at the lock.
- **loops**: plans never get older, actions are held only when none is there and
  only for a bounded time, hardware is closed at the end and not before the
  capture thread has left it.
- **environment**: it moves only with everything connected and both arms
  enabled, never in larger steps than its limits (a gripper: beyond what skipped
  writes left), and whatever fails, arms are disabled before they are disconnected;
  the threads do not take each other's replies.
- **rollout**: no action from before a reset; truthful labels; the operator's word
  over the sequencer's; every question answered or reported once, at least until the
  controller ends; the last command wins; home before motion; nothing that ends the
  controller is lost.
- **gRPC inference**: actions go forwards; the mark that keeps an observation from
  being filtered comes back; the robot does not stop without a reason.

## The modules

| Module | Models | State and actions |
|---|---|---|
| `ObservationMailbox` | what the transport promises to the control program (abstract specification) | open observations, unread answers; submit, supersede, process, reset, fail |
| `LatestTransport` | client and session of one connection | one variable per field of the two classes, one action per stretch of a task between two awaits that suspend; frames in flight in both directions |
| `ObservationLedger` | what the transport does with each observation, without saying when the program learns of it (abstract specification) | open observations, answers given; submit, supersede, process, withdraw, lose |
| `MCLatestTransport` | the refinement mapping `LatestTransport` => `ObservationMailbox`, and the module TLC runs | |
| `AsyncControlLoop` | the latest loop over the mailbox (it EXTENDS `ObservationMailbox`), with the capture thread and the closing of the hardware | `pc` walks through a tick: drain, apply or hold, capture, poll, sleep |
| `LegacyControlLoop` | the request/response loop and its request task | likewise, with explicit time |
| `PolicyServer` | several connections: ownership, policy lock, ends of connections | one action per branch of `_handle_websocket`; `callQueue` is the lock's queue |
| `RealEnvironment` | opening, enabling, disabling and closing of the devices (abstract specification of `RobotMotion`) | `pc` and `todo`: one action per device call |
| `ActionLimits` | limits, rate limit, gripper threshold and ramp over integers | operators only |
| `RobotMotion` | `smooth_reset`, `apply_action` and the capture thread inside the state "run" of `RealEnvironment`; the serial line of a gripper | one action per device call of either thread |
| `RolloutController` | the operator's calls and the serve loop | one action per flag read or written |
| `RtcEngine` | RTC thread, control thread, operator and the text-query channel | one action per critical section or lock-free stretch |
| `AsyncInference` | both threads of the gRPC client and the handlers they call | one action per use of a lock, queue or event |
| `*_proofs` | theorems and proofs about the module of that name (`RobotMotion_proofs`: also about `RealEnvironment`) | |

Composition: `LatestTransport` implements `ObservationMailbox` (checked), and
`AsyncControlLoop` runs over `ObservationMailbox`; so the loop's properties rest
on the mailbox and not on one network. `LatestTransport` also implements
`ObservationLedger` (checked and proved). The two abstract specifications differ in
where they look: the mailbox from the control program, to which an answer exists
when it can be read, the ledger from the observation, which is answered when the
server has said what becomes of it. `RobotMotion` implements `RealEnvironment`
(proved). `PolicyServer` abstracts the sessions that `LatestTransport` details.
`RolloutController` and `RtcEngine` share the segment: the former has the flags of
the controller in full and an engine that lives or dies, the latter the engine in
full and a controller that begins and ends segments under its lock, with the exits of
`serve()` and its idle pump.

Abstractions. In the transport a payload is an integer, the posture along one
axis, because the only thing the control flow asks of it is whether two are closer
than epsilon (and whether `validate_payload` refuses it). An action is its
timestep and the timestep of the observation it was planned from; the arithmetic
on the 14 numbers does not change the control flow of the loop. In `RobotMotion`,
where the numbers matter, a device has one integer coordinate, a multiple of a
resolution, and a read returns where the device was last told to be: that it lags
behind or is moved by hand is left out. In `RtcEngine` an observation is the reset
epoch in which it was published and an action is its observation and its label; in
`AsyncInference` both are timesteps, and whether two observations are similar is left open. Time is
counted in control periods in `AsyncControlLoop` and in integer units in
`LegacyControlLoop`; the transport has no time, since it has no timeouts. Session
ids, uuids in the code, are numbers. A capture that is made without the background
thread is the case in which the capture ends before the next step of the loop.

asyncio. A step is what a task does between two awaits that really suspend.
Putting a frame in the server's outgoing queue suspends only if its 32 places are
taken; `OutgoingStaysShort` shows that they are not, so `submit` with its two
frames is one action. `close()` of the client is three actions because
`ws.close()` first waits for a receiver that is reading: that receiver gets a
CLOSING message, or the frame that was already in its buffer
(`ReceiverLastFrame`).

Loss. `Drop` breaks the connection at any time and keeps any prefix of what was
in flight, in both directions. WebSocket over TCP neither duplicates nor reorders.

Definitions whose comment begins with "Mutant of" are faulty versions of the
definition that follows them. No module uses them; replacing the definition by
one of them must make the property named in `PROJECT.json` fail, which shows that
the property says something about that definition.

## The runs

Passing. The type invariants are proved and therefore not among the properties of the
runs.

| Run | What it shows |
|---|---|
| `transport_safety` | ack first, then one terminal answer (`AckThenOneTerminal`); no skip without delivered actions (`SimilarHasBasis`); reset barrier (`ResetIsBarrier`); no reset during an inference (`PolicyCallsSerial`); short queue (`OutgoingStaysShort`) |
| `transport_mailbox` | the refinement of the mailbox (`ImplementsMailbox`), which includes that answers come in the order of the observations, and of the ledger (`ImplementsLedger`), which includes that none vanishes without a cause; the newest observation is answered (`NewestIsAnswered`); `reset()` comes back (`ResetReturns`); a lost connection ends its session (`SessionEnds`) |
| `control_loop` | plans never get older (`SourceNeverOlder`); holds are bounded (`HoldBounded`) and never filtered (`HeldNeverFiltered`); hardware is closed (`HardwareGetsClosed`), not under a capture (`NoReadAfterClose`) |
| `server_sharing` | ownership until idle (`OwnedUntilIdle`) and its return (`OwnershipReturns`); no starvation, and an end also of the calls that were waiting when a session began (`CallsEnd`) |
| `legacy_paced` | one inference at a time (`SingleFlight`); no tick begins with a request that is older by a period than its timeout, if ticks leave time to sleep (`PrefetchTimesOut`) |
| `robot_motion` | power off before disconnecting (`PowerOffBeforeClose`), all closed at the end, also in a second run (`SafeWhenEnded`); no arm is told to go farther than its limit from where it was told to be before (`StepBounded`), and no gripper farther than its limit and what the skipped writes leave (`GripperStepBounded`); the ramp ends at the pose (`PoseReached`); the capture thread and the loop keep to their own replies (`NoStolenReply`) |
| `rtc_engine` | no action from before a reset (`FreshActions`); labels name an instruction in force (`LabelsInForce`); an old plan does not overwrite the operator (`OperatorWins`); questions are in one place (`QuestionsKept`) and are answered or reported unless `serve()` ends (`QuestionsResolve`); the sequencer goes on (`SteeringGoesOn`); the robot gets actions or the segment ends (`RobotIsFed`) |
| `rollout_control` | no step after a returned stop or reset (`LastCommandWins`), nor before the return home (`HomeBeforeMotion`); a reset is carried out (`ResetHappens`); what ends the controller is not absorbed (`ControllerEnds`) |
| `async_inference` | `must_go` comes back, apart from the named races (`MustGoComesBack`); actions go forwards, apart from a chunk built while an action was done (`NoStepBack`); the robot stands still for ever only for a named reason (`RobotKeepsGoing`) |

Violated, each by a short counterexample; each is a place where the code does not
do what a document or docstring of the repository says (`findings` in
`PROJECT.json` quotes them):

| Run | Counterexample |
|---|---|
| `transport_close_hangs` | `close()` is called while the sender awaits an ack and another frame is the last the receiver reads: the receiver leaves its loop without failing the waiter, `gather` never returns |
| `environment_enable_lost` | the answer to `EnableRobot()` is lost: the arm is powered and in no list, so it is not disabled |
| `rollout_start_lost` | `reset()` sets its flag after the serve loop has looked for it; the `start()` that follows returns True, is consumed by a segment that the reset cancels, and nothing restores it |

### Known differences without a run of their own

The models contain these behaviours too, a few of them with other values of the
constants or outside of an assumption, and no property excludes them.

X-Trainer, against `docs/async_inference_route_a_implementation_plan.md`:

- An observation submitted before `reset()` may be sent after the reset request,
  because the slot is emptied only when the answer is there (line 130).
- A result that cannot be encoded sets the baseline of the similarity filter and
  is then reported as an error (line 78); `transport_safety` has sendable results.
- A request that waits for the policy lock calls the policy although another
  connection has opened a session meanwhile (line 46). `CallsEnd` shows that such
  calls end.
- Answers of the old session stay in the client's event queue after a reset, and a
  duplicate is answered without the ack for which the client's sender waits. The
  control loop causes neither: it resets before it submits, and its timesteps
  increase.
- Ticks of `run_control_loop` that overrun never yield to the event loop: the
  prefetch is not sent and does not time out.

gRPC inference, against the comments of `robot_client.py`:

- `must_go` is cleared after a send that failed, or after the answer that should
  have set it again (lines 337, 422 and 436). With an empty queue and a posture
  that does not change every later observation is filtered.
- The receiver iterates over the live deque outside of the lock; a pop in between
  ends its thread. The control thread dies of `queue.Empty` if an empty queue is
  swapped in between its two looks.
- An action that is being done while a chunk is merged is done again.
- With `actions_per_chunk = 1` every chunk after the first is empty.

The limits of the grippers, against the description of `--max-gripper-delta` as the
largest change in one step of the environment (`README.md:512`,
`docs/XTRAINER_SMOLVLA.md:388`): `apply_action` makes the limited action the base of
the next one whether the gripper was written or not (`environment.py:109`, 255-259). With
a `gripper_update_threshold` above the smallest change (the default is 0) the base
drifts: a write moves the gripper by up to the limit and all that was skipped before;
a target that is approached in changes below the threshold is never written, so the
loop, and `smooth_reset` if its increments are that small, leave a gripper where it is
and believe it elsewhere. `robot_motion` runs with such a threshold.
`GripperStepBounded` and `PoseReached` bound the drift by what was skipped; without
that allowance (`slack`) both are false in this run.

Questions, against `AskResult.QUEUED` ("the answer arrives as a `QUERY_ANSWERED` event",
`controller.py:73-74`): `stop()`, a shutdown, a failed strategy and a failed engine
leave the loop of `serve()` (351-359) before `pump_query` (377) is called again. A
question that the RTC thread has already taken, or whose answer is there but not
delivered, is then neither answered nor reported; one that is still queued is
reported. This is the one exception in `QuestionsResolve`.

RTC: an inference that takes as long as its chunk leaves an empty queue every
time; a sequencer that is stopped and started with the same goal accepts the old
turn; a turn that was applied just before the segment ended is announced after it;
a question of a new segment may be answered from the last snapshot of the old one.

### Bounds

- `transport_safety`: two observations in each of two sessions, payloads 0 and 1
  that are not similar to each other and 2 that is refused, repeated timesteps,
  one loss, one close. Two observations are what a replacement needs, in either
  slot; two sessions what a reset needs. Refused and repeated payloads end the
  client's receiver or stall its sender, so a longer run adds nothing behind them.
- `transport_mailbox`: the same without refused and repeated observations, which
  the control loop does not produce (`TimestepsIncrease`) and about which the
  mailbox promises nothing, and with similar payloads only, so that the
  filter always applies unless must_go says otherwise. No close: the mailbox ends
  with its program.
- `control_loop`: four steps, horizon 3, threshold 67 %, a capture at most every
  two periods, a timeout of two periods, ticks of one or two periods. Within four
  steps a chunk is consumed and replaced, the queue runs dry, a hold starts,
  expires and ends by a late chunk, and two observations are open at once.
- `server_sharing`: three connections: an owner, one that waits at the lock, one
  that comes and goes. `legacy_paced`: seven steps, horizon 3, a timeout
  of two periods.
- `robot_motion`: two runs of one environment, since `_closed` is carried from one
  to the next; joints 0..4 with steps of 2 and targets 0 and 5 (one out of range),
  grippers 0..4 with steps of 2, targets 0 and 4 and threshold 2, so that each clip
  applies and does not apply, a write is made and skipped, two skips in a row add
  up, and the ramp to the pose at 2 may leave a gripper behind. `enable()` succeeds or
  is refused; its lost answer is the violation.
- `rtc_engine`: one segment beside the warm-up, which is itself flushed by a reset,
  so two resets; two instructions, one of them also a subtask, and one goal; chunks
  of 2 with a delay of at most 1, so that a merge trims, blends (both modes) and
  may leave the queue short; two errors until the thread gives up; one question.
  One question meets every place, since the sequencer's turns compete for the slot.
  `serve()` may end at any point, and a strategy may fail in any step of a tick.
- `rollout_control`: five calls, enough for start, reset, start, stop and one
  more to race with any of them; `rollout_start_lost`: two.
- `async_inference`: chunks of 3, threshold 50 %, four timesteps and one fault of
  any kind: a queue that is consumed, merged, runs dry and is filled again.

### Threads

A step is atomic where the code makes it so. In `RtcEngine` and
`RolloutController` it is a critical section or what a thread does between two of
them, including each read or write of a flag that others use without the lock; in
`AsyncInference` one use of a lock, queue or event; in `RobotMotion` one device
call, which may fail before or after its effect, and for a gripper the request and
the reply as two steps.

### Fairness

- `LatestTransport`: weak fairness of every task (the event loops run what is
  ready) including the end of a policy call and the delivery of frames while the
  connection is up; none of the caller, which owes nothing.
- `PolicyServer`: a policy call ends and the server's tasks run; clients owe
  nothing, so an owner that stays keeps the policy.
- `AsyncControlLoop`: the loop's task runs, a capture ends (device reads have
  timeouts), and the wait for the first chunk ends, by `asyncio.wait_for` if by
  nothing else.
- `RtcEngine`: weak fairness of the control thread, whether it runs a segment or
  `serve()` is idle, of the RTC thread (inferences end), an operator's call that has
  begun and the sequencer's timer. Once `serve()` has ended the control thread takes no
  step. An idle `serve()` reaches its pump although it may find another reset first,
  and the end of a segment gets the control lock (strong fairness) although the
  operator may take it again and again: a person at a console pauses between two
  commands. Nothing obliges a strategy to fail or a segment to begin.
- `RolloutController`: the serve loop runs, a call that has begun goes on, and a
  dying engine signals. Nobody has to call anything.
- `AsyncInference`: weak fairness of both threads; strong fairness of the
  handler's `get` on the server's queue, because the control thread sleeps after
  each put and does not take the observation out again for ever without the
  handler having had its turn.

`RobotMotion` needs none: its properties are safety properties. Deadlock checking
is off: a run ends when the steps, observations, calls or sessions are used up, and
the programs themselves stop.

## What is proved

The theorems hold for every value of the constants that satisfies the modules'
assumptions (any number of observations, sessions, connections, calls, steps; any
limits, horizons, delays and timeouts). Each proof has the same plan: types first,
then an invariant that is inductive and implies the property.

`LatestTransport_proofs`

- `TypeCorrect`: `TypeOK` is inductive.
- `PolicySerial`, `BarrierSilent`: a worker that is in the policy when a reset
  begins is silent only because its generation is outdated, and a worker that
  waits stays waiting only because the reset left it nothing to take.
  `BarrierInv` says both: the worker's generation never exceeds the
  session's, and between the beginning of a reset (or close) and its end the slot
  is empty and an inference that still runs is outdated; while the policy is
  reset none runs.
- `OneTerminal`, `HistoryAdvances`, `ResetBarrier`, `OutgoingBounded` and
  `SkipsHaveBasis` are about what goes over the wire. None of them is inductive,
  because each depends on what is still under way. `DeliveryInv` says where everything
  is, part by part, the later ones resting on the earlier ones:
  - `FlowInv`: there is one permission to send; the sender has it, or it is on its
    way as an observation, or on its way back as an acknowledgement.
  - `ResetInv`: a reset is in one place, the request on the wire, the handler, the
    answer on the wire or the result of the caller's future; so the session of the
    server is the client's or the next one.
  - `IdInv`: ids grow from the wire to the client's slot.
  - `BarrierInv`, as above.
  - `LogInv`: what may still be sent is unknown to the server; what waits in its slot
    and what is in inference is acknowledged, not yet answered, and not the same.
    `OneTerminal` and `HistoryAdvances` follow.
  - `FrameInv`: behind the announcement of a new session only errors are on the
    wire. `ResetBarrier` follows.
  - `LoadInv`: the frames on the wire and those that are owed, weighed by what each
    stage can still produce, are bounded. `OutgoingBounded` follows: at most six
    frames, one of them an acknowledgement, in a queue of 32. (A bound of four holds
    in the run and is false in general: with four observations TLC reaches six.)

  `SkipsHaveBasis` adds `BasisInv` (the baseline is of an answered observation of this
  session) and assumes that every result of the policy can be encoded; without that
  it is false (known differences).
- `TransportImplementsLedger`: `Spec => ImplementsLedger`, the refinement of
  `ObservationLedger`: one lemma per action says which step of the ledger it is, or
  that it is none, because an observation only moves on (from the slot to the wire, or
  from the server's slot into inference) and stays open. It assumes
  that the program submits no malformed payload and repeats no timestep
  (`Malformed = {}`, `RepeatTimesteps = FALSE`), as the run does, since the ledger
  promises nothing about what is refused; the latter is what `TimestepsIncreaseHolds`
  proves of the control loop. `NumberInv` turns it into the order of timesteps the
  server checks.

`PolicyServer_proofs`

- `ServerTypeCorrect`, `Owned`, `ResetSerial` (no worker in the policy during a reset),
  `NoNewForeign` (no other connection begins a call during a session) from `OwnerInv`:
  sessions and workers' calls belong to the owner, a session's reset is never in
  the lock's queue together with its worker, and a message loop waits for its
  worker to become idle only inside an open session.

`AsyncControlLoop_proofs`

- `NoReadAfterCloseHolds` (`LoopInv`: closed hardware means the end and no running
  capture); `TimestepsIncreaseHolds` (`MailInv`: what the mailbox holds was
  submitted, and a capture belongs to a later timestep); `HeldNeverFilteredHolds`
  (`HeldInv`: an open observation of a hold carries must_go, no answer says
  otherwise); `HoldOnlyWhenEmptyHolds` (`QueueInv`: the queue has one source and no
  gap in front, so the last action is held only if there is none for later either); `HoldBoundedHolds` (`HoldInv`: the timer runs exactly while nothing
  usable has come); `SourceNeverOlderHolds` (`SourceInv`: answers wait in the order
  of their observations); `LoopTypeCorrect` from all of these.

`LegacyControlLoop_proofs`

- `LegacyTypeCorrect`, `SingleFlightHolds` from `FlightInv`: one call is on its way
  exactly while the first request or the task of the pending one runs.
- `LegacyPlansNeverOlder` from `PlanInv`: the queue is what is left of one chunk, and a
  pending request was made when that chunk was already there.
- `PrefetchTimesOutHolds` from `PaceInv`: a tick begins on its deadline, a request
  starts less than a period after it was made, in the sleep of its tick, and no tick
  begins while one runs whose timeout has passed. It assumes `TicksLeaveTime`: every
  tick takes less than a period. Otherwise it is false (known differences).

`RobotMotion_proofs`, first about `RealEnvironment`

- `EnvironmentTypeCorrect`, `MotionIsReadyHolds` from `PhaseInv` (what is open and
  powered in each phase); `SafeWhenEndedHolds`, `PowerOffHolds` from `PowerInv`
  (every powered arm is on a list, unless its disable failed). These two assume that
  no answer to `EnableRobot()` is lost, and `environment_enable_lost` shows why.
- `MotionImplementsLife`: `MotionSpec => Spec`, the refinement of the environment by
  its motion; what is proved of the former holds of the latter.
- `MotionTypeCorrect`; `NoStolenReplyHolds` (`LineInv`: a line without a late reply
  holds one reply for the thread that waits and none otherwise); `StepBoundedHolds`
  (`ArmInv`: between two actions an arm was last told its base, and the target in
  work is within the limit of it); `GripperStepBoundedHolds`, for every threshold
  (`DriftInv`: a gripper was told to be within `slack` of what the program believes,
  which is the base before its turn and the limited target after it; each skipped
  write adds less than the threshold to `slack`, a write resets it). With a threshold
  of at most the resolution `slack` stays 0 (`NoSlack`).
- `PoseReachedHolds`: if the limits leave the ramp's increments alone, the arms end at
  the pose and the grippers within `slack` of it, for every threshold. `RampInv`: at every step the last state is the point of the ramp
  before the next one, so that the limits, which start from it, cut nothing. It rests
  on lemmas about integer division: neighbouring points of the ramp are at most the
  stated increment apart, the points stay between the two ends, and the last one is
  the pose.

`RolloutController_proofs`

- `ControllerTypeCorrect`; `NoStartHolds` (`start()` does not re-arm its flag behind a
  running segment); `LastCommandHolds` and
  `HomeBeforeMotionHolds` from `CommandInv`: a call clears the start before it sets
  its own flag, and a segment that is past its re-check and has a request standing
  also has its event set.

`RtcEngine_proofs`

- `EngineTypeCorrect`: with one relation, that a living thread has made fewer
  errors than allowed.
- `FreshActionsHold`, `LabelsHold` from `QueueInv`: the observation on display is of
  the current epoch, the thread's snapshot is of the epoch it remembers, and while
  that is still the current one the instruction it took is in force.
- `OperatorWinsHolds` from `WordInv`: an instruction of the operator clears the goal,
  and a turn is applied only for the goal it was generated for.
- `QuestionsKeptHold`: every question is at one place, by counting.

`AsyncInference_proofs`

- `AsyncTypeCorrect`, which needs `QueueOK`: the queue ascends and ends with the
  last timestep or before.
- `PutNeverBlocksHolds`: `full()`, `get_nowait()` and `put()` are three uses of the
  queue, but only the control thread puts.
- `MustGoHolds` from `MustGoInv`: the observation that cleared `must_go` is in the
  server's queue or being answered, unless one of the named events has happened.
- `NoStepBackHolds` from `OrderInv`: everything in the queue, and in the queue being
  built, is later than what was done.

## What is only model-checked

- All liveness, since TLAPS proves none under fairness: `NewestIsAnswered`,
  `ResetReturns`, `SessionEnds`, `HardwareGetsClosed`, `CallsEnd`,
  `OwnershipReturns`, `QuestionsResolve`,
  `SteeringGoesOn`, `RobotIsFed`, `ResetHappens`, `ControllerEnds`,
  `RobotKeepsGoing`.
- `ImplementsMailbox`. Its mapping filters the frames on the wire with `SelectSeq`,
  which is recursive, and nothing about it can be proved for sequences of every length
  here. The ledger, whose mapping has sets only, is the part of it that is about the
  server; the order in which the program reads the answers is left to TLC.

## Not modelled

- Policies, processors, datasets, training, teleoperation and the drivers of other
  robots, which are by far the most of the library: numerical or data-handling
  code, run by one thread at a time, whose correctness is about tensors and files
  and not about an order of events. A model of it would abstract away what matters.
- X-Trainer: byte protocols of the drivers, cameras, the wire format, the policy,
  logs, command lines, dataset conversion, the HTTP endpoints. A Dobot answer that
  comes after its timeout is not carried over to the next request.
- Rollout: the strategies that record, the interactive session and the synchronous
  engine; relative actions and re-anchoring of the RTC engine; what a policy
  remembers from one call to the next.
- gRPC: a second client, two handlers in the policy at once, aggregation of
  overlapping actions (which value is taken, not which timestep).
- The legacy loop's actions are timesteps; its observations have no content.

`PROJECT.json` gives the reason per component and, under `hazards`, a note for each
hazard that no property covers.

## What is left

1. The order in which the program reads its answers (`ImplementsMailbox`) as a
   theorem about positions in the queues, without a filtered sequence.
2. A second gRPC client, and a handler that outlives its connection.
3. Late answers of the Dobot dashboard, and what the next call makes of them.
4. The strategies that record: what is saved when a segment ends in the middle of
   an episode; the queues between actor and learner of the reinforcement learning.
