---------------------------- MODULE RobotMotion ----------------------------
(***************************************************************************)
(* What happens between enable_arms() and close(): smooth_reset and        *)
(* apply_action of the environment (deploy/xtrainer/real/environment.py)   *)
(* on the control loop's thread, and get_observation_snapshot on the       *)
(* capture thread, which reads from the same grippers through the same     *)
(* serial ports (hardware/feetech/sms_sts.py).  It refines the state "run" *)
(* of RealEnvironment, whose other actions it takes over, and uses the     *)
(* arithmetic of ActionLimits.  A device has one coordinate.  Every call to *)
(* a device may fail, before or after it has had its effect.               *)
(***************************************************************************)
EXTENDS RealEnvironment, ActionLimits

CONSTANTS
  JointTargets, GripperTargets,  \* what the policy may ask for
  StartJoint, StartGripper,      \* where the robot stands at first
  PoseJoint, PoseGripper,        \* the reset pose
  None

ASSUME MotionAssumption ==
  /\ JointTargets \subseteq Int /\ GripperTargets \subseteq Int
  /\ StartJoint \in JointMin..JointMax /\ PoseJoint \in JointMin..JointMax
  /\ StartGripper \in GripperMin..GripperMax /\ PoseGripper \in GripperMin..GripperMax
  /\ None \notin ToSet(Devices)

Grippers == {"left_gripper", "right_gripper"}
Movers == Arms \cup Grippers

\* The order of apply_action and of _read_state.
MoveOrder == <<"left_arm", "right_arm", "left_gripper", "right_gripper">>

Threads == {"loop", "capture"}

VARIABLES
  at,        \* where each device was last told to be
  slack,     \* history: how far from there the skipped writes may have led base
  base,      \* _last_state
  step,      \* the loop's thread: "off", "ramp", "loop", "apply", "leave"
  ramp,      \* smooth_reset: its start, number of actions, next one; n = 0: it is over
  sentOnce,  \* last_sent_action is not None
  limited,   \* apply_action: the action after _limit_action
  writes,    \* apply_action: devices still to be written
  reads,     \* capture: devices still to be read
  captured,  \* capture: "idle", "reading", "failed"
  seen,      \* capture: what it has read
  waits,     \* the gripper to whose reply each thread waits, or None
  replies,   \* replies on each serial line: the threads whose requests they answer
  late       \* grippers on whose line a reply came too late since it was opened

loopVars == <<base, step, ramp, sentOnce, limited, writes>>
captureVars == <<reads, captured, seen>>
lineVars == <<waits, replies, late>>
motionVars == <<at, slack, loopVars, captureVars, lineVars>>
allVars == <<vars, motionVars>>

\* What limited and seen are while nobody uses them.
Unset == [d \in Movers |-> 0]

NoRamp == [start |-> Unset, n |-> 0, k |-> 0]

MotionInit ==
  /\ Init
  /\ at = [d \in Movers |-> IF d \in Arms THEN StartJoint ELSE StartGripper]
  /\ slack = [g \in Grippers |-> 0]
  /\ base = at /\ limited = Unset /\ seen = Unset
  /\ step = "off" /\ ramp = NoRamp /\ sentOnce = FALSE /\ writes = <<>>
  /\ reads = <<>> /\ captured = "idle"
  /\ waits = [t \in Threads |-> None]
  /\ replies = [g \in Grippers |-> <<>>] /\ late = {}

-----------------------------------------------------------------------------
(* Entering and leaving the state "run".                                     *)

\* reset() reads where the devices are; the ports were opened anew.
ReadFirst ==
  /\ FirstRead
  /\ base' = at /\ slack' = [g \in Grippers |-> 0]
  /\ replies' = [g \in Grippers |-> <<>>] /\ late' = {}
  /\ UNCHANGED <<at, step, ramp, sentOnce, limited, writes, captureVars, waits>>

Pose == [d \in Movers |-> IF d \in Arms THEN PoseJoint ELSE PoseGripper]

\* The largest distance of a device from the pose.
PoseDistance == CHOOSE x \in {Distance(base[d], Pose[d]) : d \in Movers} :
                  \A d \in Movers : Distance(base[d], Pose[d]) <= x

\* enable_arms() is done; smooth_reset to the pose the server names, or the loop.
BeginMotion ==
  /\ EnableDone
  /\ \/ /\ step' = "ramp"
        /\ ramp' = [start |-> base, n |-> Greatest(1, RampSteps(PoseDistance)), k |-> 0]
     \/ step' = "loop" /\ ramp' = NoRamp
  /\ sentOnce' = FALSE
  /\ UNCHANGED <<at, slack, base, limited, writes, captureVars, lineVars>>

\* run_async_control_loop waits for the capture thread before run() closes anything.
EndMotion ==
  /\ step = "leave" /\ captured # "reading"
  /\ LoopEnds
  /\ step' = "off" /\ captured' = "idle" /\ writes' = <<>> /\ reads' = <<>> /\ ramp' = NoRamp
  /\ waits' = [waits EXCEPT !["loop"] = None]
  /\ sentOnce' = FALSE /\ limited' = Unset /\ seen' = Unset
  /\ UNCHANGED <<at, slack, base, replies, late>>

\* The loop's last step, an interrupt, or the capture's exception.
LeaveLoop ==
  /\ step = "loop"
  /\ step' = "leave"
  /\ UNCHANGED <<vars, at, slack, base, ramp, sentOnce, limited, writes, captureVars, lineVars>>

-----------------------------------------------------------------------------
(* apply_action.                                                             *)

\* _limit_action
Limit(action) ==
  [d \in Movers |-> IF d \in Arms THEN LimitJoint(action[d], base[d])
                    ELSE LimitGripper(action[d], base[d])]

ApplyBegins(action) ==
  /\ limited' = Limit(action) /\ writes' = MoveOrder /\ step' = "apply"

\* The next action of smooth_reset.
RampAction ==
  /\ step = "ramp"
  /\ ApplyBegins([d \in Movers |-> RampPoint(ramp.start[d], Pose[d], ramp.n, ramp.k)])
  /\ ramp' = [ramp EXCEPT !.k = @ + 1]
  /\ UNCHANGED <<vars, at, slack, base, sentOnce, captureVars, lineVars>>

\* The next action of the control loop, rate-limited if one was sent before.
LoopAction ==
  /\ step = "loop" /\ captured # "failed"
  /\ \E j \in JointTargets, g \in GripperTargets :
       LET wanted == [d \in Movers |-> IF d \in Arms THEN j ELSE g]
       IN ApplyBegins(IF sentOnce THEN [d \in Movers |-> RateLimit(wanted[d], base[d])]
                      ELSE wanted)
  /\ sentOnce' = TRUE
  /\ UNCHANGED <<vars, at, slack, base, ramp, captureVars, lineVars>>

\* An exception ends run(); _last_state keeps its value.
Raise ==
  /\ step' = "leave" /\ limited' = Unset /\ writes' = <<>>
  /\ UNCHANGED <<base, ramp, sentOnce>>

MoveArm ==
  /\ step = "apply" /\ writes # <<>> /\ Head(writes) \in Arms
  /\ \/ /\ at' = [at EXCEPT ![Head(writes)] = limited[Head(writes)]]
        /\ writes' = Tail(writes)
        /\ UNCHANGED <<base, step, ramp, sentOnce, limited>>
     \/ at' \in {at, [at EXCEPT ![Head(writes)] = limited[Head(writes)]]} /\ Raise
  /\ UNCHANGED <<vars, slack, captureVars, lineVars>>

\* A skipped write leaves less than the threshold; the range bounds what all of them
\* can leave.
Slacken(s) == Least(s + Greatest(1, GripperThreshold) - 1, GripperMax - GripperMin)

SkipGripper ==
  /\ step = "apply" /\ writes # <<>> /\ Head(writes) \in Grippers
  /\ ~WritesGripper(limited[Head(writes)], base[Head(writes)])
  /\ waits["loop"] = None
  /\ writes' = Tail(writes)
  /\ slack' = [slack EXCEPT ![Head(writes)] = Slacken(@)]
  /\ UNCHANGED <<vars, at, base, step, ramp, sentOnce, limited, captureVars, lineVars>>

\* Mutant of Request: without the transaction lock.
RequestUnlocked(t, g) ==
  /\ waits' = [waits EXCEPT ![t] = g]
  /\ replies' = [replies EXCEPT ![g] = Append(@, t)]
  /\ UNCHANGED late

\* _request takes the transaction lock and sends; the device answers.
Request(t, g) ==
  /\ \A u \in Threads : waits[u] # g
  /\ waits' = [waits EXCEPT ![t] = g]
  /\ replies' = [replies EXCEPT ![g] = Append(@, t)]
  /\ UNCHANGED late

\* _read_status takes the first reply there is.  A reply to the other thread has
\* another length, which raises.
TakeReply(t) ==
  /\ replies' = [replies EXCEPT ![waits[t]] = Tail(@)]
  /\ waits' = [waits EXCEPT ![t] = None]
  /\ UNCHANGED late

\* The time is up; the reply will still come.
ReplyLate(t) ==
  /\ late' = late \cup {waits[t]}
  /\ waits' = [waits EXCEPT ![t] = None]
  /\ UNCHANGED replies

WriteGripper ==
  /\ step = "apply" /\ writes # <<>> /\ Head(writes) \in Grippers
  /\ WritesGripper(limited[Head(writes)], base[Head(writes)])
  /\ waits["loop"] = None
  /\ Request("loop", Head(writes))
  /\ at' = [at EXCEPT ![Head(writes)] = limited[Head(writes)]]
  /\ slack' = [slack EXCEPT ![Head(writes)] = 0]
  /\ UNCHANGED <<vars, loopVars, captureVars>>

GripperWritten ==
  /\ step = "apply" /\ waits["loop"] # None
  /\ \/ /\ Head(replies[waits["loop"]]) = "loop" /\ TakeReply("loop")
        /\ writes' = Tail(writes)
        /\ UNCHANGED <<base, step, ramp, sentOnce, limited>>
     \/ Head(replies[waits["loop"]]) # "loop" /\ TakeReply("loop") /\ Raise
     \/ ReplyLate("loop") /\ Raise
  /\ UNCHANGED <<vars, at, slack, captureVars>>

\* _last_state becomes the action, and the ramp or the loop goes on.
ApplyDone ==
  /\ step = "apply" /\ writes = <<>>
  /\ base' = limited /\ limited' = Unset
  /\ IF ramp.n > ramp.k
     THEN step' = "ramp" /\ UNCHANGED ramp
     ELSE step' = "loop" /\ ramp' = NoRamp
  /\ UNCHANGED <<vars, at, slack, sentOnce, writes, captureVars, lineVars>>

-----------------------------------------------------------------------------
(* The capture thread, while the control loop runs.                          *)

CaptureBegins ==
  /\ step = "loop" /\ captured = "idle"
  /\ captured' = "reading" /\ reads' = MoveOrder
  /\ UNCHANGED <<vars, at, slack, loopVars, seen, lineVars>>

CaptureFails == captured' = "failed" /\ reads' = <<>> /\ seen' = Unset

ReadArm ==
  /\ captured = "reading" /\ reads # <<>> /\ Head(reads) \in Arms
  /\ \/ /\ seen' = [seen EXCEPT ![Head(reads)] = at[Head(reads)]]
        /\ reads' = Tail(reads) /\ UNCHANGED captured
     \/ CaptureFails
  /\ UNCHANGED <<vars, at, slack, loopVars, lineVars>>

ReadGripper ==
  /\ captured = "reading" /\ reads # <<>> /\ Head(reads) \in Grippers
  /\ waits["capture"] = None
  /\ Request("capture", Head(reads))
  /\ seen' = [seen EXCEPT ![Head(reads)] = at[Head(reads)]]
  /\ UNCHANGED <<vars, at, slack, loopVars, reads, captured>>

GripperRead ==
  /\ waits["capture"] # None
  /\ \/ /\ Head(replies[waits["capture"]]) = "capture" /\ TakeReply("capture")
        /\ reads' = Tail(reads) /\ UNCHANGED <<captured, seen>>
     \/ Head(replies[waits["capture"]]) # "capture" /\ TakeReply("capture") /\ CaptureFails
     \/ ReplyLate("capture") /\ CaptureFails
  /\ UNCHANGED <<vars, at, slack, loopVars>>

\* Mutant of CaptureDone: get_observation() makes the snapshot the base of the limits.
CaptureDoneRebasing ==
  /\ captured = "reading" /\ reads = <<>>
  /\ captured' = "idle" /\ base' = seen /\ seen' = Unset
  /\ UNCHANGED <<vars, at, slack, step, ramp, sentOnce, limited, writes, reads, lineVars>>

\* The images are read as well, and the observation is there.
CaptureDone ==
  /\ captured = "reading" /\ reads = <<>>
  /\ captured' = "idle" /\ seen' = Unset
  /\ UNCHANGED <<vars, at, slack, loopVars, reads, lineVars>>

Motion ==
  \/ ReadFirst \/ BeginMotion \/ EndMotion \/ LeaveLoop
  \/ RampAction \/ LoopAction \/ MoveArm \/ SkipGripper \/ WriteGripper \/ GripperWritten \/ ApplyDone
  \/ CaptureBegins \/ ReadArm \/ ReadGripper \/ GripperRead \/ CaptureDone

\* The rest of the life of the environment.
Life ==
  \/ Reset \/ PolicyFails \/ Connect \/ Rollback \/ EnableArm \/ Revoke
  \/ Close \/ Disable \/ CloseDevice \/ RunAgain

MotionNext == Motion \/ (Life /\ UNCHANGED motionVars)

MotionSpec == MotionInit /\ [][MotionNext]_allVars

-----------------------------------------------------------------------------
(* Properties.                                                               *)

MotionTypeOK ==
  /\ at \in [Movers -> Int] /\ slack \in [Grippers -> Nat] /\ base \in [Movers -> Int]
  /\ limited \in [Movers -> Int] /\ seen \in [Movers -> Int]
  /\ step \in {"off", "ramp", "loop", "apply", "leave"} /\ sentOnce \in BOOLEAN
  /\ ramp \in [start : [Movers -> Int], n : Nat, k : Nat]
  /\ writes \in Seq(Movers) /\ reads \in Seq(Movers)
  /\ captured \in {"idle", "reading", "failed"}
  /\ waits \in [Threads -> Grippers \cup {None}]
  /\ replies \in [Grippers -> Seq(Threads)] /\ late \subseteq Grippers

\* However a call fails and whatever the capture thread reads in the meantime, an
\* arm is never told to go farther than max_joint_delta_rad from where it was told
\* to be before, also in a second run.
StepBounded ==
  [][\A a \in Arms : Distance(at[a], at'[a]) <= MaxJointDelta]_allVars

\* _last_state is what apply_action limited, whether it was sent or not, so with a
\* threshold above the resolution it drifts from where a gripper is.  Still a write moves
\* a gripper no farther than max_gripper_delta beyond what the writes skipped since the
\* last one left, which is less than the threshold for each of them.
GripperStepBounded ==
  [][\A g \in Grippers : Distance(at[g], at'[g]) <= MaxGripperDelta + slack[g]]_allVars

\* The increments of the ramp, at most twice RampStep, are not cut by the limits.
RampFits ==
  /\ 2 * RampStep <= MaxJointDelta /\ 2 * RampStep <= MaxGripperDelta
  /\ RampSteps(Greatest(JointMax - JointMin, GripperMax - GripperMin)) < RampMaxSteps

\* The ramp ends with both arms at the pose, _last_state says that the grippers are there
\* too, and they are as near to it as the skipped writes allow.
AtPose ==
  /\ base' = Pose
  /\ \A a \in Arms : at'[a] = Pose[a]
  /\ \A g \in Grippers : Distance(at'[g], Pose[g]) <= slack'[g]

\* smooth_reset ends at the pose if the configured limits leave its increments alone.
PoseReached ==
  [][RampFits /\ ramp.n > 0 /\ ramp'.n = 0 /\ step' = "loop" => AtPose]_allVars

\* The two threads do not take each other's replies, as long as none comes late.
NoStolenReply ==
  \A t \in Threads, g \in Grippers : waits[t] = g /\ g \notin late => Head(replies[g]) = t
=============================================================================
