------------------------- MODULE RobotMotion_proofs -------------------------
(***************************************************************************)
(* Theorems about the robot's environment, for any number of runs and for  *)
(* all limits, targets and poses.  First about its life (RealEnvironment): *)
(* if the answer to EnableRobot is never lost, arms are disabled before    *)
(* they are disconnected, whatever else fails.  Then about its motion      *)
(* (RobotMotion): the detailed behaviour is one of RealEnvironment's, the  *)
(* steps of the arms are bounded, and those of the grippers up to what the *)
(* skipped writes leave, the threads do not take each other's replies, and *)
(* the ramp ends at the pose.                                              *)
(***************************************************************************)
EXTENDS RobotMotion, SequenceTheorems, TLAPS

-----------------------------------------------------------------------------
(* Lemmas about the lists of devices.                                       *)

LEMMA HeadAndTail ==
  ASSUME NEW S, NEW s \in Seq(S), s # <<>>
  PROVE  /\ Head(s) \in S /\ Tail(s) \in Seq(S)
         /\ ToSet(s) = {Head(s)} \cup ToSet(Tail(s))
<1>1. /\ Head(s) = s[1] /\ Tail(s) \in Seq(S) /\ Len(s) \in Nat \ {0}
      /\ Len(Tail(s)) = Len(s) - 1
      /\ \A i \in 1..Len(Tail(s)) : Tail(s)[i] = s[i + 1]
  BY HeadTailProperties, EmptySeq
<1>2. DOMAIN s = 1..Len(s) /\ DOMAIN Tail(s) = 1..Len(Tail(s))
  BY <1>1
<1>3. ASSUME NEW x \in ToSet(s) PROVE x \in {Head(s)} \cup ToSet(Tail(s))
  <2>1. PICK i \in 1..Len(s) : x = s[i]
    BY <1>2, <1>3 DEF ToSet
  <2>2. CASE i = 1
    BY <1>1, <2>1, <2>2
  <2>3. CASE i # 1
    <3>1. i - 1 \in 1..Len(Tail(s)) /\ Tail(s)[i - 1] = x
      BY <1>1, <2>1, <2>3
    <3> QED
      BY <1>2, <3>1 DEF ToSet
  <2> QED
    BY <2>2, <2>3
<1>4. ASSUME NEW x \in {Head(s)} \cup ToSet(Tail(s)) PROVE x \in ToSet(s)
  <2>1. CASE x = Head(s)
    BY <1>1, <1>2, <2>1 DEF ToSet
  <2>2. CASE x \in ToSet(Tail(s))
    <3>1. PICK i \in 1..Len(Tail(s)) : x = Tail(s)[i]
      BY <1>2, <2>2 DEF ToSet
    <3>2. i + 1 \in 1..Len(s) /\ x = s[i + 1]
      BY <1>1, <3>1
    <3> QED
      BY <1>2, <3>2 DEF ToSet
  <2> QED
    BY <1>4, <2>1, <2>2
<1> QED
  BY <1>1, <1>3, <1>4

LEMMA ReverseSet ==
  ASSUME NEW S, NEW s \in Seq(S)
  PROVE  Reverse(s) \in Seq(S) /\ ToSet(Reverse(s)) = ToSet(s)
<1>1. /\ Len(s) \in Nat /\ DOMAIN s = 1..Len(s)
      /\ Reverse(s) = [i \in 1..Len(s) |-> s[(Len(s) - i) + 1]]
      /\ \A i \in 1..Len(s) : (Len(s) - i) + 1 \in 1..Len(s) /\ s[i] \in S
  BY DEF Reverse
<1>2. Reverse(s) \in Seq(S) /\ DOMAIN Reverse(s) = 1..Len(s)
  BY <1>1
<1>3. \A i \in 1..Len(s) : s[i] = Reverse(s)[(Len(s) - i) + 1]
  BY <1>1
<1>4. ASSUME NEW x \in ToSet(s) PROVE x \in ToSet(Reverse(s))
  <2>1. PICK i \in 1..Len(s) : x = s[i]
    BY <1>1, <1>4 DEF ToSet
  <2> QED
    BY <1>1, <1>2, <1>3, <2>1 DEF ToSet
<1>5. ASSUME NEW x \in ToSet(Reverse(s)) PROVE x \in ToSet(s)
  <2>1. PICK i \in 1..Len(s) : x = Reverse(s)[i]
    BY <1>2, <1>5 DEF ToSet
  <2> QED
    BY <1>1, <2>1 DEF ToSet
<1> QED
  BY <1>2, <1>4, <1>5

ArmOrder == <<"left_arm", "right_arm">>

LEMMA DeviceSets ==
  /\ Devices \in Seq(ToSet(Devices)) /\ CloseOrder \in Seq(ToSet(Devices))
  /\ ToSet(CloseOrder) = ToSet(Devices)
  /\ ToSet(Devices) = {"left_arm", "right_arm", "left_gripper", "right_gripper",
                       "top", "left_wrist", "right_wrist"}
  /\ ArmOrder \in Seq(Arms) /\ ToSet(ArmOrder) = Arms /\ Arms \subseteq ToSet(Devices)
  /\ ToSet(<<>>) = {}
<1>1. ToSet(Devices) = {"left_arm", "right_arm", "left_gripper", "right_gripper",
                        "top", "left_wrist", "right_wrist"}
  BY DEF ToSet, Devices
<1>2. ToSet(CloseOrder) = {"left_arm", "right_arm", "left_gripper", "right_gripper",
                           "top", "left_wrist", "right_wrist"}
  BY DEF ToSet, CloseOrder
<1>3. ToSet(ArmOrder) = Arms
  BY DEF ToSet, ArmOrder, Arms
<1>4. Devices \in Seq(ToSet(Devices)) /\ CloseOrder \in Seq(ToSet(Devices))
  BY <1>1 DEF Devices, CloseOrder
<1>5. ToSet(<<>>) = {}
  BY DEF ToSet
<1> QED
  BY <1>1, <1>2, <1>3, <1>4, <1>5 DEF ArmOrder, Arms

LEMMA EmptyList == <<>> \in Seq(Arms)
  BY EmptySeq

\* The devices that were handled before those still to do.
LEMMA DoneSets ==
  ASSUME NEW S, todo \in Seq(S)
  PROVE  /\ Done(Devices) \in Seq(ToSet(Devices))
         /\ Done(ArmOrder) \in Seq(Arms)
         /\ todo = <<"right_arm">> => "left_arm" \in ToSet(Done(ArmOrder))
<1>1. Len(todo) \in Nat
  OBVIOUS
<1>2. /\ Len(Devices) = 7 /\ \A i \in 1..7 : Devices[i] \in ToSet(Devices)
      /\ Len(ArmOrder) = 2 /\ \A i \in 1..2 : ArmOrder[i] \in Arms
  BY DEF Devices, ArmOrder, ToSet, Arms
<1>3. Done(Devices) \in Seq(ToSet(Devices)) /\ Done(ArmOrder) \in Seq(Arms)
  <2>1. /\ \A i \in 1..(7 - Len(todo)) : Devices[i] \in ToSet(Devices)
        /\ \A i \in 1..(2 - Len(todo)) : ArmOrder[i] \in Arms
        /\ 7 - Len(todo) \in Int /\ 2 - Len(todo) \in Int
    BY <1>1, <1>2
  <2> QED
    BY <1>2, <2>1, SubSeqProperties DEF Done
<1>4. ASSUME todo = <<"right_arm">> PROVE "left_arm" \in ToSet(Done(ArmOrder))
  <2>1. Done(ArmOrder) = SubSeq(ArmOrder, 1, 1)
    BY <1>2, <1>4 DEF Done
  <2>2. Len(Done(ArmOrder)) = 1 /\ Done(ArmOrder)[1] = "left_arm"
    BY <2>1 DEF ArmOrder
  <2> QED
    BY <1>3, <2>2 DEF ToSet
<1> QED
  BY <1>3, <1>4

-----------------------------------------------------------------------------
(* Which devices are connected, and which arms are enabled before motion.     *)

\* The types (closed apart, for Zenon's sake), and how far each phase has come: the
\* devices that are not open yet are still to do, the arms that are not powered
\* yet are, and what is closed was closed.
PhaseInv ==
  /\ pc \in {"idle", "connect", "rollback", "enable", "revoke", "run", "leave",
             "disable", "close", "ended"}
  /\ todo \in Seq(ToSet(Devices)) /\ runs \in 0..MaxRuns
  /\ enabled \in {<<>>, ArmOrder}
  /\ open \subseteq ToSet(Devices) /\ powered \subseteq Arms /\ stuck \subseteq powered
  /\ pc \in {"idle", "ended"} => open = {}
  /\ pc = "connect" => ToSet(Devices) \subseteq open \cup ToSet(todo)
  /\ pc \in {"enable", "run"} => open = ToSet(Devices)
  /\ pc = "enable" =>
       /\ todo \in {ArmOrder, <<"right_arm">>, <<>>}
       /\ todo = <<"right_arm">> => "left_arm" \in powered
       /\ todo = <<>> => Arms \subseteq powered
  /\ pc = "run" => Arms \subseteq powered
  /\ pc = "close" => open \subseteq ToSet(todo)
  /\ pc = "leave" /\ closed => open = {}
  /\ pc \in {"connect", "rollback", "enable", "revoke", "run"} => ~closed

LEMMA PhaseInit == Init => PhaseInv /\ closed \in BOOLEAN
<1>1. Init => PhaseInv
  BY EnvironmentAssumption DEF Init, PhaseInv, EnvironmentAssumption
<1>2. Init => closed \in BOOLEAN
  BY Zenon DEF Init
<1> QED
  BY <1>1, <1>2

\* What the phases that enable the arms do to their list.
LEMMA ArmLists ==
  /\ ArmOrder # <<>> /\ <<"right_arm">> # <<>> /\ ArmOrder # <<"right_arm">>
  /\ Head(ArmOrder) = "left_arm" /\ Tail(ArmOrder) = <<"right_arm">>
  /\ Head(<<"right_arm">>) = "right_arm" /\ Tail(<<"right_arm">>) = <<>>
  BY DEF ArmOrder

LEMMA PhaseStep == PhaseInv /\ [Next]_vars => PhaseInv'
<1> SUFFICES ASSUME PhaseInv, [Next]_vars PROVE PhaseInv'
  OBVIOUS
<1>0. /\ todo \in Seq(ToSet(Devices))
      /\ todo # <<>> => /\ Head(todo) \in ToSet(Devices) /\ Tail(todo) \in Seq(ToSet(Devices))
                        /\ ToSet(todo) = {Head(todo)} \cup ToSet(Tail(todo))
  BY HeadAndTail DEF PhaseInv
<1>1. \A s \in Seq(ToSet(Devices)) : Reverse(s) \in Seq(ToSet(Devices))
  BY ReverseSet
<1>2. \A s \in Seq(Arms) : Reverse(s) \in Seq(ToSet(Devices))
  <2>1. \A s \in Seq(Arms) : s \in Seq(ToSet(Devices))
    BY DeviceSets
  <2> QED
    BY <1>1, <2>1
<1>3. Done(Devices) \in Seq(ToSet(Devices)) /\ Done(ArmOrder) \in Seq(Arms)
  BY <1>0, DoneSets
<1> USE EnvironmentAssumption DEF PhaseInv, EnvironmentAssumption
<1>4. CASE Reset
  BY <1>4, DeviceSets DEF Reset
<1>5. CASE PolicyFails
  BY <1>5 DEF PolicyFails
<1>6. CASE Connect
  <2>1. todo' \in Seq(ToSet(Devices))
    BY <1>0, <1>1, <1>3, <1>6 DEF Connect
  <2>2. CASE pc' = "rollback"
    BY <1>6, <2>1, <2>2 DEF Connect
  <2>3. CASE pc' # "rollback"
    BY <1>0, <1>6, <2>1, <2>3 DEF Connect
  <2> QED BY <2>2, <2>3
<1>7. CASE Rollback
  BY <1>0, <1>7 DEF Rollback
<1>8. CASE FirstRead
  <2>1. ArmOrder \in Seq(ToSet(Devices))
    BY DeviceSets
  <2> QED
    BY <1>8, <2>1, ArmLists, DeviceSets DEF FirstRead, ArmOrder
<1>9. CASE EnableArm
  <2>1. todo \in {ArmOrder, <<"right_arm">>} /\ Head(todo) \in Arms
    BY <1>9, ArmLists DEF EnableArm, Arms
  <2>2. /\ powered' \subseteq Arms /\ stuck' \subseteq powered' /\ powered \subseteq powered'
        /\ pc' = "enable" => Head(todo) \in powered' /\ todo' = Tail(todo)
        /\ pc' # "enable" => pc' = "revoke" /\ todo' = Reverse(Done(ArmOrder))
    BY <1>9, <2>1 DEF EnableArm, ArmOrder
  <2>3. CASE pc' = "enable"
    BY <1>0, <1>9, <2>1, <2>2, <2>3, ArmLists DEF EnableArm, Arms
  <2>4. CASE pc' # "enable"
    BY <1>2, <1>3, <1>9, <2>2, <2>4 DEF EnableArm
  <2> QED BY <2>3, <2>4
<1>10. CASE EnableDone
  BY <1>10 DEF EnableDone, ArmOrder
<1>11. CASE Revoke
  BY <1>0, <1>11 DEF Revoke, DisableArm
<1>12. CASE LoopEnds
  BY <1>12 DEF LoopEnds
<1>13. CASE Close
  <2>1. enabled \in Seq(Arms)
    BY DeviceSets, EmptyList
  <2>2. Reverse(enabled) \in Seq(ToSet(Devices))
    BY <1>2, <2>1
  <2> QED
    BY <1>13, <2>2 DEF Close
<1>14. CASE Disable
  BY <1>0, <1>14, DeviceSets DEF Disable, DisableArm
<1>15. CASE CloseDevice
  BY <1>0, <1>15, DeviceSets DEF CloseDevice
<1>16. CASE RunAgain
  BY <1>16 DEF RunAgain
<1>17. CASE UNCHANGED vars
  BY <1>17 DEF vars
<1> QED
  BY <1>4, <1>5, <1>6, <1>7, <1>8, <1>9, <1>10, <1>11, <1>12, <1>13, <1>14, <1>15, <1>16,
     <1>17 DEF Next

LEMMA ClosedStep == closed \in BOOLEAN /\ [Next]_vars => (closed \in BOOLEAN)'
  BY Zenon DEF Next, vars, Reset, PolicyFails, Connect, Rollback, FirstRead, EnableArm,
     EnableDone, Revoke, LoopEnds, Close, Disable, CloseDevice, RunAgain

LEMMA PhaseHolds == Spec => [](PhaseInv /\ closed \in BOOLEAN)
  BY PhaseInit, PhaseStep, ClosedStep, PTL DEF Spec

\* Every variable keeps its type.
THEOREM EnvironmentTypeCorrect == Spec => []TypeOK
<1>1. PhaseInv /\ closed \in BOOLEAN => TypeOK
  <2>1. <<>> \in Seq(Arms) /\ ArmOrder \in Seq(Arms)
    BY DeviceSets
  <2> QED
    BY <2>1 DEF PhaseInv, TypeOK
<1> QED
  BY <1>1, PhaseHolds, PTL

\* The arms move only when both are enabled and every device is connected,
\* whatever failed in this run or in one before.
THEOREM MotionIsReadyHolds == Spec => []MotionIsReady
<1>1. PhaseInv => MotionIsReady
  BY DEF PhaseInv, MotionIsReady
<1> QED
  BY <1>1, PhaseHolds, PTL

-----------------------------------------------------------------------------
(* Which arms are still to be disabled.                                      *)

\* A powered arm that did not refuse to be disabled is in the list that the current
\* phase works off, or was enabled by this run and is not in any list yet.
PowerInv ==
  /\ pc \in {"idle", "connect", "rollback", "close", "ended"} => powered \subseteq stuck
  /\ pc = "enable" =>
       /\ todo = ArmOrder => powered \subseteq stuck
       /\ todo = <<"right_arm">> => powered \subseteq stuck \cup {"left_arm"}
  /\ pc \in {"revoke", "disable"} => powered \subseteq stuck \cup ToSet(todo)
  /\ pc = "run" => enabled = ArmOrder
  /\ pc = "leave" => powered \subseteq stuck \cup ToSet(enabled)
  /\ pc = "leave" /\ closed => powered \subseteq stuck

LEMMA PowerStep ==
  ASSUME "lost" \notin EnableOutcomes, PhaseInv, PowerInv, [Next]_vars
  PROVE  PowerInv'
<1>0. todo # <<>> => ToSet(todo) = {Head(todo)} \cup ToSet(Tail(todo))
  BY HeadAndTail DEF PhaseInv
<1>1. ToSet(<<>>) = {} /\ ToSet(ArmOrder) = Arms /\ Arms = {"left_arm", "right_arm"}
  BY DeviceSets DEF Arms
<1> USE <1>1 DEF PhaseInv, PowerInv
<1>2. CASE Reset \/ PolicyFails \/ Connect \/ RunAgain \/ CloseDevice
  BY <1>2 DEF Reset, PolicyFails, Connect, RunAgain, CloseDevice
<1>3. CASE Rollback
  BY <1>3 DEF Rollback
<1>4. CASE FirstRead
  BY <1>4, ArmLists DEF FirstRead, ArmOrder
<1>5. CASE EnableArm
  <2>1. PICK outcome \in {"ok", "refused"} :
          /\ powered' = IF outcome = "refused" THEN powered ELSE powered \cup {Head(todo)}
          /\ stuck' = IF outcome = "refused" THEN stuck ELSE stuck \ {Head(todo)}
          /\ IF outcome = "ok"
             THEN todo' = Tail(todo) /\ UNCHANGED pc
             ELSE pc' = "revoke" /\ todo' = Reverse(Done(ArmOrder))
    BY <1>5, EnvironmentAssumption DEF EnableArm, EnvironmentAssumption, ArmOrder
  <2>2. pc = "enable" /\ todo \in {ArmOrder, <<"right_arm">>}
    BY <1>5 DEF EnableArm
  <2>3. CASE outcome = "ok"
    BY <1>5, <2>1, <2>2, <2>3, ArmLists DEF EnableArm
  <2>4. CASE outcome = "refused"
    <3>1. powered' = powered /\ stuck' = stuck /\ pc' = "revoke"
          /\ todo' = Reverse(Done(ArmOrder))
      BY <2>1, <2>4
    <3>2. ToSet(todo') = ToSet(Done(ArmOrder))
      BY <3>1, DoneSets, ReverseSet
    <3>3. todo = <<"right_arm">> => "left_arm" \in ToSet(todo')
      BY <3>2, DoneSets
    <3> QED
      BY <2>2, <3>1, <3>3
  <2> QED
    BY <2>1, <2>3, <2>4
<1>6. CASE EnableDone
  BY <1>6 DEF EnableDone, ArmOrder
<1>7. CASE Revoke
  BY <1>0, <1>7 DEF Revoke, DisableArm
<1>8. CASE LoopEnds
  BY <1>8 DEF LoopEnds
<1>9. CASE Close
  <2>1. enabled \in Seq(Arms)
    BY DeviceSets, EmptyList
  <2>2. ToSet(Reverse(enabled)) = ToSet(enabled)
    BY <2>1, ReverseSet
  <2> QED
    BY <1>9, <2>2 DEF Close
<1>10. CASE Disable
  BY <1>0, <1>10 DEF Disable, DisableArm
<1>11. CASE UNCHANGED vars
  BY <1>11 DEF vars
<1> QED
  BY <1>2, <1>3, <1>4, <1>5, <1>6, <1>7, <1>8, <1>9, <1>10, <1>11 DEF Next

LEMMA PowerHolds ==
  ASSUME "lost" \notin EnableOutcomes
  PROVE  Spec => [](PhaseInv /\ PowerInv)
<1>1. Init => PowerInv
  BY DEF Init, PowerInv
<1>2. PhaseInv /\ PowerInv /\ [Next]_vars => PowerInv'
  BY PowerStep
<1> QED
  BY <1>1, <1>2, PhaseHolds, PTL DEF Spec

\* If no answer to EnableRobot is lost: whatever failed, after run() every
\* connection is closed, and an arm is powered only if it refused to be disabled.
THEOREM SafeWhenEndedHolds ==
  ASSUME "lost" \notin EnableOutcomes
  PROVE  Spec => []SafeWhenEnded
<1>1. PhaseInv /\ PowerInv => SafeWhenEnded
  BY DEF PhaseInv, PowerInv, SafeWhenEnded
<1> QED
  BY <1>1, PowerHolds, PTL

\* If no answer to EnableRobot is lost: a connection to a powered arm is given up
\* only after an attempt to disable the arm.
THEOREM PowerOffHolds ==
  ASSUME "lost" \notin EnableOutcomes
  PROVE  Spec => PowerOffBeforeClose
<1>1. PhaseInv /\ PowerInv /\ [Next]_vars
        => [\A a \in Arms : (a \in open \ open' /\ a \in powered) => a \in stuck]_vars
  BY DEF PhaseInv, PowerInv, Next, Reset, PolicyFails, Connect, Rollback, FirstRead, EnableArm,
     EnableDone, Revoke, LoopEnds, Close, Disable, CloseDevice, RunAgain
<1> QED
  BY <1>1, PowerHolds, PTL DEF Spec, PowerOffBeforeClose

-----------------------------------------------------------------------------
(* RobotMotion implements RealEnvironment, with the same variables.         *)

LEMMA MotionStepsAreSteps == [MotionNext]_allVars => [Next]_vars
  BY DEF MotionNext, Motion, Life, allVars, Next, vars, ReadFirst, BeginMotion, EndMotion, LeaveLoop,
     RampAction, LoopAction, MoveArm, SkipGripper, WriteGripper, GripperWritten, ApplyDone,
     CaptureBegins, ReadArm, ReadGripper, GripperRead, CaptureDone

\* Every behaviour of the detailed model is one of the life of the environment.
THEOREM MotionImplementsLife == MotionSpec => Spec
<1>1. MotionInit => Init
  BY DEF MotionInit
<1> QED
  BY <1>1, MotionStepsAreSteps, PTL DEF MotionSpec, Spec

-----------------------------------------------------------------------------
(* The arithmetic of an action.                                             *)

\* From a position within the limits, a limited action is within the limits and
\* within the largest step.
LEMMA LimitJointBounds ==
  ASSUME NEW target \in Int, NEW current \in JointMin..JointMax
  PROVE  /\ LimitJoint(target, current) \in JointMin..JointMax
         /\ Distance(current, LimitJoint(target, current)) <= MaxJointDelta
  BY LimitsAssumption
     DEF LimitsAssumption, LimitJoint, Toward, Clip, Least, Greatest, Distance

LEMMA LimitGripperBounds ==
  ASSUME NEW target \in Int, NEW current \in GripperMin..GripperMax
  PROVE  /\ LimitGripper(target, current) \in GripperMin..GripperMax
         /\ Distance(current, LimitGripper(target, current)) <= MaxGripperDelta
  BY LimitsAssumption
     DEF LimitsAssumption, LimitGripper, Toward, Clip, Least, Greatest, Distance

LEMMA LimitGripperInt ==
  ASSUME NEW target \in Int, NEW current \in Int
  PROVE  LimitGripper(target, current) \in Int
  BY LimitsAssumption DEF LimitsAssumption, LimitGripper, Toward, Clip, Least, Greatest

LEMMA RateLimitInt ==
  ASSUME NEW target \in Int, NEW previous \in Int
  PROVE  RateLimit(target, previous) \in Int
  BY LimitsAssumption DEF LimitsAssumption, RateLimit, Toward, Clip, Least, Greatest

LEMMA RampPointInt ==
  ASSUME NEW start \in Int, NEW target \in Int, NEW n \in Nat, NEW k \in Nat
  PROVE  RampPoint(start, target, n, k) \in Int
<1>1. CASE n <= 1
  BY <1>1 DEF RampPoint
<1>2. CASE n > 1
  <2>1. n - 1 \in Nat \ {0} /\ (target - start) * k \in Int
    BY <1>2
  <2>2. \A x \in Int, y \in Nat \ {0} : x \div y \in Int
    OBVIOUS
  <2>3. ((target - start) * k) \div (n - 1) \in Int
    BY <2>1, <2>2
  <2> QED
    BY <1>2, <2>3 DEF RampPoint
<1> QED
  BY <1>1, <1>2

LEMMA Triangle ==
  ASSUME NEW x \in Int, NEW y \in Int, NEW z \in Int
  PROVE  Distance(x, z) <= Distance(x, y) + Distance(y, z)
  BY DEF Distance

LEMMA SlackenNat ==
  ASSUME NEW s \in Nat
  PROVE  Slacken(s) \in Nat
  BY LimitsAssumption DEF LimitsAssumption, Slacken, Least, Greatest

\* A write that is skipped leaves less than the threshold, and no two positions within
\* the limits are farther apart than the range.
LEMMA SlackenKeeps ==
  ASSUME NEW x \in GripperMin..GripperMax, NEW y \in GripperMin..GripperMax,
         NEW z \in GripperMin..GripperMax, NEW s \in Nat,
         Distance(x, y) <= s, ~WritesGripper(z, y)
  PROVE  Distance(x, z) <= Slacken(s)
<1>1. x \in Int /\ y \in Int /\ z \in Int /\ GripperThreshold \in Nat
      /\ GripperMin \in Int /\ GripperMax \in Int
  BY LimitsAssumption DEF LimitsAssumption
<1>2. Distance(y, z) <= Greatest(1, GripperThreshold) - 1
  BY <1>1 DEF WritesGripper, Distance, Greatest
<1>3. Distance(x, z) <= s + Greatest(1, GripperThreshold) - 1
  <2>1. /\ Distance(x, y) \in Int /\ Distance(y, z) \in Int /\ Distance(x, z) \in Int
        /\ Greatest(1, GripperThreshold) \in Int
    BY <1>1 DEF Distance, Greatest
  <2> QED
    BY <1>1, <1>2, <2>1, Triangle
<1>4. Distance(x, z) <= GripperMax - GripperMin
  BY <1>1 DEF Distance
<1> QED
  BY <1>3, <1>4 DEF Slacken, Least

-----------------------------------------------------------------------------
(* The types.                                                               *)

\* What is left of MoveOrder.
RightRest == <<"right_arm", "left_gripper", "right_gripper">>
LeftRest == <<"left_gripper", "right_gripper">>
LastRest == <<"right_gripper">>
NoRest == <<>>
MoveRests == {MoveOrder, RightRest, LeftRest, LastRest, NoRest}

LEMMA MoveRestSteps ==
  /\ Head(MoveOrder) = "left_arm" /\ Tail(MoveOrder) = RightRest
  /\ Head(RightRest) = "right_arm" /\ Tail(RightRest) = LeftRest
  /\ Head(LeftRest) = "left_gripper" /\ Tail(LeftRest) = LastRest
  /\ Head(LastRest) = "right_gripper" /\ Tail(LastRest) = NoRest
  BY DEF MoveOrder, RightRest, LeftRest, LastRest, NoRest

LEMMA RestsDiffer ==
  /\ MoveOrder \notin {RightRest, LeftRest, LastRest, NoRest}
  /\ RightRest \notin {LeftRest, LastRest, NoRest}
  /\ LeftRest \notin {LastRest, NoRest} /\ LastRest # NoRest
<1>1. MoveOrder # NoRest /\ RightRest # NoRest /\ LeftRest # NoRest /\ LastRest # NoRest
  BY DEF MoveOrder, RightRest, LeftRest, LastRest, NoRest
<1> QED
  BY <1>1, MoveRestSteps

LEMMA MoveRestTails ==
  /\ MoveOrder \in MoveRests /\ <<>> \in MoveRests
  /\ \A s \in MoveRests : s # <<>> => Head(s) \in Movers /\ Tail(s) \in MoveRests
<1>1. \A s \in MoveRests : s # <<>> => Head(s) \in Movers /\ Tail(s) \in MoveRests
  BY MoveRestSteps DEF MoveRests, NoRest, Movers, Arms, Grippers
<1> QED
  BY <1>1 DEF MoveRests, NoRest

DataOK ==
  /\ at \in [Movers -> Int] /\ slack \in [Grippers -> Nat] /\ base \in [Movers -> Int]
  /\ limited \in [Movers -> Int] /\ seen \in [Movers -> Int]
  /\ ramp \in [start : [Movers -> Int], n : Nat, k : Nat]

ControlOK ==
  /\ step \in {"off", "ramp", "loop", "apply", "leave"}
  /\ writes \in MoveRests /\ reads \in MoveRests
  /\ captured \in {"idle", "reading", "failed"}
  /\ pc # "run" => step = "off" /\ captured = "idle"

\* A thread waits for the gripper whose turn it is.
WaitOK ==
  /\ waits \in [Threads -> Grippers \cup {None}]
  /\ waits["loop"] # None =>
       /\ step = "apply" /\ writes # <<>> /\ waits["loop"] = Head(writes)
       /\ WritesGripper(limited[Head(writes)], base[Head(writes)])
  /\ waits["capture"] # None =>
       captured = "reading" /\ reads # <<>> /\ waits["capture"] = Head(reads)

\* The distance of the device that is farthest from the pose.
LEMMA PoseDistanceIs ==
  ASSUME base \in [Movers -> Int]
  PROVE  /\ PoseDistance \in Int
         /\ \E m \in Movers : PoseDistance = Distance(base[m], Pose[m])
         /\ \A d \in Movers : Distance(base[d], Pose[d]) <= PoseDistance
<1> DEFINE D(d) == Distance(base[d], Pose[d])
<1>1. \A d \in Movers : D(d) \in Int
  <2>1. Pose \in [Movers -> Int]
    BY MotionAssumption, LimitsAssumption DEF MotionAssumption, LimitsAssumption, Pose
  <2> QED
    BY <2>1 DEF Distance
<1>2. Movers = {"left_arm", "right_arm", "left_gripper", "right_gripper"}
  BY DEF Movers, Arms, Grippers
<1> HIDE DEF D
<1>3. \E x \in {D(d) : d \in Movers} : \A d \in Movers : D(d) <= x
  <2>1. \E m \in Movers : \A d \in Movers : D(d) <= D(m)
    BY <1>1, <1>2
  <2> QED
    BY <2>1
<1>4. PoseDistance = CHOOSE x \in {D(d) : d \in Movers} : \A d \in Movers : D(d) <= x
  BY DEF PoseDistance, D
<1>5. PoseDistance \in {D(d) : d \in Movers} /\ \A d \in Movers : D(d) <= PoseDistance
  BY <1>3, <1>4
<1> QED
  BY <1>1, <1>5 DEF D

LEMMA RampLength ==
  ASSUME NEW distance \in Int
  PROVE  Greatest(1, RampSteps(distance)) \in Nat
<1>1. distance + RampStep - 1 \in Int /\ RampStep \in Nat \ {0}
  BY LimitsAssumption DEF LimitsAssumption
<1>2. \A x \in Int, y \in Nat \ {0} : x \div y \in Int
  OBVIOUS
<1>3. Ceiling(distance, RampStep) \in Int
  BY <1>1, <1>2 DEF Ceiling
<1> QED
  BY <1>3, LimitsAssumption DEF LimitsAssumption, RampSteps, Least, Greatest

LEMMA TypesInit == MotionInit => DataOK /\ ControlOK /\ WaitOK
<1>1. \A d \in Movers : (IF d \in Arms THEN StartJoint ELSE StartGripper) \in Int
  BY MotionAssumption, LimitsAssumption DEF MotionAssumption, LimitsAssumption
<1>2. Unset \in [Movers -> Int]
  BY DEF Unset
<1>3. MotionInit => DataOK
  BY <1>1, <1>2 DEF MotionInit, DataOK, NoRamp
<1>4. MotionInit => ControlOK
  BY MoveRestTails DEF MotionInit, Init, ControlOK
<1>5. MotionInit => WaitOK
  BY DEF MotionInit, WaitOK, Threads
<1> QED
  BY <1>3, <1>4, <1>5

\* Every action that is applied is one of numbers, and so is its limited form.
LEMMA LimitInt ==
  ASSUME base \in [Movers -> Int], NEW action \in [Movers -> Int]
  PROVE  Limit(action) \in [Movers -> Int]
<1>1. \A d \in Movers : LimitGripper(action[d], base[d]) \in Int
  BY LimitGripperInt
<1>2. \A d \in Movers : LimitJoint(action[d], base[d]) \in Int
  BY LimitsAssumption
     DEF LimitsAssumption, LimitJoint, Toward, Clip, Least, Greatest
<1> QED
  BY <1>1, <1>2 DEF Limit

LEMMA RampActionInt ==
  ASSUME DataOK
  PROVE  [d \in Movers |-> RampPoint(ramp.start[d], Pose[d], ramp.n, ramp.k)]
           \in [Movers -> Int]
<1>1. Pose \in [Movers -> Int]
  BY MotionAssumption, LimitsAssumption DEF MotionAssumption, LimitsAssumption, Pose
<1>2. /\ \A d \in Movers : ramp.start[d] \in Int /\ Pose[d] \in Int
      /\ ramp.n \in Nat /\ ramp.k \in Nat
  BY <1>1 DEF DataOK
<1> QED
  BY <1>2, RampPointInt

LEMMA DataStep == DataOK /\ ControlOK /\ [MotionNext]_allVars => DataOK'
<1> SUFFICES ASSUME DataOK, ControlOK, [MotionNext]_allVars PROVE DataOK'
  OBVIOUS
<1>1. Unset \in [Movers -> Int]
  BY DEF Unset
<1> USE <1>1 DEF DataOK
<1>2. CASE ReadFirst
  BY <1>2 DEF ReadFirst, captureVars
<1>3. CASE BeginMotion
  <2>1. Greatest(1, RampSteps(PoseDistance)) \in Nat
    BY PoseDistanceIs, RampLength
  <2> QED
    BY <1>3, <2>1 DEF BeginMotion, NoRamp, captureVars
<1>4. CASE EndMotion
  BY <1>4 DEF EndMotion, NoRamp
<1>5. CASE RampAction
  <2>1. limited' \in [Movers -> Int]
    BY <1>5, RampActionInt, LimitInt DEF RampAction, ApplyBegins
  <2> QED
    BY <1>5, <2>1 DEF RampAction, captureVars
<1>6. CASE LoopAction
  <2>1. PICK j \in JointTargets, g \in GripperTargets :
          LET wanted == [d \in Movers |-> IF d \in Arms THEN j ELSE g]
          IN ApplyBegins(IF sentOnce THEN [d \in Movers |-> RateLimit(wanted[d], base[d])]
                         ELSE wanted)
    BY <1>6 DEF LoopAction
  <2> DEFINE wanted == [d \in Movers |-> IF d \in Arms THEN j ELSE g]
             sent == IF sentOnce THEN [d \in Movers |-> RateLimit(wanted[d], base[d])]
                     ELSE wanted
  <2>2. wanted \in [Movers -> Int]
    BY MotionAssumption DEF MotionAssumption
  <2>3. sent \in [Movers -> Int]
    <3>1. \A d \in Movers : RateLimit(wanted[d], base[d]) \in Int
      BY <2>2, RateLimitInt
    <3> QED
      BY <2>2, <3>1
  <2>4. limited' = Limit(sent)
    BY <2>1 DEF ApplyBegins
  <2>5. limited' \in [Movers -> Int]
    BY <2>3, <2>4, LimitInt
  <2> QED
    BY <1>6, <2>5 DEF LoopAction, captureVars
<1>7. CASE MoveArm
  BY <1>7, MoveRestTails DEF MoveArm, Raise, captureVars, ControlOK
<1>8. CASE WriteGripper
  BY <1>8, MoveRestTails DEF WriteGripper, loopVars, captureVars, ControlOK
<1>9. CASE GripperWritten \/ ApplyDone \/ LeaveLoop \/ SkipGripper
  <2>1. CASE GripperWritten
    BY <2>1 DEF GripperWritten, Raise, captureVars
  <2>2. CASE ApplyDone
    BY <2>2 DEF ApplyDone, NoRamp, captureVars
  <2>3. CASE LeaveLoop
    BY <2>3 DEF LeaveLoop, captureVars
  <2>4. CASE SkipGripper
    <3>1. Head(writes) \in Grippers /\ slack' = [slack EXCEPT ![Head(writes)] = Slacken(@)]
      BY <2>4 DEF SkipGripper
    <3>2. slack' \in [Grippers -> Nat]
      BY <3>1, SlackenNat
    <3> QED
      BY <2>4, <3>2 DEF SkipGripper, captureVars
  <2> QED
    BY <1>9, <2>1, <2>2, <2>3, <2>4
<1>10. CASE ReadArm
  BY <1>10, MoveRestTails DEF ReadArm, CaptureFails, loopVars, ControlOK
<1>11. CASE ReadGripper
  BY <1>11, MoveRestTails DEF ReadGripper, loopVars, ControlOK
<1>12. CASE CaptureBegins \/ GripperRead \/ CaptureDone
  BY <1>12 DEF CaptureBegins, GripperRead, CaptureDone, CaptureFails, loopVars
<1>13. CASE UNCHANGED motionVars
  BY <1>13 DEF motionVars, loopVars, captureVars
<1> QED
  BY <1>2, <1>3, <1>4, <1>5, <1>6, <1>7, <1>8, <1>9, <1>10, <1>11, <1>12, <1>13
     DEF MotionNext, Motion, allVars

LEMMA ControlStep == ControlOK /\ WaitOK /\ [MotionNext]_allVars => ControlOK'
<1> SUFFICES ASSUME ControlOK, WaitOK, [MotionNext]_allVars PROVE ControlOK'
  OBVIOUS
<1> USE MoveRestTails DEF ControlOK
<1>1. CASE ReadFirst \/ BeginMotion
  BY <1>1 DEF ReadFirst, FirstRead, BeginMotion, EnableDone, captureVars
<1>2. CASE EndMotion \/ LeaveLoop
  BY <1>2 DEF EndMotion, LeaveLoop, LoopEnds, captureVars, vars
<1>3. CASE RampAction \/ LoopAction
  BY <1>3 DEF RampAction, LoopAction, ApplyBegins, captureVars, vars
<1>4. CASE MoveArm
  BY <1>4 DEF MoveArm, Raise, captureVars, vars
<1>5. CASE SkipGripper \/ WriteGripper \/ ApplyDone
  BY <1>5 DEF SkipGripper, WriteGripper, ApplyDone, captureVars, loopVars, vars
<1>6. CASE GripperWritten
  <2>1. writes # <<>>
    BY <1>6 DEF GripperWritten, WaitOK
  <2> QED
    BY <1>6, <2>1 DEF GripperWritten, Raise, captureVars, vars
<1>7. CASE CaptureBegins \/ ReadArm \/ ReadGripper \/ CaptureDone
  BY <1>7 DEF CaptureBegins, ReadArm, ReadGripper, CaptureDone, CaptureFails, loopVars, vars
<1>8. CASE GripperRead
  BY <1>8 DEF GripperRead, WaitOK, CaptureFails, loopVars, vars
<1>9. CASE Life /\ UNCHANGED motionVars
  <2>1. pc # "run"
    BY <1>9 DEF Life, Reset, PolicyFails, Connect, Rollback, EnableArm, Revoke, Close,
       Disable, CloseDevice, RunAgain
  <2> QED
    BY <1>9, <2>1 DEF motionVars, loopVars, captureVars
<1>10. CASE UNCHANGED allVars
  BY <1>10 DEF allVars, vars, motionVars, loopVars, captureVars
<1> QED
  BY <1>1, <1>2, <1>3, <1>4, <1>5, <1>6, <1>7, <1>8, <1>9, <1>10 DEF MotionNext, Motion

LEMMA Names ==
  /\ None \notin Grippers /\ Arms \cap Grippers = {}
  /\ Threads = {"loop", "capture"} /\ "loop" # "capture"
  /\ Movers = Arms \cup Grippers
  BY MotionAssumption, DeviceSets DEF MotionAssumption, Grippers, Arms, Threads, Movers

LEMMA WaitStep == ControlOK /\ WaitOK /\ [MotionNext]_allVars => WaitOK'
<1> SUFFICES ASSUME ControlOK, WaitOK, [MotionNext]_allVars PROVE WaitOK'
  OBVIOUS
<1> USE Names DEF WaitOK
<1>1. CASE ReadFirst
  BY <1>1 DEF ReadFirst, FirstRead, captureVars, ControlOK
<1>2. CASE BeginMotion
  BY <1>2 DEF BeginMotion, EnableDone, captureVars, lineVars, ControlOK
<1>3. CASE EndMotion
  BY <1>3 DEF EndMotion
<1>4. CASE LeaveLoop \/ RampAction \/ LoopAction
  BY <1>4 DEF LeaveLoop, RampAction, LoopAction, captureVars, lineVars
<1>5. CASE MoveArm \/ SkipGripper
  BY <1>5 DEF MoveArm, Raise, SkipGripper, captureVars, lineVars
<1>6. CASE WriteGripper
  BY <1>6 DEF WriteGripper, Request, loopVars, captureVars
<1>7. CASE GripperWritten
  <2>1. waits' = [waits EXCEPT !["loop"] = None]
    BY <1>7 DEF GripperWritten, TakeReply, ReplyLate
  <2> QED
    BY <1>7, <2>1 DEF GripperWritten, captureVars
<1>8. CASE ApplyDone
  BY <1>8 DEF ApplyDone, captureVars, lineVars
<1>9. CASE CaptureBegins \/ ReadArm \/ CaptureDone
  BY <1>9 DEF CaptureBegins, ReadArm, CaptureFails, CaptureDone, loopVars, lineVars
<1>10. CASE ReadGripper
  BY <1>10 DEF ReadGripper, Request, loopVars
<1>11. CASE GripperRead
  <2>1. waits' = [waits EXCEPT !["capture"] = None]
    BY <1>11 DEF GripperRead, TakeReply, ReplyLate
  <2> QED
    BY <1>11, <2>1 DEF GripperRead, loopVars
<1>12. CASE UNCHANGED motionVars
  BY <1>12 DEF motionVars, loopVars, captureVars, lineVars
<1> QED
  BY <1>1, <1>2, <1>3, <1>4, <1>5, <1>6, <1>7, <1>8, <1>9, <1>10, <1>11, <1>12
     DEF MotionNext, Motion, allVars

LEMMA TypesHold == MotionSpec => [](DataOK /\ ControlOK /\ WaitOK)
  BY TypesInit, DataStep, ControlStep, WaitStep, PTL DEF MotionSpec

-----------------------------------------------------------------------------
(* The serial lines.                                                        *)

\* At most one thread waits for a gripper, and unless a reply came late the line
\* holds the reply to that thread and nothing else.
LineInv ==
  /\ waits["loop"] # None => waits["loop"] # waits["capture"]
  /\ replies \in [Grippers -> Seq(Threads)] /\ late \subseteq Grippers
  /\ \A t \in Threads : waits[t] # None => replies[waits[t]] # <<>>
  /\ \A g \in Grippers \ late :
       /\ \A t \in Threads : waits[t] = g => replies[g] = <<t>>
       /\ (\A t \in Threads : waits[t] # g) => replies[g] = <<>>

LEMMA LineStep == ControlOK /\ WaitOK /\ LineInv /\ [MotionNext]_allVars => LineInv'
<1> SUFFICES ASSUME ControlOK, WaitOK, LineInv, [MotionNext]_allVars PROVE LineInv'
  OBVIOUS
<1> USE Names DEF LineInv
<1>1. CASE ReadFirst
  <2>1. waits' = waits /\ waits["loop"] = None /\ waits["capture"] = None
    BY <1>1 DEF ReadFirst, FirstRead, ControlOK, WaitOK
  <2> QED
    BY <1>1, <2>1 DEF ReadFirst
<1>2. CASE EndMotion
  <2>1. waits["loop"] = None
    BY <1>2 DEF EndMotion, WaitOK
  <2>2. waits' = waits
    BY <1>2, <2>1 DEF EndMotion, WaitOK
  <2> QED
    BY <1>2, <2>2 DEF EndMotion
<1>3. CASE UNCHANGED lineVars
  BY <1>3 DEF lineVars
<1>4. ASSUME NEW t \in Threads, NEW g \in Grippers, waits[t] = None, Request(t, g)
      PROVE  LineInv'
  <2>1. /\ \A u \in Threads : waits[u] # g
        /\ waits' = [waits EXCEPT ![t] = g] /\ late' = late
        /\ replies' = [replies EXCEPT ![g] = Append(@, t)]
    BY <1>4 DEF Request
  <2>2. g \notin late => replies'[g] = <<t>>
    <3>1. g \notin late => replies[g] = <<>>
      BY <2>1
    <3> QED
      BY <2>1, <3>1
  <2>3. replies' \in [Grippers -> Seq(Threads)]
    BY <2>1
  <2>4. waits'[t] = g /\ \A u \in Threads \ {t} : waits'[u] = waits[u] /\ waits'[u] # g
    BY <2>1 DEF WaitOK
  <2>5. \A h \in Grippers \ {g} : replies'[h] = replies[h]
    BY <2>1
  <2> QED
    BY <1>4, <2>1, <2>2, <2>3, <2>4, <2>5
<1>5. ASSUME NEW t \in Threads, waits[t] # None, TakeReply(t) \/ ReplyLate(t)
      PROVE  LineInv'
  <2>1. waits[t] \in Grippers /\ waits' = [waits EXCEPT ![t] = None]
    BY <1>5 DEF TakeReply, ReplyLate, WaitOK
  <2>2. waits'[t] = None /\ \A u \in Threads \ {t} : waits'[u] = waits[u] /\ waits[u] # waits[t]
    BY <1>5, <2>1 DEF WaitOK
  <2>3. CASE TakeReply(t)
    <3>1. late' = late /\ replies' = [replies EXCEPT ![waits[t]] = Tail(@)]
      BY <2>3 DEF TakeReply
    <3>2. waits[t] \notin late => replies'[waits[t]] = <<>>
      <4>1. waits[t] \notin late => replies[waits[t]] = <<t>>
        BY <2>1
      <4>2. Tail(<<t>>) = <<>>
        OBVIOUS
      <4> QED
        BY <2>1, <3>1, <4>1, <4>2
    <3>3. replies[waits[t]] \in Seq(Threads) /\ replies[waits[t]] # <<>>
      BY <1>5, <2>1
    <3>4. Tail(replies[waits[t]]) \in Seq(Threads)
      BY <3>3, HeadTailProperties
    <3>5. /\ replies' \in [Grippers -> Seq(Threads)] /\ late' \subseteq Grippers
          /\ \A h \in Grippers \ {waits[t]} : replies'[h] = replies[h]
      BY <2>1, <3>1, <3>4
    <3>6. \A g \in Grippers \ late' :
            /\ \A u \in Threads : waits'[u] = g => replies'[g] = <<u>>
            /\ (\A u \in Threads : waits'[u] # g) => replies'[g] = <<>>
      BY <2>1, <2>2, <3>1, <3>2, <3>5
    <3>7. \A u \in Threads : waits'[u] # None => replies'[waits'[u]] # <<>>
      <4>1. \A u \in Threads \ {t} : waits'[u] # None => waits[u] \in Grippers \ {waits[t]}
        BY <2>2 DEF WaitOK
      <4> QED
        BY <2>2, <3>5, <4>1
    <3> QED
      BY <2>2, <3>5, <3>6, <3>7
  <2>4. CASE ReplyLate(t)
    BY <2>1, <2>2, <2>4 DEF ReplyLate
  <2> QED
    BY <1>5, <2>3, <2>4
<1>6. CASE WriteGripper
  BY <1>4, <1>6 DEF WriteGripper
<1>7. CASE ReadGripper
  BY <1>4, <1>7 DEF ReadGripper
<1>8. CASE GripperWritten
  BY <1>5, <1>8 DEF GripperWritten
<1>9. CASE GripperRead
  BY <1>5, <1>9 DEF GripperRead
<1> QED
  BY <1>1, <1>2, <1>3, <1>6, <1>7, <1>8, <1>9
     DEF MotionNext, Motion, allVars, motionVars, BeginMotion, LeaveLoop, RampAction, LoopAction,
         MoveArm, SkipGripper, ApplyDone, CaptureBegins, ReadArm, CaptureDone

LEMMA LineHolds == MotionSpec => [](ControlOK /\ WaitOK /\ LineInv)
<1>1. MotionInit => LineInv
  BY Names DEF MotionInit, LineInv
<1> QED
  BY <1>1, LineStep, TypesHold, PTL DEF MotionSpec

\* As long as no reply comes late, no thread takes the other's.
THEOREM NoStolenReplyHolds == MotionSpec => []NoStolenReply
<1>1. WaitOK /\ LineInv => NoStolenReply
  BY Names DEF WaitOK, LineInv, NoStolenReply
<1> QED
  BY <1>1, LineHolds, PTL

-----------------------------------------------------------------------------
(* The arms.                                                                *)

\* Between two actions an arm was told to be where _last_state says; during one it is
\* there as long as its write is to come, and at the limited position afterwards.
ArmInv ==
  /\ \A a \in Arms : at[a] \in JointMin..JointMax /\ base[a] \in JointMin..JointMax
  /\ pc = "enable" \/ step \in {"ramp", "loop"} => \A a \in Arms : at[a] = base[a]
  /\ step = "apply" =>
       /\ \A a \in Arms : limited[a] \in JointMin..JointMax
                          /\ Distance(base[a], limited[a]) <= MaxJointDelta
       /\ at["left_arm"] = IF writes = MoveOrder THEN base["left_arm"] ELSE limited["left_arm"]
       /\ at["right_arm"] = IF writes \in {MoveOrder, RightRest} THEN base["right_arm"]
                            ELSE limited["right_arm"]

ArmBound == \A a \in Arms : Distance(at[a], at'[a]) <= MaxJointDelta

LEMMA StillIsBounded ==
  ASSUME DataOK, at' = at
  PROVE  ArmBound
  BY LimitsAssumption, Names DEF LimitsAssumption, DataOK, ArmBound, Distance

\* The two lists that begin with an arm.
LEMMA ArmRests ==
  ASSUME NEW s \in MoveRests
  PROVE  /\ (s # <<>> /\ Head(s) \in Arms) =>
              \/ s = MoveOrder /\ Head(s) = "left_arm" /\ Tail(s) = RightRest
              \/ /\ s = RightRest /\ Head(s) = "right_arm"
                 /\ Tail(s) \notin {MoveOrder, RightRest}
         /\ (s # <<>> /\ Head(s) \in Grippers) =>
              s \notin {MoveOrder, RightRest} /\ Tail(s) \notin {MoveOrder, RightRest}
         /\ MoveOrder # RightRest /\ <<>> \notin {MoveOrder, RightRest}
<1>1. CASE s \in {MoveOrder, RightRest}
  BY <1>1, RestsDiffer, MoveRestSteps DEF Arms, Grippers, NoRest
<1>2. CASE s \in {LeftRest, LastRest, NoRest}
  BY <1>2, RestsDiffer, MoveRestSteps DEF Arms, Grippers, NoRest
<1> QED
  BY <1>1, <1>2 DEF MoveRests

\* The bounds of the limited action hold for both ways in which an action begins.
LEMMA ApplyStep ==
  ASSUME DataOK, ArmInv, step \in {"ramp", "loop"}, NEW action \in [Movers -> Int],
         ApplyBegins(action), at' = at, base' = base, pc' = pc, pc # "enable"
  PROVE  ArmInv'
<1>1. /\ limited' = Limit(action) /\ writes' = MoveOrder /\ step' = "apply"
  BY DEF ApplyBegins
<1>2. \A a \in Arms : limited'[a] = LimitJoint(action[a], base[a])
  BY <1>1, Names DEF Limit
<1>3. \A a \in Arms : /\ limited'[a] \in JointMin..JointMax
                      /\ Distance(base[a], limited'[a]) <= MaxJointDelta
  <2>1. \A a \in Arms : action[a] \in Int /\ base[a] \in JointMin..JointMax
    BY Names DEF ArmInv
  <2> QED
    BY <1>2, <2>1, LimitJointBounds
<1> QED
  BY <1>1, <1>3 DEF ArmInv, Arms

LEMMA ArmStep ==
  ASSUME DataOK, ControlOK, WaitOK, ArmInv, [MotionNext]_allVars
  PROVE  ArmInv' /\ ArmBound
<1> USE Names
<1>1. CASE ReadFirst
  <2>1. step = "off" /\ step' = "off"
    BY <1>1 DEF ReadFirst, FirstRead, ControlOK
  <2> QED
    BY <1>1, <2>1, StillIsBounded DEF ReadFirst, ArmInv
<1>2. CASE BeginMotion
  BY <1>2, StillIsBounded DEF BeginMotion, EnableDone, ArmInv
<1>3. CASE EndMotion \/ LeaveLoop
  BY <1>3, StillIsBounded DEF EndMotion, LeaveLoop, LoopEnds, ArmInv, vars
<1>4. CASE RampAction
  BY <1>4, RampActionInt, ApplyStep, StillIsBounded DEF RampAction, ControlOK, vars
<1>5. CASE LoopAction
  <2>1. PICK j \in JointTargets, g \in GripperTargets :
          LET wanted == [d \in Movers |-> IF d \in Arms THEN j ELSE g]
          IN ApplyBegins(IF sentOnce THEN [d \in Movers |-> RateLimit(wanted[d], base[d])]
                         ELSE wanted)
    BY <1>5 DEF LoopAction
  <2> DEFINE wanted == [d \in Movers |-> IF d \in Arms THEN j ELSE g]
             sent == IF sentOnce THEN [d \in Movers |-> RateLimit(wanted[d], base[d])]
                     ELSE wanted
  <2>2. wanted \in [Movers -> Int]
    BY MotionAssumption DEF MotionAssumption
  <2>3. sent \in [Movers -> Int]
    <3>1. \A d \in Movers : RateLimit(wanted[d], base[d]) \in Int
      BY <2>2, RateLimitInt DEF DataOK
    <3> QED
      BY <2>2, <3>1
  <2>4. ApplyBegins(sent)
    BY <2>1
  <2> HIDE DEF sent
  <2> QED
    BY <1>5, <2>3, <2>4, ApplyStep, StillIsBounded DEF LoopAction, ControlOK, vars
<1>6. CASE MoveArm
  <2>1. PICK a \in Arms : /\ a = Head(writes)
                          /\ at' \in {at, [at EXCEPT ![a] = limited[a]]}
    BY <1>6 DEF MoveArm
  <2>2. Distance(base[a], limited[a]) <= MaxJointDelta /\ at[a] = base[a]
    BY <1>6, <2>1, ArmRests DEF MoveArm, ArmInv, ControlOK
  <2>3. ArmBound
    BY <2>1, <2>2, LimitsAssumption
       DEF LimitsAssumption, ArmBound, DataOK, Distance
  <2>4. CASE step' = "leave"
    <3>1. \A b \in Arms : at'[b] \in JointMin..JointMax
      BY <1>6, <2>1 DEF MoveArm, ArmInv, DataOK
    <3>2. pc' = pc /\ pc # "enable" /\ base' = base
      BY <1>6 DEF MoveArm, Raise, ControlOK, vars
    <3> QED
      BY <2>3, <2>4, <3>1, <3>2 DEF ArmInv
  <2>5. CASE step' # "leave"
    <3>1. /\ at' = [at EXCEPT ![a] = limited[a]] /\ writes' = Tail(writes)
          /\ step = "apply" /\ step' = "apply" /\ limited' = limited /\ base' = base
          /\ pc' = pc /\ pc # "enable"
      BY <1>6, <2>1, <2>5 DEF MoveArm, Raise, ControlOK, vars
    <3>2. CASE a = "left_arm"
      <4>1. writes = MoveOrder /\ writes' = RightRest /\ MoveOrder # RightRest
        BY <1>6, <2>1, <3>1, <3>2, ArmRests DEF MoveArm, ControlOK
      <4> QED
        BY <2>3, <3>1, <3>2, <4>1 DEF ArmInv, DataOK, Arms
    <3>3. CASE a = "right_arm"
      <4>1. writes = RightRest /\ writes' \notin {MoveOrder, RightRest} /\ MoveOrder # RightRest
        BY <1>6, <2>1, <3>1, <3>3, ArmRests DEF MoveArm, ControlOK
      <4> QED
        BY <2>3, <3>1, <3>3, <4>1 DEF ArmInv, DataOK, Arms
    <3> QED
      BY <3>2, <3>3 DEF Arms
  <2> QED
    BY <2>4, <2>5
<1>7. CASE SkipGripper
  BY <1>7, ArmRests, StillIsBounded DEF SkipGripper, ArmInv, ControlOK, vars
<1>8. CASE WriteGripper
  <2>1. \A a \in Arms : at'[a] = at[a]
    BY <1>8 DEF WriteGripper, DataOK
  <2>2. ArmBound
    BY <2>1, LimitsAssumption DEF LimitsAssumption, ArmBound, DataOK, Distance
  <2> QED
    BY <1>8, <2>1, <2>2 DEF WriteGripper, loopVars, ArmInv, vars, Arms
<1>9. CASE GripperWritten
  <2>1. writes # <<>> /\ Head(writes) \in Grippers
    BY <1>9 DEF GripperWritten, WaitOK
  <2>2. /\ at' = at /\ base' = base /\ pc' = pc /\ pc # "enable"
        /\ \/ step' = "leave"
           \/ step' = "apply" /\ limited' = limited /\ writes' = Tail(writes)
    BY <1>9 DEF GripperWritten, Raise, ControlOK, vars
  <2> QED
    BY <1>9, <2>1, <2>2, ArmRests, StillIsBounded DEF GripperWritten, ArmInv, ControlOK
<1>10. CASE ApplyDone
  <2>1. \A a \in Arms : at[a] = limited[a]
    BY <1>10, ArmRests DEF ApplyDone, ArmInv, ControlOK, Arms
  <2> QED
    BY <1>10, <2>1, StillIsBounded DEF ApplyDone, ArmInv
<1>11. CASE CaptureBegins \/ ReadArm \/ ReadGripper \/ GripperRead \/ CaptureDone
  BY <1>11, StillIsBounded
     DEF CaptureBegins, ReadArm, ReadGripper, GripperRead, CaptureDone, ArmInv, loopVars, vars
<1>12. CASE Life /\ UNCHANGED motionVars
  <2>1. pc # "run" /\ (pc' = "enable" => pc = "enable")
    BY <1>12 DEF Life, Reset, PolicyFails, Connect, Rollback, EnableArm, Revoke, Close,
       Disable, CloseDevice, RunAgain
  <2> QED
    BY <1>12, <2>1, StillIsBounded DEF motionVars, loopVars, ArmInv
<1>13. CASE UNCHANGED allVars
  BY <1>13, StillIsBounded DEF allVars, vars, motionVars, loopVars, ArmInv
<1> QED
  BY <1>1, <1>2, <1>3, <1>4, <1>5, <1>6, <1>7, <1>8, <1>9, <1>10, <1>11, <1>12, <1>13
     DEF MotionNext, Motion

LEMMA ArmHolds ==
  MotionSpec => /\ [](DataOK /\ ControlOK /\ WaitOK /\ ArmInv)
                /\ [][ArmBound]_allVars
<1>1. MotionInit => ArmInv
  BY MotionAssumption, Names DEF MotionAssumption, MotionInit, Init, ArmInv
<1>2. DataOK /\ ControlOK /\ WaitOK /\ ArmInv /\ [MotionNext]_allVars
        => ArmInv' /\ [ArmBound]_allVars
  BY ArmStep
<1> QED
  BY <1>1, <1>2, TypesHold, PTL DEF MotionSpec

\* No arm is ever told to go farther than the largest step from where it was told to
\* be before, whichever calls fail, in every run with the same environment.
THEOREM StepBoundedHolds == MotionSpec => StepBounded
  BY ArmHolds, PTL DEF StepBounded, ArmBound

-----------------------------------------------------------------------------
(* The grippers.                                                            *)

InLimits(d, x) ==
  IF d \in Arms THEN x \in JointMin..JointMax ELSE x \in GripperMin..GripperMax

\* The write to this gripper was begun or skipped.
Handled(g) ==
  \/ waits["loop"] = g \/ writes = NoRest
  \/ g = "left_gripper" /\ writes = LastRest

\* What the program believes of a gripper is no farther from where the gripper was told
\* to be than the writes skipped since the last one allow: between two actions that is
\* _last_state, and during one the limited position once its write was begun or skipped.
DriftInv ==
  /\ \A g \in Grippers : InLimits(g, at[g]) /\ InLimits(g, base[g])
  /\ pc = "enable" \/ step \in {"ramp", "loop"} =>
       \A g \in Grippers : Distance(at[g], base[g]) <= slack[g]
  /\ step = "apply" =>
       \A g \in Grippers :
         /\ InLimits(g, limited[g]) /\ Distance(base[g], limited[g]) <= MaxGripperDelta
         /\ Distance(at[g], IF Handled(g) THEN limited[g] ELSE base[g]) <= slack[g]

GripBound == \A g \in Grippers : Distance(at[g], at'[g]) <= MaxGripperDelta + slack[g]

LEMMA StillGrippers ==
  ASSUME DataOK, \A g \in Grippers : at'[g] = at[g]
  PROVE  GripBound
  BY LimitsAssumption, Names DEF LimitsAssumption, DataOK, GripBound, Distance

LEMMA GripperRests ==
  ASSUME NEW s \in MoveRests, s # <<>>
  PROVE  /\ Head(s) = "left_gripper" => s \notin {LastRest, NoRest} /\ Tail(s) = LastRest
         /\ Head(s) = "right_gripper" => s = LastRest /\ Tail(s) = NoRest
         /\ Head(s) \in Arms =>
              s \notin {LastRest, NoRest} /\ Tail(s) \notin {LastRest, NoRest}
<1>1. CASE s \in {MoveOrder, RightRest}
  BY <1>1, RestsDiffer, MoveRestSteps DEF Arms
<1>2. CASE s \in {LeftRest, LastRest}
  BY <1>2, RestsDiffer, MoveRestSteps DEF Arms
<1> QED
  BY <1>1, <1>2 DEF MoveRests, NoRest

\* Going on to the next device handles the one whose turn it was, and no other.
LEMMA HandledNext ==
  ASSUME WaitOK, writes \in MoveRests, writes # <<>>, writes' = Tail(writes),
         waits'["loop"] = None, waits["loop"] \in {None, Head(writes)}
  PROVE  \A g \in Grippers : Handled(g)' <=> Handled(g) \/ g = Head(writes)
<1>1. Grippers = {"left_gripper", "right_gripper"} /\ Head(writes) \in Movers
  BY MoveRestTails DEF Grippers
<1> QED
  BY <1>1, GripperRests, RestsDiffer, Names DEF Handled, Movers

LEMMA TurnIsOpen ==
  ASSUME WaitOK, writes \in MoveRests, writes # <<>>, Head(writes) \in Grippers,
         waits["loop"] = None
  PROVE  ~Handled(Head(writes))
<1>1. Head(writes) \in {"left_gripper", "right_gripper"}
  BY DEF Grippers
<1> QED
  BY <1>1, GripperRests, RestsDiffer, Names DEF Handled

LEMMA LimitedGripper ==
  ASSUME DataOK, NEW action \in [Movers -> Int],
         NEW g \in Grippers, InLimits(g, base[g])
  PROVE  /\ InLimits(g, Limit(action)[g])
         /\ Distance(base[g], Limit(action)[g]) <= MaxGripperDelta
<1>1. /\ g \in Movers /\ g \notin Arms /\ action[g] \in Int
      /\ base[g] \in GripperMin..GripperMax
  BY Names DEF InLimits
<1>2. Limit(action)[g] = LimitGripper(action[g], base[g])
  BY <1>1 DEF Limit
<1> QED
  BY <1>1, <1>2, LimitGripperBounds DEF InLimits

\* The first position of every gripper in an action is the one before it.
LEMMA ApplyGrippers ==
  ASSUME DataOK, WaitOK, DriftInv, step \in {"ramp", "loop"}, NEW action \in [Movers -> Int],
         ApplyBegins(action), UNCHANGED <<at, slack, base, waits, pc>>, pc # "enable"
  PROVE  DriftInv'
<1>1. /\ limited' = Limit(action) /\ writes' = MoveOrder /\ step' = "apply"
  BY DEF ApplyBegins
<1>2. \A g \in Grippers : ~Handled(g)'
  <2>1. waits'["loop"] = None /\ MoveOrder \notin {LastRest, NoRest}
    BY RestsDiffer DEF WaitOK
  <2> QED
    BY <1>1, <2>1, Names DEF Handled
<1>3. \A g \in Grippers : /\ InLimits(g, limited'[g])
                           /\ Distance(base[g], limited'[g]) <= MaxGripperDelta
  BY <1>1, LimitedGripper DEF DriftInv
<1> QED
  BY <1>1, <1>2, <1>3 DEF DriftInv

LEMMA DriftStep ==
  ASSUME DataOK, ControlOK, WaitOK, DriftInv, [MotionNext]_allVars
  PROVE  DriftInv' /\ GripBound
<1> USE Names
<1>1. CASE ReadFirst
  <2>1. /\ step = "off" /\ step' = "off" /\ at' = at /\ base' = at
        /\ slack' = [g \in Grippers |-> 0]
    BY <1>1 DEF ReadFirst, FirstRead, ControlOK
  <2>2. \A g \in Grippers : Distance(at[g], at[g]) <= 0
    BY DEF DataOK, Distance
  <2> QED
    BY <2>1, <2>2, StillGrippers DEF DriftInv
<1>2. CASE BeginMotion
  BY <1>2, StillGrippers DEF BeginMotion, EnableDone, DriftInv
<1>3. CASE EndMotion \/ LeaveLoop
  BY <1>3, StillGrippers DEF EndMotion, LeaveLoop, LoopEnds, DriftInv, vars
<1>4. CASE RampAction
  BY <1>4, RampActionInt, ApplyGrippers, StillGrippers
     DEF RampAction, ControlOK, vars, lineVars
<1>5. CASE LoopAction
  <2>1. PICK j \in JointTargets, h \in GripperTargets :
          LET wanted == [d \in Movers |-> IF d \in Arms THEN j ELSE h]
          IN ApplyBegins(IF sentOnce THEN [d \in Movers |-> RateLimit(wanted[d], base[d])]
                         ELSE wanted)
    BY <1>5 DEF LoopAction
  <2> DEFINE wanted == [d \in Movers |-> IF d \in Arms THEN j ELSE h]
             sent == IF sentOnce THEN [d \in Movers |-> RateLimit(wanted[d], base[d])]
                     ELSE wanted
  <2>2. wanted \in [Movers -> Int]
    BY MotionAssumption DEF MotionAssumption
  <2>3. sent \in [Movers -> Int]
    <3>1. \A d \in Movers : RateLimit(wanted[d], base[d]) \in Int
      BY <2>2, RateLimitInt DEF DataOK
    <3> QED
      BY <2>2, <3>1
  <2>4. ApplyBegins(sent)
    BY <2>1
  <2> HIDE DEF sent
  <2> QED
    BY <1>5, <2>3, <2>4, ApplyGrippers, StillGrippers DEF LoopAction, ControlOK, vars, lineVars
<1>6. CASE MoveArm
  <2>1. /\ \A g \in Grippers : at'[g] = at[g]
        /\ UNCHANGED <<slack, base, pc, waits>> /\ pc # "enable"
    BY <1>6 DEF MoveArm, Raise, ControlOK, vars, lineVars, DataOK
  <2>2. CASE step' = "leave"
    BY <2>1, <2>2, StillGrippers DEF DriftInv
  <2>3. CASE step' # "leave"
    <3>1. /\ step = "apply" /\ step' = "apply" /\ limited' = limited
          /\ writes' = Tail(writes) /\ writes # <<>> /\ Head(writes) \in Arms
      BY <1>6, <2>3 DEF MoveArm, Raise
    <3>2. \A g \in Grippers : Handled(g)' <=> Handled(g)
      <4>1. waits["loop"] = None
        BY <3>1 DEF WaitOK
      <4> QED
        BY <2>1, <3>1, <4>1, HandledNext DEF ControlOK
    <3> QED
      BY <2>1, <3>1, <3>2, StillGrippers DEF DriftInv
  <2> QED
    BY <2>2, <2>3
<1>7. CASE SkipGripper
  <2> DEFINE h == Head(writes)
  <2>1. /\ step = "apply" /\ writes # <<>> /\ h \in Grippers
        /\ ~WritesGripper(limited[h], base[h]) /\ waits["loop"] = None
        /\ writes' = Tail(writes) /\ slack' = [slack EXCEPT ![h] = Slacken(@)]
        /\ UNCHANGED <<at, base, limited, step, pc, waits>> /\ pc # "enable"
    BY <1>7 DEF SkipGripper, ControlOK, vars, lineVars
  <2>2. \A g \in Grippers : Handled(g)' <=> Handled(g) \/ g = h
    BY <2>1, HandledNext DEF ControlOK
  <2>3. ~Handled(h)
    BY <2>1, TurnIsOpen DEF ControlOK
  <2>4. Distance(at[h], limited[h]) <= slack'[h]
    <3>1. /\ at[h] \in GripperMin..GripperMax /\ base[h] \in GripperMin..GripperMax
          /\ limited[h] \in GripperMin..GripperMax /\ Distance(at[h], base[h]) <= slack[h]
      BY <2>1, <2>3 DEF DriftInv, InLimits
    <3>2. slack[h] \in Nat /\ slack'[h] = Slacken(slack[h])
      BY <2>1 DEF DataOK
    <3> HIDE DEF h
    <3> QED
      BY <2>1, <3>1, <3>2, SlackenKeeps
  <2>5. \A g \in Grippers \ {h} : slack'[g] = slack[g]
    BY <2>1 DEF DataOK
  <2> HIDE DEF h
  <2> QED
    BY <2>1, <2>2, <2>4, <2>5, StillGrippers DEF DriftInv
<1>8. CASE WriteGripper
  <2> DEFINE h == Head(writes)
  <2>1. /\ step = "apply" /\ writes # <<>> /\ h \in Grippers
        /\ waits["loop"] = None /\ waits' = [waits EXCEPT !["loop"] = h]
        /\ at' = [at EXCEPT ![h] = limited[h]] /\ slack' = [slack EXCEPT ![h] = 0]
        /\ UNCHANGED <<base, limited, writes, step, pc>> /\ pc # "enable"
    BY <1>8 DEF WriteGripper, Request, ControlOK, vars, loopVars
  <2>2. at'[h] = limited[h] /\ slack'[h] = 0 /\ waits'["loop"] = h
    BY <2>1 DEF DataOK, WaitOK
  <2>3. \A g \in Grippers \ {h} : at'[g] = at[g] /\ slack'[g] = slack[g]
    BY <2>1 DEF DataOK
  <2>4. Handled(h)' /\ \A g \in Grippers \ {h} : Handled(g)' <=> Handled(g)
    BY <2>1, <2>2 DEF Handled
  <2>5. ~Handled(h)
    BY <2>1, TurnIsOpen DEF ControlOK
  <2>6. /\ at[h] \in Int /\ base[h] \in Int /\ limited[h] \in Int
        /\ \A g \in Grippers : at[g] \in Int /\ slack[g] \in Nat
        /\ MaxGripperDelta \in Nat
    BY <2>1, LimitsAssumption DEF LimitsAssumption, DataOK
  <2>7. /\ Distance(at[h], base[h]) <= slack[h] /\ Distance(base[h], limited[h]) <= MaxGripperDelta
        /\ InLimits(h, limited[h])
    BY <2>1, <2>5 DEF DriftInv
  <2> HIDE DEF h
  <2>8. GripBound
    <3>1. Distance(at[h], at'[h]) <= MaxGripperDelta + slack[h]
      <4>1. Distance(at[h], limited[h]) <= Distance(at[h], base[h]) + Distance(base[h], limited[h])
        BY <2>6, Triangle
      <4>2. /\ Distance(at[h], limited[h]) \in Int /\ Distance(at[h], base[h]) \in Int
            /\ Distance(base[h], limited[h]) \in Int /\ slack[h] \in Int
        <5>1. \A x \in Int, y \in Int : Distance(x, y) \in Int
          BY DEF Distance
        <5>2. slack[h] \in Int
          BY <2>1, <2>6
        <5> QED
          BY <2>6, <5>1, <5>2
      <4>3. Distance(at[h], limited[h]) <= MaxGripperDelta + slack[h]
        BY <2>6, <2>7, <4>1, <4>2
      <4> QED
        BY <2>2, <4>3
    <3>2. \A g \in Grippers \ {h} : Distance(at[g], at'[g]) <= MaxGripperDelta + slack[g]
      BY <2>3, <2>6 DEF Distance
    <3> QED
      BY <3>1, <3>2 DEF GripBound
  <2>9. Distance(at'[h], limited[h]) <= slack'[h]
    BY <2>2, <2>6 DEF Distance
  <2>10. \A g \in Grippers : InLimits(g, at'[g])
    BY <2>1, <2>2, <2>3, <2>7 DEF DriftInv
  <2>11. \A g \in Grippers :
           Distance(at'[g], IF Handled(g)' THEN limited[g] ELSE base[g]) <= slack'[g]
    <3>1. \A g \in Grippers \ {h} :
            Distance(at[g], IF Handled(g) THEN limited[g] ELSE base[g]) <= slack[g]
      BY <2>1 DEF DriftInv
    <3>2. \A g \in Grippers \ {h} :
            Distance(at'[g], IF Handled(g)' THEN limited[g] ELSE base[g]) <= slack'[g]
      BY <2>3, <2>4, <3>1
    <3>3. \A g \in Grippers : g = h => Distance(at'[g], limited[g]) <= slack'[g]
      BY <2>9
    <3>4. ASSUME NEW g \in Grippers
          PROVE  Distance(at'[g], IF Handled(g)' THEN limited[g] ELSE base[g]) <= slack'[g]
      <4>1. CASE g = h
        <5>1. Handled(g)'
          BY <2>1, <2>2, <4>1 DEF Handled
        <5> QED
          BY <3>3, <4>1, <5>1
      <4>2. CASE g # h
        BY <3>2, <4>2
      <4> QED
        BY <4>1, <4>2
    <3> QED
      BY <3>4
  <2> QED
    BY <2>1, <2>8, <2>10, <2>11 DEF DriftInv
<1>9. CASE GripperWritten
  <2>1. /\ writes # <<>> /\ waits["loop"] = Head(writes) /\ Head(writes) \in Grippers
        /\ waits' = [waits EXCEPT !["loop"] = None]
    BY <1>9 DEF GripperWritten, WaitOK, TakeReply, ReplyLate
  <2>2. /\ UNCHANGED <<at, slack, base, pc>> /\ pc # "enable"
        /\ \/ step' = "leave"
           \/ step' = "apply" /\ limited' = limited /\ writes' = Tail(writes)
    BY <1>9 DEF GripperWritten, Raise, ControlOK, vars
  <2>3. CASE step' = "leave"
    BY <2>2, <2>3, StillGrippers DEF DriftInv
  <2>4. CASE step' = "apply" /\ limited' = limited /\ writes' = Tail(writes)
    <3>1. waits'["loop"] = None /\ step = "apply"
      BY <1>9, <2>1 DEF GripperWritten, WaitOK
    <3>2. \A g \in Grippers : Handled(g)' <=> Handled(g)
      <4>1. Handled(Head(writes))
        BY <2>1 DEF Handled
      <4> QED
        BY <2>1, <2>4, <3>1, <4>1, HandledNext DEF ControlOK
    <3> QED
      BY <2>2, <2>4, <3>1, <3>2, StillGrippers DEF DriftInv
  <2> QED
    BY <2>2, <2>3, <2>4
<1>10. CASE ApplyDone
  <2>1. /\ step = "apply" /\ writes = NoRest /\ base' = limited /\ UNCHANGED <<at, slack, pc>>
        /\ pc # "enable" /\ step' \in {"ramp", "loop"}
    BY <1>10 DEF ApplyDone, ControlOK, vars, NoRest
  <2>2. \A g \in Grippers : Handled(g)
    BY <2>1 DEF Handled
  <2> QED
    BY <2>1, <2>2, StillGrippers DEF DriftInv
<1>11. CASE CaptureBegins \/ ReadArm \/ ReadGripper \/ GripperRead \/ CaptureDone
  <2>1. UNCHANGED <<at, slack, base, limited, step, writes, pc>>
    BY <1>11
       DEF CaptureBegins, ReadArm, ReadGripper, GripperRead, CaptureDone, loopVars, vars
  <2>2. waits'["loop"] = waits["loop"]
    BY <1>11
       DEF CaptureBegins, ReadArm, ReadGripper, GripperRead, CaptureDone, lineVars, Request,
           TakeReply, ReplyLate, WaitOK
  <2> QED
    BY <2>1, <2>2, StillGrippers DEF DriftInv, Handled
<1>12. CASE Life /\ UNCHANGED motionVars
  <2>1. pc # "run" /\ (pc' = "enable" => pc = "enable")
    BY <1>12 DEF Life, Reset, PolicyFails, Connect, Rollback, EnableArm, Revoke, Close,
       Disable, CloseDevice, RunAgain
  <2> QED
    BY <1>12, <2>1, StillGrippers DEF motionVars, loopVars, lineVars, DriftInv, Handled
<1>13. CASE UNCHANGED allVars
  BY <1>13, StillGrippers
     DEF allVars, vars, motionVars, loopVars, lineVars, DriftInv, Handled
<1> QED
  BY <1>1, <1>2, <1>3, <1>4, <1>5, <1>6, <1>7, <1>8, <1>9, <1>10, <1>11, <1>12, <1>13
     DEF MotionNext, Motion

LEMMA DriftHolds ==
  MotionSpec => /\ [](DataOK /\ ControlOK /\ WaitOK /\ DriftInv)
                /\ [][GripBound]_allVars
<1>1. MotionInit => DriftInv
  <2>1. MotionInit => \A g \in Grippers : at[g] = StartGripper /\ base[g] = StartGripper
    BY Names DEF MotionInit
  <2> QED
    BY <2>1, Names, MotionAssumption DEF MotionAssumption, MotionInit, Init, DriftInv, InLimits
<1>2. DataOK /\ ControlOK /\ WaitOK /\ DriftInv /\ [MotionNext]_allVars
        => DriftInv' /\ [GripBound]_allVars
  BY DriftStep
<1> QED
  BY <1>1, <1>2, TypesHold, PTL DEF MotionSpec

\* For every threshold: whichever calls fail and whatever the capture thread reads, a
\* write moves a gripper no farther than max_gripper_delta beyond what the writes
\* skipped since the last one may have left.
THEOREM GripperStepBoundedHolds == MotionSpec => GripperStepBounded
  BY DriftHolds, PTL DEF GripperStepBounded, GripBound

\* If every change is worth a write, nothing is left, and a gripper was told to be where
\* _last_state says.
LEMMA NoSlack ==
  ASSUME GripperThreshold <= 1
  PROVE  MotionSpec => [](slack = [g \in Grippers |-> 0])
<1>1. MotionInit => slack = [g \in Grippers |-> 0]
  BY DEF MotionInit
<1>2. slack = [g \in Grippers |-> 0] /\ [MotionNext]_allVars
        => (slack = [g \in Grippers |-> 0])'
  <2>1. Slacken(0) = 0
    BY LimitsAssumption DEF LimitsAssumption, Slacken, Least, Greatest
  <2> QED
    BY <2>1 DEF MotionNext, Motion, allVars, motionVars, ReadFirst, BeginMotion, EndMotion,
       LeaveLoop, RampAction, LoopAction, MoveArm, SkipGripper, WriteGripper, GripperWritten,
       ApplyDone, CaptureBegins, ReadArm, ReadGripper, GripperRead, CaptureDone
<1> QED
  BY <1>1, <1>2, PTL DEF MotionSpec

-----------------------------------------------------------------------------
(* The ramp to the pose.                                                    *)

LEMMA Divides ==
  ASSUME NEW x \in Int, NEW m \in Nat \ {0}
  PROVE  x \div m \in Int /\ m * (x \div m) <= x /\ x < m * (x \div m) + m
  OBVIOUS

LEMMA DividesExactly ==
  ASSUME NEW x \in Int, NEW m \in Nat \ {0}
  PROVE  (x * m) \div m = x
  OBVIOUS

LEMMA LessByFactor ==
  ASSUME NEW a \in Int, NEW b \in Int, NEW m \in Nat \ {0}, m * a < m * b + m
  PROVE  a <= b
  OBVIOUS

\* A part of a way, and one more part: neither beyond its end, nor farther than the
\* length of the way, divided by m and rounded up.
LEMMA PartOfWay ==
  ASSUME NEW way \in Nat, NEW m \in Nat \ {0}, NEW k \in 0..m
  PROVE  (way * k) \div m \in 0..way
<1> DEFINE q == (way * k) \div m
<1>1. way * k \in Int /\ q \in Int /\ m * q <= way * k /\ way * k < m * q + m
  BY Divides
<1>2. way * k <= m * way /\ 0 <= way * k
  OBVIOUS
<1> HIDE DEF q
<1>3. q <= way
  <2>1. m * q < m * way + m
    BY <1>1, <1>2
  <2> QED
    BY <1>1, <2>1, LessByFactor
<1>4. 0 <= q
  <2>1. m * 0 < m * q + m
    BY <1>1, <1>2
  <2> QED
    BY <1>1, <2>1, LessByFactor
<1> QED
  BY <1>1, <1>3, <1>4 DEF q

LEMMA PartOfWayBack ==
  ASSUME NEW way \in Nat, NEW m \in Nat \ {0}, NEW k \in 0..m
  PROVE  (-way * k) \div m \in -way..0
<1> DEFINE q == (-way * k) \div m
<1>1. -way * k \in Int /\ q \in Int /\ m * q <= -way * k /\ -way * k < m * q + m
  BY Divides
<1>2. m * (-way) <= -way * k /\ -way * k <= 0
  OBVIOUS
<1> HIDE DEF q
<1>3. q <= 0
  <2>1. m * q < m * 0 + m
    BY <1>1, <1>2
  <2> QED
    BY <1>1, <2>1, LessByFactor
<1>4. -way <= q
  <2>1. m * (-way) < m * q + m
    BY <1>1, <1>2
  <2> QED
    BY <1>1, <2>1, LessByFactor
<1> QED
  BY <1>1, <1>3, <1>4 DEF q

\* Two consecutive points are no farther apart than what m such distances add up to.
LEMMA Increment ==
  ASSUME NEW way \in Int, NEW m \in Nat \ {0}, NEW k \in Nat, NEW b \in Nat,
         way <= m * b, -(m * b) <= way
  PROVE  ((way * (k + 1)) \div m) - ((way * k) \div m) \in -b..b
<1> DEFINE p == (way * k) \div m
           q == (way * (k + 1)) \div m
<1>1. /\ way * k \in Int /\ p \in Int /\ m * p <= way * k /\ way * k < m * p + m
  BY Divides
<1>2. way * (k + 1) \in Int /\ q \in Int /\ m * q <= way * (k + 1) /\ way * (k + 1) < m * q + m
  BY Divides
<1>3. way * (k + 1) = way * k + way
  OBVIOUS
<1> HIDE DEF p, q
<1>4. q <= p + b
  <2>1. m * (p + b) = m * p + m * b
    BY <1>1
  <2>2. m * q < m * (p + b) + m
    BY <1>1, <1>2, <1>3, <2>1
  <2> QED
    BY <1>1, <1>2, <2>2, LessByFactor
<1>5. p <= q + b
  <2>1. m * (q + b) = m * q + m * b
    BY <1>2
  <2>2. m * p < m * (q + b) + m
    BY <1>1, <1>2, <1>3, <2>1
  <2> QED
    BY <1>1, <1>2, <2>2, LessByFactor
<1> QED
  BY <1>1, <1>2, <1>4, <1>5 DEF p, q

\* The points of a ramp of n actions: they do not leave the way, the last one is its
\* end, and none is farther from the one before than twice the step of the ramp.
LEMMA RampPoints ==
  ASSUME NEW start \in Int, NEW target \in Int, NEW n \in Nat \ {0},
         Distance(start, target) <= RampStep * n
  PROVE  /\ \A k \in 0..n - 1 :
              RampPoint(start, target, n, k) \in Least(start, target)..Greatest(start, target)
         /\ RampPoint(start, target, n, n - 1) = target
         /\ n > 1 => /\ RampPoint(start, target, n, 0) = start
                     /\ \A k \in 0..n - 2 : Distance(RampPoint(start, target, n, k),
                                                   RampPoint(start, target, n, k + 1)) <= 2 * RampStep
<1> DEFINE way == target - start
<1>1. CASE n <= 1
  <2>1. \A k \in Int : RampPoint(start, target, n, k) = target
    BY <1>1 DEF RampPoint
  <2> QED
    BY <1>1, <2>1 DEF Least, Greatest
<1>2. CASE n > 1
  <2> DEFINE m == n - 1
             P(k) == (way * k) \div m
  <2>1. m \in Nat \ {0} /\ way \in Int /\ RampStep \in Nat /\ n = m + 1
    BY <1>2, LimitsAssumption DEF LimitsAssumption
  <2>2. \A k \in Int : RampPoint(start, target, n, k) = start + P(k)
    BY <1>2 DEF RampPoint
  <2>3. way <= RampStep * n /\ -way <= RampStep * n
    BY <2>1 DEF Distance
  <2> HIDE DEF m, way
  <2>4. way <= m * (2 * RampStep) /\ -(m * (2 * RampStep)) <= way
    <3>1. \A r \in Nat, j \in Nat \ {0} : r * (j + 1) <= j * (2 * r)
      OBVIOUS
    <3> QED
      BY <2>1, <2>3, <3>1
  <2>5. ASSUME NEW k \in 0..m
        PROVE  IF way >= 0 THEN P(k) \in 0..way ELSE P(k) \in way..0
    <3>1. CASE way >= 0
      BY <2>1, <3>1, PartOfWay
    <3>2. CASE way < 0
      <4>1. -way \in Nat /\ -(-way) = way
        BY <2>1, <3>2
      <4> QED
        BY <2>1, <3>2, <4>1, PartOfWayBack
    <3> QED
      BY <2>1, <3>1, <3>2
  <2>6. P(m) = way
    BY <2>1, DividesExactly
  <2>7. P(0) = 0
    BY <2>1, DividesExactly
  <2>8. ASSUME NEW k \in Nat
        PROVE  P(k + 1) - P(k) \in -(2 * RampStep)..(2 * RampStep)
    BY <2>1, <2>4, Increment
  <2>9. \A k \in Nat : P(k) \in Int
    BY <2>1, Divides
  <2> HIDE DEF P
  <2>10. \A k \in 0..n - 1 :
           RampPoint(start, target, n, k) \in Least(start, target)..Greatest(start, target)
    BY <2>1, <2>2, <2>5 DEF Least, Greatest, way, m
  <2>11. RampPoint(start, target, n, n - 1) = target
    BY <2>1, <2>2, <2>6 DEF way, m
  <2>12. RampPoint(start, target, n, 0) = start
    BY <2>1, <2>2, <2>7
  <2>13. ASSUME NEW k \in 0..n - 2
         PROVE  Distance(RampPoint(start, target, n, k), RampPoint(start, target, n, k + 1)) <= 2 * RampStep
    <3>1. k \in Nat /\ k + 1 \in Nat
      OBVIOUS
    <3>2. P(k) \in Int /\ P(k + 1) \in Int /\ P(k + 1) - P(k) \in -(2 * RampStep)..(2 * RampStep)
      BY <2>8, <2>9, <3>1
    <3>3. /\ RampPoint(start, target, n, k) = start + P(k)
          /\ RampPoint(start, target, n, k + 1) = start + P(k + 1)
      BY <2>2, <3>1
    <3> QED
      BY <2>1, <3>2, <3>3 DEF Distance
  <2> QED
    BY <2>10, <2>11, <2>12, <2>13
<1> QED
  BY <1>1, <1>2

\* A ramp has enough actions for every distance within the limits, if it is not cut.
LEMMA RampIsLong ==
  ASSUME RampFits, NEW distance \in Nat,
         distance <= Greatest(JointMax - JointMin, GripperMax - GripperMin)
  PROVE  /\ Greatest(1, RampSteps(distance)) \in Nat \ {0}
         /\ distance <= RampStep * Greatest(1, RampSteps(distance))
<1> DEFINE reach == Greatest(JointMax - JointMin, GripperMax - GripperMin)
<1>1. /\ RampStep \in Nat \ {0} /\ RampMaxSteps \in Nat /\ reach \in Nat
      /\ Ceiling(distance, RampStep) \in Int /\ Ceiling(reach, RampStep) \in Int
  <2>1. RampStep \in Nat \ {0} /\ RampMaxSteps \in Nat /\ reach \in Nat
    BY LimitsAssumption DEF LimitsAssumption, Greatest
  <2> HIDE DEF reach
  <2> QED
    BY <2>1, Divides DEF Ceiling
<1>2. /\ RampStep * Ceiling(distance, RampStep) <= distance + RampStep - 1
      /\ distance + RampStep - 1 < RampStep * Ceiling(distance, RampStep) + RampStep
  BY <1>1, Divides DEF Ceiling
<1> HIDE DEF reach
<1>3. reach + RampStep - 1 < RampStep * Ceiling(reach, RampStep) + RampStep
  BY <1>1, Divides DEF Ceiling
<1>4. Ceiling(distance, RampStep) <= Ceiling(reach, RampStep)
  <2>1. RampStep * Ceiling(distance, RampStep) < RampStep * Ceiling(reach, RampStep) + RampStep
    <3>1. distance <= reach
      BY DEF reach
    <3> QED
      BY <1>1, <1>2, <1>3, <3>1
  <2> QED
    BY <1>1, <2>1, LessByFactor
<1>5. Ceiling(reach, RampStep) < RampMaxSteps
  BY <1>1 DEF RampFits, RampSteps, Least, Greatest, reach
<1>6. RampSteps(distance) = Ceiling(distance, RampStep)
  BY <1>1, <1>4, <1>5 DEF RampSteps, Least, Greatest
<1>7. distance <= RampStep * Ceiling(distance, RampStep)
  BY <1>1, <1>2
<1>8. CASE Ceiling(distance, RampStep) >= 1
  BY <1>1, <1>6, <1>7, <1>8 DEF Greatest
<1>9. CASE Ceiling(distance, RampStep) < 1
  <2>1. RampStep * Ceiling(distance, RampStep) <= RampStep * 1 
    BY <1>1, <1>9
  <2>2. Greatest(1, RampSteps(distance)) = 1
    BY <1>1, <1>6, <1>9 DEF Greatest
  <2> QED
    BY <1>1, <1>7, <2>1, <2>2
<1> QED
  BY <1>1, <1>8, <1>9

\* A point of the ramp, and the one that was reached before it.
PointOf(d, k) == RampPoint(ramp.start[d], Pose[d], ramp.n, k)
ReachedBy(d, k) == IF k = 0 THEN ramp.start[d] ELSE PointOf(d, k - 1)

\* The ramp is long enough, and the last state is the point before its next one, or
\* the limited action is that point: the limits have not cut it.
RampInv ==
  /\ step \in {"off", "loop"} => ramp.n = 0
  /\ step \in {"ramp", "apply"} /\ ramp.n > 0 =>
       \A d \in Movers : InLimits(d, ramp.start[d])
                         /\ Distance(ramp.start[d], Pose[d]) <= RampStep * ramp.n
  /\ step = "ramp" => ramp.k < ramp.n /\ \A d \in Movers : base[d] = ReachedBy(d, ramp.k)
  /\ step = "apply" /\ ramp.n > 0 =>
       ramp.k \in 1..ramp.n /\ \A d \in Movers : limited[d] = PointOf(d, ramp.k - 1)

\* From a point of the ramp the limits let the next one pass.
LEMMA PointPasses ==
  ASSUME RampFits, NEW d \in Movers, NEW x \in Int, NEW y \in Int,
         InLimits(d, y), Distance(x, y) <= 2 * RampStep
  PROVE  (IF d \in Arms THEN LimitJoint(y, x) ELSE LimitGripper(y, x)) = y
  BY LimitsAssumption DEF LimitsAssumption, RampFits, InLimits, Distance, LimitJoint, LimitGripper,
     Toward, Clip, Least, Greatest

LEMMA PoseInLimits ==
  \A d \in Movers : Pose[d] \in Int /\ InLimits(d, Pose[d])
  BY MotionAssumption, LimitsAssumption DEF MotionAssumption, LimitsAssumption, Pose, InLimits

\* The action of a ramp that fits is its next point.
LEMMA RampActionFits ==
  ASSUME RampFits, DataOK, RampInv, step = "ramp",
         NEW action, action = [d \in Movers |-> RampPoint(ramp.start[d], Pose[d], ramp.n, ramp.k)]
  PROVE  Limit(action) = action
<1>1. ramp.n \in Nat \ {0} /\ ramp.k \in Nat /\ ramp.k < ramp.n /\ RampStep \in Nat
  BY LimitsAssumption DEF LimitsAssumption, DataOK, RampInv
<1>2. ASSUME NEW d \in Movers
      PROVE  Limit(action)[d] = action[d]
  <2> DEFINE s == ramp.start[d]
             t == Pose[d]
             y == RampPoint(s, t, ramp.n, ramp.k)
  <2>1. /\ s \in Int /\ t \in Int /\ InLimits(d, s) /\ InLimits(d, t)
        /\ Distance(s, t) <= RampStep * ramp.n /\ base[d] = ReachedBy(d, ramp.k) /\ base[d] \in Int
    BY <1>1, PoseInLimits DEF DataOK, RampInv
  <2>2. /\ y \in Least(s, t)..Greatest(s, t)
        /\ ramp.n <= 1 => y = t
        /\ ramp.n > 1 =>
             /\ RampPoint(s, t, ramp.n, 0) = s
             /\ \A k \in 0..ramp.n - 2 :
                  Distance(RampPoint(s, t, ramp.n, k), RampPoint(s, t, ramp.n, k + 1)) <= 2 * RampStep
    <3>1. ramp.k \in 0..ramp.n - 1
      BY <1>1
    <3>2. ramp.n <= 1 => y = t
      BY DEF RampPoint
    <3> HIDE DEF s, t
    <3> QED
      BY <1>1, <2>1, <3>1, <3>2, RampPoints
  <2>3. y \in Int /\ InLimits(d, y)
    <3> HIDE DEF s, t, y
    <3> QED
      BY <2>1, <2>2, LimitsAssumption DEF LimitsAssumption, InLimits, Least, Greatest
  <2>4. Distance(base[d], y) <= 2 * RampStep
    <3>1. CASE ramp.k = 0 /\ ramp.n <= 1
      <4>1. base[d] = s /\ y = t /\ ramp.n = 1
        BY <1>1, <2>1, <2>2, <3>1 DEF ReachedBy
      <4>2. RampStep * 1 <= 2 * RampStep
        BY <1>1
      <4> QED
        BY <1>1, <2>1, <4>1, <4>2 DEF Distance
    <3>2. CASE ramp.k = 0 /\ ramp.n > 1
      <4>1. base[d] = s /\ y = s
        BY <2>1, <2>2, <3>2 DEF ReachedBy
      <4> QED
        BY <1>1, <2>1, <4>1 DEF Distance
    <3>3. CASE ramp.k # 0
      <4>1. /\ base[d] = RampPoint(s, t, ramp.n, ramp.k - 1)
            /\ ramp.k - 1 \in 0..ramp.n - 2 /\ (ramp.k - 1) + 1 = ramp.k /\ ramp.n > 1
        <5>1. ReachedBy(d, ramp.k) = RampPoint(s, t, ramp.n, ramp.k - 1)
          BY <3>3 DEF ReachedBy, PointOf
        <5>2. base[d] = RampPoint(s, t, ramp.n, ramp.k - 1)
          BY <2>1, <5>1
        <5>3. ramp.k - 1 \in 0..ramp.n - 2 /\ (ramp.k - 1) + 1 = ramp.k /\ ramp.n > 1
          BY <1>1, <3>3
        <5> QED
          BY <5>2, <5>3
      <4> QED
        BY <2>2, <4>1
    <3> QED
      BY <1>1, <3>1, <3>2, <3>3
  <2>5. action[d] = y /\ Limit(action)[d] = IF d \in Arms THEN LimitJoint(y, base[d]) ELSE LimitGripper(y, base[d])
    BY DEF Limit
  <2> HIDE DEF s, t, y
  <2> QED
    BY <2>1, <2>3, <2>4, <2>5, PointPasses
<1>3. Limit(action) = [d \in Movers |-> Limit(action)[d]]
  BY DEF Limit
<1> QED
  BY <1>2, <1>3

\* A ramp is begun only between positions within the limits, so it is long enough.
LEMMA RampBegins ==
  ASSUME RampFits, DataOK, \A d \in Movers : InLimits(d, base[d])
  PROVE  /\ Greatest(1, RampSteps(PoseDistance)) \in Nat \ {0}
         /\ \A d \in Movers :
              Distance(base[d], Pose[d]) <= RampStep * Greatest(1, RampSteps(PoseDistance))
<1> DEFINE D(d) == Distance(base[d], Pose[d])
           reach == Greatest(JointMax - JointMin, GripperMax - GripperMin)
<1>1. \A d \in Movers : D(d) \in Nat /\ D(d) <= reach
  <2>1. \A d \in Movers : base[d] \in Int /\ Pose[d] \in Int /\ InLimits(d, Pose[d])
    BY PoseInLimits DEF DataOK
  <2> QED
    BY <2>1, LimitsAssumption DEF LimitsAssumption, InLimits, Distance, Greatest
<1>2. \A d \in Movers : D(d) <= PoseDistance
  BY PoseDistanceIs DEF DataOK
<1>3. PoseDistance \in Nat /\ PoseDistance <= reach
  BY <1>1, PoseDistanceIs DEF DataOK
<1> HIDE DEF D
<1>4. /\ Greatest(1, RampSteps(PoseDistance)) \in Nat \ {0}
      /\ PoseDistance <= RampStep * Greatest(1, RampSteps(PoseDistance))
  BY <1>3, RampIsLong
<1>5. RampStep * Greatest(1, RampSteps(PoseDistance)) \in Nat
  BY <1>4, LimitsAssumption DEF LimitsAssumption
<1>6. \A d \in Movers : D(d) <= RampStep * Greatest(1, RampSteps(PoseDistance))
  BY <1>1, <1>2, <1>3, <1>4, <1>5
<1> QED
  BY <1>4, <1>6 DEF D

LEMMA RampInitial == MotionInit => RampInv
<1> SUFFICES ASSUME MotionInit PROVE RampInv
  OBVIOUS
<1>1. step = "off" /\ ramp.n = 0
  BY DEF MotionInit, NoRamp
<1> QED
  BY <1>1 DEF RampInv

\* A step of neither the ramp nor the loop's writes.
LEMMA RampQuiet ==
  ASSUME RampInv, base' = base, limited' = limited, step' = step, ramp' = ramp
  PROVE  RampInv'
  BY DEF RampInv, ReachedBy, PointOf

LEMMA RampKeeps ==
  ASSUME RampFits, DataOK, ControlOK, ArmInv, DriftInv, RampInv, [MotionNext]_allVars
  PROVE  RampInv'
<1> USE Names
<1>1. CASE ReadFirst
  <2>1. step = "off" /\ step' = "off" /\ ramp' = ramp
    BY <1>1 DEF ReadFirst, FirstRead, ControlOK
  <2> QED
    BY <2>1 DEF RampInv
<1>2. CASE BeginMotion
  <2>1. base' = base
    BY <1>2 DEF BeginMotion
  <2>2. CASE step' = "loop" /\ ramp' = NoRamp
    BY <2>1, <2>2 DEF RampInv, NoRamp
  <2>3. CASE /\ step' = "ramp"
             /\ ramp' = [start |-> base, n |-> Greatest(1, RampSteps(PoseDistance)), k |-> 0]
    <3>1. \A d \in Movers : InLimits(d, base[d])
      BY DEF ArmInv, DriftInv, InLimits
    <3>2. /\ ramp'.start = base /\ ramp'.n \in Nat \ {0} /\ ramp'.k = 0
          /\ \A d \in Movers : Distance(base[d], Pose[d]) <= RampStep * ramp'.n
      BY <2>3, <3>1, RampBegins
    <3>3. ramp'.k < ramp'.n
      BY <3>2
    <3> QED
      BY <2>1, <2>3, <3>1, <3>2, <3>3 DEF RampInv, ReachedBy
  <2> QED
    BY <1>2, <2>2, <2>3 DEF BeginMotion
<1>3. CASE EndMotion \/ LeaveLoop
  BY <1>3 DEF EndMotion, LeaveLoop, RampInv, NoRamp
<1>4. CASE RampAction
  <2> DEFINE action == [d \in Movers |-> RampPoint(ramp.start[d], Pose[d], ramp.n, ramp.k)]
  <2>1. /\ step = "ramp" /\ step' = "apply" /\ limited' = Limit(action)
        /\ ramp' = [ramp EXCEPT !.k = @ + 1]
    BY <1>4 DEF RampAction, ApplyBegins
  <2>2. /\ ramp.n \in Nat /\ ramp.k \in Nat /\ ramp.k < ramp.n
        /\ ramp'.start = ramp.start /\ ramp'.n = ramp.n /\ ramp'.k = ramp.k + 1
    BY <2>1 DEF DataOK, RampInv
  <2>3. \A d \in Movers : limited'[d] = RampPoint(ramp.start[d], Pose[d], ramp.n, ramp.k)
    BY <2>1, RampActionFits
  <2>4. ramp'.k \in 1..ramp'.n /\ ramp'.k - 1 = ramp.k
    BY <2>2
  <2> HIDE DEF action
  <2> QED
    BY <2>1, <2>2, <2>3, <2>4 DEF RampInv, PointOf
<1>5. CASE LoopAction
  <2>1. step = "loop" /\ step' = "apply" /\ ramp' = ramp
    BY <1>5 DEF LoopAction, ApplyBegins
  <2> QED
    BY <2>1 DEF RampInv
<1>6. CASE MoveArm \/ GripperWritten
  <2>1. \/ step' = "leave"
        \/ UNCHANGED <<base, step, ramp, limited>>
    BY <1>6 DEF MoveArm, GripperWritten, Raise
  <2> QED
    BY <2>1, RampQuiet DEF RampInv
<1>7. CASE SkipGripper \/ WriteGripper
  BY <1>7, RampQuiet DEF SkipGripper, WriteGripper, loopVars
<1>8. CASE ApplyDone
  <2>1. step = "apply" /\ base' = limited
    BY <1>8 DEF ApplyDone
  <2>2. CASE ramp.n > ramp.k /\ step' = "ramp" /\ ramp' = ramp
    <3>1. ramp.k \in Nat /\ ramp.n \in Nat /\ ramp.n > 0 /\ ramp.k # 0
      BY <2>1, <2>2 DEF DataOK, RampInv
    <3>2. \A d \in Movers : base'[d] = ReachedBy(d, ramp.k)
      BY <2>1, <3>1 DEF RampInv, ReachedBy
    <3> QED
      BY <2>1, <2>2, <3>1, <3>2 DEF RampInv, ReachedBy, PointOf
  <2>3. CASE step' = "loop" /\ ramp' = NoRamp
    BY <2>1, <2>3 DEF RampInv, NoRamp
  <2> QED
    BY <1>8, <2>2, <2>3 DEF ApplyDone
<1>9. CASE CaptureBegins \/ ReadArm \/ ReadGripper \/ GripperRead \/ CaptureDone
  BY <1>9, RampQuiet DEF CaptureBegins, ReadArm, ReadGripper, GripperRead, CaptureDone, loopVars
<1>10. CASE (Life /\ UNCHANGED motionVars) \/ UNCHANGED allVars
  BY <1>10, RampQuiet DEF allVars, motionVars, loopVars
<1> QED
  BY <1>1, <1>2, <1>3, <1>4, <1>5, <1>6, <1>7, <1>8, <1>9, <1>10
     DEF MotionNext, Motion

\* The step with which the ramp ends.
LEMMA RampEnds ==
  ASSUME RampFits, DataOK, ControlOK, ArmInv, DriftInv, RampInv, [MotionNext]_allVars,
         ramp.n > 0, ramp'.n = 0, step' = "loop"
  PROVE  AtPose
<1> USE Names
<1>1. ApplyDone
  <2>1. ~BeginMotion
    BY DEF BeginMotion, EnableDone, ControlOK, RampInv, DataOK
  <2>2. ramp' # ramp
    BY DEF DataOK
  <2>3. ~UNCHANGED allVars
    BY <2>2 DEF allVars, motionVars, loopVars
  <2>4. ~(Life /\ UNCHANGED motionVars)
    BY <2>2 DEF motionVars, loopVars
  <2>5. ~(EndMotion \/ LeaveLoop \/ RampAction \/ LoopAction)
    BY <2>2 DEF EndMotion, LeaveLoop, RampAction, LoopAction, ApplyBegins
  <2>6. ~(ReadFirst \/ MoveArm \/ SkipGripper \/ WriteGripper \/ GripperWritten)
    BY <2>2 DEF ReadFirst, MoveArm, SkipGripper, WriteGripper, GripperWritten, Raise, loopVars
  <2>7. ~(CaptureBegins \/ ReadArm \/ ReadGripper \/ GripperRead \/ CaptureDone)
    BY <2>2 DEF CaptureBegins, ReadArm, ReadGripper, GripperRead, CaptureDone, loopVars
  <2> QED
    BY <2>1, <2>3, <2>4, <2>5, <2>6, <2>7 DEF MotionNext, Motion
<1>2. /\ step = "apply" /\ writes = <<>> /\ at' = at /\ slack' = slack /\ base' = limited
      /\ ~(ramp.n > ramp.k)
      /\ ramp.n \in Nat \ {0} /\ ramp.k \in 1..ramp.n
  BY <1>1 DEF ApplyDone, DataOK, RampInv
<1>3. ramp.k - 1 = ramp.n - 1
  BY <1>2
<1>4. \A d \in Movers : limited[d] = Pose[d]
  <2>1. ASSUME NEW d \in Movers
        PROVE  limited[d] = Pose[d]
    <3>1. limited[d] = RampPoint(ramp.start[d], Pose[d], ramp.n, ramp.n - 1)
      BY <1>2, <1>3 DEF RampInv, PointOf
    <3>2. /\ ramp.start[d] \in Int /\ Pose[d] \in Int
          /\ Distance(ramp.start[d], Pose[d]) <= RampStep * ramp.n
      BY <1>2, PoseInLimits DEF DataOK, RampInv
    <3> QED
      BY <1>2, <3>1, <3>2, RampPoints
  <2> QED
    BY <2>1
<1>5. \A a \in Arms : at[a] = limited[a]
  BY <1>2, ArmRests DEF ArmInv, ControlOK, Arms
<1>6. \A g \in Grippers : Distance(at[g], limited[g]) <= slack[g]
  BY <1>2 DEF DriftInv, Handled, NoRest
<1>7. limited = Pose
  BY <1>4 DEF DataOK, Pose
<1> QED
  BY <1>2, <1>4, <1>5, <1>6, <1>7 DEF AtPose

\* smooth_reset ends at the pose, from wherever the robot stands and in every run: if the
\* limits leave the increments of the ramp alone, they cut none, the last action is the
\* pose and the arms were told to go there.  A gripper is as near to it as the writes
\* that were skipped allow, which is at it if every change is worth one (NoSlack).
THEOREM PoseReachedHolds == MotionSpec => PoseReached
<1>1. CASE RampFits
  <2>1. DataOK /\ ControlOK /\ ArmInv /\ DriftInv /\ RampInv /\ [MotionNext]_allVars => RampInv'
    BY <1>1, RampKeeps DEF RampFits
  <2>2. DataOK /\ ControlOK /\ ArmInv /\ DriftInv /\ RampInv /\ [MotionNext]_allVars
             => [RampFits /\ ramp.n > 0 /\ ramp'.n = 0 /\ step' = "loop" => AtPose]_allVars
    BY <1>1, RampEnds DEF RampFits
  <2> QED
    BY <2>1, <2>2, RampInitial, ArmHolds, DriftHolds, PTL DEF MotionSpec, PoseReached
<1>2. CASE ~RampFits
  <2>1. [MotionNext]_allVars
          => [RampFits /\ ramp.n > 0 /\ ramp'.n = 0 /\ step' = "loop" => AtPose]_allVars
    BY <1>2
  <2> QED
    BY <2>1, PTL DEF MotionSpec, PoseReached
<1> QED
  BY <1>1, <1>2

-----------------------------------------------------------------------------
(* What the detailed model inherits.                                        *)

\* Every variable of the detailed model keeps its type.
THEOREM MotionTypeCorrect == MotionSpec => []MotionTypeOK
<1>1. sentOnce \in BOOLEAN /\ [MotionNext]_allVars => (sentOnce \in BOOLEAN)'
  BY Zenon DEF MotionNext, Motion, Life, allVars, motionVars, loopVars, ReadFirst, BeginMotion,
     EndMotion, LeaveLoop, RampAction, LoopAction, MoveArm, SkipGripper, WriteGripper,
     GripperWritten, ApplyDone, CaptureBegins, ReadArm, ReadGripper, GripperRead, CaptureDone,
     Raise
<1>2. MotionInit => sentOnce \in BOOLEAN
  BY Zenon DEF MotionInit
<1>3. \A s \in MoveRests : s \in Seq(Movers)
  <2>1. /\ MoveOrder \in Seq(Movers) /\ RightRest \in Seq(Movers)
        /\ LeftRest \in Seq(Movers) /\ LastRest \in Seq(Movers) /\ NoRest \in Seq(Movers)
    BY DEF MoveOrder, RightRest, LeftRest, LastRest, NoRest, Movers, Arms, Grippers
  <2> QED
    BY <2>1 DEF MoveRests
<1>4. DataOK /\ ControlOK /\ WaitOK /\ LineInv /\ sentOnce \in BOOLEAN => MotionTypeOK
  BY <1>3 DEF DataOK, ControlOK, WaitOK, LineInv, MotionTypeOK
<1> QED
  BY <1>1, <1>2, <1>4, TypesHold, LineHolds, PTL DEF MotionSpec
=============================================================================
