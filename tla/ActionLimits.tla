---------------------------- MODULE ActionLimits ----------------------------
(***************************************************************************)
(* What the environment and the control loop do to the numbers of an       *)
(* action: _limit_action, _write_gripper_if_needed and smooth_reset        *)
(* (deploy/xtrainer/real/environment.py), _rate_limit_action               *)
(* (scripts/xtrainer/run_real.py).  A joint or a gripper is one number; all *)
(* quantities are multiples of a resolution, so they are integers.          *)
(***************************************************************************)
EXTENDS Integers

CONSTANTS
  MaxJointDelta, JointMin, JointMax,        \* max_joint_delta_rad, joint_position_limit_rad
  MaxGripperDelta, GripperMin, GripperMax,  \* max_gripper_delta, gripper_limit
  GripperThreshold,                         \* gripper_update_threshold
  RampStep, RampMaxSteps,                   \* ramp_step_rad, ramp_max_steps
  MaxDeltaPerStep                           \* max_delta_per_step; 0: no rate limit

ASSUME LimitsAssumption ==
  /\ MaxJointDelta \in Nat /\ MaxGripperDelta \in Nat
  /\ JointMin \in Int /\ JointMax \in Int /\ JointMin <= JointMax
  /\ GripperMin \in Int /\ GripperMax \in Int /\ GripperMin <= GripperMax
  /\ GripperThreshold \in Nat
  /\ RampStep \in Nat \ {0} /\ RampMaxSteps \in Nat
  /\ MaxDeltaPerStep \in Nat

Least(x, y) == IF x <= y THEN x ELSE y
Greatest(x, y) == IF x >= y THEN x ELSE y

Distance(x, y) == IF x <= y THEN y - x ELSE x - y

\* np.clip
Clip(x, lo, hi) == Least(Greatest(x, lo), hi)

\* x moved towards target, by at most delta.
Toward(x, target, delta) == x + Clip(target - x, -delta, delta)

LimitJoint(target, current) == Clip(Toward(current, target, MaxJointDelta), JointMin, JointMax)

LimitGripper(target, current) ==
  Clip(Toward(current, target, MaxGripperDelta), GripperMin, GripperMax)

WritesGripper(target, current) == Distance(target, current) >= GripperThreshold

RateLimit(target, previous) ==
  IF MaxDeltaPerStep = 0 THEN target ELSE Toward(previous, target, MaxDeltaPerStep)

Ceiling(x, y) == (x + y - 1) \div y

\* smooth_reset: how many actions lead over a distance.
RampSteps(distance) == Least(Ceiling(distance, RampStep), Greatest(1, RampMaxSteps))

\* Mutant of RampPoint: the last point is left out, as in linspace(endpoint=False).
RampPointOpen(start, target, n, k) == start + ((target - start) * k) \div n

\* np.linspace(start, target, n)[k], rounded; n actions make n - 1 increments.
RampPoint(start, target, n, k) ==
  IF n <= 1 THEN target ELSE start + ((target - start) * k) \div (n - 1)
=============================================================================
