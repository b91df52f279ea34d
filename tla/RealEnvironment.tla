-------------------------- MODULE RealEnvironment --------------------------
(***************************************************************************)
(* The life of the robot hardware in one call of run()                     *)
(* (scripts/xtrainer/run_real.py): XTrainerRealEnvironment.reset,          *)
(* enable_arms, apply_action and close (deploy/xtrainer/real/environment.py)*)
(* over the arms' TCP connections (hardware/dobot_xtrainer.py).  Every call *)
(* to a device may fail.  The state separates what the program believes    *)
(* (_enabled_arms, _closed) from what is true of the robot: which          *)
(* connections are open and which arms are powered.                        *)
(***************************************************************************)
EXTENDS Integers, Sequences, SequencesExt

CONSTANTS
  EnableOutcomes,  \* how EnableRobot may end: "ok", "refused" (an error answer),
                   \* "lost" (done, but its answer does not arrive)
  MaxRuns          \* bound: calls of run() with the same environment

ASSUME EnvironmentAssumption ==
  EnableOutcomes \subseteq {"ok", "refused", "lost"} /\ MaxRuns \in Nat \ {0}

\* The devices in the order in which _connect_all opens them; an arm is its
\* dashboard and its motion connection, which it opens and closes together.
Devices == <<"left_arm", "right_arm", "left_gripper", "right_gripper",
             "top", "left_wrist", "right_wrist">>
Arms == {"left_arm", "right_arm"}

\* The order in which close() closes them.
CloseOrder == <<"top", "left_wrist", "right_wrist", "left_gripper",
                "right_gripper", "left_arm", "right_arm">>

VARIABLES
  pc,       \* "idle", "connect", "rollback", "enable", "revoke", "run",
            \* "leave" (run()'s finally block), "disable", "close", "ended"
  todo,     \* the devices that the current phase still has to handle
  runs,     \* calls of run() so far
  enabled,  \* _enabled_arms
  closed,   \* _closed
  open,     \* devices with open connections
  powered,  \* arms that are enabled in truth
  stuck     \* arms whose last DisableRobot failed

vars == <<pc, todo, runs, enabled, closed, open, powered, stuck>>

Init ==
  /\ pc = "idle" /\ todo = <<>> /\ runs = 0
  /\ enabled = <<>> /\ closed = FALSE
  /\ open = {} /\ powered = {} /\ stuck = {}

\* The devices of an opening phase that come before those still to do.
Done(order) == SubSeq(order, 1, Len(order) - Len(todo))

\* Mutant of Reset: _closed keeps its value from the run before.
ResetStillClosed ==
  /\ pc = "idle" /\ runs < MaxRuns
  /\ runs' = runs + 1
  /\ pc' = "connect" /\ todo' = Devices
  /\ UNCHANGED <<enabled, closed, open, powered, stuck>>

\* run() calls reset().
Reset ==
  /\ pc = "idle" /\ runs < MaxRuns
  /\ runs' = runs + 1
  /\ closed' = FALSE
  /\ pc' = "connect" /\ todo' = Devices
  /\ UNCHANGED <<enabled, open, powered, stuck>>

\* policy.connect() or start_async() raised before reset() was called.
PolicyFails ==
  /\ pc = "idle" /\ runs < MaxRuns
  /\ runs' = runs + 1
  /\ pc' = "leave"
  /\ UNCHANGED <<todo, enabled, closed, open, powered, stuck>>

\* _connect_all: the next device, or the devices opened so far are closed again.
Connect ==
  /\ pc = "connect" /\ todo # <<>>
  /\ \/ /\ open' = open \cup {Head(todo)}
        /\ todo' = Tail(todo)
        /\ UNCHANGED pc
     \/ /\ pc' = "rollback" /\ todo' = Reverse(Done(Devices))
        /\ UNCHANGED open
  /\ UNCHANGED <<runs, enabled, closed, powered, stuck>>

Rollback ==
  /\ pc = "rollback"
  /\ IF todo = <<>>
     THEN pc' = "leave" /\ UNCHANGED <<todo, open>>
     ELSE open' = open \ {Head(todo)} /\ todo' = Tail(todo) /\ UNCHANGED pc
  /\ UNCHANGED <<runs, enabled, closed, powered, stuck>>

\* reset() reads the state and an observation; enable_arms() begins.
FirstRead ==
  /\ pc = "connect" /\ todo = <<>>
  /\ \/ pc' = "enable" /\ todo' = <<"left_arm", "right_arm">>
     \/ pc' = "leave" /\ UNCHANGED todo
  /\ UNCHANGED <<runs, enabled, closed, open, powered, stuck>>

\* enable_arms: the next arm, or the arms enabled so far are disabled again.
EnableArm ==
  /\ pc = "enable" /\ todo # <<>>
  /\ \E outcome \in EnableOutcomes :
       /\ powered' = IF outcome = "refused" THEN powered ELSE powered \cup {Head(todo)}
       /\ stuck' = IF outcome = "refused" THEN stuck ELSE stuck \ {Head(todo)}
       /\ IF outcome = "ok"
          THEN todo' = Tail(todo) /\ UNCHANGED pc
          ELSE pc' = "revoke" /\ todo' = Reverse(Done(<<"left_arm", "right_arm">>))
  /\ UNCHANGED <<runs, enabled, closed, open>>

EnableDone ==
  /\ pc = "enable" /\ todo = <<>>
  /\ enabled' = <<"left_arm", "right_arm">>
  /\ pc' = "run"
  /\ UNCHANGED <<todo, runs, closed, open, powered, stuck>>

\* _disable_arm: a failure is logged, the arm may stay powered.
DisableArm(arm) ==
  \/ powered' = powered \ {arm} /\ stuck' = stuck \ {arm}
  \/ UNCHANGED powered /\ stuck' = stuck \cup ({arm} \cap powered)

Revoke ==
  /\ pc = "revoke"
  /\ IF todo = <<>>
     THEN pc' = "leave" /\ UNCHANGED <<todo, powered, stuck>>
     ELSE DisableArm(Head(todo)) /\ todo' = Tail(todo) /\ UNCHANGED pc
  /\ UNCHANGED <<runs, enabled, closed, open>>

\* The pose reset and the control loop move the arms until they end or raise.
LoopEnds ==
  /\ pc = "run"
  /\ pc' = "leave"
  /\ UNCHANGED <<todo, runs, enabled, closed, open, powered, stuck>>

\* Mutant of Close: the list of enabled arms is cleared before it is read.
CloseForgetful ==
  /\ pc = "leave"
  /\ IF closed
     THEN pc' = "ended" /\ UNCHANGED <<todo, closed, enabled>>
     ELSE /\ closed' = TRUE
          /\ pc' = "disable" /\ todo' = <<>>
          /\ enabled' = <<>>
  /\ UNCHANGED <<runs, open, powered, stuck>>

\* run()'s finally block calls close(), and close() calls disable_arms().
Close ==
  /\ pc = "leave"
  /\ IF closed
     THEN pc' = "ended" /\ UNCHANGED <<todo, closed, enabled>>
     ELSE /\ closed' = TRUE
          /\ pc' = "disable" /\ todo' = Reverse(enabled)
          /\ enabled' = <<>>
  /\ UNCHANGED <<runs, open, powered, stuck>>

Disable ==
  /\ pc = "disable"
  /\ IF todo = <<>>
     THEN pc' = "close" /\ todo' = CloseOrder /\ UNCHANGED <<powered, stuck>>
     ELSE DisableArm(Head(todo)) /\ todo' = Tail(todo) /\ UNCHANGED pc
  /\ UNCHANGED <<runs, enabled, closed, open>>

\* _close_resource: a device counts as closed even if its close() raises.
CloseDevice ==
  /\ pc = "close"
  /\ IF todo = <<>>
     THEN pc' = "ended" /\ UNCHANGED <<todo, open>>
     ELSE open' = open \ {Head(todo)} /\ todo' = Tail(todo) /\ UNCHANGED pc
  /\ UNCHANGED <<runs, enabled, closed, powered, stuck>>

RunAgain ==
  /\ pc = "ended"
  /\ pc' = "idle"
  /\ UNCHANGED <<todo, runs, enabled, closed, open, powered, stuck>>

Next ==
  \/ Reset \/ PolicyFails \/ Connect \/ Rollback \/ FirstRead \/ EnableArm \/ EnableDone \/ Revoke
  \/ LoopEnds \/ Close \/ Disable \/ CloseDevice \/ RunAgain

Spec == Init /\ [][Next]_vars

-----------------------------------------------------------------------------
(* Properties.                                                              *)

TypeOK ==
  /\ pc \in {"idle", "connect", "rollback", "enable", "revoke", "run", "leave",
             "disable", "close", "ended"}
  /\ todo \in Seq(ToSet(Devices)) /\ runs \in 0..MaxRuns
  /\ enabled \in Seq(Arms) /\ closed \in BOOLEAN
  /\ open \subseteq ToSet(Devices) /\ powered \subseteq Arms /\ stuck \subseteq powered

\* The robot moves only when both arms were enabled and every device is there.
MotionIsReady == pc = "run" => Arms \subseteq powered /\ open = ToSet(Devices)

\* A connection to an arm is never given up while the arm is powered and nobody
\* has tried to disable it: not when connecting fails, not in close().
PowerOffBeforeClose ==
  [][\A a \in Arms : (a \in open \ open' /\ a \in powered) => a \in stuck]_vars

\* Whatever failed, after run() all connections are closed and an arm is powered
\* only if it refused to be disabled.
SafeWhenEnded == pc = "ended" => open = {} /\ powered = stuck

-----------------------------------------------------------------------------
(* A statement of the code that the code does not meet.                     *)

\* enable_arms is one fail-closed operation: if it fails, no arm stays powered
\* that could be disabled.  An arm that was enabled but whose answer was lost is
\* not in its list and never disabled.
FailClosed == pc = "ended" => powered \subseteq stuck
=============================================================================
