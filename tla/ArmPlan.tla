------------------------------ MODULE ArmPlan ------------------------------
(***************************************************************************)
(* What MotionExecutor promises its callers (fulfill_order, live_check,    *)
(* run_order): a plan is refused as a whole or its actions take effect one *)
(* after the other, each ending exactly in its goal; a failure leaves the  *)
(* joints of the action that was running somewhere on their way and every  *)
(* other joint alone.  Ramps, waypoints and SDK calls are not visible.     *)
(***************************************************************************)
EXTENDS MotionPlans

CONSTANT Plans   \* the plans callers submit

VARIABLES
  status,   \* "idle", "moving" or how the last plan ended
  plan,     \* the plan of the last call
  at,       \* the index of its next action
  pose      \* the joint angles the executor stands by

planVars == <<status, plan, at, pose>>

Ended == {"complete", "rejected", "raised", "interrupted"}

PlanInit ==
  /\ status = "idle"
  /\ plan = <<>>
  /\ at = 1
  /\ pose = [j \in Joints |-> 0]

\* A plan is accepted, or refused without a move.
Submit(p) ==
  /\ status # "moving"
  /\ status' = IF ValidPlan(p) THEN "moving" ELSE "rejected"
  /\ plan' = p
  /\ at' = 1
  /\ UNCHANGED pose

\* The next action has run to its goal.
Perform ==
  /\ status = "moving"
  /\ at \in DOMAIN plan
  /\ at' = at + 1
  /\ pose' = Goal(plan[at], pose)
  /\ UNCHANGED <<status, plan>>

Finish ==
  /\ status = "moving"
  /\ at \notin DOMAIN plan
  /\ status' = "complete"
  /\ UNCHANGED <<plan, at, pose>>

\* The running action stops on its way.
Abort ==
  /\ status = "moving"
  /\ status' \in {"raised", "interrupted"}
  /\ pose' \in [Joints -> Int]
  /\ \A j \in Joints :
       IF at \in DOMAIN plan
       THEN pose'[j] \in Between(pose[j], Goal(plan[at], pose)[j])
       ELSE pose'[j] = pose[j]
  /\ UNCHANGED <<plan, at>>

\* A caller tells the executor where the arm really is.
Resync ==
  /\ status # "moving"
  /\ pose' \in [Joints -> Int]
  /\ UNCHANGED <<status, plan, at>>

PlanNext ==
  \/ \E p \in Plans : Submit(p)
  \/ Perform
  \/ Finish
  \/ Abort
  \/ Resync

PlanSpec == PlanInit /\ [][PlanNext]_planVars
============================================================================
