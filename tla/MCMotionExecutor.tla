-------------------------- MODULE MCMotionExecutor --------------------------
(* A two-joint arm: a lift with limits on both sides and a gripper whose 0 *)
(* is shut.  Angles are a few degrees, durations a few ticks.              *)
EXTENDS MotionExecutor, FiniteSets

MCJoints == {"lift", "grip"}
MCJointNames == MCJoints \cup {"7"}
MCLo == [j \in MCJoints |-> IF j = "lift" THEN -2 ELSE 0]
MCHi == [j \in MCJoints |-> IF j = "lift" THEN 3 ELSE 2]

Pose(l, g) == [j \in MCJoints |-> IF j = "lift" THEN l ELSE g]
Act(t, S, l, g, d) ==
  [type |-> t, names |-> S, duration |-> d,
   angle |-> [j \in MCJointNames |-> CASE j = "lift" -> l
                                      [] j = "grip" -> g
                                      [] OTHER -> 0]]
Wait(d) == Act("wait", {}, 0, 0, d)

\* A pick-like plan, one that asks beyond the limits, one that snaps, and
\* plans that validate_plan refuses for each of its reasons.
GoodPlans == {
  <<Act("set_pose", MCJoints, 3, 2, 3), Act("set_joint", {"grip"}, 0, 0, 1)>>,
  <<Act("set_joint", {"lift"}, -9, 0, 3), Wait(1), Act("home", {}, 0, 0, 2)>>,
  <<Act("set_joint", {"grip"}, 0, 5, 0)>>}

BadPlans == {
  <<Act("set_pose", MCJoints, 1, 1, 1), Act("set_joint", {"7"}, 0, 0, 1)>>,
  <<Act("set_joint", {}, 0, 0, 1)>>,
  <<Act("home", {}, 0, 0, 4)>>,
  <<Act("unknown type", {"grip"}, 0, 1, 1)>>,
  <<Wait(1), Wait(1), Wait(1), Wait(1)>>}

MCPlans == GoodPlans \cup BadPlans

\* The arm may rest inside its limits, or a little beyond one, as a hand-
\* moved arm may between the limit and the mechanical stop.
MCArmStarts == {Pose(0, 0), Pose(2, 1), Pose(5, 2)}
============================================================================
