---------------------------- MODULE MotionPlans ----------------------------
(***************************************************************************)
(* The data of src/control/motion.py: actions, plans, the per-joint safety *)
(* clamp, validate_plan and the waypoints of a ramp.  No state lives here. *)
(*                                                                         *)
(* Angles are whole degrees and durations whole ramp ticks (1/ramp_hz s),  *)
(* so the code's floats become integers; a waypoint rounds down where the  *)
(* code keeps the fraction.                                                *)
(***************************************************************************)
EXTENDS Integers, Sequences

CONSTANTS
  Joints,       \* the joints the executor drives (JOINTS, "1".."6")
  JointNames,   \* every joint name a plan may mention, known or not
  Lo, Hi,       \* joint -> safe range (the executor's joint_limits)
  MaxDuration,  \* MAX_DURATION_S, in ticks
  MaxActions    \* MAX_ACTIONS_PER_PLAN

\* The 0 of home() is sent unclamped, so the ranges have to contain it, as
\* every range of DEFAULT_JOINT_LIMITS does.
ASSUME LimitsAssumption ==
  /\ Joints \subseteq JointNames
  /\ Lo \in [Joints -> Int]
  /\ Hi \in [Joints -> Int]
  /\ \A j \in Joints : Lo[j] <= 0 /\ 0 <= Hi[j]

ASSUME BoundsAssumption == MaxDuration \in Nat /\ MaxActions \in Nat

ActionTypes == {"set_joint", "set_pose", "wait", "home"}

\* An Action: names are the joints it mentions and angle what it asks of them
\* (elsewhere angle means nothing).  A set_joint names one joint, and none
\* when its angle is missing.
Action == [type : ActionTypes \cup {"unknown type"}, names : SUBSET JointNames,
           angle : [JointNames -> Int], duration : Int]

---------------------------------------------------------------------------
\* clamp: the request forced into the joint's safe range.
Clamp(j, angle) ==
  CASE angle < Lo[j] -> Lo[j]
    [] angle > Hi[j] -> Hi[j]
    [] OTHER         -> angle

\* Mutant: joints that do not exist are let through.
ValidActionAnyJoint(a) ==
  a.type \in ActionTypes /\ a.duration \in 0..MaxDuration

\* One action passes validate_plan.
ValidAction(a) ==
  /\ a.type \in ActionTypes
  /\ a.duration \in 0..MaxDuration
  /\ a.type \in {"set_joint", "set_pose"} =>
       a.names # {} /\ a.names \subseteq Joints

\* validate_plan returns no error.
ValidPlan(p) ==
  /\ Len(p) <= MaxActions
  /\ \A i \in DOMAIN p : ValidAction(p[i])

---------------------------------------------------------------------------
\* The command scope of an action: the joints it may write, and no others.
Scope(a) ==
  CASE a.type = "home" -> Joints
    [] a.type \in {"set_joint", "set_pose"} -> a.names
    [] OTHER -> {}

PlanScope(p) == UNION {Scope(p[i]) : i \in DOMAIN p}

\* Mutant: the request is sent as it is.
GoalUnclamped(a, pose) ==
  [j \in Joints |-> IF j \in Scope(a) THEN a.angle[j] ELSE pose[j]]

\* The pose an action ends in, when it starts in pose: home sends 0, the
\* others the clamped requests; a joint out of scope stays where it is.
Goal(a, pose) ==
  [j \in Joints |->
     IF j \notin Scope(a) THEN pose[j]
     ELSE IF a.type = "home" THEN 0
     ELSE Clamp(j, a.angle[j])]

\* How many waypoints _ramp_to sends: a single snap when the duration is
\* not positive, at least two otherwise.
RampSteps(duration) ==
  CASE duration <= 0 -> 1
    [] duration \in {1, 2} -> 2
    [] OTHER -> duration

\* Waypoint s of n on the straight line between two angles.
Waypoint(from, to, s, n) == from + (((to - from) * s) \div n)

\* The angles on the way between two angles, ends included.
Between(x, y) == IF x <= y THEN x..y ELSE y..x
============================================================================
