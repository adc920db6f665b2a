------------------------ MODULE MotionExecutorProofs ------------------------
(***************************************************************************)
(* Safety of MotionExecutor for every set of joints, limits, plans and     *)
(* resting poses.                                                          *)
(***************************************************************************)
EXTENDS MotionExecutor, TLAPS

---------------------------------------------------------------------------
(* The operators of MotionPlans.                                           *)

\* A waypoint lies between the two ends of its ramp.
LEMMA WaypointBetween ==
  ASSUME NEW from \in Int, NEW to \in Int,
         NEW n \in Nat \ {0}, NEW s \in 1..n
  PROVE  Waypoint(from, to, s, n) \in Between(from, to)
<1> DEFINE d == to - from
           q == (d * s) \div n
<1>1. q \in Int /\ n * q <= d * s /\ d * s < n * q + n
  BY SMT
<1>2. /\ d >= 0 => 0 <= q /\ q <= d
      /\ d <= 0 => d <= q /\ q <= 0
  BY <1>1, SMT
<1> QED
  BY <1>1, <1>2, SMT DEF Waypoint, Between

\* A request is clamped into its joint's range.
LEMMA ClampInLimits ==
  ASSUME NEW j \in Joints, NEW x \in Int
  PROVE  Clamp(j, x) \in Lo[j]..Hi[j] /\ Clamp(j, x) \in Int
BY LimitsAssumption DEF Clamp

\* An action that passes validation writes only joints the executor drives.
LEMMA ScopeInJoints ==
  ASSUME NEW a \in Action, ValidAction(a)
  PROVE  Scope(a) \subseteq Joints
BY DEF Scope, ValidAction, Action

\* The goal of an action is a pose, and inside the limits if the pose it
\* starts from is.
LEMMA GoalIsPose ==
  ASSUME NEW a \in Action, NEW p \in [Joints -> Int]
  PROVE  /\ Goal(a, p) \in [Joints -> Int]
         /\ InLimits(p, Joints) => InLimits(Goal(a, p), Joints)
<1> SUFFICES ASSUME NEW j \in Joints
             PROVE  /\ Goal(a, p)[j] \in Int
                    /\ p[j] \in Lo[j]..Hi[j] => Goal(a, p)[j] \in Lo[j]..Hi[j]
  BY DEF Goal, InLimits
<1>1. a.angle[j] \in Int
  BY LimitsAssumption DEF Action
<1>2. Clamp(j, a.angle[j]) \in Lo[j]..Hi[j] /\ Clamp(j, a.angle[j]) \in Int
  BY <1>1, ClampInLimits
<1>3. 0 \in Lo[j]..Hi[j]
  BY LimitsAssumption
<1> QED
  BY <1>2, <1>3 DEF Goal

LEMMA RampStepsPositive ==
  ASSUME NEW d \in Int
  PROVE  RampSteps(d) \in Nat \ {0}
BY DEF RampSteps

\* home() runs a valid plan.
LEMMA HomePlanValid == HomePlan \in Seq(Action) /\ ValidPlan(HomePlan)
<1> DEFINE zero == [j \in JointNames |-> 0]
           a == [type |-> "home", names |-> {}, angle |-> zero,
                 duration |-> HomeDuration]
<1>1. HomeDuration \in 0..MaxDuration /\ HomeDuration \in Int
  BY PlansAssumption, BoundsAssumption
<1>2. zero \in [JointNames -> Int]
  OBVIOUS
<1>3. a \in Action
  <2> HIDE DEF zero
  <2> QED  BY <1>1, <1>2 DEF Action, ActionTypes
<1>4. ValidAction(a)
  BY <1>1 DEF ValidAction, ActionTypes
<1>5. HomePlan = <<a>>
  BY DEF HomePlan
<1> HIDE DEF a
<1>6. HomePlan \in Seq(Action) /\ Len(HomePlan) = 1 /\ DOMAIN HomePlan = {1}
      /\ HomePlan[1] = a
  BY <1>3, <1>5
<1> QED
  BY <1>4, <1>6, PlansAssumption, BoundsAssumption DEF ValidPlan
---------------------------------------------------------------------------
(* The inductive invariant.                                                *)

\* Control: a ramp runs only inside a call, for one of its valid actions.
ControlInv ==
  /\ status # "moving" => ~Ramping
  /\ ~Ramping => leg = NoLeg /\ todo = {}
  /\ status = "moving" => ValidPlan(plan)
  /\ Ramping =>
       /\ leg.step \in 1..leg.steps
       /\ at \in DOMAIN plan
       /\ leg.scope = Scope(plan[at]) /\ leg.scope \subseteq Joints
       /\ leg.goal = Goal(plan[at], leg.start)

\* A dry run commands nothing.
DryInv == dryRun => known = {} /\ sent = {}

\* The poses a command is computed from are in the limits when what was read
\* from telemetry was.
LimitInv ==
  trusted => /\ InLimits(pose, Joints)
             /\ InLimits(leg.start, Joints) /\ InLimits(leg.goal, Joints)

IInv ==
  /\ TypeOK
  /\ ControlInv
  /\ DryInv
  /\ LimitInv
  /\ BeliefMatchesArm
  /\ WithinLimits
  /\ ScopeRespected
  /\ OnTheWay
---------------------------------------------------------------------------
\* Everything on the way between two angles that are in a joint's range is
\* in its range.
LEMMA BetweenInLimits ==
  ASSUME NEW j \in Joints, NEW x \in Lo[j]..Hi[j], NEW y \in Lo[j]..Hi[j],
         NEW z \in Between(x, y)
  PROVE  z \in Lo[j]..Hi[j]
BY LimitsAssumption DEF Between

\* What the SDK is asked for while a ramp runs.
LEMMA CommandOnTheWay ==
  ASSUME TypeOK, ControlInv, Ramping, NEW j \in leg.scope
  PROVE  /\ Command(j) \in Int
         /\ Command(j) \in Between(leg.start[j], leg.goal[j])
         /\ LimitInv /\ trusted => Command(j) \in Lo[j]..Hi[j]
<1>1. j \in Joints /\ leg.start[j] \in Int /\ leg.goal[j] \in Int
  BY DEF TypeOK
<1>2. leg.steps \in Nat \ {0} /\ leg.step \in 1..leg.steps
  BY DEF TypeOK, ControlInv, Ramping
<1>3. Command(j) \in Between(leg.start[j], leg.goal[j])
  BY <1>1, <1>2, WaypointBetween DEF Command
<1>4. Command(j) \in Int
  BY <1>1, <1>3 DEF Between
<1>5. LimitInv /\ trusted => Command(j) \in Lo[j]..Hi[j]
  BY <1>1, <1>3, BetweenInLimits DEF LimitInv, InLimits
<1> QED
  BY <1>3, <1>4, <1>5

\* The invariant holds when a session opens.
LEMMA InitInv == Init => IInv
<1> SUFFICES ASSUME Init PROVE IInv
  OBVIOUS
<1>1. TypeOK
  BY PlansAssumption DEF Init, TypeOK, NoLeg
<1>2. ControlInv /\ DryInv /\ OnTheWay
  BY DEF Init, ControlInv, DryInv, OnTheWay, Ramping, NoLeg
<1>3. LimitInv
  BY LimitsAssumption DEF Init, LimitInv, InLimits, NoLeg
<1>4. BeliefMatchesArm /\ WithinLimits /\ ScopeRespected
  BY DEF Init, BeliefMatchesArm, WithinLimits, InLimits, ScopeRespected
<1> QED
  BY <1>1, <1>2, <1>3, <1>4 DEF IInv
---------------------------------------------------------------------------
(* Every step keeps the invariant.  Steps that start no ramp and command   *)
(* nothing first.                                                          *)

\* A session that is synced believes what it measured.
LEMMA SyncInv == ASSUME IInv, NEW S \in SUBSET Joints, Sync(S) PROVE IInv'
<1> USE DEF Sync
<1>1. TypeOK'
  BY DEF IInv, TypeOK
<1>2. ControlInv' /\ OnTheWay'
  BY DEF IInv, ControlInv, OnTheWay, Ramping, NoLeg
<1>3. DryInv'
  BY DEF IInv, DryInv
<1>4. LimitInv'
  BY DEF IInv, LimitInv, InLimits, TypeOK
<1>5. BeliefMatchesArm'
  BY DEF IInv, BeliefMatchesArm, TypeOK
<1>6. WithinLimits'
  BY DEF IInv, WithinLimits, InLimits
<1>7. ScopeRespected'
  BY DEF IInv, ScopeRespected, TypeOK
<1> QED
  BY <1>1, <1>2, <1>3, <1>4, <1>5, <1>6, <1>7 DEF IInv

\* A call: only the plan and where it starts change.
LEMMA CallInv ==
  ASSUME IInv, NEW p \in Seq(Action),
         status # "moving",
         status' = IF ValidPlan(p) THEN "moving" ELSE "rejected",
         plan' = p, at' = 1, begin' = [pose |-> pose, arm |-> arm],
         UNCHANGED <<dryRun, pose, arm, leg, todo, known, sent, trusted>>
  PROVE  IInv'
<1>1. TypeOK'
  BY DEF IInv, TypeOK
<1>2. ControlInv' /\ OnTheWay'
  BY DEF IInv, ControlInv, OnTheWay, Ramping, NoLeg
<1>3. DryInv' /\ BeliefMatchesArm'
  BY DEF IInv, DryInv, BeliefMatchesArm
<1>4. LimitInv' /\ WithinLimits'
  BY DEF IInv, LimitInv, WithinLimits, InLimits
<1>5. ScopeRespected'
  BY DEF ScopeRespected
<1> QED
  BY <1>1, <1>2, <1>3, <1>4, <1>5 DEF IInv

LEMMA ExecuteInv == ASSUME IInv, NEW p \in Plans, Execute(p) PROVE IInv'
BY CallInv, PlansAssumption DEF Execute

LEMMA HomeInv == ASSUME IInv, Home PROVE IInv'
BY CallInv, HomePlanValid DEF Home

\* Nothing about the arm or what is believed of it changes, and the step is
\* part of the same call: what is left to show is the control.
LEMMA ControlStep ==
  ASSUME IInv, TypeOK', ControlInv', LimitInv', OnTheWay',
         UNCHANGED <<dryRun, pose, arm, plan, history>>,
         status = "moving", status' # "rejected"
  PROVE  IInv'
<1>1. DryInv' /\ BeliefMatchesArm' /\ WithinLimits'
  BY DEF IInv, DryInv, BeliefMatchesArm, WithinLimits, InLimits, history
<1>2. ScopeRespected'
  BY DEF IInv, ScopeRespected, history
<1> QED
  BY <1>1, <1>2 DEF IInv

LEMMA RunWaitInv == ASSUME IInv, RunWait PROVE IInv'
<1> USE DEF RunWait, history
<1>1. TypeOK'
  BY DEF IInv, TypeOK
<1>2. ControlInv' /\ LimitInv' /\ OnTheWay'
  BY DEF IInv, ControlInv, LimitInv, OnTheWay, Ramping, InLimits
<1> QED
  BY <1>1, <1>2, ControlStep

LEMMA CompleteInv == ASSUME IInv, Complete PROVE IInv'
<1> USE DEF Complete, history
<1>1. leg = NoLeg /\ todo = {}
  BY DEF IInv, ControlInv
<1>2. TypeOK'
  BY DEF IInv, TypeOK
<1>3. ControlInv' /\ LimitInv' /\ OnTheWay'
  BY <1>1 DEF IInv, ControlInv, LimitInv, OnTheWay, Ramping, InLimits
<1> QED
  BY <1>2, <1>3, ControlStep
LEMMA InterruptInv == ASSUME IInv, Interrupt PROVE IInv'
<1> USE DEF Interrupt, history
<1>1. leg' = NoLeg /\ todo' = {} /\ ~Ramping'
  BY DEF NoLeg, Ramping
<1>2. TypeOK'
  BY DEF IInv, TypeOK, NoLeg
<1>3. ControlInv' /\ OnTheWay'
  BY <1>1 DEF ControlInv, OnTheWay
<1>4. LimitInv'
  BY <1>1, LimitsAssumption DEF IInv, LimitInv, InLimits, NoLeg
<1> QED
  BY <1>2, <1>3, <1>4, ControlStep

LEMMA EndRampInv == ASSUME IInv, EndRamp PROVE IInv'
<1> USE DEF EndRamp, history
<1>1. leg' = NoLeg /\ todo' = {} /\ ~Ramping'
  BY DEF NoLeg, Ramping
<1>2. TypeOK'
  BY DEF IInv, TypeOK, NoLeg
<1>3. ControlInv' /\ OnTheWay'
  BY <1>1 DEF IInv, ControlInv, OnTheWay
<1>4. LimitInv'
  BY <1>1, LimitsAssumption DEF IInv, LimitInv, InLimits, NoLeg
<1> QED
  BY <1>2, <1>3, <1>4, ControlStep

LEMMA NextWaypointInv == ASSUME IInv, NextWaypoint PROVE IInv'
<1> USE DEF NextWaypoint, history
<1>1. leg \in [scope : SUBSET Joints, start : [Joints -> Int],
               goal : [Joints -> Int], step : Nat, steps : Nat]
  BY DEF IInv, TypeOK
<1>2. /\ leg'.scope = leg.scope /\ leg'.start = leg.start
      /\ leg'.goal = leg.goal /\ leg'.steps = leg.steps
      /\ leg'.step = leg.step + 1
  BY <1>1
<1>3. TypeOK'
  <2>1. leg' \in [scope : SUBSET Joints, start : [Joints -> Int],
                 goal : [Joints -> Int], step : Nat, steps : Nat]
    BY <1>1
  <2>2. todo' \subseteq leg'.scope
    BY <1>2
  <2> QED
    BY <2>1, <2>2 DEF IInv, TypeOK
<1>4. ControlInv'
  <2>1. Ramping /\ Ramping' /\ leg'.step \in 1..leg'.steps
    BY <1>1, <1>2 DEF Ramping
  <2>2. /\ at \in DOMAIN plan /\ leg.scope = Scope(plan[at])
        /\ leg.scope \subseteq Joints /\ leg.goal = Goal(plan[at], leg.start)
        /\ ValidPlan(plan)
    BY <2>1 DEF IInv, ControlInv
  <2> QED
    BY <1>2, <2>1, <2>2 DEF ControlInv
<1>5. OnTheWay' /\ LimitInv'
  BY <1>2 DEF IInv, OnTheWay, LimitInv, InLimits, Ramping
<1> QED
  BY <1>3, <1>4, <1>5, ControlStep

\* A ramp starts on its way, and its goal is in the limits if its start is.
LEMMA BeginRampInv == ASSUME IInv, BeginRamp PROVE IInv'
<1> USE DEF BeginRamp, history
<1> DEFINE a == plan[at]
<1>1. /\ a \in Action /\ ValidAction(a) /\ a.duration \in Int
      /\ pose \in [Joints -> Int]
  <2>1. a \in Action
    BY DEF IInv, TypeOK
  <2>2. a.duration \in Int
    BY <2>1 DEF Action
  <2>3. ValidAction(a)
    BY DEF IInv, ControlInv, ValidPlan
  <2> QED
    BY <2>1, <2>2, <2>3 DEF IInv, TypeOK
<1>2. /\ Scope(a) \subseteq Joints
      /\ Goal(a, pose) \in [Joints -> Int]
      /\ InLimits(pose, Joints) => InLimits(Goal(a, pose), Joints)
      /\ RampSteps(a.duration) \in Nat \ {0}
  BY <1>1, ScopeInJoints, GoalIsPose, RampStepsPositive
<1>3. /\ leg'.scope = Scope(a) /\ leg'.start = pose
      /\ leg'.goal = Goal(a, pose) /\ leg'.step = 1
      /\ leg'.steps = RampSteps(a.duration)
  OBVIOUS
<1>4. TypeOK'
  BY <1>2 DEF IInv, TypeOK
<1>5. ControlInv'
  BY <1>2, <1>3 DEF IInv, ControlInv, Ramping
<1>6. LimitInv'
  BY <1>2, <1>3 DEF IInv, LimitInv
<1>7. OnTheWay'
  BY <1>1, <1>2, <1>3 DEF OnTheWay, Between
<1> QED
  BY <1>4, <1>5, <1>6, <1>7, ControlStep
---------------------------------------------------------------------------
(* The steps that command the arm.                                         *)

\* One joint is set: what it is asked for is on its way and in the limits,
\* and it is a joint of the plan.
LEMMA SetJointInv ==
  ASSUME IInv, NEW j \in Joints, SetJoint(j) PROVE IInv'
<1> USE DEF SetJoint
<1>1. /\ Ramping /\ j \in leg.scope /\ j \in PlanScope(plan)
      /\ pose \in [Joints -> Int] /\ arm \in [Joints -> Int]
  BY DEF IInv, TypeOK, ControlInv, PlanScope
<1>2. /\ Command(j) \in Int
      /\ Command(j) \in Between(leg.start[j], leg.goal[j])
      /\ trusted => Command(j) \in Lo[j]..Hi[j]
  BY <1>1, CommandOnTheWay DEF IInv
<1> DEFINE c == Command(j)
<1> HIDE DEF c
<1>3. /\ pose' = [pose EXCEPT ![j] = c]
      /\ \/ dryRun /\ arm' = arm /\ known' = known /\ sent' = sent
         \/ /\ ~dryRun /\ arm' = [arm EXCEPT ![j] = c]
            /\ known' = known \cup {j} /\ sent' = sent \cup {j}
  BY DEF c
<1>4. TypeOK'
  BY <1>1, <1>2, <1>3 DEF IInv, TypeOK, c
<1>5. ControlInv' /\ DryInv'
  BY <1>1, <1>3 DEF IInv, ControlInv, DryInv, Ramping
<1>6. LimitInv'
  BY <1>1, <1>2, <1>3 DEF IInv, LimitInv, InLimits, c
<1>7. BeliefMatchesArm'
  BY <1>1, <1>3 DEF IInv, TypeOK, DryInv, BeliefMatchesArm
<1>8. WithinLimits'
  BY <1>1, <1>2, <1>3 DEF IInv, TypeOK, WithinLimits, InLimits, c
<1>9. ScopeRespected'
  BY <1>1, <1>3 DEF IInv, ScopeRespected
<1>10. OnTheWay'
  BY <1>1, <1>2, <1>3 DEF IInv, TypeOK, OnTheWay, Ramping, c
<1> QED
  BY <1>4, <1>5, <1>6, <1>7, <1>8, <1>9, <1>10 DEF IInv

\* The SDK raises: the twin may have taken the command, and then what the
\* executor believes of that joint no longer counts as known.
LEMMA SetFailsInv ==
  ASSUME IInv, NEW j \in Joints, SetFails(j) PROVE IInv'
<1> USE DEF SetFails
<1>1. /\ Ramping /\ j \in leg.scope /\ j \in PlanScope(plan)
      /\ arm \in [Joints -> Int]
  BY DEF IInv, TypeOK, ControlInv, PlanScope
<1>2. /\ Command(j) \in Int
      /\ trusted => Command(j) \in Lo[j]..Hi[j]
  BY <1>1, CommandOnTheWay DEF IInv
<1> DEFINE c == Command(j)
<1> HIDE DEF c
<1>3. \/ arm' = arm /\ known' = known /\ sent' = sent
      \/ /\ arm' = [arm EXCEPT ![j] = c]
         /\ known' = known \ {j} /\ sent' = sent \cup {j}
  BY DEF c
<1>4. leg' = NoLeg /\ todo' = {} /\ ~Ramping'
  BY DEF NoLeg, Ramping
<1>5. TypeOK'
  BY <1>1, <1>2, <1>3 DEF IInv, TypeOK, NoLeg, c
<1>6. ControlInv' /\ OnTheWay'
  BY <1>4 DEF ControlInv, OnTheWay
<1>7. DryInv'
  BY DEF DryInv
<1>8. LimitInv'
  BY <1>4, LimitsAssumption DEF IInv, LimitInv, InLimits, NoLeg
<1>9. BeliefMatchesArm'
  BY <1>1, <1>3 DEF IInv, TypeOK, BeliefMatchesArm
<1>10. WithinLimits'
  BY <1>1, <1>2, <1>3 DEF IInv, TypeOK, WithinLimits, InLimits, c
<1>11. ScopeRespected'
  BY <1>1, <1>3 DEF IInv, ScopeRespected
<1> QED
  BY <1>5, <1>6, <1>7, <1>8, <1>9, <1>10, <1>11 DEF IInv
---------------------------------------------------------------------------
LEMMA StutterInv == ASSUME IInv, UNCHANGED vars PROVE IInv'
BY DEF vars, history, IInv, TypeOK, ControlInv, DryInv, LimitInv, InLimits,
       BeliefMatchesArm, WithinLimits, ScopeRespected, OnTheWay, Ramping

LEMMA StepInv == IInv /\ [Next]_vars => IInv'
<1> SUFFICES ASSUME IInv, [Next]_vars PROVE IInv'
  OBVIOUS
<1>1. ASSUME NEW S \in SUBSET Joints, Sync(S) PROVE IInv'
  BY <1>1, SyncInv
<1>2. ASSUME NEW p \in Plans, Execute(p) PROVE IInv'
  BY <1>2, ExecuteInv
<1>3. CASE Home
  BY <1>3, HomeInv
<1>4. CASE RunWait
  BY <1>4, RunWaitInv
<1>5. CASE BeginRamp
  BY <1>5, BeginRampInv
<1>6. ASSUME NEW j \in Joints, SetJoint(j) PROVE IInv'
  BY <1>6, SetJointInv
<1>7. CASE NextWaypoint
  BY <1>7, NextWaypointInv
<1>8. CASE EndRamp
  BY <1>8, EndRampInv
<1>9. CASE Complete
  BY <1>9, CompleteInv
<1>10. ASSUME NEW j \in Joints, SetFails(j) PROVE IInv'
  BY <1>10, SetFailsInv
<1>11. CASE Interrupt
  BY <1>11, InterruptInv
<1>12. CASE UNCHANGED vars
  BY <1>12, StutterInv
<1> QED
  BY <1>1, <1>2, <1>3, <1>4, <1>5, <1>6, <1>7, <1>8, <1>9, <1>10, <1>11,
     <1>12 DEF Next, Progress

\* IInv is inductive.
THEOREM InductiveInvariant == Spec => []IInv
BY InitInv, StepInv, PTL DEF Spec

\* Every variable keeps its type.
THEOREM TypeCorrect == Spec => []TypeOK
<1>1. IInv => TypeOK
  BY DEF IInv
<1> QED
  BY <1>1, InductiveInvariant, PTL

\* No angle outside the limits is sent once a session starts from poses in
\* them, through interrupted ramps and resumed ones.
THEOREM LimitsHold == Spec => []WithinLimits
<1>1. IInv => WithinLimits
  BY DEF IInv
<1> QED
  BY <1>1, InductiveInvariant, PTL

\* The pose kept for a joint that was measured or commanded is the arm's.
THEOREM BeliefIsRight == Spec => []BeliefMatchesArm
<1>1. IInv => BeliefMatchesArm
  BY DEF IInv
<1> QED
  BY <1>1, InductiveInvariant, PTL

\* A refused plan moves nothing, a plan only what it names.
THEOREM ScopeHolds == Spec => []ScopeRespected
<1>1. IInv => ScopeRespected
  BY DEF IInv
<1> QED
  BY <1>1, InductiveInvariant, PTL

\* No waypoint leaves the way from start to goal.
THEOREM RampsStayOnTheWay == Spec => []OnTheWay
<1>1. IInv => OnTheWay
  BY DEF IInv
<1> QED
  BY <1>1, InductiveInvariant, PTL
---------------------------------------------------------------------------
(* Where a ramp stands.                                                    *)

\* Where waypoint s of the ramp has joint j.
Reached(j, s) == Waypoint(leg.start[j], leg.goal[j], s, leg.steps)

\* A joint is at the waypoint that is being set, or still at the one before;
\* one out of scope where the ramp found it.
WayInv ==
  Ramping =>
    /\ \A j \in Joints \ leg.scope : pose[j] = leg.start[j]
    /\ \A j \in leg.scope \ todo : pose[j] = Reached(j, leg.step)
    /\ \A j \in todo : pose[j] = Reached(j, leg.step - 1)

\* The waypoints begin at the start and end in the goal.
LEMMA WaypointEnds ==
  ASSUME NEW from \in Int, NEW to \in Int, NEW n \in Nat \ {0}
  PROVE  Waypoint(from, to, 0, n) = from /\ Waypoint(from, to, n, n) = to
<1> DEFINE d == to - from
<1>1. d * 0 = 0 /\ 0 \div n = 0
  <2>1. ASSUME NEW q \in Int, n * q <= 0, 0 < n * q + n
        PROVE  q = 0
    BY <2>1, SMT
  <2>2. 0 \div n \in Int /\ n * (0 \div n) <= 0 /\ 0 < n * (0 \div n) + n
    BY SMT
  <2> QED
    BY <2>1, <2>2, SMT
<1>2. (d * n) \div n = d
  <2> DEFINE q == (d * n) \div n
  <2>1. q \in Int /\ n * q <= d * n /\ d * n < n * q + n
    BY SMT
  <2> HIDE DEF q
  <2>2. d \in Int
    OBVIOUS
  <2> HIDE DEF d
  <2>3. n * q <= n * d /\ n * d < n * (q + 1)
    BY <2>1, <2>2, SMT
  <2>4. q <= d /\ d < q + 1
    BY <2>1, <2>2, <2>3, SMT
  <2> QED
    BY <2>1, <2>2, <2>4, SMT DEF q
<1> QED
  BY <1>1, <1>2, SMT DEF Waypoint

\* Two waypoints that follow each other are at most one share of the way
\* apart, rounded up.
LEMMA WaypointsAreClose ==
  ASSUME NEW from \in Int, NEW to \in Int, NEW n \in Nat \ {0}, NEW s \in 1..n
  PROVE  Distance(Waypoint(from, to, s - 1, n), Waypoint(from, to, s, n))
           <= 1 + Distance(from, to) \div n
<1> DEFINE d == to - from
           q == (d * (s - 1)) \div n
           r == (d * s) \div n
           p == Distance(from, to) \div n
<1>1. /\ d \in Int /\ s \in Int
      /\ Distance(from, to) = IF d < 0 THEN -d ELSE d
      /\ Distance(from, to) \in Nat
  BY SMT DEF Distance
<1>2. q \in Int /\ n * q <= d * (s - 1) /\ d * (s - 1) < n * q + n
  BY SMT
<1>3. r \in Int /\ n * r <= d * s /\ d * s < n * r + n
  BY SMT
<1>4. p \in Int /\ n * p <= Distance(from, to) /\ Distance(from, to) < n * p + n
  BY <1>1, SMT
<1>5. Waypoint(from, to, s - 1, n) = from + q /\ Waypoint(from, to, s, n) = from + r
  BY DEF Waypoint
<1> HIDE DEF d, q, r, p
<1>6. d * (s - 1) = d * s - d
  BY <1>1, SMT
<1>7. n * r - n * q < d + n /\ d - n < n * r - n * q
  BY <1>1, <1>2, <1>3, <1>6, SMT
<1>8. \A x, y \in Int : n * x < n * y => x < y
  BY SMT
<1>9. CASE d >= 0
  <2>1. n * (r - q) < n * (p + 2) /\ n * (0 - 1) < n * (r - q)
    BY <1>1, <1>2, <1>3, <1>4, <1>7, <1>9, SMT
  <2>2. r - q < p + 2 /\ -1 < r - q
    BY <1>2, <1>3, <1>4, <1>8, <2>1
  <2> QED
    BY <1>2, <1>3, <1>4, <1>5, <2>2, SMT DEF Distance, p
<1>10. CASE d < 0
  <2>1. n * (q - r) < n * (p + 2) /\ n * (0 - 1) < n * (q - r)
    BY <1>1, <1>2, <1>3, <1>4, <1>7, <1>10, SMT
  <2>2. q - r < p + 2 /\ -1 < q - r
    BY <1>2, <1>3, <1>4, <1>8, <2>1
  <2> QED
    BY <1>2, <1>3, <1>4, <1>5, <2>2, SMT DEF Distance, p
<1> QED
  BY <1>1, <1>9, <1>10

\* A ramp is set up only by BeginRamp, and only three steps go on with it.
LEMMA InitWay == Init => WayInv
BY DEF Init, WayInv, Ramping, NoLeg

LEMMA SetJointWay ==
  ASSUME IInv, WayInv, NEW j \in Joints, SetJoint(j) PROVE WayInv'
<1>1. /\ Ramping /\ j \in todo /\ todo \subseteq leg.scope /\ leg.scope \subseteq Joints
      /\ pose \in [Joints -> Int]
  BY DEF SetJoint, IInv, TypeOK
<1>2. /\ todo' = todo \ {j} /\ pose' = [pose EXCEPT ![j] = Reached(j, leg.step)]
      /\ leg' = leg
  BY DEF SetJoint, Command, Reached
<1> DEFINE c == Reached(j, leg.step)
<1> HIDE DEF c
<1>3. pose'[j] = c /\ \A i \in Joints \ {j} : pose'[i] = pose[i]
  BY <1>1, <1>2 DEF c
<1>4. /\ \A i \in Joints \ leg.scope : pose[i] = leg.start[i]
      /\ \A i \in leg.scope \ todo : pose[i] = Reached(i, leg.step)
      /\ \A i \in todo : pose[i] = Reached(i, leg.step - 1)
  BY <1>1 DEF WayInv
<1>5. \A i \in Joints \ leg.scope : pose'[i] = leg.start[i]
  BY <1>1, <1>3, <1>4
<1>6. \A i \in leg.scope \ todo' : pose'[i] = Reached(i, leg.step)
  <2> SUFFICES ASSUME NEW i \in leg.scope \ todo' PROVE pose'[i] = Reached(i, leg.step)
    OBVIOUS
  <2>1. CASE i = j
    BY <1>3, <2>1 DEF c
  <2>2. CASE i # j
    BY <1>1, <1>2, <1>3, <1>4, <2>2
  <2> QED
    BY <2>1, <2>2
<1>7. \A i \in todo' : pose'[i] = Reached(i, leg.step - 1)
  BY <1>1, <1>2, <1>3, <1>4
<1> QED
  BY <1>2, <1>5, <1>6, <1>7 DEF WayInv, Reached

LEMMA NextWaypointWay ==
  ASSUME IInv, WayInv, NextWaypoint PROVE WayInv'
<1>1. /\ Ramping /\ todo = {} /\ todo' = leg.scope /\ pose' = pose
      /\ leg' = [leg EXCEPT !.step = leg.step + 1]
      /\ leg \in [scope : SUBSET Joints, start : [Joints -> Int],
                 goal : [Joints -> Int], step : Nat, steps : Nat]
  BY DEF NextWaypoint, IInv, TypeOK
<1>2. /\ leg'.scope = leg.scope /\ leg'.start = leg.start /\ leg'.goal = leg.goal
      /\ leg'.steps = leg.steps /\ leg'.step = leg.step + 1 /\ leg.step \in Nat
  BY <1>1
<1>3. leg'.step - 1 = leg.step
  BY <1>2
<1>4. /\ \A i \in Joints \ leg.scope : pose[i] = leg.start[i]
      /\ \A i \in leg.scope : pose[i] = Reached(i, leg.step)
  BY <1>1 DEF WayInv
<1> QED
  BY <1>1, <1>2, <1>3, <1>4 DEF WayInv, Reached

LEMMA BeginRampWay ==
  ASSUME IInv, IInv', BeginRamp PROVE WayInv'
<1>1. /\ leg'.scope = todo' /\ leg'.start = pose /\ leg'.step = 1 /\ pose' = pose
  BY DEF BeginRamp
<1>2. /\ leg' \in [scope : SUBSET Joints, start : [Joints -> Int],
                  goal : [Joints -> Int], step : Nat, steps : Nat]
  BY DEF IInv, TypeOK
<1>3. ASSUME Ramping', NEW i \in todo'
      PROVE  pose'[i] = Waypoint(leg'.start[i], leg'.goal[i], 0, leg'.steps)
  <2>1. /\ i \in Joints /\ leg'.start[i] \in Int /\ leg'.goal[i] \in Int
        /\ leg'.steps \in Nat \ {0}
    BY <1>1, <1>2, <1>3 DEF Ramping
  <2> QED
    BY <1>1, <2>1, WaypointEnds
<1> QED
  BY <1>1, <1>3 DEF WayInv, Reached

LEMMA StepWay == ASSUME IInv, IInv', WayInv, [Next]_vars PROVE WayInv'
<1>1. ASSUME UNCHANGED <<pose, leg, todo>> PROVE WayInv'
  BY <1>1 DEF WayInv, Ramping, Reached
<1>2. ASSUME leg' = NoLeg PROVE WayInv'
  BY <1>2 DEF WayInv, Ramping, NoLeg
<1>3. ASSUME NEW S \in SUBSET Joints, Sync(S) PROVE WayInv'
  BY <1>3 DEF Sync, IInv, ControlInv, WayInv, Ramping
<1>4. ASSUME NEW p \in Plans, Execute(p) PROVE WayInv'
  BY <1>1, <1>4 DEF Execute
<1>5. CASE Home \/ RunWait \/ Complete
  BY <1>1, <1>5 DEF Home, RunWait, Complete
<1>6. CASE EndRamp \/ Interrupt
  BY <1>2, <1>6 DEF EndRamp, Interrupt
<1>7. ASSUME NEW j \in Joints, SetFails(j) PROVE WayInv'
  BY <1>2, <1>7 DEF SetFails
<1>8. ASSUME NEW j \in Joints, SetJoint(j) PROVE WayInv'
  BY <1>8, SetJointWay
<1>9. CASE NextWaypoint
  BY <1>9, NextWaypointWay
<1>10. CASE BeginRamp
  BY <1>10, BeginRampWay
<1>11. CASE UNCHANGED vars
  BY <1>1, <1>11 DEF vars
<1> QED
  BY <1>3, <1>4, <1>5, <1>6, <1>7, <1>8, <1>9, <1>10, <1>11 DEF Next, Progress

LEMMA WayHolds == Spec => [](IInv /\ WayInv)
<1>1. Init => IInv /\ WayInv
  BY InitInv, InitWay
<1>2. IInv /\ WayInv /\ [Next]_vars => (IInv /\ WayInv)'
  BY StepInv, StepWay
<1> QED
  BY <1>1, <1>2, PTL DEF Spec

\* A joint that is to be set now is one waypoint behind.
LEMMA OneWaypoint ==
  ASSUME IInv, WayInv, Ramping, NEW j \in todo
  PROVE  Distance(pose[j], Command(j)) <= 1 + Distance(leg.start[j], leg.goal[j]) \div leg.steps
<1>1. /\ j \in Joints /\ leg.start[j] \in Int /\ leg.goal[j] \in Int
      /\ leg.steps \in Nat \ {0} /\ leg.step \in 1..leg.steps
  BY DEF IInv, TypeOK, ControlInv, Ramping
<1>2. /\ pose[j] = Waypoint(leg.start[j], leg.goal[j], leg.step - 1, leg.steps)
      /\ Command(j) = Waypoint(leg.start[j], leg.goal[j], leg.step, leg.steps)
  BY DEF WayInv, Reached, Command
<1> QED
  BY <1>1, <1>2, WaypointsAreClose

Sweeps(j) ==
  \/ arm'[j] = arm[j]
  \/ Distance(arm[j], arm'[j]) <= 1 + Distance(leg.start[j], leg.goal[j]) \div leg.steps

LEMMA CommandSweeps ==
  ASSUME IInv, WayInv, NEW i \in Joints, Ramping, i \in todo,
         arm' = [arm EXCEPT ![i] = Command(i)], NEW j \in known
  PROVE  Sweeps(j)
<1>1. arm \in [Joints -> Int] /\ j \in Joints /\ arm[j] = pose[j]
  BY DEF IInv, TypeOK, BeliefMatchesArm
<1>2. CASE j = i
  <2>1. arm'[j] = Command(j)
    BY <1>1, <1>2
  <2> QED
    BY <1>1, <1>2, <2>1, OneWaypoint DEF Sweeps
<1>3. CASE j # i
  BY <1>1, <1>3 DEF Sweeps
<1> QED
  BY <1>2, <1>3

\* A known joint moves by at most one share of its way per command:
\* MotionExecutor._ramp_to, motion.py:236.
THEOREM SweepIsSmooth == Spec => SmoothSweep
<1>1. ASSUME IInv, WayInv, [Next]_vars
      PROVE  \A j \in known : Sweeps(j)
  <2> SUFFICES ASSUME NEW j \in known PROVE Sweeps(j)
    OBVIOUS
  <2>1. ASSUME arm' = arm PROVE Sweeps(j)
    BY <2>1 DEF Sweeps
  <2>2. ASSUME NEW i \in Joints, SetJoint(i) PROVE Sweeps(j)
    <3>1. \/ arm' = arm
          \/ Ramping /\ i \in todo /\ arm' = [arm EXCEPT ![i] = Command(i)]
      BY <2>2 DEF SetJoint
    <3> QED
      BY <1>1, <2>1, <3>1, CommandSweeps
  <2>3. ASSUME NEW i \in Joints, SetFails(i) PROVE Sweeps(j)
    <3>1. \/ arm' = arm
          \/ Ramping /\ i \in todo /\ arm' = [arm EXCEPT ![i] = Command(i)]
      BY <2>3 DEF SetFails
    <3> QED
      BY <1>1, <2>1, <3>1, CommandSweeps
  <2>4. CASE \/ \E S \in SUBSET Joints : Sync(S)
             \/ \E p \in Plans : Execute(p)
             \/ Home \/ RunWait \/ BeginRamp \/ NextWaypoint \/ EndRamp
             \/ Complete \/ Interrupt \/ UNCHANGED vars
    BY <2>1, <2>4 DEF Sync, Execute, Home, RunWait, BeginRamp, NextWaypoint, EndRamp,
       Complete, Interrupt, vars
  <2> QED
    BY <1>1, <2>2, <2>3, <2>4 DEF Next, Progress
<1>2. IInv /\ WayInv /\ [Next]_vars =>
        [\A j \in known :
           \/ arm'[j] = arm[j]
           \/ Distance(arm[j], arm'[j])
                <= 1 + Distance(leg.start[j], leg.goal[j]) \div leg.steps]_vars
  BY <1>1 DEF Sweeps
<1> QED
  BY <1>2, WayHolds, PTL DEF Spec, SmoothSweep
---------------------------------------------------------------------------
(* MotionExecutor keeps the promise of ArmPlan: a ramp is one step of it,  *)
(* taken when the ramp ends or is cut short.                               *)

\* The promise reads plans as the executor does.
LEMMA SameGoal ==
  ASSUME NEW a, NEW p
  PROVE  Promise!Goal(a, p) = Goal(a, p)
BY DEF Promise!Goal, Goal, Promise!Scope, Scope, Promise!Clamp, Clamp

LEMMA SamePlans ==
  ASSUME NEW p
  PROVE  Promise!ValidPlan(p) <=> ValidPlan(p)
BY DEF Promise!ValidPlan, ValidPlan, Promise!ValidAction, ValidAction,
       Promise!ActionTypes, ActionTypes

LEMMA SameBetween ==
  ASSUME NEW x, NEW y
  PROVE  Promise!Between(x, y) = Between(x, y)
BY DEF Promise!Between, Between

\* The pose of the promise: the one the running ramp found.
Stood == IF Ramping THEN leg.start ELSE pose

LEMMA StoodIsPose == ASSUME IInv PROVE Stood \in [Joints -> Int]
BY DEF IInv, TypeOK, Stood

LEMMA PromiseInit == Init => Promise!PlanInit
BY DEF Init, Promise!PlanInit, Ramping, NoLeg

\* Where a joint can be when a call is cut short.
LEMMA StoppedOnTheWay ==
  ASSUME IInv, WayInv, status = "moving", NEW j \in Joints
  PROVE  IF at \in DOMAIN plan
         THEN pose[j] \in Between(Stood[j], Goal(plan[at], Stood)[j])
         ELSE pose[j] = Stood[j]
<1>1. CASE ~Ramping
  <2>1. Stood = pose /\ pose \in [Joints -> Int]
    BY <1>1 DEF Stood, IInv, TypeOK
  <2>2. ASSUME at \in DOMAIN plan
        PROVE  pose[j] \in Between(pose[j], Goal(plan[at], pose)[j])
    <3>1. plan[at] \in Action
      BY <2>2 DEF IInv, TypeOK
    <3>2. pose[j] \in Int /\ Goal(plan[at], pose)[j] \in Int
      BY <2>1, <3>1, GoalIsPose
    <3> QED
      BY <3>2 DEF Between
  <2> QED
    BY <2>1, <2>2
<1>2. CASE Ramping
  <2>1. /\ Stood = leg.start /\ at \in DOMAIN plan
        /\ leg.goal = Goal(plan[at], leg.start) /\ leg.scope = Scope(plan[at])
        /\ leg.start[j] \in Int
    BY <1>2 DEF Stood, IInv, ControlInv, TypeOK
  <2>2. CASE j \in leg.scope
    BY <1>2, <2>1, <2>2 DEF IInv, OnTheWay
  <2>3. CASE j \notin leg.scope
    <3>1. pose[j] = leg.start[j] /\ leg.goal[j] = leg.start[j]
      BY <1>2, <2>1, <2>3 DEF WayInv, Goal
    <3> QED
      BY <2>1, <3>1 DEF Between
  <2> QED
    BY <2>1, <2>2, <2>3
<1> QED
  BY <1>1, <1>2

\* The last waypoint is the goal.
LEMMA RampEndsInGoal ==
  ASSUME IInv, WayInv, EndRamp
  PROVE  pose = Goal(plan[at], leg.start)
<1>1. /\ Ramping /\ todo = {} /\ leg.step = leg.steps
      /\ leg.goal = Goal(plan[at], leg.start) /\ leg.scope = Scope(plan[at])
      /\ leg.goal \in [Joints -> Int] /\ leg.start \in [Joints -> Int]
      /\ pose \in [Joints -> Int] /\ leg.steps \in Nat \ {0}
  BY DEF EndRamp, IInv, ControlInv, TypeOK, Ramping
<1> SUFFICES ASSUME NEW j \in Joints PROVE pose[j] = leg.goal[j]
  BY <1>1
<1>2. CASE j \in leg.scope
  BY <1>1, <1>2, WaypointEnds DEF WayInv, Reached
<1>3. CASE j \notin leg.scope
  BY <1>1, <1>3 DEF WayInv, Goal
<1> QED
  BY <1>2, <1>3

\* A call that is cut short.
LEMMA CutShort ==
  ASSUME IInv, WayInv, status = "moving", status' \in {"raised", "interrupted"},
         leg' = NoLeg, UNCHANGED <<pose, plan, at>>
  PROVE  Promise!Abort
<1>1. Stood' = pose /\ pose \in [Joints -> Int]
  BY DEF Stood, Ramping, NoLeg, IInv, TypeOK
<1>2. \A j \in Joints :
        IF at \in DOMAIN plan
        THEN Stood'[j] \in Promise!Between(Stood[j], Promise!Goal(plan[at], Stood)[j])
        ELSE Stood'[j] = Stood[j]
  BY <1>1, StoppedOnTheWay, SameGoal, SameBetween
<1> QED
  BY <1>1, <1>2 DEF Promise!Abort, Stood

\* Steps of a ramp are not seen.
LEMMA UnseenSteps ==
  ASSUME IInv,
         \/ BeginRamp
         \/ \E j \in Joints : SetJoint(j)
         \/ NextWaypoint
         \/ UNCHANGED vars
  PROVE  UNCHANGED Promise!planVars
<1>1. CASE BeginRamp
  <2>1. plan[at] \in Action
    BY <1>1 DEF BeginRamp, IInv, TypeOK
  <2>2. plan[at].duration \in Int
    BY <2>1 DEF Action
  <2>3. RampSteps(plan[at].duration) > 0
    BY <2>2, RampStepsPositive
  <2>4. Ramping' /\ leg'.start = pose
    BY <1>1, <2>3 DEF BeginRamp, Ramping
  <2> QED
    BY <1>1, <2>4 DEF BeginRamp, Promise!planVars
<1>2. CASE \E j \in Joints : SetJoint(j)
  BY <1>2 DEF SetJoint, Promise!planVars, Ramping
<1>3. CASE NextWaypoint
  <2>1. leg'.start = leg.start /\ leg'.steps = leg.steps
    BY <1>3 DEF NextWaypoint, IInv, TypeOK
  <2> QED
    BY <1>3, <2>1 DEF NextWaypoint, Promise!planVars, Ramping
<1>4. CASE UNCHANGED vars
  BY <1>4 DEF vars, Promise!planVars, Ramping
<1> QED
  BY <1>1, <1>2, <1>3, <1>4

LEMMA SyncResyncs ==
  ASSUME IInv, NEW S \in SUBSET Joints, Sync(S) PROVE Promise!Resync
<1>1. ~Ramping /\ ~Ramping'
  BY DEF Sync, IInv, ControlInv, Ramping
<1>2. pose' \in [Joints -> Int]
  BY DEF Sync, IInv, TypeOK
<1> QED
  BY <1>1, <1>2 DEF Sync, Promise!Resync

\* execute and home() submit their plan.
LEMMA CallsSubmit ==
  ASSUME IInv,
         \/ \E p \in Plans : Execute(p)
         \/ Home
  PROVE  \E p \in Plans \cup {HomePlan} : Promise!Submit(p)
<1>1. ASSUME NEW p \in Plans, Execute(p) PROVE Promise!Submit(p)
  BY <1>1, SamePlans DEF Execute, Promise!Submit, Ramping
<1>2. CASE Home
  <2>1. Promise!Submit(HomePlan)
    BY <1>2, SamePlans, HomePlanValid DEF Home, Promise!Submit, Ramping
  <2> QED
    BY <2>1
<1> QED
  BY <1>1, <1>2

\* An action that has run: a wait, or the end of a ramp.
LEMMA ActionsPerform ==
  ASSUME IInv, WayInv, RunWait \/ EndRamp PROVE Promise!Perform
<1>1. CASE RunWait
  <2>1. Scope(plan[at]) = {} /\ pose \in [Joints -> Int] /\ ~Ramping /\ ~Ramping'
    BY <1>1 DEF RunWait, Scope, IInv, TypeOK, Ramping
  <2>2. Goal(plan[at], pose) = pose
    BY <2>1 DEF Goal
  <2> QED
    BY <1>1, <2>1, <2>2, SameGoal DEF RunWait, Promise!Perform
<1>2. CASE EndRamp
  <2>1. Ramping /\ ~Ramping' /\ at \in DOMAIN plan
    BY <1>2 DEF EndRamp, Ramping, NoLeg, IInv, ControlInv
  <2>2. pose = Promise!Goal(plan[at], leg.start)
    BY <1>2, RampEndsInGoal, SameGoal
  <2> QED
    BY <1>2, <2>1, <2>2 DEF EndRamp, Promise!Perform
<1> QED
  BY <1>1, <1>2

LEMMA PromiseStep ==
  ASSUME IInv, WayInv, [Next]_vars
  PROVE  [Promise!PlanNext]_(Promise!planVars)
<1>1. ASSUME NEW S \in SUBSET Joints, Sync(S) PROVE Promise!PlanNext
  BY <1>1, SyncResyncs DEF Promise!PlanNext
<1>2. CASE (\E p \in Plans : Execute(p)) \/ Home
  BY <1>2, CallsSubmit DEF Promise!PlanNext
<1>3. CASE RunWait \/ EndRamp
  BY <1>3, ActionsPerform DEF Promise!PlanNext
<1>4. CASE Complete
  BY <1>4 DEF Complete, Promise!PlanNext, Promise!Finish, Ramping
<1>5. ASSUME NEW j \in Joints, SetFails(j) PROVE Promise!PlanNext
  BY <1>5, CutShort DEF SetFails, Promise!PlanNext
<1>6. CASE Interrupt
  BY <1>6, CutShort DEF Interrupt, Promise!PlanNext
<1>7. CASE \/ BeginRamp
           \/ \E j \in Joints : SetJoint(j)
           \/ NextWaypoint
           \/ UNCHANGED vars
  BY <1>7, UnseenSteps
<1> QED
  BY <1>1, <1>2, <1>3, <1>4, <1>5, <1>6, <1>7 DEF Next, Progress

\* The executor implements ArmPlan: a plan is refused as a whole or its
\* actions take effect one after the other, each ending exactly in its goal,
\* and a call cut short leaves its joints on their way (motion.py:190-290).
THEOREM PromiseKept == Spec => KeepsPromise
<1>1. Init => Promise!PlanInit
  BY PromiseInit
<1>2. IInv /\ WayInv /\ [Next]_vars => [Promise!PlanNext]_(Promise!planVars)
  BY PromiseStep
<1>3. Spec => Promise!PlanSpec
  BY <1>1, <1>2, WayHolds, PTL DEF Spec, Promise!PlanSpec
<1> QED
  BY <1>3 DEF KeepsPromise
============================================================================
