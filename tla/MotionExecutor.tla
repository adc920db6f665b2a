--------------------------- MODULE MotionExecutor ---------------------------
(***************************************************************************)
(* MotionExecutor of src/control/motion.py, one SDK call per step: execute *)
(* validates a plan and runs its actions; each action ramps the joints it  *)
(* names through the waypoints between the last commanded pose and its     *)
(* goal, setting one joint at a time.  The SDK call may raise at any       *)
(* joint and the operator may interrupt at any moment; the executor object *)
(* is kept and used again.  sync_executor_pose (src/control/live_session)  *)
(* seeds the pose from telemetry between plans.                            *)
(*                                                                         *)
(* The twin itself is external: arm[j] is the angle it last accepted, and  *)
(* telemetry reads that angle back.                                        *)
(***************************************************************************)
EXTENDS MotionPlans

CONSTANTS
  Plans,         \* the plans callers submit
  ArmStarts,     \* the poses the arm may rest in when a session opens
  HomeDuration   \* the duration home() is called with, in ticks

ASSUME PlansAssumption ==
  /\ Plans \subseteq Seq(Action)
  /\ ArmStarts \subseteq [Joints -> Int]
  /\ HomeDuration \in 0..MaxDuration
  /\ MaxActions > 0

\* home() runs as a plan of one home action would.
HomePlan == <<[type |-> "home", names |-> {},
               angle |-> [j \in JointNames |-> 0], duration |-> HomeDuration]>>

VARIABLES
  dryRun,   \* self.dry_run: track the pose, call nothing
  pose,     \* self._current_pose, the last commanded pose
  arm,      \* the angle the twin last accepted for each joint
  status,   \* "idle", "moving", or how the last call ended
  plan,     \* the plan being run
  at,       \* index of the action being run
  leg,      \* the ramp in progress (locals of _ramp_to)
  todo,     \* joints of the current waypoint still to be set
  \* history variables, read by the properties only
  begin,    \* pose and arm when the last call (or sync) was made
  known,    \* joints whose pose was measured or accepted by the twin
  sent,     \* joints the session has commanded
  trusted   \* every pose read from telemetry was inside the limits

history == <<begin, known, sent, trusted>>
vars == <<dryRun, pose, arm, status, plan, at, leg, todo, history>>

NoLeg == [scope |-> {}, start |-> [j \in Joints |-> 0],
          goal |-> [j \in Joints |-> 0], step |-> 0, steps |-> 0]

Ramping == leg.steps > 0

\* What robot.joints.set is asked for joint j in the current waypoint.
Command(j) == Waypoint(leg.start[j], leg.goal[j], leg.step, leg.steps)

InLimits(f, S) == \A j \in S : f[j] \in Lo[j]..Hi[j]
---------------------------------------------------------------------------
Init ==
  /\ dryRun \in BOOLEAN
  /\ pose = [j \in Joints |-> 0]
  /\ arm \in ArmStarts
  /\ status = "idle"
  /\ plan = <<>>
  /\ at = 1
  /\ leg = NoLeg
  /\ todo = {}
  /\ begin = [pose |-> pose, arm |-> arm]
  /\ known = {}
  /\ sent = {}
  /\ trusted = TRUE

\* sync_executor_pose with telemetry for the joints of S (all the SDK
\* returned); with none, the pose is left alone.  Only live executors, which
\* are never dry, are synced.
Sync(S) ==
  /\ status # "moving" /\ ~dryRun
  /\ pose' = [j \in Joints |-> IF j \in S THEN arm[j] ELSE pose[j]]
  /\ begin' = [pose |-> pose', arm |-> arm]
  /\ known' = known \cup S
  /\ trusted' = (trusted /\ InLimits(arm, S))
  /\ UNCHANGED <<dryRun, arm, status, plan, at, leg, todo, sent>>

\* A call of execute: the whole plan is validated before anything moves.
Execute(p) ==
  /\ status # "moving"
  /\ status' = IF ValidPlan(p) THEN "moving" ELSE "rejected"
  /\ plan' = p
  /\ at' = 1
  /\ begin' = [pose |-> pose, arm |-> arm]
  /\ UNCHANGED <<dryRun, pose, arm, leg, todo, known, sent, trusted>>

\* A call of home(): the same ramp as a home action, not validated.
Home ==
  /\ status # "moving"
  /\ status' = "moving"
  /\ plan' = HomePlan
  /\ at' = 1
  /\ begin' = [pose |-> pose, arm |-> arm]
  /\ UNCHANGED <<dryRun, pose, arm, leg, todo, known, sent, trusted>>

\* _run on a wait: nothing is commanded.
RunWait ==
  /\ status = "moving" /\ ~Ramping
  /\ at \in DOMAIN plan
  /\ plan[at].type = "wait"
  /\ at' = at + 1
  /\ UNCHANGED <<dryRun, pose, arm, status, plan, leg, todo, history>>

\* Mutant: the action is merged into the pose and all joints are commanded.
BeginRampMerged ==
  /\ status = "moving" /\ ~Ramping
  /\ at \in DOMAIN plan
  /\ plan[at].type # "wait"
  /\ leg' = [scope |-> Joints, start |-> pose,
             goal |-> Goal(plan[at], pose), step |-> 1,
             steps |-> RampSteps(plan[at].duration)]
  /\ todo' = Joints
  /\ UNCHANGED <<dryRun, pose, arm, status, plan, at, history>>

\* Mutant: every ramp starts from the pose a new executor assumes.
BeginRampFromZero ==
  /\ status = "moving" /\ ~Ramping
  /\ at \in DOMAIN plan
  /\ plan[at].type # "wait"
  /\ leg' = [scope |-> Scope(plan[at]), start |-> [j \in Joints |-> 0],
             goal |-> Goal(plan[at], pose), step |-> 1,
             steps |-> RampSteps(plan[at].duration)]
  /\ todo' = Scope(plan[at])
  /\ UNCHANGED <<dryRun, pose, arm, status, plan, at, history>>

\* _run on any other action enters _ramp_to: the start is a snapshot of the
\* pose, the scope is what the action names.
BeginRamp ==
  /\ status = "moving" /\ ~Ramping
  /\ at \in DOMAIN plan
  /\ plan[at].type # "wait"
  /\ leg' = [scope |-> Scope(plan[at]), start |-> pose,
             goal |-> Goal(plan[at], pose), step |-> 1,
             steps |-> RampSteps(plan[at].duration)]
  /\ todo' = Scope(plan[at])
  /\ UNCHANGED <<dryRun, pose, arm, status, plan, at, history>>

\* One turn of _snap_to's loop: the SDK call (skipped in a dry run), then
\* the pose.  The order of the joints is the plan's; any order is allowed.
SetJoint(j) ==
  /\ status = "moving" /\ Ramping
  /\ j \in todo
  /\ todo' = todo \ {j}
  /\ pose' = [pose EXCEPT ![j] = Command(j)]
  /\ IF dryRun
     THEN UNCHANGED <<arm, known, sent>>
     ELSE /\ arm' = [arm EXCEPT ![j] = Command(j)]
          /\ known' = known \cup {j}
          /\ sent' = sent \cup {j}
  /\ UNCHANGED <<dryRun, status, plan, at, leg, begin, trusted>>

\* Mutant: the pose is updated before the SDK call.
SetFailsPoseFirst(j) ==
  /\ status = "moving" /\ Ramping /\ ~dryRun
  /\ j \in todo
  /\ status' = "raised"
  /\ pose' = [pose EXCEPT ![j] = Command(j)]
  /\ leg' = NoLeg
  /\ todo' = {}
  /\ UNCHANGED <<dryRun, arm, plan, at, history>>

\* The SDK call raises, or Ctrl-C lands in it, before or after the twin took
\* the command; the exception leaves _snap_to before the pose of j changes.
SetFails(j) ==
  /\ status = "moving" /\ Ramping /\ ~dryRun
  /\ j \in todo
  /\ status' \in {"raised", "interrupted"}
  /\ leg' = NoLeg
  /\ todo' = {}
  /\ \/ UNCHANGED <<arm, known, sent>>
     \/ /\ arm' = [arm EXCEPT ![j] = Command(j)]
        /\ known' = known \ {j}
        /\ sent' = sent \cup {j}
  /\ UNCHANGED <<dryRun, pose, plan, at, begin, trusted>>

\* All joints of a waypoint are set: the ramp goes on to the next one.
NextWaypoint ==
  /\ status = "moving" /\ Ramping
  /\ todo = {}
  /\ leg.step < leg.steps
  /\ leg' = [leg EXCEPT !.step = leg.step + 1]
  /\ todo' = leg.scope
  /\ UNCHANGED <<dryRun, pose, arm, status, plan, at, history>>

\* Mutant: range(1, steps) leaves the last waypoint out.
EndRampEarly ==
  /\ status = "moving" /\ Ramping
  /\ todo = {}
  /\ leg.step >= leg.steps - 1
  /\ leg' = NoLeg
  /\ at' = at + 1
  /\ UNCHANGED <<dryRun, pose, arm, status, plan, todo, history>>

\* The last waypoint is set: _ramp_to returns.
EndRamp ==
  /\ status = "moving" /\ Ramping
  /\ todo = {}
  /\ leg.step = leg.steps
  /\ leg' = NoLeg
  /\ at' = at + 1
  /\ UNCHANGED <<dryRun, pose, arm, status, plan, todo, history>>

\* execute returns after its last action.
Complete ==
  /\ status = "moving" /\ ~Ramping
  /\ at \notin DOMAIN plan
  /\ status' = "complete"
  /\ UNCHANGED <<dryRun, pose, arm, plan, at, leg, todo, history>>

\* Ctrl-C in a sleep or between two commands.
Interrupt ==
  /\ status = "moving"
  /\ status' = "interrupted"
  /\ leg' = NoLeg
  /\ todo' = {}
  /\ UNCHANGED <<dryRun, pose, arm, plan, at, history>>

Progress ==
  \/ RunWait
  \/ BeginRamp
  \/ \E j \in Joints : SetJoint(j)
  \/ NextWaypoint
  \/ EndRamp
  \/ Complete

Next ==
  \/ \E S \in SUBSET Joints : Sync(S)
  \/ \E p \in Plans : Execute(p)
  \/ Home
  \/ Progress
  \/ \E j \in Joints : SetFails(j)
  \/ Interrupt

Spec == Init /\ [][Next]_vars

\* The thread that called execute keeps running it: no step of a plan waits
\* for anything but time.
FairSpec == Spec /\ WF_vars(Progress)
---------------------------------------------------------------------------
TypeOK ==
  /\ dryRun \in BOOLEAN
  /\ pose \in [Joints -> Int]
  /\ arm \in [Joints -> Int]
  /\ status \in {"idle", "moving", "complete", "rejected", "raised",
                 "interrupted"}
  /\ plan \in Seq(Action)
  /\ at \in Nat \ {0}
  /\ leg \in [scope : SUBSET Joints, start : [Joints -> Int],
             goal : [Joints -> Int], step : Nat, steps : Nat]
  /\ todo \subseteq leg.scope
  /\ begin \in [pose : [Joints -> Int], arm : [Joints -> Int]]
  /\ known \subseteq Joints
  /\ sent \subseteq Joints
  /\ trusted \in BOOLEAN

\* The executor is never wrong about a joint it has measured or commanded
\* successfully: _current_pose is what the twin holds, through failures in
\* the middle of a waypoint and the plans run after them.
BeliefMatchesArm == \A j \in known : pose[j] = arm[j]

\* As long as every pose read from telemetry was inside the limits, no angle
\* outside them is ever sent, not even by a ramp resumed from the pose a
\* failed one left behind.
WithinLimits == trusted => InLimits(arm, sent)

\* A refused plan moves nothing, and a joint that no action of the plan
\* names keeps its angle from the call to its end, however it ends (the
\* shut-gripper accident told in _ramp_to's comment).
ScopeRespected ==
  /\ status = "rejected" => pose = begin.pose /\ arm = begin.arm
  /\ \A j \in Joints \ PlanScope(plan) :
       pose[j] = begin.pose[j] /\ arm[j] = begin.arm[j]

\* During a ramp every joint in scope is between where the ramp found it and
\* its goal: no waypoint overshoots or starts behind.
OnTheWay ==
  Ramping => \A j \in leg.scope :
                pose[j] \in Between(leg.start[j], leg.goal[j])

\* A joint whose angle is known moves by at most one share of its way per
\* command (rounded up): the arm sweeps, also when a plan follows one that
\* was cut short.
Distance(x, y) == IF x <= y THEN y - x ELSE x - y
SmoothSweep ==
  [][\A j \in known :
       \/ arm'[j] = arm[j]
       \/ Distance(arm[j], arm'[j])
            <= 1 + Distance(leg.start[j], leg.goal[j]) \div leg.steps]_vars

\* The abstract promise: pose is the pose the running action started from,
\* and what the joints did on their way shows only if the action is cut short.
Promise == INSTANCE ArmPlan WITH
  Plans <- Plans \cup {HomePlan},
  pose <- IF Ramping THEN leg.start ELSE pose
KeepsPromise == Promise!PlanSpec

\* A call of execute comes back.
PlanEnds == status = "moving" ~> status # "moving"

\* motion.py:6-8: every commanded angle is clamped right before the SDK
\* call, so that an out-of-range request is impossible to issue.
AlwaysClamped == InLimits(arm, sent)
============================================================================
