----------------------------- MODULE LiveCheck -----------------------------
(***************************************************************************)
(* The commands of tools/live_check.py on the real arm, each a process of  *)
(* its own that opens a live session (src/control/live_session.py), syncs, *)
(* runs one plan and reads the arm back.                                   *)
(*                                                                         *)
(* The executor is MotionExecutor's, a waypoint per step.  Here the arm is *)
(* what the encoders read: the driver may drop a command in silence, which *)
(* is why there is anything to report.  The SDK, the driver, the operator  *)
(* and the kinematics behind a hover are external.                         *)
(***************************************************************************)
EXTENDS MotionPlans, FiniteSets

CONSTANTS
  Gripper,     \* joint "6"
  SdkName,     \* joint -> the name the SDK has for it
  Commands,    \* what the operator may ask for
  Probe,       \* GRIPPER_PROBE_ANGLES
  Rests,       \* where the arm may be left by hand
  Tolerance    \* tolerance_deg of verify_pose

\* The SDK has a name for each joint, which may be the joint's own but is never
\* another's.  A command has the angles it asks for by joint: for a hover what
\* the kinematics give, the gripper included, or nothing if they raise.
ASSUME LiveAssumption ==
  /\ Gripper \in Joints /\ Rests \subseteq [Joints -> Int]
  /\ Probe \in Seq(Int)
  /\ DOMAIN SdkName = Joints
  /\ \A i, j \in Joints : SdkName[i] \in {SdkName[j], j} => i = j
  /\ \A c \in Commands :
       /\ c.cmd \in {"read", "gripper", "hover", "home", "joint"}
       /\ DOMAIN c.want \subseteq Joints
       /\ \A j \in DOMAIN c.want : c.want[j] \in Int
  /\ Tolerance \in Nat

VARIABLES
  phase,    \* "idle", "confirm", "open", "sync", "execute", "run", "report"
  command,  \* what was asked for
  nameMap,  \* executor.name_map: joint -> SDK name, empty if not discovered
  pose,     \* executor._current_pose
  arm,      \* the encoders
  plan,     \* the actions still to be run
  leg,      \* the ramp in progress
  verdict,  \* what the last command said in the end
  \* history variables, read by the properties only
  synced,   \* joints whose angle was read at the start, as yet unmoved
  known,    \* the joints whose name in the last report was understood
  read      \* the names the last report had an angle for

session == <<nameMap, pose, plan, leg, synced>>
heard == <<known, read>>
liveVars == <<phase, command, arm, verdict, heard, session>>

NoCommand == [cmd |-> "read", want |-> [j \in {} |-> 0], duration |-> 0]
NoNames == [j \in {} |-> ""]
Zeros == [j \in Joints |-> 0]
NoLeg == [scope |-> {}, start |-> Zeros, goal |-> Zeros, step |-> 0, steps |-> 0]
Ramping == leg.steps > 0

Off(x, y) == IF x <= y THEN y - x ELSE x - y
Drifted(angle, want) == Off(angle, want) > Tolerance
InLimits(j, angle) == angle \in Lo[j]..Hi[j]

LiveInit ==
  /\ phase = "idle" /\ command = NoCommand
  /\ arm \in Rests
  /\ verdict = "" /\ known = {} /\ read = {}
  /\ nameMap = NoNames /\ pose = Zeros /\ plan = <<>> /\ leg = NoLeg
  /\ synced = {}

\* The process is gone, and with it all it believed.
End(result) ==
  /\ phase' = "idle"
  /\ verdict' = result
  /\ nameMap' = NoNames /\ pose' = Zeros /\ plan' = <<>> /\ leg' = NoLeg
  /\ synced' = {}
---------------------------------------------------------------------------
(* The session. *)

\* Mutant: the names the SDK uses are left as they are.
CanonRaw(name) == name

\* canonical_joints: a name that the map does not know stays as it is.
Canon(name) ==
  IF \E j \in DOMAIN nameMap : nameMap[j] = name
  THEN CHOOSE j \in DOMAIN nameMap : nameMap[j] = name
  ELSE name

JointOf(name) == CHOOSE j \in Joints : SdkName[j] = name

\* read_joints: the names that whatever accessor there is gives an angle for.
Readings == SUBSET {SdkName[j] : j \in Joints}

\* canonical_joints, after the unit is changed.
CanonicalJoints(reading) ==
  [k \in {Canon(n) : n \in reading} |->
     arm[JointOf(CHOOSE n \in reading : Canon(n) = k)]]

\* open_live_executor: joint names are discovered or not; a new executor
\* believes that every joint is at 0, and nothing moves.
Open ==
  /\ phase = "open"
  /\ nameMap' \in {SdkName, NoNames}
  /\ phase' = CASE command.cmd = "read" -> "report"
                [] command.cmd = "gripper" -> "execute"
                [] OTHER -> "sync"
  /\ UNCHANGED <<command, arm, verdict, heard, pose, plan, leg, synced>>

\* The SDK raises.
OpenFails ==
  /\ phase = "open"
  /\ End("traceback")
  /\ UNCHANGED <<command, arm, heard>>

\* sync_executor_pose; what it returns is at most warned about.
Sync ==
  /\ phase = "sync"
  /\ \E reading \in Readings :
       LET state == CanonicalJoints(reading)
       IN /\ pose' = [j \in Joints |-> IF j \in DOMAIN state THEN state[j] ELSE pose[j]]
          /\ synced' = IF nameMap = NoNames THEN {} ELSE {JointOf(n) : n \in reading}
  /\ phase' = "execute"
  /\ UNCHANGED <<command, arm, verdict, heard, nameMap, plan, leg>>
---------------------------------------------------------------------------
(* The commands. *)

Unreachable(c) == c.cmd = "hover" /\ DOMAIN c.want = {}

OutOfRange(c) ==
  /\ c.cmd \in {"hover", "joint"}
  /\ \E j \in DOMAIN c.want : ~InLimits(j, c.want[j])

\* A command is refused before it is confirmed, or has nothing to confirm.
Invoke(c) ==
  /\ phase = "idle"
  /\ command' = c
  /\ known' = {} /\ read' = {}
  /\ IF Unreachable(c) \/ OutOfRange(c)
     THEN phase' = "idle" /\ verdict' = "refused"
     ELSE /\ phase' = IF c.cmd = "read" THEN "open" ELSE "confirm"
          /\ verdict' = ""
  /\ UNCHANGED <<arm, session>>

\* _confirm: without --yes, or without a typed go, nothing is opened.
Confirm ==
  /\ phase = "confirm"
  /\ \/ phase' = "open" /\ UNCHANGED <<verdict, session>>
     \/ End("refused")
     \/ End("aborted")
  /\ UNCHANGED <<command, arm, heard>>

SetPose(want, duration) ==
  [type |-> "set_pose", names |-> DOMAIN want, duration |-> duration,
   angle |-> [j \in JointNames |-> IF j \in DOMAIN want THEN want[j] ELSE 0]]

\* Mutant: the pose is commanded as the kinematics give it.
TargetWithGripper(c) ==
  IF c.cmd = "home" THEN [j \in Joints |-> 0] ELSE c.want

\* What the arm is asked for and read back on: home and hover leave the
\* gripper out.
Target(c) ==
  CASE c.cmd = "home" -> [j \in Joints \ {Gripper} |-> 0]
    [] c.cmd = "hover" -> [j \in DOMAIN c.want \ {Gripper} |-> c.want[j]]
    [] OTHER -> c.want

PlanOf(c) ==
  IF c.cmd = "gripper"
  THEN [i \in DOMAIN Probe |->
          SetPose([j \in {Gripper} |-> Probe[i]], c.duration)]
  ELSE <<SetPose(Target(c), c.duration)>>

\* execute is called: a plan that does not validate raises.
Execute ==
  /\ phase = "execute"
  /\ IF ValidPlan(PlanOf(command))
     THEN /\ phase' = "run" /\ plan' = PlanOf(command)
          /\ UNCHANGED <<verdict, nameMap, pose, leg, synced>>
     ELSE End("traceback")
  /\ UNCHANGED <<command, arm, heard>>

BeginRamp ==
  /\ phase = "run" /\ plan # <<>> /\ ~Ramping
  /\ LET a == Head(plan)
     IN leg' = [scope |-> Scope(a), start |-> pose, goal |-> Goal(a, pose),
                step |-> 1, steps |-> RampSteps(a.duration)]
  /\ UNCHANGED <<phase, command, arm, verdict, heard, nameMap, pose, plan, synced>>

Asked(j) == Waypoint(leg.start[j], leg.goal[j], leg.step, leg.steps)

\* The joints of obeying move where the waypoint asks them to.
Move(obeying) == arm' = [j \in Joints |-> IF j \in obeying THEN Asked(j) ELSE arm[j]]

\* A waypoint: what is commanded is believed, whether or not the arm obeys.
Step ==
  /\ phase = "run" /\ Ramping
  /\ \E obeying \in SUBSET leg.scope : Move(obeying)
  /\ pose' = [j \in Joints |-> IF j \in leg.scope THEN Asked(j) ELSE pose[j]]
  /\ synced' = {}
  /\ IF leg.step = leg.steps
     THEN leg' = NoLeg /\ plan' = Tail(plan)
     ELSE leg' = [leg EXCEPT !.step = leg.step + 1] /\ plan' = plan
  /\ UNCHANGED <<phase, command, verdict, heard, nameMap>>

\* The SDK raises, or Ctrl-C, halfway through a waypoint or a pause.
StepFails ==
  /\ phase = "run"
  /\ \E obeying \in SUBSET leg.scope : Move(obeying)
  /\ End("traceback")
  /\ UNCHANGED <<command, heard>>

Complete ==
  /\ phase = "run" /\ plan = <<>>
  /\ IF command.cmd = "gripper"
     THEN End("done")
     ELSE /\ phase' = "report"
          /\ UNCHANGED <<verdict, session>>
  /\ UNCHANGED <<command, arm, heard>>

\* Mutant: no telemetry is no drift.
ConfirmedUnlessDrifted(measured, drift) == drift = {}

\* verify_pose raises when nothing was measured.
Confirmed(measured, drift) == measured # {} /\ drift = {}

\* cmd_read prints what there is; the others compare what they asked for with
\* what is measured, joint by joint as far as it was.
Report ==
  /\ phase = "report"
  /\ \E reading \in Readings :
       LET measured == CanonicalJoints(reading)
           want == Target(command)
           drift == {j \in DOMAIN want \cap DOMAIN measured :
                       Drifted(measured[j], want[j])}
       IN /\ read' = reading
          /\ known' = {j \in Joints : Canon(SdkName[j]) = j}
          /\ End(CASE command.cmd = "read" ->
                        IF reading = {} THEN "no state" ELSE "state"
                   [] Confirmed(DOMAIN measured, drift) -> "verified"
                   [] drift # {} -> "drift"
                   [] OTHER -> "cannot confirm")
  /\ UNCHANGED <<command, arm>>

\* Between two commands the arm may be moved by hand.
Handle ==
  /\ phase = "idle"
  /\ arm' \in Rests
  /\ command' = NoCommand
  /\ verdict' = "" /\ known' = {} /\ read' = {}
  /\ UNCHANGED <<phase, session>>

LiveNext ==
  \/ \E c \in Commands : Invoke(c)
  \/ Confirm \/ Open \/ OpenFails \/ Sync
  \/ Execute \/ BeginRamp \/ Step \/ StepFails \/ Complete
  \/ Report
  \/ Handle

LiveSpec == LiveInit /\ [][LiveNext]_liveVars
---------------------------------------------------------------------------
(* Correctness. *)

AskedJoints == DOMAIN Target(command)
Landed(j) == ~Drifted(arm[j], Target(command)[j])

(* What the report says is so, for the joints the encoders spoke of under    *)
(* names that are known: verified, they landed and at least one was heard;   *)
(* drifted, one of them did not land; and no reading at all is never called  *)
(* fine (verify_pose, _report_drift).                                        *)
ReportIsTrue ==
  LET checked == {j \in AskedJoints \cap known : SdkName[j] \in read}
  IN /\ verdict = "verified" => read # {} /\ \A j \in checked : Landed(j)
     /\ verdict = "drift" => \E j \in checked : ~Landed(j)
     /\ verdict = "cannot confirm" => read = {}

(* The first waypoint to a joint whose angle was read takes it at most its   *)
(* share of the way from where it really is, however far that is from the    *)
(* zero a new executor assumes: the arm eases off and never snaps            *)
(* (sync_executor_pose).                                                     *)
EasesOff ==
  [][\A j \in synced :
       Off(arm'[j], arm[j]) * leg.steps <= Off(arm[j], leg.goal[j]) + leg.steps]_liveVars

(* Home and hover leave the jaws where they are, whatever they hold, though  *)
(* the kinematics give them an angle too and the executor believes that they *)
(* are at 0 (cmd_home, cmd_hover, _ramp_to).                                 *)
JawsKept ==
  [][phase # "idle" /\ command.cmd \in {"home", "hover"}
       => arm'[Gripper] = arm[Gripper]]_liveVars

(* verify_pose: "An empty return means every joint landed within tolerance". *)
EveryJointLanded == verdict = "verified" => \A j \in AskedJoints : Landed(j)
============================================================================
