---------------------------- MODULE BenchProofs ----------------------------
(***************************************************************************)
(* The bench for every arm, every set of commands, every sheet and every   *)
(* number of clicks: what a live check reports, what it does to the jaws   *)
(* and what the calibration tools do to their files.                       *)
(*                                                                         *)
(* A report is about the arm as it stands because nothing moves between    *)
(* the reading and the verdict, and no verdict stands while anything       *)
(* moves; the jaws are kept because the plan that is left and the ramp in  *)
(* progress never have them in scope.                                      *)
(***************************************************************************)
EXTENDS Bench, TLAPS

OneAtATime ==
  /\ command \in Commands \cup {NoCommand}
  /\ nameMap \in {SdkName, NoNames}
  /\ phase # "idle" => verdict = ""

JawsInv ==
  /\ phase # "run" => plan = <<>>
  /\ plan = <<>> => leg = NoLeg
  /\ "scope" \in DOMAIN leg
  /\ command.cmd \in {"home", "hover"} =>
       /\ Gripper \notin leg.scope
       /\ plan \in {<<>>, <<SetPose(Target(command), command.duration)>>}

SavingFields == {"at", "file", "fit", "bins", "status"}

\* What is to be written is a fit that met the bar or was forced, with its
\* verdict, or all the bins asked for, with what their proof comes to.
Promised ==
  /\ saving.file \in {"homography", "survey"} /\ saving.status \in {"0", "1"}
  /\ saving.file = "homography" =>
       /\ saving.status = "0" <=> \E h \in saving.fit : h.passed
       /\ \A h \in saving.fit : h.passed \/ options.force
  /\ saving.file = "survey" =>
       /\ DOMAIN saving.bins = AskedBins
       /\ saving.status = "0" <=> \A b \in AskedBins : saving.bins[b]

AsFound == found = Files

\* Until the file is opened both are as they were found; then the other one
\* is, and this one is in pieces, and then holds what was promised.
FilesInv ==
  /\ tool = "survey" => options.labels \in Labels
  /\ DOMAIN saving = SavingFields
  /\ saving.at \in {"none", "open", "text", "whole"}
  /\ tool = "write" <=> saving.at # "none"
  /\ tool # "none" /\ saving.at \in {"none", "open"} => AsFound
  /\ saving.at # "none" => Promised
  /\ saving.at \in {"text", "whole"} =>
       /\ torn \ {saving.file} = found.torn \ {saving.file}
       /\ saving.file = "homography" => survey = found.survey
       /\ saving.file = "survey" => homography = found.homography
  /\ saving.at = "text" => saving.file \in torn
  /\ saving.at = "whole" =>
       /\ saving.file \notin torn
       /\ saving.file = "homography" => homography = saving.fit
       /\ saving.file = "survey" => survey = saving.bins
---------------------------------------------------------------------------
(* Reading the arm back. *)

\* A joint whose name is understood is measured as what it is.
LEMMA Measured ==
  ASSUME nameMap \in {SdkName, NoNames},
         NEW reading \in Readings,
         NEW j \in Joints, Canon(SdkName[j]) = j
  PROVE  /\ SdkName[j] \in reading => j \in DOMAIN CanonicalJoints(reading)
         /\ SdkName[j] \in reading => CanonicalJoints(reading)[j] = arm[j]
<1> SUFFICES ASSUME SdkName[j] \in reading
             PROVE  /\ j \in DOMAIN CanonicalJoints(reading)
                    /\ CanonicalJoints(reading)[j] = arm[j]
  OBVIOUS
<1>1. j \in {Canon(n) : n \in reading}
  OBVIOUS
<1>2. ASSUME NEW n \in reading, Canon(n) = j PROVE n = SdkName[j]
  <2>1. PICK k \in Joints : n = SdkName[k]
    BY DEF Readings
  <2>2. CASE nameMap = SdkName
    BY <1>2, <2>1, <2>2, LiveAssumption DEF Canon
  <2>3. CASE nameMap = NoNames
    <3>1. Canon(n) = n
      BY <2>3 DEF Canon, NoNames
    <3> QED
      BY <1>2, <2>1, <3>1, LiveAssumption
  <2> QED
    BY <2>2, <2>3
<1>3. (CHOOSE n \in reading : Canon(n) = j) = SdkName[j]
  BY <1>2
<1>4. JointOf(SdkName[j]) = j
  BY LiveAssumption DEF JointOf
<1> QED
  BY <1>1, <1>3, <1>4 DEF CanonicalJoints

\* What is measured of a joint that was asked for is heard under its name.
LEMMA Heard ==
  ASSUME nameMap \in {SdkName, NoNames},
         NEW reading \in Readings,
         NEW j \in Joints, j \in DOMAIN CanonicalJoints(reading)
  PROVE  SdkName[j] \in reading /\ Canon(SdkName[j]) = j
<1>1. PICK n \in reading : Canon(n) = j
  BY DEF CanonicalJoints
<1>2. PICK k \in Joints : n = SdkName[k]
  BY DEF Readings
<1>3. CASE nameMap = SdkName
  BY <1>1, <1>2, <1>3, LiveAssumption DEF Canon
<1>4. CASE nameMap = NoNames
  <2>1. Canon(n) = n
    BY <1>4 DEF Canon, NoNames
  <2> QED
    BY <1>1, <1>2, <2>1, LiveAssumption
<1> QED
  BY <1>3, <1>4

LEMMA TargetJoints ==
  ASSUME NEW c \in Commands \cup {NoCommand} PROVE DOMAIN Target(c) \subseteq Joints
BY LiveAssumption DEF Target, NoCommand

\* The verdict a live check ends with is true of the arm as it stands.
LEMMA TrueReport ==
  ASSUME OneAtATime, Report PROVE ReportIsTrue'
<1>1. PICK reading \in Readings :
        LET measured == CanonicalJoints(reading)
            want == Target(command)
            drift == {j \in DOMAIN want \cap DOMAIN measured :
                        Drifted(measured[j], want[j])}
        IN /\ read' = reading
           /\ known' = {j \in Joints : Canon(SdkName[j]) = j}
           /\ verdict' = (CASE command.cmd = "read" ->
                             IF reading = {} THEN "no state" ELSE "state"
                        [] Confirmed(DOMAIN measured, drift) -> "verified"
                        [] drift # {} -> "drift"
                        [] OTHER -> "cannot confirm")
  BY DEF Report, End
<1> DEFINE measured == CanonicalJoints(reading)
           want == Target(command)
           drift == {j \in DOMAIN want \cap DOMAIN measured :
                       Drifted(measured[j], want[j])}
           checked == {j \in DOMAIN want \cap Joints :
                         Canon(SdkName[j]) = j /\ SdkName[j] \in reading}
<1>2. read' = reading /\ known' = {j \in Joints : Canon(SdkName[j]) = j}
      /\ command' = command /\ arm' = arm
  BY <1>1 DEF Report
<1>3. /\ verdict' = "verified" => measured # [k \in {} |-> 0] /\ DOMAIN measured # {} /\ drift = {}
      /\ verdict' = "drift" => drift # {}
      /\ verdict' = "cannot confirm" => DOMAIN measured = {}
  BY <1>1 DEF Confirmed
<1>4. DOMAIN measured = {Canon(n) : n \in reading}
  BY DEF CanonicalJoints
<1>5. drift = {j \in checked : Drifted(arm[j], want[j])}
  <2>1. ASSUME NEW j \in drift PROVE j \in checked /\ Drifted(arm[j], want[j])
    BY <2>1, Heard, Measured, TargetJoints DEF OneAtATime
  <2>2. ASSUME NEW j \in checked, Drifted(arm[j], want[j]) PROVE j \in drift
    BY <2>2, Measured DEF OneAtATime
  <2> QED
    BY <2>1, <2>2
<1>6. {j \in AskedJoints \cap known : SdkName[j] \in read}' = checked
  BY <1>2 DEF AskedJoints, Target
<1>7. \A j : Landed(j)' <=> ~Drifted(arm[j], want[j])
  BY <1>2 DEF Landed, Drifted, Off, Target
<1> HIDE DEF measured, want, drift, checked
<1> QED
  BY <1>2, <1>3, <1>4, <1>5, <1>6, <1>7 DEF ReportIsTrue
---------------------------------------------------------------------------
(* The invariants. *)

LEMMA InitHolds == BenchInit => OneAtATime /\ ReportIsTrue /\ JawsInv /\ FilesInv
<1> SUFFICES ASSUME BenchInit PROVE OneAtATime /\ ReportIsTrue /\ JawsInv /\ FilesInv
  OBVIOUS
<1> USE DEF BenchInit, LiveInit, CalibInit
<1>1. OneAtATime
  BY DEF OneAtATime
<1>2. ReportIsTrue
  BY DEF ReportIsTrue
<1>3. JawsInv
  BY DEF JawsInv, NoLeg
<1>4. FilesInv
  BY DEF FilesInv, NoSaving, SavingFields
<1> QED
  BY <1>1, <1>2, <1>3, <1>4

\* A step of a live check.
LEMMA OneAtATimeStep ==
  ASSUME OneAtATime, LiveNext PROVE OneAtATime'
<1> USE DEF OneAtATime, session, End
<1>1. ASSUME NEW c \in Commands, Invoke(c) PROVE OneAtATime'
  BY <1>1 DEF Invoke
<1>2. CASE Confirm
  BY <1>2 DEF Confirm
<1>3. CASE Open \/ OpenFails
  BY <1>3 DEF Open, OpenFails
<1>4. CASE Sync \/ Execute
  BY <1>4 DEF Sync, Execute
<1>5. CASE BeginRamp \/ Step \/ StepFails \/ Complete
  BY <1>5 DEF BeginRamp, Step, StepFails, Complete
<1>6. CASE Report \/ Handle
  BY <1>6 DEF Report, Handle
<1> QED
  BY <1>1, <1>2, <1>3, <1>4, <1>5, <1>6 DEF LiveNext

LEMMA ReportStep ==
  ASSUME OneAtATime, ReportIsTrue, LiveNext PROVE ReportIsTrue'
<1> USE DEF OneAtATime, session, heard, End
<1>1. ASSUME NEW c \in Commands, Invoke(c) PROVE ReportIsTrue'
  BY <1>1 DEF Invoke, ReportIsTrue
<1>2. CASE Confirm \/ Open \/ OpenFails
  BY <1>2 DEF Confirm, Open, OpenFails, ReportIsTrue
<1>3. CASE Sync \/ Execute
  BY <1>3 DEF Sync, Execute, ReportIsTrue
<1>4. CASE BeginRamp \/ Step \/ StepFails \/ Complete
  BY <1>4 DEF BeginRamp, Step, StepFails, Complete, ReportIsTrue
<1>5. CASE Handle
  BY <1>5 DEF Handle, ReportIsTrue
<1>6. CASE Report
  BY <1>6, TrueReport
<1> QED
  BY <1>1, <1>2, <1>3, <1>4, <1>5, <1>6 DEF LiveNext
\* Home and hover have a plan of one pose without the gripper.
LEMMA PlanOfArm ==
  ASSUME command.cmd \in {"home", "hover"}
  PROVE  /\ PlanOf(command) = <<SetPose(Target(command), command.duration)>>
         /\ Gripper \notin Scope(SetPose(Target(command), command.duration))
<1>1. Gripper \notin DOMAIN Target(command)
  BY DEF Target
<1>2. Scope(SetPose(Target(command), command.duration)) = DOMAIN Target(command)
  BY DEF Scope, SetPose
<1> QED
  BY <1>1, <1>2 DEF PlanOf

LEMMA JawsStep ==
  ASSUME JawsInv, LiveNext PROVE JawsInv'
<1> DEFINE Q == SetPose(Target(command), command.duration)
<1>1. ASSUME NEW result, End(result) PROVE JawsInv'
  BY <1>1 DEF End, JawsInv, NoLeg
<1>2. ASSUME command' = command, leg' = leg, plan' = plan, phase' # "run" => plan = <<>>
      PROVE  JawsInv'
  BY <1>2 DEF JawsInv, Target, SetPose
<1>3. ASSUME NEW c \in Commands, Invoke(c) PROVE JawsInv'
  <2>1. leg' = NoLeg /\ plan' = <<>>
    BY <1>3 DEF Invoke, session, JawsInv
  <2> QED
    BY <2>1 DEF JawsInv, NoLeg
<1>4. CASE Confirm \/ Open \/ OpenFails \/ Sync \/ Complete \/ Report \/ StepFails
  BY <1>1, <1>2, <1>4 DEF Confirm, Open, OpenFails, Sync, Complete, Report, StepFails, session,
                           JawsInv
<1>5. CASE Execute
  <2>1. CASE phase' = "run" /\ plan' = PlanOf(command)
    <3>1. command' = command /\ leg' = leg
      BY <1>5, <2>1 DEF Execute, End
    <3>2. leg = NoLeg
      BY <1>5 DEF Execute, JawsInv
    <3>3. command.cmd \in {"home", "hover"} => plan' \in {<<>>, <<Q>>}
      BY <2>1, PlanOfArm
    <3> QED
      BY <2>1, <3>1, <3>2, <3>3 DEF JawsInv, NoLeg, Target, SetPose
  <2> QED
    BY <1>1, <1>5, <2>1 DEF Execute
<1>6. CASE BeginRamp
  <2>1. command' = command /\ plan' = plan /\ plan # <<>> /\ phase' = "run"
        /\ leg'.scope = Scope(Head(plan)) /\ "scope" \in DOMAIN leg'
    BY <1>6 DEF BeginRamp
  <2>2. command.cmd \in {"home", "hover"} => Gripper \notin leg'.scope
    BY <2>1, PlanOfArm DEF JawsInv
  <2> QED
    BY <2>1, <2>2 DEF JawsInv, Target, SetPose
<1>7. CASE Step
  <2>1. command' = command /\ phase' = "run" /\ plan # <<>>
        /\ \/ leg' = NoLeg /\ plan' = Tail(plan)
           \/ leg' = [leg EXCEPT !.step = leg.step + 1] /\ plan' = plan
    BY <1>7 DEF Step, Ramping, JawsInv, NoLeg
  <2>2. "scope" \in DOMAIN leg' /\ (leg' = NoLeg \/ leg'.scope = leg.scope)
    BY <2>1 DEF JawsInv, NoLeg
  <2>3. command.cmd \in {"home", "hover"} => plan' \in {<<>>, <<Q>>}
    <3>1. Tail(<<Q>>) = <<>>
      OBVIOUS
    <3> QED
      BY <2>1, <3>1 DEF JawsInv
  <2>4. command.cmd \in {"home", "hover"} => Gripper \notin leg'.scope
    BY <2>1, <2>2 DEF JawsInv, NoLeg
  <2> QED
    BY <2>1, <2>2, <2>3, <2>4 DEF JawsInv, Target, SetPose
<1>8. CASE Handle
  BY <1>8 DEF Handle, session, JawsInv, NoCommand
<1> QED
  BY <1>3, <1>4, <1>5, <1>6, <1>7, <1>8 DEF LiveNext

\* No waypoint of home or hover has the jaws in scope.
LEMMA JawsStay ==
  ASSUME JawsInv, LiveNext, phase # "idle", command.cmd \in {"home", "hover"}
  PROVE  arm'[Gripper] = arm[Gripper]
<1>1. Gripper \in Joints /\ Gripper \notin leg.scope
  BY LiveAssumption DEF JawsInv
<1>2. ASSUME NEW obeying \in SUBSET leg.scope, Move(obeying)
      PROVE  arm'[Gripper] = arm[Gripper]
  BY <1>1, <1>2 DEF Move
<1>3. CASE Step \/ StepFails
  BY <1>2, <1>3 DEF Step, StepFails
<1>4. CASE Confirm \/ Open \/ OpenFails \/ Sync \/ Execute \/ BeginRamp \/ Complete \/ Report
  BY <1>4 DEF Confirm, Open, OpenFails, Sync, Execute, BeginRamp, Complete, Report
<1> QED
  BY <1>3, <1>4 DEF LiveNext, Invoke, Handle
---------------------------------------------------------------------------
(* The calibration tools. *)

LEMMA NoSavingFields ==
  /\ DOMAIN NoSaving = SavingFields /\ NoSaving.at = "none"
BY DEF NoSaving, SavingFields

\* A tool that begins finds the files as they are.
LEMMA StartKeeps ==
  ASSUME FilesInv, NEW t \in {"fit", "survey"}, NEW o, StartTool(t, o),
         t = "survey" => o.labels \in Labels
  PROVE  FilesInv'
<1>1. /\ tool = "none" /\ tool' = t /\ options' = o /\ found' = Files
      /\ UNCHANGED <<homography, survey, torn, saving>>
  BY DEF StartTool, files
<1>2. saving.at = "none"
  BY <1>1 DEF FilesInv
<1>3. AsFound'
  BY <1>1 DEF AsFound, Files
<1> QED
  BY <1>1, <1>2, <1>3 DEF FilesInv

\* A tool that ends promises nothing more.
LEMMA ExitKeeps ==
  ASSUME FilesInv, NEW s, Exit(s), UNCHANGED files
  PROVE  FilesInv'
BY NoSavingFields DEF Exit, FilesInv

\* A write that begins with a promise.
LEMMA SaveKeeps ==
  ASSUME FilesInv, tool \in {"fit", "survey"}, NEW text, Save(text),
         DOMAIN text = SavingFields, text.at = "open", Promised'
  PROVE  FilesInv'
<1>1. /\ tool' = "write" /\ saving' = text
      /\ UNCHANGED <<options, homography, survey, torn, found>>
  BY DEF Save, files
<1>2. AsFound
  BY DEF FilesInv
<1>3. AsFound'
  BY <1>1, <1>2 DEF AsFound, Files
<1> QED
  BY <1>1, <1>3 DEF FilesInv

LEMMA FitKeeps ==
  ASSUME FilesInv, tool = "fit", NEW pixels, NEW marks, FitAndReport(pixels, marks)
  PROVE  FilesInv'
<1>1. PICK outcome \in Outcomes(pixels, marks) :
        LET ending == CASE outcome = "within" -> "0"
                         [] outcome = "infinite" -> "traceback"
                         [] OTHER -> "1"
        IN \/ /\ Saves(outcome, options)
              /\ Save([NoSaving EXCEPT !.at = "open", !.file = "homography", !.status = ending,
                                       !.fit = Fitted(pixels, marks, outcome)])
           \/ ~Saves(outcome, options) /\ Exit(ending) /\ UNCHANGED files
  BY DEF FitAndReport
<1>2. Saves(outcome, options) =>
        outcome = "within" \/ (outcome = "beyond" /\ options.force)
  BY DEF Saves
<1>3. \A h \in Fitted(pixels, marks, outcome) : h.passed = (outcome = "within")
  <2> DEFINE a == Exact(pixels, marks) /\ ~Right(pixels, marks)
             b == outcome = "within"
  <2>1. Fitted(pixels, marks, outcome)
          = {[passed |-> b, askew |-> a, sheet |-> options.sheet]}
    BY DEF Fitted
  <2>2. [passed |-> b, askew |-> a, sheet |-> options.sheet].passed = b
    <3> HIDE DEF a, b
    <3> QED
      OBVIOUS
  <2> HIDE DEF a
  <2> QED
    BY <2>1, <2>2
<1>4. Fitted(pixels, marks, outcome) # {}
  BY DEF Fitted
<1>5. CASE Saves(outcome, options)
  <2> DEFINE ending == IF outcome = "within" THEN "0" ELSE "1"
             fit == Fitted(pixels, marks, outcome)
             text == [NoSaving EXCEPT !.at = "open", !.file = "homography",
                                      !.status = ending, !.fit = fit]
  <2>1. Save(text)
    BY <1>1, <1>2, <1>5
  <2> HIDE DEF fit
  <2>2. /\ DOMAIN text = SavingFields /\ text.at = "open" /\ text.file = "homography"
        /\ text.status = ending /\ text.fit = fit
    BY DEF NoSaving, SavingFields
  <2> HIDE DEF text
  <2>3. saving' = text /\ options' = options
    BY <2>1 DEF Save
  <2>4. (\E h \in fit : h.passed) = (outcome = "within")
    BY <1>3, <1>4 DEF fit
  <2>5. \A h \in fit : h.passed \/ options.force
    BY <1>2, <1>3, <1>5 DEF fit
  <2>6. Promised'
    BY <2>2, <2>3, <2>4, <2>5 DEF Promised
  <2> QED
    BY <2>1, <2>2, <2>6, SaveKeeps
<1>6. CASE ~Saves(outcome, options)
  BY <1>1, <1>6, ExitKeeps
<1> QED
  BY <1>5, <1>6

LEMMA SurveyKeeps ==
  ASSUME FilesInv, tool = "survey", NEW numbers \in BOOLEAN,
         WriteAndVerify(options.labels, numbers)
  PROVE  FilesInv'
<1>1. CASE Doubled(options.labels) \/ options.dryRun
  BY <1>1, ExitKeeps DEF WriteAndVerify
<1>2. CASE ~Doubled(options.labels) /\ ~options.dryRun
  <2> DEFINE ending == IF numbers THEN "0" ELSE "1"
             bins == [b \in AskedBins |-> numbers]
             text == [NoSaving EXCEPT !.at = "open", !.file = "survey",
                                      !.status = ending, !.bins = bins]
  <2>1. Save(text)
    BY <1>2 DEF WriteAndVerify, AskedBins
  <2>2. DOMAIN bins = AskedBins /\ \A b \in AskedBins : bins[b] = numbers
    OBVIOUS
  <2>3. options.labels[1] \in AskedBins
    BY CalibrationAssumption DEF FilesInv, AskedBins
  <2> HIDE DEF bins
  <2>4. /\ DOMAIN text = SavingFields /\ text.at = "open" /\ text.file = "survey"
        /\ text.status = ending /\ text.bins = bins
    BY DEF NoSaving, SavingFields
  <2> HIDE DEF text
  <2>5. saving' = text /\ options' = options
    BY <2>1 DEF Save
  <2>6. AskedBins' = AskedBins
    BY <2>5 DEF AskedBins
  <2>7. Promised'
    BY <2>2, <2>3, <2>4, <2>5, <2>6 DEF Promised
  <2> QED
    BY <2>1, <2>4, <2>7, SaveKeeps
<1> QED
  BY <1>1, <1>2

LEMMA WriteKeeps ==
  ASSUME FilesInv, Truncate \/ WriteText PROVE FilesInv'
<1>1. /\ UNCHANGED <<tool, options, found>> /\ saving.at # "none" /\ Promised
      /\ DOMAIN saving = SavingFields
      /\ saving.file \in {"homography", "survey"}
  BY DEF Truncate, WriteText, FilesInv, Promised
<1>2. AskedBins' = AskedBins
  BY <1>1 DEF AskedBins
<1>3. CASE Truncate
  <2>1. /\ saving.at = "open" /\ saving' = [saving EXCEPT !.at = "text"]
        /\ torn' = torn \cup {saving.file}
        /\ homography' = IF saving.file = "homography" THEN {} ELSE homography
        /\ survey' = IF saving.file = "survey" THEN <<>> ELSE survey
    BY <1>3 DEF Truncate
  <2>2. /\ DOMAIN saving' = SavingFields /\ saving'.at = "text"
        /\ saving'.file = saving.file /\ saving'.fit = saving.fit
        /\ saving'.bins = saving.bins /\ saving'.status = saving.status
    BY <1>1, <2>1 DEF SavingFields
  <2>3. Promised'
    BY <1>1, <1>2, <2>2 DEF Promised
  <2>4. AsFound
    BY <1>1, <2>1 DEF FilesInv
  <2>5. torn' \ {saving.file} = found.torn \ {saving.file}
    BY <2>1, <2>4 DEF AsFound, Files
  <2>6. /\ saving.file = "homography" => survey' = found.survey
        /\ saving.file = "survey" => homography' = found.homography
    BY <2>1, <2>4 DEF AsFound, Files
  <2> QED
    BY <1>1, <2>1, <2>2, <2>3, <2>5, <2>6 DEF FilesInv
<1>4. CASE WriteText
  <2>1. /\ saving.at = "text" /\ saving' = [saving EXCEPT !.at = "whole"]
        /\ torn' = torn \ {saving.file}
        /\ homography' = IF saving.file = "homography" THEN saving.fit ELSE homography
        /\ survey' = IF saving.file = "survey" THEN saving.bins ELSE survey
    BY <1>4 DEF WriteText
  <2>2. /\ DOMAIN saving' = SavingFields /\ saving'.at = "whole"
        /\ saving'.file = saving.file /\ saving'.fit = saving.fit
        /\ saving'.bins = saving.bins /\ saving'.status = saving.status
    BY <1>1, <2>1 DEF SavingFields
  <2>3. Promised'
    BY <1>1, <1>2, <2>2 DEF Promised
  <2>4. /\ torn \ {saving.file} = found.torn \ {saving.file}
        /\ saving.file = "homography" => survey = found.survey
        /\ saving.file = "survey" => homography = found.homography
    BY <2>1 DEF FilesInv
  <2>5. torn' \ {saving.file} = found.torn \ {saving.file} /\ saving.file \notin torn'
    BY <2>1, <2>4
  <2>6. /\ saving.file = "homography" => survey' = found.survey
        /\ saving.file = "survey" => homography' = found.homography
    BY <2>1, <2>4
  <2> QED
    BY <1>1, <2>1, <2>2, <2>3, <2>5, <2>6 DEF FilesInv
<1> QED
  BY <1>3, <1>4

LEMMA FilesInvStep ==
  ASSUME FilesInv, CalibNext PROVE FilesInv'
<1>1. CASE StartFit
  <2>1. PICK sheet, force, dryRun \in BOOLEAN :
          StartTool("fit", [sheet |-> sheet, force |-> force, dryRun |-> dryRun, labels |-> <<>>])
    BY <1>1 DEF StartFit
  <2> QED
    BY <2>1, StartKeeps
<1>2. CASE StartSurvey
  <2>1. PICK labels \in Labels, dryRun \in BOOLEAN :
          StartTool("survey", [NoOptions EXCEPT !.labels = labels, !.dryRun = dryRun])
    BY <1>2 DEF StartSurvey
  <2>2. [NoOptions EXCEPT !.labels = labels, !.dryRun = dryRun].labels = labels
    BY DEF NoOptions
  <2> QED
    BY <2>1, <2>2, StartKeeps
<1>3. ASSUME tool \in {"fit", "survey"}, UNCHANGED <<tool, options, files, saving, found>>
      PROVE  FilesInv'
  BY <1>3 DEF files, FilesInv, Promised, AskedBins, AsFound, Files
<1>4. ASSUME NEW p \in Pixels, Click(p) PROVE FilesInv'
  BY <1>3, <1>4 DEF Click
<1>5. CASE Undo
  <2>1. UNCHANGED <<tool, options, files, saving, found>>
    BY <1>5 DEF Undo
  <2> QED
    BY <2>1 DEF files, FilesInv, Promised, AskedBins, AsFound, Files
<1>6. CASE GiveUp \/ BreakOff \/ Written
  BY <1>6, ExitKeeps DEF GiveUp, BreakOff, Written
<1>7. CASE EnterFit
  BY <1>7, FitKeeps, ExitKeeps DEF EnterFit
<1>8. CASE EnterSurvey \/ GiveRegions
  <2>1. tool = "survey"
    BY <1>8 DEF EnterSurvey, GiveRegions
  <2>2. \/ Exit("2") /\ UNCHANGED files
        \/ \E numbers \in BOOLEAN : WriteAndVerify(options.labels, numbers)
    BY <1>8 DEF EnterSurvey, GiveRegions
  <2> QED
    BY <2>1, <2>2, SurveyKeeps, ExitKeeps
<1>9. CASE Truncate \/ WriteText
  BY <1>9, WriteKeeps
<1> QED
  BY <1>1, <1>2, <1>4, <1>5, <1>6, <1>7, <1>8, <1>9 DEF CalibNext

\* What the status of a tool that ends tells of the files.
Told ==
  \/ Files' = found /\ (status' = "0" => options.dryRun)
  \/ \E file \in {"homography", "survey"} :
       /\ LeavesOther(file)
       /\ file = "homography" => \A h \in saving.fit : h.passed \/ options.force
       /\ status' \in {"0", "1", "traceback"}
       /\ file \in torn' => status' = "traceback"
       /\ file \notin torn' /\ status' # "traceback" => (status' = "0" <=> Vouches(file))

\* The tool never opened a file.
LEMMA TellsOfNothing ==
  ASSUME FilesInv, tool # "none", saving.at \in {"none", "open"},
         NEW s, Exit(s), UNCHANGED files, s = "0" => options.dryRun
  PROVE  Told
<1>1. found = Files /\ Files' = Files /\ status' = s
  BY DEF FilesInv, AsFound, Files, files, Exit
<1> QED
  BY <1>1 DEF Told

\* The tool opened one.
LEMMA TellsOfAWrite ==
  ASSUME FilesInv, NEW s, Exit(s), UNCHANGED files,
         \/ saving.at \in {"text", "whole"} /\ s = "traceback"
         \/ saving.at = "whole" /\ s = saving.status
  PROVE  Told
<1> DEFINE file == saving.file
<1>1. /\ file \in {"homography", "survey"} /\ s \in {"0", "1", "traceback"} /\ Promised
      /\ status' = s
      /\ torn' = torn /\ homography' = homography /\ survey' = survey
  BY DEF FilesInv, Promised, Exit, files
<1>2. LeavesOther(file)
  BY <1>1 DEF FilesInv, LeavesOther
<1>3. file = "homography" => \A h \in saving.fit : h.passed \/ options.force
  BY <1>1 DEF Promised
<1>4. file \in torn' => status' = "traceback"
  BY <1>1 DEF FilesInv
<1>5. status' # "traceback" => (status' = "0" <=> Vouches(file))
  BY <1>1 DEF FilesInv, Promised, Vouches
<1> HIDE DEF file
<1> QED
  BY <1>1, <1>2, <1>3, <1>4, <1>5 DEF Told

LEMMA FitTells ==
  ASSUME FilesInv, tool = "fit", tool' = "none",
         NEW pixels, NEW marks, FitAndReport(pixels, marks)
  PROVE  Told
<1>1. PICK outcome \in Outcomes(pixels, marks) :
        LET ending == CASE outcome = "within" -> "0"
                         [] outcome = "infinite" -> "traceback"
                         [] OTHER -> "1"
        IN \/ /\ Saves(outcome, options)
              /\ Save([NoSaving EXCEPT !.at = "open", !.file = "homography", !.status = ending,
                                       !.fit = Fitted(pixels, marks, outcome)])
           \/ ~Saves(outcome, options) /\ Exit(ending) /\ UNCHANGED files
  BY DEF FitAndReport
<1> DEFINE ending == CASE outcome = "within" -> "0"
                        [] outcome = "infinite" -> "traceback"
                        [] OTHER -> "1"
<1>2. ~Saves(outcome, options) /\ Exit(ending) /\ UNCHANGED files
  BY <1>1 DEF Save
<1>3. ending = "0" => outcome = "within"
  OBVIOUS
<1>4. ending = "0" => options.dryRun
  BY <1>2, <1>3 DEF Saves
<1>5. saving.at = "none"
  BY DEF FilesInv
<1> HIDE DEF ending
<1> QED
  BY <1>2, <1>4, <1>5, TellsOfNothing

LEMMA ToolTells ==
  ASSUME FilesInv, CalibNext, tool # "none", tool' = "none"
  PROVE  Told
<1>1. tool \in {"fit", "survey"} => saving.at = "none"
  BY DEF FilesInv
<1>2. CASE GiveUp
  BY <1>1, <1>2, TellsOfNothing DEF GiveUp
<1>3. CASE BreakOff
  <2>1. Exit("traceback") /\ UNCHANGED files
    BY <1>3 DEF BreakOff
  <2> QED
    BY <2>1, TellsOfNothing, TellsOfAWrite DEF FilesInv
<1>4. CASE Written
  BY <1>4, TellsOfAWrite DEF Written
<1>5. CASE EnterFit
  <2>1. tool = "fit"
    BY <1>5 DEF EnterFit
  <2>2. \/ Exit("2") /\ UNCHANGED files
        \/ \E pixels, marks : FitAndReport(pixels, marks)
    BY <1>5 DEF EnterFit
  <2> QED
    BY <1>1, <2>1, <2>2, FitTells, TellsOfNothing
<1>6. CASE EnterSurvey \/ GiveRegions
  <2>1. tool = "survey"
    BY <1>6 DEF EnterSurvey, GiveRegions
  <2>2. \/ Exit("2") /\ UNCHANGED files
        \/ \E numbers \in BOOLEAN : WriteAndVerify(options.labels, numbers)
    BY <1>6 DEF EnterSurvey, GiveRegions
  <2>3. ASSUME NEW numbers \in BOOLEAN, WriteAndVerify(options.labels, numbers)
        PROVE  \/ Exit("1") /\ UNCHANGED files
               \/ options.dryRun /\ Exit("0") /\ UNCHANGED files
    BY <2>3 DEF WriteAndVerify, Save
  <2> QED
    BY <1>1, <2>1, <2>2, <2>3, TellsOfNothing
<1>7. ~(StartFit \/ StartSurvey)
  BY DEF StartFit, StartSurvey, StartTool
<1>8. ~(Undo \/ Truncate \/ WriteText \/ \E p \in Pixels : Click(p))
  BY DEF Undo, Truncate, WriteText, Click
<1> QED
  BY <1>2, <1>3, <1>4, <1>5, <1>6, <1>7, <1>8 DEF CalibNext
---------------------------------------------------------------------------
(* The bench. *)

BenchInv == OneAtATime /\ ReportIsTrue /\ JawsInv /\ FilesInv

LEMMA BenchStep == BenchInv /\ [BenchNext]_benchVars => BenchInv'
<1> SUFFICES ASSUME BenchInv, [BenchNext]_benchVars PROVE BenchInv'
  OBVIOUS
<1>1. ASSUME UNCHANGED liveVars PROVE OneAtATime' /\ ReportIsTrue' /\ JawsInv'
  <2>1. OneAtATime'
    BY <1>1 DEF BenchInv, OneAtATime, liveVars, session
  <2>2. ReportIsTrue'
    BY <1>1 DEF BenchInv, ReportIsTrue, liveVars, session, heard, AskedJoints, Target,
                Landed, Drifted, Off
  <2>3. JawsInv'
    BY <1>1 DEF BenchInv, JawsInv, liveVars, session, Target, SetPose
  <2> QED
    BY <2>1, <2>2, <2>3
<1>2. CASE LiveNext /\ UNCHANGED <<tool, options, files, saving, found>>
  <2>1. FilesInv'
    BY <1>2 DEF BenchInv, files, FilesInv, Promised, AskedBins, AsFound, Files
  <2> QED
    BY <1>2, <2>1, OneAtATimeStep, ReportStep, JawsStep DEF BenchInv
<1>3. CASE CalibNext /\ UNCHANGED liveVars
  BY <1>1, <1>3, FilesInvStep DEF BenchInv
<1>4. CASE UNCHANGED benchVars
  BY <1>1, <1>4 DEF BenchInv, benchVars, calibVars, files, FilesInv, Promised, AskedBins,
                    AsFound, Files
<1> QED
  BY <1>2, <1>3, <1>4 DEF BenchNext

\* What a live check says of the arm is so, for any joints, names, arm and
\* commands (ReportIsTrue).
THEOREM ReportCorrect == BenchSpec => []ReportIsTrue
<1>1. BenchInit => BenchInv
  BY InitHolds DEF BenchInv
<1>2. BenchInv => ReportIsTrue
  BY DEF BenchInv
<1> QED
  BY <1>1, <1>2, BenchStep, PTL DEF BenchSpec

\* Home and hover never move the jaws, whatever the driver drops and wherever
\* they are interrupted (JawsKept).
THEOREM JawsCorrect == BenchSpec => JawsKept
<1>1. BenchInit => BenchInv
  BY InitHolds DEF BenchInv
<1>2. BenchInv /\ [BenchNext]_benchVars
        => [phase # "idle" /\ command.cmd \in {"home", "hover"}
              => arm'[Gripper] = arm[Gripper]]_liveVars
  BY JawsStay DEF BenchInv, BenchNext, benchVars
<1> QED
  BY <1>1, <1>2, BenchStep, PTL DEF BenchSpec, JawsKept

\* The status of a calibration tool tells what became of the two files, for
\* any sheet, clicks and labels, and wherever a write breaks off
\* (StatusTellsTheFiles).
THEOREM FilesCorrect == BenchSpec => StatusTellsTheFiles
<1>1. BenchInit => BenchInv
  BY InitHolds DEF BenchInv
<1>2. BenchInv /\ [BenchNext]_benchVars => [tool # "none" /\ tool' = "none" => Told]_calibVars
  <2> SUFFICES ASSUME BenchInv, BenchNext, tool # "none", tool' = "none" PROVE Told
    BY DEF benchVars
  <2> QED
    BY ToolTells DEF BenchNext, BenchInv
<1>3. [tool # "none" /\ tool' = "none" => Told]_calibVars =>
        [tool # "none" /\ tool' = "none" =>
           \/ Files' = found /\ (status' = "0" => options.dryRun)
           \/ \E file \in {"homography", "survey"} :
                /\ LeavesOther(file)
                /\ file = "homography" => \A h \in saving.fit : h.passed \/ options.force
                /\ status' \in {"0", "1", "traceback"}
                /\ file \in torn' => status' = "traceback"
                /\ file \notin torn' /\ status' # "traceback" =>
                     (status' = "0" <=> Vouches(file))]_calibVars
  BY DEF Told
<1> QED
  BY <1>1, <1>2, <1>3, BenchStep, PTL DEF BenchSpec, StatusTellsTheFiles
---------------------------------------------------------------------------
(* The arm eases off: the joints that were read at the start are believed  *)
(* where they are until the first waypoint, which is therefore on the way  *)
(* from there.                                                             *)

PoseAction == [type : {"set_pose"}, names : SUBSET Joints,
               angle : [JointNames -> Int], duration : 0..MaxDuration]

Leg == [scope : SUBSET Joints, start : [Joints -> Int], goal : [Joints -> Int],
        step : Nat, steps : Nat]

EaseInv ==
  /\ arm \in [Joints -> Int] /\ pose \in [Joints -> Int]
  /\ plan \in Seq(PoseAction)
  /\ leg \in Leg
  /\ Ramping \/ leg = NoLeg
  /\ phase \in {"idle", "confirm", "open"} => synced = {}
  /\ synced \subseteq Joints
  /\ \A j \in synced :
       /\ pose[j] = arm[j]
       /\ Ramping => leg.step = 1 /\ leg.start[j] = arm[j]

\* The first waypoint is at most its share of the way off, and a degree.
LEMMA FirstShare ==
  ASSUME NEW from \in Int, NEW to \in Int, NEW n \in Nat \ {0}
  PROVE  /\ Waypoint(from, to, 1, n) \in Int
         /\ Off(Waypoint(from, to, 1, n), from) * n <= Off(from, to) + n
<1> DEFINE d == to - from
           q == (d * 1) \div n
<1>1. d \in Int /\ q \in Int /\ n * q <= d /\ d < n * q + n
  BY SMT
<1>2. Waypoint(from, to, 1, n) = from + q
  BY DEF Waypoint
<1>3. Off(from, to) = IF d < 0 THEN -d ELSE d
  BY SMT DEF Off
<1> HIDE DEF q, d
<1>4. Off(from + q, from) = IF q < 0 THEN -q ELSE q
  BY <1>1, SMT DEF Off
<1>5. CASE q >= 0
  <2>1. n * q >= 0 /\ q * n = n * q
    BY <1>1, <1>5, SMT
  <2> QED
    BY <1>1, <1>2, <1>3, <1>4, <1>5, <2>1, SMT
<1>6. CASE q < 0
  <2>1. (-q) * n = -(n * q)
    BY <1>1, SMT
  <2>2. n * (q + 1) <= 0 /\ n * (q + 1) = n * q + n
    BY <1>1, <1>6, SMT
  <2> QED
    BY <1>1, <1>2, <1>3, <1>4, <1>6, <2>1, <2>2, SMT
<1> QED
  BY <1>1, <1>5, <1>6

LEMMA WaypointIsInt ==
  ASSUME NEW from \in Int, NEW to \in Int, NEW n \in Nat \ {0}, NEW s \in Int
  PROVE  Waypoint(from, to, s, n) \in Int
BY SMT DEF Waypoint

\* Where a pose action ends is a pose.
LEMMA GoalOfPose ==
  ASSUME NEW a \in PoseAction, NEW p \in [Joints -> Int]
  PROVE  /\ Goal(a, p) \in [Joints -> Int]
         /\ Scope(a) \subseteq Joints
         /\ RampSteps(a.duration) \in Nat \ {0}
<1>1. a.type = "set_pose" /\ a.names \subseteq Joints /\ a.duration \in Int
      /\ a.angle \in [JointNames -> Int]
  BY BoundsAssumption DEF PoseAction
<1>2. \A j \in Joints : a.angle[j] \in Int
  BY <1>1, LimitsAssumption
<1>3. \A j \in Joints : Clamp(j, a.angle[j]) \in Int
  BY <1>2, LimitsAssumption DEF Clamp
<1>4. Goal(a, p) \in [Joints -> Int]
  BY <1>1, <1>3 DEF Goal
<1>5. Scope(a) \subseteq Joints
  BY <1>1 DEF Scope
<1>6. RampSteps(a.duration) \in Nat \ {0}
  BY <1>1 DEF RampSteps
<1> QED
  BY <1>4, <1>5, <1>6

\* A pose that validates is an action of the kind that is run.
LEMMA SetPoseIsPose ==
  ASSUME NEW want, NEW duration,
         DOMAIN want \subseteq Joints, \A j \in DOMAIN want : want[j] \in Int,
         ValidAction(SetPose(want, duration))
  PROVE  SetPose(want, duration) \in PoseAction
<1> DEFINE angle == [j \in JointNames |-> IF j \in DOMAIN want THEN want[j] ELSE 0]
<1>1. angle \in [JointNames -> Int]
  OBVIOUS
<1>2. duration \in 0..MaxDuration
  BY DEF ValidAction, SetPose
<1> HIDE DEF angle
<1>3. [type |-> "set_pose", names |-> DOMAIN want, angle |-> angle, duration |-> duration]
        \in PoseAction
  BY <1>1, <1>2 DEF PoseAction
<1> QED
  BY <1>3 DEF SetPose, angle

LEMMA TargetIsPose ==
  ASSUME OneAtATime
  PROVE  /\ DOMAIN Target(command) \subseteq Joints
         /\ \A j \in DOMAIN Target(command) : Target(command)[j] \in Int
<1>1. /\ DOMAIN command.want \subseteq Joints
      /\ \A j \in DOMAIN command.want : command.want[j] \in Int
  <2>1. CASE command \in Commands
    BY <2>1, LiveAssumption
  <2>2. CASE command = NoCommand
    <3>1. command.want = [j \in {} |-> 0]
      BY <2>2 DEF NoCommand
    <3> QED
      BY <3>1
  <2> QED
    BY <2>1, <2>2 DEF OneAtATime
<1> QED
  BY <1>1 DEF Target

\* A plan that validates is one of poses.
LEMMA PlanIsPoses ==
  ASSUME OneAtATime, ValidPlan(PlanOf(command))
  PROVE  PlanOf(command) \in Seq(PoseAction)
<1>1. CASE command.cmd = "gripper"
  <2>1. Probe \in Seq(Int) /\ Gripper \in Joints
    BY LiveAssumption
  <2> DEFINE P(i) == SetPose([j \in {Gripper} |-> Probe[i]], command.duration)
  <2>2. ASSUME NEW i \in DOMAIN Probe PROVE P(i) \in PoseAction
    <3>1. PlanOf(command)[i] = P(i) /\ i \in DOMAIN PlanOf(command)
      BY <1>1 DEF PlanOf
    <3>2. ValidAction(P(i))
      BY <3>1 DEF ValidPlan
    <3>3. Probe[i] \in Int
      BY <2>1
    <3> QED
      BY <2>1, <3>2, <3>3, SetPoseIsPose
  <2>3. PlanOf(command) = [i \in DOMAIN Probe |-> P(i)]
    BY <1>1 DEF PlanOf
  <2> HIDE DEF P
  <2>4. DOMAIN Probe = 1..Len(Probe) /\ Len(Probe) \in Nat
    BY <2>1
  <2> QED
    BY <2>2, <2>3, <2>4
<1>2. CASE command.cmd # "gripper"
  <2> DEFINE a == SetPose(Target(command), command.duration)
  <2>1. PlanOf(command) = <<a>>
    BY <1>2 DEF PlanOf
  <2>2. ValidAction(a)
    <3> HIDE DEF a
    <3>1. 1 \in DOMAIN <<a>> /\ <<a>>[1] = a
      OBVIOUS
    <3> QED
      BY <2>1, <3>1 DEF ValidPlan
  <2>3. a \in PoseAction
    BY <2>2, TargetIsPose, SetPoseIsPose
  <2> HIDE DEF a
  <2> QED
    BY <2>1, <2>3
<1> QED
  BY <1>1, <1>2

LEMMA InitEase == BenchInit => EaseInv
<1> SUFFICES ASSUME BenchInit PROVE EaseInv
  OBVIOUS
<1>1. arm \in Rests /\ pose = Zeros /\ leg = NoLeg /\ plan = <<>> /\ synced = {}
  BY DEF BenchInit, LiveInit
<1>2. NoLeg \in Leg /\ Zeros \in [Joints -> Int]
  BY DEF NoLeg, Leg, Zeros
<1>3. arm \in [Joints -> Int]
  BY <1>1, LiveAssumption
<1>4. plan \in Seq(PoseAction)
  BY <1>1
<1> QED
  BY <1>1, <1>2, <1>3, <1>4 DEF EaseInv

\* What is read of the joints is believed of them.
LEMMA SyncEase ==
  ASSUME OneAtATime, JawsInv, EaseInv, Sync PROVE EaseInv'
<1>1. PICK reading \in Readings :
        LET state == CanonicalJoints(reading)
        IN /\ pose' = [j \in Joints |-> IF j \in DOMAIN state THEN state[j] ELSE pose[j]]
           /\ synced' = IF nameMap = NoNames THEN {} ELSE {JointOf(n) : n \in reading}
  BY DEF Sync
<1> DEFINE state == CanonicalJoints(reading)
<1>2. leg = NoLeg /\ ~Ramping /\ leg' = leg /\ arm' = arm /\ plan' = plan /\ phase' = "execute"
  BY DEF Sync, JawsInv, Ramping, NoLeg
<1>3. \A n \in reading : JointOf(n) \in Joints /\ SdkName[JointOf(n)] = n
  BY DEF Readings, JointOf
<1>4. ASSUME NEW k \in DOMAIN state PROVE state[k] \in Int
  <2>1. k \in {Canon(n) : n \in reading}
      /\ state[k] = arm[JointOf(CHOOSE n \in reading : Canon(n) = k)]
    BY DEF CanonicalJoints
  <2>2. (CHOOSE n \in reading : Canon(n) = k) \in reading
    BY <2>1
  <2> QED
    BY <1>3, <2>1, <2>2 DEF EaseInv
<1>5. pose' \in [Joints -> Int]
  BY <1>1, <1>4 DEF EaseInv
<1>6. synced' \subseteq Joints
  BY <1>1, <1>3
<1>7. ASSUME NEW j \in synced' PROVE pose'[j] = arm[j]
  <2>1. nameMap # NoNames /\ j \in {JointOf(n) : n \in reading}
    BY <1>1, <1>7
  <2>2. nameMap = SdkName /\ j \in Joints /\ SdkName[j] \in reading
    BY <1>3, <2>1 DEF OneAtATime
  <2>3. Canon(SdkName[j]) = j
    BY <2>2, LiveAssumption DEF Canon
  <2>4. j \in DOMAIN state /\ state[j] = arm[j]
    BY <2>2, <2>3, Measured DEF OneAtATime
  <2> QED
    BY <1>1, <2>2, <2>4
<1> HIDE DEF state
<1> QED
  BY <1>2, <1>5, <1>6, <1>7 DEF EaseInv, Ramping, NoLeg

\* A ramp starts from what is believed.
LEMMA BeginRampEase ==
  ASSUME EaseInv, BeginRamp PROVE EaseInv'
<1> DEFINE a == Head(plan)
<1>1. a \in PoseAction /\ plan # <<>>
  BY DEF EaseInv, BeginRamp
<1>2. /\ leg' = [scope |-> Scope(a), start |-> pose, goal |-> Goal(a, pose),
                 step |-> 1, steps |-> RampSteps(a.duration)]
      /\ UNCHANGED <<phase, arm, pose, plan, synced>>
  BY DEF BeginRamp
<1>3. /\ Goal(a, pose) \in [Joints -> Int] /\ Scope(a) \subseteq Joints
      /\ RampSteps(a.duration) \in Nat \ {0}
  BY <1>1, GoalOfPose DEF EaseInv
<1> HIDE DEF a
<1>4. leg' \in Leg /\ Ramping' /\ leg'.step = 1 /\ leg'.start = pose
  BY <1>2, <1>3 DEF EaseInv, Leg, Ramping
<1> QED
  BY <1>2, <1>4 DEF EaseInv

\* After a waypoint nothing that was read counts.
LEMMA StepEase ==
  ASSUME JawsInv, EaseInv, Step PROVE EaseInv'
<1>1. /\ leg \in Leg /\ Ramping /\ plan # <<>> /\ leg # NoLeg
      /\ plan \in Seq(PoseAction)
  BY DEF Step, EaseInv, JawsInv, Ramping, NoLeg
<1>2. leg.scope \subseteq Joints /\ leg.step \in Nat /\ leg.steps \in Nat \ {0}
  BY <1>1 DEF Leg, Ramping
<1>3. ASSUME NEW j \in Joints PROVE Asked(j) \in Int
  <2>1. leg.start[j] \in Int /\ leg.goal[j] \in Int /\ leg.step \in Int
    BY <1>1, <1>2 DEF Leg
  <2> QED
    BY <1>2, <2>1, WaypointIsInt DEF Asked
<1>4. pose' \in [Joints -> Int] /\ arm' \in [Joints -> Int]
  BY <1>3 DEF Step, Move, EaseInv
<1>5. CASE leg.step = leg.steps
  <2>1. leg' = NoLeg /\ plan' = Tail(plan) /\ synced' = {}
    BY <1>5 DEF Step
  <2>2. leg' \in Leg
    BY <2>1 DEF NoLeg, Leg, Zeros
  <2>3. plan' \in Seq(PoseAction)
    BY <1>1, <2>1
  <2> QED
    BY <1>4, <2>1, <2>2, <2>3 DEF EaseInv
<1>6. CASE leg.step # leg.steps
  <2>1. leg' = [leg EXCEPT !.step = leg.step + 1] /\ plan' = plan /\ synced' = {}
    BY <1>6 DEF Step
  <2>2. leg' \in Leg /\ leg'.steps = leg.steps
    <3>1. /\ leg \in [scope : SUBSET Joints, start : [Joints -> Int],
                     goal : [Joints -> Int], step : Nat, steps : Nat]
          /\ leg.step + 1 \in Nat
      BY <1>1, <1>2 DEF Leg
    <3>2. leg' \in [scope : SUBSET Joints, start : [Joints -> Int],
                   goal : [Joints -> Int], step : Nat, steps : Nat]
      BY <2>1, <3>1
    <3>3. leg'.steps = leg.steps
      BY <2>1, <3>1
    <3> QED
      BY <3>2, <3>3 DEF Leg
  <2> QED
    BY <1>1, <1>4, <2>1, <2>2 DEF EaseInv, Ramping
<1> QED
  BY <1>5, <1>6

\* Where the arm is after a move.
LEMMA MoveEase ==
  ASSUME EaseInv, NEW obeying \in SUBSET leg.scope, Move(obeying)
  PROVE  /\ arm' \in [Joints -> Int]
         /\ \A j \in synced :
              Off(arm'[j], arm[j]) * leg.steps <= Off(arm[j], leg.goal[j]) + leg.steps
<1>1. leg \in Leg /\ arm \in [Joints -> Int] /\ synced \subseteq Joints
  BY DEF EaseInv
<1>2. CASE Ramping
  <2>1. /\ leg.steps \in Nat \ {0} /\ leg.step \in Nat /\ leg.goal \in [Joints -> Int]
        /\ leg.start \in [Joints -> Int] /\ leg.scope \subseteq Joints
    BY <1>1, <1>2 DEF Leg, Ramping
  <2>2. ASSUME NEW j \in Joints PROVE Asked(j) \in Int
    <3>1. leg.start[j] \in Int /\ leg.goal[j] \in Int /\ leg.step \in Int
      BY <2>1
    <3> QED
      BY <2>1, <3>1, WaypointIsInt DEF Asked
  <2>3. ASSUME NEW j \in synced
        PROVE  Off(arm'[j], arm[j]) * leg.steps <= Off(arm[j], leg.goal[j]) + leg.steps
    <3>1. /\ leg.step = 1 /\ leg.start[j] = arm[j] /\ j \in Joints
          /\ arm[j] \in Int /\ leg.goal[j] \in Int
      BY <1>1, <1>2, <2>1 DEF EaseInv
    <3>2. CASE j \in obeying
      <4>1. arm'[j] = Waypoint(arm[j], leg.goal[j], 1, leg.steps)
        BY <3>1, <3>2 DEF Move, Asked
      <4> QED
        BY <2>1, <3>1, <4>1, FirstShare
    <3>3. CASE j \notin obeying
      <4>1. arm'[j] = arm[j]
        BY <3>1, <3>3 DEF Move
      <4>2. Off(arm'[j], arm[j]) = 0 /\ Off(arm[j], leg.goal[j]) >= 0
            /\ Off(arm[j], leg.goal[j]) \in Int
        BY <3>1, <4>1 DEF Off
      <4> QED
        BY <2>1, <4>2
    <3> QED
      BY <3>2, <3>3
  <2> QED
    BY <1>1, <2>2, <2>3 DEF Move
<1>3. CASE ~Ramping
  <2>1. leg.scope = {} /\ leg.steps = 0 /\ leg.goal \in [Joints -> Int]
    BY <1>3, <1>1 DEF EaseInv, NoLeg, Leg
  <2>2. arm' = arm
    BY <1>1, <2>1 DEF Move
  <2>3. \A j \in synced : Off(arm[j], arm[j]) * 0 <= Off(arm[j], leg.goal[j]) + 0
    BY <1>1, <2>1 DEF Off
  <2> QED
    BY <1>1, <2>1, <2>2, <2>3
<1> QED
  BY <1>2, <1>3

LEMMA EaseStep ==
  ASSUME OneAtATime, JawsInv, EaseInv, LiveNext PROVE EaseInv'
<1>1. ASSUME UNCHANGED <<arm, pose, leg, plan, synced>>, 
             phase' \in {"idle", "confirm", "open"} => phase \in {"idle", "confirm", "open"}
      PROVE  EaseInv'
  BY <1>1 DEF EaseInv, Ramping
<1>2. ASSUME NEW result, End(result), arm' \in [Joints -> Int] PROVE EaseInv'
  <2>1. NoLeg \in Leg /\ Zeros \in [Joints -> Int]
    BY DEF NoLeg, Leg, Zeros
  <2> QED
    BY <1>2, <2>1 DEF End, EaseInv
<1>3. arm \in [Joints -> Int]
  BY DEF EaseInv
<1>4. ASSUME NEW c \in Commands, Invoke(c) PROVE EaseInv'
  BY <1>1, <1>4 DEF Invoke, session
<1>5. CASE Confirm
  BY <1>1, <1>2, <1>3, <1>5 DEF Confirm, session
<1>6. CASE Open \/ OpenFails
  BY <1>1, <1>2, <1>3, <1>6 DEF Open, OpenFails
<1>7. CASE Sync
  BY <1>7, SyncEase
<1>8. CASE Execute
  <2>1. CASE ValidPlan(PlanOf(command))
    <3>1. /\ plan' \in Seq(PoseAction) /\ phase' = "run"
          /\ UNCHANGED <<arm, pose, leg, synced>>
      BY <1>8, <2>1, PlanIsPoses DEF Execute
    <3> QED
      BY <3>1 DEF EaseInv, Ramping
  <2>2. CASE ~ValidPlan(PlanOf(command))
    BY <1>2, <1>3, <1>8, <2>2 DEF Execute
  <2> QED
    BY <2>1, <2>2
<1>9. CASE BeginRamp
  BY <1>9, BeginRampEase
<1>10. CASE Step
  BY <1>10, StepEase
<1>11. CASE StepFails
  BY <1>2, <1>11, MoveEase DEF StepFails
<1>12. CASE Complete
  BY <1>1, <1>2, <1>3, <1>12 DEF Complete, session
<1>13. CASE Report
  BY <1>2, <1>3, <1>13 DEF Report
<1>14. CASE Handle
  <2>1. arm' \in [Joints -> Int] /\ synced = {} /\ phase = "idle"
    BY <1>14, LiveAssumption DEF Handle, EaseInv
  <2> QED
    BY <1>14, <2>1 DEF Handle, session, EaseInv, Ramping
<1> QED
  BY <1>4, <1>5, <1>6, <1>7, <1>8, <1>9, <1>10, <1>11, <1>12, <1>13, <1>14 DEF LiveNext

LEMMA FirstMove ==
  ASSUME EaseInv, LiveNext
  PROVE  \A j \in synced :
           Off(arm'[j], arm[j]) * leg.steps <= Off(arm[j], leg.goal[j]) + leg.steps
<1>1. CASE Step \/ StepFails
  BY <1>1, MoveEase DEF Step, StepFails
<1>2. CASE arm' = arm
  <2>1. /\ leg.steps \in Nat /\ leg.goal \in [Joints -> Int]
        /\ arm \in [Joints -> Int] /\ synced \subseteq Joints
    BY DEF EaseInv, Leg
  <2>2. \A x, y, n \in Int : n >= 0 => Off(x, x) * n <= Off(x, y) + n
    BY DEF Off
  <2> QED
    BY <1>2, <2>1, <2>2
<1>3. CASE synced = {}
  BY <1>3
<1>4. CASE Handle \/ \E c \in Commands : Invoke(c)
  BY <1>3, <1>4 DEF Handle, Invoke, EaseInv
<1>5. CASE Confirm \/ Open \/ OpenFails \/ Sync \/ Execute \/ BeginRamp \/ Complete \/ Report
  BY <1>2, <1>5 DEF Confirm, Open, OpenFails, Sync, Execute, BeginRamp, Complete, Report
<1> QED
  BY <1>1, <1>4, <1>5 DEF LiveNext

\* A joint whose angle was read starts moving by at most its share of the way
\* from where it really is (EasesOff; sync_executor_pose, _ramp_to).
THEOREM EaseCorrect == BenchSpec => EasesOff
<1>1. BenchInit => BenchInv /\ EaseInv
  BY InitHolds, InitEase DEF BenchInv
<1>2. BenchInv /\ EaseInv /\ [BenchNext]_benchVars => (BenchInv /\ EaseInv)'
  <2> SUFFICES ASSUME BenchInv, EaseInv, [BenchNext]_benchVars PROVE EaseInv'
    BY BenchStep
  <2>1. CASE LiveNext
    BY <2>1, EaseStep DEF BenchInv
  <2>2. CASE UNCHANGED liveVars
    BY <2>2 DEF liveVars, session, EaseInv, Ramping
  <2> QED
    BY <2>1, <2>2 DEF BenchNext, benchVars
<1>3. BenchInv /\ EaseInv /\ [BenchNext]_benchVars =>
        [\A j \in synced :
           Off(arm'[j], arm[j]) * leg.steps <= Off(arm[j], leg.goal[j]) + leg.steps]_liveVars
  BY FirstMove DEF BenchNext, benchVars
<1> QED
  BY <1>1, <1>2, <1>3, PTL DEF BenchSpec, EasesOff
============================================================================
