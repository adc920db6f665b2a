------------------------------ MODULE Dashboard ------------------------------
(***************************************************************************)
(* DashboardState of src/gui/events.py: what the page draws, folded from   *)
(* events.  Times, texts, the log and the frame are left out; detection is *)
(* whether one is shown, qc a grade, routing the zone and whether it is a  *)
(* diversion, an alert its severity and origin, the errors of a motion     *)
(* report whether there are any.  Numbers are numbers.                     *)
(***************************************************************************)
EXTENDS Integers, Sequences, Modes

CONSTANT NoOrder  \* the order of a board before the first one

VARIABLES
  board,          \* the DashboardState
  dropped         \* apply returned False for the last event

Pipeline == <<"ORDER", "DETECT", "LOCATE", "PICK", "PLACE", "VERIFY", "ALERT">>
StageNames == {Pipeline[i] : i \in DOMAIN Pipeline}
MotionStages == {"PICK", "PLACE"}
StageStates == {"idle", "active", "done", "failed", "skipped"}
MotionStates == {"commanded", "verified", "mismatch", "unverified"}
Outcomes == {"running", "fulfilled", "retried", "failed"}

NoReport == [state |-> "none", attempt |-> 0]
NoVerdict == [ok |-> FALSE, attempt |-> 0]
NoRouting == [bin |-> "none", diverted |-> FALSE]

Board(Orders) ==
  [mode : AllModes,
   stages : [StageNames -> [status : StageStates,
                            motion : [state : MotionStates \cup {"none"},
                                      attempt : Nat]]],
   order : Orders \cup {NoOrder},
   detection : BOOLEAN,
   qc : Grades \cup {"none"},
   routing : [bin : Zones \cup {"none"}, diverted : BOOLEAN],
   verification : [ok : BOOLEAN, attempt : Nat],
   alerts : Seq([severity : {"info", "warning", "error"},
                 origin : {"dashboard", "run_order"}]),
   outcome : Outcomes,
   attempt : Nat,
   attempts : Nat]

Fresh(mode) ==
  [mode |-> mode,
   stages |-> [s \in StageNames |-> [status |-> "idle", motion |-> NoReport]],
   order |-> NoOrder, detection |-> FALSE, qc |-> "none", routing |-> NoRouting,
   verification |-> NoVerdict, alerts |-> <<>>, outcome |-> "running",
   attempt |-> 0, attempts |-> 0]

\* Events, as the builders of events.py make them.  An attempt of 0 is no
\* attempt.
StageEvent(s, status, n) ==
  [kind |-> "stage", stage |-> s, status |-> status, attempt |-> n]
MotionEvent(s, state, errors, n) ==
  [kind |-> "motion", stage |-> s, state |-> state, errors |-> errors, attempt |-> n]
---------------------------------------------------------------------------
Larger(m, n) == IF m > n THEN m ELSE n

\* A stage going active, or the outcome (before = "end"), finishes the earlier
\* stages that are still active.
CloseActive(stages, before) ==
  [s \in StageNames |->
     IF /\ stages[s].status = "active"
        /\ before = "end" \/ \E i, j \in DOMAIN Pipeline :
                            i < j /\ s = Pipeline[i] /\ before = Pipeline[j]
     THEN [stages[s] EXCEPT !.status = "done"] ELSE stages[s]]

\* What an event's attempt, which may be missing, says the attempt is.
AttemptOf(b, e) == IF e.attempt = 0 THEN b.attempt ELSE e.attempt

\* A stage that is commanded again starts unconfirmed.
OnStage(b, e) ==
  LET strip == IF e.status = "active" THEN CloseActive(b.stages, e.stage) ELSE b.stages
      motion == IF e.status = "active" THEN NoReport ELSE strip[e.stage].motion
  IN [b EXCEPT
        !.stages = [strip EXCEPT ![e.stage] = [status |-> e.status, motion |-> motion]],
        !.attempt = AttemptOf(b, e),
        !.attempts = IF e.attempt = 0 THEN @ ELSE Larger(@, e.attempt)]

\* motion_report: errors make a mismatch of a report that claims "verified".
OnMotion(b, e) ==
  [b EXCEPT !.stages[e.stage].motion =
     [state |-> IF e.errors /\ e.state = "verified" THEN "mismatch" ELSE e.state,
      attempt |-> AttemptOf(b, e)]]

OnVerification(b, e) ==
  [b EXCEPT !.verification = [ok |-> e.ok, attempt |-> Larger(AttemptOf(b, e), 1)]]

OnAlert(b, e) ==
  [b EXCEPT !.alerts = Append(@, [severity |-> e.severity, origin |-> e.origin])]

OnOutcome(b, e) ==
  [b EXCEPT !.outcome = e.status,
            !.attempts = IF e.attempts = 0 THEN @ ELSE e.attempts,
            !.stages = CloseActive(@, "end")]

\* A fresh run.
Reset(b, mode) == Fresh(mode)

\* What the handlers refuse, before they change anything.
Raises(e) ==
  \/ e.kind \in {"reset", "mode"} /\ e.mode \notin AllModes
  \/ e.kind \in {"stage", "motion"} /\ e.stage \notin StageNames
  \/ e.kind = "motion" /\ e.state \notin MotionStates
  \/ e.kind = "qc" /\ e.grade \notin Grades

\* The handler of an event; one of a kind that has none changes nothing.
Handled(b, e) ==
  CASE e.kind = "reset" -> Reset(b, e.mode)
    [] e.kind = "mode" -> [b EXCEPT !.mode = e.mode]
    [] e.kind = "order" -> [b EXCEPT !.order = e.order]
    [] e.kind = "stage" -> OnStage(b, e)
    [] e.kind = "motion" -> OnMotion(b, e)
    [] e.kind = "detection" -> [b EXCEPT !.detection = TRUE]
    [] e.kind = "qc" -> [b EXCEPT !.qc = e.grade]
    [] e.kind = "routing" ->
         [b EXCEPT !.routing = [bin |-> e.bin, diverted |-> e.diverted]]
    [] e.kind = "verification" -> OnVerification(b, e)
    [] e.kind = "alert" -> OnAlert(b, e)
    [] e.kind = "outcome" -> OnOutcome(b, e)
    [] OTHER -> b

\* apply: what the board is after an event, understood or not.
Apply(b, e) == IF Raises(e) THEN b ELSE Handled(b, e)
---------------------------------------------------------------------------
BoardInit(mode) == board = Fresh(mode) /\ dropped = FALSE

\* One event is applied.
Ingest(e) == /\ board' = Apply(board, e)
             /\ dropped' = Raises(e)
============================================================================
