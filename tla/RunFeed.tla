------------------------------- MODULE RunFeed -------------------------------
(***************************************************************************)
(* A real run on the dashboard: run_order prints, python -m src.gui.emit   *)
(* reads its output through a pipe and appends events to a file, the       *)
(* dashboard follows the file.  Three processes; each action of            *)
(* FulfillOrder prints the lines of loop.py, motion.py, alerts.py and      *)
(* run_order.py that the translator knows.  Nothing here reads encoders    *)
(* back.  Names of items have no apostrophe, so that repr quotes them the  *)
(* way the pattern of the order's line wants.                              *)
(***************************************************************************)
EXTENDS FulfillOrder, Dashboard

CONSTANTS
  MaxPipe,     \* lines the pipe holds before the run waits
  MaxFile      \* events the file is ahead of the dashboard

ASSUME FeedAssumption ==
  /\ \E c \in Callers : Callers = {c}
  /\ MaxPipe \in Nat /\ MaxFile \in Nat

VARIABLES
  pipe,        \* the lines printed and not yet read
  translator,  \* the RunOrderTranslator
  file,        \* the events written and not yet followed
  legible      \* history: the translator knows the lines of the last step

feed == <<pipe, translator, file, legible, board, dropped>>
feedVars == <<vars, feed>>

Lines == [text : {"order"}, order : Orders]
         \cup [text : {"located", "picking", "placing", "complete",
                       "fulfilled", "failed", "unreadable"}]
         \cup [text : {"verdict"}, ok : BOOLEAN]
         \cup [text : {"retry"}, n : Nat]
         \cup [text : {"alert"}, kind : {"order_fulfilled", "order_failed"}]

Line(t) == [text |-> t]

Translator == [attempt : Nat, retried : BOOLEAN,
               move : MotionStages \cup {"none"}, detected : BOOLEAN,
               verified : BOOLEAN, alerted : BOOLEAN]

NewTranslator == [attempt |-> 1, retried |-> FALSE, move |-> "none",
                  detected |-> FALSE, verified |-> FALSE, alerted |-> FALSE]
---------------------------------------------------------------------------
(* What the translator makes of a line: its next state and the events. *)

\* Mutant: the order's line does not reset the translator.
AfterKeeping(t, l) ==
  CASE l.text = "retry" -> [t EXCEPT !.attempt = l.n, !.retried = TRUE]
    [] l.text \in {"located", "picking"} -> [t EXCEPT !.detected = TRUE, !.move = "PICK"]
    [] l.text = "placing" -> [t EXCEPT !.move = "PLACE"]
    [] l.text = "complete" -> [t EXCEPT !.move = "none"]
    [] l.text = "verdict" -> [t EXCEPT !.verified = TRUE]
    [] l.text = "alert" -> [t EXCEPT !.alerted = TRUE]
    [] OTHER -> t

After(t, l) ==
  CASE l.text = "order" -> NewTranslator
    [] l.text = "located" -> [t EXCEPT !.detected = TRUE]
    [] l.text = "picking" -> [t EXCEPT !.detected = TRUE, !.move = "PICK"]
    [] l.text = "placing" -> [t EXCEPT !.move = "PLACE"]
    [] l.text = "complete" -> [t EXCEPT !.move = "none"]
    [] l.text = "verdict" -> [t EXCEPT !.verified = TRUE]
    [] l.text = "retry" -> [t EXCEPT !.attempt = l.n, !.retried = TRUE]
    [] l.text = "alert" -> [t EXCEPT !.alerted = TRUE]
    [] OTHER -> t

OnOrderLine(o) ==
  <<[kind |-> "reset", mode |-> "order"], [kind |-> "order", order |-> o],
    StageEvent("ORDER", "done", 0), StageEvent("DETECT", "active", 0)>>

OnLocated ==
  <<[kind |-> "detection"], StageEvent("DETECT", "done", 0),
    StageEvent("LOCATE", "active", 0), StageEvent("LOCATE", "done", 0)>>

\* Mutant: the report goes first, and the stage clears it.
OnMoveReportFirst(t, s) ==
  <<MotionEvent(s, "commanded", FALSE, t.attempt), StageEvent(s, "active", t.attempt)>>

\* A pick no point was perceived for skips DETECT and LOCATE.
OnMove(t, s) ==
  (IF s = "PICK" /\ ~t.detected
   THEN <<StageEvent("DETECT", "skipped", 0), StageEvent("LOCATE", "skipped", 0)>>
   ELSE <<>>)
  \o <<StageEvent(s, "active", t.attempt),
       MotionEvent(s, "commanded", FALSE, t.attempt)>>

OnVerdict(t, ok) ==
  <<StageEvent("VERIFY", "active", 0),
    [kind |-> "verification", ok |-> ok, attempt |-> t.attempt],
    StageEvent("VERIFY", IF ok THEN "done" ELSE "failed", t.attempt)>>

OnAlertLine(t, kind) ==
  (IF t.alerted THEN <<>> ELSE <<StageEvent("ALERT", "active", 0)>>)
  \o <<[kind |-> "alert", origin |-> "run_order",
        severity |-> IF kind = "order_failed" THEN "error" ELSE "info"]>>

\* Mutant: without a verdict there is no outcome.
OnResultVerified(t, status) ==
  IF t.verified
  THEN <<[kind |-> "outcome", status |-> status, attempts |-> t.attempt]>>
  ELSE <<StageEvent("VERIFY", "skipped", 0)>>

OnResult(t, status) ==
  (IF t.verified THEN <<>> ELSE <<StageEvent("VERIFY", "skipped", 0)>>)
  \o <<StageEvent("ALERT", IF status = "failed" THEN "failed" ELSE "done", 0),
       [kind |-> "outcome", status |-> status, attempts |-> t.attempt]>>

Events(t, l) ==
  CASE l.text = "order" -> OnOrderLine(l.order)
    [] l.text = "located" -> OnLocated
    [] l.text = "picking" -> OnMove(t, "PICK")
    [] l.text = "placing" -> OnMove(t, "PLACE")
    [] l.text = "complete" /\ t.move # "none" ->
         <<StageEvent(t.move, "done", t.attempt)>>
    [] l.text = "verdict" -> OnVerdict(t, l.ok)
    [] l.text = "alert" -> OnAlertLine(t, l.kind)
    [] l.text = "fulfilled" -> OnResult(t, IF t.retried THEN "retried" ELSE "fulfilled")
    [] l.text = "failed" -> OnResult(t, "failed")
    [] OTHER -> <<>>
---------------------------------------------------------------------------
FeedInit == /\ Init
            /\ BoardInit("order")
            /\ pipe = <<>> /\ file = <<>>
            /\ translator = NewTranslator
            /\ legible = TRUE

Output(lines) == /\ pipe' = pipe \o lines
                 /\ legible' = \A i \in DOMAIN lines : lines[i].text # "unreadable"

\* The pattern of the failure's line wants a bin without a space and a reason
\* on one line.  The text of an exception, which is the reason here and after a
\* verifier that raised, may have several.
FailedLines(c) ==
  IF call[c].order.bin = "unknown bin" THEN {Line("unreadable")}
  ELSE {Line("unreadable"), Line("failed")}

VerdictLines(c) == <<[text |-> "verdict", ok |-> call'[c].verification = "ok"]>>

\* fulfill_order and what it calls, with what they print.
Prints(c) ==
  \/ \E o \in Orders : Start(c, o) /\ Output(<<[text |-> "order", order |-> o]>>)
  \/ /\ Resolve(c)
     /\ Output((IF call'[c].source = "perceived" THEN <<Line("located")>> ELSE <<>>)
              \o <<Line("picking")>>)
  \/ /\ ResolveFails(c)
     /\ \E l \in FailedLines(c) :
          \/ Output(<<l>>)
          \/ Perceiving /\ call[c].order.bin \notin Bins /\ Output(<<Line("located"), l>>)
  \/ /\ Move(c)
     /\ Output(CASE call[c].step = Len(Pick) -> <<Line("complete"), Line("placing")>>
                [] call[c].step = Len(Moves) -> <<Line("complete")>>
                [] OTHER -> <<>>)
  \/ MoveFails(c) /\ \E l \in FailedLines(c) : Output(<<l>>)
  \/ /\ Verify(c)
     /\ Output(VerdictLines(c)
              \o (IF call'[c].pc = "move"
                  THEN <<[text |-> "retry", n |-> call'[c].attempt], Line("picking")>>
                  ELSE <<>>))
  \/ /\ Alert(c)
     /\ \E l \in IF call'[c].status = "failed" THEN FailedLines(c)
                 ELSE {Line("fulfilled")} :
          Output(<<[text |-> "alert", kind |-> call'[c].alert], l>>)
  \/ AlertFails(c) /\ \E l \in FailedLines(c) : Output(<<l>>)

\* A full pipe makes the run wait.
Run(c) == /\ Len(pipe) < MaxPipe
          /\ Prints(c)
          /\ UNCHANGED <<translator, file, board, dropped>>

\* emit reads one line and writes its events.
Translate ==
  /\ pipe # <<>>
  /\ Len(file) < MaxFile
  /\ file' = file \o Events(translator, Head(pipe))
  /\ translator' = After(translator, Head(pipe))
  /\ pipe' = Tail(pipe)
  /\ UNCHANGED <<vars, legible, board, dropped>>

\* follow_into hands one event to the dashboard.
Follow ==
  /\ file # <<>>
  /\ Ingest(Head(file))
  /\ file' = Tail(file)
  /\ UNCHANGED <<vars, pipe, translator, legible>>

FeedNext == (\E c \in Callers : Run(c)) \/ Translate \/ Follow

FeedSpec == FeedInit /\ [][FeedNext]_feedVars

\* The run waits for nothing but the pipe, emit and the dashboard read on.
FairFeedSpec ==
  /\ FeedSpec
  /\ WF_feedVars(\E c \in Callers : Run(c) /\ Step(c))
  /\ WF_feedVars(Translate)
  /\ WF_feedVars(Follow)
---------------------------------------------------------------------------
FeedTypeOK ==
  /\ TypeOK
  /\ board \in Board(Orders) /\ dropped = FALSE
  /\ pipe \in Seq(Lines) /\ Len(pipe) <= MaxPipe + 2
  /\ translator \in Translator
  /\ Len(file) < MaxFile + 4
  /\ legible \in BOOLEAN

\* The board is past the reset of the call's order.
Shown(c) ==
  /\ call[c].pc # "idle"
  /\ \A i \in DOMAIN pipe : pipe[i].text # "order"
  /\ \A i \in DOMAIN file : file[i].kind # "reset"

\* Everything the call printed has reached the board.
Settled(c) == Shown(c) /\ call[c].pc = "returned" /\ pipe = <<>> /\ file = <<>>

Result(c) == IF call[c].status = "failed" THEN "failed"
             ELSE IF call[c].attempts > 1 THEN "retried" ELSE "fulfilled"

\* The outcome on the page is the one the run returned, with the attempts it
\* took.  Only a failure whose line cannot be read, with its alert or without,
\* leaves the page running.
OutcomeShown ==
  \A c \in Callers : Settled(c) =>
    IF legible
    THEN /\ board.outcome = Result(c)
         /\ Result(c) # "failed" => board.attempts = call[c].attempts
    ELSE board.outcome = "running" /\ call[c].status = "failed"

\* The verdict on the page is the last one of this run, of its attempt, and
\* not one of an earlier run.
VerdictShown ==
  \A c \in Callers : Settled(c) =>
    IF call[c].verification = "none" THEN board.verification = NoVerdict
    ELSE /\ board.verification.ok = (call[c].verification = "ok")
         /\ board.verification.ok => board.verification.attempt = call[c].attempts

\* The run broke off in the motion of a stage, in its first attempt.
BrokeOff(c, s) ==
  /\ call[c].pc = "returned" /\ call[c].alert = "none"
  /\ \/ s = "PICK" /\ call[c].stages = <<>>
     \/ s = "PLACE" /\ call[c].stages = <<"picked">>

\* No stage is done before the run did it, but for the motion the run broke off
\* in, which the outcome paints done with whatever was active.
DoneIsDone ==
  \A c \in Callers : Shown(c) =>
    \A p \in {<<"PICK", "picked">>, <<"PLACE", "placed">>, <<"VERIFY", "verified">>} :
      board.stages[p[1]].status = "done" =>
        \/ \E i \in DOMAIN call[c].stages : call[c].stages[i] = p[2]
        \/ board.outcome = "failed" /\ BrokeOff(c, p[1])

\* The strip shows one stage at work.
OneActive ==
  \A c \in Callers : Shown(c) =>
    Cardinality({s \in StageNames : board.stages[s].status = "active"}) <= 1

\* DETECT does not go green for work that never happened (emit.py:208-210),
\* but when the run fails before its pick.
DetectIsHonest ==
  board.stages["DETECT"].status = "done" => board.detection \/ board.outcome = "failed"

\* A move of a run without telemetry that is over is shown as commanded, and
\* as the attempt's that commanded it (test_gui.py:509, :562).
CommandedNotConfirmed ==
  \A c \in Callers : Shown(c) =>
    \A s \in MotionStages : board.stages[s].status = "done" =>
      /\ board.stages[s].motion.state = "commanded"
      /\ s = "PICK" => board.stages[s].motion.attempt = board.attempt

\* The page shows the alert the run raised, once, as bad as it is, and as the
\* run's own, which the dashboard must not send again.
AlertsShown ==
  \A c \in Callers : Settled(c) =>
    board.alerts = IF call[c].alert = "none" THEN <<>>
                   ELSE <<[origin |-> "run_order",
                           severity |-> IF call[c].alert = "order_failed"
                                        THEN "error" ELSE "info"]>>

\* The page of a run that is over tells how it ended.
PageIsRight == OutcomeShown /\ VerdictShown /\ AlertsShown

\* The strip shows what the run is doing and has done, during the run and
\* after it, and never that the encoders have confirmed what was only
\* commanded.  What a failure leaves green on it without cause is at most the
\* one motion it broke off, and DETECT.
StripIsRight == DoneIsDone /\ OneActive /\ DetectIsHonest /\ CommandedNotConfirmed

\* The page comes to show how the order ended, unless another one begins or
\* the line that tells it cannot be read.
BoardCatchesUp ==
  \A c \in Callers :
    call[c].pc = "returned" /\ legible
      ~> Busy(c) \/ board.outcome = Result(c)
============================================================================
