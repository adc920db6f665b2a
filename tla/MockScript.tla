----------------------------- MODULE MockScript -----------------------------
(***************************************************************************)
(* The canned runs of src/gui/mock.py as data: the events of each beat of  *)
(* build_script.  The zones are surveyed, each wide enough for the point a *)
(* placed item is drawn at and too small for the point of a dropped one,   *)
(* so that the verdict is whether the ending says the item was placed.     *)
(***************************************************************************)
EXTENDS Dashboard

Endings == {"ok", "retry", "fail"}

\* "auto" plays them in turn.
Rotation == <<"ok", "retry", "fail">>

\* A run's order: its id, the bin it names and what QC will say.
Scenario(id, bin, grade) == [order |-> id, bin |-> bin, grade |-> grade]

Scenarios ==
  [order |-> <<Scenario("SO-1042", "A", "pass"), Scenario("SO-1043", "B", "pass"),
               Scenario("SO-1044", "C", "pass")>>,
   qc |-> <<Scenario("QC-2201", "none", "pass"), Scenario("QC-2202", "none", "review"),
            Scenario("QC-2203", "none", "reject")>>,
   fusion |-> <<Scenario("SO-1051", "A", "pass"), Scenario("SO-1052", "A", "reject"),
                Scenario("SO-1053", "B", "review")>>]

MockOrders == {Scenarios[m][i].order : m \in AllModes, i \in 1..3}

\* What the encoders will say of a move.
MotionPlan(ending, stage, n) ==
  CASE ending = "retry" /\ stage = "PLACE" /\ n = 1 -> "mismatch"
    [] ending = "fail" /\ ~(stage = "PICK" /\ n = 1) -> "unverified"
    [] OTHER -> "verified"

Commanded(stage, n) == MotionEvent(stage, "commanded", FALSE, n)

\* Only a mismatch comes with errors.
Confirmed(ending, stage, n) ==
  LET state == MotionPlan(ending, stage, n)
  IN MotionEvent(stage, state, state = "mismatch", n)

Raised(severity) == [kind |-> "alert", origin |-> "dashboard", severity |-> severity]

\* The alert of a move that could not be confirmed.
MotionAlert(ending) == IF ending = "ok" THEN <<>> ELSE <<Raised("warning")>>

\* Mutant: a retry is verified by the point of the first attempt.
VerdictOfFirst(ending, n) == ending = "ok"

\* Whether the item is found in its zone by the n-th look.
Verdict(ending, n) == ending = "ok" \/ (ending = "retry" /\ n = 2)

VerifyBeat(ending, n) ==
  LET ok == Verdict(ending, n)
  IN <<[kind |-> "verification", ok |-> ok, attempt |-> n],
       StageEvent("VERIFY", IF ok THEN "done" ELSE "failed", n)>>

\* The alerts and the outcome of a run.
LastBeat(ending, routing) ==
  LET verified == ending \in {"ok", "retry"}
  IN (IF routing.diverted THEN <<Raised(routing.alert)>> ELSE <<>>)
     \o MotionAlert(ending)
     \o <<Raised(IF verified THEN "info" ELSE "error"),
          StageEvent("ALERT", IF verified THEN "done" ELSE "failed", 0),
          [kind |-> "outcome", attempts |-> IF ending = "ok" THEN 1 ELSE 2,
           status |-> CASE ending = "ok" -> "fulfilled"
                        [] ending = "retry" -> "retried"
                        [] ending = "fail" -> "failed"]>>

\* The beats of one run, each the events of one step.
Script(mode, ending, sc) ==
  LET qc == NeedsQC(mode)
      bin == IF NamesBin(mode) THEN sc.bin ELSE "none"
      routing == Route(mode, bin, sc.grade)
      routed == [kind |-> "routing", bin |-> routing.bin, diverted |-> routing.diverted]
      ordered ==
        <<<<[kind |-> "reset", mode |-> mode]>>,
          <<StageEvent("ORDER", "active", 0), [kind |-> "order", order |-> sc.order]>>,
          <<StageEvent("ORDER", "done", 0), StageEvent("DETECT", "active", 0)>>,
          <<[kind |-> "detection"], StageEvent("DETECT", "done", 0),
            StageEvent("LOCATE", "active", 0)>>,
          <<StageEvent("LOCATE", "done", 0), StageEvent("PICK", "active", 1),
            Commanded("PICK", 1)>>>>
      picked ==
        IF qc
        THEN <<<<Confirmed(ending, "PICK", 1), StageEvent("PICK", "done", 0),
                 StageEvent("DETECT", "active", 0)>>,
               <<[kind |-> "qc", grade |-> sc.grade], routed, StageEvent("DETECT", "done", 0),
                 StageEvent("PLACE", "active", 0), Commanded("PLACE", 1)>>>>
        ELSE <<<<Confirmed(ending, "PICK", 1), routed, StageEvent("PICK", "done", 0),
                 StageEvent("PLACE", "active", 0), Commanded("PLACE", 1)>>>>
      placed(n) ==
        <<<<Confirmed(ending, "PLACE", n), StageEvent("PLACE", "done", 0),
            StageEvent("VERIFY", "active", 0)>>,
          VerifyBeat(ending, n)>>
      again ==
        <<<<StageEvent("PICK", "active", 2), Commanded("PICK", 2)>>,
          <<Confirmed(ending, "PICK", 2), StageEvent("PICK", "done", 0),
            StageEvent("PLACE", "active", 0), Commanded("PLACE", 2)>>>>
      told ==
        <<<<StageEvent("ALERT", "active", 0)>>,
          LastBeat(ending, routing)>>
  IN ordered \o picked \o placed(1)
     \o (IF ending = "ok" THEN <<>> ELSE again \o placed(2))
     \o told

\* ingest: the events of a beat, one after the other.
Played(b, events) ==
  LET f[n \in 0..Len(events)] == IF n = 0 THEN b ELSE Apply(f[n - 1], events[n])
  IN f[Len(events)]
============================================================================
