-------------------------------- MODULE Modes --------------------------------
(***************************************************************************)
(* src/gui/modes.py: where an item goes.  The bins A, B and C are a green, *)
(* an orange and a red zone.                                               *)
(***************************************************************************)

AllModes == {"order", "qc", "fusion"}
Grades == {"pass", "review", "reject"}
Zones == {"A", "B", "C"}

ZoneForGrade == [pass |-> "A", review |-> "B", reject |-> "C"]

NeedsQC(mode) == mode \in {"qc", "fusion"}
NamesBin(mode) == mode # "qc"

\* The alert that explains a diversion.
DivertSeverity(grade) == IF grade = "reject" THEN "error" ELSE "warning"

\* The destination of one item.  bin and grade are "none" when the mode does
\* not have them; alert is the severity of the alert to raise, if any.
Route(mode, bin, grade) ==
  LET byGrade == ZoneForGrade[grade]
      defective == grade # "pass"
      dest == CASE mode = "order" -> bin
                [] mode = "qc" -> byGrade
                [] mode = "fusion" /\ ~defective -> bin
                [] mode = "fusion" /\ defective -> byGrade
      diverted == mode = "fusion" /\ defective /\ dest # bin
  IN [bin |-> dest, diverted |-> diverted,
      alert |-> IF diverted THEN DivertSeverity(grade) ELSE "none"]
============================================================================
