----------------------------- MODULE MCRunOrder -----------------------------
(* A taught item and one that only perception can pick, two bins, orders    *)
(* for both of them and for a bin the cell does not know.  The laptop's     *)
(* camera and the two nodes of the kit's.  Frames of 192 x 108, or of the   *)
(* 64 x 48 that drivers fall back to; a grid of 0..10 on both.              *)
EXTENDS RunOrder

MCOrders ==
  {[item |-> "marker", bin |-> "A"], [item |-> "mug", bin |-> "B"],
   [item |-> "marker", bin |-> "unknown bin"]}

MCDevices ==
  {[number |-> 0, builtin |-> TRUE, kit |-> FALSE, index |-> 0],
   [number |-> 9, builtin |-> FALSE, kit |-> TRUE, index |-> 1],
   [number |-> 10, builtin |-> FALSE, kit |-> TRUE, index |-> 0]}

MCCaptureSize == <<192, 108>>
MCFallbackSize == <<64, 48>>
MCPans == {-40, 70}
MCFrameSizes == {MCCaptureSize}
MCFrameSizesAny == {MCCaptureSize, MCFallbackSize}

\* The items lie in columns to the right, the bins to the left; an item that
\* goes astray lies far from the arm, so far as the mug is concerned out of
\* its reach.
MCSight(i, p) ==
  LET row == CASE i = "marker" -> 4 [] i = "mug" -> 8
  IN CASE p = "spot" -> <<row, 6>>
       [] p = "astray" -> <<IF i = "mug" THEN 0 ELSE row, 7>>
       [] p = "A" -> <<row, 2>>
       [] p = "B" -> <<row, 4>>

\* Surveyed from one corner to the other, in either direction.
MCRegions ==
  [b \in {"A", "B"} |->
     IF b = "A" THEN [x0 |-> 50, y0 |-> 10, x1 |-> 20, y1 |-> 100]
     ELSE [x0 |-> 70, y0 |-> 100, x1 |-> 90, y1 |-> 20]]

ASSUME MCEyes == FrameSizes = {MCCaptureSize} => SharpEyes
============================================================================
