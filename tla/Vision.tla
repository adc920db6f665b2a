------------------------------- MODULE Vision -------------------------------
(***************************************************************************)
(* What the cell makes of a frame: the camera it is taken from             *)
(* (capture.py), the detections a VLM answer holds (detect.py), the verdict*)
(* on a placement (verify.py), the point of the table an item is at        *)
(* (locate.py) and the roll that closes the jaws across it (ik.py).        *)
(*                                                                         *)
(* Pixels are counted in parts of 1/Grid, so that nothing is rounded.      *)
(***************************************************************************)
EXTENDS Integers, Sequences, FiniteSets

CONSTANTS
  Scale,          \* VLM_SCALE: the VLM answers on a grid 0..Scale
  CaptureSize,    \* CAPTURE_SIZE: width and height the calibrations are made on
  Far,            \* hi^2 - dz^2 of solve_ik, in table units squared
  Near,           \* lo^2 - dz^2
  RollLimit,      \* DEFAULT_JOINT_LIMITS["5"] is -RollLimit .. RollLimit
  JawOffset       \* JAW_OFFSET_DEG

ASSUME VisionAssumption ==
  /\ Scale \in Nat \ {0} /\ RollLimit \in Nat /\ JawOffset \in Int
  /\ CaptureSize \in (Nat \ {0}) \X (Nat \ {0})

Grid == 2 * Scale
---------------------------------------------------------------------------
(* The camera. *)

\* A video node: its number, whether its name is the built-in camera's or
\* like the kit's, and its sysfs index.
Before(d, e) ==
  LET key(n) == <<IF n.kit THEN 0 ELSE 1, n.index, n.number>>
      k == key(d)  l == key(e)
  IN \E i \in 1..3 : k[i] < l[i] /\ \A j \in 1..(i - 1) : k[j] = l[j]

\* Mutant: the built-in camera is a candidate like any other.
ExternalAny(listing) == listing

External(listing) == {d \in listing : ~d.builtin}

\* select_device: the one node it may return, or nothing.
SelectDevice(listing) ==
  {d \in External(listing) : \A e \in External(listing) : e = d \/ Before(d, e)}

\* choose_backend without a preference.
ChooseBackend(installed) ==
  IF "cv2" \in installed THEN {"cv2"} ELSE installed

\* capture_still, when nothing raises: a frame of the selected node in one of
\* the sizes the driver may deliver; an unexpected one is only warned about.
CaptureStill(listing, installed, sizes) ==
  [device : IF ChooseBackend(installed) = {} THEN {} ELSE SelectDevice(listing),
   size : sizes]
---------------------------------------------------------------------------
(* The VLM's answer. *)

Clamp(v, top) == IF v < 0 THEN 0 ELSE IF v > top THEN top ELSE v

\* The pixel of a point given in halves of the VLM's grid, y first.
Pixel(y, x, size) ==
  <<Clamp(x, Grid) * size[1], Clamp(y, Grid) * size[2]>>

NoLabel == ""

\* An entry as a detection: a point, or the middle of a box; one without a
\* label is taken for the item asked for.
Detection(e, size, default) ==
  [label |-> IF e.label = NoLabel THEN default ELSE e.label,
   at |-> IF e.kind = "point" THEN Pixel(2 * e.at[1], 2 * e.at[2], size)
          ELSE Pixel(e.at[1] + e.at[3], e.at[2] + e.at[4], size)]

\* The points and boxes of an answer as detections, by their place in it; a
\* malformed entry is skipped.
ParseDetections(output, size, default) ==
  [i \in {k \in DOMAIN output : output[k].kind # "malformed"} |->
     Detection(output[i], size, default)]

First(positions) == CHOOSE i \in positions : \A j \in positions : i <= j

\* Mutant: the most confident detection, whatever it is of.
PickTargetFirst(dets, item) ==
  IF DOMAIN dets = {} THEN {} ELSE {dets[First(DOMAIN dets)]}

\* The first detection with the item's label, else the first; if any.  (The
\* code looks for the item's name within the label: no name here is part of
\* another.)
PickTarget(dets, item) ==
  LET named == {i \in DOMAIN dets : dets[i].label = item}
  IN IF DOMAIN dets = {} THEN {}
     ELSE {dets[First(IF named = {} THEN DOMAIN dets ELSE named)]}

\* detect: what a VLM answer says about the item.
Target(output, size, item) ==
  PickTarget(ParseDetections(output, size, item), item)
---------------------------------------------------------------------------
(* Where it is. *)

\* A bin region is given by two opposite corners, whichever.
Between(v, a, b) == (a <= v /\ v <= b) \/ (b <= v /\ v <= a)
Contains(region, at) ==
  /\ Between(at[1], region.x0 * Grid, region.x1 * Grid)
  /\ Between(at[2], region.y0 * Grid, region.y1 * Grid)

\* verify_placement on a frame: the label of what is taken for the item, if
\* it is inside.
PlacedAs(output, size, item, region) ==
  {d.label : d \in {e \in Target(output, size, item) : Contains(region, e.at)}}

\* The homography, fitted on frames of CaptureSize by a camera that looks
\* straight down with the arm's base below the middle of the lower edge: x
\* away from the base, y to the left.
Project(at) ==
  <<CaptureSize[2] * Grid - at[2], (CaptureSize[1] * Grid) \div 2 - at[1]>>

\* locate_item: the label of what is taken for the item, and its point of the
\* table.
Located(output, size, item) ==
  {[label |-> d.label, at |-> Project(d.at)] : d \in Target(output, size, item)}

\* The planar reach check of solve_ik.
Reachable(point) ==
  LET r2 == point[1] * point[1] + point[2] * point[2]
  IN Near <= r2 /\ r2 <= Far

\* Mutant: the roll is folded into [0, 180).
WristRollUnfolded(axis, pan) == (axis + 90 - pan - JawOffset) % 180

\* Mutant: the base's own turn is not taken off.
WristRollPanless(axis, pan) == ((axis + 90 - JawOffset + 90) % 180) - 90

\* _wrist_roll_for_axis before its limit check.
WristRoll(axis, pan) == ((axis + 90 - pan - JawOffset + 90) % 180) - 90

\* GraspAngleUnreachable is raised unless it is so.
RollReachable(roll) == -RollLimit <= roll /\ roll <= RollLimit
============================================================================
