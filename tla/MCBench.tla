---------------------------- MODULE MCBench --------------------------------
(* An elbow and the jaws; a tick is half a second and an angle 10 degrees.  *)
(* A sheet with four corners and a fifth mark, and up to five clicks.       *)
EXTENDS Bench

MCLo == [j \in Joints |-> IF j = Gripper THEN 0 ELSE -4]
MCHi == [j \in Joints |-> 4]
MCSdkName == [j \in Joints |-> "_" \o j]
MCProbe == <<3, 1>>
MCRests == {[j \in Joints |-> IF j = Gripper THEN 3 ELSE -3]}

At(cmd, want, duration) == [cmd |-> cmd, want |-> want, duration |-> duration]
Pose(elbow, jaws) == [j \in Joints |-> IF j = Gripper THEN jaws ELSE elbow]
Only(j, angle) == [k \in {j} |-> angle]
None == [j \in {} |-> 0]

\* In range, out of it, out of reach, and a duration past the limit.
MCCommands ==
  {At("read", None, 0), At("gripper", None, 1), At("home", None, 3)}
    \cup {At("home", None, 6)}
    \cup {At("hover", w, 3) : w \in {Pose(3, 4), Pose(5, 4), None}}
    \cup {At("joint", Only(j, a), 2) : j \in Joints, a \in {-2, 4}}

MCSeen == <<<<1, 1>>, <<9, 2>>, <<8, 7>>, <<2, 6>>, <<1, 4>>>>
MCLabels == {<<"A", "B">>, <<"A", "A">>}
=============================================================================
