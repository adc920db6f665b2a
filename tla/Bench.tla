-------------------------------- MODULE Bench --------------------------------
(***************************************************************************)
(* The operator's bench: the live checks and the calibration tools, run    *)
(* one at a time from one terminal.  A tool that takes a frame is started  *)
(* with the arm set aside.                                                 *)
(***************************************************************************)
EXTENDS LiveCheck, Calibration

benchVars == <<liveVars, calibVars>>

BenchInit == LiveInit /\ CalibInit

SetAside == phase = "idle" /\ verdict = ""

BenchNext ==
  \/ tool = "none" /\ LiveNext
     /\ status' = "" /\ UNCHANGED <<tool, options, picked, files, saving, found>>
  \/ SetAside /\ CalibNext /\ UNCHANGED liveVars

BenchSpec == BenchInit /\ [][BenchNext]_benchVars
==============================================================================
