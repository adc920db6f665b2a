---------------------------- MODULE Calibration ----------------------------
(***************************************************************************)
(* The two tools that write the calibration files: the fit of the          *)
(* homography (tools/calibrate_homography.py) and the survey of the bins   *)
(* (tools/pick_bin_regions.py), with the click window they share.          *)
(*                                                                         *)
(* A mark of the sheet is a number and Seen[m] the pixel it is at, so a    *)
(* pair is right if its pixel is Seen of its mark.  The operator may click *)
(* any mark for any other and mistype one.  The fit is modelled by what it *)
(* does: it meets four pairs exactly, whichever they are, as long as no    *)
(* three of them are on a line.  A file is written in place: opening it     *)
(* empties it, and the process may break off before the text is all there. *)
(***************************************************************************)
EXTENDS Integers, Sequences, FiniteSets

CONSTANTS
  Seen,        \* mark -> pixel; the first four are the corners of --sheet
  MaxClicks,   \* bound on the clicks in the window
  Labels       \* what --bins may be, as sequences

ASSUME CalibrationAssumption ==
  /\ 1..4 \subseteq DOMAIN Seen
  /\ \A m, n \in DOMAIN Seen : Seen[m] = Seen[n] => m = n
  /\ MaxClicks \in Nat
  /\ \A l \in Labels : 1 \in DOMAIN l

Marks == DOMAIN Seen
Pixels == {Seen[m] : m \in Marks}

VARIABLES
  tool,        \* "none", "fit", "survey", or "write" once a file is to be written
  options,     \* what the tool was started with
  picked,      \* the points clicked in the window
  homography,  \* homography.json, {} while there is none
  survey,      \* bin-regions.json: label -> its rectangle holds its centre
  torn,        \* which of the two files a broken write left in pieces
  saving,      \* the write: how far it is, the file, its text, the status to come
  found,       \* history: the files as the tool that runs found them
  status       \* the exit status of the last tool

files == <<homography, survey, torn>>
calibVars == <<tool, options, picked, files, saving, found, status>>

NoOptions == [sheet |-> FALSE, force |-> FALSE, dryRun |-> FALSE, labels |-> <<>>]
NoSaving == [at |-> "none", file |-> "none", fit |-> {}, bins |-> <<>>, status |-> ""]
NoFiles == [homography |-> {}, survey |-> <<>>, torn |-> {}]
Files == [homography |-> homography, survey |-> survey, torn |-> torn]

CalibInit ==
  /\ tool = "none" /\ options = NoOptions /\ picked = <<>>
  /\ homography = {} /\ survey = <<>> /\ torn = {}
  /\ saving = NoSaving /\ found = NoFiles
  /\ status = ""

\* main returns or raises.
Exit(s) ==
  /\ tool' = "none" /\ options' = NoOptions /\ picked' = <<>>
  /\ saving' = NoSaving /\ found' = NoFiles
  /\ status' = s
---------------------------------------------------------------------------
(* The window. *)

\* Either tool, on an image there is or one it captures.
StartTool(t, o) ==
  /\ tool = "none"
  /\ tool' = t /\ options' = o
  /\ picked' = <<>> /\ status' = "" /\ found' = Files
  /\ UNCHANGED <<files, saving>>

StartFit ==
  \E sheet, force, dryRun \in BOOLEAN :
    StartTool("fit", [sheet |-> sheet, force |-> force, dryRun |-> dryRun, labels |-> <<>>])

StartSurvey ==
  \E labels \in Labels, dryRun \in BOOLEAN :
    StartTool("survey", [NoOptions EXCEPT !.labels = labels, !.dryRun = dryRun])

MinPoints == IF tool = "fit" THEN 4 ELSE 2 * Len(options.labels)

Click(p) ==
  /\ tool \in {"fit", "survey"} /\ Len(picked) < MaxClicks
  /\ picked' = Append(picked, p)
  /\ UNCHANGED <<tool, options, files, saving, found, status>>

Undo ==
  /\ picked # <<>>
  /\ picked' = SubSeq(picked, 1, Len(picked) - 1)
  /\ UNCHANGED <<tool, options, files, saving, found, status>>

\* ESC; before that no camera, no display, no readable image, a specification
\* on the command line that does not parse.
GiveUp ==
  /\ tool \in {"fit", "survey"}
  /\ Exit("2")
  /\ UNCHANGED files

\* Ctrl-C, a disk that is full or a file that may not be written: wherever
\* that happens, main does not return.
BreakOff ==
  /\ tool # "none"
  /\ Exit("traceback")
  /\ UNCHANGED files
---------------------------------------------------------------------------
(* write_text, of homography.py and of verify.py. *)

\* There is a text to be written, and the status once it was.
Save(text) ==
  /\ tool' = "write" /\ picked' = <<>>
  /\ saving' = text
  /\ UNCHANGED <<options, files, found, status>>

\* Opened for writing, the file is empty.
Truncate ==
  /\ saving.at = "open"
  /\ saving' = [saving EXCEPT !.at = "text"]
  /\ torn' = torn \cup {saving.file}
  /\ homography' = IF saving.file = "homography" THEN {} ELSE homography
  /\ survey' = IF saving.file = "survey" THEN <<>> ELSE survey
  /\ UNCHANGED <<tool, options, picked, found, status>>

\* The text is there and the file closed.
WriteText ==
  /\ saving.at = "text"
  /\ saving' = [saving EXCEPT !.at = "whole"]
  /\ torn' = torn \ {saving.file}
  /\ homography' = IF saving.file = "homography" THEN saving.fit ELSE homography
  /\ survey' = IF saving.file = "survey" THEN saving.bins ELSE survey
  /\ UNCHANGED <<tool, options, picked, found, status>>

\* What main reports of it, and for a survey what the proof found.
Written ==
  /\ saving.at = "whole"
  /\ Exit(saving.status)
  /\ UNCHANGED files
---------------------------------------------------------------------------
(* The fit. *)

OnALine(p, q, r) ==
  (q[1] - p[1]) * (r[2] - p[2]) = (q[2] - p[2]) * (r[1] - p[1])

\* The pairs are four and determine one homography, which meets them all.
Exact(pixels, marks) ==
  /\ Len(pixels) = 4
  /\ \A i, j, k \in 1..4 :
       Cardinality({i, j, k}) = 3 => ~OnALine(pixels[i], pixels[j], pixels[k])
  /\ \A i, j \in 1..4 : i # j => marks[i] # marks[j]

Right(pixels, marks) == \A i \in DOMAIN pixels : pixels[i] = Seen[marks[i]]

\* One pixel for two marks that are further apart than the bar is wide.
Contradictory(pixels, marks) ==
  \E i, j \in DOMAIN pixels : pixels[i] = pixels[j] /\ marks[i] # marks[j]

\* fit and reprojection_error: the largest error is within the bar or beyond
\* it, fit raises, or what it returns sends a point to infinity.  What four
\* or more pairs without a solution of their own come to is left open.
Outcomes(pixels, marks) ==
  CASE Exact(pixels, marks) -> {"within"}
    [] Contradictory(pixels, marks) -> {"beyond", "degenerate", "infinite"}
    [] OTHER -> {"within", "beyond", "degenerate", "infinite"}

Fitted(pixels, marks, outcome) ==
  {[passed |-> outcome = "within",
    askew |-> Exact(pixels, marks) /\ ~Right(pixels, marks),
    sheet |-> options.sheet]}

\* Mutant: saved and then proved.
SavesAtOnce(outcome, o) == outcome \in {"within", "beyond"} /\ ~o.dryRun

\* A fit beyond the bar is written under --force alone.
Saves(outcome, o) ==
  /\ outcome = "within" \/ (outcome = "beyond" /\ o.force)
  /\ ~o.dryRun

\* fit_and_report, up to the write if there is one.
FitAndReport(pixels, marks) ==
  \E outcome \in Outcomes(pixels, marks) :
    LET ending == CASE outcome = "within" -> "0"
                     [] outcome = "infinite" -> "traceback"
                     [] OTHER -> "1"
    IN \/ /\ Saves(outcome, options)
          /\ Save([NoSaving EXCEPT !.at = "open", !.file = "homography", !.status = ending,
                                   !.fit = Fitted(pixels, marks, outcome)])
       \/ ~Saves(outcome, options) /\ Exit(ending) /\ UNCHANGED files

\* What is typed for the points clicked, in millimetres.
Typed(pixels) ==
  LET marks == [i \in DOMAIN pixels |-> CHOOSE m \in Marks : Seen[m] = pixels[i]]
  IN {[marks EXCEPT ![i] = m] : i \in DOMAIN pixels, m \in Marks}

\* ENTER, with points enough: --sheet gives exactly four their marks, in the
\* order of the clicks; otherwise they are typed.  --points, --points-file and
\* --pixels come to the same without a window.
EnterFit ==
  /\ tool = "fit" /\ Len(picked) >= MinPoints
  /\ IF ~options.sheet
     THEN \E marks \in Typed(picked) : FitAndReport(picked, marks)
     ELSE IF Len(picked) = 4 THEN FitAndReport(picked, <<1, 2, 3, 4>>)
     ELSE Exit("2") /\ UNCHANGED files
---------------------------------------------------------------------------
(* The survey. *)

\* Two clicks for a bin; more than there are bins for are left out.
ZeroArea(p, q) == p[1] = q[1] \/ p[2] = q[2]
Corners(i) == <<picked[2 * i - 1], picked[2 * i]>>

Doubled(labels) == \E i, j \in DOMAIN labels : i # j /\ labels[i] = labels[j]

\* write_and_verify: the file is written first, then proved.  What is given
\* in numbers may be not a number, and such a rectangle holds nothing.
WriteAndVerify(labels, numbers) ==
  \/ Doubled(labels) /\ Exit("1") /\ UNCHANGED files
  \/ ~Doubled(labels) /\ options.dryRun /\ Exit("0") /\ UNCHANGED files
  \/ /\ ~Doubled(labels) /\ ~options.dryRun
     /\ Save([NoSaving EXCEPT !.at = "open", !.file = "survey",
                              !.status = IF numbers THEN "0" ELSE "1",
                              !.bins = [b \in {labels[i] : i \in DOMAIN labels} |-> numbers]])

EnterSurvey ==
  /\ tool = "survey" /\ Len(picked) >= MinPoints
  /\ IF \E i \in DOMAIN options.labels : ZeroArea(Corners(i)[1], Corners(i)[2])
     THEN Exit("2") /\ UNCHANGED files
     ELSE WriteAndVerify(options.labels, TRUE)

\* --regions: no window at all.
GiveRegions ==
  /\ tool = "survey" /\ picked = <<>>
  /\ \E numbers \in BOOLEAN : WriteAndVerify(options.labels, numbers)

CalibNext ==
  \/ StartFit \/ StartSurvey
  \/ \E p \in Pixels : Click(p)
  \/ Undo \/ GiveUp \/ BreakOff
  \/ EnterFit \/ EnterSurvey \/ GiveRegions
  \/ Truncate \/ WriteText \/ Written

CalibSpec == CalibInit /\ [][CalibNext]_calibVars
---------------------------------------------------------------------------
(* Correctness. *)

AskedBins == {options.labels[i] : i \in DOMAIN options.labels}

\* The other file and its condition are as the tool found them.
LeavesOther(file) ==
  /\ torn' \ {file} = found.torn \ {file}
  /\ file = "homography" => survey' = found.survey
  /\ file = "survey" => homography' = found.homography

\* The tool stands by what is in the file now: a fit that met the bar, or all
\* the bins asked for, each of which holds its own centre.
Vouches(file) ==
  /\ file = "homography" => \E h \in homography' : h.passed
  /\ file = "survey" => DOMAIN survey' = AskedBins /\ \A b \in AskedBins : survey'[b]

\* What the status of a tool tells of the two files, from its start to its
\* end.  Either both are as it found them, and it says 0 only of a dry run; or
\* it opened one of them, a homography for a fit within the bar or under
\* --force.  That one is in pieces after a traceback and only then; if it is
\* whole, 0 says that the tool stands by it and 1 that it does not.  So a good
\* file is lost, other than to a good one, under --force, to a survey that
\* fails its proof, or to a write that broke off, and never with 0 or 2.
StatusTellsTheFiles ==
  [][tool # "none" /\ tool' = "none" =>
       \/ Files' = found /\ (status' = "0" => options.dryRun)
       \/ \E file \in {"homography", "survey"} :
            /\ LeavesOther(file)
            /\ file = "homography" => \A h \in saving.fit : h.passed \/ options.force
            /\ status' \in {"0", "1", "traceback"}
            /\ file \in torn' => status' = "traceback"
            /\ file \notin torn' /\ status' # "traceback" =>
                 (status' = "0" <=> Vouches(file))]_calibVars

\* calibrate_homography.py:6-7, :217-219: a click on the wrong corner or in the
\* wrong order fails the bar, a silently bad fit is impossible: also under
\* --sheet, where nothing is typed.
ShipBarEnforced == \A h \in homography : h.passed /\ h.sheet => ~h.askew
============================================================================
