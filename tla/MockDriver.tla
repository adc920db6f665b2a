----------------------------- MODULE MockDriver -----------------------------
(***************************************************************************)
(* The console without a robot: the thread of MockDriver (src/gui/mock.py) *)
(* plays canned runs onto the board, while requests to switch the mode or  *)
(* to replay (src/gui/server.py, app.py) are each handled in a thread of   *)
(* their own and the main thread may stop it all.  Every step is one       *)
(* critical section, or one access to an event or a field outside of one.  *)
(***************************************************************************)
EXTENDS MockScript, FiniteSets

CONSTANTS
  Requests,      \* requests to the console
  AskedModes,    \* the modes they may ask for
  AskedOutcomes, \* the endings they may ask for, "auto" for the rotation
  StartMode,     \* what the console is started with
  StartOutcome

ASSUME ConsoleAssumption == /\ IsFiniteSet(Requests)
                            /\ AskedModes \subseteq AllModes
                            /\ AskedOutcomes \subseteq Endings \cup {"auto"}
                            /\ StartMode \in AllModes
                            /\ StartOutcome \in Endings \cup {"auto"}

VARIABLES
  driver,    \* the mode and outcome that configure() sets, and loop
  restart,   \* the event that ends the run being played
  stop,      \* the event that ends the thread
  thread,    \* _run: where it is, and the run it plays
  request    \* each handler: where it is, the mode it was asked for and has read

mockVars == <<board, dropped, driver, restart, stop, thread, request>>

\* The beats of the run the thread plays.
Scripts == [m \in AllModes |-> [e \in Endings |-> [i \in 0..2 |->
              Script(m, e, Scenarios[m][i + 1])]]]
Beats == Scripts[thread.mode][thread.ending][thread.index]

MockInit ==
  /\ \E loop \in BOOLEAN :
       driver = [mode |-> StartMode, outcome |-> StartOutcome, loop |-> loop]
  /\ thread = [at |-> "top", mode |-> StartMode, ending |-> "ok", index |-> 2, beat |-> 0]
  /\ BoardInit(StartMode)
  /\ restart = FALSE
  /\ stop = "no"
  /\ request = [r \in Requests |-> [at |-> "idle", asked |-> "none", mode |-> "none"]]
---------------------------------------------------------------------------
\* The handlers.

Go(r, at) == request' = [request EXCEPT ![r].at = at]

\* set_mode: the mode of the board, under the lock of the app.
SetMode(r, m) ==
  /\ request[r].at = "idle"
  /\ board' = [board EXCEPT !.mode = m]
  /\ request' = [request EXCEPT ![r] = [at |-> "read", asked |-> m, mode |-> "none"]]
  /\ UNCHANGED <<dropped, driver, restart, stop, thread>>

\* The argument of configure is read from the board again.
ReadMode(r) ==
  /\ request[r].at = "read"
  /\ request' = [request EXCEPT ![r].at = "configure", ![r].mode = board.mode]
  /\ UNCHANGED <<board, dropped, driver, restart, stop, thread>>

\* Mutant: the run being played is left alone when the mode stays the same.
ConfigureIfChanged(r) ==
  /\ request[r].at = "configure"
  /\ driver' = [driver EXCEPT !.mode = request[r].mode]
  /\ request' = [request EXCEPT ![r].mode = "none",
       ![r].at = IF driver.mode = request[r].mode THEN "reply" ELSE "restart"]
  /\ UNCHANGED <<board, dropped, restart, stop, thread>>

\* configure: under the lock of the driver.
ConfigureMode(r) ==
  /\ request[r].at = "configure"
  /\ driver' = [driver EXCEPT !.mode = request[r].mode]
  /\ request' = [request EXCEPT ![r].at = "restart", ![r].mode = "none"]
  /\ UNCHANGED <<board, dropped, restart, stop, thread>>

\* replay: with an outcome, or with none that configure knows.
Replay(r) ==
  /\ request[r].at = "idle"
  /\ \/ \E o \in AskedOutcomes : driver' = [driver EXCEPT !.outcome = o]
     \/ UNCHANGED driver
  /\ Go(r, "restart")
  /\ UNCHANGED <<board, dropped, restart, stop, thread>>

Restart(r) ==
  /\ request[r].at = "restart"
  /\ restart' = TRUE
  /\ Go(r, IF request[r].asked = "none" THEN "done" ELSE "reply")
  /\ UNCHANGED <<board, dropped, driver, stop, thread>>

\* The reply to a switch is the mode the board has by then.
Reply(r, m) ==
  /\ request[r].at = "reply"
  /\ m = board.mode
  /\ request' = [request EXCEPT ![r].at = "done", ![r].asked = "none"]
  /\ UNCHANGED <<board, dropped, driver, restart, stop, thread>>

\* stop: sets one event, then the other.
Stop ==
  /\ stop = "no"
  /\ stop' = "stop"
  /\ UNCHANGED <<board, dropped, driver, restart, thread, request>>

StopRestart ==
  /\ stop = "stop"
  /\ stop' = "restart"
  /\ restart' = TRUE
  /\ UNCHANGED <<board, dropped, driver, thread, request>>
---------------------------------------------------------------------------
\* The thread.

Stopping == stop # "no"

To(at) == thread' = [thread EXCEPT !.at = at]

Leave ==
  /\ thread.at = "top"
  /\ Stopping
  /\ To("ended")
  /\ UNCHANGED <<board, dropped, driver, restart, stop, request>>

\* Mutant: the mode is read once, when the thread starts.
TakeKeepingMode ==
  /\ thread.at = "top"
  /\ ~Stopping
  /\ LET i == (thread.index + 1) % 3
     IN thread' = [thread EXCEPT !.at = "clear", !.index = i,
                     !.ending = IF driver.outcome = "auto" THEN Rotation[i + 1]
                                ELSE driver.outcome]
  /\ UNCHANGED <<board, dropped, driver, restart, stop, request>>

\* What to play is read under the lock of the driver.
Take ==
  /\ thread.at = "top"
  /\ ~Stopping
  /\ LET i == (thread.index + 1) % 3
     IN thread' = [thread EXCEPT !.at = "clear", !.mode = driver.mode, !.index = i,
                     !.ending = IF driver.outcome = "auto" THEN Rotation[i + 1]
                                ELSE driver.outcome]
  /\ UNCHANGED <<board, dropped, driver, restart, stop, request>>

Clear ==
  /\ thread.at = "clear"
  /\ restart' = FALSE
  /\ thread' = [thread EXCEPT !.at = "wait", !.beat = 0]
  /\ UNCHANGED <<board, dropped, driver, stop, request>>

\* The events of a beat, under the lock of the app.
Play ==
  /\ thread.at = "play"
  /\ board' = Played(board, Beats[thread.beat])
  /\ dropped' = \E i \in DOMAIN Beats[thread.beat] : Raises(Beats[thread.beat][i])
  /\ To("wait")
  /\ UNCHANGED <<driver, restart, stop, request>>

\* The delay of a beat, which a restart cuts short, and the look at the events
\* before the next one.
Wait ==
  /\ thread.at = "wait"
  /\ thread' = IF Stopping \/ restart \/ thread.beat = Len(Beats)
               THEN [thread EXCEPT !.at = "after"]
               ELSE [thread EXCEPT !.at = "play", !.beat = @ + 1]
  /\ UNCHANGED <<board, dropped, driver, restart, stop, request>>

Finish ==
  /\ thread.at = "after"
  /\ To(IF ~driver.loop /\ ~restart THEN "hold" ELSE "top")
  /\ UNCHANGED <<board, dropped, driver, restart, stop, request>>

\* Mutant: a finished run is held until a restart.
HoldForRestart ==
  /\ thread.at = "hold"
  /\ restart
  /\ To("top")
  /\ UNCHANGED <<board, dropped, driver, restart, stop, request>>

\* Without loop the last picture stays until a restart or the end.
Hold ==
  /\ thread.at = "hold"
  /\ Stopping \/ restart
  /\ To("top")
  /\ UNCHANGED <<board, dropped, driver, restart, stop, request>>

Handle(r) == \/ \E m \in AskedModes : SetMode(r, m)
             \/ ReadMode(r)
             \/ ConfigureMode(r)
             \/ Replay(r)
             \/ Restart(r)
             \/ Reply(r, board.mode)

RunThread == Leave \/ Take \/ Clear \/ Play \/ Wait \/ Finish \/ Hold

\* The thread has ended, and nobody asks anything any more.
Over == /\ thread.at = "ended"
        /\ \A r \in Requests : request[r].at = "done"
        /\ UNCHANGED mockVars

MockNext == RunThread \/ (\E r \in Requests : Handle(r)) \/ Stop \/ StopRestart \/ Over

MockSpec == MockInit /\ [][MockNext]_mockVars

\* The thread runs on, and a stop once begun is finished.
FairMockSpec == MockSpec /\ WF_mockVars(RunThread) /\ WF_mockVars(StopRestart)
---------------------------------------------------------------------------
ConsoleTypeOK ==
  /\ board \in Board(MockOrders)
  /\ dropped = FALSE
  /\ driver \in [mode : AllModes, outcome : Endings \cup {"auto"}, loop : BOOLEAN]
  /\ restart \in BOOLEAN
  /\ stop \in {"no", "stop", "restart"}
  /\ thread.at \in {"top", "clear", "play", "wait", "after", "hold", "ended"}
  /\ thread.mode \in AllModes /\ thread.ending \in Endings
  /\ thread.index \in 0..2 /\ thread.beat \in Nat
  /\ thread.at \in {"play", "wait", "hold"} => thread.beat <= Len(Beats)
  /\ request \in [Requests ->
       [at : {"idle", "read", "configure", "restart", "reply", "done"},
        asked : AllModes \cup {"none"}, mode : AllModes \cup {"none"}]]

\* Once the requests that were made are handled, and no restart is pending,
\* the mode the page shows is the mode of the run it shows: set_mode writes the
\* board, and every run it makes wrong is restarted (app.py:124, mock.py:566).
PageOfThisRun ==
  /\ \A r \in Requests : request[r].at \notin {"read", "configure", "restart"}
  /\ ~restart
  /\ thread.at \in {"play", "wait", "after", "hold"} /\ thread.beat > 1
  => board.mode = thread.mode

\* A page that says how a run ended says it of one run, whichever was cut short
\* before: success only with a verified item and a confirmed last placement, at
\* the attempt that is counted; failure only with neither and an error alert;
\* and a graded item is in the zone of its grade, or in its ordered one when it
\* passed, with an alert for every diversion (mock.py:162-429, modes.py:177-248).
MockTellsTheTruth ==
  LET place == board.stages["PLACE"].motion
      severities == {board.alerts[i].severity : i \in DOMAIN board.alerts}
  IN /\ board.outcome \in {"fulfilled", "retried"} =>
          /\ board.verification = [ok |-> TRUE, attempt |-> board.attempts]
          /\ place = [state |-> "verified", attempt |-> board.attempts]
          /\ board.attempts = (IF board.outcome = "fulfilled" THEN 1 ELSE 2)
          /\ "info" \in severities
     /\ board.outcome = "failed" =>
          /\ ~board.verification.ok
          /\ place.state # "verified"
          /\ "error" \in severities /\ "info" \notin severities
     /\ board.qc \in {"review", "reject"} /\ board.routing # NoRouting =>
          board.routing.bin = ZoneForGrade[board.qc]
     /\ board.routing.diverted /\ board.outcome # "running" =>
          severities \cap {"warning", "error"} # {}

\* A mode that was configured comes to be played, unless another replaces it or
\* the thread is stopped (mock.py:566-573, 579-584; loop as by default).
SwitchTakesEffect ==
  driver.loop => \A m \in AskedModes :
    (driver.mode = m) ~> (thread.mode = m \/ driver.mode # m \/ Stopping)

\* A stop ends the thread, wherever it is, and whatever is asked meanwhile
\* (mock.py:560-564, 579-601).
StopEnds == Stopping ~> (thread.at = "ended")

\* What tools/dashboard.py:309 says of POST /mode: its reply is authoritative,
\* the mode that was asked for, also while the canned runs are playing.
ReplyNamesMode ==
  [][\A r \in Requests, m \in AllModes : Reply(r, m) => m = request[r].asked]_mockVars
============================================================================
