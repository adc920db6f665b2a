------------------------------ MODULE AlertLink ------------------------------
(***************************************************************************)
(* The alerts of the dashboard on their way to the platform: ingest and    *)
(* _dispatch_alert of src/gui/app.py, which hold the app's lock and are    *)
(* one step each, the connect thread and the send worker of                *)
(* src/gui/platform.py, which work meanwhile.  Both are daemon threads:    *)
(* they end with the process, whatever is queued.  Alerts are numbered as  *)
(* they are raised.  The platform is external: create returns, or raises   *)
(* before or after it took the alert.                                      *)
(***************************************************************************)
EXTENDS Integers, Sequences, FiniteSets

CONSTANTS
  MaxAlerts,    \* alerts raised
  MaxResets     \* runs begun while alerts are on their way

ASSUME LinkAssumption == MaxAlerts \in Nat /\ MaxResets \in Nat

VARIABLES
  mode,       \* how the link was built: "mock", "dry_run" or "real"
  alerts,     \* state.alerts: who raised each and what its card says
  raised,     \* how many alerts were raised
  resets,     \* how many runs were begun
  queue,      \* the jobs of the worker, and the None that stops it
  worker,     \* the send worker
  connector,  \* the connect thread: "start", "connecting", "robot", "ended"
  robot,      \* _robot is there
  status,     \* _status
  sent,       \* _sent
  failed,     \* _failed
  taken,      \* the alerts the platform created, in order
  ended,      \* the process of the dashboard is gone, its threads with it
  stopAt      \* history: alerts raised when stop was called, or 0

link == <<mode, connector, robot, status>>
vars == <<alerts, raised, resets, queue, worker, link, sent, failed, taken, ended, stopAt>>

Ids == 1..MaxAlerts
Job == [id : Ids, index : Ids]
NoJob == [id |-> 0, index |-> 0]
Poison == [id |-> -1, index |-> -1]
Results == {"sent", "failed", "offline", "dry_run"}
Cards == Results \cup {"sending", "mock", "elsewhere"}

Worker(pc, job, result) == [pc |-> pc, job |-> job, result |-> result]
Idle == Worker("idle", NoJob, "none")
Enabled == mode # "mock"
---------------------------------------------------------------------------
Init ==
  /\ mode \in {"mock", "dry_run", "real"}
  /\ alerts = <<>>
  /\ raised = 0 /\ resets = 0
  /\ queue = <<>>
  /\ worker = IF Enabled THEN Idle ELSE Worker("absent", NoJob, "none")
  /\ connector = IF Enabled THEN "start" ELSE "ended"
  /\ robot = FALSE
  /\ status = IF Enabled THEN "offline" ELSE "mock"
  /\ sent = 0 /\ failed = 0
  /\ taken = <<>>
  /\ ended = FALSE
  /\ stopAt = 0

\* Mutant: the origin is not looked at.
IsOwnAlways(origin) == TRUE

\* An alert somebody else raised is somebody else's to send.
IsOwn(origin) == origin = "dashboard"

\* ingest of an alert.  With a mock run the result is there at once.
Raise(origin) ==
  LET index == Len(alerts) + 1
      card == CASE ~IsOwn(origin) -> "elsewhere"
                [] IsOwn(origin) /\ Enabled -> "sending"
                [] OTHER -> "mock"
  IN /\ raised < MaxAlerts
     /\ raised' = raised + 1
     /\ alerts' = Append(alerts, [id |-> raised', origin |-> origin, card |-> card])
     /\ queue' = IF card = "sending" THEN Append(queue, [id |-> raised', index |-> index])
                 ELSE queue
     /\ UNCHANGED <<resets, worker, link, sent, failed, taken, stopAt>>

\* A reset event, or replay without a driver: a new run with no alerts.
ResetRun ==
  /\ resets < MaxResets
  /\ resets' = resets + 1
  /\ alerts' = <<>>
  /\ UNCHANGED <<raised, queue, worker, link, sent, failed, taken, stopAt>>

\* Mutant: stop does not wait for what is queued.
StopAtOnce ==
  /\ \A i \in DOMAIN queue : queue[i] # Poison
  /\ worker.pc # "stopped"
  /\ queue' = <<Poison>> \o queue
  /\ UNCHANGED <<alerts, raised, resets, worker, link, sent, failed, taken>>
  /\ stopAt' = raised

\* stop, once, when the server was stopped.
Stop ==
  /\ \A i \in DOMAIN queue : queue[i] # Poison
  /\ worker.pc # "stopped"
  /\ queue' = Append(queue, Poison)
  /\ UNCHANGED <<alerts, raised, resets, worker, link, sent, failed, taken>>
  /\ stopAt' = raised
---------------------------------------------------------------------------
(* _connect *)

ConnectBegin ==
  /\ connector = "start"
  /\ \/ connector' = "connecting" /\ status' = "connecting"
     \/ connector' = "ended" /\ status' = "offline"     \* no twin id, no key
  /\ UNCHANGED <<mode, alerts, raised, resets, queue, worker, robot, sent, failed, taken, stopAt>>

ConnectRobot ==
  /\ connector = "connecting"
  /\ \/ connector' = "robot" /\ robot' = TRUE /\ UNCHANGED status
     \/ connector' = "ended" /\ status' = "offline" /\ UNCHANGED robot
  /\ UNCHANGED <<mode, alerts, raised, resets, queue, worker, sent, failed, taken, stopAt>>

ConnectEnd ==
  /\ connector = "robot"
  /\ connector' = "ended" /\ status' = "connected"
  /\ UNCHANGED <<mode, alerts, raised, resets, queue, worker, robot, sent, failed, taken, stopAt>>
---------------------------------------------------------------------------
(* _pump and _send_now *)

Take ==
  /\ worker.pc = "idle" /\ queue # <<>>
  /\ queue' = Tail(queue)
  /\ worker' = IF Head(queue) = Poison THEN Worker("stopped", NoJob, "none")
               ELSE Worker("send", Head(queue), "none")
  /\ UNCHANGED <<alerts, raised, resets, link, sent, failed, taken, stopAt>>

\* The robot is read once, under the link's lock.
Send ==
  /\ worker.pc = "send"
  /\ \/ /\ ~robot
        /\ failed' = failed + 1
        /\ worker' = Worker("done", worker.job, "offline")
     \/ /\ robot /\ mode = "dry_run"
        /\ worker' = Worker("done", worker.job, "dry_run")
        /\ UNCHANGED failed
     \/ /\ robot /\ mode = "real"
        /\ worker' = Worker("create", worker.job, "none")
        /\ UNCHANGED failed
  /\ UNCHANGED <<alerts, raised, resets, queue, link, sent, taken, stopAt>>

\* send_alert returns: counted, with the link's lock.  A robot without alerts
\* is sent nothing.
Created ==
  /\ worker.pc = "create"
  /\ \/ /\ taken' = Append(taken, worker.job.id)
        /\ sent' = sent + 1
        /\ worker' = Worker("done", worker.job, "sent")
        /\ UNCHANGED failed
     \/ /\ failed' = failed + 1
        /\ worker' = Worker("done", worker.job, "failed")
        /\ UNCHANGED <<taken, sent>>
  /\ UNCHANGED <<alerts, raised, resets, queue, link, stopAt>>

\* Mutant: the failure is not counted.
CreateRaisesUncounted ==
  /\ worker.pc = "create"
  /\ worker' = Worker("raised", worker.job, "failed")
  /\ UNCHANGED <<alerts, raised, resets, queue, link, sent, failed, taken, stopAt>>

CreateRaises ==
  /\ worker.pc = "create"
  /\ \/ UNCHANGED taken
     \/ taken' = Append(taken, worker.job.id)
  /\ failed' = failed + 1
  /\ worker' = Worker("raised", worker.job, "failed")
  /\ UNCHANGED <<alerts, raised, resets, queue, link, sent, stopAt>>

\* ... and then the badge, with the lock taken again.
MarkOffline ==
  /\ worker.pc = "raised"
  /\ status' = "offline"
  /\ worker' = Worker("done", worker.job, worker.result)
  /\ UNCHANGED <<mode, alerts, raised, resets, queue, connector, robot, sent, failed, taken, stopAt>>

\* Mutant: an exception in the callback ends the worker.
DoneFragile ==
  /\ worker.pc = "done"
  /\ IF worker.job.index <= Len(alerts)
     THEN /\ alerts' = [alerts EXCEPT ![worker.job.index].card = worker.result]
          /\ worker' = Idle
     ELSE /\ worker' = Worker("absent", NoJob, "none")
          /\ UNCHANGED alerts
  /\ UNCHANGED <<raised, resets, queue, link, sent, failed, taken, stopAt>>

\* done, with the app's lock: the card is found by its index.
Done ==
  /\ worker.pc = "done"
  /\ alerts' = IF worker.job.index <= Len(alerts)
               THEN [alerts EXCEPT ![worker.job.index].card = worker.result]
               ELSE alerts
  /\ worker' = Idle
  /\ UNCHANGED <<raised, resets, queue, link, sent, failed, taken, stopAt>>

Connect == ConnectBegin \/ ConnectRobot \/ ConnectEnd
Pump == Take \/ Send \/ Created \/ CreateRaises \/ MarkOffline \/ Done

\* A thread of the dashboard runs while its process does.
Alive == ~ended /\ UNCHANGED ended

\* The process ends, at any moment: main returns after stop, which waits for
\* nobody (tools/dashboard.py), self_test returns without it, or it is killed.
Exit == /\ ~ended
        /\ ended' = TRUE
        /\ UNCHANGED <<alerts, raised, resets, queue, worker, link, sent, failed, taken, stopAt>>

Next == \/ Alive /\ \/ \E origin \in {"dashboard", "run_order"} : Raise(origin)
                    \/ ResetRun
                    \/ Stop
                    \/ Connect
                    \/ Pump
        \/ Exit

Spec == Init /\ [][Next]_vars

\* The worker runs on while the process does, and the platform answers or
\* refuses what it is sent.
FairSpec == Spec /\ WF_vars(Alive /\ Pump)
---------------------------------------------------------------------------
TypeOK ==
  /\ mode \in {"mock", "dry_run", "real"}
  /\ alerts \in Seq([id : Ids, origin : {"dashboard", "run_order"}, card : Cards])
  /\ raised \in 0..MaxAlerts /\ resets \in 0..MaxResets
  /\ queue \in Seq(Job \cup {Poison})
  /\ worker \in [pc : {"absent", "idle", "send", "create", "raised", "done", "stopped"},
                 job : Job \cup {NoJob}, result : Results \cup {"none"}]
  /\ connector \in {"start", "connecting", "robot", "ended"}
  /\ robot \in BOOLEAN
  /\ status \in {"mock", "offline", "connecting", "connected"}
  /\ sent \in 0..MaxAlerts /\ failed \in 0..MaxAlerts
  /\ taken \in Seq(Ids) /\ stopAt \in 0..MaxAlerts
  /\ ended \in BOOLEAN

OnBoard == {alerts[i] : i \in DOMAIN alerts}

\* The platform is given no alert twice, none that the run itself raised
\* (test_gui.py:354), and none of a mock or dry run.
CreatedOnce ==
  /\ \A i, j \in DOMAIN taken : taken[i] = taken[j] => i = j
  /\ \A i \in DOMAIN taken : \A a \in OnBoard :
       a.id = taken[i] => a.origin = "dashboard"
  /\ mode # "real" => taken = <<>>

\* While no run was begun, a card says sent of an alert the platform created,
\* and the counters of the header are the cards on the page but the one
\* whose result is about to land.
CardsAreTrue ==
  resets = 0 =>
    LET Showing(results) == Cardinality({a \in OnBoard : a.card \in results})
        Landing(results) ==
          IF worker.pc \in {"raised", "done"} /\ worker.result \in results THEN 1 ELSE 0
    IN /\ \A a \in OnBoard : a.card = "sent" => \E i \in DOMAIN taken : taken[i] = a.id
       /\ sent = Showing({"sent"}) + Landing({"sent"})
       /\ failed = Showing({"failed", "offline"}) + Landing({"failed", "offline"})

\* Whenever the process ends, it takes the alerts with it whose cards still say
\* "sending"; the platform was given none that was raised after one of them,
\* and has one of them only when the worker had that one in hand.  A worker
\* that came as far as the None of stop leaves only what was raised after stop.
StopLosesTheTail ==
  LET Lost == {a \in OnBoard : a.card = "sending"}
  IN /\ ended => \A a \in Lost : \A i \in DOMAIN taken :
                   \/ taken[i] < a.id
                   \/ taken[i] = a.id /\ worker.job.id = a.id /\ worker.pc \in {"raised", "done"}
     /\ worker.pc = "stopped" => \A a \in Lost : a.id > stopAt

\* A card does not say "sending" for ever while the process of the dashboard
\* runs, unless stop was called before the alert was raised.
EveryAlertAnswered ==
  \A id \in Ids :
    (\E a \in OnBoard : a.id = id /\ a.card = "sending")
      ~> \/ ~\E a \in OnBoard : a.id = id /\ a.card = "sending"
         \/ worker.pc = "stopped" /\ id > stopAt
         \/ ended

\* platform.py:3, :200: a card never claims a dispatch that did not happen,
\* whatever run it belongs to.
NeverFaked ==
  \A a \in OnBoard : a.card = "sent" => \E i \in DOMAIN taken : taken[i] = a.id
============================================================================
