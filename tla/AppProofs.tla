------------------------------ MODULE AppProofs ------------------------------
(***************************************************************************)
(* The two sides of the app of the dashboard.                              *)
(*                                                                         *)
(* The link to the platform for every number of alerts and of new runs.    *)
(* One worker takes the alerts in the order they were raised: what was     *)
(* created lies behind what it has in hand, and that behind what is        *)
(* queued, so nothing is sent twice and nothing is counted twice.  A card  *)
(* that says "sending" has its job on the way, and the None of stop keeps  *)
(* its place among the jobs.                                               *)
(*                                                                         *)
(* The page for every script, every number of answers under way and every  *)
(* number of restarts.  A list of alerts belongs to the run that made it,  *)
(* and an answer holds the list of the run it tells of: so what it reads   *)
(* outside the lock is of that run.  The picture in the store is never     *)
(* older than an event on the board whose picture could be made.           *)
(***************************************************************************)
EXTENDS AlertLink, Page, SequenceTheorems, FiniteSetTheorems, TLAPS

AlertOnBoard == [id : Ids, origin : {"dashboard", "run_order"}, card : Cards]

\* The worker has an alert in hand.
Carrying == worker.pc \in {"send", "create", "raised", "done"}

\* The alerts raised, by the dashboard as far as the board knows.
Own ==
  {n \in 1..raised :
     \A i \in 1..Len(alerts) : alerts[i].id = n => alerts[i].origin = "dashboard"}

\* The alerts that nothing created or counted lies behind.
Past ==
  {n \in Nat : sent + failed <= n /\ \A i \in 1..Len(taken) : taken[i] <= n}

Jobs == {q \in 1..Len(queue) : queue[q] # Poison}

TypeInv ==
  /\ mode \in {"mock", "dry_run", "real"}
  /\ alerts \in Seq(AlertOnBoard)
  /\ raised \in 0..MaxAlerts /\ resets \in 0..MaxResets
  /\ queue \in Seq(Job \cup {Poison})
  /\ worker \in [pc : {"absent", "idle", "send", "create", "raised", "done", "stopped"},
                 job : Job \cup {NoJob}, result : Results \cup {"none"}]
  /\ connector \in {"start", "connecting", "robot", "ended"}
  /\ robot \in BOOLEAN
  /\ status \in {"mock", "offline", "connecting", "connected"}
  /\ sent \in Nat /\ failed \in Nat
  /\ taken \in Seq(Ids) /\ stopAt \in 0..MaxAlerts

\* The alerts of the board were raised; until a run is begun they are all
\* there, each where its number says.
BoardInv ==
  /\ Len(alerts) <= raised
  /\ \A i \in 1..Len(alerts) : alerts[i].id <= raised
  /\ resets = 0 => /\ Len(alerts) = raised
                   /\ \A i \in 1..Len(alerts) : alerts[i].id = i

\* One worker, one order of the alerts.
FlowInv ==
  /\ \A q, r \in Jobs : q < r => queue[q].id < queue[r].id
  /\ \A q \in Jobs : /\ queue[q].id \in Own /\ queue[q].id - 1 \in Past
                     /\ Carrying => worker.job.id < queue[q].id
  /\ Carrying => worker.job \in Job /\ worker.job.id \in Own
  /\ worker.pc \in {"send", "create"} => worker.job.id - 1 \in Past
  /\ worker.pc \in {"raised", "done"} =>
       worker.job.id \in Past /\ worker.result \in Results
  /\ raised \in Past
  /\ \A i \in 1..Len(taken) : taken[i] \in Own
  /\ \A i, j \in 1..Len(taken) : i < j => taken[i] < taken[j]
  /\ worker.pc = "create" => mode = "real"
  /\ mode # "real" => taken = <<>>

\* A card that says "sending" has its job on the way.
SendingInv ==
  \A i \in 1..Len(alerts) : alerts[i].card = "sending" =>
    LET job == [id |-> alerts[i].id, index |-> i]
    IN \/ \E q \in Jobs : queue[q] = job
       \/ Carrying /\ worker.job = job

\* Behind the None of stop is what was raised after it.
StopInv ==
  /\ stopAt <= raised
  /\ \A q, r \in 1..Len(queue) : q < r /\ queue[q] = Poison =>
       queue[r] # Poison /\ queue[r].id > stopAt
  /\ worker.pc = "stopped" =>
       \A q \in 1..Len(queue) : queue[q] # Poison /\ queue[q].id > stopAt

\* Until a run is begun: the job's card is the one that waits for it.
Waiting ==
  {job \in Job : /\ job.index = job.id /\ job.index \in 1..Len(alerts)
                 /\ alerts[job.index].card = "sending"}

Showing(results) == {a \in OnBoard : a.card \in results}

Landing(results) ==
  IF worker.pc \in {"raised", "done"} /\ worker.result \in results THEN 1 ELSE 0

CountInv ==
  resets = 0 =>
    /\ \A q \in Jobs : queue[q] \in Waiting
    /\ Carrying => worker.job \in Waiting
    /\ \A a \in OnBoard : a.card = "sent" => \E i \in 1..Len(taken) : taken[i] = a.id
    /\ worker.pc \in {"raised", "done"} /\ worker.result = "sent" =>
         \E i \in 1..Len(taken) : taken[i] = worker.job.id
    /\ IsFiniteSet(OnBoard)
    /\ sent = Cardinality(Showing({"sent"})) + Landing({"sent"})
    /\ failed = Cardinality(Showing({"failed", "offline"})) + Landing({"failed", "offline"})

Inv == TypeInv /\ BoardInv /\ FlowInv /\ SendingInv /\ StopInv /\ CountInv
---------------------------------------------------------------------------
LEMMA QueueFacts ==
  ASSUME TypeInv
  PROVE  /\ Len(queue) \in Nat /\ Len(alerts) \in Nat /\ Len(taken) \in Nat
         /\ raised \in Nat /\ MaxAlerts \in Nat
         /\ \A q \in 1..Len(queue) : queue[q] \in Job \cup {Poison}
         /\ \A q \in Jobs : queue[q] \in Job
         /\ \A i \in 1..Len(alerts) : alerts[i] \in AlertOnBoard
         /\ \A i \in 1..Len(taken) : taken[i] \in Ids
<1>1. /\ queue \in Seq(Job \cup {Poison}) /\ alerts \in Seq(AlertOnBoard)
      /\ taken \in Seq(Ids)
  BY DEF TypeInv
<1>2. /\ Len(queue) \in Nat /\ \A q \in 1..Len(queue) : queue[q] \in Job \cup {Poison}
  BY <1>1, LenProperties, ElementOfSeq
<1>3. /\ Len(alerts) \in Nat /\ \A i \in 1..Len(alerts) : alerts[i] \in AlertOnBoard
  BY <1>1, LenProperties, ElementOfSeq
<1>4. /\ Len(taken) \in Nat /\ \A i \in 1..Len(taken) : taken[i] \in Ids
  BY <1>1, LenProperties, ElementOfSeq
<1>5. raised \in Nat /\ MaxAlerts \in Nat
  BY LinkAssumption DEF TypeInv
<1>6. \A q \in Jobs : queue[q] \in Job
  BY <1>2 DEF Jobs
<1> QED
  BY <1>2, <1>3, <1>4, <1>5, <1>6

LEMMA JobFacts ==
  /\ Poison \notin Job /\ Poison.id = -1
  /\ \A job \in Job : job.id \in 1..MaxAlerts /\ job.index \in 1..MaxAlerts
                      /\ job = [id |-> job.id, index |-> job.index]
BY LinkAssumption DEF Job, Poison, Ids

LEMMA BoardFacts ==
  /\ \A a \in AlertOnBoard : a.id \in 1..MaxAlerts /\ a.origin \in {"dashboard", "run_order"}
BY DEF AlertOnBoard, Ids

LEMMA InitInv == Init => Inv
<1> SUFFICES ASSUME Init PROVE Inv
  OBVIOUS
<1>0. /\ Len(alerts) = 0 /\ Len(queue) = 0 /\ Len(taken) = 0
      /\ alerts = <<>> /\ queue = <<>> /\ taken = <<>>
      /\ raised = 0 /\ resets = 0 /\ sent = 0 /\ failed = 0 /\ stopAt = 0
  BY DEF Init
<1>1. /\ worker.pc \in {"idle", "absent"}
      /\ worker \in [pc : {"absent", "idle", "send", "create", "raised", "done", "stopped"},
                     job : Job \cup {NoJob}, result : Results \cup {"none"}]
  BY DEF Init, Idle, Worker
<1>2. TypeInv
  <2>1. /\ alerts \in Seq(AlertOnBoard) /\ queue \in Seq(Job \cup {Poison})
        /\ taken \in Seq(Ids)
    BY <1>0
  <2>2. /\ mode \in {"mock", "dry_run", "real"} /\ robot \in BOOLEAN
        /\ connector \in {"start", "connecting", "robot", "ended"}
        /\ status \in {"mock", "offline", "connecting", "connected"}
    BY DEF Init
  <2>3. /\ raised \in 0..MaxAlerts /\ resets \in 0..MaxResets
        /\ sent \in Nat /\ failed \in Nat /\ stopAt \in 0..MaxAlerts
    BY <1>0, LinkAssumption
  <2> QED
    BY <1>1, <2>1, <2>2, <2>3 DEF TypeInv
<1>3. BoardInv
  BY <1>0 DEF BoardInv
<1>4. FlowInv
  BY <1>0, <1>1 DEF FlowInv, Jobs, Carrying, Past
<1>5. SendingInv /\ StopInv
  BY <1>0, <1>1 DEF SendingInv, StopInv
<1>6. CountInv
  <2>1. OnBoard = {} /\ Jobs = {}
    BY <1>0 DEF OnBoard, Jobs
  <2>2. Showing({"sent"}) = {} /\ Showing({"failed", "offline"}) = {}
    BY <2>1 DEF Showing
  <2>3. Cardinality({}) = 0 /\ IsFiniteSet({})
    BY FS_EmptySet
  <2>4. Landing({"sent"}) = 0 /\ Landing({"failed", "offline"}) = 0
    BY <1>1 DEF Landing
  <2>5. /\ sent = Cardinality(Showing({"sent"})) + Landing({"sent"})
        /\ failed = Cardinality(Showing({"failed", "offline"}))
                      + Landing({"failed", "offline"})
    <3>1. /\ Cardinality(Showing({"sent"})) = 0
          /\ Cardinality(Showing({"failed", "offline"})) = 0
      BY <2>2, <2>3, Zenon
    <3> QED
      BY <1>0, <2>4, <3>1
  <2> QED
    BY <1>1, <2>1, <2>3, <2>5 DEF CountInv, Carrying
<1> QED
  BY <1>2, <1>3, <1>4, <1>5, <1>6 DEF Inv
---------------------------------------------------------------------------
(* An alert is raised. *)

LEMMA RaiseFacts ==
  ASSUME Inv, NEW origin \in {"dashboard", "run_order"}, Raise(origin)
  PROVE  \E c \in {"sending", "mock", "elsewhere"} :
           /\ raised' = raised + 1 /\ raised + 1 <= MaxAlerts
           /\ alerts' \in Seq(AlertOnBoard) /\ Len(alerts') = Len(alerts) + 1
           /\ \A i \in 1..Len(alerts) : alerts'[i] = alerts[i]
           /\ alerts'[Len(alerts) + 1] = [id |-> raised + 1, origin |-> origin, card |-> c]
           /\ queue' \in Seq(Job \cup {Poison})
           /\ \A q \in 1..Len(queue) : queue'[q] = queue[q]
           /\ c # "sending" => Len(queue') = Len(queue)
           /\ c = "sending" =>
                /\ origin = "dashboard" /\ Len(queue') = Len(queue) + 1
                /\ queue'[Len(queue) + 1] = [id |-> raised + 1, index |-> Len(alerts) + 1]
<1> DEFINE index == Len(alerts) + 1
           c == CASE ~IsOwn(origin) -> "elsewhere"
                  [] IsOwn(origin) /\ Enabled -> "sending"
                  [] OTHER -> "mock"
           a == [id |-> raised + 1, origin |-> origin, card |-> c]
           job == [id |-> raised + 1, index |-> index]
<1>1. /\ raised < MaxAlerts /\ raised' = raised + 1
      /\ alerts' = Append(alerts, a)
      /\ queue' = IF c = "sending" THEN Append(queue, job) ELSE queue
  BY DEF Raise
<1>2. c \in {"sending", "mock", "elsewhere"} /\ (c = "sending" => origin = "dashboard")
  BY DEF IsOwn
<1> HIDE DEF c
<1>3. /\ raised \in 0..MaxAlerts /\ Len(alerts) \in Nat /\ Len(alerts) <= raised
      /\ MaxAlerts \in Nat /\ alerts \in Seq(AlertOnBoard) /\ queue \in Seq(Job \cup {Poison})
      /\ Len(queue) \in Nat
  BY LinkAssumption DEF Inv, TypeInv, BoardInv
<1>4. raised + 1 \in Ids /\ index \in Ids
  BY <1>1, <1>3 DEF Ids
<1>5. a \in AlertOnBoard
  BY <1>2, <1>4 DEF AlertOnBoard, Cards
<1>6. job \in Job
  BY <1>4 DEF Job
<1> HIDE DEF a, job
<1>7. /\ alerts' \in Seq(AlertOnBoard) /\ Len(alerts') = Len(alerts) + 1
      /\ \A i \in 1..Len(alerts) : alerts'[i] = alerts[i]
      /\ alerts'[Len(alerts) + 1] = a
  BY <1>1, <1>3, <1>5, AppendProperties
<1>8. /\ queue' \in Seq(Job \cup {Poison})
      /\ \A q \in 1..Len(queue) : queue'[q] = queue[q]
      /\ c # "sending" => Len(queue') = Len(queue)
      /\ c = "sending" => Len(queue') = Len(queue) + 1 /\ queue'[Len(queue) + 1] = job
  BY <1>1, <1>3, <1>6, AppendProperties
<1> QED
  BY <1>1, <1>2, <1>3, <1>7, <1>8 DEF a, job

LEMMA RaiseKeeps ==
  ASSUME Inv, NEW origin \in {"dashboard", "run_order"}, Raise(origin)
  PROVE  Inv'
<1>1. PICK c \in {"sending", "mock", "elsewhere"} :
           /\ raised' = raised + 1 /\ raised + 1 <= MaxAlerts
           /\ alerts' \in Seq(AlertOnBoard) /\ Len(alerts') = Len(alerts) + 1
           /\ \A i \in 1..Len(alerts) : alerts'[i] = alerts[i]
           /\ alerts'[Len(alerts) + 1] = [id |-> raised + 1, origin |-> origin, card |-> c]
           /\ queue' \in Seq(Job \cup {Poison})
           /\ \A q \in 1..Len(queue) : queue'[q] = queue[q]
           /\ c # "sending" => Len(queue') = Len(queue)
           /\ c = "sending" =>
                /\ origin = "dashboard" /\ Len(queue') = Len(queue) + 1
                /\ queue'[Len(queue) + 1] = [id |-> raised + 1, index |-> Len(alerts) + 1]
  BY RaiseFacts
<1> DEFINE a == [id |-> raised + 1, origin |-> origin, card |-> c]
           job == [id |-> raised + 1, index |-> Len(alerts) + 1]
<1>2. UNCHANGED <<mode, connector, robot, status, resets, worker, sent, failed, taken, stopAt>>
  BY DEF Raise, link
<1>3. /\ TypeInv /\ BoardInv /\ FlowInv /\ SendingInv /\ StopInv /\ CountInv
      /\ Len(queue) \in Nat /\ Len(alerts) \in Nat /\ Len(taken) \in Nat /\ raised \in Nat
  BY QueueFacts DEF Inv
<1>4. /\ a.id = raised + 1 /\ a.origin = origin /\ a.card = c
      /\ job.id = raised + 1 /\ job.index = Len(alerts) + 1 /\ job # Poison
  BY <1>3 DEF Poison
<1>5. /\ alerts'[Len(alerts) + 1] = a
      /\ c = "sending" => queue'[Len(queue) + 1] = job
  BY <1>1
<1> HIDE DEF a, job
<1>6. /\ c # "sending" => Jobs' = Jobs
      /\ c = "sending" => Jobs' = Jobs \cup {Len(queue) + 1}
      /\ \A q \in Jobs : queue'[q] = queue[q] /\ q \in 1..Len(queue)
  BY <1>1, <1>3, <1>4, <1>5 DEF Jobs
<1>7. TypeInv'
  BY <1>1, <1>2, <1>3, LinkAssumption DEF TypeInv
<1>8. BoardInv'
  <2>1. \A i \in 1..Len(alerts) : alerts[i].id \in Nat
    BY <1>3, QueueFacts, BoardFacts
  <2>2. Len(alerts') <= raised' /\ (resets = 0 => Len(alerts') = raised')
    BY <1>1, <1>3 DEF BoardInv
  <2>3. ASSUME NEW i \in 1..Len(alerts')
        PROVE  alerts'[i].id <= raised' /\ (resets = 0 => alerts'[i].id = i)
    <3>1. CASE i \in 1..Len(alerts)
      BY <1>1, <1>3, <2>1, <3>1 DEF BoardInv
    <3>2. CASE i = Len(alerts) + 1
      BY <1>1, <1>3, <1>4, <1>5, <3>2 DEF BoardInv
    <3> QED
      BY <1>1, <1>3, <3>1, <3>2
  <2> QED
    BY <1>2, <2>2, <2>3 DEF BoardInv
<1>9. Own \subseteq Own'
  BY <1>1, <1>3, <1>4, <1>5 DEF Own
<1>10. origin = "dashboard" => raised + 1 \in Own'
  <2>1. \A i \in 1..Len(alerts) : alerts[i].id # raised + 1
    BY <1>3, QueueFacts, BoardFacts DEF BoardInv
  <2> QED
    BY <1>1, <1>3, <1>4, <1>5, <2>1 DEF Own
<1>11. Past' = Past
  BY <1>2 DEF Past
<1>12. \A n \in Nat : n \in Past => n + 1 \in Past
  BY <1>3, QueueFacts DEF Past, TypeInv, Ids
<1>13. \A q \in Jobs : queue[q].id <= raised
  BY <1>3 DEF FlowInv, Own
<1>14. Carrying' <=> Carrying
  BY <1>2 DEF Carrying
<1>15. FlowInv'
  <2>1. \A q \in Jobs' : /\ queue'[q].id \in Own' /\ queue'[q].id - 1 \in Past'
                         /\ Carrying => worker.job.id < queue'[q].id
    <3>1. ASSUME NEW q \in Jobs
          PROVE  /\ queue'[q].id \in Own' /\ queue'[q].id - 1 \in Past'
                 /\ Carrying => worker.job.id < queue'[q].id
      BY <1>3, <1>6, <1>9, <1>11 DEF FlowInv
    <3>2. ASSUME c = "sending"
          PROVE  /\ raised + 1 \in Own' /\ raised \in Past'
                 /\ Carrying => worker.job.id < raised + 1
      BY <1>1, <1>3, <1>10, <1>11, <3>2 DEF FlowInv, Own
    <3> TAKE q \in Jobs'
    <3>3. CASE q \in Jobs
      BY <3>1, <3>3
    <3>4. CASE c = "sending" /\ q = Len(queue) + 1
      <4>1. queue'[q].id = raised + 1 /\ queue'[q].id - 1 = raised
        BY <1>3, <1>4, <1>5, <3>4
      <4> QED
        BY <3>2, <3>4, <4>1
    <3> QED
      BY <1>6, <3>3, <3>4
  <2>2. \A q, r \in Jobs' : q < r => queue'[q].id < queue'[r].id
    <3>1. \A q, r \in Jobs : q < r => queue'[q].id < queue'[r].id
      BY <1>3, <1>6 DEF FlowInv
    <3>2. c = "sending" => \A q \in Jobs : queue'[q].id < queue'[Len(queue) + 1].id
      BY <1>3, <1>4, <1>5, <1>6, <1>13, QueueFacts, JobFacts
    <3> QED
      BY <1>3, <1>6, <3>1, <3>2
  <2>3. raised + 1 \in Past
    BY <1>3, <1>12 DEF FlowInv
  <2> QED
    BY <1>1, <1>2, <1>3, <1>9, <1>11, <1>14, <2>1, <2>2, <2>3 DEF FlowInv
<1>16. SendingInv'
  <2> SUFFICES ASSUME NEW i \in 1..Len(alerts'), alerts'[i].card = "sending"
               PROVE  \/ \E q \in Jobs' : queue'[q] = [id |-> alerts'[i].id, index |-> i]
                      \/ Carrying' /\ worker' .job = [id |-> alerts'[i].id, index |-> i]
    BY DEF SendingInv
  <2>1. CASE i \in 1..Len(alerts)
    <3>1. /\ alerts'[i] = alerts[i]
          /\ \/ \E q \in Jobs : queue[q] = [id |-> alerts[i].id, index |-> i]
             \/ Carrying /\ worker.job = [id |-> alerts[i].id, index |-> i]
      BY <1>1, <1>3, <2>1 DEF SendingInv
    <3> QED
      BY <1>2, <1>6, <1>14, <3>1
  <2>2. CASE i = Len(alerts) + 1
    <3>1. c = "sending" /\ alerts'[i].id = raised + 1
      BY <1>4, <1>5, <2>2
    <3>2. Len(queue) + 1 \in Jobs' /\ queue'[Len(queue) + 1] = job
      BY <1>5, <1>6, <3>1
    <3> QED
      BY <2>2, <3>1, <3>2 DEF job
  <2> QED
    BY <1>1, <1>3, <2>1, <2>2
<1>17. StopInv'
  <2>1. \A q \in 1..Len(queue') : \/ q \in 1..Len(queue) /\ queue'[q] = queue[q]
                                  \/ /\ q = Len(queue) + 1 /\ queue'[q] # Poison
                                     /\ queue'[q].id = raised + 1
    BY <1>1, <1>3, <1>4, <1>5
  <2>2. stopAt \in Nat /\ stopAt <= raised
    BY <1>3 DEF StopInv, TypeInv
  <2>3. \A q, r \in 1..Len(queue') : q < r /\ queue'[q] = Poison =>
          queue'[r] # Poison /\ queue'[r].id > stopAt
    BY <1>3, <2>1, <2>2 DEF StopInv
  <2>4. worker.pc = "stopped" =>
          \A q \in 1..Len(queue') : queue'[q] # Poison /\ queue'[q].id > stopAt
    BY <1>3, <2>1, <2>2 DEF StopInv
  <2> QED
    BY <1>1, <1>2, <1>3, <2>2, <2>3, <2>4 DEF StopInv
<1>18. CountInv'
  <2> SUFFICES ASSUME resets = 0 PROVE CountInv'
    BY <1>2 DEF CountInv
  <2>1. OnBoard' = OnBoard \cup {a}
    <3>1. DOMAIN alerts = 1..Len(alerts) /\ DOMAIN alerts' = 1..(Len(alerts) + 1)
      BY <1>1, <1>3 DEF TypeInv
    <3> QED
      BY <1>1, <1>3, <1>5, <3>1 DEF OnBoard
  <2>2. c \notin {"sent", "failed", "offline"}
    OBVIOUS
  <2>3. /\ Showing({"sent"})' = Showing({"sent"})
        /\ Showing({"failed", "offline"})' = Showing({"failed", "offline"})
    BY <1>4, <2>1, <2>2 DEF Showing
  <2>4. Waiting \subseteq Waiting'
    BY <1>1, <1>3 DEF Waiting
  <2>5. Len(alerts) = raised
    BY <1>3 DEF BoardInv
  <2>6. c = "sending" => job \in Waiting'
    BY <1>1, <1>3, <1>4, <1>5, <2>5 DEF Waiting
  <2>7. \A q \in Jobs' : queue'[q] \in Waiting'
    BY <1>3, <1>5, <1>6, <2>4, <2>6 DEF CountInv
  <2>8. IsFiniteSet(OnBoard')
    BY <1>3, <2>1, FS_AddElement DEF CountInv
  <2>9. /\ Landing({"sent"})' = Landing({"sent"})
        /\ Landing({"failed", "offline"})' = Landing({"failed", "offline"})
    BY <1>2 DEF Landing
  <2>10. \A b \in OnBoard' : b.card = "sent" => \E i \in 1..Len(taken) : taken[i] = b.id
    BY <1>3, <1>4, <2>1, <2>2 DEF CountInv
  <2> QED
    BY <1>2, <1>3, <1>14, <2>3, <2>4, <2>7, <2>8, <2>9, <2>10 DEF CountInv
<1> QED
  BY <1>7, <1>8, <1>15, <1>16, <1>17, <1>18 DEF Inv
---------------------------------------------------------------------------
(* A run is begun, the dashboard stops, the link connects. *)

LEMMA ResetKeeps == ASSUME Inv, ResetRun PROVE Inv'
<1>1. /\ resets < MaxResets /\ resets' = resets + 1 /\ alerts' = <<>>
      /\ UNCHANGED <<raised, queue, worker, mode, connector, robot, status, sent, failed,
                     taken, stopAt>>
  BY DEF ResetRun, link
<1>2. /\ TypeInv /\ FlowInv /\ StopInv /\ raised \in Nat /\ resets \in Nat
  BY QueueFacts DEF Inv, TypeInv
<1>3. Len(alerts') = 0 /\ resets' # 0 /\ alerts' \in Seq(AlertOnBoard)
  BY <1>1, <1>2
<1>4. TypeInv'
  BY <1>1, <1>2, <1>3, LinkAssumption DEF TypeInv
<1>5. BoardInv'
  BY <1>1, <1>2, <1>3 DEF BoardInv
<1>6. /\ Own \subseteq Own' /\ Past' = Past /\ Jobs' = Jobs /\ Carrying' = Carrying
  BY <1>1, <1>3 DEF Own, Past, Jobs, Carrying
<1>7. FlowInv'
  BY <1>1, <1>2, <1>6 DEF FlowInv
<1>8. SendingInv' /\ StopInv' /\ CountInv'
  BY <1>1, <1>2, <1>3 DEF SendingInv, StopInv, CountInv
<1> QED
  BY <1>4, <1>5, <1>7, <1>8 DEF Inv

LEMMA StopKeeps == ASSUME Inv, Stop PROVE Inv'
<1>1. /\ \A i \in DOMAIN queue : queue[i] # Poison
      /\ worker.pc # "stopped" /\ queue' = Append(queue, Poison) /\ stopAt' = raised
      /\ UNCHANGED <<alerts, raised, resets, worker, mode, connector, robot, status, sent,
                     failed, taken>>
  BY DEF Stop, link
<1>2. /\ TypeInv /\ BoardInv /\ FlowInv /\ SendingInv /\ StopInv /\ CountInv
      /\ Len(queue) \in Nat /\ queue \in Seq(Job \cup {Poison}) /\ raised \in 0..MaxAlerts
  BY QueueFacts DEF Inv, TypeInv
<1>3. /\ queue' \in Seq(Job \cup {Poison}) /\ Len(queue') = Len(queue) + 1
      /\ \A q \in 1..Len(queue) : queue'[q] = queue[q] /\ queue[q] # Poison
      /\ queue'[Len(queue) + 1] = Poison
  BY <1>1, <1>2, AppendProperties, LenProperties
<1>4. TypeInv'
  BY <1>1, <1>2, <1>3 DEF TypeInv
<1>5. BoardInv'
  BY <1>1, <1>2 DEF BoardInv
<1>6. /\ Own' = Own /\ Past' = Past /\ Carrying' = Carrying /\ Waiting' = Waiting
  BY <1>1 DEF Own, Past, Carrying, Waiting
<1>7. Jobs' = Jobs /\ \A q \in Jobs : queue'[q] = queue[q]
  BY <1>2, <1>3 DEF Jobs
<1>8. FlowInv'
  BY <1>1, <1>2, <1>6, <1>7 DEF FlowInv
<1>9. SendingInv'
  BY <1>1, <1>2, <1>6, <1>7 DEF SendingInv
<1>10. StopInv'
  <2>1. \A q \in 1..Len(queue') : queue'[q] = Poison => q = Len(queue')
    BY <1>2, <1>3
  <2>2. \A q, r \in 1..Len(queue') : q < r => queue'[q] # Poison
    BY <1>2, <1>3, <2>1
  <2> QED
    BY <1>1, <1>2, <2>2 DEF StopInv
<1>11. CountInv'
  <2>1. /\ OnBoard' = OnBoard /\ Showing({"sent"})' = Showing({"sent"})
        /\ Showing({"failed", "offline"})' = Showing({"failed", "offline"})
        /\ Landing({"sent"})' = Landing({"sent"})
        /\ Landing({"failed", "offline"})' = Landing({"failed", "offline"})
    BY <1>1 DEF OnBoard, Showing, Landing
  <2> QED
    BY <1>1, <1>2, <1>6, <1>7, <2>1 DEF CountInv
<1> QED
  BY <1>4, <1>5, <1>8, <1>9, <1>10, <1>11 DEF Inv

\* Everything but the badge stays.
LEMMA BadgeKeeps ==
  ASSUME Inv, UNCHANGED <<mode, alerts, raised, resets, queue, worker, sent, failed, taken, stopAt>>,
         connector' \in {"start", "connecting", "robot", "ended"}, robot' \in BOOLEAN,
         status' \in {"mock", "offline", "connecting", "connected"}
  PROVE  Inv'
<1>1. TypeInv'
  BY DEF Inv, TypeInv
<1>2. BoardInv'
  BY DEF Inv, BoardInv
<1>3. /\ Own' = Own /\ Past' = Past /\ Carrying' = Carrying /\ Waiting' = Waiting
      /\ Jobs' = Jobs /\ OnBoard' = OnBoard
      /\ Showing({"sent"})' = Showing({"sent"})
      /\ Showing({"failed", "offline"})' = Showing({"failed", "offline"})
      /\ Landing({"sent"})' = Landing({"sent"})
      /\ Landing({"failed", "offline"})' = Landing({"failed", "offline"})
  BY DEF Own, Past, Carrying, Waiting, Jobs, OnBoard, Showing, Landing
<1>4. FlowInv'
  BY <1>3 DEF Inv, FlowInv
<1>5. SendingInv' /\ StopInv'
  BY <1>3 DEF Inv, SendingInv, StopInv
<1>6. CountInv'
  BY <1>3 DEF Inv, CountInv
<1> QED
  BY <1>1, <1>2, <1>4, <1>5, <1>6 DEF Inv

LEMMA ConnectKeeps == ASSUME Inv, Connect PROVE Inv'
<1>1. /\ UNCHANGED <<mode, alerts, raised, resets, queue, worker, sent, failed, taken, stopAt>>
      /\ connector' \in {"start", "connecting", "robot", "ended"} /\ robot' \in BOOLEAN
      /\ status' \in {"mock", "offline", "connecting", "connected"}
  BY DEF Inv, TypeInv, Connect, ConnectBegin, ConnectRobot, ConnectEnd
<1> QED
  BY <1>1, BadgeKeeps
---------------------------------------------------------------------------
(* The worker takes an alert. *)

LEMMA TakeKeeps == ASSUME Inv, Take PROVE Inv'
<1>1. /\ worker.pc = "idle" /\ queue # <<>> /\ queue' = Tail(queue)
      /\ worker' = IF Head(queue) = Poison THEN Worker("stopped", NoJob, "none")
                   ELSE Worker("send", Head(queue), "none")
      /\ UNCHANGED <<alerts, raised, resets, mode, connector, robot, status, sent, failed,
                     taken, stopAt>>
  BY DEF Take, link
<1>2. /\ TypeInv /\ BoardInv /\ FlowInv /\ SendingInv /\ StopInv /\ CountInv
      /\ Len(queue) \in Nat /\ queue \in Seq(Job \cup {Poison}) /\ ~Carrying
      /\ stopAt \in Nat
  BY <1>1, QueueFacts DEF Inv, TypeInv, Carrying
<1>3. /\ queue' \in Seq(Job \cup {Poison}) /\ Len(queue') = Len(queue) - 1 /\ Len(queue) >= 1
      /\ \A q \in 1..Len(queue') : queue'[q] = queue[q + 1]
      /\ Head(queue) = queue[1] /\ queue[1] \in Job \cup {Poison}
  BY <1>1, <1>2, HeadTailProperties, EmptySeq, ElementOfSeq
<1>4. \A q \in Jobs' : q + 1 \in Jobs /\ queue'[q] = queue[q + 1] /\ q \in Nat \ {0}
  BY <1>2, <1>3 DEF Jobs
<1>5. \A q \in Jobs : q = 1 \/ (q - 1 \in Jobs' /\ queue'[q - 1] = queue[q])
  <2> SUFFICES ASSUME NEW q \in Jobs, q # 1
               PROVE  q - 1 \in Jobs' /\ queue'[q - 1] = queue[q]
    OBVIOUS
  <2>1. q \in 1..Len(queue) /\ queue[q] # Poison
    BY DEF Jobs
  <2>2. q - 1 \in 1..Len(queue')
    BY <1>2, <1>3, <2>1
  <2>3. queue'[q - 1] = queue[(q - 1) + 1] /\ (q - 1) + 1 = q
    BY <1>3, <2>1, <2>2
  <2> QED
    BY <2>1, <2>2, <2>3 DEF Jobs
<1>6. BoardInv'
  BY <1>1, <1>2 DEF BoardInv
<1>7. /\ Own' = Own /\ Past' = Past /\ Waiting' = Waiting /\ OnBoard' = OnBoard
      /\ Showing({"sent"})' = Showing({"sent"})
      /\ Showing({"failed", "offline"})' = Showing({"failed", "offline"})
  BY <1>1 DEF Own, Past, Waiting, OnBoard, Showing
<1>8. \A q, r \in Jobs' : q < r => queue'[q].id < queue'[r].id
  BY <1>2, <1>4 DEF FlowInv
<1>9. \A q \in Jobs' : queue'[q].id \in Own' /\ queue'[q].id - 1 \in Past'
  BY <1>2, <1>4, <1>7 DEF FlowInv
<1>10. resets = 0 => \A q \in Jobs' : queue'[q] \in Waiting'
  BY <1>2, <1>4, <1>7 DEF CountInv
<1>11. /\ Landing({"sent"}) = 0 /\ Landing({"failed", "offline"}) = 0
  BY <1>1 DEF Landing
<1>12. CASE queue[1] = Poison
  <2>1. worker' = [pc |-> "stopped", job |-> NoJob, result |-> "none"]
    BY <1>1, <1>3, <1>12 DEF Worker
  <2>2. ~Carrying' /\ worker'.pc = "stopped"
    BY <2>1 DEF Carrying
  <2>3. TypeInv'
    BY <1>1, <1>2, <1>3, <2>1 DEF TypeInv
  <2>4. FlowInv'
    BY <1>1, <1>2, <1>7, <1>8, <1>9, <2>1, <2>2 DEF FlowInv
  <2>5. SendingInv'
    <3>1. 1 \notin Jobs
      BY <1>12 DEF Jobs
    <3>2. \A j : (\E q \in Jobs : queue[q] = j) => \E q \in Jobs' : queue'[q] = j
      BY <1>5, <3>1
    <3> QED
      BY <1>1, <1>2, <3>2 DEF SendingInv
  <2>6. StopInv'
    <3>1. \A q \in 1..Len(queue') : queue'[q] # Poison /\ queue'[q].id > stopAt
      <4> TAKE q \in 1..Len(queue')
      <4>1. 1 \in 1..Len(queue) /\ q + 1 \in 1..Len(queue) /\ 1 < q + 1
        BY <1>2, <1>3
      <4>2. queue[q + 1] # Poison /\ queue[q + 1].id > stopAt
        BY <1>2, <1>12, <4>1 DEF StopInv
      <4> QED
        BY <1>3, <4>2
    <3> QED
      BY <1>1, <1>2, <3>1 DEF StopInv
  <2>7. CountInv'
    <3>1. Landing({"sent"})' = 0 /\ Landing({"failed", "offline"})' = 0
      BY <2>2 DEF Landing
    <3> QED
      BY <1>1, <1>2, <1>7, <1>10, <1>11, <2>2, <3>1 DEF CountInv
  <2> QED
    BY <1>6, <2>3, <2>4, <2>5, <2>6, <2>7 DEF Inv
<1>13. CASE queue[1] # Poison
  <2>1. /\ worker' = [pc |-> "send", job |-> queue[1], result |-> "none"]
        /\ queue[1] \in Job
    BY <1>1, <1>3, <1>13 DEF Worker
  <2>2. Carrying' /\ worker'.pc = "send" /\ worker'.job = queue[1]
    BY <2>1 DEF Carrying
  <2>3. TypeInv'
    BY <1>1, <1>2, <1>3, <2>1 DEF TypeInv
  <2>4. 1 \in Jobs
    BY <1>2, <1>3, <1>13 DEF Jobs
  <2>5. /\ queue[1].id \in Own' /\ queue[1].id - 1 \in Past'
        /\ \A q \in Jobs' : queue[1].id < queue'[q].id
    <3>1. queue[1].id \in Own /\ queue[1].id - 1 \in Past
      BY <1>2, <2>4 DEF FlowInv
    <3>2. \A q \in Jobs' : 1 < q + 1 /\ q + 1 \in Jobs
      BY <1>4
    <3>3. \A q \in Jobs' : queue[1].id < queue[q + 1].id
      BY <1>2, <2>4, <3>2 DEF FlowInv
    <3> QED
      BY <1>4, <1>7, <3>1, <3>3
  <2>6. FlowInv'
    BY <1>1, <1>2, <1>7, <1>8, <1>9, <2>1, <2>2, <2>5 DEF FlowInv
  <2>7. SendingInv'
    <3>1. \A j : (\E q \in Jobs : queue[q] = j) =>
                   (\E q \in Jobs' : queue'[q] = j) \/ worker'.job = j
      BY <1>5, <2>2
    <3> QED
      BY <1>1, <1>2, <2>2, <3>1 DEF SendingInv
  <2>8. StopInv'
    <3>1. \A q, r \in 1..Len(queue') : q < r /\ queue'[q] = Poison =>
            queue'[r] # Poison /\ queue'[r].id > stopAt
      <4> TAKE q, r \in 1..Len(queue')
      <4>1. /\ q + 1 \in 1..Len(queue) /\ r + 1 \in 1..Len(queue)
            /\ queue'[q] = queue[q + 1] /\ queue'[r] = queue[r + 1]
            /\ q < r => q + 1 < r + 1
        BY <1>2, <1>3
      <4> QED
        BY <1>2, <4>1 DEF StopInv
    <3> QED
      BY <1>1, <1>2, <2>2, <3>1 DEF StopInv
  <2>9. CountInv'
    <3>1. Landing({"sent"})' = 0 /\ Landing({"failed", "offline"})' = 0
      BY <2>2 DEF Landing
    <3>2. resets = 0 => queue[1] \in Waiting'
      BY <1>2, <1>7, <2>4 DEF CountInv
    <3> QED
      BY <1>1, <1>2, <1>7, <1>10, <1>11, <2>2, <3>1, <3>2 DEF CountInv
  <2> QED
    BY <1>6, <2>3, <2>6, <2>7, <2>8, <2>9 DEF Inv
<1> QED
  BY <1>12, <1>13
---------------------------------------------------------------------------
(* The worker sends it, and the result lands. *)

LEMMA OneMore ==
  \A a, b, c, d, n, m \in Nat :
    a + b <= n - 1 /\ c + d <= a + b + 1 /\ n <= m => c + d <= m
OBVIOUS

\* Alert n is created or counted or both, or neither: what lies behind it is
\* not.
LEMMA PastGrows ==
  ASSUME TypeInv, NEW n \in Nat \ {0}, n - 1 \in Past, NEW m \in Nat, n <= m,
         sent' \in Nat, failed' \in Nat, sent' + failed' <= sent + failed + 1,
         n \in Ids, taken' = taken \/ taken' = Append(taken, n)
  PROVE  m \in Past'
<1>1. sent + failed <= n - 1 /\ \A i \in 1..Len(taken) : taken[i] <= n - 1
  BY DEF Past
<1>2. Len(taken) \in Nat /\ taken \in Seq(Ids) /\ \A i \in 1..Len(taken) : taken[i] \in Nat
  BY QueueFacts DEF TypeInv, Ids
<1>3. sent' + failed' <= m
  <2>1. sent \in Nat /\ failed \in Nat
    BY DEF TypeInv
  <2> QED
    BY <1>1, <2>1, OneMore
<1>4. \A i \in 1..Len(taken') : taken'[i] <= m
  <2>1. CASE taken' = taken
    BY <1>1, <1>2, <2>1
  <2>2. CASE taken' = Append(taken, n)
    <3>1. /\ Len(taken') = Len(taken) + 1 /\ taken'[Len(taken) + 1] = n
          /\ \A i \in 1..Len(taken) : taken'[i] = taken[i]
      BY <1>2, <2>2, AppendProperties
    <3> TAKE i \in 1..Len(taken')
    <3>2. CASE i = Len(taken) + 1
      BY <3>1, <3>2
    <3>3. CASE i \in 1..Len(taken)
      BY <1>1, <1>2, <3>1, <3>3
    <3> QED
      BY <1>2, <3>1, <3>2, <3>3
  <2> QED
    BY <2>1, <2>2
<1> QED
  BY <1>3, <1>4 DEF Past

\* The alert in hand is dealt with: created or not, and counted accordingly.
LEMMA DealtKeeps ==
  ASSUME Inv, worker.pc \in {"send", "create"},
         NEW pc \in {"raised", "done"}, NEW result \in Results,
         worker' = Worker(pc, worker.job, result),
         sent' = sent + (IF result = "sent" THEN 1 ELSE 0),
         failed' = failed + (IF result \in {"failed", "offline"} THEN 1 ELSE 0),
         \/ taken' = taken /\ result # "sent"
         \/ taken' = Append(taken, worker.job.id) /\ mode = "real",
         UNCHANGED <<alerts, raised, resets, queue, link, stopAt>>
  PROVE  Inv'
<1> DEFINE n == worker.job.id
<1>1. /\ TypeInv /\ BoardInv /\ FlowInv /\ SendingInv /\ StopInv /\ CountInv
      /\ UNCHANGED <<mode, connector, robot, status>>
  BY DEF Inv, link
<1>2. /\ Carrying /\ worker.job \in Job /\ n \in Own /\ n - 1 \in Past
      /\ n \in Nat \ {0} /\ n \in Ids /\ n \in 1..raised
  BY <1>1, JobFacts DEF FlowInv, Carrying, Own, Ids
<1>3. /\ worker' = [pc |-> pc, job |-> worker.job, result |-> result]
      /\ worker'.pc = pc /\ worker'.job = worker.job /\ worker'.result = result
      /\ Carrying' /\ worker'.pc \in {"raised", "done"}
  BY DEF Worker, Carrying
<1>4. /\ sent \in Nat /\ failed \in Nat /\ sent' \in Nat /\ failed' \in Nat
      /\ sent' + failed' <= sent + failed + 1 /\ raised \in Nat
  BY <1>1, QueueFacts DEF TypeInv, Results
<1>5. /\ taken' \in Seq(Ids)
      /\ Len(taken) \in Nat
      /\ \/ taken' = taken
         \/ /\ Len(taken') = Len(taken) + 1 /\ taken'[Len(taken) + 1] = n
            /\ \A i \in 1..Len(taken) : taken'[i] = taken[i]
  <2>1. taken \in Seq(Ids) /\ Len(taken) \in Nat /\ n \in Ids
    BY <1>1, <1>2, QueueFacts DEF TypeInv
  <2>2. taken' = taken \/ taken' = Append(taken, n)
    OBVIOUS
  <2> HIDE DEF n
  <2> QED
    BY <2>1, <2>2, AppendProperties
<1>6. TypeInv'
  <2>1. worker' \in [pc : {"absent", "idle", "send", "create", "raised", "done", "stopped"},
                     job : Job \cup {NoJob}, result : Results \cup {"none"}]
    BY <1>2, <1>3
  <2> QED
    BY <1>1, <1>4, <1>5, <2>1 DEF TypeInv
<1>7. BoardInv'
  BY <1>1 DEF BoardInv, link
<1>8. /\ Own' = Own /\ Jobs' = Jobs /\ Waiting' = Waiting /\ OnBoard' = OnBoard
      /\ Showing({"sent"})' = Showing({"sent"})
      /\ Showing({"failed", "offline"})' = Showing({"failed", "offline"})
  BY DEF Own, Jobs, Waiting, OnBoard, Showing
<1>9. \A m \in Nat : n <= m => m \in Past'
  BY <1>1, <1>2, <1>4, PastGrows
<1>10. FlowInv'
  <2>1. \A q \in Jobs : queue[q].id - 1 \in Nat /\ n <= queue[q].id - 1
    BY <1>1, <1>2, QueueFacts, JobFacts DEF FlowInv
  <2>2. \A q \in Jobs : queue[q].id - 1 \in Past'
    BY <1>9, <2>1
  <2>3. \A i \in 1..Len(taken) : taken[i] < n
    BY <1>1, <1>2, QueueFacts DEF Past, Ids
  <2>4. \A i \in 1..Len(taken') : taken'[i] \in Own
    BY <1>1, <1>2, <1>5 DEF FlowInv
  <2>5. \A i, j \in 1..Len(taken') : i < j => taken'[i] < taken'[j]
    BY <1>1, <1>5, <2>3 DEF FlowInv
  <2>6. n \in Past' /\ raised \in Past'
    BY <1>2, <1>4, <1>9
  <2> QED
    BY <1>1, <1>2, <1>3, <1>8, <2>1, <2>2, <2>4, <2>5, <2>6 DEF FlowInv, Carrying
<1>11. SendingInv'
  BY <1>1, <1>2, <1>3, <1>8 DEF SendingInv
<1>12. StopInv'
  BY <1>1, <1>3 DEF StopInv
<1>13. CountInv'
  <2> SUFFICES ASSUME resets = 0 PROVE CountInv'
    BY DEF CountInv
  <2>1. \A k : (\E i \in 1..Len(taken) : taken[i] = k) =>
                 \E i \in 1..Len(taken') : taken'[i] = k
    BY <1>5
  <2>2. result = "sent" => \E i \in 1..Len(taken') : taken'[i] = n
    <3>1. taken \in Seq(Ids) /\ Len(taken) \in Nat /\ n \in Ids
      BY <1>1, <1>2, QueueFacts DEF TypeInv
    <3>2. result = "sent" => taken' = Append(taken, n)
      OBVIOUS
    <3> HIDE DEF n
    <3>3. result = "sent" => Len(taken') = Len(taken) + 1 /\ taken'[Len(taken) + 1] = n
      BY <3>1, <3>2, AppendProperties
    <3>4. Len(taken) + 1 \in 1..(Len(taken) + 1)
      BY <3>1
    <3> QED
      BY <3>3, <3>4
  <2>3. /\ Landing({"sent"}) = 0 /\ Landing({"failed", "offline"}) = 0
    BY DEF Landing
  <2>4. /\ Landing({"sent"})' = IF result = "sent" THEN 1 ELSE 0
        /\ Landing({"failed", "offline"})' = IF result \in {"failed", "offline"} THEN 1 ELSE 0
    BY <1>3 DEF Landing
  <2>5. /\ sent = Cardinality(Showing({"sent"})) + 0
        /\ failed = Cardinality(Showing({"failed", "offline"})) + 0
    BY <1>1, <2>3 DEF CountInv
  <2>6. /\ sent' = Cardinality(Showing({"sent"})') + Landing({"sent"})'
        /\ failed' = Cardinality(Showing({"failed", "offline"})') + Landing({"failed", "offline"})'
    <3> DEFINE x == Cardinality(Showing({"sent"}))
               y == Cardinality(Showing({"failed", "offline"}))
    <3>1. x = sent /\ y = failed
      <4>1. IsFiniteSet(OnBoard) /\ Showing({"sent"}) \in SUBSET OnBoard
            /\ Showing({"failed", "offline"}) \in SUBSET OnBoard
        BY <1>1 DEF CountInv, Showing
      <4>2. x \in Nat /\ y \in Nat
        BY <4>1, FS_Subset, FS_CardinalityType
      <4> HIDE DEF x, y
      <4>3. sent = x + 0 /\ failed = y + 0
        BY <2>5 DEF x, y
      <4> QED
        BY <4>2, <4>3
    <3> HIDE DEF x, y
    <3>2. /\ Cardinality(Showing({"sent"})') = x
          /\ Cardinality(Showing({"failed", "offline"})') = y
      BY <1>8 DEF x, y
    <3> QED
      BY <2>4, <3>1, <3>2
  <2> QED
    BY <1>1, <1>2, <1>3, <1>8, <2>1, <2>2, <2>6 DEF CountInv
<1> QED
  BY <1>6, <1>7, <1>10, <1>11, <1>12, <1>13 DEF Inv

\* The worker goes on with the alert it has in hand: into create, or past the
\* badge.
LEMMA OnwardKeeps ==
  ASSUME Inv, NEW pc \in {"create", "done"}, NEW result \in Results \cup {"none"},
         \/ pc = "create" /\ worker.pc = "send" /\ mode = "real" /\ result = "none"
         \/ pc = "done" /\ worker.pc = "raised" /\ result = worker.result,
         worker' = Worker(pc, worker.job, result),
         status' \in {"mock", "offline", "connecting", "connected"},
         UNCHANGED <<mode, connector, robot, alerts, raised, resets, queue, sent, failed,
                     taken, stopAt>>
  PROVE  Inv'
<1>1. /\ TypeInv /\ BoardInv /\ FlowInv /\ SendingInv /\ StopInv /\ CountInv
  BY DEF Inv
<1>2. Carrying /\ worker.job \in Job
  BY <1>1 DEF FlowInv, Carrying
<1>3. /\ worker' = [pc |-> pc, job |-> worker.job, result |-> result]
      /\ worker'.pc = pc /\ worker'.job = worker.job /\ worker'.result = result /\ Carrying'
  BY DEF Worker, Carrying
<1>4. TypeInv'
  <2>1. worker' \in [pc : {"absent", "idle", "send", "create", "raised", "done", "stopped"},
                     job : Job \cup {NoJob}, result : Results \cup {"none"}]
    BY <1>2, <1>3
  <2> QED
    BY <1>1, <2>1 DEF TypeInv
<1>5. BoardInv'
  BY <1>1 DEF BoardInv
<1>6. /\ Own' = Own /\ Past' = Past /\ Jobs' = Jobs /\ Waiting' = Waiting
      /\ OnBoard' = OnBoard /\ Showing({"sent"})' = Showing({"sent"})
      /\ Showing({"failed", "offline"})' = Showing({"failed", "offline"})
  BY DEF Own, Past, Jobs, Waiting, OnBoard, Showing
<1>7. FlowInv'
  BY <1>1, <1>2, <1>3, <1>6 DEF FlowInv
<1>8. SendingInv'
  BY <1>1, <1>2, <1>3, <1>6 DEF SendingInv
<1>9. StopInv'
  BY <1>1, <1>3 DEF StopInv
<1>10. CountInv'
  <2>1. /\ Landing({"sent"})' = Landing({"sent"})
        /\ Landing({"failed", "offline"})' = Landing({"failed", "offline"})
    BY <1>3 DEF Landing
  <2>2. pc = "done" => worker.pc = "raised" /\ worker'.result = worker.result
    BY <1>3
  <2> QED
    BY <1>1, <1>2, <1>3, <1>6, <2>1, <2>2 DEF CountInv
<1> QED
  BY <1>4, <1>5, <1>7, <1>8, <1>9, <1>10 DEF Inv

LEMMA SendKeeps == ASSUME Inv, Send PROVE Inv'
<1>1. /\ worker.pc = "send" /\ sent \in Nat /\ failed \in Nat
      /\ UNCHANGED <<alerts, raised, resets, queue, link, sent, taken, stopAt>>
      /\ UNCHANGED <<mode, connector, robot, status>>
      /\ status \in {"mock", "offline", "connecting", "connected"}
  BY DEF Send, Inv, TypeInv, link
<1>2. "offline" \in Results /\ "dry_run" \in Results
  BY DEF Results
<1>3. CASE failed' = failed + 1 /\ worker' = Worker("done", worker.job, "offline")
  BY <1>1, <1>2, <1>3, DealtKeeps
<1>4. CASE worker' = Worker("done", worker.job, "dry_run") /\ UNCHANGED failed
  BY <1>1, <1>2, <1>4, DealtKeeps
<1>5. CASE mode = "real" /\ worker' = Worker("create", worker.job, "none") /\ UNCHANGED failed
  BY <1>1, <1>5, OnwardKeeps
<1> QED
  BY <1>3, <1>4, <1>5 DEF Send

LEMMA CreateKeeps == ASSUME Inv, Created \/ CreateRaises PROVE Inv'
<1>1. /\ worker.pc = "create" /\ sent \in Nat /\ failed \in Nat /\ mode = "real"
      /\ UNCHANGED <<alerts, raised, resets, queue, link, stopAt>>
  BY DEF Created, CreateRaises, Inv, TypeInv, FlowInv
<1>2. "sent" \in Results /\ "failed" \in Results
  BY DEF Results
<1>3. CASE /\ taken' = Append(taken, worker.job.id) /\ sent' = sent + 1 /\ failed' = failed
           /\ worker' = Worker("done", worker.job, "sent")
  BY <1>1, <1>2, <1>3, DealtKeeps
<1>4. CASE /\ taken' = taken /\ sent' = sent /\ failed' = failed + 1
           /\ worker' = Worker("done", worker.job, "failed")
  BY <1>1, <1>2, <1>4, DealtKeeps
<1>5. CASE /\ taken' = taken \/ taken' = Append(taken, worker.job.id)
           /\ sent' = sent /\ failed' = failed + 1
           /\ worker' = Worker("raised", worker.job, "failed")
  BY <1>1, <1>2, <1>5, DealtKeeps
<1> QED
  BY <1>3, <1>4, <1>5 DEF Created, CreateRaises

LEMMA MarkOfflineKeeps == ASSUME Inv, MarkOffline PROVE Inv'
<1>1. /\ worker.pc = "raised" /\ worker' = Worker("done", worker.job, worker.result)
      /\ status' = "offline"
      /\ UNCHANGED <<mode, connector, robot, alerts, raised, resets, queue, sent, failed,
                     taken, stopAt>>
  BY DEF MarkOffline
<1>2. worker.result \in Results \cup {"none"}
  BY <1>1 DEF Inv, FlowInv
<1> QED
  BY <1>1, <1>2, OnwardKeeps

LEMMA DoneKeeps == ASSUME Inv, Done PROVE Inv'
<1> DEFINE job == worker.job
           result == worker.result
           k == job.index
<1>1. /\ worker.pc = "done" /\ worker' = [pc |-> "idle", job |-> NoJob, result |-> "none"]
      /\ alerts' = IF k <= Len(alerts) THEN [alerts EXCEPT ![k].card = result] ELSE alerts
      /\ UNCHANGED <<raised, resets, queue, mode, connector, robot, status, sent, failed,
                     taken, stopAt>>
  BY DEF Done, link, Idle, Worker
<1>2. /\ TypeInv /\ BoardInv /\ FlowInv /\ SendingInv /\ StopInv /\ CountInv
      /\ Len(alerts) \in Nat /\ alerts \in Seq(AlertOnBoard)
      /\ \A i \in 1..Len(alerts) : alerts[i] \in AlertOnBoard
  BY QueueFacts DEF Inv, TypeInv
<1>3. /\ job \in Job /\ result \in Results /\ Carrying
      /\ k \in Nat \ {0} /\ job.id \in Nat
  BY <1>1, <1>2, JobFacts DEF FlowInv, Carrying
<1>4. result \in Cards /\ result # "sending"
  BY <1>3 DEF Cards, Results
<1> HIDE DEF job, result, k
<1>5. /\ alerts' \in Seq(AlertOnBoard) /\ Len(alerts') = Len(alerts)
      /\ \A i \in 1..Len(alerts) :
           /\ alerts'[i].id = alerts[i].id /\ alerts'[i].origin = alerts[i].origin
           /\ alerts'[i] = IF i = k THEN [alerts[i] EXCEPT !.card = result] ELSE alerts[i]
           /\ i = k => alerts'[i].card = result
  <2>1. CASE k <= Len(alerts)
    <3> DEFINE a == [alerts[k] EXCEPT !.card = result]
    <3>1. k \in 1..Len(alerts) /\ alerts[k] \in AlertOnBoard
      BY <1>2, <1>3, <2>1
    <3>2. /\ a \in AlertOnBoard /\ a.id = alerts[k].id /\ a.origin = alerts[k].origin
          /\ a.card = result
      BY <1>4, <3>1 DEF AlertOnBoard
    <3>3. alerts' = [alerts EXCEPT ![k] = a]
      BY <1>1, <2>1
    <3> HIDE DEF a
    <3>4. /\ alerts' \in Seq(AlertOnBoard) /\ Len(alerts') = Len(alerts)
          /\ \A i \in 1..Len(alerts) : alerts'[i] = IF i = k THEN a ELSE alerts[i]
      BY <1>2, <3>1, <3>2, <3>3, ExceptSeq
    <3>5. \A i \in 1..Len(alerts) :
            /\ alerts'[i].id = alerts[i].id /\ alerts'[i].origin = alerts[i].origin
            /\ i = k => alerts'[i].card = result
      BY <3>2, <3>4
    <3>6. \A i \in 1..Len(alerts) :
            alerts'[i] = IF i = k THEN [alerts[i] EXCEPT !.card = result] ELSE alerts[i]
      BY <3>4 DEF a
    <3> QED
      BY <3>4, <3>5, <3>6
  <2>2. CASE ~(k <= Len(alerts))
    BY <1>1, <1>2, <2>2
  <2> QED
    BY <2>1, <2>2
<1>6. TypeInv'
  <2>1. worker' \in [pc : {"absent", "idle", "send", "create", "raised", "done", "stopped"},
                     job : Job \cup {NoJob}, result : Results \cup {"none"}]
    BY <1>1
  <2> QED
    BY <1>1, <1>2, <1>5, <2>1 DEF TypeInv
<1>7. BoardInv'
  BY <1>1, <1>2, <1>5 DEF BoardInv
<1>8. Own' = Own /\ Past' = Past /\ Jobs' = Jobs /\ ~Carrying'
  BY <1>1, <1>2, <1>5 DEF Own, Past, Jobs, Carrying
<1>9. FlowInv'
  BY <1>1, <1>2, <1>8 DEF FlowInv
<1>10. SendingInv'
  <2> SUFFICES ASSUME NEW i \in 1..Len(alerts), alerts'[i].card = "sending"
               PROVE  \E q \in Jobs : queue[q] = [id |-> alerts[i].id, index |-> i]
    BY <1>1, <1>5, <1>8 DEF SendingInv
  <2>1. i # k /\ alerts'[i] = alerts[i]
    BY <1>4, <1>5
  <2>2. \/ \E q \in Jobs : queue[q] = [id |-> alerts[i].id, index |-> i]
        \/ Carrying /\ job = [id |-> alerts[i].id, index |-> i]
    BY <1>2, <2>1 DEF SendingInv, job
  <2>3. job.index # i
    BY <2>1 DEF k
  <2> QED
    BY <2>2, <2>3
<1>11. StopInv'
  BY <1>1, <1>2 DEF StopInv
<1>12. ASSUME resets = 0 PROVE CountInv'
  <2> DEFINE a == alerts[k]
             b == [alerts[k] EXCEPT !.card = result]
  <2>1. /\ job \in Waiting /\ k = job.id /\ k \in 1..Len(alerts) /\ a.card = "sending"
    BY <1>2, <1>3, <1>12 DEF CountInv, Waiting, job, k
  <2>2. /\ a \in AlertOnBoard /\ a.id = k /\ a \in OnBoard
        /\ \A c \in OnBoard : c.id = k => c = a
        /\ DOMAIN alerts = 1..Len(alerts) /\ DOMAIN alerts' = 1..Len(alerts)
    <3>1. DOMAIN alerts = 1..Len(alerts) /\ DOMAIN alerts' = 1..Len(alerts)
      BY <1>2, <1>5, LenProperties
    <3>2. \A i \in 1..Len(alerts) : alerts[i].id = i
      BY <1>2, <1>12 DEF BoardInv
    <3> QED
      BY <1>2, <2>1, <3>1, <3>2 DEF OnBoard
  <2>3. b.id = k /\ b.card = result /\ alerts'[k] = b
    BY <1>5, <2>1, <2>2 DEF AlertOnBoard
  <2> HIDE DEF a, b
  <2>4. OnBoard' = (OnBoard \ {a}) \cup {b}
    <3>1. \A i \in 1..Len(alerts) : i # k => alerts'[i] = alerts[i]
      BY <1>5
    <3>2. \A i \in 1..Len(alerts) : alerts[i] = a => i = k
      BY <1>2, <1>12, <2>2 DEF BoardInv
    <3>3. \A c : c \in OnBoard' => c \in (OnBoard \ {a}) \cup {b}
      BY <2>2, <2>3, <3>1, <3>2 DEF OnBoard
    <3>4. \A c : c \in (OnBoard \ {a}) \cup {b} => c \in OnBoard'
      BY <2>1, <2>2, <2>3, <3>1 DEF OnBoard, a
    <3> QED
      BY <3>3, <3>4
  <2>5. IsFiniteSet(OnBoard) /\ IsFiniteSet(OnBoard')
    <3>1. IsFiniteSet(OnBoard)
      BY <1>2, <1>12 DEF CountInv
    <3>2. IsFiniteSet(OnBoard \ {a})
      BY <3>1, FS_RemoveElement
    <3>3. IsFiniteSet((OnBoard \ {a}) \cup {b})
      BY <3>2, FS_AddElement
    <3> QED
      BY <2>4, <3>1, <3>3
  <2>6. ASSUME NEW R \in {{"sent"}, {"failed", "offline"}}
        PROVE  Cardinality(Showing(R)') =
                 Cardinality(Showing(R)) + (IF result \in R THEN 1 ELSE 0)
    <3>1. "sending" \notin R
      OBVIOUS
    <3>2. Showing(R)' = IF result \in R THEN Showing(R) \cup {b} ELSE Showing(R)
      BY <2>1, <2>2, <2>3, <2>4, <3>1 DEF Showing, a
    <3>3. b \notin Showing(R)
      BY <2>1, <2>2, <2>3, <3>1 DEF Showing, a
    <3>4. IsFiniteSet(Showing(R)) /\ Cardinality(Showing(R)) \in Nat
      <4>1. Showing(R) \in SUBSET OnBoard
        BY DEF Showing
      <4> QED
        BY <2>5, <4>1, FS_Subset, FS_CardinalityType
    <3>5. Cardinality(Showing(R) \cup {b}) = Cardinality(Showing(R)) + 1
      BY <3>3, <3>4, FS_AddElement
    <3> QED
      BY <3>2, <3>4, <3>5
  <2>7. /\ Landing({"sent"}) = (IF result \in {"sent"} THEN 1 ELSE 0)
        /\ Landing({"failed", "offline"}) = (IF result \in {"failed", "offline"} THEN 1 ELSE 0)
        /\ Landing({"sent"})' = 0 /\ Landing({"failed", "offline"})' = 0
    BY <1>1 DEF Landing, result
  <2>8. /\ sent' = Cardinality(Showing({"sent"})') + Landing({"sent"})'
        /\ failed' = Cardinality(Showing({"failed", "offline"})') + Landing({"failed", "offline"})'
    BY <1>1, <1>2, <1>12, <2>6, <2>7 DEF CountInv, TypeInv
  <2>9. \A q \in Jobs : queue[q] \in Waiting'
    <3> TAKE q \in Jobs
    <3>1. queue[q] \in Waiting /\ queue[q].id # job.id
      BY <1>2, <1>3, <1>12, QueueFacts, JobFacts DEF CountInv, FlowInv, job
    <3>2. queue[q].index # k /\ queue[q].index \in 1..Len(alerts)
      BY <2>1, <3>1 DEF Waiting
    <3> QED
      BY <1>5, <3>1, <3>2 DEF Waiting
  <2>10. \A c \in OnBoard' : c.card = "sent" => \E i \in 1..Len(taken) : taken[i] = c.id
    <3>1. \A c \in OnBoard : c.card = "sent" => \E i \in 1..Len(taken) : taken[i] = c.id
      BY <1>2, <1>12 DEF CountInv
    <3>2. b.card = "sent" => \E i \in 1..Len(taken) : taken[i] = b.id
      BY <1>1, <1>2, <1>12, <2>1, <2>3 DEF CountInv, job, result
    <3> QED
      BY <2>4, <3>1, <3>2
  <2> QED
    BY <1>1, <1>8, <2>5, <2>8, <2>9, <2>10 DEF CountInv
<1>13. CountInv'
  BY <1>1, <1>12 DEF CountInv
<1> QED
  BY <1>6, <1>7, <1>9, <1>10, <1>11, <1>13 DEF Inv
---------------------------------------------------------------------------
LEMMA StepInv == Inv /\ [Next]_vars => Inv'
<1> SUFFICES ASSUME Inv, [Next]_vars PROVE Inv'
  OBVIOUS
<1>1. CASE Exit \/ UNCHANGED vars
  <2>1. /\ UNCHANGED <<mode, alerts, raised, resets, queue, worker, sent, failed, taken, stopAt>>
        /\ UNCHANGED <<connector, robot, status>>
    BY <1>1 DEF Exit, vars, link
  <2> QED
    BY <2>1, BadgeKeeps DEF Inv, TypeInv
<1> QED
  BY <1>1, RaiseKeeps, ResetKeeps, StopKeeps, ConnectKeeps, TakeKeeps, SendKeeps, CreateKeeps,
     MarkOfflineKeeps, DoneKeeps DEF Next, Alive, Pump

LEMMA Invariant == Spec => []Inv
BY InitInv, StepInv, PTL DEF Spec

\* The counters never exceed the alerts there were.
THEOREM TypeCorrect == Spec => []TypeOK
<1>1. Inv /\ ended \in BOOLEAN => TypeOK
  <2> SUFFICES ASSUME Inv, ended \in BOOLEAN PROVE TypeOK
    OBVIOUS
  <2>1. sent + failed <= raised
    BY DEF Inv, FlowInv, Past
  <2>2. sent \in 0..MaxAlerts /\ failed \in 0..MaxAlerts
    BY <2>1, LinkAssumption DEF Inv, TypeInv
  <2> QED
    BY <2>2 DEF Inv, TypeInv, TypeOK, AlertOnBoard
<1>2. Spec => [](ended \in BOOLEAN)
  <2>1. Init => ended \in BOOLEAN
    BY DEF Init
  <2>2. ended \in BOOLEAN /\ [Next]_vars => (ended \in BOOLEAN)'
    BY DEF Next, Alive, Exit, vars
  <2> QED
    BY <2>1, <2>2, PTL DEF Spec
<1> QED
  BY <1>1, <1>2, Invariant, PTL

\* No alert is created twice, none of a run's own, none by a link that is not
\* real: whatever fails on the way and whatever runs begin meanwhile.
THEOREM CreationsCorrect == Spec => []CreatedOnce
<1>1. Inv => CreatedOnce
  <2> SUFFICES ASSUME Inv PROVE CreatedOnce
    OBVIOUS
  <2>1. /\ taken \in Seq(Ids) /\ DOMAIN taken = 1..Len(taken) /\ Len(taken) \in Nat
        /\ alerts \in Seq(AlertOnBoard) /\ DOMAIN alerts = 1..Len(alerts)
        /\ \A i \in 1..Len(taken) : taken[i] \in Nat
    BY QueueFacts, LenProperties DEF Inv, TypeInv, Ids
  <2>2. \A i, j \in 1..Len(taken) : taken[i] = taken[j] => i = j
    <3> TAKE i, j \in 1..Len(taken)
    <3>1. i < j \/ j < i \/ i = j
      BY <2>1
    <3> QED
      BY <2>1, <3>1 DEF Inv, FlowInv
  <2>3. \A i \in 1..Len(taken) : \A a \in OnBoard : a.id = taken[i] => a.origin = "dashboard"
    BY <2>1 DEF Inv, FlowInv, Own, OnBoard
  <2> QED
    BY <2>1, <2>2, <2>3 DEF CreatedOnce, Inv, FlowInv
<1> QED
  BY <1>1, Invariant, PTL

\* Until a run is begun the header counts what the cards say, and a card says
\* sent of what was created.
THEOREM CardsCorrect == Spec => []CardsAreTrue
<1>1. Inv => CardsAreTrue
  <2> SUFFICES ASSUME Inv, resets = 0 PROVE CardsAreTrue
    BY DEF CardsAreTrue
  <2>1. DOMAIN taken = 1..Len(taken)
    BY LenProperties DEF Inv, TypeInv
  <2> QED
    BY <2>1 DEF Inv, CountInv, CardsAreTrue, Showing, Landing
<1> QED
  BY <1>1, Invariant, PTL

\* Whenever the process ends: what it takes with it comes after all the
\* platform was given, but for the alert the worker had in hand; and nothing
\* raised before stop is left by a worker that read the None.
THEOREM StopCorrect == Spec => []StopLosesTheTail
<1>1. Inv => StopLosesTheTail
  <2> SUFFICES ASSUME Inv, NEW a \in OnBoard, a.card = "sending"
               PROVE  /\ \A t \in DOMAIN taken :
                           \/ taken[t] < a.id
                           \/ /\ taken[t] = a.id /\ worker.job.id = a.id
                              /\ worker.pc \in {"raised", "done"}
                      /\ worker.pc = "stopped" => a.id > stopAt
    BY DEF StopLosesTheTail
  <2>1. PICK i \in 1..Len(alerts) : alerts[i] = a
    BY LenProperties DEF Inv, TypeInv, OnBoard
  <2>2. /\ DOMAIN taken = 1..Len(taken) /\ a.id \in Nat
        /\ \A t \in 1..Len(taken) : taken[t] \in Nat
    BY <2>1, QueueFacts, LenProperties, LinkAssumption DEF Inv, TypeInv, AlertOnBoard, Ids
  <2> DEFINE job == [id |-> a.id, index |-> i]
  <2>3. \/ \E q \in Jobs : queue[q] = job
        \/ Carrying /\ worker.job = job
    BY <2>1 DEF Inv, SendingInv
  <2>4. CASE \E q \in Jobs : queue[q] = job
    <3>1. PICK q \in Jobs : queue[q] = job
      BY <2>4
    <3>2. q \in 1..Len(queue) /\ queue[q].id = a.id
      BY <3>1 DEF Jobs
    <3>3. a.id - 1 \in Past
      BY <3>1, <3>2 DEF Inv, FlowInv
    <3>4. \A t \in DOMAIN taken : taken[t] < a.id
      BY <2>2, <3>3 DEF Past
    <3> QED
      BY <3>2, <3>4 DEF Inv, StopInv
  <2>5. CASE Carrying /\ worker.job = job
    <3>1. worker.job.id = a.id /\ worker.pc # "stopped"
      BY <2>5 DEF Carrying
    <3>2. CASE worker.pc \in {"send", "create"}
      <4>1. a.id - 1 \in Past
        BY <3>1, <3>2 DEF Inv, FlowInv
      <4> QED
        BY <2>2, <3>1, <4>1 DEF Past
    <3>3. CASE worker.pc \in {"raised", "done"}
      <4>1. a.id \in Past
        BY <3>1, <3>3 DEF Inv, FlowInv
      <4> QED
        BY <2>2, <3>1, <3>3, <4>1 DEF Past
    <3> QED
      BY <2>5, <3>2, <3>3 DEF Carrying
  <2> QED
    BY <2>3, <2>4, <2>5
<1> QED
  BY <1>1, Invariant, PTL
---------------------------------------------------------------------------
(* The page. *)

Names == {"", "unset", "backdrop", "idle"}
Token == [name : Names, n : Nat]
Document == [run : Nat, seq : Nat, list : Nat, alerts : SUBSET Nat,
             picture : Int, token : Token]
Fetch == [pc : {"none", "asked", "synthesize", "sent"}, picture : Int]
Answer == [sent : BOOLEAN, doc : Document]

PageTypeInv ==
  /\ beat \in [at : Nat \ {0}, rendered : BOOLEAN]
  /\ board \in [run : Nat, seq : Nat, list : Nat]
  /\ lists \in Seq(SUBSET Nat)
  /\ store \in [picture : Int, token : Token]
  /\ polls \in SUBSET Answer
  /\ fetch \in Fetch
  /\ page \in [doc : Document, token : Token, picture : Int]
  /\ late \in BOOLEAN /\ lost \in SUBSET Nat

\* Every run has a list of its own, the last run the last one, and a list
\* holds alerts of its run only.
ListsInv ==
  /\ board.run = Len(lists) /\ board.list = Len(lists) /\ Len(lists) >= 1
  /\ \A l \in 1..Len(lists) : lists[l] \subseteq {l}

\* An answer tells of one run: with that run's list in hand, or, once it is
\* sent, with alerts of that run.
DocsInv ==
  /\ \A p \in polls : ~p.sent => p.doc.list = p.doc.run /\ p.doc.list \in 1..Len(lists)
  /\ \A p \in polls : p.sent => p.doc.alerts \subseteq {p.doc.run}
  /\ AlertsOfTheRun

\* The picture is not older than any of the first seq events whose picture
\* could be made.
Shows(seq, picture) ==
  \A b \in 1..seq : Script[b].frame /\ b \notin lost => picture >= b

\* Unless the idle table has replaced it, the picture there is is that of the
\* beat or of the last one that has one.
PicturesInv ==
  /\ beat.at = board.seq + 1
  /\ \A p \in polls : p.doc.seq <= board.seq
  /\ ~late => /\ Shows(board.seq, store.picture)
              /\ beat.rendered /\ beat.at \notin lost => store.picture >= beat.at
              /\ \A p \in polls : p.sent => Shows(p.doc.seq, p.doc.picture)

PageInv == PageTypeInv /\ ListsInv /\ DocsInv /\ PicturesInv
---------------------------------------------------------------------------
LEMMA NoDocIsDocument ==
  /\ NoDoc \in Document /\ NoDoc.alerts = {} /\ NoDoc.run = 0
  /\ Named("unset") \in Token /\ Named("backdrop") \in Token /\ Named("idle") \in Token
  /\ Numbered(0) \in Token
<1>1. \A name \in Names, n \in Nat : [name |-> name, n |-> n] \in Token
  BY DEF Token
<1>2. \A name \in Names : Named(name) \in Token
  BY <1>1 DEF Named
<1>3. Numbered(0) \in Token
  BY <1>1 DEF Numbered, Names
<1>4. Named("unset") \in Token /\ Named("backdrop") \in Token /\ Named("idle") \in Token
  BY <1>2 DEF Names
<1>5. NoDoc \in Document
  BY <1>4 DEF NoDoc, Document, Nothing
<1>6. NoDoc.alerts = {} /\ NoDoc.run = 0
  BY DEF NoDoc
<1> QED
  BY <1>3, <1>4, <1>5, <1>6

LEMMA NumberedIsToken == \A n \in Nat : Numbered(n + 1) \in Token
BY DEF Numbered, Token, Names

LEMMA BackdropsAreStores ==
  /\ \A s \in Backdrops : s \in [picture : Int, token : Token]
BY NoDocIsDocument DEF Backdrops, Nothing, IdleTable

\* A process begins with an empty board, whatever picture it finds.
LEMMA BootFacts ==
  /\ Boot.beat = [at |-> 1, rendered |-> FALSE]
  /\ Boot.board = [run |-> 1, seq |-> 0, list |-> 1]
  /\ Boot.lists \in Seq(SUBSET Nat) /\ Len(Boot.lists) = 1 /\ Boot.lists[1] = {}
  /\ NoFetch \in Fetch
  /\ Boot.beat \in [at : Nat \ {0}, rendered : BOOLEAN]
  /\ Boot.board \in [run : Nat, seq : Nat, list : Nat]
<1>1. Boot.lists = <<{}>>
  BY DEF Boot
<1>2. {} \in SUBSET Nat
  OBVIOUS
<1>3. /\ Boot.beat = [at |-> 1, rendered |-> FALSE]
      /\ Boot.board = [run |-> 1, seq |-> 0, list |-> 1]
  BY DEF Boot
<1>4. /\ Boot.beat \in [at : Nat \ {0}, rendered : BOOLEAN]
      /\ Boot.board \in [run : Nat, seq : Nat, list : Nat]
  BY <1>3
<1>5. NoFetch \in Fetch
  BY DEF NoFetch, Nothing, Fetch
<1> QED
  BY <1>1, <1>2, <1>3, <1>4, <1>5

LEMMA PageInitInv == PageInit => PageInv
<1> SUFFICES ASSUME PageInit PROVE PageInv
  OBVIOUS
<1>1. /\ beat = Boot.beat /\ board = Boot.board /\ lists = Boot.lists
      /\ store \in [picture : Int, token : Token] /\ polls = {} /\ late = FALSE
      /\ lost = {} /\ fetch = NoFetch /\ page.doc = NoDoc
      /\ page \in [doc : Document, token : Token, picture : Int]
  BY NoDocIsDocument, BackdropsAreStores DEF PageInit, NoDoc, Nothing
<1>2. PageTypeInv
  BY <1>1, BootFacts DEF PageTypeInv
<1>3. ListsInv
  BY <1>1, BootFacts DEF ListsInv
<1>4. DocsInv
  BY <1>1, NoDocIsDocument DEF DocsInv, AlertsOfTheRun
<1>5. PicturesInv
  BY <1>1, BootFacts DEF PicturesInv, Shows
<1> QED
  BY <1>2, <1>3, <1>4, <1>5 DEF PageInv

\* The answer that is painted is one under way.
LEMMA PaintedDoc ==
  ASSUME NEW doc \in Document
  PROVE  /\ Painted(doc) \in Document
         /\ Painted(doc).run = doc.run /\ Painted(doc).alerts = doc.alerts
BY NoDocIsDocument DEF Painted, Document

LEMMA PageStepInv == PageInv /\ [PageNext]_pageVars => PageInv'
<1> SUFFICES ASSUME PageInv, [PageNext]_pageVars PROVE PageInv'
  OBVIOUS
<1> USE DEF PageInv
<1>1. CASE Render
  <2>1. /\ Playing /\ Current.frame
        /\ store' = [picture |-> beat.at, token |-> NextToken(store.token)]
        /\ beat' = [beat EXCEPT !.rendered = TRUE]
        /\ UNCHANGED <<board, lists, polls, fetch, page, late, lost>>
    BY <1>1 DEF Render, served
  <2>2. NextToken(store.token) \in Token
    <3>1. store.token.n \in Nat
      BY DEF PageTypeInv, Token
    <3> QED
      BY <3>1, NumberedIsToken DEF NextToken
  <2>3. beat'.at = beat.at /\ store'.picture = beat.at /\ beat.at \in Nat /\ board.seq \in Nat
    BY <2>1 DEF PageTypeInv
  <2>4. PageTypeInv'
    <3>1. beat' \in [at : Nat \ {0}, rendered : BOOLEAN]
      BY <2>1 DEF PageTypeInv
    <3> DEFINE token == NextToken(store.token)
    <3>2. store' = [picture |-> beat.at, token |-> token] /\ token \in Token
      BY <2>1, <2>2
    <3> HIDE DEF token
    <3>3. store' \in [picture : Int, token : Token]
      BY <2>3, <3>2
    <3> QED
      BY <2>1, <3>1, <3>3 DEF PageTypeInv
  <2>5. ListsInv' /\ DocsInv'
    BY <2>1 DEF ListsInv, DocsInv, AlertsOfTheRun
  <2>6. Shows(board.seq, store'.picture)
    BY <2>3 DEF PicturesInv, Shows
  <2>7. PicturesInv'
    BY <2>1, <2>3, <2>6 DEF PicturesInv, Shows
  <2> QED
    BY <2>4, <2>5, <2>7
<1>11. CASE RenderFails
  <2>1. /\ lost' = lost \cup {beat.at} /\ beat' = [beat EXCEPT !.rendered = TRUE]
        /\ UNCHANGED <<board, lists, store, polls, fetch, page, late>>
    BY <1>11 DEF RenderFails, served
  <2>2. beat'.at = beat.at /\ beat' \in [at : Nat \ {0}, rendered : BOOLEAN]
    BY <2>1 DEF PageTypeInv
  <2>3. PageTypeInv' /\ ListsInv' /\ DocsInv'
    BY <2>1, <2>2 DEF PageTypeInv, ListsInv, DocsInv, AlertsOfTheRun
  <2>4. PicturesInv'
    BY <2>1, <2>2 DEF PicturesInv, Shows
  <2> QED
    BY <2>3, <2>4
<1>2. CASE Apply
  <2>1. /\ Ready /\ beat' = [at |-> beat.at + 1, rendered |-> FALSE]
        /\ UNCHANGED <<store, polls, fetch, page, late, lost>>
    BY <1>2 DEF Apply, served
  <2>2. /\ lists \in Seq(SUBSET Nat) /\ board.run \in Nat /\ board.seq \in Nat
        /\ board.run = Len(lists) /\ board.list = Len(lists) /\ Len(lists) >= 1
        /\ Len(lists) \in Nat
    BY LenProperties DEF PageTypeInv, ListsInv
  <2>3. /\ lists' \in Seq(SUBSET Nat) /\ Len(lists') >= Len(lists)
        /\ board' \in [run : Nat, seq : Nat, list : Nat]
        /\ board'.seq = board.seq + 1 /\ ListsInv'
    <3>1. CASE Current.kind = "reset"
      <4>1. lists' = Append(lists, {}) /\ {} \in SUBSET Nat
        BY <1>2, <3>1 DEF Apply, FreshList
      <4>2. /\ lists' \in Seq(SUBSET Nat) /\ Len(lists') = Len(lists) + 1
            /\ \A l \in 1..Len(lists) : lists'[l] = lists[l]
            /\ lists'[Len(lists) + 1] = {}
        BY <2>2, <4>1, AppendProperties
      <4>3. board' = [run |-> board.run + 1, seq |-> board.seq + 1, list |-> Len(lists')]
        BY <1>2, <3>1 DEF Apply
      <4>4. \A l \in 1..Len(lists') : lists'[l] \subseteq {l}
        BY <2>2, <4>2 DEF ListsInv
      <4> QED
        BY <2>2, <4>2, <4>3, <4>4 DEF ListsInv
    <3>2. CASE Current.kind = "alert"
      <4>1. lists' = [lists EXCEPT ![board.list] = @ \cup {board.run}]
        BY <1>2, <3>2 DEF Apply
      <4>2. /\ lists' \in Seq(SUBSET Nat) /\ Len(lists') = Len(lists)
            /\ \A l \in 1..Len(lists) :
                 lists'[l] = IF l = Len(lists) THEN lists[l] \cup {Len(lists)} ELSE lists[l]
        <5>1. board.list = Len(lists) /\ Len(lists) \in 1..Len(lists)
          BY <2>2
        <5>2. lists[Len(lists)] \cup {Len(lists)} \in SUBSET Nat
          BY <2>2, <5>1
        <5> DEFINE runs == lists[Len(lists)] \cup {Len(lists)}
        <5>3. lists' = [lists EXCEPT ![Len(lists)] = runs]
          BY <2>2, <4>1
        <5> HIDE DEF runs
        <5>4. /\ lists' \in Seq(SUBSET Nat) /\ Len(lists') = Len(lists)
              /\ \A l \in 1..Len(lists) :
                   lists'[l] = IF l = Len(lists) THEN runs ELSE lists[l]
          BY <2>2, <5>1, <5>2, <5>3, ExceptSeq DEF runs
        <5> QED
          BY <5>4 DEF runs
      <4>3. board' = [board EXCEPT !.seq = @ + 1]
        BY <1>2, <3>2 DEF Apply
      <4>4. \A l \in 1..Len(lists') : lists'[l] \subseteq {l}
        BY <2>2, <4>2 DEF ListsInv
      <4>5. /\ board' \in [run : Nat, seq : Nat, list : Nat] /\ board'.seq = board.seq + 1
            /\ board'.run = board.run /\ board'.list = board.list
        <5>1. board \in [run : Nat, seq : Nat, list : Nat]
          BY <2>2 DEF PageTypeInv
        <5> QED
          BY <5>1, <4>3
      <4> QED
        BY <2>2, <4>2, <4>4, <4>5 DEF ListsInv
    <3>3. CASE Current.kind \notin {"reset", "alert"}
      <4>1. lists' = lists /\ board' = [board EXCEPT !.seq = @ + 1]
        BY <1>2, <3>3 DEF Apply
      <4>2. board \in [run : Nat, seq : Nat, list : Nat]
        BY DEF PageTypeInv
      <4>3. /\ board' \in [run : Nat, seq : Nat, list : Nat] /\ board'.seq = board.seq + 1
            /\ board'.run = board.run /\ board'.list = board.list
        BY <4>1, <4>2
      <4>4. ListsInv'
        BY <4>1, <4>3 DEF ListsInv
      <4> QED
        BY <2>2, <4>1, <4>3, <4>4
    <3> QED
      BY <3>1, <3>2, <3>3
  <2>4. PageTypeInv'
    BY <2>1, <2>3 DEF PageTypeInv
  <2>5. DocsInv'
    BY <2>1, <2>2, <2>3 DEF DocsInv, AlertsOfTheRun, PageTypeInv
  <2>6. ~late => Shows(board.seq + 1, store.picture)
    BY <2>1, <2>2 DEF PicturesInv, Shows, Ready, Current, PageTypeInv
  <2>7. PicturesInv'
    <3>1. \A p \in polls : p.doc.seq <= board.seq + 1
      BY <2>2 DEF PicturesInv, PageTypeInv, Answer, Document
    <3> QED
      BY <2>1, <2>2, <2>3, <2>6, <3>1 DEF PicturesInv, Shows, PageTypeInv
  <2> QED
    BY <2>3, <2>4, <2>5, <2>7
<1>3. CASE Tick
  <2> DEFINE d == [NoDoc EXCEPT !.run = board.run, !.seq = board.seq, !.list = board.list]
             q == [sent |-> FALSE, doc |-> d]
  <2>1. polls' = polls \cup {q} /\ UNCHANGED <<beat, board, lists, store, fetch, page, late, lost>>
    BY <1>3 DEF Tick
  <2>2. d \in Document /\ d.run = board.run /\ d.seq = board.seq /\ d.list = board.list
    BY NoDocIsDocument DEF PageTypeInv, Document
  <2> HIDE DEF d
  <2>3. q \in Answer /\ q.sent = FALSE /\ q.doc = d
    BY <2>2 DEF Answer
  <2> HIDE DEF q
  <2>4. PageTypeInv' /\ ListsInv'
    BY <2>1, <2>3 DEF PageTypeInv, ListsInv
  <2>5. DocsInv'
    BY <2>1, <2>2, <2>3 DEF DocsInv, AlertsOfTheRun, ListsInv, PageTypeInv
  <2>6. PicturesInv'
    BY <2>1, <2>2, <2>3 DEF PicturesInv, Shows, PageTypeInv
  <2> QED
    BY <2>4, <2>5, <2>6
<1>4. ASSUME NEW p \in polls, Dump(p) PROVE PageInv'
  <2> DEFINE d == [p.doc EXCEPT !.alerts = lists[p.doc.list], !.list = 1,
                                !.token = store.token, !.picture = store.picture]
             q == [sent |-> TRUE, doc |-> d]
  <2>1. /\ ~p.sent /\ polls' = (polls \ {p}) \cup {q}
        /\ UNCHANGED <<beat, board, lists, store, fetch, page, late, lost>>
    BY <1>4 DEF Dump
  <2>2. /\ p \in Answer /\ p.doc \in Document
        /\ p.doc.list = p.doc.run /\ p.doc.list \in 1..Len(lists)
        /\ lists \in Seq(SUBSET Nat) /\ store \in [picture : Int, token : Token]
    BY <2>1 DEF PageTypeInv, DocsInv, Answer
  <2>3. lists[p.doc.list] \in SUBSET Nat /\ lists[p.doc.list] \subseteq {p.doc.run}
    BY <2>2 DEF ListsInv
  <2>4. /\ d \in Document /\ d.run = p.doc.run /\ d.seq = p.doc.seq
        /\ d.alerts = lists[p.doc.list] /\ d.picture = store.picture
    BY <2>2, <2>3 DEF Document
  <2> HIDE DEF d
  <2>5. q \in Answer /\ q.sent = TRUE /\ q.doc = d
    BY <2>4 DEF Answer
  <2> HIDE DEF q
  <2>6. PageTypeInv' /\ ListsInv'
    BY <2>1, <2>5 DEF PageTypeInv, ListsInv
  <2>7. DocsInv'
    BY <2>1, <2>3, <2>4, <2>5 DEF DocsInv, AlertsOfTheRun
  <2>8. p.doc.seq <= board.seq /\ p.doc.seq \in Nat /\ board.seq \in Nat
    BY <2>2 DEF PicturesInv, PageTypeInv, Document
  <2>9. ~late => Shows(d.seq, d.picture)
    BY <2>4, <2>8 DEF PicturesInv, Shows
  <2>10. PicturesInv'
    BY <2>1, <2>4, <2>5, <2>8, <2>9 DEF PicturesInv, Shows
  <2> QED
    BY <2>6, <2>7, <2>10
<1>5. ASSUME NEW p \in polls, Paint(p) PROVE PageInv'
  <2>1. /\ p.sent /\ polls' = polls \ {p}
        /\ \/ page' = [page EXCEPT !.doc = Painted(p.doc), !.token = p.doc.token]
           \/ page' = [page EXCEPT !.doc = Painted(p.doc)]
        /\ fetch' \in Fetch
        /\ UNCHANGED <<beat, board, lists, store, late, lost>>
    BY <1>5 DEF Paint, PageTypeInv, NoFetch, Nothing, Fetch
  <2>2. p \in Answer /\ p.doc \in Document /\ p.doc.token \in Token
    BY DEF PageTypeInv, Answer, Document
  <2>3. /\ Painted(p.doc) \in Document /\ Painted(p.doc).run = p.doc.run
        /\ Painted(p.doc).alerts = p.doc.alerts
    BY <2>2, PaintedDoc
  <2>4. /\ page' \in [doc : Document, token : Token, picture : Int]
        /\ page'.doc = Painted(p.doc)
    BY <2>1, <2>2, <2>3 DEF PageTypeInv
  <2>5. PageTypeInv' /\ ListsInv'
    BY <2>1, <2>4 DEF PageTypeInv, ListsInv
  <2>6. DocsInv'
    BY <2>1, <2>3, <2>4 DEF DocsInv, AlertsOfTheRun
  <2>7. PicturesInv'
    BY <2>1 DEF PicturesInv, Shows
  <2> QED
    BY <2>5, <2>6, <2>7
<1>6. CASE Check \/ Get \/ SynthesizeFails
  <2>1. /\ fetch' \in Fetch
        /\ UNCHANGED <<beat, board, lists, store, polls, page, late, lost>>
    BY <1>6, BootFacts DEF Check, Get, SynthesizeFails, PageTypeInv, Fetch
  <2> QED
    BY <2>1 DEF PageTypeInv, ListsInv, DocsInv, PicturesInv, AlertsOfTheRun, Shows
<1>7. CASE Synthesize
  <2>1. /\ store' = [picture |-> 0, token |-> Named("idle")]
        /\ late' = (late \/ store.picture > 0)
        /\ fetch' \in Fetch
        /\ UNCHANGED <<beat, board, lists, polls, page, lost>>
    BY <1>7 DEF Synthesize, SetIdle, IdleTable, PageTypeInv, Fetch
  <2>2. PageTypeInv' /\ ListsInv'
    BY <2>1, NoDocIsDocument DEF PageTypeInv, ListsInv
  <2>3. DocsInv'
    BY <2>1 DEF DocsInv, AlertsOfTheRun
  <2>4. ASSUME ~late' PROVE Shows(board.seq, 0) /\ (beat.rendered => beat.at \in lost)
    <3>1. ~late /\ ~(store.picture > 0)
      BY <2>1, <2>4
    <3> QED
      BY <3>1 DEF PicturesInv, Shows, PageTypeInv
  <2>5. PicturesInv'
    BY <2>1, <2>4 DEF PicturesInv, Shows
  <2> QED
    BY <2>2, <2>3, <2>5
<1>8. CASE Load
  <2>1. /\ page' = [page EXCEPT !.picture = fetch.picture]
        /\ fetch' = NoFetch /\ UNCHANGED <<beat, board, lists, store, polls, late, lost>>
    BY <1>8 DEF Load
  <2>2. PageTypeInv'
    <3>1. fetch.picture \in Int
      BY DEF PageTypeInv, Fetch
    <3>2. page' \in [doc : Document, token : Token, picture : Int]
      BY <2>1, <3>1 DEF PageTypeInv
    <3> QED
      BY <2>1, <3>2, BootFacts DEF PageTypeInv
  <2>3. page'.doc = page.doc
    BY <2>1 DEF PageTypeInv
  <2> QED
    BY <2>1, <2>2, <2>3 DEF ListsInv, DocsInv, PicturesInv, AlertsOfTheRun, Shows
<1>9. CASE Restart
  <2>1. /\ beat' = Boot.beat /\ board' = Boot.board /\ lists' = Boot.lists
        /\ store' \in Backdrops /\ polls' = {} /\ late' = FALSE /\ lost' = {} /\ page' = page
        /\ fetch' = NoFetch
    BY <1>9 DEF Restart
  <2>2. PageTypeInv'
    BY <2>1, BootFacts, BackdropsAreStores DEF PageTypeInv
  <2>3. ListsInv'
    BY <2>1, BootFacts DEF ListsInv
  <2>4. DocsInv'
    BY <2>1 DEF DocsInv, AlertsOfTheRun
  <2>5. PicturesInv'
    BY <2>1, BootFacts DEF PicturesInv, Shows
  <2> QED
    BY <2>2, <2>3, <2>4, <2>5
<1>10. CASE UNCHANGED pageVars
  <2>1. UNCHANGED <<beat, board, lists, store, polls, fetch, page, late, lost>>
    BY <1>10 DEF pageVars, served
  <2> QED
    BY <2>1 DEF PageTypeInv, ListsInv, DocsInv, PicturesInv, AlertsOfTheRun, Shows
<1> QED
  BY <1>1, <1>2, <1>3, <1>4, <1>5, <1>6, <1>7, <1>8, <1>9, <1>10, <1>11
  DEF PageNext, Producer, DumpAny, PaintAny, Serve
---------------------------------------------------------------------------
\* The page never lists an alert of one run under another, although the list
\* is read outside the lock.
THEOREM AlertsCorrect == PageSpec => []AlertsOfTheRun
<1>1. PageInv => AlertsOfTheRun
  BY DEF PageInv, DocsInv
<1> QED
  BY <1>1, PageInitInv, PageStepInv, PTL DEF PageSpec

\* No answer announces an event before its picture, unless that picture could
\* not be made at all.
THEOREM PicturesCorrect == PageSpec => []PictureFirst
<1>1. PageInv => PictureFirst
  BY DEF PageInv, PicturesInv, PictureFirst, Shows
<1> QED
  BY <1>1, PageInitInv, PageStepInv, PTL DEF PageSpec
============================================================================
