----------------------------- MODULE BoardProofs -----------------------------
(* What the dashboard's page tells of a run, proved for every run.  The        *)
(* console's canned runs (MockDriver) put their beats on the board from the    *)
(* driver's own thread; a real run (RunFeed) prints lines, which emit.py       *)
(* translates into events in a file, which the dashboard applies.  Both come   *)
(* down to what a sequence of events makes of a board, which the first three   *)
(* sections settle: what applying a sequence is, what each kind of event       *)
(* changes, and where each canned run ends.  The console's invariant says how  *)
(* far a run has come and what the board shows there; the feed's, that what is *)
(* still in the pipe and in the file leads, past boards that are right, to     *)
(* where the call is.                                                          *)
EXTENDS RunFeed, MockDriver, FulfillOrderProofs, WellFoundedInduction

---------------------------------------------------------------------------
(* Events applied one after the other. *)

\* A set of numbers has a least one.
LEMMA LeastNumber ==
  ASSUME NEW T, T \subseteq Nat, T # {}
  PROVE  \E n \in T : \A m \in T : n <= m
<1>1. PICK n \in T : \A m \in T : ~(<<m, n>> \in OpToRel(<, Nat))
  BY NatLessThanWellFounded, WFMin
<1>2. \A m \in T : ~(m < n)
  BY <1>1 DEF OpToRel
<1> QED
  BY <1>2

\* f is the boards that the first n events lead to from b.
Leads(f, b, events, n) ==
  f = [k \in 0..n |-> IF k = 0 THEN b ELSE Apply(f[k - 1], events[k])]

LEMMA LeadsExists ==
  ASSUME NEW b, NEW events, NEW n \in Nat
  PROVE  \E f : Leads(f, b, events, n)
<1> DEFINE T == {k \in Nat : ~\E f : Leads(f, b, events, k)}
<1> SUFFICES ASSUME n \in T PROVE FALSE
  OBVIOUS
<1>1. PICK k \in T : \A m \in T : k <= m
  BY LeastNumber
<1>2. k # 0
  <2>1. Leads([j \in 0..0 |-> b], b, events, 0)
    BY DEF Leads
  <2> QED
    BY <1>1, <2>1
<1>3. PICK f : Leads(f, b, events, k - 1)
  <2>1. k - 1 \in Nat /\ ~(k <= k - 1)
    BY <1>1, <1>2
  <2> QED
    BY <1>1, <2>1
<1> DEFINE g == [j \in 0..k |-> IF j < k THEN f[j] ELSE Apply(f[k - 1], events[k])]
<1>4. f = [j \in 0..(k - 1) |-> IF j = 0 THEN b ELSE Apply(f[j - 1], events[j])]
  BY <1>3 DEF Leads
<1>5. ASSUME NEW j \in 0..k
      PROVE g[j] = IF j = 0 THEN b ELSE Apply(g[j - 1], events[j])
  <2>1. k \in Nat /\ k # 0 /\ j \in Int /\ 0 <= j /\ j <= k
    BY <1>1, <1>2
  <2>2. CASE j = k
    BY <2>1, <2>2
  <2>3. CASE j < k
    <3>1. j \in 0..(k - 1) /\ g[j] = f[j] /\ (j # 0 => g[j - 1] = f[j - 1])
      BY <2>1, <2>3
    <3>2. f[j] = IF j = 0 THEN b ELSE Apply(f[j - 1], events[j])
      BY <1>4, <3>1
    <3> QED
      BY <3>1, <3>2
  <2> QED
    BY <2>1, <2>2, <2>3
<1>6. Leads(g, b, events, k)
  BY <1>5 DEF Leads
<1> QED
  BY <1>1, <1>6

LEMMA PlayedLeads ==
  ASSUME NEW b, NEW events, Len(events) \in Nat
  PROVE  \E f : Leads(f, b, events, Len(events)) /\ Played(b, events) = f[Len(events)]
<1> DEFINE f == CHOOSE g : Leads(g, b, events, Len(events))
<1>1. Leads(f, b, events, Len(events))
  BY LeadsExists
<1>2. Played(b, events) = f[Len(events)]
  BY DEF Played, Leads
<1> QED
  BY <1>1, <1>2

LEMMA PlayedOne ==
  ASSUME NEW b, NEW d
  PROVE  Played(b, <<d>>) =
           Apply(b, d)
<1> DEFINE s == <<d>>
<1>1. Len(s) = 1
  OBVIOUS
<1>2. PICK f : Leads(f, b, s, 1) /\ Played(b, s) = f[1]
  BY <1>1, PlayedLeads
<1>3. /\ f[0] = b
      /\ f[1] = Apply(f[0], d)
  BY <1>2 DEF Leads
<1> QED
  BY <1>2, <1>3

LEMMA PlayedTwo ==
  ASSUME NEW b, NEW d, NEW e
  PROVE  Played(b, <<d, e>>) =
           Apply(Apply(b, d), e)
<1> DEFINE s == <<d, e>>
<1>1. Len(s) = 2
  OBVIOUS
<1>2. PICK f : Leads(f, b, s, 2) /\ Played(b, s) = f[2]
  BY <1>1, PlayedLeads
<1>3. /\ f[0] = b
      /\ f[1] = Apply(f[0], d)
      /\ f[2] = Apply(f[1], e)
  BY <1>2 DEF Leads
<1> QED
  BY <1>2, <1>3

LEMMA PlayedThree ==
  ASSUME NEW b, NEW d, NEW e, NEW g
  PROVE  Played(b, <<d, e, g>>) =
           Apply(Apply(Apply(b, d), e), g)
<1> DEFINE s == <<d, e, g>>
<1>1. Len(s) = 3
  OBVIOUS
<1>2. PICK f : Leads(f, b, s, 3) /\ Played(b, s) = f[3]
  BY <1>1, PlayedLeads
<1>3. /\ f[0] = b
      /\ f[1] = Apply(f[0], d)
      /\ f[2] = Apply(f[1], e)
      /\ f[3] = Apply(f[2], g)
  BY <1>2 DEF Leads
<1> QED
  BY <1>2, <1>3

LEMMA PlayedFour ==
  ASSUME NEW b, NEW d, NEW e, NEW g, NEW h
  PROVE  Played(b, <<d, e, g, h>>) =
           Apply(Apply(Apply(Apply(b, d), e), g), h)
<1> DEFINE s == <<d, e, g, h>>
<1>1. Len(s) = 4
  OBVIOUS
<1>2. PICK f : Leads(f, b, s, 4) /\ Played(b, s) = f[4]
  BY <1>1, PlayedLeads
<1>3. /\ f[0] = b
      /\ f[1] = Apply(f[0], d)
      /\ f[2] = Apply(f[1], e)
      /\ f[3] = Apply(f[2], g)
      /\ f[4] = Apply(f[3], h)
  BY <1>2 DEF Leads
<1> QED
  BY <1>2, <1>3

LEMMA PlayedFive ==
  ASSUME NEW b, NEW d, NEW e, NEW g, NEW h, NEW i
  PROVE  Played(b, <<d, e, g, h, i>>) =
           Apply(Apply(Apply(Apply(Apply(b, d), e), g), h), i)
<1> DEFINE s == <<d, e, g, h, i>>
<1>1. Len(s) = 5
  OBVIOUS
<1>2. PICK f : Leads(f, b, s, 5) /\ Played(b, s) = f[5]
  BY <1>1, PlayedLeads
<1>3. /\ f[0] = b
      /\ f[1] = Apply(f[0], d)
      /\ f[2] = Apply(f[1], e)
      /\ f[3] = Apply(f[2], g)
      /\ f[4] = Apply(f[3], h)
      /\ f[5] = Apply(f[4], i)
  BY <1>2 DEF Leads
<1> QED
  BY <1>2, <1>3

---------------------------------------------------------------------------
(* What an event does to the board. *)

\* s is before p in the pipeline.
Earlier(s, p) ==
  \E i, j \in DOMAIN Pipeline : i < j /\ s = Pipeline[i] /\ p = Pipeline[j]

LEMMA TheStages ==
  /\ StageNames = {"ORDER", "DETECT", "LOCATE", "PICK", "PLACE", "VERIFY", "ALERT"}
  /\ MotionStages \subseteq StageNames
<1>1. /\ DOMAIN Pipeline = 1..7
      /\ Pipeline[1] = "ORDER" /\ Pipeline[2] = "DETECT" /\ Pipeline[3] = "LOCATE"
      /\ Pipeline[4] = "PICK" /\ Pipeline[5] = "PLACE" /\ Pipeline[6] = "VERIFY"
      /\ Pipeline[7] = "ALERT"
  BY DEF Pipeline
<1>2. \A i \in 1..7 : i = 1 \/ i = 2 \/ i = 3 \/ i = 4 \/ i = 5 \/ i = 6 \/ i = 7
  OBVIOUS
<1> QED
  BY <1>1, <1>2 DEF StageNames, MotionStages

\* The stages of a board.
Strip == [StageNames -> [status : StageStates,
                         motion : [state : MotionStates \cup {"none"}, attempt : Nat]]]

LEMMA BoardFields ==
  ASSUME NEW Os, NEW b \in Board(Os)
  PROVE  /\ b.mode \in AllModes /\ b.stages \in Strip /\ b.order \in Os \cup {NoOrder}
         /\ b.detection \in BOOLEAN /\ b.qc \in Grades \cup {"none"}
         /\ b.routing \in [bin : Zones \cup {"none"}, diverted : BOOLEAN]
         /\ b.verification \in [ok : BOOLEAN, attempt : Nat]
         /\ b.alerts \in Seq([severity : {"info", "warning", "error"},
                              origin : {"dashboard", "run_order"}])
         /\ b.outcome \in Outcomes /\ b.attempt \in Nat /\ b.attempts \in Nat
         /\ \A s \in StageNames : b.stages[s].status \in StageStates
BY DEF Board, Strip

\* What closing does to the strip.
LEMMA Closed ==
  ASSUME NEW stages \in Strip, NEW p \in StageNames \cup {"end"}
  PROVE  /\ CloseActive(stages, p) \in Strip
         /\ \A s \in StageNames :
              /\ CloseActive(stages, p)[s].motion = stages[s].motion
              /\ CloseActive(stages, p)[s].status =
                   IF stages[s].status = "active" /\ (p = "end" \/ Earlier(s, p))
                   THEN "done" ELSE stages[s].status
<1>1. "done" \in StageStates
  BY DEF StageStates
<1>2. ASSUME NEW s \in StageNames
      PROVE /\ [stages[s] EXCEPT !.status = "done"] \in
                 [status : StageStates,
                  motion : [state : MotionStates \cup {"none"}, attempt : Nat]]
            /\ [stages[s] EXCEPT !.status = "done"].motion = stages[s].motion
            /\ [stages[s] EXCEPT !.status = "done"].status = "done"
  BY <1>1 DEF Strip
<1> DEFINE Closes(s) == stages[s].status = "active" /\ (p = "end" \/ Earlier(s, p))
<1>3. CloseActive(stages, p) =
        [s \in StageNames |-> IF Closes(s) THEN [stages[s] EXCEPT !.status = "done"]
                              ELSE stages[s]]
  BY Zenon DEF CloseActive, Earlier
<1> HIDE DEF Closes
<1>4. ASSUME NEW s \in StageNames
      PROVE stages[s] \in [status : StageStates,
                  motion : [state : MotionStates \cup {"none"}, attempt : Nat]]
  BY DEF Strip
<1>5. CloseActive(stages, p) \in Strip
  BY <1>2, <1>3, <1>4 DEF Strip
<1>6. ASSUME NEW s \in StageNames
      PROVE  /\ CloseActive(stages, p)[s].motion = stages[s].motion
             /\ CloseActive(stages, p)[s].status =
                  IF Closes(s) THEN "done" ELSE stages[s].status
  BY <1>2, <1>3
<1> QED
  BY <1>5, <1>6 DEF Closes
\* The handler of an event.
LEMMA Dispatched ==
  ASSUME NEW b, NEW e, ~Raises(e)
  PROVE  /\ e.kind = "reset" => Apply(b, e) = Reset(b, e.mode)
         /\ e.kind = "order" => Apply(b, e) = [b EXCEPT !.order = e.order]
         /\ e.kind = "stage" => Apply(b, e) = OnStage(b, e)
         /\ e.kind = "motion" => Apply(b, e) = OnMotion(b, e)
         /\ e.kind = "detection" => Apply(b, e) = [b EXCEPT !.detection = TRUE]
         /\ e.kind = "qc" => Apply(b, e) = [b EXCEPT !.qc = e.grade]
         /\ e.kind = "routing" =>
              Apply(b, e) = [b EXCEPT !.routing = [bin |-> e.bin, diverted |-> e.diverted]]
         /\ e.kind = "verification" => Apply(b, e) = OnVerification(b, e)
         /\ e.kind = "alert" => Apply(b, e) = OnAlert(b, e)
         /\ e.kind = "outcome" => Apply(b, e) = OnOutcome(b, e)
<1>1. ASSUME e.kind = "reset" PROVE Handled(b, e) = Reset(b, e.mode)
  BY <1>1 DEF Handled
<1>2. ASSUME e.kind = "order" PROVE Handled(b, e) = [b EXCEPT !.order = e.order]
  <2>1. e.kind \notin {"reset", "mode"}
    BY <1>2
  <2> QED
    BY <1>2, <2>1 DEF Handled
<1>3. ASSUME e.kind = "stage" PROVE Handled(b, e) = OnStage(b, e)
  <2>1. e.kind \notin {"reset", "mode", "order"}
    BY <1>3
  <2> QED
    BY <1>3, <2>1 DEF Handled
<1>4. ASSUME e.kind = "motion" PROVE Handled(b, e) = OnMotion(b, e)
  <2>1. e.kind \notin {"reset", "mode", "order", "stage"}
    BY <1>4
  <2> QED
    BY <1>4, <2>1 DEF Handled
<1>5. ASSUME e.kind = "detection" PROVE Handled(b, e) = [b EXCEPT !.detection = TRUE]
  <2>1. e.kind \notin {"reset", "mode", "order", "stage", "motion"}
    BY <1>5
  <2> QED
    BY <1>5, <2>1 DEF Handled
<1>6. ASSUME e.kind = "qc" PROVE Handled(b, e) = [b EXCEPT !.qc = e.grade]
  <2>1. e.kind \notin {"reset", "mode", "order", "stage", "motion", "detection"}
    BY <1>6
  <2> QED
    BY <1>6, <2>1 DEF Handled
<1>7. ASSUME e.kind = "routing"
     PROVE Handled(b, e) = [b EXCEPT !.routing = [bin |-> e.bin, diverted |-> e.diverted]]
  <2>1. e.kind \notin {"reset", "mode", "order", "stage", "motion", "detection", "qc"}
    BY <1>7
  <2> QED
    BY <1>7, <2>1 DEF Handled
<1>8. ASSUME e.kind = "verification" PROVE Handled(b, e) = OnVerification(b, e)
  <2>1. e.kind \notin {"reset", "mode", "order", "stage", "motion", "detection", "qc",
                       "routing"}
    BY <1>8
  <2> QED
    BY <1>8, <2>1 DEF Handled
<1>9. ASSUME e.kind = "alert" PROVE Handled(b, e) = OnAlert(b, e)
  <2>1. e.kind \notin {"reset", "mode", "order", "stage", "motion", "detection", "qc", "routing",
                       "verification"}
    BY <1>9
  <2> QED
    BY <1>9, <2>1 DEF Handled
<1>10. ASSUME e.kind = "outcome" PROVE Handled(b, e) = OnOutcome(b, e)
  <2>1. e.kind \notin {"reset", "mode", "order", "stage", "motion", "detection", "qc", "routing",
                       "verification", "alert"}
    BY <1>10
  <2> QED
    BY <1>10, <2>1 DEF Handled
<1>11. Apply(b, e) = Handled(b, e)
  BY DEF Apply
<1> QED
  BY <1>11, <1>1, <1>2, <1>3, <1>4, <1>5, <1>6, <1>7, <1>8, <1>9, <1>10

\* What only the events of their own kind change.
SameTale(b, r) ==
  /\ r.mode = b.mode /\ r.order = b.order /\ r.detection = b.detection
  /\ r.qc = b.qc /\ r.routing = b.routing /\ r.alerts = b.alerts
SameCount(b, r) == r.attempt = b.attempt /\ r.attempts = b.attempts
SameVerdict(b, r) == r.verification = b.verification /\ r.outcome = b.outcome

\* The board r after stage s of b came to be at status, in attempt n.
Staged(b, r, s, status, n) ==
  /\ SameTale(b, r) /\ SameVerdict(b, r)
  /\ r.attempt = (IF n = 0 THEN b.attempt ELSE n)
  /\ r.attempts = (IF n = 0 THEN b.attempts ELSE Larger(b.attempts, n))
  /\ \A x \in StageNames :
       /\ r.stages[x].motion =
            IF x = s /\ status = "active" THEN NoReport ELSE b.stages[x].motion
       /\ r.stages[x].status =
            IF x = s THEN status
            ELSE IF status = "active" /\ b.stages[x].status = "active" /\ Earlier(x, s)
                 THEN "done" ELSE b.stages[x].status

LEMMA StageApplied ==
  ASSUME NEW Os, NEW b \in Board(Os), NEW s \in StageNames,
         NEW status \in StageStates, NEW n \in Nat
  PROVE  /\ Apply(b, StageEvent(s, status, n)) \in Board(Os)
         /\ Staged(b, Apply(b, StageEvent(s, status, n)), s, status, n)
<1> DEFINE e == StageEvent(s, status, n)
           strip == IF status = "active" THEN CloseActive(b.stages, s) ELSE b.stages
           motion == IF status = "active" THEN NoReport ELSE strip[s].motion
           new == [strip EXCEPT ![s] = [status |-> status, motion |-> motion]]
           r == Apply(b, e)
<1>1. /\ b.stages \in Strip /\ b.attempt \in Nat /\ b.attempts \in Nat
  BY BoardFields
<1>2. /\ strip \in Strip
      /\ \A x \in StageNames :
           /\ strip[x].motion = b.stages[x].motion
           /\ x # s => strip[x].status =
                IF status = "active" /\ b.stages[x].status = "active" /\ Earlier(x, s)
                THEN "done" ELSE b.stages[x].status
  <2>1. s \in StageNames \cup {"end"} /\ s # "end"
    BY TheStages
  <2>2. CASE status = "active"
    BY <1>1, <2>1, <2>2, Closed
  <2>3. CASE status # "active"
    BY <1>1, <2>3
  <2> QED
    BY <2>2, <2>3
<1>3. motion \in [state : MotionStates \cup {"none"}, attempt : Nat]
  BY <1>2 DEF Strip, NoReport
<1>4. motion = IF status = "active" THEN NoReport ELSE b.stages[s].motion
  BY <1>2
<1> HIDE DEF strip, motion
<1>5. /\ new \in Strip
      /\ \A x \in StageNames :
           new[x] = IF x = s THEN [status |-> status, motion |-> motion] ELSE strip[x]
  BY <1>2, <1>3 DEF Strip
<1>6. e.kind = "stage" /\ e.stage = s /\ e.status = status /\ e.attempt = n
  BY DEF StageEvent
<1> HIDE DEF e
<1>7. r = OnStage(b, e)
  <2>1. ~Raises(e)
    BY <1>6 DEF Raises
  <2> QED
    BY <1>6, <2>1, Dispatched
<1>8. r = [b EXCEPT !.stages = new,
             !.attempt = AttemptOf(b, e),
             !.attempts = IF n = 0 THEN b.attempts ELSE Larger(b.attempts, n)]
  BY <1>6, <1>7 DEF OnStage, strip, motion
<1> HIDE DEF new
<1>9. /\ AttemptOf(b, e) = (IF n = 0 THEN b.attempt ELSE n)
      /\ AttemptOf(b, e) \in Nat /\ Larger(b.attempts, n) \in Nat
  BY <1>1, <1>6 DEF AttemptOf, Larger
<1>10. r \in Board(Os)
  BY <1>1, <1>5, <1>8, <1>9 DEF Board, Strip
<1>11. /\ r.stages = new /\ r.attempt = AttemptOf(b, e)
       /\ r.attempts = (IF n = 0 THEN b.attempts ELSE Larger(b.attempts, n))
       /\ SameTale(b, r) /\ SameVerdict(b, r)
  BY <1>8 DEF Board, SameTale, SameVerdict
<1>12. ASSUME NEW x \in StageNames
       PROVE /\ new[x].motion =
                  IF x = s /\ status = "active" THEN NoReport ELSE b.stages[x].motion
             /\ new[x].status =
                  IF x = s THEN status
                  ELSE IF status = "active" /\ b.stages[x].status = "active" /\ Earlier(x, s)
                       THEN "done" ELSE b.stages[x].status
  BY <1>2, <1>4, <1>5
<1> QED
  BY <1>9, <1>10, <1>11, <1>12 DEF Staged, e

\* The board r after the report of a move of stage s of b.
Reported(b, r, s, state, n) ==
  /\ SameTale(b, r) /\ SameVerdict(b, r) /\ SameCount(b, r)
  /\ \A x \in StageNames :
       /\ r.stages[x].status = b.stages[x].status
       /\ r.stages[x].motion = IF x = s
                               THEN [state |-> state,
                                     attempt |-> IF n = 0 THEN b.attempt ELSE n]
                               ELSE b.stages[x].motion

LEMMA MotionApplied ==
  ASSUME NEW Os, NEW b \in Board(Os), NEW s \in StageNames,
         NEW state \in MotionStates, NEW errors \in BOOLEAN, NEW n \in Nat,
         errors => state # "verified"
  PROVE  /\ Apply(b, MotionEvent(s, state, errors, n)) \in Board(Os)
         /\ Reported(b, Apply(b, MotionEvent(s, state, errors, n)), s, state, n)
<1> DEFINE e == MotionEvent(s, state, errors, n)
           motion == [state |-> state, attempt |-> AttemptOf(b, e)]
           new == [b.stages EXCEPT ![s].motion = motion]
           r == Apply(b, e)
<1>1. /\ b.stages \in Strip /\ b.attempt \in Nat /\ b.attempts \in Nat
  BY BoardFields
<1>2. /\ e.kind = "motion" /\ e.stage = s /\ e.state = state
      /\ e.errors = errors /\ e.attempt = n
  BY DEF MotionEvent
<1> HIDE DEF e
<1>3. AttemptOf(b, e) \in Nat /\ AttemptOf(b, e) = IF n = 0 THEN b.attempt ELSE n
  BY <1>1, <1>2 DEF AttemptOf
<1>4. motion \in [state : MotionStates \cup {"none"}, attempt : Nat]
  BY <1>3
<1>5. r = [b EXCEPT !.stages = new]
  <2>1. ~Raises(e)
    BY <1>2 DEF Raises
  <2>2. r = OnMotion(b, e)
    BY <1>2, <2>1, Dispatched
  <2> QED
    BY <1>2, <2>2 DEF OnMotion
<1> HIDE DEF motion
<1>6. /\ new \in Strip
      /\ \A x \in StageNames :
           /\ new[x].status = b.stages[x].status
           /\ new[x].motion = IF x = s THEN motion ELSE b.stages[x].motion
  BY <1>1, <1>4 DEF Strip
<1> HIDE DEF new
<1>7. /\ r \in Board(Os) /\ r.stages = new
      /\ SameTale(b, r) /\ SameVerdict(b, r) /\ SameCount(b, r)
  BY <1>5, <1>6 DEF Board, Strip, SameTale, SameVerdict, SameCount
<1> QED
  BY <1>3, <1>6, <1>7 DEF Reported, e, motion

\* A fresh board.
LEMMA ResetApplied ==
  ASSUME NEW Os, NEW b, NEW mode \in AllModes
  PROVE  /\ Apply(b, [kind |-> "reset", mode |-> mode]) = Fresh(mode)
         /\ Fresh(mode) \in Board(Os)
<1>1. Apply(b, [kind |-> "reset", mode |-> mode]) = Fresh(mode)
  <2>1. ~Raises([kind |-> "reset", mode |-> mode])
    BY DEF Raises
  <2> QED
    BY <2>1, Dispatched DEF Reset
<1>2. [s \in StageNames |-> [status |-> "idle", motion |-> NoReport]] \in Strip
  BY DEF Strip, StageStates, NoReport
<1>3. /\ NoRouting \in [bin : Zones \cup {"none"}, diverted : BOOLEAN]
      /\ NoVerdict \in [ok : BOOLEAN, attempt : Nat]
      /\ <<>> \in Seq([severity : {"info", "warning", "error"},
                       origin : {"dashboard", "run_order"}])
  BY DEF NoRouting, NoVerdict
<1>4. Fresh(mode) \in Board(Os)
  BY <1>2, <1>3 DEF Fresh, Board, Strip, Outcomes
<1> QED
  BY <1>1, <1>4

LEMMA OrderApplied ==
  ASSUME NEW Os, NEW b \in Board(Os), NEW o \in Os
  PROVE  /\ Apply(b, [kind |-> "order", order |-> o]) \in Board(Os)
         /\ Apply(b, [kind |-> "order", order |-> o]) = [b EXCEPT !.order = o]
<1>1. ~Raises([kind |-> "order", order |-> o])
  BY DEF Raises
<1>2. Apply(b, [kind |-> "order", order |-> o]) = [b EXCEPT !.order = o]
  BY <1>1, Dispatched
<1> QED
  BY <1>2 DEF Board

LEMMA DetectionApplied ==
  ASSUME NEW Os, NEW b \in Board(Os)
  PROVE  /\ Apply(b, [kind |-> "detection"]) \in Board(Os)
         /\ Apply(b, [kind |-> "detection"]) = [b EXCEPT !.detection = TRUE]
<1>1. ~Raises([kind |-> "detection"])
  BY DEF Raises
<1>2. Apply(b, [kind |-> "detection"]) = [b EXCEPT !.detection = TRUE]
  BY <1>1, Dispatched
<1> QED
  BY <1>2 DEF Board

LEMMA GradeApplied ==
  ASSUME NEW Os, NEW b \in Board(Os), NEW grade \in Grades
  PROVE  /\ Apply(b, [kind |-> "qc", grade |-> grade]) \in Board(Os)
         /\ Apply(b, [kind |-> "qc", grade |-> grade]) = [b EXCEPT !.qc = grade]
<1>1. ~Raises([kind |-> "qc", grade |-> grade])
  BY DEF Raises
<1>2. Apply(b, [kind |-> "qc", grade |-> grade]) = [b EXCEPT !.qc = grade]
  BY <1>1, Dispatched
<1> QED
  BY <1>2 DEF Board

LEMMA RoutingApplied ==
  ASSUME NEW Os, NEW b \in Board(Os), NEW bin \in Zones \cup {"none"},
         NEW diverted \in BOOLEAN
  PROVE  LET r == Apply(b, [kind |-> "routing", bin |-> bin, diverted |-> diverted])
         IN /\ r \in Board(Os)
            /\ r = [b EXCEPT !.routing = [bin |-> bin, diverted |-> diverted]]
<1> DEFINE e == [kind |-> "routing", bin |-> bin, diverted |-> diverted]
<1>1. ~Raises(e)
  BY DEF Raises
<1>2. Apply(b, e) = [b EXCEPT !.routing = [bin |-> bin, diverted |-> diverted]]
  BY <1>1, Dispatched
<1>3. [b EXCEPT !.routing = [bin |-> bin, diverted |-> diverted]] \in Board(Os)
  BY DEF Board
<1> QED
  BY <1>2, <1>3

LEMMA VerdictApplied ==
  ASSUME NEW Os, NEW b \in Board(Os), NEW ok \in BOOLEAN, NEW n \in Nat, n # 0
  PROVE  LET r == Apply(b, [kind |-> "verification", ok |-> ok, attempt |-> n])
         IN /\ r \in Board(Os)
            /\ r = [b EXCEPT !.verification = [ok |-> ok, attempt |-> n]]
<1> DEFINE e == [kind |-> "verification", ok |-> ok, attempt |-> n]
<1>1. ~Raises(e)
  BY DEF Raises
<1>2. Larger(AttemptOf(b, e), 1) = n
  BY DEF Larger, AttemptOf
<1>3. Apply(b, e) = [b EXCEPT !.verification = [ok |-> ok, attempt |-> n]]
  BY <1>1, <1>2, Dispatched DEF OnVerification
<1>4. [b EXCEPT !.verification = [ok |-> ok, attempt |-> n]] \in Board(Os)
  BY DEF Board
<1> QED
  BY <1>3, <1>4

LEMMA AlertApplied ==
  ASSUME NEW Os, NEW b \in Board(Os), NEW severity \in {"info", "warning", "error"},
         NEW origin \in {"dashboard", "run_order"}
  PROVE  LET r == Apply(b, [kind |-> "alert", origin |-> origin, severity |-> severity])
         IN /\ r \in Board(Os)
            /\ r = [b EXCEPT !.alerts = Append(b.alerts, [severity |-> severity,
                                                          origin |-> origin])]
<1> DEFINE e == [kind |-> "alert", origin |-> origin, severity |-> severity]
           a == [severity |-> severity, origin |-> origin]
<1>1. ~Raises(e)
  BY DEF Raises
<1>2. Apply(b, e) = [b EXCEPT !.alerts = Append(b.alerts, a)]
  BY <1>1, Dispatched DEF OnAlert
<1>3. Append(b.alerts, a) \in Seq([severity : {"info", "warning", "error"},
                                   origin : {"dashboard", "run_order"}])
  BY DEF Board
<1> QED
  BY <1>2, <1>3 DEF Board

\* The board r after the outcome of a run that took n attempts.
Ended(b, r, status, n) ==
  /\ SameTale(b, r) /\ r.verification = b.verification
  /\ r.outcome = status /\ r.attempt = b.attempt
  /\ r.attempts = (IF n = 0 THEN b.attempts ELSE n)
  /\ \A x \in StageNames :
       /\ r.stages[x].motion = b.stages[x].motion
       /\ r.stages[x].status = IF b.stages[x].status = "active" THEN "done"
                               ELSE b.stages[x].status

LEMMA OutcomeApplied ==
  ASSUME NEW Os, NEW b \in Board(Os), NEW status \in Outcomes, NEW n \in Nat,
         NEW e, e.kind = "outcome", e.status = status, e.attempts = n
  PROVE  Apply(b, e) \in Board(Os) /\ Ended(b, Apply(b, e), status, n)
<1> DEFINE strip == CloseActive(b.stages, "end")
<1>1. ~Raises(e)
  BY DEF Raises
<1>2. Apply(b, e) = [b EXCEPT !.outcome = status,
                              !.attempts = IF n = 0 THEN b.attempts ELSE n,
                              !.stages = strip]
  BY <1>1, Dispatched DEF OnOutcome
<1>3. /\ strip \in Strip
      /\ \A x \in StageNames :
           /\ strip[x].motion = b.stages[x].motion
           /\ strip[x].status = IF b.stages[x].status = "active" THEN "done"
                                ELSE b.stages[x].status
  BY BoardFields, Closed
<1> HIDE DEF strip
<1>4. Apply(b, e) \in Board(Os)
  BY <1>2, <1>3 DEF Board, Strip
<1>5. /\ Apply(b, e).stages = strip /\ Apply(b, e).outcome = status
      /\ Apply(b, e).attempts = (IF n = 0 THEN b.attempts ELSE n)
      /\ Apply(b, e).attempt = b.attempt
      /\ Apply(b, e).verification = b.verification
      /\ SameTale(b, Apply(b, e))
  BY <1>2 DEF Board, SameTale
<1> QED
  BY <1>3, <1>4, <1>5 DEF Ended

---------------------------------------------------------------------------
(* The canned runs. *)

\* Events that leave alone what a page tells of a run in the end.
Minor(e) ==
  \/ \E s \in StageNames, status \in StageStates, n \in Nat : e = StageEvent(s, status, n)
  \/ \E s \in StageNames, state \in MotionStates, errors \in BOOLEAN, n \in Nat :
       e = MotionEvent(s, state, errors, n) /\ (errors => state # "verified")
  \/ \E o \in MockOrders : e = [kind |-> "order", order |-> o]
  \/ e = [kind |-> "detection"]

\* The last placement is about to be reported anew.
Replaces(e) ==
  \/ e.kind = "motion" /\ e.stage = "PLACE"
  \/ e.kind = "stage" /\ e.stage = "PLACE" /\ e.status = "active"

MockBoard == Board(MockOrders)
PlaceMotion(b) == b.stages["PLACE"].motion

Keeps(b, r) ==
  /\ r \in MockBoard
  /\ r.mode = b.mode /\ r.qc = b.qc /\ r.routing = b.routing
  /\ r.alerts = b.alerts /\ r.verification = b.verification
  /\ r.outcome = b.outcome

LEMMA MinorApplied ==
  ASSUME NEW b \in MockBoard, NEW e, Minor(e)
  PROVE  /\ Keeps(b, Apply(b, e))
         /\ ~Replaces(e) => PlaceMotion(Apply(b, e)) = PlaceMotion(b)
<1> USE DEF MockBoard
<1>1. ASSUME NEW s \in StageNames, NEW status \in StageStates, NEW n \in Nat,
             e = StageEvent(s, status, n)
      PROVE /\ Keeps(b, Apply(b, e))
            /\ ~Replaces(e) => PlaceMotion(Apply(b, e)) = PlaceMotion(b)
  <2>1. Apply(b, e) \in Board(MockOrders) /\ Staged(b, Apply(b, e), s, status, n)
    BY <1>1, StageApplied
  <2>2. e.kind = "stage" /\ e.stage = s /\ e.status = status
    BY <1>1 DEF StageEvent
  <2> QED
    BY <2>1, <2>2, TheStages
       DEF Staged, SameTale, SameVerdict, Keeps, Replaces, PlaceMotion
<1>2. ASSUME NEW s \in StageNames, NEW state \in MotionStates, NEW n \in Nat,
             NEW errors \in BOOLEAN, errors => state # "verified",
             e = MotionEvent(s, state, errors, n)
      PROVE /\ Keeps(b, Apply(b, e))
            /\ ~Replaces(e) => PlaceMotion(Apply(b, e)) = PlaceMotion(b)
  <2>1. Apply(b, e) \in Board(MockOrders) /\ Reported(b, Apply(b, e), s, state, n)
    BY <1>2, MotionApplied
  <2>2. e.kind = "motion" /\ e.stage = s
    BY <1>2 DEF MotionEvent
  <2> QED
    BY <2>1, <2>2, TheStages
       DEF Reported, SameTale, SameVerdict, Keeps, Replaces, PlaceMotion
<1>3. ASSUME NEW o \in MockOrders, e = [kind |-> "order", order |-> o]
      PROVE Keeps(b, Apply(b, e)) /\ PlaceMotion(Apply(b, e)) = PlaceMotion(b)
  <2>1. Apply(b, e) \in Board(MockOrders) /\ Apply(b, e) = [b EXCEPT !.order = o]
    BY <1>3, OrderApplied
  <2> QED
    BY <2>1 DEF Keeps, PlaceMotion, Board
<1>4. ASSUME e = [kind |-> "detection"]
      PROVE Keeps(b, Apply(b, e)) /\ PlaceMotion(Apply(b, e)) = PlaceMotion(b)
  <2>1. Apply(b, e) \in Board(MockOrders) /\ Apply(b, e) = [b EXCEPT !.detection = TRUE]
    BY <1>4, DetectionApplied
  <2> QED
    BY <2>1 DEF Keeps, PlaceMotion, Board
<1> QED
  BY <1>1, <1>2, <1>3, <1>4 DEF Minor

\* However many of them there are.
LEMMA MinorPlayed ==
  ASSUME NEW b \in MockBoard, NEW events, Len(events) \in Nat,
         \A i \in 1..Len(events) : Minor(events[i])
  PROVE  /\ Keeps(b, Played(b, events))
         /\ (\A i \in 1..Len(events) : ~Replaces(events[i])) =>
              PlaceMotion(Played(b, events)) = PlaceMotion(b)
<1> DEFINE n == Len(events)
           safe == \A i \in 1..n : ~Replaces(events[i])
<1>1. PICK f : Leads(f, b, events, n) /\ Played(b, events) = f[n]
  BY PlayedLeads
<1> DEFINE Good(k) == Keeps(b, f[k]) /\ (safe => PlaceMotion(f[k]) = PlaceMotion(b))
           T == {k \in 0..n : ~Good(k)}
<1>2. \A k \in 0..n : f[k] = IF k = 0 THEN b ELSE Apply(f[k - 1], events[k])
  BY <1>1 DEF Leads
<1>3. Good(0)
  BY <1>2 DEF Keeps
<1>4. ASSUME NEW k \in 1..n, Good(k - 1) PROVE Good(k)
  <2>1. f[k] = Apply(f[k - 1], events[k])
    BY <1>2
  <2>2. f[k - 1] \in MockBoard /\ Keeps(b, f[k - 1])
    BY <1>4 DEF Keeps
  <2>3. /\ Keeps(f[k - 1], f[k])
        /\ ~Replaces(events[k]) => PlaceMotion(f[k]) = PlaceMotion(f[k - 1])
    BY <2>1, <2>2, MinorApplied
  <2>4. Keeps(b, f[k])
    BY <2>2, <2>3 DEF Keeps
  <2> QED
    BY <1>4, <2>3, <2>4
<1>5. T = {}
  <2> SUFFICES ASSUME T # {} PROVE FALSE
    OBVIOUS
  <2>1. T \subseteq Nat
    OBVIOUS
  <2>2. PICK k \in T : \A m \in T : k <= m
    BY <2>1, LeastNumber
  <2>3. k \in 1..n /\ k - 1 \in 0..n /\ k - 1 \notin T
    BY <1>3, <2>2
  <2>4. Good(k - 1) /\ ~Good(k)
    BY <2>2, <2>3
  <2> HIDE DEF Good
  <2> QED
    BY <1>4, <2>3, <2>4
<1>6. Good(n)
  BY <1>5
<1> QED
  BY <1>1, <1>6

\* The grading takes a beat more, a second attempt four.
Grading(m) == IF NeedsQC(m) THEN 1 ELSE 0
Count(e) == IF e = "ok" THEN 1 ELSE 2
Ends(m, e) == Grading(m) + IF e = "ok" THEN 10 ELSE 14

RoutingOf(m, sc) == Route(m, IF NamesBin(m) THEN sc.bin ELSE "none", sc.grade)
Routed(m, sc) == [kind |-> "routing", bin |-> RoutingOf(m, sc).bin,
                  diverted |-> RoutingOf(m, sc).diverted]

\* The beats by their place in the script.
ScriptBegins(m, sc, s) ==
  /\ s[1] = <<[kind |-> "reset", mode |-> m]>>
  /\ s[2] = <<StageEvent("ORDER", "active", 0), [kind |-> "order", order |-> sc.order]>>
  /\ s[3] = <<StageEvent("ORDER", "done", 0), StageEvent("DETECT", "active", 0)>>
  /\ s[4] = <<[kind |-> "detection"], StageEvent("DETECT", "done", 0),
              StageEvent("LOCATE", "active", 0)>>
  /\ s[5] = <<StageEvent("LOCATE", "done", 0), StageEvent("PICK", "active", 1),
              Commanded("PICK", 1)>>

ScriptPicks(m, e, sc, s) ==
  IF NeedsQC(m)
  THEN /\ s[6] = <<Confirmed(e, "PICK", 1), StageEvent("PICK", "done", 0),
                   StageEvent("DETECT", "active", 0)>>
       /\ s[7] = <<[kind |-> "qc", grade |-> sc.grade], Routed(m, sc),
                   StageEvent("DETECT", "done", 0), StageEvent("PLACE", "active", 0),
                   Commanded("PLACE", 1)>>
  ELSE s[6] = <<Confirmed(e, "PICK", 1), Routed(m, sc), StageEvent("PICK", "done", 0),
                StageEvent("PLACE", "active", 0), Commanded("PLACE", 1)>>

ScriptRetries(m, e, s) ==
  LET n == 6 + Grading(m)
  IN /\ s[n + 1] = <<Confirmed(e, "PLACE", 1), StageEvent("PLACE", "done", 0),
                     StageEvent("VERIFY", "active", 0)>>
     /\ s[n + 2] = VerifyBeat(e, 1)
     /\ s[n + 3] = <<StageEvent("PICK", "active", 2), Commanded("PICK", 2)>>
     /\ s[n + 4] = <<Confirmed(e, "PICK", 2), StageEvent("PICK", "done", 0),
                     StageEvent("PLACE", "active", 0), Commanded("PLACE", 2)>>

ScriptEnds(m, e, sc, s) ==
  LET n == Ends(m, e)
  IN /\ s[n - 3] = <<Confirmed(e, "PLACE", Count(e)), StageEvent("PLACE", "done", 0),
                     StageEvent("VERIFY", "active", 0)>>
     /\ s[n - 2] = VerifyBeat(e, Count(e))
     /\ s[n - 1] = <<StageEvent("ALERT", "active", 0)>>
     /\ s[n] = LastBeat(e, RoutingOf(m, sc))

LEMMA ScriptShape ==
  ASSUME NEW m, NEW e \in Endings, NEW sc
  PROVE  /\ Len(Script(m, e, sc)) = Ends(m, e)
         /\ ScriptBegins(m, sc, Script(m, e, sc))
         /\ ScriptPicks(m, e, sc, Script(m, e, sc))
         /\ e # "ok" => ScriptRetries(m, e, Script(m, e, sc))
         /\ ScriptEnds(m, e, sc, Script(m, e, sc))
<1> DEFINE s == Script(m, e, sc)
<1>1. CASE NeedsQC(m) /\ e = "ok"
  <2>1. /\ Ends(m, e) = 11 /\ Grading(m) = 1
        /\ Len(s) = 11
    BY <1>1 DEF Script, Ends, Grading
  <2>2. ScriptBegins(m, sc, s) /\ ScriptPicks(m, e, sc, s)
    BY <1>1 DEF Script, ScriptBegins, ScriptPicks, Routed, RoutingOf
  <2>3. e = "ok"
    BY <1>1
  <2>4. Count(e) = 1
    BY <1>1 DEF Count
  <2>5. /\ s[8] = <<Confirmed(e, "PLACE", 1), StageEvent("PLACE", "done", 0),
                    StageEvent("VERIFY", "active", 0)>>
        /\ s[9] = VerifyBeat(e, 1)
        /\ s[10] = <<StageEvent("ALERT", "active", 0)>>
    BY <1>1 DEF Script
  <2>6. s[11] = LastBeat(e, RoutingOf(m, sc))
    BY <1>1 DEF Script, RoutingOf
  <2>7. ScriptEnds(m, e, sc, s)
    BY <2>1, <2>4, <2>5, <2>6 DEF ScriptEnds
  <2> QED
    BY <2>1, <2>2, <2>3, <2>7
<1>2. CASE NeedsQC(m) /\ e # "ok"
  <2>1. /\ Ends(m, e) = 15 /\ Grading(m) = 1
        /\ Len(s) = 15
    BY <1>2 DEF Script, Ends, Grading
  <2>2. ScriptBegins(m, sc, s) /\ ScriptPicks(m, e, sc, s)
    BY <1>2 DEF Script, ScriptBegins, ScriptPicks, Routed, RoutingOf
  <2>3. ScriptRetries(m, e, s)
    BY <1>2, <2>1 DEF Script, ScriptRetries
  <2>4. Count(e) = 2
    BY <1>2 DEF Count
  <2>5. /\ s[12] = <<Confirmed(e, "PLACE", 2), StageEvent("PLACE", "done", 0),
                    StageEvent("VERIFY", "active", 0)>>
        /\ s[13] = VerifyBeat(e, 2)
        /\ s[14] = <<StageEvent("ALERT", "active", 0)>>
    BY <1>2 DEF Script
  <2>6. s[15] = LastBeat(e, RoutingOf(m, sc))
    BY <1>2 DEF Script, RoutingOf
  <2>7. ScriptEnds(m, e, sc, s)
    BY <2>1, <2>4, <2>5, <2>6 DEF ScriptEnds
  <2> QED
    BY <2>1, <2>2, <2>3, <2>7
<1>3. CASE ~NeedsQC(m) /\ e = "ok"
  <2>1. /\ Ends(m, e) = 10 /\ Grading(m) = 0
        /\ Len(s) = 10
    BY <1>3 DEF Script, Ends, Grading
  <2>2. ScriptBegins(m, sc, s) /\ ScriptPicks(m, e, sc, s)
    BY <1>3 DEF Script, ScriptBegins, ScriptPicks, Routed, RoutingOf
  <2>3. e = "ok"
    BY <1>3
  <2>4. Count(e) = 1
    BY <1>3 DEF Count
  <2>5. /\ s[7] = <<Confirmed(e, "PLACE", 1), StageEvent("PLACE", "done", 0),
                    StageEvent("VERIFY", "active", 0)>>
        /\ s[8] = VerifyBeat(e, 1)
        /\ s[9] = <<StageEvent("ALERT", "active", 0)>>
    BY <1>3 DEF Script
  <2>6. s[10] = LastBeat(e, RoutingOf(m, sc))
    BY <1>3 DEF Script, RoutingOf
  <2>7. ScriptEnds(m, e, sc, s)
    BY <2>1, <2>4, <2>5, <2>6 DEF ScriptEnds
  <2> QED
    BY <2>1, <2>2, <2>3, <2>7
<1>4. CASE ~NeedsQC(m) /\ e # "ok"
  <2>1. /\ Ends(m, e) = 14 /\ Grading(m) = 0
        /\ Len(s) = 14
    BY <1>4 DEF Script, Ends, Grading
  <2>2. ScriptBegins(m, sc, s) /\ ScriptPicks(m, e, sc, s)
    BY <1>4 DEF Script, ScriptBegins, ScriptPicks, Routed, RoutingOf
  <2>3. ScriptRetries(m, e, s)
    BY <1>4, <2>1 DEF Script, ScriptRetries
  <2>4. Count(e) = 2
    BY <1>4 DEF Count
  <2>5. /\ s[11] = <<Confirmed(e, "PLACE", 2), StageEvent("PLACE", "done", 0),
                    StageEvent("VERIFY", "active", 0)>>
        /\ s[12] = VerifyBeat(e, 2)
        /\ s[13] = <<StageEvent("ALERT", "active", 0)>>
    BY <1>4 DEF Script
  <2>6. s[14] = LastBeat(e, RoutingOf(m, sc))
    BY <1>4 DEF Script, RoutingOf
  <2>7. ScriptEnds(m, e, sc, s)
    BY <2>1, <2>4, <2>5, <2>6 DEF ScriptEnds
  <2> QED
    BY <2>1, <2>2, <2>3, <2>7
<1> QED
  BY <1>1, <1>2, <1>3, <1>4

Scene(m, i) == Scenarios[m][i + 1]

\* What the runs have in common.
GoodScene(m, sc) ==
  /\ sc.order \in MockOrders /\ sc.grade \in Grades
  /\ NamesBin(m) => sc.bin \in Zones

LEMMA Scenes ==
  ASSUME NEW m \in AllModes, NEW i \in 0..2
  PROVE  GoodScene(m, Scene(m, i))
<1>1. i + 1 \in 1..3 /\ (i = 0 \/ i = 1 \/ i = 2)
  OBVIOUS
<1>2. Scene(m, i).order \in MockOrders
  BY <1>1 DEF MockOrders, Scene
<1>3. m = "order" \/ m = "qc" \/ m = "fusion"
  BY DEF AllModes
<1>4. CASE m = "order"
  <2>1. Scenarios[m] = <<Scenario("SO-1042", "A", "pass"), Scenario("SO-1043", "B", "pass"),
               Scenario("SO-1044", "C", "pass")>>
    BY <1>4 DEF Scenarios
  <2>2. Scene(m, i).grade = "pass" /\ Scene(m, i).bin \in Zones
    BY <1>1, <2>1 DEF Scene, Scenario, Zones
  <2> QED
    BY <1>2, <2>2 DEF GoodScene, Grades
<1>5. CASE m = "qc"
  <2>1. Scenarios[m] = <<Scenario("QC-2201", "none", "pass"), Scenario("QC-2202", "none", "review"),
            Scenario("QC-2203", "none", "reject")>>
    BY <1>5 DEF Scenarios
  <2>2. Scene(m, i).grade \in Grades
    BY <1>1, <2>1 DEF Scene, Scenario, Grades
  <2> QED
    BY <1>2, <1>5, <2>2 DEF GoodScene, NamesBin
<1>6. CASE m = "fusion"
  <2>1. Scenarios[m] = <<Scenario("SO-1051", "A", "pass"), Scenario("SO-1052", "A", "reject"),
                Scenario("SO-1053", "B", "review")>>
    BY <1>6 DEF Scenarios
  <2>2. Scene(m, i).grade \in Grades /\ Scene(m, i).bin \in Zones
    BY <1>1, <2>1 DEF Scene, Scenario, Grades, Zones
  <2> QED
    BY <1>2, <2>2 DEF GoodScene
<1> QED
  BY <1>3, <1>4, <1>5, <1>6

RoutingRecord(m, sc) == [bin |-> RoutingOf(m, sc).bin, diverted |-> RoutingOf(m, sc).diverted]

\* A graded item that did not pass goes where its grade says, and a diversion
\* has its alert.
LEMMA Routes ==
  ASSUME NEW m \in AllModes, NEW sc, GoodScene(m, sc)
  PROVE  /\ RoutingOf(m, sc).bin \in Zones \cup {"none"}
         /\ RoutingOf(m, sc).diverted \in BOOLEAN
         /\ NeedsQC(m) /\ sc.grade \in {"review", "reject"} =>
              RoutingOf(m, sc).bin = ZoneForGrade[sc.grade]
         /\ RoutingOf(m, sc).diverted => RoutingOf(m, sc).alert \in {"warning", "error"}
<1>1. ZoneForGrade[sc.grade] \in Zones /\ sc.grade \in Grades
  BY DEF GoodScene, Grades, Zones, ZoneForGrade
<1> DEFINE bin == IF NamesBin(m) THEN sc.bin ELSE "none"
<1>2. m # "qc" => bin \in Zones
  BY DEF GoodScene, NamesBin
<1>3. RoutingOf(m, sc) = Route(m, bin, sc.grade)
  BY DEF RoutingOf
<1>4. m \notin {"qc", "fusion"} => ~NeedsQC(m)
  BY DEF NeedsQC
<1>5. sc.grade \in {"review", "reject"} => sc.grade # "pass"
  OBVIOUS
<1> HIDE DEF bin
<1>6. CASE m = "order"
  <2>1. /\ Route(m, bin, sc.grade).bin = bin
        /\ Route(m, bin, sc.grade).diverted = FALSE
    BY <1>6 DEF Route
  <2> QED
    BY <1>2, <1>6, <1>3, <1>4, <1>5, <2>1
<1>7. CASE m = "qc"
  <2>1. /\ Route(m, bin, sc.grade).bin = ZoneForGrade[sc.grade]
        /\ Route(m, bin, sc.grade).diverted = FALSE
    BY <1>7 DEF Route
  <2> QED
    BY <1>1, <1>7, <1>3, <1>4, <1>5, <2>1
<1>8. CASE m = "fusion" /\ sc.grade = "pass"
  <2>1. /\ Route(m, bin, sc.grade).bin = bin
        /\ Route(m, bin, sc.grade).diverted = FALSE
    BY <1>8 DEF Route
  <2> QED
    BY <1>2, <1>8, <1>3, <1>4, <1>5, <2>1
<1>9. CASE m = "fusion" /\ sc.grade # "pass"
  <2>1. /\ Route(m, bin, sc.grade).bin = ZoneForGrade[sc.grade]
        /\ Route(m, bin, sc.grade).diverted = (ZoneForGrade[sc.grade] # bin)
        /\ Route(m, bin, sc.grade).alert = IF ZoneForGrade[sc.grade] # bin
                                            THEN DivertSeverity(sc.grade) ELSE "none"
    BY <1>9 DEF Route
  <2> QED
    BY <1>1, <1>9, <1>3, <2>1 DEF DivertSeverity
<1> QED
  BY <1>6, <1>7, <1>8, <1>9 DEF AllModes

Severities(b) == {b.alerts[i].severity : i \in DOMAIN b.alerts}

StatusOf(e) ==
  CASE e = "ok" -> "fulfilled"
    [] e = "retry" -> "retried"
    [] e = "fail" -> "failed"

\* What the board b says after n beats of a run.
Tells(m, e, sc, n, b) ==
  /\ b \in MockBoard
  /\ b.qc \in {"none", sc.grade} /\ (~NeedsQC(m) => b.qc = "none")
  /\ b.routing \in {NoRouting, RoutingRecord(m, sc)}
  /\ n < Ends(m, e) => b.outcome = "running" /\ b.alerts = <<>>
  /\ n >= Ends(m, e) - 3 =>
       PlaceMotion(b) = [state |-> IF e = "fail" THEN "unverified" ELSE "verified",
                         attempt |-> Count(e)]
  /\ n >= Ends(m, e) - 2 =>
       b.verification.attempt = Count(e) /\ (b.verification.ok <=> e # "fail")
  /\ n = Ends(m, e) =>
       /\ b.outcome = StatusOf(e) /\ b.attempts = Count(e)
       /\ IF e = "fail" THEN "error" \in Severities(b) /\ "info" \notin Severities(b)
                        ELSE "info" \in Severities(b)
       /\ RoutingOf(m, sc).diverted => Severities(b) \cap {"warning", "error"} # {}

\* Whatever run it is of, such a board tells the truth.
LEMMA TellsTruth ==
  ASSUME NEW m \in AllModes, NEW e \in Endings, NEW sc, GoodScene(m, sc),
         NEW n \in Nat, n <= Ends(m, e), Tells(m, e, sc, n, board)
  PROVE  MockTellsTheTruth
<1>1. board.outcome # "running" => n = Ends(m, e)
  <2>1. Ends(m, e) \in Nat
    BY DEF Ends, Grading
  <2> QED
    BY <2>1 DEF Tells
<1>2. ASSUME board.outcome \in {"fulfilled", "retried"}
      PROVE  /\ board.verification = [ok |-> TRUE, attempt |-> board.attempts]
             /\ board.stages["PLACE"].motion = [state |-> "verified", attempt |-> board.attempts]
             /\ board.attempts = (IF board.outcome = "fulfilled" THEN 1 ELSE 2)
             /\ "info" \in Severities(board)
  <2>1. n = Ends(m, e) /\ Ends(m, e) \in Nat
    BY <1>1, <1>2 DEF Ends, Grading
  <2>2. board.outcome = StatusOf(e) /\ e # "fail"
    BY <1>2, <2>1 DEF Tells, Endings, StatusOf
  <2>3. board.attempts = Count(e) /\ "info" \in Severities(board)
    BY <2>1, <2>2 DEF Tells
  <2>4. PlaceMotion(board) = [state |-> "verified", attempt |-> Count(e)]
    BY <2>1, <2>2 DEF Tells
  <2>5. board.verification.attempt = Count(e) /\ board.verification.ok
    BY <2>1, <2>2 DEF Tells
  <2>6. board.verification \in [ok : BOOLEAN, attempt : Nat]
    BY BoardFields DEF Tells, MockBoard
  <2>7. board.verification = [ok |-> TRUE, attempt |-> Count(e)]
    BY <2>5, <2>6
  <2>8. Count(e) = (IF board.outcome = "fulfilled" THEN 1 ELSE 2)
    BY <2>2 DEF Endings, StatusOf, Count
  <2> QED
    BY <2>3, <2>4, <2>8, <2>7 DEF PlaceMotion
<1>3. ASSUME board.outcome = "failed"
      PROVE  /\ ~board.verification.ok
             /\ board.stages["PLACE"].motion.state # "verified"
             /\ "error" \in Severities(board) /\ "info" \notin Severities(board)
  <2>1. n = Ends(m, e) /\ Ends(m, e) \in Nat
    BY <1>1, <1>3 DEF Ends, Grading
  <2>2. board.outcome = StatusOf(e) /\ e = "fail"
    BY <1>3, <2>1 DEF Tells, Endings, StatusOf
  <2> QED
    BY <2>1, <2>2 DEF Tells, PlaceMotion
<1>4. ASSUME board.qc \in {"review", "reject"}, board.routing # NoRouting
      PROVE  board.routing.bin = ZoneForGrade[board.qc]
  <2>1. board.qc = sc.grade /\ NeedsQC(m) /\ board.routing = RoutingRecord(m, sc)
    BY <1>4 DEF Tells
  <2> QED
    BY <1>4, <2>1, Routes DEF RoutingRecord
<1>5. ASSUME board.routing.diverted, board.outcome # "running"
      PROVE  Severities(board) \cap {"warning", "error"} # {}
  <2>1. n = Ends(m, e)
    BY <1>1, <1>5
  <2>2. board.routing = RoutingRecord(m, sc)
    BY <1>5 DEF Tells, NoRouting
  <2>3. RoutingOf(m, sc).diverted
    BY <1>5, <2>2 DEF RoutingRecord
  <2> QED
    BY <2>1, <2>3 DEF Tells
<1> QED
  BY <1>2, <1>3, <1>4, <1>5 DEF MockTellsTheTruth, Severities

LEMMA MinorEvents ==
  /\ \A s \in StageNames, status \in StageStates, n \in Nat :
       Minor(StageEvent(s, status, n))
  /\ \A s \in MotionStages, n \in Nat, e \in Endings :
       Minor(Commanded(s, n)) /\ Minor(Confirmed(e, s, n))
  /\ \A o \in MockOrders : Minor([kind |-> "order", order |-> o])
  /\ Minor([kind |-> "detection"])
<1>1. ASSUME NEW s \in MotionStages, NEW n \in Nat
      PROVE  Minor(Commanded(s, n))
  <2>1. s \in StageNames /\ "commanded" \in MotionStates
    BY TheStages DEF MotionStates
  <2> QED
    BY <2>1 DEF Commanded, Minor
<1>2. ASSUME NEW s \in MotionStages, NEW n \in Nat, NEW e \in Endings
      PROVE  Minor(Confirmed(e, s, n))
  <2>1. s \in StageNames /\ MotionPlan(e, s, n) \in MotionStates
    BY TheStages DEF MotionStates, MotionPlan
  <2>2. /\ Confirmed(e, s, n) =
             MotionEvent(s, MotionPlan(e, s, n), MotionPlan(e, s, n) = "mismatch", n)
    BY DEF Confirmed
  <2> QED
    BY <2>1, <2>2 DEF Minor
<1>3. \A s \in StageNames, status \in StageStates, n \in Nat :
        Minor(StageEvent(s, status, n))
  BY DEF Minor
<1>4. /\ \A o \in MockOrders : Minor([kind |-> "order", order |-> o])
      /\ Minor([kind |-> "detection"])
  BY DEF Minor
<1> QED
  BY <1>1, <1>2, <1>3, <1>4

\* A beat of minor events changes nothing that is told; the last but one
\* leaves the last placement alone.
LEMMA QuietBeat ==
  ASSUME NEW m, NEW e \in Endings, NEW sc, NEW n \in Nat, NEW b,
         Tells(m, e, sc, n, b), NEW events, Len(events) \in Nat,
         \A i \in 1..Len(events) : Minor(events[i]),
         \/ n + 1 < Ends(m, e) - 3
         \/ n + 1 = Ends(m, e) - 1 /\ \A i \in 1..Len(events) : ~Replaces(events[i])
  PROVE  Tells(m, e, sc, n + 1, Played(b, events)) /\ Played(b, events).mode = b.mode
<1> DEFINE r == Played(b, events)
<1>1. /\ Keeps(b, r)
      /\ (\A i \in 1..Len(events) : ~Replaces(events[i])) => PlaceMotion(r) = PlaceMotion(b)
  BY MinorPlayed DEF Tells
<1> HIDE DEF r
<1>2. Ends(m, e) \in Nat
  BY DEF Ends, Grading
<1>3. r.mode = b.mode
  BY <1>1 DEF Keeps
<1>4. CASE n + 1 < Ends(m, e) - 3
  <2>1. /\ n < Ends(m, e) /\ ~(n + 1 >= Ends(m, e) - 3)
        /\ ~(n + 1 >= Ends(m, e) - 2) /\ n + 1 # Ends(m, e)
    BY <1>2, <1>4
  <2>2. Tells(m, e, sc, n + 1, r)
    BY <1>1, <2>1 DEF Tells, Keeps
  <2> QED
    BY <1>3, <2>2 DEF r
<1>5. CASE n + 1 = Ends(m, e) - 1 /\ \A i \in 1..Len(events) : ~Replaces(events[i])
  <2>1. /\ n < Ends(m, e) /\ n >= Ends(m, e) - 3 /\ n >= Ends(m, e) - 2
        /\ n + 1 # Ends(m, e)
    BY <1>2, <1>5
  <2>2. PlaceMotion(r) = PlaceMotion(b)
    BY <1>1, <1>5
  <2>3. Tells(m, e, sc, n + 1, r)
    BY <1>1, <2>1, <2>2 DEF Tells, Keeps
  <2> QED
    BY <1>3, <2>3 DEF r
<1> QED
  BY <1>4, <1>5

\* The reset: the run before is gone.
LEMMA FirstBeat ==
  ASSUME NEW m \in AllModes, NEW e \in Endings, NEW sc, NEW b
  PROVE  /\ Tells(m, e, sc, 1, Played(b, <<[kind |-> "reset", mode |-> m]>>))
         /\ Played(b, <<[kind |-> "reset", mode |-> m]>>).mode = m
<1>1. /\ Played(b, <<[kind |-> "reset", mode |-> m]>>) = Fresh(m)
      /\ Fresh(m) \in MockBoard
  BY ResetApplied, PlayedOne DEF MockBoard
<1>2. /\ Fresh(m).mode = m /\ Fresh(m).qc = "none" /\ Fresh(m).routing = NoRouting
      /\ Fresh(m).outcome = "running" /\ Fresh(m).alerts = <<>>
  BY DEF Fresh
<1>3. /\ ~(1 >= Ends(m, e) - 3) /\ ~(1 >= Ends(m, e) - 2) /\ 1 # Ends(m, e)
  BY DEF Ends, Grading
<1> QED
  BY <1>1, <1>2, <1>3 DEF Tells

\* The board after the grade or the destination.
Sorted(m, sc, b, r) ==
  /\ r \in MockBoard
  /\ r.mode = b.mode /\ r.alerts = b.alerts /\ r.outcome = b.outcome
  /\ r.qc \in {b.qc, sc.grade} /\ (~NeedsQC(m) => r.qc = b.qc)
  /\ r.routing \in {b.routing, RoutingRecord(m, sc)}

LEMMA KeepsIsSorted ==
  ASSUME NEW m, NEW sc, NEW b, NEW r, NEW q, Sorted(m, sc, b, r), Keeps(r, q)
  PROVE  Sorted(m, sc, b, q)
BY DEF Sorted, Keeps

LEMMA SortedTells ==
  ASSUME NEW m, NEW e \in Endings, NEW sc, NEW n \in Nat, NEW b, NEW r,
         Tells(m, e, sc, n, b), n + 1 < Ends(m, e) - 3, Sorted(m, sc, b, r)
  PROVE  Tells(m, e, sc, n + 1, r) /\ r.mode = b.mode
<1>1. Ends(m, e) \in Nat
  BY DEF Ends, Grading
<1>2. /\ n < Ends(m, e) /\ ~(n + 1 >= Ends(m, e) - 3)
      /\ ~(n + 1 >= Ends(m, e) - 2) /\ n + 1 # Ends(m, e)
  BY <1>1
<1> QED
  BY <1>2 DEF Sorted, Tells

LEMMA RoutedApplied ==
  ASSUME NEW m \in AllModes, NEW sc, GoodScene(m, sc), NEW b \in MockBoard
  PROVE  /\ Apply(b, Routed(m, sc)) \in MockBoard
         /\ Apply(b, Routed(m, sc)) = [b EXCEPT !.routing = RoutingRecord(m, sc)]
<1>1. /\ RoutingOf(m, sc).bin \in Zones \cup {"none"}
      /\ RoutingOf(m, sc).diverted \in BOOLEAN
  BY Routes
<1> QED
  BY <1>1, RoutingApplied DEF Routed, RoutingRecord, MockBoard

\* The picked item is on its way, without grading and with it.
LEMMA RoutedBeat ==
  ASSUME NEW m \in AllModes, NEW e \in Endings, NEW sc, GoodScene(m, sc),
         NEW b \in MockBoard
  PROVE  Sorted(m, sc, b, Played(b,
           <<Confirmed(e, "PICK", 1), Routed(m, sc), StageEvent("PICK", "done", 0),
             StageEvent("PLACE", "active", 0), Commanded("PLACE", 1)>>))
<1> DEFINE p == Apply(b, Confirmed(e, "PICK", 1))
           q == Apply(p, Routed(m, sc))
           r == Apply(q, StageEvent("PICK", "done", 0))
           s == Apply(r, StageEvent("PLACE", "active", 0))
           t == Apply(s, Commanded("PLACE", 1))
<1>1. /\ Minor(Confirmed(e, "PICK", 1)) /\ Minor(StageEvent("PICK", "done", 0))
      /\ Minor(StageEvent("PLACE", "active", 0)) /\ Minor(Commanded("PLACE", 1))
  BY MinorEvents, TheStages DEF StageStates, MotionStages
<1>2. Keeps(b, p)
  BY <1>1, MinorApplied
<1>3. p \in MockBoard
  BY <1>2 DEF Keeps
<1> HIDE DEF p
<1>4. q \in MockBoard /\ q = [p EXCEPT !.routing = RoutingRecord(m, sc)]
  BY <1>3, RoutedApplied
<1> HIDE DEF q
<1>5. Sorted(m, sc, b, q)
  BY <1>2, <1>3, <1>4 DEF Sorted, Keeps, MockBoard, Board
<1>6. Keeps(q, r) /\ r \in MockBoard
  BY <1>1, <1>4, MinorApplied DEF Keeps
<1> HIDE DEF r
<1>7. Keeps(r, s) /\ s \in MockBoard
  BY <1>1, <1>6, MinorApplied DEF Keeps
<1> HIDE DEF s
<1>8. Keeps(s, t)
  BY <1>1, <1>7, MinorApplied
<1> HIDE DEF t
<1>9. Sorted(m, sc, b, t)
  BY <1>5, <1>6, <1>7, <1>8, KeepsIsSorted
<1> QED
  BY <1>9, PlayedFive DEF t, s, r, q, p

LEMMA GradedBeat ==
  ASSUME NEW m \in AllModes, NEW e \in Endings, NEW sc, GoodScene(m, sc),
         NEW b \in MockBoard, NeedsQC(m)
  PROVE  Sorted(m, sc, b, Played(b,
           <<[kind |-> "qc", grade |-> sc.grade], Routed(m, sc),
             StageEvent("DETECT", "done", 0), StageEvent("PLACE", "active", 0),
             Commanded("PLACE", 1)>>))
<1> DEFINE p == Apply(b, [kind |-> "qc", grade |-> sc.grade])
           q == Apply(p, Routed(m, sc))
           r == Apply(q, StageEvent("DETECT", "done", 0))
           s == Apply(r, StageEvent("PLACE", "active", 0))
           t == Apply(s, Commanded("PLACE", 1))
<1>1. /\ Minor(StageEvent("DETECT", "done", 0))
      /\ Minor(StageEvent("PLACE", "active", 0)) /\ Minor(Commanded("PLACE", 1))
  BY MinorEvents, TheStages DEF StageStates, MotionStages
<1>2. p \in MockBoard /\ p = [b EXCEPT !.qc = sc.grade]
  BY GradeApplied DEF GoodScene, MockBoard
<1> HIDE DEF p
<1>3. q \in MockBoard /\ q = [p EXCEPT !.routing = RoutingRecord(m, sc)]
  BY <1>2, RoutedApplied
<1> HIDE DEF q
<1>4. Sorted(m, sc, b, q)
  BY <1>2, <1>3 DEF Sorted, MockBoard, Board
<1>5. Keeps(q, r) /\ r \in MockBoard
  BY <1>1, <1>3, MinorApplied DEF Keeps
<1> HIDE DEF r
<1>6. Keeps(r, s) /\ s \in MockBoard
  BY <1>1, <1>5, MinorApplied DEF Keeps
<1> HIDE DEF s
<1>7. Keeps(s, t)
  BY <1>1, <1>6, MinorApplied
<1> HIDE DEF t
<1>8. Sorted(m, sc, b, t)
  BY <1>4, <1>5, <1>6, <1>7, KeepsIsSorted
<1> QED
  BY <1>8, PlayedFive DEF t, s, r, q, p

\* What the encoders say of the last placement.
LEMMA PlaceBeat ==
  ASSUME NEW m, NEW e \in Endings, NEW sc, NEW n \in Nat, NEW b,
         Tells(m, e, sc, n, b), n + 1 = Ends(m, e) - 3, NEW events,
         events = <<Confirmed(e, "PLACE", Count(e)), StageEvent("PLACE", "done", 0),
                    StageEvent("VERIFY", "active", 0)>>
  PROVE  Tells(m, e, sc, n + 1, Played(b, events)) /\ Played(b, events).mode = b.mode
<1> DEFINE p == Apply(b, Confirmed(e, "PLACE", Count(e)))
           q == Apply(p, StageEvent("PLACE", "done", 0))
           r == Apply(q, StageEvent("VERIFY", "active", 0))
           state == IF e = "fail" THEN "unverified" ELSE "verified"
<1>1. MotionPlan(e, "PLACE", Count(e)) = state
  BY DEF MotionPlan, Count, Endings
<1>2. /\ Minor(StageEvent("PLACE", "done", 0)) /\ Minor(StageEvent("VERIFY", "active", 0))
      /\ ~Replaces(StageEvent("PLACE", "done", 0))
      /\ ~Replaces(StageEvent("VERIFY", "active", 0))
      /\ Minor(Confirmed(e, "PLACE", Count(e)))
  BY MinorEvents, TheStages DEF StageStates, MotionStages, Count, Replaces, StageEvent
<1>3. b \in MockBoard
  BY DEF Tells
<1>4. Keeps(b, p) /\ p \in MockBoard
  BY <1>2, <1>3, MinorApplied DEF Keeps
<1>5. PlaceMotion(p) = [state |-> state, attempt |-> Count(e)]
  <2>1. Confirmed(e, "PLACE", Count(e)) = MotionEvent("PLACE", state, state = "mismatch", Count(e))
    BY <1>1 DEF Confirmed
  <2>2. /\ Count(e) \in Nat /\ Count(e) # 0 /\ state \in MotionStates
        /\ (state = "mismatch") \in BOOLEAN
        /\ ((state = "mismatch") => state # "verified")
    BY DEF Count, MotionStates
  <2> HIDE DEF state
  <2>3. Reported(b, p, "PLACE", state, Count(e))
    BY <1>3, <2>1, <2>2, MotionApplied, TheStages DEF MockBoard
  <2> QED
    BY <2>2, <2>3, TheStages DEF Reported, PlaceMotion
<1> HIDE DEF p
<1>6. Keeps(p, q) /\ q \in MockBoard /\ PlaceMotion(q) = PlaceMotion(p)
  BY <1>2, <1>4, MinorApplied DEF Keeps
<1> HIDE DEF q
<1>7. Keeps(q, r) /\ PlaceMotion(r) = PlaceMotion(q)
  BY <1>2, <1>6, MinorApplied
<1> HIDE DEF r
<1>8. Ends(m, e) \in Nat
  BY DEF Ends, Grading
<1>9. /\ n < Ends(m, e) /\ ~(n + 1 >= Ends(m, e) - 2) /\ n + 1 # Ends(m, e)
  BY <1>8
<1>10. Keeps(b, r) /\ PlaceMotion(r) = [state |-> state, attempt |-> Count(e)]
  BY <1>4, <1>5, <1>6, <1>7 DEF Keeps
<1>11. Tells(m, e, sc, n + 1, r) /\ r.mode = b.mode
  BY <1>9, <1>10 DEF Tells, Keeps
<1> QED
  BY <1>11, PlayedThree DEF p, q, r

\* A look at the item: an early one is told of no more, the last one is.
LEMMA LookBeat ==
  ASSUME NEW m, NEW e \in Endings, NEW sc, NEW n \in Nat, NEW b,
         Tells(m, e, sc, n, b), NEW k \in {1, 2},
         \/ n + 1 < Ends(m, e) - 3
         \/ n + 1 = Ends(m, e) - 2 /\ k = Count(e)
  PROVE  /\ Tells(m, e, sc, n + 1, Played(b, VerifyBeat(e, k)))
         /\ Played(b, VerifyBeat(e, k)).mode = b.mode
<1> DEFINE ok == Verdict(e, k)
           look == StageEvent("VERIFY", IF ok THEN "done" ELSE "failed", k)
           v == [kind |-> "verification", ok |-> ok, attempt |-> k]
           p == Apply(b, v)
           r == Apply(p, look)
<1>1. VerifyBeat(e, k) = <<v, look>>
  BY DEF VerifyBeat
<1>2. ok \in BOOLEAN /\ (k = Count(e) => (ok <=> e # "fail"))
  BY DEF Verdict, Count, Endings
<1>3. Minor(look) /\ ~Replaces(look)
  BY MinorEvents, TheStages DEF StageStates, Replaces, StageEvent
<1> HIDE DEF ok, look
<1>4. b \in MockBoard /\ k \in Nat /\ k # 0
  BY DEF Tells
<1>5. p \in MockBoard /\ p = [b EXCEPT !.verification = [ok |-> ok, attempt |-> k]]
  BY <1>2, <1>4, VerdictApplied DEF MockBoard
<1> HIDE DEF p
<1>6. Keeps(p, r) /\ PlaceMotion(r) = PlaceMotion(p)
  BY <1>3, <1>5, MinorApplied
<1> HIDE DEF r
<1>7. /\ r \in MockBoard /\ r.mode = b.mode /\ r.qc = b.qc /\ r.routing = b.routing
      /\ r.alerts = b.alerts /\ r.outcome = b.outcome
      /\ PlaceMotion(r) = PlaceMotion(b)
      /\ r.verification.attempt = k /\ r.verification.ok = ok
  BY <1>4, <1>5, <1>6 DEF Keeps, PlaceMotion, MockBoard, Board
<1>8. Ends(m, e) \in Nat
  BY DEF Ends, Grading
<1>9. CASE n + 1 < Ends(m, e) - 3
  <2>1. /\ n < Ends(m, e) /\ ~(n + 1 >= Ends(m, e) - 3)
        /\ ~(n + 1 >= Ends(m, e) - 2) /\ n + 1 # Ends(m, e)
    BY <1>8, <1>9
  <2>2. Tells(m, e, sc, n + 1, r)
    BY <1>7, <2>1 DEF Tells
  <2> QED
    BY <1>1, <1>7, <2>2, PlayedTwo DEF r, p
<1>10. CASE n + 1 = Ends(m, e) - 2 /\ k = Count(e)
  <2>1. n < Ends(m, e) /\ n >= Ends(m, e) - 3 /\ n + 1 # Ends(m, e)
    BY <1>8, <1>10
  <2>2. Tells(m, e, sc, n + 1, r)
    BY <1>2, <1>7, <1>10, <2>1 DEF Tells
  <2> QED
    BY <1>1, <1>7, <2>2, PlayedTwo DEF r, p
<1> QED
  BY <1>9, <1>10

\* The board after the last three events of a run.
Final(e, p) ==
  LET verified == e \in {"ok", "retry"}
  IN Apply(Apply(Apply(p,
       Raised(IF verified THEN "info" ELSE "error")),
       StageEvent("ALERT", IF verified THEN "done" ELSE "failed", 0)),
       [kind |-> "outcome", attempts |-> IF e = "ok" THEN 1 ELSE 2,
        status |-> CASE e = "ok" -> "fulfilled"
                     [] e = "retry" -> "retried"
                     [] e = "fail" -> "failed"])

\* The end of a run: r follows p, on whose board the diversion and the failed
\* confirmation have been told.
LEMMA LastEvents ==
  ASSUME NEW e \in Endings, NEW p \in MockBoard, NEW r,
         r = Final(e, p)
  PROVE  /\ r \in MockBoard
         /\ r.mode = p.mode /\ r.qc = p.qc /\ r.routing = p.routing
         /\ r.verification = p.verification /\ PlaceMotion(r) = PlaceMotion(p)
         /\ r.outcome = StatusOf(e) /\ r.attempts = Count(e)
         /\ Severities(r) = Severities(p) \cup {IF e = "fail" THEN "error" ELSE "info"}
<1> DEFINE severity == IF e \in {"ok", "retry"} THEN "info" ELSE "error"
           stage == StageEvent("ALERT", IF e \in {"ok", "retry"} THEN "done" ELSE "failed", 0)
           last == [kind |-> "outcome", attempts |-> Count(e), status |-> StatusOf(e)]
           a == Apply(p, Raised(severity))
           s == Apply(a, stage)
<1>1. r = Apply(s, last)
  BY DEF Count, StatusOf, Final
<1>2. severity = (IF e = "fail" THEN "error" ELSE "info")
  BY DEF Endings
<1>3. severity \in {"info", "warning", "error"}
  OBVIOUS
<1>4. Minor(stage) /\ ~Replaces(stage)
  BY MinorEvents, TheStages DEF StageStates, Replaces, StageEvent
<1>5. StatusOf(e) \in Outcomes /\ Count(e) \in Nat /\ Count(e) # 0
  BY DEF StatusOf, Outcomes, Endings, Count
<1> HIDE DEF severity, stage
<1>6. a \in MockBoard /\ a = [p EXCEPT !.alerts =
                                Append(p.alerts, [severity |-> severity,
                                                  origin |-> "dashboard"])]
  BY <1>3, AlertApplied DEF Raised, MockBoard
<1>7. Severities(a) = Severities(p) \cup {severity}
  <2> DEFINE new == [severity |-> severity, origin |-> "dashboard"]
  <2>1. p.alerts \in Seq([severity : {"info", "warning", "error"},
                          origin : {"dashboard", "run_order"}])
    BY BoardFields DEF MockBoard
  <2>2. a.alerts = Append(p.alerts, new) /\ new.severity = severity
    BY <1>6 DEF MockBoard, Board
  <2> HIDE DEF new
  <2>3. /\ DOMAIN a.alerts = (DOMAIN p.alerts) \cup {Len(p.alerts) + 1}
        /\ \A i \in DOMAIN p.alerts : a.alerts[i] = p.alerts[i]
        /\ a.alerts[Len(p.alerts) + 1] = new
    BY <2>1, <2>2
  <2> QED
    BY <2>2, <2>3 DEF Severities
<1> HIDE DEF a
<1>8. Keeps(a, s) /\ s \in MockBoard /\ PlaceMotion(s) = PlaceMotion(a)
  BY <1>4, <1>6, MinorApplied DEF Keeps
<1> HIDE DEF s
<1>9. last.kind = "outcome" /\ last.status = StatusOf(e) /\ last.attempts = Count(e)
  OBVIOUS
<1> HIDE DEF last
<1>10. r \in MockBoard /\ Ended(s, r, StatusOf(e), Count(e))
  <2>1. s \in Board(MockOrders)
    BY <1>8 DEF MockBoard
  <2>2. /\ Apply(s, last) \in Board(MockOrders)
        /\ Ended(s, Apply(s, last), StatusOf(e), Count(e))
    BY <1>5, <1>9, <2>1, OutcomeApplied
  <2> QED
    BY <1>1, <2>2 DEF MockBoard
<1>11. /\ r.mode = s.mode /\ r.qc = s.qc /\ r.routing = s.routing
       /\ r.verification = s.verification /\ PlaceMotion(r) = PlaceMotion(s)
       /\ r.outcome = StatusOf(e) /\ r.attempts = Count(e) /\ r.alerts = s.alerts
  BY <1>5, <1>10, TheStages DEF Ended, SameTale, PlaceMotion
<1>12. /\ a.mode = p.mode /\ a.qc = p.qc /\ a.routing = p.routing
       /\ a.verification = p.verification /\ PlaceMotion(a) = PlaceMotion(p)
  BY <1>6 DEF MockBoard, Board, PlaceMotion
<1>13. Severities(r) = Severities(a)
  <2>1. r.alerts = a.alerts
    BY <1>8, <1>11 DEF Keeps
  <2> QED
    BY <2>1 DEF Severities
<1> QED
  BY <1>2, <1>7, <1>8, <1>10, <1>11, <1>12, <1>13 DEF Keeps

LEMMA JoinedEnds ==
  ASSUME NEW a, NEW b, NEW x, NEW y, NEW z
  PROVE  /\ <<a>> \o <<>> \o <<x, y, z>> = <<a, x, y, z>>
         /\ <<>> \o <<b>> \o <<x, y, z>> = <<b, x, y, z>>
         /\ <<a>> \o <<b>> \o <<x, y, z>> = <<a, b, x, y, z>>
         /\ <<>> \o <<>> \o <<x, y, z>> = <<x, y, z>>
<1> DEFINE S == {a, b, x, y, z}
<1>1. /\ <<a>> \in Seq(S) /\ <<b>> \in Seq(S) /\ <<>> \in Seq(S)
      /\ <<x, y, z>> \in Seq(S) /\ <<a, x, y, z>> \in Seq(S)
      /\ <<b, x, y, z>> \in Seq(S) /\ <<a, b, x, y, z>> \in Seq(S)
  OBVIOUS
<1> DEFINE
  k == <<a>> \o <<>> \o <<x, y, z>>
  l == <<>> \o <<b>> \o <<x, y, z>>
  m == <<a>> \o <<b>> \o <<x, y, z>>
  n == <<>> \o <<>> \o <<x, y, z>>
<1>2. k \in Seq(S) /\ l \in Seq(S) /\ m \in Seq(S) /\ n \in Seq(S)
  BY <1>1
<1> HIDE DEF S
<1>3. /\ Len(k) = 4 /\ k[1] = a /\ k[2] = x /\ k[3] = y /\ k[4] = z
      /\ Len(l) = 4 /\ l[1] = b /\ l[2] = x /\ l[3] = y /\ l[4] = z
      /\ Len(m) = 5 /\ m[1] = a /\ m[2] = b /\ m[3] = x /\ m[4] = y /\ m[5] = z
      /\ Len(n) = 3 /\ n[1] = x /\ n[2] = y /\ n[3] = z
  OBVIOUS
<1> HIDE DEF k, l, m, n
<1>4. k = <<a, x, y, z>>
  <2>1. \A i \in 1..Len(k) : k[i] = <<a, x, y, z>>[i]
    BY <1>3
  <2> QED
    BY <1>1, <1>2, <1>3, <2>1, SeqEqual
<1>5. l = <<b, x, y, z>>
  <2>1. \A i \in 1..Len(l) : l[i] = <<b, x, y, z>>[i]
    BY <1>3
  <2> QED
    BY <1>1, <1>2, <1>3, <2>1, SeqEqual
<1>6. m = <<a, b, x, y, z>>
  <2>1. \A i \in 1..Len(m) : m[i] = <<a, b, x, y, z>>[i]
    BY <1>3
  <2> QED
    BY <1>1, <1>2, <1>3, <2>1, SeqEqual
<1>7. n = <<x, y, z>>
  <2>1. \A i \in 1..Len(n) : n[i] = <<x, y, z>>[i]
    BY <1>3
  <2> QED
    BY <1>1, <1>2, <1>3, <2>1, SeqEqual
<1> QED
  BY <1>4, <1>5, <1>6, <1>7 DEF k, l, m, n

LEMMA RaisedApplied ==
  ASSUME NEW b \in MockBoard, NEW severity \in {"info", "warning", "error"}
  PROVE  LET r == Apply(b, Raised(severity))
         IN /\ r \in MockBoard /\ r.mode = b.mode /\ r.qc = b.qc /\ r.routing = b.routing
            /\ r.verification = b.verification /\ PlaceMotion(r) = PlaceMotion(b)
            /\ Severities(r) = Severities(b) \cup {severity}
<1> DEFINE r == Apply(b, Raised(severity))
           new == [severity |-> severity, origin |-> "dashboard"]
<1>1. r \in MockBoard /\ r = [b EXCEPT !.alerts = Append(b.alerts, new)]
  BY AlertApplied DEF Raised, MockBoard
<1>2. b.alerts \in Seq([severity : {"info", "warning", "error"},
                        origin : {"dashboard", "run_order"}])
  BY BoardFields DEF MockBoard
<1>3. r.alerts = Append(b.alerts, new) /\ new.severity = severity
  BY <1>1 DEF MockBoard, Board
<1> HIDE DEF new, r
<1>4. /\ DOMAIN r.alerts = (DOMAIN b.alerts) \cup {Len(b.alerts) + 1}
      /\ \A i \in DOMAIN b.alerts : r.alerts[i] = b.alerts[i]
      /\ r.alerts[Len(b.alerts) + 1] = new
  BY <1>2, <1>3
<1>5. Severities(r) = Severities(b) \cup {severity}
  BY <1>3, <1>4 DEF Severities
<1> QED
  BY <1>1, <1>5 DEF MockBoard, Board, PlaceMotion, r

LEMMA LastBeatTells ==
  ASSUME NEW m \in AllModes, NEW e \in Endings, NEW sc, GoodScene(m, sc),
         NEW n \in Nat, NEW b, Tells(m, e, sc, n, b), n + 1 = Ends(m, e)
  PROVE  /\ Tells(m, e, sc, n + 1, Played(b, LastBeat(e, RoutingOf(m, sc))))
         /\ Played(b, LastBeat(e, RoutingOf(m, sc))).mode = b.mode
<1> DEFINE R == RoutingOf(m, sc)
           x == Raised(IF e \in {"ok", "retry"} THEN "info" ELSE "error")
           y == StageEvent("ALERT", IF e \in {"ok", "retry"} THEN "done" ELSE "failed", 0)
           z == [kind |-> "outcome", attempts |-> IF e = "ok" THEN 1 ELSE 2,
                 status |-> CASE e = "ok" -> "fulfilled"
                              [] e = "retry" -> "retried"
                              [] e = "fail" -> "failed"]
           Rest(p) == Apply(Apply(Apply(p, x), y), z)
           r == Played(b, LastBeat(e, R))
           d == IF R.diverted THEN Apply(b, Raised(R.alert)) ELSE b
           w == IF e = "ok" THEN d ELSE Apply(d, Raised("warning"))
<1>1. R.diverted \in BOOLEAN /\ (R.diverted => R.alert \in {"warning", "error"})
  BY Routes
<1>2. LastBeat(e, R) = (IF R.diverted THEN <<Raised(R.alert)>> ELSE <<>>)
                       \o MotionAlert(e) \o <<x, y, z>>
  BY DEF LastBeat
<1> HIDE DEF x, y, z, R
<1>3. r = Rest(w)
  <2> DEFINE first == IF R.diverted THEN <<Raised(R.alert)>> ELSE <<>>
  <2>1. CASE R.diverted /\ e = "ok"
    <3>1. first = <<Raised(R.alert)>>
      BY <2>1
    <3>2. MotionAlert(e) = <<>>
      BY <2>1 DEF MotionAlert
    <3>3. LastBeat(e, R) = <<Raised(R.alert)>> \o <<>> \o <<x, y, z>>
      BY <1>2, <3>1, <3>2
    <3>4. LastBeat(e, R) = <<Raised(R.alert), x, y, z>>
      BY <3>3, JoinedEnds
    <3>5. w = Apply(b, Raised(R.alert))
      BY <2>1
    <3> QED
      BY <3>4, <3>5, PlayedFour
  <2>2. CASE R.diverted /\ e # "ok"
    <3>1. first = <<Raised(R.alert)>>
      BY <2>2
    <3>2. MotionAlert(e) = <<Raised("warning")>>
      BY <2>2 DEF MotionAlert
    <3>3. LastBeat(e, R) = <<Raised(R.alert)>> \o <<Raised("warning")>> \o <<x, y, z>>
      BY <1>2, <3>1, <3>2
    <3>4. LastBeat(e, R) = <<Raised(R.alert), Raised("warning"), x, y, z>>
      BY <3>3, JoinedEnds
    <3>5. w = Apply(Apply(b, Raised(R.alert)), Raised("warning"))
      BY <2>2
    <3> QED
      BY <3>4, <3>5, PlayedFive
  <2>3. CASE ~R.diverted /\ e = "ok"
    <3>1. first = <<>>
      BY <2>3
    <3>2. MotionAlert(e) = <<>>
      BY <2>3 DEF MotionAlert
    <3>3. LastBeat(e, R) = <<>> \o <<>> \o <<x, y, z>>
      BY <1>2, <3>1, <3>2
    <3>4. LastBeat(e, R) = <<x, y, z>>
      BY <3>3, JoinedEnds
    <3>5. w = b
      BY <2>3
    <3> QED
      BY <3>4, <3>5, PlayedThree
  <2>4. CASE ~R.diverted /\ e # "ok"
    <3>1. first = <<>>
      BY <2>4
    <3>2. MotionAlert(e) = <<Raised("warning")>>
      BY <2>4 DEF MotionAlert
    <3>3. LastBeat(e, R) = <<>> \o <<Raised("warning")>> \o <<x, y, z>>
      BY <1>2, <3>1, <3>2
    <3>4. LastBeat(e, R) = <<Raised("warning"), x, y, z>>
      BY <3>3, JoinedEnds
    <3>5. w = Apply(b, Raised("warning"))
      BY <2>4
    <3> QED
      BY <3>4, <3>5, PlayedFour
  <2> QED
    BY <1>1, <2>1, <2>2, <2>3, <2>4
<1>4. b \in MockBoard /\ Ends(m, e) \in Nat
  BY DEF Tells, Ends, Grading
<1>5. /\ n < Ends(m, e) /\ n >= Ends(m, e) - 3 /\ n >= Ends(m, e) - 2
      /\ n + 1 >= Ends(m, e) - 3 /\ n + 1 >= Ends(m, e) - 2 /\ ~(n + 1 < Ends(m, e))
  BY <1>4
<1>6. Severities(b) = {}
  BY <1>5 DEF Tells, Severities
<1>7. /\ d \in MockBoard /\ d.mode = b.mode /\ d.qc = b.qc /\ d.routing = b.routing
      /\ d.verification = b.verification /\ PlaceMotion(d) = PlaceMotion(b)
      /\ Severities(d) = IF R.diverted THEN {R.alert} ELSE {}
  BY <1>1, <1>4, <1>6, RaisedApplied
<1> HIDE DEF d
<1>8. /\ w \in MockBoard /\ w.mode = b.mode /\ w.qc = b.qc /\ w.routing = b.routing
      /\ w.verification = b.verification /\ PlaceMotion(w) = PlaceMotion(b)
      /\ R.diverted => R.alert \in Severities(w)
      /\ Severities(w) \subseteq {"warning", "error"}
  BY <1>1, <1>7, RaisedApplied
<1> HIDE DEF w
<1>9. /\ r \in MockBoard /\ r.mode = b.mode /\ r.qc = b.qc /\ r.routing = b.routing
      /\ r.verification = b.verification /\ PlaceMotion(r) = PlaceMotion(b)
      /\ r.outcome = StatusOf(e) /\ r.attempts = Count(e)
      /\ Severities(r) = Severities(w) \cup {IF e = "fail" THEN "error" ELSE "info"}
  <2> DEFINE u == r
             v == w
  <2>1. v \in MockBoard
    BY <1>8
  <2>2. u = Final(e, v)
    BY <1>3 DEF x, y, z, Final
  <2> HIDE DEF u, v
  <2>3. /\ u \in MockBoard
        /\ u.mode = v.mode /\ u.qc = v.qc /\ u.routing = v.routing
        /\ u.verification = v.verification /\ PlaceMotion(u) = PlaceMotion(v)
        /\ u.outcome = StatusOf(e) /\ u.attempts = Count(e)
        /\ Severities(u) = Severities(v) \cup {IF e = "fail" THEN "error" ELSE "info"}
    BY <2>1, <2>2, LastEvents
  <2> QED
    BY <1>8, <2>3 DEF u, v
<1> HIDE DEF r
<1>10. /\ IF e = "fail" THEN "error" \in Severities(r) /\ "info" \notin Severities(r)
                        ELSE "info" \in Severities(r)
       /\ R.diverted => Severities(r) \cap {"warning", "error"} # {}
  BY <1>1, <1>8, <1>9
<1>11. Tells(m, e, sc, n + 1, r)
  BY <1>5, <1>9, <1>10 DEF Tells, R
<1> QED
  BY <1>9, <1>11 DEF r, R

\* Every beat.
LEMMA BeatTells ==
  ASSUME NEW m \in AllModes, NEW e \in Endings, NEW sc, GoodScene(m, sc),
         NEW n \in Nat, n < Ends(m, e), NEW b, n > 0 => Tells(m, e, sc, n, b)
  PROVE  /\ Tells(m, e, sc, n + 1, Played(b, Script(m, e, sc)[n + 1]))
         /\ n = 0 => Played(b, Script(m, e, sc)[n + 1]).mode = m
         /\ n > 0 => Played(b, Script(m, e, sc)[n + 1]).mode = b.mode
<1> DEFINE s == Script(m, e, sc)
           q == Grading(m)
           z == Ends(m, e)
           Goal == /\ Tells(m, e, sc, n + 1, Played(b, s[n + 1]))
                   /\ n = 0 => Played(b, s[n + 1]).mode = m
                   /\ n > 0 => Played(b, s[n + 1]).mode = b.mode
           Quiet(i) == /\ Len(s[i]) \in Nat
                       /\ \A k \in 1..Len(s[i]) : Minor(s[i][k])
<1>1. /\ ScriptBegins(m, sc, s) /\ ScriptPicks(m, e, sc, s)
      /\ e # "ok" => ScriptRetries(m, e, s)
      /\ ScriptEnds(m, e, sc, s)
  BY ScriptShape
<1>2. /\ q \in {0, 1} /\ (q = 1 <=> NeedsQC(m))
      /\ z = q + (IF e = "ok" THEN 10 ELSE 14)
  BY DEF Grading, Ends
<1>3. n > 0 => Tells(m, e, sc, n, b) /\ n # 0
  OBVIOUS
<1>4. ASSUME n > 0, Tells(m, e, sc, n + 1, Played(b, s[n + 1])),
             Played(b, s[n + 1]).mode = b.mode
      PROVE  Goal
  BY <1>3, <1>4
<1> SUFFICES Goal
  BY DEF Goal, s
<1> HIDE DEF Goal, s, q, z
<1>5. ASSUME n > 0, n + 1 < z - 3, Quiet(n + 1) PROVE Goal
  <2>1. /\ Tells(m, e, sc, n, b) /\ n + 1 < Ends(m, e) - 3
        /\ Len(s[n + 1]) \in Nat /\ \A k \in 1..Len(s[n + 1]) : Minor(s[n + 1][k])
    BY <1>3, <1>5 DEF z
  <2> DEFINE events == s[n + 1]
  <2>2. /\ Len(events) \in Nat /\ \A k \in 1..Len(events) : Minor(events[k])
        /\ Tells(m, e, sc, n, b) /\ n + 1 < Ends(m, e) - 3
    BY <2>1
  <2> HIDE DEF events
  <2>3. Tells(m, e, sc, n + 1, Played(b, events)) /\ Played(b, events).mode = b.mode
    BY <2>2, QuietBeat
  <2> QED
    BY <1>5, <1>4, <2>3 DEF events
<1>6. /\ n + 1 = z => n + 1 = Ends(m, e)
      /\ n + 1 = z - 1 => n + 1 = Ends(m, e) - 1
      /\ n + 1 = z - 2 => n + 1 = Ends(m, e) - 2
      /\ n + 1 = z - 3 => n + 1 = Ends(m, e) - 3
      /\ n + 1 < z - 3 => n + 1 < Ends(m, e) - 3
  BY DEF z
<1>7. /\ \A x \in StageNames, status \in StageStates, k \in Nat :
           Minor(StageEvent(x, status, k))
      /\ \A x \in {"PICK", "PLACE"}, k \in Nat : Minor(Commanded(x, k)) /\ Minor(Confirmed(e, x, k))
      /\ Minor([kind |-> "order", order |-> sc.order])
      /\ Minor([kind |-> "detection"])
      /\ {"active", "done"} \subseteq StageStates
  BY MinorEvents DEF GoodScene, StageStates, MotionStages
<1>8. CASE n = 0
  <2>1. n + 1 = 1
    BY <1>8
  <2>2. s[n + 1] = <<[kind |-> "reset", mode |-> m]>>
    BY <1>1, <2>1 DEF ScriptBegins
  <2>3. /\ Tells(m, e, sc, n + 1, Played(b, s[n + 1]))
        /\ Played(b, s[n + 1]).mode = m
    BY <2>1, <2>2, FirstBeat
  <2> QED
    BY <1>8, <2>3 DEF Goal
<1>9. CASE n \in 1..4
  <2>1. n + 1 < z - 3 /\ n > 0
    BY <1>2, <1>9
  <2>2. Quiet(n + 1)
    <3>1. Quiet(2) /\ Quiet(3) /\ Quiet(4) /\ Quiet(5)
      BY <1>1, <1>7, TheStages DEF ScriptBegins
    <3>2. n + 1 = 2 \/ n + 1 = 3 \/ n + 1 = 4 \/ n + 1 = 5
      BY <1>9
    <3> HIDE DEF Quiet
    <3> QED
      BY <3>1, <3>2
  <2> HIDE DEF Quiet
  <2> QED
    BY <1>5, <2>1, <2>2
<1>10. CASE n = 5 /\ ~NeedsQC(m)
  <2>1. n + 1 < z - 3 /\ n > 0
    BY <1>2, <1>10
  <2>2. n + 1 = 6 /\ b \in MockBoard
    BY <1>3, <1>10, <2>1 DEF Tells
  <2>3. s[n + 1] = <<Confirmed(e, "PICK", 1), Routed(m, sc), StageEvent("PICK", "done", 0),
                     StageEvent("PLACE", "active", 0), Commanded("PLACE", 1)>>
    BY <1>1, <1>10, <2>2 DEF ScriptPicks
  <2>4. Sorted(m, sc, b, Played(b, s[n + 1]))
    BY <2>2, <2>3, RoutedBeat
  <2>5. n + 1 < Ends(m, e) - 3
    BY <2>1 DEF z
  <2> QED
    BY <1>3, <1>4, <2>1, <2>4, <2>5, SortedTells
<1>11. CASE n = 5 /\ NeedsQC(m)
  <2>1. n + 1 < z - 3 /\ n > 0
    BY <1>2, <1>11
  <2>2. Quiet(6)
    BY <1>1, <1>7, <1>11, TheStages DEF ScriptPicks
  <2>3. n + 1 = 6
    BY <1>11
  <2> HIDE DEF Quiet
  <2> QED
    BY <1>5, <2>1, <2>2, <2>3
<1>12. CASE n = 6 /\ NeedsQC(m)
  <2>1. n + 1 < z - 3 /\ n > 0
    BY <1>2, <1>12
  <2>2. n + 1 = 7 /\ b \in MockBoard
    BY <1>3, <1>12, <2>1 DEF Tells
  <2>3. s[n + 1] = <<[kind |-> "qc", grade |-> sc.grade], Routed(m, sc),
                     StageEvent("DETECT", "done", 0), StageEvent("PLACE", "active", 0),
                     Commanded("PLACE", 1)>>
    BY <1>1, <1>12, <2>2 DEF ScriptPicks
  <2>4. Sorted(m, sc, b, Played(b, s[n + 1]))
    BY <1>12, <2>2, <2>3, GradedBeat
  <2>5. n + 1 < Ends(m, e) - 3
    BY <2>1 DEF z
  <2> QED
    BY <1>3, <1>4, <2>1, <2>4, <2>5, SortedTells
<1>13. CASE n \in {6 + q, 8 + q, 9 + q} /\ e # "ok"
  <2>1. n + 1 < z - 3 /\ n > 0
    BY <1>2, <1>13
  <2>2. Quiet(7 + q) /\ Quiet(9 + q) /\ Quiet(10 + q)
    <3>1. /\ s[7 + q] = <<Confirmed(e, "PLACE", 1), StageEvent("PLACE", "done", 0),
                          StageEvent("VERIFY", "active", 0)>>
          /\ s[9 + q] = <<StageEvent("PICK", "active", 2), Commanded("PICK", 2)>>
          /\ s[10 + q] = <<Confirmed(e, "PICK", 2), StageEvent("PICK", "done", 0),
                           StageEvent("PLACE", "active", 0), Commanded("PLACE", 2)>>
      <4>1. /\ (6 + q) + 1 = 7 + q /\ (6 + q) + 3 = 9 + q /\ (6 + q) + 4 = 10 + q
        BY <1>2
      <4> QED
        BY <1>1, <1>13, <4>1 DEF ScriptRetries, q
    <3>2. Quiet(7 + q)
      BY <1>7, <3>1, TheStages
    <3>3. Quiet(9 + q)
      BY <1>7, <3>1, TheStages
    <3>4. Quiet(10 + q)
      BY <1>7, <3>1, TheStages
    <3> QED
      BY <3>2, <3>3, <3>4
  <2>3. n + 1 = 7 + q \/ n + 1 = 9 + q \/ n + 1 = 10 + q
    BY <1>2, <1>13
  <2> HIDE DEF Quiet
  <2> QED
    BY <1>5, <2>1, <2>2, <2>3
<1>14. CASE n = 7 + q /\ e # "ok"
  <2>1. n + 1 < z - 3 /\ n > 0 /\ (6 + q) + 2 = n + 1
    BY <1>2, <1>14
  <2>2. s[n + 1] = VerifyBeat(e, 1)
    BY <1>1, <1>14, <2>1 DEF ScriptRetries, q
  <2> HIDE DEF Quiet
  <2> QED
    BY <1>3, <1>4, <2>1, <2>2, <1>6, LookBeat
<1>15. CASE n + 1 = z - 3
  <2>1. n > 0
    BY <1>2, <1>15
  <2>2. s[n + 1] = <<Confirmed(e, "PLACE", Count(e)), StageEvent("PLACE", "done", 0),
                     StageEvent("VERIFY", "active", 0)>>
    BY <1>1, <1>15 DEF ScriptEnds, z
  <2> HIDE DEF Quiet
  <2> QED
    BY <1>3, <1>4, <1>15, <2>1, <2>2, <1>6, PlaceBeat
<1>16. CASE n + 1 = z - 2
  <2>1. n > 0 /\ Count(e) \in {1, 2}
    BY <1>2, <1>16 DEF Count
  <2>2. s[n + 1] = VerifyBeat(e, Count(e))
    BY <1>1, <1>16 DEF ScriptEnds, z
  <2> HIDE DEF Quiet
  <2> QED
    BY <1>3, <1>4, <1>16, <2>1, <2>2, <1>6, LookBeat
<1>17. CASE n + 1 = z - 1
  <2>1. n > 0
    BY <1>2, <1>17
  <2>2. s[n + 1] = <<StageEvent("ALERT", "active", 0)>>
    BY <1>1, <1>17 DEF ScriptEnds, z
  <2>3. Quiet(n + 1) /\ \A k \in 1..Len(s[n + 1]) : ~Replaces(s[n + 1][k])
    BY <1>7, <2>2, TheStages DEF Replaces, StageEvent
  <2> DEFINE events == s[n + 1]
  <2>4. /\ Len(events) \in Nat /\ \A k \in 1..Len(events) : Minor(events[k])
        /\ \A k \in 1..Len(events) : ~Replaces(events[k])
        /\ Tells(m, e, sc, n, b) /\ n + 1 = Ends(m, e) - 1
    BY <1>3, <1>17, <1>6, <2>1, <2>3
  <2> HIDE DEF events
  <2>5. Tells(m, e, sc, n + 1, Played(b, events)) /\ Played(b, events).mode = b.mode
    BY <2>4, QuietBeat
  <2> QED
    BY <1>4, <2>1, <2>5 DEF events
<1>18. CASE n + 1 = z
  <2>1. n > 0
    BY <1>2, <1>18
  <2>2. s[n + 1] = LastBeat(e, RoutingOf(m, sc))
    BY <1>1, <1>18 DEF ScriptEnds, z
  <2> HIDE DEF Quiet
  <2> QED
    BY <1>3, <1>4, <1>18, <2>1, <2>2, <1>6, LastBeatTells
<1>19. \/ n = 0 \/ n \in 1..4 \/ n = 5 \/ (n = 6 /\ q = 1)
       \/ n \in {6 + q, 7 + q, 8 + q, 9 + q} /\ e # "ok"
       \/ n + 1 \in {z - 3, z - 2, z - 1, z}
  <2>1. n < z
    BY DEF z
  <2> QED
    BY <1>2, <2>1
<1> QED
  BY <1>2, <1>8, <1>9, <1>10, <1>11, <1>12, <1>13, <1>14, <1>15, <1>16, <1>17, <1>18, <1>19


\* No event of a run is refused.
Fine(events) == \A k \in DOMAIN events : ~Raises(events[k])

LEMMA MinorIsFine ==
  ASSUME NEW e, Minor(e) PROVE ~Raises(e)
BY DEF Minor, Raises, StageEvent, MotionEvent

LEMMA BeatIsFine ==
  ASSUME NEW m \in AllModes, NEW e \in Endings, NEW sc, GoodScene(m, sc),
         NEW n \in 1..Ends(m, e)
  PROVE  Fine(Script(m, e, sc)[n])
<1> DEFINE s == Script(m, e, sc)
           q == Grading(m)
           z == Ends(m, e)
<1>1. /\ ScriptBegins(m, sc, s) /\ ScriptPicks(m, e, sc, s)
      /\ e # "ok" => ScriptRetries(m, e, s)
      /\ ScriptEnds(m, e, sc, s)
  BY ScriptShape
<1>2. /\ q \in {0, 1} /\ (q = 1 <=> NeedsQC(m))
      /\ z = q + (IF e = "ok" THEN 10 ELSE 14)
  BY DEF Grading, Ends
<1> SUFFICES Fine(s[n])
  BY DEF s
<1> HIDE DEF s
<1>3. /\ \A x \in StageNames, status \in StageStates, k \in Nat :
           ~Raises(StageEvent(x, status, k))
      /\ \A x \in {"PICK", "PLACE"}, k \in Nat :
           ~Raises(Commanded(x, k)) /\ ~Raises(Confirmed(e, x, k))
      /\ ~Raises([kind |-> "order", order |-> sc.order])
      /\ ~Raises([kind |-> "detection"])
      /\ {"active", "done", "failed"} \subseteq StageStates
  BY MinorEvents, MinorIsFine DEF GoodScene, StageStates, MotionStages
<1>4. /\ ~Raises([kind |-> "reset", mode |-> m])
      /\ ~Raises([kind |-> "qc", grade |-> sc.grade])
      /\ ~Raises(Routed(m, sc))
      /\ \A severity : ~Raises(Raised(severity))
      /\ \A ok, k : ~Raises([kind |-> "verification", ok |-> ok, attempt |-> k])
      /\ \A a, b : ~Raises([kind |-> "outcome", attempts |-> a, status |-> b])
  BY DEF Raises, GoodScene, Routed, Raised
<1>5. Fine(s[1]) /\ Fine(s[2]) /\ Fine(s[3]) /\ Fine(s[4]) /\ Fine(s[5])
  BY <1>1, <1>3, <1>4, TheStages DEF ScriptBegins, Fine
<1>6. Fine(s[6]) /\ (NeedsQC(m) => Fine(s[7]))
  BY <1>1, <1>3, <1>4, TheStages DEF ScriptPicks, Fine
<1>7. ASSUME NEW k \in {1, 2} PROVE Fine(VerifyBeat(e, k))
  <2> DEFINE status == IF Verdict(e, k) THEN "done" ELSE "failed"
  <2>1. VerifyBeat(e, k) = <<[kind |-> "verification", ok |-> Verdict(e, k), attempt |-> k],
                             StageEvent("VERIFY", status, k)>>
    BY DEF VerifyBeat
  <2>2. status \in StageStates
    BY <1>3
  <2> QED
    BY <1>3, <1>4, <2>1, <2>2, TheStages DEF Fine
<1>8. ASSUME NEW k \in {1, 2}
      PROVE Fine(<<Confirmed(e, "PLACE", k), StageEvent("PLACE", "done", 0),
                   StageEvent("VERIFY", "active", 0)>>)
  BY <1>3, TheStages DEF Fine
<1>9. ASSUME e # "ok"
      PROVE Fine(s[7 + q]) /\ Fine(s[8 + q]) /\ Fine(s[9 + q]) /\ Fine(s[10 + q])
  <2>1. /\ s[7 + q] = <<Confirmed(e, "PLACE", 1), StageEvent("PLACE", "done", 0),
                        StageEvent("VERIFY", "active", 0)>>
        /\ s[8 + q] = VerifyBeat(e, 1)
        /\ s[9 + q] = <<StageEvent("PICK", "active", 2), Commanded("PICK", 2)>>
        /\ s[10 + q] = <<Confirmed(e, "PICK", 2), StageEvent("PICK", "done", 0),
                         StageEvent("PLACE", "active", 0), Commanded("PLACE", 2)>>
    <3>1. /\ (6 + q) + 1 = 7 + q /\ (6 + q) + 2 = 8 + q
          /\ (6 + q) + 3 = 9 + q /\ (6 + q) + 4 = 10 + q
      BY <1>2
    <3> QED
      BY <1>1, <1>9, <3>1 DEF ScriptRetries
  <2>2. Fine(s[9 + q])
    BY <1>3, <2>1, TheStages DEF Fine
  <2>3. Fine(s[10 + q])
    BY <1>3, <2>1, TheStages DEF Fine
  <2> QED
    BY <1>7, <1>8, <2>1, <2>2, <2>3
<1>10. Fine(s[z - 3]) /\ Fine(s[z - 2]) /\ Fine(s[z - 1])
  <2>1. Count(e) \in {1, 2}
    BY DEF Count
  <2>2. Fine(s[z - 1])
    BY <1>1, <1>3, TheStages DEF ScriptEnds, Fine
  <2> QED
    BY <1>1, <1>7, <1>8, <2>1, <2>2 DEF ScriptEnds
<1>11. Fine(s[z])
  <2> DEFINE R == RoutingOf(m, sc)
             f == IF R.diverted THEN <<Raised(R.alert)>> ELSE <<>>
             x == Raised(IF e \in {"ok", "retry"} THEN "info" ELSE "error")
             status == IF e \in {"ok", "retry"} THEN "done" ELSE "failed"
             y == StageEvent("ALERT", status, 0)
             w == [kind |-> "outcome", attempts |-> IF e = "ok" THEN 1 ELSE 2,
                   status |-> CASE e = "ok" -> "fulfilled"
                              [] e = "retry" -> "retried"
                              [] e = "fail" -> "failed"]
             l == <<x, y, w>>
  <2>1. s[z] = f \o MotionAlert(e) \o l
    BY <1>1 DEF ScriptEnds, LastBeat
  <2>2. status \in StageStates
    BY <1>3
  <2>3. ~Raises(x) /\ ~Raises(y)
    BY <1>3, <1>4, <2>2, TheStages
  <2>4. ~Raises(w)
    BY DEF Raises
  <2> DEFINE a == Raised(R.alert)
             u == Raised("warning")
  <2>5. ~Raises(a) /\ ~Raises(u)
    BY <1>4
  <2> HIDE DEF R, x, y, w, status
  <2>6. f = <<a>> \/ f = <<>>
    OBVIOUS
  <2>7. MotionAlert(e) = <<u>> \/ MotionAlert(e) = <<>>
    BY DEF MotionAlert
  <2> HIDE DEF f, a, u
  <2>8. \/ s[z] = <<a, u, x, y, w>> \/ s[z] = <<a, x, y, w>>
        \/ s[z] = <<u, x, y, w>> \/ s[z] = <<x, y, w>>
    <3> DEFINE g == MotionAlert(e)
    <3>1. (g = <<u>> \/ g = <<>>) /\ s[z] = f \o g \o l
      BY <2>1, <2>7
    <3> HIDE DEF g
    <3>2. CASE f = <<a>> /\ g = <<u>>
      <4>1. s[z] = <<a>> \o <<u>> \o <<x, y, w>>
        BY <3>1, <3>2
      <4>2. <<a>> \o <<u>> \o <<x, y, w>> = <<a, u, x, y, w>>
        BY JoinedEnds
      <4> QED
        BY <4>1, <4>2
    <3>3. CASE f = <<a>> /\ g = <<>>
      <4>1. s[z] = <<a>> \o <<>> \o <<x, y, w>>
        BY <3>1, <3>3
      <4> QED
        BY <4>1, JoinedEnds
    <3>4. CASE f = <<>> /\ g = <<u>>
      <4>1. s[z] = <<>> \o <<u>> \o <<x, y, w>>
        BY <3>1, <3>4
      <4> QED
        BY <4>1, JoinedEnds
    <3>5. CASE f = <<>> /\ g = <<>>
      <4>1. s[z] = <<>> \o <<>> \o <<x, y, w>>
        BY <3>1, <3>5
      <4> QED
        BY <4>1, JoinedEnds
    <3> QED
      BY <2>6, <3>1, <3>2, <3>3, <3>4, <3>5
  <2> QED
    BY <2>3, <2>4, <2>5, <2>8 DEF Fine
<1>12. \/ n \in {1, 2, 3, 4, 5, 6} \/ (n = 7 /\ q = 1)
       \/ n \in {7 + q, 8 + q, 9 + q, 10 + q} /\ e # "ok"
       \/ n \in {z - 3, z - 2, z - 1, z}
  <2>1. n \in Int /\ 1 <= n /\ n <= z
    BY <1>2
  <2> HIDE DEF q, z
  <2> QED
    BY <1>2, <2>1
<1> HIDE DEF q, z
<1> QED
  BY <1>2, <1>5, <1>6, <1>9, <1>10, <1>11, <1>12

---------------------------------------------------------------------------
(* The console: what holds between its steps. *)

Showing == thread.at \in {"play", "wait", "after", "hold"}

\* How many beats of its run the thread has played.
BeatsDone == IF thread.at = "play" THEN thread.beat - 1 ELSE thread.beat

ThisScene == Scene(thread.mode, thread.index)

MockTypes ==
  /\ board \in MockBoard /\ dropped = FALSE
  /\ driver \in [mode : AllModes, outcome : Endings \cup {"auto"}, loop : BOOLEAN]
  /\ restart \in BOOLEAN /\ stop \in {"no", "stop", "restart"}
  /\ thread \in [at : {"top", "clear", "play", "wait", "after", "hold", "ended"},
                 mode : AllModes, ending : Endings, index : 0..2, beat : Nat]
  /\ request \in [Requests ->
       [at : {"idle", "read", "configure", "restart", "reply", "done"},
        asked : AllModes \cup {"none"}, mode : AllModes \cup {"none"}]]
  /\ \A r \in Requests : request[r].at = "configure" => request[r].mode \in AllModes
  /\ Showing => thread.beat <= Ends(thread.mode, thread.ending)
  /\ thread.at = "play" => thread.beat >= 1

\* The board of no run yet.
Blank(b) == b.outcome = "running" /\ b.qc = "none" /\ ~b.routing.diverted

\* The board is of one run, or of none yet.
OfOneRun(b) ==
  \/ Blank(b)
  \/ \E m \in AllModes, e \in Endings, i \in 0..2, n \in Nat :
       n <= Ends(m, e) /\ Tells(m, e, Scene(m, i), n, b)

\* Between the reset and the end of a run it is of the run that is played.
OfThisRun ==
  Showing /\ BeatsDone > 0 =>
    Tells(thread.mode, thread.ending, ThisScene, BeatsDone, board)

\* A mode that is not the run's will be configured, or the run restarted.
ModeOfThisRun ==
  /\ \A r \in Requests : request[r].at \notin {"read", "configure", "restart"}
  /\ ~restart
  /\ Showing /\ BeatsDone > 0
  => board.mode = thread.mode

MockInv == MockTypes /\ OfOneRun(board) /\ OfThisRun /\ ModeOfThisRun

LEMMA TheBeats ==
  ASSUME MockTypes
  PROVE  /\ Beats = Script(thread.mode, thread.ending, ThisScene)
         /\ GoodScene(thread.mode, ThisScene)
         /\ Len(Beats) = Ends(thread.mode, thread.ending)
         /\ Ends(thread.mode, thread.ending) \in Nat
<1>1. thread.mode \in AllModes /\ thread.ending \in Endings /\ thread.index \in 0..2
  BY DEF MockTypes
<1>2. Beats = Script(thread.mode, thread.ending, ThisScene)
  <2>1. ASSUME NEW m \in AllModes, NEW e \in Endings, NEW i \in 0..2
        PROVE  Scripts[m][e][i] = Script(m, e, Scene(m, i))
    BY Zenon DEF Scripts, Scene
  <2> QED
    BY <1>1, <2>1 DEF Beats, ThisScene
<1>3. GoodScene(thread.mode, ThisScene)
  BY <1>1, Scenes DEF ThisScene
<1>4. Len(Beats) = Ends(thread.mode, thread.ending)
  BY <1>1, <1>2, ScriptShape
<1> QED
  BY <1>2, <1>3, <1>4 DEF Ends, Grading

LEMMA MockInvInit ==
  ASSUME ConsoleAssumption, MockInit PROVE MockInv
<1>1. StartMode \in AllModes /\ StartOutcome \in Endings \cup {"auto"}
  BY DEF ConsoleAssumption
<1>2. board = Fresh(StartMode) /\ board \in MockBoard
  BY <1>1, ResetApplied DEF MockInit, BoardInit, MockBoard
<1>3. Blank(board)
  BY <1>2 DEF Blank, Fresh, NoRouting
<1>4. MockTypes
  <2>1. thread \in [at : {"top", "clear", "play", "wait", "after", "hold", "ended"},
                    mode : AllModes, ending : Endings, index : 0..2, beat : Nat]
    BY <1>1 DEF MockInit, Endings
  <2>2. thread.at = "top"
    BY DEF MockInit
  <2>3. driver \in [mode : AllModes, outcome : Endings \cup {"auto"}, loop : BOOLEAN]
    BY <1>1 DEF MockInit
  <2>4. /\ request \in [Requests ->
               [at : {"idle", "read", "configure", "restart", "reply", "done"},
                asked : AllModes \cup {"none"}, mode : AllModes \cup {"none"}]]
        /\ \A r \in Requests : request[r].at = "idle"
    BY DEF MockInit
  <2>5. restart = FALSE /\ stop = "no" /\ dropped = FALSE
    BY DEF MockInit, BoardInit
  <2> QED
    BY <1>2, <2>1, <2>2, <2>3, <2>4, <2>5 DEF MockTypes, Showing
<1> QED
  BY <1>3, <1>4 DEF MockInv, MockInit, OfOneRun, OfThisRun, ModeOfThisRun, Showing

\* A step that leaves the board and the played beats alone.
LEMMA Unplayed ==
  ASSUME MockInv, MockTypes', board' = board,
         \/ Showing' => BeatsDone' = 0
         \/ /\ Showing' => Showing /\ BeatsDone' = BeatsDone
            /\ thread'.mode = thread.mode /\ thread'.ending = thread.ending
            /\ thread'.index = thread.index
  PROVE  OfOneRun(board') /\ OfThisRun'
<1>1. OfOneRun(board')
  BY DEF MockInv
<1>2. CASE Showing' => BeatsDone' = 0
  BY <1>1, <1>2 DEF OfThisRun
<1>3. CASE /\ Showing' => Showing /\ BeatsDone' = BeatsDone
           /\ thread'.mode = thread.mode /\ thread'.ending = thread.ending
           /\ thread'.index = thread.index
  <2>1. ThisScene' = ThisScene
    BY <1>3 DEF ThisScene
  <2> QED
    BY <1>1, <1>3, <2>1 DEF MockInv, OfThisRun
<1> QED
  BY <1>2, <1>3

\* The thread at another place of its loop.
LEMMA PlayStep ==
  ASSUME MockInv, Play PROVE MockInv'
<1> DEFINE m == thread.mode
           e == thread.ending
           sc == ThisScene
           n == thread.beat - 1
<1>1. /\ thread.at = "play" /\ thread \in [at : {"top", "clear", "play", "wait", "after",
                   "hold", "ended"}, mode : AllModes, ending : Endings, index : 0..2, beat : Nat]
      /\ thread.beat >= 1 /\ thread.beat <= Ends(m, e)
  BY DEF MockInv, MockTypes, Play, Showing
<1>2. /\ Beats = Script(m, e, sc) /\ GoodScene(m, sc) /\ Ends(m, e) \in Nat
      /\ Len(Beats) = Ends(m, e)
  BY TheBeats DEF MockInv
<1>3. m \in AllModes /\ e \in Endings /\ thread.index \in 0..2
  BY <1>1
<1>4. /\ thread' = [thread EXCEPT !.at = "wait"]
      /\ board' = Played(board, Beats[thread.beat])
      /\ dropped' = \E i \in DOMAIN Beats[thread.beat] : Raises(Beats[thread.beat][i])
      /\ UNCHANGED <<driver, restart, stop, request>>
  BY DEF Play, To
<1>5. /\ thread'.at = "wait" /\ thread'.mode = m /\ thread'.ending = e
      /\ thread'.index = thread.index /\ thread'.beat = thread.beat
      /\ thread' \in [at : {"top", "clear", "play", "wait", "after", "hold", "ended"},
                      mode : AllModes, ending : Endings, index : 0..2, beat : Nat]
  BY <1>1, <1>4
<1>6. n \in Nat /\ n < Ends(m, e) /\ n + 1 = thread.beat /\ BeatsDone = n
      /\ thread.beat \in 1..Ends(m, e) /\ n + 1 <= Ends(m, e)
  BY <1>1, <1>2 DEF BeatsDone
<1>7. n > 0 => Tells(m, e, sc, n, board)
  BY <1>1, <1>6 DEF MockInv, OfThisRun, Showing
<1>8. ThisScene' = sc
  BY <1>5 DEF ThisScene
<1>9. sc = Scene(m, thread.index)
  BY DEF ThisScene
<1>10. board' = Played(board, Script(m, e, sc)[n + 1])
  BY <1>2, <1>4, <1>6
<1>11. dropped' = FALSE
  <2>1. Fine(Script(m, e, sc)[thread.beat])
    BY <1>2, <1>3, <1>6, BeatIsFine
  <2> QED
    BY <1>2, <1>4, <2>1 DEF Fine
<1> HIDE DEF m, e, sc, n
<1>12. /\ Tells(m, e, sc, n + 1, Played(board, Script(m, e, sc)[n + 1]))
       /\ n = 0 => Played(board, Script(m, e, sc)[n + 1]).mode = m
       /\ n > 0 => Played(board, Script(m, e, sc)[n + 1]).mode = board.mode
  <2>1. GoodScene(m, sc) /\ m \in AllModes /\ e \in Endings /\ n \in Nat /\ n < Ends(m, e)
    BY <1>2, <1>3, <1>6
  <2>2. \A a \in AllModes, c \in Endings : \A d, b : \A k \in Nat :
          GoodScene(a, d) /\ k < Ends(a, c) /\ (k > 0 => Tells(a, c, d, k, b)) =>
            /\ Tells(a, c, d, k + 1, Played(b, Script(a, c, d)[k + 1]))
            /\ k = 0 => Played(b, Script(a, c, d)[k + 1]).mode = a
            /\ k > 0 => Played(b, Script(a, c, d)[k + 1]).mode = b.mode
    BY BeatTells
  <2> QED
    BY <2>1, <1>7, <2>2
<1>13. /\ Tells(m, e, sc, n + 1, board')
       /\ n = 0 => board'.mode = m
       /\ n > 0 => board'.mode = board.mode
  BY <1>10, <1>12
<1>14. n + 1 \in Nat /\ (n = 0 \/ n > 0)
  BY <1>6
<1>15. BeatsDone' = n + 1 /\ Showing'
  BY <1>5, <1>6 DEF BeatsDone, Showing
<1>16. OfThisRun'
  BY <1>5, <1>8, <1>13, <1>15 DEF OfThisRun, m, e
<1>17. OfOneRun(board')
  BY <1>3, <1>6, <1>9, <1>13, <1>14 DEF OfOneRun
<1>18. ModeOfThisRun'
  <2>1. n > 0 => (ModeOfThisRun => \/ board.mode = thread.mode \/ restart
                                   \/ \E r \in Requests :
                                        request[r].at \in {"read", "configure", "restart"})
    BY <1>1, <1>6 DEF ModeOfThisRun, Showing
  <2>2. n > 0 => board'.mode = board.mode /\ thread'.mode = thread.mode
    BY <1>5, <1>13 DEF m
  <2>3. n = 0 => board'.mode = thread'.mode
    BY <1>5, <1>13
  <2> QED
    BY <1>4, <1>14, <2>1, <2>2, <2>3 DEF ModeOfThisRun, MockInv
<1>19. MockTypes'
  <2>1. board' \in MockBoard
    BY <1>13 DEF Tells
  <2>2. Showing' => thread'.beat <= Ends(thread'.mode, thread'.ending)
    BY <1>1, <1>5 DEF m, e
  <2> QED
    BY <1>4, <1>5, <1>11, <2>1, <2>2 DEF MockTypes, MockInv
<1> QED
  BY <1>16, <1>17, <1>18, <1>19 DEF MockInv

\* The other steps of the thread leave the board alone.
LEMMA ThreadStep ==
  ASSUME MockInv, Leave \/ Take \/ Clear \/ Wait \/ Finish \/ Hold
  PROVE  MockInv'
<1>1. /\ thread \in [at : {"top", "clear", "play", "wait", "after", "hold", "ended"},
                     mode : AllModes, ending : Endings, index : 0..2, beat : Nat]
      /\ driver \in [mode : AllModes, outcome : Endings \cup {"auto"}, loop : BOOLEAN]
      /\ restart \in BOOLEAN /\ MockTypes
      /\ Showing => thread.beat <= Ends(thread.mode, thread.ending)
  BY DEF MockInv, MockTypes
<1>2. /\ board' = board /\ dropped' = dropped /\ driver' = driver /\ stop' = stop
      /\ request' = request
  BY DEF Leave, Take, Clear, Wait, Finish, Hold
<1>3. /\ restart' = restart \/ (restart' = FALSE /\ thread'.beat = 0 /\ thread'.at = "wait")
      /\ restart' \in BOOLEAN
      /\ thread' \in [at : {"top", "clear", "play", "wait", "after", "hold", "ended"},
                      mode : AllModes, ending : Endings, index : 0..2, beat : Nat]
      /\ thread'.at = "play" => thread'.beat >= 1
      /\ Showing' => thread'.beat <= Ends(thread'.mode, thread'.ending)
      /\ \/ Showing' => BeatsDone' = 0
         \/ /\ Showing' => Showing /\ BeatsDone' = BeatsDone
            /\ thread'.mode = thread.mode /\ thread'.ending = thread.ending
            /\ thread'.index = thread.index
  <2>1. CASE Leave
    BY <1>1, <2>1 DEF Leave, To, Showing, BeatsDone
  <2>2. CASE Take
    <3> DEFINE i == (thread.index + 1) % 3
               ending == IF driver.outcome = "auto" THEN Rotation[i + 1] ELSE driver.outcome
    <3>1. i \in 0..2
      BY <1>1
    <3>2. ending \in Endings
      <4>1. i = 0 \/ i = 1 \/ i = 2
        BY <3>1
      <4>2. Rotation[1] \in Endings /\ Rotation[2] \in Endings /\ Rotation[3] \in Endings
        BY DEF Rotation, Endings
      <4> HIDE DEF i
      <4>3. Rotation[i + 1] \in Endings
        BY <4>1, <4>2
      <4> QED
        BY <1>1, <4>3
    <3>3. /\ thread' = [thread EXCEPT !.at = "clear", !.mode = driver.mode, !.index = i,
                                      !.ending = ending]
          /\ restart' = restart
      BY <2>2 DEF Take
    <3> HIDE DEF i, ending
    <3> QED
      BY <1>1, <3>1, <3>2, <3>3 DEF Showing
  <2>3. CASE Clear
    <3>1. 0 <= Ends(thread.mode, thread.ending)
      BY DEF Ends, Grading
    <3>2. thread' = [thread EXCEPT !.at = "wait", !.beat = 0] /\ restart' = FALSE
      BY <2>3 DEF Clear
    <3>3. thread'.at = "wait" /\ thread'.beat = 0 /\ thread'.mode = thread.mode
          /\ thread'.ending = thread.ending
      BY <1>1, <3>2
    <3> QED
      BY <1>1, <3>1, <3>2, <3>3 DEF Showing, BeatsDone
  <2>4. CASE Wait
    <3>1. /\ Len(Beats) = Ends(thread.mode, thread.ending)
          /\ Ends(thread.mode, thread.ending) \in Nat
      BY <1>1, TheBeats
    <3>2. thread.at = "wait" /\ restart' = restart /\ thread.beat <= Len(Beats)
      BY <1>1, <2>4, <3>1 DEF Wait, Showing
    <3>3. CASE thread' = [thread EXCEPT !.at = "after"]
      BY <1>1, <3>1, <3>2, <3>3 DEF Showing, BeatsDone
    <3>4. CASE thread.beat # Len(Beats) /\ thread' = [thread EXCEPT !.at = "play", !.beat = @ + 1]
      <4>1. /\ thread'.at = "play" /\ thread'.beat = thread.beat + 1
            /\ thread'.mode = thread.mode /\ thread'.ending = thread.ending
            /\ thread'.index = thread.index
            /\ thread' \in [at : {"top", "clear", "play", "wait", "after", "hold", "ended"},
                            mode : AllModes, ending : Endings, index : 0..2, beat : Nat]
        <5>1. thread.beat + 1 \in Nat
          BY <1>1
        <5>2. thread' = [thread EXCEPT !.at = "play", !.beat = thread.beat + 1]
          BY <3>4
        <5> QED
          BY <1>1, <5>1, <5>2
      <4>2. thread.beat \in Nat
        BY <1>1
      <4> QED
        BY <1>1, <3>1, <3>2, <3>4, <4>1, <4>2 DEF Showing, BeatsDone
    <3> QED
      BY <2>4, <3>3, <3>4 DEF Wait
  <2>5. CASE Finish
    BY <1>1, <2>5 DEF Finish, To, Showing, BeatsDone
  <2>6. CASE Hold
    BY <1>1, <2>6 DEF Hold, To, Showing, BeatsDone
  <2> QED
    BY <2>1, <2>2, <2>3, <2>4, <2>5, <2>6
<1>4. MockTypes'
  BY <1>1, <1>2, <1>3 DEF MockTypes
<1>5. OfOneRun(board') /\ OfThisRun'
  BY <1>2, <1>3, <1>4, Unplayed
<1>6. ModeOfThisRun'
  <2>1. CASE Showing' => BeatsDone' = 0
    BY <2>1 DEF ModeOfThisRun
  <2>2. CASE /\ Showing' => Showing /\ BeatsDone' = BeatsDone
             /\ thread'.mode = thread.mode
    <3>1. CASE restart' = restart
      BY <1>2, <2>2, <3>1 DEF ModeOfThisRun, MockInv
    <3>2. CASE thread'.beat = 0 /\ thread'.at = "wait"
      BY <3>2 DEF ModeOfThisRun, BeatsDone
    <3> QED
      BY <1>3, <3>1, <3>2
  <2> QED
    BY <1>3, <2>1, <2>2
<1> QED
  BY <1>4, <1>5, <1>6 DEF MockInv

\* The requests, and the stop, leave the thread alone.
LEMMA HandlerStep ==
  ASSUME ConsoleAssumption, MockInv, NEW r \in Requests, Handle(r)
  PROVE  MockInv'
<1> DEFINE Requested == [Requests ->
       [at : {"idle", "read", "configure", "restart", "reply", "done"},
        asked : AllModes \cup {"none"}, mode : AllModes \cup {"none"}]]
<1>1. /\ MockTypes /\ request \in Requested /\ board \in MockBoard
      /\ board.mode \in AllModes
      /\ driver \in [mode : AllModes, outcome : Endings \cup {"auto"}, loop : BOOLEAN]
      /\ \A x \in Requests : request[x].at = "configure" => request[x].mode \in AllModes
  BY BoardFields DEF MockInv, MockTypes, MockBoard
<1>2. /\ thread' = thread /\ dropped' = dropped /\ stop' = stop
      /\ Showing' = Showing /\ BeatsDone' = BeatsDone
  BY DEF Handle, SetMode, ReadMode, ConfigureMode, Replay, Restart, Reply, Go,
         Showing, BeatsDone
<1>3. ASSUME NEW m \in AskedModes, SetMode(r, m)
      PROVE  MockInv'
  <2>1. m \in AllModes
    BY DEF ConsoleAssumption
  <2>2. /\ board' = [board EXCEPT !.mode = m]
        /\ request' = [request EXCEPT ![r] = [at |-> "read", asked |-> m, mode |-> "none"]]
        /\ UNCHANGED <<driver, restart>>
    BY <1>3 DEF SetMode
  <2>3. /\ board' \in MockBoard /\ board'.qc = board.qc /\ board'.routing = board.routing
        /\ board'.outcome = board.outcome /\ board'.alerts = board.alerts
        /\ board'.stages = board.stages /\ board'.verification = board.verification
        /\ board'.attempts = board.attempts
    BY <1>1, <2>1, <2>2 DEF MockBoard, Board
  <2>4. Severities(board') = Severities(board) /\ PlaceMotion(board') = PlaceMotion(board)
    BY <2>3 DEF Severities, PlaceMotion
  <2>5. \A a \in AllModes, e \in Endings : \A sc : \A n \in Nat :
          Tells(a, e, sc, n, board) => Tells(a, e, sc, n, board')
    BY <2>3, <2>4 DEF Tells
  <2>6. request' \in Requested /\ request'[r].at = "read"
        /\ \A x \in Requests : request'[x].at = "configure" => request'[x].mode \in AllModes
    BY <1>1, <2>1, <2>2
  <2>7. MockTypes'
    BY <1>1, <1>2, <2>2, <2>3, <2>6 DEF MockTypes
  <2>8. OfOneRun(board')
    <3>1. CASE Blank(board)
      BY <2>3, <3>1 DEF OfOneRun, Blank
    <3>2. CASE ~Blank(board)
      <4>1. PICK a \in AllModes, e \in Endings, i \in 0..2, n \in Nat :
              n <= Ends(a, e) /\ Tells(a, e, Scene(a, i), n, board)
        BY <3>2 DEF MockInv, OfOneRun
      <4>2. Tells(a, e, Scene(a, i), n, board')
        BY <2>5, <4>1
      <4> QED
        BY <4>1, <4>2 DEF OfOneRun
    <3> QED
      BY <3>1, <3>2
  <2>9. OfThisRun'
    <3> SUFFICES ASSUME Showing', BeatsDone' > 0
                 PROVE  Tells(thread'.mode, thread'.ending, ThisScene', BeatsDone', board')
      BY DEF OfThisRun
    <3>1. ThisScene' = ThisScene
      BY <1>2 DEF ThisScene
    <3>2. thread.mode \in AllModes /\ thread.ending \in Endings /\ BeatsDone \in Nat
      BY <1>1, <1>2 DEF MockTypes, BeatsDone
    <3>3. Tells(thread.mode, thread.ending, ThisScene, BeatsDone, board)
      BY <1>2 DEF MockInv, OfThisRun
    <3>4. Tells(thread.mode, thread.ending, ThisScene, BeatsDone, board')
      BY <2>5, <3>2, <3>3
    <3> QED
      BY <1>2, <3>1, <3>4
  <2> QED
    BY <2>6, <2>7, <2>8, <2>9 DEF MockInv, ModeOfThisRun
<1>4. ASSUME board' = board, request' \in Requested,
             driver' \in [mode : AllModes, outcome : Endings \cup {"auto"}, loop : BOOLEAN],
             restart' \in BOOLEAN,
             \A x \in Requests : request'[x].at = "configure" => request'[x].mode \in AllModes,
             \/ restart' = TRUE
             \/ request'[r].at \in {"read", "configure", "restart"}
             \/ /\ restart' = restart
                /\ \A x \in Requests : request'[x].at \notin {"read", "configure", "restart"}
                     => request[x].at \notin {"read", "configure", "restart"}
      PROVE  MockInv'
  <2>1. MockTypes'
    BY <1>1, <1>2, <1>4 DEF MockTypes
  <2>2. OfOneRun(board') /\ OfThisRun'
    BY <1>2, <1>4, <2>1, Unplayed
  <2>3. ModeOfThisRun'
    BY <1>2, <1>4 DEF ModeOfThisRun, MockInv
  <2> QED
    BY <2>1, <2>2, <2>3 DEF MockInv
<1>5. CASE ReadMode(r)
  <2>1. /\ request' = [request EXCEPT ![r].at = "configure", ![r].mode = board.mode]
        /\ UNCHANGED <<board, driver, restart>>
    BY <1>5 DEF ReadMode
  <2>2. /\ request' \in Requested /\ request'[r].at = "configure"
        /\ \A x \in Requests : request'[x].at = "configure" => request'[x].mode \in AllModes
    BY <1>1, <2>1
  <2> QED
    BY <1>1, <1>4, <2>1, <2>2 DEF MockTypes
<1>6. CASE ConfigureMode(r)
  <2>1. /\ driver' = [driver EXCEPT !.mode = request[r].mode]
        /\ request[r].at = "configure"
        /\ request' = [request EXCEPT ![r].at = "restart", ![r].mode = "none"]
        /\ UNCHANGED <<board, restart>>
    BY <1>6 DEF ConfigureMode
  <2>2. /\ request' \in Requested /\ request'[r].at = "restart"
        /\ \A x \in Requests : request'[x].at = "configure" => request'[x].mode \in AllModes
    BY <1>1, <2>1
  <2>3. driver' \in [mode : AllModes, outcome : Endings \cup {"auto"}, loop : BOOLEAN]
    BY <1>1, <2>1
  <2> QED
    BY <1>1, <1>4, <2>1, <2>2, <2>3 DEF MockTypes
<1>7. CASE Replay(r)
  <2>1. /\ request' = [request EXCEPT ![r].at = "restart"]
        /\ UNCHANGED <<board, restart>>
        /\ driver' = driver \/ \E o \in AskedOutcomes : driver' = [driver EXCEPT !.outcome = o]
    BY <1>7 DEF Replay, Go
  <2>2. /\ request' \in Requested /\ request'[r].at = "restart"
        /\ \A x \in Requests : request'[x].at = "configure" => request'[x].mode \in AllModes
    BY <1>1, <2>1
  <2>3. driver' \in [mode : AllModes, outcome : Endings \cup {"auto"}, loop : BOOLEAN]
    BY <1>1, <2>1 DEF ConsoleAssumption
  <2> QED
    BY <1>1, <1>4, <2>1, <2>2, <2>3 DEF MockTypes
<1>8. CASE Restart(r)
  <2> DEFINE at == IF request[r].asked = "none" THEN "done" ELSE "reply"
  <2>1. /\ request' = [request EXCEPT ![r].at = at]
        /\ UNCHANGED <<board, driver>> /\ restart' = TRUE
    BY <1>8 DEF Restart, Go
  <2>2. at \in {"done", "reply"}
    OBVIOUS
  <2> HIDE DEF at
  <2>3. /\ request' \in Requested
        /\ \A x \in Requests : request'[x].at = "configure" => request'[x].mode \in AllModes
    BY <1>1, <2>1, <2>2
  <2> QED
    BY <1>1, <1>4, <2>1, <2>3
<1>9. CASE Reply(r, board.mode)
  <2>1. /\ request' = [request EXCEPT ![r].at = "done", ![r].asked = "none"]
        /\ UNCHANGED <<board, driver, restart>> /\ request[r].at = "reply"
    BY <1>9 DEF Reply
  <2>2. /\ request' \in Requested
        /\ \A x \in Requests : request'[x].at = "configure" => request'[x].mode \in AllModes
        /\ \A x \in Requests : request'[x].at \notin {"read", "configure", "restart"}
                     => request[x].at \notin {"read", "configure", "restart"}
    BY <1>1, <2>1
  <2> QED
    BY <1>1, <1>4, <2>1, <2>2 DEF MockTypes
<1> QED
  BY <1>3, <1>5, <1>6, <1>7, <1>8, <1>9 DEF Handle

LEMMA StopStep ==
  ASSUME MockInv, Stop \/ StopRestart \/ UNCHANGED mockVars
  PROVE  MockInv'
<1>1. /\ board' = board /\ dropped' = dropped /\ driver' = driver
      /\ thread' = thread /\ request' = request
      /\ stop' \in {"no", "stop", "restart"}
      /\ restart' = restart \/ restart' = TRUE
      /\ Showing' = Showing /\ BeatsDone' = BeatsDone
  BY DEF Stop, StopRestart, mockVars, MockInv, MockTypes, Showing, BeatsDone
<1>2. MockTypes'
  BY <1>1 DEF MockTypes, MockInv
<1>3. OfOneRun(board') /\ OfThisRun'
  BY <1>1, <1>2, Unplayed
<1>4. ModeOfThisRun'
  BY <1>1 DEF ModeOfThisRun, MockInv
<1> QED
  BY <1>2, <1>3, <1>4 DEF MockInv

LEMMA MockInvNext ==
  ASSUME ConsoleAssumption, MockInv, [MockNext]_mockVars
  PROVE  MockInv'
BY PlayStep, ThreadStep, HandlerStep, StopStep DEF MockNext, RunThread, Over

LEMMA MockInvImplies ==
  ASSUME MockInv
  PROVE  ConsoleTypeOK /\ PageOfThisRun /\ MockTellsTheTruth
<1>1. MockTypes
  BY DEF MockInv
<1>2. Len(Beats) = Ends(thread.mode, thread.ending)
  BY <1>1, TheBeats
<1>3. ConsoleTypeOK
  BY <1>1, <1>2 DEF ConsoleTypeOK, MockTypes, Showing, MockBoard
<1>4. PageOfThisRun
  <2>1. thread.beat \in Nat
    BY <1>1 DEF MockTypes
  <2> QED
    BY <2>1 DEF MockInv, ModeOfThisRun, PageOfThisRun, Showing, BeatsDone
<1>5. MockTellsTheTruth
  <2>1. CASE Blank(board)
    BY <2>1 DEF Blank, MockTellsTheTruth
  <2>2. ASSUME NEW m \in AllModes, NEW e \in Endings, NEW i \in 0..2, NEW n \in Nat,
               n <= Ends(m, e), Tells(m, e, Scene(m, i), n, board)
        PROVE  MockTellsTheTruth
    BY <2>2, Scenes, TellsTruth
  <2> QED
    BY <2>1, <2>2 DEF MockInv, OfOneRun
<1> QED
  BY <1>3, <1>4, <1>5

\* The canned runs in all their endings, cut short and replaced in any order:
\* types, for any number of requests.
THEOREM ConsoleTypeCorrect == MockSpec => []ConsoleTypeOK
<1>1. MockInit => MockInv
  BY MockInvInit, ConsoleAssumption
<1>2. MockInv /\ [MockNext]_mockVars => MockInv'
  BY MockInvNext, ConsoleAssumption
<1>3. MockInv => ConsoleTypeOK
  BY MockInvImplies
<1> QED
  BY <1>1, <1>2, <1>3, PTL DEF MockSpec

\* Whatever is asked and restarted in whatever order, once it is handled the
\* page shows the mode of the run it shows (app.py:124, mock.py:566).
THEOREM PageShowsItsRun == MockSpec => []PageOfThisRun
<1>1. MockInit => MockInv
  BY MockInvInit, ConsoleAssumption
<1>2. MockInv /\ [MockNext]_mockVars => MockInv'
  BY MockInvNext, ConsoleAssumption
<1>3. MockInv => PageOfThisRun
  BY MockInvImplies
<1> QED
  BY <1>1, <1>2, <1>3, PTL DEF MockSpec

\* What the page says of how a run ended, of where a graded item went and of
\* its diversion is of one run, whichever was cut short before it
\* (mock.py:162-429, modes.py:177-248).
THEOREM MockRunsTellTheTruth == MockSpec => []MockTellsTheTruth
<1>1. MockInit => MockInv
  BY MockInvInit, ConsoleAssumption
<1>2. MockInv /\ [MockNext]_mockVars => MockInv'
  BY MockInvNext, ConsoleAssumption
<1>3. MockInv => MockTellsTheTruth
  BY MockInvImplies
<1> QED
  BY <1>1, <1>2, <1>3, PTL DEF MockSpec

---------------------------------------------------------------------------
(* A real run.  Its lines wait in the pipe, the events made of them in the *)
(* file, each still to be applied to the board that all before it lead to. *)

SeqOf(s) == \E S : s \in Seq(S)

LEMMA Joined ==
  ASSUME NEW s, SeqOf(s), NEW r, SeqOf(r)
  PROVE  /\ SeqOf(s \o r) /\ Len(s) \in Nat /\ Len(r) \in Nat
         /\ Len(s \o r) = Len(s) + Len(r)
         /\ \A i \in 1..Len(s) : (s \o r)[i] = s[i]
         /\ \A i \in 1..Len(r) : (s \o r)[Len(s) + i] = r[i]
<1>1. PICK S : s \in Seq(S)
  BY DEF SeqOf
<1>2. PICK R : r \in Seq(R)
  BY DEF SeqOf
<1> DEFINE U == S \cup R
<1>3. s \in Seq(U) /\ r \in Seq(U)
  BY <1>1, <1>2
<1> HIDE DEF U
<1>4. s \o r \in Seq(U)
  BY <1>3
<1>5. /\ Len(s) \in Nat /\ Len(r) \in Nat
      /\ Len(s \o r) = Len(s) + Len(r)
      /\ \A i \in 1..Len(s) : (s \o r)[i] = s[i]
      /\ \A i \in 1..Len(r) : (s \o r)[Len(s) + i] = r[i]
  BY <1>3
<1> QED
  BY <1>4, <1>5 DEF SeqOf

LEMMA Longer ==
  ASSUME NEW s, SeqOf(s), NEW x
  PROVE  /\ SeqOf(Append(s, x)) /\ Len(s) \in Nat
         /\ Len(Append(s, x)) = Len(s) + 1
         /\ \A i \in 1..Len(s) : Append(s, x)[i] = s[i]
         /\ Append(s, x)[Len(s) + 1] = x
         /\ s \o <<x>> = Append(s, x)
<1>1. PICK S : s \in Seq(S)
  BY DEF SeqOf
<1> DEFINE U == S \cup {x}
<1>2. s \in Seq(U) /\ x \in U /\ <<x>> \in Seq(U)
  BY <1>1
<1> HIDE DEF U
<1>3. /\ Append(s, x) \in Seq(U) /\ Len(s) \in Nat
      /\ Len(Append(s, x)) = Len(s) + 1
      /\ \A i \in 1..Len(s) : Append(s, x)[i] = s[i]
      /\ Append(s, x)[Len(s) + 1] = x
  BY <1>2
<1>4. s \o <<x>> = Append(s, x)
  <2> DEFINE a == s \o <<x>>
             b == Append(s, x)
  <2>1. a \in Seq(U) /\ b \in Seq(U) /\ Len(a) = Len(b)
    BY <1>2
  <2>2. \A i \in 1..Len(a) : a[i] = b[i]
    BY <1>2
  <2> QED
    BY <2>1, <2>2, SeqEqual
<1> QED
  BY <1>3, <1>4 DEF SeqOf

\* Several lines at once are lines one after the other.
LEMMA OneByOne ==
  ASSUME NEW s, SeqOf(s), NEW x, NEW y, NEW z
  PROVE  /\ s \o <<x>> = Append(s, x)
         /\ s \o <<x, y>> = Append(Append(s, x), y)
         /\ s \o <<x, y, z>> = Append(Append(Append(s, x), y), z)
         /\ s \o <<>> = s
<1>1. PICK S : s \in Seq(S)
  BY DEF SeqOf
<1> DEFINE U == S \cup {x, y, z}
<1>2. /\ s \in Seq(U) /\ x \in U /\ y \in U /\ z \in U
      /\ <<x, y>> \in Seq(U) /\ <<x, y, z>> \in Seq(U) /\ <<>> \in Seq(U)
  BY <1>1
<1> HIDE DEF U
<1> DEFINE a == s \o <<x, y>>
           b == Append(Append(s, x), y)
           c == s \o <<x, y, z>>
           d == Append(Append(Append(s, x), y), z)
           e == s \o <<>>
<1>3. a \in Seq(U) /\ b \in Seq(U) /\ c \in Seq(U) /\ d \in Seq(U) /\ e \in Seq(U)
  BY <1>2
<1>4. a = b
  <2>1. Len(a) = Len(b)
    BY <1>2
  <2>2. \A i \in 1..Len(a) : a[i] = b[i]
    BY <1>2
  <2> QED
    BY <1>3, <2>1, <2>2, SeqEqual
<1>5. c = d
  <2>1. Len(c) = Len(d)
    BY <1>2
  <2>2. \A i \in 1..Len(c) : c[i] = d[i]
    BY <1>2
  <2> QED
    BY <1>3, <2>1, <2>2, SeqEqual
<1>6. e = s
  <2>1. Len(e) = Len(s)
    BY <1>2
  <2>2. \A i \in 1..Len(e) : e[i] = s[i]
    BY <1>2
  <2> QED
    BY <1>2, <1>3, <2>1, <2>2, SeqEqual
<1> QED
  BY <1>4, <1>5, <1>6, Longer

LEMMA FirstAndRest ==
  ASSUME NEW s, SeqOf(s), s # <<>>
  PROVE  /\ SeqOf(Tail(s)) /\ Len(s) \in Nat /\ Len(s) >= 1 /\ Head(s) = s[1]
         /\ Len(Tail(s)) = Len(s) - 1
         /\ \A i \in 1..Len(Tail(s)) : Tail(s)[i] = s[i + 1]
<1>1. PICK S : s \in Seq(S)
  BY DEF SeqOf
<1>2. Tail(s) \in Seq(S)
  BY <1>1
<1>3. Len(s) \in Nat /\ Len(s) # 0
  BY <1>1
<1>4. Head(s) = s[1] /\ Len(Tail(s)) = Len(s) - 1
  BY <1>1
<1>5. \A i \in 1..Len(Tail(s)) : Tail(s)[i] = s[i + 1]
  BY <1>1, <1>3
<1> QED
  BY <1>2, <1>3, <1>4, <1>5 DEF SeqOf

LEMMA Pairs ==
  ASSUME NEW a, NEW b, NEW x, NEW y
  PROVE  /\ <<>> \o <<x>> = <<x>> /\ <<a>> \o <<x>> = <<a, x>>
         /\ <<>> \o <<x, y>> = <<x, y>> /\ <<a>> \o <<x, y>> = <<a, x, y>>
         /\ <<a, b>> \o <<x, y>> = <<a, b, x, y>> /\ <<a>> \o <<>> = <<a>>
<1> DEFINE S == {a, b, x, y}
<1>1. /\ <<x>> \in Seq(S) /\ <<a>> \in Seq(S) /\ <<>> \in Seq(S) /\ <<a, x>> \in Seq(S)
      /\ <<x, y>> \in Seq(S) /\ <<a, x, y>> \in Seq(S) /\ <<a, b>> \in Seq(S)
      /\ <<a, b, x, y>> \in Seq(S)
  OBVIOUS
<1> DEFINE k == <<>> \o <<x>>
           l == <<a>> \o <<x>>
           m == <<>> \o <<x, y>>
           n == <<a>> \o <<x, y>>
           o == <<a, b>> \o <<x, y>>
           p == <<a>> \o <<>>
<1>2. /\ k \in Seq(S) /\ l \in Seq(S) /\ m \in Seq(S) /\ n \in Seq(S)
      /\ o \in Seq(S) /\ p \in Seq(S)
  BY <1>1
<1> HIDE DEF S
<1>3. /\ Len(k) = 1 /\ k[1] = x /\ Len(l) = 2 /\ l[1] = a /\ l[2] = x
      /\ Len(m) = 2 /\ m[1] = x /\ m[2] = y
      /\ Len(n) = 3 /\ n[1] = a /\ n[2] = x /\ n[3] = y
      /\ Len(o) = 4 /\ o[1] = a /\ o[2] = b /\ o[3] = x /\ o[4] = y
      /\ Len(p) = 1 /\ p[1] = a
  OBVIOUS
<1> HIDE DEF k, l, m, n, o, p
<1>4. k = <<x>>
  <2>1. \A i \in 1..Len(k) : k[i] = <<x>>[i]
    BY <1>3
  <2> QED
    BY <1>1, <1>2, <1>3, <2>1, SeqEqual
<1>5. l = <<a, x>>
  <2>1. \A i \in 1..Len(l) : l[i] = <<a, x>>[i]
    BY <1>3
  <2> QED
    BY <1>1, <1>2, <1>3, <2>1, SeqEqual
<1>6. m = <<x, y>>
  <2>1. \A i \in 1..Len(m) : m[i] = <<x, y>>[i]
    BY <1>3
  <2> QED
    BY <1>1, <1>2, <1>3, <2>1, SeqEqual
<1>7. n = <<a, x, y>>
  <2>1. \A i \in 1..Len(n) : n[i] = <<a, x, y>>[i]
    BY <1>3
  <2> QED
    BY <1>1, <1>2, <1>3, <2>1, SeqEqual
<1>8. o = <<a, b, x, y>>
  <2>1. \A i \in 1..Len(o) : o[i] = <<a, b, x, y>>[i]
    BY <1>3
  <2> QED
    BY <1>1, <1>2, <1>3, <2>1, SeqEqual
<1>9. p = <<a>>
  <2>1. \A i \in 1..Len(p) : p[i] = <<a>>[i]
    BY <1>3
  <2> QED
    BY <1>1, <1>2, <1>3, <2>1, SeqEqual
<1> QED
  BY <1>4, <1>5, <1>6, <1>7, <1>8, <1>9 DEF k, l, m, n, o, p

LEMMA OneAndTwo ==
  ASSUME NEW a, NEW x, NEW y
  PROVE  <<a>> \o <<x, y>> = <<a, x, y>>
<1>1. /\ <<>> \o <<x>> = <<x>> /\ <<a>> \o <<x>> = <<a, x>>
      /\ <<>> \o <<x, y>> = <<x, y>> /\ <<a>> \o <<x, y>> = <<a, x, y>>
      /\ <<a, a>> \o <<x, y>> = <<a, a, x, y>> /\ <<a>> \o <<>> = <<a>>
  BY Pairs
<1> QED
  BY <1>1

LEMMA TwoAndTwo ==
  ASSUME NEW a, NEW b, NEW x, NEW y
  PROVE  <<a, b>> \o <<x, y>> = <<a, b, x, y>>
<1>1. /\ <<>> \o <<x>> = <<x>> /\ <<a>> \o <<x>> = <<a, x>>
      /\ <<>> \o <<x, y>> = <<x, y>> /\ <<a>> \o <<x, y>> = <<a, x, y>>
      /\ <<a, b>> \o <<x, y>> = <<a, b, x, y>> /\ <<a>> \o <<>> = <<a>>
  BY Pairs
<1> QED
  BY <1>1

Status(b, s) == b.stages[s].status
Motion(b, s) == b.stages[s].motion

\* Only stage s is at work; with "none", none is.
AtWork(b, s) == \A x \in StageNames : Status(b, x) = "active" => x = s

\* DETECT is not green for work that never happened.
Detected(b) == Status(b, "DETECT") = "done" => b.detection \/ b.outcome = "failed"

Recorded(k, stage) == \E i \in DOMAIN k.stages : k.stages[i] = stage

\* Call k broke off in the motion of stage s, in its first attempt.
Broken(k, s) ==
  /\ k.pc = "returned" /\ k.alert = "none"
  /\ \/ s = "PICK" /\ k.stages = <<>>
     \/ s = "PLACE" /\ k.stages = <<"picked">>

\* What the board says is done, call k has done, or broke off in.
DoneBy(k, b) ==
  /\ Status(b, "PICK") = "done" =>
       Recorded(k, "picked") \/ (b.outcome = "failed" /\ Broken(k, "PICK"))
  /\ Status(b, "PLACE") = "done" =>
       Recorded(k, "placed") \/ (b.outcome = "failed" /\ Broken(k, "PLACE"))
  /\ Status(b, "VERIFY") = "done" => Recorded(k, "verified")

\* The moves in these states are shown as commanded, the pick as the attempt's.
AsCommanded(b, states) ==
  \A s \in MotionStages : Status(b, s) \in states =>
    /\ Motion(b, s).state = "commanded"
    /\ s = "PICK" => Motion(b, s).attempt = b.attempt

\* What the strip of board b must be while it shows call k.
Right(k, b) ==
  /\ DoneBy(k, b)
  /\ \E s : AtWork(b, s)
  /\ AsCommanded(b, {"done"})

\* A board that may still come to be followed by a reset is not of call k.
Fits(k, b, live) == b \in Board(Orders) /\ Detected(b) /\ (live => Right(k, b))

\* The boards that a file s leads to from b, the last of them end.
FileLeads(k, s, b, end, live) ==
  /\ SeqOf(s)
  /\ \E f : /\ Leads(f, b, s, Len(s)) /\ f[Len(s)] = end
            /\ \A j \in 0..Len(s) :
                 Fits(k, f[j], live /\ \A i \in (j + 1)..Len(s) : s[i].kind # "reset")

\* The events of line l, and the boards they lead to.
LineLeads(k, t, b, l, live) ==
  LET s == Events(t, l)
  IN /\ SeqOf(s)
     /\ l.text = "order" => Len(s) >= 1 /\ s[1].kind = "reset"
     /\ \E f : /\ Leads(f, b, s, Len(s)) /\ f[Len(s)] = Played(b, s)
               /\ \A j \in 0..Len(s) :
                    Fits(k, f[j], live /\ (l.text = "order" => j >= 1))

\* What follows the i-th line is of the same run.
LastRun(s, i) == \A j \in (i + 1)..Len(s) : s[j].text # "order"

\* The translators and the boards that a pipe s leads to, the last of them u
\* and end; s[i] is read in state p[i - 1].
PipeLeads(k, s, t, b, u, end) ==
  /\ SeqOf(s)
  /\ \E p : /\ p[0] = [t |-> t, b |-> b] /\ p[Len(s)] = [t |-> u, b |-> end]
            /\ \A i \in 1..Len(s) :
                 /\ p[i] = [t |-> After(p[i - 1].t, s[i]),
                            b |-> Played(p[i - 1].b, Events(p[i - 1].t, s[i]))]
                 /\ LineLeads(k, p[i - 1].t, p[i - 1].b, s[i], LastRun(s, i))

\* Call k goes on to be l.
GoesOn(k, l) ==
  /\ \A stage : Recorded(k, stage) => Recorded(l, stage)
  /\ \A s : Broken(k, s) => Broken(l, s)

LEMMA FitsLess ==
  ASSUME NEW k, NEW l, NEW b, NEW live, NEW still, Fits(k, b, live),
         still => live /\ GoesOn(k, l)
  PROVE  Fits(l, b, still)
BY DEF Fits, Right, DoneBy, GoesOn

LEMMA LineLess ==
  ASSUME NEW k, NEW l, NEW t, NEW b, NEW line, NEW live, NEW still,
         LineLeads(k, t, b, line, live), still => live /\ GoesOn(k, l)
  PROVE  LineLeads(l, t, b, line, still)
<1> DEFINE s == Events(t, line)
<1>1. PICK f : /\ Leads(f, b, s, Len(s)) /\ f[Len(s)] = Played(b, s)
               /\ \A j \in 0..Len(s) :
                    Fits(k, f[j], live /\ (line.text = "order" => j >= 1))
  BY DEF LineLeads
<1>2. SeqOf(s) /\ (line.text = "order" => Len(s) >= 1 /\ s[1].kind = "reset")
  BY DEF LineLeads
<1> HIDE DEF s
<1>3. ASSUME NEW j \in 0..Len(s)
      PROVE Fits(l, f[j], still /\ (line.text = "order" => j >= 1))
  <2>1. Fits(k, f[j], live /\ (line.text = "order" => j >= 1))
    BY <1>1
  <2> QED
    BY <2>1, FitsLess
<1> QED
  BY <1>1, <1>2, <1>3 DEF LineLeads, s

\* The dashboard is at the start of the file.
LEMMA FileNow ==
  ASSUME NEW k, NEW s, NEW b, NEW end, NEW live, FileLeads(k, s, b, end, live)
  PROVE  Fits(k, b, live /\ \A i \in 1..Len(s) : s[i].kind # "reset")
<1>1. PICK f : /\ Leads(f, b, s, Len(s))
               /\ \A j \in 0..Len(s) :
                    Fits(k, f[j], live /\ \A i \in (j + 1)..Len(s) : s[i].kind # "reset")
  BY DEF FileLeads
<1>2. Len(s) \in Nat
  BY Longer DEF FileLeads
<1>3. f[0] = b /\ 0 \in 0..Len(s) /\ 0 + 1 = 1
  BY <1>1, <1>2 DEF Leads
<1>4. Fits(k, f[0], live /\ \A i \in (0 + 1)..Len(s) : s[i].kind # "reset")
  BY <1>1, <1>3
<1> QED
  BY <1>3, <1>4

LEMMA FileEmpty ==
  ASSUME NEW k, NEW b, NEW live
  PROVE  /\ \A end : FileLeads(k, <<>>, b, end, live) => end = b
         /\ Fits(k, b, live) => FileLeads(k, <<>>, b, b, live)
<1>1. Len(<<>>) = 0 /\ SeqOf(<<>>)
  BY DEF SeqOf
<1>2. ASSUME NEW end, FileLeads(k, <<>>, b, end, live) PROVE end = b
  BY <1>1, <1>2 DEF FileLeads, Leads
<1>3. ASSUME Fits(k, b, live) PROVE FileLeads(k, <<>>, b, b, live)
  <2>1. PICK g : Leads(g, b, <<>>, 0)
    BY LeadsExists
  <2>2. g[0] = b
    BY <2>1 DEF Leads
  <2>3. \A j \in 0..0 : j = 0
    OBVIOUS
  <2>4. Fits(k, g[0], live /\ \A i \in 1..0 : <<>>[i].kind # "reset")
    BY <1>3, <2>2, FitsLess DEF GoesOn
  <2> QED
    BY <1>1, <2>1, <2>2, <2>3, <2>4 DEF FileLeads
<1> QED
  BY <1>2, <1>3

LEMMA FileLess ==
  ASSUME NEW k, NEW l, NEW s, NEW b, NEW end, NEW live, NEW still,
         FileLeads(k, s, b, end, live), still => live /\ GoesOn(k, l)
  PROVE  FileLeads(l, s, b, end, still)
<1>1. PICK f : /\ Leads(f, b, s, Len(s)) /\ f[Len(s)] = end
               /\ \A j \in 0..Len(s) :
                    Fits(k, f[j], live /\ \A i \in (j + 1)..Len(s) : s[i].kind # "reset")
  BY DEF FileLeads
<1>2. ASSUME NEW j \in 0..Len(s)
      PROVE Fits(l, f[j], still /\ \A i \in (j + 1)..Len(s) : s[i].kind # "reset")
  <2>1. Fits(k, f[j], live /\ \A i \in (j + 1)..Len(s) : s[i].kind # "reset")
    BY <1>1
  <2> QED
    BY <2>1, FitsLess
<1> QED
  BY <1>1, <1>2 DEF FileLeads

\* An event is followed.
LEMMA FileNext ==
  ASSUME NEW k, NEW s, NEW b, NEW end, NEW live,
         FileLeads(k, s, b, end, live), s # <<>>
  PROVE  FileLeads(k, Tail(s), Apply(b, Head(s)), end, live)
<1> DEFINE r == Tail(s)
           n == Len(r)
<1>1. PICK f : /\ Leads(f, b, s, Len(s)) /\ f[Len(s)] = end
               /\ \A j \in 0..Len(s) :
                    Fits(k, f[j], live /\ \A i \in (j + 1)..Len(s) : s[i].kind # "reset")
  BY DEF FileLeads
<1>2. /\ SeqOf(r) /\ Head(s) = s[1] /\ Len(s) \in Nat /\ Len(s) >= 1 /\ n = Len(s) - 1
      /\ \A i \in 1..n : r[i] = s[i + 1]
  BY FirstAndRest DEF FileLeads
<1> HIDE DEF r, n
<1>3. \A j \in 0..Len(s) : f[j] = IF j = 0 THEN b ELSE Apply(f[j - 1], s[j])
  BY <1>1 DEF Leads
<1> DEFINE g == [j \in 0..n |-> f[j + 1]]
<1>4. Leads(g, Apply(b, s[1]), r, n)
  <2>1. ASSUME NEW j \in 0..n
        PROVE g[j] = IF j = 0 THEN Apply(b, s[1]) ELSE Apply(g[j - 1], r[j])
    <3>1. j + 1 \in 0..Len(s) /\ j + 1 # 0 /\ (j + 1) - 1 = j /\ 0 \in 0..Len(s)
      BY <1>2
    <3>2. g[j] = Apply(f[j], s[j + 1])
      BY <1>3, <3>1
    <3>3. CASE j = 0
      BY <1>3, <3>1, <3>2, <3>3
    <3>4. CASE j # 0
      <4>1. r[j] = s[j + 1] /\ j - 1 \in 0..n /\ (j - 1) + 1 = j
        BY <1>2, <3>4
      <4> QED
        BY <3>2, <3>4, <4>1
    <3> QED
      BY <3>3, <3>4
  <2> QED
    BY <2>1 DEF Leads
<1>5. g[n] = end
  BY <1>1, <1>2
<1>6. ASSUME NEW j \in 0..n
      PROVE Fits(k, g[j], live /\ \A i \in (j + 1)..n : r[i].kind # "reset")
  <2>1. j + 1 \in 0..Len(s)
    BY <1>2
  <2>2. Fits(k, f[j + 1], live /\ \A i \in ((j + 1) + 1)..Len(s) : s[i].kind # "reset")
    BY <1>1, <2>1
  <2>3. (\A i \in (j + 1)..n : r[i].kind # "reset") =>
          \A i \in ((j + 1) + 1)..Len(s) : s[i].kind # "reset"
    <3> SUFFICES ASSUME \A i \in (j + 1)..n : r[i].kind # "reset",
                        NEW i \in ((j + 1) + 1)..Len(s)
                 PROVE  s[i].kind # "reset"
      OBVIOUS
    <3>1. i - 1 \in (j + 1)..n /\ i - 1 \in 1..n /\ (i - 1) + 1 = i
      BY <1>2
    <3> QED
      BY <1>2, <3>1
  <2>4. g[j] = f[j + 1]
    OBVIOUS
  <2> HIDE DEF g
  <2> QED
    BY <2>2, <2>3, <2>4, FitsLess DEF GoesOn
<1> HIDE DEF g
<1> QED
  BY <1>2, <1>4, <1>5, <1>6 DEF FileLeads, r, n

\* The events of a line are written.
LEMMA FileWritten ==
  ASSUME NEW k, NEW s, NEW b, NEW end, NEW live, NEW still,
         FileLeads(k, s, b, end, live),
         NEW t, NEW line, LineLeads(k, t, end, line, still),
         still /\ line.text # "order" => live
  PROVE  FileLeads(k, s \o Events(t, line), b, Played(end, Events(t, line)), still)
<1> DEFINE ev == Events(t, line)
           m == Len(s)
           n == Len(ev)
           r == s \o ev
<1>1. PICK f : /\ Leads(f, b, s, m) /\ f[m] = end
               /\ \A j \in 0..m :
                    Fits(k, f[j], live /\ \A i \in (j + 1)..m : s[i].kind # "reset")
  BY DEF FileLeads
<1>2. PICK g : /\ Leads(g, end, ev, n) /\ g[n] = Played(end, ev)
               /\ \A j \in 0..n : Fits(k, g[j], still /\ (line.text = "order" => j >= 1))
  BY DEF LineLeads
<1>3. /\ SeqOf(ev) /\ SeqOf(s)
      /\ line.text = "order" => n >= 1 /\ ev[1].kind = "reset"
  BY DEF LineLeads, FileLeads
<1> HIDE DEF ev
<1>4. /\ SeqOf(r) /\ m \in Nat /\ n \in Nat /\ Len(r) = m + n
      /\ \A i \in 1..m : r[i] = s[i]
      /\ \A i \in 1..n : r[m + i] = ev[i]
  BY <1>3, Joined
<1> HIDE DEF m, n, r
<1>5. /\ \A j \in 0..m : f[j] = IF j = 0 THEN b ELSE Apply(f[j - 1], s[j])
      /\ \A j \in 0..n : g[j] = IF j = 0 THEN end ELSE Apply(g[j - 1], ev[j])
  BY <1>1, <1>2 DEF Leads
<1> DEFINE h == [j \in 0..(m + n) |-> IF j <= m THEN f[j] ELSE g[j - m]]
<1>6. /\ \A j \in 0..m : h[j] = f[j]
      /\ \A j \in 0..n : h[m + j] = g[j]
  <2>1. \A j \in 0..m : h[j] = f[j]
    BY <1>4
  <2>2. ASSUME NEW j \in 0..n PROVE h[m + j] = g[j]
    <3>1. CASE j = 0
      <4>1. m + j = m /\ m \in 0..m /\ 0 \in 0..n
        BY <1>4, <3>1
      <4> QED
        BY <1>1, <1>5, <2>1, <3>1, <4>1
    <3>2. CASE j # 0
      <4>1. m + j \in 0..(m + n) /\ ~(m + j <= m) /\ (m + j) - m = j
        BY <1>4, <3>2
      <4> QED
        BY <4>1
    <3> QED
      BY <3>1, <3>2
  <2> QED
    BY <2>1, <2>2
<1>7. \A j \in 0..(m + n) : j \in 0..m \/ \E i \in 1..n : j = m + i
  <2> SUFFICES ASSUME NEW j \in 0..(m + n), j \notin 0..m PROVE \E i \in 1..n : j = m + i
    OBVIOUS
  <2>1. j - m \in 1..n /\ j = m + (j - m)
    BY <1>4
  <2> QED
    BY <2>1
<1>8. Leads(h, b, r, m + n)
  <2>1. ASSUME NEW j \in 0..(m + n)
        PROVE h[j] = IF j = 0 THEN b ELSE Apply(h[j - 1], r[j])
    <3>1. CASE j \in 0..m
      <4>1. j # 0 => j - 1 \in 0..m /\ j \in 1..m
        BY <1>4, <3>1
      <4> HIDE DEF h
      <4> QED
        BY <1>4, <1>5, <1>6, <3>1, <4>1
    <3>2. ASSUME NEW i \in 1..n, j = m + i PROVE h[j] = Apply(h[j - 1], r[j]) /\ j # 0
      <4>1. i \in 0..n /\ i # 0 /\ i - 1 \in 0..n /\ j - 1 = m + (i - 1) /\ j # 0
        BY <1>4, <3>2
      <4>2. r[j] = ev[i]
        BY <1>4, <3>2
      <4> HIDE DEF h
      <4>3. h[j] = g[i] /\ h[j - 1] = g[i - 1] /\ g[i] = Apply(g[i - 1], ev[i])
        BY <1>5, <1>6, <3>2, <4>1
      <4> QED
        BY <4>1, <4>2, <4>3
    <3> HIDE DEF h
    <3> QED
      BY <1>7, <3>1, <3>2
  <2> QED
    BY <2>1 DEF Leads
<1> HIDE DEF h
<1>9. ASSUME NEW j \in 0..(m + n)
      PROVE Fits(k, h[j], still /\ \A i \in (j + 1)..(m + n) : r[i].kind # "reset")
  <2> DEFINE quiet == \A i \in (j + 1)..(m + n) : r[i].kind # "reset"
  <2>1. CASE j \in 0..m
    <3>1. still /\ quiet => live /\ \A i \in (j + 1)..m : s[i].kind # "reset"
      <4> SUFFICES ASSUME still, quiet
                   PROVE  live /\ \A i \in (j + 1)..m : s[i].kind # "reset"
        OBVIOUS
      <4>1. line.text # "order"
        <5> SUFFICES ASSUME line.text = "order" PROVE FALSE
          OBVIOUS
        <5>1. m + 1 \in (j + 1)..(m + n) /\ 1 \in 1..n
          BY <1>3, <1>4, <2>1
        <5>2. r[m + 1].kind = "reset"
          BY <1>3, <1>4, <5>1
        <5> QED
          BY <5>1, <5>2
      <4>2. ASSUME NEW i \in (j + 1)..m PROVE s[i].kind # "reset"
        <5>1. i \in (j + 1)..(m + n) /\ i \in 1..m
          BY <1>4, <2>1
        <5> QED
          BY <1>4, <5>1
      <4> QED
        BY <4>1, <4>2
    <3>2. Fits(k, f[j], live /\ \A i \in (j + 1)..m : s[i].kind # "reset") /\ h[j] = f[j]
      BY <1>1, <1>6, <2>1
    <3> HIDE DEF quiet
    <3>3. Fits(k, h[j], still /\ quiet)
      BY <3>1, <3>2, FitsLess DEF GoesOn
    <3> QED
      BY <3>3 DEF quiet
  <2>2. ASSUME NEW i \in 1..n, j = m + i PROVE Fits(k, h[j], still /\ quiet)
    <3>1. i \in 0..n /\ i >= 1
      BY <1>4
    <3>2. Fits(k, g[i], still /\ (line.text = "order" => i >= 1)) /\ h[j] = g[i]
      BY <1>2, <1>6, <2>2, <3>1
    <3> HIDE DEF quiet
    <3> QED
      BY <3>1, <3>2, FitsLess DEF GoesOn
  <2> QED
    BY <1>7, <2>1, <2>2
<1>10. h[m + n] = Played(end, ev)
  <2>1. n \in 0..n
    BY <1>4
  <2> QED
    BY <1>2, <1>6, <2>1
<1>11. FileLeads(k, r, b, Played(end, ev), still)
  <2>1. \A j \in 0..Len(r) :
          Fits(k, h[j], still /\ \A i \in (j + 1)..Len(r) : r[i].kind # "reset")
    BY <1>4, <1>9
  <2> QED
    BY <1>4, <1>8, <1>10, <2>1 DEF FileLeads
<1> QED
  BY <1>11 DEF r, ev

\* A line is printed, while the call goes on to be l; the order's line starts
\* another one.
LEMMA PipeLonger ==
  ASSUME NEW k, NEW l, NEW s, NEW t, NEW b, NEW u, NEW end, PipeLeads(k, s, t, b, u, end),
         NEW line, LineLeads(l, u, end, line, TRUE),
         line.text # "order" => GoesOn(k, l)
  PROVE  PipeLeads(l, Append(s, line), t, b, After(u, line), Played(end, Events(u, line)))
<1> DEFINE n == Len(s)
           r == Append(s, line)
           next == [t |-> After(u, line), b |-> Played(end, Events(u, line))]
<1>1. PICK p : /\ p[0] = [t |-> t, b |-> b] /\ p[n] = [t |-> u, b |-> end]
               /\ \A i \in 1..n :
                    /\ p[i] = [t |-> After(p[i - 1].t, s[i]),
                               b |-> Played(p[i - 1].b, Events(p[i - 1].t, s[i]))]
                    /\ LineLeads(k, p[i - 1].t, p[i - 1].b, s[i], LastRun(s, i))
  BY DEF PipeLeads
<1>2. /\ SeqOf(r) /\ n \in Nat /\ Len(r) = n + 1
      /\ \A i \in 1..n : r[i] = s[i]
      /\ r[n + 1] = line
  BY Longer DEF PipeLeads
<1> HIDE DEF n, r
<1> DEFINE q == [i \in 0..(n + 1) |-> IF i <= n THEN p[i] ELSE next]
<1>3. (\A i \in 0..n : q[i] = p[i]) /\ q[n + 1] = next
  BY <1>2
<1> HIDE DEF q
<1>4. ASSUME NEW i \in 1..(n + 1)
      PROVE /\ q[i] = [t |-> After(q[i - 1].t, r[i]),
                       b |-> Played(q[i - 1].b, Events(q[i - 1].t, r[i]))]
            /\ LineLeads(l, q[i - 1].t, q[i - 1].b, r[i], LastRun(r, i))
  <2>1. CASE i = n + 1
    <3>1. q[i - 1] = [t |-> u, b |-> end] /\ r[i] = line /\ q[i] = next
      BY <1>1, <1>2, <1>3, <2>1
    <3>2. q[i - 1].t = u /\ q[i - 1].b = end
      BY <3>1
    <3>3. GoesOn(l, l)
      BY DEF GoesOn
    <3>4. LineLeads(l, u, end, line, LastRun(r, i))
      BY <3>3, LineLess
    <3> QED
      BY <3>1, <3>2, <3>4
  <2>2. CASE i # n + 1
    <3>1. i \in 1..n /\ i \in 0..n /\ i - 1 \in 0..n
      BY <1>2, <2>2
    <3>2. q[i] = p[i] /\ q[i - 1] = p[i - 1] /\ r[i] = s[i]
      BY <1>2, <1>3, <3>1
    <3>3. LastRun(r, i) => LastRun(s, i) /\ GoesOn(k, l)
      <4> SUFFICES ASSUME LastRun(r, i) PROVE LastRun(s, i) /\ GoesOn(k, l)
        OBVIOUS
      <4>1. LastRun(s, i)
        BY <1>2, <3>1 DEF LastRun, n
      <4>2. n + 1 \in (i + 1)..(n + 1)
        BY <1>2, <3>1
      <4> QED
        BY <1>2, <4>1, <4>2 DEF LastRun
    <3>4. LineLeads(k, q[i - 1].t, q[i - 1].b, r[i], LastRun(s, i))
      BY <1>1, <3>1, <3>2
    <3>5. LineLeads(l, q[i - 1].t, q[i - 1].b, r[i], LastRun(r, i))
      BY <3>3, <3>4, LineLess
    <3> QED
      BY <1>1, <3>1, <3>2, <3>5
  <2> QED
    BY <2>1, <2>2
<1>5. q[0] = [t |-> t, b |-> b]
  BY <1>1, <1>2, <1>3
<1>6. PipeLeads(l, r, t, b, After(u, line), Played(end, Events(u, line)))
  BY <1>2, <1>3, <1>4, <1>5 DEF PipeLeads
<1> QED
  BY <1>6 DEF r

\* The call goes on and prints nothing.
LEMMA PipeGrows ==
  ASSUME NEW k, NEW l, NEW s, NEW t, NEW b, NEW u, NEW end, PipeLeads(k, s, t, b, u, end),
         GoesOn(k, l)
  PROVE  PipeLeads(l, s, t, b, u, end)
<1> DEFINE n == Len(s)
<1>1. PICK p : /\ p[0] = [t |-> t, b |-> b] /\ p[n] = [t |-> u, b |-> end]
               /\ \A i \in 1..n :
                    /\ p[i] = [t |-> After(p[i - 1].t, s[i]),
                               b |-> Played(p[i - 1].b, Events(p[i - 1].t, s[i]))]
                    /\ LineLeads(k, p[i - 1].t, p[i - 1].b, s[i], LastRun(s, i))
  BY DEF PipeLeads
<1>2. ASSUME NEW i \in 1..n
      PROVE LineLeads(l, p[i - 1].t, p[i - 1].b, s[i], LastRun(s, i))
  BY <1>1, LineLess
<1> QED
  BY <1>1, <1>2 DEF PipeLeads

\* A line is read.
LEMMA PipeNext ==
  ASSUME NEW k, NEW s, NEW t, NEW b, NEW u, NEW end, PipeLeads(k, s, t, b, u, end),
         s # <<>>
  PROVE  /\ LineLeads(k, t, b, Head(s), LastRun(Tail(s), 0))
         /\ PipeLeads(k, Tail(s), After(t, Head(s)), Played(b, Events(t, Head(s))), u, end)
<1> DEFINE r == Tail(s)
           n == Len(r)
<1>1. PICK p : /\ p[0] = [t |-> t, b |-> b] /\ p[Len(s)] = [t |-> u, b |-> end]
               /\ \A i \in 1..Len(s) :
                    /\ p[i] = [t |-> After(p[i - 1].t, s[i]),
                               b |-> Played(p[i - 1].b, Events(p[i - 1].t, s[i]))]
                    /\ LineLeads(k, p[i - 1].t, p[i - 1].b, s[i], LastRun(s, i))
  BY DEF PipeLeads
<1>2. /\ SeqOf(r) /\ Head(s) = s[1] /\ Len(s) \in Nat /\ Len(s) >= 1 /\ n = Len(s) - 1
      /\ \A i \in 1..n : r[i] = s[i + 1]
  BY FirstAndRest DEF PipeLeads
<1> HIDE DEF r, n
<1>3. n \in Nat /\ Len(s) = n + 1
  BY <1>2
<1>4. ASSUME NEW i \in 0..n, LastRun(r, i) PROVE LastRun(s, i + 1)
  <2> SUFFICES ASSUME NEW j \in ((i + 1) + 1)..Len(s) PROVE s[j].text # "order"
    BY DEF LastRun
  <2>1. j - 1 \in (i + 1)..n /\ j - 1 \in 1..n /\ (j - 1) + 1 = j
    BY <1>3
  <2> QED
    BY <1>2, <1>4, <2>1 DEF LastRun, n
<1>5. GoesOn(k, k)
  BY DEF GoesOn
<1>6. LineLeads(k, t, b, Head(s), LastRun(r, 0))
  <2>1. 1 \in 1..Len(s) /\ 1 - 1 = 0 /\ p[0].t = t /\ p[0].b = b /\ 0 \in 0..n
    BY <1>1, <1>3
  <2>2. LineLeads(k, t, b, s[1], LastRun(s, 1))
    BY <1>1, <2>1
  <2>3. LastRun(r, 0) => LastRun(s, 1)
    <3>1. 0 + 1 = 1
      OBVIOUS
    <3> QED
      BY <1>4, <2>1, <3>1
  <2> QED
    BY <1>2, <1>5, <2>2, <2>3, LineLess
<1> DEFINE q == [i \in 0..n |-> p[i + 1]]
<1>7. \A i \in 0..n : q[i] = p[i + 1]
  OBVIOUS
<1>8. q[0] = [t |-> After(t, Head(s)), b |-> Played(b, Events(t, Head(s)))]
  <2>1. /\ 1 \in 1..Len(s) /\ 1 - 1 = 0 /\ p[0].t = t /\ p[0].b = b /\ 0 \in 0..n
        /\ 0 + 1 = 1
    BY <1>1, <1>3
  <2> QED
    BY <1>1, <1>2, <1>7, <2>1
<1>9. q[n] = [t |-> u, b |-> end]
  BY <1>1, <1>3
<1> HIDE DEF q
<1>10. ASSUME NEW i \in 1..n
       PROVE /\ q[i] = [t |-> After(q[i - 1].t, r[i]),
                        b |-> Played(q[i - 1].b, Events(q[i - 1].t, r[i]))]
             /\ LineLeads(k, q[i - 1].t, q[i - 1].b, r[i], LastRun(r, i))
  <2>1. i \in 0..n /\ i - 1 \in 0..n /\ i + 1 \in 1..Len(s) /\ (i + 1) - 1 = i
        /\ (i - 1) + 1 = i
    BY <1>3
  <2>2. q[i] = p[i + 1] /\ q[i - 1] = p[i] /\ r[i] = s[i + 1]
    BY <1>2, <1>7, <2>1
  <2>3. /\ p[i + 1] = [t |-> After(p[i].t, s[i + 1]),
                       b |-> Played(p[i].b, Events(p[i].t, s[i + 1]))]
        /\ LineLeads(k, p[i].t, p[i].b, s[i + 1], LastRun(s, i + 1))
    BY <1>1, <2>1
  <2>4. LastRun(r, i) => LastRun(s, i + 1)
    BY <1>4, <2>1
  <2>5. LineLeads(k, q[i - 1].t, q[i - 1].b, r[i], LastRun(r, i))
    BY <1>5, <2>2, <2>3, <2>4, LineLess
  <2> QED
    BY <2>2, <2>3, <2>5
<1>11. PipeLeads(k, r, After(t, Head(s)), Played(b, Events(t, Head(s))), u, end)
  BY <1>2, <1>8, <1>9, <1>10 DEF PipeLeads, n
<1> QED
  BY <1>6, <1>11 DEF r, n

LEMMA PipeEmpty ==
  ASSUME NEW k, NEW t, NEW b
  PROVE  /\ \A u, end : PipeLeads(k, <<>>, t, b, u, end) => u = t /\ end = b
         /\ PipeLeads(k, <<>>, t, b, t, b)
<1>1. Len(<<>>) = 0 /\ SeqOf(<<>>)
  BY DEF SeqOf
<1>2. ASSUME NEW u, NEW end, PipeLeads(k, <<>>, t, b, u, end) PROVE u = t /\ end = b
  <2>1. PICK p : p[0] = [t |-> t, b |-> b] /\ p[0] = [t |-> u, b |-> end]
    BY <1>1, <1>2 DEF PipeLeads
  <2>2. p[0].t = t /\ p[0].t = u /\ p[0].b = b /\ p[0].b = end
    BY <2>1
  <2> QED
    BY <2>2
<1>3. PipeLeads(k, <<>>, t, b, t, b)
  <2> DEFINE p == [i \in {0} |-> [t |-> t, b |-> b]]
  <2>1. p[0] = [t |-> t, b |-> b] /\ \A i \in 1..0 : FALSE
    OBVIOUS
  <2> HIDE DEF p
  <2> QED
    BY <1>1, <2>1 DEF PipeLeads
<1> QED
  BY <1>2, <1>3

\* A line that makes no event, one, two, three or four.
LEMMA LineOfNone ==
  ASSUME NEW k, NEW t, NEW b, NEW line, SeqOf(Events(t, line)), Len(Events(t, line)) = 0,
         line.text # "order", Fits(k, b, TRUE)
  PROVE  LineLeads(k, t, b, line, TRUE)
<1> DEFINE s == Events(t, line)
<1>1. Len(s) = 0 /\ SeqOf(s)
  OBVIOUS
<1> HIDE DEF s
<1>2. PICK f : Leads(f, b, s, 0) /\ Played(b, s) = f[0]
  BY <1>1, PlayedLeads
<1>3. f[0] = b
  BY <1>2 DEF Leads
<1>4. \A j \in 0..0 : Fits(k, f[j], TRUE /\ (line.text = "order" => j >= 1))
  <2>1. \A j \in 0..0 : f[j] = b
    BY <1>3
  <2> QED
    BY <2>1, FitsLess DEF GoesOn
<1>5. LineLeads(k, t, b, line, TRUE)
  BY <1>1, <1>2, <1>4 DEF LineLeads, s
<1> QED
  BY <1>5

LEMMA LineOfOne ==
  ASSUME NEW k, NEW t, NEW b, NEW line, NEW d, Events(t, line) = <<d>>,
         NEW b1, b1 = Apply(b, d), line.text # "order", Fits(k, b, TRUE), Fits(k, b1, TRUE)
  PROVE  LineLeads(k, t, b, line, TRUE) /\ Played(b, Events(t, line)) = b1
<1> DEFINE s == Events(t, line)
<1>1. Len(s) = 1 /\ s[1] = d /\ SeqOf(s)
  <2>1. <<d>> \in Seq({d})
    OBVIOUS
  <2>2. SeqOf(<<d>>)
    BY <2>1 DEF SeqOf
  <2>3. s = <<d>>
    OBVIOUS
  <2> HIDE DEF s
  <2> QED
    BY <2>2, <2>3
<1> HIDE DEF s
<1>2. PICK f : Leads(f, b, s, 1) /\ Played(b, s) = f[1]
  <2>1. Len(s) \in Nat /\ Len(s) = 1
    BY <1>1
  <2>2. \E f : Leads(f, b, s, Len(s)) /\ Played(b, s) = f[Len(s)]
    BY <2>1, PlayedLeads
  <2> QED
    BY <2>1, <2>2
<1>3. f[0] = b /\ f[1] = b1
  <2>1. f[0] = b /\ f[1] = Apply(f[0], s[1])
    BY <1>2 DEF Leads
  <2> QED
    BY <1>1, <2>1
<1>4. ASSUME NEW j \in 0..1 PROVE Fits(k, f[j], TRUE /\ (line.text = "order" => j >= 1))
  <2>1. j = 0 \/ j = 1
    OBVIOUS
  <2>2. Fits(k, f[j], TRUE)
    BY <1>3, <2>1
  <2> QED
    BY <2>2, FitsLess DEF GoesOn
<1>5. LineLeads(k, t, b, line, TRUE)
  BY <1>1, <1>2, <1>4 DEF LineLeads, s
<1> QED
  BY <1>2, <1>3, <1>5 DEF s

LEMMA LineOfTwo ==
  ASSUME NEW k, NEW t, NEW b, NEW line, NEW d, NEW e, Events(t, line) = <<d, e>>,
         NEW b1, b1 = Apply(b, d), NEW b2, b2 = Apply(b1, e),
         line.text # "order", Fits(k, b, TRUE), Fits(k, b1, TRUE), Fits(k, b2, TRUE)
  PROVE  LineLeads(k, t, b, line, TRUE) /\ Played(b, Events(t, line)) = b2
<1> DEFINE s == Events(t, line)
<1>1. Len(s) = 2 /\ s[1] = d /\ s[2] = e /\ SeqOf(s)
  <2>1. <<d, e>> \in Seq({d, e})
    OBVIOUS
  <2>2. SeqOf(<<d, e>>)
    BY <2>1 DEF SeqOf
  <2>3. s = <<d, e>>
    OBVIOUS
  <2> HIDE DEF s
  <2> QED
    BY <2>2, <2>3
<1> HIDE DEF s
<1>2. PICK f : Leads(f, b, s, 2) /\ Played(b, s) = f[2]
  <2>1. Len(s) \in Nat /\ Len(s) = 2
    BY <1>1
  <2>2. \E f : Leads(f, b, s, Len(s)) /\ Played(b, s) = f[Len(s)]
    BY <2>1, PlayedLeads
  <2> QED
    BY <2>1, <2>2
<1>3. f[0] = b /\ f[1] = b1 /\ f[2] = b2
  <2>1. f[0] = b /\ f[1] = Apply(f[0], s[1]) /\ f[2] = Apply(f[1], s[2])
    BY <1>2 DEF Leads
  <2> QED
    BY <1>1, <2>1
<1>4. ASSUME NEW j \in 0..2 PROVE Fits(k, f[j], TRUE /\ (line.text = "order" => j >= 1))
  <2>1. j = 0 \/ j = 1 \/ j = 2
    OBVIOUS
  <2>2. Fits(k, f[j], TRUE)
    BY <1>3, <2>1
  <2> QED
    BY <2>2, FitsLess DEF GoesOn
<1>5. LineLeads(k, t, b, line, TRUE)
  BY <1>1, <1>2, <1>4 DEF LineLeads, s
<1> QED
  BY <1>2, <1>3, <1>5 DEF s

LEMMA ThreeEvents ==
  ASSUME NEW s, NEW d, NEW e, NEW g, s = <<d, e, g>>
  PROVE  SeqOf(s) /\ Len(s) = 3 /\ s[1] = d /\ s[2] = e /\ s[3] = g
<1>1. <<d, e, g>> \in Seq({d, e, g})
  OBVIOUS
<1>2. SeqOf(s)
  BY <1>1 DEF SeqOf
<1> QED
  BY <1>2

LEMMA LineOfThree ==
  ASSUME NEW k, NEW t, NEW b, NEW line, NEW r,
         SeqOf(Events(t, line)), Len(Events(t, line)) = 3,
         r[1] = Apply(b, Events(t, line)[1]), r[2] = Apply(r[1], Events(t, line)[2]),
         r[3] = Apply(r[2], Events(t, line)[3]),
         line.text # "order", Fits(k, b, TRUE), \A i \in 1..3 : Fits(k, r[i], TRUE)
  PROVE  LineLeads(k, t, b, line, TRUE) /\ Played(b, Events(t, line)) = r[3]
<1> DEFINE s == Events(t, line)
<1>1. Len(s) = 3 /\ SeqOf(s)
  OBVIOUS
<1> HIDE DEF s
<1>2. PICK f : Leads(f, b, s, 3) /\ Played(b, s) = f[3]
  <2>1. Len(s) \in Nat /\ Len(s) = 3
    BY <1>1
  <2>2. \E f : Leads(f, b, s, Len(s)) /\ Played(b, s) = f[Len(s)]
    BY <2>1, PlayedLeads
  <2> QED
    BY <2>1, <2>2
<1>3. f[0] = b /\ f[1] = r[1] /\ f[2] = r[2] /\ f[3] = r[3]
  <2>1. /\ f[0] = b /\ f[1] = Apply(f[0], s[1]) /\ f[2] = Apply(f[1], s[2])
        /\ f[3] = Apply(f[2], s[3])
    BY <1>2 DEF Leads
  <2> QED
    BY <2>1 DEF s
<1>4. ASSUME NEW j \in 0..3 PROVE Fits(k, f[j], TRUE /\ (line.text = "order" => j >= 1))
  <2>1. j = 0 \/ j = 1 \/ j = 2 \/ j = 3
    OBVIOUS
  <2>2. f[j] = b \/ (j \in 1..3 /\ f[j] = r[j])
    BY <1>3, <2>1
  <2>3. Fits(k, f[j], TRUE)
    BY <2>2
  <2> QED
    BY <2>3, FitsLess DEF GoesOn
<1>5. LineLeads(k, t, b, line, TRUE)
  BY <1>1, <1>2, <1>4 DEF LineLeads, s
<1> QED
  BY <1>2, <1>3, <1>5 DEF s

LEMMA FourEvents ==
  ASSUME NEW s, NEW d, NEW e, NEW g, NEW h, s = <<d, e, g, h>>
  PROVE  SeqOf(s) /\ Len(s) = 4 /\ s[1] = d /\ s[2] = e /\ s[3] = g /\ s[4] = h
<1>1. <<d, e, g, h>> \in Seq({d, e, g, h})
  OBVIOUS
<1>2. SeqOf(s)
  BY <1>1 DEF SeqOf
<1> QED
  BY <1>2

\* The order's line has four, and is of the call from its first event on.
LEMMA LineOfFour ==
  ASSUME NEW k, NEW t, NEW b, NEW line, NEW r,
         SeqOf(Events(t, line)), Len(Events(t, line)) = 4,
         r[1] = Apply(b, Events(t, line)[1]), r[2] = Apply(r[1], Events(t, line)[2]),
         r[3] = Apply(r[2], Events(t, line)[3]), r[4] = Apply(r[3], Events(t, line)[4]),
         line.text = "order" => Events(t, line)[1].kind = "reset",
         Fits(k, b, FALSE), line.text # "order" => Fits(k, b, TRUE),
         \A i \in 1..4 : Fits(k, r[i], TRUE)
  PROVE  LineLeads(k, t, b, line, TRUE) /\ Played(b, Events(t, line)) = r[4]
<1> DEFINE s == Events(t, line)
<1>1. Len(s) = 4 /\ SeqOf(s)
  OBVIOUS
<1> HIDE DEF s
<1>2. PICK f : Leads(f, b, s, 4) /\ Played(b, s) = f[4]
  <2>1. Len(s) \in Nat /\ Len(s) = 4
    BY <1>1
  <2>2. \E f : Leads(f, b, s, Len(s)) /\ Played(b, s) = f[Len(s)]
    BY <2>1, PlayedLeads
  <2> QED
    BY <2>1, <2>2
<1>3. f[0] = b /\ f[1] = r[1] /\ f[2] = r[2] /\ f[3] = r[3] /\ f[4] = r[4]
  <2>1. /\ f[0] = b /\ f[1] = Apply(f[0], s[1]) /\ f[2] = Apply(f[1], s[2])
        /\ f[3] = Apply(f[2], s[3]) /\ f[4] = Apply(f[3], s[4])
    BY <1>2 DEF Leads
  <2> QED
    BY <2>1 DEF s
<1>4. ASSUME NEW j \in 0..4 PROVE Fits(k, f[j], TRUE /\ (line.text = "order" => j >= 1))
  <2>1. CASE j = 0
    <3>1. f[j] = b /\ ~(j >= 1)
      BY <1>3, <2>1
    <3>2. CASE line.text = "order"
      BY <3>1, <3>2, FitsLess DEF GoesOn
    <3>3. CASE line.text # "order"
      BY <3>1, <3>3, FitsLess DEF GoesOn
    <3> QED
      BY <3>2, <3>3
  <2>2. CASE j # 0
    <3>1. j = 1 \/ j = 2 \/ j = 3 \/ j = 4
      BY <2>2
    <3>2. f[j] = r[j] /\ j \in 1..4
      BY <1>3, <3>1
    <3>3. Fits(k, f[j], TRUE)
      BY <3>2
    <3> QED
      BY <3>3, FitsLess DEF GoesOn
  <2> QED
    BY <2>1, <2>2
<1>5. LineLeads(k, t, b, line, TRUE)
  <2>1. line.text = "order" => Len(s) >= 1 /\ s[1].kind = "reset"
    BY <1>1 DEF s
  <2> QED
    BY <1>1, <1>2, <1>4, <2>1 DEF LineLeads, s
<1> QED
  BY <1>2, <1>3, <1>5 DEF s

---------------------------------------------------------------------------
(* The stages of a run on the strip. *)

\* Board b is of call k, which is under way, at stage s of the strip; a move
\* at work may not yet be reported as commanded.
Safe(k, b, s) ==
  /\ b \in Board(Orders) /\ b.outcome = "running" /\ Detected(b) /\ DoneBy(k, b)
  /\ AtWork(b, s) /\ AsCommanded(b, {"done"})

Open(k, b, s) == Safe(k, b, s) /\ AsCommanded(b, {"active", "done"})

\* The stages that are at work only when a run fails.
CutShort == {"DETECT", "PICK", "PLACE"}

\* Closing stage s, which the outcome does, paints nothing done that call k has
\* not done or broken off in.
Excused(k, s) ==
  /\ s # "VERIFY"
  /\ s = "PICK" => Recorded(k, "picked") \/ Broken(k, "PICK")
  /\ s = "PLACE" => Recorded(k, "placed") \/ Broken(k, "PLACE")

\* What the events of the stages leave alone.
SameNews(b, r) ==
  r.alerts = b.alerts /\ r.verification = b.verification /\ r.detection = b.detection

LEMMA SafeFits ==
  ASSUME NEW k, NEW b, NEW s, Safe(k, b, s)
  PROVE  Fits(k, b, TRUE)
BY DEF Safe, Fits, Right

LEMMA OpenGrows ==
  ASSUME NEW k, NEW l, NEW b, NEW s, Open(k, b, s), GoesOn(k, l)
  PROVE  Open(l, b, s)
BY DEF Open, Safe, DoneBy, GoesOn

\* Events that leave the strip alone.
LEMMA OpenStill ==
  ASSUME NEW k, NEW b, NEW r, NEW s, Open(k, b, s), r \in Board(Orders),
         r.stages = b.stages, r.attempt = b.attempt, r.outcome = b.outcome,
         b.detection => r.detection
  PROVE  Open(k, r, s)
BY DEF Open, Safe, Detected, DoneBy, AtWork, AsCommanded, Status, Motion

\* A stage that is not a move goes active.
LEMMA SideBegins ==
  ASSUME NEW k, NEW b, Open(k, b, "none"), NEW x \in StageNames \ MotionStages
  PROVE  LET r == Apply(b, StageEvent(x, "active", 0))
         IN /\ Open(k, r, x) /\ SameNews(b, r)
            /\ r.attempt = b.attempt /\ r.attempts = b.attempts
<1> DEFINE r == Apply(b, StageEvent(x, "active", 0))
<1>1. r \in Board(Orders) /\ Staged(b, r, x, "active", 0)
  BY StageApplied DEF Open, Safe, StageStates
<1> HIDE DEF r
<1>2. "none" \notin StageNames /\ MotionStages \subseteq StageNames
      /\ {"DETECT", "PICK", "PLACE", "VERIFY"} \subseteq StageNames
  BY TheStages
<1>3. /\ \A y \in StageNames : Status(b, y) # "active"
      /\ \A y \in StageNames : Status(r, y) = IF y = x THEN "active" ELSE Status(b, y)
      /\ \A y \in StageNames \ {x} : Motion(r, y) = Motion(b, y)
      /\ r.attempt = b.attempt /\ r.attempts = b.attempts /\ SameNews(b, r)
      /\ r.outcome = b.outcome
  BY <1>1, <1>2 DEF Open, Safe, Staged, AtWork, Status, Motion, SameNews, SameTale, SameVerdict
<1>4. Detected(r) /\ DoneBy(k, r) /\ AtWork(r, x)
  BY <1>2, <1>3 DEF Open, Safe, Detected, DoneBy, AtWork, SameNews
<1>5. AsCommanded(r, {"done"}) /\ AsCommanded(r, {"active", "done"})
  BY <1>2, <1>3 DEF Open, Safe, AsCommanded
<1>6. Open(k, r, x)
  BY <1>1, <1>3, <1>4, <1>5 DEF Open, Safe
<1> QED
  BY <1>3, <1>6 DEF r

\* A stage that is not a move ends.
LEMMA SideEnds ==
  ASSUME NEW k, NEW b, NEW s, Open(k, b, s), NEW x \in StageNames \ MotionStages,
         NEW status \in {"done", "failed", "skipped"}, NEW n \in {0, b.attempt},
         x = "DETECT" /\ status = "done" => b.detection,
         x = "VERIFY" /\ status = "done" => Recorded(k, "verified")
  PROVE  LET r == Apply(b, StageEvent(x, status, n))
         IN /\ Open(k, r, IF s = x THEN "none" ELSE s) /\ SameNews(b, r)
            /\ r.attempt = b.attempt
            /\ \A y \in StageNames \ {x} : Status(r, y) = Status(b, y)
<1> DEFINE r == Apply(b, StageEvent(x, status, n))
<1>1. n \in Nat /\ b \in Board(Orders)
  BY BoardFields DEF Open, Safe
<1>2. r \in Board(Orders) /\ Staged(b, r, x, status, n)
  BY <1>1, StageApplied DEF StageStates
<1> HIDE DEF r
<1>3. MotionStages \subseteq StageNames
      /\ {"DETECT", "PICK", "PLACE", "VERIFY"} \subseteq StageNames
      /\ x # "PICK" /\ x # "PLACE"
  BY TheStages DEF MotionStages
<1>4. /\ \A y \in StageNames : Status(r, y) = IF y = x THEN status ELSE Status(b, y)
      /\ \A y \in StageNames : Motion(r, y) = Motion(b, y)
      /\ r.attempt = b.attempt /\ SameNews(b, r)
      /\ r.outcome = b.outcome
  BY <1>2 DEF Staged, Status, Motion, SameNews, SameTale, SameVerdict
<1>5. Detected(r) /\ DoneBy(k, r)
  BY <1>3, <1>4 DEF Open, Safe, Detected, DoneBy, SameNews
<1>6. AtWork(r, IF s = x THEN "none" ELSE s)
  BY <1>4 DEF Open, Safe, AtWork
<1>7. AsCommanded(r, {"done"}) /\ AsCommanded(r, {"active", "done"})
  BY <1>3, <1>4 DEF Open, Safe, AsCommanded
<1>8. Open(k, r, IF s = x THEN "none" ELSE s)
  BY <1>2, <1>4, <1>5, <1>6, <1>7 DEF Open, Safe
<1> QED
  BY <1>4, <1>8 DEF r

\* A move is commanded: its stage goes active, and is then reported so.
LEMMA MoveBegins ==
  ASSUME NEW k, NEW b, Open(k, b, "none"), NEW s \in MotionStages, NEW n \in Nat, n # 0,
         s = "PLACE" => b.attempt = n
  PROVE  LET d == Apply(b, StageEvent(s, "active", n))
             r == Apply(d, MotionEvent(s, "commanded", FALSE, n))
         IN /\ Safe(k, d, s) /\ Open(k, r, s) /\ Status(r, s) = "active"
            /\ r.attempt = n /\ SameNews(b, r)
<1> DEFINE d == Apply(b, StageEvent(s, "active", n))
           r == Apply(d, MotionEvent(s, "commanded", FALSE, n))
<1>1. /\ "none" \notin StageNames /\ s \in StageNames /\ MotionStages \subseteq StageNames
      /\ {"DETECT", "PICK", "PLACE", "VERIFY"} \subseteq StageNames
  BY TheStages
<1>2. d \in Board(Orders) /\ Staged(b, d, s, "active", n)
  BY <1>1, StageApplied DEF Open, Safe, StageStates
<1> HIDE DEF d
<1>3. r \in Board(Orders) /\ Reported(d, r, s, "commanded", n)
  BY <1>1, <1>2, MotionApplied DEF MotionStates
<1> HIDE DEF r
<1>4. /\ \A y \in StageNames : Status(b, y) # "active"
      /\ \A y \in StageNames : Status(d, y) = IF y = s THEN "active" ELSE Status(b, y)
      /\ \A y \in StageNames \ {s} : Motion(d, y) = Motion(b, y)
      /\ d.attempt = n /\ SameNews(b, d) /\ d.outcome = b.outcome
  BY <1>1, <1>2 DEF Open, Safe, Staged, AtWork, Status, Motion, SameNews, SameTale, SameVerdict
<1>5. /\ \A y \in StageNames : Status(r, y) = Status(d, y)
      /\ \A y \in StageNames \ {s} : Motion(r, y) = Motion(d, y)
      /\ Motion(r, s) = [state |-> "commanded", attempt |-> n]
      /\ r.attempt = n /\ SameNews(d, r) /\ r.outcome = b.outcome
  BY <1>1, <1>3, <1>4 DEF Reported, Status, Motion, SameNews, SameTale, SameVerdict, SameCount
<1>6. s = "PICK" \/ s = "PLACE"
  BY DEF MotionStages
<1>7. Safe(k, d, s)
  <2>1. Detected(d) /\ DoneBy(k, d) /\ AtWork(d, s)
    BY <1>1, <1>4, <1>6 DEF Open, Safe, Detected, DoneBy, AtWork, SameNews
  <2>2. AsCommanded(d, {"done"})
    BY <1>1, <1>4, <1>6 DEF Open, Safe, AsCommanded
  <2> QED
    BY <1>2, <1>4, <2>1, <2>2 DEF Open, Safe
<1>8. Open(k, r, s)
  <2>1. Detected(r) /\ DoneBy(k, r) /\ AtWork(r, s)
    BY <1>1, <1>5, <1>7 DEF Safe, Detected, DoneBy, AtWork, SameNews
  <2>2. \A y \in MotionStages : Status(r, y) \in {"active", "done"} =>
          /\ Motion(r, y).state = "commanded"
          /\ y = "PICK" => Motion(r, y).attempt = r.attempt
    <3> SUFFICES ASSUME NEW y \in MotionStages, Status(r, y) \in {"active", "done"}
                 PROVE  /\ Motion(r, y).state = "commanded"
                        /\ y = "PICK" => Motion(r, y).attempt = r.attempt
      OBVIOUS
    <3>1. CASE y = s
      BY <1>5, <3>1
    <3>2. CASE y # s
      <4>1. Status(b, y) \in {"active", "done"} /\ Motion(r, y) = Motion(b, y)
        BY <1>1, <1>4, <1>5, <3>2
      <4>2. y = "PICK" => r.attempt = b.attempt
        BY <1>5, <1>6, <3>2
      <4> QED
        BY <4>1, <4>2 DEF Open, AsCommanded
    <3> QED
      BY <3>1, <3>2
  <2>3. AsCommanded(r, {"done"}) /\ AsCommanded(r, {"active", "done"})
    BY <2>2 DEF AsCommanded
  <2> QED
    BY <1>3, <1>5, <2>1, <2>3 DEF Open, Safe
<1>9. Status(r, s) = "active" /\ SameNews(b, r)
  BY <1>1, <1>4, <1>5 DEF SameNews
<1> QED
  BY <1>5, <1>7, <1>8, <1>9 DEF d, r

\* A move is over, and its call has recorded it.
LEMMA MoveEnds ==
  ASSUME NEW k, NEW b, NEW s \in MotionStages, Open(k, b, s), Status(b, s) = "active",
         s = "PICK" => Recorded(k, "picked"), s = "PLACE" => Recorded(k, "placed")
  PROVE  LET r == Apply(b, StageEvent(s, "done", b.attempt))
         IN Open(k, r, "none") /\ r.attempt = b.attempt /\ SameNews(b, r)
<1> DEFINE r == Apply(b, StageEvent(s, "done", b.attempt))
<1>1. b.attempt \in Nat /\ b \in Board(Orders)
  BY BoardFields DEF Open, Safe
<1>2. /\ s \in StageNames /\ MotionStages \subseteq StageNames
      /\ {"DETECT", "PICK", "PLACE", "VERIFY"} \subseteq StageNames
      /\ s = "PICK" \/ s = "PLACE"
  BY TheStages DEF MotionStages
<1>3. r \in Board(Orders) /\ Staged(b, r, s, "done", b.attempt)
  BY <1>1, <1>2, StageApplied DEF StageStates
<1> HIDE DEF r
<1>4. /\ \A y \in StageNames : Status(r, y) = IF y = s THEN "done" ELSE Status(b, y)
      /\ \A y \in StageNames : Motion(r, y) = Motion(b, y)
      /\ r.attempt = b.attempt /\ SameNews(b, r) /\ r.outcome = b.outcome
  BY <1>3 DEF Staged, Status, Motion, SameNews, SameTale, SameVerdict
<1>5. Detected(r) /\ AtWork(r, "none")
  BY <1>2, <1>4 DEF Open, Safe, Detected, AtWork, SameNews
<1>8. DoneBy(k, r)
  <2>1. DoneBy(k, b) /\ b.outcome # "failed"
    BY DEF Open, Safe
  <2> QED
    BY <1>2, <1>4, <2>1 DEF DoneBy
<1>6. AsCommanded(r, {"done"}) /\ AsCommanded(r, {"active", "done"})
  BY <1>2, <1>4 DEF Open, Safe, AsCommanded
<1>7. Open(k, r, "none")
  BY <1>3, <1>4, <1>5, <1>6, <1>8 DEF Open, Safe
<1> QED
  BY <1>4, <1>7 DEF r

\* The outcome closes the strip.
LEMMA RunEnds ==
  ASSUME NEW k, NEW b, NEW s, Open(k, b, s), NEW e, e.kind = "outcome",
         e.status \in Outcomes \ {"running"}, e.attempts \in Nat, e.attempts # 0,
         Excused(k, s), s \in CutShort => e.status = "failed"
  PROVE  LET r == Apply(b, e)
         IN /\ Fits(k, r, TRUE) /\ r.outcome = e.status /\ r.attempts = e.attempts
            /\ SameNews(b, r)
<1> DEFINE r == Apply(b, e)
           status == e.status
           n == e.attempts
<1>1. r \in Board(Orders) /\ Ended(b, r, status, n)
  BY OutcomeApplied DEF Open, Safe
<1> HIDE DEF r
<1>2. MotionStages \subseteq StageNames
      /\ {"DETECT", "PICK", "PLACE", "VERIFY"} \subseteq StageNames
  BY TheStages
<1>3. /\ \A y \in StageNames : Status(r, y) = IF Status(b, y) = "active" THEN "done"
                                              ELSE Status(b, y)
      /\ \A y \in StageNames : Motion(r, y) = Motion(b, y)
      /\ r.attempt = b.attempt /\ SameNews(b, r) /\ r.outcome = status /\ r.attempts = n
  BY <1>1 DEF Ended, Status, Motion, SameNews, SameTale
<1>4. Detected(r)
  BY <1>2, <1>3 DEF Open, Safe, Detected, AtWork, SameNews, CutShort
<1>5. \A y \in StageNames : Status(r, y) # "active"
  BY <1>3
<1>6. AtWork(r, "none")
  BY <1>5 DEF AtWork
<1>7. AsCommanded(r, {"done"})
  BY <1>2, <1>3 DEF Open, AsCommanded
<1>9. DoneBy(k, r)
  <2>1. DoneBy(k, b) /\ b.outcome # "failed" /\ AtWork(b, s)
    BY DEF Open, Safe
  <2>2. /\ {"PICK", "PLACE", "VERIFY"} \subseteq StageNames /\ r.outcome = status
        /\ \A y \in StageNames : Status(r, y) = "done" =>
             Status(b, y) = "done" \/ y = s
    BY <1>2, <1>3, <2>1 DEF AtWork
  <2>3. s = "PICK" \/ s = "PLACE" => status = "failed"
    BY DEF CutShort
  <2>4. Status(r, "PICK") = "done" =>
          Recorded(k, "picked") \/ (r.outcome = "failed" /\ Broken(k, "PICK"))
    BY <2>1, <2>2, <2>3 DEF DoneBy, Excused
  <2>5. Status(r, "PLACE") = "done" =>
          Recorded(k, "placed") \/ (r.outcome = "failed" /\ Broken(k, "PLACE"))
    BY <2>1, <2>2, <2>3 DEF DoneBy, Excused
  <2>6. Status(r, "VERIFY") = "done" => Recorded(k, "verified")
    BY <2>1, <2>2 DEF DoneBy, Excused
  <2> QED
    BY <2>4, <2>5, <2>6 DEF DoneBy
<1>8. Fits(k, r, TRUE)
  BY <1>1, <1>3, <1>4, <1>6, <1>7, <1>9 DEF Fits, Right
<1> QED
  BY <1>3, <1>8 DEF r

---------------------------------------------------------------------------
(* The lines of a run, one by one. *)

\* What the translator becomes.
LEMMA AfterLine ==
  ASSUME NEW t \in Translator
  PROVE  /\ \A o : After(t, [text |-> "order", order |-> o]) = NewTranslator
         /\ After(t, Line("located")) = [t EXCEPT !.detected = TRUE]
         /\ After(t, Line("picking")) = [t EXCEPT !.detected = TRUE, !.move = "PICK"]
         /\ After(t, Line("placing")) = [t EXCEPT !.move = "PLACE"]
         /\ After(t, Line("complete")) = [t EXCEPT !.move = "none"]
         /\ \A ok : After(t, [text |-> "verdict", ok |-> ok]) = [t EXCEPT !.verified = TRUE]
         /\ \A n : After(t, [text |-> "retry", n |-> n])
                     = [t EXCEPT !.attempt = n, !.retried = TRUE]
         /\ \A kind : After(t, [text |-> "alert", kind |-> kind]) = [t EXCEPT !.alerted = TRUE]
         /\ After(t, Line("fulfilled")) = t /\ After(t, Line("failed")) = t
         /\ After(t, Line("unreadable")) = t
<1>1. \A o : After(t, [text |-> "order", order |-> o]) = NewTranslator
  BY DEF After
<1>2. After(t, Line("located")) = [t EXCEPT !.detected = TRUE]
  BY DEF After, Line
<1>3. After(t, Line("picking")) = [t EXCEPT !.detected = TRUE, !.move = "PICK"]
  BY DEF After, Line
<1>4. After(t, Line("placing")) = [t EXCEPT !.move = "PLACE"]
  BY DEF After, Line
<1>5. After(t, Line("complete")) = [t EXCEPT !.move = "none"]
  BY DEF After, Line
<1>6. \A ok : After(t, [text |-> "verdict", ok |-> ok]) = [t EXCEPT !.verified = TRUE]
  BY DEF After
<1>7. \A n : After(t, [text |-> "retry", n |-> n]) = [t EXCEPT !.attempt = n, !.retried = TRUE]
  BY DEF After
<1>8. \A kind : After(t, [text |-> "alert", kind |-> kind]) = [t EXCEPT !.alerted = TRUE]
  BY DEF After
<1>9. /\ After(t, Line("fulfilled")) = t /\ After(t, Line("failed")) = t
      /\ After(t, Line("unreadable")) = t
  BY DEF After, Line
<1> QED
  BY <1>1, <1>2, <1>3, <1>4, <1>5, <1>6, <1>7, <1>8, <1>9

\* What it writes.
LEMMA EventsOfLine ==
  ASSUME NEW t \in Translator
  PROVE  /\ \A o : Events(t, [text |-> "order", order |-> o]) = OnOrderLine(o)
         /\ Events(t, Line("located")) = OnLocated
         /\ Events(t, Line("picking")) = OnMove(t, "PICK")
         /\ Events(t, Line("placing")) = OnMove(t, "PLACE")
         /\ t.move # "none" => Events(t, Line("complete"))
                                 = <<StageEvent(t.move, "done", t.attempt)>>
         /\ \A ok : Events(t, [text |-> "verdict", ok |-> ok]) = OnVerdict(t, ok)
         /\ \A n : Events(t, [text |-> "retry", n |-> n]) = <<>>
         /\ \A kind : Events(t, [text |-> "alert", kind |-> kind]) = OnAlertLine(t, kind)
         /\ Events(t, Line("fulfilled"))
              = OnResult(t, IF t.retried THEN "retried" ELSE "fulfilled")
         /\ Events(t, Line("failed")) = OnResult(t, "failed")
         /\ Events(t, Line("unreadable")) = <<>>
<1>1. \A o : Events(t, [text |-> "order", order |-> o]) = OnOrderLine(o)
  BY DEF Events
<1>2. Events(t, Line("located")) = OnLocated
  BY DEF Events, Line
<1>3. Events(t, Line("picking")) = OnMove(t, "PICK")
  BY DEF Events, Line
<1>4. Events(t, Line("placing")) = OnMove(t, "PLACE")
  BY DEF Events, Line
<1>5. t.move # "none" => Events(t, Line("complete")) = <<StageEvent(t.move, "done", t.attempt)>>
  BY DEF Events, Line
<1>6. \A ok : Events(t, [text |-> "verdict", ok |-> ok]) = OnVerdict(t, ok)
  BY DEF Events
<1>7. \A n : Events(t, [text |-> "retry", n |-> n]) = <<>>
  BY DEF Events
<1>8. \A kind : Events(t, [text |-> "alert", kind |-> kind]) = OnAlertLine(t, kind)
  BY DEF Events
<1>9. Events(t, Line("fulfilled")) = OnResult(t, IF t.retried THEN "retried" ELSE "fulfilled")
  BY DEF Events, Line
<1>10. Events(t, Line("failed")) = OnResult(t, "failed")
  BY DEF Events, Line
<1>11. Events(t, Line("unreadable")) = <<>>
  BY DEF Events, Line
<1> QED
  BY <1>1, <1>2, <1>3, <1>4, <1>5, <1>6, <1>7, <1>8, <1>9, <1>10, <1>11

\* Translator t is at the same point of call l as board b, whose strip is at
\* stage s; no alert was raised yet.
At(l, t, b, s) ==
  t \in Translator /\ ~t.alerted /\ t.attempt # 0 /\ Open(l, b, s) /\ b.alerts = <<>>

\* Line x of call l, read at t and b, leads to u and r.
Said(l, t, b, x, u, r) ==
  LineLeads(l, t, b, x, TRUE) /\ u = After(t, x) /\ r = Played(b, Events(t, x))

\* Translator u counts the attempts as t did.
SameTry(t, u) ==
  u \in Translator /\ u.attempt = t.attempt /\ (u.retried <=> t.retried)

\* The order's line shows the run from its beginning.
LEMMA OrderLine ==
  ASSUME NEW l, NEW t \in Translator, NEW b \in Board(Orders), Detected(b), NEW o \in Orders
  PROVE  LET line == [text |-> "order", order |-> o]
             r == Played(b, Events(t, line))
         IN /\ LineLeads(l, t, b, line, TRUE) /\ After(t, line) = NewTranslator
            /\ Open(l, r, "DETECT") /\ r.alerts = <<>> /\ r.verification = NoVerdict
<1> DEFINE line == [text |-> "order", order |-> o]
           c == [kind |-> "reset", mode |-> "order"]
           d == [kind |-> "order", order |-> o]
           e == StageEvent("ORDER", "done", 0)
           g == StageEvent("DETECT", "active", 0)
           r1 == Apply(b, c)
           r2 == Apply(r1, d)
           r3 == Apply(r2, e)
           r4 == Apply(r3, g)
<1>1. "order" \in AllModes
  BY DEF AllModes
<1>2. r1 = Fresh("order") /\ r1 \in Board(Orders)
  BY <1>1, ResetApplied
<1>3. /\ "ORDER" \in StageNames \ MotionStages /\ "DETECT" \in StageNames \ MotionStages
      /\ {"DETECT", "PICK", "PLACE", "VERIFY"} \subseteq StageNames
      /\ MotionStages \subseteq StageNames
  BY TheStages DEF MotionStages
<1>4. Open(l, r1, "none") /\ r1.alerts = <<>> /\ r1.verification = NoVerdict
  <2>1. \A s \in StageNames : Status(r1, s) = "idle"
    BY <1>2 DEF Fresh, Status
  <2>2. r1.outcome = "running" /\ r1.alerts = <<>> /\ r1.verification = NoVerdict
    BY <1>2 DEF Fresh
  <2>3. Detected(r1) /\ DoneBy(l, r1) /\ AtWork(r1, "none")
    BY <1>3, <2>1 DEF Detected, DoneBy, AtWork
  <2>4. AsCommanded(r1, {"done"}) /\ AsCommanded(r1, {"active", "done"})
    BY <1>3, <2>1 DEF AsCommanded
  <2> QED
    BY <1>2, <2>2, <2>3, <2>4 DEF Open, Safe
<1> HIDE DEF r1
<1>5. Open(l, r2, "none") /\ r2.alerts = <<>> /\ r2.verification = NoVerdict
  <2>1. r2 \in Board(Orders) /\ r2 = [r1 EXCEPT !.order = o]
    BY <1>2, OrderApplied
  <2>2. /\ r2.stages = r1.stages /\ r2.attempt = r1.attempt /\ r2.outcome = r1.outcome
        /\ r2.detection = r1.detection /\ r2.alerts = r1.alerts
        /\ r2.verification = r1.verification
    BY <1>2, <2>1 DEF Board
  <2> HIDE DEF r2
  <2> QED
    BY <1>4, <2>1, <2>2, OpenStill
<1> HIDE DEF r2
<1>6. Open(l, r3, "none") /\ SameNews(r2, r3)
  <2>1. "ORDER" # "DETECT" /\ "ORDER" # "VERIFY" /\ "ORDER" # "none"
        /\ "done" \in {"done", "failed", "skipped"} /\ 0 \in {0, r2.attempt}
    OBVIOUS
  <2> QED
    BY <1>3, <1>5, <2>1, SideEnds
<1> HIDE DEF r3
<1>7. Open(l, r4, "DETECT") /\ SameNews(r3, r4)
  BY <1>3, <1>6, SideBegins
<1> HIDE DEF r4
<1>8. Events(t, line) = <<c, d, e, g>>
  BY EventsOfLine DEF OnOrderLine
<1>9. Fits(l, b, FALSE) /\ line.text = "order"
  BY DEF Fits
<1>10. Fits(l, r1, TRUE) /\ Fits(l, r2, TRUE) /\ Fits(l, r3, TRUE) /\ Fits(l, r4, TRUE)
  BY <1>4, <1>5, <1>6, <1>7, SafeFits DEF Open
<1>11. LineLeads(l, t, b, line, TRUE) /\ Played(b, Events(t, line)) = r4
  <2>1. c.kind = "reset"
    OBVIOUS
  <2> HIDE DEF line, c, d, e, g
  <2> DEFINE s == Events(t, line)
             row == <<r1, r2, r3, r4>>
  <2>2. s = <<c, d, e, g>>
    BY <1>8
  <2>3. SeqOf(s) /\ Len(s) = 4 /\ s[1] = c /\ s[2] = d /\ s[3] = e /\ s[4] = g
    BY <2>2, FourEvents
  <2>4. /\ row[1] = Apply(b, c) /\ row[2] = Apply(row[1], d)
        /\ row[3] = Apply(row[2], e) /\ row[4] = Apply(row[3], g)
    BY DEF r1, r2, r3, r4
  <2>5. row[4] = r4 /\ \A i \in 1..4 : Fits(l, row[i], TRUE)
    <3>1. \A i \in 1..4 : i = 1 \/ i = 2 \/ i = 3 \/ i = 4
      OBVIOUS
    <3>2. row[1] = r1 /\ row[2] = r2 /\ row[3] = r3 /\ row[4] = r4
      OBVIOUS
    <3> HIDE DEF row
    <3> QED
      BY <1>10, <3>1, <3>2
  <2>6. /\ line.text = "order" => s[1].kind = "reset"
        /\ line.text # "order" => Fits(l, b, TRUE)
        /\ Fits(l, b, FALSE)
    BY <1>9, <2>1, <2>3
  <2> HIDE DEF row
  <2>7. LineLeads(l, t, b, line, TRUE) /\ Played(b, s) = row[4]
    BY <2>3, <2>4, <2>5, <2>6, LineOfFour
  <2> QED
    BY <2>5, <2>7
<1>12. After(t, line) = NewTranslator
  BY AfterLine
<1> QED
  BY <1>5, <1>6, <1>7, <1>11, <1>12 DEF SameNews

\* The item was located: DETECT and LOCATE are done.
LEMMA LocatedLine ==
  ASSUME NEW l, NEW t, NEW b, At(l, t, b, "DETECT")
  PROVE  \E u, r :
           /\ Said(l, t, b, Line("located"), u, r)
           /\ At(l, u, r, "none")
           /\ SameTry(t, u) /\ u.detected /\ u.move = t.move
           /\ r.verification = b.verification
<1> DEFINE line == Line("located")
           c == [kind |-> "detection"]
           d == StageEvent("DETECT", "done", 0)
           e == StageEvent("LOCATE", "active", 0)
           g == StageEvent("LOCATE", "done", 0)
           r1 == Apply(b, c)
           r2 == Apply(r1, d)
           r3 == Apply(r2, e)
           r4 == Apply(r3, g)
<1>1. /\ t \in Translator /\ Open(l, b, "DETECT") /\ b \in Board(Orders)
      /\ b.alerts = <<>> /\ ~t.alerted /\ t.attempt # 0
  BY DEF At, Open, Safe
<1>2. /\ "LOCATE" \in StageNames \ MotionStages /\ "DETECT" \in StageNames \ MotionStages
  BY TheStages DEF MotionStages
<1>3. Open(l, r1, "DETECT") /\ r1.detection /\ r1.alerts = b.alerts
      /\ r1.verification = b.verification
  <2>1. r1 \in Board(Orders) /\ r1 = [b EXCEPT !.detection = TRUE]
    BY <1>1, DetectionApplied
  <2>2. /\ r1.stages = b.stages /\ r1.attempt = b.attempt /\ r1.outcome = b.outcome
        /\ r1.detection = TRUE /\ r1.alerts = b.alerts /\ r1.verification = b.verification
    BY <1>1, <2>1 DEF Board
  <2> HIDE DEF r1
  <2> QED
    BY <1>1, <2>1, <2>2, OpenStill
<1> HIDE DEF r1
<1>4. Open(l, r2, "none") /\ SameNews(r1, r2)
  <2>1. "DETECT" # "VERIFY"
        /\ "done" \in {"done", "failed", "skipped"} /\ 0 \in {0, r1.attempt}
    OBVIOUS
  <2> QED
    BY <1>2, <1>3, <2>1, SideEnds
<1> HIDE DEF r2
<1>5. Open(l, r3, "LOCATE") /\ SameNews(r2, r3)
  BY <1>2, <1>4, SideBegins
<1> HIDE DEF r3
<1>6. Open(l, r4, "none") /\ SameNews(r3, r4)
  <2>1. "LOCATE" # "VERIFY" /\ "LOCATE" # "DETECT"
        /\ "done" \in {"done", "failed", "skipped"} /\ 0 \in {0, r3.attempt}
    OBVIOUS
  <2> QED
    BY <1>2, <1>5, <2>1, SideEnds
<1> HIDE DEF r4
<1>7. Events(t, line) = <<c, d, e, g>>
  BY <1>1, EventsOfLine DEF OnLocated
<1>8. line.text # "order" /\ Fits(l, b, TRUE) /\ Fits(l, b, FALSE)
  BY <1>1, SafeFits DEF Open, Fits, Line
<1>9. Fits(l, r1, TRUE) /\ Fits(l, r2, TRUE) /\ Fits(l, r3, TRUE) /\ Fits(l, r4, TRUE)
  BY <1>3, <1>4, <1>5, <1>6, SafeFits DEF Open
<1>10. LineLeads(l, t, b, line, TRUE) /\ Played(b, Events(t, line)) = r4
  <2> HIDE DEF line, c, d, e, g
  <2> DEFINE s == Events(t, line)
             row == <<r1, r2, r3, r4>>
  <2>1. s = <<c, d, e, g>>
    BY <1>7
  <2>2. SeqOf(s) /\ Len(s) = 4 /\ s[1] = c /\ s[2] = d /\ s[3] = e /\ s[4] = g
    BY <2>1, FourEvents
  <2>3. /\ row[1] = Apply(b, c) /\ row[2] = Apply(row[1], d)
        /\ row[3] = Apply(row[2], e) /\ row[4] = Apply(row[3], g)
    BY DEF r1, r2, r3, r4
  <2>4. row[4] = r4 /\ \A i \in 1..4 : Fits(l, row[i], TRUE)
    <3>1. \A i \in 1..4 : i = 1 \/ i = 2 \/ i = 3 \/ i = 4
      OBVIOUS
    <3>2. row[1] = r1 /\ row[2] = r2 /\ row[3] = r3 /\ row[4] = r4
      OBVIOUS
    <3> HIDE DEF row
    <3> QED
      BY <1>9, <3>1, <3>2
  <2>5. /\ line.text = "order" => s[1].kind = "reset"
        /\ line.text # "order" => Fits(l, b, TRUE)
        /\ Fits(l, b, FALSE)
    BY <1>8, <2>2
  <2> HIDE DEF row
  <2>6. LineLeads(l, t, b, line, TRUE) /\ Played(b, s) = row[4]
    BY <2>2, <2>3, <2>4, <2>5, LineOfFour
  <2> QED
    BY <2>4, <2>6
<1>11. After(t, line) = [t EXCEPT !.detected = TRUE]
  BY <1>1, AfterLine
<1>12. At(l, After(t, line), r4, "none")
  <2>1. /\ After(t, line) \in Translator /\ ~After(t, line).alerted
        /\ After(t, line).attempt # 0
    BY <1>1, <1>11 DEF Translator
  <2>2. r4.alerts = <<>>
    BY <1>1, <1>3, <1>4, <1>5, <1>6 DEF SameNews
  <2> QED
    BY <1>6, <2>1, <2>2 DEF At
<1>13. /\ SameTry(t, After(t, line)) /\ After(t, line).detected
       /\ After(t, line).move = t.move
  BY <1>1, <1>11 DEF SameTry, Translator
<1>14. /\ LineLeads(l, t, b, line, TRUE)
       /\ At(l, After(t, line), Played(b, Events(t, line)), "none")
       /\ SameTry(t, After(t, line)) /\ After(t, line).detected
       /\ After(t, line).move = t.move
       /\ Played(b, Events(t, line)).verification = b.verification
  BY <1>13, <1>3, <1>4, <1>5, <1>6, <1>10, <1>11, <1>12 DEF SameNews
<1> QED
  BY <1>14 DEF Said, line

\* A move begins where no stage is at work.
LEMMA MovePlayed ==
  ASSUME NEW l, NEW t, NEW b, At(l, t, b, "none"), NEW s \in MotionStages,
         s = "PLACE" => b.attempt = t.attempt
  PROVE  LET d == StageEvent(s, "active", t.attempt)
             e == MotionEvent(s, "commanded", FALSE, t.attempt)
             b1 == Apply(b, d)
             r == Apply(b1, e)
         IN /\ Fits(l, b1, TRUE) /\ Fits(l, r, TRUE) /\ Open(l, r, s)
            /\ Status(r, s) = "active" /\ r.attempt = t.attempt /\ SameNews(b, r)
<1> DEFINE d == StageEvent(s, "active", t.attempt)
           e == MotionEvent(s, "commanded", FALSE, t.attempt)
           b1 == Apply(b, d)
           r == Apply(b1, e)
<1>1. Open(l, b, "none") /\ t.attempt \in Nat /\ t.attempt # 0
  BY DEF At, Translator
<1>2. /\ Safe(l, b1, s) /\ Open(l, r, s) /\ Status(r, s) = "active"
      /\ r.attempt = t.attempt /\ SameNews(b, r)
  BY <1>1, MoveBegins
<1> HIDE DEF b1, r
<1>3. Fits(l, b1, TRUE) /\ Fits(l, r, TRUE)
  BY <1>2, SafeFits DEF Open
<1> QED
  BY <1>2, <1>3 DEF b1, r

\* The pick begins; what was not perceived is skipped.
LEMMA PickingLine ==
  ASSUME NEW l, NEW t, NEW b, At(l, t, b, IF t.detected THEN "none" ELSE "DETECT")
  PROVE  \E u, r :
           /\ Said(l, t, b, Line("picking"), u, r)
           /\ At(l, u, r, "PICK")
           /\ SameTry(t, u) /\ u.detected /\ u.move = "PICK"
           /\ Status(r, "PICK") = "active" /\ r.attempt = t.attempt
           /\ r.verification = b.verification
<1> DEFINE line == Line("picking")
           x == StageEvent("DETECT", "skipped", 0)
           y == StageEvent("LOCATE", "skipped", 0)
           d == StageEvent("PICK", "active", t.attempt)
           e == MotionEvent("PICK", "commanded", FALSE, t.attempt)
<1>1. /\ t \in Translator /\ t.detected \in BOOLEAN /\ ~t.alerted /\ t.attempt # 0
      /\ b \in Board(Orders) /\ b.alerts = <<>>
  BY DEF At, Open, Safe, Translator
<1>2. /\ "LOCATE" \in StageNames \ MotionStages /\ "DETECT" \in StageNames \ MotionStages
      /\ "PICK" \in MotionStages
  BY TheStages DEF MotionStages
<1>3. /\ t.detected => Events(t, line) = <<d, e>>
      /\ ~t.detected => Events(t, line) = <<x, y, d, e>>
  <2>1. Events(t, line) = OnMove(t, "PICK")
    BY <1>1, EventsOfLine
  <2>2. /\ <<>> \o <<d, e>> = <<d, e>>
        /\ <<x, y>> \o <<d, e>> = <<x, y, d, e>>
    <3> HIDE DEF x, y, d, e
    <3>1. <<>> \o <<d, e>> = <<d, e>>
      BY Pairs
    <3>2. <<x, y>> \o <<d, e>> = <<x, y, d, e>>
      BY TwoAndTwo
    <3> QED
      BY <3>1, <3>2
  <2> QED
    BY <2>1, <2>2 DEF OnMove
<1>4. line.text # "order"
  BY DEF Line
<1>5. After(t, line) = [t EXCEPT !.detected = TRUE, !.move = "PICK"]
  BY <1>1, AfterLine
<1>6. /\ After(t, line) \in Translator /\ ~After(t, line).alerted
      /\ After(t, line).attempt # 0
  BY <1>1, <1>5 DEF Translator, MotionStages
<1> DEFINE r == Played(b, Events(t, line))
<1>7. /\ LineLeads(l, t, b, line, TRUE) /\ Open(l, r, "PICK")
      /\ Status(r, "PICK") = "active" /\ r.attempt = t.attempt
      /\ r.verification = b.verification /\ r.alerts = b.alerts
  <2>1. CASE t.detected
    <3> DEFINE b1 == Apply(b, d)
               b2 == Apply(b1, e)
    <3>1. At(l, t, b, "none")
      BY <2>1
    <3>2. /\ Fits(l, b1, TRUE) /\ Fits(l, b2, TRUE) /\ Open(l, b2, "PICK")
          /\ Status(b2, "PICK") = "active" /\ b2.attempt = t.attempt /\ SameNews(b, b2)
      BY <1>2, <3>1, MovePlayed
    <3>3. Fits(l, b, TRUE)
      BY <3>1, SafeFits DEF At, Open
    <3> HIDE DEF line, d, e
    <3>4. b1 = Apply(b, d) /\ b2 = Apply(b1, e)
      OBVIOUS
    <3> HIDE DEF b1, b2
    <3>5. LineLeads(l, t, b, line, TRUE) /\ r = b2
      BY <1>3, <1>4, <2>1, <3>2, <3>3, <3>4, LineOfTwo
    <3> HIDE DEF r
    <3> QED
      BY <3>2, <3>5 DEF SameNews
  <2>2. CASE ~t.detected
    <3> DEFINE b1 == Apply(b, x)
               b2 == Apply(b1, y)
               b3 == Apply(b2, d)
               b4 == Apply(b3, e)
    <3>1. At(l, t, b, "DETECT") /\ Open(l, b, "DETECT")
      BY <2>2 DEF At
    <3>2. Open(l, b1, "none") /\ SameNews(b, b1)
      <4>1. "DETECT" # "VERIFY" /\ "skipped" # "done"
            /\ "skipped" \in {"done", "failed", "skipped"} /\ 0 \in {0, b.attempt}
        OBVIOUS
      <4> QED
        BY <1>2, <3>1, <4>1, SideEnds
    <3> HIDE DEF b1
    <3>3. Open(l, b2, "none") /\ SameNews(b1, b2)
      <4>1. "LOCATE" # "VERIFY" /\ "LOCATE" # "DETECT" /\ "LOCATE" # "none"
            /\ "skipped" \in {"done", "failed", "skipped"} /\ 0 \in {0, b1.attempt}
        OBVIOUS
      <4> QED
        BY <1>2, <3>2, <4>1, SideEnds
    <3> HIDE DEF b2
    <3>4. At(l, t, b2, "none")
      BY <1>1, <3>2, <3>3 DEF At, SameNews
    <3>5. /\ Fits(l, b3, TRUE) /\ Fits(l, b4, TRUE) /\ Open(l, b4, "PICK")
          /\ Status(b4, "PICK") = "active" /\ b4.attempt = t.attempt /\ SameNews(b2, b4)
      BY <1>2, <3>4, MovePlayed
    <3>6. Fits(l, b, TRUE) /\ Fits(l, b, FALSE) /\ Fits(l, b1, TRUE) /\ Fits(l, b2, TRUE)
      BY <3>1, <3>2, <3>3, SafeFits DEF Open, Fits
    <3> HIDE DEF line, x, y, d, e
    <3>7. LineLeads(l, t, b, line, TRUE) /\ r = b4
      <4> DEFINE s == Events(t, line)
                 row == <<b1, b2, b3, b4>>
      <4>1. s = <<x, y, d, e>>
        BY <1>3, <2>2
      <4>2. SeqOf(s) /\ Len(s) = 4 /\ s[1] = x /\ s[2] = y /\ s[3] = d /\ s[4] = e
        BY <4>1, FourEvents
      <4>3. /\ row[1] = Apply(b, x) /\ row[2] = Apply(row[1], y)
            /\ row[3] = Apply(row[2], d) /\ row[4] = Apply(row[3], e)
        BY DEF b1, b2, b3, b4
      <4>4. row[4] = b4 /\ \A i \in 1..4 : Fits(l, row[i], TRUE)
        <5>1. \A i \in 1..4 : i = 1 \/ i = 2 \/ i = 3 \/ i = 4
          OBVIOUS
        <5>2. row[1] = b1 /\ row[2] = b2 /\ row[3] = b3 /\ row[4] = b4
          OBVIOUS
        <5> HIDE DEF row
        <5> QED
          BY <3>5, <3>6, <5>1, <5>2
      <4>5. /\ line.text = "order" => s[1].kind = "reset"
            /\ line.text # "order" => Fits(l, b, TRUE)
            /\ Fits(l, b, FALSE)
        BY <1>4, <3>6, <4>2
      <4> HIDE DEF row
      <4>6. LineLeads(l, t, b, line, TRUE) /\ Played(b, s) = row[4]
        BY <4>2, <4>3, <4>4, <4>5, LineOfFour
      <4> QED
        BY <4>4, <4>6
    <3> HIDE DEF r
    <3> QED
      BY <3>2, <3>3, <3>5, <3>7 DEF SameNews
  <2> QED
    BY <1>1, <2>1, <2>2
<1> HIDE DEF r
<1>8. At(l, After(t, line), r, "PICK")
  BY <1>1, <1>6, <1>7 DEF At
<1>9. /\ SameTry(t, After(t, line)) /\ After(t, line).detected
      /\ After(t, line).move = "PICK"
  BY <1>1, <1>5 DEF SameTry, Translator, MotionStages
<1>10. /\ LineLeads(l, t, b, line, TRUE)
       /\ At(l, After(t, line), Played(b, Events(t, line)), "PICK")
       /\ SameTry(t, After(t, line)) /\ After(t, line).detected
       /\ After(t, line).move = "PICK"
       /\ Status(Played(b, Events(t, line)), "PICK") = "active"
       /\ Played(b, Events(t, line)).attempt = t.attempt
       /\ Played(b, Events(t, line)).verification = b.verification
  BY <1>9, <1>5, <1>7, <1>8 DEF r
<1> QED
  BY <1>10 DEF Said, line

\* The place begins.
LEMMA PlacingLine ==
  ASSUME NEW l, NEW t, NEW b, At(l, t, b, "none"), b.attempt = t.attempt
  PROVE  \E u, r :
           /\ Said(l, t, b, Line("placing"), u, r)
           /\ At(l, u, r, "PLACE")
           /\ SameTry(t, u) /\ (u.detected <=> t.detected) /\ u.move = "PLACE"
           /\ Status(r, "PLACE") = "active" /\ r.attempt = t.attempt
           /\ r.verification = b.verification
<1> DEFINE line == Line("placing")
           d == StageEvent("PLACE", "active", t.attempt)
           e == MotionEvent("PLACE", "commanded", FALSE, t.attempt)
           b1 == Apply(b, d)
           b2 == Apply(b1, e)
           r == Played(b, Events(t, line))
<1>1. /\ t \in Translator /\ ~t.alerted /\ t.attempt # 0 /\ b.alerts = <<>>
  BY DEF At
<1>2. "PLACE" \in MotionStages
  BY DEF MotionStages
<1>3. Events(t, line) = <<d, e>>
  <2>1. Events(t, line) = OnMove(t, "PLACE")
    BY <1>1, EventsOfLine
  <2>2. <<>> \o <<d, e>> = <<d, e>>
    <3> HIDE DEF d, e
    <3> QED
      BY Pairs
  <2> QED
    BY <2>1, <2>2 DEF OnMove
<1>4. line.text # "order"
  BY DEF Line
<1>5. After(t, line) = [t EXCEPT !.move = "PLACE"]
  BY <1>1, AfterLine
<1>6. /\ After(t, line) \in Translator /\ ~After(t, line).alerted
      /\ After(t, line).attempt # 0
  BY <1>1, <1>5 DEF Translator, MotionStages
<1>7. /\ Fits(l, b1, TRUE) /\ Fits(l, b2, TRUE) /\ Open(l, b2, "PLACE")
      /\ Status(b2, "PLACE") = "active" /\ b2.attempt = t.attempt /\ SameNews(b, b2)
  BY <1>2, MovePlayed
<1>8. Fits(l, b, TRUE)
  BY SafeFits DEF At, Open
<1> HIDE DEF line, d, e
<1>9. b1 = Apply(b, d) /\ b2 = Apply(b1, e)
  OBVIOUS
<1> HIDE DEF b1, b2
<1>10. LineLeads(l, t, b, line, TRUE) /\ r = b2
  BY <1>3, <1>4, <1>7, <1>8, <1>9, LineOfTwo
<1> HIDE DEF r
<1>11. At(l, After(t, line), r, "PLACE")
  BY <1>1, <1>6, <1>7, <1>10 DEF At, SameNews
<1>12. /\ SameTry(t, After(t, line)) /\ (After(t, line).detected <=> t.detected)
       /\ After(t, line).move = "PLACE"
  BY <1>1, <1>5 DEF SameTry, Translator, MotionStages
<1>13. /\ LineLeads(l, t, b, line, TRUE)
       /\ At(l, After(t, line), Played(b, Events(t, line)), "PLACE")
       /\ SameTry(t, After(t, line)) /\ (After(t, line).detected <=> t.detected)
       /\ After(t, line).move = "PLACE"
       /\ Status(Played(b, Events(t, line)), "PLACE") = "active"
       /\ Played(b, Events(t, line)).attempt = t.attempt
       /\ Played(b, Events(t, line)).verification = b.verification
  BY <1>12, <1>5, <1>7, <1>10, <1>11 DEF r, SameNews, line
<1> QED
  BY <1>13 DEF Said, line

\* A move completes, and its call has recorded it.
LEMMA CompleteLine ==
  ASSUME NEW l, NEW t, NEW b, NEW s \in MotionStages, At(l, t, b, s), t.move = s,
         Status(b, s) = "active", b.attempt = t.attempt,
         s = "PICK" => Recorded(l, "picked"), s = "PLACE" => Recorded(l, "placed")
  PROVE  \E u, r :
           /\ Said(l, t, b, Line("complete"), u, r)
           /\ At(l, u, r, "none")
           /\ SameTry(t, u) /\ (u.detected <=> t.detected) /\ u.move = "none"
           /\ r.attempt = t.attempt
           /\ r.verification = b.verification
<1> DEFINE line == Line("complete")
           d == StageEvent(s, "done", t.attempt)
           b1 == Apply(b, d)
           r == Played(b, Events(t, line))
<1>1. /\ t \in Translator /\ ~t.alerted /\ t.attempt # 0 /\ b.alerts = <<>>
      /\ Open(l, b, s)
  BY DEF At
<1>2. Events(t, line) = <<d>>
  <2>1. t.move # "none"
    BY DEF MotionStages
  <2> QED
    BY <1>1, <2>1, EventsOfLine
<1>3. line.text # "order"
  BY DEF Line
<1>4. After(t, line) = [t EXCEPT !.move = "none"]
  BY <1>1, AfterLine
<1>5. /\ After(t, line) \in Translator /\ ~After(t, line).alerted
      /\ After(t, line).attempt # 0
  BY <1>1, <1>4 DEF Translator
<1>6. Open(l, b1, "none") /\ b1.attempt = t.attempt /\ SameNews(b, b1)
  BY <1>1, MoveEnds
<1>7. Fits(l, b, TRUE) /\ Fits(l, b1, TRUE)
  BY <1>1, <1>6, SafeFits DEF Open
<1> HIDE DEF line, d
<1>8. b1 = Apply(b, d)
  OBVIOUS
<1> HIDE DEF b1
<1>9. LineLeads(l, t, b, line, TRUE) /\ r = b1
  BY <1>2, <1>3, <1>7, <1>8, LineOfOne
<1> HIDE DEF r
<1>10. At(l, After(t, line), r, "none")
  BY <1>1, <1>5, <1>6, <1>9 DEF At, SameNews
<1>11. /\ SameTry(t, After(t, line)) /\ (After(t, line).detected <=> t.detected)
       /\ After(t, line).move = "none"
  BY <1>1, <1>4 DEF SameTry, Translator
<1>12. /\ LineLeads(l, t, b, line, TRUE)
       /\ At(l, After(t, line), Played(b, Events(t, line)), "none")
       /\ SameTry(t, After(t, line)) /\ (After(t, line).detected <=> t.detected)
       /\ After(t, line).move = "none"
       /\ Played(b, Events(t, line)).attempt = t.attempt
       /\ Played(b, Events(t, line)).verification = b.verification
  BY <1>11, <1>4, <1>6, <1>9, <1>10 DEF r, SameNews, line
<1> QED
  BY <1>12 DEF Said, line

\* The verification ends, one way or the other.
LEMMA VerdictGood ==
  ASSUME NEW k, NEW b, Open(k, b, "VERIFY"), Recorded(k, "verified")
  PROVE  LET r == Apply(b, StageEvent("VERIFY", "done", b.attempt))
         IN Open(k, r, "none") /\ SameNews(b, r) /\ r.attempt = b.attempt
<1>1. "VERIFY" \in StageNames \ MotionStages
  BY TheStages DEF MotionStages
<1>2. "done" \in {"done", "failed", "skipped"} /\ b.attempt \in {0, b.attempt}
  OBVIOUS
<1> QED
  BY <1>1, <1>2, SideEnds

LEMMA VerdictBad ==
  ASSUME NEW k, NEW b, Open(k, b, "VERIFY")
  PROVE  LET r == Apply(b, StageEvent("VERIFY", "failed", b.attempt))
         IN Open(k, r, "none") /\ SameNews(b, r) /\ r.attempt = b.attempt
<1>1. "VERIFY" \in StageNames \ MotionStages
  BY TheStages DEF MotionStages
<1>2. "failed" \in {"done", "failed", "skipped"} /\ b.attempt \in {0, b.attempt}
  OBVIOUS
<1> QED
  BY <1>1, <1>2, SideEnds

\* A verdict is shown as the attempt's.
LEMMA VerdictLine ==
  ASSUME NEW l, NEW t, NEW b, NEW ok \in BOOLEAN, At(l, t, b, "none"), b.attempt = t.attempt,
         ok => Recorded(l, "verified")
  PROVE  \E u, r :
           /\ Said(l, t, b, [text |-> "verdict", ok |-> ok], u, r)
           /\ At(l, u, r, "none")
           /\ SameTry(t, u) /\ (u.detected <=> t.detected) /\ u.move = t.move
           /\ r.attempt = t.attempt
           /\ (r.verification.ok <=> ok) /\ r.verification.attempt = t.attempt
<1> DEFINE line == [text |-> "verdict", ok |-> ok]
           c == StageEvent("VERIFY", "active", 0)
           d == [kind |-> "verification", ok |-> ok, attempt |-> t.attempt]
           e == StageEvent("VERIFY", IF ok THEN "done" ELSE "failed", t.attempt)
           b1 == Apply(b, c)
           b2 == Apply(b1, d)
           b3 == Apply(b2, e)
           r == Played(b, Events(t, line))
<1>1. /\ t \in Translator /\ ~t.alerted /\ t.attempt \in Nat /\ t.attempt # 0
      /\ b.alerts = <<>> /\ Open(l, b, "none")
  BY DEF At, Translator
<1>2. "VERIFY" \in StageNames \ MotionStages
  BY TheStages DEF MotionStages
<1>3. Events(t, line) = <<c, d, e>>
  BY <1>1, EventsOfLine DEF OnVerdict
<1>4. After(t, line) = [t EXCEPT !.verified = TRUE]
  BY <1>1, AfterLine
<1>5. /\ After(t, line) \in Translator /\ ~After(t, line).alerted
      /\ After(t, line).attempt # 0
  BY <1>1, <1>4 DEF Translator
<1>6. Open(l, b1, "VERIFY") /\ b1.attempt = t.attempt /\ b1.alerts = <<>>
  BY <1>1, <1>2, SideBegins DEF SameNews
<1> HIDE DEF b1
<1>7. /\ Open(l, b2, "VERIFY") /\ b2.attempt = t.attempt /\ b2.alerts = <<>>
      /\ b2.verification = [ok |-> ok, attempt |-> t.attempt]
  <2>1. b1 \in Board(Orders)
    BY <1>6 DEF Open, Safe
  <2>2. /\ b2 \in Board(Orders)
        /\ b2 = [b1 EXCEPT !.verification = [ok |-> ok, attempt |-> t.attempt]]
    BY <1>1, <2>1, VerdictApplied
  <2>3. /\ b2.stages = b1.stages /\ b2.attempt = b1.attempt /\ b2.outcome = b1.outcome
        /\ b2.detection = b1.detection /\ b2.alerts = b1.alerts
        /\ b2.verification = [ok |-> ok, attempt |-> t.attempt]
    BY <2>1, <2>2 DEF Board
  <2> HIDE DEF b2
  <2> QED
    BY <1>6, <2>2, <2>3, OpenStill
<1> HIDE DEF b2
<1>8. /\ Open(l, b3, "none") /\ b3.attempt = t.attempt /\ b3.alerts = <<>>
      /\ b3.verification = [ok |-> ok, attempt |-> t.attempt]
  <2> DEFINE n == b2.attempt
             status == IF ok THEN "done" ELSE "failed"
             g == Apply(b2, StageEvent("VERIFY", status, n))
  <2>1. Open(l, g, "none") /\ SameNews(b2, g) /\ g.attempt = b2.attempt
    <3>1. CASE ok
      <4>1. Recorded(l, "verified") /\ status = "done"
        BY <3>1
      <4> HIDE DEF status
      <4> QED
        BY <1>7, <4>1, VerdictGood
    <3>2. CASE ~ok
      <4>1. status = "failed"
        BY <3>2
      <4> HIDE DEF status
      <4> QED
        BY <1>7, <4>1, VerdictBad
    <3> QED
      BY <3>1, <3>2
  <2>2. g = b3
    BY <1>7
  <2> HIDE DEF g, b3
  <2> QED
    BY <1>7, <2>1, <2>2 DEF SameNews
<1>9. Fits(l, b, TRUE) /\ Fits(l, b1, TRUE) /\ Fits(l, b2, TRUE) /\ Fits(l, b3, TRUE)
  BY <1>1, <1>6, <1>7, <1>8, SafeFits DEF Open
<1>10. line.text # "order"
  OBVIOUS
<1> HIDE DEF line, c, d, e
<1>11. LineLeads(l, t, b, line, TRUE) /\ r = b3
  <2> DEFINE s0 == Events(t, line)
             row == <<b1, b2, b3>>
  <2>1. s0 = <<c, d, e>>
    BY <1>3
  <2>2. SeqOf(s0) /\ Len(s0) = 3 /\ s0[1] = c /\ s0[2] = d /\ s0[3] = e
    BY <2>1, ThreeEvents
  <2>3. row[1] = Apply(b, c) /\ row[2] = Apply(row[1], d) /\ row[3] = Apply(row[2], e)
    BY DEF b1, b2, b3
  <2>4. row[3] = b3 /\ \A i \in 1..3 : Fits(l, row[i], TRUE)
    <3>1. \A i \in 1..3 : i = 1 \/ i = 2 \/ i = 3
      OBVIOUS
    <3>2. row[1] = b1 /\ row[2] = b2 /\ row[3] = b3
      OBVIOUS
    <3> HIDE DEF row
    <3> QED
      BY <1>9, <3>1, <3>2
  <2> HIDE DEF row
  <2>5. LineLeads(l, t, b, line, TRUE) /\ Played(b, s0) = row[3]
    BY <1>9, <1>10, <2>2, <2>3, <2>4, LineOfThree
  <2> QED
    BY <2>4, <2>5
<1> HIDE DEF b3
<1> HIDE DEF r
<1>12. At(l, After(t, line), r, "none")
  BY <1>5, <1>8, <1>11 DEF At
<1>13. /\ SameTry(t, After(t, line)) /\ (After(t, line).detected <=> t.detected)
       /\ After(t, line).move = t.move
  BY <1>1, <1>4 DEF SameTry, Translator
<1>14. /\ LineLeads(l, t, b, line, TRUE) /\ At(l, After(t, line), r, "none")
       /\ SameTry(t, After(t, line)) /\ (After(t, line).detected <=> t.detected)
       /\ After(t, line).move = t.move /\ r.attempt = t.attempt
       /\ (r.verification.ok <=> ok) /\ r.verification.attempt = t.attempt
  <2>1. r.attempt = t.attempt /\ r.verification = [ok |-> ok, attempt |-> t.attempt]
    BY <1>8, <1>11
  <2>2. (r.verification.ok <=> ok) /\ r.verification.attempt = t.attempt
    BY <2>1
  <2> QED
    BY <2>1, <2>2, <1>11, <1>12, <1>13
<1> QED
  BY <1>14 DEF Said, line, r

\* Another attempt is announced, which shows with the next move.
LEMMA RetryLine ==
  ASSUME NEW l, NEW t, NEW b, NEW n \in Nat, n # 0, At(l, t, b, "none")
  PROVE  \E u, r :
           /\ Said(l, t, b, [text |-> "retry", n |-> n], u, r)
           /\ At(l, u, r, "none") /\ r = b
           /\ u \in Translator /\ u.attempt = n /\ u.retried
           /\ (u.detected <=> t.detected) /\ u.move = t.move
<1> DEFINE line == [text |-> "retry", n |-> n]
<1>1. /\ t \in Translator /\ ~t.alerted /\ b.alerts = <<>> /\ Open(l, b, "none")
  BY DEF At
<1>2. SeqOf(Events(t, line)) /\ Len(Events(t, line)) = 0 /\ line.text # "order"
  <2>1. SeqOf(<<>>) /\ Len(<<>>) = 0
    BY DEF SeqOf
  <2>2. Events(t, line) = <<>>
    BY <1>1, EventsOfLine
  <2> QED
    BY <2>1, <2>2
<1>3. After(t, line) = [t EXCEPT !.attempt = n, !.retried = TRUE]
  BY <1>1, AfterLine
<1>4. Fits(l, b, TRUE)
  BY <1>1, SafeFits DEF Open
<1>5. /\ After(t, line) \in Translator /\ ~After(t, line).alerted
      /\ After(t, line).attempt # 0
  BY <1>1, <1>3 DEF Translator
<1> HIDE DEF line
<1>6. LineLeads(l, t, b, line, TRUE) /\ Played(b, Events(t, line)) = b
  <2> DEFINE s0 == Events(t, line)
  <2>1. LineLeads(l, t, b, line, TRUE)
    BY <1>2, <1>4, LineOfNone
  <2>2. Len(s0) = 0 /\ Len(s0) \in Nat
    BY <1>2, <1>4
  <2> HIDE DEF s0
  <2>3. PICK f : Leads(f, b, s0, Len(s0)) /\ Played(b, s0) = f[Len(s0)]
    BY <2>2, PlayedLeads
  <2>4. f[0] = b
    BY <2>2, <2>3 DEF Leads
  <2> QED
    BY <2>1, <2>2, <2>3, <2>4 DEF s0
<1>7. At(l, After(t, line), b, "none")
  BY <1>1, <1>5 DEF At
<1>8. /\ After(t, line) \in Translator /\ After(t, line).attempt = n
      /\ After(t, line).retried /\ (After(t, line).detected <=> t.detected)
      /\ After(t, line).move = t.move
  BY <1>1, <1>3 DEF SameTry, Translator
<1>9. /\ LineLeads(l, t, b, line, TRUE)
      /\ At(l, After(t, line), Played(b, Events(t, line)), "none")
      /\ Played(b, Events(t, line)) = b
      /\ After(t, line) \in Translator /\ After(t, line).attempt = n
      /\ After(t, line).retried /\ (After(t, line).detected <=> t.detected)
      /\ After(t, line).move = t.move
  BY <1>8, <1>3, <1>6, <1>7 DEF line
<1> QED
  BY <1>9 DEF Said, line

\* A line nobody can read.
LEMMA UnreadableLine ==
  ASSUME NEW l, NEW t \in Translator, NEW b, NEW s, Open(l, b, s)
  PROVE  \E u, r :
           Said(l, t, b, Line("unreadable"), u, r) /\ u = t /\ r = b
<1> DEFINE line == Line("unreadable")
<1>1. /\ SeqOf(Events(t, line)) /\ Len(Events(t, line)) = 0
      /\ line.text # "order" /\ After(t, line) = t
  <2>1. SeqOf(<<>>) /\ Len(<<>>) = 0
    BY DEF SeqOf
  <2>2. Events(t, line) = <<>> /\ After(t, line) = t
    BY EventsOfLine, AfterLine
  <2> QED
    BY <2>1, <2>2 DEF Line
<1>2. Fits(l, b, TRUE)
  BY SafeFits DEF Open
<1> HIDE DEF line
<1>3. LineLeads(l, t, b, line, TRUE) /\ Played(b, Events(t, line)) = b
  <2> DEFINE s0 == Events(t, line)
  <2>1. LineLeads(l, t, b, line, TRUE)
    BY <1>1, <1>2, LineOfNone
  <2>2. Len(s0) = 0 /\ Len(s0) \in Nat
    BY <1>1, <1>2
  <2> HIDE DEF s0
  <2>3. PICK f : Leads(f, b, s0, Len(s0)) /\ Played(b, s0) = f[Len(s0)]
    BY <2>2, PlayedLeads
  <2>4. f[0] = b
    BY <2>2, <2>3 DEF Leads
  <2> QED
    BY <2>1, <2>2, <2>3, <2>4 DEF s0
<1>4. /\ LineLeads(l, t, b, line, TRUE)
      /\ After(t, line) = t
      /\ Played(b, Events(t, line)) = b
  BY <1>1, <1>3 DEF line
<1> QED
  BY <1>4 DEF Said, line

SeverityOf(kind) == IF kind = "order_failed" THEN "error" ELSE "info"
Shouted(kind) == <<[severity |-> SeverityOf(kind), origin |-> "run_order"]>>

\* The alert is shown.
LEMMA AlertedLine ==
  ASSUME NEW l, NEW t, NEW b, NEW kind, At(l, t, b, "none")
  PROVE  \E u, r :
           /\ Said(l, t, b, [text |-> "alert", kind |-> kind], u, r)
           /\ Open(l, r, "ALERT")
           /\ SameTry(t, u) /\ (u.detected <=> t.detected) /\ u.move = t.move
           /\ r.alerts = Shouted(kind)
           /\ r.verification = b.verification
<1> DEFINE line == [text |-> "alert", kind |-> kind]
           c == StageEvent("ALERT", "active", 0)
           a == SeverityOf(kind)
           d == [kind |-> "alert", origin |-> "run_order", severity |-> a]
           b1 == Apply(b, c)
           b2 == Apply(b1, d)
           r == Played(b, Events(t, line))
<1>1. /\ t \in Translator /\ ~t.alerted /\ b.alerts = <<>> /\ Open(l, b, "none")
  BY DEF At
<1>2. "ALERT" \in StageNames \ MotionStages
  BY TheStages DEF MotionStages
<1>3. Events(t, line) = <<c, d>>
  <2>1. Events(t, line) = OnAlertLine(t, kind)
    BY <1>1, EventsOfLine
  <2>2. <<c>> \o <<d>> = <<c, d>>
    <3> HIDE DEF c, d
    <3> QED
      BY Pairs
  <2> QED
    BY <1>1, <2>1, <2>2 DEF OnAlertLine, SeverityOf
<1>4. After(t, line) = [t EXCEPT !.alerted = TRUE]
  BY <1>1, AfterLine
<1>5. /\ Open(l, b1, "ALERT") /\ b1.alerts = <<>>
      /\ b1.verification = b.verification
  BY <1>1, <1>2, SideBegins DEF SameNews
<1> HIDE DEF b1
<1>6. /\ Open(l, b2, "ALERT") /\ b2.alerts = Shouted(kind)
      /\ b2.verification = b.verification
  <2>1. b1 \in Board(Orders)
    BY <1>5 DEF Open, Safe
  <2>2. a \in {"info", "warning", "error"} /\ "run_order" \in {"dashboard", "run_order"}
    BY DEF SeverityOf
  <2> HIDE DEF a
  <2>3. b2 \in Board(Orders)
        /\ b2 = [b1 EXCEPT !.alerts = Append(b1.alerts, [severity |-> a, origin |-> "run_order"])]
    BY <2>1, <2>2, AlertApplied
  <2>4. /\ b2.stages = b1.stages /\ b2.attempt = b1.attempt /\ b2.outcome = b1.outcome
        /\ b2.detection = b1.detection /\ b2.verification = b1.verification
        /\ b2.alerts = Append(b1.alerts, [severity |-> a, origin |-> "run_order"])
    BY <2>1, <2>3 DEF Board
  <2> HIDE DEF b2
  <2>5. b2.alerts = <<[severity |-> a, origin |-> "run_order"]>>
    BY <1>5, <2>4
  <2> QED
    BY <1>5, <2>3, <2>4, <2>5, OpenStill DEF Shouted, a
<1>7. Fits(l, b, TRUE) /\ Fits(l, b1, TRUE) /\ Fits(l, b2, TRUE)
  BY <1>1, <1>5, <1>6, SafeFits DEF Open
<1>8. line.text # "order"
  OBVIOUS
<1> HIDE DEF line, c, d
<1>9. b1 = Apply(b, c) /\ b2 = Apply(b1, d)
  BY DEF b1
<1> HIDE DEF b2
<1>10. LineLeads(l, t, b, line, TRUE) /\ r = b2
  BY <1>3, <1>7, <1>8, <1>9, LineOfTwo
<1>11. /\ SameTry(t, After(t, line)) /\ (After(t, line).detected <=> t.detected)
       /\ After(t, line).move = t.move
  BY <1>1, <1>4 DEF SameTry, Translator
<1>12. /\ LineLeads(l, t, b, line, TRUE)
       /\ Open(l, Played(b, Events(t, line)), "ALERT")
       /\ SameTry(t, After(t, line)) /\ (After(t, line).detected <=> t.detected)
       /\ After(t, line).move = t.move
       /\ Played(b, Events(t, line)).alerts = Shouted(kind)
       /\ Played(b, Events(t, line)).verification = b.verification
  BY <1>11, <1>4, <1>5, <1>6, <1>10 DEF r, line
<1> QED
  BY <1>12 DEF Said, line

\* The outcome that a last line tells translator t.
Outcome(text, t) ==
  IF text = "failed" THEN "failed" ELSE IF t.retried THEN "retried" ELSE "fulfilled"

\* The run's last line ends it on the page.
LEMMA ResultLine ==
  ASSUME NEW l, NEW t \in Translator, NEW b, NEW s, Open(l, b, s), t.attempt # 0,
         NEW text \in {"fulfilled", "failed"}, Excused(l, s),
         s \in CutShort => text = "failed"
  PROVE  \E u, r :
           /\ Said(l, t, b, Line(text), u, r)
           /\ u = t /\ r \in Board(Orders) /\ Detected(r)
           /\ r.outcome = Outcome(text, t) /\ r.attempts = t.attempt
           /\ r.alerts = b.alerts /\ r.verification = b.verification
<1> DEFINE line == Line(text)
           status == IF text = "failed" THEN "failed"
                     ELSE IF t.retried THEN "retried" ELSE "fulfilled"
           ended == IF status = "failed" THEN "failed" ELSE "done"
           c == StageEvent("VERIFY", "skipped", 0)
           d == StageEvent("ALERT", ended, 0)
           e == [kind |-> "outcome", status |-> status, attempts |-> t.attempt]
           r == Played(b, Events(t, line))
<1>1. After(t, line) = t /\ line.text # "order" /\ line.text = text
  BY AfterLine DEF Line
<1>2. Events(t, line) = (IF t.verified THEN <<>> ELSE <<c>>) \o <<d, e>>
  <2>1. Events(t, line) = OnResult(t, status)
    BY EventsOfLine
  <2> QED
    BY <2>1 DEF OnResult
<1>3. /\ t.verified \in BOOLEAN /\ t.attempt \in Nat
      /\ status \in Outcomes \ {"running"}
      /\ s \in CutShort => status = "failed"
      /\ ended \in {"done", "failed", "skipped"}
  BY DEF Translator, Outcomes
<1>4. /\ "ALERT" \in StageNames \ MotionStages /\ "VERIFY" \in StageNames \ MotionStages
  BY TheStages DEF MotionStages
<1> HIDE DEF status, ended, line
<1>5. ASSUME NEW b1, NEW x, Open(l, b1, x), x = s \/ x = "none", SameNews(b, b1)
      PROVE  LET b2 == Apply(b1, d)
                 b3 == Apply(b2, e)
             IN /\ Fits(l, b2, TRUE) /\ Fits(l, b3, TRUE)
                /\ b3.outcome = status /\ b3.attempts = t.attempt /\ SameNews(b, b3)
  <2> DEFINE b2 == Apply(b1, d)
             b3 == Apply(b2, e)
             y == IF x = "ALERT" THEN "none" ELSE x
  <2>1. Open(l, b2, y) /\ SameNews(b1, b2)
    <3>1. "ALERT" # "DETECT" /\ "ALERT" # "VERIFY" /\ 0 \in {0, b1.attempt}
      OBVIOUS
    <3> QED
      BY <1>3, <1>4, <1>5, <3>1, SideEnds
  <2> HIDE DEF b2
  <2>2. /\ y \in CutShort => status = "failed"
        /\ Excused(l, y)
    BY <1>3, <1>5 DEF Excused, CutShort
  <2> HIDE DEF y
  <2>3. /\ e.kind = "outcome" /\ e.status = status /\ e.attempts = t.attempt
        /\ e.status \in Outcomes \ {"running"} /\ e.attempts \in Nat /\ e.attempts # 0
        /\ y \in CutShort => e.status = "failed"
    BY <1>3, <2>2
  <2> HIDE DEF e
  <2>4. /\ Fits(l, b3, TRUE) /\ b3.outcome = status /\ b3.attempts = t.attempt
        /\ SameNews(b2, b3)
    <3>1. Open(l, b2, y) /\ Excused(l, y)
      BY <2>1, <2>2
    <3>2. y \in CutShort => e.status = "failed"
      BY <2>3
    <3>3. /\ e.kind = "outcome" /\ e.status \in Outcomes \ {"running"}
          /\ e.attempts \in Nat /\ e.attempts # 0
      BY <2>3
    <3>4. LET q == Apply(b2, e)
          IN /\ Fits(l, q, TRUE) /\ q.outcome = e.status /\ q.attempts = e.attempts
             /\ SameNews(b2, q)
      BY <3>1, <3>2, <3>3, RunEnds
    <3> QED
      BY <2>3, <3>4
  <2> HIDE DEF b3
  <2>5. Fits(l, b2, TRUE)
    BY <2>1, SafeFits DEF Open
  <2>6. SameNews(b, b3)
    BY <1>5, <2>1, <2>4 DEF SameNews
  <2> QED
    BY <2>4, <2>5, <2>6 DEF b2, b3
<1>6. Fits(l, b, TRUE)
  BY SafeFits DEF Open
<1> DEFINE Shows == /\ LineLeads(l, t, b, line, TRUE) /\ Fits(l, r, TRUE)
                    /\ r.outcome = status /\ r.attempts = t.attempt /\ SameNews(b, r)
<1>7. ASSUME t.verified PROVE Shows
  <2> DEFINE b2 == Apply(b, d)
             b3 == Apply(b2, e)
  <2>1. /\ Fits(l, b2, TRUE) /\ Fits(l, b3, TRUE)
        /\ b3.outcome = status /\ b3.attempts = t.attempt /\ SameNews(b, b3)
    BY <1>5 DEF SameNews
  <2> HIDE DEF d, e
  <2>2. Events(t, line) = <<d, e>>
    <3>1. <<>> \o <<d, e>> = <<d, e>>
      BY Pairs
    <3> QED
      BY <1>2, <1>7, <3>1
  <2>3. b2 = Apply(b, d) /\ b3 = Apply(b2, e)
    OBVIOUS
  <2> HIDE DEF b2, b3
  <2>4. LineLeads(l, t, b, line, TRUE) /\ r = b3
    BY <1>1, <1>6, <2>1, <2>2, <2>3, LineOfTwo
  <2> HIDE DEF r
  <2> QED
    BY <2>1, <2>4
<1>8. ASSUME ~t.verified PROVE Shows
  <2> DEFINE b1 == Apply(b, c)
             b2 == Apply(b1, d)
             b3 == Apply(b2, e)
             x == IF s = "VERIFY" THEN "none" ELSE s
  <2>1. Open(l, b1, x) /\ SameNews(b, b1)
    <3>1. "VERIFY" # "DETECT" /\ "skipped" # "done"
          /\ "skipped" \in {"done", "failed", "skipped"} /\ 0 \in {0, b.attempt}
      OBVIOUS
    <3> QED
      BY <1>4, <3>1, SideEnds
  <2> HIDE DEF b1
  <2>2. x = s \/ x = "none"
    OBVIOUS
  <2> HIDE DEF x
  <2>3. /\ Fits(l, b2, TRUE) /\ Fits(l, b3, TRUE)
        /\ b3.outcome = status /\ b3.attempts = t.attempt /\ SameNews(b, b3)
    BY <1>5, <2>1, <2>2
  <2>4. Fits(l, b1, TRUE)
    BY <2>1, SafeFits DEF Open
  <2> HIDE DEF c, d, e
  <2>5. Events(t, line) = <<c, d, e>>
    <3>1. <<c>> \o <<d, e>> = <<c, d, e>>
      BY OneAndTwo
    <3> QED
      BY <1>2, <1>8, <3>1
  <2>6. LineLeads(l, t, b, line, TRUE) /\ r = b3
    <3> DEFINE s0 == Events(t, line)
               row == <<b1, b2, b3>>
    <3>1. s0 = <<c, d, e>>
      BY <2>5
    <3>2. SeqOf(s0) /\ Len(s0) = 3 /\ s0[1] = c /\ s0[2] = d /\ s0[3] = e
      BY <3>1, ThreeEvents
    <3>3. row[1] = Apply(b, c) /\ row[2] = Apply(row[1], d) /\ row[3] = Apply(row[2], e)
      BY DEF b1, b2, b3
    <3>4. row[3] = b3 /\ \A i \in 1..3 : Fits(l, row[i], TRUE)
      <4>1. \A i \in 1..3 : i = 1 \/ i = 2 \/ i = 3
        OBVIOUS
      <4>2. row[1] = b1 /\ row[2] = b2 /\ row[3] = b3
        OBVIOUS
      <4> HIDE DEF row
      <4> QED
        BY <2>3, <2>4, <4>1, <4>2
    <3> HIDE DEF row
    <3>5. LineLeads(l, t, b, line, TRUE) /\ Played(b, s0) = row[3]
      BY <1>1, <1>6, <3>2, <3>3, <3>4, LineOfThree
    <3> QED
      BY <3>4, <3>5
  <2> HIDE DEF b2, b3
  <2> HIDE DEF r
  <2> QED
    BY <2>3, <2>6
<1>9. Shows
  BY <1>3, <1>7, <1>8
<1>10. /\ LineLeads(l, t, b, line, TRUE) /\ r \in Board(Orders) /\ Detected(r)
       /\ r.outcome = Outcome(text, t) /\ r.attempts = t.attempt
       /\ r.alerts = b.alerts /\ r.verification = b.verification
  BY <1>9 DEF Outcome, status, SameNews, Fits
<1> QED
  BY <1>1, <1>10 DEF Said, line

---------------------------------------------------------------------------
(* The steps of a call and the lines they print. *)

\* The verdict of call k is the one on board b.
VerdictFits(k, b) ==
  IF k.verification = "none" THEN b.verification = NoVerdict
  ELSE /\ b.verification.ok <=> k.verification = "ok"
       /\ b.verification.ok => b.verification.attempt = k.attempts

ResultOf(k) == IF k.status = "failed" THEN "failed"
               ELSE IF k.attempts > 1 THEN "retried" ELSE "fulfilled"

\* What the page of a call that is over must tell, when its last line was plain
\* and when it could not be read.
Settles(k, b, plain) ==
  /\ IF plain
     THEN b.outcome = ResultOf(k) /\ (ResultOf(k) # "failed" => b.attempts = k.attempts)
     ELSE b.outcome = "running" /\ k.status = "failed"
  /\ VerdictFits(k, b)
  /\ b.alerts = IF k.alert = "none" THEN <<>> ELSE Shouted(k.alert)

\* The call waits for its pick to be resolved.
Waiting(k, t, b) ==
  /\ At(k, t, b, "DETECT") /\ ~t.detected /\ t.attempt = 1 /\ ~t.retried
  /\ k.verification = "none" /\ b.verification = NoVerdict

\* The call is under way; the strip is at stage s.
Working(k, t, b, s) ==
  /\ At(k, t, b, s) /\ t.attempt = k.attempt /\ (t.retried <=> k.attempt > 1)
  /\ t.detected /\ t.move = s /\ b.attempt = k.attempt
  /\ s # "none" => Status(b, s) = "active"
  /\ VerdictFits(k, b)

\* Translator t and board b, once all that was printed is read, are where the
\* call is.
Phase(k, t, b, plain) ==
  /\ t \in Translator /\ b \in Board(Orders) /\ Detected(b)
  /\ k.pc \notin {"idle", "returned"} => k.alert = "none"
  /\ k.pc = "resolve" => Waiting(k, t, b) /\ k.step = 1
  /\ k.pc = "move" => /\ Working(k, t, b, IF k.step <= 3 THEN "PICK" ELSE "PLACE")
                      /\ k.verification # "ok"
  /\ k.pc = "verify" => k.step = 1
  /\ k.pc \in {"verify", "alert"} => Working(k, t, b, "none") /\ k.attempts = k.attempt
  /\ k.pc = "returned" => Settles(k, b, plain)

Plain(x) == x.text # "unreadable"

\* The lines leave translator and board where call l is.
SaysOne(l, t, b, x) == \E u, r : Said(l, t, b, x, u, r) /\ Phase(l, u, r, Plain(x))
SaysTwo(l, t, b, x, y) == \E u, r : Said(l, t, b, x, u, r) /\ SaysOne(l, u, r, y)
SaysThree(l, t, b, x, y, z) ==
  \E u, r : Said(l, t, b, x, u, r) /\ SaysTwo(l, u, r, y, z)

LEMMA SameRecorded ==
  ASSUME NEW k, NEW l, l.stages = k.stages, k.pc # "returned"
  PROVE  GoesOn(k, l)
BY DEF GoesOn, Recorded, Broken

LEMMA MoreRecorded ==
  ASSUME NEW k, NEW l, k.stages \in Seq(Stages), NEW x \in Stages,
         l.stages = Append(k.stages, x), k.pc # "returned"
  PROVE  GoesOn(k, l) /\ Recorded(l, x)
<1> DEFINE s == k.stages
           r == Append(s, x)
<1>1. /\ r \in Seq(Stages) /\ Len(r) = Len(s) + 1 /\ Len(s) \in Nat
      /\ \A i \in 1..Len(s) : r[i] = s[i]
      /\ r[Len(s) + 1] = x /\ DOMAIN s = 1..Len(s) /\ DOMAIN r = 1..Len(r)
  BY StageRecorded
<1> HIDE DEF s, r
<1>2. \A i \in DOMAIN s : i \in DOMAIN r /\ r[i] = s[i]
  BY <1>1
<1>3. Len(s) + 1 \in DOMAIN r
  BY <1>1
<1>4. l.stages = r
  BY DEF r, s
<1>5. GoesOn(k, l)
  BY <1>2, <1>4 DEF GoesOn, Recorded, Broken, s
<1>6. Recorded(l, x)
  BY <1>1, <1>3, <1>4 DEF Recorded
<1> QED
  BY <1>5, <1>6

LEMMA StartSaid ==
  ASSUME NEW k, NEW t, NEW b, NEW plain, Phase(k, t, b, plain),
         NEW l, NEW o \in Orders,
         l.pc = "resolve", l.step = 1, l.verification = "none", l.alert = "none"
  PROVE  SaysOne(l, t, b, [text |-> "order", order |-> o])
<1> DEFINE x == [text |-> "order", order |-> o]
           u == After(t, x)
           r == Played(b, Events(t, x))
<1>1. t \in Translator /\ b \in Board(Orders) /\ Detected(b)
  BY DEF Phase
<1>2. /\ LineLeads(l, t, b, x, TRUE) /\ u = NewTranslator
      /\ Open(l, r, "DETECT") /\ r.alerts = <<>> /\ r.verification = NoVerdict
  BY <1>1, OrderLine
<1> HIDE DEF x
<1>3. /\ u \in Translator /\ ~u.alerted /\ ~u.detected /\ ~u.retried /\ u.attempt = 1
  BY <1>2 DEF NewTranslator, Translator
<1>4. Said(l, t, b, x, u, r)
  BY <1>2 DEF Said
<1> HIDE DEF u, r
<1>5. Waiting(l, u, r)
  BY <1>2, <1>3 DEF Waiting, At
<1>6. r \in Board(Orders) /\ Detected(r)
  BY <1>2 DEF Open, Safe
<1>7. Phase(l, u, r, Plain(x))
  BY <1>3, <1>5, <1>6 DEF Phase
<1> QED
  BY <1>4, <1>7 DEF SaysOne, x

\* A pick starts, the first or another one.
LEMMA PickSaid ==
  ASSUME NEW l, NEW t, NEW b, At(l, t, b, IF t.detected THEN "none" ELSE "DETECT"),
         t.attempt = l.attempt, t.retried <=> l.attempt > 1, VerdictFits(l, b),
         l.pc = "move", l.step = 1, l.verification # "ok", l.alert = "none"
  PROVE  SaysOne(l, t, b, Line("picking"))
<1>1. PICK u, r :
        /\ Said(l, t, b, Line("picking"), u, r) /\ At(l, u, r, "PICK")
        /\ SameTry(t, u) /\ u.detected /\ u.move = "PICK"
        /\ Status(r, "PICK") = "active" /\ r.attempt = t.attempt
        /\ r.verification = b.verification
  BY PickingLine
<1>2. /\ u.attempt = t.attempt /\ (u.retried <=> t.retried) /\ u.detected
      /\ u.move = "PICK"
  BY <1>1 DEF SameTry
<1>3. VerdictFits(l, r)
  BY <1>1 DEF VerdictFits
<1>4. Working(l, u, r, "PICK")
  BY <1>1, <1>2, <1>3 DEF Working
<1>5. u \in Translator /\ r \in Board(Orders) /\ Detected(r)
  BY <1>1 DEF At, Open, Safe
<1>6. Phase(l, u, r, Plain(Line("picking")))
  BY <1>4, <1>5 DEF Phase
<1> QED
  BY <1>1, <1>6 DEF SaysOne

\* The pick is resolved, by the poses or by what the camera sees.
LEMMA ResolveSaid ==
  ASSUME NEW k, NEW t, NEW b, NEW plain, Phase(k, t, b, plain),
         k.pc = "resolve", NEW l, l.stages = k.stages,
         l.pc = "move", l.step = 1, l.attempt = 1, l.verification = k.verification,
         l.alert = k.alert
  PROVE  /\ SaysOne(l, t, b, Line("picking"))
         /\ SaysTwo(l, t, b, Line("located"), Line("picking"))
<1>1. Waiting(k, t, b) /\ k.alert = "none" /\ t \in Translator
  BY DEF Phase
<1>2. /\ At(l, t, b, "DETECT") /\ ~t.detected /\ t.attempt = 1 /\ ~t.retried
      /\ l.verification = "none" /\ b.verification = NoVerdict
  BY <1>1, SameRecorded, OpenGrows DEF Waiting, At
<1>3. SaysOne(l, t, b, Line("picking"))
  BY <1>1, <1>2, PickSaid DEF VerdictFits
<1>4. PICK u, r :
        /\ Said(l, t, b, Line("located"), u, r) /\ At(l, u, r, "none")
        /\ SameTry(t, u) /\ u.detected /\ u.move = t.move
        /\ r.verification = b.verification
  BY <1>2, LocatedLine
<1>5. u.detected /\ u.attempt = 1 /\ ~u.retried
  BY <1>2, <1>4 DEF SameTry
<1>6. SaysOne(l, u, r, Line("picking"))
  BY <1>1, <1>2, <1>4, <1>5, PickSaid DEF VerdictFits
<1> QED
  BY <1>3, <1>4, <1>6 DEF SaysTwo

LEMMA WorkingGrows ==
  ASSUME NEW k, NEW l, NEW t, NEW b, NEW s, Working(k, t, b, s), GoesOn(k, l),
         l.attempt = k.attempt, l.verification = k.verification,
         l.verification = "ok" => l.attempts = k.attempts
  PROVE  Working(l, t, b, s)
<1>1. At(l, t, b, s)
  BY OpenGrows DEF Working, At
<1>2. VerdictFits(l, b)
  BY DEF Working, VerdictFits
<1> QED
  BY <1>1, <1>2 DEF Working

LEMMA CompleteSaid ==
  ASSUME NEW l, NEW t, NEW b, NEW s \in MotionStages, Working(l, t, b, s),
         s = "PICK" => Recorded(l, "picked"), s = "PLACE" => Recorded(l, "placed")
  PROVE  \E u, r : Said(l, t, b, Line("complete"), u, r) /\ Working(l, u, r, "none")
<1>1. s # "none" /\ At(l, t, b, s) /\ t.move = s /\ Status(b, s) = "active"
      /\ b.attempt = t.attempt
  BY DEF Working, MotionStages
<1>2. PICK u, r :
        /\ Said(l, t, b, Line("complete"), u, r) /\ At(l, u, r, "none")
        /\ SameTry(t, u) /\ (u.detected <=> t.detected) /\ u.move = "none"
        /\ r.attempt = t.attempt /\ r.verification = b.verification
  BY <1>1, CompleteLine
<1>3. VerdictFits(l, r)
  BY <1>2 DEF Working, VerdictFits
<1>4. Working(l, u, r, "none")
  BY <1>2, <1>3 DEF Working, SameTry
<1> QED
  BY <1>2, <1>4

\* An action of the plans completes that is not the last of its plan.
LEMMA QuietMove ==
  ASSUME NEW k, NEW t, NEW b, NEW plain, Phase(k, t, b, plain),
         k.pc = "move", NEW l,
         k.step \in {1, 2, 4, 5}, l.pc = "move", l.step = k.step + 1,
         l.stages = k.stages, l.attempt = k.attempt, l.attempts = k.attempts,
         l.verification = k.verification, l.alert = k.alert
  PROVE  \A any : Phase(l, t, b, any)
<1> DEFINE s == IF k.step <= 3 THEN "PICK" ELSE "PLACE"
<1>1. Working(k, t, b, s) /\ k.verification # "ok" /\ k.alert = "none"
  BY DEF Phase
<1>2. s = IF l.step <= 3 THEN "PICK" ELSE "PLACE"
  BY Z3
<1> HIDE DEF s
<1>3. Working(l, t, b, s)
  BY <1>1, SameRecorded, WorkingGrows
<1>4. t \in Translator /\ b \in Board(Orders) /\ Detected(b)
  BY DEF Phase
<1> QED
  BY <1>1, <1>2, <1>3, <1>4 DEF Phase

\* The pick is over and the place begins.
LEMMA PlaceSaid ==
  ASSUME NEW k, NEW t, NEW b, NEW plain, Phase(k, t, b, plain),
         k.pc = "move", NEW l, k.step = 3,
         k.stages \in Seq(Stages), l.pc = "move", l.step = 4,
         l.stages = Append(k.stages, "picked"), l.attempt = k.attempt,
         l.attempts = k.attempts, l.verification = k.verification, l.alert = k.alert
  PROVE  GoesOn(k, l) /\ SaysTwo(l, t, b, Line("complete"), Line("placing"))
<1>1. Working(k, t, b, "PICK") /\ k.verification # "ok" /\ k.alert = "none"
  BY DEF Phase
<1>2. GoesOn(k, l) /\ Recorded(l, "picked")
  BY MoreRecorded, KnownStages
<1>3. Working(l, t, b, "PICK")
  BY <1>1, <1>2, WorkingGrows
<1>4. "PICK" \in MotionStages /\ "PICK" # "PLACE"
  BY DEF MotionStages
<1>5. PICK u, r : Said(l, t, b, Line("complete"), u, r) /\ Working(l, u, r, "none")
  BY <1>2, <1>3, <1>4, CompleteSaid
<1>6. At(l, u, r, "none") /\ r.attempt = u.attempt
  BY <1>5 DEF Working
<1>7. PICK v, q :
        /\ Said(l, u, r, Line("placing"), v, q) /\ At(l, v, q, "PLACE")
        /\ SameTry(u, v) /\ (v.detected <=> u.detected) /\ v.move = "PLACE"
        /\ Status(q, "PLACE") = "active" /\ q.attempt = u.attempt
        /\ q.verification = r.verification
  BY <1>6, PlacingLine
<1>8. VerdictFits(l, q)
  BY <1>5, <1>7 DEF Working, VerdictFits
<1>9. Working(l, v, q, "PLACE")
  BY <1>5, <1>7, <1>8 DEF Working, SameTry
<1>10. v \in Translator /\ q \in Board(Orders) /\ Detected(q)
  BY <1>7 DEF At, Open, Safe
<1>11. Phase(l, v, q, Plain(Line("placing")))
  BY <1>1, <1>9, <1>10 DEF Phase
<1> QED
  BY <1>2, <1>5, <1>7, <1>11 DEF SaysTwo, SaysOne

\* The place is over.
LEMMA PlacedSaid ==
  ASSUME NEW k, NEW t, NEW b, NEW plain, Phase(k, t, b, plain),
         k.pc = "move", NEW l, k.step = 6,
         k.stages \in Seq(Stages), l.pc \in {"verify", "alert"}, l.step = 1,
         l.stages = Append(k.stages, "placed"), l.attempt = k.attempt,
         l.attempts = k.attempt, l.verification = k.verification, l.alert = k.alert
  PROVE  GoesOn(k, l) /\ SaysOne(l, t, b, Line("complete"))
<1>1. Working(k, t, b, "PLACE") /\ k.verification # "ok" /\ k.alert = "none"
  BY DEF Phase
<1>2. GoesOn(k, l) /\ Recorded(l, "placed")
  BY MoreRecorded, KnownStages
<1>3. Working(l, t, b, "PLACE")
  BY <1>1, <1>2, WorkingGrows
<1>4. "PLACE" \in MotionStages /\ "PICK" # "PLACE"
  BY DEF MotionStages
<1>5. PICK u, r : Said(l, t, b, Line("complete"), u, r) /\ Working(l, u, r, "none")
  BY <1>2, <1>3, <1>4, CompleteSaid
<1>6. u \in Translator /\ r \in Board(Orders) /\ Detected(r)
  BY <1>5 DEF Working, At, Open, Safe
<1>7. Phase(l, u, r, Plain(Line("complete")))
  BY <1>1, <1>5, <1>6 DEF Phase
<1> QED
  BY <1>2, <1>5, <1>7 DEF SaysOne

\* The verdict is taken, and the call is about to be announced.
LEMMA VerdictSaid ==
  ASSUME NEW k, NEW t, NEW b, NEW plain, Phase(k, t, b, plain),
         k.pc = "verify", NEW l, NEW ok \in BOOLEAN,
         GoesOn(k, l), ok => Recorded(l, "verified"),
         l.pc = "alert", l.verification # "none", ok <=> l.verification = "ok",
         l.attempt = k.attempt, l.attempts = k.attempts, l.alert = k.alert
  PROVE  SaysOne(l, t, b, [text |-> "verdict", ok |-> ok])
<1>1. Working(k, t, b, "none") /\ k.attempts = k.attempt /\ k.alert = "none"
  BY DEF Phase
<1>2. At(l, t, b, "none") /\ b.attempt = t.attempt
  BY <1>1, OpenGrows DEF Working, At
<1>3. PICK u, r :
        /\ Said(l, t, b, [text |-> "verdict", ok |-> ok], u, r) /\ At(l, u, r, "none")
        /\ SameTry(t, u) /\ (u.detected <=> t.detected) /\ u.move = t.move
        /\ r.attempt = t.attempt 
        /\ (r.verification.ok <=> ok) /\ r.verification.attempt = t.attempt
  BY <1>2, VerdictLine
<1>4. VerdictFits(l, r)
  BY <1>1, <1>3 DEF VerdictFits, Working
<1>5. Working(l, u, r, "none")
  BY <1>1, <1>3, <1>4 DEF Working, SameTry
<1>6. u \in Translator /\ r \in Board(Orders) /\ Detected(r)
  BY <1>3 DEF At, Open, Safe
<1>7. Phase(l, u, r, Plain([text |-> "verdict", ok |-> ok]))
  BY <1>1, <1>5, <1>6 DEF Phase
<1> QED
  BY <1>3, <1>7 DEF SaysOne

\* The item is not in its bin, and another attempt begins.
LEMMA RetrySaid ==
  ASSUME NEW k, NEW t, NEW b, NEW plain, Phase(k, t, b, plain),
         k.pc = "verify", NEW l,
         GoesOn(k, l), l.pc = "move", l.verification \notin {"none", "ok"}, l.step = k.step,
         k.attempt \in Nat, l.attempt = k.attempt + 1, l.attempts = k.attempts,
         l.alert = k.alert
  PROVE  SaysThree(l, t, b, [text |-> "verdict", ok |-> FALSE],
                   [text |-> "retry", n |-> l.attempt], Line("picking"))
<1>1. /\ Working(k, t, b, "none") /\ k.attempts = k.attempt /\ k.alert = "none"
      /\ k.step = 1
  BY DEF Phase
<1>2. At(l, t, b, "none") /\ b.attempt = t.attempt /\ k.attempt # 0 /\ t.detected
  BY <1>1, OpenGrows DEF Working, At
<1>3. PICK u, r :
        /\ Said(l, t, b, [text |-> "verdict", ok |-> FALSE], u, r) /\ At(l, u, r, "none")
        /\ SameTry(t, u) /\ (u.detected <=> t.detected) /\ u.move = t.move
        /\ r.attempt = t.attempt /\ ~r.verification.ok
  BY <1>2, VerdictLine
<1>4. l.attempt \in Nat /\ l.attempt # 0 /\ l.attempt > 1
  <2>1. k.attempt \in Nat /\ k.attempt # 0
    BY <1>2
  <2> QED
    BY <2>1, SMT
<1>5. PICK v, q :
        /\ Said(l, u, r, [text |-> "retry", n |-> l.attempt], v, q)
        /\ At(l, v, q, "none") /\ q = r
        /\ v \in Translator /\ v.attempt = l.attempt /\ v.retried
        /\ (v.detected <=> u.detected) /\ v.move = u.move
  BY <1>3, <1>4, RetryLine
<1>6. VerdictFits(l, q)
  <2>1. ~q.verification.ok
    BY <1>3, <1>5
  <2> QED
    BY <2>1 DEF VerdictFits
<1>7. v.detected /\ At(l, v, q, IF v.detected THEN "none" ELSE "DETECT")
  BY <1>2, <1>3, <1>5
<1>8. SaysOne(l, v, q, Line("picking"))
  BY <1>1, <1>4, <1>5, <1>6, <1>7, PickSaid
<1> QED
  BY <1>3, <1>5, <1>8 DEF SaysThree, SaysTwo

\* The outcome is announced and printed; the line of a failure may be one that
\* cannot be read.
LEMMA AlertSaid ==
  ASSUME NEW k, NEW t, NEW b, NEW plain, Phase(k, t, b, plain),
         k.pc = "alert", NEW l, GoesOn(k, l),
         l.pc = "returned", NEW kind \in {"order_fulfilled", "order_failed"},
         l.alert = kind, NEW status \in {"fulfilled", "failed"}, l.status = status,
         l.attempts = k.attempts, l.verification = k.verification, l.attempt = k.attempt,
         NEW text, text = status \/ (text = "unreadable" /\ status = "failed")
  PROVE  SaysTwo(l, t, b, [text |-> "alert", kind |-> kind], Line(text))
<1>1. Working(k, t, b, "none") /\ k.attempts = k.attempt
  BY DEF Phase
<1>2. Working(l, t, b, "none")
  BY <1>1, WorkingGrows
<1>3. PICK u, r :
        /\ Said(l, t, b, [text |-> "alert", kind |-> kind], u, r) /\ Open(l, r, "ALERT")
        /\ SameTry(t, u) /\ (u.detected <=> t.detected) /\ u.move = t.move
        /\ r.alerts = Shouted(kind) /\ r.verification = b.verification
  BY <1>2, AlertedLine DEF Working
<1>4. u \in Translator /\ u.attempt # 0 /\ u.attempt = l.attempts
      /\ (u.retried <=> l.attempts > 1)
  BY <1>1, <1>2, <1>3 DEF Working, At, SameTry
<1>5. VerdictFits(l, r) /\ r.alerts = Shouted(l.alert) /\ l.alert # "none"
  BY <1>2, <1>3 DEF Working, VerdictFits
<1>6. ASSUME text = status PROVE SaysOne(l, u, r, Line(text))
  <2>1. Excused(l, "ALERT") /\ "ALERT" \notin CutShort
    BY DEF Excused, CutShort
  <2>2. PICK v, q :
          /\ Said(l, u, r, Line(text), v, q) /\ v = u /\ q \in Board(Orders)
          /\ Detected(q)
          /\ q.outcome = Outcome(text, u) /\ q.attempts = u.attempt
          /\ q.alerts = r.alerts /\ q.verification = r.verification
    BY <1>3, <1>4, <1>6, <2>1, ResultLine
  <2>3. Plain(Line(text))
    BY <1>6 DEF Plain, Line
  <2>4. q.outcome = ResultOf(l) /\ q.attempts = l.attempts
    BY <1>4, <1>6, <2>2 DEF ResultOf, Outcome
  <2>5. Settles(l, q, Plain(Line(text)))
    BY <1>5, <2>2, <2>3, <2>4 DEF Settles, VerdictFits
  <2>6. Phase(l, v, q, Plain(Line(text)))
    BY <1>4, <1>5, <2>2, <2>5 DEF Phase
  <2> QED
    BY <2>2, <2>6 DEF SaysOne
<1>7. ASSUME text = "unreadable", status = "failed" PROVE SaysOne(l, u, r, Line(text))
  <2>1. PICK v, q : Said(l, u, r, Line(text), v, q) /\ v = u /\ q = r
    BY <1>3, <1>4, <1>7, UnreadableLine
  <2>2. ~Plain(Line(text))
    BY <1>7 DEF Plain, Line
  <2>3. r.outcome = "running" /\ r \in Board(Orders) /\ Detected(r)
    BY <1>3 DEF Open, Safe
  <2>4. Settles(l, r, Plain(Line(text)))
    BY <1>5, <1>7, <2>2, <2>3 DEF Settles
  <2>5. Phase(l, v, q, Plain(Line(text)))
    BY <1>4, <2>1, <2>3, <2>4 DEF Phase
  <2> QED
    BY <2>1, <2>5 DEF SaysOne
<1>8. SaysOne(l, u, r, Line(text))
  BY <1>6, <1>7
<1> QED
  BY <1>3, <1>8 DEF SaysTwo

\* The call fails with a line that can be read or not.
LEMMA FailureSaid ==
  ASSUME NEW l, NEW t \in Translator, t.attempt # 0, NEW b, NEW s, Open(l, b, s),
         Excused(l, s), b.alerts = <<>>, VerdictFits(l, b), l.pc = "returned",
         l.status = "failed", l.alert = "none"
  PROVE  SaysOne(l, t, b, Line("failed")) /\ SaysOne(l, t, b, Line("unreadable"))
<1>1. SaysOne(l, t, b, Line("failed"))
  <2>1. "failed" \in {"fulfilled", "failed"} /\ Plain(Line("failed"))
    BY DEF Plain, Line
  <2>2. PICK u, r :
          /\ Said(l, t, b, Line("failed"), u, r) /\ u = t
          /\ r \in Board(Orders) /\ Detected(r)
          /\ r.outcome = Outcome("failed", t) /\ r.attempts = t.attempt
          /\ r.alerts = b.alerts /\ r.verification = b.verification
    BY <2>1, ResultLine
  <2>3. r.outcome = "failed" /\ ResultOf(l) = "failed" /\ VerdictFits(l, r)
    BY <2>2 DEF Outcome, ResultOf, VerdictFits
  <2>4. Settles(l, r, Plain(Line("failed")))
    BY <2>1, <2>2, <2>3 DEF Settles
  <2>5. Phase(l, u, r, Plain(Line("failed")))
    BY <2>2, <2>4 DEF Phase
  <2> QED
    BY <2>2, <2>5 DEF SaysOne
<1>2. SaysOne(l, t, b, Line("unreadable"))
  <2>1. PICK u, r : Said(l, t, b, Line("unreadable"), u, r) /\ u = t /\ r = b
    BY UnreadableLine
  <2>2. r.outcome = "running" /\ r \in Board(Orders) /\ Detected(r)
    BY <2>1 DEF Open, Safe
  <2>3. ~Plain(Line("unreadable"))
    BY DEF Plain, Line
  <2>4. Settles(l, r, Plain(Line("unreadable")))
    BY <2>1, <2>2, <2>3 DEF Settles
  <2>5. Phase(l, u, r, Plain(Line("unreadable")))
    BY <2>1, <2>2, <2>4 DEF Phase
  <2> QED
    BY <2>1, <2>5 DEF SaysOne
<1> QED
  BY <1>1, <1>2

\* The strip is at the motion that call k broke off in, if it was in one.
LEMMA FailSaid ==
  ASSUME NEW k, NEW t, NEW b, NEW plain, Phase(k, t, b, plain),
         NEW l, l.stages = k.stages,
         k.pc \in {"resolve", "move", "verify", "alert"},
         l.pc = "returned", l.status = "failed", l.alert = k.alert,
         l.attempts = k.attempts, l.verification = k.verification,
         k.pc = "move" => Excused(l, IF k.step <= 3 THEN "PICK" ELSE "PLACE"),
         NEW text \in {"failed", "unreadable"}
  PROVE  /\ SaysOne(l, t, b, Line(text))
         /\ k.pc = "resolve" => SaysTwo(l, t, b, Line("located"), Line(text))
<1>1. GoesOn(k, l) /\ k.alert = "none"
  BY SameRecorded DEF Phase
<1>2. /\ \E s : Open(l, b, s) /\ Excused(l, s)
      /\ t \in Translator /\ t.attempt # 0 /\ b.alerts = <<>> /\ VerdictFits(l, b)
  <2>1. CASE k.pc = "resolve"
    <3>1. At(k, t, b, "DETECT") /\ VerdictFits(l, b)
      BY <2>1 DEF Phase, Waiting, VerdictFits
    <3>2. Excused(l, "DETECT")
      BY DEF Excused
    <3> QED
      BY <1>1, <3>1, <3>2, OpenGrows DEF At
  <2>2. CASE k.pc # "resolve"
    <3>1. PICK s : Working(k, t, b, s) /\ Excused(l, s)
      <4>1. CASE k.pc = "move"
        BY <4>1 DEF Phase
      <4>2. CASE k.pc # "move"
        <5>1. Working(k, t, b, "none") /\ Excused(l, "none")
          BY <2>2, <4>2 DEF Phase, Excused
        <5> QED
          BY <5>1
      <4> QED
        BY <4>1, <4>2
    <3>2. VerdictFits(l, b)
      BY <3>1 DEF Working, VerdictFits
    <3> QED
      BY <1>1, <3>1, <3>2, OpenGrows DEF Working, At
  <2> QED
    BY <2>1, <2>2
<1>3. SaysOne(l, t, b, Line(text))
  BY <1>1, <1>2, FailureSaid
<1>4. ASSUME k.pc = "resolve" PROVE SaysTwo(l, t, b, Line("located"), Line(text))
  <2>1. At(l, t, b, "DETECT")
    BY <1>1, <1>4, OpenGrows DEF Phase, Waiting, At
  <2>2. PICK u, r :
          /\ Said(l, t, b, Line("located"), u, r) /\ At(l, u, r, "none")
          /\ SameTry(t, u) /\ u.detected /\ u.move = t.move
          /\ r.verification = b.verification
    BY <2>1, LocatedLine
  <2>3. VerdictFits(l, r)
    BY <1>2, <2>2 DEF VerdictFits
  <2>4. Excused(l, "none")
    BY DEF Excused
  <2>5. SaysOne(l, u, r, Line(text))
    BY <1>1, <2>2, <2>3, <2>4, FailureSaid DEF At
  <2> QED
    BY <2>2, <2>5 DEF SaysTwo
<1> QED
  BY <1>3, <1>4

---------------------------------------------------------------------------
(* What is on its way, and the invariant of the feed. *)

\* Followed and read to the end, the file and the lines s of call k lead to
\* translator u and board end.
Reaches(k, s, u, end) ==
  \E mid : /\ FileLeads(k, file, board, mid, LastRun(s, 0))
           /\ PipeLeads(k, s, translator, mid, u, end)

\* They lead to where the call is; plain tells whether its last line can be read.
Tracks(k, s, plain) == \E u, end : Reaches(k, s, u, end) /\ Phase(k, u, end, plain)

\* One line more.
LEMMA LineReached ==
  ASSUME NEW k, NEW l, NEW s, NEW t, NEW b, Reaches(k, s, t, b),
         NEW x, NEW u, NEW r, Said(l, t, b, x, u, r), x.text # "order" => GoesOn(k, l)
  PROVE  Reaches(l, Append(s, x), u, r)
<1> DEFINE live == LastRun(s, 0)
           still == LastRun(Append(s, x), 0)
<1>1. PICK mid : FileLeads(k, file, board, mid, live) /\ PipeLeads(k, s, translator, mid, t, b)
  BY DEF Reaches
<1>2. LineLeads(l, t, b, x, TRUE) /\ u = After(t, x) /\ r = Played(b, Events(t, x))
  BY DEF Said
<1>3. PipeLeads(l, Append(s, x), translator, mid, u, r)
  BY <1>1, <1>2, PipeLonger
<1>4. still => live /\ GoesOn(k, l)
  <2> SUFFICES ASSUME still PROVE live /\ GoesOn(k, l)
    OBVIOUS
  <2>1. SeqOf(s)
    BY <1>1 DEF PipeLeads
  <2>2. /\ Len(s) \in Nat /\ Len(Append(s, x)) = Len(s) + 1
        /\ \A i \in 1..Len(s) : Append(s, x)[i] = s[i]
        /\ Append(s, x)[Len(s) + 1] = x
    BY <2>1, Longer
  <2>3. x.text # "order"
    <3>1. Len(s) + 1 \in (0 + 1)..Len(Append(s, x))
      BY <2>2
    <3> QED
      BY <2>2, <3>1 DEF LastRun
  <2>4. live
    <3> SUFFICES ASSUME NEW j \in (0 + 1)..Len(s) PROVE s[j].text # "order"
      BY DEF LastRun
    <3>1. j \in 1..Len(s) /\ j \in (0 + 1)..Len(Append(s, x))
      BY <2>2
    <3> QED
      BY <2>2, <3>1 DEF LastRun
  <2> QED
    BY <2>3, <2>4
<1> HIDE DEF live, still
<1>5. FileLeads(l, file, board, mid, still)
  BY <1>1, <1>4, FileLess
<1> QED
  BY <1>3, <1>5 DEF Reaches, still

LEMMA NothingPrinted ==
  ASSUME NEW k, NEW l, NEW s, NEW t, NEW b, Reaches(k, s, t, b), GoesOn(k, l),
         NEW plain, Phase(l, t, b, plain)
  PROVE  Tracks(l, s, plain)
<1> DEFINE live == LastRun(s, 0)
<1>1. PICK mid : FileLeads(k, file, board, mid, live) /\ PipeLeads(k, s, translator, mid, t, b)
  BY DEF Reaches
<1>2. PipeLeads(l, s, translator, mid, t, b)
  BY <1>1, PipeGrows
<1>3. live => live /\ GoesOn(k, l)
  OBVIOUS
<1> HIDE DEF live
<1>4. FileLeads(l, file, board, mid, live)
  BY <1>1, <1>3, FileLess
<1>5. Reaches(l, s, t, b)
  BY <1>2, <1>4 DEF Reaches, live
<1> QED
  BY <1>5 DEF Tracks

\* All lines can be read.
Readable(lines) == \A i \in DOMAIN lines : lines[i].text # "unreadable"

LEMMA ReadableLines ==
  /\ \A x : Readable(<<x>>) <=> Plain(x)
  /\ \A x, y : Readable(<<x, y>>) <=> Plain(x) /\ Plain(y)
  /\ \A x, y, z : Readable(<<x, y, z>>) <=> Plain(x) /\ Plain(y) /\ Plain(z)
  /\ Readable(<<>>)
<1>1. \A x : Readable(<<x>>) <=> Plain(x)
  BY DEF Readable, Plain
<1>2. \A x, y : Readable(<<x, y>>) <=> Plain(x) /\ Plain(y)
  <2> SUFFICES ASSUME NEW x, NEW y PROVE Readable(<<x, y>>) <=> Plain(x) /\ Plain(y)
    OBVIOUS
  <2> DEFINE s == <<x, y>>
  <2>1. DOMAIN s = {1, 2} /\ s[1] = x /\ s[2] = y
    OBVIOUS
  <2> HIDE DEF s
  <2>2. Readable(s) <=> Plain(x) /\ Plain(y)
    BY <2>1 DEF Readable, Plain
  <2> QED
    BY <2>2 DEF s
<1>3. \A x, y, z : Readable(<<x, y, z>>) <=> Plain(x) /\ Plain(y) /\ Plain(z)
  <2> SUFFICES ASSUME NEW x, NEW y, NEW z
               PROVE  Readable(<<x, y, z>>) <=> Plain(x) /\ Plain(y) /\ Plain(z)
    OBVIOUS
  <2> DEFINE s == <<x, y, z>>
  <2>1. DOMAIN s = {1, 2, 3} /\ s[1] = x /\ s[2] = y /\ s[3] = z
    OBVIOUS
  <2> HIDE DEF s
  <2>2. Readable(s) <=> Plain(x) /\ Plain(y) /\ Plain(z)
    BY <2>1 DEF Readable, Plain
  <2> QED
    BY <2>2 DEF s
<1>4. Readable(<<>>)
  BY DEF Readable
<1> QED
  BY <1>1, <1>2, <1>3, <1>4

LEMMA SameTracks ==
  ASSUME NEW k, NEW s, NEW p, NEW q, p <=> q, Tracks(k, s, p)
  PROVE  Tracks(k, s, q)
BY DEF Tracks, Phase, Settles

LEMMA OnePrinted ==
  ASSUME NEW k, NEW l, NEW s, NEW t, NEW b, Reaches(k, s, t, b), NEW x,
         SaysOne(l, t, b, x), x.text # "order" => GoesOn(k, l)
  PROVE  Tracks(l, Append(s, x), Plain(x)) /\ Tracks(l, Append(s, x), Readable(<<x>>))
<1>1. PICK u, r : Said(l, t, b, x, u, r) /\ Phase(l, u, r, Plain(x))
  BY DEF SaysOne
<1>2. Reaches(l, Append(s, x), u, r)
  BY <1>1, LineReached
<1>3. Tracks(l, Append(s, x), Plain(x))
  BY <1>1, <1>2 DEF Tracks
<1> QED
  BY <1>3, ReadableLines, SameTracks

LEMMA TwoPrinted ==
  ASSUME NEW k, NEW l, NEW s, NEW t, NEW b, Reaches(k, s, t, b), NEW x, NEW y,
         SaysTwo(l, t, b, x, y), GoesOn(k, l)
  PROVE  /\ Tracks(l, Append(Append(s, x), y), Plain(y))
         /\ Plain(x) => Tracks(l, Append(Append(s, x), y), Readable(<<x, y>>))
<1>1. PICK u, r : Said(l, t, b, x, u, r) /\ SaysOne(l, u, r, y)
  BY DEF SaysTwo
<1>2. Reaches(l, Append(s, x), u, r)
  BY <1>1, LineReached
<1>3. GoesOn(l, l)
  BY DEF GoesOn
<1>4. Tracks(l, Append(Append(s, x), y), Plain(y))
  BY <1>1, <1>2, <1>3, OnePrinted
<1>5. Plain(x) => (Plain(y) <=> Readable(<<x, y>>))
  BY ReadableLines
<1> QED
  BY <1>4, <1>5, SameTracks

LEMMA ThreePrinted ==
  ASSUME NEW k, NEW l, NEW s, NEW t, NEW b, Reaches(k, s, t, b), NEW x, NEW y, NEW z,
         SaysThree(l, t, b, x, y, z), GoesOn(k, l), Plain(x), Plain(y)
  PROVE  Tracks(l, Append(Append(Append(s, x), y), z), Readable(<<x, y, z>>))
<1>1. PICK u, r : Said(l, t, b, x, u, r) /\ SaysTwo(l, u, r, y, z)
  BY DEF SaysThree
<1>2. Reaches(l, Append(s, x), u, r)
  BY <1>1, LineReached
<1>3. GoesOn(l, l)
  BY DEF GoesOn
<1>4. Tracks(l, Append(Append(Append(s, x), y), z), Plain(z))
  BY <1>1, <1>2, <1>3, TwoPrinted
<1>5. Plain(z) <=> Readable(<<x, y, z>>)
  BY ReadableLines
<1> QED
  BY <1>4, <1>5, SameTracks

\* Whatever is still on its way leads to where the call is, past boards that
\* are right.
FeedInv ==
  SpecInv /\ legible \in BOOLEAN /\ \A c \in Callers : Tracks(call[c], pipe, legible)

LEMMA FeedInvInit == FeedInit => FeedInv
<1> SUFFICES ASSUME FeedInit PROVE FeedInv
  OBVIOUS
<1>1. /\ call = [c \in Callers |-> NoCall] /\ pipe = <<>> /\ file = <<>>
      /\ translator = NewTranslator /\ board = Fresh("order") /\ legible = TRUE
  BY DEF FeedInit, Init, BoardInit
<1>2. SpecInv
  BY InitSpecInv DEF FeedInit
<1>3. board \in Board(Orders)
  <2>1. "order" \in AllModes /\ [kind |-> "reset", mode |-> "order"].mode = "order"
    BY DEF AllModes
  <2> QED
    BY <1>1, <2>1, ResetApplied
<1>4. /\ {"DETECT", "PICK", "PLACE", "VERIFY"} \subseteq StageNames
      /\ MotionStages \subseteq StageNames
  BY TheStages
<1>5. \A s \in StageNames : Status(board, s) = "idle"
  BY <1>1 DEF Fresh, Status
<1>6. Detected(board)
  BY <1>4, <1>5 DEF Detected
<1>7. ASSUME NEW c \in Callers PROVE Tracks(call[c], pipe, legible)
  <2> DEFINE k == call[c]
             live == LastRun(pipe, 0)
  <2>1. k = NoCall
    BY <1>1
  <2>2. Right(k, board)
    <3>1. DoneBy(k, board) /\ AtWork(board, "none") /\ AsCommanded(board, {"done"})
      BY <1>4, <1>5 DEF DoneBy, AtWork, AsCommanded
    <3> QED
      BY <3>1 DEF Right
  <2> HIDE DEF k, live
  <2>3. Fits(k, board, live)
    BY <1>3, <1>6, <2>2 DEF Fits
  <2>4. FileLeads(k, file, board, board, live)
    BY <1>1, <2>3, FileEmpty
  <2>5. PipeLeads(k, pipe, translator, board, translator, board)
    BY <1>1, PipeEmpty
  <2>6. translator \in Translator
    BY <1>1 DEF NewTranslator, Translator
  <2>7. k.pc = "idle"
    BY <2>1 DEF NoCall
  <2>8. Phase(k, translator, board, legible)
    BY <1>3, <1>6, <2>6, <2>7 DEF Phase
  <2>9. Reaches(k, pipe, translator, board)
    BY <2>4, <2>5 DEF Reaches, live
  <2> QED
    BY <2>8, <2>9 DEF Tracks, k
<1> QED
  BY <1>1, <1>2, <1>7 DEF FeedInv

LEMMA FollowKeeps == FeedInv /\ Follow => FeedInv'
<1> SUFFICES ASSUME FeedInv, Follow PROVE FeedInv'
  OBVIOUS
<1>1. /\ file # <<>> /\ board' = Apply(board, Head(file)) /\ file' = Tail(file)
      /\ call' = call /\ pipe' = pipe /\ translator' = translator
      /\ legible' = legible
  BY DEF Follow, Ingest, vars
<1>2. ASSUME NEW c \in Callers PROVE Tracks(call[c], pipe, legible)'
  <2> DEFINE k == call[c]
             live == LastRun(pipe, 0)
  <2>1. PICK u, end, mid :
          /\ FileLeads(k, file, board, mid, live)
          /\ PipeLeads(k, pipe, translator, mid, u, end) /\ Phase(k, u, end, legible)
    BY DEF FeedInv, Tracks, Reaches
  <2> HIDE DEF k, live
  <2>2. FileLeads(k, file', board', mid, live)
    BY <1>1, <2>1, FileNext
  <2>3. k = call'[c] /\ live = LastRun(pipe', 0)
    BY <1>1 DEF k, live
  <2> QED
    BY <1>1, <2>1, <2>2, <2>3 DEF Tracks, Reaches
<1>3. SpecInv'
  <2>1. SpecInv /\ [Next]_vars
    BY DEF FeedInv, Follow
  <2> QED
    BY <2>1, NextSpecInv
<1> QED
  BY <1>1, <1>2, <1>3 DEF FeedInv

LEMMA TranslateKeeps == FeedInv /\ Translate => FeedInv'
<1> SUFFICES ASSUME FeedInv, Translate PROVE FeedInv'
  OBVIOUS
<1>1. /\ pipe # <<>> /\ file' = file \o Events(translator, Head(pipe))
      /\ translator' = After(translator, Head(pipe)) /\ pipe' = Tail(pipe)
      /\ call' = call /\ board' = board /\ legible' = legible
  BY DEF Translate, vars
<1>2. ASSUME NEW c \in Callers PROVE Tracks(call[c], pipe, legible)'
  <2> DEFINE k == call[c]
             x == Head(pipe)
             live == LastRun(pipe, 0)
             still == LastRun(Tail(pipe), 0)
  <2>1. PICK u, end, mid :
          /\ FileLeads(k, file, board, mid, live)
          /\ PipeLeads(k, pipe, translator, mid, u, end) /\ Phase(k, u, end, legible)
    BY DEF FeedInv, Tracks, Reaches
  <2>2. SeqOf(pipe)
    BY <2>1 DEF PipeLeads
  <2>3. still /\ x.text # "order" => live
    <3> SUFFICES ASSUME still, x.text # "order", NEW j \in (0 + 1)..Len(pipe)
                 PROVE  pipe[j].text # "order"
      BY DEF LastRun
    <3>1. /\ x = pipe[1] /\ Len(pipe) \in Nat /\ Len(pipe) >= 1
          /\ Len(Tail(pipe)) = Len(pipe) - 1
          /\ \A i \in 1..Len(Tail(pipe)) : Tail(pipe)[i] = pipe[i + 1]
      BY <1>1, <2>2, FirstAndRest
    <3>2. CASE j = 1
      BY <3>1, <3>2
    <3>3. CASE j # 1
      <4>1. j - 1 \in (0 + 1)..Len(Tail(pipe)) /\ j - 1 \in 1..Len(Tail(pipe))
            /\ (j - 1) + 1 = j
        BY <3>1, <3>3
      <4> QED
        BY <3>1, <4>1 DEF LastRun
    <3> QED
      BY <3>2, <3>3
  <2>4. LineLeads(k, translator, mid, x, still)
        /\ PipeLeads(k, Tail(pipe), After(translator, x),
                     Played(mid, Events(translator, x)), u, end)
    BY <1>1, <2>1, PipeNext
  <2> HIDE DEF k, live, still, x
  <2>5. FileLeads(k, file \o Events(translator, x), board,
                  Played(mid, Events(translator, x)), still)
    BY <2>1, <2>3, <2>4, FileWritten
  <2>6. k = call'[c] /\ still = LastRun(pipe', 0) /\ x = Head(pipe)
    BY <1>1 DEF k, still, x
  <2> DEFINE to == Played(mid, Events(translator, x))
  <2>7. /\ FileLeads(k, file', board', to, still)
        /\ PipeLeads(k, pipe', translator', to, u, end)
    BY <1>1, <2>4, <2>5, <2>6
  <2> HIDE DEF to
  <2> QED
    BY <1>1, <2>1, <2>6, <2>7 DEF Tracks, Reaches
<1>3. SpecInv'
  <2>1. SpecInv /\ [Next]_vars
    BY DEF FeedInv, Translate
  <2> QED
    BY <2>1, NextSpecInv
<1> QED
  BY <1>1, <1>2, <1>3 DEF FeedInv

---------------------------------------------------------------------------
(* Every step keeps it. *)

LEMMA CallTracked ==
  ASSUME FeedInv, NEW c \in Callers
  PROVE  /\ call \in [Callers -> Call] /\ SeqOf(pipe)
         /\ call[c].stages \in Seq(Stages) /\ call[c].attempt \in Nat
         /\ call[c].step \in 1..6
         /\ \E t, b : Reaches(call[c], pipe, t, b) /\ Phase(call[c], t, b, legible)
<1>1. call \in [Callers -> Call] /\ Tracks(call[c], pipe, legible)
  BY DEF FeedInv, SpecInv, CellInv
<1>2. call[c] \in Call
  BY <1>1
<1>3. SeqOf(pipe)
  BY <1>1 DEF Tracks, Reaches, PipeLeads
<1> QED
  BY <1>1, <1>2, <1>3, CallFields DEF Tracks

LEMMA StartTracked ==
  ASSUME FeedInv, NEW c \in Callers, NEW o \in Orders, Start(c, o)
  PROVE  Tracks(call'[c], pipe \o <<[text |-> "order", order |-> o]>>,
                Readable(<<[text |-> "order", order |-> o]>>))
<1> DEFINE k == call[c]
           l == call'[c]
           x == [text |-> "order", order |-> o]
<1>1. call \in [Callers -> Call] /\ SeqOf(pipe)
  BY CallTracked
<1>2. PICK t, b : Reaches(k, pipe, t, b) /\ Phase(k, t, b, legible)
  BY CallTracked
<1>3. PICK v \in BOOLEAN : StartWith(c, o, v)
  BY DEF Start, VerifierGiven
<1>4. /\ l.pc = "resolve" /\ l.step = 1 /\ l.verification = "none"
      /\ l.alert = "none"
  BY <1>1, <1>3, StartCall
<1> HIDE DEF k, l
<1>5. SaysOne(l, t, b, x)
  BY <1>2, <1>4, StartSaid
<1>6. x.text = "order"
  OBVIOUS
<1> HIDE DEF x
<1>7. Tracks(l, Append(pipe, x), Readable(<<x>>))
  BY <1>2, <1>5, <1>6, OnePrinted
<1>8. pipe \o <<x>> = Append(pipe, x)
  BY <1>1, OneByOne
<1> QED
  BY <1>7, <1>8 DEF l, x

LEMMA ResolveTracked ==
  ASSUME FeedInv, NEW c \in Callers, Resolve(c)
  PROVE  LET x == Line("located")
             y == Line("picking")
         IN /\ Tracks(call'[c], pipe \o <<y>>, Readable(<<y>>))
            /\ Tracks(call'[c], pipe \o <<x, y>>, Readable(<<x, y>>))
<1> DEFINE k == call[c]
           l == call'[c]
           x == Line("located")
           y == Line("picking")
<1>1. call \in [Callers -> Call] /\ SeqOf(pipe) /\ CellInv /\ OrderInv(c)
  BY CallTracked DEF FeedInv, SpecInv
<1>2. PICK t, b : Reaches(k, pipe, t, b) /\ Phase(k, t, b, legible)
  BY CallTracked
<1>3. k.pc = "resolve"
  BY DEF Resolve
<1>4. k.step = 1 /\ k.alert = "none"
  BY <1>2, <1>3 DEF Phase
<1>5. PICK source \in {"hardcoded", "perceived"}, item \in Items, aim \in Aims :
        ResolveAs(c, source, item, aim)
  <2>1. call[c].order \in Orders
    BY <1>1, <1>3 DEF OrderInv
  <2> QED
    BY <1>1, <2>1, ResolveKnown
<1>6. /\ SameResult(c) /\ l.pc = "move" /\ l.attempt = 1 /\ l.step = k.step
  BY <1>1, <1>5, ResolveCall
<1>7. l.stages = k.stages /\ l.verification = k.verification /\ l.alert = k.alert
  BY <1>6 DEF SameResult
<1> HIDE DEF k, l
<1>8. SaysOne(l, t, b, y) /\ SaysTwo(l, t, b, x, y) /\ GoesOn(k, l)
  BY <1>2, <1>3, <1>4, <1>6, <1>7, ResolveSaid, SameRecorded
<1>11. y.text # "order" /\ Plain(x)
  BY DEF Plain, Line
<1> HIDE DEF x, y
<1>9. /\ Tracks(l, Append(pipe, y), Readable(<<y>>))
      /\ Tracks(l, Append(Append(pipe, x), y), Readable(<<x, y>>))
  BY <1>2, <1>8, <1>11, OnePrinted, TwoPrinted
<1>10. pipe \o <<y>> = Append(pipe, y) /\ pipe \o <<x, y>> = Append(Append(pipe, x), y)
  BY <1>1, OneByOne
<1> QED
  BY <1>9, <1>10 DEF l, x, y

\* A call in its first attempt has recorded nothing before its pick is over, and
\* only the pick before its place is; in a later one it has recorded both.
LEMMA BreaksOff ==
  ASSUME NEW c \in Callers, ProgressInv(c), call[c] \in Call, call[c].pc = "move",
         NEW l, l.pc = "returned", l.alert = "none", l.stages = call[c].stages
  PROVE  Excused(l, IF call[c].step <= 3 THEN "PICK" ELSE "PLACE")
<1> DEFINE k == call[c]
           s == k.stages
           n == k.attempt
<1>1. /\ s \in Seq(Stages) /\ n \in Nat /\ k.step \in 1..6 /\ n \in 1..Attempts(c)
      /\ Len(s) = 4 * n - (IF k.step > 3 THEN 3 ELSE 4)
      /\ \A i \in 1..Len(s) : s[i] = Due(i)
  BY CallFields DEF ProgressInv
<1> HIDE DEF k
<1>2. n >= 1 /\ DOMAIN s = 1..Len(s) /\ Len(s) \in Nat
  <2>1. n \in Nat /\ n # 0
    BY <1>1, AttemptsPositive
  <2> QED
    BY <1>1, <2>1
<1>3. Due(1) = "picked" /\ Due(2) = "placed"
  <2>1. 0 \in Nat /\ 4 * 0 + 1 = 1 /\ 4 * 0 + 2 = 2
    OBVIOUS
  <2> QED
    BY <2>1, DueStages
<1> HIDE DEF s, n
<1>4. ASSUME k.step <= 3 PROVE Recorded(l, "picked") \/ Broken(l, "PICK")
  <2>1. CASE n = 1
    <3>1. Len(s) = 0
      BY <1>1, <1>4, <2>1
    <3>2. s = <<>>
      BY <1>1, <3>1
    <3> QED
      BY <3>2 DEF Broken, s, k
  <2>2. CASE n # 1
    <3>1. 1 \in 1..Len(s)
      BY <1>1, <1>2, <1>4, <2>2
    <3> QED
      BY <1>1, <1>2, <1>3, <3>1 DEF Recorded, s, k
  <2> QED
    BY <2>1, <2>2
<1>5. ASSUME ~(k.step <= 3) PROVE Recorded(l, "placed") \/ Broken(l, "PLACE")
  <2>1. CASE n = 1
    <3>1. Len(s) = 1
      BY <1>1, <1>5, <2>1
    <3>2. s[1] = "picked"
      BY <1>1, <1>3, <3>1
    <3>3. s = <<"picked">>
      BY <1>1, <3>1, <3>2
    <3> QED
      BY <3>3 DEF Broken, s, k
  <2>2. CASE n # 1
    <3>1. 2 \in 1..Len(s)
      BY <1>1, <1>2, <1>5, <2>2
    <3> QED
      BY <1>1, <1>2, <1>3, <3>1 DEF Recorded, s, k
  <2> QED
    BY <2>1, <2>2
<1> QED
  BY <1>4, <1>5 DEF Excused, k

\* The call fails, with nothing but its last line or, before its pick, with the
\* line of the item that was located.
LEMMA FailTracked ==
  ASSUME FeedInv, NEW c \in Callers, Fail(c), Busy(c), NEW text \in {"failed", "unreadable"}
  PROVE  LET x == Line("located")
             y == Line(text)
         IN /\ Tracks(call'[c], pipe \o <<y>>, Readable(<<y>>))
            /\ call[c].pc = "resolve" =>
                 Tracks(call'[c], pipe \o <<x, y>>, Readable(<<x, y>>))
<1> DEFINE k == call[c]
           l == call'[c]
           x == Line("located")
           y == Line(text)
<1>1. call \in [Callers -> Call] /\ SeqOf(pipe) /\ k \in Call
  BY CallTracked
<1>10. ProgressInv(c)
  BY DEF FeedInv, SpecInv, OrderInv, StoryInv
<1>2. PICK t, b : Reaches(k, pipe, t, b) /\ Phase(k, t, b, legible)
  BY CallTracked
<1>3. k.pc \in {"resolve", "move", "verify", "alert"}
  BY <1>1, CallFields DEF Busy
<1>4. SameResult(c) /\ l.pc = "returned" /\ l.status = "failed"
  BY <1>1, FailCall
<1>5. /\ l.stages = k.stages /\ l.verification = k.verification /\ l.alert = k.alert
      /\ l.attempts = k.attempts
  BY <1>4 DEF SameResult
<1>9. k.pc = "move" => Excused(l, IF k.step <= 3 THEN "PICK" ELSE "PLACE")
  <2>1. l.alert = "none"
    BY <1>2, <1>3, <1>5 DEF Phase
  <2> QED
    BY <1>1, <1>4, <1>5, <1>10, <2>1, BreaksOff
<1> HIDE DEF k, l
<1>6. /\ SaysOne(l, t, b, y) /\ GoesOn(k, l)
      /\ k.pc = "resolve" => SaysTwo(l, t, b, x, y)
  BY <1>2, <1>3, <1>4, <1>5, <1>9, FailSaid, SameRecorded
<1>11. y.text # "order" /\ Plain(x)
  BY DEF Plain, Line
<1> HIDE DEF x, y
<1>7. /\ Tracks(l, Append(pipe, y), Readable(<<y>>))
      /\ k.pc = "resolve" => Tracks(l, Append(Append(pipe, x), y), Readable(<<x, y>>))
  BY <1>2, <1>6, <1>11, OnePrinted, TwoPrinted
<1>8. pipe \o <<y>> = Append(pipe, y) /\ pipe \o <<x, y>> = Append(Append(pipe, x), y)
  BY <1>1, OneByOne
<1> QED
  BY <1>7, <1>8 DEF k, l, x, y

\* What a completed action of the plans prints.
MoveLines(k) ==
  IF k.step = 3 THEN <<Line("complete"), Line("placing")>>
  ELSE IF k.step = 6 THEN <<Line("complete")>> ELSE <<>>

LEMMA MoveTracked ==
  ASSUME FeedInv, NEW c \in Callers, Move(c)
  PROVE  Tracks(call'[c], pipe \o MoveLines(call[c]), Readable(MoveLines(call[c])))
<1> DEFINE k == call[c]
           l == call'[c]
           x == Line("complete")
           y == Line("placing")
<1>1. /\ call \in [Callers -> Call] /\ SeqOf(pipe) /\ k.step \in 1..6
      /\ k.stages \in Seq(Stages)
  BY CallTracked
<1>2. PICK t, b : Reaches(k, pipe, t, b) /\ Phase(k, t, b, legible)
  BY CallTracked
<1>3. k.pc = "move"
  BY DEF Move
<1>4. /\ l.step = IF k.step = 6 THEN 1 ELSE k.step + 1
      /\ l.pc = IF k.step < 6 THEN "move" ELSE IF k.verify THEN "verify" ELSE "alert"
      /\ l.stages = StagesAfter(k)
      /\ l.attempts = IF k.step = 6 THEN k.attempt ELSE k.attempts
      /\ l.attempt = k.attempt /\ l.verification = k.verification /\ l.alert = k.alert
  BY <1>1, MoveCall
<1>5. /\ pipe \o <<x>> = Append(pipe, x) /\ pipe \o <<x, y>> = Append(Append(pipe, x), y)
      /\ pipe \o <<>> = pipe
  <2> HIDE DEF x, y
  <2> QED
    BY <1>1, OneByOne
<1>9. x.text # "order" /\ Plain(x)
  BY DEF Plain, Line
<1> HIDE DEF k, l
<1>6. CASE k.step = 3
  <2>1. /\ l.step = 4 /\ l.pc = "move" /\ l.attempts = k.attempts
        /\ l.stages = Append(k.stages, "picked")
    BY <1>4, <1>6 DEF StagesAfter
  <2>2. GoesOn(k, l) /\ SaysTwo(l, t, b, x, y)
    BY <1>1, <1>2, <1>3, <1>4, <1>6, <2>1, PlaceSaid
  <2>3. MoveLines(k) = <<x, y>>
    BY <1>6 DEF MoveLines
  <2> HIDE DEF x, y
  <2>4. Tracks(l, Append(Append(pipe, x), y), Readable(<<x, y>>))
    BY <1>2, <1>9, <2>2, TwoPrinted
  <2> QED
    BY <1>5, <2>3, <2>4 DEF k, l
<1>7. CASE k.step = 6
  <2>1. /\ l.step = 1 /\ l.pc \in {"verify", "alert"} /\ l.attempts = k.attempt
        /\ l.stages = Append(k.stages, "placed")
    BY <1>4, <1>7 DEF StagesAfter
  <2>2. GoesOn(k, l) /\ SaysOne(l, t, b, x)
    BY <1>1, <1>2, <1>3, <1>4, <1>7, <2>1, PlacedSaid
  <2>3. MoveLines(k) = <<x>>
    BY <1>7 DEF MoveLines
  <2> HIDE DEF x, y
  <2>4. Tracks(l, Append(pipe, x), Readable(<<x>>))
    BY <1>2, <2>2, OnePrinted
  <2> QED
    BY <1>5, <2>3, <2>4 DEF k, l
<1>8. CASE k.step # 3 /\ k.step # 6
  <2>1. k.step \in {1, 2, 4, 5} /\ k.step < 6
    BY <1>1, <1>8
  <2>2. /\ l.step = k.step + 1 /\ l.pc = "move" /\ l.attempts = k.attempts
        /\ l.stages = k.stages
    BY <1>4, <1>8, <2>1 DEF StagesAfter
  <2>3. \A any : Phase(l, t, b, any)
    BY <1>2, <1>3, <1>4, <2>1, <2>2, QuietMove
  <2>4. GoesOn(k, l)
    BY <1>3, <2>2, SameRecorded
  <2>5. Tracks(l, pipe, Readable(<<>>))
    <3>1. Tracks(l, pipe, TRUE)
      BY <1>2, <2>3, <2>4, NothingPrinted
    <3> QED
      BY <3>1, ReadableLines, SameTracks
  <2>6. MoveLines(k) = <<>>
    BY <1>8 DEF MoveLines
  <2> QED
    BY <1>5, <2>5, <2>6 DEF k, l
<1> QED
  BY <1>6, <1>7, <1>8

LEMMA VerifyTracked ==
  ASSUME FeedInv, NEW c \in Callers, Verify(c)
  PROVE  LET l == call'[c]
             x == [text |-> "verdict", ok |-> l.verification = "ok"]
             y == [text |-> "retry", n |-> l.attempt]
             z == Line("picking")
         IN /\ l.pc = "move" => Tracks(l, pipe \o <<x, y, z>>, Readable(<<x, y, z>>))
            /\ l.pc # "move" => Tracks(l, pipe \o <<x>>, Readable(<<x>>))
<1> DEFINE k == call[c]
           l == call'[c]
           x == [text |-> "verdict", ok |-> l.verification = "ok"]
           y == [text |-> "retry", n |-> l.attempt]
           z == Line("picking")
<1>1. /\ call \in [Callers -> Call] /\ SeqOf(pipe) /\ k.attempt \in Nat
      /\ k.stages \in Seq(Stages)
  BY CallTracked
<1>2. PICK t, b : Reaches(k, pipe, t, b) /\ Phase(k, t, b, legible)
  BY CallTracked
<1>3. k.pc = "verify" /\ \E item \in Items \cup {None} : VerifyAs(c, item)
  BY DEF Verify
<1>4. PICK item \in Items \cup {None} : VerifyAs(c, item)
  BY <1>3
<1>5. /\ l.attempts = k.attempts /\ l.alert = k.alert /\ l.step = k.step
      /\ Passes(c, item) \/ Retries(c, item) \/ GivesUp(c, item)
  BY <1>1, <1>4, VerifyCall
<1>6. pipe \o <<x>> = Append(pipe, x)
      /\ pipe \o <<x, y, z>> = Append(Append(Append(pipe, x), y), z)
  <2> HIDE DEF x, y, z
  <2> QED
    BY <1>1, OneByOne
<1>7. CASE Passes(c, item)
  <2>1. /\ l.pc = "alert" /\ l.verification = "ok" /\ l.attempt = k.attempt
        /\ l.stages = Append(k.stages, "verified")
    BY <1>7 DEF Passes
  <2> HIDE DEF k, l
  <2>2. GoesOn(k, l) /\ Recorded(l, "verified")
    BY <1>1, <1>3, <2>1, MoreRecorded, KnownStages
  <2>3. SaysOne(l, t, b, [text |-> "verdict", ok |-> TRUE])
    <3>1. TRUE \in BOOLEAN /\ l.verification # "none"
      BY <2>1
    <3> QED
      BY <1>2, <1>3, <1>5, <2>1, <2>2, <3>1, VerdictSaid
  <2>4. x = [text |-> "verdict", ok |-> TRUE]
    BY <2>1
  <2> HIDE DEF x
  <2>5. Tracks(l, Append(pipe, x), Readable(<<x>>))
    BY <1>2, <2>2, <2>3, <2>4, OnePrinted
  <2>6. l.pc # "move"
    BY <2>1
  <2> QED
    BY <1>6, <2>5, <2>6 DEF l, x
<1>8. CASE GivesUp(c, item)
  <2>1. /\ l.pc = "alert" /\ l.verification \notin {"none", "ok"} /\ l.attempt = k.attempt
        /\ l.stages = Append(k.stages, "verify-failed")
    BY <1>8 DEF GivesUp
  <2> HIDE DEF k, l
  <2>2. GoesOn(k, l)
    BY <1>1, <1>3, <2>1, MoreRecorded, KnownStages
  <2>3. SaysOne(l, t, b, [text |-> "verdict", ok |-> FALSE])
    <3>1. FALSE \in BOOLEAN /\ l.verification # "none" /\ l.verification # "ok"
      BY <2>1
    <3> QED
      BY <1>2, <1>3, <1>5, <2>1, <2>2, <3>1, VerdictSaid
  <2>4. x = [text |-> "verdict", ok |-> FALSE]
    BY <2>1
  <2> HIDE DEF x
  <2>5. Tracks(l, Append(pipe, x), Readable(<<x>>))
    BY <1>2, <2>2, <2>3, <2>4, OnePrinted
  <2>6. l.pc # "move"
    BY <2>1
  <2> QED
    BY <1>6, <2>5, <2>6 DEF l, x
<1>9. CASE Retries(c, item)
  <2>1. /\ l.pc = "move" /\ l.verification \notin {"none", "ok"}
        /\ l.attempt = k.attempt + 1
        /\ l.stages = Append(Append(k.stages, "verify-failed"), "retried")
    BY <1>9 DEF Retries
  <2> HIDE DEF k, l
  <2>2. GoesOn(k, l)
    <3> DEFINE m == [pc |-> k.pc, stages |-> Append(k.stages, "verify-failed")]
    <3>1. m.stages = Append(k.stages, "verify-failed") /\ m.stages \in Seq(Stages)
          /\ l.stages = Append(m.stages, "retried") /\ m.pc # "returned"
      BY <1>1, <1>3, <2>1, StageRecorded, KnownStages
    <3> HIDE DEF m
    <3>2. GoesOn(k, m) /\ GoesOn(m, l)
      BY <1>1, <1>3, <3>1, MoreRecorded, KnownStages
    <3> QED
      BY <3>2 DEF GoesOn
  <2>3. SaysThree(l, t, b, [text |-> "verdict", ok |-> FALSE], y, z)
    BY <1>1, <1>2, <1>3, <1>5, <2>1, <2>2, RetrySaid
  <2>4. x = [text |-> "verdict", ok |-> FALSE]
    BY <2>1
  <2>6. Plain(x) /\ Plain(y)
    BY DEF Plain
  <2> HIDE DEF x, y, z
  <2>5. Tracks(l, Append(Append(Append(pipe, x), y), z), Readable(<<x, y, z>>))
    BY <1>2, <2>2, <2>3, <2>4, <2>6, ThreePrinted
  <2> QED
    BY <1>6, <2>1, <2>5 DEF l, x, y, z
<1> QED
  BY <1>5, <1>7, <1>8, <1>9

LEMMA AlertTracked ==
  ASSUME FeedInv, NEW c \in Callers, Alert(c), NEW text,
         text = call'[c].status \/ (text = "unreadable" /\ call'[c].status = "failed")
  PROVE  LET l == call'[c]
             lines == <<[text |-> "alert", kind |-> l.alert], Line(text)>>
         IN Tracks(l, pipe \o lines, Readable(lines))
<1> DEFINE k == call[c]
           l == call'[c]
           x == [text |-> "alert", kind |-> l.alert]
           y == Line(text)
<1>1. call \in [Callers -> Call] /\ SeqOf(pipe) /\ k.stages \in Seq(Stages)
  BY CallTracked
<1>2. PICK t, b : Reaches(k, pipe, t, b) /\ Phase(k, t, b, legible)
  BY CallTracked
<1>3. k.pc = "alert"
  BY DEF Alert
<1>4. /\ l.pc = "returned" /\ l.alert \in {"order_fulfilled", "order_failed"}
      /\ l.status \in {"fulfilled", "failed"} /\ l.stages = Append(k.stages, "alerted")
      /\ l.attempts = k.attempts /\ l.verification = k.verification
  BY <1>1, AlertCall DEF AlertKind
<1>5. l.attempt = k.attempt
  <2>1. call' = [call EXCEPT ![c] = [k EXCEPT !.pc = "returned", !.alert = AlertKind(c),
                     !.stages = Append(k.stages, "alerted"),
                     !.status = IF Verified(c) THEN "fulfilled" ELSE "failed"]]
    BY DEF Alert
  <2>2. k \in Call
    BY <1>1
  <2> QED
    BY <1>1, <2>1, <2>2 DEF Call
<1>11. text = l.status \/ (text = "unreadable" /\ l.status = "failed")
  OBVIOUS
<1> HIDE DEF k, l
<1>6. GoesOn(k, l)
  BY <1>1, <1>3, <1>4, MoreRecorded, KnownStages
<1>7. SaysTwo(l, t, b, x, y)
  BY <1>2, <1>3, <1>4, <1>5, <1>6, <1>11, AlertSaid
<1>10. Plain(x)
  BY DEF Plain
<1> HIDE DEF x, y
<1>8. Tracks(l, Append(Append(pipe, x), y), Readable(<<x, y>>))
  BY <1>2, <1>6, <1>7, <1>10, TwoPrinted
<1>9. pipe \o <<x, y>> = Append(Append(pipe, x), y)
  BY <1>1, OneByOne
<1> QED
  BY <1>8, <1>9 DEF l, x, y

\* Whatever a step of the call does, it prints what leads to where it is then.
LEMMA PrintsTracked ==
  ASSUME FeedInv, NEW c \in Callers, Prints(c)
  PROVE  Tracks(call'[c], pipe', legible')
<1>1. ASSUME NEW o \in Orders, Start(c, o), Output(<<[text |-> "order", order |-> o]>>)
      PROVE Tracks(call'[c], pipe', legible')
  BY <1>1, StartTracked DEF Output, Readable
<1>2. CASE /\ Resolve(c)
           /\ Output((IF call'[c].source = "perceived" THEN <<Line("located")>> ELSE <<>>)
                     \o <<Line("picking")>>)
  <2> DEFINE x == Line("located")
             y == Line("picking")
  <2>1. /\ Tracks(call'[c], pipe \o <<y>>, Readable(<<y>>))
        /\ Tracks(call'[c], pipe \o <<x, y>>, Readable(<<x, y>>))
    BY <1>2, ResolveTracked
  <2> DEFINE lines == (IF call'[c].source = "perceived" THEN <<x>> ELSE <<>>) \o <<y>>
  <2>2. pipe' = pipe \o lines /\ legible' = Readable(lines)
    BY <1>2 DEF Output, Readable
  <2> HIDE DEF x, y
  <2>3. <<x>> \o <<y>> = <<x, y>> /\ <<>> \o <<y>> = <<y>>
    BY Pairs
  <2> QED
    BY <2>1, <2>2, <2>3
<1>3. ASSUME Fail(c), Busy(c), NEW x \in FailedLines(c)
      PROVE  /\ Tracks(call'[c], pipe \o <<x>>, Readable(<<x>>))
             /\ call[c].pc = "resolve" =>
                  Tracks(call'[c], pipe \o <<Line("located"), x>>,
                         Readable(<<Line("located"), x>>))
  <2>1. PICK text \in {"failed", "unreadable"} : x = Line(text)
    BY <1>3 DEF FailedLines
  <2> QED
    BY <1>3, <2>1, FailTracked
<1>4. CASE /\ ResolveFails(c)
           /\ \E x \in FailedLines(c) :
                \/ Output(<<x>>)
                \/ /\ Perceiving /\ call[c].order.bin \notin Bins
                   /\ Output(<<Line("located"), x>>)
  <2>1. Fail(c) /\ Busy(c) /\ call[c].pc = "resolve"
    BY <1>4 DEF ResolveFails, Busy
  <2> QED
    BY <1>3, <1>4, <2>1 DEF Output, Readable
<1>5. CASE /\ Move(c)
           /\ Output(CASE call[c].step = Len(Pick) -> <<Line("complete"), Line("placing")>>
                       [] call[c].step = Len(Moves) -> <<Line("complete")>>
                       [] OTHER -> <<>>)
  <2>1. Tracks(call'[c], pipe \o MoveLines(call[c]), Readable(MoveLines(call[c])))
    BY <1>5, MoveTracked
  <2>2. pipe' = pipe \o MoveLines(call[c]) /\ legible' = Readable(MoveLines(call[c]))
    <3> DEFINE k == call[c]
               lines == CASE k.step = 3 -> <<Line("complete"), Line("placing")>>
                          [] k.step = 6 -> <<Line("complete")>>
                          [] OTHER -> <<>>
    <3>1. pipe' = pipe \o lines /\ legible' = Readable(lines)
      BY <1>5, TheMoves DEF Output, Readable
    <3>2. CASE k.step = 3
      BY <3>1, <3>2 DEF MoveLines
    <3>3. CASE k.step = 6
      BY <3>1, <3>3 DEF MoveLines
    <3>4. CASE k.step # 3 /\ k.step # 6
      BY <3>1, <3>4 DEF MoveLines
    <3> QED
      BY <3>2, <3>3, <3>4
  <2> QED
    BY <2>1, <2>2
<1>6. CASE MoveFails(c) /\ \E x \in FailedLines(c) : Output(<<x>>)
  <2>1. Fail(c) /\ Busy(c)
    BY <1>6 DEF MoveFails, Busy
  <2> QED
    BY <1>3, <1>6, <2>1 DEF Output, Readable
<1>7. CASE /\ Verify(c)
           /\ Output(VerdictLines(c)
                     \o (IF call'[c].pc = "move"
                         THEN <<[text |-> "retry", n |-> call'[c].attempt], Line("picking")>>
                         ELSE <<>>))
  <2> DEFINE l == call'[c]
             x == [text |-> "verdict", ok |-> l.verification = "ok"]
             y == [text |-> "retry", n |-> l.attempt]
             z == Line("picking")
  <2>1. /\ l.pc = "move" => Tracks(l, pipe \o <<x, y, z>>, Readable(<<x, y, z>>))
        /\ l.pc # "move" => Tracks(l, pipe \o <<x>>, Readable(<<x>>))
    BY <1>7, VerifyTracked
  <2> DEFINE lines == <<x>> \o (IF l.pc = "move" THEN <<y, z>> ELSE <<>>)
  <2>2. pipe' = pipe \o lines /\ legible' = Readable(lines)
    BY <1>7 DEF Output, Readable, VerdictLines
  <2> HIDE DEF x, y, z, l
  <2>3. <<x>> \o <<y, z>> = <<x, y, z>> /\ <<x>> \o <<>> = <<x>>
    BY OneAndTwo, Pairs
  <2>4. Tracks(l, pipe', legible')
    BY <2>1, <2>2, <2>3
  <2> QED
    BY <2>4 DEF l
<1>8. CASE /\ Alert(c)
           /\ \E x \in IF call'[c].status = "failed" THEN FailedLines(c)
                      ELSE {Line("fulfilled")} :
                Output(<<[text |-> "alert", kind |-> call'[c].alert], x>>)
  <2> DEFINE l == call'[c]
  <2>1. PICK x \in IF l.status = "failed" THEN FailedLines(c) ELSE {Line("fulfilled")} :
          Output(<<[text |-> "alert", kind |-> l.alert], x>>)
    BY <1>8
  <2>2. call \in [Callers -> Call]
    BY CallTracked
  <2>3. l.status \in {"fulfilled", "failed"}
    BY <1>8, <2>2, AlertCall
  <2>4. PICK text : /\ x = Line(text)
                    /\ text = l.status \/ (text = "unreadable" /\ l.status = "failed")
    BY <2>1, <2>3 DEF FailedLines
  <2>5. LET lines == <<[text |-> "alert", kind |-> l.alert], Line(text)>>
        IN Tracks(l, pipe \o lines, Readable(lines))
    BY <1>8, <2>4, AlertTracked
  <2> QED
    BY <2>1, <2>4, <2>5 DEF Output, Readable
<1>9. CASE AlertFails(c) /\ \E x \in FailedLines(c) : Output(<<x>>)
  <2>1. Fail(c) /\ Busy(c)
    BY <1>9 DEF AlertFails, Busy
  <2> QED
    BY <1>3, <1>9, <2>1 DEF Output, Readable
<1> QED
  BY <1>1, <1>2, <1>4, <1>5, <1>6, <1>7, <1>8, <1>9 DEF Prints

LEMMA RunKeeps ==
  ASSUME FeedInv, NEW c \in Callers, Run(c)
  PROVE  FeedInv'
<1>1. Prints(c) /\ UNCHANGED <<translator, file, board>>
  BY DEF Run
<1>2. [Next]_vars
  BY <1>1 DEF Prints, Next, Step
<1>3. SpecInv'
  BY <1>2, NextSpecInv DEF FeedInv
<1>4. PICK u, end : Reaches(call'[c], pipe', u, end)
                    /\ Phase(call'[c], u, end, legible')
  BY <1>1, PrintsTracked DEF Tracks
<1>5. Tracks(call[c], pipe, legible)'
  BY <1>1, <1>4 DEF Tracks, Reaches
<1>6. Callers = {c}
  BY FeedAssumption
<1>7. legible' \in BOOLEAN
  BY <1>1 DEF Prints, Output
<1> QED
  BY <1>3, <1>5, <1>6, <1>7 DEF FeedInv

LEMMA FeedInvNext == FeedInv /\ [FeedNext]_feedVars => FeedInv'
<1> SUFFICES ASSUME FeedInv, [FeedNext]_feedVars PROVE FeedInv'
  OBVIOUS
<1>1. CASE UNCHANGED feedVars
  <2>1. UNCHANGED vars /\ UNCHANGED <<pipe, translator, file, board, legible>>
    BY <1>1 DEF feedVars, feed
  <2>2. SpecInv'
    BY <2>1, NextSpecInv DEF FeedInv
  <2>3. call' = call
    BY <2>1 DEF vars
  <2> QED
    BY <2>1, <2>2, <2>3 DEF FeedInv, Tracks, Reaches
<1> QED
  BY <1>1, RunKeeps, TranslateKeeps, FollowKeeps DEF FeedNext
---------------------------------------------------------------------------
(* What the invariant shows. *)

LEMMA BoardFits ==
  ASSUME FeedInv, NEW c \in Callers
  PROVE  Detected(board) /\ (Shown(c) => Right(call[c], board))
<1> DEFINE k == call[c]
           live == LastRun(pipe, 0)
<1>1. PICK u, end, mid : FileLeads(k, file, board, mid, live)
                         /\ PipeLeads(k, pipe, translator, mid, u, end)
  BY DEF FeedInv, Tracks, Reaches
<1>2. Shown(c) => live /\ \A i \in 1..Len(file) : file[i].kind # "reset"
  <2>1. DOMAIN pipe = 1..Len(pipe) /\ DOMAIN file = 1..Len(file)
    BY <1>1 DEF FileLeads, PipeLeads, SeqOf
  <2> QED
    BY <2>1 DEF Shown, LastRun
<1> HIDE DEF k, live
<1>3. Fits(k, board, live /\ \A i \in 1..Len(file) : file[i].kind # "reset")
  BY <1>1, FileNow
<1> QED
  BY <1>2, <1>3 DEF Fits, k

LEMMA FeedInvStrip == FeedInv => StripIsRight
<1> SUFFICES ASSUME FeedInv PROVE StripIsRight
  OBVIOUS
<1>1. DetectIsHonest
  <2>1. \E c \in Callers : TRUE
    BY FeedAssumption
  <2>2. Detected(board)
    BY <2>1, BoardFits
  <2> QED
    BY <2>2 DEF Detected, DetectIsHonest, Status
<1>2. ASSUME NEW c \in Callers, Shown(c) PROVE Right(call[c], board)
  BY <1>2, BoardFits
<1>3. DoneIsDone
  <2> SUFFICES ASSUME NEW c \in Callers, Shown(c),
                      NEW p \in {<<"PICK", "picked">>, <<"PLACE", "placed">>,
                                 <<"VERIFY", "verified">>},
                      board.stages[p[1]].status = "done"
               PROVE  \/ \E i \in DOMAIN call[c].stages : call[c].stages[i] = p[2]
                      \/ board.outcome = "failed" /\ BrokeOff(c, p[1])
    BY DEF DoneIsDone
  <2>1. DoneBy(call[c], board)
    BY <1>2 DEF Right
  <2> QED
    BY <2>1 DEF DoneBy, Status, Recorded, Broken, BrokeOff
<1>4. OneActive
  <2> SUFFICES ASSUME NEW c \in Callers, Shown(c)
               PROVE Cardinality({s \in StageNames : board.stages[s].status = "active"}) <= 1
    BY DEF OneActive
  <2> DEFINE T == {s \in StageNames : board.stages[s].status = "active"}
  <2>1. PICK s : AtWork(board, s)
    BY <1>2 DEF Right
  <2>2. T \subseteq {s}
    BY <2>1 DEF AtWork, Status
  <2> HIDE DEF T
  <2>3. T = {} \/ T = {s}
    BY <2>2
  <2>4. Cardinality(T) <= 1
    BY <2>3, FS_EmptySet, FS_Singleton
  <2> QED
    BY <2>4 DEF T
<1>5. CommandedNotConfirmed
  BY <1>2 DEF CommandedNotConfirmed, Right, AsCommanded, Status, Motion
<1> QED
  BY <1>1, <1>3, <1>4, <1>5 DEF StripIsRight

LEMMA FeedInvPage == FeedInv => PageIsRight
<1> SUFFICES ASSUME FeedInv PROVE PageIsRight
  OBVIOUS
<1>1. ASSUME NEW c \in Callers, Settled(c)
      PROVE  Settles(call[c], board, legible) /\ board \in Board(Orders)
  <2> DEFINE k == call[c]
             live == LastRun(pipe, 0)
  <2>1. pipe = <<>> /\ file = <<>> /\ k.pc = "returned"
    BY <1>1 DEF Settled
  <2>2. PICK u, end, mid : /\ FileLeads(k, file, board, mid, live)
                           /\ PipeLeads(k, pipe, translator, mid, u, end)
                           /\ Phase(k, u, end, legible)
    BY DEF FeedInv, Tracks, Reaches
  <2> HIDE DEF k, live
  <2>3. mid = board
    BY <2>1, <2>2, FileEmpty
  <2>4. end = mid
    BY <2>1, <2>2, PipeEmpty
  <2> QED
    BY <2>1, <2>2, <2>3, <2>4 DEF Phase, k
<1>2. OutcomeShown
  BY <1>1 DEF OutcomeShown, Settles, Result, ResultOf
<1>3. VerdictShown
  <2> SUFFICES ASSUME NEW c \in Callers, Settled(c)
               PROVE IF call[c].verification = "none" THEN board.verification = NoVerdict
                     ELSE /\ board.verification.ok = (call[c].verification = "ok")
                          /\ board.verification.ok =>
                               board.verification.attempt = call[c].attempts
    BY DEF VerdictShown
  <2>1. VerdictFits(call[c], board) /\ board.verification.ok \in BOOLEAN
    BY <1>1, BoardFields DEF Settles
  <2> QED
    BY <2>1 DEF VerdictFits
<1>4. AlertsShown
  BY <1>1 DEF AlertsShown, Settles, Shouted, SeverityOf
<1> QED
  BY <1>2, <1>3, <1>4 DEF PageIsRight

\* The strip shows what the run is doing and has done, during the run and after
\* it, and never as confirmed what was only commanded; the one motion that a
\* run broke off in is all of PICK and PLACE that a failure may leave green:
\* however the run, emit and the dashboard take turns, for any orders, number
\* of attempts, and sizes of the pipe and the file.
THEOREM StripShowsTheRun == FeedSpec => []StripIsRight
<1> QED
  BY FeedInvInit, FeedInvNext, FeedInvStrip, PTL DEF FeedSpec

\* Once everything is read, the page tells the outcome, the verdict and the
\* alert that the run returned; it says "running" for ever of a run that failed
\* with a line that cannot be read, and of no other.
THEOREM PageShowsTheEnd == FeedSpec => []PageIsRight
<1> QED
  BY FeedInvInit, FeedInvNext, FeedInvPage, PTL DEF FeedSpec
=============================================================================
