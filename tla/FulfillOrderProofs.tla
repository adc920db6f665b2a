------------------------- MODULE FulfillOrderProofs -------------------------
(***************************************************************************)
(* fulfill_order for every number of callers, items, bins, orders and      *)
(* attempts.  The first part says what each action does to the call that   *)
(* takes it; the second that a call which has the arm to itself keeps the  *)
(* table in order; the third that stages, attempts, status and alerts of   *)
(* any call tell one story.  RunOrderProofs and OrderApiProofs rest on it. *)
(***************************************************************************)
EXTENDS FulfillOrder, FiniteSetTheorems, SequenceTheorems, TLAPS

Aims == {"spot", "astray", "lost"} \cup Bins
MeantPairs == [item : Items, bin : Bins \cup {"unknown bin"}]

\* Every call is one, and only c's is replaced by k.
Becomes(c, k) ==
  /\ call \in [Callers -> Call]
  /\ k \in Call
  /\ call' = [call EXCEPT ![c] = k]

\* The order and whether it is to be verified stay.
SameOrder(c) ==
  call'[c].order = call[c].order /\ call'[c].verify = call[c].verify

\* What fulfill_order returns, but for the status, stays.
SameResult(c) ==
  /\ call'[c].stages = call[c].stages
  /\ call'[c].attempts = call[c].attempts
  /\ call'[c].verification = call[c].verification
  /\ call'[c].alert = call[c].alert

\* A step of one call is no step of another.
Local(c) ==
  /\ call' \in [Callers -> Call]
  /\ \A d \in Callers \ {c} : call'[d] = call[d]
---------------------------------------------------------------------------
LEMMA TheMoves ==
  /\ Len(Moves) = 6 /\ Len(Pick) = 3
  /\ Moves[1] = "home" /\ Moves[2] = "approach" /\ Moves[3] = "grasp"
  /\ Moves[4] = "carry" /\ Moves[5] = "release" /\ Moves[6] = "return"
BY DEF Moves, Pick, Place

LEMMA NoCallIsCall == NoCall \in Call
<1>1. 1 \in 1..Len(Moves)
  BY TheMoves
<1>2. <<>> \in Seq(Stages)
  OBVIOUS
<1> QED
  BY <1>1, <1>2 DEF NoCall, Call

\* The types of a call's fields, where a proof needs them.
LEMMA CallFields ==
  ASSUME NEW k \in Call
  PROVE  /\ k.pc \in {"idle", "resolve", "move", "verify", "alert", "returned"}
         /\ k.order \in Orders \cup {None} /\ k.verify \in BOOLEAN
         /\ k.target \in Items \cup {None} /\ k.aim \in Aims
         /\ k.attempt \in Nat /\ k.step \in 1..6
         /\ k.status \in {"fulfilled", "failed"}
         /\ k.stages \in Seq(Stages) /\ k.attempts \in Nat
         /\ k.verification \in {"none", "ok", "not ok"}
         /\ k.seen \in Items \cup {None}
         /\ k.alert \in {"none", "order_fulfilled", "order_failed"}
BY TheMoves DEF Call, Aims

LEMMA BecomesIsLocal ==
  ASSUME NEW c \in Callers, NEW k, Becomes(c, k)
  PROVE  Local(c) /\ call'[c] = k
BY DEF Becomes, Local

\* A recorded stage is one of the stages.
LEMMA StageRecorded ==
  ASSUME NEW stages \in Seq(Stages), NEW stage \in Stages
  PROVE  /\ Append(stages, stage) \in Seq(Stages)
         /\ Len(Append(stages, stage)) = Len(stages) + 1
         /\ \A i \in 1..Len(stages) : Append(stages, stage)[i] = stages[i]
         /\ Append(stages, stage)[Len(stages) + 1] = stage
OBVIOUS

LEMMA TwoRecorded ==
  ASSUME NEW stages \in Seq(Stages), NEW a \in Stages, NEW b \in Stages
  PROVE  stages \o <<a, b>> = Append(Append(stages, a), b)
<1> DEFINE s == stages \o <<a, b>>
           t == Append(Append(stages, a), b)
<1>1. s \in Seq(Stages) /\ t \in Seq(Stages) /\ Len(s) = Len(t)
  OBVIOUS
<1>2. \A i \in 1..Len(s) : s[i] = t[i]
  OBVIOUS
<1> QED
  BY <1>1, <1>2, SeqEqual

LEMMA PairAdded ==
  ASSUME NEW stages \in Seq(Stages), NEW a \in Stages, NEW b \in Stages
  PROVE  /\ stages \o <<a, b>> \in Seq(Stages)
         /\ Len(stages \o <<a, b>>) = Len(stages) + 2
         /\ \A i \in 1..Len(stages) : (stages \o <<a, b>>)[i] = stages[i]
         /\ (stages \o <<a, b>>)[Len(stages) + 1] = a
         /\ (stages \o <<a, b>>)[Len(stages) + 2] = b
<1> DEFINE t == Append(stages, a)
<1>1. /\ t \in Seq(Stages) /\ Len(t) = Len(stages) + 1
      /\ \A i \in 1..Len(stages) : t[i] = stages[i]
      /\ t[Len(stages) + 1] = a
  BY StageRecorded
<1>2. stages \o <<a, b>> = Append(t, b)
  BY TwoRecorded
<1> HIDE DEF t
<1> QED
  BY <1>1, <1>2, StageRecorded

LEMMA KnownStages ==
  {"picked", "placed", "verified", "verify-failed", "retried", "alerted"} \subseteq Stages
BY DEF Stages
---------------------------------------------------------------------------
(* What each action does to its call. *)

LEMMA StartCall ==
  ASSUME call \in [Callers -> Call], NEW c \in Callers, NEW o \in Orders,
         NEW v \in BOOLEAN, StartWith(c, o, v)
  PROVE  /\ Local(c)
         /\ call'[c].pc = "resolve" /\ call'[c].order = o /\ call'[c].verify = v
         /\ call'[c].step = 1 /\ call'[c].aim = "spot"
         /\ call'[c].stages = <<>> /\ call'[c].attempts = 0
         /\ call'[c].status = "fulfilled"
         /\ call'[c].verification = "none" /\ call'[c].alert = "none"
<1> DEFINE k == [NoCall EXCEPT !.pc = "resolve", !.order = o, !.verify = v]
<1>1. /\ k \in Call
      /\ k.pc = "resolve" /\ k.order = o /\ k.verify = v
      /\ k.step = 1 /\ k.aim = "spot" /\ k.stages = <<>> /\ k.attempts = 0
      /\ k.status = "fulfilled" /\ k.verification = "none" /\ k.alert = "none"
  BY NoCallIsCall DEF NoCall, Call
<1>2. call' = [call EXCEPT ![c] = k]
  BY DEF StartWith
<1> HIDE DEF k
<1> QED
  BY <1>1, <1>2, BecomesIsLocal DEF Becomes

LEMMA FailCall ==
  ASSUME call \in [Callers -> Call], NEW c \in Callers, Fail(c)
  PROVE  /\ Local(c) /\ SameOrder(c) /\ SameResult(c)
         /\ call'[c].pc = "returned" /\ call'[c].status = "failed"
         /\ call'[c].target = call[c].target /\ call'[c].aim = call[c].aim
         /\ call'[c].seen = call[c].seen
<1> DEFINE k == call[c]
           l == [k EXCEPT !.pc = "returned", !.status = "failed"]
<1>1. k \in Call /\ call' = [call EXCEPT ![c] = l]
  BY DEF Fail
<1> HIDE DEF k
<1>2. /\ l \in Call /\ l.pc = "returned" /\ l.status = "failed"
      /\ l.order = k.order /\ l.verify = k.verify /\ l.aim = k.aim
      /\ l.target = k.target /\ l.seen = k.seen
      /\ l.stages = k.stages /\ l.attempts = k.attempts
      /\ l.verification = k.verification /\ l.alert = k.alert
  BY <1>1 DEF Call
<1> HIDE DEF l
<1> QED
  BY <1>1, <1>2, BecomesIsLocal DEF Becomes, SameOrder, SameResult, k

LEMMA ResolveCall ==
  ASSUME call \in [Callers -> Call], NEW c \in Callers,
         NEW source \in {"hardcoded", "perceived"}, NEW item \in Items,
         NEW aim \in Aims, ResolveAs(c, source, item, aim)
  PROVE  /\ Local(c) /\ SameOrder(c) /\ SameResult(c)
         /\ call'[c].pc = "move" /\ call'[c].attempt = 1
         /\ call'[c].target = item /\ call'[c].aim = aim
         /\ call'[c].step = call[c].step /\ call'[c].status = call[c].status
<1> DEFINE k == call[c]
           l == [k EXCEPT !.pc = "move", !.attempt = 1,
                          !.source = source, !.target = item, !.aim = aim]
<1>1. k \in Call /\ call' = [call EXCEPT ![c] = l]
  BY DEF ResolveAs
<1> HIDE DEF k
<1>2. /\ l \in Call /\ l.pc = "move" /\ l.attempt = 1
      /\ l.target = item /\ l.aim = aim
      /\ l.step = k.step /\ l.status = k.status
      /\ l.order = k.order /\ l.verify = k.verify
      /\ l.stages = k.stages /\ l.attempts = k.attempts
      /\ l.verification = k.verification /\ l.alert = k.alert
  BY <1>1 DEF Call, Aims
<1> HIDE DEF l
<1> QED
  BY <1>1, <1>2, BecomesIsLocal DEF Becomes, SameOrder, SameResult, k

\* The stage that completing an action records, if it does.
StagesAfter(k) ==
  CASE k.step = 3 -> Append(k.stages, "picked")
    [] k.step = 6 -> Append(k.stages, "placed")
    [] OTHER -> k.stages

LEMMA MoveCall ==
  ASSUME call \in [Callers -> Call], NEW c \in Callers, Move(c)
  PROVE  /\ Local(c) /\ SameOrder(c)
         /\ call'[c].step = IF call[c].step = 6 THEN 1 ELSE call[c].step + 1
         /\ call'[c].pc = IF call[c].step < 6 THEN "move"
                          ELSE IF call[c].verify THEN "verify" ELSE "alert"
         /\ call'[c].target = call[c].target /\ call'[c].aim = AimAfter(c)
         /\ call'[c].stages = StagesAfter(call[c])
         /\ call'[c].attempts = IF call[c].step = 6 THEN call[c].attempt
                                ELSE call[c].attempts
         /\ call'[c].attempt = call[c].attempt
         /\ call'[c].status = call[c].status
         /\ call'[c].verification = call[c].verification
         /\ call'[c].seen = call[c].seen /\ call'[c].alert = call[c].alert
<1> DEFINE k == call[c]
           n == IF k.step = Len(Moves) THEN 1 ELSE k.step + 1
           aim == AimAfter(c)
           next == [k EXCEPT !.step = n, !.aim = aim]
           pc == IF k.verify THEN "verify" ELSE "alert"
           l == CASE k.step = Len(Pick) -> [next EXCEPT !.stages = Append(@, "picked")]
                  [] k.step = Len(Moves) ->
                       [next EXCEPT !.stages = Append(@, "placed"),
                                    !.attempts = k.attempt,
                                    !.pc = pc]
                  [] OTHER -> next
<1>1. k \in Call /\ k.pc = "move" /\ call' = [call EXCEPT ![c] = l]
  BY DEF Move
<1>2. k.step \in 1..6 /\ k.aim \in Aims /\ k.attempt \in Nat /\ k.stages \in Seq(Stages)
  BY <1>1, CallFields
<1>3. n \in 1..Len(Moves) /\ n = IF k.step = 6 THEN 1 ELSE k.step + 1
  BY <1>2, TheMoves
<1>4. aim \in Aims
  BY <1>2 DEF AimAfter, Aims
<1>5. pc \in {"verify", "alert"}
  OBVIOUS
<1> HIDE DEF k, n, aim, pc
<1>6. /\ next \in Call /\ next.step = n /\ next.aim = aim
      /\ next.pc = k.pc /\ next.order = k.order /\ next.verify = k.verify
      /\ next.attempt = k.attempt /\ next.attempts = k.attempts
      /\ next.status = k.status /\ next.stages = k.stages
      /\ next.target = k.target /\ next.seen = k.seen
      /\ next.verification = k.verification /\ next.alert = k.alert
  BY <1>1, <1>3, <1>4 DEF Call, Aims
<1>7. /\ Append(next.stages, "picked") \in Seq(Stages)
      /\ Append(next.stages, "placed") \in Seq(Stages)
  BY <1>2, <1>6, KnownStages, StageRecorded
<1> HIDE DEF next
<1>8. /\ l \in Call /\ l.step = n /\ l.aim = aim
      /\ l.order = k.order /\ l.verify = k.verify
      /\ l.pc = IF k.step < 6 THEN "move" ELSE pc
      /\ l.stages = StagesAfter(k)
      /\ l.attempts = IF k.step = 6 THEN k.attempt ELSE k.attempts
      /\ l.attempt = k.attempt /\ l.status = k.status
      /\ l.target = k.target /\ l.seen = k.seen
      /\ l.verification = k.verification /\ l.alert = k.alert
  <2>1. CASE k.step = 3
    <3>1. l = [next EXCEPT !.stages = Append(next.stages, "picked")]
      BY <2>1, TheMoves
    <3>2. k.step = 3 /\ StagesAfter(k) = Append(next.stages, "picked")
      BY <1>2, <1>6, <2>1 DEF StagesAfter
    <3> DEFINE stages == Append(next.stages, "picked")
    <3>3. stages \in Seq(Stages)
      BY <1>7
    <3> HIDE DEF l, stages
    <3>4. l \in Call
      BY <1>2, <1>5, <1>6, <3>1, <3>3 DEF Call, stages
    <3> QED
      BY <1>1, <1>6, <3>1, <3>2, <3>4 DEF stages
  <2>2. CASE k.step = 6
    <3>1. l = [next EXCEPT !.stages = Append(next.stages, "placed"),
                           !.attempts = k.attempt, !.pc = pc]
      BY <2>2, TheMoves
    <3>2. k.step = 6 /\ StagesAfter(k) = Append(next.stages, "placed")
      BY <1>2, <1>6, <2>2 DEF StagesAfter
    <3> DEFINE stages == Append(next.stages, "placed")
    <3>3. stages \in Seq(Stages)
      BY <1>7
    <3> HIDE DEF l, stages
    <3>4. l \in Call
      BY <1>2, <1>5, <1>6, <3>1, <3>3 DEF Call, stages
    <3> QED
      BY <1>1, <1>6, <3>1, <3>2, <3>4 DEF stages
  <2>3. CASE k.step \notin {3, 6}
    <3>1. l = next
      BY <2>3, TheMoves
    <3>2. k.step < 6 /\ StagesAfter(k) = next.stages
      BY <1>2, <1>6, <2>3 DEF StagesAfter
    <3> HIDE DEF l
    <3> QED
      BY <1>1, <1>2, <1>6, <3>1, <3>2
  <2> QED
    BY <2>1, <2>2, <2>3
<1> HIDE DEF l
<1> QED
  BY <1>1, <1>3, <1>8, BecomesIsLocal DEF Becomes, SameOrder, k, aim, pc

\* The three ways a verdict may send a call.
Passes(c, item) ==
  /\ item # None /\ call'[c].pc = "alert" /\ call'[c].verification = "ok"
  /\ call'[c].seen = item
  /\ call'[c].stages = Append(call[c].stages, "verified")
  /\ call'[c].attempt = call[c].attempt

Retries(c, item) ==
  /\ item = None /\ MayRetry(c)
  /\ call'[c].pc = "move" /\ call'[c].verification = "not ok"
  /\ call'[c].stages = Append(Append(call[c].stages, "verify-failed"), "retried")
  /\ call'[c].attempt = call[c].attempt + 1

GivesUp(c, item) ==
  /\ item = None /\ ~MayRetry(c)
  /\ call'[c].pc = "alert" /\ call'[c].verification = "not ok"
  /\ call'[c].stages = Append(call[c].stages, "verify-failed")
  /\ call'[c].attempt = call[c].attempt

LEMMA VerifyCall ==
  ASSUME call \in [Callers -> Call], NEW c \in Callers, NEW item \in Items \cup {None},
         VerifyAs(c, item)
  PROVE  /\ Local(c) /\ SameOrder(c)
         /\ call'[c].attempts = call[c].attempts
         /\ call'[c].status = call[c].status /\ call'[c].alert = call[c].alert
         /\ call'[c].step = call[c].step /\ call'[c].aim = call[c].aim
         /\ call'[c].target = call[c].target
         /\ Passes(c, item) \/ Retries(c, item) \/ GivesUp(c, item)
<1> DEFINE k == call[c]
           l(pc, verdict, attempt, stages, seen) ==
             [k EXCEPT !.pc = pc, !.verification = verdict, !.attempt = attempt,
                       !.stages = stages, !.seen = seen]
<1>1. k \in Call
  OBVIOUS
<1>2. k.stages \in Seq(Stages) /\ k.attempt \in Nat /\ k.seen \in Items \cup {None}
  BY <1>1, CallFields
<1>3. /\ Append(k.stages, "verified") \in Seq(Stages)
      /\ Append(k.stages, "verify-failed") \in Seq(Stages)
      /\ Append(Append(k.stages, "verify-failed"), "retried") \in Seq(Stages)
  BY <1>2, KnownStages, StageRecorded
<1>4. k.stages \o <<"verify-failed", "retried">>
        = Append(Append(k.stages, "verify-failed"), "retried")
  BY <1>2, KnownStages, TwoRecorded
<1>5. ASSUME NEW pc \in {"move", "alert"}, NEW verdict \in {"ok", "not ok"},
             NEW attempt \in Nat, NEW stages \in Seq(Stages),
             NEW seen \in Items \cup {None},
             call' = [call EXCEPT ![c] = l(pc, verdict, attempt, stages, seen)]
      PROVE  /\ Local(c) /\ SameOrder(c)
             /\ call'[c].attempts = k.attempts
             /\ call'[c].status = k.status /\ call'[c].alert = k.alert
             /\ call'[c].step = k.step /\ call'[c].aim = k.aim
             /\ call'[c].target = k.target /\ call'[c].seen = seen
             /\ call'[c].pc = pc /\ call'[c].verification = verdict
             /\ call'[c].attempt = attempt /\ call'[c].stages = stages
  <2> DEFINE m == l(pc, verdict, attempt, stages, seen)
  <2> HIDE DEF k
  <2>1. /\ m \in Call /\ m.pc = pc /\ m.verification = verdict
        /\ m.attempt = attempt /\ m.stages = stages
        /\ m.order = k.order /\ m.verify = k.verify
        /\ m.attempts = k.attempts /\ m.status = k.status
        /\ m.alert = k.alert /\ m.step = k.step /\ m.aim = k.aim
        /\ m.target = k.target /\ m.seen = seen
    BY <1>1, <1>5 DEF Call
  <2>2. call' = [call EXCEPT ![c] = m]
    BY <1>5
  <2> HIDE DEF m
  <2> QED
    BY <2>1, <2>2, BecomesIsLocal DEF Becomes, SameOrder, k
<1>6. CASE /\ item # None
           /\ call' = [call EXCEPT ![c].pc = "alert", ![c].verification = "ok",
                                   ![c].seen = item,
                                   ![c].stages = Append(@, "verified")]
  <2> DEFINE stages == Append(k.stages, "verified")
             seen == item
             attempt == k.attempt
  <2>1. call' = [call EXCEPT ![c] = l("alert", "ok", attempt, stages, seen)]
    BY <1>1, <1>4, <1>6 DEF Call
  <2>2. stages \in Seq(Stages) /\ seen \in Items \cup {None} /\ attempt \in Nat
    BY <1>2, <1>3
  <2> HIDE DEF l, stages, seen, attempt
  <2>3. /\ Local(c) /\ SameOrder(c)
        /\ call'[c].attempts = k.attempts
        /\ call'[c].status = k.status /\ call'[c].alert = k.alert
        /\ call'[c].step = k.step /\ call'[c].aim = k.aim
        /\ call'[c].target = k.target /\ call'[c].seen = seen
        /\ call'[c].pc = "alert" /\ call'[c].verification = "ok"
        /\ call'[c].attempt = attempt /\ call'[c].stages = stages
    BY <1>5, <2>1, <2>2
  <2> QED
    BY <1>6, <2>3 DEF Passes, stages, seen, attempt
<1>7. CASE item = None /\ MayRetry(c) /\ Retry(c)
  <2> DEFINE stages == Append(Append(k.stages, "verify-failed"), "retried")
             seen == k.seen
             attempt == k.attempt + 1
  <2>1. call' = [call EXCEPT ![c] = l("move", "not ok", attempt, stages, seen)]
    BY <1>1, <1>4, <1>7 DEF Call, Retry
  <2>2. stages \in Seq(Stages) /\ seen \in Items \cup {None} /\ attempt \in Nat
    BY <1>2, <1>3
  <2> HIDE DEF l, stages, seen, attempt
  <2>3. /\ Local(c) /\ SameOrder(c)
        /\ call'[c].attempts = k.attempts
        /\ call'[c].status = k.status /\ call'[c].alert = k.alert
        /\ call'[c].step = k.step /\ call'[c].aim = k.aim
        /\ call'[c].target = k.target /\ call'[c].seen = seen
        /\ call'[c].pc = "move" /\ call'[c].verification = "not ok"
        /\ call'[c].attempt = attempt /\ call'[c].stages = stages
    BY <1>5, <2>1, <2>2
  <2> QED
    BY <1>7, <2>3 DEF Retries, stages, seen, attempt
<1>8. CASE /\ item = None /\ ~MayRetry(c)
           /\ call' = [call EXCEPT ![c].pc = "alert", ![c].verification = "not ok",
                                   ![c].stages = Append(@, "verify-failed")]
  <2> DEFINE stages == Append(k.stages, "verify-failed")
             seen == k.seen
             attempt == k.attempt
  <2>1. call' = [call EXCEPT ![c] = l("alert", "not ok", attempt, stages, seen)]
    BY <1>1, <1>4, <1>8 DEF Call
  <2>2. stages \in Seq(Stages) /\ seen \in Items \cup {None} /\ attempt \in Nat
    BY <1>2, <1>3
  <2> HIDE DEF l, stages, seen, attempt
  <2>3. /\ Local(c) /\ SameOrder(c)
        /\ call'[c].attempts = k.attempts
        /\ call'[c].status = k.status /\ call'[c].alert = k.alert
        /\ call'[c].step = k.step /\ call'[c].aim = k.aim
        /\ call'[c].target = k.target /\ call'[c].seen = seen
        /\ call'[c].pc = "alert" /\ call'[c].verification = "not ok"
        /\ call'[c].attempt = attempt /\ call'[c].stages = stages
    BY <1>5, <2>1, <2>2
  <2> QED
    BY <1>8, <2>3 DEF GivesUp, stages, seen, attempt
<1> QED
  BY <1>6, <1>7, <1>8 DEF VerifyAs

LEMMA AlertCall ==
  ASSUME call \in [Callers -> Call], NEW c \in Callers, Alert(c)
  PROVE  /\ Local(c) /\ SameOrder(c)
         /\ call'[c].pc = "returned" /\ call'[c].alert = AlertKind(c)
         /\ call'[c].stages = Append(call[c].stages, "alerted")
         /\ call'[c].status = IF Verified(c) THEN "fulfilled" ELSE "failed"
         /\ call'[c].attempts = call[c].attempts
         /\ call'[c].verification = call[c].verification
         /\ call'[c].aim = call[c].aim /\ call'[c].seen = call[c].seen
<1> DEFINE k == call[c]
           stages == Append(k.stages, "alerted")
           status == IF Verified(c) THEN "fulfilled" ELSE "failed"
           l == [k EXCEPT !.pc = "returned", !.alert = AlertKind(c),
                          !.stages = stages, !.status = status]
<1>1. k \in Call /\ stages \in Seq(Stages) /\ status \in {"fulfilled", "failed"}
  BY CallFields, KnownStages, StageRecorded
<1>2. AlertKind(c) \in {"order_fulfilled", "order_failed"}
  BY DEF AlertKind
<1>3. call' = [call EXCEPT ![c] = l]
  BY <1>1 DEF Alert, Call
<1> HIDE DEF k, stages, status
<1>4. /\ l \in Call /\ l.pc = "returned" /\ l.alert = AlertKind(c)
      /\ l.stages = stages /\ l.status = status
      /\ l.order = k.order /\ l.verify = k.verify
      /\ l.attempts = k.attempts /\ l.verification = k.verification
      /\ l.aim = k.aim /\ l.seen = k.seen
  BY <1>1, <1>2 DEF Call
<1> HIDE DEF l
<1> QED
  BY <1>1, <1>3, <1>4, BecomesIsLocal DEF Becomes, SameOrder, k, stages, status

LEMMA ForgetCall ==
  ASSUME call \in [Callers -> Call], NEW c \in Callers,
         call' = [call EXCEPT ![c] = NoCall]
  PROVE  Local(c) /\ call'[c] = NoCall
BY NoCallIsCall, BecomesIsLocal DEF Becomes
---------------------------------------------------------------------------
(* The table, as a call keeps it that has the arm to itself. *)

\* What the gripper holds, and where everything is.
CellInv ==
  /\ call \in [Callers -> Call]
  /\ where \in [Items -> {"spot", "astray", "held"} \cup Bins]
  /\ held \in Items \cup {None}
  /\ \A i \in Items : where[i] = "held" <=> held = i
  /\ sent \subseteq MeantPairs

\* The order in progress was placed and the item its plan goes for is meant for
\* its bin; the plans begin at their beginning, from the grasp on the gripper
\* holds that item or nothing, and from the release on nothing.
GripInv(c) ==
  /\ call[c].pc # "idle" => call[c].order \in Orders /\ call[c].order \in sent
  /\ call[c].pc \in {"move", "verify"} =>
       /\ call[c].target \in Items
       /\ [item |-> call[c].target, bin |-> call[c].order.bin] \in sent
  /\ call[c].pc \in {"resolve", "verify"} => call[c].step = 1
  /\ call[c].pc \in {"move", "verify"} => call[c].order.bin \in Bins
  /\ call[c].pc = "move" /\ call[c].step >= 3
       => held \in {None, call[c].target}
  /\ call[c].pc = "move" /\ call[c].step = 6 => held = None
  /\ call[c].pc \in {"verify", "alert"} => held = None

TableInv(c) == CellInv /\ GripInv(c) /\ BinsHoldOrders

\* What a step of c may do to the items: take or drop any, and put the one its
\* plan goes for in the ordered bin.
OnlyItsOrder(c) ==
  \A i \in Items : where'[i] # where[i] =>
    \/ where'[i] \in {"astray", "held"}
    \/ i = call[c].target /\ where'[i] = call[c].order.bin

\* An aim that finds nothing in a bin leaves alone what lies there.
BinsLeftAlone ==
  \A i \in Items : where[i] \in Bins => where'[i] = where[i]

LEMMA OrderFacts ==
  ASSUME CellInv, NEW c \in Callers, GripInv(c), call[c].pc # "idle"
  PROVE  /\ call[c].order \in Orders
         /\ call[c].order.item \in Items
         /\ call[c].order = [item |-> call[c].order.item,
                             bin |-> call[c].order.bin]
BY CellAssumption DEF CellInv, GripInv

\* An action of the plans, whether or not it completes.
LEMMA EffectKeeps ==
  ASSUME NEW c \in Callers, TableInv(c), call[c].pc = "move",
         Effect(c, Moves[call[c].step]) \/ UNCHANGED <<held, where>>,
         UNCHANGED sent
  PROVE  /\ where' \in [Items -> {"spot", "astray", "held"} \cup Bins]
         /\ held' \in Items \cup {None}
         /\ \A i \in Items : where'[i] = "held" <=> held' = i
         /\ BinsHoldOrders'
         /\ OnlyItsOrder(c)
         /\ call[c].aim \notin Bins => BinsLeftAlone
<1> DEFINE k == call[c]
           m == Moves[k.step]
           o == k.order
           t == k.target
<1>1. /\ k.step \in 1..6 /\ k.aim \in Aims /\ t \in Items
      /\ [item |-> t, bin |-> o.bin] \in sent
  BY CallFields DEF TableInv, CellInv, GripInv
<1>2. CASE UNCHANGED <<held, where>>
  BY <1>2, CellAssumption DEF OnlyItsOrder, BinsLeftAlone, TableInv, CellInv, BinsHoldOrders
<1>3. CASE held # None /\ Drop
  BY <1>3, CellAssumption DEF OnlyItsOrder, BinsLeftAlone, TableInv, CellInv, BinsHoldOrders, Drop
<1>4. CASE /\ m = "grasp" /\ held = None /\ where[t] = k.aim
           /\ held' = t /\ where' = [where EXCEPT ![t] = "held"]
  BY <1>1, <1>4, CellAssumption DEF OnlyItsOrder, BinsLeftAlone, TableInv, CellInv, BinsHoldOrders
<1>5. CASE /\ m = "grasp" /\ held = None /\ where[t] = k.aim
           /\ held' = held /\ where' = [where EXCEPT ![t] = "astray"]
  BY <1>1, <1>5, CellAssumption DEF OnlyItsOrder, BinsLeftAlone, TableInv, CellInv, BinsHoldOrders, Aims
<1>6. CASE m = "release" /\ held # None /\ held' = None
           /\ where' = [where EXCEPT ![held] = o.bin]
  <2>1. k.step = 5 /\ o.bin \in Bins
    <3>1. \A n \in 1..6 : Moves[n] = "release" => n = 5
      BY TheMoves
    <3>2. o.bin \in Bins
      BY DEF TableInv, GripInv
    <3> QED
      BY <1>1, <1>6, <3>1, <3>2
  <2>2. held = t
    <3>1. k.step >= 3 => held \in {None, t}
      BY DEF TableInv, GripInv
    <3> QED
      BY <1>6, <2>1, <3>1
  <2>3. where' = [where EXCEPT ![t] = o.bin]
    BY <1>6, <2>2
  <2>4. \A i \in Items : where'[i] = IF i = t THEN o.bin ELSE where[i]
    BY <1>1, <2>3 DEF TableInv, CellInv
  <2> HIDE DEF k, o, t
  <2>5. BinsHoldOrders'
    BY <1>1, <2>4 DEF TableInv, BinsHoldOrders
  <2>6. BinsLeftAlone
    BY <1>6, <2>1, <2>2, <2>4, CellAssumption DEF TableInv, CellInv, BinsLeftAlone
  <2>7. OnlyItsOrder(c)
    BY <2>4 DEF OnlyItsOrder, k, o, t
  <2> QED
    BY <1>1, <1>6, <2>1, <2>2, <2>3, <2>4, <2>5, <2>6, <2>7, CellAssumption
       DEF TableInv, CellInv
<1> QED
  BY <1>1, <1>2, <1>3, <1>4, <1>5, <1>6 DEF Effect

\* A step that moves nothing.
LEMMA TableStays ==
  ASSUME NEW c \in Callers, TableInv(c), Local(c), UNCHANGED <<held, where>>,
         sent \subseteq sent', sent' \subseteq MeantPairs,
         GripInv(c)'
  PROVE  TableInv(c)'
BY DEF TableInv, CellInv, Local, BinsHoldOrders

LEMMA StartKeeps ==
  ASSUME NEW c \in Callers, TableInv(c), NEW o \in Orders, NEW v \in BOOLEAN,
         StartWith(c, o, v)
  PROVE  TableInv(c)'
<1>1. /\ UNCHANGED <<held, where>> /\ sent' = sent \cup {o}
      /\ sent' \subseteq MeantPairs
  BY CellAssumption DEF StartWith, world, TableInv, CellInv, MeantPairs
<1>2. Local(c) /\ call'[c].pc = "resolve" /\ call'[c].order = o /\ call'[c].step = 1
  BY StartCall DEF TableInv, CellInv
<1> QED
  BY <1>1, <1>2, TableStays DEF GripInv

\* No call, as after an interrupt.
LEMMA NoCallKeeps ==
  ASSUME NEW c \in Callers, TableInv(c),
         call' = [call EXCEPT ![c] = NoCall], UNCHANGED sent,
         where' \in [Items -> {"spot", "astray", "held"} \cup Bins],
         held' \in Items \cup {None},
         \A i \in Items : where'[i] = "held" <=> held' = i, BinsHoldOrders'
  PROVE  TableInv(c)'
<1>1. Local(c) /\ call'[c] = NoCall
  BY ForgetCall DEF TableInv, CellInv
<1> QED
  BY <1>1 DEF TableInv, CellInv, GripInv, NoCall, Local

LEMMA FailKeeps ==
  ASSUME NEW c \in Callers, TableInv(c), Busy(c), Fail(c), UNCHANGED sent,
         where' \in [Items -> {"spot", "astray", "held"} \cup Bins],
         held' \in Items \cup {None},
         \A i \in Items : where'[i] = "held" <=> held' = i, BinsHoldOrders'
  PROVE  TableInv(c)'
<1>1. Local(c) /\ call'[c].pc = "returned" /\ call'[c].order = call[c].order
  BY FailCall DEF TableInv, CellInv, SameOrder
<1> QED
  BY <1>1 DEF TableInv, CellInv, GripInv, Busy, Local

LEMMA FailInPlaceKeeps ==
  ASSUME NEW c \in Callers, TableInv(c), Busy(c), Fail(c),
         UNCHANGED <<held, where, sent>>
  PROVE  TableInv(c)'
BY FailKeeps DEF TableInv, CellInv, BinsHoldOrders

LEMMA ResolveKeeps ==
  ASSUME NEW c \in Callers, TableInv(c), call[c].pc = "resolve",
         NEW source \in {"hardcoded", "perceived"}, NEW item \in Items,
         NEW aim \in Aims, ResolveAs(c, source, item, aim)
  PROVE  TableInv(c)'
<1> DEFINE pair == [item |-> item, bin |-> call[c].order.bin]
<1>1. UNCHANGED <<held, where>> /\ sent' = sent \cup {pair} /\ call[c].order.bin \in Bins
  BY DEF ResolveAs, world
<1>2. sent' \subseteq MeantPairs
  <2>1. pair \in MeantPairs
    BY <1>1 DEF MeantPairs
  <2> HIDE DEF pair
  <2> QED
    BY <1>1, <2>1 DEF TableInv, CellInv
<1>3. /\ Local(c) /\ call'[c].pc = "move" /\ call'[c].step = call[c].step
      /\ call'[c].order = call[c].order /\ call'[c].target = item
  BY ResolveCall DEF TableInv, CellInv, SameOrder
<1>4. call[c].step = 1 /\ call[c].order \in Orders /\ call[c].order \in sent
  BY DEF TableInv, GripInv
<1> QED
  BY <1>1, <1>2, <1>3, <1>4, TableStays DEF GripInv

LEMMA MoveKeeps ==
  ASSUME NEW c \in Callers, TableInv(c), Move(c)
  PROVE  TableInv(c)'
<1> DEFINE k == call[c]
           l == call'[c]
<1>1. k \in Call /\ k.pc = "move" /\ k.step \in 1..6
  BY CallFields DEF TableInv, CellInv, Move
<1>2. /\ k.order \in Orders /\ k.order \in sent /\ k.order.bin \in Bins
      /\ k.target \in Items /\ [item |-> k.target, bin |-> k.order.bin] \in sent
      /\ k.step >= 3 => held \in {None, k.target}
  BY <1>1 DEF TableInv, GripInv
<1>3. Effect(c, Moves[k.step]) /\ sent' = sent
  BY DEF Move
<1>4. /\ where' \in [Items -> {"spot", "astray", "held"} \cup Bins]
      /\ held' \in Items \cup {None}
      /\ \A i \in Items : where'[i] = "held" <=> held' = i
      /\ BinsHoldOrders'
  BY <1>1, <1>3, EffectKeeps
<1>5. /\ Local(c) /\ l.order = k.order /\ l.target = k.target
      /\ l.step = IF k.step = 6 THEN 1 ELSE k.step + 1
      /\ l.pc = IF k.step < 6 THEN "move"
                ELSE IF k.verify THEN "verify" ELSE "alert"
  BY MoveCall DEF TableInv, CellInv, SameOrder
<1> HIDE DEF k, l
<1>6. GripInv(c)'
  <2>1. CASE k.step = 1
    BY <1>1, <1>2, <1>3, <1>5, <2>1 DEF GripInv, l
  <2>2. CASE k.step = 2
    <3>1. held' = None
      BY <1>3, <2>2, TheMoves DEF Effect, Drop
    <3> QED
      BY <1>1, <1>2, <1>3, <1>5, <2>2, <3>1 DEF GripInv, l
  <2>3. CASE k.step \in {3, 4}
    <3>1. held' \in {None, k.target}
      BY <1>2, <1>3, <2>3, TheMoves DEF Effect, Drop, k
    <3> QED
      BY <1>1, <1>2, <1>3, <1>5, <2>3, <3>1 DEF GripInv, l
  <2>4. CASE k.step = 5
    <3>1. held' = None
      BY <1>3, <2>4, TheMoves DEF Effect, Drop
    <3> QED
      BY <1>1, <1>2, <1>3, <1>5, <2>4, <3>1 DEF GripInv, l
  <2>5. CASE k.step = 6
    <3>1. held' = held /\ held = None
      BY <1>1, <1>3, <2>5, TheMoves DEF Effect, TableInv, GripInv, k
    <3> QED
      BY <1>1, <1>2, <1>3, <1>5, <2>5, <3>1 DEF GripInv, l
  <2> QED
    BY <1>1, <2>1, <2>2, <2>3, <2>4, <2>5
<1> QED
  BY <1>3, <1>4, <1>5, <1>6 DEF TableInv, CellInv, Local

LEMMA MoveFailsKeeps ==
  ASSUME NEW c \in Callers, TableInv(c), MoveFails(c)
  PROVE  TableInv(c)'
<1>1. Busy(c) /\ Fail(c) /\ UNCHANGED sent /\ call[c].pc = "move"
      /\ (Effect(c, Moves[call[c].step]) \/ UNCHANGED <<held, where>>)
  BY DEF MoveFails, Busy
<1>2. /\ where' \in [Items -> {"spot", "astray", "held"} \cup Bins]
      /\ held' \in Items \cup {None}
      /\ \A i \in Items : where'[i] = "held" <=> held' = i
      /\ BinsHoldOrders'
  BY <1>1, EffectKeeps
<1> QED
  BY <1>1, <1>2, FailKeeps

LEMMA VerifyKeeps ==
  ASSUME NEW c \in Callers, TableInv(c), call[c].pc = "verify",
         NEW item \in Items \cup {None}, VerifyAs(c, item)
  PROVE  TableInv(c)'
<1>1. UNCHANGED <<held, where, sent>> /\ sent' \subseteq MeantPairs
  BY DEF VerifyAs, world, TableInv, CellInv
<1>2. /\ Local(c) /\ call'[c].step = call[c].step /\ call'[c].order = call[c].order
      /\ call'[c].pc \in {"move", "alert"} /\ call'[c].target = call[c].target
  BY VerifyCall DEF TableInv, CellInv, SameOrder, Passes, Retries, GivesUp
<1>3. /\ call[c].step = 1 /\ call[c].order \in Orders /\ call[c].order \in sent
      /\ call[c].target \in Items
      /\ [item |-> call[c].target, bin |-> call[c].order.bin] \in sent
      /\ call[c].order.bin \in Bins /\ held = None
  BY DEF TableInv, GripInv
<1> QED
  BY <1>1, <1>2, <1>3, TableStays DEF GripInv

LEMMA AlertKeeps ==
  ASSUME NEW c \in Callers, TableInv(c), Alert(c)
  PROVE  TableInv(c)'
<1>1. UNCHANGED <<held, where, sent>> /\ sent' \subseteq MeantPairs
  BY DEF Alert, world, TableInv, CellInv
<1>2. Local(c) /\ call'[c].pc = "returned" /\ call'[c].order = call[c].order
  BY AlertCall DEF TableInv, CellInv, SameOrder
<1>3. call[c].order \in Orders /\ call[c].order \in sent
  BY DEF TableInv, GripInv, Alert
<1> QED
  BY <1>1, <1>2, <1>3, TableStays DEF GripInv

LEMMA AlertFailsKeeps ==
  ASSUME NEW c \in Callers, TableInv(c), AlertFails(c)
  PROVE  TableInv(c)'
BY FailInPlaceKeeps DEF AlertFails, Busy, world
---------------------------------------------------------------------------
(* What a reported success means. *)

\* The verdict that is kept is about the table as it stands: it is taken
\* after the last motion, and nothing moves between it and the result.
HonestInv(c) ==
  /\ call[c].verification = "ok" =>
       /\ call[c].pc \in {"alert", "returned"}
       /\ call[c].seen \in Items /\ where[call[c].seen] = call[c].order.bin
  /\ call[c].pc = "returned" /\ call[c].status = "fulfilled" /\ call[c].verify
       => call[c].verification = "ok"

LEMMA StartHonest ==
  ASSUME NEW c \in Callers, call \in [Callers -> Call],
         NEW o \in Orders, NEW v \in BOOLEAN, StartWith(c, o, v)
  PROVE  HonestInv(c)'
<1>1. call'[c].pc = "resolve" /\ call'[c].verification = "none"
  BY StartCall
<1> QED
  BY <1>1 DEF HonestInv

LEMMA NoCallHonest ==
  ASSUME NEW c \in Callers, call'[c] = NoCall
  PROVE  HonestInv(c)'
BY DEF HonestInv, NoCall

LEMMA FailHonest ==
  ASSUME NEW c \in Callers, call \in [Callers -> Call], HonestInv(c), Fail(c),
         call[c].pc = "move" \/ UNCHANGED where
  PROVE  HonestInv(c)'
<1>1. /\ call'[c].pc = "returned" /\ call'[c].status = "failed"
      /\ call'[c].verification = call[c].verification
      /\ call'[c].order = call[c].order /\ call'[c].seen = call[c].seen
  BY FailCall DEF SameOrder, SameResult
<1>2. call[c].verification = "ok" => call[c].pc # "move"
  BY DEF HonestInv
<1> QED
  BY <1>1, <1>2 DEF HonestInv

LEMMA ResolveHonest ==
  ASSUME NEW c \in Callers, call \in [Callers -> Call], HonestInv(c),
         call[c].pc = "resolve",
         NEW source \in {"hardcoded", "perceived"}, NEW item \in Items,
         NEW aim \in Aims, ResolveAs(c, source, item, aim)
  PROVE  HonestInv(c)'
<1>1. call'[c].pc = "move" /\ call'[c].verification = call[c].verification
  BY ResolveCall DEF SameResult
<1> QED
  BY <1>1 DEF HonestInv

LEMMA MoveHonest ==
  ASSUME NEW c \in Callers, call \in [Callers -> Call], HonestInv(c), Move(c)
  PROVE  HonestInv(c)'
<1>1. /\ call'[c].pc \in {"move", "verify", "alert"}
      /\ call'[c].verification = call[c].verification
  BY MoveCall
<1>2. call[c].verification # "ok"
  BY DEF HonestInv, Move
<1> QED
  BY <1>1, <1>2 DEF HonestInv

\* The verdict may be trusted.
LEMMA VerifyHonest ==
  ASSUME NEW c \in Callers, call \in [Callers -> Call], HonestInv(c),
         NEW item \in Items \cup {None}, VerifyAs(c, item),
         item # None => where[item] = call[c].order.bin
  PROVE  HonestInv(c)'
<1>1. /\ call'[c].order = call[c].order /\ UNCHANGED where
      /\ Passes(c, item) \/ Retries(c, item) \/ GivesUp(c, item)
  BY VerifyCall DEF SameOrder, VerifyAs, world
<1> QED
  BY <1>1 DEF HonestInv, Passes, Retries, GivesUp

LEMMA AlertHonest ==
  ASSUME NEW c \in Callers, call \in [Callers -> Call], HonestInv(c), Alert(c)
  PROVE  HonestInv(c)'
<1>1. /\ call'[c].order = call[c].order /\ call'[c].verify = call[c].verify
      /\ call'[c].verification = call[c].verification /\ call'[c].pc = "returned"
      /\ call'[c].seen = call[c].seen
      /\ call'[c].status = IF Verified(c) THEN "fulfilled" ELSE "failed"
      /\ call[c].pc = "alert" /\ UNCHANGED where
  BY AlertCall DEF SameOrder, Alert, world
<1> QED
  BY <1>1 DEF HonestInv, Verified

\* A call reported fulfilled has left nothing in the gripper.
SettledInv(c) ==
  call[c].pc = "returned" /\ call[c].status = "fulfilled" => held = None

LEMMA AlertSettles ==
  ASSUME NEW c \in Callers, TableInv(c), Alert(c)
  PROVE  SettledInv(c)'
BY DEF TableInv, GripInv, Alert, world, SettledInv
---------------------------------------------------------------------------
(* The story that stages, attempts, status and alerts tell. *)

Placed(stages) == {i \in DOMAIN stages : stages[i] = "placed"}

\* What stage an attempt that is going to be followed by another records.
Due(i) == Wanting[((i - 1) % 4) + 1]

\* A story of n attempts, of which all but the last were found wanting.
Told(n, a, b) == Retried(n - 1) \o Round \o <<a, b>>

\* How far the stages are, by where the call is: all but the last verdict are
\* those of attempts that were found wanting.
ProgressInv(c) ==
  LET k == call[c]
      due == 4 * k.attempt
      AsDue(n) == Len(k.stages) >= n /\ \A i \in 1..n : k.stages[i] = Due(i)
  IN /\ k.pc = "resolve" => k.stages = <<>> /\ k.step = 1
     /\ k.pc \in {"move", "verify", "alert"} => k.attempt \in 1..Attempts(c)
     /\ k.pc = "move" =>
          /\ Len(k.stages) = due - (IF k.step > 3 THEN 3 ELSE 4)
          /\ AsDue(Len(k.stages))
          /\ k.attempts = k.attempt - 1
     /\ k.pc = "verify" =>
          /\ k.verify /\ k.step = 1
          /\ Len(k.stages) = due - 2 /\ AsDue(Len(k.stages))
          /\ k.attempts = k.attempt
     /\ k.pc = "alert" =>
          /\ k.attempts = k.attempt
          /\ AsDue(due - 2)
          /\ ~k.verify => Len(k.stages) = 2
          /\ k.verify =>
               /\ Len(k.stages) = due - 1
               /\ \/ k.verification = "ok" /\ k.stages[due - 1] = "verified"
                  \/ /\ k.verification = "not ok" /\ k.attempt = Attempts(c)
                     /\ k.stages[due - 1] = "verify-failed"

StoryInv(c) ==
  /\ alerts \in [Callers -> SUBSET {"order_fulfilled", "order_failed"}]
  /\ call[c].pc # "idle" => call[c].attempts = Cardinality(Placed(call[c].stages))
  /\ Busy(c) => alerts[c] = {} /\ call[c].alert = "none"
  /\ ProgressInv(c)
  /\ call[c].pc = "returned" => StagesTell(c) /\ AlertTells(c)

LEMMA DueStages ==
  /\ Wanting = <<"picked", "placed", "verify-failed", "retried">>
  /\ \A n \in Nat : /\ Due(4 * n + 1) = "picked" /\ Due(4 * n + 2) = "placed"
                    /\ Due(4 * n + 3) = "verify-failed" /\ Due(4 * n + 4) = "retried"
<1>1. Wanting = <<"picked", "placed", "verify-failed", "retried">>
  BY DEF Wanting
<1>2. ASSUME NEW n \in Nat
      PROVE  /\ (((4 * n + 1) - 1) % 4) + 1 = 1 /\ (((4 * n + 2) - 1) % 4) + 1 = 2
             /\ (((4 * n + 3) - 1) % 4) + 1 = 3 /\ (((4 * n + 4) - 1) % 4) + 1 = 4
  OBVIOUS
<1> QED
  BY <1>1, <1>2 DEF Due

LEMMA DueIsStage == \A i \in Nat \ {0} : Due(i) \in Stages
<1> SUFFICES ASSUME NEW i \in Nat \ {0} PROVE Due(i) \in Stages
  OBVIOUS
<1>1. ((i - 1) % 4) + 1 \in 1..4
  OBVIOUS
<1> QED
  BY <1>1, DueStages, KnownStages DEF Due

LEMMA ToldShape ==
  ASSUME NEW j \in Nat \ {0}, NEW a \in Stages, NEW b \in Stages
  PROVE  /\ Told(j, a, b) \in Seq(Stages) /\ Len(Told(j, a, b)) = 4 * j
         /\ \A i \in 1..(4 * j - 2) : Told(j, a, b)[i] = Due(i)
         /\ Told(j, a, b)[4 * j - 1] = a /\ Told(j, a, b)[4 * j] = b
<1> DEFINE n == j - 1
           r == Retried(n)
           e == r \o Round
<1>0. n \in Nat /\ 4 * n + 2 = 4 * j - 2 /\ 4 * n + 3 = 4 * j - 1 /\ 4 * n + 4 = 4 * j
  OBVIOUS
<1> HIDE DEF n
<1>1. /\ r \in Seq(Stages) /\ Len(r) = 4 * n
      /\ \A i \in 1..(4 * n) : r[i] = Due(i)
  BY <1>0, DueIsStage DEF Retried, Due
<1>2. e = r \o <<"picked", "placed">>
  BY DEF Round
<1> HIDE DEF r
<1>3. /\ e \in Seq(Stages) /\ Len(e) = 4 * n + 2
      /\ \A i \in 1..(4 * n) : e[i] = Due(i)
      /\ e[4 * n + 1] = "picked" /\ e[4 * n + 2] = "placed"
  <2> HIDE DEF e
  <2> QED
    BY <1>0, <1>1, <1>2, PairAdded, KnownStages
<1> HIDE DEF e
<1>4. \A i \in 1..(4 * n + 2) : e[i] = Due(i)
  <2> SUFFICES ASSUME NEW i \in 1..(4 * n + 2) PROVE e[i] = Due(i)
    OBVIOUS
  <2>1. i \in 1..(4 * n) \/ i = 4 * n + 1 \/ i = 4 * n + 2
    BY <1>0
  <2> QED
    BY <1>0, <1>3, <2>1, DueStages
<1> DEFINE t == Told(j, a, b)
           m == 4 * n + 2
<1>5. t = e \o <<a, b>>
  BY DEF Told, e, r, n
<1> HIDE DEF t, m
<1>6. /\ t \in Seq(Stages) /\ Len(t) = Len(e) + 2
      /\ \A i \in 1..Len(e) : t[i] = e[i]
      /\ t[Len(e) + 1] = a /\ t[Len(e) + 2] = b
  <2>1. e \in Seq(Stages)
    BY <1>3
  <2> DEFINE u == e \o <<a, b>>
  <2>2. /\ u \in Seq(Stages) /\ Len(u) = Len(e) + 2
        /\ \A i \in 1..Len(e) : u[i] = e[i]
        /\ u[Len(e) + 1] = a /\ u[Len(e) + 2] = b
    BY <2>1, PairAdded
  <2>3. t = u
    BY <1>5
  <2> HIDE DEF u
  <2> QED
    BY <2>2, <2>3
<1>7. Len(e) = m /\ m + 1 = 4 * n + 3 /\ m + 2 = 4 * n + 4
  BY <1>0, <1>3 DEF m
<1>8. /\ t \in Seq(Stages) /\ Len(t) = m + 2
      /\ \A i \in 1..m : t[i] = Due(i)
      /\ t[m + 1] = a /\ t[m + 2] = b
  BY <1>0, <1>4, <1>6, <1>7 DEF m
<1> QED
  BY <1>0, <1>7, <1>8 DEF t, m

LEMMA AttemptsPositive ==
  ASSUME NEW c \in Callers, call \in [Callers -> Call]
  PROVE  Attempts(c) \in Nat \ {0} /\ (~call[c].verify => Attempts(c) = 1)
<1>1. MaxAttempts \in Nat
  BY CellAssumption
<1>2. CASE call[c].verify
  BY <1>1, <1>2 DEF Attempts
<1>3. CASE ~call[c].verify
  BY <1>3 DEF Attempts
<1> QED
  BY <1>2, <1>3

\* The stories there are, and how each is told.
Success(j) == [stages |-> Told(j, "verified", "alerted"), attempts |-> j,
               status |-> "fulfilled"]
Failure(j) == [stages |-> Told(j, "verify-failed", "alerted"), attempts |-> j,
               status |-> "failed"]
Unverified == [stages |-> <<"picked", "placed", "alerted">>, attempts |-> 1,
               status |-> "fulfilled"]

LEMMA Stories ==
  ASSUME NEW c \in Callers
  PROVE  /\ call[c].verify =>
              Story(c) = {Success(j) : j \in 1..Attempts(c)} \cup {Failure(Attempts(c))}
         /\ ~call[c].verify => Story(c) = {Unverified}
<1>1. CASE call[c].verify
  BY <1>1 DEF Story, Told, Success, Failure
<1>2. CASE ~call[c].verify
  BY <1>2 DEF Story, Round, Unverified
<1> QED
  BY <1>1, <1>2

LEMMA SuccessShape ==
  ASSUME NEW j \in Nat \ {0}
  PROVE  /\ Success(j).stages \in Seq(Stages) /\ Len(Success(j).stages) = 4 * j
         /\ \A i \in 1..(4 * j - 2) : Success(j).stages[i] = Due(i)
         /\ Success(j).stages[4 * j - 1] = "verified"
         /\ Success(j).stages[4 * j] = "alerted"
<1>1. "verified" \in Stages /\ "alerted" \in Stages
  BY KnownStages
<1>2. Success(j).stages = Told(j, "verified", "alerted")
  BY DEF Success
<1> QED
  BY <1>1, <1>2, ToldShape

LEMMA FailureShape ==
  ASSUME NEW j \in Nat \ {0}
  PROVE  /\ Failure(j).stages \in Seq(Stages) /\ Len(Failure(j).stages) = 4 * j
         /\ \A i \in 1..(4 * j - 2) : Failure(j).stages[i] = Due(i)
         /\ Failure(j).stages[4 * j - 1] = "verify-failed"
         /\ Failure(j).stages[4 * j] = "alerted"
<1>1. "verify-failed" \in Stages /\ "alerted" \in Stages
  BY KnownStages
<1>2. Failure(j).stages = Told(j, "verify-failed", "alerted")
  BY DEF Failure
<1> QED
  BY <1>1, <1>2, ToldShape

LEMMA UnverifiedShape ==
  /\ Unverified.stages \in Seq(Stages) /\ Len(Unverified.stages) = 3
  /\ Unverified.stages[1] = Due(1) /\ Unverified.stages[2] = Due(2)
  /\ Unverified.stages[3] = "alerted"
<1>1. Due(4 * 0 + 1) = "picked" /\ Due(4 * 0 + 2) = "placed"
  BY DueStages
<1> QED
  BY <1>1, KnownStages DEF Unverified

\* The number of stages "placed" as one more stage is recorded.
LEMMA PlacedCounted ==
  ASSUME NEW stages \in Seq(Stages), NEW stage \in Stages
  PROVE  Cardinality(Placed(Append(stages, stage)))
           = Cardinality(Placed(stages)) + IF stage = "placed" THEN 1 ELSE 0
<1> DEFINE n == Len(stages)
<1>1. IsFiniteSet(1..n)
  BY FS_Interval
<1>2. Placed(stages) \subseteq 1..n /\ IsFiniteSet(Placed(stages))
  BY <1>1, FS_Subset DEF Placed
<1>3. Cardinality(Placed(stages)) \in Nat
  BY <1>2, FS_CardinalityType
<1>4. CASE stage = "placed"
  <2>1. Placed(Append(stages, stage)) = Placed(stages) \cup {n + 1}
    BY <1>4 DEF Placed
  <2>2. n + 1 \notin Placed(stages)
    BY <1>2
  <2>3. Cardinality(Placed(stages) \cup {n + 1}) = Cardinality(Placed(stages)) + 1
    BY <1>2, <2>2, FS_AddElement
  <2> QED
    BY <1>4, <2>1, <2>3
<1>5. CASE stage # "placed"
  <2>1. Placed(Append(stages, stage)) = Placed(stages)
    BY <1>5 DEF Placed
  <2> QED
    BY <1>3, <1>5, <2>1
<1> QED
  BY <1>4, <1>5

\* What a call under way has recorded is a proper beginning of a story.
Begins(stages, story) ==
  /\ Len(story.stages) \in Nat
  /\ Len(stages) < Len(story.stages)
  /\ \A i \in DOMAIN stages : stages[i] = story.stages[i]

LEMMA Beginning ==
  ASSUME NEW c \in Callers, call \in [Callers -> Call], ProgressInv(c), Busy(c)
  PROVE  \E story \in Story(c) : Begins(call[c].stages, story)
<1> DEFINE k == call[c]
           n == Attempts(c)
           stages == k.stages
           L == Len(stages)
           a == k.attempt
<1>1. k.pc \in {"resolve", "move", "verify", "alert"} /\ k.verify \in BOOLEAN
  BY CallFields DEF Busy
<1>2. stages \in Seq(Stages) /\ a \in Nat /\ L \in Nat /\ DOMAIN stages = 1..L
  <2>1. k \in Call
    OBVIOUS
  <2>2. stages \in Seq(Stages) /\ a \in Nat
    BY <2>1, CallFields
  <2> HIDE DEF stages
  <2> QED
    BY <2>2
<1>3. n \in Nat \ {0} /\ (~k.verify => n = 1)
  BY AttemptsPositive
<1>4. /\ k.verify => \A j \in 1..n : Success(j) \in Story(c)
      /\ k.verify => Failure(n) \in Story(c)
      /\ ~k.verify => Unverified \in Story(c)
  BY Stories
\* By what the call has recorded: nothing, a part of an attempt's plan, or
\* all but the alert.
<1>5. \/ k.pc = "resolve" /\ L = 0
      \/ a \in 1..n /\ L <= 4 * a - 2 /\ \A i \in 1..L : stages[i] = Due(i)
      \/ /\ a \in 1..n /\ L = 4 * a - 1 /\ k.verify
         /\ \A i \in 1..(4 * a - 2) : stages[i] = Due(i)
         /\ stages[L] = "verified" \/ (stages[L] = "verify-failed" /\ a = n)
  <2>1. CASE k.pc = "resolve"
    BY <1>2, <2>1 DEF ProgressInv
  <2>2. k.pc # "resolve" => a \in 1..n
    BY <1>1 DEF ProgressInv
  <2>3. CASE k.pc = "move"
    <3>1. L = 4 * a - (IF k.step > 3 THEN 3 ELSE 4) /\ \A i \in 1..L : stages[i] = Due(i)
      BY <2>3 DEF ProgressInv
    <3>2. L <= 4 * a - 2
      BY <1>2, <3>1
    <3> QED
      BY <2>2, <2>3, <3>1, <3>2
  <2>4. CASE k.pc = "verify"
    <3>1. L = 4 * a - 2 /\ \A i \in 1..L : stages[i] = Due(i)
      BY <2>4 DEF ProgressInv
    <3> QED
      BY <1>2, <2>2, <2>4, <3>1
  <2>5. CASE k.pc = "alert" /\ k.verify
    <3>1. /\ L = 4 * a - 1 /\ \A i \in 1..(4 * a - 2) : stages[i] = Due(i)
          /\ stages[4 * a - 1] = "verified"
             \/ (stages[4 * a - 1] = "verify-failed" /\ a = n)
      BY <2>5 DEF ProgressInv
    <3> QED
      BY <2>2, <2>5, <3>1
  <2>6. CASE k.pc = "alert" /\ ~k.verify
    <3>1. L = 2 /\ \A i \in 1..(4 * a - 2) : stages[i] = Due(i)
      BY <2>6 DEF ProgressInv
    <3>2. a = 1
      BY <1>3, <2>2, <2>6
    <3> QED
      BY <2>2, <2>6, <3>1, <3>2
  <2> QED
    BY <1>1, <2>1, <2>3, <2>4, <2>5, <2>6
<1> HIDE DEF k, n, stages, L, a
<1>6. CASE L = 0
  <2>1. \A story : Len(story.stages) \in Nat \ {0} => Begins(stages, story)
    BY <1>2, <1>6 DEF Begins, L
  <2>2. Len(Success(1).stages) = 4 * 1
    <3>1. ASSUME NEW j \in Nat \ {0} PROVE Len(Success(j).stages) = 4 * j
      BY SuccessShape
    <3>2. 1 \in Nat \ {0}
      OBVIOUS
    <3> QED
      BY <3>1, <3>2
  <2>3. 4 * 1 \in Nat \ {0} /\ 3 \in Nat \ {0} /\ 1 \in 1..n
    BY <1>3
  <2>4. Begins(stages, Success(1)) /\ Begins(stages, Unverified)
    BY <2>1, <2>2, <2>3, UnverifiedShape
  <2>5. CASE k.verify
    BY <1>4, <2>3, <2>4, <2>5 DEF k, stages
  <2>6. CASE ~k.verify
    BY <1>4, <2>4, <2>6 DEF k, stages
  <2> QED
    BY <2>5, <2>6
<1>7. CASE a \in 1..n /\ L <= 4 * a - 2 /\ \A i \in 1..L : stages[i] = Due(i)
  <2>1. CASE k.verify
    <3>1. Begins(stages, Success(a))
      <4> DEFINE s == Success(a).stages
      <4>1. a \in Nat \ {0}
        BY <1>2, <1>3, <1>7
      <4>2. Len(s) = 4 * a /\ \A i \in 1..(4 * a - 2) : s[i] = Due(i)
        BY <4>1, SuccessShape
      <4>3. \A i \in 1..L : i \in 1..(4 * a - 2)
        BY <1>2, <1>7, <4>1
      <4>4. L < 4 * a /\ 4 * a \in Nat
        BY <1>2, <1>7, <4>1
      <4>5. /\ Len(s) \in Nat /\ Len(stages) < Len(s)
            /\ \A i \in DOMAIN stages : stages[i] = s[i]
        <5> HIDE DEF s
        <5> QED
          BY <1>2, <1>7, <4>2, <4>3, <4>4 DEF L
      <4> QED
        BY <4>5 DEF Begins
    <3> QED
      BY <1>4, <1>7, <2>1, <3>1 DEF k, stages
  <2>2. CASE ~k.verify
    <3>1. L <= 2
      BY <1>2, <1>3, <1>7, <2>2
    <3>2. \A i \in 1..L : i = 1 \/ i = 2
      BY <1>2, <3>1
    <3>3. Begins(stages, Unverified)
      BY <1>2, <1>7, <3>1, <3>2, UnverifiedShape DEF Begins, L
    <3> QED
      BY <1>4, <2>2, <3>3 DEF k, stages
  <2> QED
    BY <2>1, <2>2
<1>8. CASE /\ a \in 1..n /\ L = 4 * a - 1 /\ k.verify
           /\ \A i \in 1..(4 * a - 2) : stages[i] = Due(i)
           /\ stages[L] = "verified" \/ (stages[L] = "verify-failed" /\ a = n)
  <2>1. a \in Nat \ {0} /\ \A i \in 1..L : i \in 1..(4 * a - 2) \/ i = 4 * a - 1
    BY <1>2, <1>8
  <2>2. CASE stages[L] = "verified"
    <3>1. Begins(stages, Success(a))
      <4> DEFINE s == Success(a).stages
      <4>1. /\ Len(s) = 4 * a /\ s[4 * a - 1] = stages[L]
            /\ \A i \in 1..(4 * a - 2) : s[i] = Due(i)
        BY <2>1, <2>2, SuccessShape
      <4>2. L < 4 * a /\ 4 * a \in Nat
        BY <1>2, <1>8, <2>1
      <4>3. /\ Len(s) \in Nat /\ Len(stages) < Len(s)
            /\ \A i \in DOMAIN stages : stages[i] = s[i]
        <5> HIDE DEF s
        <5> QED
          BY <1>2, <1>8, <2>1, <4>1, <4>2 DEF L
      <4> QED
        BY <4>3 DEF Begins
    <3> QED
      BY <1>4, <1>8, <3>1 DEF k, stages
  <2>3. CASE stages[L] = "verify-failed" /\ a = n
    <3>1. Begins(stages, Failure(a))
      <4> DEFINE s == Failure(a).stages
      <4>1. /\ Len(s) = 4 * a /\ s[4 * a - 1] = stages[L]
            /\ \A i \in 1..(4 * a - 2) : s[i] = Due(i)
        BY <2>1, <2>3, FailureShape
      <4>2. L < 4 * a /\ 4 * a \in Nat
        BY <1>2, <1>8, <2>1
      <4>3. /\ Len(s) \in Nat /\ Len(stages) < Len(s)
            /\ \A i \in DOMAIN stages : stages[i] = s[i]
        <5> HIDE DEF s
        <5> QED
          BY <1>2, <1>8, <2>1, <4>1, <4>2 DEF L
      <4> QED
        BY <4>3 DEF Begins
    <3> QED
      BY <1>4, <1>8, <2>3, <3>1 DEF k, stages
  <2> QED
    BY <1>8, <2>2, <2>3
<1> QED
  BY <1>5, <1>6, <1>7, <1>8
---------------------------------------------------------------------------
(* The story goes on. *)

AlertsOK == alerts \in [Callers -> SUBSET {"order_fulfilled", "order_failed"}]

LEMMA SameStory ==
  ASSUME NEW c \in Callers, SameOrder(c)
  PROVE  Story(c)' = Story(c) /\ Attempts(c)' = Attempts(c)
<1>1. Attempts(c)' = Attempts(c)
  BY DEF SameOrder, Attempts
<1> QED
  BY <1>1 DEF SameOrder, Story

\* What does nothing to a call does nothing to its story.
LEMMA StoryUnchanged ==
  ASSUME NEW d \in Callers, StoryInv(d), AlertsOK',
         call'[d] = call[d], alerts'[d] = alerts[d]
  PROVE  StoryInv(d)'
<1>1. call'[d] = call[d]
  OBVIOUS
<1>2. Attempts(d)' = Attempts(d) /\ Story(d)' = Story(d)
  BY <1>1, SameStory DEF SameOrder
<1>3. ProgressInv(d)'
  BY <1>1, <1>2 DEF StoryInv, ProgressInv
<1>4. call[d].pc = "returned" => StagesTell(d)'
  BY <1>1, <1>2 DEF StoryInv, StagesTell
<1>5. call[d].pc = "returned" => AlertTells(d)'
  BY <1>1 DEF StoryInv, AlertTells, RaisedLate, AlertKind, Verified
<1>6. /\ call[d].pc # "idle" => call[d].attempts = Cardinality(Placed(call[d].stages))
      /\ Busy(d) => alerts[d] = {} /\ call[d].alert = "none"
  BY DEF StoryInv
<1> HIDE DEF Placed
<1> QED
  BY <1>1, <1>3, <1>4, <1>5, <1>6 DEF StoryInv, AlertsOK, Busy

\* A step of one call is none of another's story.
LEMMA OtherStory ==
  ASSUME NEW c \in Callers, NEW d \in Callers \ {c}, Local(c), StoryInv(d),
         AlertsOK', alerts'[d] = alerts[d]
  PROVE  StoryInv(d)'
BY StoryUnchanged DEF Local

LEMMA NothingPlaced == Cardinality(Placed(<<>>)) = 0
<1>1. Placed(<<>>) = {}
  BY DEF Placed
<1> QED
  BY <1>1, FS_EmptySet

LEMMA StartStory ==
  ASSUME NEW c \in Callers, call \in [Callers -> Call], AlertsOK,
         NEW o \in Orders, NEW v \in BOOLEAN, StartWith(c, o, v)
  PROVE  StoryInv(c)'
<1>1. /\ Local(c) /\ call'[c].pc = "resolve" /\ call'[c].step = 1
      /\ call'[c].stages = <<>> /\ call'[c].attempts = 0
      /\ call'[c].alert = "none"
  BY StartCall
<1>2. AlertsOK' /\ alerts'[c] = {}
  BY DEF StartWith, AlertsOK
<1>3. call'[c].attempts = Cardinality(Placed(call'[c].stages))
  BY <1>1, NothingPlaced
<1>4. ProgressInv(c)'
  BY <1>1 DEF ProgressInv
<1> QED
  BY <1>1, <1>2, <1>3, <1>4 DEF StoryInv, AlertsOK, Busy

LEMMA NoCallStory ==
  ASSUME NEW c \in Callers, call'[c] = NoCall, AlertsOK'
  PROVE  StoryInv(c)'
BY DEF StoryInv, AlertsOK, Busy, ProgressInv, NoCall

\* When the outcome is to be announced the last stage says what it is.
LEMMA LastStage ==
  ASSUME NEW c \in Callers, call \in [Callers -> Call], StoryInv(c),
         call[c].pc = "alert"
  PROVE  LET s == call[c].stages
         IN /\ s # <<>>
            /\ s[Len(s)] = IF ~call[c].verify THEN "placed"
                          ELSE IF Verified(c) THEN "verified" ELSE "verify-failed"
<1> DEFINE k == call[c]
           s == k.stages
           a == k.attempt
<1>1. k.verify \in BOOLEAN /\ a \in Nat /\ s \in Seq(Stages)
  <2>1. k \in Call
    OBVIOUS
  <2> QED
    BY <2>1, CallFields
<1>2. /\ a \in 1..Attempts(c) /\ \A i \in 1..(4 * a - 2) : s[i] = Due(i)
      /\ ~k.verify => Len(s) = 2
      /\ k.verify =>
           /\ Len(s) = 4 * a - 1
           /\ \/ k.verification = "ok" /\ s[4 * a - 1] = "verified"
              \/ k.verification = "not ok" /\ s[4 * a - 1] = "verify-failed"
  BY DEF StoryInv, ProgressInv
<1>3. Attempts(c) \in Nat \ {0} /\ (~k.verify => Attempts(c) = 1)
  BY AttemptsPositive
<1>4. Verified(c) <=> (k.verify => k.verification = "ok")
  BY DEF Verified
<1> HIDE DEF k, s, a
<1>5. CASE k.verify
  <2>1. a \in Nat \ {0}
    <3>1. a \in 1..Attempts(c)
      BY <1>2
    <3> QED
      BY <1>1, <1>3, <3>1
  <2>2. 4 * a - 1 > 0 /\ Len(s) = 4 * a - 1
    <3>1. Len(s) = 4 * a - 1
      BY <1>2, <1>5
    <3> QED
      BY <2>1, <3>1
  <2>3. s # <<>>
    BY <1>1, <2>1, <2>2
  <2>4. s[Len(s)] = IF Verified(c) THEN "verified" ELSE "verify-failed"
    BY <1>2, <1>4, <1>5, <2>2
  <2> QED
    BY <1>5, <2>3, <2>4 DEF k, s
<1>6. CASE ~k.verify
  <2>1. a = 1 /\ Len(s) = 2
    <3>1. Attempts(c) = 1 /\ a \in 1..Attempts(c) /\ Len(s) = 2
      BY <1>2, <1>3, <1>6
    <3> QED
      BY <1>1, <3>1
  <2>2. s[2] = Due(2)
    BY <1>2, <2>1
  <2>3. Due(2) = "placed"
    BY DueStages, 0 \in Nat
  <2> QED
    BY <1>1, <1>6, <2>1, <2>2, <2>3 DEF k, s
<1> QED
  BY <1>1, <1>5, <1>6

\* An error leaves the beginning of a story, whatever the platform took.
LEMMA FailStory ==
  ASSUME NEW c \in Callers, call \in [Callers -> Call], StoryInv(c), Busy(c),
         Fail(c), AlertsOK',
         \/ alerts'[c] = {}
         \/ alerts'[c] = {AlertKind(c)} /\ call[c].pc = "alert"
  PROVE  StoryInv(c)'
<1> DEFINE k == call[c]
           l == call'[c]
<1>1. /\ SameOrder(c) /\ l.stages = k.stages /\ l.attempts = k.attempts
      /\ l.alert = "none" /\ l.pc = "returned" /\ l.status = "failed"
      /\ l.verification = k.verification
  BY FailCall DEF SameResult, StoryInv
<1>2. k.attempts = Cardinality(Placed(k.stages))
  BY DEF StoryInv, Busy
<1>3. PICK story \in Story(c) : Begins(k.stages, story)
  BY Beginning DEF StoryInv
<1>4. k.stages \in Seq(Stages)
  <2>1. k \in Call
    OBVIOUS
  <2> QED
    BY <2>1, CallFields
<1>5. Story(c)' = Story(c)
  BY <1>1, SameStory
<1> HIDE DEF k, l
<1>6. StagesTell(c)'
  <2>1. /\ Len(k.stages) < Len(story.stages) /\ k.stages # story.stages
        /\ \A i \in DOMAIN k.stages : k.stages[i] = story.stages[i]
    <3>1. Len(k.stages) \in Nat
      BY <1>4
    <3> QED
      BY <1>3, <3>1 DEF Begins
  <2>2. Len(k.stages) <= Len(story.stages)
    <3>1. Len(k.stages) \in Nat /\ Len(story.stages) \in Nat
      BY <1>3, <1>4 DEF Begins
    <3> QED
      BY <2>1, <3>1
  <2> QED
    BY <1>1, <1>2, <1>3, <1>5, <2>1, <2>2 DEF StagesTell, Placed, l
<1>7. AlertTells(c)'
  <2>1. Cardinality(alerts'[c]) <= 1
    BY FS_EmptySet, FS_Singleton
  <2>2. CASE alerts'[c] = {}
    BY <1>1, <2>1, <2>2 DEF AlertTells, RaisedLate, l
  <2>3. CASE alerts'[c] = {AlertKind(c)} /\ call[c].pc = "alert"
    <3>1. AlertKind(c)' = AlertKind(c) /\ Verified(c)' = Verified(c)
      BY <1>1 DEF AlertKind, Verified, SameOrder, k, l
    <3>2. /\ k.stages # <<>>
          /\ k.stages[Len(k.stages)] =
               IF ~k.verify THEN "placed"
               ELSE IF Verified(c) THEN "verified" ELSE "verify-failed"
      BY <2>3, LastStage DEF k
    <3> QED
      BY <1>1, <2>1, <2>3, <3>1, <3>2 DEF AlertTells, RaisedLate, SameOrder, k, l
  <2> QED
    BY <2>2, <2>3
<1> QED
  BY <1>1, <1>2, <1>6, <1>7 DEF StoryInv, AlertsOK, Busy, ProgressInv, l

LEMMA ResolveStory ==
  ASSUME NEW c \in Callers, call \in [Callers -> Call], StoryInv(c),
         call[c].pc = "resolve",
         NEW source \in {"hardcoded", "perceived"}, NEW item \in Items,
         NEW aim \in Aims, ResolveAs(c, source, item, aim)
  PROVE  StoryInv(c)'
<1> DEFINE k == call[c]
           l == call'[c]
<1>1. /\ SameOrder(c) /\ l.stages = k.stages /\ l.attempts = k.attempts
      /\ l.alert = k.alert /\ l.pc = "move" /\ l.attempt = 1 /\ l.step = k.step
  BY ResolveCall DEF SameResult
<1>2. /\ k.attempts = Cardinality(Placed(k.stages)) /\ k.stages = <<>>
      /\ k.step = 1 /\ alerts[c] = {} /\ k.alert = "none"
  BY DEF StoryInv, Busy, ProgressInv
<1>3. alerts' = alerts
  BY DEF ResolveAs
<1>4. k.attempts = 0
  BY <1>2, NothingPlaced
<1>5. Attempts(c)' = Attempts(c) /\ Attempts(c) \in Nat \ {0}
  BY <1>1, SameStory, AttemptsPositive
<1> HIDE DEF k
<1>6. ProgressInv(c)'
  BY <1>1, <1>2, <1>4, <1>5 DEF ProgressInv, l
<1> QED
  BY <1>1, <1>2, <1>3, <1>6 DEF StoryInv, Busy, l

LEMMA MoveStory ==
  ASSUME NEW c \in Callers, call \in [Callers -> Call], StoryInv(c), Move(c)
  PROVE  StoryInv(c)'
<1> DEFINE k == call[c]
           l == call'[c]
           a == k.attempt
           s == k.stages
           t == l.stages
<1>1. /\ SameOrder(c)
      /\ l.step = IF k.step = 6 THEN 1 ELSE k.step + 1
      /\ l.pc = IF k.step < 6 THEN "move" ELSE IF k.verify THEN "verify" ELSE "alert"
      /\ t = StagesAfter(k)
      /\ l.attempts = IF k.step = 6 THEN a ELSE k.attempts
      /\ l.attempt = a /\ l.alert = k.alert /\ l.verify = k.verify
  BY MoveCall DEF SameOrder
<1>2. k.pc = "move" /\ alerts' = alerts
  BY DEF Move
<1>3. /\ s \in Seq(Stages) /\ a \in Nat /\ k.step \in 1..6 /\ k.verify \in BOOLEAN
  <2>1. k \in Call
    OBVIOUS
  <2> QED
    BY <2>1, CallFields
<1>4. /\ k.attempts = Cardinality(Placed(s)) /\ alerts[c] = {} /\ k.alert = "none"
      /\ a \in 1..Attempts(c) /\ k.attempts = a - 1
      /\ Len(s) = 4 * a - (IF k.step > 3 THEN 3 ELSE 4)
      /\ \A i \in 1..Len(s) : s[i] = Due(i)
  BY <1>2 DEF StoryInv, Busy, ProgressInv
<1>5. /\ Attempts(c)' = Attempts(c) /\ Attempts(c) \in Nat \ {0}
      /\ ~k.verify => Attempts(c) = 1
  BY <1>1, SameStory, AttemptsPositive
<1> DEFINE n == a - 1
<1>6. n \in Nat /\ a = n + 1
  BY <1>3, <1>4, <1>5
<1>7. Due(4 * n + 1) = "picked" /\ Due(4 * n + 2) = "placed"
  BY <1>6, DueStages
<1>8. CASE k.step = 3
  <2>1. t = Append(s, "picked") /\ Len(s) = 4 * n
    BY <1>1, <1>4, <1>6, <1>8 DEF StagesAfter
  <2> HIDE DEF l, t, s, a, n, k
  <2>2. /\ Len(t) = 4 * n + 1 /\ \A i \in 1..Len(s) : t[i] = s[i]
        /\ t[4 * n + 1] = "picked"
    BY <1>3, <1>6, <2>1, KnownStages, StageRecorded
  <2>3. \A i \in 1..Len(t) : t[i] = Due(i)
    BY <1>4, <1>6, <1>7, <2>1, <2>2
  <2>4. Cardinality(Placed(t)) = Cardinality(Placed(s))
    <3>1. "picked" \in Stages /\ "picked" # "placed"
      BY KnownStages
    <3>2. Cardinality(Placed(s)) \in Nat
      BY <1>4, <1>6 DEF n, a, s
    <3> QED
      BY <1>3, <2>1, <3>1, <3>2, PlacedCounted
  <2>5. /\ l.pc = "move" /\ l.step = 4 /\ l.attempts = k.attempts
        /\ Len(t) = 4 * a - 3
    BY <1>1, <1>6, <1>8, <2>2
  <2>6. /\ l.pc = "move" /\ l.step = 4 /\ l.attempt \in 1..Attempts(c)'
        /\ Len(t) = 4 * l.attempt - (IF l.step > 3 THEN 3 ELSE 4)
        /\ l.attempts = l.attempt - 1
    BY <1>1, <1>4, <1>5, <2>5
  <2>7. Len(t) >= Len(t)
    BY <1>6, <2>2
  <2>8. ProgressInv(c)'
    BY <2>3, <2>6, <2>7 DEF ProgressInv, l, t
  <2> QED
    BY <1>1, <1>2, <1>4, <2>4, <2>5, <2>8 DEF StoryInv, Busy, l, t
<1>9. CASE k.step = 6
  <2>1. t = Append(s, "placed") /\ Len(s) = 4 * n + 1
    BY <1>1, <1>4, <1>6, <1>9 DEF StagesAfter
  <2> HIDE DEF l, t, s, a, n, k
  <2>2. /\ Len(t) = 4 * n + 2 /\ \A i \in 1..Len(s) : t[i] = s[i]
        /\ t[4 * n + 2] = "placed"
    <3>1. "placed" \in Stages
      BY KnownStages
    <3>2. /\ Len(t) = Len(s) + 1 /\ \A i \in 1..Len(s) : t[i] = s[i]
          /\ t[Len(s) + 1] = "placed"
      BY <1>3, <2>1, <3>1, StageRecorded
    <3>3. Len(s) + 1 = 4 * n + 2
      BY <1>6, <2>1
    <3> QED
      BY <3>2, <3>3
  <2>3. \A i \in 1..Len(t) : t[i] = Due(i)
    BY <1>4, <1>6, <1>7, <2>1, <2>2
  <2>4. Cardinality(Placed(t)) = a
    <3>1. "placed" \in Stages
      BY KnownStages
    <3>2. Cardinality(Placed(s)) = n
      BY <1>4, <1>6 DEF n, a, s
    <3> QED
      BY <1>3, <1>6, <2>1, <3>1, <3>2, PlacedCounted
  <2>5. /\ l.pc = (IF k.verify THEN "verify" ELSE "alert") /\ l.step = 1
        /\ l.attempts = a /\ Len(t) = 4 * a - 2
    BY <1>1, <1>6, <1>9, <2>2
  <2>6. ~k.verify => Len(t) = 2
    BY <1>4, <1>5, <1>6, <2>2
  <2>7. ProgressInv(c)'
    <3> DEFINE m == 4 * l.attempt - 2
    <3>0. /\ l.attempt \in 1..Attempts(c)' /\ Len(t) = m /\ Len(t) >= m
          /\ l.attempts = l.attempt /\ l.verify = k.verify /\ l.step = 1
          /\ \A i \in 1..m : t[i] = Due(i)
      BY <1>1, <1>4, <1>5, <1>6, <2>2, <2>3, <2>5
    <3>1. CASE k.verify
      BY <2>5, <3>0, <3>1 DEF ProgressInv, l, t
    <3>2. CASE ~k.verify
      BY <2>5, <2>6, <3>0, <3>2 DEF ProgressInv, l, t
    <3> QED
      BY <3>1, <3>2
  <2> QED
    BY <1>1, <1>2, <1>4, <2>4, <2>5, <2>7 DEF StoryInv, Busy, l, t
<1>10. CASE k.step \notin {3, 6}
  <2>1. t = s /\ l.attempts = k.attempts /\ l.pc = "move" /\ l.step = k.step + 1
    BY <1>1, <1>3, <1>10 DEF StagesAfter
  <2> HIDE DEF l, t, s, a, n, k
  <2>2. Len(t) = 4 * a - (IF l.step > 3 THEN 3 ELSE 4)
    BY <1>3, <1>4, <1>10, <2>1
  <2>3. /\ l.attempt \in 1..Attempts(c)' /\ l.attempts = l.attempt - 1
        /\ Len(t) = 4 * l.attempt - (IF l.step > 3 THEN 3 ELSE 4)
        /\ Len(t) >= Len(t) /\ \A i \in 1..Len(t) : t[i] = Due(i)
    BY <1>1, <1>3, <1>4, <1>5, <2>1, <2>2
  <2>4. ProgressInv(c)'
    BY <2>1, <2>3 DEF ProgressInv, l, t
  <2> QED
    BY <1>1, <1>2, <1>4, <2>1, <2>4 DEF StoryInv, Busy, l, t
<1> QED
  BY <1>8, <1>9, <1>10

LEMMA VerifyStory ==
  ASSUME NEW c \in Callers, call \in [Callers -> Call], StoryInv(c),
         call[c].pc = "verify", NEW item \in Items \cup {None},
         VerifyAs(c, item)
  PROVE  StoryInv(c)'
<1> DEFINE k == call[c]
           l == call'[c]
           a == k.attempt
           s == k.stages
           t == l.stages
           n == a - 1
<1>1. /\ SameOrder(c) /\ l.verify = k.verify
      /\ l.attempts = k.attempts /\ l.alert = k.alert /\ l.step = k.step
      /\ Passes(c, item) \/ Retries(c, item) \/ GivesUp(c, item)
  BY VerifyCall DEF SameOrder
<1>2. alerts' = alerts
  BY DEF VerifyAs
<1>3. s \in Seq(Stages) /\ a \in Nat
  <2>1. k \in Call
    OBVIOUS
  <2> QED
    BY <2>1, CallFields
<1>4. /\ k.attempts = Cardinality(Placed(s)) /\ alerts[c] = {} /\ k.alert = "none"
      /\ k.verify /\ k.step = 1 /\ a \in 1..Attempts(c) /\ k.attempts = a
      /\ Len(s) = 4 * a - 2 /\ \A i \in 1..Len(s) : s[i] = Due(i)
  BY DEF StoryInv, Busy, ProgressInv
<1>5. Attempts(c)' = Attempts(c) /\ Attempts(c) \in Nat \ {0}
  BY <1>1, SameStory, AttemptsPositive
<1>6. n \in Nat /\ a = n + 1
  BY <1>3, <1>4, <1>5
<1>7. Due(4 * n + 3) = "verify-failed" /\ Due(4 * n + 4) = "retried"
  BY <1>6, DueStages
<1> HIDE DEF n
\* Whatever is recorded, it is no placing.
<1>8. ASSUME NEW u \in Seq(Stages), NEW e \in Stages, e # "placed",
             Cardinality(Placed(u)) = a
      PROVE  Append(u, e) \in Seq(Stages) /\ Cardinality(Placed(Append(u, e))) = a
  <2>1. Append(u, e) \in Seq(Stages)
    BY StageRecorded
  <2> HIDE DEF a
  <2> QED
    BY <1>3, <1>8, <2>1, PlacedCounted
<1>9. ASSUME NEW e \in {"verified", "verify-failed"}, t = Append(s, e),
             l.pc = "alert", l.attempt = a,
             \/ e = "verified" /\ l.verification = "ok"
             \/ e = "verify-failed" /\ l.verification = "not ok" /\ a = Attempts(c)
      PROVE  StoryInv(c)'
  <2>0. e \in Stages /\ e # "placed"
    BY KnownStages
  <2> HIDE DEF k, l, s, t, a
  <2>1. /\ Len(t) = Len(s) + 1 /\ \A i \in 1..Len(s) : t[i] = s[i]
        /\ t[Len(s) + 1] = e
    BY <1>3, <1>9, <2>0, StageRecorded
  <2>2. Cardinality(Placed(t)) = a
    BY <1>3, <1>4, <1>8, <1>9, <2>0
  <2> DEFINE m == 4 * l.attempt - 2
             p == 4 * l.attempt - 1
  <2>3. /\ l.attempt \in 1..Attempts(c)' /\ l.attempts = l.attempt /\ l.verify
        /\ Len(t) = p /\ Len(t) >= m /\ \A i \in 1..m : t[i] = Due(i)
        /\ t[p] = e
    <3>1. l.attempt = a /\ l.attempts = a /\ l.verify /\ a \in 1..Attempts(c)
      BY <1>1, <1>4, <1>9
    <3>2. Len(s) = m /\ Len(s) + 1 = p /\ m \in Nat /\ p >= m
      BY <1>3, <1>4, <1>5, <3>1
    <3>3. \A i \in 1..m : t[i] = Due(i)
      BY <1>4, <2>1, <3>2
    <3> HIDE DEF m, p
    <3> QED
      BY <1>5, <2>1, <3>1, <3>2, <3>3
  <2>4. \/ l.verification = "ok" /\ t[p] = "verified"
        \/ l.verification = "not ok" /\ l.attempt = Attempts(c)' /\ t[p] = "verify-failed"
    BY <1>5, <1>9, <2>3
  <2>5. ProgressInv(c)'
    BY <1>9, <2>3, <2>4 DEF ProgressInv, l, t
  <2> QED
    BY <1>1, <1>2, <1>4, <1>9, <2>2, <2>5 DEF StoryInv, Busy, l, t
<1>10. CASE Passes(c, item)
  BY <1>9, <1>10 DEF Passes
<1>11. CASE Retries(c, item)
  <2>1. /\ l.pc = "move" /\ l.attempt = a + 1 /\ a < Attempts(c)
        /\ t = Append(Append(s, "verify-failed"), "retried")
    BY <1>11 DEF Retries, MayRetry
  <2> DEFINE u == Append(s, "verify-failed")
  <2>2. "verify-failed" \in Stages /\ "retried" \in Stages
    BY KnownStages
  <2>3. /\ u \in Seq(Stages) /\ Len(u) = Len(s) + 1
        /\ \A i \in 1..Len(s) : u[i] = s[i]
        /\ u[Len(s) + 1] = "verify-failed"
    BY <1>3, <2>2, StageRecorded
  <2>4. Cardinality(Placed(u)) = a
    BY <1>3, <1>4, <1>8, <2>2
  <2>5. t = Append(u, "retried")
    BY <2>1
  <2> HIDE DEF k, l, s, t, a, u
  <2>6. /\ Len(t) = Len(u) + 1 /\ \A i \in 1..Len(u) : t[i] = u[i]
        /\ t[Len(u) + 1] = "retried"
    BY <2>2, <2>3, <2>5, StageRecorded
  <2>7. Cardinality(Placed(t)) = a
    BY <1>8, <2>2, <2>3, <2>4, <2>5
  <2>8. Len(u) = 4 * n + 3 /\ Len(t) = 4 * n + 4 /\ a + 1 = n + 2
    BY <1>4, <1>6, <2>3, <2>6
  <2>9. \A i \in 1..Len(t) : t[i] = Due(i)
    <3>1. \A i \in 1..Len(u) : u[i] = Due(i)
      BY <1>4, <1>6, <1>7, <2>3
    <3> QED
      BY <1>6, <1>7, <2>6, <2>8, <3>1
  <2>10. /\ l.attempt \in 1..Attempts(c)' /\ l.attempts = l.attempt - 1
         /\ Len(t) = 4 * l.attempt - (IF l.step > 3 THEN 3 ELSE 4)
         /\ Len(t) >= Len(t)
    <3>1. l.attempts = a /\ l.step = 1 /\ a \in 1..Attempts(c)
      BY <1>1, <1>4
    <3> QED
      BY <1>5, <1>6, <2>1, <2>8, <3>1
  <2>11. ProgressInv(c)'
    BY <2>1, <2>9, <2>10 DEF ProgressInv, l, t
  <2> QED
    BY <1>1, <1>2, <1>4, <2>1, <2>7, <2>11 DEF StoryInv, Busy, l, t
<1>12. CASE GivesUp(c, item)
  <2>1. a = Attempts(c)
    <3>1. ~(a < Attempts(c))
      BY <1>12 DEF GivesUp, MayRetry
    <3>2. a \in 1..Attempts(c)
      BY <1>4
    <3> HIDE DEF a
    <3> QED
      BY <1>3, <1>5, <3>1, <3>2
  <2> QED
    BY <1>9, <1>12, <2>1 DEF GivesUp
<1> QED
  BY <1>1, <1>10, <1>11, <1>12

\* The alert ends a story.
LEMMA AlertStory ==
  ASSUME NEW c \in Callers, call \in [Callers -> Call], StoryInv(c), Alert(c)
  PROVE  StoryInv(c)'
<1> DEFINE k == call[c]
           l == call'[c]
           a == k.attempt
           s == k.stages
           t == l.stages
<1>1. /\ SameOrder(c) /\ l.verify = k.verify
      /\ l.pc = "returned" /\ l.alert = AlertKind(c) /\ t = Append(s, "alerted")
      /\ l.status = IF Verified(c) THEN "fulfilled" ELSE "failed"
      /\ l.attempts = k.attempts
  BY AlertCall DEF SameOrder
<1>2. k.pc = "alert" /\ alerts' = [alerts EXCEPT ![c] = @ \cup {AlertKind(c)}]
  BY DEF Alert
<1>3. s \in Seq(Stages) /\ a \in Nat /\ k.verify \in BOOLEAN
  <2>1. k \in Call
    OBVIOUS
  <2> QED
    BY <2>1, CallFields
<1>4. /\ k.attempts = Cardinality(Placed(s)) /\ k.attempts = a
      /\ alerts[c] = {} /\ k.alert = "none" /\ AlertsOK
  BY <1>2 DEF StoryInv, Busy, ProgressInv, AlertsOK
<1>5. a \in 1..Attempts(c) /\ \A i \in 1..(4 * a - 2) : s[i] = Due(i)
  BY <1>2 DEF StoryInv, ProgressInv
<1>6. ~k.verify => Len(s) = 2
  BY <1>2 DEF StoryInv, ProgressInv
<1>7. k.verify =>
         /\ Len(s) = 4 * a - 1
         /\ \/ k.verification = "ok" /\ s[4 * a - 1] = "verified"
            \/ /\ k.verification = "not ok" /\ a = Attempts(c)
               /\ s[4 * a - 1] = "verify-failed"
  BY <1>2 DEF StoryInv, ProgressInv
<1>8. /\ Story(c)' = Story(c) /\ Attempts(c) \in Nat \ {0}
      /\ ~k.verify => Attempts(c) = 1
  BY <1>1, SameStory, AttemptsPositive
<1>9. /\ alerts'[c] = {AlertKind(c)} /\ AlertsOK'
      /\ AlertKind(c) \in {"order_fulfilled", "order_failed"}
      /\ AlertKind(c) = "order_fulfilled" <=> l.status = "fulfilled"
  BY <1>1, <1>2, <1>4 DEF AlertKind, AlertsOK
<1>10. Verified(c) <=> (k.verify => k.verification = "ok")
  BY DEF Verified
<1>11. AlertTells(c)'
  <2>1. Cardinality(alerts'[c]) = 1
    BY <1>9, FS_Singleton
  <2> HIDE DEF k, l
  <2> QED
    BY <1>1, <1>9, <2>1 DEF AlertTells, RaisedLate, l
<1> HIDE DEF k, l, s, t, a
<1>12. /\ t \in Seq(Stages) /\ Len(t) = Len(s) + 1
      /\ \A i \in 1..Len(s) : t[i] = s[i]
      /\ t[Len(s) + 1] = "alerted"
  BY <1>1, <1>3, KnownStages, StageRecorded
<1>13. Cardinality(Placed(t)) = a
  <2>1. "alerted" \in Stages /\ "alerted" # "placed"
    BY KnownStages
  <2>2. Cardinality(Placed(Append(s, "alerted"))) = Cardinality(Placed(s)) + 0
    BY <1>3, <2>1, PlacedCounted
  <2> QED
    BY <1>1, <1>3, <1>4, <2>2
<1>14. a \in Nat \ {0} /\ 4 * a - 1 = (4 * a - 2) + 1 /\ 4 * a = (4 * a - 1) + 1
      /\ 4 * a - 2 \in Nat
  <2>1. a \in 1..Attempts(c)
    BY <1>5
  <2> QED
    BY <1>3, <1>8, <2>1
\* A story with the same stages is the one told.
<1>15. ASSUME NEW story, story \in Story(c), story.stages = t,
              story.attempts = a, story.status = l.status
       PROVE  StagesTell(c)'
  <2>1. l.attempts = a /\ l.attempts = Cardinality(Placed(t))
    BY <1>1, <1>4, <1>13
  <2>2. Len(t) <= Len(t)
    BY <1>12
  <2> QED
    BY <1>8, <1>15, <2>1, <2>2 DEF StagesTell, Placed, l, t
<1>16. StagesTell(c)'
  <2>1. CASE k.verify
    <3>0. Len(s) = 4 * a - 1 /\ \A i \in 1..(4 * a - 2) : s[i] = Due(i)
      BY <2>1, <1>5, <1>7
    <3>1. Len(t) = 4 * a
      BY <1>12, <1>14, <3>0
    <3>2. \A i \in 1..(4 * a - 2) : t[i] = Due(i)
      BY <1>12, <1>14, <3>0
    <3>3. t[4 * a - 1] = s[4 * a - 1] /\ t[4 * a] = "alerted"
      BY <1>12, <1>14, <3>0
    <3>4. \A i \in 1..(4 * a) : i \in 1..(4 * a - 2) \/ i = 4 * a - 1 \/ i = 4 * a
      BY <1>14
    <3>5. CASE k.verification = "ok" /\ s[4 * a - 1] = "verified"
      <4> DEFINE u == Success(a).stages
      <4>1. /\ u \in Seq(Stages) /\ Len(u) = 4 * a
            /\ \A i \in 1..(4 * a - 2) : u[i] = Due(i)
            /\ u[4 * a - 1] = "verified" /\ u[4 * a] = "alerted"
        BY <1>14, SuccessShape
      <4>2. u = t
        <5> HIDE DEF u
        <5>1. \A i \in 1..Len(u) : u[i] = t[i]
          BY <3>2, <3>3, <3>4, <3>5, <4>1
        <5> QED
          BY <1>12, <3>1, <4>1, <5>1, SeqEqual
      <4>3. Success(a) \in Story(c)
        BY <2>1, <1>5, Stories DEF k
      <4>4. Success(a).attempts = a /\ Success(a).status = "fulfilled"
        BY DEF Success
      <4>5. l.status = "fulfilled"
        BY <1>1, <1>10, <3>5
      <4> QED
        BY <1>15, <4>2, <4>3, <4>4, <4>5
    <3>6. CASE /\ k.verification = "not ok" /\ a = Attempts(c)
               /\ s[4 * a - 1] = "verify-failed"
      <4> DEFINE u == Failure(a).stages
      <4>1. /\ u \in Seq(Stages) /\ Len(u) = 4 * a
            /\ \A i \in 1..(4 * a - 2) : u[i] = Due(i)
            /\ u[4 * a - 1] = "verify-failed" /\ u[4 * a] = "alerted"
        BY <1>14, FailureShape
      <4>2. u = t
        <5> HIDE DEF u
        <5>1. \A i \in 1..Len(u) : u[i] = t[i]
          BY <3>2, <3>3, <3>4, <3>6, <4>1
        <5> QED
          BY <1>12, <3>1, <4>1, <5>1, SeqEqual
      <4>3. Failure(a) \in Story(c)
        BY <2>1, <3>6, Stories DEF k
      <4>4. Failure(a).attempts = a /\ Failure(a).status = "failed"
        BY DEF Failure
      <4>5. l.status = "failed"
        BY <1>1, <1>10, <2>1, <3>6
      <4> QED
        BY <1>15, <4>2, <4>3, <4>4, <4>5
    <3> QED
      BY <2>1, <1>7, <3>5, <3>6
  <2>2. CASE ~k.verify
    <3> DEFINE u == Unverified.stages
    <3>0. a \in 1..Attempts(c) /\ Len(s) = 2 /\ \A i \in 1..(4 * a - 2) : s[i] = Due(i)
      BY <2>2, <1>5, <1>6
    <3>1. a = 1 /\ Len(t) = 3 /\ l.status = "fulfilled"
      BY <1>1, <1>8, <1>10, <1>12, <2>2, <3>0
    <3>2. t[1] = Due(1) /\ t[2] = Due(2) /\ t[3] = "alerted"
      BY <1>12, <3>0, <3>1
    <3>3. u = t
      <4>1. /\ u \in Seq(Stages) /\ Len(u) = 3
            /\ u[1] = Due(1) /\ u[2] = Due(2) /\ u[3] = "alerted"
        BY UnverifiedShape
      <4> HIDE DEF u
      <4>2. \A i \in 1..Len(u) : u[i] = t[i]
        BY <3>2, <4>1
      <4> QED
        BY <1>12, <3>1, <4>1, <4>2, SeqEqual
    <3>4. Unverified \in Story(c) /\ Unverified.attempts = 1 /\ Unverified.status = "fulfilled"
      BY <2>2, Stories DEF k, Unverified
    <3> QED
      BY <1>15, <3>1, <3>3, <3>4
  <2> QED
    BY <1>3, <2>1, <2>2
<1> QED
  BY <1>1, <1>4, <1>9, <1>11, <1>13, <1>16 DEF StoryInv, AlertsOK, Busy, ProgressInv, l, t
---------------------------------------------------------------------------
(* Any number of callers, with one arm between them. *)

\* The order a call is for is one; once it moves its bin is known, and what
\* its plan goes for is an item.
OrderInv(c) ==
  /\ call[c].pc # "idle" => call[c].order \in Orders
  /\ call[c].pc \in {"move", "verify"} =>
       call[c].order.bin \in Bins /\ call[c].target \in Items

LEMMA EffectTypes ==
  ASSUME NEW c \in Callers, CellInv, OrderInv(c), call[c].pc = "move",
         Effect(c, Moves[call[c].step]) \/ UNCHANGED <<held, where>>
  PROVE  /\ where' \in [Items -> {"spot", "astray", "held"} \cup Bins]
         /\ held' \in Items \cup {None}
         /\ \A i \in Items : where'[i] = "held" <=> held' = i
<1> DEFINE k == call[c]
           m == Moves[k.step]
           o == k.order
           t == k.target
<1>1. k.aim \in Aims /\ t \in Items /\ o.bin \in Bins
  <2>1. k \in Call
    BY DEF CellInv
  <2> QED
    BY <2>1, CallFields DEF OrderInv
<1>2. CASE UNCHANGED <<held, where>>
  BY <1>2 DEF CellInv
<1>3. CASE held # None /\ Drop
  BY <1>3, CellAssumption DEF CellInv, Drop
<1>4. CASE /\ held = None
           /\ held' = t /\ where' = [where EXCEPT ![t] = "held"]
  BY <1>1, <1>4, CellAssumption DEF CellInv
<1>5. CASE /\ held = None
           /\ held' = held /\ where' = [where EXCEPT ![t] = "astray"]
  BY <1>1, <1>5, CellAssumption DEF CellInv
<1>6. CASE held # None /\ held' = None /\ where' = [where EXCEPT ![held] = o.bin]
  BY <1>1, <1>6, CellAssumption DEF CellInv
<1> QED
  BY <1>2, <1>3, <1>4, <1>5, <1>6 DEF Effect

\* What a resolver may say.
LEMMA ResolveKnown ==
  ASSUME NEW c \in Callers, CellInv, call[c].order \in Orders, Resolve(c)
  PROVE  \E source \in {"hardcoded", "perceived"}, item \in Items, aim \in Aims :
           ResolveAs(c, source, item, aim)
<1>1. CASE ResolveAs(c, "hardcoded", call[c].order.item, "spot")
  <2>1. call[c].order.item \in Items /\ "spot" \in Aims
    BY CellAssumption DEF Aims
  <2> QED
    BY <1>1, <2>1
<1>2. ASSUME NEW i \in Items, where[i] # "held", ResolveAs(c, "perceived", i, where[i])
      PROVE  \E source \in {"hardcoded", "perceived"}, item \in Items, aim \in Aims :
               ResolveAs(c, source, item, aim)
  <2>1. where[i] \in Aims
    BY <1>2 DEF CellInv, Aims
  <2> QED
    BY <1>2, <2>1
<1> QED
  BY <1>1, <1>2 DEF Resolve

\* What a step of one call does to it.
StepDone(c) ==
  /\ Local(c)
  /\ StoryInv(c)'
  /\ OrderInv(c)'
  /\ \A d \in Callers \ {c} : alerts'[d] = alerts[d]

LEMMA StepKeepsStory ==
  ASSUME NEW c \in Callers, CellInv, StoryInv(c), OrderInv(c), Step(c)
  PROVE  /\ StepDone(c) /\ AlertsOK' /\ sent \subseteq sent' /\ sent' \subseteq MeantPairs
         /\ where' \in [Items -> {"spot", "astray", "held"} \cup Bins]
         /\ held' \in Items \cup {None}
         /\ \A i \in Items : where'[i] = "held" <=> held' = i
<1>1. call \in [Callers -> Call] /\ AlertsOK
  BY DEF CellInv, StoryInv, AlertsOK
<1> DEFINE Types == /\ where' \in [Items -> {"spot", "astray", "held"} \cup Bins]
                    /\ held' \in Items \cup {None}
                    /\ \A i \in Items : where'[i] = "held" <=> held' = i
<1>2. UNCHANGED <<held, where>> => Types
  BY DEF CellInv
<1>3. Busy(c) => alerts[c] = {}
  BY DEF StoryInv
<1> HIDE DEF Types
\* An error, wherever it comes from.
<1>4. ASSUME Fail(c), Busy(c), UNCHANGED sent, Types,
             \/ alerts' = alerts
             \/ /\ alerts' = [alerts EXCEPT ![c] = @ \cup {AlertKind(c)}]
                /\ call[c].pc = "alert"
      PROVE  StepDone(c) /\ AlertsOK' /\ Types
  <2>1. /\ Local(c) /\ call'[c].pc = "returned" /\ call'[c].order = call[c].order
    BY <1>1, <1>4, FailCall DEF SameOrder
  <2>2. AlertKind(c) \in {"order_fulfilled", "order_failed"}
    BY DEF AlertKind
  <2>3. /\ AlertsOK'
        /\ \/ alerts'[c] = {}
           \/ alerts'[c] = {AlertKind(c)} /\ call[c].pc = "alert"
        /\ \A d \in Callers \ {c} : alerts'[d] = alerts[d]
    BY <1>1, <1>3, <1>4, <2>2 DEF AlertsOK
  <2>5. StoryInv(c)'
    BY <1>1, <1>4, <2>3, FailStory
  <2>6. OrderInv(c)'
    BY <1>4, <2>1 DEF OrderInv, Busy
  <2> QED
    BY <1>4, <2>1, <2>3, <2>5, <2>6 DEF StepDone
<1>5. ASSUME Resolve(c) PROVE StepDone(c) /\ AlertsOK' /\ Types
  <2>0. call[c].pc = "resolve" /\ call[c].order \in Orders
    BY <1>5 DEF Resolve, OrderInv
  <2>1. PICK source \in {"hardcoded", "perceived"}, item \in Items, aim \in Aims :
          ResolveAs(c, source, item, aim)
    BY <1>5, <2>0, ResolveKnown
  <2>2. UNCHANGED <<held, where, alerts>> /\ call[c].order.bin \in Bins
    BY <2>1 DEF ResolveAs, world
  <2>3. /\ Local(c) /\ call'[c].pc = "move" /\ call'[c].order = call[c].order
        /\ call'[c].target = item
    BY <1>1, <2>1, ResolveCall DEF SameOrder
  <2>4. StoryInv(c)'
    BY <1>1, <2>0, <2>1, ResolveStory
  <2>5. OrderInv(c)'
    BY <2>0, <2>2, <2>3 DEF OrderInv
  <2> QED
    BY <1>1, <1>2, <2>2, <2>3, <2>4, <2>5 DEF StepDone, AlertsOK, Types
<1>6. ASSUME ResolveFails(c) PROVE StepDone(c) /\ AlertsOK' /\ Types
  <2>1. Fail(c) /\ Busy(c) /\ UNCHANGED <<held, where, alerts, sent>>
    BY <1>6 DEF ResolveFails, Busy, world
  <2> QED
    BY <1>2, <1>4, <2>1 DEF Types
<1>7. ASSUME Move(c) PROVE StepDone(c) /\ AlertsOK' /\ Types
  <2>1. /\ call[c].pc = "move" /\ UNCHANGED <<alerts, sent>>
        /\ Effect(c, Moves[call[c].step])
    BY <1>7 DEF Move
  <2>2. Types
    BY <2>1, EffectTypes DEF Types
  <2>3. /\ Local(c) /\ call'[c].order = call[c].order
        /\ call'[c].pc \in {"move", "verify", "alert"}
        /\ call'[c].target = call[c].target
    BY <1>1, <1>7, MoveCall DEF SameOrder
  <2>4. StoryInv(c)'
    BY <1>1, <1>7, MoveStory
  <2>5. OrderInv(c)'
    BY <2>1, <2>3 DEF OrderInv
  <2> QED
    BY <1>1, <2>1, <2>2, <2>3, <2>4, <2>5 DEF StepDone, AlertsOK, Types
<1>8. ASSUME MoveFails(c) PROVE StepDone(c) /\ AlertsOK' /\ Types
  <2>1. /\ Fail(c) /\ Busy(c) /\ UNCHANGED <<alerts, sent>> /\ call[c].pc = "move"
        /\ UNCHANGED <<held, where>> \/ Effect(c, Moves[call[c].step])
    BY <1>8 DEF MoveFails, Busy
  <2>2. Types
    BY <2>1, EffectTypes DEF Types
  <2> QED
    BY <1>4, <2>1, <2>2 DEF Types
<1>9. ASSUME Verify(c) PROVE StepDone(c) /\ AlertsOK' /\ Types
  <2>1. PICK item \in Items \cup {None} : VerifyAs(c, item)
    BY <1>9 DEF Verify
  <2>2. call[c].pc = "verify" /\ UNCHANGED <<held, where, alerts, sent>>
    BY <1>9, <2>1 DEF Verify, VerifyAs, world
  <2>3. /\ Local(c) /\ call'[c].order = call[c].order
        /\ call'[c].pc \in {"move", "alert"} /\ call'[c].target = call[c].target
    BY <1>1, <2>1, VerifyCall DEF SameOrder, Passes, Retries, GivesUp
  <2>4. StoryInv(c)'
    BY <1>1, <2>1, <2>2, VerifyStory
  <2>5. OrderInv(c)'
    BY <2>2, <2>3 DEF OrderInv
  <2> QED
    BY <1>1, <1>2, <2>2, <2>3, <2>4, <2>5 DEF StepDone, AlertsOK, Types
<1>10. ASSUME Alert(c) PROVE StepDone(c) /\ AlertsOK' /\ Types
  <2>1. /\ call[c].pc = "alert" /\ UNCHANGED <<held, where, sent>>
        /\ alerts' = [alerts EXCEPT ![c] = @ \cup {AlertKind(c)}]
    BY <1>10 DEF Alert, world
  <2>2. Local(c) /\ call'[c].pc = "returned" /\ call'[c].order = call[c].order
    BY <1>1, <1>10, AlertCall DEF SameOrder
  <2>3. StoryInv(c)'
    BY <1>1, <1>10, AlertStory
  <2>4. OrderInv(c)'
    BY <2>1, <2>2 DEF OrderInv
  <2>5. AlertsOK' /\ \A d \in Callers \ {c} : alerts'[d] = alerts[d]
    BY <1>1, <2>1, <2>3 DEF AlertsOK, StoryInv
  <2> QED
    BY <1>2, <2>1, <2>2, <2>3, <2>4, <2>5 DEF StepDone, Types
<1>11. ASSUME AlertFails(c) PROVE StepDone(c) /\ AlertsOK' /\ Types
  <2>1. /\ Fail(c) /\ Busy(c) /\ UNCHANGED <<held, where, sent>>
        /\ call[c].pc = "alert"
        /\ alerts' = alerts \/ alerts' = [alerts EXCEPT ![c] = @ \cup {AlertKind(c)}]
    BY <1>11 DEF AlertFails, Busy, world
  <2> QED
    BY <1>2, <1>4, <2>1 DEF Types
<1>12. sent \subseteq sent' /\ sent' \subseteq MeantPairs
  <2>1. CASE Resolve(c)
    <3>1. call[c].order \in Orders
      BY <2>1 DEF Resolve, OrderInv
    <3>2. PICK source \in {"hardcoded", "perceived"}, item \in Items, aim \in Aims :
            ResolveAs(c, source, item, aim)
      BY <2>1, <3>1, ResolveKnown
    <3> DEFINE pair == [item |-> item, bin |-> call[c].order.bin]
    <3>3. sent' = sent \cup {pair} /\ call[c].order.bin \in Bins
      BY <3>2 DEF ResolveAs
    <3>4. pair \in MeantPairs
      BY <3>3 DEF MeantPairs
    <3> HIDE DEF pair
    <3> QED
      BY <3>3, <3>4 DEF CellInv
  <2>2. CASE ~Resolve(c)
    <3>1. UNCHANGED sent
      BY <2>2 DEF Step, ResolveFails, Move, MoveFails, Verify, VerifyAs, Alert, AlertFails
    <3> QED
      BY <3>1 DEF CellInv
  <2> QED
    BY <2>1, <2>2
<1> QED
  BY <1>5, <1>6, <1>7, <1>8, <1>9, <1>10, <1>11, <1>12 DEF Step, Types

SpecInv ==
  /\ CellInv
  /\ arm \in {"rest", "pick", "bin", "between"}
  /\ alerts \in [Callers -> SUBSET {"order_fulfilled", "order_failed"}]
  /\ \A c \in Callers : OrderInv(c) /\ StoryInv(c)

\* The others' calls stay what they are.
LEMMA OthersStay ==
  ASSUME NEW c \in Callers, NEW d \in Callers \ {c}, Local(c), AlertsOK',
         sent \subseteq sent', alerts'[d] = alerts[d],
         OrderInv(d), StoryInv(d)
  PROVE  OrderInv(d)' /\ StoryInv(d)'
<1>1. StoryInv(d)'
  BY OtherStory
<1>2. call'[d] = call[d]
  BY DEF Local
<1> QED
  BY <1>1, <1>2 DEF OrderInv

LEMMA InitSpecInv == Init => SpecInv
<1> SUFFICES ASSUME Init PROVE SpecInv
  OBVIOUS
<1>1. CellInv
  BY NoCallIsCall, CellAssumption DEF Init, CellInv
<1>2. \A c \in Callers : call[c] = NoCall
  BY DEF Init
<1>3. arm = "rest" /\ alerts \in [Callers -> SUBSET {"order_fulfilled", "order_failed"}]
  BY DEF Init
<1>4. \A c \in Callers : OrderInv(c)
  BY <1>2 DEF OrderInv, NoCall
<1>5. \A c \in Callers : StoryInv(c)
  <2> SUFFICES ASSUME NEW c \in Callers PROVE StoryInv(c)
    OBVIOUS
  <2>1. call[c].pc = "idle"
    BY <1>2 DEF NoCall
  <2>2. ProgressInv(c)
    BY <2>1 DEF ProgressInv
  <2> QED
    BY <1>3, <2>1, <2>2 DEF StoryInv, Busy
<1> QED
  BY <1>1, <1>3, <1>4, <1>5 DEF SpecInv

LEMMA NextSpecInv == SpecInv /\ [Next]_vars => SpecInv'
<1> SUFFICES ASSUME SpecInv, [Next]_vars PROVE SpecInv'
  OBVIOUS
<1>1. CASE UNCHANGED vars
  <2>1. UNCHANGED <<call, arm, held, where, alerts, sent>>
    BY <1>1 DEF vars, world
  <2>2. CellInv' /\ arm' \in {"rest", "pick", "bin", "between"} /\ AlertsOK'
    BY <2>1 DEF SpecInv, CellInv, AlertsOK
  <2>3. ASSUME NEW d \in Callers PROVE OrderInv(d)' /\ StoryInv(d)'
    <3>1. OrderInv(d) /\ StoryInv(d)
      BY DEF SpecInv
    <3> QED
      BY <2>1, <2>2, <3>1, StoryUnchanged DEF OrderInv
  <2> QED
    BY <2>2, <2>3 DEF SpecInv, AlertsOK
<1>2. ASSUME NEW c \in Callers, Step(c) PROVE SpecInv'
  <2>1. CellInv /\ OrderInv(c) /\ StoryInv(c)
    BY DEF SpecInv
  <2>2. /\ Local(c) /\ StoryInv(c)' /\ OrderInv(c)' /\ AlertsOK'
        /\ sent \subseteq sent' /\ sent' \subseteq MeantPairs
        /\ \A d \in Callers \ {c} : alerts'[d] = alerts[d]
        /\ where' \in [Items -> {"spot", "astray", "held"} \cup Bins]
        /\ held' \in Items \cup {None}
        /\ \A i \in Items : where'[i] = "held" <=> held' = i
    BY <1>2, <2>1, StepKeepsStory DEF StepDone
  <2>3. CellInv'
    BY <2>1, <2>2 DEF CellInv, Local
  <2>4. \A d \in Callers : OrderInv(d)' /\ StoryInv(d)'
    <3> SUFFICES ASSUME NEW d \in Callers \ {c} PROVE OrderInv(d)' /\ StoryInv(d)'
      BY <2>2
    <3>1. OrderInv(d) /\ StoryInv(d)
      BY DEF SpecInv
    <3> QED
      BY <2>2, <3>1, OthersStay
  <2>5. arm' \in {"rest", "pick", "bin", "between"}
    BY <1>2 DEF SpecInv, Step, Resolve, ResolveAs, ResolveFails, Move, MoveFails, Verify,
                VerifyAs, Alert, AlertFails, ArmAfter, world
  <2> QED
    BY <2>2, <2>3, <2>4, <2>5 DEF SpecInv, AlertsOK
<1>3. ASSUME NEW c \in Callers, NEW o \in Orders, Start(c, o) PROVE SpecInv'
  <2>1. PICK v \in BOOLEAN : StartWith(c, o, v)
    BY <1>3 DEF Start, VerifierGiven
  <2>2. CellInv /\ call \in [Callers -> Call] /\ AlertsOK
    BY DEF SpecInv, CellInv, AlertsOK
  <2>3. /\ alerts' = [alerts EXCEPT ![c] = {}] /\ sent' = sent \cup {o}
        /\ UNCHANGED <<arm, held, where>>
    BY <2>1 DEF StartWith, world
  <2>4. Local(c) /\ call'[c].pc = "resolve" /\ call'[c].order = o
    BY <2>1, <2>2, StartCall
  <2>5. StoryInv(c)'
    BY <2>1, <2>2, StartStory
  <2>6. OrderInv(c)'
    BY <2>3, <2>4 DEF OrderInv
  <2>7. AlertsOK' /\ \A d \in Callers \ {c} : alerts'[d] = alerts[d]
    BY <2>2, <2>3 DEF AlertsOK
  <2>8. CellInv'
    BY <2>2, <2>3, <2>4, CellAssumption DEF CellInv, Local, MeantPairs
  <2>9. \A d \in Callers : OrderInv(d)' /\ StoryInv(d)'
    <3> SUFFICES ASSUME NEW d \in Callers \ {c} PROVE OrderInv(d)' /\ StoryInv(d)'
      BY <2>5, <2>6
    <3>1. OrderInv(d) /\ StoryInv(d) /\ sent \subseteq sent'
      BY <2>3 DEF SpecInv
    <3> QED
      BY <2>4, <2>7, <3>1, OthersStay
  <2> QED
    BY <2>3, <2>7, <2>8, <2>9 DEF SpecInv, AlertsOK
<1> QED
  BY <1>1, <1>2, <1>3 DEF Next

\* A call that has not returned is on its way through a story.
LEMMA StoryTold ==
  ASSUME NEW c \in Callers, call \in [Callers -> Call], StoryInv(c)
  PROVE  StagesTell(c) /\ AlertTells(c)
<1>1. CASE call[c].pc \in {"idle", "returned"}
  BY <1>1 DEF StoryInv, StagesTell, AlertTells
<1>2. CASE Busy(c)
  <2> DEFINE s == call[c].stages
  <2>1. PICK story \in Story(c) : Begins(s, story)
    BY <1>2, Beginning DEF StoryInv
  <2>2. s \in Seq(Stages)
    <3>1. call[c] \in Call
      OBVIOUS
    <3> QED
      BY <3>1, CallFields
  <2>3. Len(s) <= Len(story.stages)
    <3> HIDE DEF s
    <3>1. Len(s) \in Nat
      BY <2>2
    <3> QED
      BY <2>1, <3>1 DEF Begins
  <2> QED
    BY <1>2, <2>1, <2>3 DEF StoryInv, StagesTell, AlertTells, Begins, Busy, Placed
<1> QED
  BY <1>1, <1>2 DEF Busy

\* The types of fulfill_order's state, for any number of callers.
THEOREM TypeCorrect == Spec => []TypeOK
<1>1. SpecInv => TypeOK
  BY DEF SpecInv, CellInv, TypeOK, MeantPairs
<1> QED
  BY <1>1, InitSpecInv, NextSpecInv, PTL DEF Spec

\* Whatever fails, however many attempts there are and whoever else calls:
\* the stages, attempts, status and alerts of a result tell one story, or the
\* beginning of one that an error cut short.
THEOREM StoryCorrect == Spec => []ResultTellsTheStory
<1>1. SpecInv => ResultTellsTheStory
  BY StoryTold DEF SpecInv, CellInv, ResultTellsTheStory
<1> QED
  BY <1>1, InitSpecInv, NextSpecInv, PTL DEF Spec
============================================================================
