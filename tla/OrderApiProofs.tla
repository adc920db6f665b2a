--------------------------- MODULE OrderApiProofs ---------------------------
(***************************************************************************)
(* The webhook for every number of handler threads, items, bins, orders    *)
(* and attempts.  Mutual exclusion: the threads inside fulfill_order are   *)
(* among those that hold run_lock.  What the one thread does to the table  *)
(* leaves alone what earlier orders put into the bins, so that a reply     *)
(* stays true; and each of its steps is one of SerialCell's, or none.      *)
(***************************************************************************)
EXTENDS OrderApi, FulfillOrderProofs

\* The with block, entered and left.
Inside(t) == phase[t] \in {"locked", "run", "crash"}

\* run_lock is held by the thread inside its with block, and only a thread
\* inside it is in the runner.
LockInv ==
  /\ DOMAIN call = Callers
  /\ phase \in [Callers -> Phases]
  /\ lock \in Callers \cup {None}
  /\ \A t \in Callers : Inside(t) <=> lock = t
  /\ \A t \in Callers : Busy(t) => phase[t] = "run"
---------------------------------------------------------------------------
\* A call of fulfill_order touches only its own caller's locals.
LEMMA StepIsLocal ==
  ASSUME DOMAIN call = Callers, NEW c \in Callers, Step(c)
  PROVE  /\ DOMAIN call' = Callers
         /\ \A d \in Callers \ {c} : call'[d] = call[d]
<1>1. CASE Resolve(c)
  BY <1>1 DEF Resolve, ResolveAs
<1>2. CASE ResolveFails(c)
  BY <1>2 DEF ResolveFails, Fail
<1>3. CASE Move(c)
  BY <1>3 DEF Move
<1>4. CASE MoveFails(c)
  BY <1>4 DEF MoveFails, Fail
<1>5. CASE Verify(c)
  BY <1>5 DEF Verify, VerifyAs, Retry
<1>6. CASE Alert(c)
  BY <1>6 DEF Alert
<1>7. CASE AlertFails(c)
  BY <1>7 DEF AlertFails, Fail
<1> QED
  BY <1>1, <1>2, <1>3, <1>4, <1>5, <1>6, <1>7 DEF Step

LEMMA StartIsLocal ==
  ASSUME DOMAIN call = Callers, NEW c \in Callers, NEW o, Start(c, o)
  PROVE  /\ DOMAIN call' = Callers
         /\ \A d \in Callers \ {c} : call'[d] = call[d]
BY DEF Start, StartWith

\* A thread that reads a request was idle, holds nothing and runs nothing.
LEMMA ReadIsFree ==
  ASSUME LockInv, NEW t \in Callers, NEW r, NEW o, Read(t, r, o),
         NEW p \in {"wait", "reply"}, phase' = [phase EXCEPT ![t] = p]
  PROVE  LockInv'
<1>1. /\ DOMAIN call' = Callers /\ lock' = lock /\ lock # t
      /\ phase' \in [Callers -> Phases]
  BY DEF LockInv, Inside, Read, Phases
<1>2. \A u \in Callers : Inside(u)' <=> lock' = u
  BY <1>1 DEF LockInv, Inside
<1>3. ~Busy(t)'
  BY <1>1 DEF Read, NoCall, Busy, LockInv
<1>4. \A u \in Callers \ {t} : call'[u] = call[u] /\ phase'[u] = phase[u]
  BY DEF Read, LockInv
<1>5. \A u \in Callers : Busy(u)' => phase'[u] = "run"
  BY <1>3, <1>4 DEF LockInv, Busy
<1> QED
  BY <1>1, <1>2, <1>5 DEF LockInv

LEMMA LockInit == ApiInit => LockInv
<1> SUFFICES ASSUME ApiInit PROVE LockInv
  OBVIOUS
<1>1. DOMAIN call = Callers /\ \A t \in Callers : call[t].pc = "idle"
  BY DEF ApiInit, Init, NoCall
<1>2. /\ phase \in [Callers -> Phases] /\ \A t \in Callers : phase[t] = "idle"
      /\ lock = None
  BY DEF ApiInit, Phases
<1> QED
  BY <1>1, <1>2, CellAssumption DEF LockInv, Inside, Busy

LEMMA LockStep == LockInv /\ [ApiNext]_apiVars => LockInv'
<1> SUFFICES ASSUME LockInv, [ApiNext]_apiVars PROVE LockInv'
  OBVIOUS
<1> USE CellAssumption DEF LockInv, Inside, Phases
<1>1. ASSUME NEW t \in Callers, NEW o \in Orders, ReceiveOrder(t, o)
      PROVE  LockInv'
  BY <1>1, ReadIsFree DEF ReceiveOrder
<1>2. ASSUME NEW t \in Callers, NEW r \in Requests, ReceiveOther(t, r)
      PROVE  LockInv'
  BY <1>2, ReadIsFree DEF ReceiveOther
<1>10. ASSUME NEW t \in Callers, Misread(t) PROVE LockInv'
  BY <1>10, ReadIsFree DEF Misread
<1>3. ASSUME NEW t \in Callers, Acquire(t) PROVE LockInv'
  BY <1>3 DEF Acquire, vars, Busy
<1>4. ASSUME NEW t \in Callers, CallRunner(t) PROVE LockInv'
  BY <1>4, StartIsLocal DEF CallRunner, Busy
<1>5. ASSUME NEW t \in Callers, RunnerRaises(t) PROVE LockInv'
  BY <1>5 DEF RunnerRaises, vars, Busy
<1>6. ASSUME NEW t \in Callers, RunnerStep(t) PROVE LockInv'
  BY <1>6, StepIsLocal DEF RunnerStep, http, Busy
<1>7. ASSUME NEW t \in Callers, RunnerReturns(t) PROVE LockInv'
  BY <1>7 DEF RunnerReturns, vars, Busy
<1>8. ASSUME NEW t \in Callers, Write(t) PROVE LockInv'
  BY <1>8 DEF Write, vars, Busy
<1>9. CASE UNCHANGED apiVars
  BY <1>9 DEF apiVars, vars, http, Busy
<1> QED
  BY <1>1, <1>2, <1>3, <1>4, <1>5, <1>6, <1>7, <1>8, <1>9, <1>10 DEF ApiNext, Handle

\* There is one arm, and never more than one order has it.
THEOREM ApiMutualExclusion == ApiSpec => []OneArm
<1>1. LockInv => OneArm
  BY DEF LockInv, OneArm, Inside
<1> QED
  BY <1>1, LockInit, LockStep, PTL DEF ApiSpec
---------------------------------------------------------------------------
(* What a handler knows of its request, and what has come of it. *)

HandlerInv(t) ==
  /\ request[t] # "order" =>
       /\ phase[t] \in {"idle", "reply", "done", "dropped"}
       /\ wanted[t] = None
       /\ code[t] \in {0, 200, 400, 413, 422}
       /\ runs[t] = 0 /\ call[t] = NoCall
  /\ request[t] = "order" =>
       /\ wanted[t] \in Orders
       /\ phase[t] # "idle"
       /\ phase[t] \in {"wait", "locked"} =>
            code[t] = 0 /\ runs[t] = 0 /\ call[t] = NoCall
       /\ phase[t] = "run" =>
            /\ code[t] = 0 /\ runs[t] = 1
            /\ call[t].pc # "idle" /\ call[t].order = wanted[t]
       /\ phase[t] = "crash" =>
            code[t] = 500 /\ runs[t] = 1 /\ call[t] = NoCall
       /\ phase[t] \in {"reply", "done", "dropped"} =>
            /\ runs[t] = 1
            /\ \/ code[t] = 500 /\ call[t] = NoCall
               \/ /\ call[t].pc = "returned" /\ call[t].order = wanted[t]
                  /\ code[t] = OutcomeCode(call[t].status)

TypesInv ==
  /\ request \in [Callers -> Requests]
  /\ wanted \in [Callers -> Orders \cup {None}]
  /\ code \in [Callers -> Nat]
  /\ runs \in [Callers -> Nat]

\* The pose table picks what was ordered, and nowhere near a bin.
PlanInv(t) ==
  /\ call[t].pc \in {"move", "verify"} => call[t].target = call[t].order.item
  /\ call[t].aim \notin Bins

\* A thread's order keeps the table in order, its verdict is about the table
\* as it stands, and its plan is the pose table's.
ThreadInv(t) ==
  GripInv(t) /\ HonestInv(t) /\ HandlerInv(t) /\ PlanInv(t)

ApiInv ==
  /\ LockInv /\ CellInv /\ BinsHoldOrders /\ TypesInv
  /\ \A t \in Callers : ThreadInv(t)
---------------------------------------------------------------------------
LEMMA UnknownBin ==
  /\ "unknown bin" \notin Bins /\ "spot" \notin Bins /\ "lost" \notin Bins
  /\ None \notin Orders /\ ~Perceiving
BY CellAssumption, WebhookAssumption

\* What a step of the one thread in the runner may do to the items.
OnlyTheOrdered(t) ==
  \A i \in Items : where'[i] # where[i] =>
    \/ where'[i] \in {"astray", "held"}
    \/ i = call[t].order.item /\ where'[i] = call[t].order.bin

\* What it does to the table.
LEMMA RunnerKeeps ==
  ASSUME NEW t \in Callers, TableInv(t), HonestInv(t), PlanInv(t), Step(t)
  PROVE  /\ TableInv(t)' /\ HonestInv(t)' /\ PlanInv(t)'
         /\ Local(t) /\ call'[t].order = call[t].order /\ call'[t].pc # "idle"
         /\ OnlyTheOrdered(t) /\ BinsLeftAlone /\ sent \subseteq sent'
<1>0. call \in [Callers -> Call]
  BY DEF TableInv, CellInv
<1>1. UNCHANGED where => OnlyTheOrdered(t) /\ BinsLeftAlone
  BY DEF OnlyTheOrdered, BinsLeftAlone
<1>2. ASSUME Fail(t), Busy(t), UNCHANGED <<held, where, sent>>
      PROVE  /\ TableInv(t)' /\ HonestInv(t)' /\ PlanInv(t)'
             /\ Local(t) /\ call'[t].order = call[t].order /\ call'[t].pc # "idle"
  BY <1>0, <1>2, FailInPlaceKeeps, FailHonest, FailCall DEF SameOrder, PlanInv
<1>3. CASE Resolve(t)
  <2>1. ResolveAs(t, "hardcoded", call[t].order.item, "spot") /\ call[t].pc = "resolve"
    BY <1>3, UnknownBin DEF Resolve
  <2>2. /\ "spot" \in Aims /\ UNCHANGED <<held, where>> /\ sent \subseteq sent'
        /\ call[t].order.item \in Items
    BY <2>1, OrderFacts DEF Aims, ResolveAs, world, TableInv
  <2>3. TableInv(t)' /\ HonestInv(t)'
    BY <1>0, <2>1, <2>2, ResolveKeeps, ResolveHonest
  <2>4. /\ Local(t) /\ call'[t].order = call[t].order /\ call'[t].pc = "move"
        /\ call'[t].target = call[t].order.item /\ call'[t].aim = "spot"
    BY <1>0, <2>1, <2>2, ResolveCall DEF SameOrder
  <2> QED
    BY <1>1, <2>2, <2>3, <2>4, UnknownBin DEF PlanInv
<1>4. CASE ResolveFails(t) \/ AlertFails(t)
  BY <1>1, <1>2, <1>4 DEF ResolveFails, AlertFails, Busy, world
<1>5. ASSUME call[t].pc = "move", UNCHANGED sent,
             Effect(t, Moves[call[t].step]) \/ UNCHANGED <<held, where>>
      PROVE  OnlyTheOrdered(t) /\ BinsLeftAlone
  <2>1. OnlyItsOrder(t) /\ BinsLeftAlone
    BY <1>5, EffectKeeps DEF PlanInv
  <2> QED
    BY <1>5, <2>1 DEF PlanInv, OnlyItsOrder, OnlyTheOrdered
<1>6. CASE Move(t)
  <2>1. /\ call[t].pc = "move" /\ Effect(t, Moves[call[t].step]) /\ UNCHANGED sent
    BY <1>6 DEF Move
  <2>3. TableInv(t)' /\ HonestInv(t)'
    BY <1>0, <1>6, MoveKeeps, MoveHonest
  <2>4. /\ Local(t) /\ call'[t].order = call[t].order /\ call'[t].aim = AimAfter(t)
        /\ call'[t].target = call[t].target
        /\ call'[t].pc \in {"move", "verify", "alert"}
    BY <1>0, <1>6, MoveCall DEF SameOrder
  <2>5. PlanInv(t)'
    BY <2>1, <2>4, UnknownBin DEF AimAfter, PlanInv
  <2> QED
    BY <1>5, <2>1, <2>3, <2>4, <2>5
<1>7. CASE MoveFails(t)
  <2>1. /\ call[t].pc = "move" /\ UNCHANGED sent /\ Fail(t)
        /\ Effect(t, Moves[call[t].step]) \/ UNCHANGED <<held, where>>
    BY <1>7 DEF MoveFails
  <2>3. TableInv(t)' /\ HonestInv(t)'
    BY <1>0, <1>7, <2>1, MoveFailsKeeps, FailHonest
  <2>4. /\ Local(t) /\ call'[t].order = call[t].order /\ call'[t].aim = call[t].aim
        /\ call'[t].pc = "returned"
    BY <1>0, <2>1, FailCall DEF SameOrder
  <2> QED
    BY <1>5, <2>1, <2>3, <2>4 DEF PlanInv
<1>8. CASE Verify(t)
  <2>1. PICK item \in Items \cup {None} :
          /\ VerifyAs(t, item)
          /\ item # None => where[item] = call[t].order.bin
    BY <1>8 DEF Verify
  <2>2. call[t].pc = "verify" /\ UNCHANGED <<held, where, sent>>
    BY <1>8, <2>1 DEF Verify, VerifyAs, world
  <2>3. TableInv(t)' /\ HonestInv(t)'
    BY <1>0, <2>1, <2>2, VerifyKeeps, VerifyHonest
  <2>4. /\ Local(t) /\ call'[t].order = call[t].order /\ call'[t].aim = call[t].aim
        /\ call'[t].target = call[t].target
        /\ call'[t].pc \in {"move", "alert"}
    BY <1>0, <2>1, VerifyCall DEF SameOrder, Passes, Retries, GivesUp
  <2> QED
    BY <1>1, <2>2, <2>3, <2>4 DEF PlanInv
<1>9. CASE Alert(t)
  <2>1. UNCHANGED <<held, where, sent>>
    BY <1>9 DEF Alert, world
  <2>2. TableInv(t)' /\ HonestInv(t)'
    BY <1>0, <1>9, AlertKeeps, AlertHonest
  <2>3. /\ Local(t) /\ call'[t].order = call[t].order /\ call'[t].aim = call[t].aim
        /\ call'[t].pc = "returned"
    BY <1>0, <1>9, AlertCall DEF SameOrder
  <2> QED
    BY <1>1, <2>1, <2>2, <2>3 DEF PlanInv
<1> QED
  BY <1>3, <1>4, <1>6, <1>7, <1>8, <1>9 DEF Step

\* A thread that is not in the runner, while another one takes a step.
LEMMA OtherThread ==
  ASSUME NEW t \in Callers, NEW d \in Callers \ {t}, CellInv, Local(t), ~Busy(d),
         BinsLeftAlone, sent \subseteq sent', GripInv(d), HonestInv(d)
  PROVE  GripInv(d)' /\ HonestInv(d)'
<1>1. call'[d] = call[d] /\ call[d] \in Call
  BY DEF Local, CellInv
<1>2. call[d].pc \in {"idle", "returned"}
  BY DEF Busy
<1>3. GripInv(d)'
  BY <1>1, <1>2 DEF GripInv
<1>4. ASSUME call[d].verification = "ok"
      PROVE  where'[call[d].seen] = call[d].order.bin
  <2>1. /\ call[d].pc = "returned" /\ call[d].seen \in Items
        /\ where[call[d].seen] = call[d].order.bin
    BY <1>2, <1>4 DEF HonestInv
  <2>2. call[d].order.bin \in Bins \cup {"unknown bin"}
    BY <2>1, CellAssumption DEF GripInv, CellInv
  <2>3. where[call[d].seen] \in {"spot", "astray", "held"} \cup Bins
    BY <2>1 DEF CellInv
  <2>4. where[call[d].seen] \in Bins
    BY <2>1, <2>2, <2>3, UnknownBin
  <2> QED
    BY <2>1, <2>4 DEF BinsLeftAlone
<1> QED
  BY <1>1, <1>2, <1>3, <1>4 DEF HonestInv

\* The others', while one thread does something else than run an order.
LEMMA OthersKeep ==
  ASSUME NEW t \in Callers, ApiInv, Local(t), BinsLeftAlone,
         sent \subseteq sent',
         \A d \in Callers \ {t} :
           /\ ~Busy(d)
           /\ phase'[d] = phase[d] /\ request'[d] = request[d]
           /\ wanted'[d] = wanted[d] /\ code'[d] = code[d] /\ runs'[d] = runs[d]
  PROVE  \A d \in Callers \ {t} : ThreadInv(d)'
<1> SUFFICES ASSUME NEW d \in Callers \ {t} PROVE ThreadInv(d)'
  OBVIOUS
<1>1. ThreadInv(d) /\ CellInv
  BY DEF ApiInv
<1>2. GripInv(d)' /\ HonestInv(d)'
  BY <1>1, OtherThread DEF ThreadInv
<1>3. call'[d] = call[d] /\ PlanInv(d)'
  BY <1>1 DEF Local, ThreadInv, PlanInv
<1>4. HandlerInv(d)'
  BY <1>1, <1>3 DEF ThreadInv, HandlerInv
<1> QED
  BY <1>1, <1>2, <1>3, <1>4 DEF ThreadInv

\* A step of a handler that leaves calls and table alone.
LEMMA HandlerKeeps ==
  ASSUME NEW t \in Callers, ApiInv, LockInv', TypesInv', HandlerInv(t)',
         UNCHANGED <<call, held, where, sent>>,
         \A d \in Callers \ {t} :
           /\ phase'[d] = phase[d] /\ request'[d] = request[d]
           /\ wanted'[d] = wanted[d] /\ code'[d] = code[d] /\ runs'[d] = runs[d]
  PROVE  ApiInv'
<1>1. CellInv' /\ BinsHoldOrders'
  BY DEF ApiInv, CellInv, BinsHoldOrders
<1>2. ASSUME NEW d \in Callers PROVE ThreadInv(d)'
  <2>1. ThreadInv(d)
    BY DEF ApiInv
  <2>2. GripInv(d)' /\ HonestInv(d)' /\ PlanInv(d)'
    BY <2>1 DEF ThreadInv, GripInv, HonestInv, PlanInv
  <2>3. HandlerInv(d)'
    <3>1. CASE d = t
      BY <3>1
    <3>2. CASE d # t
      BY <2>1, <3>2 DEF ThreadInv, HandlerInv
    <3> QED
      BY <3>1, <3>2
  <2> QED
    BY <2>2, <2>3 DEF ThreadInv
<1> QED
  BY <1>1, <1>2 DEF ApiInv

\* A request is read.
LEMMA ReadKeeps ==
  ASSUME NEW t \in Callers, NEW r \in Requests \ {"none"}, NEW o \in Orders \cup {None},
         NEW p \in {"wait", "reply"}, NEW n \in Nat,
         ApiInv, LockInv', Read(t, r, o),
         phase' = [phase EXCEPT ![t] = p], code' = [code EXCEPT ![t] = n],
         r = "order" => o \in Orders /\ p = "wait" /\ n = 0,
         r # "order" => o = None /\ p = "reply" /\ n \in {200, 400, 413, 422}
  PROVE  ApiInv'
<1>1. /\ phase[t] \in {"idle", "done"}
      /\ request' = [request EXCEPT ![t] = r] /\ wanted' = [wanted EXCEPT ![t] = o]
      /\ runs' = [runs EXCEPT ![t] = 0] /\ call' = [call EXCEPT ![t] = NoCall]
      /\ UNCHANGED <<held, where, sent>>
  BY DEF Read, world
<1>2. /\ CellInv /\ TypesInv /\ phase \in [Callers -> Phases] /\ BinsHoldOrders
  BY DEF ApiInv, LockInv
<1>3. Local(t) /\ call'[t] = NoCall
  BY <1>1, <1>2, ForgetCall DEF CellInv
<1>4. TypesInv'
  BY <1>1, <1>2 DEF TypesInv
<1>5. CellInv' /\ BinsHoldOrders'
  BY <1>1, <1>2, <1>3 DEF CellInv, BinsHoldOrders, Local
<1>6. /\ phase'[t] = p /\ code'[t] = n /\ request'[t] = r /\ wanted'[t] = o
      /\ runs'[t] = 0
      /\ \A d \in Callers \ {t} :
           /\ phase'[d] = phase[d] /\ request'[d] = request[d]
           /\ wanted'[d] = wanted[d] /\ code'[d] = code[d] /\ runs'[d] = runs[d]
  BY <1>1, <1>2 DEF TypesInv
<1>7. HandlerInv(t)'
  BY <1>3, <1>6 DEF HandlerInv
<1>8. ThreadInv(t)'
  <2>1. NoCall.pc = "idle" /\ NoCall.aim = "spot" /\ NoCall.verification = "none"
    BY DEF NoCall
  <2> QED
    BY <1>3, <1>7, <2>1, UnknownBin DEF ThreadInv, GripInv, HonestInv, PlanInv
<1>9. ASSUME NEW d \in Callers \ {t} PROVE ThreadInv(d)'
  <2>1. ThreadInv(d) /\ call'[d] = call[d]
    BY <1>3 DEF ApiInv, Local
  <2>2. GripInv(d)' /\ HonestInv(d)' /\ PlanInv(d)'
    BY <1>1, <2>1 DEF ThreadInv, GripInv, HonestInv, PlanInv
  <2>3. HandlerInv(d)'
    BY <1>6, <2>1 DEF ThreadInv, HandlerInv
  <2> QED
    BY <2>2, <2>3 DEF ThreadInv
<1>10. \A d \in Callers : ThreadInv(d)'
  BY <1>8, <1>9
<1> QED
  BY <1>4, <1>5, <1>10 DEF ApiInv

LEMMA ApiInitInv == ApiInit => ApiInv
<1> SUFFICES ASSUME ApiInit PROVE ApiInv
  OBVIOUS
<1>1. LockInv
  BY LockInit
<1>2. CellInv
  BY NoCallIsCall, CellAssumption DEF ApiInit, Init, CellInv
<1>3. BinsHoldOrders
  BY CellAssumption DEF ApiInit, Init, BinsHoldOrders
<1>4. TypesInv
  BY DEF ApiInit, TypesInv, Requests
<1>5. ASSUME NEW t \in Callers PROVE ThreadInv(t)
  <2>1. /\ call[t] = NoCall /\ phase[t] = "idle" /\ request[t] = "none"
        /\ wanted[t] = None /\ code[t] = 0 /\ runs[t] = 0
    BY DEF ApiInit, Init
  <2>2. NoCall.pc = "idle" /\ NoCall.aim = "spot" /\ NoCall.verification = "none"
    BY DEF NoCall
  <2>3. HandlerInv(t)
    BY <2>1 DEF HandlerInv
  <2> QED
    BY <2>1, <2>2, <2>3, UnknownBin DEF ThreadInv, GripInv, HonestInv, PlanInv
<1> QED
  BY <1>1, <1>2, <1>3, <1>4, <1>5 DEF ApiInv

LEMMA ApiStepInv == ApiInv /\ [ApiNext]_apiVars => ApiInv'
<1> SUFFICES ASSUME ApiInv, [ApiNext]_apiVars PROVE ApiInv'
  OBVIOUS
<1>0. /\ LockInv' /\ LockInv /\ CellInv /\ TypesInv /\ BinsHoldOrders
      /\ phase \in [Callers -> Phases]
  BY LockStep DEF ApiInv, LockInv
<1>1. ASSUME NEW t \in Callers, NEW o \in Orders, ReceiveOrder(t, o)
      PROVE  ApiInv'
  BY <1>0, <1>1, ReadKeeps DEF ReceiveOrder, Requests
<1>2. ASSUME NEW t \in Callers, NEW r \in Requests \ {"none", "order"}, ReceiveOther(t, r)
      PROVE  ApiInv'
  <2> DEFINE n == CodeOf(r)
  <2>1. n \in {200, 413, 422}
    BY DEF CodeOf, Requests
  <2>2. /\ Read(t, r, None) /\ phase' = [phase EXCEPT ![t] = "reply"]
        /\ code' = [code EXCEPT ![t] = n]
    BY <1>2 DEF ReceiveOther
  <2> HIDE DEF n
  <2>3. /\ n \in Nat /\ n \in {200, 400, 413, 422} /\ r # "order"
        /\ r \in Requests \ {"none"} /\ "reply" \in {"wait", "reply"}
        /\ None \in Orders \cup {None}
    BY <2>1
  <2> QED
    BY <1>0, <2>2, <2>3, ReadKeeps
<1>3. ASSUME NEW t \in Callers, Misread(t) PROVE ApiInv'
  <2>1. /\ Read(t, "invalid", None) /\ phase' = [phase EXCEPT ![t] = "reply"]
        /\ code' = [code EXCEPT ![t] = 400]
    BY <1>3 DEF Misread
  <2>2. /\ 400 \in Nat /\ 400 \in {200, 400, 413, 422} /\ "invalid" # "order"
        /\ "invalid" \in Requests \ {"none"} /\ "reply" \in {"wait", "reply"}
        /\ None \in Orders \cup {None}
    BY DEF Requests
  <2> QED
    BY <1>0, <2>1, <2>2, ReadKeeps
<1>4. ASSUME NEW t \in Callers, Acquire(t) PROVE ApiInv'
  <2>1. /\ UNCHANGED <<call, held, where, sent, request, wanted, code, runs>>
        /\ phase[t] = "wait" /\ phase' = [phase EXCEPT ![t] = "locked"]
    BY <1>4 DEF Acquire, vars, world
  <2>2. HandlerInv(t)'
    BY <1>0, <2>1 DEF ApiInv, ThreadInv, HandlerInv
  <2>3. TypesInv'
    BY <1>0, <2>1 DEF TypesInv
  <2> QED
    BY <1>0, <2>1, <2>2, <2>3, HandlerKeeps
<1>5. ASSUME NEW t \in Callers, CallRunner(t) PROVE ApiInv'
  <2>1. /\ phase[t] = "locked" /\ phase' = [phase EXCEPT ![t] = "run"]
        /\ runs' = [runs EXCEPT ![t] = @ + 1]
        /\ UNCHANGED <<request, wanted, code>>
    BY <1>5 DEF CallRunner
  <2>2. PICK v \in BOOLEAN : StartWith(t, wanted[t], v)
    BY <1>5 DEF CallRunner, Start, VerifierGiven
  <2>3. /\ HandlerInv(t) /\ wanted[t] \in Orders /\ request[t] = "order"
        /\ code[t] = 0 /\ runs[t] = 0
    BY <2>1 DEF ApiInv, ThreadInv, HandlerInv
  <2>4. TableInv(t)
    BY <1>0 DEF ApiInv, ThreadInv, TableInv
  <2>5. TableInv(t)' /\ HonestInv(t)'
    BY <2>2, <2>3, <2>4, StartKeeps, StartHonest DEF TableInv, CellInv
  <2>6. /\ Local(t) /\ call'[t].pc = "resolve" /\ call'[t].order = wanted[t]
        /\ call'[t].aim = "spot"
    BY <2>2, <2>3, <2>4, StartCall DEF TableInv, CellInv
  <2>7. BinsLeftAlone /\ sent \subseteq sent'
    BY <2>2 DEF StartWith, world, BinsLeftAlone
  <2>8. \A d \in Callers \ {t} :
           /\ ~Busy(d)
           /\ phase'[d] = phase[d] /\ request'[d] = request[d]
           /\ wanted'[d] = wanted[d] /\ code'[d] = code[d] /\ runs'[d] = runs[d]
    BY <1>0, <2>1 DEF LockInv, Inside, TypesInv
  <2>9. HandlerInv(t)'
    <3>1. phase'[t] = "run" /\ runs'[t] = 1
      BY <1>0, <2>1, <2>3 DEF TypesInv
    <3> QED
      BY <2>1, <2>3, <2>6, <3>1 DEF HandlerInv
  <2>10. ThreadInv(t)'
    BY <2>5, <2>6, <2>9, UnknownBin DEF ThreadInv, TableInv, PlanInv
  <2>11. TypesInv'
    BY <1>0, <2>1 DEF TypesInv
  <2> QED
    BY <1>0, <2>5, <2>6, <2>7, <2>8, <2>10, <2>11, OthersKeep DEF ApiInv, TableInv
<1>6. ASSUME NEW t \in Callers, RunnerRaises(t) PROVE ApiInv'
  <2>1. /\ phase[t] = "locked" /\ phase' = [phase EXCEPT ![t] = "crash"]
        /\ code' = [code EXCEPT ![t] = 500]
        /\ runs' = [runs EXCEPT ![t] = @ + 1]
        /\ UNCHANGED <<call, held, where, sent, request, wanted>>
    BY <1>6 DEF RunnerRaises, vars, world
  <2>2. TypesInv'
    BY <1>0, <2>1 DEF TypesInv
  <2>3. HandlerInv(t)'
    <3>1. /\ phase'[t] = "crash" /\ runs'[t] = runs[t] + 1 /\ code'[t] = 500
      BY <1>0, <2>1 DEF TypesInv
    <3>2. HandlerInv(t)
      BY DEF ApiInv, ThreadInv
    <3> QED
      BY <2>1, <3>1, <3>2 DEF HandlerInv
  <2> QED
    BY <1>0, <2>1, <2>2, <2>3, HandlerKeeps DEF TypesInv
<1>7. ASSUME NEW t \in Callers, RunnerStep(t) PROVE ApiInv'
  <2>1. /\ phase[t] = "run" /\ Step(t)
        /\ UNCHANGED <<phase, request, wanted, code, runs>>
    BY <1>7 DEF RunnerStep, http
  <2>2. TableInv(t) /\ HonestInv(t) /\ HandlerInv(t) /\ PlanInv(t)
    BY <1>0 DEF ApiInv, ThreadInv, TableInv
  <2>3. /\ TableInv(t)' /\ HonestInv(t)' /\ PlanInv(t)'
        /\ Local(t) /\ call'[t].order = call[t].order /\ call'[t].pc # "idle"
        /\ BinsLeftAlone /\ sent \subseteq sent'
    BY <2>1, <2>2, RunnerKeeps
  <2>4. HandlerInv(t)'
    BY <2>1, <2>2, <2>3 DEF HandlerInv
  <2>5. \A d \in Callers \ {t} : ~Busy(d)
    BY <1>0, <2>1 DEF LockInv, Inside
  <2>6. \A d \in Callers \ {t} : ThreadInv(d)'
    BY <2>1, <2>3, <2>5, OthersKeep
  <2>7. ThreadInv(t)' /\ CellInv' /\ BinsHoldOrders' /\ TypesInv'
    BY <1>0, <2>1, <2>3, <2>4 DEF ThreadInv, TableInv, TypesInv
  <2> QED
    BY <1>0, <2>6, <2>7 DEF ApiInv
<1>8. ASSUME NEW t \in Callers, RunnerReturns(t) PROVE ApiInv'
  <2>1. /\ phase[t] = "run" /\ phase' = [phase EXCEPT ![t] = "reply"]
        /\ call[t].pc = "returned"
        /\ code' = [code EXCEPT ![t] = OutcomeCode(call[t].status)]
        /\ UNCHANGED <<call, held, where, sent, request, wanted, runs>>
    BY <1>8 DEF RunnerReturns, vars, world
  <2>2. OutcomeCode(call[t].status) \in Nat
    BY DEF OutcomeCode
  <2>3. TypesInv'
    BY <1>0, <2>1, <2>2 DEF TypesInv
  <2>4. HandlerInv(t)'
    <3>1. /\ phase'[t] = "reply" /\ code'[t] = OutcomeCode(call'[t].status)
      BY <1>0, <2>1 DEF TypesInv
    <3>2. HandlerInv(t)
      BY DEF ApiInv, ThreadInv
    <3> QED
      BY <2>1, <3>1, <3>2 DEF HandlerInv
  <2> QED
    BY <1>0, <2>1, <2>3, <2>4, HandlerKeeps DEF TypesInv
<1>9. ASSUME NEW t \in Callers, Write(t) PROVE ApiInv'
  <2>1. PICK p \in {"done", "dropped"} : phase' = [phase EXCEPT ![t] = p]
    BY <1>9 DEF Write
  <2>2. /\ phase[t] \in {"reply", "crash"}
        /\ UNCHANGED <<call, held, where, sent, request, wanted, code, runs>>
    BY <1>9 DEF Write, vars, world
  <2>3. TypesInv'
    BY <1>0, <2>2 DEF TypesInv
  <2>4. HandlerInv(t)'
    <3>1. phase'[t] = p
      BY <1>0, <2>1
    <3>2. HandlerInv(t)
      BY DEF ApiInv, ThreadInv
    <3> QED
      BY <2>2, <3>1, <3>2 DEF HandlerInv
  <2> QED
    BY <1>0, <2>1, <2>2, <2>3, <2>4, HandlerKeeps
<1>10. CASE UNCHANGED apiVars
  <2>1. UNCHANGED <<call, held, where, sent, phase, request, wanted, code, runs>>
    BY <1>10 DEF apiVars, vars, world, http
  <2>2. CellInv' /\ BinsHoldOrders' /\ TypesInv'
    BY <1>0, <2>1 DEF CellInv, BinsHoldOrders, TypesInv
  <2>3. \A t \in Callers : ThreadInv(t)'
    BY <2>1 DEF ApiInv, ThreadInv, GripInv, HonestInv, HandlerInv, PlanInv
  <2> QED
    BY <1>0, <2>2, <2>3 DEF ApiInv
<1> QED
  BY <1>1, <1>2, <1>3, <1>4, <1>5, <1>6, <1>7, <1>8, <1>9, <1>10 DEF ApiNext, Handle

\* A reply says what happened, and stays true while later orders are run: a
\* 200 is an order whose bin holds what the verifier took for its item, if it
\* could be verified, a 409 one that was run and failed, anything else moved
\* nothing.
THEOREM RepliesCorrect == ApiSpec => []ReplyIsTrue
<1>1. ApiInv => ReplyIsTrue
  <2> SUFFICES ASSUME ApiInv, NEW t \in Callers
               PROVE  /\ request[t] # "order" => runs[t] = 0
                      /\ runs[t] <= 1
                      /\ code[t] = 200 /\ request[t] = "order" =>
                           /\ runs[t] = 1 /\ call[t].order = wanted[t]
                           /\ call[t].status = "fulfilled"
                           /\ call[t].verify =>
                                /\ call[t].seen \in Items
                                /\ where[call[t].seen] = wanted[t].bin
                      /\ code[t] = 409 => runs[t] = 1 /\ call[t].status = "failed"
                      /\ code[t] \in {400, 413, 422, 500} => call[t] = NoCall
    BY DEF ReplyIsTrue
  <2>1. HandlerInv(t) /\ HonestInv(t) /\ phase[t] \in Phases
    BY DEF ApiInv, ThreadInv, LockInv
  <2>2. call[t].status \in {"fulfilled", "failed"}
    BY CallFields DEF ApiInv, CellInv
  <2>3. CASE request[t] # "order"
    BY <2>1, <2>3 DEF HandlerInv
  <2>4. CASE request[t] = "order"
    <3>1. CASE phase[t] \in {"wait", "locked", "run"}
      <4>1. code[t] = 0 /\ runs[t] \in {0, 1}
        BY <2>1, <2>4, <3>1 DEF HandlerInv
      <4> QED
        BY <2>4, <4>1
    <3>3. CASE code[t] = 500 /\ runs[t] = 1 /\ call[t] = NoCall
      BY <2>4, <3>3
    <3>2. CASE /\ runs[t] = 1 /\ call[t].pc = "returned" /\ call[t].order = wanted[t]
               /\ code[t] = OutcomeCode(call[t].status)
      BY <2>1, <2>2, <2>4, <3>2 DEF OutcomeCode, HonestInv
    <3> QED
      BY <2>1, <2>4, <3>1, <3>2, <3>3 DEF HandlerInv, Phases
  <2> QED
    BY <2>3, <2>4
<1> QED
  BY <1>1, ApiInitInv, ApiStepInv, PTL DEF ApiSpec

\* No item ends in a bin nobody meant it for, whatever requests come at once.
THEOREM ApiBinsCorrect == ApiSpec => []BinsHoldOrders
<1>1. ApiInv => BinsHoldOrders
  BY DEF ApiInv
<1> QED
  BY <1>1, ApiInitInv, ApiStepInv, PTL DEF ApiSpec
---------------------------------------------------------------------------
(* The types of the webhook's state. *)

WorldTypes ==
  /\ arm \in {"rest", "pick", "bin", "between"}
  /\ AlertsOK

HttpTypes ==
  /\ code \in [Callers -> {0, 200, 400, 409, 413, 422, 500}]
  /\ spoiled \subseteq Callers
  /\ served \in 0..MaxRequests

LEMMA StepKeepsTheWorld ==
  ASSUME WorldTypes, NEW t \in Callers, Step(t)
  PROVE  WorldTypes'
<1>1. arm' \in {"rest", "pick", "bin", "between"}
  BY DEF WorldTypes, Step, Resolve, ResolveAs, ResolveFails, Move, MoveFails, Verify,
         VerifyAs, Alert, AlertFails, ArmAfter, world
<1>2. AlertKind(t) \in {"order_fulfilled", "order_failed"}
  BY DEF AlertKind
<1>3. \/ alerts' = alerts
      \/ alerts' = [alerts EXCEPT ![t] = @ \cup {AlertKind(t)}]
  BY DEF Step, Resolve, ResolveAs, ResolveFails, Move, MoveFails, Verify,
         VerifyAs, Alert, AlertFails
<1> QED
  BY <1>1, <1>2, <1>3 DEF WorldTypes, AlertsOK

LEMMA StartKeepsTheWorld ==
  ASSUME WorldTypes, NEW t \in Callers, NEW o, Start(t, o)
  PROVE  WorldTypes'
BY DEF WorldTypes, AlertsOK, Start, StartWith, world

LEMMA ReadKeepsTheTypes ==
  ASSUME WorldTypes, HttpTypes, NEW t \in Callers, NEW r, NEW o, Read(t, r, o)
  PROVE  /\ WorldTypes'
         /\ /\ code' \in [Callers -> {0, 200, 400, 409, 413, 422, 500}]
            /\ spoiled' \subseteq Callers
            => HttpTypes'
<1>1. WorldTypes'
  BY DEF WorldTypes, AlertsOK, Read, world
<1>2. served' \in 0..MaxRequests
  BY WebhookAssumption DEF HttpTypes, Read
<1> QED
  BY <1>1, <1>2 DEF HttpTypes

LEMMA TypesKept ==
  ASSUME WorldTypes, HttpTypes, [ApiNext]_apiVars
  PROVE  WorldTypes' /\ HttpTypes'
<1>1. ASSUME UNCHANGED <<arm, alerts>> PROVE WorldTypes'
  BY <1>1 DEF WorldTypes, AlertsOK
<1>2. ASSUME UNCHANGED <<code, spoiled, served>> PROVE HttpTypes'
  BY <1>2 DEF HttpTypes
<1>3. ASSUME NEW t \in Callers, NEW o \in Orders, ReceiveOrder(t, o)
      PROVE  WorldTypes' /\ HttpTypes'
  <2>1. /\ Read(t, "order", o)
        /\ code' = [code EXCEPT ![t] = 0] /\ spoiled' = spoiled
    BY <1>3 DEF ReceiveOrder
  <2>2. code' \in [Callers -> {0, 200, 400, 409, 413, 422, 500}] /\ spoiled' \subseteq Callers
    BY <2>1 DEF HttpTypes
  <2> QED
    BY <2>1, <2>2, ReadKeepsTheTypes
<1>4. ASSUME NEW t \in Callers, NEW r \in Requests \ {"none", "order"}, ReceiveOther(t, r)
      PROVE  WorldTypes' /\ HttpTypes'
  <2> DEFINE n == CodeOf(r)
  <2>1. n \in {200, 413, 422}
    BY DEF CodeOf, Requests
  <2>2. /\ Read(t, r, None) /\ code' = [code EXCEPT ![t] = n]
        /\ spoiled' \subseteq spoiled \cup {t}
    BY <1>4 DEF ReceiveOther
  <2> HIDE DEF n
  <2>3. code' \in [Callers -> {0, 200, 400, 409, 413, 422, 500}] /\ spoiled' \subseteq Callers
    BY <2>1, <2>2 DEF HttpTypes
  <2> QED
    BY <2>2, <2>3, ReadKeepsTheTypes
<1>5. ASSUME NEW t \in Callers, Misread(t)
      PROVE  WorldTypes' /\ HttpTypes'
  <2>1. /\ Read(t, "invalid", None) /\ code' = [code EXCEPT ![t] = 400]
        /\ spoiled' \subseteq spoiled \cup {t}
    BY <1>5 DEF Misread
  <2>2. code' \in [Callers -> {0, 200, 400, 409, 413, 422, 500}] /\ spoiled' \subseteq Callers
    BY <2>1 DEF HttpTypes
  <2> QED
    BY <2>1, <2>2, ReadKeepsTheTypes
<1>6. ASSUME NEW t \in Callers, Acquire(t) \/ Write(t)
      PROVE  WorldTypes' /\ HttpTypes'
  BY <1>1, <1>2, <1>6 DEF Acquire, Write, vars, world, connection
<1>7. ASSUME NEW t \in Callers, CallRunner(t)
      PROVE  WorldTypes' /\ HttpTypes'
  <2>1. Start(t, wanted[t]) /\ UNCHANGED <<code, spoiled, served>>
    BY <1>7 DEF CallRunner, connection
  <2> QED
    BY <1>2, <2>1, StartKeepsTheWorld
<1>8. ASSUME NEW t \in Callers, RunnerStep(t)
      PROVE  WorldTypes' /\ HttpTypes'
  <2>1. Step(t) /\ UNCHANGED <<code, spoiled, served>>
    BY <1>8 DEF RunnerStep, http, connection
  <2> QED
    BY <1>2, <2>1, StepKeepsTheWorld
<1>9. ASSUME NEW t \in Callers, RunnerRaises(t) \/ RunnerReturns(t)
      PROVE  WorldTypes' /\ HttpTypes'
  <2>1. UNCHANGED <<arm, alerts, spoiled, served>>
    BY <1>9 DEF RunnerRaises, RunnerReturns, vars, world, connection
  <2>2. PICK n \in {200, 409, 500} : code' = [code EXCEPT ![t] = n]
    BY <1>9 DEF RunnerRaises, RunnerReturns, OutcomeCode
  <2>3. HttpTypes'
    BY <2>1, <2>2 DEF HttpTypes
  <2> QED
    BY <1>1, <2>1, <2>3
<1>10. CASE UNCHANGED apiVars
  BY <1>1, <1>2, <1>10 DEF apiVars, vars, world, http, connection
<1> QED
  BY <1>3, <1>4, <1>5, <1>6, <1>7, <1>8, <1>9, <1>10 DEF ApiNext, Handle

\* The types of the webhook's state: among them that a status is one of the
\* handler's and that an item is held exactly if the gripper holds it, however
\* many threads there are.
THEOREM ApiTypes == ApiSpec => []ApiTypeOK
<1>1. ApiInit => WorldTypes /\ HttpTypes
  BY WebhookAssumption DEF ApiInit, Init, WorldTypes, AlertsOK, HttpTypes
<1>2. ApiInv /\ WorldTypes /\ HttpTypes => ApiTypeOK
  <2> SUFFICES ASSUME ApiInv, WorldTypes, HttpTypes PROVE ApiTypeOK
    OBVIOUS
  <2>1. TypeOK
    BY DEF ApiInv, CellInv, MeantPairs, WorldTypes, AlertsOK, TypeOK
  <2> QED
    BY <2>1 DEF ApiInv, LockInv, TypesInv, HttpTypes, ApiTypeOK
<1> QED
  BY <1>1, <1>2, ApiInitInv, ApiStepInv, TypesKept, PTL DEF ApiSpec
---------------------------------------------------------------------------
(* What the warehouse sees of the webhook is SerialCell. *)

\* A request that is answered has a fate; one that waits for the lock has none.
LEMMA FateOfAThread ==
  ASSUME ApiInv, NEW t \in Callers
  PROVE  /\ request[t] # "order" => wanted[t] = None /\ SeenFate[t] = "none"
         /\ request[t] = "order" => wanted[t] \in Orders
         /\ request[t] = "order" /\ phase[t] \in {"wait", "locked"} => SeenFate[t] = "none"
         /\ request[t] = "order" /\ phase[t] \in {"reply", "done"} => SeenFate[t] # "none"
         /\ phase[t] = "idle" => request[t] # "order"
         /\ phase[t] \in {"locked", "run"} => request[t] = "order"
<1>1. HandlerInv(t)
  BY DEF ApiInv, ThreadInv
<1>2. SeenFate[t] = IF request[t] # "order" THEN "none"
                    ELSE IF phase[t] = "run" THEN "working" ELSE FateOf(code[t])
  BY DEF SeenFate
<1>3. request[t] # "order" => wanted[t] = None /\ SeenFate[t] = "none"
  BY <1>1, <1>2 DEF HandlerInv
<1>4. ASSUME request[t] = "order", phase[t] \in {"wait", "locked"}
      PROVE  SeenFate[t] = "none"
  <2>1. code[t] = 0
    BY <1>1, <1>4 DEF HandlerInv
  <2> QED
    BY <1>2, <1>4, <2>1 DEF FateOf
<1>5. ASSUME request[t] = "order", phase[t] \in {"reply", "done"}
      PROVE  SeenFate[t] # "none"
  <2>1. code[t] \in {200, 409, 500}
    BY <1>1, <1>5 DEF HandlerInv, OutcomeCode
  <2> QED
    BY <1>2, <1>5, <2>1 DEF FateOf
<1> QED
  BY <1>1, <1>3, <1>4, <1>5 DEF HandlerInv

\* The thread that runs an order is the one that is seen at work.
LEMMA BusyThread ==
  ASSUME LockInv
  PROVE  /\ \A t \in Callers : phase[t] = "run" <=> SeenBusy = t
         /\ SeenBusy = None <=> \A t \in Callers : phase[t] # "run"
         /\ SeenBusy \in Callers \cup {None}
BY CellAssumption DEF LockInv, Inside, SeenBusy

\* A step that leaves alone what is seen of the other threads.
LEMMA FateOfTheOthers ==
  ASSUME NEW t \in Callers,
         \A d \in Callers \ {t} :
           phase'[d] = phase[d] /\ request'[d] = request[d] /\ code'[d] = code[d]
  PROVE  SeenFate' = [SeenFate EXCEPT ![t] = SeenFate'[t]]
<1>1. \A d \in Callers \ {t} : SeenFate'[d] = SeenFate[d]
  BY DEF SeenFate
<1>2. SeenFate' = [d \in Callers |-> SeenFate'[d]] /\ DOMAIN SeenFate = Callers
  BY DEF SeenFate
<1> HIDE DEF SeenFate
<1> QED
  BY <1>1, <1>2
\* The same of the state after a step.
LEMMA BusyThreadThen ==
  ASSUME LockInv'
  PROVE  /\ \A t \in Callers : phase'[t] = "run" <=> SeenBusy' = t
         /\ SeenBusy' = None <=> \A t \in Callers : phase'[t] # "run"
         /\ SeenBusy' \in Callers \cup {None}
BY CellAssumption DEF LockInv, Inside, SeenBusy

LEMMA CellInitMaps == ApiInit => Cell!CellInit
<1> SUFFICES ASSUME ApiInit PROVE Cell!CellInit
  OBVIOUS
<1>1. SeenBusy = None /\ SeenFate = [t \in Callers |-> "none"]
  BY DEF ApiInit, SeenBusy, SeenFate
<1>2. wanted = [t \in Callers |-> None] /\ where = [i \in Items |-> "spot"]
  BY DEF ApiInit, Init
<1> QED
  BY <1>1, <1>2 DEF Cell!CellInit

\* A request is read: the client asks.
LEMMA ReadIsAsk ==
  ASSUME NEW t \in Callers, NEW r \in Requests, NEW o \in Orders \cup {None},
         NEW p \in {"wait", "reply"}, ApiInv, ApiInv', Read(t, r, o),
         phase' = [phase EXCEPT ![t] = p],
         \A d \in Callers \ {t} : code'[d] = code[d],
         r = "order" => p = "wait"
  PROVE  Cell!CellNext
<1>1. /\ phase[t] \in {"idle", "done"} /\ request' = [request EXCEPT ![t] = r]
      /\ wanted' = [wanted EXCEPT ![t] = o] /\ UNCHANGED <<where, lock>>
  BY DEF Read, world
<1>2. /\ LockInv /\ LockInv' /\ phase \in [Callers -> Phases]
      /\ request \in [Callers -> Requests]
  BY DEF ApiInv, LockInv, TypesInv
<1>3. phase'[t] = p /\ request'[t] = r
  BY <1>1, <1>2
<1>4. SeenFate'[t] = "none"
  <2>1. HandlerInv(t)'
    BY DEF ApiInv, ThreadInv
  <2>2. r = "order" => code'[t] = 0
    BY <1>3, <2>1 DEF HandlerInv
  <2> QED
    BY <1>3, <2>2 DEF SeenFate, FateOf
<1>5. SeenFate' = [SeenFate EXCEPT ![t] = "none"]
  BY <1>1, <1>2, <1>4, FateOfTheOthers
<1>6. SeenBusy # t /\ SeenBusy' = SeenBusy
  BY <1>1, <1>2, <1>3, CellAssumption DEF LockInv, Inside, SeenBusy
<1>7. wanted[t] = None \/ SeenFate[t] # "none"
  BY <1>1, FateOfAThread
<1>8. Cell!Ask(t, o)
  BY <1>1, <1>5, <1>6, <1>7 DEF Cell!Ask
<1> QED
  BY <1>8 DEF Cell!CellNext

\* A step of a handler that the warehouse does not see.
LEMMA NothingSeen ==
  ASSUME ApiInv, UNCHANGED <<request, wanted, where>>,
         \A t \in Callers : SeenFate'[t] = SeenFate[t],
         SeenBusy' = SeenBusy
  PROVE  UNCHANGED Cell!cellVars
<1>1. SeenFate' = SeenFate
  <2>1. /\ SeenFate = [t \in Callers |-> SeenFate[t]]
        /\ SeenFate' = [t \in Callers |-> SeenFate'[t]]
    BY DEF SeenFate
  <2> QED
    BY <2>1
<1> QED
  BY <1>1 DEF Cell!cellVars

LEMMA CellStepMaps ==
  ApiInv /\ ApiInv' /\ [ApiNext]_apiVars => [Cell!CellNext]_(Cell!cellVars)
<1> SUFFICES ASSUME ApiInv, ApiInv', [ApiNext]_apiVars
             PROVE  Cell!CellNext \/ UNCHANGED Cell!cellVars
  OBVIOUS
<1>0. /\ LockInv /\ LockInv' /\ phase \in [Callers -> Phases] /\ CellInv' /\ TypesInv
  BY DEF ApiInv, LockInv
<1>1. ASSUME NEW t \in Callers, NEW o \in Orders, ReceiveOrder(t, o)
      PROVE  Cell!CellNext
  <2>1. /\ Read(t, "order", o) /\ phase' = [phase EXCEPT ![t] = "wait"]
        /\ "order" \in Requests /\ "wait" \in {"wait", "reply"}
    BY <1>1 DEF ReceiveOrder, Requests
  <2>2. \A d \in Callers \ {t} : code'[d] = code[d]
    BY <1>0, <1>1 DEF ReceiveOrder, TypesInv
  <2> QED
    BY <2>1, <2>2, ReadIsAsk
<1>2. ASSUME NEW t \in Callers, NEW r \in Requests \ {"none", "order"}, ReceiveOther(t, r)
      PROVE  Cell!CellNext
  <2>1. /\ Read(t, r, None) /\ phase' = [phase EXCEPT ![t] = "reply"]
        /\ r # "order" /\ "reply" \in {"wait", "reply"} /\ None \in Orders \cup {None}
    BY <1>2 DEF ReceiveOther
  <2>2. \A d \in Callers \ {t} : code'[d] = code[d]
    <3> DEFINE n == CodeOf(r)
    <3>1. code' = [code EXCEPT ![t] = n]
      BY <1>2 DEF ReceiveOther
    <3> HIDE DEF n
    <3> QED
      BY <1>0, <3>1 DEF TypesInv
  <2> QED
    BY <2>1, <2>2, ReadIsAsk
<1>3. ASSUME NEW t \in Callers, Misread(t) PROVE Cell!CellNext
  <2>1. /\ Read(t, "invalid", None) /\ phase' = [phase EXCEPT ![t] = "reply"]
        /\ "invalid" # "order" /\ "invalid" \in Requests
        /\ "reply" \in {"wait", "reply"} /\ None \in Orders \cup {None}
    BY <1>3 DEF Misread, Requests
  <2>2. \A d \in Callers \ {t} : code'[d] = code[d]
    BY <1>0, <1>3 DEF Misread, TypesInv
  <2> QED
    BY <2>1, <2>2, ReadIsAsk
<1>4. ASSUME NEW t \in Callers, Acquire(t) PROVE UNCHANGED Cell!cellVars
  <2>1. /\ UNCHANGED <<where, request, wanted, code>> /\ lock = None
        /\ phase[t] = "wait" /\ phase' = [phase EXCEPT ![t] = "locked"]
    BY <1>4 DEF Acquire, vars, world
  <2>2. \A d \in Callers : phase'[d] = "run" <=> phase[d] = "run"
    BY <1>0, <2>1
  <2>3. \A d \in Callers : SeenFate'[d] = SeenFate[d]
    BY <2>1, <2>2 DEF SeenFate
  <2>4. SeenBusy' = SeenBusy
    BY <1>0, <2>2, BusyThread, BusyThreadThen
  <2> QED
    BY <2>1, <2>3, <2>4, NothingSeen
<1>5. ASSUME NEW t \in Callers, CallRunner(t) PROVE Cell!CellNext
  <2>1. /\ phase[t] = "locked" /\ phase' = [phase EXCEPT ![t] = "run"]
        /\ UNCHANGED <<where, request, wanted, code>>
    BY <1>5 DEF CallRunner, Start, StartWith, world
  <2>2. /\ request[t] = "order" /\ wanted[t] \in Orders /\ SeenFate[t] = "none"
    BY <2>1, FateOfAThread
  <2>3. SeenBusy = None /\ SeenBusy' = t
    BY <1>0, <2>1, CellAssumption DEF LockInv, Inside, SeenBusy
  <2>4. SeenFate'[t] = "working"
    BY <1>0, <2>1, <2>2 DEF SeenFate
  <2>5. SeenFate' = [SeenFate EXCEPT ![t] = "working"]
    BY <1>0, <2>1, <2>4, FateOfTheOthers
  <2>6. Cell!Begin(t)
    BY <2>1, <2>2, <2>3, <2>5, CellAssumption DEF Cell!Begin
  <2> QED
    BY <2>6 DEF Cell!CellNext
<1>6. ASSUME NEW t \in Callers, RunnerRaises(t) PROVE Cell!CellNext
  <2>1. /\ phase[t] = "locked" /\ phase' = [phase EXCEPT ![t] = "crash"]
        /\ code' = [code EXCEPT ![t] = 500]
        /\ UNCHANGED <<where, request, wanted, lock>>
    BY <1>6 DEF RunnerRaises, vars, world
  <2>2. /\ request[t] = "order" /\ wanted[t] \in Orders /\ SeenFate[t] = "none"
    BY <2>1, FateOfAThread
  <2>3. SeenBusy = None /\ SeenBusy' = None
    BY <1>0, <2>1, CellAssumption DEF LockInv, Inside, SeenBusy
  <2>4. phase'[t] = "crash" /\ code'[t] = 500
    BY <1>0, <2>1 DEF TypesInv
  <2>5. SeenFate'[t] = "crashed"
    BY <2>1, <2>2, <2>4 DEF SeenFate, FateOf
  <2>6. SeenFate' = [SeenFate EXCEPT ![t] = "crashed"]
    BY <1>0, <2>1, <2>5, FateOfTheOthers DEF TypesInv
  <2>7. Cell!Crash(t)
    BY <2>1, <2>2, <2>3, <2>6, CellAssumption DEF Cell!Crash
  <2> QED
    BY <2>7 DEF Cell!CellNext
<1>7. ASSUME NEW t \in Callers, RunnerStep(t) PROVE Cell!CellNext
  <2>1. /\ phase[t] = "run" /\ Step(t) /\ UNCHANGED <<lock, phase, request, wanted, code>>
    BY <1>7 DEF RunnerStep, http
  <2>2. TableInv(t) /\ HonestInv(t) /\ HandlerInv(t) /\ PlanInv(t)
    BY DEF ApiInv, ThreadInv, TableInv
  <2>3. OnlyTheOrdered(t)
    BY <2>1, <2>2, RunnerKeeps
  <2>4. call[t].order = wanted[t]
    BY <2>1, <2>2 DEF HandlerInv
  <2>5. SeenBusy = t /\ SeenBusy' = SeenBusy /\ SeenFate' = SeenFate
    BY <1>0, <2>1, BusyThread DEF SeenBusy, SeenFate
  <2>6. Cell!Work
    BY <1>0, <2>1, <2>3, <2>4, <2>5, CellAssumption DEF Cell!Work, OnlyTheOrdered, CellInv
  <2> QED
    BY <2>6 DEF Cell!CellNext
<1>8. ASSUME NEW t \in Callers, RunnerReturns(t) PROVE Cell!CellNext
  <2> DEFINE n == OutcomeCode(call[t].status)
  <2>1. /\ phase[t] = "run" /\ phase' = [phase EXCEPT ![t] = "reply"]
        /\ code' = [code EXCEPT ![t] = n] /\ lock' = None
        /\ UNCHANGED <<where, request, wanted>>
    BY <1>8 DEF RunnerReturns, vars, world
  <2>2. n \in {200, 409}
    BY DEF OutcomeCode
  <2> HIDE DEF n
  <2>3. /\ request[t] = "order"
    BY <2>1, FateOfAThread
  <2>4. SeenBusy = t /\ SeenBusy' = None
    BY <1>0, <2>1, BusyThread DEF SeenBusy
  <2>5. phase'[t] = "reply" /\ code'[t] = n
    BY <1>0, <2>1 DEF TypesInv
  <2>6. SeenFate'[t] \in {"fulfilled", "failed"}
    BY <2>1, <2>2, <2>3, <2>5 DEF SeenFate, FateOf
  <2>7. SeenFate' = [SeenFate EXCEPT ![t] = SeenFate'[t]]
    BY <1>0, <2>1, FateOfTheOthers DEF TypesInv
  <2>8. Cell!End(t)
    BY <2>1, <2>4, <2>6, <2>7 DEF Cell!End
  <2> QED
    BY <2>8 DEF Cell!CellNext
<1>9. ASSUME NEW t \in Callers, Write(t) PROVE UNCHANGED Cell!cellVars
  <2>1. PICK p \in {"done", "dropped"} : phase' = [phase EXCEPT ![t] = p]
    BY <1>9 DEF Write
  <2>2. /\ phase[t] \in {"reply", "crash"} /\ UNCHANGED <<where, request, wanted, code>>
    BY <1>9 DEF Write, vars, world
  <2>3. \A d \in Callers : phase'[d] = "run" <=> phase[d] = "run"
    BY <1>0, <2>1, <2>2
  <2>4. \A d \in Callers : SeenFate'[d] = SeenFate[d]
    BY <2>2, <2>3 DEF SeenFate
  <2>5. SeenBusy' = SeenBusy
    BY <1>0, <2>3, BusyThread, BusyThreadThen
  <2> QED
    BY <2>2, <2>4, <2>5, NothingSeen
<1>10. CASE UNCHANGED apiVars
  <2>1. UNCHANGED <<where, request, wanted, SeenBusy, SeenFate>>
    BY <1>10 DEF apiVars, vars, world, http, SeenBusy, SeenFate
  <2> QED
    BY <2>1 DEF Cell!cellVars
<1> QED
  BY <1>1, <1>2, <1>3, <1>4, <1>5, <1>6, <1>7, <1>8, <1>9, <1>10 DEF ApiNext, Handle

\* The threads, the lock and the replies amount to a cell that works on one
\* order at a time, on each at most once, and brings into a bin only what was
\* ordered there.
THEOREM WebhookIsSerial == ApiSpec => IsSerialCell
<1>1. ApiSpec => []ApiInv
  BY ApiInitInv, ApiStepInv, PTL DEF ApiSpec
<1>2. ApiSpec => Cell!CellInit /\ [][Cell!CellNext]_(Cell!cellVars)
  BY <1>1, CellInitMaps, CellStepMaps, PTL DEF ApiSpec
<1> QED
  BY <1>2 DEF IsSerialCell, Cell!CellSpec
============================================================================
