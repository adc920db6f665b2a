--------------------------- MODULE RunOrderProofs ---------------------------
(***************************************************************************)
(* The command for every cell: whatever the items, bins, orders, number of *)
(* attempts, cameras, frames and calibration files are.                    *)
(*                                                                         *)
(* What a step of the command does to the call of main is one of the       *)
(* things FulfillOrder's actions do (MainDoes); the rest follows from what *)
(* FulfillOrderProofs says of them.  An item gets into a bin only from the *)
(* gripper, and what the gripper may hold at a release is the item of the  *)
(* order in progress: the approach of the same attempt has dropped         *)
(* whatever an earlier order had left there.                               *)
(***************************************************************************)
EXTENDS RunOrder, FulfillOrderProofs

\* What the command keeps until the order begins.
CommandInv ==
  /\ args \in [order : Orders \cup {None}, verify : BOOLEAN, perceive : BOOLEAN]
  /\ phase \in {"open", "prepare"} => args.order \in Orders

\* A step that is none of the call's.
Quiet == UNCHANGED <<call, held, where, alerts, sent>>

\* The call is forgotten, perhaps in the middle of a motion.
Forgets ==
  /\ call' = [call EXCEPT ![Main] = NoCall]
  /\ UNCHANGED <<alerts, sent>>
  /\ \/ UNCHANGED <<held, where>>
     \/ call[Main].pc = "move" /\ Effect(Main, Moves[call[Main].step])

\* Resolving, by the table or by sight, either plans the moves or fails.
Resolves ==
  /\ call[Main].pc = "resolve"
  /\ \/ \E source \in {"hardcoded", "perceived"}, item \in Items, aim \in Aims :
          ResolveAs(Main, source, item, aim)
     \/ Fail(Main) /\ UNCHANGED <<world, alerts, sent>>

Judges ==
  call[Main].pc = "verify" /\ \E item \in Items \cup {None} : VerifyAs(Main, item)

MainDoes ==
  \/ Quiet
  \/ Forgets
  \/ \E o \in Orders, v \in BOOLEAN : StartWith(Main, o, v)
  \/ Resolves
  \/ Judges
  \/ Move(Main)
  \/ MoveFails(Main)
  \/ Alert(Main)
  \/ AlertFails(Main)
---------------------------------------------------------------------------
LEMMA MainCalls == Main \in Callers
BY CommandAssumption

LEMMA MainInitially == RoInit => TableInv(Main) /\ CommandInv /\ call[Main] = NoCall
<1> SUFFICES ASSUME RoInit
             PROVE  TableInv(Main) /\ CommandInv /\ call[Main] = NoCall
  OBVIOUS
<1>1. CellInv
  BY NoCallIsCall, CellAssumption DEF RoInit, Init, CellInv
<1>2. CommandInv
  BY DEF RoInit, NoArgs, CommandInv
<1>3. call[Main] = NoCall
  BY MainCalls DEF RoInit, Init
<1>4. GripInv(Main)
  BY <1>3 DEF NoCall, GripInv
<1>5. BinsHoldOrders
  BY CellAssumption DEF RoInit, Init, BinsHoldOrders
<1> QED
  BY <1>1, <1>2, <1>3, <1>4, <1>5 DEF TableInv
---------------------------------------------------------------------------
(* The steps of the command. *)

LEMMA AimsAtAPlace ==
  ASSUME NEW i, NEW point
  PROVE  AimAt(i, point) \in Aims
BY DEF AimAt, Places, Aims

LEMMA FirstIsOne ==
  ASSUME NEW S, S \subseteq {1, 2}, S # {}
  PROVE  First(S) \in S
<1>1. \E k \in S : \A j \in S : k <= j
  <2>1. CASE 1 \in S
    <3>1. \A j \in S : 1 <= j
      OBVIOUS
    <3> QED
      BY <2>1, <3>1
  <2>2. CASE 1 \notin S
    <3>1. S = {2}
      BY <2>2
    <3> QED
      BY <3>1
  <2> QED
    BY <2>1, <2>2
<1> QED
  BY <1>1 DEF First

\* What is taken of an answer is one of its entries, and one about the item
\* asked for if there is any.
LEMMA TargetIs ==
  ASSUME NEW a, DOMAIN a \subseteq {1, 2}, NEW size, NEW i,
         NEW t \in Target(a, size, i)
  PROVE  \E k \in DOMAIN a :
           /\ a[k].kind # "malformed" /\ t = Detection(a[k], size, i)
           /\ \/ t.label = i
              \/ \A l \in DOMAIN a :
                   a[l].kind # "malformed" => Detection(a[l], size, i).label # i
<1> DEFINE dets == ParseDetections(a, size, i)
           ofItem == {k \in DOMAIN dets : dets[k].label = i}
           pool == IF ofItem = {} THEN DOMAIN dets ELSE ofItem
<1>1. t \in PickTarget(dets, i)
  BY DEF Target
<1>2. /\ DOMAIN dets = {k \in DOMAIN a : a[k].kind # "malformed"}
      /\ \A k \in DOMAIN dets : dets[k] = Detection(a[k], size, i)
  BY DEF ParseDetections
<1> HIDE DEF dets
<1>3. DOMAIN dets # {} /\ t = dets[First(pool)]
  BY <1>1 DEF PickTarget
<1>4. pool \subseteq {1, 2} /\ pool # {} /\ pool \subseteq DOMAIN dets
  BY <1>2, <1>3
<1>5. First(pool) \in pool
  <2> HIDE DEF pool
  <2> QED
    BY <1>4, FirstIsOne
<1>6. t.label = i \/ ofItem = {}
  BY <1>3, <1>5
<1> DEFINE k == First(pool)
<1>7. k \in DOMAIN a /\ a[k].kind # "malformed" /\ t = Detection(a[k], size, i)
  <2> HIDE DEF pool
  <2> QED
    BY <1>2, <1>3, <1>4, <1>5
<1> HIDE DEF k
<1> QED
  BY <1>2, <1>6, <1>7

\* An answer is about items, or about what is asked for.
Known(a) ==
  /\ DOMAIN a \subseteq {1, 2}
  /\ \A k \in DOMAIN a :
       a[k].kind # "malformed" => a[k].label \in Items \cup {NoLabel}

LEMMA AnswersKnown ==
  ASSUME NEW i \in Items, NEW d, NEW a \in Answers(i, d) \cup CannedAnswers
  PROVE  Known(a)
<1>1. Malformed.kind = "malformed"
  BY DEF Malformed
<1>2. ASSUME NEW e, NEW p, e \in Entries(i, p) PROVE e.label \in Items \cup {NoLabel}
  BY <1>2 DEF Entries, Point, Box
<1>3. ASSUME NEW e \in OtherEntries(i) PROVE e.label \in Items
  BY DEF OtherEntries, Point
<1>4. ASSUME NEW e, e.label \in Items \cup {NoLabel}, a \in {<<e>>, <<Malformed, e>>}
      PROVE  Known(a)
  <2>1. CASE a = <<e>>
    <3>1. DOMAIN a = {1} /\ a[1] = e
      BY <2>1
    <3> QED
      BY <1>4, <3>1 DEF Known
  <2>2. CASE a = <<Malformed, e>>
    <3>1. DOMAIN a = {1, 2} /\ a[1] = Malformed /\ a[2] = e
      BY <2>2
    <3> QED
      BY <1>1, <1>4, <3>1 DEF Known
  <2> QED
    BY <1>4, <2>1, <2>2
<1>5. ASSUME NEW e, NEW f, e.label \in Items, f.label \in Items \cup {NoLabel},
             a = <<e, f>>
      PROVE  Known(a)
  <2>1. DOMAIN a = {1, 2} /\ a[1] = e /\ a[2] = f
    BY <1>5
  <2> QED
    BY <1>5, <2>1 DEF Known
<1>6. CASE a = <<>>
  BY <1>6 DEF Known
<1>7. CASE a = <<Malformed>>
  <2>1. DOMAIN a = {1} /\ a[1] = Malformed
    BY <1>7
  <2> QED
    BY <1>1, <2>1 DEF Known
<1>8. CASE a \in CannedAnswers
  <2>1. ASSUME NEW j \in Items, a = <<Point(Sight(j, "spot"), j)>> PROVE Known(a)
    <3> DEFINE e == Point(Sight(j, "spot"), j)
    <3>1. e.label = j
      BY DEF Point
    <3> HIDE DEF e
    <3>2. a \in {<<e>>, <<Malformed, e>>}
      BY <2>1 DEF e
    <3> QED
      BY <1>4, <3>1, <3>2
  <2> QED
    BY <1>6, <1>8, <2>1 DEF CannedAnswers
<1>9. CASE a \in Answers(i, d)
  <2> DEFINE spots == IF d.builtin THEN Places ELSE {where[i]} \cap Places
             own == UNION {Entries(i, p) : p \in spots}
  <2>1. \A e \in own : e.label \in Items \cup {NoLabel}
    BY <1>2
  <2>0. a \in {<<>>, <<Malformed>>}
              \cup {<<e, f>> : e \in OtherEntries(i), f \in own}
              \cup UNION {{<<e>>, <<Malformed, e>>} : e \in own \cup OtherEntries(i)}
    BY <1>9 DEF Answers
  <2> HIDE DEF own
  <2>2. \/ a \in {<<>>, <<Malformed>>}
        \/ \E e \in own \cup OtherEntries(i) : a \in {<<e>>, <<Malformed, e>>}
        \/ \E e \in OtherEntries(i), f \in own : a = <<e, f>>
    BY <2>0
  <2> QED
    BY <1>3, <1>4, <1>5, <1>6, <1>7, <2>1, <2>2
<1> QED
  BY <1>8, <1>9

\* What is taken for the item asked for is an item.
LEMMA TargetIsItem ==
  ASSUME NEW i \in Items, NEW a, Known(a), NEW size, NEW t \in Target(a, size, i)
  PROVE  t.label \in Items
<1>1. DOMAIN a \subseteq {1, 2}
  BY DEF Known
<1>2. PICK k \in DOMAIN a : a[k].kind # "malformed" /\ t = Detection(a[k], size, i)
  BY <1>1, TargetIs
<1>3. a[k].label \in Items \cup {NoLabel}
  BY <1>2 DEF Known
<1> QED
  BY <1>2, <1>3 DEF Detection

LEMMA SightingsKnown ==
  ASSUME NEW i \in Items, NEW s \in Sightings(i)
  PROVE  /\ s.named \in BOOLEAN
         /\ \A f \in s.found : f.label \in Items
<1>1. ASSUME NEW a, Known(a), NEW size,
             s = [found |-> Located(a, size, i), named |-> Names(a, i)]
      PROVE  s.named \in BOOLEAN /\ \A f \in s.found : f.label \in Items
  <2>1. \A f \in Located(a, size, i) : f.label \in Items
    BY <1>1, TargetIsItem DEF Located
  <2>2. Names(a, i) \in BOOLEAN
    BY DEF Names
  <2>3. s.named = Names(a, i) /\ s.found = Located(a, size, i)
    BY <1>1
  <2> QED
    BY <2>1, <2>2, <2>3
<1>2. CASE s = [found |-> {}, named |-> TRUE]
  BY <1>2
<1>3. \/ s = [found |-> {}, named |-> TRUE]
      \/ \E a \in CannedAnswers :
           s = [found |-> Located(a, CaptureSize, i), named |-> Names(a, i)]
      \/ \E st \in Stills : \E a \in Answers(i, st.device) :
           s = [found |-> Located(a, st.size, i), named |-> Names(a, i)]
  BY DEF Sightings
<1>4. \A d : \A a \in Answers(i, d) \cup CannedAnswers : Known(a)
  BY AnswersKnown
<1> QED
  BY <1>1, <1>2, <1>3, <1>4

LEMMA VerdictsKnown ==
  ASSUME NEW o, o.item \in Items, NEW v \in Verdicts(o)
  PROVE  v.named \in BOOLEAN /\ v.placed \subseteq Items
<1>1. ASSUME NEW a, Known(a), NEW size,
             v = [placed |-> PlacedAs(a, size, o.item, Regions[o.bin]),
                  named |-> Names(a, o.item)]
      PROVE  v.named \in BOOLEAN /\ v.placed \subseteq Items
  <2>1. PlacedAs(a, size, o.item, Regions[o.bin]) \subseteq Items
    BY <1>1, TargetIsItem DEF PlacedAs
  <2>2. Names(a, o.item) \in BOOLEAN
    BY DEF Names
  <2>3. /\ v.named = Names(a, o.item)
        /\ v.placed = PlacedAs(a, size, o.item, Regions[o.bin])
    BY <1>1
  <2> QED
    BY <2>1, <2>2, <2>3
<1>2. CASE v = [placed |-> {}, named |-> TRUE]
  BY <1>2
<1>3. \/ v = [placed |-> {}, named |-> TRUE]
      \/ \E st \in Stills : \E a \in Answers(o.item, st.device) :
           v = [placed |-> PlacedAs(a, st.size, o.item, Regions[o.bin]),
                named |-> Names(a, o.item)]
  BY DEF Verdicts
<1>4. \A d : \A a \in Answers(o.item, d) : Known(a)
  BY AnswersKnown
<1> QED
  BY <1>1, <1>2, <1>3, <1>4

\* A call that looks for its item, or at its bin, looks for one on the table.
LEMMA LookedFor ==
  ASSUME TableInv(Main), call[Main].pc # "idle"
  PROVE  Item \in Items
<1>1. call[Main].order \in Orders
  BY DEF TableInv, GripInv
<1> QED
  BY <1>1, CellAssumption DEF Item

LEMMA PickAtResolves ==
  ASSUME NEW f, f.label \in Items, PickAt(f), call[Main].pc = "resolve"
  PROVE  Resolves
<1>1. AimAt(f.label, f.at) \in Aims
  BY AimsAtAPlace
<1> QED
  BY <1>1 DEF PickAt, Refuse, Resolves

LEMMA FallBackResolves ==
  ASSUME TableInv(Main), FallBack, call[Main].pc = "resolve"
  PROVE  Resolves
<1>1. Item \in Items /\ "spot" \in Aims
  BY LookedFor DEF Aims
<1> QED
  BY <1>1 DEF FallBack, ByTheTable, Resolves

LEMMA WhatMainDoes ==
  ASSUME TableInv(Main), CommandInv, [RoNext]_roVars
  PROVE  MainDoes
<1> USE DEF InCall
<1>1. ASSUME call' = [call EXCEPT ![Main] = NoCall],
             UNCHANGED <<world, alerts, sent>>
      PROVE  MainDoes
  BY <1>1 DEF MainDoes, Forgets, world
<1>2. CASE Shell
  BY <1>1, <1>2 DEF Shell, Invoke, DryRun, MainDoes, Quiet, world
<1>3. CASE Open \/ Return \/ Home \/ HomeFails \/ Abort
  BY <1>3 DEF Open, Return, Home, HomeFails, Abort, vars, world, MainDoes, Quiet
<1>4. CASE Prepare
  BY <1>4 DEF Prepare, CommandInv, MainDoes
<1>5. CASE ResolveByTable
  BY <1>5, FallBackResolves DEF ResolveByTable, MainDoes
<1>6. CASE ResolveBySight
  <2>1. call[Main].pc = "resolve" /\ Item \in Items
    BY <1>6, LookedFor DEF ResolveBySight
  <2>2. FallBack \/ \E s \in Sightings(Item) : \E f \in s.found : PickAt(f)
    BY <1>6 DEF ResolveBySight
  <2> QED
    BY <2>1, <2>2, SightingsKnown, FallBackResolves, PickAtResolves DEF MainDoes
<1>7. CASE VerifyBySight
  <2>1. call[Main].pc = "verify" /\ call[Main].order.item \in Items
    BY <1>7, LookedFor DEF VerifyBySight, Item
  <2>2. PICK v \in Verdicts(call[Main].order) :
          VerifyAs(Main, None) \/ \E i \in v.placed : VerifyAs(Main, i)
    BY <1>7 DEF VerifyBySight
  <2>3. v.placed \subseteq Items
    BY <2>1, VerdictsKnown
  <2> QED
    BY <2>1, <2>2, <2>3 DEF Judges, MainDoes
<1>8. CASE BlindStep
  BY <1>8 DEF BlindStep, MainDoes
<1>9. CASE Interrupt
  BY <1>9 DEF Interrupt, MainDoes, Forgets, world
<1>10. CASE UNCHANGED roVars
  BY <1>10 DEF roVars, vars, world, MainDoes, Quiet
<1> QED
  BY <1>2, <1>3, <1>4, <1>5, <1>6, <1>7, <1>8, <1>9, <1>10 DEF RoNext, MainStep

LEMMA TableKept ==
  ASSUME TableInv(Main), MainDoes
  PROVE  TableInv(Main)'
<1> USE MainCalls
<1>1. CASE Quiet
  BY <1>1 DEF Quiet, TableInv, CellInv, GripInv, BinsHoldOrders
<1>2. CASE Forgets
  <2>1. CASE UNCHANGED <<held, where>>
    BY <1>2, <2>1, NoCallKeeps DEF Forgets, TableInv, CellInv, BinsHoldOrders
  <2>2. CASE call[Main].pc = "move" /\ Effect(Main, Moves[call[Main].step])
    BY <1>2, <2>2, EffectKeeps, NoCallKeeps DEF Forgets
  <2> QED
    BY <1>2, <2>1, <2>2 DEF Forgets
<1>3. CASE Resolves
  <2>1. CASE Fail(Main) /\ UNCHANGED <<world, alerts, sent>>
    BY <1>3, <2>1, FailInPlaceKeeps DEF Resolves, Busy, world
  <2> QED
    BY <1>3, <2>1, ResolveKeeps DEF Resolves
<1> QED
  BY <1>1, <1>2, <1>3, StartKeeps, VerifyKeeps, MoveKeeps, MoveFailsKeeps,
     AlertKeeps, AlertFailsKeeps DEF MainDoes, Judges

LEMMA ArgsKept ==
  ASSUME CommandInv, [RoNext]_roVars
  PROVE  CommandInv'
<1> USE DEF CommandInv
<1>1. CASE Shell
  <2>1. PICK o \in Orders, v \in BOOLEAN, p \in BOOLEAN :
          \/ Invoke(o, v, p)
          \/ \E n \in 0..MaxAttempts : DryRun(o, v, n, p)
    BY <1>1 DEF Shell
  <2> DEFINE a == [order |-> o, verify |-> v, perceive |-> p]
  <2>2. a \in [order : Orders \cup {None}, verify : BOOLEAN, perceive : BOOLEAN]
        /\ a.order = o
    OBVIOUS
  <2> HIDE DEF a
  <2>3. args' = a \/ (args' = args /\ phase' = "exited") \/ UNCHANGED <<args, phase>>
    BY <2>1 DEF Invoke, DryRun, a
  <2> QED
    BY <2>2, <2>3
<1>2. CASE Open \/ Prepare \/ Abort
  <2>1. NoArgs \in [order : Orders \cup {None}, verify : BOOLEAN, perceive : BOOLEAN]
    BY DEF NoArgs
  <2> QED
    BY <1>2, <2>1 DEF Open, Prepare, Abort
<1>3. CASE ResolveByTable \/ ResolveBySight \/ VerifyBySight \/ BlindStep
  BY <1>3 DEF ResolveByTable, ResolveBySight, VerifyBySight, BlindStep
<1>4. CASE Return \/ Home \/ HomeFails \/ Interrupt
  BY <1>4 DEF Return, Home, HomeFails, Interrupt
<1>5. CASE UNCHANGED roVars
  BY <1>5 DEF roVars, command
<1> QED
  BY <1>1, <1>2, <1>3, <1>4, <1>5 DEF RoNext, MainStep

\* No item ends in a bin that nobody sent it to, whatever fails and
\* whenever the command is interrupted and run again.
THEOREM BinsCorrect == RoSpec => []BinsHoldOrders
<1>1. RoInit => TableInv(Main) /\ CommandInv
  BY MainInitially
<1>2. TableInv(Main) /\ CommandInv /\ [RoNext]_roVars => TableInv(Main)' /\ CommandInv'
  BY WhatMainDoes, TableKept, ArgsKept
<1>3. TableInv(Main) => BinsHoldOrders
  BY DEF TableInv
<1> QED
  BY <1>1, <1>2, <1>3, PTL DEF RoSpec
---------------------------------------------------------------------------
(* The result tells the story. *)

LEMMA StoryKept ==
  ASSUME TableInv(Main), StoryInv(Main), MainDoes
  PROVE  StoryInv(Main)'
<1> USE MainCalls
<1>0. call \in [Callers -> Call] /\ AlertsOK
  BY DEF TableInv, CellInv, StoryInv, AlertsOK
<1>1. Busy(Main) => alerts[Main] = {}
  BY DEF StoryInv
\* An error, whatever the platform took.
<1>2. ASSUME Fail(Main), Busy(Main),
             \/ alerts' = alerts
             \/ /\ alerts' = [alerts EXCEPT ![Main] = @ \cup {AlertKind(Main)}]
                /\ call[Main].pc = "alert"
      PROVE  StoryInv(Main)'
  <2>1. AlertKind(Main) \in {"order_fulfilled", "order_failed"}
    BY DEF AlertKind
  <2>2. /\ AlertsOK'
        /\ \/ alerts'[Main] = {}
           \/ alerts'[Main] = {AlertKind(Main)} /\ call[Main].pc = "alert"
    BY <1>0, <1>1, <1>2, <2>1 DEF AlertsOK
  <2>3. Cardinality({}) = 0 /\ Cardinality({AlertKind(Main)}) = 1
    BY FS_EmptySet, FS_Singleton
  <2>4. Cardinality(alerts'[Main]) <= 1
    BY <2>2, <2>3
  <2> QED
    BY <1>0, <1>2, <2>2, <2>4, FailStory
<1>3. CASE Quiet
  <2>1. AlertsOK' /\ call'[Main] = call[Main] /\ alerts'[Main] = alerts[Main]
    BY <1>0, <1>3 DEF Quiet, AlertsOK
  <2> QED
    BY <2>1, StoryUnchanged
<1>4. CASE Forgets
  BY <1>0, <1>4, ForgetCall, NoCallStory DEF Forgets, AlertsOK
<1>5. CASE Resolves
  <2>1. CASE Fail(Main) /\ UNCHANGED <<world, alerts, sent>>
    BY <1>2, <1>5, <2>1 DEF Resolves, Busy
  <2> QED
    BY <1>0, <1>5, <2>1, ResolveStory DEF Resolves
<1>6. CASE Judges
  BY <1>0, <1>6, VerifyStory DEF Judges
<1>7. CASE MoveFails(Main) \/ AlertFails(Main)
  BY <1>2, <1>7 DEF MoveFails, AlertFails, Busy
<1> QED
  BY <1>0, <1>3, <1>4, <1>5, <1>6, <1>7, StartStory, MoveStory, AlertStory DEF MainDoes

LEMMA StoryInitially == RoInit => StoryInv(Main)
<1> SUFFICES ASSUME RoInit PROVE StoryInv(Main)
  OBVIOUS
<1>1. call[Main].pc = "idle"
  BY MainInitially DEF NoCall
<1>2. alerts \in [Callers -> SUBSET {"order_fulfilled", "order_failed"}]
  BY DEF RoInit, Init
<1> QED
  BY <1>1, <1>2 DEF StoryInv, ProgressInv, Busy

\* What the command reports of an order is one story, or the beginning of
\* one: for every number of attempts, with every outcome of every step and an
\* interrupt anywhere.
THEOREM CommandTellsTheStory == RoSpec => []ResultTellsTheStory
<1>1. RoInit => TableInv(Main) /\ CommandInv /\ StoryInv(Main)
  BY MainInitially, StoryInitially
<1>2. TableInv(Main) /\ CommandInv /\ StoryInv(Main) /\ [RoNext]_roVars
        => TableInv(Main)' /\ CommandInv' /\ StoryInv(Main)'
  BY WhatMainDoes, TableKept, ArgsKept, StoryKept
<1>3. TableInv(Main) /\ StoryInv(Main) => ResultTellsTheStory
  BY StoryTold, CommandAssumption DEF TableInv, CellInv, ResultTellsTheStory
<1> QED
  BY <1>1, <1>2, <1>3, PTL DEF RoSpec
---------------------------------------------------------------------------
(* What a reported success and an exit status mean, if the eyes keep their *)
(* bargain.                                                                *)

\* The action of EyesKeepTheBargain.
Bargain ==
  (InCall("resolve") /\ resolver # "canned") \/ InCall("verify")
    => \/ phase' # "fulfil"
       \/ /\ Resolve(Main) \/ ResolveFails(Main) \/ Verify(Main)
          /\ named' =>
               /\ InCall("resolve") => call'[Main].target \in {call[Main].target, Item}
               /\ InCall("verify") /\ call'[Main].verification = "ok"
                    => call'[Main].seen = Item

\* A verdict the command acts on is Verify's, and of the ordered item if the
\* VLM has pointed that out.
LEMMA BargainKept ==
  ASSUME TableInv(Main), VerifyBySight, [Bargain]_roVars
  PROVE  /\ Verify(Main)
         /\ named' /\ call'[Main].verification = "ok" => call'[Main].seen = Item
<1>1. phase' = "fulfil" /\ call[Main].pc = "verify" /\ InCall("verify")
  BY DEF VerifyBySight, InCall
<1>2. PICK item \in Items \cup {None} : VerifyAs(Main, item)
  <2>1. call[Main].order.item \in Items
    BY <1>1, LookedFor DEF Item
  <2> QED
    BY <2>1, VerdictsKnown DEF VerifyBySight
<1>3. call'[Main].pc # "verify"
  BY <1>2, MainCalls, VerifyCall DEF TableInv, CellInv, Passes, Retries, GivesUp
<1>4. Bargain
  BY <1>1, <1>3 DEF roVars, vars
<1> QED
  BY <1>1, <1>4 DEF Bargain, Resolve, ResolveFails

LEMMA HonestKept ==
  ASSUME TableInv(Main), CommandInv, HonestInv(Main), [RoNext]_roVars, [Bargain]_roVars
  PROVE  HonestInv(Main)'
<1> USE MainCalls
<1>0. call \in [Callers -> Call]
  BY DEF TableInv, CellInv
<1>1. CASE Judges
  <2>1. call[Main].pc = "verify" /\ call'[Main].pc # "verify"
    BY <1>0, <1>1, VerifyCall DEF Judges, Passes, Retries, GivesUp
  <2>2. CASE VerifyBySight
    <3>1. Verify(Main)
      BY <2>2, BargainKept
    <3>2. PICK item \in Items \cup {None} :
            /\ VerifyAs(Main, item)
            /\ item # None => where[item] = call[Main].order.bin
      BY <3>1 DEF Verify
    <3> QED
      BY <1>0, <3>2, VerifyHonest
  <2>3. CASE Forgets
    BY <1>0, <2>3, ForgetCall, NoCallHonest DEF Forgets
  <2>4. VerifyBySight \/ Forgets
    <3>1. ~Quiet /\ ~UNCHANGED roVars
      BY <2>1 DEF Quiet, roVars, vars
    <3>2. ~(Open \/ Return \/ Home \/ HomeFails \/ Abort)
      BY <2>1 DEF Open, Return, Home, HomeFails, Abort, vars
    <3>3. ~(ResolveByTable \/ ResolveBySight \/ BlindStep)
      BY <2>1 DEF ResolveByTable, ResolveBySight, BlindStep, InCall,
                  Move, MoveFails, Alert, AlertFails
    <3>4. ~Prepare
      <4>1. ASSUME NEW o, NEW v, StartWith(Main, o, v) PROVE FALSE
        BY <2>1, <4>1 DEF StartWith, Busy
      <4> QED
        BY <4>1 DEF Prepare
    <3>5. Shell \/ Interrupt => Forgets
      BY <2>1 DEF Shell, Invoke, DryRun, Interrupt, InCall, Forgets, world
    <3> QED
      BY <3>1, <3>2, <3>3, <3>4, <3>5 DEF RoNext, MainStep
  <2> QED
    BY <2>2, <2>3, <2>4
<1>2. CASE Quiet
  BY <1>2 DEF Quiet, HonestInv
<1>3. CASE Forgets
  BY <1>0, <1>3, ForgetCall, NoCallHonest DEF Forgets
<1>4. CASE Resolves
  <2>1. CASE Fail(Main) /\ UNCHANGED <<world, alerts, sent>>
    BY <1>0, <2>1, FailHonest DEF world
  <2> QED
    BY <1>0, <1>4, <2>1, ResolveHonest DEF Resolves
<1>5. CASE MoveFails(Main) \/ AlertFails(Main)
  BY <1>0, <1>5, FailHonest DEF MoveFails, AlertFails, world
<1>6. MainDoes
  BY WhatMainDoes
<1> QED
  BY <1>0, <1>1, <1>2, <1>3, <1>4, <1>5, <1>6, StartHonest, MoveHonest, AlertHonest
     DEF MainDoes

\* The item taken to be in the bin is the ordered one if the VLM named it.
NamedInv == call[Main].verification = "ok" /\ named => call[Main].seen = Item

LEMMA NamedKept ==
  ASSUME TableInv(Main), CommandInv, HonestInv(Main), NamedInv,
         [RoNext]_roVars, [Bargain]_roVars
  PROVE  NamedInv'
<1> USE MainCalls
<1>0. call \in [Callers -> Call]
  BY DEF TableInv, CellInv
<1>1. call[Main].pc \in {"resolve", "move", "verify"} => call[Main].verification # "ok"
  BY DEF HonestInv
<1>2. ASSUME call' = [call EXCEPT ![Main] = NoCall] PROVE NamedInv'
  BY <1>0, <1>2, ForgetCall DEF NoCall, NamedInv
<1>3. ASSUME call'[Main].verification = call[Main].verification,
             call[Main].pc \in {"resolve", "move", "verify"}
      PROVE  NamedInv'
  BY <1>1, <1>3 DEF NamedInv
<1>4. ASSUME call'[Main].verification = call[Main].verification,
             call'[Main].seen = call[Main].seen,
             call'[Main].order = call[Main].order, named' = named
      PROVE  NamedInv'
  BY <1>4 DEF NamedInv, Item
<1>5. CASE Shell \/ Interrupt
  BY <1>2, <1>5 DEF Shell, Invoke, DryRun, Interrupt
<1>6. CASE Open \/ Abort \/ Return \/ Home \/ HomeFails
  BY <1>4, <1>6 DEF Open, Abort, Return, Home, HomeFails, vars
<1>7. CASE Prepare
  <2>1. PICK o \in Orders, v \in BOOLEAN : StartWith(Main, o, v)
    BY <1>7 DEF Prepare, CommandInv
  <2>2. call'[Main].verification = "none"
    BY <1>0, <2>1, StartCall
  <2> QED
    BY <2>2 DEF NamedInv
<1>8. ASSUME Resolves PROVE NamedInv'
  <2>1. call'[Main].verification = call[Main].verification
    BY <1>0, <1>8, ResolveCall, FailCall DEF Resolves, SameResult
  <2> QED
    BY <1>3, <1>8, <2>1 DEF Resolves
<1>9. CASE ResolveByTable
  BY <1>8, <1>9, FallBackResolves DEF ResolveByTable, InCall
<1>10. CASE ResolveBySight
  <2>1. call[Main].pc = "resolve" /\ Item \in Items
    BY <1>10, LookedFor DEF ResolveBySight, InCall
  <2>2. FallBack \/ \E s \in Sightings(Item) : \E f \in s.found : PickAt(f)
    BY <1>10 DEF ResolveBySight
  <2> QED
    BY <1>8, <2>1, <2>2, SightingsKnown, FallBackResolves, PickAtResolves
<1>11. CASE VerifyBySight
  <2>1. /\ Verify(Main)
        /\ named' /\ call'[Main].verification = "ok" => call'[Main].seen = Item
    BY <1>11, BargainKept
  <2>2. call'[Main].order = call[Main].order
    BY <1>0, <2>1, VerifyCall DEF Verify, SameOrder
  <2> QED
    BY <2>1, <2>2 DEF NamedInv, Item
<1>12. CASE BlindStep
  <2>1. named' = named
    BY <1>12 DEF BlindStep
  <2>2. CASE Move(Main)
    BY <1>0, <1>3, <2>2, MoveCall DEF Move
  <2>3. CASE MoveFails(Main) \/ AlertFails(Main)
    BY <1>0, <1>4, <2>1, <2>3, FailCall DEF MoveFails, AlertFails, SameOrder, SameResult
  <2>4. CASE Alert(Main)
    BY <1>0, <1>4, <2>1, <2>4, AlertCall DEF SameOrder
  <2> QED
    BY <1>12, <2>2, <2>3, <2>4 DEF BlindStep
<1>13. CASE UNCHANGED roVars
  BY <1>4, <1>13 DEF roVars, vars, command
<1> QED
  BY <1>5, <1>6, <1>7, <1>9, <1>10, <1>11, <1>12, <1>13 DEF RoNext, MainStep

EyedInv == TableInv(Main) /\ CommandInv /\ HonestInv(Main) /\ NamedInv

LEMMA EyedInitially == RoInit => EyedInv
<1>1. RoInit => TableInv(Main) /\ CommandInv /\ call[Main] = NoCall
  BY MainInitially
<1> QED
  BY <1>1 DEF EyedInv, HonestInv, NamedInv, NoCall

LEMMA EyedKept ==
  EyedInv /\ [RoNext]_roVars /\ [Bargain]_roVars => EyedInv'
BY WhatMainDoes, TableKept, ArgsKept, HonestKept, NamedKept DEF EyedInv

\* With eyes that keep their bargain a verified order that is reported
\* fulfilled has in its bin what the last verdict took for its item, whatever
\* was retried or failed before.
THEOREM SuccessHonest == RoSpec /\ EyesKeepTheBargain => []HonestSuccess
<1>1. EyedInv => HonestSuccess
  BY CommandAssumption DEF EyedInv, HonestInv, HonestSuccess
<1>2. EyesKeepTheBargain <=> [][Bargain]_roVars
  BY PTL DEF EyesKeepTheBargain, Bargain
<1> QED
  BY <1>1, <1>2, EyedInitially, EyedKept, PTL DEF RoSpec

\* What the status and the arm will say, from the end of the order on.
ExitInv ==
  /\ SettledInv(Main)
  /\ phase \in {"home", "exited"} /\ exit = "0" =>
       call[Main].pc = "returned" /\ call[Main].status = "fulfilled"
  /\ phase \in {"home", "exited"} /\ exit = "1" => call[Main].status = "failed"
  /\ phase = "exited" /\ exit \in {"0", "1", "interrupted"} => arm = "rest"

LEMMA SettledKept ==
  ASSUME TableInv(Main), SettledInv(Main), MainDoes
  PROVE  SettledInv(Main)'
<1> USE MainCalls
<1>0. call \in [Callers -> Call]
  BY DEF TableInv, CellInv
<1>1. ASSUME Fail(Main) PROVE SettledInv(Main)'
  BY <1>0, <1>1, FailCall DEF SettledInv
<1>2. CASE Quiet
  BY <1>2 DEF Quiet, SettledInv
<1>3. CASE Forgets
  BY <1>0, <1>3, ForgetCall DEF Forgets, NoCall, SettledInv
<1>4. ASSUME NEW o \in Orders, NEW v \in BOOLEAN, StartWith(Main, o, v)
      PROVE  SettledInv(Main)'
  BY <1>0, <1>4, StartCall DEF SettledInv
<1>5. CASE Resolves
  <2>1. ASSUME NEW source \in {"hardcoded", "perceived"}, NEW item \in Items,
               NEW aim \in Aims, ResolveAs(Main, source, item, aim)
        PROVE  SettledInv(Main)'
    BY <1>0, <2>1, ResolveCall DEF SettledInv
  <2> QED
    BY <1>1, <1>5, <2>1 DEF Resolves
<1>6. CASE Judges
  BY <1>0, <1>6, VerifyCall DEF Judges, Passes, Retries, GivesUp, SettledInv
<1>7. CASE Move(Main)
  BY <1>0, <1>7, MoveCall DEF SettledInv
<1> QED
  BY <1>1, <1>2, <1>3, <1>4, <1>5, <1>6, <1>7, AlertSettles
     DEF MainDoes, MoveFails, AlertFails

LEMMA ExitKept ==
  ASSUME TableInv(Main), CommandInv, ExitInv, [RoNext]_roVars
  PROVE  ExitInv'
<1>1. SettledInv(Main)'
  BY WhatMainDoes, SettledKept DEF ExitInv
<1>2. CASE Shell
  BY <1>1, <1>2 DEF Shell, Invoke, DryRun, ExitInv
<1>3. CASE Open \/ Prepare \/ ResolveByTable \/ ResolveBySight \/ VerifyBySight \/ BlindStep
  BY <1>1, <1>3 DEF Open, Prepare, ResolveByTable, ResolveBySight, VerifyBySight,
                    BlindStep, InCall, ExitInv
<1>4. CASE Abort \/ Interrupt \/ HomeFails
  BY <1>1, <1>4 DEF Abort, Interrupt, HomeFails, ExitInv
<1>5. CASE Return
  <2>1. call[Main].status \in {"fulfilled", "failed"}
    BY MainCalls, CallFields DEF TableInv, CellInv
  <2> QED
    BY <1>1, <1>5, <2>1 DEF Return, InCall, ExitStatus, vars, ExitInv
<1>6. CASE Home
  BY <1>1, <1>6 DEF Home, ExitInv
<1>7. CASE UNCHANGED roVars
  BY <1>1, <1>7 DEF roVars, vars, world, command, ExitInv
<1> QED
  BY <1>2, <1>3, <1>4, <1>5, <1>6, <1>7 DEF RoNext, MainStep

\* The exit status, the arm, the gripper and the bins tell the same story,
\* whatever was interrupted and whatever failed, if the eyes keep their
\* bargain: with exit status 0 after a look the bin holds the ordered item,
\* unless the VLM pointed at other items only.
THEOREM ExitCorrect == RoSpec /\ EyesKeepTheBargain => []ExitIsTrue
<1>1. RoInit => ExitInv
  <2> SUFFICES ASSUME RoInit PROVE ExitInv
    OBVIOUS
  <2>1. call[Main] = NoCall /\ exit = ""
    BY MainInitially DEF RoInit
  <2> QED
    <3>1. NoCall.pc = "idle"
      BY DEF NoCall
    <3>2. call[Main].pc # "returned"
      BY <2>1, <3>1
    <3>3. exit # "0" /\ exit # "1" /\ exit # "interrupted"
      BY <2>1
    <3> QED
      BY <3>2, <3>3 DEF ExitInv, SettledInv
<1>2. EyedInv /\ ExitInv /\ [RoNext]_roVars => ExitInv'
  BY ExitKept DEF EyedInv
<1>3. EyedInv /\ ExitInv => ExitIsTrue
  BY DEF EyedInv, ExitInv, SettledInv, HonestInv, NamedInv, ExitIsTrue
<1>4. EyesKeepTheBargain <=> [][Bargain]_roVars
  BY PTL DEF EyesKeepTheBargain, Bargain
<1> QED
  BY <1>1, <1>2, <1>3, <1>4, EyedInitially, EyedKept, PTL DEF RoSpec
---------------------------------------------------------------------------
(* The grasp. *)

LEMMA RollFolds ==
  ASSUME NEW axis \in Axes, NEW pan \in Pans
  PROVE  /\ WristRoll(axis, pan) \in Int
         /\ -90 <= WristRoll(axis, pan) /\ WristRoll(axis, pan) < 90
         /\ (WristRoll(axis, pan) + pan + JawOffset - axis) % 180 = 90
BY CommandAssumption, VisionAssumption DEF WristRoll

\* The jaws close across the long axis of the item whatever the pan of the
\* base and the offset of the jaws, with a roll within the limit.
THEOREM GraspCorrect == RoSpec => []GraspIsAcross
<1>1. RoInit => GraspIsAcross
  BY DEF RoInit, GraspIsAcross
<1>2. GraspIsAcross /\ [RoNext]_roVars => GraspIsAcross'
  <2> SUFFICES ASSUME GraspIsAcross, [RoNext]_roVars PROVE GraspIsAcross'
    OBVIOUS
  <2>1. ASSUME grasp' \in {{}, grasp} PROVE GraspIsAcross'
    BY <2>1 DEF GraspIsAcross
  <2>2. CASE Shell \/ Abort \/ Interrupt
    BY <2>1, <2>2 DEF Shell, Invoke, DryRun, Abort, Interrupt
  <2>3. CASE Open \/ Prepare \/ ResolveByTable \/ VerifyBySight \/ BlindStep
             \/ Return \/ Home \/ HomeFails
    BY <2>1, <2>3 DEF Open, Prepare, ResolveByTable, FallBack, VerifyBySight,
                      BlindStep, Return, Home, HomeFails
  <2>4. ASSUME NEW f, PickAt(f) PROVE GraspIsAcross'
    <3>1. ASSUME NEW axis \in Axes, NEW pan \in Pans,
                 RollReachable(WristRoll(axis, pan)),
                 grasp' = {[axis |-> axis, pan |-> pan,
                            roll |-> WristRoll(axis, pan)]}
          PROVE  GraspIsAcross'
      BY <3>1, RollFolds DEF GraspIsAcross
    <3> QED
      BY <2>1, <2>4, <3>1 DEF PickAt, Refuse
  <2>5. CASE ResolveBySight
    BY <2>1, <2>4, <2>5 DEF ResolveBySight, FallBack
  <2>6. CASE UNCHANGED roVars
    BY <2>1, <2>6 DEF roVars, command
  <2> QED
    BY <2>2, <2>3, <2>5, <2>6 DEF RoNext, MainStep
<1> QED
  BY <1>1, <1>2, PTL DEF RoSpec
---------------------------------------------------------------------------
(* The types of the command's state. *)

ExitCodes == {"", "0", "1", "2", "traceback", "interrupted", "dry 0", "dry 1"}

StateInv ==
  /\ arm \in {"rest", "pick", "bin", "between"}
  /\ phase \in {"exited", "open", "prepare", "fulfil", "home"}
  /\ resolver \in {"table", "canned", "camera"}

GraspTypes == grasp \subseteq [axis : Axes, pan : Pans, roll : Int]

LEMMA MovesMoveTheArm ==
  ASSUME arm \in {"rest", "pick", "bin", "between"}, BlindStep
  PROVE  arm' \in {"rest", "pick", "bin", "between"}
BY DEF BlindStep, Move, MoveFails, Alert, AlertFails, ArmAfter, world

LEMMA PickAtLeavesTheArm ==
  ASSUME NEW f, PickAt(f)
  PROVE  UNCHANGED arm /\ (GraspTypes => GraspTypes')
<1>1. CASE grasp' = {}
  BY <1>1 DEF PickAt, Refuse, ResolveAs, world, GraspTypes
<1>2. ASSUME NEW axis \in Axes, NEW pan \in Pans,
             ResolveAs(Main, "perceived", f.label, AimAt(f.label, f.at)),
             grasp' = {[axis |-> axis, pan |-> pan, roll |-> WristRoll(axis, pan)]}
      PROVE  UNCHANGED arm /\ GraspTypes'
  BY <1>2, RollFolds DEF ResolveAs, world, GraspTypes
<1> QED
  BY <1>1, <1>2 DEF PickAt, Refuse

LEMMA StateKept ==
  ASSUME StateInv, GraspTypes, [RoNext]_roVars
  PROVE  StateInv' /\ GraspTypes'
<1> USE DEF StateInv, GraspTypes
<1>1. CASE Shell
  BY <1>1 DEF Shell, Invoke, DryRun, world
<1>2. CASE Open \/ Abort
  BY <1>2 DEF Open, Abort
<1>3. CASE Prepare
  BY <1>3 DEF Prepare, StartWith, world
<1>4. CASE ResolveByTable
  BY <1>4 DEF ResolveByTable, FallBack, ByTheTable, ResolveAs, world
<1>5. CASE ResolveBySight
  <2>1. UNCHANGED <<phase, resolver>>
    BY <1>5 DEF ResolveBySight
  <2>2. CASE FallBack
    BY <2>1, <2>2 DEF FallBack, ByTheTable, ResolveAs, world
  <2>3. CASE \E f : PickAt(f)
    BY <2>1, <2>3, PickAtLeavesTheArm
  <2> QED
    BY <1>5, <2>2, <2>3 DEF ResolveBySight
<1>6. CASE VerifyBySight
  BY <1>6 DEF VerifyBySight, VerifyAs, world
<1>7. CASE BlindStep
  BY <1>7, MovesMoveTheArm DEF BlindStep
<1>8. CASE Interrupt
  BY <1>8 DEF Interrupt, world
<1>9. CASE Return
  BY <1>9 DEF Return, vars, world
<1>10. CASE Home \/ HomeFails
  BY <1>10 DEF Home, HomeFails
<1>11. CASE UNCHANGED roVars
  BY <1>11 DEF roVars, vars, world, command
<1> QED
  BY <1>1, <1>2, <1>3, <1>4, <1>5, <1>6, <1>7, <1>8, <1>9, <1>10, <1>11 DEF RoNext, MainStep

LEMMA ExitKeepsItsType ==
  ASSUME exit \in ExitCodes, [RoNext]_roVars
  PROVE  exit' \in ExitCodes
<1>1. ASSUME exit' = exit PROVE exit' \in ExitCodes
  BY <1>1
<1>2. CASE Shell
  BY <1>2, Zenon DEF Shell, Invoke, DryRun, ExitCodes
<1>3. CASE Open \/ Prepare \/ ResolveByTable \/ ResolveBySight \/ VerifyBySight
           \/ BlindStep \/ Home
  <2>1. exit' = exit
    BY <1>3, Zenon DEF Open, Prepare, ResolveByTable, ResolveBySight, VerifyBySight,
                       BlindStep, Home
  <2> QED
    BY <1>1, <2>1
<1>4. CASE Abort \/ Interrupt \/ HomeFails
  <2>1. exit' = "traceback" \/ exit' = "interrupted"
    BY <1>4, Zenon DEF Abort, Interrupt, HomeFails
  <2> QED
    BY <2>1, Zenon DEF ExitCodes
<1>5. CASE Return
  <2>1. exit' = "0" \/ exit' = "1"
    BY <1>5, Zenon DEF Return, ExitStatus
  <2> QED
    BY <2>1, Zenon DEF ExitCodes
<1>6. CASE UNCHANGED roVars
  BY <1>1, <1>6 DEF roVars, command
<1> QED
  BY <1>2, <1>3, <1>4, <1>5, <1>6 DEF RoNext, MainStep

LEMMA NamedKeepsItsType ==
  ASSUME TableInv(Main), named \in BOOLEAN, [RoNext]_roVars
  PROVE  named' \in BOOLEAN
<1>1. CASE ResolveBySight
  <2>1. Item \in Items
    BY <1>1, LookedFor DEF ResolveBySight, InCall
  <2> QED
    BY <1>1, <2>1, SightingsKnown DEF ResolveBySight
<1>2. CASE VerifyBySight
  <2>1. call[Main].order.item \in Items
    BY <1>2, LookedFor DEF VerifyBySight, InCall, Item
  <2> QED
    BY <1>2, <2>1, VerdictsKnown DEF VerifyBySight
<1>3. CASE Shell \/ Abort \/ Interrupt \/ UNCHANGED roVars
  BY <1>3 DEF Shell, Invoke, DryRun, Abort, Interrupt, roVars, command
<1>4. CASE Open \/ Prepare \/ ResolveByTable \/ BlindStep \/ Return \/ Home \/ HomeFails
  BY <1>4 DEF Open, Prepare, ResolveByTable, BlindStep, Return, Home, HomeFails
<1> QED
  BY <1>1, <1>2, <1>3, <1>4 DEF RoNext, MainStep

\* The types of the command's state: among them that a roll is a number and
\* that an item is held exactly if the gripper holds it, whatever the camera
\* shows and wherever a command is cut short.
THEOREM CommandTypes == RoSpec => []RoTypeOK
<1> DEFINE Typed == /\ TableInv(Main) /\ CommandInv /\ StoryInv(Main)
                    /\ StateInv /\ GraspTypes /\ exit \in ExitCodes
                    /\ named \in BOOLEAN
<1>1. RoInit => Typed
  <2> SUFFICES ASSUME RoInit PROVE Typed
    OBVIOUS
  <2>1. StateInv /\ GraspTypes
    BY DEF RoInit, Init, StateInv, GraspTypes
  <2>2. exit \in ExitCodes
    BY Zenon DEF RoInit, ExitCodes
  <2>3. named \in BOOLEAN
    BY DEF RoInit
  <2> QED
    BY <2>1, <2>2, <2>3, MainInitially, StoryInitially
<1>2. Typed /\ [RoNext]_roVars => Typed'
  BY WhatMainDoes, TableKept, ArgsKept, StoryKept, StateKept, ExitKeepsItsType,
     NamedKeepsItsType
<1>3. Typed => RoTypeOK
  <2> SUFFICES ASSUME Typed PROVE RoTypeOK
    OBVIOUS
  <2>1. TypeOK
    BY DEF TableInv, CellInv, StoryInv, StateInv, MeantPairs, TypeOK
  <2>2. exit \in {"", "0", "1", "2", "traceback", "interrupted", "dry 0", "dry 1"}
    BY Zenon DEF ExitCodes
  <2> QED
    BY <2>1, <2>2, Zenon DEF CommandInv, StateInv, GraspTypes, RoTypeOK
<1> HIDE DEF Typed
<1> QED
  BY <1>1, <1>2, <1>3, PTL DEF RoSpec
---------------------------------------------------------------------------
(* What perception may not do. *)

\* Perception fails no order that the pose table can serve, if the wrist can
\* turn a quarter either way.
THEOREM TaughtServed ==
  ASSUME RollLimit >= 90
  PROVE  RoSpec => TaughtNeverRefused
<1>1. RoInit => TableInv(Main) /\ CommandInv
  BY MainInitially
<1>2. TableInv(Main) /\ CommandInv /\ [RoNext]_roVars => TableInv(Main)' /\ CommandInv'
  BY WhatMainDoes, TableKept, ArgsKept
<1>3. TableInv(Main) /\ [RoNext]_roVars
      => [InCall("resolve") /\ phase' = "fulfil"
          /\ Item \in Taught /\ call[Main].order.bin \in Bins
            => call'[Main].pc = "move"]_roVars
  <2> SUFFICES ASSUME TableInv(Main), RoNext, InCall("resolve"), phase' = "fulfil",
                      Item \in Taught, call[Main].order.bin \in Bins
               PROVE  call'[Main].pc = "move"
    OBVIOUS
  <2>0. call \in [Callers -> Call] /\ Item \in Items
    BY LookedFor DEF TableInv, CellInv, InCall
  <2>1. ASSUME NEW source \in {"hardcoded", "perceived"}, NEW item \in Items,
               NEW aim \in Aims, ResolveAs(Main, source, item, aim)
        PROVE  call'[Main].pc = "move"
    BY <2>0, <2>1, MainCalls, ResolveCall
  <2>2. FallBack => call'[Main].pc = "move"
    BY <2>0, <2>1 DEF FallBack, ByTheTable, Aims
  <2>3. ASSUME NEW f, f.label \in Items, PickAt(f) PROVE call'[Main].pc = "move"
    <3>1. ASSUME NEW axis \in Axes, NEW pan \in Pans
          PROVE  RollReachable(WristRoll(axis, pan))
      BY RollFolds, VisionAssumption DEF RollReachable
    <3> QED
      BY <2>1, <2>3, <3>1, AimsAtAPlace DEF PickAt
  <2>4. CASE ResolveByTable
    BY <2>2, <2>4 DEF ResolveByTable
  <2>5. CASE ResolveBySight
    BY <2>0, <2>2, <2>3, <2>5, SightingsKnown DEF ResolveBySight
  <2>6. ~(Shell \/ Open \/ Prepare \/ Abort \/ VerifyBySight \/ BlindStep
          \/ Return \/ Home \/ HomeFails \/ Interrupt)
    BY DEF InCall, Shell, Invoke, DryRun, Open, Prepare, Abort, VerifyBySight,
           BlindStep, Move, MoveFails, Alert, AlertFails, Return, Home,
           HomeFails, Interrupt
  <2> QED
    BY <2>4, <2>5, <2>6 DEF RoNext, MainStep
<1> QED
  BY <1>1, <1>2, <1>3, PTL DEF RoSpec, TaughtNeverRefused
---------------------------------------------------------------------------
(* The eyes keep their bargain if they are sharp: an answer about an item  *)
(* that is used leads to where the item is.                                *)

\* An entry about an item at a place is a detection of it there.
LEMMA EntrySeen ==
  ASSUME SharpEyes, NEW i \in Items, NEW p \in Places, NEW e \in Entries(i, p)
  PROVE  /\ e.kind # "malformed"
         /\ Detection(e, CaptureSize, i).label = i
         /\ Detection(e, CaptureSize, i).at = SeenAt(i, p)
<1> DEFINE y == Sight(i, p)[1]
           x == Sight(i, p)[2]
<1>1. y \in Int /\ x \in Int
  BY VisionAssumption DEF SharpEyes
<1>2. /\ (y - 1) + (y + 1) = 2 * y
      /\ (x - 1) + (x + 1) = 2 * x
  BY <1>1
<1>3. e \in {Point(Sight(i, p), i), Box(Sight(i, p), i), Point(Sight(i, p), NoLabel)}
  BY DEF Entries
<1>4. SeenAt(i, p) = Pixel(2 * y, 2 * x, CaptureSize)
  BY DEF SeenAt
<1> HIDE DEF y, x
<1>5. CASE e.kind = "point" /\ e.at = Sight(i, p) /\ e.label \in {i, NoLabel}
  BY <1>4, <1>5 DEF Detection, y, x
<1>6. CASE /\ e.kind = "box" /\ e.label = i
           /\ e.at = <<y - 1, x - 1, y + 1, x + 1>>
  BY <1>2, <1>4, <1>6 DEF Detection
<1>7. \/ e.kind = "point" /\ e.at = Sight(i, p) /\ e.label \in {i, NoLabel}
      \/ /\ e.kind = "box" /\ e.label = i
         /\ e.at = <<y - 1, x - 1, y + 1, x + 1>>
  BY <1>3 DEF Point, Box, y, x
<1> QED
  BY <1>5, <1>6, <1>7

\* Of an answer nothing is used but an entry about an item on the table, and
\* one about the item asked for if the VLM has pointed that out.
LEMMA TargetSeen ==
  ASSUME SharpEyes, NEW i \in Items, NEW d, ~d.builtin,
         NEW a \in Answers(i, d), NEW t \in Target(a, CaptureSize, i)
  PROVE  /\ t.label \in Items
         /\ where[t.label] \in Places /\ t.at = SeenAt(t.label, where[t.label])
         /\ Names(a, i) => t.label = i
<1> DEFINE D(e) == Detection(e, CaptureSize, i)
           Seen(e) == /\ D(e).label \in Items /\ where[D(e).label] \in Places
                      /\ D(e).at = SeenAt(D(e).label, where[D(e).label])
<1>1. Malformed.kind = "malformed"
  BY DEF Malformed
<1>2. Known(a)
  BY AnswersKnown
<1>3. ASSUME NEW e \in Entries(i, where[i]), where[i] \in Places PROVE Seen(e)
  BY <1>3, EntrySeen
<1>4. ASSUME NEW e \in OtherEntries(i) PROVE Seen(e)
  <2>1. PICK j \in Items \ {i} : where[j] \in Places /\ e = Point(Sight(j, where[j]), j)
    BY DEF OtherEntries
  <2>2. e.kind = "point" /\ e.label = j /\ e.at = Sight(j, where[j])
    BY <2>1 DEF Point
  <2>3. j # NoLabel
    BY DEF SharpEyes
  <2> HIDE <2>1
  <2>4. /\ D(e).label = j
        /\ D(e).at = Pixel(2 * Sight(j, where[j])[1], 2 * Sight(j, where[j])[2], CaptureSize)
    BY <2>2, <2>3 DEF Detection
  <2> QED
    BY <2>1, <2>4 DEF SeenAt
<1>5. \A k \in DOMAIN a : a[k].kind # "malformed" => Seen(a[k])
  <2> DEFINE spots == IF d.builtin THEN Places ELSE {where[i]} \cap Places
             own == UNION {Entries(i, p) : p \in spots}
  <2>1. \A e \in own : Seen(e)
    BY <1>3
  <2>0. a \in {<<>>, <<Malformed>>}
              \cup {<<e, f>> : e \in OtherEntries(i), f \in own}
              \cup UNION {{<<e>>, <<Malformed, e>>} : e \in own \cup OtherEntries(i)}
    BY DEF Answers
  <2> HIDE DEF own, Seen
  <2>2. \/ a \in {<<>>, <<Malformed>>}
        \/ \E e \in own \cup OtherEntries(i) : a \in {<<e>>, <<Malformed, e>>}
        \/ \E e \in OtherEntries(i), f \in own : a = <<e, f>>
    BY <2>0
  <2>3. CASE a \in {<<>>, <<Malformed>>}
    BY <1>1, <2>3
  <2>4. ASSUME NEW e, Seen(e), a \in {<<e>>, <<Malformed, e>>}
        PROVE  \A k \in DOMAIN a : a[k].kind # "malformed" => Seen(a[k])
    <3>1. CASE a = <<e>>
      BY <2>4, <3>1
    <3>2. CASE a = <<Malformed, e>>
      <4>1. DOMAIN a = {1, 2} /\ a[1] = Malformed /\ a[2] = e
        BY <3>2
      <4> QED
        BY <1>1, <2>4, <4>1
    <3> QED
      BY <2>4, <3>1, <3>2
  <2>5. ASSUME NEW e, NEW f, Seen(e), Seen(f), a = <<e, f>>
        PROVE  \A k \in DOMAIN a : a[k].kind # "malformed" => Seen(a[k])
    <3>1. DOMAIN a = {1, 2} /\ a[1] = e /\ a[2] = f
      BY <2>5
    <3> QED
      BY <2>5, <3>1
  <2> QED
    BY <1>4, <2>1, <2>2, <2>3, <2>4, <2>5
<1>6. PICK k \in DOMAIN a :
        /\ a[k].kind # "malformed" /\ t = D(a[k])
        /\ \/ t.label = i
           \/ \A l \in DOMAIN a : a[l].kind # "malformed" => D(a[l]).label # i
  <2>1. DOMAIN a \subseteq {1, 2}
    BY <1>2 DEF Known
  <2> QED
    BY <2>1, TargetIs
<1>7. Names(a, i) => \E l \in DOMAIN a : a[l].kind # "malformed" /\ D(a[l]).label = i
  <2>1. \A e : e.label \in {i, NoLabel} => D(e).label = i
    BY DEF Detection
  <2> HIDE DEF D
  <2> QED
    BY <2>1 DEF Names
<1> HIDE DEF D
<1> QED
  BY <1>5, <1>6, <1>7

\* A still is the kit's camera's, in the size of the calibrations.
LEMMA StillsSeen ==
  ASSUME SharpEyes, NEW s \in Stills
  PROVE  ~s.device.builtin /\ s.size = CaptureSize
<1>1. PICK listing \in SUBSET Devices, installed \in SUBSET {"cv2", "ffmpeg"} :
        s \in CaptureStill(listing, installed, FrameSizes)
  BY DEF Stills
<1>2. s.size = CaptureSize /\ s.device \in SelectDevice(listing)
  BY <1>1 DEF CaptureStill, SharpEyes
<1> QED
  BY <1>2 DEF SelectDevice, External

\* A point the camera gives is that of an item's place.
LEMMA SightingTrue ==
  ASSUME SharpEyes, resolver # "canned", NEW i \in Items,
         NEW s \in Sightings(i), NEW f \in s.found
  PROVE  /\ f.label \in Items /\ where[f.label] \in Places
         /\ AimAt(f.label, f.at) = where[f.label]
         /\ s.named => f.label = i
<1>1. PICK st \in Stills : \E a \in Answers(i, st.device) :
        s = [found |-> Located(a, st.size, i), named |-> Names(a, i)]
  <2>1. s # [found |-> {}, named |-> TRUE]
    OBVIOUS
  <2> QED
    BY <2>1 DEF Sightings
<1>2. PICK a \in Answers(i, st.device) :
        s = [found |-> Located(a, CaptureSize, i), named |-> Names(a, i)]
  BY <1>1, StillsSeen
<1>3. s.found = Located(a, CaptureSize, i) /\ s.named = Names(a, i)
  BY <1>2
<1>4. PICK t \in Target(a, CaptureSize, i) :
        f = [label |-> t.label, at |-> Project(t.at)]
  BY <1>3 DEF Located
<1> DEFINE j == f.label
<1>5. /\ j \in Items /\ where[j] \in Places
      /\ f.at = Project(SeenAt(j, where[j]))
      /\ s.named => j = i
  <2>1. f.label = t.label /\ f.at = Project(t.at)
    BY <1>4
  <2>2. ~st.device.builtin
    BY <1>1, StillsSeen
  <2> QED
    BY <1>2, <1>3, <2>1, <2>2, TargetSeen
<1> HIDE DEF j
<1> DEFINE Here(p) == Located(<<Point(Sight(j, p), j)>>, CaptureSize, j)
<1>6. ASSUME NEW p \in Places
      PROVE  Here(p) = {[label |-> j, at |-> Project(SeenAt(j, p))]}
  <2> DEFINE e == Point(Sight(j, p), j)
             dets == ParseDetections(<<e>>, CaptureSize, j)
  <2>1. e.kind # "malformed" /\ Detection(e, CaptureSize, j).label = j
        /\ Detection(e, CaptureSize, j).at = SeenAt(j, p)
    BY <1>5, EntrySeen DEF Entries
  <2> HIDE DEF e
  <2>2. DOMAIN <<e>> = {1} /\ <<e>>[1] = e
    OBVIOUS
  <2>3. DOMAIN dets = {1} /\ dets[1] = Detection(e, CaptureSize, j)
    BY <2>1, <2>2 DEF ParseDetections
  <2>4. Target(<<e>>, CaptureSize, j) = PickTarget(dets, j)
    BY DEF Target
  <2> HIDE DEF dets
  <2>5. PickTarget(dets, j) = {dets[1]}
    <3>1. {k \in DOMAIN dets : dets[k].label = j} = {1}
      BY <2>1, <2>3
    <3>2. First({1}) = 1
      BY FirstIsOne
    <3> QED
      BY <2>3, <3>1, <3>2 DEF PickTarget
  <2>6. Located(<<e>>, CaptureSize, j)
          = {[label |-> dets[1].label, at |-> Project(dets[1].at)]}
    BY <2>4, <2>5 DEF Located
  <2> QED
    BY <2>1, <2>3, <2>6 DEF e
<1>7. {p \in Places : [label |-> j, at |-> f.at] \in Here(p)} = {where[j]}
  <2>1. \A p \in Places : [label |-> j, at |-> f.at] \in Here(p)
                            <=> f.at = Project(SeenAt(j, p))
    <3> HIDE DEF Here
    <3> QED
      BY <1>6
  <2>2. \A p \in Places : f.at = Project(SeenAt(j, p)) <=> p = where[j]
    BY <1>5 DEF SharpEyes
  <2> HIDE DEF Here
  <2> QED
    BY <1>5, <2>1, <2>2
<1> HIDE DEF Here
<1>8. AimAt(j, f.at) = LET there == {p \in Places : [label |-> j, at |-> f.at] \in Here(p)}
                       IN IF there = {} THEN "lost" ELSE CHOOSE p \in there : TRUE
  BY DEF AimAt, Here
<1> QED
  BY <1>5, <1>7, <1>8 DEF j

\* What a verdict takes to be in the bin is in the bin.
LEMMA VerdictTrue ==
  ASSUME SharpEyes, NEW o, o.item \in Items, o.bin \in DOMAIN Regions,
         NEW v \in Verdicts(o), NEW i \in v.placed
  PROVE  /\ i \in Items /\ where[i] = o.bin
         /\ v.named => i = o.item
<1>1. PICK s \in Stills : \E a \in Answers(o.item, s.device) :
        v = [placed |-> PlacedAs(a, s.size, o.item, Regions[o.bin]),
             named |-> Names(a, o.item)]
  <2>1. v # [placed |-> {}, named |-> TRUE]
    OBVIOUS
  <2> QED
    BY <2>1 DEF Verdicts
<1>2. PICK a \in Answers(o.item, s.device) :
        v = [placed |-> PlacedAs(a, CaptureSize, o.item, Regions[o.bin]),
             named |-> Names(a, o.item)]
  BY <1>1, StillsSeen
<1>3. /\ v.placed = PlacedAs(a, CaptureSize, o.item, Regions[o.bin])
      /\ v.named = Names(a, o.item)
  BY <1>2
<1>4. PICK t \in Target(a, CaptureSize, o.item) :
        Contains(Regions[o.bin], t.at) /\ i = t.label
  BY <1>3 DEF PlacedAs
<1>5. /\ i \in Items /\ where[i] \in Places /\ t.at = SeenAt(i, where[i])
      /\ v.named => i = o.item
  BY <1>2, <1>3, <1>4, StillsSeen, TargetSeen
<1> QED
  BY <1>4, <1>5 DEF SharpEyes

\* An order is verified only in a bin that was surveyed.
SurveyedInv == call[Main].verify => call[Main].order.bin \in DOMAIN Regions

LEMMA SurveyedKept ==
  ASSUME TableInv(Main), CommandInv, SurveyedInv, [RoNext]_roVars
  PROVE  SurveyedInv'
<1> USE MainCalls
<1>0. call \in [Callers -> Call]
  BY DEF TableInv, CellInv
<1>1. ASSUME SameOrder(Main) PROVE SurveyedInv'
  BY <1>1 DEF SameOrder, SurveyedInv
<1>2. CASE Prepare
  <2>1. PICK surveyed \in {DOMAIN Regions, {}} :
          StartWith(Main, args.order, args.verify /\ args.order.bin \in surveyed)
    BY <1>2 DEF Prepare
  <2> DEFINE v == args.verify /\ args.order.bin \in surveyed
  <2>2. args.order \in Orders /\ v \in BOOLEAN
    BY <1>2 DEF Prepare, CommandInv
  <2>3. v => args.order.bin \in DOMAIN Regions
    BY <2>1
  <2>4. StartWith(Main, args.order, v)
    BY <2>1
  <2> HIDE DEF v
  <2> QED
    BY <1>0, <2>2, <2>3, <2>4, StartCall DEF SurveyedInv
<1>3. CASE Quiet
  BY <1>3 DEF Quiet, SurveyedInv
<1>4. CASE Forgets
  BY <1>0, <1>4, ForgetCall DEF Forgets, NoCall, SurveyedInv
<1>5. CASE Resolves
  BY <1>0, <1>1, <1>5, ResolveCall, FailCall DEF Resolves
<1>6. CASE Judges
  BY <1>0, <1>1, <1>6, VerifyCall DEF Judges
<1>7. CASE Move(Main)
  BY <1>0, <1>1, <1>7, MoveCall
<1>8. CASE MoveFails(Main) \/ AlertFails(Main)
  BY <1>0, <1>1, <1>8, FailCall DEF MoveFails, AlertFails
<1>9. CASE Alert(Main)
  BY <1>0, <1>1, <1>9, AlertCall
<1>10. ASSUME ~Prepare, NEW o \in Orders, NEW v \in BOOLEAN, StartWith(Main, o, v)
       PROVE  SurveyedInv'
  <2>1. ~Busy(Main) /\ call'[Main].pc = "resolve"
    BY <1>0, <1>10, StartCall DEF StartWith
  <2>2. ~(Shell \/ Interrupt)
    <3>1. NoCall.pc = "idle"
      BY DEF NoCall
    <3>2. call' # [call EXCEPT ![Main] = NoCall]
      BY <1>0, <2>1, <3>1, ForgetCall
    <3> QED
      BY <3>2 DEF Shell, Invoke, DryRun, Interrupt
  <2>3. ~(Open \/ Return \/ Home \/ HomeFails \/ Abort \/ UNCHANGED roVars) \/ Quiet
    BY DEF Open, Return, Home, HomeFails, Abort, roVars, vars, world, Quiet
  <2>4. ~(ResolveByTable \/ ResolveBySight \/ VerifyBySight \/ BlindStep)
    BY <2>1 DEF ResolveByTable, ResolveBySight, VerifyBySight, BlindStep, InCall, Busy,
                Move, MoveFails, Alert, AlertFails
  <2> QED
    BY <1>3, <1>10, <2>2, <2>3, <2>4 DEF RoNext, MainStep
<1> QED
  BY <1>2, <1>3, <1>4, <1>5, <1>6, <1>7, <1>8, <1>9, <1>10, WhatMainDoes DEF MainDoes

\* The action of the bargain, once main has done what it is about.
Kept ==
  /\ Resolve(Main) \/ ResolveFails(Main) \/ Verify(Main)
  /\ named' =>
       /\ InCall("resolve") => call'[Main].target \in {call[Main].target, Item}
       /\ InCall("verify") /\ call'[Main].verification = "ok"
            => call'[Main].seen = Item

LEMMA TableBargain ==
  ASSUME TableInv(Main), FallBack, call[Main].pc = "resolve"
  PROVE  Kept
<1> USE MainCalls
<1>0. call \in [Callers -> Call] /\ Item \in Items /\ "spot" \in Aims
  BY LookedFor DEF TableInv, CellInv, Aims
<1>1. CASE ResolveAs(Main, "hardcoded", Item, "spot") /\ Item \in Taught
  <2>1. call'[Main].target = Item
    BY <1>0, <1>1, ResolveCall
  <2> QED
    BY <1>1, <2>1 DEF Kept, Resolve, Item, InCall
<1>2. CASE /\ Fail(Main) /\ UNCHANGED <<world, alerts, sent>>
           /\ ~(Item \in Taught /\ call[Main].order.bin \in Bins)
  <2>1. call'[Main].target = call[Main].target
    BY <1>0, <1>2, FailCall
  <2> QED
    BY <1>2, <2>1 DEF Kept, ResolveFails, Item, InCall
<1> QED
  BY <1>1, <1>2 DEF FallBack, ByTheTable

LEMMA SightBargain ==
  ASSUME SharpEyes, TableInv(Main), ResolveBySight, resolver # "canned"
  PROVE  Kept
<1> USE MainCalls
<1>0. call \in [Callers -> Call]
  BY DEF TableInv, CellInv
<1>1. call[Main].pc = "resolve" /\ Item \in Items /\ Perceiving
  BY LookedFor DEF ResolveBySight, InCall, SharpEyes
<1>2. CASE FallBack
  BY <1>1, <1>2, TableBargain
<1>3. CASE Refuse
  <2>1. call'[Main].target = call[Main].target
    BY <1>0, <1>3, FailCall DEF Refuse
  <2> QED
    BY <1>1, <1>3, <2>1 DEF Refuse, ResolveFails, Kept, InCall
<1>4. ASSUME NEW s \in Sightings(Item), NEW f \in s.found, named' = s.named,
             ResolveAs(Main, "perceived", f.label, AimAt(f.label, f.at))
      PROVE  Kept
  <2>1. /\ f.label \in Items /\ where[f.label] \in Places
        /\ AimAt(f.label, f.at) = where[f.label]
        /\ s.named => f.label = Item
    BY <1>1, <1>4, SightingTrue
  <2>2. "held" \notin Places /\ Places \subseteq Aims
    BY CellAssumption DEF Places, Aims
  <2>3. Resolve(Main)
    BY <1>1, <1>4, <2>1, <2>2 DEF Resolve
  <2>4. call'[Main].target = f.label
    BY <1>0, <1>4, <2>1, <2>2, ResolveCall
  <2> QED
    BY <1>1, <1>4, <2>1, <2>3, <2>4 DEF Kept, InCall
<1> QED
  BY <1>2, <1>3, <1>4 DEF ResolveBySight, PickAt

LEMMA VerdictBargain ==
  ASSUME SharpEyes, TableInv(Main), StoryInv(Main), SurveyedInv, VerifyBySight
  PROVE  Kept
<1> USE MainCalls
<1>0. call \in [Callers -> Call]
  BY DEF TableInv, CellInv
<1>1. call[Main].pc = "verify" /\ Item \in Items
  BY LookedFor DEF VerifyBySight, InCall
<1>2. call[Main].verify
  BY <1>1 DEF StoryInv, ProgressInv
<1>3. PICK v \in Verdicts(call[Main].order) :
        /\ \/ v.placed = {} /\ VerifyAs(Main, None)
           \/ \E i \in v.placed : VerifyAs(Main, i)
        /\ named' = v.named
  BY DEF VerifyBySight
<1>4. \A i \in v.placed : /\ i \in Items /\ where[i] = call[Main].order.bin
                          /\ v.named => i = Item
  BY <1>1, <1>2, <1>3, VerdictTrue DEF SurveyedInv, Item
<1>5. PICK i \in {j \in Items : where[j] = call[Main].order.bin} \cup {None} :
        VerifyAs(Main, i) /\ (named' => i \in {Item, None})
  BY <1>3, <1>4
<1>6. Verify(Main)
  BY <1>1, <1>5 DEF Verify
<1>7. call'[Main].verification = "ok" => i # None /\ call'[Main].seen = i
  BY <1>0, <1>5, VerifyCall DEF Passes, Retries, GivesUp
<1> QED
  BY <1>1, <1>5, <1>6, <1>7 DEF Kept, InCall

LEMMA SharpBargain ==
  ASSUME SharpEyes, TableInv(Main), StoryInv(Main), SurveyedInv, [RoNext]_roVars
  PROVE  [Bargain]_roVars
<1> SUFFICES ASSUME RoNext, phase' = "fulfil",
                    \/ InCall("resolve") /\ resolver # "canned"
                    \/ InCall("verify")
             PROVE  Kept
  BY DEF Bargain, Kept
<1>1. phase = "fulfil" /\ call[Main].pc \in {"resolve", "verify"}
  BY DEF InCall
<1>2. ~(Shell \/ Open \/ Prepare \/ Abort \/ Interrupt \/ Return \/ Home \/ HomeFails \/ BlindStep)
  BY <1>1 DEF Shell, Invoke, DryRun, Open, Prepare, Abort, Interrupt, Return, Home, HomeFails,
              BlindStep, InCall, Move, MoveFails, Alert, AlertFails
<1>3. CASE ResolveByTable
  BY <1>3, TableBargain DEF ResolveByTable, InCall
<1>4. CASE ResolveBySight
  BY <1>4, SightBargain DEF ResolveBySight, InCall
<1>5. CASE VerifyBySight
  BY <1>5, VerdictBargain
<1> QED
  BY <1>2, <1>3, <1>4, <1>5 DEF RoNext, MainStep

\* With frames in the size of the calibrations and places that are seen apart
\* the camera and the VLM keep the bargain: a pick by sight aims at where an
\* item is, a verdict says ok only of an item in the bin, and either is of the
\* ordered item whenever the answer has it, whatever else the answer holds,
\* however bins are surveyed and whichever cameras are plugged in.
THEOREM EyesAreSharp ==
  ASSUME SharpEyes
  PROVE  RoSpec => EyesKeepTheBargain
<1> DEFINE Seeing == TableInv(Main) /\ CommandInv /\ StoryInv(Main) /\ SurveyedInv
<1>1. RoInit => Seeing
  <2> SUFFICES ASSUME RoInit PROVE Seeing
    OBVIOUS
  <2>1. TableInv(Main) /\ CommandInv /\ call[Main] = NoCall
    BY MainInitially
  <2>2. StoryInv(Main)
    BY StoryInitially
  <2> QED
    BY <2>1, <2>2 DEF SurveyedInv, NoCall
<1>2. Seeing /\ [RoNext]_roVars => Seeing'
  BY WhatMainDoes, TableKept, ArgsKept, StoryKept, SurveyedKept
<1>3. Seeing /\ [RoNext]_roVars => [Bargain]_roVars
  BY SharpBargain
<1>4. EyesKeepTheBargain <=> [][Bargain]_roVars
  BY PTL DEF EyesKeepTheBargain, Bargain
<1> HIDE DEF Seeing
<1> QED
  BY <1>1, <1>2, <1>3, <1>4, PTL DEF RoSpec

\* And then what was taken for the item of a verified order that is reported
\* fulfilled is in its bin: with EyesAreSharp that is the item itself, unless
\* the VLM pointed at other items only.
COROLLARY SharpSuccess ==
  ASSUME SharpEyes
  PROVE  RoSpec => []HonestSuccess
BY EyesAreSharp, SuccessHonest, PTL

\* And the exit status tells the truth, the same exception apart.
COROLLARY SharpExit ==
  ASSUME SharpEyes
  PROVE  RoSpec => []ExitIsTrue
BY EyesAreSharp, ExitCorrect, PTL
============================================================================
