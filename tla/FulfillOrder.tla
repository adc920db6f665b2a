---------------------------- MODULE FulfillOrder ----------------------------
(***************************************************************************)
(* fulfill_order of src/agent_service/loop.py with the plans of poses.py   *)
(* and send_alert of alerts.py: resolve the pick and the place, move,      *)
(* verify, try once more, alert.  A caller is a thread that calls it; the  *)
(* callers share one arm.  Each plan action is a step, and so is every     *)
(* other call that can fail: the SDK, the verifier, the alert service.     *)
(*                                                                         *)
(* The table is external.  Each item has the spot the pose table was       *)
(* taught, the gripper may miss or lose an item, and an item that is       *)
(* dropped is astray: no taught pose finds it again, a perceived pick does *)
(* if it is resolved afterwards (it may also find an item in a bin).  The  *)
(* VLM may overlook an item, or see another one only, which is then taken  *)
(* for it, by the pick and by the verifier; it sees none where none is.    *)
(***************************************************************************)
EXTENDS Integers, Sequences, FiniteSets

CONSTANTS
  Callers,       \* the threads that call fulfill_order
  Items,         \* the items on the table
  Taught,        \* the items that have a pose in PICK_POSES
  Bins,          \* the bins of PLACE_POSES
  Orders,        \* the orders that may be placed, known items and bins or not
  MaxAttempts,   \* MAX_ATTEMPTS
  Verifying,     \* the cell was started with --verify
  Perceiving,    \* the cell was started with --perceive
  None           \* nobody, nothing

ASSUME CellAssumption ==
  /\ Taught \subseteq Items
  /\ Orders \subseteq [item : Items, bin : Bins \cup {"unknown bin"}]
  /\ MaxAttempts \in Nat
  /\ Verifying \in BOOLEAN /\ Perceiving \in BOOLEAN
  /\ None \notin Items /\ None \notin Orders /\ None \notin Callers
  /\ {"unknown bin", "spot", "astray", "held", "lost"} \cap Bins = {}

VARIABLES
  call,     \* per caller: the locals and the result of its last call
  arm,      \* where the arm is: "rest", "pick", "bin", "between"
  held,     \* the item in the gripper, or None
  where,    \* per item: "spot", "astray", "held" or a bin
  alerts,   \* per caller: the alerts the platform took during its call
  sent      \* history: the items a bin was meant for, by the orders and by
            \*   the picks that took another item for the ordered one

world == <<arm, held, where>>
vars == <<call, world, alerts, sent>>

Stages == {"picked", "placed", "verified", "verify-failed", "retried",
           "alerted"}

\* Mutant: an approach that does not open the gripper.
PickShut == <<"home", "home", "grasp">>

\* pick_plan's three actions and place_plan's three.
Pick == <<"home", "approach", "grasp">>
Place == <<"carry", "release", "return">>
Moves == Pick \o Place

Call == [pc : {"idle", "resolve", "move", "verify", "alert", "returned"},
         order : Orders \cup {None},
         verify : BOOLEAN,        \* a verifier was given
         source : {"hardcoded", "perceived"},
         target : Items \cup {None},  \* the item the pick plan goes for, and
         aim : {"spot", "astray", "lost"} \cup Bins,  \* where it goes
         attempt : Nat,
         step : 1..Len(Moves),
         status : {"fulfilled", "failed"},
         stages : Seq(Stages),
         attempts : Nat,
         verification : {"none", "ok", "not ok"},
         seen : Items \cup {None},    \* the item the verifier saw in the bin
         alert : {"none", "order_fulfilled", "order_failed"}]

NoCall == [pc |-> "idle", order |-> None, verify |-> FALSE,
           source |-> "hardcoded", target |-> None, aim |-> "spot", attempt |-> 0, step |-> 1,
           status |-> "fulfilled", stages |-> <<>>, attempts |-> 0,
           verification |-> "none", seen |-> None, alert |-> "none"]

Busy(c) == call[c].pc \notin {"idle", "returned"}
Attempts(c) ==
  IF call[c].verify /\ MaxAttempts > 1 THEN MaxAttempts ELSE 1
---------------------------------------------------------------------------
Init ==
  /\ call = [c \in Callers |-> NoCall]
  /\ arm = "rest"
  /\ held = None
  /\ where = [i \in Items |-> "spot"]
  /\ alerts = [c \in Callers |-> {}]
  /\ sent = {}

\* Whether a verifier is given: with --verify it may still be missing, when
\* the bin was never surveyed and _live_verifier returns None.
VerifierGiven == IF Verifying THEN BOOLEAN ELSE {FALSE}

\* fulfill_order is entered, with a verifier or without.
StartWith(c, o, v) ==
  /\ ~Busy(c)
  /\ call' = [call EXCEPT ![c] =
                [NoCall EXCEPT !.pc = "resolve", !.order = o, !.verify = v]]
  /\ alerts' = [alerts EXCEPT ![c] = {}]
  /\ sent' = sent \cup {o}
  /\ UNCHANGED world

Start(c, o) == \E v \in VerifierGiven : StartWith(c, o, v)

\* Mutant: the exception is noted and the call goes on.
FailStaying(c) ==
  call' = [call EXCEPT ![c].status = "failed"]

\* The except clause.
Fail(c) ==
  call' = [call EXCEPT ![c].pc = "returned", ![c].status = "failed"]

\* The pick and the place are planned before anything moves; the pick plan
\* goes for the item, and where, the resolver says.
ResolveAs(c, source, item, aim) ==
  /\ call[c].order.bin \in Bins
  /\ call' = [call EXCEPT ![c].pc = "move", ![c].attempt = 1, ![c].source = source,
                          ![c].target = item, ![c].aim = aim]
  /\ sent' = sent \cup {[item |-> item, bin |-> call[c].order.bin]}
  /\ UNCHANGED <<world, alerts>>

\* The pose table, which is also the fallback for an item that is not seen,
\* says the spot; a perceived pick aims at where an item is now, the ordered
\* one or, if the answer has only others, another.
Resolve(c) ==
  /\ call[c].pc = "resolve"
  /\ \/ /\ call[c].order.item \in Taught
        /\ ResolveAs(c, "hardcoded", call[c].order.item, "spot")
     \/ /\ Perceiving
        /\ \E i \in Items :
             where[i] # "held" /\ ResolveAs(c, "perceived", i, where[i])

\* UnknownItem, UnknownBin, or an item whose grasp angle the wrist cannot
\* supply: the order fails.
ResolveFails(c) ==
  /\ call[c].pc = "resolve"
  /\ \/ call[c].order.item \notin Taught
     \/ call[c].order.bin \notin Bins
     \/ Perceiving
  /\ Fail(c)
  /\ UNCHANGED <<world, alerts, sent>>

\* The item in the gripper falls on the table.
Drop == /\ held' = None
        /\ where' = [where EXCEPT ![held] = "astray"]

\* Where an action of the plans takes the arm.
ArmAfter(m) == CASE m \in {"home", "return"} -> "rest"
                 [] m = "approach" -> "pick"
                 [] m = "carry" -> "bin"
                 [] OTHER -> arm

\* What it does to the items.  The approach opens the gripper on the way;
\* the grasp closes it on the item the plan goes for if that is where it aims
\* (it may miss, or push the item away); the release opens it over the bin, and what
\* it held falls in or beside.  home and return shut it, on what it holds or
\* on nothing.
Effect(c, m) ==
  LET i == call[c].target
  IN \/ m \in {"home", "return", "grasp", "carry"} /\ UNCHANGED <<held, where>>
     \/ m \in {"approach", "release"} /\ held = None /\ UNCHANGED <<held, where>>
     \/ m \in {"approach", "carry", "release"} /\ held # None /\ Drop
     \/ /\ m = "grasp" /\ held = None /\ where[i] = call[c].aim
        /\ \/ /\ held' = i
              /\ where' = [where EXCEPT ![i] = "held"]
           \/ /\ UNCHANGED held
              /\ where' = [where EXCEPT ![i] = "astray"]
     \/ /\ m = "release" /\ held # None
        /\ held' = None
        /\ where' = [where EXCEPT ![held] = call[c].order.bin]

\* An item that went astray during the call is not where its plan, resolved
\* once, still aims.
AimAfter(c) ==
  IF where' # where /\ where'[call[c].target] = "astray"
  THEN "lost" ELSE call[c].aim

\* One action of the plans completes.  The stage is recorded when its plan
\* returns, the attempt once both have.
Move(c) ==
  LET s == call[c].step
      next == [call[c] EXCEPT !.step = IF s = Len(Moves) THEN 1 ELSE s + 1,
                              !.aim = AimAfter(c)]
  IN /\ call[c].pc = "move"
     /\ arm' = ArmAfter(Moves[s])
     /\ Effect(c, Moves[s])
     /\ call' = [call EXCEPT ![c] =
          CASE s = Len(Pick) ->
                 [next EXCEPT !.stages = Append(@, "picked")]
            [] s = Len(Moves) ->
                 [next EXCEPT !.stages = Append(@, "placed"),
                              !.attempts = call[c].attempt,
                              !.pc = IF call[c].verify THEN "verify" ELSE "alert"]
            [] OTHER -> next]
     /\ UNCHANGED <<alerts, sent>>

\* The SDK raises during an action, which may have had its effect: the order
\* fails where it stands, without an alert.
MoveFails(c) ==
  /\ call[c].pc = "move"
  /\ arm' = "between"
  /\ UNCHANGED <<held, where>> \/ Effect(c, Moves[call[c].step])
  /\ Fail(c)
  /\ UNCHANGED <<alerts, sent>>

\* Mutant: one attempt too many.
MayRetryTwice(c) == call[c].attempt <= Attempts(c)

\* range(1, attempts + 1) has another attempt.
MayRetry(c) == call[c].attempt < Attempts(c)

\* The loop goes round: the same plans again.
Retry(c) ==
  call' = [call EXCEPT ![c].pc = "move", ![c].verification = "not ok",
                       ![c].attempt = @ + 1,
                       ![c].stages = @ \o <<"verify-failed", "retried">>]

\* _verdict, with the item the verifier takes to be in the bin; with None, or
\* if it raises, it is not ok.
VerifyAs(c, item) ==
  /\ \/ /\ item # None
        /\ call' = [call EXCEPT ![c].pc = "alert", ![c].verification = "ok",
                                ![c].seen = item,
                                ![c].stages = Append(@, "verified")]
     \/ item = None /\ MayRetry(c) /\ Retry(c)
     \/ /\ item = None /\ ~MayRetry(c)
        /\ call' = [call EXCEPT ![c].pc = "alert", ![c].verification = "not ok",
                                ![c].stages = Append(@, "verify-failed")]
  /\ UNCHANGED <<world, alerts, sent>>

\* The verdict is ok only of an item in the bin; it may not be seen.
Verify(c) ==
  /\ call[c].pc = "verify"
  /\ \E i \in {j \in Items : where[j] = call[c].order.bin} \cup {None} :
       VerifyAs(c, i)

\* What the loop ends with in verified.
Verified(c) == call[c].verify => call[c].verification = "ok"

AlertKind(c) == IF Verified(c) THEN "order_fulfilled" ELSE "order_failed"

\* The outcome is announced and returned.
Alert(c) ==
  /\ call[c].pc = "alert"
  /\ alerts' = [alerts EXCEPT ![c] = @ \cup {AlertKind(c)}]
  /\ call' = [call EXCEPT ![c].pc = "returned",
                          ![c].alert = AlertKind(c),
                          ![c].stages = Append(@, "alerted"),
                          ![c].status = IF Verified(c) THEN "fulfilled"
                                        ELSE "failed"]
  /\ UNCHANGED <<world, sent>>

\* alerts.create raises, before or after the platform took the alert: the
\* exception makes the order a failed one whatever the verdict was.
AlertFails(c) ==
  /\ call[c].pc = "alert"
  /\ \/ UNCHANGED alerts
     \/ alerts' = [alerts EXCEPT ![c] = @ \cup {AlertKind(c)}]
  /\ Fail(c)
  /\ UNCHANGED <<world, sent>>

Step(c) ==
  \/ Resolve(c)
  \/ ResolveFails(c)
  \/ Move(c)
  \/ MoveFails(c)
  \/ Verify(c)
  \/ Alert(c)
  \/ AlertFails(c)

Next == \E c \in Callers : Step(c) \/ \E o \in Orders : Start(c, o)

Spec == Init /\ [][Next]_vars
---------------------------------------------------------------------------
TypeOK ==
  /\ call \in [Callers -> Call]
  /\ arm \in {"rest", "pick", "bin", "between"}
  /\ held \in Items \cup {None}
  /\ where \in [Items -> {"spot", "astray", "held"} \cup Bins]
  /\ \A i \in Items : where[i] = "held" <=> held = i
  /\ alerts \in [Callers -> SUBSET {"order_fulfilled", "order_failed"}]
  /\ sent \subseteq [item : Items, bin : Bins \cup {"unknown bin"}]

\* When an order is reported fulfilled after a verification, the item that the
\* verifier took for the ordered one is in the ordered bin: the verdict that
\* decides is about the last attempt, not an earlier one, and still true.
HonestSuccess ==
  \A c \in Callers :
    call[c].pc = "returned" /\ call[c].status = "fulfilled" /\ call[c].verify
      => call[c].seen \in Items /\ where[call[c].seen] = call[c].order.bin

\* No item ends in a bin that no order and no pick for an order meant it for,
\* not even one that an earlier order left in the gripper when its motion
\* failed.
BinsHoldOrders ==
  \A i \in Items : where[i] \in Bins => [item |-> i, bin |-> where[i]] \in sent

\* The stage lists a caller may see (README's example is one of them), with
\* the number of attempts and the status each goes with.
Round == <<"picked", "placed">>
Wanting == <<"picked", "placed", "verify-failed", "retried">>
Retried(n) == [i \in 1..(4 * n) |-> Wanting[((i - 1) % 4) + 1]]

Story(c) ==
  LET n == Attempts(c)
  IN IF call[c].verify
     THEN {[stages |-> Retried(k - 1) \o Round \o <<"verified", "alerted">>,
            attempts |-> k, status |-> "fulfilled"] : k \in 1..n}
          \cup {[stages |-> Retried(n - 1) \o Round \o <<"verify-failed", "alerted">>,
                 attempts |-> n, status |-> "failed"]}
     ELSE {[stages |-> Round \o <<"alerted">>, attempts |-> 1,
            status |-> "fulfilled"]}

\* Stages, attempts and status are one story, or the beginning of one.
StagesTell(c) ==
  call[c].pc # "idle" =>
    \E s \in Story(c) :
      /\ Len(call[c].stages) <= Len(s.stages)
      /\ \A i \in DOMAIN call[c].stages : call[c].stages[i] = s.stages[i]
      /\ call[c].attempts =
           Cardinality({i \in DOMAIN call[c].stages : call[c].stages[i] = "placed"})
      /\ call[c].pc = "returned" =>
           IF call[c].stages = s.stages
           THEN call[c].attempts = s.attempts /\ call[c].status = s.status
           ELSE call[c].status = "failed" /\ Len(call[c].stages) < Len(s.stages)

\* alerts.create raised although the platform took the alert.
RaisedLate(c) == call[c].alert = "none" /\ alerts[c] # {}

\* The platform hears of an order at most once, and of its last verdict, which
\* is the outcome returned unless alerts.create raised late: then an order is
\* announced as fulfilled, or as failed, and returned as failed.
AlertTells(c) ==
  call[c].pc = "returned" =>
    /\ Cardinality(alerts[c]) <= 1
    /\ call[c].alert # "none" => alerts[c] = {call[c].alert}
    /\ call[c].status = "fulfilled" <=> call[c].alert = "order_fulfilled"
    /\ RaisedLate(c) =>
         /\ alerts[c] = {AlertKind(c)}
         /\ call[c].stages # <<>>
         /\ call[c].stages[Len(call[c].stages)] =
              IF ~call[c].verify THEN "placed"
              ELSE IF Verified(c) THEN "verified" ELSE "verify-failed"

\* What the result says is one story, or the beginning of one that an error
\* cut short: stages, attempts and status agree, and a retry follows a failed
\* verification and nothing else.  The platform hears what the caller is told,
\* but for an alert whose sending raised after it was taken: that one tells the
\* verdict, and the caller is told that the order failed.
ResultTellsTheStory == \A c \in Callers : StagesTell(c) /\ AlertTells(c)
============================================================================
