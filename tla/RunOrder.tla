------------------------------ MODULE RunOrder ------------------------------
(***************************************************************************)
(* The command of src/agent_service/run_order.py: open the cell in         *)
(* simulation (sim_session.py), build the live verifier and the perceiving *)
(* resolver as far as the calibration files allow, run one order, home.    *)
(* The order is FulfillOrder's with the eyes of Vision: what FulfillOrder  *)
(* assumes of a resolver and of a verifier is computed here from frames.   *)
(*                                                                         *)
(* Commands are run one after the other on one table, which stays as the   *)
(* last one left it.  The camera, the VLM and the calibration files are    *)
(* external: the VLM labels what it points at rightly, or leaves out the    *)
(* label of the item asked for, but it may point at other items only, in   *)
(* front of it or instead.                                                 *)
(***************************************************************************)
EXTENDS FulfillOrder, Vision

CONSTANTS
  Main,          \* the thread of main, the one caller
  Devices,       \* the video nodes there may be
  FrameSizes,    \* the sizes the driver may deliver frames in
  Sight(_, _),   \* where on the VLM's grid an item at a place is seen, y first
  Regions,       \* bin-regions.json: the surveyed bins and their rectangles
  Axes, Pans     \* the directions items lie in, the turns of the base

ASSUME CommandAssumption ==
  /\ Callers = {Main}
  /\ DOMAIN Regions \subseteq Bins
  /\ Axes \subseteq Int /\ Pans \subseteq Int
  /\ \A d \in Devices : d \in [number : Nat, builtin : BOOLEAN,
                               kit : BOOLEAN, index : Nat]

VARIABLES
  phase,      \* "exited", "open", "prepare", "fulfil", "home"
  args,       \* --item and --bin, --verify, --perceive, until they are used
  resolver,   \* what resolves the pick: "table", "canned", "camera"
  exit,       \* the exit status, "" before the first
  grasp,      \* the grasp the last step has planned across an axis, if any
  named       \* history: the last answer named the item asked for

command == <<phase, args, resolver, exit, grasp, named>>
roVars == <<vars, command>>

NoArgs == [order |-> None, verify |-> FALSE, perceive |-> FALSE]

RoInit ==
  /\ Init
  /\ phase = "exited"
  /\ args = NoArgs
  /\ resolver = "table"
  /\ exit = ""
  /\ grasp = {}
  /\ named = TRUE
---------------------------------------------------------------------------
(* What the cell sees. *)

Places == {"spot", "astray"} \cup Bins

\* An entry of the answer about an item at a point, as the VLM may give it.
Point(at, label) == [kind |-> "point", at |-> at, label |-> label]
Box(at, label) ==
  [kind |-> "box", label |-> label,
   at |-> <<at[1] - 1, at[2] - 1, at[1] + 1, at[2] + 1>>]
Malformed == [kind |-> "malformed", label |-> NoLabel]

Entries(i, p) ==
  LET at == Sight(i, p)
  IN {Point(at, i), Box(at, i), Point(at, NoLabel)}

\* What else there is to point at.
OtherEntries(i) ==
  {Point(Sight(j, where[j]), j) : j \in {k \in Items \ {i} : where[k] \in Places}}

\* The answers to a question about an item: nothing usable, the item, another
\* one, or the item behind another one, perhaps after a malformed entry.  In
\* what the lid of a laptop sees the item may be anywhere.
Answers(i, d) ==
  LET spots == IF d.builtin THEN Places ELSE {where[i]} \cap Places
      own == UNION {Entries(i, p) : p \in spots}
  IN {<<>>, <<Malformed>>}
     \cup {<<e, f>> : e \in OtherEntries(i), f \in own}
     \cup UNION {{<<e>>, <<Malformed, e>>} : e \in own \cup OtherEntries(i)}

\* Whether an answer has an entry for the item asked for.
Names(answer, i) ==
  \E k \in DOMAIN answer :
    answer[k].kind # "malformed" /\ answer[k].label \in {i, NoLabel}

\* The replayed answers of --detections: saved when the items lay at their
\* spots, perhaps for another order.
CannedAnswers == {<<>>} \cup {<<Point(Sight(j, "spot"), j)>> : j \in Items}

\* The stills that whatever is plugged in and whatever is installed may take.
\* The second node of a camera has no frames.
Stills ==
  {s \in UNION {CaptureStill(listing, installed, FrameSizes)
                : listing \in SUBSET Devices, installed \in SUBSET {"cv2", "ffmpeg"}}
   : s.device.index = 0}

\* What locate_item may make of the table: the item it takes for the one asked
\* for, at a point, or none if it raises.
Sightings(i) ==
  {[found |-> {}, named |-> TRUE]} \cup
  IF resolver = "canned"
  THEN {[found |-> Located(a, CaptureSize, i), named |-> Names(a, i)]
        : a \in CannedAnswers}
  ELSE UNION {{[found |-> Located(a, s.size, i), named |-> Names(a, i)]
               : a \in Answers(i, s.device)} : s \in Stills}

\* The place of an item that a pick at a point goes for.
AimAt(i, point) ==
  LET there == {p \in Places :
                  [label |-> i, at |-> point]
                    \in Located(<<Point(Sight(i, p), i)>>, CaptureSize, i)}
  IN IF there = {} THEN "lost" ELSE CHOOSE p \in there : TRUE

\* What _verdict may make of the placement: the item that is taken for the one
\* asked for, if it is in the region.
Verdicts(o) ==
  {[placed |-> {}, named |-> TRUE]} \cup
  UNION {{[placed |-> PlacedAs(a, s.size, o.item, Regions[o.bin]),
           named |-> Names(a, o.item)]
          : a \in Answers(o.item, s.device)} : s \in Stills}
---------------------------------------------------------------------------
(* The command up to fulfill_order. *)

\* With --sim.  Without the id of a twin it ends at once.
Invoke(o, v, p) ==
  /\ phase = "exited"
  /\ \/ /\ phase' = "open" /\ exit' = ""
        /\ args' = [order |-> o, verify |-> v, perceive |-> p]
     \/ phase' = "exited" /\ exit' = "2" /\ UNCHANGED args
  /\ grasp' = {}
  /\ call' = [call EXCEPT ![Main] = NoCall]
  /\ UNCHANGED <<world, alerts, sent, resolver, named>>

\* The dry run: a null robot, a verifier that fails its first checks, canned
\* answers that may show the item.
DryRunOk(o, v, failFirst, shown) ==
  /\ o.item \in Taught \/ shown
  /\ o.bin \in Bins
  /\ v => failFirst < IF MaxAttempts > 1 THEN MaxAttempts ELSE 1

DryRun(o, v, failFirst, p) ==
  /\ phase = "exited"
  /\ \E shown \in {FALSE, p} :
       exit' = IF DryRunOk(o, v, failFirst, shown) THEN "dry 0" ELSE "dry 1"
  /\ grasp' = {}
  /\ call' = [call EXCEPT ![Main] = NoCall]
  /\ UNCHANGED <<world, alerts, sent, args, resolver, phase, named>>

\* open_sim_executor: every joint is sent home in one command that may be
\* lost or fail halfway without anybody minding.
Open ==
  /\ phase = "open"
  /\ phase' = "prepare"
  /\ arm' \in {arm, "between", "rest"}
  /\ UNCHANGED <<call, held, where, alerts, sent, args, resolver, exit,
                 grasp, named>>

\* The SDK raises, or Ctrl-C, before fulfill_order: nothing is homed yet.
Abort ==
  /\ phase \in {"open", "prepare"}
  /\ phase' = "exited"
  /\ exit' = "traceback"
  /\ args' = NoArgs
  /\ arm' \in IF phase = "open" THEN {arm, "between", "rest"} ELSE {arm}
  /\ UNCHANGED <<call, held, where, alerts, sent, resolver, grasp, named>>

\* _live_verifier and _perceiving_resolver: a missing survey or calibration
\* leaves the order unverified or to the pose table, it does not stop it.
Prepare ==
  /\ phase = "prepare"
  /\ \E surveyed \in {DOMAIN Regions, {}} :
       StartWith(Main, args.order, args.verify /\ args.order.bin \in surveyed)
  /\ resolver' \in IF args.perceive THEN {"table", "canned", "camera"} ELSE {"table"}
  /\ phase' = "fulfil"
  /\ args' = NoArgs
  /\ named' = TRUE
  /\ UNCHANGED <<exit, grasp>>
---------------------------------------------------------------------------
(* The order. *)

InCall(pc) == phase = "fulfil" /\ call[Main].pc = pc
Item == call[Main].order.item

ByTheTable ==
  IF Item \in Taught /\ call[Main].order.bin \in Bins
  THEN ResolveAs(Main, "hardcoded", Item, "spot")
  ELSE Fail(Main) /\ UNCHANGED <<world, alerts, sent>>

\* Whatever perception raises sends the pick to the pose table.
FallBack == ByTheTable /\ grasp' = {}

ResolveByTable ==
  /\ InCall("resolve")
  /\ resolver = "table"
  /\ FallBack
  /\ UNCHANGED <<phase, args, resolver, exit, named>>

\* An impossible grasp angle fails the order.
Refuse ==
  /\ Fail(Main)
  /\ UNCHANGED <<world, alerts, sent>>
  /\ grasp' = {}

\* A grasp across the item's long axis, if it has one the wrist can supply.
PickAt(f) ==
  \/ ResolveAs(Main, "perceived", f.label, AimAt(f.label, f.at)) /\ grasp' = {}
  \/ \E axis \in Axes, pan \in Pans :
       LET roll == WristRoll(axis, pan)
       IN IF RollReachable(roll)
          THEN /\ ResolveAs(Main, "perceived", f.label, AimAt(f.label, f.at))
               /\ grasp' = {[axis |-> axis, pan |-> pan, roll |-> roll]}
          ELSE Refuse

\* The perceiving resolver.  The bin is looked up after the pick.
ResolveBySight ==
  /\ InCall("resolve")
  /\ resolver # "table"
  /\ \E s \in Sightings(Item) :
       /\ IF call[Main].order.bin \in Bins /\ \E f \in s.found : Reachable(f.at)
          THEN \E f \in s.found : PickAt(f)
          ELSE FallBack
       /\ named' = s.named
  /\ UNCHANGED <<phase, args, resolver, exit>>

\* The live verifier looks at the table anew.
VerifyBySight ==
  /\ InCall("verify")
  /\ \E v \in Verdicts(call[Main].order) :
       /\ \/ v.placed = {} /\ VerifyAs(Main, None)
          \/ \E i \in v.placed : VerifyAs(Main, i)
       /\ named' = v.named
  /\ grasp' = {}
  /\ UNCHANGED <<phase, args, resolver, exit>>

\* The steps that look at nothing.
BlindStep ==
  /\ phase = "fulfil"
  /\ Move(Main) \/ MoveFails(Main) \/ Alert(Main) \/ AlertFails(Main)
  /\ grasp' = {}
  /\ UNCHANGED <<phase, args, resolver, exit, named>>

\* Ctrl-C is no Exception: it leaves fulfill_order without a result.
Interrupt ==
  /\ phase = "fulfil" /\ Busy(Main)
  /\ \/ InCall("move") /\ arm' = "between"
        /\ (Effect(Main, Moves[call[Main].step]) \/ UNCHANGED <<held, where>>)
     \/ UNCHANGED world
  /\ call' = [call EXCEPT ![Main] = NoCall]
  /\ phase' = "home"
  /\ exit' = "interrupted"
  /\ grasp' = {}
  /\ resolver' = "table"
  /\ UNCHANGED <<alerts, sent, args, named>>

ExitStatus == IF call[Main].status = "fulfilled" THEN "0" ELSE "1"

Return ==
  /\ InCall("returned")
  /\ phase' = "home"
  /\ exit' = ExitStatus
  /\ grasp' = {}
  /\ resolver' = "table"
  /\ UNCHANGED <<vars, args, named>>

\* Mutant: home only after an order that came back fulfilled.
HomeIfFulfilled ==
  /\ phase = "home"
  /\ phase' = "exited"
  /\ arm' = IF exit = "0" THEN "rest" ELSE arm
  /\ UNCHANGED <<call, held, where, alerts, sent, args, resolver, exit, grasp,
                 named>>

\* finally: the arm is homed, the gripper shut on what it may hold.
Home ==
  /\ phase = "home"
  /\ phase' = "exited"
  /\ arm' = "rest"
  /\ UNCHANGED <<call, held, where, alerts, sent, args, resolver, exit, grasp,
                 named>>

\* The SDK raises once more, or Ctrl-C again.
HomeFails ==
  /\ phase = "home"
  /\ phase' = "exited"
  /\ exit' = "traceback"
  /\ arm' = "between"
  /\ UNCHANGED <<call, held, where, alerts, sent, args, resolver, grasp, named>>

MainStep ==
  \/ Open
  \/ Prepare
  \/ ResolveByTable
  \/ ResolveBySight
  \/ VerifyBySight
  \/ BlindStep
  \/ Return
  \/ Home
  \/ HomeFails

Shell ==
  \E o \in Orders, v \in BOOLEAN, p \in BOOLEAN :
    \/ Invoke(o, v, p)
    \/ \E n \in 0..MaxAttempts : DryRun(o, v, n, p)

RoNext == Shell \/ MainStep \/ Abort \/ Interrupt

RoSpec == RoInit /\ [][RoNext]_roVars

\* Every call main makes returns or raises: the captures have time-outs.
FairRoSpec == RoSpec /\ WF_roVars(MainStep)
---------------------------------------------------------------------------
RoTypeOK ==
  /\ TypeOK
  /\ phase \in {"exited", "open", "prepare", "fulfil", "home"}
  /\ args \in [order : Orders \cup {None}, verify : BOOLEAN, perceive : BOOLEAN]
  /\ resolver \in {"table", "canned", "camera"}
  /\ exit \in {"", "0", "1", "2", "traceback", "interrupted", "dry 0", "dry 1"}
  /\ grasp \subseteq [axis : Axes, pan : Pans, roll : Int]
  /\ named \in BOOLEAN

\* The exit status and the arm tell the same story.  The arm is always left
\* at home once an order was begun, unless homing itself fails; status 0
\* means that the order was fulfilled with nothing left in the gripper, and
\* if a verifier looked, its item in its bin, or else another item that the
\* verifier took for it, but only where the VLM pointed at other items only;
\* status 1 means that it was not.
ExitIsTrue ==
  phase = "exited" =>
    /\ exit \in {"0", "1", "interrupted"} => arm = "rest"
    /\ exit = "0" =>
         /\ call[Main].pc = "returned" /\ call[Main].status = "fulfilled"
         /\ call[Main].verify =>
              \E i \in {Item} \cup (IF named THEN {} ELSE Items) :
                i = call[Main].seen /\ where[i] = call[Main].order.bin
         /\ held = None
    /\ exit = "1" => call[Main].status = "failed"

\* Perception must never fail an order: one that the pose table can serve is
\* served whatever the camera, the VLM, the homography and the kinematics do
\* with it, at a spot of the table or by the table.
TaughtNeverRefused ==
  [][InCall("resolve") /\ phase' = "fulfil"
     /\ Item \in Taught /\ call[Main].order.bin \in Bins
       => call'[Main].pc = "move"]_roVars

\* What the webhook's and the feed's models take for granted of a live
\* resolver and of a live verifier: a perceived pick aims at where an item is,
\* and a verdict is ok only of an item in the bin.  Beyond that, the item is
\* the ordered one whenever the VLM has pointed it out, be it behind another
\* one: only an answer with other items only misleads the cell, which then
\* picks, or verifies, another item (detect.py:132).
EyesKeepTheBargain ==
  [][(InCall("resolve") /\ resolver # "canned") \/ InCall("verify")
       => \/ phase' # "fulfil"
          \/ /\ Resolve(Main) \/ ResolveFails(Main) \/ Verify(Main)
             /\ named' =>
                  /\ InCall("resolve") => call'[Main].target \in {call[Main].target, Item}
                  /\ InCall("verify") /\ call'[Main].verification = "ok"
                       => call'[Main].seen = Item]_roVars

\* What the bargain rests on: frames come in the size the calibrations were
\* made on, items have names, the places an item may be at are seen apart, and
\* within the region of a bin only what is in it.
SeenAt(i, p) == Pixel(2 * Sight(i, p)[1], 2 * Sight(i, p)[2], CaptureSize)

SharpEyes ==
  /\ Perceiving /\ FrameSizes = {CaptureSize} /\ NoLabel \notin Items
  /\ \A i \in Items : \A p, q \in Places :
       /\ Sight(i, p) \in (0..Scale) \X (0..Scale)
       /\ Project(SeenAt(i, p)) = Project(SeenAt(i, q)) => p = q
       /\ \A b \in DOMAIN Regions : Contains(Regions[b], SeenAt(i, p)) => p = b

\* The jaws close across the long axis of the item wherever the base is
\* turned, with a roll that the executor need not clamp.
GraspIsAcross ==
  \A g \in grasp :
    /\ (g.roll + g.pan + JawOffset - g.axis) % 180 = 90
    /\ RollReachable(g.roll)

\* A command comes to its end.
CommandEnds == phase # "exited" ~> phase = "exited"
============================================================================
