# A verification model of the SO-101 picking cell

The cell picks an item a warehouse order names, drops it in a bin, looks whether
it is there, tries once more if not, and raises an alert. This directory holds
TLA+ modules of its control code, TLC configurations that check them on small
instances, and proofs checked by TLAPS. Paths are relative to the repository.

## 1. The system

| Part | Code | State it keeps | Operations | Talks to |
|---|---|---|---|---|
| Motion executor | `src/control/motion.py` | `_current_pose`, `dry_run` | `execute`, `home`, ramps | the twin (`joints.set`) |
| Live session | `src/control/live_session.py`, `tools/live_check.py` | the name map; it seeds the executor's pose | `open_live_session`, `sync_executor_pose`, `verify_pose`, five commands | executor, servo encoders |
| Sim session | `src/control/sim_session.py` | none | `open_sim_executor` | the twin in simulation |
| Inverse kinematics | `src/control/ik.py` | none | `solve_ik` | perception, plans |
| Fulfilment loop | `src/agent_service/loop.py`, `poses.py`, `alerts.py` | locals of a call, the `Fulfillment` it returns | `fulfill_order` | executor, verifier, alert service |
| Order command | `src/agent_service/run_order.py` | none | `main` (one order, then home), verifier and resolver factories | loop, perception |
| Order webhook | `src/agent_service/order_api.py`, `src/wms_mock/orders.py` | `run_lock`, one handler thread per connection | `GET /health`, `POST /orders` | loop, warehouse clients |
| Perception, camera, homography | `src/perception/*.py` | none (files and frames) | `detect`, `locate_item`, `verify_placement`, `capture_still` | camera, VLM, the order command |
| Calibration tools | `tools/calibrate_homography.py`, `pick_bin_regions.py` | `homography.json`, `bin-regions.json` | click, fit, survey | operator, perception |
| Dashboard state | `src/gui/events.py`, `modes.py` | stages, alerts, outcome, log, counters | `apply` of one event, `reset`, `route` | producers, page |
| Dashboard app, platform link, server | `src/gui/app.py`, `platform.py`, `server.py`, `tools/dashboard.py` | the state behind a lock, a queue of alerts, a send worker | `ingest`, `replay`, `set_mode`, `send` | browser, alert service |
| Page and frames | `src/gui/page.py`, `frames.py` | last token, the picture and its token | poll, paint, `ensure`, `get` | app |
| Mock producer | `src/gui/mock.py` | position in the canned run | `run`, `restart`, `configure` | app |
| Emitter and tail | `src/gui/emit.py` | the translator's attempt and stage, a file position | `feed`, `tail_lines`, `follow_into` | loop's output, app |

What is hard here:

* **Failure in the middle.** `joints.set` may raise, or Ctrl-C may land, between
  any two joints of any waypoint; the executor object is used again afterwards.
  `fulfill_order` turns every exception into a failed order and leaves the arm
  where it is, possibly holding an item.
* **Assumed state.** The executor starts from an assumed pose of zeros; the pick
  of a retry was resolved before the first attempt moved the item; a live arm is
  where its encoders say only for the joints they speak of.
* **What is seen.** A pick and a verdict hang on the right camera, a frame of the
  right size, the right one of several detections, files that may be missing, and
  a VLM that says nothing, too much, or something malformed. None of it may fail
  an order that the table of poses can serve.
* **Concurrency.** The webhook is a threaded server in front of one arm. The
  dashboard has a server, a send worker, a connect thread, a mock driver and a
  file tail, all on one state, and a page whose polls overlap.
* **Ordering.** The verdict must be about the last attempt and from a frame taken
  with the arm out of the way; alert results reach the dashboard late.
* **What is lost.** The threads of the dashboard are daemons and end with its
  process, a picture may not be there to be drawn, a file is emptied before it is
  written, and a line that a pattern does not match is skipped.

What makes each part correct is stated as properties below, and listed by hazard,
with the line where it bites, in `PROJECT.json`.

## 2. Modules

| Module | Models | Role |
|---|---|---|
| `MotionPlans` | actions, `clamp`, `validate_plan`, `_run`'s targets, waypoints | pure operators and the constants with their assumptions |
| `MotionExecutor` | `MotionExecutor`, `sync_executor_pose` | the detailed machine, one SDK call per step |
| `ArmPlan` | what callers of the executor rely on | abstract: one step per action |
| `MotionExecutorProofs` | | limits, belief, scope, smooth sweeps, the refinement of `ArmPlan` |
| `FulfillOrder` | `fulfill_order`, the plans of `poses.py`, `send_alert` | one step per plan action or outside call, any number of callers |
| `FulfillOrderProofs` | | what each step does to a call and to the table; the result's story |
| `Vision` | `capture.py`, `detect.py`, `verify.py`, `locate.py`, the reach check and wrist roll of `ik.py` | pure operators on frames, answers and points |
| `RunOrder` | `run_order.main`, its verifier and resolver, `open_sim_executor` | composes `FulfillOrder` and `Vision`: one command after the other |
| `RunOrderProofs` | | bins, story, success, exit, grasp, fallback, sharp eyes |
| `OrderApi` | `make_handler`, `make_runner` | extends `FulfillOrder`: handler threads are its callers |
| `SerialCell` | what the warehouse relies on | abstract: one order at a time, one fate each |
| `OrderApiProofs` | | mutual exclusion, replies, bins, the refinement of `SerialCell` |
| `LiveCheck` | `open_live_session`, `verify_pose`, the commands of `live_check.py` | over `MotionPlans`, on an arm that may not obey |
| `Calibration` | the click window, `calibrate_homography.py`, `pick_bin_regions.py` | what the tools write, when and with which status |
| `Bench` | the two at one bench | interleaves `LiveCheck` and `Calibration` |
| `BenchProofs` | | reports, jaws, files, the first waypoint |
| `Modes` | `modes.py` | where an item goes: pure operators |
| `Dashboard` | `DashboardState` of `events.py` | the fold of events into the board, `Apply` |
| `RunFeed` | `RunOrderTranslator`, `emit`'s main, `follow_into` | composes `FulfillOrder` and `Dashboard`: a run, its translator, the page |
| `EventTail` | `EventLog`, `tail_lines` | the event file between the two processes |
| `EventTailProofs` | | nothing twice, nothing skipped |
| `AlertLink` | `ingest` and `_dispatch_alert` of `app.py`, `platform.py` | alerts on their way to the platform |
| `MockScript` | `build_script` of `mock.py` | the canned runs as data, over `Dashboard` and `Modes` |
| `MockDriver` | `MockDriver`, `set_mode`, `replay`, the requests of `server.py` | the thread that plays them, the requests, the stop |
| `Page` | `frames.py`, `snapshot` and `frame` of `app.py`, the script of `page.py` | how a run gets to the screen |
| `AppProofs` | | of the link: created once, true cards, what a stop and an exit lose; of the page: alerts of the run, the picture before its event |
| `BoardProofs` | | what a sequence of events makes of the board: the canned runs and the console, the real run and its page |
| `MC*` | | instances for TLC |

Each `Mutant:` operator is a plausible bug in the definition below it; it is not
part of the specification. The mutants of `PROJECT.json` put one in place of that
definition and check that the property named there fails.

### MotionExecutor

`pose` is `_current_pose`; `arm` is the angle the twin last accepted per joint and
is what telemetry reads back (external). `plan`, `at` are `execute`'s loop, `leg`
the locals of `_ramp_to` (scope, start, goal, current waypoint), `todo` the joints
`_snap_to` has still to set. `Execute` and `Home` are the calls, `Sync` seeds the
pose, `BeginRamp` is `_run` entering `_ramp_to`, `SetJoint` one turn of
`_snap_to`'s loop, `SetFails` the same turn when the SDK raises before or after
the twin took the command, `NextWaypoint`/`EndRamp` the ramp's loop, `Interrupt`
Ctrl-C in a sleep. Angles are whole degrees and durations whole ticks; a waypoint
rounds down where the code keeps a fraction. `begin`, `known`, `sent` and
`trusted` are history that only properties read.

`ArmPlan` sees an action as one step from a pose to its goal; the refinement
mapping gives it the pose the running action *started* from, so a failed action is
an `Abort` that leaves its joints somewhere on their way.

### FulfillOrder

`call[c]` holds the locals of one call and its `Fulfillment`. The plans are the
three actions of `pick_plan` and the three of `place_plan`, each one step. `held`
and `where` are the gripper and the table, which are external: the grasp may miss
an item or push it away, a release may drop it beside the bin, an item that was
dropped is `astray`. `aim` is where the pick plan, resolved once per order, goes.
`target` is the item that plan goes for and `seen` the one the verifier took for the
ordered one: with perception either may be another item. `sent` is history: the items
that orders and such picks meant for a bin. The VLM may overlook an item in its bin and
does not see one that is not there.

### Vision and RunOrder

`Vision` computes with pixels in parts of the VLM's grid, so that nothing is rounded:
`SelectDevice` is the sort key of the video nodes, `ParseDetections` and `PickTarget`
what an answer holds, `PlacedAs` the verdict (the label of what is in the region),
`Located` the label and the point of the table (the homography is that of a camera
looking straight down), `WristRoll` the folded roll. `RunOrder` plays `main`: `phase` is
where it is, `resolver` which of the three resolvers it has. Where `FulfillOrder` says
what a resolver or a verifier may say (`Resolve`, `Verify`), `RunOrder` computes it:
`Stills` are the frames any set of plugged-in cameras and installed backends can give,
`Answers` what the VLM may say of one, `Sightings` and `Verdicts` what the code makes of
it. An answer may point at the item, with or without its label, at another one, at
another one and then the item, or at nothing; `pick_target` then takes the first entry
with the label or else the first there is (`detect.py:132`). That the computed steps are
steps of `FulfillOrder`, and that they are about the ordered item whenever the answer
has it, is `EyesKeepTheBargain`, on which the models of the webhook and of the feed
rest. `grasp` and `named` are history: the grasp of the last step, and whether the last
answer had an entry for the item asked for. A command that Ctrl-C ends goes on to home
the arm, as `finally` does.

### OrderApi

`phase[t]` is where the handler thread of connection `t` is: waiting for `run_lock`,
inside it (`locked`, `run`, or `crash` while the 500 is written), replying, done and
waiting for the next request on the connection. `RunnerStep` is a step of
`FulfillOrder`. A client may leave, which shows when the reply is written
(`dropped`), and may repeat an order. All requests that need no order are three
kinds: rejected, health, and those whose body is left unread (411, 413); what
follows one of these on its connection is refused by the library (`Misread`).

### LiveCheck, Calibration and Bench

A live command is a process: `Invoke`, `Confirm` (the operator), `Open` with the
discovery of the names, `Sync`, `Execute`, a ramp of waypoints of which the driver
may drop any joint's (`Move`), `Report`. `arm` is the encoders, `pose` the
executor's belief, `read` and `known` the joints the last report heard and
understood. Angles are whole units. In `Calibration` a pair is right if its pixel is
`Seen` of its mark; `Outcomes` is what a least-squares fit can do with the pairs:
meet four exactly, be within the bar, beyond it, or raise. `homography` and `survey`
are the files, each with what is true of it. They are written in place: `Save` decides
the text, `Truncate` opens the file, which empties it, `WriteText` closes it, `Written`
is what `main` reports; `BreakOff` is Ctrl-C or a disk that is full at any point of a
tool, and `torn` the files it left in pieces. `found` is history: the files as the tool
found them. `Bench` lets one tool run at a time.

### Dashboard and RunFeed

`board` is the `DashboardState` without texts, times, the log and the frame;
`Apply` is `apply` with its handlers (`OnStage`, `OnMotion`, ...), `Raises` what
makes one raise, which `apply` turns into a dropped event. `RunFeed` runs
`FulfillOrder` and lets each of its actions print the lines of `loop.py`,
`motion.py`, `alerts.py` and `run_order.py` that the translator has a pattern for
(`Prints`); `translator` is `RunOrderTranslator`, `Events` its `feed`; `pipe` is
the operating system's pipe, `file` the part of the event file not yet followed.
A message of an exception may span lines and a bin may hold a space; then the
pattern of the failure does not match (`"unreadable"`). That goes for the failure after
an exception and for the one after a verifier that raised, whose reason is that text
(`loop.py:96`, `:179`). `legible` is history: the translator has a pattern for all that
the last step printed.

### EventTail

A file is a sequence of pieces, two to a line, because a reader may see a line half
written. `OpenLog` is a run that opens the path, which truncates the file or finds
another one there; `Open`, `Read`, `Yield` (one line of the buffer, or none left) and
`Stat` are the parts of a turn of `tail_lines`, with `tail` its handle, position and
buffer. `stale` and `missed` are history: a truncation the tail has not noticed yet, or
cannot notice any more.

### AlertLink

`Raise` is `ingest` of an alert under the app's lock, `ResetRun` a reset, `Stop`
the `None` put in the queue. `ConnectBegin`, `ConnectRobot`, `ConnectEnd` are the
stretches of the connect thread between the fields it writes; `Take`, `Send`,
`Created`, `CreateRaises`, `MarkOffline` and `Done` those of the worker. `taken`
is what the platform created (external): `create` may raise although it took the
alert. `Exit` is the end of the process, at any moment, and `Alive` the condition of
every other action: worker and connect thread are daemons, and `main` joins neither
after `stop`. `stopAt` is history.

### MockScript and MockDriver

A script is a sequence of beats, a beat the sequence of its events; whether the
item is found in its zone is said by the ending, because the points it is drawn at
are inside and outside every zone of the calibration. `thread.at` is where `_run`
is: at the `top`, about to `clear` the restart, to `play` a beat, in the `wait`
after one (with the look at both events that follows it), `after` the script, in
the `hold` of a finished run without loop. A request is handled in the steps of
`set_mode`: the locked assignment, the reading of the argument, `configure`,
`restart`, the reply.

### Page

`beat` is the producer, which draws a picture and then has its event applied; `store`
the frame store with its token; `polls` the answers to `/state` under way, each with
the document it took under the lock and what it reads afterwards (the list of alerts
is an object that is read when it is serialized); `fetch` the request for
`/frame.jpg`; `page` what the browser shows and the last token it knows. `Check` and
`Synthesize` are the two halves of `ensure`. `Restart` replaces the server under an
open page. `RenderFails` and `SynthesizeFails` are the pictures that cannot be made: a
capture that has vanished or a scene that raises is swallowed and the event applied
without it (`app.py:82-85`, `:118-123`), an idle table that cannot be drawn is a 503.
`late` and `lost` are history: the idle table has replaced a picture, and the beats
whose picture was not made.

## 3. Runs

| Run | States | Shows |
|---|---|---|
| `motion` | 84,249 | `TypeOK`, `BeliefMatchesArm`, `WithinLimits`, `ScopeRespected`, `SmoothSweep` and the refinement `KeepsPromise` of `ArmPlan` |
| `order` | 373,828 | commands of `run_order`: `HonestSuccess`, `BinsHoldOrders`, `ResultTellsTheStory`, `ExitIsTrue`, `GraspIsAcross`, `TaughtNeverRefused`, `EyesKeepTheBargain`, `CommandEnds` |
| `api` | 1,042,253 | `OneArm`, `ReplyIsTrue`, the refinement `IsSerialCell`, and `RequestsAreAnswered`: what needs no arm although a runner hangs, the orders when none does |
| `feed` | 95,901 | `PageIsRight` once a run is over, `StripIsRight` during the run and after it, `BoardCatchesUp` |
| `tail` | 78,559 | `Faithful`, `NothingTwice`, `TailCatchesUp` |
| `alerts` | 128,596 | `CreatedOnce`, `CardsAreTrue`, `StopLosesTheTail`, `EveryAlertAnswered` |
| `page` | 358,112 | `AlertsOfTheRun`, `PictureFirst`, `PageCatchesUp`, `PictureCatchesUp` |
| `console` | 769,908 | `PageOfThisRun`, `MockTellsTheTruth`, `SwitchTakesEffect`, `StopEnds` |
| `bench` | 1,779,936 | `ReportIsTrue`, `EasesOff`, `JawsKept`, `StatusTellsTheFiles` |
| `alerts_faked` | | violated: the dispatch a card claims is its own |
| `live_unmapped` | | violated: an empty drift means that every joint landed |
| `calib_exact` | | violated: four clicks of `--sheet` on the wrong corners cannot pass the ship bar |

Each state machine has a type invariant (`TypeOK`, `RoTypeOK`, `ApiTypeOK`, ...). Only
that of `motion` is a property of a run; those of the executor, the loop, the command,
the webhook, the tail, the link and the console are proved, the others document the
variables.

**Bounds.** `motion`: two joints, because every property relates one joint to its own
past or to "the others", with asymmetric limits and a gripper whose 0 is shut; eight
plans, three good ones (a pick-like plan, one that asks beyond the limits, a snap of
duration 0) and one for each reason `validate_plan` has to refuse one; the arm rests at
zero, elsewhere, or outside its limits; ramps of one to three ticks cover the snap, the
minimum of two waypoints and a longer ramp. Nothing bounds the number of plans: the
state space is finite by itself. `order`: two items, one of which has no taught pose, so
that each may be taken for the other; two bins and an unknown one, the code's two
attempts; the laptop's camera and both nodes of the kit's in every combination; answers
of one or two entries, because the choice of a detection looks at the first with the
right label or at the first; item axes and pans on either side of the fold. Commands
repeat without bound. `api`: two connections, which is what it takes for two orders, or
an order and another request, to race, and three requests (`MaxRequests`), so that one
connection is used again while the other is busy; two items wanted in one bin, since a
verifier may take the one for the other, one attempt (retries are the subject of
`order`). The system stops when all requests are answered and deadlock is not checked
there. `feed`: one item, for a known bin and for one whose name the failure's pattern
cannot read, orders without bound; a pipe of two lines and a file four events ahead are
enough for the page to lag behind the end of a run and the start of the next. `tail`:
three runs of two lines of two pieces, so that a truncation can go unnoticed and be
followed by one that is noticed. `alerts`: three alerts and two resets: an alert of each
run in flight at once. `page`: two polls under way (one can overtake the other), one
restart, a script with a picture that stays, one that changes and an event without.
`console`: two requests, so that handlers meet each other as well as the thread, the
start mode (quality control, the one with the most to route) and one to switch to;
canned runs repeat without bound. `bench`: one joint and the gripper; commands in range,
out of range, out of reach and too long; a ramp of several waypoints; four corners, a
fifth mark and five clicks, so that a fit can be exact or overdetermined and a click
undone. Commands and tools repeat without bound.

**Fairness.** `WF(Progress)` in `MotionExecutor`: the thread that called `execute`
runs on and its sleeps end; failures and interrupts are never required. `WF(MainStep)`
in `RunOrder`: every call `main` makes returns or raises, captures have time-outs;
another command is never required. Weak fairness of each handler thread in
`OrderApi`, but none of the runner, because an SDK call has no timeout:
`RequestsAreAnswered` says itself that it needs runners that end. The lock is not fair,
but requests are finitely many, so a waiting thread finds it free for good; with an
endless stream of orders the code promises a waiting client nothing. In `RunFeed` the
run waits only for the pipe, and emitter and dashboard read on; starting another
order is never required. `EventTail`: the tail polls until it is stopped, nothing
makes a writer write. `AlertLink`: while the process lives the worker runs
on and `create` returns or raises, the connect thread may hang; the process may end at
any time. `MockDriver`: the thread runs on and a `stop()` that has
begun finishes; no request is ever required, nor finished. `Page`: the producer's
waits end, `setInterval` goes on, handler threads run, but a single answer may hang
(fairness is of some answer, not of each). `Bench` has no liveness: an operator may
walk away.

## 4. Proofs

Every theorem is of the specification its run checks, for all values of the constants
that its module's assumptions allow. TLC evaluates each assumption on the instances.
Hypotheses beyond these are named below.

**`MotionExecutorProofs`**, for every set of joints, limits that contain 0, plans,
resting poses and home duration. `IInv` is inductive, and from it follow `[]TypeOK`,
`[]WithinLimits`, `[]BeliefMatchesArm`, `[]ScopeRespected` and `[]OnTheWay`, none of
which is inductive alone. `ControlInv` adds that a ramp runs only inside a call of a
valid plan, that its scope and goal are those of its action and that its waypoint
counter is in range; `LimitInv` that with trusted telemetry the pose, the start and
the goal of a ramp are all in the limits, so that a waypoint, which lies between start
and goal (`WaypointBetween`, with integer division), is too; `DryInv` that a dry run
has commanded nothing. `SmoothSweep` needs where a joint is in the middle of a ramp:
`WayInv` says at the waypoint that is being set, or still at the one before, and two
successive waypoints differ by a share of the way (`WaypointsAreClose`). `PromiseKept` is
the refinement of `ArmPlan`: the mapping shows the pose in which the running action
began, so `BeginRamp` and the turns of the ramp are stutters, the last `SetJoint` is
the abstract step (it lands exactly on the goal, because the last waypoint is the
goal), and a failure or an interrupt is an `Abort` by `OnTheWay`.

**`FulfillOrderProofs`**, for any number of callers, items, bins, orders and attempts.
Its first part says what each action does to the call that takes it; the other proofs
about orders cite these lemmas and not the actions. `GripInv`: the plans of an attempt
begin at their beginning, and from the grasp on the gripper holds the item of the order
or nothing, because the approach of the same attempt dropped whatever an earlier
failure had left there. `HonestInv`: a verdict that is kept is about the table as it
stands, as nothing moves after it. `StoryInv` is the way from the locals to the result:
which stages, attempts, verdict and alerts a call can have at each line of the loop,
whichever of its steps have raised. An alert that was taken although its sending raised
is in it as what it is: the platform was told the verdict, the caller that the order
failed. `[]TypeOK` and `[]ResultTellsTheStory` follow.

**`RunOrderProofs`**, for all items, bins, orders, attempts, cameras, frame sizes and
calibration files. `[]BinsHoldOrders` and `[]ResultTellsTheStory` are those invariants
again, of a command that perceives instead of being told. `[]HonestSuccess` and
`[]ExitIsTrue` are proved of `RoSpec /\ EyesKeepTheBargain`, and `EyesAreSharp`
discharges that conjunct: under `SharpEyes`, that frames come in the size of the
calibrations, that items have names, that the places an item may be at are seen apart
and that in the region of a bin only what is in it is seen, a computed pick and a
computed verdict are steps of the loop. Its proof goes through the whole of `Vision`:
the node selected is not the built-in camera's, every entry of an answer (of one or two)
is seen where its item is (a point, or a box around it, scaled and clamped), the entry
taken has the label asked for if any has it and is the first otherwise, and what lies in
the region or projects to a point is that place. So a pick aims at an item and a verdict
is ok of an item in the bin, and both are of the ordered item unless the answer points
at other items only (`named`); then the loop is told a `target` or a `seen` that is
another item, and `HonestSuccess` and `ExitIsTrue` say so. `SharpSuccess` and
`SharpExit` are the two properties with `SharpEyes` instead of the conjunct. TLC
evaluates `SharpEyes` on the instance (`MCEyes`), and `order_rescaled` shows that
without the frame size the property fails. `[]GraspIsAcross` is the arithmetic of the
fold. `TaughtNeverRefused` is proved for wrists that turn a quarter either way, as the
code's limit of the roll allows. `[]RoTypeOK` needs nothing more.

**`OrderApiProofs`**, for any number of connections, requests, items, bins, orders and
attempts. `[]OneArm`: the thread inside the with block is the one that holds the lock,
only a thread in the runner is inside `fulfill_order`, and its steps touch no other
caller's locals. `[]ReplyIsTrue`, `[]BinsHoldOrders` and the refinement
`IsSerialCell` rest on `ApiInv`, which relates each thread's phase to its request,
its call, its code and its count of runs (`HandlerInv`), and holds of every thread,
not only of the one at work: what the next order does to the table must not make a
reply untrue that is still to be written. The aim of a call is never a bin, since the
webhook gives the loop no resolver (`order_api.py:254`; `WebhookAssumption` says
`Perceiving = FALSE`), so a later pick takes nothing out of one. In the refinement
entering and leaving the runner are the steps that begin and end the one order, the
rest of a handler is unseen. `[]ApiTypeOK` follows too.

**`EventTailProofs`**, for any number of runs, lines, truncations and replacements.
`NothingTwice` holds although a tail can miss a truncation: what was yielded, the
buffer, and what is unread of the file that is held are three stretches of one
ascending sequence (`OrderInv`, `AheadInv`), and when the path is opened nothing of
the run that writes was seen (`NowInv`), for a tail that saw some of it holds that very
file and the file is at least as long as what was read. `Faithful` adds where the
stretches lie (`FollowInv`): unless a truncation was missed the buffer is the part of
the file just before the position, and the next piece goes on where the last line
yielded ended.

**`AppProofs`**. The link, for any number of alerts and new runs: one worker takes the
alerts in the order they were raised: what the platform created lies behind what the
worker has in hand, that behind the queue (`FlowInv`), so nothing is created twice. A
card that says "sending" has its job in the queue or in hand (`SendingInv`), and behind
the `None` of a stop is only what was raised after it (`StopInv`): hence
`StopLosesTheTail`, whenever the process ends. `CountInv`, until a run is begun, equates
the two counters with the numbers of cards, up to the one result that is about to be
written.

The page, for every script, any number of answers under way and of restarts: every
run has an alert list of its own and an answer holds the list of the run it tells of,
so what is read outside the lock is of that run (`ListsInv`, `DocsInv`). The picture in
the store is not older than any event on the board whose picture was made, because the
producer draws before it applies (`PicturesInv`), unless the idle table came between
(`late`).

**`BoardProofs`**, about what a sequence of events makes of the board. `Played` applies
the events of a beat, or of a line, one after the other. That such a recursion is what
it says (`PlayedLeads`) is induction over the number of events, done with the least
number it fails for (`LeastNumber`); the rest of the module never unfolds it: it speaks
of the boards on the way, each the `Apply` of the one before.

* The canned runs, of every mode, scene and ending. `Tells` says of each prefix of a
  script what the board it leads to shows, and every beat keeps it. The console's
  `MockInv`, for any set of requests and modes to ask for, has the board show a prefix
  of some run (`OfOneRun`; one that was cut short stays on the page until the next
  begins), of the thread's own once its first beat is played (`OfThisRun`), and the mode
  of that run unless a request or a restart is still under way (`ModeOfThisRun`).
  `PageOfThisRun` and `MockTellsTheTruth` follow, and `[]ConsoleTypeOK`.
* The real run, for all items, bins, orders, numbers of attempts and sizes of the pipe
  and the file, with and without perception and verification, and one run at a time, as
  `emit` follows one command (`FeedAssumption`). `FeedInv` is `Tracks`: if nothing more
  were printed, what is in the file and then the lines in the pipe would lead translator
  and board, past boards that are right at every event, to where the call is (`Phase`:
  at which stage of the strip, in which attempt, with which verdict, or ended with which
  outcome and alert). So `Follow` and `Translate` only shorten the way, and a step of
  the run has to show that what it prints leads on from the old end to the new one
  (`OrderLine` to `ResultLine` for the lines, `StartSaid` to `FailSaid` for the steps).
  The first board on the way is the page's, hence `StripIsRight`; with nothing on the
  way it is the last, hence `PageIsRight`. A run whose last line cannot be read leaves
  the board where the line before left it (`Settles`). What the run itself may do is
  `SpecInv` of `FulfillOrderProofs`: without it a call could claim stages that it never
  recorded.

**`BenchProofs`**, for every arm, set of commands, sheet and number of clicks. A report
is about the arm as it stands because no verdict stands while anything moves
(`OneAtATime`) and a reading that is understood is of the joint it is taken for
(`Measured`); the jaws are kept because neither the plan that is left nor the ramp in
progress has them in scope (`JawsInv`). `FilesCorrect` compares the files with those the
tool found (`FilesInv`): before the write nothing differs, during it only the file that
is open, which is then in pieces, and at its end that file holds the text decided on,
from which the status comes. `EasesOff`: a joint that was read is believed to be where
it is until its first waypoint, and the first ramp starts there (`EaseInv`); that
waypoint is a share of the way (`FirstShare`).

The hypotheses that are not assumptions of a module: `EyesKeepTheBargain` in two
theorems, `SharpEyes` where it is discharged, and in `TaughtServed` the quarter turn
of the wrist.

Only model-checked: liveness (every `~>` property, and `SwitchTakesEffect`,
`StopEnds`, `CommandEnds`), which is out of the prover's reach. Every safety property
of a passing run is the conclusion of a theorem.

## 5. Where code and documents differ

With a run of `PROJECT.json` that shows it:

* `platform.py:3` says a dispatch is never faked; the result of an alert is written
  by index, after a reset onto a card of the next run (`alerts_faked`).
* `live_session.py:126` says an empty return of `verify_pose` means that every joint
  landed; joints that are not measured, or are measured under a name that was not
  discovered, are skipped, and the check prints that they landed (`live_unmapped`).
  `ReportIsTrue` is what does hold.
* `calibrate_homography.py:6-7` says a silently bad fit has to be impossible; the four
  clicks of `--sheet` determine the homography exactly, in any order (`calib_exact`).

With a configuration beside them that reproduces it (`tlc -config X.cfg M`):

* `motion.py:6-8` says every commanded angle is clamped right before the SDK call;
  only goals are clamped, so a ramp from a pose read outside the limits sends
  waypoints outside them (`motion_clamp`, `MCMotionExecutor`). `WithinLimits` is what
  does hold.
* `emit.py:337-338` says a truncated or replaced file is reopened from the top; only
  its size is looked at, and one that has outgrown the old position is followed
  from its middle (`tail_missed`, `EventTail`).
* `tools/dashboard.py:308-310` says the reply to `POST /mode` is authoritative; the
  reset of a canned run between the two readings of the mode reverts it, the reply
  names the old mode and the switch is lost (`mode_switch`, `MockDriver`).
* A frame of another size than `CAPTURE_SIZE` is only warned about (`capture.py:103`);
  its pixels are compared with regions of the other size and a verdict may be ok of
  an item that is elsewhere (`order_rescaled`, `MCRunOrder`).

In the models, without a configuration of their own:

* `motion.py:4-6` says a target is never commanded in one step; duration 0 is
  accepted and snaps.
* `loop.py:8` and `order_api.py:74-76`: a verified order is fulfilled; an alert
  service that raises makes it failed and a 409.
* `order_api.py:117` says the body is always drained first; a 411 or 413 leaves it
  unread, and what comes next on the connection is refused (`Misread`).
* `order_api.py:147` says the reply is outside the lock; the 500 is inside.
* `emit.py:208-210` paints DETECT and LOCATE skipped for a pick that no point was
  perceived for, so that they do not go green for work that never happened; a run
  that fails before its pick leaves DETECT active, and the outcome makes it done too.
* `mock.py:567` says a switch takes effect on the next, immediate run; one that
  lands between `_run`'s reading of the mode and its `_restart.clear()` is played
  one run later, and with `--once` not at all (`SwitchTakesEffect` is therefore
  about the loop).
* `modes.py:9` and `:254` say a defect diverts to red; a `review` goes to orange, and
  nowhere else than ordered when orange was ordered.
* `loop.py:5-6`: the verifier is to say whether the ordered item is in its bin;
  `pick_target` falls back to the first detection when none has the label
  (`detect.py:132`, as `test_detect.py:90` and `test_verify.py:73` want it), so a cell
  whose VLM points at another item only may pick that one, or find it in the bin, and
  report the order fulfilled. `EyesKeepTheBargain` and `ExitIsTrue` say that this is
  the only way to it.
* `loop.py:182`: an alert that raises although the platform took it leaves the platform
  with `order_fulfilled` and the caller, the webhook and the page with a failed order
  (`RaisedLate`).
* `emit.py:65`: the line of a failure whose text spans lines matches no pattern, nor
  does that of a bin with a space. Beside an `order_failed` alert, if one was sent, the
  page goes on saying "running" (`OutcomeShown`).
* `events.py:333-342` and `:429`: an outcome makes done whatever stage is active, so
  the PICK or the PLACE that a run broke off in goes green on the page of a failed
  order (`BrokeOff`).
* `platform.py:169-170`, `tools/dashboard.py:393-402`: a stop queues a `None` and
  nobody waits for the worker, so an alert still queued, or in the middle of `create`,
  is lost with the process (`StopLosesTheTail` says which).
* `app.py:82-85`, `:118-123`: a picture that cannot be made is passed over in silence
  and the page tells the event over the picture before (`lost`).
* `homography.py:159`, `verify.py:207`: the files are written in place; a write that
  breaks off leaves neither the old nor the new one (`torn`).
* `frames.py:342`: `ensure` may put the idle table over the first picture; and a page
  that outlives its server does not fetch a picture whose token it knows from the
  old one (`PictureCatchesUp` excludes both, and says so).
* `live_check.py`: `cmd_gripper` does not sync, so its first ramp starts from an
  assumed 0; `cmd_home` only warns when there is no telemetry (`EasesOff` is therefore
  about joints that were read).
* `pick_bin_regions.py:161`: the survey is saved before it is proved, so a good one is
  lost to one that fails its proof, with status 1.

Not in the models: the pattern of the order's line wants `repr` to quote with `'`,
which it does not for a name with an apostrophe (`emit.py:51`); a motion report is
stored whatever its attempt (`events.py:357`), which no producer of the repository
delays; an event that is counted as dropped
may be half applied (`events.py:330`); a NaN duration passes both comparisons of
`validate_plan` (`motion.py:163`); the check for a degenerate fit at
`homography.py:99` cannot fail; `calibrate_homography.py:207` calls
`reprojection_error` outside the `try` of a tool that says it never raises.

## 6. Not modelled, and why

* **Numbers over the reals**: the joint angles of `solve_ik` (an input of
  `LiveCheck`), the bisections of `check_reach.py`, the least-squares fit itself and
  the segmentation of `orient.py` (its axis is an input of `RunOrder`). What they
  decide is modelled, how they compute it is beyond TLC and the provers.
* **Output without state a property is about**: drawing and JPEG encoding, the
  markup and styles of the page, the log and the overlay of the document,
  `make_calibration_sheet.py`, the self-tests of `tools/dashboard.py`, warm-up and
  file names of captures.
* **Scripts**: `hello_sim.py`, `detect_frame.py`.
* **External**: camera, VLM, twin, servo driver, alert service, operator, table and
  gripper, `http.server`. Each is a choice over what it may do, said in the module that
  uses it. The VLM labels rightly what it points at, or leaves out the label of the item
  asked for, and points at nothing that is not there; it may point at other items in
  front of the one it is asked for, or at those only. A body of a request is JSON, no
  line of which reads as a request of its own, so what follows an unread one is refused
  (`Misread`).
* **The end of the webhook's process**: Ctrl-C while a daemon thread moves the arm
  (`order_api.py:349`) ends everything in the middle; the repository promises nothing
  about what is then left.

What could still be proved: the type invariants of the feed and of the page, which no
run needs; that the boards of the page are those of `Dashboard`, which `Page` abstracts
to the number of the last event; and, for the tail and the feed together, that the
events of a real run reach the board although the file they pass through is truncated
by the next one, which now are two models with the event file between them.
