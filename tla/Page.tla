-------------------------------- MODULE Page --------------------------------
(***************************************************************************)
(* How a run gets to the screen: the frame store (src/gui/frames.py), the  *)
(* snapshot and the frame of the app (app.py), the handler threads that    *)
(* serve them (server.py) and the script of the page, which polls          *)
(* (page.py).                                                              *)
(*                                                                         *)
(* A producer plays beats: it renders a picture or not, then has an event  *)
(* applied, whether the picture could be made or not.  What the board says *)
(* is abstracted to the run, the number of events applied in it and the    *)
(* list of its alerts, which is an object: a document holds a reference to *)
(* it and reads it when it is serialized.  The server may be restarted     *)
(* under the page.                                                         *)
(***************************************************************************)
EXTENDS Integers, Sequences, FiniteSets

CONSTANTS
  Script,       \* the beats: [frame : BOOLEAN, kind : {"reset", "alert", "other"}]
  MaxPolls,     \* bound: how many polls are under way at a time
  MaxRestarts   \* bound: how often the server is restarted

ASSUME PageAssumption ==
  /\ Script \in Seq([frame : BOOLEAN, kind : {"reset", "alert", "other"}])
  /\ MaxRestarts \in Nat /\ MaxPolls \in Nat \ {0}

VARIABLES
  beat,      \* the producer: the beat it is at, and whether it has rendered
  board,     \* the state: run, events applied, which list of alerts
  lists,     \* the alert lists of the process: the runs of the alerts in each
  store,     \* the frame store: the picture and its token
  polls,     \* the answers to /state under way: where they are, the documents
  fetch,     \* the answer to /frame.jpg that the page awaits, and its picture
  strays,    \* the handlers of others that draw the idle table all the same
  page,      \* the page: the document painted, LAST_TOKEN, the picture shown
  restarts,  \* how often the server was restarted
  late,      \* history: the idle picture has replaced another
  lost       \* history: the beats whose picture could not be made

served == <<polls, fetch, strays>>
pageVars == <<beat, board, lists, store, served, page, restarts, late, lost>>

\* Pictures: none, the idle table or the backdrop, one per rendered beat.
Nothing == -1
IdleTable == 0

\* Tokens: a name, or a number where the store had to make one up.
Numbered(n) == [name |-> "", n |-> n]
Named(name) == [name |-> name, n |-> 0]

NoDoc == [run |-> 0, seq |-> 0, list |-> 1, alerts |-> {}, picture |-> Nothing,
          token |-> Named("unset")]
NoFetch == [pc |-> "none", picture |-> Nothing]

Boot ==
  [beat |-> [at |-> 1, rendered |-> FALSE],
   board |-> [run |-> 1, seq |-> 0, list |-> 1],
   lists |-> <<{}>>]

\* attach_source may find a picture to begin with.
Backdrops == {[picture |-> Nothing, token |-> Numbered(0)],
              [picture |-> IdleTable, token |-> Named("backdrop")]}

PageInit ==
  /\ beat = Boot.beat /\ board = Boot.board /\ lists = Boot.lists
  /\ store \in Backdrops
  /\ polls = {} /\ fetch = NoFetch /\ strays = 0
  /\ page = [doc |-> NoDoc, token |-> NoDoc.token, picture |-> Nothing]
  /\ restarts = 0
  /\ late = FALSE
  /\ lost = {}
---------------------------------------------------------------------------
(* The producer: a canned beat, or an event of a run. *)

\* Mutant: the token is kept when none is given.
NextTokenKept(token) == token

\* set_jpeg without a token; a name counts as 0.
NextToken(token) == Numbered(token.n + 1)

Playing == beat.at <= Len(Script)
Current == Script[beat.at]

\* render, or set_path of an event that brings a picture.
Render ==
  /\ Playing /\ Current.frame /\ ~beat.rendered
  /\ store' = [picture |-> beat.at, token |-> NextToken(store.token)]
  /\ beat' = [beat EXCEPT !.rendered = TRUE]
  /\ UNCHANGED <<board, lists, served, page, restarts, late, lost>>

\* The capture has vanished, or the scene cannot be drawn: the store keeps
\* what it had, and the events of the beat are applied all the same.
RenderFails ==
  /\ Playing /\ Current.frame /\ ~beat.rendered
  /\ lost' = lost \cup {beat.at}
  /\ beat' = [beat EXCEPT !.rendered = TRUE]
  /\ UNCHANGED <<board, lists, store, served, page, restarts, late>>

\* Mutant: the events of a beat before its picture.
ReadyAtOnce == Playing

\* The events of a beat come after the attempt at its picture.
Ready == Playing /\ (Current.frame => beat.rendered)

\* Mutant: reset empties the list of alerts.
FreshListSame == [lists EXCEPT ![board.list] = {}]

\* reset makes a new list of alerts.
FreshList == Append(lists, {})

\* The event is applied: reset starts a run.
Apply ==
  /\ Ready
  /\ beat' = [at |-> beat.at + 1, rendered |-> FALSE]
  /\ lists' = CASE Current.kind = "reset" -> FreshList
                [] Current.kind = "alert" ->
                     [lists EXCEPT ![board.list] = @ \cup {board.run}]
                [] OTHER -> lists
  /\ board' = IF Current.kind = "reset"
              THEN [run |-> board.run + 1, seq |-> board.seq + 1, list |-> Len(lists')]
              ELSE [board EXCEPT !.seq = @ + 1]
  /\ UNCHANGED <<store, served, page, restarts, late, lost>>
---------------------------------------------------------------------------
(* /state. *)

\* tick: every 250 ms, whether the last answer is there or not.  The answer
\* begins with a snapshot under the lock.
Tick ==
  /\ Cardinality(polls) < MaxPolls
  /\ polls' = polls \cup
       {[sent |-> FALSE, doc |-> [NoDoc EXCEPT !.run = board.run, !.seq = board.seq,
                                               !.list = board.list]]}
  /\ UNCHANGED <<beat, board, lists, store, fetch, strays, page, restarts, late, lost>>

\* The rest of the document, and what the list of alerts holds by the time it
\* is serialized.
Dump(p) ==
  /\ ~p.sent
  /\ polls' = (polls \ {p}) \cup
       {[sent |-> TRUE, doc |-> [p.doc EXCEPT !.alerts = lists[p.doc.list], !.list = 1,
                                              !.token = store.token,
                                              !.picture = store.picture]]}
  /\ UNCHANGED <<beat, board, lists, store, fetch, strays, page, restarts, late, lost>>

WantsFrame(doc) == doc.token # page.token

\* Mutant: nothing is drawn anew while the picture stays the same.
PaintedWithFrame(doc) ==
  IF WantsFrame(doc)
  THEN [NoDoc EXCEPT !.run = doc.run, !.seq = doc.seq, !.alerts = doc.alerts]
  ELSE page.doc

Painted(doc) == [NoDoc EXCEPT !.run = doc.run, !.seq = doc.seq, !.alerts = doc.alerts]

\* render: whatever answer comes is painted.  A new token has the picture
\* fetched; an earlier fetch is dropped, but not by its handler.
Paint(p) ==
  /\ p.sent
  /\ IF WantsFrame(p.doc)
     THEN /\ fetch' = [NoFetch EXCEPT !.pc = "asked"]
          /\ strays' = strays + IF fetch.pc = "synthesize" THEN 1 ELSE 0
          /\ page' = [page EXCEPT !.doc = Painted(p.doc), !.token = p.doc.token]
     ELSE page' = [page EXCEPT !.doc = Painted(p.doc)] /\ UNCHANGED <<fetch, strays>>
  /\ polls' = polls \ {p}
  /\ UNCHANGED <<beat, board, lists, store, restarts, late, lost>>
---------------------------------------------------------------------------
(* /frame.jpg. *)

\* ensure looks whether there is a picture, under the lock of the store.
Check ==
  /\ fetch.pc = "asked"
  /\ store.picture = Nothing
  /\ fetch' = [fetch EXCEPT !.pc = "synthesize"]
  /\ UNCHANGED <<beat, board, lists, store, polls, strays, page, restarts, late, lost>>

\* It draws the idle table, and sets it whatever is there by then.
SetIdle ==
  /\ store' = [picture |-> IdleTable, token |-> Named("idle")]
  /\ late' = (late \/ store.picture > IdleTable)

Synthesize ==
  /\ \/ /\ fetch.pc = "synthesize"
        /\ fetch' = [fetch EXCEPT !.pc = "asked"]
        /\ UNCHANGED strays
     \/ strays > 0 /\ strays' = strays - 1 /\ UNCHANGED fetch
  /\ SetIdle
  /\ UNCHANGED <<beat, board, lists, polls, page, restarts, lost>>

\* It cannot be drawn: the handler answers that there is no picture, and the
\* page keeps the one it shows.
SynthesizeFails ==
  /\ \/ fetch.pc = "synthesize" /\ fetch' = NoFetch /\ UNCHANGED strays
     \/ strays > 0 /\ strays' = strays - 1 /\ UNCHANGED fetch
  /\ UNCHANGED <<beat, board, lists, store, polls, page, restarts, late, lost>>

\* Once there is a picture it is sent.
Get ==
  /\ fetch.pc = "asked"
  /\ store.picture # Nothing
  /\ fetch' = [pc |-> "sent", picture |-> store.picture]
  /\ UNCHANGED <<beat, board, lists, store, polls, strays, page, restarts, late, lost>>

Load ==
  /\ fetch.pc = "sent"
  /\ page' = [page EXCEPT !.picture = fetch.picture]
  /\ fetch' = NoFetch
  /\ UNCHANGED <<beat, board, lists, store, polls, strays, restarts, late, lost>>
---------------------------------------------------------------------------
\* The server is stopped and started again: a new process plays its script
\* from the top.  The page stays open; what it waited for fails, and a picture
\* that fails is not asked for again.
Restart ==
  /\ restarts < MaxRestarts
  /\ restarts' = restarts + 1
  /\ beat' = Boot.beat /\ board' = Boot.board /\ lists' = Boot.lists
  /\ store' \in Backdrops
  /\ polls' = {} /\ fetch' = NoFetch /\ strays' = 0
  /\ late' = FALSE /\ lost' = {}
  /\ UNCHANGED page

Producer == Render \/ RenderFails \/ Apply

Serve == Check \/ Synthesize \/ SynthesizeFails \/ Get
DumpAny == \E p \in polls : Dump(p)
PaintAny == \E p \in polls : Paint(p)

PageNext ==
  \/ Producer
  \/ Tick \/ DumpAny \/ PaintAny
  \/ Serve \/ Load
  \/ Restart

PageSpec == PageInit /\ [][PageNext]_pageVars

\* The producer's waits end, setInterval goes on for ever, handler threads
\* run, and the browser deals with the answers it has.  One answer may hang.
FairPageSpec ==
  /\ PageSpec
  /\ WF_pageVars(Producer) /\ WF_pageVars(Tick)
  /\ WF_pageVars(DumpAny) /\ WF_pageVars(PaintAny)
  /\ WF_pageVars(Serve) /\ WF_pageVars(Load)
---------------------------------------------------------------------------
\* A document that was put together while the board moved on, outside the
\* lock, still tells of one run: the alerts it lists are alerts of the run it
\* describes, never of the next one.
AlertsOfTheRun == page.doc.alerts \subseteq {page.doc.run}

\* A document never announces an event before its picture is there to be
\* fetched, when that picture could be made: what is drawn is ahead of the
\* picture only by the beats whose picture is lost, which have none.
PictureFirst ==
  ~late => \A p \in polls : p.sent =>
    \A b \in 1..p.doc.seq : Script[b].frame /\ b \notin lost => p.doc.picture >= b

\* However answers overtake each other and whatever the restarts, once the
\* producer is done the page shows the state there is and keeps to it.
PageCatchesUp ==
  <>[](/\ page.doc.run = board.run /\ page.doc.seq = board.seq
       /\ page.doc.alerts = lists[board.list])

\* The page comes to show the picture there is, and for good, unless the
\* server was restarted (its tokens begin again, and the page knows the old
\* one) or the idle table has replaced a picture (so that a number is given
\* twice).
PictureCatchesUp ==
  [](~late /\ restarts = 0) => <>[](page.picture = store.picture)
============================================================================
