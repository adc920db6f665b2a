------------------------------ MODULE EventTail ------------------------------
(***************************************************************************)
(* The file between a run and the dashboard: EventLog and tail_lines of    *)
(* src/gui/emit.py.  Each run opens the file anew, which truncates it, or  *)
(* puts another one in its place; the dashboard may be started first.  A   *)
(* line is written in two pieces, the second of which ends it.  An open    *)
(* handle keeps reading the file it was opened on.                         *)
(***************************************************************************)
EXTENDS Integers, Sequences, FiniteSets

CONSTANTS
  MaxRuns,      \* runs that write
  MaxLines      \* lines a run writes

ASSUME TailAssumption == MaxRuns \in Nat /\ MaxLines \in Nat

VARIABLES
  fromStart, \* follow from the start, not from the end
  files,     \* the contents of every file there was: pieces of lines
  path,      \* which of them the path names, 0 when there is none
  run,       \* the run that writes
  tail,      \* tail_lines: pc, the file it has open, pos, buf
  yielded,   \* the events of the lines it yielded
  stale,     \* history: the tail does not know of the last truncation,
  missed     \* and will not, for the file has outgrown pos

log == <<fromStart, files, path, run>>
vars == <<log, tail, yielded, stale, missed>>

\* Piece 1 begins line n of run r, piece 2 ends it.
Piece(r, n, p) == [run |-> r, line |-> n, piece |-> p]

\* tail is about to "open" the path, to "read", to "yield" what it has, to
\* "stat" the path, or "stopped".
Closed == [pc |-> "open", file |-> 0, pos |-> 0, buf |-> <<>>]
---------------------------------------------------------------------------
Init ==
  /\ fromStart \in BOOLEAN
  /\ files = <<>> /\ path = 0 /\ run = 0
  /\ tail = Closed
  /\ yielded = <<>>
  /\ stale = FALSE /\ missed = FALSE

Size(fs, p) == IF p = 0 THEN -1 ELSE Len(fs[p])

\* What the tail cannot notice: it looks at the size only.
Outgrown == stale' /\ Size(files', path') >= tail.pos

\* EventLog of the next run is opened: the file that is there is truncated,
\* or a new one was put in its place.
OpenLog ==
  /\ run < MaxRuns
  /\ run' = run + 1
  /\ \/ /\ path # 0
        /\ files' = [files EXCEPT ![path] = <<>>]
        /\ UNCHANGED path
        /\ stale' = (tail.file # 0 /\ (stale \/ tail.pos > 0 \/ tail.file # path))
     \/ /\ files' = Append(files, <<>>)
        /\ path' = Len(files')
        /\ stale' = (tail.file # 0)
  /\ missed' = (missed \/ Outgrown)
  /\ UNCHANGED <<fromStart, tail, yielded>>

\* write, flushed: the tail may see the line before it is whole.
Write ==
  /\ run > 0
  /\ LET old == files[path]
         half == old # <<>> /\ old[Len(old)].piece = 1
         new == Piece(run, Len(old) \div 2 + 1, IF half THEN 2 ELSE 1)
     IN /\ new.line <= MaxLines
        /\ files' = [files EXCEPT ![path] = Append(@, new)]
  /\ UNCHANGED <<fromStart, path, run, tail, yielded, stale>>
  /\ missed' = (missed \/ Outgrown)

\* The path is opened, when it is there; from the end if that was asked.
Open ==
  /\ tail.pc = "open"
  /\ path # 0
  /\ tail' = [pc |-> "read", file |-> path,
              pos |-> IF fromStart THEN 0 ELSE Len(files[path]), buf |-> <<>>]
  /\ stale' = FALSE
  /\ UNCHANGED <<log, yielded, missed>>

\* Mutant: a chunk takes the place of what was left over.
JoinedAnew(rest, chunk) == chunk

\* What was left over of the chunk before begins the first line of this one.
Joined(rest, chunk) == rest \o chunk

\* read: everything after pos in the open file.
Read ==
  /\ tail.pc = "read"
  /\ LET data == files[tail.file]
         chunk == SubSeq(data, tail.pos + 1, Len(data))
     IN tail' = IF chunk = <<>> THEN [tail EXCEPT !.pc = "stat"]
                ELSE [tail EXCEPT !.pc = "yield", !.pos = Len(data),
                                  !.buf = Joined(@, chunk)]
  /\ UNCHANGED <<log, yielded, stale, missed>>

\* Where a line ends.
Ends(pieces) == {n \in 1..Len(pieces) : pieces[n].piece = 2}

\* A line parses if both its pieces are there, and nothing else.
Parses(line) ==
  Len(line) = 2 /\ line[1] = [line[2] EXCEPT !.piece = 1]

\* Mutant: the line stays in the buffer.
BehindNothing(pieces, n) == pieces

\* What follows the line that ends at n.
Behind(pieces, n) == SubSeq(pieces, n + 1, Len(pieces))

\* The first line of the buffer is split off, and yielded as an event if it
\* parses; without a newline the rest is left over.
Yield ==
  /\ tail.pc = "yield"
  /\ \/ /\ Ends(tail.buf) = {}
        /\ tail' = [tail EXCEPT !.pc = "read"]
        /\ UNCHANGED yielded
     \/ \E n \in Ends(tail.buf) :
          /\ \A m \in Ends(tail.buf) : n <= m
          /\ tail' = [tail EXCEPT !.buf = Behind(@, n)]
          /\ yielded' = IF Parses(SubSeq(tail.buf, 1, n))
                        THEN Append(yielded, tail.buf[n]) ELSE yielded
  /\ UNCHANGED <<log, stale, missed>>

\* Mutant: the size has to be zero.
ShrunkToNothing == Size(files, path) = 0

Shrunk == Size(files, path) < tail.pos

\* stat: a path that is shorter than what was read was truncated or replaced.
Stat ==
  /\ tail.pc = "stat"
  /\ tail' = IF Shrunk THEN Closed ELSE [tail EXCEPT !.pc = "read"]
  /\ stale' = (stale /\ ~Shrunk)
  /\ UNCHANGED <<log, yielded, missed>>

\* The stop event is set, and seen in a sleep or at the top of the loop.
Stop ==
  /\ tail.pc \in {"open", "read", "stat"}
  /\ tail' = [Closed EXCEPT !.pc = "stopped"]
  /\ stale' = FALSE
  /\ UNCHANGED <<log, yielded, missed>>

Next == OpenLog \/ Write \/ Open \/ Read \/ Yield \/ Stat \/ Stop

Spec == Init /\ [][Next]_vars

\* The tail polls until it is stopped.
FairSpec ==
  Spec /\ WF_vars(Open) /\ WF_vars(Read) /\ WF_vars(Yield) /\ WF_vars(Stat)
---------------------------------------------------------------------------
Pieces == [run : 1..MaxRuns, line : 1..MaxLines, piece : 1..2]

TypeOK ==
  /\ fromStart \in BOOLEAN /\ stale \in BOOLEAN /\ missed \in BOOLEAN
  /\ files \in Seq(Seq(Pieces))
  /\ path \in 0..Len(files) /\ run \in 0..MaxRuns
  /\ tail \in [pc : {"open", "read", "yield", "stat", "stopped"},
               file : 0..Len(files), pos : Nat, buf : Seq(Pieces)]
  /\ yielded \in Seq(Pieces)
  /\ tail.pc \in {"read", "yield", "stat"} <=> tail.file # 0

\* A line was yielded right after the one it follows in its run.
Continues(i) == i > 1 /\ yielded[i - 1] = [yielded[i] EXCEPT !.line = @ - 1]

\* The lines of a run that were yielded are its first ones.
FromTheTop(r) ==
  \A i \in DOMAIN yielded : yielded[i].run = r => yielded[i].line = 1 \/ Continues(i)

\* They are lines of the run that follow each other.
InARow(r) ==
  \A i \in DOMAIN yielded :
    yielded[i].run = r /\ i > 1 => Continues(i) \/ yielded[i - 1].run # r

\* Truncated between two reads or in the middle of a line, or replaced, the
\* file is followed from its top (or on from its end), unless it outgrew what
\* was read before the tail looked.
Faithful ==
  ~missed => \A r \in 1..run : IF fromStart THEN FromTheTop(r) ELSE InARow(r)

\* However unlucky, no event is applied twice, and runs do not mix.
NothingTwice ==
  \A i, j \in DOMAIN yielded : i < j =>
    \/ yielded[i].run < yielded[j].run
    \/ yielded[i].run = yielded[j].run /\ yielded[i].line < yielded[j].line

\* Of a tail that follows from the start: a whole line of the run that writes
\* is yielded, unless the next run begins, the tail is stopped, or cannot see
\* it.
TailCatchesUp ==
  \A r \in 1..MaxRuns, n \in 1..MaxLines :
    (fromStart /\ run = r /\ Len(files[path]) >= 2 * n)
      ~> \/ \E i \in DOMAIN yielded : yielded[i].run = r /\ yielded[i].line = n
         \/ run > r \/ missed \/ tail.pc = "stopped"

\* emit.py:337-338: truncated or replaced, it reopens from the top.
ReopensFromTop == fromStart => \A r \in 1..run : FromTheTop(r)
============================================================================
