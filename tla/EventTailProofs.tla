--------------------------- MODULE EventTailProofs ---------------------------
(***************************************************************************)
(* The tail for every number of runs and lines.  What it yielded, what it  *)
(* has in its buffer and what it has not read of the file it holds are     *)
(* three stretches of one ascending sequence of pieces; and nothing of the *)
(* run that writes was seen when the path is opened, for a tail that saw   *)
(* some of it holds that very file and the file is not shorter than what   *)
(* was read of it.                                                         *)
(***************************************************************************)
EXTENDS EventTail, SequenceTheorems, TLAPS

\* Where a piece lies in the file of its run.
At(a) == 2 * (a.line - 1) + a.piece

Before(a, b) == a.run < b.run \/ (a.run = b.run /\ At(a) < At(b))

\* A file holds the first pieces of one run; that the path names, of the run
\* that writes.
FileInv ==
  /\ (path = 0) <=> (run = 0)
  /\ \A f \in 1..Len(files) : \A i \in 1..Len(files[f]) :
       /\ At(files[f][i]) = i
       /\ f = path => files[f][i].run = run
       /\ f # path => files[f][i].run < run
       /\ \A j \in 1..Len(files[f]) : files[f][i].run = files[f][j].run

HandleInv == tail.file = 0 => tail.buf = <<>> /\ tail.pos = 0

OrderInv ==
  /\ \A i, j \in 1..Len(yielded) : i < j => Before(yielded[i], yielded[j])
  /\ \A i, j \in 1..Len(tail.buf) : i < j => Before(tail.buf[i], tail.buf[j])
  /\ \A i \in 1..Len(yielded), j \in 1..Len(tail.buf) : Before(yielded[i], tail.buf[j])
  /\ \A i \in 1..Len(yielded) : yielded[i].piece = 2

\* What the tail has not read of the file it holds is after what it had.
AheadInv ==
  tail.file # 0 =>
    \A i \in 1..Len(files[tail.file]) : i > tail.pos =>
      /\ \A j \in 1..Len(yielded) : Before(yielded[j], files[tail.file][i])
      /\ \A j \in 1..Len(tail.buf) : Before(tail.buf[j], files[tail.file][i])

\* The tail holds the file the path names, and that is long enough.
Holding ==
  /\ tail.pc # "open"
  /\ tail.file # 0 => tail.file = path /\ tail.pos <= Len(files[path])

\* Of the run that writes the tail has only pieces that are in the file.
NowInv ==
  /\ \A j \in 1..Len(yielded) :
       /\ yielded[j].run <= run
       /\ yielded[j].run = run => At(yielded[j]) <= Len(files[path]) /\ Holding
  /\ \A j \in 1..Len(tail.buf) :
       /\ tail.buf[j].run <= run
       /\ tail.buf[j].run = run => At(tail.buf[j]) <= Len(files[path]) /\ Holding

Inv == TypeOK /\ FileInv /\ HandleInv /\ OrderInv /\ AheadInv /\ NowInv
---------------------------------------------------------------------------
LEMMA PieceFacts ==
  \A a \in Pieces : /\ a.run \in Nat /\ a.run >= 1 /\ a.line \in Nat /\ a.line >= 1
                    /\ a.piece \in {1, 2} /\ At(a) \in Nat /\ At(a) >= 1
BY TailAssumption DEF Pieces, At

LEMMA TailFacts ==
  ASSUME TypeOK
  PROVE  /\ Len(files) \in Nat /\ Len(yielded) \in Nat /\ Len(tail.buf) \in Nat
         /\ \A f \in 1..Len(files) :
              /\ files[f] \in Seq(Pieces) /\ Len(files[f]) \in Nat
              /\ \A i \in 1..Len(files[f]) : files[f][i] \in Pieces
         /\ \A i \in 1..Len(yielded) : yielded[i] \in Pieces
         /\ \A i \in 1..Len(tail.buf) : tail.buf[i] \in Pieces
         /\ tail.buf \in Seq(Pieces)
         /\ tail.pos \in Nat /\ run \in Nat /\ path \in Nat
         /\ tail.file \in 0..Len(files) /\ tail.file \in Nat
<1>1. /\ files \in Seq(Seq(Pieces)) /\ yielded \in Seq(Pieces)
      /\ tail.buf \in Seq(Pieces) /\ tail.pos \in Nat /\ tail.file \in 0..Len(files)
  BY DEF TypeOK
<1>2. /\ Len(files) \in Nat /\ \A f \in 1..Len(files) : files[f] \in Seq(Pieces)
  BY <1>1, LenProperties, ElementOfSeq
<1>3. \A f \in 1..Len(files) : /\ Len(files[f]) \in Nat
                               /\ \A i \in 1..Len(files[f]) : files[f][i] \in Pieces
  BY <1>2, LenProperties, ElementOfSeq
<1>4. /\ Len(yielded) \in Nat /\ \A i \in 1..Len(yielded) : yielded[i] \in Pieces
  BY <1>1, LenProperties, ElementOfSeq
<1>5. /\ Len(tail.buf) \in Nat /\ \A i \in 1..Len(tail.buf) : tail.buf[i] \in Pieces
  BY <1>1, LenProperties, ElementOfSeq
<1>6. run \in Nat /\ path \in Nat /\ tail.file \in Nat
  BY <1>1, <1>2, TailAssumption DEF TypeOK
<1> QED  BY <1>1, <1>2, <1>3, <1>4, <1>5, <1>6

LEMMA BeforeIsTransitive ==
  \A a, b, c \in Pieces : Before(a, b) /\ Before(b, c) => Before(a, c)
BY PieceFacts DEF Before

LEMMA InitHolds == Init => Inv
<1> SUFFICES ASSUME Init PROVE Inv
  OBVIOUS
<1> USE DEF Init, Closed
<1>1. <<>> \in Seq(Seq(Pieces)) /\ <<>> \in Seq(Pieces) /\ Len(<<>>) = 0
  OBVIOUS
<1>2. TypeOK
  <2>1. 0 \in 0..Len(files) /\ 0 \in 0..MaxRuns
    BY <1>1, TailAssumption
  <2>2. tail \in [pc : {"open", "read", "yield", "stat", "stopped"},
                 file : 0..Len(files), pos : Nat, buf : Seq(Pieces)]
    BY <1>1, <2>1
  <2> QED  BY <1>1, <2>1, <2>2 DEF TypeOK
<1>3. FileInv /\ HandleInv /\ OrderInv /\ AheadInv /\ NowInv
  BY <1>1 DEF FileInv, HandleInv, OrderInv, AheadInv, NowInv
<1> QED  BY <1>2, <1>3 DEF Inv
---------------------------------------------------------------------------
(***************************************************************************)
(* The runs.                                                               *)
(***************************************************************************)
\* A new run begins an empty file under the path and leaves the others.
LEMMA OpenLogFacts ==
  ASSUME TypeOK, OpenLog
  PROVE  /\ files' \in Seq(Seq(Pieces)) /\ Len(files') \in Nat
         /\ Len(files) <= Len(files') /\ path' \in 1..Len(files')
         /\ run' = run + 1 /\ run' \in 0..MaxRuns
         /\ files'[path'] = <<>>
         /\ \A f \in 1..Len(files') : f # path' => f \in 1..Len(files) /\ files'[f] = files[f]
         /\ UNCHANGED <<fromStart, tail, yielded>>
         /\ stale' \in BOOLEAN /\ missed' \in BOOLEAN
<1> USE TailFacts
<1>0. files \in Seq(Seq(Pieces)) /\ <<>> \in Seq(Pieces)
  BY DEF TypeOK
<1>1. /\ run' = run + 1 /\ run' \in 0..MaxRuns /\ UNCHANGED <<fromStart, tail, yielded>>
  BY TailAssumption DEF OpenLog, TypeOK
<1>4. stale' \in BOOLEAN /\ missed' \in BOOLEAN
  BY DEF OpenLog, Outgrown
<1>2. CASE path # 0 /\ files' = [files EXCEPT ![path] = <<>>] /\ path' = path
  <2>1. path \in 1..Len(files)
    BY <1>2 DEF TypeOK
  <2>2. /\ files' \in Seq(Seq(Pieces)) /\ Len(files') = Len(files)
        /\ \A f \in 1..Len(files) : files'[f] = IF f = path THEN <<>> ELSE files[f]
    BY <1>0, <1>2, <2>1, ExceptSeq
  <2> QED  BY <1>1, <1>2, <1>4, <2>1, <2>2
<1>3. CASE files' = Append(files, <<>>) /\ path' = Len(files')
  <2>1. /\ files' \in Seq(Seq(Pieces)) /\ Len(files') = Len(files) + 1
        /\ \A f \in 1..Len(files) : files'[f] = files[f]
        /\ files'[Len(files) + 1] = <<>>
    BY <1>0, <1>3, AppendProperties
  <2> QED  BY <1>1, <1>3, <1>4, <2>1
<1> QED  BY <1>2, <1>3 DEF OpenLog

LEMMA OpenLogKeeps ==
  ASSUME Inv, OpenLog
  PROVE  Inv'
<1>0. TypeOK /\ FileInv /\ HandleInv /\ OrderInv /\ AheadInv /\ NowInv
  BY DEF Inv
<1> USE TailFacts, OpenLogFacts, <1>0
<1>1. TypeOK'
  <2>1. tail' \in [pc : {"open", "read", "yield", "stat", "stopped"},
                 file : 0..Len(files'), pos : Nat, buf : Seq(Pieces)]
    BY DEF TypeOK
  <2> QED  BY <2>1 DEF TypeOK
<1>2. FileInv'
  <2>1. \A f \in 1..Len(files) : \A i \in 1..Len(files[f]) : files[f][i].run < run + 1
    <3> SUFFICES ASSUME NEW f \in 1..Len(files), NEW i \in 1..Len(files[f])
                 PROVE  files[f][i].run < run + 1
      OBVIOUS
    <3>1. files[f][i] \in Pieces /\ run \in Nat
      OBVIOUS
    <3>2. files[f][i].run \in Nat
      BY <3>1, PieceFacts
    <3>3. files[f][i].run = run \/ files[f][i].run < run
      BY DEF FileInv
    <3> HIDE TailFacts, OpenLogFacts
    <3> QED  BY <3>1, <3>2, <3>3
  <2>2. path' # 0 /\ run' # 0 /\ files'[path'] = <<>>
    <3>1. run \in Nat /\ run' = run + 1 /\ Len(files') \in Nat /\ path' \in 1..Len(files')
      OBVIOUS
    <3> HIDE TailFacts, OpenLogFacts
    <3>2. path' # 0 /\ run' # 0
      BY <3>1
    <3> QED  BY <3>2, OpenLogFacts
  <2>3. ASSUME NEW f \in 1..Len(files'), NEW i \in 1..Len(files'[f])
        PROVE  /\ At(files'[f][i]) = i
               /\ f = path' => files'[f][i].run = run'
               /\ f # path' => files'[f][i].run < run'
               /\ \A j \in 1..Len(files'[f]) : files'[f][i].run = files'[f][j].run
    <3>1. f # path'
      BY <2>2
    <3>2. f \in 1..Len(files) /\ files'[f] = files[f]
      BY <3>1
    <3>3. run' = run + 1 /\ i \in 1..Len(files[f])
      BY <2>3, <3>2
    <3> HIDE TailFacts, OpenLogFacts
    <3> QED  BY <2>1, <3>1, <3>2, <3>3 DEF FileInv
  <2> QED  BY <2>2, <2>3 DEF FileInv
<1>3. HandleInv' /\ OrderInv'
  BY DEF HandleInv, OrderInv
<1>4. AheadInv'
  <2> SUFFICES ASSUME tail.file # 0, NEW i \in 1..Len(files'[tail.file]), i > tail.pos
               PROVE  /\ \A j \in 1..Len(yielded) : Before(yielded[j], files'[tail.file][i])
                      /\ \A j \in 1..Len(tail.buf) : Before(tail.buf[j], files'[tail.file][i])
    BY DEF AheadInv
  <2>1. files'[path'] = <<>>
    OBVIOUS
  <2>2. tail.file # path'
    BY <2>1
  <2>3. tail.file \in 1..Len(files')
    <3>1. tail.file \in 0..Len(files) /\ Len(files) <= Len(files')
          /\ Len(files) \in Nat /\ Len(files') \in Nat
      OBVIOUS
    <3> HIDE TailFacts, OpenLogFacts
    <3> QED  BY <3>1
  <2>4. files'[tail.file] = files[tail.file]
    BY <2>2, <2>3
  <2> QED  BY <2>4 DEF AheadInv
<1>5. NowInv'
  <2>1. \A j \in 1..Len(yielded) : yielded[j].run <= run /\ yielded[j].run \in Nat
    BY PieceFacts DEF NowInv
  <2>2. \A j \in 1..Len(tail.buf) : tail.buf[j].run <= run /\ tail.buf[j].run \in Nat
    BY PieceFacts DEF NowInv
  <2>3. run' = run + 1 /\ run \in Nat /\ yielded' = yielded /\ tail' = tail
    OBVIOUS
  <2> HIDE TailFacts, OpenLogFacts
  <2>4. \A j \in 1..Len(yielded') : yielded'[j].run <= run' /\ yielded'[j].run # run'
    BY <2>1, <2>3
  <2>5. \A j \in 1..Len(tail'.buf) : tail'.buf[j].run <= run' /\ tail'.buf[j].run # run'
    BY <2>2, <2>3
  <2> QED  BY <2>4, <2>5 DEF NowInv
<1> QED  BY <1>1, <1>2, <1>3, <1>4, <1>5 DEF Inv

---------------------------------------------------------------------------
\* The next piece of a file with n pieces: its first of a line after an even
\* number of them, its second after an odd one.
LEMMA NextPiece ==
  ASSUME NEW n \in Nat, NEW p \in {1, 2},
         p = IF n = 2 * (n \div 2) + 1 THEN 2 ELSE 1
  PROVE  /\ n \div 2 + 1 \in Nat /\ n \div 2 + 1 >= 1
         /\ 2 * ((n \div 2 + 1) - 1) + p = n + 1
<1>1. n \div 2 \in Int /\ 2 * (n \div 2) <= n /\ n < 2 * (n \div 2) + 2
  BY SMT
<1> QED  BY <1>1, SMT

\* The file the path names grows by the next piece of the run.
LEMMA WriteFacts ==
  ASSUME TypeOK, FileInv, Write
  PROVE  /\ path \in 1..Len(files)
         /\ files' \in Seq(Seq(Pieces)) /\ Len(files') = Len(files)
         /\ Len(files'[path]) = Len(files[path]) + 1
         /\ \A i \in 1..Len(files[path]) : files'[path][i] = files[path][i]
         /\ files'[path][Len(files[path]) + 1] \in Pieces
         /\ files'[path][Len(files[path]) + 1].run = run
         /\ At(files'[path][Len(files[path]) + 1]) = Len(files[path]) + 1
         /\ \A f \in 1..Len(files) : f # path => files'[f] = files[f]
         /\ UNCHANGED <<fromStart, path, run, tail, yielded, stale>>
         /\ missed' \in BOOLEAN
<1> DEFINE old == files[path]
           half == old # <<>> /\ old[Len(old)].piece = 1
           new == Piece(run, Len(old) \div 2 + 1, IF half THEN 2 ELSE 1)
<1>1. /\ run > 0 /\ new.line <= MaxLines
      /\ files' = [files EXCEPT ![path] = Append(old, new)]
      /\ UNCHANGED <<fromStart, path, run, tail, yielded, stale>>
      /\ missed' = (missed \/ Outgrown)
  BY DEF Write
<1>2. path \in 1..Len(files)
  <2>1. path # 0 /\ path \in 0..Len(files) /\ Len(files) \in Nat
    BY <1>1, TailFacts DEF FileInv, TypeOK
  <2> QED  BY <2>1
<1>3. /\ old \in Seq(Pieces) /\ Len(old) \in Nat
      /\ \A i \in 1..Len(old) : old[i] \in Pieces /\ At(old[i]) = i
  BY <1>2, TailFacts DEF FileInv
<1>4. half <=> Len(old) = 2 * (Len(old) \div 2) + 1
  <2>1. CASE Len(old) = 0
    BY <2>1, <1>3
  <2>2. CASE Len(old) # 0
    <3>1. /\ old # <<>> /\ Len(old) \in 1..Len(old)
          /\ old[Len(old)] \in Pieces /\ At(old[Len(old)]) = Len(old)
      BY <1>3, <2>2
    <3>2. /\ old[Len(old)].piece \in {1, 2} /\ old[Len(old)].line \in Nat
          /\ 2 * (old[Len(old)].line - 1) + old[Len(old)].piece = Len(old)
      BY <3>1, PieceFacts DEF At
    <3> HIDE DEF old
    <3>3. old[Len(old)].piece = 1 <=> Len(old) = 2 * (Len(old) \div 2) + 1
      <4>1. \A n, l \in Nat : \A p \in {1, 2} :
              2 * (l - 1) + p = n => (p = 1 <=> n = 2 * (n \div 2) + 1)
        BY SMT
      <4> QED  BY <1>3, <3>2, <4>1
    <3> QED  BY <2>2, <3>1, <3>3 DEF half
  <2> QED  BY <2>1, <2>2
<1>5. /\ new \in Pieces /\ new.run = run /\ At(new) = Len(old) + 1
  <2> DEFINE p == IF half THEN 2 ELSE 1
  <2>1. p \in {1, 2} /\ p = IF Len(old) = 2 * (Len(old) \div 2) + 1 THEN 2 ELSE 1
    BY <1>4
  <2> HIDE DEF p, half
  <2>2. /\ Len(old) \div 2 + 1 \in Nat /\ Len(old) \div 2 + 1 >= 1
        /\ 2 * ((Len(old) \div 2 + 1) - 1) + p = Len(old) + 1
    BY <1>3, <2>1, NextPiece
  <2>3. new = Piece(run, Len(old) \div 2 + 1, p)
    BY DEF p
  <2>4. run \in 1..MaxRuns
    BY <1>1, TailAssumption DEF TypeOK
  <2>5. new = [run |-> run, line |-> Len(old) \div 2 + 1, piece |-> p]
    BY <2>3 DEF Piece
  <2> HIDE DEF new, old
  <2>6. /\ new.run = run /\ new.line = Len(old) \div 2 + 1 /\ new.piece = p
        /\ new \in [run : {new.run}, line : {new.line}, piece : {new.piece}]
    BY <2>5
  <2>7. new.line \in 1..MaxLines
    BY <1>1, <2>2, <2>6, TailAssumption
  <2>8. new \in Pieces
    BY <2>1, <2>4, <2>6, <2>7 DEF Pieces
  <2> QED  BY <2>2, <2>6, <2>8 DEF At
<1> HIDE DEF new
<1>6. /\ Append(old, new) \in Seq(Pieces) /\ Len(Append(old, new)) = Len(old) + 1
      /\ \A i \in 1..Len(old) : Append(old, new)[i] = old[i]
      /\ Append(old, new)[Len(old) + 1] = new
  BY <1>3, <1>5, AppendProperties
<1>7. /\ files' \in Seq(Seq(Pieces)) /\ Len(files') = Len(files)
      /\ \A f \in 1..Len(files) :
           files'[f] = IF f = path THEN Append(old, new) ELSE files[f]
  <2>1. files \in Seq(Seq(Pieces))
    BY DEF TypeOK
  <2> QED  BY <2>1, <1>1, <1>2, <1>6, ExceptSeq
<1>8. missed' \in BOOLEAN
  BY <1>1 DEF TypeOK, Outgrown
<1> QED  BY <1>1, <1>2, <1>5, <1>6, <1>7, <1>8

LEMMA WriteKeeps ==
  ASSUME Inv, Write
  PROVE  Inv'
<1>0. TypeOK /\ FileInv /\ HandleInv /\ OrderInv /\ AheadInv /\ NowInv
  BY DEF Inv
<1> DEFINE n == Len(files[path]) + 1
           new == files'[path][n]
<1>1. /\ path \in 1..Len(files) /\ files' \in Seq(Seq(Pieces)) /\ Len(files') = Len(files)
      /\ UNCHANGED <<fromStart, path, run, tail, yielded, stale>> /\ missed' \in BOOLEAN
  BY <1>0, WriteFacts
<1>2. /\ Len(files'[path]) = n
      /\ \A i \in 1..Len(files[path]) : files'[path][i] = files[path][i]
      /\ new \in Pieces /\ new.run = run /\ At(new) = n
  BY <1>0, WriteFacts
<1>3. \A f \in 1..Len(files) : f # path => files'[f] = files[f]
  BY <1>0, WriteFacts
<1>4. /\ Len(files) \in Nat /\ Len(files[path]) \in Nat /\ run \in Nat /\ tail.pos \in Nat
      /\ tail.file \in 0..Len(files)
      /\ \A i \in 1..Len(yielded) : yielded[i] \in Pieces
      /\ \A i \in 1..Len(tail.buf) : tail.buf[i] \in Pieces
  BY <1>0, <1>1, TailFacts
<1> HIDE DEF new
<1>5. \A i \in 1..Len(files'[path]) :
        (i \in 1..Len(files[path]) /\ files'[path][i] = files[path][i])
        \/ (i = n /\ files'[path][i] = new)
  <2> SUFFICES ASSUME NEW i \in 1..Len(files'[path])
               PROVE  (i \in 1..Len(files[path]) /\ files'[path][i] = files[path][i])
                      \/ (i = n /\ files'[path][i] = new)
    OBVIOUS
  <2>1. i \in 1..Len(files[path]) \/ i = n
    BY <1>2, <1>4
  <2> QED  BY <2>1, <1>2 DEF new
<1>6. TypeOK'
  BY <1>0, <1>1 DEF TypeOK
<1>7. FileInv'
  <2>1. (path' = 0) <=> (run' = 0)
    BY <1>0, <1>1 DEF FileInv
  <2>2. ASSUME NEW f \in 1..Len(files), NEW i \in 1..Len(files'[f])
        PROVE  /\ At(files'[f][i]) = i
               /\ f = path => files'[f][i].run = run
               /\ f # path => files'[f][i].run < run
               /\ \A j \in 1..Len(files'[f]) : files'[f][i].run = files'[f][j].run
    <3>1. CASE f # path
      <4>1. files'[f] = files[f] /\ i \in 1..Len(files[f])
        BY <1>3, <2>2, <3>1
      <4> QED  BY <1>0, <3>1, <4>1 DEF FileInv
    <3>2. CASE f = path
      <4>1. \A j \in 1..Len(files[path]) :
              At(files[path][j]) = j /\ files[path][j].run = run
        BY <1>0, <1>1 DEF FileInv
      <4>2. \A j \in 1..Len(files'[path]) :
              At(files'[path][j]) = j /\ files'[path][j].run = run
        BY <1>2, <1>5, <4>1
      <4> QED  BY <2>2, <3>2, <4>2
    <3> QED  BY <3>1, <3>2
  <2> QED  BY <1>1, <2>1, <2>2 DEF FileInv
<1>8. HandleInv' /\ OrderInv'
  BY <1>0, <1>1 DEF HandleInv, OrderInv
<1>9. AheadInv'
  <2> SUFFICES ASSUME tail.file # 0, NEW i \in 1..Len(files'[tail.file]), i > tail.pos
               PROVE  /\ \A j \in 1..Len(yielded) : Before(yielded[j], files'[tail.file][i])
                      /\ \A j \in 1..Len(tail.buf) : Before(tail.buf[j], files'[tail.file][i])
    BY <1>1 DEF AheadInv
  <2>1. tail.file \in 1..Len(files)
    BY <1>4
  <2>2. CASE tail.file = path /\ i = n
    <3>1. /\ \A j \in 1..Len(yielded) : Before(yielded[j], new)
          /\ \A j \in 1..Len(tail.buf) : Before(tail.buf[j], new)
      <4>1. ASSUME NEW a \in Pieces, a.run <= run, a.run = run => At(a) <= Len(files[path])
            PROVE  Before(a, new)
        BY <1>2, <1>4, <4>1, PieceFacts DEF Before
      <4> QED  BY <1>0, <1>4, <4>1 DEF NowInv
    <3>2. files'[tail.file][i] = new
      BY <2>2 DEF new
    <3> QED  BY <3>1, <3>2
  <2>3. CASE ~ (tail.file = path /\ i = n)
    <3>1. i \in 1..Len(files[tail.file]) /\ files'[tail.file][i] = files[tail.file][i]
      BY <1>3, <1>5, <2>1, <2>3
    <3> QED  BY <1>0, <3>1 DEF AheadInv
  <2> QED  BY <2>2, <2>3
<1>10. NowInv'
  <2>1. Holding => Holding'
    BY <1>1, <1>2, <1>4 DEF Holding
  <2>2. \A m \in Nat : m <= Len(files[path]) => m <= Len(files'[path])
    BY <1>2, <1>4
  <2>3. /\ \A j \in 1..Len(yielded) : At(yielded[j]) \in Nat
        /\ \A j \in 1..Len(tail.buf) : At(tail.buf[j]) \in Nat
    BY <1>4, PieceFacts
  <2> QED  BY <1>0, <1>1, <2>1, <2>2, <2>3 DEF NowInv
<1> QED  BY <1>6, <1>7, <1>8, <1>9, <1>10 DEF Inv

---------------------------------------------------------------------------
(***************************************************************************)
(* The tail.                                                               *)
(***************************************************************************)
\* The file that is there is held, from its top or its end.
LEMMA OpenFacts ==
  ASSUME TypeOK, Open
  PROVE  /\ tail.pc = "open" /\ tail.file = 0 /\ path \in 1..Len(files)
         /\ tail'.pc = "read" /\ tail'.file = path /\ tail'.buf = <<>>
         /\ tail'.pos = IF fromStart THEN 0 ELSE Len(files[path])
         /\ TypeOK'
         /\ UNCHANGED <<fromStart, files, path, run, yielded, missed>> /\ stale' = FALSE
<1>1. /\ tail.pc = "open" /\ path # 0
      /\ tail' = [pc |-> "read", file |-> path,
                  pos |-> IF fromStart THEN 0 ELSE Len(files[path]), buf |-> <<>>]
      /\ UNCHANGED <<fromStart, files, path, run, yielded, missed>> /\ stale' = FALSE
  BY DEF Open, log
<1>2. tail.file = 0 /\ path \in 1..Len(files)
  BY <1>1, TailFacts DEF TypeOK
<1>3. Len(files[path]) \in Nat
  BY <1>2, TailFacts
<1>4. tail' \in [pc : {"open", "read", "yield", "stat", "stopped"},
               file : 0..Len(files), pos : Nat, buf : Seq(Pieces)]
  <2>1. path \in 0..Len(files) /\ <<>> \in Seq(Pieces)
    BY <1>2
  <2> QED  BY <1>1, <1>3, <2>1
<1>5. TypeOK'
  BY <1>1, <1>2, <1>4 DEF TypeOK
<1> QED  BY <1>1, <1>2, <1>5

LEMMA OpenKeeps ==
  ASSUME Inv, Open
  PROVE  Inv'
<1>0. TypeOK /\ FileInv /\ HandleInv /\ OrderInv /\ AheadInv /\ NowInv
  BY DEF Inv
<1>1. /\ tail.pc = "open" /\ tail.file = 0 /\ path \in 1..Len(files)
      /\ tail'.pc = "read" /\ tail'.file = path /\ tail'.buf = <<>> /\ TypeOK'
      /\ tail'.pos = IF fromStart THEN 0 ELSE Len(files[path])
      /\ UNCHANGED <<fromStart, files, path, run, yielded, missed>>
  BY <1>0, OpenFacts
<1>2. Len(tail'.buf) = 0
  BY <1>1
<1>3. FileInv' /\ HandleInv' /\ OrderInv'
  BY <1>0, <1>1, <1>2 DEF FileInv, HandleInv, OrderInv
<1>4. \A j \in 1..Len(yielded) : yielded[j].run <= run /\ yielded[j].run # run
  BY <1>0, <1>1 DEF NowInv, Holding
<1>5. AheadInv'
  <2>1. \A j \in 1..Len(yielded), i \in 1..Len(files[path]) :
          Before(yielded[j], files[path][i])
    <3>1. run \in Nat /\ \A j \in 1..Len(yielded) : yielded[j] \in Pieces
      BY <1>0, TailFacts
    <3>2. \A i \in 1..Len(files[path]) : files[path][i].run = run
      BY <1>0, <1>1 DEF FileInv
    <3>3. \A j \in 1..Len(yielded) : yielded[j].run < run
      BY <1>4, <3>1, PieceFacts
    <3> QED  BY <3>2, <3>3 DEF Before
  <2> QED  BY <1>1, <1>2, <2>1 DEF AheadInv
<1>6. NowInv'
  BY <1>1, <1>2, <1>4 DEF NowInv
<1> QED  BY <1>1, <1>3, <1>5, <1>6 DEF Inv

\* Nothing is left to read; or all that is goes behind what was left over.
LEMMA ReadFacts ==
  ASSUME TypeOK, Read
  PROVE  /\ tail.file \in 1..Len(files) /\ tail'.file = tail.file
         /\ tail.pc = "read" /\ tail'.pc # "open"
         /\ UNCHANGED <<fromStart, files, path, run, yielded, stale, missed>>
         /\ TypeOK'
         /\ \/ tail'.pos = tail.pos /\ tail'.buf = tail.buf
            \/ /\ tail.pos < Len(files[tail.file])
               /\ tail'.pos = Len(files[tail.file])
               /\ Len(tail'.buf) = Len(tail.buf) + (tail'.pos - tail.pos)
               /\ \A i \in 1..Len(tail.buf) : tail'.buf[i] = tail.buf[i]
               /\ \A i \in 1..Len(tail'.buf) : i > Len(tail.buf) =>
                    /\ tail.pos + (i - Len(tail.buf)) \in 1..Len(files[tail.file])
                    /\ tail'.buf[i] = files[tail.file][tail.pos + (i - Len(tail.buf))]
<1> DEFINE data == files[tail.file]
           chunk == SubSeq(data, tail.pos + 1, Len(data))
<1>1. /\ tail.pc = "read"
      /\ tail' = IF chunk = <<>> THEN [tail EXCEPT !.pc = "stat"]
                 ELSE [tail EXCEPT !.pc = "yield", !.pos = Len(data),
                                   !.buf = Joined(@, chunk)]
      /\ UNCHANGED <<fromStart, files, path, run, yielded, stale, missed>>
  BY DEF Read, log
<1>2. /\ tail.file \in 1..Len(files) /\ tail.file # 0
      /\ data \in Seq(Pieces) /\ Len(data) \in Nat
      /\ \A i \in 1..Len(data) : data[i] \in Pieces
      /\ tail.pos \in Nat /\ tail.buf \in Seq(Pieces) /\ Len(tail.buf) \in Nat
  BY <1>1, TailFacts DEF TypeOK
<1>3. /\ chunk \in Seq(Pieces)
      /\ Len(chunk) = IF tail.pos + 1 <= Len(data) THEN Len(data) - tail.pos ELSE 0
      /\ \A i \in 1..Len(data) - tail.pos : chunk[i] = data[tail.pos + i]
  <2>1. tail.pos + 1 \in Int /\ Len(data) \in Int
    BY <1>2
  <2>2. \A i \in tail.pos + 1..Len(data) : data[i] \in Pieces
    BY <1>2
  <2> HIDE DEF data
  <2>3. /\ chunk \in Seq(Pieces)
        /\ Len(chunk) = IF tail.pos + 1 <= Len(data) THEN Len(data) - (tail.pos + 1) + 1 ELSE 0
        /\ \A i \in 1..Len(data) - (tail.pos + 1) + 1 : chunk[i] = data[(tail.pos + 1) + i - 1]
    BY <2>1, <2>2, SubSeqProperties
  <2>4. ASSUME NEW i \in 1..Len(data) - tail.pos
        PROVE  chunk[i] = data[tail.pos + i]
    <3>1. i \in 1..Len(data) - (tail.pos + 1) + 1 /\ (tail.pos + 1) + i - 1 = tail.pos + i
      BY <1>2
    <3>2. chunk[i] = data[(tail.pos + 1) + i - 1]
      BY <2>3, <3>1
    <3> HIDE DEF chunk
    <3> QED  BY <3>1, <3>2
  <2>5. Len(chunk) = IF tail.pos + 1 <= Len(data) THEN Len(data) - tail.pos ELSE 0
    <3> HIDE DEF chunk
    <3> QED  BY <1>2, <2>3
  <2> QED  BY <2>3, <2>4, <2>5
<1> HIDE DEF chunk
<1>4. tail \in [pc : {"open", "read", "yield", "stat", "stopped"},
              file : 0..Len(files), pos : Nat, buf : Seq(Pieces)]
  BY DEF TypeOK
<1>5. CASE chunk = <<>>
  <2>1. tail' = [tail EXCEPT !.pc = "stat"]
    BY <1>1, <1>5
  <2>2. /\ tail'.pc = "stat" /\ tail'.file = tail.file /\ tail'.pos = tail.pos
        /\ tail'.buf = tail.buf
        /\ tail' \in [pc : {"open", "read", "yield", "stat", "stopped"},
                    file : 0..Len(files), pos : Nat, buf : Seq(Pieces)]
    BY <1>4, <2>1
  <2>3. TypeOK'
    BY <1>1, <1>2, <2>2 DEF TypeOK
  <2> QED  BY <1>1, <1>2, <2>2, <2>3
<1>6. CASE chunk # <<>>
  <2>1. tail.pos < Len(data) /\ Len(chunk) = Len(data) - tail.pos
    <3>1. Len(chunk) # 0
      BY <1>3, <1>6, EmptySeq
    <3> HIDE DEF data
    <3> QED  BY <1>2, <1>3, <3>1
  <2>2. tail' = [tail EXCEPT !.pc = "yield", !.pos = Len(data), !.buf = tail.buf \o chunk]
    BY <1>1, <1>6, <1>4 DEF Joined
  <2>3. /\ tail.buf \o chunk \in Seq(Pieces)
        /\ Len(tail.buf \o chunk) = Len(tail.buf) + Len(chunk)
        /\ \A i \in 1..Len(tail.buf) + Len(chunk) :
             (tail.buf \o chunk)[i] = IF i <= Len(tail.buf) THEN tail.buf[i]
                                      ELSE chunk[i - Len(tail.buf)]
    BY <1>2, <1>3, ConcatProperties
  <2> DEFINE joined == tail.buf \o chunk
  <2> HIDE DEF joined, data
  <2>4. /\ tail'.pc = "yield" /\ tail'.file = tail.file /\ tail'.pos = Len(data)
        /\ tail'.buf = joined
        /\ tail' \in [pc : {"open", "read", "yield", "stat", "stopped"},
                    file : 0..Len(files), pos : Nat, buf : Seq(Pieces)]
    BY <1>2, <1>4, <2>2, <2>3 DEF joined
  <2>5. TypeOK'
    BY <1>1, <1>2, <2>4 DEF TypeOK
  <2>6. /\ Len(joined) = Len(tail.buf) + (Len(data) - tail.pos)
        /\ \A i \in 1..Len(tail.buf) : joined[i] = tail.buf[i]
    BY <1>2, <2>1, <2>3 DEF joined
  <2>7. ASSUME NEW i \in 1..Len(joined), i > Len(tail.buf)
        PROVE  /\ tail.pos + (i - Len(tail.buf)) \in 1..Len(data)
               /\ joined[i] = data[tail.pos + (i - Len(tail.buf))]
    <3>1. /\ tail.pos + (i - Len(tail.buf)) \in 1..Len(data)
          /\ i - Len(tail.buf) \in 1..Len(data) - tail.pos
          /\ i \in 1..Len(tail.buf) + Len(chunk) /\ ~ (i <= Len(tail.buf))
      BY <1>2, <2>1, <2>6, <2>7
    <3>2. joined[i] = chunk[i - Len(tail.buf)]
      BY <2>3, <3>1 DEF joined
    <3> QED  BY <1>3, <3>1, <3>2
  <2> QED  BY <1>1, <1>2, <2>1, <2>4, <2>5, <2>6, <2>7 DEF data
<1> QED  BY <1>5, <1>6

LEMMA ReadKeeps ==
  ASSUME Inv, Read
  PROVE  Inv'
<1>0. TypeOK /\ FileInv /\ HandleInv /\ OrderInv /\ AheadInv /\ NowInv
  BY DEF Inv
<1> DEFINE data == files[tail.file]
           k == Len(tail.buf)
<1>1. /\ tail.file \in 1..Len(files) /\ tail'.file = tail.file
      /\ tail.pc = "read" /\ tail'.pc # "open" /\ TypeOK'
      /\ UNCHANGED <<fromStart, files, path, run, yielded, stale, missed>>
  BY <1>0, ReadFacts
<1>2. \/ tail'.pos = tail.pos /\ tail'.buf = tail.buf
      \/ /\ tail.pos < Len(data)
         /\ tail'.pos = Len(data)
         /\ Len(tail'.buf) = k + (tail'.pos - tail.pos)
         /\ \A i \in 1..k : tail'.buf[i] = tail.buf[i]
         /\ \A i \in 1..Len(tail'.buf) : i > k =>
              /\ tail.pos + (i - k) \in 1..Len(data)
              /\ tail'.buf[i] = data[tail.pos + (i - k)]
  BY <1>0, ReadFacts
<1>3. /\ run \in Nat /\ path \in Nat /\ tail.file # 0 /\ tail.pos \in Nat
      /\ Len(data) \in Nat /\ k \in Nat
      /\ \A i \in 1..Len(yielded) : yielded[i] \in Pieces
      /\ \A i \in 1..k : tail.buf[i] \in Pieces
      /\ \A i \in 1..Len(data) : data[i] \in Pieces
  BY <1>0, <1>1, TailFacts
<1>4. FileInv' /\ HandleInv'
  BY <1>0, <1>1, <1>3 DEF FileInv, HandleInv
<1>5. CASE tail'.pos = tail.pos /\ tail'.buf = tail.buf
  <2>1. OrderInv' /\ AheadInv'
    BY <1>0, <1>1, <1>5 DEF OrderInv, AheadInv
  <2>2. Holding => Holding'
    BY <1>1, <1>5 DEF Holding
  <2>3. NowInv'
    BY <1>0, <1>1, <1>5, <2>2 DEF NowInv
  <2> QED  BY <1>1, <1>4, <2>1, <2>3 DEF Inv
<1>6. CASE /\ tail.pos < Len(data)
           /\ tail'.pos = Len(data)
           /\ Len(tail'.buf) = k + (tail'.pos - tail.pos)
           /\ \A i \in 1..k : tail'.buf[i] = tail.buf[i]
           /\ \A i \in 1..Len(tail'.buf) : i > k =>
                /\ tail.pos + (i - k) \in 1..Len(data)
                /\ tail'.buf[i] = data[tail.pos + (i - k)]
  <2>1. \A i, j \in 1..Len(data) : i < j => Before(data[i], data[j])
    BY <1>0, <1>1, <1>3 DEF FileInv, Before
  <2>2. \A i \in 1..Len(data) : i > tail.pos =>
          /\ \A j \in 1..Len(yielded) : Before(yielded[j], data[i])
          /\ \A j \in 1..k : Before(tail.buf[j], data[i])
    BY <1>0, <1>3 DEF AheadInv
  <2>3. /\ \A i \in 1..Len(data) : ~ (i > Len(data))
        /\ \A i \in 1..Len(tail'.buf) : i > k => tail.pos + (i - k) > tail.pos
        /\ \A i, j \in 1..Len(tail'.buf) : i < j => tail.pos + (i - k) < tail.pos + (j - k)
        /\ \A i \in 1..Len(tail'.buf) : i > k \/ i \in 1..k
    <3>1. Len(tail'.buf) \in Nat
      BY <1>3, <1>6
    <3> HIDE DEF data, k
    <3> QED  BY <1>3, <3>1
  <2> HIDE DEF data, k
  <2>4. \A i, j \in 1..Len(tail'.buf) : i < j => Before(tail'.buf[i], tail'.buf[j])
    <3> SUFFICES ASSUME NEW i \in 1..Len(tail'.buf), NEW j \in 1..Len(tail'.buf), i < j
                 PROVE  Before(tail'.buf[i], tail'.buf[j])
      OBVIOUS
    <3>1. CASE j \in 1..k
      <4>1. i \in 1..k
        BY <1>3, <3>1
      <4> QED  BY <1>0, <1>6, <3>1, <4>1 DEF OrderInv, k
    <3>2. CASE j > k /\ i \in 1..k
      BY <1>6, <2>2, <2>3, <3>2
    <3>3. CASE j > k /\ i > k
      BY <1>6, <2>1, <2>3, <3>3
    <3> QED  BY <2>3, <3>1, <3>2, <3>3
  <2>5. \A i \in 1..Len(yielded), j \in 1..Len(tail'.buf) : Before(yielded[i], tail'.buf[j])
    <3> SUFFICES ASSUME NEW i \in 1..Len(yielded), NEW j \in 1..Len(tail'.buf)
                 PROVE  Before(yielded[i], tail'.buf[j])
      OBVIOUS
    <3>1. CASE j \in 1..k
      BY <1>0, <1>6, <3>1 DEF OrderInv, k
    <3>2. CASE j > k
      BY <1>6, <2>2, <2>3, <3>2
    <3> QED  BY <2>3, <3>1, <3>2
  <2>6. OrderInv'
    BY <1>0, <1>1, <2>4, <2>5 DEF OrderInv
  <2>7. AheadInv'
    BY <1>1, <1>6, <2>3 DEF AheadInv, data
  <2>8. Holding => Holding'
    <3>1. Holding => Len(data) <= Len(files[path])
      BY <1>3 DEF Holding, data
    <3> QED  BY <1>1, <1>6, <3>1 DEF Holding
  <2>9. NowInv'
    <3>1. \A i \in 1..Len(data) :
            /\ data[i].run <= run
            /\ data[i].run = run => At(data[i]) <= Len(files[path]) /\ Holding'
      <4> SUFFICES ASSUME NEW i \in 1..Len(data)
                   PROVE  /\ data[i].run <= run
                          /\ data[i].run = run => At(data[i]) <= Len(files[path]) /\ Holding'
        OBVIOUS
      <4>1. /\ At(data[i]) = i
            /\ tail.file = path => data[i].run = run
            /\ tail.file # path => data[i].run < run
        BY <1>0, <1>1 DEF FileInv, data
      <4>2. data[i].run \in Nat
        BY <1>3, PieceFacts
      <4>3. tail.file = path => Holding'
        BY <1>1, <1>3, <1>6 DEF Holding, data
      <4>4. CASE tail.file = path
        <5>1. data = files[path]
          BY <4>4 DEF data
        <5> QED  BY <1>3, <4>1, <4>3, <4>4, <5>1
      <4>5. CASE tail.file # path
        BY <1>3, <4>1, <4>2, <4>5
      <4> QED  BY <4>4, <4>5
    <3>2. \A j \in 1..Len(yielded) :
            /\ yielded[j].run <= run
            /\ yielded[j].run = run => At(yielded[j]) <= Len(files[path]) /\ Holding'
      BY <1>0, <2>8 DEF NowInv
    <3>3. \A j \in 1..k :
            /\ tail.buf[j].run <= run
            /\ tail.buf[j].run = run => At(tail.buf[j]) <= Len(files[path]) /\ Holding'
      BY <1>0, <2>8 DEF NowInv, k
    <3>4. \A j \in 1..Len(tail'.buf) :
            /\ tail'.buf[j].run <= run
            /\ tail'.buf[j].run = run => At(tail'.buf[j]) <= Len(files[path]) /\ Holding'
      BY <1>6, <2>3, <3>1, <3>3
    <3> QED  BY <1>1, <3>2, <3>4 DEF NowInv
  <2> QED  BY <1>1, <1>4, <2>6, <2>7, <2>9 DEF Inv
<1> QED  BY <1>2, <1>5, <1>6

\* A line of the buffer, and its event when both its pieces are there.
LEMMA YieldFacts ==
  ASSUME TypeOK, Yield
  PROVE  /\ tail.file \in 1..Len(files) /\ tail'.file = tail.file /\ tail'.pos = tail.pos
         /\ tail.pc = "yield" /\ tail'.pc # "open"
         /\ UNCHANGED <<fromStart, files, path, run, stale, missed>>
         /\ TypeOK'
         /\ \/ tail'.buf = tail.buf /\ yielded' = yielded
            \/ \E n \in 1..Len(tail.buf) :
                 /\ tail.buf[n].piece = 2
                 /\ \A m \in 1..Len(tail.buf) : tail.buf[m].piece = 2 => n <= m
                 /\ Len(tail'.buf) = Len(tail.buf) - n
                 /\ \A i \in 1..Len(tail'.buf) :
                      n + i \in 1..Len(tail.buf) /\ tail'.buf[i] = tail.buf[n + i]
                 /\ \/ /\ yielded' = yielded
                       /\ ~ (n = 2 /\ tail.buf[1] = [tail.buf[2] EXCEPT !.piece = 1])
                    \/ /\ n = 2 /\ tail.buf[1] = [tail.buf[2] EXCEPT !.piece = 1]
                       /\ Len(yielded') = Len(yielded) + 1
                       /\ \A i \in 1..Len(yielded) : yielded'[i] = yielded[i]
                       /\ yielded'[Len(yielded) + 1] = tail.buf[n]
<1>1. /\ tail.pc = "yield"
      /\ \/ tail' = [tail EXCEPT !.pc = "read"] /\ yielded' = yielded
         \/ \E n \in Ends(tail.buf) :
              /\ \A m \in Ends(tail.buf) : n <= m
              /\ tail' = [tail EXCEPT !.buf = Behind(@, n)]
              /\ yielded' = IF Parses(SubSeq(tail.buf, 1, n))
                            THEN Append(yielded, tail.buf[n]) ELSE yielded
      /\ UNCHANGED <<fromStart, files, path, run, stale, missed>>
  BY DEF Yield, log
<1>2. /\ tail.file \in 1..Len(files) /\ tail.file # 0
      /\ tail.buf \in Seq(Pieces) /\ Len(tail.buf) \in Nat
      /\ \A i \in 1..Len(tail.buf) : tail.buf[i] \in Pieces
  BY <1>1, TailFacts DEF TypeOK
<1>3. /\ tail \in [pc : {"open", "read", "yield", "stat", "stopped"},
                 file : 0..Len(files), pos : Nat, buf : Seq(Pieces)]
      /\ yielded \in Seq(Pieces)
  BY DEF TypeOK
<1>4. CASE tail' = [tail EXCEPT !.pc = "read"] /\ yielded' = yielded
  <2>1. /\ tail'.pc = "read" /\ tail'.file = tail.file /\ tail'.pos = tail.pos
        /\ tail'.buf = tail.buf
        /\ tail' \in [pc : {"open", "read", "yield", "stat", "stopped"},
                    file : 0..Len(files), pos : Nat, buf : Seq(Pieces)]
    BY <1>3, <1>4
  <2>2. TypeOK'
    BY <1>1, <1>2, <1>4, <2>1 DEF TypeOK
  <2> QED  BY <1>1, <1>2, <1>4, <2>1, <2>2
<1>5. ASSUME NEW n \in Ends(tail.buf), \A m \in Ends(tail.buf) : n <= m,
             tail' = [tail EXCEPT !.buf = Behind(tail.buf, n)],
             yielded' = IF Parses(SubSeq(tail.buf, 1, n))
                        THEN Append(yielded, tail.buf[n]) ELSE yielded
      PROVE  /\ tail'.file = tail.file /\ tail'.pos = tail.pos /\ tail'.pc = "yield"
             /\ TypeOK'
             /\ n \in 1..Len(tail.buf)
             /\ tail.buf[n].piece = 2
             /\ \A m \in 1..Len(tail.buf) : tail.buf[m].piece = 2 => n <= m
             /\ Len(tail'.buf) = Len(tail.buf) - n
             /\ \A i \in 1..Len(tail'.buf) :
                  n + i \in 1..Len(tail.buf) /\ tail'.buf[i] = tail.buf[n + i]
             /\ \/ /\ yielded' = yielded
                   /\ ~ (n = 2 /\ tail.buf[1] = [tail.buf[2] EXCEPT !.piece = 1])
                \/ /\ n = 2 /\ tail.buf[1] = [tail.buf[2] EXCEPT !.piece = 1]
                   /\ Len(yielded') = Len(yielded) + 1
                   /\ \A i \in 1..Len(yielded) : yielded'[i] = yielded[i]
                   /\ yielded'[Len(yielded) + 1] = tail.buf[n]
  <2> DEFINE behind == SubSeq(tail.buf, n + 1, Len(tail.buf))
             line == SubSeq(tail.buf, 1, n)
             whole == n = 2 /\ tail.buf[1] = [tail.buf[2] EXCEPT !.piece = 1]
  <2>1. /\ n \in 1..Len(tail.buf) /\ tail.buf[n].piece = 2
        /\ \A m \in 1..Len(tail.buf) : tail.buf[m].piece = 2 => n <= m
    BY <1>5 DEF Ends
  <2>2. /\ behind \in Seq(Pieces)
        /\ Len(behind) = IF n + 1 <= Len(tail.buf) THEN Len(tail.buf) - (n + 1) + 1 ELSE 0
        /\ \A i \in 1..Len(tail.buf) - (n + 1) + 1 : behind[i] = tail.buf[(n + 1) + i - 1]
    <3>1. n + 1 \in Int /\ Len(tail.buf) \in Int
      BY <1>2, <2>1
    <3>2. \A i \in n + 1..Len(tail.buf) : tail.buf[i] \in Pieces
      BY <1>2, <2>1
    <3> QED  BY <3>1, <3>2, SubSeqProperties
  <2>3. Len(behind) = Len(tail.buf) - n
    <3> HIDE DEF behind
    <3> QED  BY <1>2, <2>1, <2>2
  <2>4. ASSUME NEW i \in 1..Len(behind)
        PROVE  n + i \in 1..Len(tail.buf) /\ behind[i] = tail.buf[n + i]
    <3> HIDE DEF behind
    <3>1. /\ i \in 1..Len(tail.buf) - (n + 1) + 1 /\ (n + 1) + i - 1 = n + i
          /\ n + i \in 1..Len(tail.buf)
      BY <1>2, <2>1, <2>3
    <3>2. behind[i] = tail.buf[(n + 1) + i - 1]
      BY <2>2, <3>1
    <3> QED  BY <3>1, <3>2
  <2>5. /\ Len(line) = n /\ \A i \in 1..n : line[i] = tail.buf[i]
    <3>1. n \in Int /\ \A i \in 1..n : tail.buf[i] \in Pieces
      BY <1>2, <2>1
    <3>2. /\ Len(line) = IF 1 <= n THEN n - 1 + 1 ELSE 0
          /\ \A i \in 1..n - 1 + 1 : line[i] = tail.buf[1 + i - 1]
      BY <3>1, SubSeqProperties
    <3> HIDE DEF line
    <3>3. n - 1 + 1 = n /\ 1 <= n
      BY <2>1
    <3>4. \A i \in 1..n : 1 + i - 1 = i
      BY <2>1
    <3> QED  BY <3>2, <3>3, <3>4
  <2>6. Parses(line) <=> whole
    <3> HIDE DEF line
    <3>1. n = 2 => line[1] = tail.buf[1] /\ line[2] = tail.buf[2]
      BY <2>5
    <3> QED  BY <2>5, <3>1 DEF Parses
  <2>7. \/ yielded' = yielded /\ ~ whole
        \/ whole /\ yielded' = Append(yielded, tail.buf[n])
    BY <1>5, <2>6
  <2>8. tail' = [tail EXCEPT !.buf = behind]
    BY <1>5 DEF Behind
  <2> HIDE DEF behind, whole
  <2>9. /\ Append(yielded, tail.buf[n]) \in Seq(Pieces)
        /\ Len(Append(yielded, tail.buf[n])) = Len(yielded) + 1
        /\ \A i \in 1..Len(yielded) : Append(yielded, tail.buf[n])[i] = yielded[i]
        /\ Append(yielded, tail.buf[n])[Len(yielded) + 1] = tail.buf[n]
    BY <1>2, <1>3, <2>1, AppendProperties
  <2>10. /\ tail'.pc = "yield" /\ tail'.file = tail.file /\ tail'.pos = tail.pos
         /\ tail'.buf = behind
         /\ tail' \in [pc : {"open", "read", "yield", "stat", "stopped"},
                     file : 0..Len(files), pos : Nat, buf : Seq(Pieces)]
    BY <1>1, <1>3, <2>2, <2>8
  <2>11. yielded' \in Seq(Pieces)
    BY <1>3, <2>7, <2>9
  <2>12. TypeOK'
    BY <1>1, <1>2, <2>10, <2>11 DEF TypeOK
  <2>13. \/ yielded' = yielded /\ ~ whole
         \/ /\ whole
            /\ Len(yielded') = Len(yielded) + 1
            /\ \A i \in 1..Len(yielded) : yielded'[i] = yielded[i]
            /\ yielded'[Len(yielded) + 1] = tail.buf[n]
    BY <2>7, <2>9
  <2> QED  BY <2>1, <2>3, <2>4, <2>10, <2>12, <2>13 DEF whole
<1>6. CASE \E n \in Ends(tail.buf) :
             /\ \A m \in Ends(tail.buf) : n <= m
             /\ tail' = [tail EXCEPT !.buf = Behind(@, n)]
             /\ yielded' = IF Parses(SubSeq(tail.buf, 1, n))
                           THEN Append(yielded, tail.buf[n]) ELSE yielded
  <2>1. PICK n \in Ends(tail.buf) :
             /\ \A m \in Ends(tail.buf) : n <= m
             /\ tail' = [tail EXCEPT !.buf = Behind(tail.buf, n)]
             /\ yielded' = IF Parses(SubSeq(tail.buf, 1, n))
                           THEN Append(yielded, tail.buf[n]) ELSE yielded
    BY <1>6
  <2> QED  BY <1>1, <1>2, <1>5, <2>1
<1> QED  BY <1>1, <1>4, <1>6

LEMMA YieldKeeps ==
  ASSUME Inv, Yield
  PROVE  Inv'
<1>0. TypeOK /\ FileInv /\ HandleInv /\ OrderInv /\ AheadInv /\ NowInv
  BY DEF Inv
<1>1. /\ tail.file \in 1..Len(files) /\ tail'.file = tail.file /\ tail'.pos = tail.pos
      /\ tail.pc = "yield" /\ tail'.pc # "open" /\ TypeOK'
      /\ UNCHANGED <<fromStart, files, path, run, stale, missed>>
  BY <1>0, YieldFacts
<1>2. \/ tail'.buf = tail.buf /\ yielded' = yielded
      \/ \E n \in 1..Len(tail.buf) :
           /\ tail.buf[n].piece = 2
           /\ Len(tail'.buf) = Len(tail.buf) - n
           /\ \A i \in 1..Len(tail'.buf) :
                n + i \in 1..Len(tail.buf) /\ tail'.buf[i] = tail.buf[n + i]
           /\ \/ yielded' = yielded
              \/ /\ Len(yielded') = Len(yielded) + 1
                 /\ \A i \in 1..Len(yielded) : yielded'[i] = yielded[i]
                 /\ yielded'[Len(yielded) + 1] = tail.buf[n]
  BY <1>0, YieldFacts
<1>3. Len(tail.buf) \in Nat /\ Len(yielded) \in Nat /\ tail.file # 0
  BY <1>0, <1>1, TailFacts
<1>4. FileInv' /\ HandleInv'
  BY <1>0, <1>1, <1>3 DEF FileInv, HandleInv
<1>5. Holding => Holding'
  BY <1>1 DEF Holding
<1>6. CASE tail'.buf = tail.buf /\ yielded' = yielded
  <2>1. OrderInv' /\ AheadInv'
    BY <1>0, <1>1, <1>6 DEF OrderInv, AheadInv
  <2>2. NowInv'
    BY <1>0, <1>1, <1>5, <1>6 DEF NowInv
  <2> QED  BY <1>1, <1>4, <2>1, <2>2 DEF Inv
<1>7. ASSUME NEW n \in 1..Len(tail.buf), tail.buf[n].piece = 2,
             Len(tail'.buf) = Len(tail.buf) - n,
             \A i \in 1..Len(tail'.buf) :
                n + i \in 1..Len(tail.buf) /\ tail'.buf[i] = tail.buf[n + i],
             \/ yielded' = yielded
             \/ /\ Len(yielded') = Len(yielded) + 1
                /\ \A i \in 1..Len(yielded) : yielded'[i] = yielded[i]
                /\ yielded'[Len(yielded) + 1] = tail.buf[n]
      PROVE  Inv'
  <2>1. /\ Len(tail'.buf) \in Nat
        /\ \A i \in 1..Len(tail'.buf) : n < n + i
        /\ \A i, j \in 1..Len(tail'.buf) : i < j => n + i < n + j
    <3>1. Len(tail'.buf) \in Nat
      BY <1>1, TailFacts, LenProperties DEF TypeOK
    <3> QED  BY <1>3, <3>1
  <2>2. \A i \in 1..Len(yielded') :
          (i \in 1..Len(yielded) /\ yielded'[i] = yielded[i])
          \/ (i = Len(yielded) + 1 /\ yielded'[i] = tail.buf[n])
    <3> SUFFICES ASSUME NEW i \in 1..Len(yielded')
                 PROVE  (i \in 1..Len(yielded) /\ yielded'[i] = yielded[i])
                        \/ (i = Len(yielded) + 1 /\ yielded'[i] = tail.buf[n])
      OBVIOUS
    <3>1. CASE yielded' = yielded
      BY <3>1
    <3>2. CASE /\ Len(yielded') = Len(yielded) + 1
               /\ \A j \in 1..Len(yielded) : yielded'[j] = yielded[j]
               /\ yielded'[Len(yielded) + 1] = tail.buf[n]
      <4>1. i \in 1..Len(yielded) \/ i = Len(yielded) + 1
        BY <1>3, <3>2
      <4> QED  BY <3>2, <4>1
    <3> QED  BY <1>7, <3>1, <3>2
  <2>3. OrderInv'
    <3>1. \A i, j \in 1..Len(yielded') : i < j => Before(yielded'[i], yielded'[j])
      <4> SUFFICES ASSUME NEW i \in 1..Len(yielded'), NEW j \in 1..Len(yielded'), i < j
                   PROVE  Before(yielded'[i], yielded'[j])
        OBVIOUS
      <4>1. i \in 1..Len(yielded) /\ yielded'[i] = yielded[i]
        BY <1>3, <2>2
      <4> QED  BY <1>0, <2>2, <4>1 DEF OrderInv
    <3>2. \A i, j \in 1..Len(tail'.buf) : i < j => Before(tail'.buf[i], tail'.buf[j])
      BY <1>0, <1>7, <2>1 DEF OrderInv
    <3>3. \A i \in 1..Len(yielded'), j \in 1..Len(tail'.buf) : Before(yielded'[i], tail'.buf[j])
      BY <1>0, <1>7, <2>1, <2>2 DEF OrderInv
    <3>4. \A i \in 1..Len(yielded') : yielded'[i].piece = 2
      BY <1>0, <1>7, <2>2 DEF OrderInv
    <3> QED  BY <3>1, <3>2, <3>3, <3>4 DEF OrderInv
  <2>4. AheadInv'
    BY <1>0, <1>1, <1>7, <2>2 DEF AheadInv
  <2>5. NowInv'
    BY <1>0, <1>1, <1>5, <1>7, <2>2 DEF NowInv
  <2> QED  BY <1>1, <1>4, <2>3, <2>4, <2>5 DEF Inv
<1> QED  BY <1>2, <1>6, <1>7

\* The handle is kept, or it is closed and nothing else changes.
LEMMA StatFacts ==
  ASSUME TypeOK, Stat \/ Stop
  PROVE  /\ UNCHANGED <<fromStart, files, path, run, yielded, missed>> /\ TypeOK'
         /\ \/ /\ tail.pc = "stat" /\ tail'.pc = "read" /\ tail'.file = tail.file
               /\ tail'.pos = tail.pos /\ tail'.buf = tail.buf
               /\ stale' = stale /\ ~Shrunk
            \/ /\ tail'.file = 0 /\ tail'.pos = 0 /\ tail'.buf = <<>>
               /\ tail'.pc = "stopped" \/ (tail'.pc = "open" /\ tail.file # 0 /\ Shrunk)
<1>1. tail \in [pc : {"open", "read", "yield", "stat", "stopped"},
              file : 0..Len(files), pos : Nat, buf : Seq(Pieces)]
  BY DEF TypeOK
<1>2. 0 \in 0..Len(files) /\ <<>> \in Seq(Pieces)
  BY TailFacts
<1>3. UNCHANGED <<fromStart, files, path, run, yielded, missed>>
  BY DEF Stat, Stop, log
<1>4. stale' \in BOOLEAN
  BY DEF Stat, Stop, TypeOK
<1>5. CASE Stat /\ ~Shrunk
  <2>1. tail.pc = "stat" /\ tail' = [tail EXCEPT !.pc = "read"] /\ stale' = stale
    BY <1>5 DEF Stat, TypeOK
  <2>2. /\ tail'.pc = "read" /\ tail'.file = tail.file /\ tail'.pos = tail.pos
        /\ tail'.buf = tail.buf
        /\ tail' \in [pc : {"open", "read", "yield", "stat", "stopped"},
                    file : 0..Len(files), pos : Nat, buf : Seq(Pieces)]
    BY <1>1, <2>1
  <2>3. tail.file # 0
    BY <2>1 DEF TypeOK
  <2>4. TypeOK'
    BY <1>3, <1>4, <2>2, <2>3 DEF TypeOK
  <2> QED  BY <1>3, <1>5, <2>1, <2>2, <2>4
<1>6. CASE (Stat /\ Shrunk) \/ Stop
  <2>1. \/ tail' = Closed /\ Shrunk /\ tail.pc = "stat"
        \/ tail' = [Closed EXCEPT !.pc = "stopped"]
    BY <1>6 DEF Stat, Stop
  <2>2. /\ tail'.file = 0 /\ tail'.pos = 0 /\ tail'.buf = <<>>
        /\ tail'.pc = "stopped" \/ (tail'.pc = "open" /\ Shrunk /\ tail.pc = "stat")
        /\ tail' \in [pc : {"open", "read", "yield", "stat", "stopped"},
                    file : 0..Len(files), pos : Nat, buf : Seq(Pieces)]
    <3>1. CASE tail' = Closed /\ Shrunk /\ tail.pc = "stat"
      BY <1>2, <3>1 DEF Closed
    <3>2. CASE tail' = [Closed EXCEPT !.pc = "stopped"]
      <4>1. tail' = [pc |-> "stopped", file |-> 0, pos |-> 0, buf |-> <<>>]
        BY <3>2 DEF Closed
      <4> QED  BY <1>2, <4>1
    <3> QED  BY <2>1, <3>1, <3>2
  <2>3. tail.pc = "stat" => tail.file # 0
    BY DEF TypeOK
  <2>4. TypeOK'
    BY <1>3, <1>4, <2>2 DEF TypeOK
  <2> QED  BY <1>3, <2>2, <2>3, <2>4
<1> QED  BY <1>5, <1>6

LEMMA StatKeeps ==
  ASSUME Inv, Stat \/ Stop
  PROVE  Inv'
<1>0. TypeOK /\ FileInv /\ HandleInv /\ OrderInv /\ AheadInv /\ NowInv
  BY DEF Inv
<1>1. UNCHANGED <<fromStart, files, path, run, yielded, missed>> /\ TypeOK'
  BY <1>0, StatFacts
<1>2. CASE /\ tail.pc = "stat" /\ tail'.pc = "read" /\ tail'.file = tail.file
           /\ tail'.pos = tail.pos /\ tail'.buf = tail.buf
  <2>1. FileInv' /\ HandleInv' /\ OrderInv' /\ AheadInv'
    BY <1>0, <1>1, <1>2 DEF FileInv, HandleInv, OrderInv, AheadInv
  <2>2. Holding => Holding'
    BY <1>1, <1>2 DEF Holding
  <2>3. NowInv'
    BY <1>0, <1>1, <1>2, <2>2 DEF NowInv
  <2> QED  BY <1>1, <2>1, <2>3 DEF Inv
<1>3. CASE /\ tail'.file = 0 /\ tail'.pos = 0 /\ tail'.buf = <<>>
           /\ tail'.pc = "stopped" \/ (tail'.pc = "open" /\ tail.file # 0 /\ Shrunk)
  <2>1. Len(tail'.buf) = 0
    BY <1>3
  <2>2. FileInv' /\ HandleInv' /\ OrderInv' /\ AheadInv'
    BY <1>0, <1>1, <1>3, <2>1 DEF FileInv, HandleInv, OrderInv, AheadInv
  <2>3. \A j \in 1..Len(yielded) : yielded[j].run = run => Holding'
    <3>1. CASE tail'.pc = "stopped"
      BY <1>3, <3>1 DEF Holding
    <3>2. CASE tail'.pc = "open" /\ tail.file # 0 /\ Shrunk
      <4>1. path # 0 => Len(files[path]) \in Nat /\ Len(files[path]) < tail.pos
        BY <1>0, <3>2, TailFacts DEF Shrunk, Size, TypeOK
      <4>2. tail.pos \in Nat
        BY <1>0, TailFacts
      <4>3. ~ Holding
        BY <3>2, <4>1, <4>2 DEF Holding
      <4> QED  BY <1>0, <4>3 DEF NowInv
    <3> QED  BY <1>3, <3>1, <3>2
  <2>4. NowInv'
    BY <1>0, <1>1, <2>1, <2>3 DEF NowInv
  <2> QED  BY <1>1, <2>2, <2>4 DEF Inv
<1> QED  BY <1>0, <1>2, <1>3, StatFacts

LEMMA StepKeeps == Inv /\ [Next]_vars => Inv'
<1> SUFFICES ASSUME Inv, [Next]_vars PROVE Inv'
  OBVIOUS
<1>1. CASE UNCHANGED vars
  <2>1. UNCHANGED <<fromStart, files, path, run, tail, yielded, stale, missed>>
    BY <1>1 DEF vars, log
  <2>2. TypeOK' /\ FileInv' /\ HandleInv'
    BY <2>1 DEF Inv, TypeOK, FileInv, HandleInv
  <2>3. OrderInv' /\ AheadInv' /\ NowInv'
    BY <2>1 DEF Inv, OrderInv, AheadInv, NowInv, Holding
  <2> QED  BY <2>2, <2>3 DEF Inv
<1>2. CASE Next
  BY <1>2, OpenLogKeeps, WriteKeeps, OpenKeeps, ReadKeeps, YieldKeeps, StatKeeps DEF Next
<1> QED  BY <1>1, <1>2

THEOREM InductiveInvariant == Spec => []Inv
BY InitHolds, StepKeeps, PTL DEF Spec

\* Every variable of the tail keeps its type: emit.py:325.
THEOREM TypeCorrect == Spec => []TypeOK
<1>1. Inv => TypeOK
  BY DEF Inv
<1> QED  BY <1>1, InductiveInvariant, PTL

\* No event is applied twice and the runs do not mix, whatever is truncated,
\* replaced or missed between two looks: tail_lines, emit.py:325.
THEOREM OnceOnly == Spec => []NothingTwice
<1>1. Inv => NothingTwice
  <2> SUFFICES ASSUME Inv PROVE NothingTwice
    OBVIOUS
  <2> SUFFICES ASSUME NEW i \in DOMAIN yielded, NEW j \in DOMAIN yielded, i < j
               PROVE  \/ yielded[i].run < yielded[j].run
                      \/ yielded[i].run = yielded[j].run /\ yielded[i].line < yielded[j].line
    BY DEF NothingTwice
  <2>1. i \in 1..Len(yielded) /\ j \in 1..Len(yielded)
    BY LenProperties DEF Inv, TypeOK
  <2>2. /\ Before(yielded[i], yielded[j])
        /\ yielded[i].piece = 2 /\ yielded[j].piece = 2
        /\ yielded[i] \in Pieces /\ yielded[j] \in Pieces
    BY <2>1, TailFacts DEF Inv, OrderInv
  <2> QED  BY <2>2, PieceFacts DEF Before, At
<1> QED  BY <1>1, InductiveInvariant, PTL

---------------------------------------------------------------------------
(***************************************************************************)
(* The order of the lines.  Unless it missed a truncation, the tail either *)
(* holds the file of the path, or knows by its size that it does not; its  *)
(* buffer is the stretch of the run that ends at pos; and the piece that   *)
(* is next, of the buffer or else of the file, goes on where the last      *)
(* event ended, or begins what the tail has of its run.                    *)
(***************************************************************************)
\* Piece n of run r is the next after the events of y.
LinksTo(y, r, n) == Len(y) > 0 /\ y[Len(y)].run = r /\ At(y[Len(y)]) = n - 1

\* Or it is the first of its run: of all its lines, from the top.
BeginsAfter(y, top, r, n) ==
  IF top THEN n = 1 ELSE Len(y) = 0 \/ y[Len(y)].run # r

GoesOn(y, top, r, n) == LinksTo(y, r, n) \/ BeginsAfter(y, top, r, n)

\* Every event follows the one before it, or is the first of its run.
Following(y, top) ==
  \A i \in 1..Len(y) :
    \/ i > 1 /\ y[i - 1] = [y[i] EXCEPT !.line = @ - 1]
    \/ IF top THEN y[i].line = 1 ELSE i = 1 \/ y[i - 1].run # y[i].run

PlaceInv ==
  tail.file # 0 =>
    /\ stale => Len(files[path]) < tail.pos
    /\ ~stale => tail.file = path /\ tail.pos <= Len(files[path])

StretchInv ==
  \A i \in 1..Len(tail.buf) :
    /\ At(tail.buf[i]) = (tail.pos - Len(tail.buf)) + i
    /\ \A j \in 1..Len(tail.buf) : tail.buf[j].run = tail.buf[i].run
    /\ ~stale => tail.buf[i].run = run
    /\ \A j \in 1..Len(files[tail.file]) :
         j > tail.pos => files[tail.file][j].run = tail.buf[i].run

LinkInv ==
  /\ Len(tail.buf) > 0 =>
       GoesOn(yielded, fromStart, tail.buf[1].run, At(tail.buf[1]))
  /\ Len(tail.buf) = 0 /\ tail.file # 0 =>
       /\ ~stale => GoesOn(yielded, fromStart, run, tail.pos + 1)
       /\ \A i \in 1..Len(files[tail.file]) : i = tail.pos + 1 =>
            GoesOn(yielded, fromStart, files[tail.file][i].run, tail.pos + 1)

FollowInv ==
  ~missed => /\ PlaceInv /\ StretchInv /\ LinkInv
             /\ Following(yielded, fromStart)
---------------------------------------------------------------------------
LEMMA InitFollows == Init => FollowInv
<1> SUFFICES ASSUME Init PROVE FollowInv
  OBVIOUS
<1>1. tail.file = 0 /\ Len(tail.buf) = 0 /\ Len(yielded) = 0
  BY DEF Init, Closed
<1>2. PlaceInv /\ StretchInv /\ LinkInv
  BY <1>1 DEF PlaceInv, StretchInv, LinkInv
<1>3. Following(yielded, fromStart)
  BY <1>1 DEF Following
<1> QED  BY <1>2, <1>3 DEF FollowInv

LEMMA OpenLogFollows ==
  ASSUME Inv, FollowInv, OpenLog
  PROVE  FollowInv'
<1>0. TypeOK /\ FileInv /\ HandleInv /\ NowInv
  BY DEF Inv
<1> SUFFICES ASSUME ~missed' PROVE (PlaceInv /\ StretchInv /\ LinkInv /\ Following(yielded, fromStart))'
  BY DEF FollowInv
<1>1. /\ path' \in 1..Len(files') /\ run' = run + 1 /\ files'[path'] = <<>>
      /\ \A f \in 1..Len(files') : f # path' => f \in 1..Len(files) /\ files'[f] = files[f]
      /\ UNCHANGED <<fromStart, tail, yielded>>
      /\ Len(files) <= Len(files') /\ Len(files') \in Nat
  BY <1>0, OpenLogFacts
<1>2. /\ ~missed /\ ~Outgrown
      /\ \/ /\ stale' = FALSE /\ path' = path
            /\ ~stale /\ ~(tail.pos > 0) /\ tail.file = path
         \/ stale' /\ tail.file # 0
         \/ tail.file = 0
  BY DEF OpenLog
<1>3. /\ Len(files) \in Nat /\ Len(tail.buf) \in Nat /\ Len(yielded) \in Nat
      /\ tail.pos \in Nat /\ run \in Nat /\ tail.file \in 0..Len(files)
      /\ \A i \in 1..Len(tail.buf) : tail.buf[i] \in Pieces
      /\ \A i \in 1..Len(yielded) : yielded[i] \in Pieces
  BY <1>0, TailFacts
<1>4. Len(files'[path']) = 0 /\ path' # 0
  BY <1>1
<1>5. PlaceInv /\ StretchInv /\ LinkInv /\ Following(yielded, fromStart)
  BY <1>2 DEF FollowInv
<1>6. Following(yielded, fromStart)'
  BY <1>1, <1>5
<1>7. CASE tail.file = 0
  <2>1. Len(tail.buf) = 0
    BY <1>0, <1>7 DEF HandleInv
  <2> QED  BY <1>1, <1>6, <1>7, <2>1 DEF PlaceInv, StretchInv, LinkInv
<1>8. CASE stale' /\ tail.file # 0
  <2>1. 0 < tail.pos
    BY <1>1, <1>2, <1>3, <1>4, <1>8 DEF Outgrown, Size
  <2>2. PlaceInv'
    BY <1>1, <1>4, <1>8, <2>1 DEF PlaceInv
  <2>3. tail.file \in 1..Len(files')
    BY <1>1, <1>3, <1>8
  <2>4. \A j \in 1..Len(files'[tail.file]) :
          j \in 1..Len(files[tail.file]) /\ files'[tail.file][j] = files[tail.file][j]
    BY <1>1, <1>4, <2>3
  <2>5. StretchInv'
    <3> SUFFICES ASSUME NEW i \in 1..Len(tail.buf)
                 PROVE  /\ At(tail.buf[i]) = (tail.pos - Len(tail.buf)) + i
                        /\ \A j \in 1..Len(tail.buf) : tail.buf[j].run = tail.buf[i].run
                        /\ \A j \in 1..Len(files'[tail.file]) :
                             j > tail.pos => files'[tail.file][j].run = tail.buf[i].run
      BY <1>1, <1>8 DEF StretchInv
    <3> QED  BY <1>5, <2>4 DEF StretchInv
  <2>6. LinkInv'
    BY <1>1, <1>5, <1>8, <2>4 DEF LinkInv
  <2> QED  BY <1>6, <2>2, <2>5, <2>6
<1>9. CASE /\ tail.file # 0 /\ stale' = FALSE /\ path' = path
           /\ ~stale /\ ~(tail.pos > 0) /\ tail.file = path
  <2>1. tail.pos = 0
    BY <1>3, <1>9
  <2>2. Len(tail.buf) = 0
    <3> SUFFICES ASSUME Len(tail.buf) # 0 PROVE FALSE
      OBVIOUS
    <3>1. 1 \in 1..Len(tail.buf)
      BY <1>3
    <3>2. At(tail.buf[1]) = (0 - Len(tail.buf)) + 1 /\ At(tail.buf[1]) >= 1
      BY <1>3, <1>5, <2>1, <3>1, PieceFacts DEF StretchInv
    <3> QED  BY <1>3, <3>1, <3>2
  <2>3. PlaceInv' /\ StretchInv'
    BY <1>1, <1>4, <1>9, <2>1, <2>2 DEF PlaceInv, StretchInv
  <2>4. GoesOn(yielded, fromStart, run + 1, 1)
    <3>1. Len(yielded) # 0 => yielded[Len(yielded)].run # run + 1
      <4>1. Len(yielded) # 0 => Len(yielded) \in 1..Len(yielded)
        BY <1>3
      <4> QED  BY <1>0, <1>3, <4>1, PieceFacts DEF NowInv
    <3> QED  BY <3>1 DEF GoesOn, BeginsAfter
  <2>5. LinkInv'
    BY <1>1, <1>4, <1>9, <2>1, <2>2, <2>4 DEF LinkInv
  <2> QED  BY <1>6, <2>3, <2>5
<1> QED  BY <1>2, <1>7, <1>8, <1>9

LEMMA WriteFollows ==
  ASSUME Inv, FollowInv, Write
  PROVE  FollowInv'
<1>0. TypeOK /\ FileInv /\ HandleInv
  BY DEF Inv
<1> SUFFICES ASSUME ~missed' PROVE (PlaceInv /\ StretchInv /\ LinkInv /\ Following(yielded, fromStart))'
  BY DEF FollowInv
<1> DEFINE n == Len(files[path]) + 1
           new == files'[path][n]
<1>1. /\ path \in 1..Len(files) /\ Len(files') = Len(files)
      /\ UNCHANGED <<fromStart, path, run, tail, yielded, stale>>
  BY <1>0, WriteFacts
<1>2. /\ Len(files'[path]) = n
      /\ \A i \in 1..Len(files[path]) : files'[path][i] = files[path][i]
      /\ new.run = run
  BY <1>0, WriteFacts
<1>3. \A f \in 1..Len(files) : f # path => files'[f] = files[f]
  BY <1>0, WriteFacts
<1>4. /\ Len(files) \in Nat /\ Len(files[path]) \in Nat /\ tail.pos \in Nat
      /\ tail.file \in 0..Len(files)
  BY <1>0, <1>1, TailFacts
<1>5. ~missed /\ (stale => n < tail.pos)
  <2>1. ~missed /\ ~Outgrown
    BY DEF Write
  <2>2. path' # 0 /\ Len(files'[path']) = n /\ stale' = stale
    BY <1>1, <1>2
  <2>3. n \in Nat
    BY <1>4
  <2> HIDE DEF n
  <2> QED  BY <1>4, <2>1, <2>2, <2>3 DEF Outgrown, Size
<1>6. PlaceInv /\ StretchInv /\ LinkInv /\ Following(yielded, fromStart)
  BY <1>5 DEF FollowInv
<1>7. Following(yielded, fromStart)'
  BY <1>1, <1>6
<1> HIDE DEF new
<1>8. PlaceInv'
  <2>1. stale => Len(files'[path]) < tail.pos
    BY <1>2, <1>5
  <2>2. tail.pos <= Len(files[path]) => tail.pos <= Len(files'[path])
    BY <1>2, <1>4
  <2> QED  BY <1>1, <1>6, <2>1, <2>2 DEF PlaceInv
\* What is not read grows, if at all, by a piece of the run that writes.
<1>9. ASSUME tail.file # 0, NEW j \in 1..Len(files'[tail.file]), j > tail.pos
      PROVE  \/ /\ j \in 1..Len(files[tail.file])
                /\ files'[tail.file][j] = files[tail.file][j]
             \/ files'[tail.file][j].run = run /\ ~stale
  <2>1. CASE tail.file # path
    BY <1>3, <1>4, <1>9, <2>1
  <2>2. CASE tail.file = path /\ j \in 1..Len(files[path])
    BY <1>2, <2>2
  <2>3. CASE tail.file = path /\ ~ (j \in 1..Len(files[path]))
    <3>1. j = n
      BY <1>2, <1>4, <1>9, <2>3
    <3>2. ~stale
      BY <1>4, <1>5, <1>9, <3>1
    <3> QED  BY <1>2, <2>3, <3>1, <3>2 DEF new
  <2> QED  BY <2>1, <2>2, <2>3
<1>10. StretchInv'
  <2>1. tail.file = 0 => Len(tail.buf) = 0
    BY <1>0 DEF HandleInv
  <2>2. CASE tail.file = 0
    BY <1>1, <2>1, <2>2 DEF StretchInv
  <2>3. CASE tail.file # 0
    <3> SUFFICES ASSUME NEW i \in 1..Len(tail.buf)
                 PROVE  /\ At(tail.buf[i]) = (tail.pos - Len(tail.buf)) + i
                        /\ \A j \in 1..Len(tail.buf) : tail.buf[j].run = tail.buf[i].run
                        /\ ~stale => tail.buf[i].run = run
                        /\ \A j \in 1..Len(files'[tail.file]) :
                             j > tail.pos => files'[tail.file][j].run = tail.buf[i].run
      BY <1>1 DEF StretchInv
    <3> QED  BY <1>6, <1>9, <2>3 DEF StretchInv
  <2> QED  BY <2>2, <2>3
<1>11. LinkInv'
  <2> SUFFICES ASSUME Len(tail.buf) = 0, tail.file # 0, NEW i \in 1..Len(files'[tail.file]),
                      i = tail.pos + 1
               PROVE  GoesOn(yielded, fromStart, files'[tail.file][i].run, tail.pos + 1)
    BY <1>1, <1>6 DEF LinkInv
  <2>1. i > tail.pos
    BY <1>4
  <2> QED  BY <1>6, <1>9, <2>1 DEF LinkInv
<1> QED  BY <1>7, <1>8, <1>10, <1>11

LEMMA OpenFollows ==
  ASSUME Inv, FollowInv, Open
  PROVE  FollowInv'
<1>0. TypeOK /\ FileInv /\ NowInv
  BY DEF Inv
<1>1. /\ tail.pc = "open" /\ path \in 1..Len(files)
      /\ tail'.file = path /\ tail'.buf = <<>>
      /\ tail'.pos = IF fromStart THEN 0 ELSE Len(files[path])
      /\ UNCHANGED <<fromStart, files, path, run, yielded, missed>> /\ stale' = FALSE
  BY <1>0, OpenFacts
<1>2. Len(tail'.buf) = 0 /\ Len(files[path]) \in Nat /\ path # 0
  BY <1>0, <1>1, TailFacts
<1>3. PlaceInv' /\ StretchInv'
  BY <1>1, <1>2 DEF PlaceInv, StretchInv
<1>4. GoesOn(yielded, fromStart, run, tail'.pos + 1)
  <2>1. \A j \in 1..Len(yielded) : yielded[j].run # run
    BY <1>0, <1>1 DEF NowInv, Holding
  <2>2. Len(yielded) # 0 => Len(yielded) \in 1..Len(yielded)
    BY <1>0, TailFacts
  <2> QED  BY <1>1, <2>1, <2>2 DEF GoesOn, BeginsAfter
<1>5. LinkInv'
  <2>1. \A i \in 1..Len(files[path]) : files[path][i].run = run
    BY <1>0, <1>1 DEF FileInv
  <2> QED  BY <1>1, <1>2, <1>4, <2>1 DEF LinkInv
<1> QED  BY <1>1, <1>3, <1>5 DEF FollowInv

LEMMA ReadFollows ==
  ASSUME Inv, FollowInv, Read
  PROVE  FollowInv'
<1>0. TypeOK /\ FileInv
  BY DEF Inv
<1> SUFFICES ASSUME ~missed' PROVE (PlaceInv /\ StretchInv /\ LinkInv /\ Following(yielded, fromStart))'
  BY DEF FollowInv
<1> DEFINE data == files[tail.file]
           k == Len(tail.buf)
           m == Len(tail'.buf)
<1>1. /\ tail.file \in 1..Len(files) /\ tail'.file = tail.file
      /\ UNCHANGED <<fromStart, files, path, run, yielded, stale, missed>>
      /\ \/ tail'.pos = tail.pos /\ tail'.buf = tail.buf
         \/ /\ tail.pos < Len(data)
            /\ tail'.pos = Len(data)
            /\ m = k + (tail'.pos - tail.pos)
            /\ \A i \in 1..k : tail'.buf[i] = tail.buf[i]
            /\ \A i \in 1..m : i > k =>
                 /\ tail.pos + (i - k) \in 1..Len(data)
                 /\ tail'.buf[i] = data[tail.pos + (i - k)]
  BY <1>0, ReadFacts
<1>2. /\ Len(data) \in Nat /\ k \in Nat /\ tail.pos \in Nat /\ tail.file # 0
  BY <1>0, <1>1, TailFacts
<1>3. PlaceInv /\ StretchInv /\ LinkInv /\ Following(yielded, fromStart)
  BY <1>1 DEF FollowInv
<1>4. Following(yielded, fromStart)'
  BY <1>1, <1>3
<1>5. CASE tail'.pos = tail.pos /\ tail'.buf = tail.buf
  <2>1. PlaceInv'
    BY <1>1, <1>3, <1>5 DEF PlaceInv
  <2>2. StretchInv'
    <3> SUFFICES ASSUME NEW i \in 1..k
                 PROVE  /\ At(tail.buf[i]) = (tail.pos - k) + i
                        /\ \A j \in 1..k : tail.buf[j].run = tail.buf[i].run
                        /\ ~stale => tail.buf[i].run = run
                        /\ \A j \in 1..Len(data) : j > tail.pos => data[j].run = tail.buf[i].run
      BY <1>1, <1>5 DEF StretchInv
    <3> QED  BY <1>3 DEF StretchInv
  <2>3. LinkInv'
    BY <1>1, <1>3, <1>5 DEF LinkInv
  <2> QED  BY <1>4, <2>1, <2>2, <2>3
<1>6. CASE /\ tail.pos < Len(data)
           /\ tail'.pos = Len(data)
           /\ m = k + (tail'.pos - tail.pos)
           /\ \A i \in 1..k : tail'.buf[i] = tail.buf[i]
           /\ \A i \in 1..m : i > k =>
                /\ tail.pos + (i - k) \in 1..Len(data)
                /\ tail'.buf[i] = data[tail.pos + (i - k)]
  <2>1. /\ \A i \in 1..Len(data) : At(data[i]) = i
        /\ \A i, j \in 1..Len(data) : data[i].run = data[j].run
        /\ tail.file = path => \A i \in 1..Len(data) : data[i].run = run
    BY <1>0, <1>1 DEF FileInv
  <2>2. PlaceInv'
    <3>1. stale => Len(files[path]) < tail.pos
      BY <1>2, <1>3 DEF PlaceInv
    <3>2. stale /\ path # 0 => Len(files[path]) \in Nat
      BY <1>0, TailFacts DEF TypeOK
    <3>3. path # 0
      <4>1. run # 0
        <5>1. 1 \in 1..Len(data)
          BY <1>2, <1>6
        <5>2. data[1] \in Pieces /\ data[1].run \in Nat /\ data[1].run >= 1
          BY <1>0, <1>1, <5>1, TailFacts, PieceFacts
        <5>3. data[1].run <= run \/ data[1].run = run
          BY <1>0, <1>1, <5>1, <5>2, TailFacts DEF FileInv
        <5>4. run \in Nat
          BY <1>0, TailFacts
        <5> HIDE DEF data
        <5> QED  BY <5>2, <5>3, <5>4
      <4> QED  BY <1>0, <4>1 DEF FileInv
    <3>4. stale => Len(files[path]) < Len(data)
      <4> HIDE DEF data
      <4> QED  BY <1>2, <1>6, <3>1, <3>2, <3>3
    <3>5. ~stale => tail.file = path /\ Len(data) <= Len(files[path])
      <4>1. ~stale => tail.file = path
        BY <1>2, <1>3 DEF PlaceInv
      <4> QED  BY <1>2, <4>1
    <3> QED  BY <1>1, <1>6, <3>4, <3>5 DEF PlaceInv
  <2>3. /\ m \in Nat /\ m > k /\ tail.pos + 1 \in 1..Len(data)
        /\ tail'.pos - m = tail.pos - k
        /\ \A i \in 1..m : i \in 1..k \/ i > k
        /\ \A i \in 1..m : tail.pos + (i - k) = (tail.pos - k) + i
        /\ \A i \in 1..m : i > k => tail.pos + (i - k) > tail.pos
    <3>1. m = k + (Len(data) - tail.pos) /\ tail'.pos = Len(data)
      BY <1>6
    <3> HIDE DEF data, k, m
    <3>2. m \in Nat
      BY <1>2, <1>6, <3>1
    <3> QED  BY <1>2, <1>6, <3>1, <3>2
  <2>4. \A i \in 1..m : At(tail'.buf[i]) = (tail'.pos - m) + i
    <3> SUFFICES ASSUME NEW i \in 1..m PROVE At(tail'.buf[i]) = (tail'.pos - m) + i
      OBVIOUS
    <3>1. CASE i \in 1..k
      <4>1. At(tail.buf[i]) = (tail.pos - k) + i
        BY <1>3, <3>1 DEF StretchInv
      <4> QED  BY <1>6, <2>3, <3>1, <4>1
    <3>2. CASE i > k
      <4>1. At(tail'.buf[i]) = tail.pos + (i - k)
        BY <1>6, <2>1, <3>2
      <4> HIDE DEF data, k, m
      <4> QED  BY <2>3, <4>1
    <3> QED  BY <2>3, <3>1, <3>2
  <2>5. \A i \in 1..m : tail'.buf[i].run = data[tail.pos + 1].run
    <3> SUFFICES ASSUME NEW i \in 1..m PROVE tail'.buf[i].run = data[tail.pos + 1].run
      OBVIOUS
    <3>1. CASE i \in 1..k
      <4>1. tail.pos + 1 > tail.pos
        BY <1>2
      <4>2. data[tail.pos + 1].run = tail.buf[i].run
        BY <1>3, <2>3, <3>1, <4>1 DEF StretchInv
      <4> QED  BY <1>6, <3>1, <4>2
    <3>2. CASE i > k
      <4>1. /\ tail.pos + (i - k) \in 1..Len(data)
            /\ tail'.buf[i] = data[tail.pos + (i - k)]
        BY <1>6, <3>2
      <4> HIDE DEF data, k, m
      <4>2. data[tail.pos + (i - k)].run = data[tail.pos + 1].run
        BY <2>1, <2>3, <4>1
      <4> QED  BY <4>1, <4>2
    <3> QED  BY <2>3, <3>1, <3>2
  <2>6. ~stale => data[tail.pos + 1].run = run
    BY <1>2, <1>3, <2>1, <2>3 DEF PlaceInv
  <2>7. StretchInv'
    <3>1. \A j \in 1..Len(data) : ~ (j > Len(data))
      BY <1>2
    <3> SUFFICES ASSUME NEW i \in 1..m
                 PROVE  /\ At(tail'.buf[i]) = (tail'.pos - m) + i
                        /\ \A j \in 1..m : tail'.buf[j].run = tail'.buf[i].run
                        /\ ~stale => tail'.buf[i].run = run
                        /\ \A j \in 1..Len(data) : j > Len(data) => data[j].run = tail'.buf[i].run
      BY <1>1, <1>6 DEF StretchInv
    <3> QED  BY <2>4, <2>5, <2>6, <3>1
  <2>8. LinkInv'
    <3>1. GoesOn(yielded, fromStart, tail'.buf[1].run, At(tail'.buf[1]))
      <4>1. CASE k = 0
        <5>1. /\ 1 \in 1..m /\ 1 > k
              /\ tail.pos + (1 - k) = tail.pos + 1
          BY <1>2, <2>3, <4>1
        <5>2. tail'.buf[1] = data[tail.pos + 1] /\ At(data[tail.pos + 1]) = tail.pos + 1
          BY <1>6, <2>1, <2>3, <5>1
        <5> QED  BY <1>2, <1>3, <2>3, <4>1, <5>2 DEF LinkInv
      <4>2. CASE k > 0
        <5>1. 1 \in 1..k
          BY <1>2, <4>2
        <5> QED  BY <1>3, <1>6, <4>2, <5>1 DEF LinkInv
      <4> QED  BY <1>2, <4>1, <4>2
    <3>2. m # 0
      <4> HIDE DEF m, k
      <4> QED  BY <1>2, <2>3
    <3> QED  BY <1>1, <3>1, <3>2 DEF LinkInv
  <2> QED  BY <1>4, <2>2, <2>7, <2>8
<1> QED  BY <1>1, <1>5, <1>6

LEMMA StatFollows ==
  ASSUME Inv, FollowInv, Stat \/ Stop
  PROVE  FollowInv'
<1>0. TypeOK
  BY DEF Inv
<1> SUFFICES ASSUME ~missed' PROVE (PlaceInv /\ StretchInv /\ LinkInv /\ Following(yielded, fromStart))'
  BY DEF FollowInv
<1>1. /\ UNCHANGED <<fromStart, files, path, run, yielded, missed>>
      /\ \/ /\ tail'.file = tail.file /\ tail'.pos = tail.pos /\ tail'.buf = tail.buf
            /\ stale' = stale
         \/ tail'.file = 0 /\ tail'.buf = <<>>
  BY <1>0, StatFacts
<1>2. PlaceInv /\ StretchInv /\ LinkInv /\ Following(yielded, fromStart)
  BY <1>1 DEF FollowInv
<1>3. Following(yielded, fromStart)'
  BY <1>1, <1>2
<1>4. CASE tail'.file = 0 /\ tail'.buf = <<>>
  <2>1. Len(tail'.buf) = 0
    BY <1>4
  <2> QED  BY <1>3, <1>4, <2>1 DEF PlaceInv, StretchInv, LinkInv
<1>5. CASE /\ tail'.file = tail.file /\ tail'.pos = tail.pos /\ tail'.buf = tail.buf
           /\ stale' = stale
  <2>1. PlaceInv'
    BY <1>1, <1>2, <1>5 DEF PlaceInv
  <2>2. StretchInv'
    <3> SUFFICES ASSUME NEW i \in 1..Len(tail.buf)
                 PROVE  /\ At(tail.buf[i]) = (tail.pos - Len(tail.buf)) + i
                        /\ \A j \in 1..Len(tail.buf) : tail.buf[j].run = tail.buf[i].run
                        /\ ~stale => tail.buf[i].run = run
                        /\ \A j \in 1..Len(files[tail.file]) :
                             j > tail.pos => files[tail.file][j].run = tail.buf[i].run
      BY <1>1, <1>5 DEF StretchInv
    <3> QED  BY <1>2 DEF StretchInv
  <2>3. LinkInv'
    BY <1>1, <1>2, <1>5 DEF LinkInv
  <2> QED  BY <1>3, <2>1, <2>2, <2>3
<1> QED  BY <1>1, <1>4, <1>5

\* A line of the buffer is whole, unless it is the rest of one that the tail
\* began to read in its middle; then nothing of its run was yielded.
LEMMA FirstLine ==
  ASSUME NEW a \in Pieces, NEW y \in Seq(Pieces), NEW top \in BOOLEAN,
         GoesOn(y, top, a.run, At(a)), Len(y) > 0 => y[Len(y)].piece = 2
  PROVE  /\ \A b \in Pieces :
              b.run = a.run /\ At(b) = At(a) + 1 /\ a.piece = 1 =>
                b.piece = 2 /\ a = [b EXCEPT !.piece = 1]
         /\ a.piece = 2 => ~top /\ (Len(y) = 0 \/ y[Len(y)].run # a.run)
         /\ a.piece = 1 /\ ~BeginsAfter(y, top, a.run, At(a)) =>
              Len(y) > 0 /\ y[Len(y)] = [run |-> a.run, line |-> a.line - 1, piece |-> 2]
         /\ a.piece = 1 /\ top /\ BeginsAfter(y, top, a.run, At(a)) => a.line = 1
<1>1. a.line \in Nat /\ a.piece \in {1, 2} /\ At(a) = 2 * (a.line - 1) + a.piece
  BY PieceFacts DEF At
<1>2. a = [run |-> a.run, line |-> a.line, piece |-> a.piece]
  BY DEF Pieces
<1>3. ASSUME NEW b \in Pieces, b.run = a.run, At(b) = At(a) + 1, a.piece = 1
      PROVE  b.piece = 2 /\ a = [b EXCEPT !.piece = 1]
  <2>1. b.line \in Nat /\ b.piece \in {1, 2} /\ At(b) = 2 * (b.line - 1) + b.piece
    BY PieceFacts DEF At
  <2>2. b = [run |-> b.run, line |-> b.line, piece |-> b.piece]
    BY DEF Pieces
  <2>3. b.piece = 2 /\ b.line = a.line
    BY <1>1, <1>3, <2>1
  <2>4. a = [run |-> b.run, line |-> b.line, piece |-> 1]
    BY <1>2, <1>3, <2>3
  <2> QED  BY <2>2, <2>3, <2>4
<1>4. ASSUME LinksTo(y, a.run, At(a))
      PROVE  a.piece = 1 /\ y[Len(y)] = [run |-> a.run, line |-> a.line - 1, piece |-> 2]
  <2>1. Len(y) > 0 /\ Len(y) \in 1..Len(y) /\ y[Len(y)].piece = 2
        /\ y[Len(y)].run = a.run /\ At(y[Len(y)]) = At(a) - 1
    BY <1>4, LenProperties DEF LinksTo
  <2> DEFINE l == y[Len(y)]
  <2>2. l \in Pieces
    BY <2>1, ElementOfSeq
  <2> HIDE DEF l
  <2>3. l.line \in Nat /\ At(l) = 2 * (l.line - 1) + l.piece
        /\ l = [run |-> l.run, line |-> l.line, piece |-> l.piece]
    BY <2>2, PieceFacts DEF At, Pieces
  <2>4. l.piece = 2 /\ l.run = a.run /\ At(l) = At(a) - 1
    BY <2>1 DEF l
  <2>5. a.piece = 1 /\ l.line = a.line - 1
    BY <1>1, <2>3, <2>4
  <2> QED  BY <2>3, <2>4, <2>5 DEF l
<1>5. LinksTo(y, a.run, At(a)) \/ BeginsAfter(y, top, a.run, At(a))
  BY DEF GoesOn
<1>6. ASSUME a.piece = 2
      PROVE  ~top /\ (Len(y) = 0 \/ y[Len(y)].run # a.run)
  <2>1. BeginsAfter(y, top, a.run, At(a))
    BY <1>4, <1>5, <1>6
  <2>2. At(a) # 1
    BY <1>1, <1>6
  <2> QED  BY <2>1, <2>2 DEF BeginsAfter
<1>7. ASSUME a.piece = 1, top, BeginsAfter(y, top, a.run, At(a))
      PROVE  a.line = 1
  <2>1. At(a) = 1
    BY <1>7 DEF BeginsAfter
  <2> QED  BY <1>1, <1>7, <2>1
<1>8. LinksTo(y, a.run, At(a)) => Len(y) > 0
  BY DEF LinksTo
<1> QED  BY <1>3, <1>4, <1>5, <1>6, <1>7, <1>8

LEMMA YieldFollows ==
  ASSUME Inv, FollowInv, Yield
  PROVE  FollowInv'
<1>0. TypeOK /\ FileInv /\ OrderInv
  BY DEF Inv
<1> SUFFICES ASSUME ~missed' PROVE (PlaceInv /\ StretchInv /\ LinkInv /\ Following(yielded, fromStart))'
  BY DEF FollowInv
<1> DEFINE k == Len(tail.buf)
           y == Len(yielded)
           data == files[tail.file]
<1>1. /\ tail.file \in 1..Len(files) /\ tail'.file = tail.file /\ tail'.pos = tail.pos
      /\ UNCHANGED <<fromStart, files, path, run, stale, missed>> /\ TypeOK'
  BY <1>0, YieldFacts
<1>2. /\ k \in Nat /\ y \in Nat /\ tail.pos \in Nat /\ tail.file # 0
      /\ \A i \in 1..k : tail.buf[i] \in Pieces
      /\ \A i \in 1..y : yielded[i] \in Pieces
      /\ yielded \in Seq(Pieces) /\ fromStart \in BOOLEAN
      /\ Len(data) \in Nat
  BY <1>0, <1>1, TailFacts DEF TypeOK
<1>3. PlaceInv /\ StretchInv /\ LinkInv /\ Following(yielded, fromStart)
  BY <1>1 DEF FollowInv
<1>4. PlaceInv'
  BY <1>1, <1>3 DEF PlaceInv
<1>5. CASE tail'.buf = tail.buf /\ yielded' = yielded
  <2>1. StretchInv'
    <3> SUFFICES ASSUME NEW i \in 1..k
                 PROVE  /\ At(tail.buf[i]) = (tail.pos - k) + i
                        /\ \A j \in 1..k : tail.buf[j].run = tail.buf[i].run
                        /\ ~stale => tail.buf[i].run = run
                        /\ \A j \in 1..Len(data) : j > tail.pos => data[j].run = tail.buf[i].run
      BY <1>1, <1>5 DEF StretchInv
    <3> QED  BY <1>3 DEF StretchInv
  <2>2. LinkInv'
    BY <1>1, <1>3, <1>5 DEF LinkInv
  <2> QED  BY <1>1, <1>3, <1>4, <1>5, <2>1, <2>2
<1>6. ASSUME NEW n \in 1..k,
             tail.buf[n].piece = 2,
             \A i \in 1..k : tail.buf[i].piece = 2 => n <= i,
             Len(tail'.buf) = k - n,
             \A i \in 1..Len(tail'.buf) : n + i \in 1..k /\ tail'.buf[i] = tail.buf[n + i],
             \/ /\ yielded' = yielded
                /\ ~ (n = 2 /\ tail.buf[1] = [tail.buf[2] EXCEPT !.piece = 1])
             \/ /\ n = 2 /\ tail.buf[1] = [tail.buf[2] EXCEPT !.piece = 1]
                /\ Len(yielded') = y + 1
                /\ \A i \in 1..y : yielded'[i] = yielded[i]
                /\ yielded'[y + 1] = tail.buf[n]
      PROVE  (StretchInv /\ LinkInv /\ Following(yielded, fromStart))'
  <2> DEFINE a == tail.buf[1]
             e == tail.buf[n]
  <2>1. /\ 1 \in 1..k /\ a \in Pieces /\ e \in Pieces /\ k > 0
        /\ a.piece \in {1, 2} /\ At(e) \in Nat
    <3>1. 1 \in 1..k /\ k > 0
      BY <1>2, <1>6
    <3>2. a \in Pieces /\ e \in Pieces
      BY <1>2, <1>6, <3>1
    <3> HIDE DEF a, e
    <3> QED  BY <3>1, <3>2, PieceFacts
  <2>2. /\ At(e) = (tail.pos - k) + n /\ e.run = a.run
        /\ ~stale => e.run = run
        /\ \A j \in 1..Len(data) : j > tail.pos => data[j].run = e.run
    BY <1>3, <1>6, <2>1 DEF StretchInv
  <2>3. GoesOn(yielded, fromStart, a.run, At(a))
    BY <1>3, <2>1 DEF LinkInv
  <2>4. y > 0 => yielded[y].piece = 2
    <3>1. y > 0 => y \in 1..y
      BY <1>2
    <3> QED  BY <1>0, <3>1 DEF OrderInv
  <2>9. /\ \A b \in Pieces :
             b.run = a.run /\ At(b) = At(a) + 1 /\ a.piece = 1 =>
               b.piece = 2 /\ a = [b EXCEPT !.piece = 1]
        /\ a.piece = 2 => ~fromStart /\ (y = 0 \/ yielded[y].run # a.run)
        /\ a.piece = 1 /\ ~BeginsAfter(yielded, fromStart, a.run, At(a)) =>
             y > 0 /\ yielded[y] = [run |-> a.run, line |-> a.line - 1, piece |-> 2]
        /\ a.piece = 1 /\ fromStart /\ BeginsAfter(yielded, fromStart, a.run, At(a)) =>
             a.line = 1
    <3>1. a \in Pieces /\ yielded \in Seq(Pieces) /\ fromStart \in BOOLEAN
      BY <1>2, <2>1
    <3> HIDE DEF a
    <3> QED  BY <2>3, <2>4, <3>1, FirstLine
\* The rest of the buffer is the same stretch from n + 1 on.
  <2>5. StretchInv'
    <3>1. Len(tail'.buf) \in Nat /\ Len(tail'.buf) = k - n
      BY <1>1, <1>6, TailFacts, LenProperties DEF TypeOK
    <3> SUFFICES ASSUME NEW i \in 1..Len(tail'.buf)
                 PROVE  /\ At(tail'.buf[i]) = (tail.pos - Len(tail'.buf)) + i
                        /\ \A j \in 1..Len(tail'.buf) : tail'.buf[j].run = tail'.buf[i].run
                        /\ ~stale => tail'.buf[i].run = run
                        /\ \A j \in 1..Len(data) : j > tail.pos => data[j].run = tail'.buf[i].run
      BY <1>1 DEF StretchInv
    <3>2. n + i \in 1..k /\ tail'.buf[i] = tail.buf[n + i]
      BY <1>6
    <3>3. (tail.pos - k) + (n + i) = (tail.pos - (k - n)) + i
      <4> HIDE DEF k
      <4> QED  BY <1>2, <1>6, <3>1
    <3>4. At(tail'.buf[i]) = (tail.pos - Len(tail'.buf)) + i
      BY <1>3, <3>1, <3>2, <3>3 DEF StretchInv
    <3>5. \A j \in 1..Len(tail'.buf) : tail'.buf[j].run = tail'.buf[i].run
      <4>1. \A p, q \in 1..k : tail.buf[p].run = tail.buf[q].run
        BY <1>3 DEF StretchInv
      <4> SUFFICES ASSUME NEW j \in 1..Len(tail'.buf)
                   PROVE  tail'.buf[j].run = tail'.buf[i].run
        OBVIOUS
      <4>2. n + j \in 1..k /\ tail'.buf[j] = tail.buf[n + j]
        BY <1>6
      <4>3. tail.buf[n + j].run = tail.buf[n + i].run
        BY <3>2, <4>1, <4>2
      <4> QED  BY <3>2, <4>2, <4>3
    <3>6. ~stale => tail'.buf[i].run = run
      BY <1>3, <3>2 DEF StretchInv
    <3>7. \A j \in 1..Len(data) : j > tail.pos => data[j].run = tail'.buf[i].run
      BY <1>3, <3>2 DEF StretchInv
    <3> QED  BY <3>4, <3>5, <3>6, <3>7
\* What comes next is of the same run, and right after the line.
  <2>6. ASSUME \A r : r = e.run => GoesOn(yielded', fromStart, r, At(e) + 1)
        PROVE  LinkInv'
    <3>1. CASE Len(tail'.buf) > 0
      <4>1. 1 \in 1..Len(tail'.buf)
        BY <1>1, <3>1, TailFacts, LenProperties DEF TypeOK
      <4>2. n + 1 \in 1..k /\ tail'.buf[1] = tail.buf[n + 1]
        BY <1>6, <4>1
      <4>3. /\ tail.buf[n + 1].run = e.run
            /\ At(tail.buf[n + 1]) = (tail.pos - k) + (n + 1)
        BY <1>3, <1>6, <4>2 DEF StretchInv
      <4>4. At(tail'.buf[1]) = At(e) + 1
        <5> HIDE DEF k, e
        <5> QED  BY <1>2, <1>6, <2>2, <4>2, <4>3
      <4> QED  BY <1>1, <2>6, <3>1, <4>2, <4>3, <4>4 DEF LinkInv
    <3>2. CASE Len(tail'.buf) = 0
      <4>1. At(e) = tail.pos
        <5> HIDE DEF k, e
        <5> QED  BY <1>2, <1>6, <2>2, <3>2
      <4>2. \A i \in 1..Len(data) : i = tail.pos + 1 => i > tail.pos
        BY <1>2
      <4>3. \A i \in 1..Len(data) : i = tail.pos + 1 => data[i].run = e.run
        BY <2>2, <4>2
      <4>4. ~stale => GoesOn(yielded', fromStart, run, tail.pos + 1)
        BY <2>2, <2>6, <4>1
      <4>5. \A i \in 1..Len(data) : i = tail.pos + 1 =>
              GoesOn(yielded', fromStart, data[i].run, tail.pos + 1)
        BY <2>6, <4>1, <4>3
      <4> QED  BY <1>1, <3>2, <4>4, <4>5 DEF LinkInv
    <3>3. Len(tail'.buf) \in Nat
      BY <1>1, TailFacts, LenProperties DEF TypeOK
    <3> QED  BY <3>1, <3>2, <3>3
  <2>7. CASE a.piece = 2
    <3>1. n = 1
      BY <1>2, <1>6, <2>1, <2>7
    <3>2. yielded' = yielded
      BY <1>6, <3>1
    <3>3. ~fromStart /\ (y = 0 \/ yielded[y].run # a.run)
      BY <2>7, <2>9
    <3>4. \A r : r = e.run => GoesOn(yielded', fromStart, r, At(e) + 1)
      BY <2>2, <3>2, <3>3 DEF GoesOn, BeginsAfter
    <3>5. LinkInv'
      BY <2>6, <3>4
    <3> QED  BY <1>1, <1>3, <2>5, <3>2, <3>5
  <2>8. CASE a.piece = 1
    <3>1. 2 \in 1..k /\ n >= 2
      <4>1. n # 1
        BY <1>6, <2>8
      <4> QED  BY <1>2, <1>6, <4>1
    <3> DEFINE b == tail.buf[2]
    <3>2. b \in Pieces /\ b.run = a.run /\ At(b) = At(a) + 1
      <4>1. /\ b.run = a.run /\ b \in Pieces
            /\ At(b) = (tail.pos - k) + 2 /\ At(a) = (tail.pos - k) + 1
        BY <1>2, <1>3, <2>1, <3>1 DEF StretchInv
      <4> HIDE DEF a, b, k
      <4> QED  BY <1>2, <4>1
    <3>3. b.piece = 2 /\ a = [b EXCEPT !.piece = 1]
      BY <2>8, <2>9, <3>2
    <3>4. n = 2
      BY <1>2, <1>6, <3>1, <3>3
    <3>5. /\ Len(yielded') = y + 1 /\ yielded'[y + 1] = b
          /\ \A i \in 1..y : yielded'[i] = yielded[i]
      BY <1>6, <3>3, <3>4
    <3>6. e = b
      BY <3>4
    <3>7. \A r : r = e.run => GoesOn(yielded', fromStart, r, At(e) + 1)
      <4>1. At(b) = (At(b) + 1) - 1 /\ y + 1 > 0
        BY <1>2, <3>2, PieceFacts
      <4>2. LinksTo(yielded', b.run, At(b) + 1)
        BY <3>5, <4>1 DEF LinksTo
      <4> QED  BY <3>6, <4>2 DEF GoesOn
    <3>8. LinkInv'
      BY <2>6, <3>7
    <3>9. Following(yielded', fromStart)
      <4>1. \/ y + 1 > 1 /\ yielded[y] = [b EXCEPT !.line = @ - 1]
            \/ IF fromStart THEN b.line = 1 ELSE y = 0 \/ yielded[y].run # b.run
        <5>1. b = [run |-> a.run, line |-> a.line, piece |-> 2]
          <6>1. b = [run |-> b.run, line |-> b.line, piece |-> b.piece]
            BY <3>2 DEF Pieces
          <6>2. a.line = b.line
            BY <3>3, <6>1
          <6> QED  BY <3>2, <3>3, <6>1, <6>2
        <5>2. CASE BeginsAfter(yielded, fromStart, a.run, At(a))
          <6>1. fromStart => a.line = 1
            BY <2>8, <2>9, <5>2
          <6>2. ~fromStart => y = 0 \/ yielded[y].run # a.run
            BY <5>2 DEF BeginsAfter
          <6> QED  BY <5>1, <6>1, <6>2
        <5>3. CASE ~BeginsAfter(yielded, fromStart, a.run, At(a))
          <6>1. y > 0 /\ yielded[y] = [run |-> a.run, line |-> a.line - 1, piece |-> 2]
            BY <2>8, <2>9, <5>3
          <6>2. [b EXCEPT !.line = @ - 1] = [run |-> a.run, line |-> a.line - 1, piece |-> 2]
            BY <5>1
          <6> QED  BY <1>2, <6>1, <6>2
        <5> QED  BY <5>2, <5>3
      <4> SUFFICES ASSUME NEW i \in 1..Len(yielded')
                   PROVE  \/ i > 1 /\ yielded'[i - 1] = [yielded'[i] EXCEPT !.line = @ - 1]
                          \/ IF fromStart THEN yielded'[i].line = 1
                             ELSE i = 1 \/ yielded'[i - 1].run # yielded'[i].run
        BY DEF Following
      <4>2. CASE i = y + 1
        <5>1. y > 0 => y \in 1..y /\ i - 1 = y
          BY <1>2, <4>2
        <5>2. y > 0 => yielded'[i - 1] = yielded[y]
          BY <3>5, <5>1
        <5>3. yielded'[i] = b
          BY <3>5, <4>2
        <5>4. y > 0 \/ (y = 0 /\ i = 1)
          BY <1>2, <4>2
        <5> HIDE DEF y, b
        <5> QED  BY <1>2, <4>1, <4>2, <5>2, <5>3, <5>4
      <4>3. CASE i \in 1..y
        <5>1. i > 1 => i - 1 \in 1..y
          BY <1>2, <4>3
        <5>2. i = 1 \/ i > 1
          BY <1>2, <4>3
        <5>3. yielded'[i] = yielded[i] /\ (i > 1 => yielded'[i - 1] = yielded[i - 1])
          BY <3>5, <4>3, <5>1
        <5>4. \/ i > 1 /\ yielded[i - 1] = [yielded[i] EXCEPT !.line = @ - 1]
              \/ IF fromStart THEN yielded[i].line = 1
                 ELSE i = 1 \/ yielded[i - 1].run # yielded[i].run
          BY <1>3, <4>3 DEF Following
        <5> QED  BY <5>2, <5>3, <5>4
      <4> QED  BY <1>2, <3>5, <4>2, <4>3
    <3> QED  BY <1>1, <2>5, <3>8, <3>9
  <2> QED  BY <2>1, <2>7, <2>8
<1> HIDE DEF k, y
<1>7. \/ tail'.buf = tail.buf /\ yielded' = yielded
      \/ \E n \in 1..k :
           /\ tail.buf[n].piece = 2
           /\ \A i \in 1..k : tail.buf[i].piece = 2 => n <= i
           /\ Len(tail'.buf) = k - n
           /\ \A i \in 1..Len(tail'.buf) : n + i \in 1..k /\ tail'.buf[i] = tail.buf[n + i]
           /\ \/ /\ yielded' = yielded
                 /\ ~ (n = 2 /\ tail.buf[1] = [tail.buf[2] EXCEPT !.piece = 1])
              \/ /\ n = 2 /\ tail.buf[1] = [tail.buf[2] EXCEPT !.piece = 1]
                 /\ Len(yielded') = y + 1
                 /\ \A i \in 1..y : yielded'[i] = yielded[i]
                 /\ yielded'[y + 1] = tail.buf[n]
  BY <1>0, YieldFacts DEF k, y
<1> QED  BY <1>4, <1>5, <1>6, <1>7

LEMMA StepFollows == Inv /\ FollowInv /\ [Next]_vars => FollowInv'
<1> SUFFICES ASSUME Inv, FollowInv, [Next]_vars PROVE FollowInv'
  OBVIOUS
<1>1. CASE UNCHANGED vars
  <2>1. UNCHANGED <<fromStart, files, path, run, tail, yielded, stale, missed>>
    BY <1>1 DEF vars, log
  <2> SUFFICES ASSUME ~missed
               PROVE  (PlaceInv /\ StretchInv /\ LinkInv /\ Following(yielded, fromStart))'
    BY <2>1 DEF FollowInv
  <2>2. PlaceInv /\ StretchInv /\ LinkInv /\ Following(yielded, fromStart)
    BY DEF FollowInv
  <2>3. PlaceInv' /\ LinkInv' /\ Following(yielded, fromStart)'
    BY <2>1, <2>2 DEF PlaceInv, LinkInv
  <2>4. StretchInv'
    BY <2>1, <2>2 DEF StretchInv
  <2> QED  BY <2>3, <2>4
<1>2. CASE Next
  BY <1>2, OpenLogFollows, WriteFollows, OpenFollows, ReadFollows, YieldFollows,
     StatFollows DEF Next
<1> QED  BY <1>1, <1>2

\* Unless a truncation was missed, the lines of each run are its first ones,
\* or follow each other when the tail began at the end: tail_lines,
\* emit.py:325.
THEOREM InOrder == Spec => []Faithful
<1>1. FollowInv /\ Inv => Faithful
  <2> SUFFICES ASSUME FollowInv, Inv, ~missed, NEW r \in 1..run
               PROVE  IF fromStart THEN FromTheTop(r) ELSE InARow(r)
    BY DEF Faithful
  <2>1. Following(yielded, fromStart)
    BY DEF FollowInv
  <2>2. DOMAIN yielded = 1..Len(yielded)
    BY LenProperties DEF Inv, TypeOK
  <2>3. Len(yielded) \in Nat
    BY TailFacts DEF Inv
  <2>4. CASE fromStart
    BY <2>1, <2>2, <2>4 DEF Following, FromTheTop, Continues
  <2>5. CASE ~fromStart
    BY <2>1, <2>2, <2>3, <2>5 DEF Following, InARow, Continues
  <2> QED  BY <2>4, <2>5
<1>2. Spec => [](Inv /\ FollowInv)
  <2>1. Init => Inv /\ FollowInv
    BY InitHolds, InitFollows
  <2>2. Inv /\ FollowInv /\ [Next]_vars => (Inv /\ FollowInv)'
    BY StepKeeps, StepFollows
  <2> QED  BY <2>1, <2>2, PTL DEF Spec
<1> QED  BY <1>1, <1>2, PTL

============================================================================
