-------------------------------- MODULE ParallelRead --------------------------------
(***************************************************************************)
(* The parallel text reader of SpParMat::ParallelReadMM and                *)
(* FullyDistSpVec::ParallelRead: the bytes of a file are split into one    *)
(* range per rank, and SpParHelper::FetchBatch reads a rank's lines in     *)
(* batches.  A line belongs to the rank in whose range it starts.          *)
(*                                                                         *)
(* A file is its size, its newline positions and the end of its header;    *)
(* a line is <<start, end>>, end being the position of its newline.        *)
(***************************************************************************)
EXTENDS Integers, Sequences, FiniteSets, FiniteSetsExt, Collectives, Ordering

CONSTANTS NP,       \* number of ranks
          Readers,  \* the ways of reading considered, records of
                    \*   perm:       isPerm, the vertex ids are permuted while the lines are read
                    \*   splitData:  TRUE: split what follows the header (the matrix reader);
                    \*               FALSE: split the file (the vector reader)
                    \*   clearLines: TRUE: the lines of a batch are cleared once they are
                    \*               processed (the matrix reader); FALSE: they stay
                    \*   batch:      bytes2fetch, TENMILLION in the code
          Files     \* the files considered

Rank == 0 .. NP - 1

\* The header ends with a newline.  The code reads every line within one batch, and skips
\* a partial line within MAXLINELENGTH bytes.  The vector reader takes its header for one
\* line and splits the file so that each rank has a byte.
ASSUME FilesAssumption ==
  /\ NP \in Nat \ {0}
  /\ \A r \in Readers :
       /\ r.perm \in BOOLEAN /\ r.splitData \in BOOLEAN /\ r.clearLines \in BOOLEAN
       /\ r.batch \in Nat \ {0}
  /\ \A f \in Files :
       /\ f.size \in Nat /\ f.header \in 1 .. f.size
       /\ f.nl \subseteq 0 .. f.size - 1 /\ f.header - 1 \in f.nl
  /\ \A f \in Files, r \in Readers :
       /\ \A s \in 0 .. f.size - r.batch : \E i \in s .. s + r.batch - 1 : i \in f.nl
       /\ ~ r.splitData => NP <= f.size /\ \A i \in f.nl : i >= f.header - 1

VARIABLES reader,    \* how the file is read
          file,      \* the file that is read
          pc,        \* "fetch", the collective the rank is in, or "done"
          first,     \* firstcall
          curpos,    \* file position of the rank's next line
          finished,  \* what the last FetchBatch returned
          lines,     \* the lines FetchBatch has pushed and nothing has cleared
          got,       \* the lines the rank processed, in order
          log        \* the collectives the rank called

vars == <<reader, file, pc, first, curpos, finished, lines, got, log>>

-----------------------------------------------------------------------------
(* Ranges. *)

StartOf(f, p) ==
  IF reader.splitData THEN f.header + (p * (f.size - f.header)) \div NP
  ELSE IF p = 0 THEN f.header ELSE (p * f.size) \div NP

EndOf(f, p) ==
  IF p = NP - 1 THEN f.size
  ELSE IF reader.splitData THEN f.header + ((p + 1) * (f.size - f.header)) \div NP
  ELSE ((p + 1) * f.size) \div NP

-----------------------------------------------------------------------------
(* FetchBatch. *)

\* Every rank but the first begins one byte early, to see whether its range begins
\* at the beginning of a line.
SkipsPartialLine(p, firstcall) == firstcall /\ p # 0
ReadFromCurpos(p) == curpos[p]
ReadFrom(p) == IF SkipsPartialLine(p, first[p]) THEN curpos[p] - 1 ELSE curpos[p]
BytesToFetchLessTerminator(p) == IF SkipsPartialLine(p, first[p]) THEN reader.batch ELSE reader.batch - 1
BytesToFetch(p) == IF SkipsPartialLine(p, first[p]) THEN reader.batch + 1 ELSE reader.batch

\* The bytes a read delivers: fewer than asked for at the end of the file.
Window(p) == {i \in ReadFrom(p) .. ReadFrom(p) + BytesToFetch(p) - 1 : i < file.size}

\* check_newline: a file that does not end with a newline gets one, in place of its
\* last byte.
CheckNewlineAfterEnd(w, requested) ==
  IF Cardinality(w) < requested /\ w # {} THEN {Max(w) + 1} ELSE {}
CheckNewline(w, requested) ==
  IF Cardinality(w) < requested /\ w # {} THEN {Max(w)} ELSE {}

Breaks(p) == (file.nl \cap Window(p)) \cup CheckNewline(Window(p), BytesToFetch(p))

\* The first line of the batch, after the partial line.
FirstLine(p) ==
  IF SkipsPartialLine(p, first[p]) THEN Min(Breaks(p) \cup {Max(Window(p))}) + 1 ELSE curpos[p]

\* The lines of the batch that start before the end of the range, in order: a line ends
\* at a newline, and the one after it starts behind that.
LineEnds(p) ==
  LET breaks == Breaks(p)
      from == FirstLine(p)
      before == EndOf(file, p)
  IN {e \in breaks : from <= e /\ from < before
                     /\ \A b \in breaks : from <= b /\ b < e => b + 1 < before}
LinesIn(p) ==
  LET set == IF Window(p) = {} THEN {} ELSE LineEnds(p)
      ends == InOrderOf(set, LAMBDA d, e : d < e)
  IN [k \in 1 .. Cardinality(set) |-> <<IF k = 1 THEN FirstLine(p) ELSE ends[k - 1] + 1, ends[k]>>]

\* The file position after the lines of the batch.
NextPosition(p, batch) ==
  IF Window(p) = {} THEN ReadFrom(p)
  ELSE IF batch = <<>> THEN FirstLine(p) ELSE batch[Len(batch)][2] + 1

\* What is left of the pushed lines once they are processed.
Remaining(pushed) == IF reader.clearLines THEN <<>> ELSE pushed

-----------------------------------------------------------------------------
Call(p, op) == log' = [log EXCEPT ![p] = Append(@, [op |-> op, root |-> IF op = "reduce" THEN 0 ELSE -1])]

\* The loop: another batch while FetchBatch did not return true, then MPI_Reduce.
Continue(p, done) ==
  IF done THEN pc' = [pc EXCEPT ![p] = "reduce"] /\ Call(p, "reduce")
          ELSE pc' = [pc EXCEPT ![p] = "fetch"] /\ UNCHANGED log

\* After the lines of the first batch are processed there is a barrier.
AfterLinesAlwaysBarrier(p, wasFirst, done) ==
  pc' = [pc EXCEPT ![p] = "barrier"] /\ Call(p, "barrier")
AfterLines(p, wasFirst, done) ==
  IF wasFirst THEN pc' = [pc EXCEPT ![p] = "barrier"] /\ Call(p, "barrier")
              ELSE Continue(p, done)

Init ==
  /\ reader \in Readers /\ file \in Files
  /\ pc = [p \in Rank |-> "fetch"]
  /\ first = [p \in Rank |-> TRUE]
  /\ curpos = [p \in Rank |-> StartOf(file, p)]
  /\ finished = [p \in Rank |-> FALSE]
  /\ lines = [p \in Rank |-> <<>>]
  /\ got = [p \in Rank |-> <<>>]
  /\ log = [p \in Rank |-> <<>>]

\* One FetchBatch and its ProcessLines, which for a permuted matrix exchanges the ids
\* with all ranks (GetElements).
Fetch(p) ==
  /\ pc[p] = "fetch"
  /\ \E batch \in {LinesIn(p)} :
       LET pushed == lines[p] \o batch
           done == Window(p) = {} \/ NextPosition(p, batch) >= EndOf(file, p)
       IN
       /\ curpos' = [curpos EXCEPT ![p] = NextPosition(p, batch)]
       /\ got' = [got EXCEPT ![p] = @ \o pushed]
       /\ lines' = [lines EXCEPT ![p] = Remaining(pushed)]
       /\ finished' = [finished EXCEPT ![p] = done]
       /\ IF reader.perm
          THEN /\ pc' = [pc EXCEPT ![p] = "exchange"]
               /\ Call(p, "alltoall")
               /\ UNCHANGED first
          ELSE /\ AfterLines(p, first[p], done)
               /\ first' = [first EXCEPT ![p] = FALSE]
  /\ UNCHANGED <<reader, file>>

LeaveExchange(p) ==
  /\ pc[p] = "exchange"
  /\ AllArrived(log, Rank, p)
  /\ AfterLines(p, first[p], finished[p])
  /\ first' = [first EXCEPT ![p] = FALSE]
  /\ UNCHANGED <<reader, file, curpos, finished, lines, got>>

LeaveBarrier(p) ==
  /\ pc[p] = "barrier"
  /\ AllArrived(log, Rank, p)
  /\ Continue(p, finished[p])
  /\ UNCHANGED <<reader, file, first, curpos, finished, lines, got>>

\* The sum of the lines read goes to rank 0; the others need not wait for it.
LeaveReduce(p) ==
  /\ pc[p] = "reduce"
  /\ p = 0 => AllArrived(log, Rank, p)
  /\ pc' = [pc EXCEPT ![p] = "done"]
  /\ UNCHANGED <<reader, file, first, curpos, finished, lines, got, log>>

Step(p) == Fetch(p) \/ LeaveExchange(p) \/ LeaveBarrier(p) \/ LeaveReduce(p)
Terminated == (\A p \in Rank : pc[p] = "done") /\ UNCHANGED vars
Next == (\E p \in Rank : Step(p)) \/ Terminated
Spec == Init /\ [][Next]_vars /\ \A p \in Rank : WF_vars(Step(p))

-----------------------------------------------------------------------------
(* Correctness. *)

\* The types of the variables; a rank's position stays in the file.
TypeOK ==
  /\ reader \in Readers /\ file \in Files
  /\ pc \in [Rank -> {"fetch", "exchange", "barrier", "reduce", "done"}]
  /\ first \in [Rank -> BOOLEAN] /\ finished \in [Rank -> BOOLEAN]
  /\ curpos \in [Rank -> 0 .. file.size]
  /\ lines \in [Rank -> Seq((0 .. file.size) \X (0 .. file.size))]
  /\ got \in [Rank -> Seq((0 .. file.size) \X (0 .. file.size))]
  /\ log \in [Rank -> Seq([op : {"alltoall", "barrier", "reduce"}, root : {-1, 0}])]

\* Where the lines of a file start, that of an unterminated last line included.
LineStarts(f) ==
  {s \in {f.header} \cup {i + 1 : i \in {i \in f.nl : i >= f.header}} : s < f.size}

\* When every rank is past its loop, the lines they processed, rank after rank, start where
\* the lines of the file start: no line is processed twice, skipped or out of order,
\* wherever the ranges and the batches fall (FetchBatch).
EachLineOnce ==
  (\A p \in Rank : pc[p] \in {"reduce", "done"}) =>
    /\ UNION {{got[p][i][1] : i \in DOMAIN got[p]} : p \in Rank} = LineStarts(file)
    /\ \A p, q \in Rank : \A i \in DOMAIN got[p], j \in DOMAIN got[q] :
         p < q \/ (p = q /\ i < j) => got[p][i][1] < got[q][j][1]

\* All ranks of ParallelReadMM go through the same collectives in the same order.
CollectivesMatch == \A p, q \in Rank : SameCalls(log[p], log[q])

\* Reading ends on every rank: each batch moves its rank forward.
ReadingEnds == <>(\A p \in Rank : pc[p] = "done")
=============================================================================
