----------------------------------- MODULE SpTuples -----------------------------------
(***************************************************************************)
(* SpTuples, a block of a sparse matrix as a list of triples: what files,  *)
(* generators, messages and local products come as, and what the column    *)
(* storage is built from and taken apart into.  Sorting by columns or by   *)
(* rows is all that decides which storage is built from it.                *)
(***************************************************************************)
EXTENDS Dcsc

LOCAL INSTANCE SequencesExt
LOCAL INSTANCE TLC

\* A list of size entries [row, col, val] of an m x n matrix.
Tuples(nRow, nCol, tuples) == [m |-> nRow, n |-> nCol, tuples |-> tuples]
nnzOf(t) == Len(t.tuples)

ColBefore(d, e) == d.col < e.col \/ (d.col = e.col /\ d.row < e.row)
RowBefore(d, e) == d.row < e.row \/ (d.row = e.row /\ d.col < e.col)
SortColBased(t) == [t EXCEPT !.tuples = SortSeq(@, ColBefore)]
SortRowBased(t) == [t EXCEPT !.tuples = SortSeq(@, RowBefore)]

SamePlace(d, e) == d.row = e.row /\ d.col = e.col

\* Entries of one place, which are neighbours, become one: what BinOp, here the sum, makes.
RemoveDuplicates(t) ==
  [t EXCEPT !.tuples = FoldLeft(LAMBDA summed, e :
     IF summed # <<>> /\ SamePlace(Last(summed), e)
     THEN [summed EXCEPT ![Len(summed)].val = Plus(@, e.val)]
     ELSE Append(summed, e), <<>>, @)]

\* From edges, pairs that may occur more than once, with logical values: the first of equal
\* edges stays, and no loop if removeloops.
FromEdges(nRow, nCol, edges, removeloops) ==
  LET sorted == SortColBased(Tuples(nRow, nCol,
                  [k \in DOMAIN edges |-> [row |-> edges[k][1], col |-> edges[k][2], val |-> 1 % ElementRange]])).tuples
      first(k) == k = 1 \/ ~ SamePlace(sorted[k - 1], sorted[k])
      kept == SelectSeq([k \in DOMAIN sorted |-> k],
                        LAMBDA k : first(k) /\ ~ (removeloops /\ sorted[k].row = sorted[k].col))
  IN Tuples(nRow, nCol, [i \in DOMAIN kept |-> sorted[kept[i]]])

\* The nonzeros of a matrix with m rows and n columns, in the order they are stored.
FillTuples(d, m, n) ==
  Tuples(m, n, FlattenSeq([i \in 1 .. nzc(d) |->
    LET c == Column(d, i - 1) IN [k \in DOMAIN c.ents |-> [row |-> c.ents[k].row, col |-> c.col, val |-> c.ents[k].val]]]))

\* Loops that are missing are added at the end with the value loopvals has for them, those
\* that exist get it too if replaceExisting.
AddLoops(t, loopvals, replaceExisting) ==
  LET isLoop(e) == e.row = e.col
      existing == {e.row : e \in {x \in ToSet(t.tuples) : isLoop(x)}}
      old == [k \in DOMAIN t.tuples |->
                IF replaceExisting /\ isLoop(t.tuples[k])
                THEN [t.tuples[k] EXCEPT !.val = loopvals[t.tuples[k].row + 1]] ELSE t.tuples[k]]
      missing == SelectSeq([i \in 1 .. t.n |-> i - 1], LAMBDA i : i \notin existing)
  IN [t EXCEPT !.tuples = old \o [i \in DOMAIN missing |->
        [row |-> missing[i], col |-> missing[i], val |-> loopvals[missing[i] + 1]]]]

RemoveLoops(t) == [t EXCEPT !.tuples = SelectSeq(@, LAMBDA e : e.row # e.col)]

\* The text form counts from one and has m, n and the number of entries first.
putstream(t) ==
  [m |-> t.m, n |-> t.n, nnz |-> nnzOf(t),
   lines |-> [k \in DOMAIN t.tuples |-> [t.tuples[k] EXCEPT !.row = @ + 1, !.col = @ + 1]]]
getstream(text) ==
  Tuples(text.m, text.n,
         [k \in 1 .. text.nnz |-> [text.lines[k] EXCEPT !.row = @ - 1, !.col = @ - 1]])

-----------------------------------------------------------------------------
(* The column storage of a list that is sorted. *)

\* One column for each run of entries with the same column.
FromColSorted(t) == FromStack(t.tuples)

\* Of a list sorted by rows, the storage of the transpose.
Flipped(e) == [row |-> e.col, col |-> e.row, val |-> e.val]
FromRowSorted(t) == FromStack([k \in DOMAIN t.tuples |-> Flipped(t.tuples[k])])

\* The constructor with threads, were columns that two threads meet not looked for.
FromColSortedThreadedTwice(t, totThreads) ==
  LET share == nnzOf(t) \div totThreads
      heads == SelectSeq([k \in DOMAIN t.tuples |-> k],
                         LAMBDA k : k = 1 \/ (share > 0 /\ (k - 1) % share = 0) \/ t.tuples[k].col # t.tuples[k - 1].col)
  IN [jc |-> [k \in DOMAIN heads |-> t.tuples[heads[k]].col],
      cp |-> Append([k \in DOMAIN heads |-> heads[k] - 1], nnzOf(t)),
      ir |-> [k \in DOMAIN t.tuples |-> t.tuples[k].row],
      numx |-> [k \in DOMAIN t.tuples |-> t.tuples[k].val]]

\* The constructor with threads: each lists the columns of an equal share of the entries,
\* the last thread has the rest; a column that the thread before has begun is dropped.
FromColSortedThreaded(t, totThreads) ==
  LET share == nnzOf(t) \div totThreads
      start(i) == (i - 1) * share
      end(i) == IF i = totThreads THEN nnzOf(t) ELSE i * share
      heads(i) == SelectSeq([k \in 1 .. end(i) - start(i) |-> start(i) + k],
                            LAMBDA k : k = start(i) + 1 \/ t.tuples[k].col # t.tuples[k - 1].col)
      begun(i) == i > 1 /\ heads(i) # <<>> /\ heads(i - 1) # <<>>
                    /\ t.tuples[heads(i)[1]].col = t.tuples[Last(heads(i - 1))].col
      all == FlattenSeq([i \in 1 .. totThreads |-> IF begun(i) THEN Tail(heads(i)) ELSE heads(i)])
  IN [jc |-> [k \in DOMAIN all |-> t.tuples[all[k]].col],
      cp |-> Append([k \in DOMAIN all |-> all[k] - 1], nnzOf(t)),
      ir |-> [k \in DOMAIN t.tuples |-> t.tuples[k].row],
      numx |-> [k \in DOMAIN t.tuples |-> t.tuples[k].val]]

-----------------------------------------------------------------------------
(* The compressed columns of Csc: jc has a pointer for every column. *)

CscFromTuples(t, n) ==
  LET sorted == SortColBased(t).tuples IN
  [jc |-> [c \in 1 .. n + 1 |-> Cardinality({k \in DOMAIN sorted : sorted[k].col < c - 1})],
   ir |-> [k \in DOMAIN sorted |-> sorted[k].row],
   num |-> [k \in DOMAIN sorted |-> sorted[k].val]]
CscColumn(csc, c) ==
  [k \in 1 .. csc.jc[c + 2] - csc.jc[c + 1] |->
     [row |-> csc.ir[csc.jc[c + 1] + k], val |-> csc.num[csc.jc[c + 1] + k]]]
=============================================================================
