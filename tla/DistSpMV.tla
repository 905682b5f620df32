---------------------------------- MODULE DistSpMV ----------------------------------
(***************************************************************************)
(* Products of a distributed matrix with a distributed vector.  The pieces *)
(* of the vector go to the processes on the other side of the diagonal,    *)
(* are gathered in every process column, multiplied with the blocks there, *)
(* and the results are sent to and added at their owners in each row.      *)
(*                                                                         *)
(* A matrix is [m, n, at], its blocks given by BlockOwner.  The product of *)
(* a block with a vector is that of SpDCCols, here only what it is.        *)
(***************************************************************************)
EXTENDS DistVectors

\* A function of the ranks, with its values computed once.
ByRank(f(_)) == FoldLeft(LAMBDA g, k : (k - 1 :> f(k - 1)) @@ g, <<>>, [k \in 1 .. ProcRows * ProcCols |-> k])

PlusTimes(terms, f(_)) == FoldSet(LAMBDA c, sum : Plus(sum, f(c)), 0, terms)

-----------------------------------------------------------------------------
(* The steps, for each rank. *)

\* The local list of the complement rank, at offsets within its process row; and where, of the
\* whole vector, that list begins.
TransposeVectorOwnOffset(x, indexisvalue) ==
  [r \in Procs |->
     LET diagneigh == GetComplementRank(r)
         roffset == RowLenUntil(x.glen, RankInProcCol(r), RankInProcRow(r))
         list == x.loc[diagneigh]
     IN [lenuntil |-> LenUntil(x.glen, diagneigh),
         trx |-> [k \in 1 .. Len(list) |-> Pair(list[k].ind + roffset, IF indexisvalue THEN NT ELSE list[k].num)]]]
TransposeVector(x, indexisvalue) ==
  [r \in Procs |->
     LET diagneigh == GetComplementRank(r)
         roffset == RowLenUntil(x.glen, RankInProcCol(diagneigh), RankInProcRow(diagneigh))
         list == x.loc[diagneigh]
     IN [lenuntil |-> LenUntil(x.glen, diagneigh),
         trx |-> [k \in 1 .. Len(list) |-> Pair(list[k].ind + roffset, IF indexisvalue THEN NT ELSE list[k].num)]]]

InColumn(r, lists) == FlattenSeq([i \in 1 .. ProcRows |-> lists[GetRank(i - 1, RankInProcRow(r))]])
AllGatherVector(trxs, indexisvalue) ==
  [r \in Procs |->
     LET acc == InColumn(r, [q \in Procs |-> trxs[q].trx])
         lenuntilcol == trxs[GetRank(0, RankInProcRow(r))].lenuntil
     IN IF indexisvalue THEN [k \in 1 .. Len(acc) |-> Pair(acc[k].ind, acc[k].ind + lenuntilcol)] ELSE acc]

\* The kernel: rows of the block of r that meet an index of the list.
Block(A, r) == {p \in DOMAIN A.at : BlockOwner(A.m, A.n, p[1], p[2]).rank = r}
LocalRows(A, r) == LocRows(A.m, RankInProcCol(r))
gespmv(A, r, acc) ==
  LET entry(p) == LET own == BlockOwner(A.m, A.n, p[1], p[2]) IN [row |-> own.lrow, col |-> own.lcol, val |-> A.at[p]]
      met == {e \in {entry(p) : p \in Block(A, r)} : e.col \in Inds(acc)}
      here(row) == {e \in met : e.row = row}
  IN ByIndex({e.row : e \in met}, LAMBDA row : PlusTimes(here(row), LAMBDA e : e.val * ValueAt(acc, e.col)))

\* The result is cut evenly for the ranks of the process row, the last of which has the rest.
LocalSpMV(A, r, acc) ==
  LET y == gespmv(A, r, acc)
      perproc == LocalRows(A, r) \div ProcCols
      end_this(i) == IF i = ProcCols - 1 THEN LocalRows(A, r) ELSE (i + 1) * perproc
      shifted(list, by) == [k \in 1 .. Len(list) |-> Pair(list[k].ind - by, list[k].num)]
      cut(i) == SelectSeq(y, LAMBDA e : e.ind < end_this(i) /\ (i > 0 => e.ind >= end_this(i - 1)))
  IN [i \in 0 .. ProcCols - 1 |-> shifted(cut(i), i * perproc)]

\* Lists of pairs become one, values for the same index added.
MergeContributions(lists) == Unique(SortedPairs(FlattenSeq(lists)), TRUE)
\* By threads, each of which merges a range of the indices.
MergeContributions_threaded(lists, maxindex, nthreads) ==
  LET nsplits == Min({4 * nthreads, maxindex})
      splitter(list, i) == IF i = 0 THEN 0 ELSE IF i = nsplits THEN Len(list)
                           ELSE LowerBound(list, i * (maxindex \div nsplits))
      part(list, i) == SubSeq(list, splitter(list, i - 1) + 1, splitter(list, i))
  IN FlattenSeq([i \in 1 .. nsplits |-> MergeContributions([k \in 1 .. Len(lists) |-> part(lists[k], i)])])

-----------------------------------------------------------------------------
(* The products. *)

\* What rank r gets from the ranks of its process row, one list from each.
FromRow(sent, r) ==
  [j \in 1 .. ProcCols |-> sent[GetRank(RankInProcCol(r), j - 1)][RankInProcRow(r)]]

\* The values of indices are filled in as they are gathered, which one process row does not do.
HasValues(indexisvalue) == ProcRows > 1 \/ ~ indexisvalue
\* nthreads = 0 stands for a build without threads.  The length of y is set first of all, so
\* that x may only be the same object if the matrix is square.
SpMV(A, x, indexisvalue, nthreads) ==
  LET trxs == TransposeVector(x, indexisvalue)
      acc == IF ProcRows > 1 THEN AllGatherVector(trxs, indexisvalue) ELSE [r \in Procs |-> trxs[r].trx]
      sent == ByRank(LAMBDA r : LocalSpMV(A, r, acc[r]))
      merged(r) == IF ProcCols = 1 THEN sent[r][0]
                   ELSE IF nthreads = 0 THEN MergeContributions(FromRow(sent, r))
                   ELSE MergeContributions_threaded(FromRow(sent, r), LocLength(A.m, r), nthreads)
  IN Sparse(A.m, [r \in Procs |-> merged(r)])
Aliased(A, x) == [x EXCEPT !.glen = A.m]

\* Of a dense vector, with the results reduced to each rank of the row in turn.
DenseSpMV(A, x) ==
  LET trx == [r \in Procs |-> x.arr[GetComplementRank(r)]]
      numacc(r) == InColumn(r, trx)
      localy(r) == InSlots(Filled(LocalRows(A, r)),
                           gespmv(A, r, [k \in 1 .. Len(numacc(r)) |-> Pair(k - 1, numacc(r)[k])]))
      localys == [r \in Procs |-> localy(r)]
      begptr(r) == RowLenUntil(A.m, RankInProcCol(r), RankInProcRow(r))
      endptr(r) == IF RankInProcRow(r) = ProcCols - 1 THEN LocalRows(A, r) ELSE begptr(r + 1)
      reduced(r, i) == FoldSet(LAMBDA j, sum : Plus(sum, localys[GetRank(RankInProcCol(r), j)][begptr(r) + i]), 0, 0 .. ProcCols - 1)
  IN Dense(A.m, [r \in Procs |-> [i \in 1 .. endptr(r) - begptr(r) |-> reduced(r, i)]])

\* The older product sends by OwnerWithinRow, and adds in an array.
OldSpMV(A, x) ==
  LET acc == AllGatherVector(TransposeVector(x, FALSE), FALSE)
      y == [r \in Procs |-> gespmv(A, r, acc[r])]
      owner(r, e) == OwnerWithinRow(MyRowLength(A.m, RankInProcCol(r)), e.ind)
      sent == [r \in Procs |-> [i \in 0 .. ProcCols - 1 |->
                 LET mine == SelectSeq(y[r], LAMBDA e : owner(r, e).col = i)
                 IN [k \in 1 .. Len(mine) |-> Pair(owner(r, mine[k]).lind, mine[k].num)]]]
      recv == [r \in Procs |-> FlattenSeq(FromRow(sent, r))]
      localy(r) == FoldLeft(LAMBDA a, e : [a EXCEPT ![e.ind + 1] = Plus(@, e.num)], Filled(LocLength(A.m, r)), recv[r])
  IN Sparse(A.m, [r \in Procs |-> LET ys == localy(r) IN ByIndex(Inds(recv[r]), LAMBDA i : ys[i + 1])])
=============================================================================
