---------------------------------- MODULE DistSpMat ----------------------------------
(***************************************************************************)
(* The collective operations of SpParMat: what they leave in the block of  *)
(* each process.  A matrix is [m, n, blk], blk[r] being the set of entries *)
(* of rank r at local indices; the storage of a block is in SpDCCols, its  *)
(* products in LocalKernels.                                               *)
(*                                                                         *)
(* As in DistVectors an operation is a function from what all ranks have   *)
(* to what all ranks have then, and values are modulo ElementRange.        *)
(***************************************************************************)
EXTENDS DistSpMV

Matrix(m, n, blk) == [m |-> m, n |-> n, blk |-> blk]
Entry(row, col, val) == [row |-> row, col |-> col, val |-> val]

LocalCols(A, r) == LocCols(A.n, RankInProcRow(r))
RowStart(A, r) == RowOffset(A.m, RankInProcCol(r))
ColStart(A, r) == ColOffset(A.n, RankInProcRow(r))

InRow(r, j) == GetRank(RankInProcCol(r), j)   \* ranks of the process row and column of r
InCol(r, i) == GetRank(i, RankInProcRow(r))
AlongRow(r, lists(_)) == FlattenSeq([j \in 1 .. ProcCols |-> lists(InRow(r, j - 1))])
AlongCol(r, lists(_)) == FlattenSeq([i \in 1 .. ProcRows |-> lists(InCol(r, i - 1))])

InColumnOf(E, col) == {e \in E : e.col = col}
Turned(E) == {Entry(e.col, e.row, e.val) : e \in E}

\* The entries of a set in order of a number that differs between them.
Listed(E, key(_)) ==
  LET keys == InOrder({key(e) : e \in E}) IN [k \in 1 .. Len(keys) |-> CHOOSE e \in E : key(e) = keys[k]]

-----------------------------------------------------------------------------
(* From triples, and back. *)

\* Items for the same place are summed, or the largest is kept.
RemoveDuplicates(items, sum) ==
  LET places == {<<items[k].row, items[k].col>> : k \in DOMAIN items}
      here(p) == {k \in DOMAIN items : <<items[k].row, items[k].col>> = p}
  IN {Entry(p[1], p[2], IF sum THEN PlusTimes(here(p), LAMBDA k : items[k].val)
                        ELSE Max({items[k].val : k \in here(p)})) : p \in places}
SparseCommonBlocks(data, total_m, total_n, sum) ==
  LET recvdata == Alltoallv(data)
  IN Matrix(total_m, total_n, ByRank(LAMBDA r : RemoveDuplicates(recvdata[r], sum)))
FromTriples(total_m, total_n, distrows, distcols, vals(_, _), SumDuplicates) ==
  LET item(r, i) == LET own == BlockOwner(total_m, total_n, distrows.arr[r][i], distcols.arr[r][i])
                    IN [to |-> own.rank, row |-> own.lrow, col |-> own.lcol, val |-> vals(r, i)]
  IN SparseCommonBlocks([r \in Procs |-> [i \in 1 .. Len(distrows.arr[r]) |-> item(r, i)]],
                        total_m, total_n, SumDuplicates)
Ones(total_m, total_n, distrows, distcols) ==
  FromTriples(total_m, total_n, distrows, distcols, LAMBDA r, i : 1, FALSE)

\* The entries of every rank, by columns, spread evenly as three vectors.
FindTriples(A) ==
  LET tuples == ByRank(LAMBDA r : Listed(A.blk[r], LAMBDA e : e.col * A.m + e.row))
      roffset(r) == FoldSet(LAMBDA i, sum : sum + LocalRows(A, InCol(r, i)), 0, 0 .. RankInProcCol(r) - 1)
      coffset(r) == FoldSet(LAMBDA j, sum : sum + LocalCols(A, InRow(r, j)), 0, 0 .. RankInProcRow(r) - 1)
      each(f(_, _)) == Rebalanced(ByRank(LAMBDA r : [k \in 1 .. Len(tuples[r]) |-> f(r, tuples[r][k])]))
  IN <<each(LAMBDA r, e : e.row + roffset(r)), each(LAMBDA r, e : e.col + coffset(r)), each(LAMBDA r, e : e.val)>>

\* On one side of the diagonal the other side's block, turned.
TransposeBlocks(A) == Matrix(A.n, A.m, ByRank(LAMBDA r : Turned(A.blk[GetComplementRank(r)])))

-----------------------------------------------------------------------------
(* Files.  A line, or a record of a binary file, is <<row, column, value>>. *)

\* The head of each process row gathers and writes one row after the other; the other ranks
\* take the width of its block for that of the blocks before theirs.
SaveGatheredBlocks(A, transpose) ==
  LET csr(r, j) == Listed({e \in A.blk[r] : e.row = j}, LAMBDA e : e.col)
      noffset(r) == RankInProcRow(r) * LocalCols(A, InRow(r, 0))
      line(r, e) == LET row == e.row + RowStart(A, r)
                        col == e.col + noffset(r)
                    IN IF transpose THEN <<col, row, e.val>> ELSE <<row, col, e.val>>
      lines(head, j) == AlongRow(head, LAMBDA r : [k \in 1 .. Len(csr(r, j)) |-> line(r, csr(r, j)[k])])
  IN FlattenSeq([i \in 1 .. ProcRows |->
       LET head == GetRank(i - 1, 0) IN FlattenSeq([j \in 1 .. LocalRows(A, head) |-> lines(head, j - 1)])])

\* What a reader makes of a line: the entry, and the row and column of the grid that it is for.
ReadLine(total_m, total_n, l, transpose) ==
  LET row == IF transpose THEN l[2] ELSE l[1]
      col == IF transpose THEN l[1] ELSE l[2]
  IN Entry(row, col, l[3]) @@ [colrec |-> Min({row \div (total_m \div ProcRows), ProcRows - 1}),
                               rowrec |-> Min({col \div (total_n \div ProcCols), ProcCols - 1})]

\* It keeps a buffer for each process of its column and sends all of them when one is full and
\* after its last line.
ReadAllMine(items, buffpercolneigh) ==
  LET read(st, k) ==
        LET data == Append(st.data, items[k])
            full == Len(SelectSeq(data, LAMBDA l : l.colrec = items[k].colrec)) = buffpercolneigh
        IN IF full \/ k = Len(items) THEN [sent |-> Append(st.sent, data), data |-> <<>>] ELSE [st EXCEPT !.data = data]
  IN FoldLeft(read, [sent |-> <<>>, data |-> <<>>], [k \in 1 .. Len(items) |-> k]).sent

\* The t-th batches of the readers, as the process in row i of the grid gets them.
VerticalSend(sent, t, i) ==
  SelectSeq(FlattenSeq([k \in DOMAIN sent |-> IF t <= Len(sent[k]) THEN sent[k][t] ELSE <<>>]), LAMBDA l : l.colrec = i)
\* They go to buffers for the processes of its row; what was past the end of one would be lost.
HorizontalSend(items, buffperrowneigh, j) ==
  LET buffer == SelectSeq(items, LAMBDA l : l.rowrec = j) IN SubSeq(buffer, 1, Min({Len(buffer), buffperrowneigh}))

\* The master reads, or with pario all processes of its column read a share each of a binary
\* file, and send at the same time.  memory is what fits in the buffers together.
ReadDistributeBlocks(total_m, total_n, lines, memory, pario, transpose) ==
  LET buffpercolneigh == IF pario THEN (memory \div ProcRows) \div ProcRows ELSE memory \div ProcRows
      buffperrowneigh == Max({memory \div ProcCols, buffpercolneigh})
      items == [k \in 1 .. Len(lines) |-> ReadLine(total_m, total_n, lines[k], transpose)]
      share(i) == LET before == PartStart(Len(lines), ProcRows, i)
                  IN SubSeq(items, before + 1, before + PartLength(Len(lines), ProcRows, i))
      sent == IF pario THEN [i \in 1 .. ProcRows |-> ReadAllMine(share(i - 1), buffpercolneigh)]
              ELSE <<ReadAllMine(items, buffpercolneigh)>>
      rounds == Max({0} \cup {Len(sent[i]) : i \in DOMAIN sent})
      received(r) == FlattenSeq([t \in 1 .. rounds |->
                       HorizontalSend(VerticalSend(sent, t, RankInProcCol(r)), buffperrowneigh, RankInProcRow(r))])
      moffset(r) == RankInProcCol(r) * (total_m \div ProcRows)
      noffset(r) == RankInProcRow(r) * (total_n \div ProcCols)
  IN Matrix(total_m, total_n,
            ByRank(LAMBDA r : {Entry(l.row - moffset(r), l.col - noffset(r), l.val) : l \in ToSet(received(r))}))
\* The readers must be able to tell whose line one is, and none be without lines.
Readable(total_m, total_n, lines, memory, pario) ==
  /\ total_m >= ProcRows /\ total_n >= ProcCols
  /\ memory >= (IF pario THEN ProcRows * ProcRows ELSE ProcRows)
  /\ pario => Len(lines) >= ProcRows

-----------------------------------------------------------------------------
(* Columns: a value for each, computed in its process column.  A process column cuts its columns *)
(* for its ranks, each part is reduced to one of them and goes to the other side of the diagonal. *)

ByColumn(A, value(_, _)) ==
  LET trarr(r) == LET start == PartStart(LocalCols(A, r), ProcRows, RankInProcCol(r))
                  IN [k \in 1 .. PartLength(LocalCols(A, r), ProcRows, RankInProcCol(r)) |-> value(r, start + k - 1)]
  IN Dense(A.n, ByRank(LAMBDA r : trarr(GetComplementRank(r))))
\* The values that a column has in the blocks of the process column of r, with who has them.
ColumnOf(A, r, col) ==
  UNION {{<<i, e.row, e.val>> : e \in InColumnOf(A.blk[InCol(r, i)], col)} : i \in 0 .. ProcRows - 1}

\* The sum of the squares in each column, of the rows that mask has an index for or of the others.
MaskedReduce(A, mask, exclude) ==
  LET indMask == ByRank(LAMBDA r : ToSet(AlongRow(r, LAMBDA q : [k \in 1 .. Len(mask.loc[q]) |->
                   mask.loc[q][k].ind + RowLenUntil(mask.glen, RankInProcCol(q), RankInProcRow(q))])))
      counted(r, col) == {x \in ColumnOf(A, r, col) : (x[2] \in indMask[InCol(r, x[1])]) = ~ exclude}
  IN ByColumn(A, LAMBDA r, col : PlusTimes(counted(r, col), LAMBDA x : x[3] * x[3]))

\* From each column the values that are not less than pvals has for it are removed.
PruneBelow(A, bound(_, _)) ==
  Matrix(A.m, A.n, ByRank(LAMBDA r : {e \in A.blk[r] : e.val < bound(r, e.col)}))
PruneColumn(A, pvals) ==
  LET numacc == ByRank(LAMBDA r : AlongCol(r, LAMBDA q : pvals.arr[GetComplementRank(q)]))
  IN PruneBelow(A, LAMBDA r, col : numacc[r][col + 1])

\* Only in the columns that a sparse vector lists; a pass over the columns of the block goes on
\* in the list when it meets a column of it.
ListedColumns(pvals) ==
  ByRank(LAMBDA r : AlongCol(r, LAMBDA q :
    LET roffset == RowLenUntil(pvals.glen, RankInProcCol(GetComplementRank(q)), RankInProcRow(GetComplementRank(q)))
        list == pvals.loc[GetComplementRank(q)]
    IN [k \in 1 .. Len(list) |-> [list[k] EXCEPT !.ind = @ + roffset]]))
MetInPass(A, r, list) ==
  {c \in Inds(list) : \A d \in Inds(list) : d <= c => InColumnOf(A.blk[r], d) # {}}
PruneListedColumns(A, pvals) ==
  LET acc == ListedColumns(pvals)
      met == ByRank(LAMBDA r : MetInPass(A, r, acc[r]))
  IN PruneBelow(A, LAMBDA r, col : IF col \in met[r] THEN ValueAt(acc[r], col) ELSE ElementRange)
\* No column of the list is absent from a block that has a later one.
EveryListedMet(A, pvals) ==
  LET acc == ListedColumns(pvals)
  IN \A r \in Procs : \A c \in Inds(acc[r]) : InColumnOf(A.blk[r], c) # {} => c \in MetInPass(A, r, acc[r])

-----------------------------------------------------------------------------
(* The k-th largest value of each column. *)

Largest(list, k) == LET sorted == SortSeq(list, LAMBDA a, b : a > b) IN SubSeq(sorted, 1, Min({k, Len(sorted)}))

\* The k largest of a column in each block are merged in pairs of process rows, p apart in round p,
\* until the first has them all.
TopInFirst(A, c, col, k) ==
  LET local(i) == Largest([x \in 1 .. Cardinality(InColumnOf(A.blk[GetRank(i, c)], col)) |->
                             Listed(InColumnOf(A.blk[GetRank(i, c)], col), LAMBDA e : e.row)[x].val], k)
      round(lists, s) ==
        LET p == 2 ^ s
        IN [i \in 0 .. ProcRows - 1 |-> IF i % p = 0 /\ i + p \div 2 < ProcRows
                                        THEN Largest(lists[i] \o lists[i + p \div 2], k) ELSE lists[i]]
      rounds == SelectSeq([s \in 1 .. ProcRows |-> s], LAMBDA s : 2 ^ s <= ProcRows)
  IN FoldLeft(round, [i \in 0 .. ProcRows - 1 |-> local(i)], rounds)[0]

\* For every column: none if it has fewer.  The first process row has the answers, P(c,c) gets
\* those of process column c and deals them out along its row.  A k above every
\* column's count is answered by a reduction to the minimum with identity zero.
Kselect1(A, k) ==
  LET nnzPerColumn == ByColumn(A, LAMBDA r, col : Cardinality(ColumnOf(A, r, col)))
      maxnnzPerColumn == Max({0} \cup UNION {ToSet(nnzPerColumn.arr[r]) : r \in Procs})
      kthItem(c, col) == LET top == TopInFirst(A, c, col, k) IN IF Len(top) >= k THEN top[k] ELSE NT
      cut(i, j) == [x \in 1 .. PartLength(LocCols(A.n, i), ProcCols, j) |->
                      kthItem(i, PartStart(LocCols(A.n, i), ProcCols, j) + x - 1)]
  IN IF k > maxnnzPerColumn
     THEN <<FALSE, ByColumn(A, LAMBDA r, col : Min({0} \cup {x[3] : x \in ColumnOf(A, r, col)}))>>
     ELSE <<TRUE, Dense(A.n, ByRank(LAMBDA r : cut(RankInProcCol(r), RankInProcRow(r))))>>

\* For the columns that a sparse vector has values for, which are replaced: the smallest value of a
\* column that has fewer.  The ranks of a row take from P(c,c) as many as they have.
KselectListed(A, x, k) ==
  LET trxs == TransposeVector(x, TRUE)
      active == IF ProcRows > 1 THEN AllGatherVector(trxs, TRUE) ELSE [r \in Procs |-> trxs[r].trx]
      item(c, col) == LET top == TopInFirst(A, c, col, k) IN IF top = <<>> THEN NT ELSE top[Len(top)]
      kthItem == [c \in 0 .. ProcRows - 1 |->
                    [a \in 1 .. Len(active[GetRank(0, c)]) |-> item(c, active[GetRank(0, c)][a].ind)]]
      dpls(r) == FoldSet(LAMBDA j, sum : sum + Len(x.loc[InRow(r, j)]), 0, 0 .. RankInProcRow(r) - 1)
  IN Sparse(x.glen, ByRank(LAMBDA r : [a \in 1 .. Len(x.loc[r]) |->
                                         [x.loc[r][a] EXCEPT !.num = kthItem[RankInProcCol(r)][dpls(r) + a]]]))

-----------------------------------------------------------------------------
(* The diagonal of a square matrix, whose blocks P(i,i) hold all of it. *)

OnDiagonal(r) == RankInProcCol(r) = RankInProcRow(r)
\* The process of the row that has the diagonal gathers the values of the row.
AddLoops(A, loopvals, replaceExisting) ==
  LET rowvals(r) == AlongRow(r, LAMBDA q : loopvals.arr[q])
      loops(r) == {Entry(i - 1, i - 1, rowvals(r)[i]) : i \in 1 .. LocalRows(A, r)}
      has(E, i) == \E e \in E : e.row = i /\ e.col = i
      with(r) == LET E == A.blk[r] IN
                 IF replaceExisting THEN {e \in E : e.row # e.col} \cup loops(r)
                 ELSE E \cup {l \in loops(r) : ~ has(E, l.row)}
  IN Matrix(A.m, A.n, ByRank(LAMBDA r : IF OnDiagonal(r) THEN with(r) ELSE A.blk[r]))
AddLoop(A, loopval, replaceExisting) ==
  AddLoops(A, Dense(A.n, [r \in Procs |-> [i \in 1 .. LocLength(A.n, r) |-> loopval]]), replaceExisting)
\* The matrix without its loops, and how many it had.
RemoveLoops(A) ==
  LET loops(r) == IF OnDiagonal(r) THEN {e \in A.blk[r] : e.row = e.col} ELSE {}
  IN <<Matrix(A.m, A.n, ByRank(LAMBDA r : A.blk[r] \ loops(r))), OverRanks(LAMBDA r : Cardinality(loops(r)))>>

\* How far above the diagonal a column begins, at most; and the sum over the columns, one that does
\* not begin at or above it counting as one.
FirstRow(A, r, col) == Min({e.row : e \in InColumnOf(A.blk[r], col)}) + RowStart(A, r)
ColumnsAbove(A, r) ==
  {c \in {e.col : e \in A.blk[r]} : FirstRow(A, r, c) <= c + ColStart(A, r)}
Bandwidth(A) ==
  Max({-1} \cup UNION {{c + ColStart(A, r) - FirstRow(A, r, c) : c \in ColumnsAbove(A, r)} : r \in Procs})
Profile(A) ==
  LET firstRow(j, c) == Min({A.m} \cup {FirstRow(A, GetRank(i, j), c) :
                                          i \in {k \in 0 .. ProcRows - 1 : c \in ColumnsAbove(A, GetRank(k, j))}})
      width(j, c) == IF firstRow(j, c) = A.m THEN 1 ELSE c + ColOffset(A.n, j) - firstRow(j, c)
      profile(j) == FoldSet(LAMBDA c, sum : sum + width(j, c), 0, 0 .. LocCols(A.n, j) - 1)
  IN FoldSet(LAMBDA j, sum : sum + profile(j), 0, 0 .. ProcCols - 1)

-----------------------------------------------------------------------------
(* Products.  In stage i the i-th ranks of a row and of a column broadcast a piece of their blocks. *)

Terms(E, F, key) ==
  UNION {{[key |-> <<key, e.col>>, row |-> e.row, col |-> f.col, val |-> e.val * f.val] : f \in {g \in F : g.row = e.col}} : e \in E}
MergeAll(terms) ==
  {Entry(p[1], p[2], PlusTimes({t \in terms : t.row = p[1] /\ t.col = p[2]}, LAMBDA t : t.val)) :
     p \in {<<t.row, t.col>> : t \in terms}}
Staged(A, B, rounds, pieceA(_, _), pieceB(_, _)) ==
  LET terms(r) == UNION {Terms(pieceA(InRow(r, i), h), pieceB(InCol(r, i), h), <<h, i>>) :
                           i \in 0 .. ProcCols - 1, h \in 1 .. rounds}
  IN Matrix(A.m, B.n, ByRank(LAMBDA r : MergeAll(terms(r))))

\* The blocks of A are split by columns and those of B by rows; the second pieces follow when
\* all the first have been multiplied.
SplitColumns(E, cut, h) ==
  IF h = 1 THEN {e \in E : e.col < cut} ELSE {[e EXCEPT !.col = @ - cut] : e \in {f \in E : f.col >= cut}}
Mult_AnXBn_DoubleBuff(A, B) ==
  Staged(A, B, 2, LAMBDA r, h : SplitColumns(A.blk[r], LocalCols(A, r) \div 2, h),
                  LAMBDA r, h : Turned(SplitColumns(Turned(B.blk[r]), LocalRows(B, r) \div 2, h)))
\* A block that is one column wide is not split but lost.
Splittable(inner) == \A i \in 0 .. ProcCols - 1 : LocCols(inner, i) # 1

\* With itself, in one round of whole blocks.
Square(A) == Staged(A, A, 1, LAMBDA r, h : A.blk[r], LAMBDA r, h : A.blk[r])

-----------------------------------------------------------------------------
(* Indexing and assignment, by products with matrices of ones that have v[i] in row i. *)

IndexMatrix(total, v) ==
  LET perproccol == total \div ProcCols
      rowrec(ind) == IF perproccol # 0 THEN Min({ind \div perproccol, ProcCols - 1}) ELSE ProcCols - 1
      roffset(r) == RowLenUntil(v.glen, RankInProcCol(r), RankInProcRow(r))
      item(r, i) == LET ind == v.arr[r][i]
                    IN [to |-> InRow(r, rowrec(ind)), row |-> i - 1 + roffset(r), col |-> ind - rowrec(ind) * perproccol]
      recv == Alltoallv([r \in Procs |-> [i \in 1 .. Len(v.arr[r]) |-> item(r, i)]])
  IN Matrix(v.glen, total, ByRank(LAMBDA r : {Entry(t.row, t.col, 1) : t \in ToSet(recv[r])}))

\* Rows ri and columns ci; the same vector serves for both with one matrix.
SubsRef_SR(A, ri, ci, same) ==
  LET P == IndexMatrix(A.m, ri)
      Q == TransposeBlocks(IF same THEN P ELSE IndexMatrix(A.n, ci))
  IN Mult_AnXBn_DoubleBuff(Mult_AnXBn_DoubleBuff(P, A), Q)

\* Without the rows ri of the columns ci.
Prune(A, ri, ci) ==
  LET S == Ones(A.m, A.m, ri, ri)
      T == Ones(A.n, A.n, ci, ci)
      SAT == Mult_AnXBn_DoubleBuff(Mult_AnXBn_DoubleBuff(S, A), T)
      places(r) == {<<e.row, e.col>> : e \in SAT.blk[r]}
  IN Matrix(A.m, A.n, ByRank(LAMBDA r : {e \in A.blk[r] : <<e.row, e.col>> \notin places(r)}))

\* Each block takes over the entries of the other, values for the same place added.
AddBlocks(A, B) ==
  LET places(E) == {<<e.row, e.col>> : e \in E}
      at(E, p) == {e \in E : e.row = p[1] /\ e.col = p[2]}
      sum(r, p) == PlusTimes(({1} \X at(A.blk[r], p)) \cup ({2} \X at(B.blk[r], p)), LAMBDA x : x[2].val)
  IN Matrix(A.m, A.n, ByRank(LAMBDA r : {Entry(p[1], p[2], sum(r, p)) : p \in places(A.blk[r]) \cup places(B.blk[r])}))

\* The rows ri of the columns ci become B.
SpAsgn(A, ri, ci, B) ==
  LET R == Ones(A.m, B.m, ri, Iota(B.m, 0))
      Q == Ones(B.n, A.n, Iota(B.n, 0), ci)
      RBQ == Mult_AnXBn_DoubleBuff(Mult_AnXBn_DoubleBuff(R, B), Q)
  IN AddBlocks(Prune(A, ri, ci), RBQ)
=============================================================================
