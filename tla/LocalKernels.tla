--------------------------------- MODULE LocalKernels ---------------------------------
(***************************************************************************)
(* The kernels a process runs on its own block: products of two matrices,  *)
(* products with a sparse or a dense vector, and the merging of lists of   *)
(* triples (Friends.h, SpHelper.h, mtSpGEMM.h, MultiwayMerge.h and         *)
(* SpImpl.cpp).  Each job has several of them, chosen by the type of the   *)
(* storage, by threading and by the buffers there are; they must agree.    *)
(*                                                                         *)
(* A vector is a list of [row, val] in increasing order of row.  A product *)
(* of values in said is what a filtering semiring rejects                  *)
(* (SR::returnedSAID): it leaves no entry.                                 *)
(***************************************************************************)
EXTENDS SpTuples

CONSTANT Threshold   \* THRESHOLD of CombBLAS.h: columns per column asked from which on a search pays

LOCAL INSTANCE SequencesExt
LOCAL INSTANCE FiniteSetsExt
LOCAL INSTANCE TLC

ASSUME ThresholdAssumption == Threshold \in Nat

-----------------------------------------------------------------------------
(* Work shared by threads. *)

\* A static schedule: of n iterations, from 1, the thread that has the i-th.
OwnerThread(i, n, nthreads) == (i - 1) \div CeilDiv(n, nthreads) + 1

\* Shares of n things that differ by one at most: where the b-th begins, from 0.
ShareStart(b, n, parts) == b * (n \div parts) + Min({n % parts, b})

\* Sums of the elements before: each thread sums its own, then all that the threads before have.
prefixsum(in, nthreads) ==
  LET mine(t) == SelectSeq([i \in DOMAIN in |-> i], LAMBDA i : OwnerThread(i, Len(in), nthreads) = t)
      total(idx) == FoldLeft(LAMBDA n, i : n + in[i], 0, idx)
      tsum(t) == total(mine(t))
  IN [k \in 1 .. Len(in) + 1 |->
        IF k = 1 THEN 0
        ELSE LET t == OwnerThread(k - 1, Len(in), nthreads)
             IN FoldLeft(LAMBDA n, q : n + tsum(q), 0, [q \in 1 .. t - 1 |-> q])
                  + total(SelectSeq(mine(t), LAMBDA i : i < k))]

-----------------------------------------------------------------------------
(* Merging. *)

\* Lists sorted by columns become one: a heap has the first entry left of each, the least is
\* taken, and added to the last one of the output if it is at the same place.
SerialMerge(lists) ==
  LET Take(st, n) ==
        LET left == {i \in DOMAIN lists : st.cur[i] <= Len(lists[i])}
            least == CHOOSE i \in left : \A j \in left : ~ ColBefore(lists[j][st.cur[j]], lists[i][st.cur[i]])
            e == lists[least][st.cur[least]]
        IN [cur |-> [st.cur EXCEPT ![least] = @ + 1],
            out |-> IF st.out # <<>> /\ SamePlace(Last(st.out), e)
                    THEN [st.out EXCEPT ![Len(st.out)].val = Plus(@, e.val)] ELSE Append(st.out, e)]
      total == FoldLeft(LAMBDA n, l : n + Len(l), 0, lists)
  IN FoldLeft(Take, [cur |-> [i \in DOMAIN lists |-> 1], out |-> <<>>], [n \in 1 .. total |-> n]).out

\* Only the number of places.
SerialMergeNNZ(lists) == Cardinality({<<e.row, e.col>> : e \in UNION {ToSet(lists[i]) : i \in DOMAIN lists}})

\* All entries are inserted into a heap first.
HeapSort(entries) == RemoveDuplicates(SortColBased(Tuples(0, 0, entries))).tuples

\* MergeAll: the heap has an entry of every list, so that none may be empty.
MergeAll(lists, m, n) ==
  IF lists = <<>> THEN Tuples(m, n, <<>>)
  ELSE IF \E i \in DOMAIN lists : lists[i].m # lists[1].m \/ lists[i].n # lists[1].n THEN Tuples(0, 0, <<>>)
  ELSE IF Len(lists) = 1 THEN lists[1]
  ELSE Tuples(lists[1].m, lists[1].n, SerialMerge([i \in DOMAIN lists |-> lists[i].tuples]))

\* MultiwayMerge: nsplits ranges of columns are merged on their own, into the places that
\* counting first has given them.
ColSplitters(t, nsplits) ==
  [i \in 0 .. nsplits |->
     IF i = nsplits THEN nnzOf(t)
     ELSE Cardinality({k \in DOMAIN t.tuples : t.tuples[k].col < i * (t.n \div nsplits)})]
MultiwayMerge(lists, m, n, nthreads) ==
  LET nsplits == Min({4 * nthreads, n})
      part(i) == [j \in DOMAIN lists |->
        SubSeq(lists[j].tuples, ColSplitters(lists[j], nsplits)[i - 1] + 1, ColSplitters(lists[j], nsplits)[i])]
      mdisp == prefixsum([i \in 1 .. nsplits |-> SerialMergeNNZ(part(i))], 1)
      at(k) == CHOOSE i \in 1 .. nsplits : mdisp[i] < k /\ k <= mdisp[i + 1]
  IN IF lists = <<>> THEN Tuples(m, n, <<>>)
     ELSE IF Len(lists) = 1 THEN lists[1]
     ELSE IF \E i \in DOMAIN lists : lists[i].m # m \/ lists[i].n # n THEN Tuples(0, 0, <<>>)
     ELSE Tuples(m, n, [k \in 1 .. mdisp[nsplits + 1] |-> SerialMerge(part(at(k)))[k - mdisp[at(k)]]])

-----------------------------------------------------------------------------
(* Products of two matrices. *)

\* The entries that the product of an entry with a value leaves.
Products(row, col, a, b, said) ==
  IF Times(a, b) \in said THEN <<>> ELSE <<[row |-> row, col |-> col, val |-> Times(a, b)]>>

\* The columns of A that colnums asks for; aux is NULL when a vector asks.
FillColInds(A, colnums, nA, withAux) ==
  IF ~ withAux \/ nzc(A) \div Len(colnums) < Threshold THEN FillColIndsByScan(A, colnums)
  ELSE FillColIndsByAux(A, colnums, ConstructAux(A, nA), ChunkSize(A, nA))

\* For the columns asked for, the products of their entries with vals, each a list for the
\* heap, to become entries of column col.
HeapLists(A, colinds, vals, col, said) ==
  [j \in DOMAIN colinds |-> FlattenSeq([k \in 1 .. colinds[j][2] - colinds[j][1] |->
     Products(A.ir[colinds[j][1] + k], col, A.numx[colinds[j][1] + k], vals[j], said)])]

\* Column by column of B.
ColumnProduct(A, c, nA, said) ==
  LET rows == [k \in DOMAIN c.ents |-> c.ents[k].row]
      vals == [k \in DOMAIN c.ents |-> c.ents[k].val]
  IN SerialMerge(HeapLists(A, FillColInds(A, rows, nA, TRUE), vals, c.col, said))
SpColByCol(A, B, nA, said) ==
  FlattenSeq([i \in 1 .. nzc(B) |-> ColumnProduct(A, Column(B, i - 1), nA, said)])

\* Outer products: the columns that A and the transposed B have in common, from each a list
\* of the products of their entries, those of B outside.
SpIntersect(A, Bt) == SelectSeq(AlignColumns(Columns(A), Columns(Bt)), InBoth)
SpCartesian(isect, said) ==
  SerialMerge([i \in DOMAIN isect |->
    LET a == isect[i].left[1].ents
        b == isect[i].right[1].ents
    IN FlattenSeq([k \in 1 .. Len(a) * Len(b) |->
         LET x == a[((k - 1) % Len(a)) + 1]
             y == b[(k - 1) \div Len(a) + 1]
         IN Products(x.row, y.row, x.val, y.val, said)])])

\* An object: dimensions, number of nonzeros and storage, null when there are none.
Object(m, n, d) == [m |-> m, n |-> n, nnz |-> nz(d), dcsc |-> IF nz(d) = 0 THEN NullDcsc ELSE d]
isZero(A) == A.nnz = 0

\* Transposition goes through triples sorted by rows.
TransposeConst(A) == Object(A.n, A.m, FromRowSorted(SortRowBased(FillTuples(A.dcsc, A.m, A.n))))

OrdColByCol(A, B, said) ==
  IF isZero(A) \/ isZero(B) THEN Object(A.m, B.n, NullDcsc)
  ELSE Object(A.m, B.n, FromStack(SpColByCol(A.dcsc, B.dcsc, A.n, said)))
OrdOutProdMult(A, B, said) ==
  IF isZero(A) \/ isZero(B) THEN Object(A.m, B.n, NullDcsc)
  ELSE Object(A.m, B.n, FromStack(SpCartesian(SpIntersect(A.dcsc, TransposeConst(B).dcsc), said)))

\* The results as triples, for SUMMA; B is transposed in the second.
Tuples_AnXBn(A, B, said) ==
  Tuples(A.m, B.n, IF isZero(A) \/ isZero(B) THEN <<>> ELSE SpColByCol(A.dcsc, B.dcsc, A.n, said))
Tuples_AnXBt(A, Bt, said) ==
  Tuples(A.m, Bt.m, IF isZero(A) \/ isZero(Bt) THEN <<>> ELSE SpCartesian(SpIntersect(A.dcsc, Bt.dcsc), said))

\* LocalSpGEMM: the columns of B are multiplied by threads, each into the places that
\* counting its rows first has given it.
estimateNNZ(A, B) ==
  [i \in 1 .. nzc(B.dcsc) |->
     SerialMergeNNZ(HeapLists(A.dcsc, FillColInds(A.dcsc, [k \in DOMAIN Column(B.dcsc, i - 1).ents |->
                                                             Column(B.dcsc, i - 1).ents[k].row], A.n, TRUE),
                              [k \in DOMAIN Column(B.dcsc, i - 1).ents |-> 0], 0, {}))]
LocalSpGEMM(A, B, numThreads) ==
  LET colptrC == prefixsum(estimateNNZ(A, B), numThreads)
      at(k) == CHOOSE i \in 1 .. nzc(B.dcsc) : colptrC[i] < k /\ k <= colptrC[i + 1]
  IN Tuples(A.m, B.n,
       IF isZero(A) \/ isZero(B) THEN <<>>
       ELSE [k \in 1 .. colptrC[nzc(B.dcsc) + 1] |->
               ColumnProduct(A.dcsc, Column(B.dcsc, at(k) - 1), A.n, {})[k - colptrC[at(k)]]])

-----------------------------------------------------------------------------
(* Products of a matrix and a vector. *)

\* A dense vector is added to; the threads have partial sums of their own.
Axpy(y, c, x) == FoldLeft(LAMBDA z, e : [z EXCEPT ![e.row + 1] = Plus(@, Times(e.val, x[c.col + 1]))], y, c.ents)
dcsc_gespmv(A, x, y) == FoldLeft(LAMBDA z, c : Axpy(z, c, x), y, Columns(A.dcsc))
dcsc_gespmv_threaded(A, x, y, nthreads) ==
  LET loc2merge(t) == FoldLeft(LAMBDA z, j : IF OwnerThread(j, nzc(A.dcsc), nthreads) = t
                                             THEN Axpy(z, Column(A.dcsc, j - 1), x) ELSE z,
                               [r \in DOMAIN y |-> 0], [j \in 1 .. nzc(A.dcsc) |-> j])
      tomerge == [t \in 1 .. nthreads |-> loc2merge(t)]
  IN [r \in DOMAIN y |-> FoldLeft(LAMBDA v, z : Plus(v, z[r]), y[r], tomerge)]

Inds(x) == [k \in DOMAIN x |-> x[k].row]
Vals(x) == [k \in DOMAIN x |-> x[k].val]
Entry(row, val) == [row |-> row, col |-> 0, val |-> val]

\* The heap of SpImpl::SpMXSpV, with multiplication before or after the entry is pushed.
SpMXSpV(A, x, said) ==
  SerialMerge(HeapLists(A, FillColInds(A, Inds(x), 0, FALSE), Vals(x), 0, said))

\* Logical matrices: an entry passes the value of the vector on.  The columns in common, from
\* a walk over both; their entries into a heap.
Passed(A, x) ==
  FlattenSeq([j \in DOMAIN x |-> LET r == FillColIndsByScan(A, Inds(x))[j]
                                 IN [k \in 1 .. r[2] - r[1] |-> Entry(A.ir[r[1] + k], x[j].val)]])
SpMXSpV_bool(A, x) == HeapSort(Passed(A, x))

\* With an accumulator of the length of the column: localy has the sums, isthere the rows
\* that were met, nzinds lists them.
NoRows(mA) == [localy |-> [r \in 0 .. mA - 1 |-> 0], isthere |-> {}, nzinds |-> <<>>]
Accumulate(spa, entries) ==
  FoldLeft(LAMBDA s, e :
             IF e.row \in s.isthere THEN [s EXCEPT !.localy[e.row] = Plus(@, e.val)]
             ELSE [localy |-> [s.localy EXCEPT ![e.row] = e.val],
                   isthere |-> s.isthere \cup {e.row}, nzinds |-> Append(s.nzinds, e.row)],
           spa, entries)
Sorted(s) == SortSeq(s, LAMBDA a, b : a < b)

\* The rows of a piece of the matrix, from offset on.
SpMXSpV_ForThreadingFromZero(A, mA, x, offset) ==
  LET spa == Accumulate(NoRows(mA), Passed(A, x))
      rows == Sorted(spa.nzinds)
  IN [k \in DOMAIN rows |-> Entry(rows[k], spa.localy[rows[k]])]
SpMXSpV_ForThreading(A, mA, x, offset) ==
  LET spa == Accumulate(NoRows(mA), Passed(A, x))
      rows == Sorted(spa.nzinds)
  IN [k \in DOMAIN rows |-> Entry(rows[k] + offset, spa.localy[rows[k]])]

\* Straight into the buffers of p_c receivers, with their local indices.
Recipient(row, perproc, p_c) == IF row \div perproc < p_c THEN row \div perproc ELSE p_c - 1
SpMXSpV_buffers(A, mA, x, p_c) ==
  LET spa == Accumulate(NoRows(mA), Passed(A, x))
      rows(p) == Sorted(SelectSeq(spa.nzinds, LAMBDA r : Recipient(r, mA \div p_c, p_c) = p))
  IN [p \in 0 .. p_c - 1 |->
        [k \in DOMAIN rows(p) |-> Entry(rows(p)[k] - (mA \div p_c) * p, spa.localy[rows(p)[k]])]]

\* Compressed columns: all products into a heap, or into buckets of rows.
CscProducts(csc, x) ==
  FlattenSeq([j \in DOMAIN x |->
    LET c == CscColumn(csc, x[j].row)
    IN [k \in DOMAIN c |-> Entry(c[k].row, Times(c[k].val, x[j].val))]])
SpMXSpV_HeapSort(csc, x) == HeapSort(CscProducts(csc, x))

\* Each of rowSplits tasks takes a share of the vector and deals its products out by rows;
\* then each bucket is accumulated and sorted, and the buckets are put one after the other.
SpMXSpV_Bucket(csc, mA, x, rowSplits) ==
  LET share(b) == SubSeq(x, ShareStart(b, Len(x), rowSplits) + 1, ShareStart(b + 1, Len(x), rowSplits))
      rowPerSplit == mA \div rowSplits
      splitId(row) == IF rowPerSplit = 0 THEN rowSplits - 1 ELSE Recipient(row, rowPerSplit, rowSplits)
      bucket(rs) == FlattenSeq([b \in 1 .. rowSplits |->
                      SelectSeq(CscProducts(csc, share(b - 1)), LAMBDA e : splitId(e.row) = rs)])
  IN FlattenSeq([i \in 1 .. rowSplits |->
       LET spa == Accumulate(NoRows(mA), bucket(i - 1))
           rows == Sorted(spa.nzinds)
       IN [k \in DOMAIN rows |-> Entry(rows[k], spa.localy[rows[k]])]])

-----------------------------------------------------------------------------
(* Matrices split by rows, and the send buffers threads fill together. *)

\* The pieces as logical matrices; none may be empty.
BooleanRowSplit(A, numsplits) ==
  LET perpiece == A.m \div numsplits
      all == FillTuples(A.dcsc, A.m, A.n).tuples
      mine(i) == SelectSeq(all, LAMBDA e : Recipient(e.row, perpiece, numsplits) = i)
  IN [i \in 0 .. numsplits - 1 |->
        FromStack([k \in DOMAIN mine(i) |-> [row |-> mine(i)[k].row - i * perpiece, col |-> mine(i)[k].col,
                                             val |-> 1 % ElementRange]])]

\* What the threads compute, in order of the pieces.
PieceOutputs(A, x, splits) ==
  LET perpiece == A.m \div splits
      rows(i) == IF i # splits - 1 THEN perpiece ELSE A.m - perpiece * i
  IN [i \in 0 .. splits - 1 |-> SpMXSpV_ForThreading(BooleanRowSplit(A, splits)[i], rows(i), x, i * perpiece)]

accum(outs, i) == FoldLeft(LAMBDA n, k : n + Len(outs[k]), 0, [k \in 1 .. i |-> k - 1])

\* The first receiver that the last piece before with entries has not met.
EndRec(out, perproc, p_c) == Recipient(out[Len(out)].row, perproc, p_c)
Latest(before) == CHOOSE k \in before : \A l \in before : l <= k
FirstNewSameReceiver(outs, before, perproc, p_c) == EndRec(outs[Latest(before)], perproc, p_c)
FirstNew(outs, before, perproc, p_c) == EndRec(outs[Latest(before)], perproc, p_c) + 1

\* The displacements sdispls that the thread of piece i sets: up to its first receiver for
\* the pieces before, for every receiver it changes to, and the rest if it is the last.
Marks(outs, i, perproc, p_c) ==
  LET out == outs[i]
      rec(k) == Recipient(out[k].row, perproc, p_c)
      end_rec == EndRec(out, perproc, p_c)
      head(p) == CHOOSE k \in DOMAIN out : rec(k) >= p /\ \A l \in 1 .. k - 1 : rec(l) < p
      before == {k \in DOMAIN outs : k < i /\ outs[k] # <<>>}
  IN IF out = <<>> THEN {}
     ELSE (IF before = {} THEN {}
           ELSE {<<p, accum(outs, i)>> : p \in FirstNew(outs, before, perproc, p_c) .. rec(1)})
          \cup {<<p, accum(outs, i) + head(p) - 1>> : p \in rec(1) + 1 .. end_rec}
          \cup (IF \E k \in DOMAIN outs : k > i /\ outs[k] # <<>> THEN {}
                ELSE {<<p, accum(outs, i + 1)>> : p \in end_rec + 1 .. p_c - 1})

\* One buffer, the entries in order with the indices of their receivers, and where those of
\* each receiver begin.
generic_gespmv_threaded(A, x, splits, p_c) ==
  LET perproc == A.m \div p_c
      outs == IF isZero(A) \/ x = <<>> THEN [i \in 0 .. splits - 1 |-> <<>>] ELSE PieceOutputs(A, x, splits)
      all == FlattenSeq([i \in 1 .. splits |-> outs[i - 1]])
      marks == UNION {Marks(outs, i, perproc, p_c) : i \in DOMAIN outs}
  IN [sendbuf |-> [k \in DOMAIN all |->
        Entry(all[k].row - perproc * Recipient(all[k].row, perproc, p_c), all[k].val)],
      sdispls |-> [p \in 0 .. p_c - 1 |-> IF \E d \in marks : d[1] = p THEN (CHOOSE d \in marks : d[1] = p)[2] ELSE 0]]

\* With preset buffers, one for each receiver: a thread writes after what the pieces before
\* have for its first receiver; for the receivers it changes to it is the first.
generic_gespmv_threaded_setbuffers(A, x, splits, p_c) ==
  LET perproc == A.m \div p_c
      outs == IF isZero(A) \/ x = <<>> THEN [i \in 0 .. splits - 1 |-> <<>>] ELSE PieceOutputs(A, x, splits)
      mine(i, p) == SelectSeq(outs[i], LAMBDA e : Recipient(e.row, perproc, p_c) = p)
      loc_rec_cnts(i, p) == Len(mine(i, p))
      alreadysent(i, p) == IF p # Recipient(outs[i][1].row, perproc, p_c) THEN 0
                           ELSE FoldLeft(LAMBDA n, k : n + loc_rec_cnts(k, p), 0, [k \in 1 .. i |-> k - 1])
      writer(p, k) == CHOOSE i \in {j \in DOMAIN outs : mine(j, p) # <<>>} : k - alreadysent(i, p) \in DOMAIN mine(i, p)
      cnts(p) == FoldLeft(LAMBDA n, k : n + loc_rec_cnts(k, p), 0, [k \in 1 .. splits |-> k - 1])
  IN [p \in 0 .. p_c - 1 |-> [k \in 1 .. cnts(p) |->
        LET e == mine(writer(p, k), p)[k - alreadysent(writer(p, k), p)] IN Entry(e.row - perproc * p, e.val)]]
=============================================================================
