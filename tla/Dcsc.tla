------------------------------------- MODULE Dcsc -------------------------------------
(***************************************************************************)
(* Dcsc, the storage of a block of a sparse matrix: jc lists the columns   *)
(* that have nonzeros, cp where the nonzeros of each begin in ir (rows)    *)
(* and numx (values), and has one entry more that holds their number.      *)
(* Indices and pointers are those of the code, from 0; the sequences that  *)
(* hold them start at 1, as all do.  Values are residues modulo            *)
(* ElementRange with their sum and product: a semiring like any other the  *)
(* templates are used with, in which nonzero entries can sum to zero.      *)
(*                                                                         *)
(* The operations walk over sorted columns and rows with cursors, and      *)
(* merge or filter as they go: a column out of order, a pointer that is    *)
(* one off or a cursor that does not move breaks every later operation.    *)
(***************************************************************************)
EXTENDS Integers, Sequences, FiniteSets, SinglePrecision

CONSTANT ElementRange

LOCAL INSTANCE SequencesExt
LOCAL INSTANCE FiniteSetsExt
LOCAL INSTANCE TLC

ASSUME ElementRangeAssumption == ElementRange \in Nat \ {0}

Values == 0 .. ElementRange - 1
Plus(a, b) == (a + b) % ElementRange
Times(a, b) == (a * b) % ElementRange

\* No nonzeros: the null pointer, or arrays that were deleted.
NullDcsc == [cp |-> <<0>>, jc |-> <<>>, ir |-> <<>>, numx |-> <<>>]

nzc(d) == Len(d.jc)
nz(d) == Len(d.ir)

\* The i-th nonempty column, from 0: its index and its nonzeros.
Column(d, i) ==
  [col |-> d.jc[i + 1],
   ents |-> [k \in 1 .. d.cp[i + 2] - d.cp[i + 1] |->
               [row |-> d.ir[d.cp[i + 1] + k], val |-> d.numx[d.cp[i + 1] + k]]]]
Columns(d) == [i \in 1 .. nzc(d) |-> Column(d, i - 1)]

\* The arrays that hold columns one after the other.
Assemble(cols) ==
  LET all == FlattenSeq([i \in DOMAIN cols |-> cols[i].ents]) IN
  [jc |-> [i \in DOMAIN cols |-> cols[i].col],
   cp |-> [i \in 1 .. Len(cols) + 1 |-> FoldLeft(LAMBDA n, c : n + Len(c.ents), 0, SubSeq(cols, 1, i - 1))],
   ir |-> [k \in DOMAIN all |-> all[k].row],
   numx |-> [k \in DOMAIN all |-> all[k].val]]

\* Loops that write a column's pointer only if it got a nonzero.
AssembleNonempty(cols) == Assemble(SelectSeq(cols, LAMBDA c : c.ents # <<>>))

\* A walk over two sequences in increasing order of key: what only the one has, what only
\* the other has, and what both have.
LOCAL Align(s, t, key(_)) ==
  LET f[i \in 1 .. Len(s) + 1, j \in 1 .. Len(t) + 1] ==
        IF i > Len(s) /\ j > Len(t) THEN <<>>
        ELSE IF j > Len(t) \/ (i <= Len(s) /\ key(s[i]) < key(t[j]))
        THEN <<[left |-> <<s[i]>>, right |-> <<>>]>> \o f[i + 1, j]
        ELSE IF i > Len(s) \/ key(s[i]) > key(t[j])
        THEN <<[left |-> <<>>, right |-> <<t[j]>>]>> \o f[i, j + 1]
        ELSE <<[left |-> <<s[i]>>, right |-> <<t[j]>>]>> \o f[i + 1, j + 1]
  IN f[1, 1]
AlignColumns(s, t) == Align(s, t, LAMBDA c : c.col)
AlignEntries(s, t) == Align(s, t, LAMBDA e : e.row)

InBoth(pair) == pair.left # <<>> /\ pair.right # <<>>
Either(pair) == Head(pair.left \o pair.right)

\* What a walk with the same treatment of every column makes of the entries: put(pair) is
\* the sequence of entries, none or one, that a row of both operands leaves.
LOCAL Walk(s, t, put(_)) ==
  LET pairs == AlignColumns(s, t)
      ents(side) == IF side = <<>> THEN <<>> ELSE side[1].ents
  IN [i \in DOMAIN pairs |->
        LET rows == AlignEntries(ents(pairs[i].left), ents(pairs[i].right)) IN
        [col |-> Either(pairs[i]).col, both |-> InBoth(pairs[i]), left |-> pairs[i].left # <<>>,
         ents |-> FlattenSeq([k \in DOMAIN rows |-> put(rows[k])])]]

-----------------------------------------------------------------------------
(* Construction. *)

\* A stack is what a heap multiplication leaves: entries [col, row, val], by columns.
\* Consecutive entries of a column are a column.
RunsOf(stack) ==
  FoldLeft(LAMBDA cols, e :
             IF cols # <<>> /\ Last(cols).col = e.col
             THEN [cols EXCEPT ![Len(cols)].ents = Append(@, [row |-> e.row, val |-> e.val])]
             ELSE Append(cols, [col |-> e.col, ents |-> <<[row |-> e.row, val |-> e.val]>>]),
           <<>>, stack)
FromStack(stack) == Assemble(RunsOf(stack))

\* The selection matrices of indexing: ones, at the indices.
FromIndices(indices, isRow) ==
  LET n == Len(indices)
      counted == [i \in 1 .. n |-> i - 1]
  IN [cp |-> [i \in 1 .. n + 1 |-> i - 1],
      jc |-> IF isRow THEN indices ELSE counted,
      ir |-> IF isRow THEN counted ELSE indices,
      numx |-> [i \in 1 .. n |-> 1 % ElementRange]]

\* Conversion to another value type, cast being a function of the values.
Converted(d, cast) == [d EXCEPT !.numx = [k \in DOMAIN d.numx |-> cast[d.numx[k]]]]

\* operator+= and AddAndAssign: an entry that both have is the sum, which may be zero.
LOCAL SumOfColumns(s, t) ==
  Walk(s, t, LAMBDA p : <<[Either(p) EXCEPT !.val = IF InBoth(p) THEN Plus(p.left[1].val, p.right[1].val) ELSE @]>>)
AddAssignKeepsLeft(d, rhs) ==
  Assemble(Walk(Columns(d), Columns(rhs), LAMBDA p : <<Either(p)>>))
AddAssign(d, rhs) == Assemble(SumOfColumns(Columns(d), Columns(rhs)))
AddAndAssign(d, stack) == IF stack = <<>> THEN d ELSE Assemble(SumOfColumns(Columns(d), RunsOf(stack)))

\* operator==: the arrays are the same, values up to a tolerance.
Same(d, rhs) == nzc(d) = nzc(rhs) /\ d.cp = rhs.cp /\ d.jc = rhs.jc /\ d.ir = rhs.ir /\ d.numx = rhs.numx

-----------------------------------------------------------------------------
(* Elementwise operations of two matrices. *)

\* A .* B, or A .* not(B), with the products, or A's own entries, as the values.
EWiseMult(d, rhs, exclude) ==
  AssembleNonempty(Walk(Columns(d), Columns(rhs), LAMBDA p :
    IF exclude THEN IF p.right = <<>> THEN p.left ELSE <<>>
    ELSE IF InBoth(p) THEN <<[p.left[1] EXCEPT !.val = Times(@, p.right[1].val)]>> ELSE <<>>))

\* The same with any operation, here the sum; an entry of A alone meets defaultBVal.
EWiseApplyNot(d, rhs, notB, defaultBVal) ==
  AssembleNonempty(Walk(Columns(d), Columns(rhs), LAMBDA p :
    IF notB THEN IF p.right = <<>> THEN <<[p.left[1] EXCEPT !.val = Plus(@, defaultBVal)]>> ELSE <<>>
    ELSE IF InBoth(p) THEN <<[p.left[1] EXCEPT !.val = Plus(@, p.right[1].val)]>> ELSE <<>>))

\* The general form: do_op holds for the values in wanted, an operand that has no entry
\* stands for zero if it may be absent.  A column that is visited is kept even if do_op
\* left nothing of it.
EWiseApply(d, rhs, wanted, allowANulls, allowBNulls, allowIntersect) ==
  LET put(p) ==
        LET a == IF p.left = <<>> THEN 0 ELSE p.left[1].val
            b == IF p.right = <<>> THEN 0 ELSE p.right[1].val
            allowed == IF InBoth(p) THEN allowIntersect ELSE IF p.left = <<>> THEN allowANulls ELSE allowBNulls
        IN IF allowed /\ <<a, b>> \in wanted THEN <<[row |-> Either(p).row, val |-> Plus(a, b)]>> ELSE <<>>
  IN Assemble(SelectSeq(Walk(Columns(d), Columns(rhs), put),
                        LAMBDA c : c.both \/ (IF c.left THEN allowBNulls ELSE allowANulls)))

-----------------------------------------------------------------------------
(* Pruning: the entries that a predicate holds for are dropped, then the columns without  *)
(* entries. *)

LOCAL Keep(c, dropped(_)) == [c EXCEPT !.ents = SelectSeq(@, LAMBDA e : ~ dropped(e))]

\* Values in drops.
Prune(d, drops) ==
  AssembleNonempty([i \in 1 .. nzc(d) |-> Keep(Column(d, i - 1), LAMBDA e : e.val \in drops)])

\* Triples of a global row, a global column and a value in drops.
PruneI(d, drops, rowOffset, colOffset) ==
  AssembleNonempty([i \in 1 .. nzc(d) |->
    LET c == Column(d, i - 1)
    IN Keep(c, LAMBDA e : <<rowOffset + e.row, colOffset + c.col, e.val>> \in drops)])

\* Values less than the threshold pvals has for the column.
PruneColumn(d, pvals) ==
  AssembleNonempty([i \in 1 .. nzc(d) |->
    LET c == Column(d, i - 1) IN Keep(c, LAMBDA e : e.val < pvals[c.col + 1])])

\* The same for the columns pinds only: a cursor into pinds moves when its column is met.
PruneColumnInds(d, pinds, pvals) ==
  LET cursor[i \in 0 .. nzc(d)] ==
        IF i = 0 THEN 1
        ELSE cursor[i - 1] + IF cursor[i - 1] <= Len(pinds) /\ d.jc[i] = pinds[cursor[i - 1]] THEN 1 ELSE 0
  IN AssembleNonempty([i \in 1 .. nzc(d) |->
       LET c == Column(d, i - 1) IN
       IF cursor[i] = cursor[i - 1] THEN c ELSE Keep(c, LAMBDA e : e.val < pvals[cursor[i - 1]])])

-----------------------------------------------------------------------------
(* Dense operands: array[row + 1][column + 1]. *)

EWiseScale(d, scaler) ==
  Assemble([i \in 1 .. nzc(d) |->
    LET c == Column(d, i - 1)
    IN [c EXCEPT !.ents = [k \in DOMAIN @ |-> [@[k] EXCEPT !.val = Times(@, scaler[c.ents[k].row + 1][c.col + 1])]]]])

\* With the operation plus.
UpdateDense(d, array) ==
  FoldLeft(LAMBDA arr, c : FoldLeft(LAMBDA a, e : [a EXCEPT ![e.row + 1][c.col + 1] = Plus(@, e.val)], arr, c.ents),
           array, Columns(d))

-----------------------------------------------------------------------------
(* Search: aux[k] is the position in jc where the columns of the k-th chunk begin. *)

\* In single precision (the second rounding up is in double precision where ceil is that of C).
ChunkSize(d, ndim) == CeilOfQuotient(ToFloat(ndim + 1), ToFloat(nzc(d)))
ColChunks(d, ndim) == LET csize == ChunkSize(d, ndim) IN CeilOfQuotient(ToFloat(ndim + 1), csize)

\* The position in jc of the first column from cut on, or the end.
LowerBound(d, cut) ==
  CHOOSE p \in 0 .. nzc(d) : (p < nzc(d) => d.jc[p + 1] >= cut) /\ \A i \in 1 .. p : d.jc[i] < cut

\* A chunk's position is written when the first column past the one before is met, or at the end.
ConstructAux(d, ndim) ==
  LET csize == ChunkSize(d, ndim) IN [k \in 1 .. ColChunks(d, ndim) + 1 |-> LowerBound(d, (k - 1) * csize)]

\* The position of a column in its chunk, or -1.
AuxIndexMissesLast(d, colind, aux, csize) ==
  LET base == ToFloat(colind \div csize)
      here == {p \in aux[base + 1] .. aux[base + 2] - 2 : d.jc[p + 1] = colind}
  IN IF here = {} THEN -1 ELSE CHOOSE p \in here : \A q \in here : p <= q
AuxIndex(d, colind, aux, csize) ==
  LET base == ToFloat(colind \div csize)
      here == {p \in aux[base + 1] .. aux[base + 2] - 1 : d.jc[p + 1] = colind}
  IN IF here = {} THEN -1 ELSE CHOOSE p \in here : \A q \in here : p <= q

\* The range of the nonzeros of a nonempty column; equal ends where there are none.
NotFound == <<0, 0>>
RangeAt(d, pos) == <<d.cp[pos + 1], d.cp[pos + 2]>>

\* For each of the sorted columns colnums, the range of its nonzeros: by a walk over them and
\* jc, or by search.
FillColIndsByScan(d, colnums) ==
  LET found == SelectSeq([i \in DOMAIN d.jc |-> i - 1], LAMBDA p : d.jc[p + 1] \in ToSet(colnums))
      passed[j \in 0 .. Len(colnums)] ==
        IF j = 0 THEN 0
        ELSE passed[j - 1] + IF passed[j - 1] < Len(found) /\ d.jc[found[passed[j - 1] + 1] + 1] = colnums[j]
                             THEN 1 ELSE 0
  IN [j \in DOMAIN colnums |->
        IF passed[j] = passed[j - 1] THEN NotFound ELSE RangeAt(d, found[passed[j]])]
FillColIndsByAux(d, colnums, aux, csize) ==
  [j \in DOMAIN colnums |->
     LET pos == AuxIndex(d, colnums[j], aux, csize) IN IF pos = -1 THEN NotFound ELSE RangeAt(d, pos)]

-----------------------------------------------------------------------------
(* Splitting and joining by columns. *)

\* The nonempty columns from position p up to q, with first subtracted from their indices.
Piece(d, p, q, first) ==
  LET from == d.cp[p + 1]
      to == d.cp[q + 1]
  IN IF from = to THEN NullDcsc
     ELSE [jc |-> [i \in 1 .. q - p |-> d.jc[p + i] - first],
           cp |-> [i \in 1 .. q - p + 1 |-> d.cp[p + i] - from],
           ir |-> SubSeq(d.ir, from + 1, to),
           numx |-> SubSeq(d.numx, from + 1, to)]

\* cuts are the first columns of the pieces after the first.
ColSplit(d, cuts) ==
  LET pos(i) == IF i = 0 THEN 0 ELSE IF i > Len(cuts) THEN nzc(d) ELSE LowerBound(d, cuts[i]) IN
  [i \in 1 .. Len(cuts) + 1 |-> Piece(d, pos(i - 1), pos(i), IF i = 1 THEN 0 ELSE cuts[i - 1])]
Split(d, cut) == ColSplit(d, <<cut>>)

\* Pieces that are not empty, with the columns where each begins.
ColConcatenate(parts, offsets) ==
  LET before(i) == FoldLeft(LAMBDA n, p : n + nz(p), 0, SubSeq(parts, 1, i - 1)) IN
  [jc |-> FlattenSeq([i \in DOMAIN parts |-> [k \in DOMAIN parts[i].jc |-> parts[i].jc[k] + offsets[i]]]),
   cp |-> Append(FlattenSeq([i \in DOMAIN parts |-> [k \in 1 .. nzc(parts[i]) |-> parts[i].cp[k] + before(i)]]),
                 before(Len(parts) + 1)),
   ir |-> FlattenSeq([i \in DOMAIN parts |-> parts[i].ir]),
   numx |-> FlattenSeq([i \in DOMAIN parts |-> parts[i].numx])]
Merge(a, b, cut) == ColConcatenate(<<a, b>>, <<0, cut>>)

-----------------------------------------------------------------------------
(* What the arrays must be, and what they mean. *)

Increasing(s) == \A i \in 1 .. Len(s) - 1 : s[i] < s[i + 1]

WellFormed(d, m, n) ==
  /\ Len(d.cp) = nzc(d) + 1 /\ Len(d.numx) = nz(d)
  /\ d.cp[1] = 0 /\ d.cp[nzc(d) + 1] = nz(d)
  /\ d.jc \in Seq(0 .. n - 1) /\ Increasing(d.jc) /\ Increasing(d.cp)
  /\ \A i \in DOMAIN d.jc : Increasing(SubSeq(d.ir, d.cp[i] + 1, d.cp[i + 1]))
  /\ \A k \in DOMAIN d.ir : d.ir[k] \in 0 .. m - 1 /\ d.numx[k] \in Values

\* The entries, as a function from places <<row, column>> to values.
Meaning(d) ==
  FoldLeft(LAMBDA at, c : FoldLeft(LAMBDA f, e : (<<e.row, c.col>> :> e.val) @@ f, at, c.ents),
           <<>>, Columns(d))
=============================================================================
