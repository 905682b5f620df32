--------------------------------- MODULE MagiqProofs ---------------------------------
(***************************************************************************)
(* That a MAGiQ query has all its answers and no others, for every graph,  *)
(* grid, permutation and query, from a file or in the code.                *)
(*                                                                         *)
(* First what DistMatrix's operations do to the matrix and the vector as a *)
(* whole, in global indices: each process finds, among the parts of the    *)
(* vector that it gathers, the elements for its rows or columns, and a     *)
(* reduction puts each element where its owner is.  Then what the answers  *)
(* of a query have, line by line.  Then the steps of the two programs: a   *)
(* matrix that a line computes or restricts keeps the nonzeros of every    *)
(* answer, so that an early stop means there is none.                      *)
(*                                                                         *)
(* Then the result generation: what a redistribution, a join and a filter  *)
(* do to a table in its parts; that the labels of the lines, and the       *)
(* constants of the calls in the code, bring the tables to where they are  *)
(* merged; and that the rows are the assignments that have a nonzero in    *)
(* every matrix so far.  Last, that these are the answers.                 *)
(***************************************************************************)
EXTENDS Lubm, CommonProofs

-----------------------------------------------------------------------------
(* Global indices. *)

RowOf(r, e) == RowOffset(NEntities, RankInProcCol(r)) + e.row
ColOf(r, e) == ColOffset(NEntities, RankInProcRow(r)) + e.col

\* The matrix has a nonzero of this value at this place.
Has(M, x, y, val) == \E r \in Procs : \E e \in M[r] : RowOf(r, e) = x /\ ColOf(r, e) = y /\ e.val = val

InBlocks(M) == DOMAIN M = Procs /\ \A r \in Procs : \A e \in M[r] : e \in Block(r)

Element == 0 .. ElementRange - 1
IsVector(v) ==
  \A r \in Procs : v[r] = [k \in 1 .. MyLength(r) |-> v[r][k]] /\ \A k \in 1 .. MyLength(r) : v[r][k] \in Element

\* The grid is square and a matrix has an entity, an element two values.
LEMMA Sizes ==
  /\ ProcRows \in Nat \ {0} /\ ProcCols = ProcRows /\ NEntities \in Nat \ {0}
  /\ ElementRange \in Nat \ {0, 1}
BY GridAssumption, DistMatrixAssumption

\* The place of a block's entry is on the row and the column of the grid that own it.
LEMMA EntryPlace ==
  ASSUME NEW r \in Procs, NEW e \in Block(r)
  PROVE  /\ RowOf(r, e) \in Entity /\ PartOf(NEntities, ProcRows, RowOf(r, e)) = RankInProcCol(r)
         /\ ColOf(r, e) \in Entity /\ PartOf(NEntities, ProcCols, ColOf(r, e)) = RankInProcRow(r)
         /\ RowOf(r, e) - PartStart(NEntities, ProcRows, RankInProcCol(r)) = e.row
         /\ ColOf(r, e) - PartStart(NEntities, ProcCols, RankInProcRow(r)) = e.col
<1> DEFINE i == RankInProcCol(r)
           j == RankInProcRow(r)
           x == RowOf(r, e)
           y == ColOf(r, e)
           a == PartStart(NEntities, ProcRows, i)
           b == PartStart(NEntities, ProcCols, j)
<1>1. i \in 0 .. ProcRows - 1 /\ j \in 0 .. ProcCols - 1
  BY RankPlace
<1>2. a \in Nat /\ b \in Nat /\ PartLength(NEntities, ProcRows, i) \in Nat /\ PartLength(NEntities, ProcCols, j) \in Nat
  BY <1>1, Sizes, PartTypes
<1>3. e.row \in 0 .. PartLength(NEntities, ProcRows, i) - 1 /\ e.col \in 0 .. PartLength(NEntities, ProcCols, j) - 1
  BY DEF Block, LocRows, LocCols
<1>4. x = a + e.row /\ y = b + e.col
  BY DEF RowOf, ColOf, RowOffset, ColOffset
<1> HIDE DEF i, j, x, y, a, b
<1>5. x \in Int /\ y \in Int /\ x - a = e.row /\ y - b = e.col
  BY <1>2, <1>3, <1>4
<1>6. x \in 0 .. NEntities - 1 /\ PartOf(NEntities, ProcRows, x) = i
  <2>1. x - PartStart(NEntities, ProcRows, i) \in 0 .. PartLength(NEntities, ProcRows, i) - 1
    BY <1>3, <1>5 DEF a
  <2> QED BY <1>1, <1>5, <2>1, Sizes, PartUnique
<1>7. y \in 0 .. NEntities - 1 /\ PartOf(NEntities, ProcCols, y) = j
  <2>1. y - PartStart(NEntities, ProcCols, j) \in 0 .. PartLength(NEntities, ProcCols, j) - 1
    BY <1>3, <1>5 DEF b
  <2> QED BY <1>1, <1>5, <2>1, Sizes, PartUnique
<1> QED BY <1>5, <1>6, <1>7 DEF i, j, x, y, a, b, Entity

\* The matrix with given entries has each of them, at its place (Scatter).
LEMMA ScatterRight ==
  ASSUME NEW entries \in SUBSET Triple
  PROVE  /\ InBlocks(Scatter(entries))
         /\ \A t \in entries : Has(Scatter(entries), t.row, t.col, t.val)
<1> DEFINE owner(t) == BlockOwner(NEntities, NEntities, t.row, t.col)
           M == Scatter(entries)
           piece(t) == [row |-> owner(t).lrow, col |-> owner(t).lcol, val |-> t.val]
<1>1. M = [r \in Procs |-> {piece(t) : t \in {d \in entries : owner(d).rank = r}}]
  BY DEF Scatter
<1>2. ASSUME NEW t \in entries
      PROVE  LET r == owner(t).rank
             IN r \in Procs /\ piece(t) \in Block(r) /\ RowOf(r, piece(t)) = t.row /\ ColOf(r, piece(t)) = t.col
  <2> DEFINE i == PartOf(NEntities, ProcRows, t.row)
             j == PartOf(NEntities, ProcCols, t.col)
             r == GetRank(i, j)
             a == PartStart(NEntities, ProcRows, i)
             b == PartStart(NEntities, ProcCols, j)
  <2>1. t.row \in 0 .. NEntities - 1 /\ t.col \in 0 .. NEntities - 1 /\ t.val \in 1 .. ElementRange - 1
    BY DEF Triple, Entity
  <2>2. owner(t) = [rank |-> r, lrow |-> t.row - a, lcol |-> t.col - b]
    BY DEF BlockOwner
  <2>3. i \in 0 .. ProcRows - 1 /\ t.row - a \in 0 .. PartLength(NEntities, ProcRows, i) - 1
    BY <2>1, Sizes, PartOfRight
  <2>4. j \in 0 .. ProcCols - 1 /\ t.col - b \in 0 .. PartLength(NEntities, ProcCols, j) - 1
    BY <2>1, Sizes, PartOfRight
  <2>5. a \in Nat /\ b \in Nat
    BY <2>3, <2>4, Sizes, PartTypes
  <2> HIDE DEF i, j
  <2>6. RankInProcCol(r) = i /\ RankInProcRow(r) = j /\ r \in Procs
    BY <2>3, <2>4, RankRight
  <2>7. piece(t) = [row |-> t.row - a, col |-> t.col - b, val |-> t.val] /\ owner(t).rank = r
    BY <2>2
  <2> DEFINE p == [row |-> t.row - a, col |-> t.col - b, val |-> t.val]
  <2>8. p \in Block(r)
    BY <2>1, <2>3, <2>4, <2>6 DEF Block, LocRows, LocCols
  <2>9. RowOf(r, p) = a + (t.row - a) /\ ColOf(r, p) = b + (t.col - b)
    BY <2>6 DEF RowOf, ColOf, RowOffset, ColOffset
  <2>10. a + (t.row - a) = t.row /\ b + (t.col - b) = t.col
    <3> HIDE DEF a, b
    <3> QED BY <2>1, <2>5
  <2>11. p = piece(t)
    BY <2>7
  <2> HIDE DEF p, r, owner
  <2> QED BY <2>6, <2>7, <2>8, <2>9, <2>10, <2>11
<1> HIDE DEF owner, M
<1>3. InBlocks(M)
  <2>1. DOMAIN M = Procs
    BY <1>1
  <2>2. ASSUME NEW r \in Procs, NEW e \in M[r] PROVE e \in Block(r)
    <3>1. PICK t \in entries : owner(t).rank = r /\ e = piece(t)
      BY <1>1
    <3> QED BY <1>2, <3>1
  <2> QED BY <2>1, <2>2 DEF InBlocks
<1>4. ASSUME NEW t \in entries PROVE Has(M, t.row, t.col, t.val)
  <2>1. piece(t) \in M[owner(t).rank] /\ piece(t).val = t.val
    BY <1>1, <1>2
  <2> QED BY <1>2, <2>1 DEF Has
<1> QED BY <1>3, <1>4 DEF M

-----------------------------------------------------------------------------
(* The vector. *)

\* An entity has a place on the grid: its element is there.
LEMMA ElementPlace ==
  ASSUME NEW x \in Entity
  PROVE  \E i \in 0 .. ProcRows - 1, j \in 0 .. ProcCols - 1 : \E l \in 0 .. MyLocLength(NEntities, i, j) - 1 :
           x = LengthUntil(NEntities, i, j) + l /\ Owner(NEntities, x) = [rank |-> GetRank(i, j), lind |-> l]
<1> DEFINE place == OwnerPlace(NEntities, x)
<1>1. Owner(NEntities, x) = [rank |-> GetRank(place.row, place.col), lind |-> place.lind]
  BY DEF Owner, AtRank
<1>2. /\ place.row \in 0 .. ProcRows - 1 /\ place.col \in 0 .. ProcCols - 1
      /\ place.lind \in 0 .. MyLocLength(NEntities, place.row, place.col) - 1
      /\ LengthUntil(NEntities, place.row, place.col) + place.lind = x
  BY Sizes, OwnerInRange DEF Entity
<1> HIDE DEF place
<1> QED BY <1>1, <1>2

\* A place on the grid has the element of one entity.
LEMMA ElementOf ==
  ASSUME NEW i \in 0 .. ProcRows - 1, NEW j \in 0 .. ProcCols - 1, NEW l \in 0 .. MyLocLength(NEntities, i, j) - 1
  PROVE  LET x == LengthUntil(NEntities, i, j) + l
         IN x \in Entity /\ Owner(NEntities, x) = [rank |-> GetRank(i, j), lind |-> l]
<1> DEFINE a == LengthUntil(NEntities, i, j)
           x == a + l
<1>1. a \in Nat
  <2>1. MyRowLength(NEntities, i) \in Nat
    BY Sizes, RowLengthType
  <2>2. PartStart(NEntities, ProcRows, i) \in Nat /\ PartStart(MyRowLength(NEntities, i), ProcCols, j) \in Nat
    BY <2>1, Sizes, PartTypes
  <2> QED BY <2>2 DEF LengthUntil, RowLenUntil
<1> HIDE DEF a
<1>2. l \in Int /\ x \in Int /\ x - a = l
  BY <1>1
<1> HIDE DEF x
<1>3. x - LengthUntil(NEntities, i, j) \in 0 .. MyLocLength(NEntities, i, j) - 1
  BY <1>2 DEF a
<1>4. x \in 0 .. NEntities - 1 /\ Owner(NEntities, x) = [rank |-> GetRank(i, j), lind |-> x - LengthUntil(NEntities, i, j)]
  BY <1>2, <1>3, Sizes, OwnerUnique
<1> QED BY <1>2, <1>4 DEF x, a, Entity

\* The owner of an entity has an element for it.
LEMMA ElementType ==
  ASSUME NEW v, IsVector(v), NEW x \in Entity
  PROVE  ElementAt(v, x) \in Element
<1>1. PICK i \in 0 .. ProcRows - 1, j \in 0 .. ProcCols - 1 : \E l \in 0 .. MyLocLength(NEntities, i, j) - 1 :
        Owner(NEntities, x) = [rank |-> GetRank(i, j), lind |-> l]
  BY ElementPlace
<1>2. PICK l \in 0 .. MyLocLength(NEntities, i, j) - 1 : Owner(NEntities, x) = [rank |-> GetRank(i, j), lind |-> l]
  BY <1>1
<1>3. /\ GetRank(i, j) \in Procs
      /\ RankInProcCol(GetRank(i, j)) = i /\ RankInProcRow(GetRank(i, j)) = j
  BY RankRight
<1> DEFINE r == GetRank(i, j)
           n == MyLocLength(NEntities, i, j)
<1>4. MyLength(r) = n
  BY <1>3 DEF MyLength
<1>5. n \in Nat
  <2>1. MyRowLength(NEntities, i) \in Nat
    BY Sizes, RowLengthType
  <2> QED BY <2>1, Sizes, PartTypes DEF MyLocLength
<1> HIDE DEF n
<1>6. l + 1 \in 1 .. n
  BY <1>5 DEF n
<1>7. v[r][l + 1] \in Element
  BY <1>3, <1>4, <1>6 DEF IsVector
<1> QED BY <1>2, <1>7 DEF ElementAt

\* The parts of the vector that a row of the grid has, one after the other.
RowParts(v, i) == FlattenSeq([j \in 1 .. ProcCols |-> v[GetRank(i, j - 1)]])

\* They are the elements for the entities whose blocks are in this row of the grid, or in
\* the column of the same number.
LEMMA RowPartsRight ==
  ASSUME NEW v, IsVector(v), NEW x \in Entity
  PROVE  LET i == PartOf(NEntities, ProcRows, x)
         IN RowParts(v, i)[x - PartStart(NEntities, ProcRows, i) + 1] = ElementAt(v, x)
<1>1. PICK i \in 0 .. ProcRows - 1, j \in 0 .. ProcCols - 1 : \E l \in 0 .. MyLocLength(NEntities, i, j) - 1 :
        x = LengthUntil(NEntities, i, j) + l /\ Owner(NEntities, x) = [rank |-> GetRank(i, j), lind |-> l]
  BY ElementPlace
<1>2. PICK l \in 0 .. MyLocLength(NEntities, i, j) - 1 :
        x = LengthUntil(NEntities, i, j) + l /\ Owner(NEntities, x) = [rank |-> GetRank(i, j), lind |-> l]
  BY <1>1
<1> DEFINE n == MyRowLength(NEntities, i)
           a == PartStart(NEntities, ProcRows, i)
           P == ProcCols
           len(c) == MyLocLength(NEntities, i, c)
           d == [c \in 0 .. P |-> IF c = P THEN n ELSE PartStart(n, P, c)]
           seqs == [c \in 1 .. P |-> v[GetRank(i, c - 1)]]
<1>3. n \in Nat /\ a \in Nat /\ P \in Nat \ {0} /\ j \in 0 .. P - 1 /\ i \in 0 .. ProcRows - 1
  BY Sizes, RowLengthType, PartTypes
<1>4. \A c \in 0 .. P - 1 : /\ len(c) = PartLength(n, P, c) /\ len(c) \in Nat /\ PartStart(n, P, c) \in Nat
                            /\ PartStart(n, P, c) + len(c) <= n
  <2> HIDE DEF n, P
  <2>1. \A c \in 0 .. P - 1 : PartLength(n, P, c) \in Nat /\ PartStart(n, P, c) \in Nat /\ PartStart(n, P, c) + PartLength(n, P, c) <= n
    BY <1>3, PartTypes
  <2>2. \A c \in 0 .. P - 1 : len(c) = PartLength(n, P, c)
    BY DEF MyLocLength, n, P
  <2> HIDE DEF len
  <2> QED BY <2>1, <2>2
<1>5. \A c \in 1 .. P : seqs[c] = [k \in 1 .. len(c - 1) |-> seqs[c][k]] /\ len(c - 1) \in Nat
  <2> SUFFICES ASSUME NEW c \in 1 .. P PROVE seqs[c] = [k \in 1 .. len(c - 1) |-> seqs[c][k]] /\ len(c - 1) \in Nat
    OBVIOUS
  <2> DEFINE e == c - 1
             r == GetRank(i, e)
  <2>1. e \in 0 .. P - 1 /\ seqs[c] = v[r]
    BY <1>3
  <2>2. r \in Procs /\ RankInProcCol(r) = i /\ RankInProcRow(r) = e
    <3> HIDE DEF e
    <3> QED BY <2>1, RankRight
  <2>3. MyLength(r) = len(e)
    BY <2>2 DEF MyLength
  <2> HIDE DEF r, seqs, len, e
  <2>4. v[r] = [k \in 1 .. len(e) |-> v[r][k]]
    BY <2>2, <2>3 DEF IsVector
  <2>5. len(e) \in Nat
    BY <1>4, <2>1
  <2> QED BY <2>1, <2>4, <2>5 DEF e
<1>6. \A c \in 1 .. P : IsSequence(seqs[c]) /\ Len(seqs[c]) = len(c - 1)
  <2> HIDE DEF seqs, len, P
  <2> SUFFICES ASSUME NEW c \in 1 .. P PROVE IsSequence(seqs[c]) /\ Len(seqs[c]) = len(c - 1)
    OBVIOUS
  <2> DEFINE m == len(c - 1)
  <2>1. m \in Nat /\ seqs[c] = [k \in 1 .. m |-> seqs[c][k]]
    BY <1>5
  <2> HIDE DEF m
  <2>2. Len(seqs[c]) = m
    BY <2>1
  <2> QED BY <2>1, <2>2 DEF IsSequence, m
<1>7. Sums(d, [q \in 0 .. P - 1 |-> Len(seqs[q + 1])], P)
  <2> DEFINE counts == [q \in 0 .. P - 1 |-> Len(seqs[q + 1])]
  <2>1. \A q \in 0 .. P - 1 : counts[q] = len(q)
    <3> SUFFICES ASSUME NEW q \in 0 .. P - 1 PROVE counts[q] = len(q)
      OBVIOUS
    <3>1. q + 1 \in 1 .. P /\ (q + 1) - 1 = q
      BY <1>3
    <3> HIDE DEF seqs, len, P
    <3> QED BY <1>6, <3>1
  <2> HIDE DEF counts, len
  <2>2. d \in [0 .. P -> Nat]
    BY <1>3, <1>4
  <2>3. d[0] = 0
    <3>1. 0 \in 0 .. P /\ 0 # P
      BY <1>3
    <3>2. PartStart(n, P, 0) = 0
      <4> DEFINE q == PerPart(n, P)
      <4>1. q \in Nat
        BY <1>3, DivBounds DEF PerPart
      <4> HIDE DEF q
      <4>2. 0 * q = 0
        BY <4>1
      <4> QED BY <4>2 DEF PartStart, q
    <3> HIDE DEF P, n
    <3> QED BY <3>1, <3>2
  <2>4. ASSUME NEW c \in 0 .. P - 1 PROVE d[c + 1] = d[c] + len(c)
    <3> DEFINE q == PerPart(n, P)
    <3>1. q \in Nat
      BY <1>3, DivBounds DEF PerPart
    <3>2. len(c) = IF c = P - 1 THEN n - (P - 1) * q ELSE q
      <4>1. len(c) = PartLength(n, P, c)
        BY <1>4
      <4> QED BY <4>1 DEF PartLength
    <3>3. d[c] = c * q
      <4>1. c \in 0 .. P /\ c # P
        BY <1>3
      <4> HIDE DEF P, n
      <4> QED BY <4>1 DEF PartStart
    <3>4. d[c + 1] = IF c = P - 1 THEN n ELSE (c + 1) * q
      <4>1. c + 1 \in 0 .. P /\ (c + 1 = P <=> c = P - 1)
        BY <1>3
      <4> HIDE DEF P, n
      <4> QED BY <4>1 DEF PartStart
    <3> HIDE DEF d, q, P, n, len
    <3>5. c \in Nat /\ c * q \in Nat /\ (c + 1) * q = c * q + q
      BY <3>1
    <3>6. CASE c = P - 1
      <4>1. len(c) = n - c * q /\ d[c + 1] = n /\ d[c] = c * q
        BY <3>2, <3>3, <3>4, <3>6
      <4> QED BY <1>3, <3>5, <4>1
    <3>7. CASE c # P - 1
      BY <3>1, <3>2, <3>3, <3>4, <3>5, <3>7
    <3> QED BY <3>6, <3>7
  <2>5. \A q \in 0 .. P - 1 : counts[q] \in Nat /\ d[q + 1] = d[q] + counts[q]
    BY <1>4, <2>1, <2>4
  <2> HIDE DEF d, P
  <2> QED BY <2>2, <2>3, <2>5 DEF Sums, counts
<1>8. seqs = [c \in 1 .. P |-> seqs[c]] /\ Len(seqs) = P
  BY <1>3
<1>9. RowParts(v, i) = Concatenation(seqs)
  <2>1. RowParts(v, i) = FlattenSeq(seqs)
    BY DEF RowParts
  <2> HIDE DEF seqs, P
  <2>2. Len(seqs) # 0
    BY <1>3, <1>8
  <2> QED BY <2>1, <2>2 DEF FlattenSeq, Concatenation
<1>10. \A c \in 0 .. P - 1 : \A k \in 1 .. Len(seqs[c + 1]) : RowParts(v, i)[d[c] + k] = seqs[c + 1][k]
  <2> HIDE DEF seqs, d, P, n, a, len
  <2>1. \A e \in 1 .. P : IsSequence(seqs[e])
    BY <1>6
  <2>2. LengthsSum(seqs, d, P)
    BY <1>7, <1>8, <2>1, Zenon DEF LengthsSum
  <2>3. OneAfterAnother(Concatenation(seqs), seqs, d, P)
    BY <1>3, <2>2, ConcatenationRight, Zenon
  <2> QED BY <1>9, <2>3, Zenon DEF OneAfterAnother
<1> DEFINE y == x - a
<1>11. y = d[j] + l /\ x - PartStart(NEntities, ProcRows, i) \in 0 .. PartLength(NEntities, ProcRows, i) - 1
  <2>1. d[j] = PartStart(n, P, j) /\ d[j] \in Nat
    <3>1. j \in 0 .. P /\ j # P
      BY <1>3
    <3> HIDE DEF P, n
    <3> QED BY <1>3, <1>4, <3>1
  <2>2. x = a + d[j] + l
    BY <1>2, <2>1 DEF LengthUntil, RowLenUntil
  <2>3. len(j) \in Nat /\ d[j] + len(j) <= n /\ l \in 0 .. len(j) - 1
    BY <1>3, <1>4, <2>1
  <2>4. PartLength(NEntities, ProcRows, i) = n
    BY DEF MyRowLength
  <2> HIDE DEF len, d, n, P
  <2>5. (a + d[j] + l) - a \in 0 .. n - 1 /\ (a + d[j] + l) - a = d[j] + l
    <3> HIDE DEF a
    <3> QED BY <1>3, <2>1, <2>3
  <2>6. y = d[j] + l /\ y \in 0 .. n - 1
    BY <2>2, <2>5, Zenon
  <2>7. y = x - PartStart(NEntities, ProcRows, i)
    OBVIOUS
  <2> HIDE DEF y
  <2> QED BY <2>4, <2>6, <2>7, Zenon
<1>12. PartOf(NEntities, ProcRows, x) = i
  <2>1. x \in Int
    BY DEF Entity
  <2> QED BY <1>3, <1>11, <2>1, Sizes, PartUnique
<1>13. RowParts(v, i)[d[j] + (l + 1)] = v[GetRank(i, j)][l + 1]
  <2>1. j + 1 \in 1 .. P /\ (j + 1) - 1 = j
    BY <1>3
  <2>2. seqs[j + 1] = v[GetRank(i, j)]
    BY <2>1
  <2>3. Len(seqs[j + 1]) = len(j) /\ len(j) \in Nat
    <3> HIDE DEF seqs, len, P
    <3> QED BY <1>3, <1>4, <1>6, <2>1
  <2>4. l + 1 \in 1 .. len(j)
    BY <2>3
  <2> HIDE DEF seqs, len, d, P
  <2> QED BY <1>3, <1>10, <2>2, <2>3, <2>4
<1>14. ElementAt(v, x) = v[GetRank(i, j)][l + 1]
  BY <1>2 DEF ElementAt
<1>15. y + 1 = d[j] + (l + 1)
  <2>1. d[j] \in Nat
    <3>1. j \in 0 .. P
      BY <1>3
    <3> HIDE DEF d, P
    <3> QED BY <1>7, <3>1 DEF Sums
  <2> HIDE DEF d, y
  <2> QED BY <1>11, <2>1
<1> HIDE DEF d
<1> QED BY <1>12, <1>13, <1>14, <1>15

\* What a process finds in the parts it gathers (DimApply).
LEMMA ScalerRight ==
  ASSUME NEW v, IsVector(v), NEW r \in Procs, NEW e \in Block(r)
  PROVE  /\ ScalerByColumn(v, r)[e.col + 1] = ElementAt(v, ColOf(r, e))
         /\ ScalerByRow(v, r)[e.row + 1] = ElementAt(v, RowOf(r, e))
<1> DEFINE i == RankInProcCol(r)
           j == RankInProcRow(r)
<1>1. i \in 0 .. ProcRows - 1 /\ j \in 0 .. ProcCols - 1 /\ ProcRows = ProcCols
  BY RankPlace, Sizes
<1>2. ScalerByRow(v, r) = RowParts(v, i)
  BY DEF ScalerByRow, RowParts
<1>3. ScalerByColumn(v, r) = RowParts(v, j)
  <2> DEFINE byColumn == [k \in 1 .. ProcRows |-> v[GetComplementRank(GetRank(k - 1, j))]]
             parts == [k \in 1 .. ProcCols |-> v[GetRank(j, k - 1)]]
  <2>1. ASSUME NEW k \in 1 .. ProcRows PROVE GetComplementRank(GetRank(k - 1, j)) = GetRank(j, k - 1)
    <3> DEFINE m == k - 1
    <3>1. m \in 0 .. ProcRows - 1
      <4> HIDE DEF i, j
      <4> QED BY Sizes
    <3> HIDE DEF m, i, j
    <3>2. RankInProcCol(GetRank(m, j)) = m /\ RankInProcRow(GetRank(m, j)) = j
      BY <1>1, <3>1, RankRight
    <3>3. GetComplementRank(GetRank(m, j)) = ProcCols * j + m
      BY <3>2 DEF GetComplementRank
    <3>4. ProcCols * j + m = j * ProcCols + m
      BY <1>1, <3>1, Sizes
    <3> QED BY <3>3, <3>4 DEF GetRank, m
  <2>2. byColumn = parts
    <3> HIDE DEF j
    <3> QED BY <1>1, <2>1
  <2>3. ScalerByColumn(v, r) = FlattenSeq(byColumn) /\ RowParts(v, j) = FlattenSeq(parts)
    BY DEF ScalerByColumn, RowParts
  <2> HIDE DEF byColumn, parts
  <2> QED BY <2>2, <2>3
<1>4. /\ RowOf(r, e) \in Entity /\ PartOf(NEntities, ProcRows, RowOf(r, e)) = i
      /\ ColOf(r, e) \in Entity /\ PartOf(NEntities, ProcRows, ColOf(r, e)) = j
      /\ RowOf(r, e) - PartStart(NEntities, ProcRows, i) = e.row
      /\ ColOf(r, e) - PartStart(NEntities, ProcRows, j) = e.col
  BY <1>1, EntryPlace
<1>5. RowParts(v, i)[RowOf(r, e) - PartStart(NEntities, ProcRows, i) + 1] = ElementAt(v, RowOf(r, e))
  BY <1>4, RowPartsRight
<1>6. RowParts(v, j)[ColOf(r, e) - PartStart(NEntities, ProcRows, j) + 1] = ElementAt(v, ColOf(r, e))
  BY <1>4, RowPartsRight
<1> QED BY <1>2, <1>3, <1>4, <1>5, <1>6

-----------------------------------------------------------------------------
(* What a line does to a matrix. *)

\* A product is an element, and 1 for what an answer needs.
LEMMA ProductType ==
  ASSUME NEW a \in Element, NEW b \in Element, NEW isRDF
  PROVE  Product(a, b, isRDF) \in Element
<1>1. CASE isRDF
  BY <1>1, Sizes DEF Product, Element
<1>2. CASE ~ isRDF
  <2>1. Product(a, b, isRDF) = (a * b) % ElementRange
    BY <1>2 DEF Product
  <2>2. a \in Nat /\ b \in Nat
    BY Sizes DEF Element
  <2>3. a * b \in Nat
    BY <2>2
  <2> DEFINE p == a * b
  <2> HIDE DEF p
  <2>4. p % ElementRange \in 0 .. ElementRange - 1
    BY <2>3, Sizes DEF p
  <2> QED BY <2>1, <2>4 DEF Element, p
<1> QED BY <1>1, <1>2

\* Either semiring multiplies ones to one.
LEMMA ProductOfOnes ==
  ASSUME NEW isRDF
  PROVE  Product(1, 1, isRDF) = 1
<1>1. 1 * 1 = 1 /\ 1 % ElementRange = 1
  BY Sizes
<1> QED BY <1>1 DEF Product

\* The element that scales an entry.
ScaleOf(v, r, e, dim) == ElementAt(v, IF dim = "Column" THEN ColOf(r, e) ELSE RowOf(r, e))

\* An entry stays, with its product, unless that is zero (DimApply and Prune).
LEMMA ApplyRight ==
  ASSUME NEW M, InBlocks(M), NEW v, IsVector(v), NEW dim, NEW isRDF
  PROVE  /\ InBlocks(multDimApplyPrune(M, v, dim, isRDF))
         /\ \A r \in Procs : \A e \in M[r] :
              LET p == Product(e.val, ScaleOf(v, r, e, dim), isRDF)
              IN p # 0 => [e EXCEPT !.val = p] \in multDimApplyPrune(M, v, dim, isRDF)[r]
<1> DEFINE p(r, e) == Product(e.val, ScaleOf(v, r, e, dim), isRDF)
           A == DimApply(M, v, dim, isRDF)
           R == multDimApplyPrune(M, v, dim, isRDF)
<1>1. ASSUME NEW r \in Procs, NEW e \in M[r]
      PROVE  e \in Block(r) /\ p(r, e) \in Element
  <2>1. e \in Block(r)
    BY DEF InBlocks
  <2>2. RowOf(r, e) \in Entity /\ ColOf(r, e) \in Entity
    BY <2>1, EntryPlace
  <2>3. ScaleOf(v, r, e, dim) \in Element
    BY <2>2, ElementType DEF ScaleOf
  <2>4. e.val \in Element
    BY <2>1, Sizes DEF Block, Element
  <2> QED BY <2>1, <2>3, <2>4, ProductType
<1>2. ASSUME NEW r \in Procs
      PROVE  A[r] = {[e EXCEPT !.val = p(r, e)] : e \in M[r]}
  <2> DEFINE scaler == IF dim = "Column" THEN ScalerByColumn(v, r) ELSE ScalerByRow(v, r)
             at(e) == IF dim = "Column" THEN e.col + 1 ELSE e.row + 1
  <2>1. A[r] = {[e EXCEPT !.val = Product(e.val, scaler[at(e)], isRDF)] : e \in M[r]}
    BY DEF DimApply
  <2>2. ASSUME NEW e \in M[r] PROVE scaler[at(e)] = ScaleOf(v, r, e, dim)
    <3>1. e \in Block(r)
      BY <1>1
    <3>2. /\ ScalerByColumn(v, r)[e.col + 1] = ElementAt(v, ColOf(r, e))
          /\ ScalerByRow(v, r)[e.row + 1] = ElementAt(v, RowOf(r, e))
      BY <3>1, ScalerRight
    <3> QED BY <3>2 DEF ScaleOf
  <2> HIDE DEF scaler, at, A
  <2> QED BY <2>1, <2>2
<1>3. \A r \in Procs : R[r] = {e \in A[r] : e.val # 0}
  BY DEF multDimApplyPrune, Prune
<1>4. DOMAIN R = Procs
  BY DEF multDimApplyPrune, Prune
<1> HIDE DEF A, R, p
<1>5. ASSUME NEW r \in Procs, NEW e \in R[r] PROVE e \in Block(r)
  <2>1. e \in A[r] /\ e.val # 0
    BY <1>3
  <2>2. PICK d \in M[r] : e = [d EXCEPT !.val = p(r, d)]
    BY <1>2, <2>1
  <2>3. d \in Block(r) /\ p(r, d) \in Element
    BY <1>1
  <2>4. e.val = p(r, d)
    BY <2>2, <2>3 DEF Block
  <2>5. p(r, d) \in 1 .. ElementRange - 1
    BY <2>1, <2>3, <2>4, Sizes DEF Element
  <2> QED BY <2>2, <2>3, <2>5 DEF Block
<1>6. ASSUME NEW r \in Procs, NEW e \in M[r], p(r, e) # 0 PROVE [e EXCEPT !.val = p(r, e)] \in R[r]
  <2> DEFINE f == [e EXCEPT !.val = p(r, e)]
  <2>1. f \in A[r]
    BY <1>2
  <2>2. f.val = p(r, e)
    BY <1>1 DEF Block
  <2> HIDE DEF f
  <2> QED BY <1>3, <1>6, <2>1, <2>2 DEF f
<1>7. InBlocks(R)
  BY <1>4, <1>5 DEF InBlocks
<1> QED BY <1>6, <1>7 DEF R, p

\* An entry whose product is 1 stays as one.
LEMMA ApplyKeeps ==
  ASSUME NEW M, InBlocks(M), NEW v, IsVector(v), NEW dim, NEW isRDF, NEW x, NEW y, NEW val, Has(M, x, y, val),
         Product(val, ElementAt(v, IF dim = "Column" THEN y ELSE x), isRDF) = 1
  PROVE  Has(multDimApplyPrune(M, v, dim, isRDF), x, y, 1)
<1> DEFINE R == multDimApplyPrune(M, v, dim, isRDF)
<1>1. PICK r \in Procs : \E e \in M[r] : RowOf(r, e) = x /\ ColOf(r, e) = y /\ e.val = val
  BY DEF Has
<1>2. PICK e \in M[r] : RowOf(r, e) = x /\ ColOf(r, e) = y /\ e.val = val
  BY <1>1
<1>3. Product(e.val, ScaleOf(v, r, e, dim), isRDF) = 1
  BY <1>2 DEF ScaleOf
<1> DEFINE f == [e EXCEPT !.val = 1]
<1>4. f \in R[r]
  <2>1. LET p == Product(e.val, ScaleOf(v, r, e, dim), isRDF) IN p # 0 => [e EXCEPT !.val = p] \in R[r]
    BY ApplyRight
  <2> HIDE DEF R
  <2> QED BY <1>3, <2>1
<1>5. e \in Block(r)
  BY DEF InBlocks
<1>6. f.row = e.row /\ f.col = e.col /\ f.val = 1
  BY <1>5 DEF Block
<1>7. RowOf(r, f) = x /\ ColOf(r, f) = y
  <2> HIDE DEF f
  <2> QED BY <1>2, <1>6 DEF RowOf, ColOf
<1> HIDE DEF f, R
<1>8. Has(R, x, y, 1)
  BY <1>4, <1>6, <1>7 DEF Has
<1> QED BY <1>8 DEF R

\* A transposed matrix has the nonzeros at the transposed places (Transpose).
LEMMA TransposeRight ==
  ASSUME NEW M, InBlocks(M)
  PROVE  /\ InBlocks(Transpose(M))
         /\ \A x, y, val : Has(M, x, y, val) => Has(Transpose(M), y, x, val)
<1> DEFINE T == Transpose(M)
           turned(e) == [row |-> e.col, col |-> e.row, val |-> e.val]
<1>1. DOMAIN T = Procs /\ \A r \in Procs : T[r] = {turned(e) : e \in M[GetComplementRank(r)]}
  BY DEF Transpose
<1>2. ASSUME NEW r \in Procs
      PROVE  LET q == GetComplementRank(r)
             IN /\ q \in Procs /\ GetComplementRank(q) = r
                /\ RankInProcCol(q) = RankInProcRow(r) /\ RankInProcRow(q) = RankInProcCol(r)
  <2> DEFINE i == RankInProcCol(r)
             j == RankInProcRow(r)
  <2>1. i \in 0 .. ProcRows - 1 /\ j \in 0 .. ProcCols - 1 /\ ProcRows = ProcCols
    BY RankPlace, Sizes
  <2>2. GetComplementRank(r) = GetRank(j, i)
    <3>1. GetComplementRank(r) = ProcCols * j + i
      BY DEF GetComplementRank
    <3>2. GetRank(j, i) = j * ProcCols + i
      BY DEF GetRank
    <3> HIDE DEF i, j
    <3> QED BY <2>1, <3>1, <3>2, Sizes
  <2>3. RankInProcCol(GetRank(j, i)) = j /\ RankInProcRow(GetRank(j, i)) = i
    <3> HIDE DEF i, j
    <3> QED BY <2>1, RankRight
  <2>4. GetComplementRank(r) \in Procs /\ GetComplementRank(GetComplementRank(r)) = r
    BY Sizes, ComplementInvolution
  <2> QED BY <2>2, <2>3, <2>4
<1>3. ASSUME NEW q \in Procs, NEW e \in M[q]
      PROVE  LET r == GetComplementRank(q)
             IN turned(e) \in T[r] /\ turned(e) \in Block(r) /\ RowOf(r, turned(e)) = ColOf(q, e) /\ ColOf(r, turned(e)) = RowOf(q, e)
  <2> DEFINE r == GetComplementRank(q)
             t == turned(e)
  <2>1. /\ r \in Procs /\ GetComplementRank(r) = q
        /\ RankInProcCol(r) = RankInProcRow(q) /\ RankInProcRow(r) = RankInProcCol(q)
    BY <1>2
  <2> HIDE DEF r, T
  <2>2. t \in T[r]
    BY <1>1, <2>1
  <2>3. e \in Block(q) /\ ProcRows = ProcCols
    BY Sizes DEF InBlocks
  <2>4. t \in Block(r)
    BY <2>1, <2>3 DEF Block, LocRows, LocCols
  <2>5. RowOf(r, t) = ColOf(q, e) /\ ColOf(r, t) = RowOf(q, e)
    BY <2>1, <2>3 DEF RowOf, ColOf, RowOffset, ColOffset
  <2> QED BY <2>2, <2>4, <2>5 DEF r
<1> HIDE DEF T
<1>4. ASSUME NEW r \in Procs, NEW t \in T[r] PROVE t \in Block(r)
  <2> DEFINE q == GetComplementRank(r)
  <2>1. q \in Procs /\ GetComplementRank(q) = r
    BY <1>2
  <2>2. PICK e \in M[q] : t = turned(e)
    BY <1>1
  <2>3. turned(e) \in Block(GetComplementRank(q))
    <3> HIDE DEF q, turned
    <3> QED BY <1>3, <2>1
  <2> QED BY <2>1, <2>2, <2>3
<1>5. ASSUME NEW x, NEW y, NEW val, Has(M, x, y, val) PROVE Has(T, y, x, val)
  <2>1. PICK q \in Procs : \E e \in M[q] : RowOf(q, e) = x /\ ColOf(q, e) = y /\ e.val = val
    BY <1>5 DEF Has
  <2>2. PICK e \in M[q] : RowOf(q, e) = x /\ ColOf(q, e) = y /\ e.val = val
    BY <2>1
  <2>3. GetComplementRank(q) \in Procs
    BY <1>2
  <2>4. turned(e).val = val
    BY <2>2
  <2> HIDE DEF turned
  <2> QED BY <1>3, <2>2, <2>3, <2>4 DEF Has
<1>6. InBlocks(T)
  BY <1>1, <1>4 DEF InBlocks
<1> QED BY <1>5, <1>6 DEF T

-----------------------------------------------------------------------------
(* What a line does to a vector. *)

\* One process's elements, at its rank and local index, as the vector's.
LEMMA ElementIs ==
  ASSUME NEW v, NEW i \in 0 .. ProcRows - 1, NEW j \in 0 .. ProcCols - 1, NEW l \in 0 .. MyLocLength(NEntities, i, j) - 1,
         NEW x, Owner(NEntities, x) = [rank |-> GetRank(i, j), lind |-> l]
  PROVE  /\ ElementAt(v, x) = v[GetRank(i, j)][l + 1]
         /\ GetRank(i, j) \in Procs /\ l + 1 \in 1 .. MyLength(GetRank(i, j))
         /\ RankInProcCol(GetRank(i, j)) = i /\ RankInProcRow(GetRank(i, j)) = j
<1>1. /\ GetRank(i, j) \in Procs
      /\ RankInProcCol(GetRank(i, j)) = i /\ RankInProcRow(GetRank(i, j)) = j
  BY RankRight
<1> DEFINE n == MyLocLength(NEntities, i, j)
<1>2. n \in Nat /\ MyLength(GetRank(i, j)) = n
  <2>1. MyRowLength(NEntities, i) \in Nat
    BY Sizes, RowLengthType
  <2> QED BY <1>1, <2>1, Sizes, PartTypes DEF MyLocLength, MyLength
<1>3. l + 1 \in 1 .. n
  <2>1. l \in 0 .. n - 1
    OBVIOUS
  <2> HIDE DEF n
  <2> QED BY <1>2, <2>1
<1> QED BY <1>1, <1>2, <1>3 DEF ElementAt

\* A process's part of a vector has a length.
LEMMA LengthType ==
  ASSUME NEW r \in Procs
  PROVE  MyLength(r) \in Nat
<1> DEFINE i == RankInProcCol(r)
           j == RankInProcRow(r)
<1>1. i \in 0 .. ProcRows - 1 /\ j \in 0 .. ProcCols - 1
  BY RankPlace
<1>2. MyLength(r) = PartLength(MyRowLength(NEntities, i), ProcCols, j)
  BY DEF MyLength, MyLocLength
<1> HIDE DEF i, j
<1>3. MyRowLength(NEntities, i) \in Nat
  BY <1>1, Sizes, RowLengthType
<1> QED BY <1>1, <1>2, <1>3, Sizes, PartTypes

\* A vector multiplied by a number (Apply with bind2nd).
LEMMA ScaledRight ==
  ASSUME NEW v, IsVector(v), NEW s \in Nat
  PROVE  /\ IsVector(Scaled(v, s))
         /\ \A x \in Entity : ElementAt(Scaled(v, s), x) = (ElementAt(v, x) * s) % ElementRange
<1> DEFINE w == Scaled(v, s)
<1>1. ASSUME NEW r \in Procs, NEW k \in 1 .. MyLength(r)
      PROVE  w[r][k] = (v[r][k] * s) % ElementRange
  <2>1. w[r] = [n \in DOMAIN v[r] |-> (v[r][n] * s) % ElementRange]
    BY DEF Scaled
  <2>2. DOMAIN v[r] = 1 .. MyLength(r)
    BY DEF IsVector
  <2> HIDE DEF w
  <2> QED BY <2>1, <2>2
<1>2. ASSUME NEW r \in Procs PROVE w[r] = [k \in 1 .. MyLength(r) |-> w[r][k]]
  <2>1. w[r] = [n \in DOMAIN v[r] |-> (v[r][n] * s) % ElementRange]
    BY DEF Scaled
  <2>2. DOMAIN v[r] = 1 .. MyLength(r)
    BY DEF IsVector
  <2> HIDE DEF w
  <2> QED BY <2>1, <2>2
<1> HIDE DEF w
<1>3. ASSUME NEW r \in Procs, NEW k \in 1 .. MyLength(r) PROVE w[r][k] \in Element
  <2> DEFINE p == v[r][k] * s
  <2>1. v[r][k] \in Nat
    <3>1. v[r][k] \in Element
      BY DEF IsVector
    <3> QED BY <3>1, Sizes DEF Element
  <2>2. p \in Nat
    BY <2>1
  <2> HIDE DEF p
  <2>3. p % ElementRange \in 0 .. ElementRange - 1
    BY <2>2, Sizes
  <2> QED BY <1>1, <2>3 DEF p, Element
<1>4. ASSUME NEW x \in Entity PROVE ElementAt(w, x) = (ElementAt(v, x) * s) % ElementRange
  <2>1. PICK i \in 0 .. ProcRows - 1, j \in 0 .. ProcCols - 1 : \E l \in 0 .. MyLocLength(NEntities, i, j) - 1 :
          Owner(NEntities, x) = [rank |-> GetRank(i, j), lind |-> l]
    BY ElementPlace
  <2>2. PICK l \in 0 .. MyLocLength(NEntities, i, j) - 1 : Owner(NEntities, x) = [rank |-> GetRank(i, j), lind |-> l]
    BY <2>1
  <2>3. ElementAt(w, x) = w[GetRank(i, j)][l + 1] /\ ElementAt(v, x) = v[GetRank(i, j)][l + 1]
    BY <2>2, ElementIs
  <2>4. GetRank(i, j) \in Procs /\ l + 1 \in 1 .. MyLength(GetRank(i, j))
    BY <2>2, ElementIs
  <2> QED BY <1>1, <2>3, <2>4
<1>5. IsVector(w)
  BY <1>2, <1>3 DEF IsVector
<1> QED BY <1>4, <1>5 DEF w

\* A vector with one nonzero element (SetElement).
LEMMA UnitVectorRight ==
  ASSUME NEW ind, NEW value \in Element
  PROVE  /\ IsVector(UnitVector(ind, value))
         /\ ind \in Entity => ElementAt(UnitVector(ind, value), ind) = value
<1> DEFINE w == UnitVector(ind, value)
           own == Owner(NEntities, ind)
<1>1. \A r \in Procs : w[r] = [k \in 1 .. MyLength(r) |-> IF r = own.rank /\ k = own.lind + 1 THEN value ELSE 0]
  BY DEF UnitVector
<1> HIDE DEF w
<1>2. IsVector(w)
  <2> SUFFICES ASSUME NEW r \in Procs
               PROVE  w[r] = [k \in 1 .. MyLength(r) |-> w[r][k]] /\ \A k \in 1 .. MyLength(r) : w[r][k] \in Element
    BY DEF IsVector
  <2>1. w[r] = [k \in 1 .. MyLength(r) |-> IF r = own.rank /\ k = own.lind + 1 THEN value ELSE 0]
    BY <1>1
  <2>2. 0 \in Element
    BY Sizes DEF Element
  <2> HIDE DEF own
  <2> QED BY <2>1, <2>2
<1>3. ASSUME ind \in Entity PROVE ElementAt(w, ind) = value
  <2>1. PICK i \in 0 .. ProcRows - 1, j \in 0 .. ProcCols - 1 : \E l \in 0 .. MyLocLength(NEntities, i, j) - 1 :
          Owner(NEntities, ind) = [rank |-> GetRank(i, j), lind |-> l]
    BY <1>3, ElementPlace
  <2>2. PICK l \in 0 .. MyLocLength(NEntities, i, j) - 1 : Owner(NEntities, ind) = [rank |-> GetRank(i, j), lind |-> l]
    BY <2>1
  <2>3. /\ ElementAt(w, ind) = w[GetRank(i, j)][l + 1]
        /\ GetRank(i, j) \in Procs /\ l + 1 \in 1 .. MyLength(GetRank(i, j))
    BY <2>2, ElementIs
  <2>4. own.rank = GetRank(i, j) /\ own.lind = l
    BY <2>2
  <2> QED BY <1>1, <2>3, <2>4
<1> QED BY <1>2, <1>3 DEF w

\* A nonzero in the row or in the column of an entity.
InRow(M, x) == \E e \in Nonzeros(M) : e[1] = x
InColumn(M, x) == \E e \in Nonzeros(M) : e[2] = x

\* They are where the blocks' entries are.
LEMMA NonzeroPlaces ==
  ASSUME NEW M, InBlocks(M), NEW x
  PROVE  /\ InRow(M, x) <=> \E r \in Procs : \E e \in M[r] : RowOf(r, e) = x
         /\ InColumn(M, x) <=> \E r \in Procs : \E e \in M[r] : ColOf(r, e) = x
<1>1. Nonzeros(M) = UNION {{<<RowOf(r, e), ColOf(r, e)>> : e \in M[r]} : r \in Procs}
  BY DEF Nonzeros, RowOf, ColOf
<1>2. \A r \in Procs : \A e \in M[r] : <<RowOf(r, e), ColOf(r, e)>> \in Nonzeros(M)
  BY <1>1
<1>3. ASSUME NEW p \in Nonzeros(M)
      PROVE  \E r \in Procs : \E e \in M[r] : p = <<RowOf(r, e), ColOf(r, e)>>
  BY <1>1
<1>4. \A r, e : <<RowOf(r, e), ColOf(r, e)>>[1] = RowOf(r, e) /\ <<RowOf(r, e), ColOf(r, e)>>[2] = ColOf(r, e)
  OBVIOUS
<1>5. InRow(M, x) <=> \E r \in Procs : \E e \in M[r] : RowOf(r, e) = x
  <2>1. ASSUME InRow(M, x) PROVE \E r \in Procs : \E e \in M[r] : RowOf(r, e) = x
    <3>1. PICK p \in Nonzeros(M) : p[1] = x
      BY <2>1 DEF InRow
    <3>2. PICK r \in Procs : \E e \in M[r] : p = <<RowOf(r, e), ColOf(r, e)>>
      BY <1>3
    <3>3. PICK e \in M[r] : p = <<RowOf(r, e), ColOf(r, e)>>
      BY <3>2
    <3> QED BY <1>4, <3>1, <3>3
  <2>2. ASSUME NEW r \in Procs, NEW e \in M[r], RowOf(r, e) = x PROVE InRow(M, x)
    BY <1>2, <1>4, <2>2 DEF InRow
  <2> QED BY <2>1, <2>2
<1>6. InColumn(M, x) <=> \E r \in Procs : \E e \in M[r] : ColOf(r, e) = x
  <2>1. ASSUME InColumn(M, x) PROVE \E r \in Procs : \E e \in M[r] : ColOf(r, e) = x
    <3>1. PICK p \in Nonzeros(M) : p[2] = x
      BY <2>1 DEF InColumn
    <3>2. PICK r \in Procs : \E e \in M[r] : p = <<RowOf(r, e), ColOf(r, e)>>
      BY <1>3
    <3>3. PICK e \in M[r] : p = <<RowOf(r, e), ColOf(r, e)>>
      BY <3>2
    <3> QED BY <1>4, <3>1, <3>3
  <2>2. ASSUME NEW r \in Procs, NEW e \in M[r], ColOf(r, e) = x PROVE InColumn(M, x)
    BY <1>2, <1>4, <2>2 DEF InColumn
  <2> QED BY <2>1, <2>2
<1> QED BY <1>5, <1>6

\* A column's reduction is 1 at the columns' entities that have a nonzero (Reduce, Column).
LEMMA ReduceColumnRight ==
  ASSUME NEW M, InBlocks(M)
  PROVE  /\ IsVector(ReduceColumn(M))
         /\ \A x \in Entity : ElementAt(ReduceColumn(M), x) = LogicalOr(InColumn(M, x))
<1> DEFINE w == ReduceColumn(M)
           part(i, j) == MyLocLength(NEntities, i, j)
           first(i, j) == RowLenUntil(NEntities, i, j)
           there(i, c) == \E q \in Procs : RankInProcRow(q) = i /\ \E e \in M[q] : e.col = c /\ e.val # 0
\* The process P(i,j) has in the end what P(j,i) reduced of its columns, which are those of
\* the process row i of the vector.
<1>1. ASSUME NEW i \in 0 .. ProcRows - 1, NEW j \in 0 .. ProcCols - 1
      PROVE  w[GetRank(i, j)] = [k \in 1 .. part(i, j) |-> LogicalOr(there(i, first(i, j) + k - 1))]
  <2> DEFINE s == GetRank(j, i)
             m == LocCols(NEntities, RankInProcRow(s))
             begin == PartStart(m, ProcRows, RankInProcCol(s))
  <2>1. GetComplementRank(GetRank(i, j)) = s /\ s \in Procs /\ GetRank(i, j) \in Procs
        /\ RankInProcRow(s) = i /\ RankInProcCol(s) = j
    <3>1. RankInProcCol(GetRank(i, j)) = i /\ RankInProcRow(GetRank(i, j)) = j /\ GetRank(i, j) \in Procs
      BY RankRight
    <3>2. GetComplementRank(GetRank(i, j)) = ProcCols * j + i
      BY <3>1 DEF GetComplementRank
    <3>3. ProcCols * j + i = j * ProcCols + i
      BY Sizes
    <3>4. i \in 0 .. ProcCols - 1 /\ j \in 0 .. ProcRows - 1
      BY Sizes
    <3>5. RankInProcCol(s) = j /\ RankInProcRow(s) = i /\ s \in Procs
      BY <3>4, RankRight
    <3> QED BY <3>1, <3>2, <3>3, <3>5 DEF GetRank
  <2>2. m = MyRowLength(NEntities, i)
    BY <2>1, Sizes DEF LocCols, MyRowLength
  <2>3. begin = first(i, j) /\ PartLength(m, ProcRows, RankInProcCol(s)) = part(i, j)
    BY <2>1, <2>2, Sizes DEF RowLenUntil, MyLocLength
  <2>4. ReduceColumnInPlace(M)[s] =
          [k \in 1 .. PartLength(m, ProcRows, RankInProcCol(s)) |->
             LogicalOr(\E q \in ProcCol(s) : \E e \in M[q] : e.col = begin + k - 1 /\ e.val # 0)]
    BY <2>1 DEF ReduceColumnInPlace
  <2>5. \A c : (\E q \in ProcCol(s) : \E e \in M[q] : e.col = c /\ e.val # 0) <=> there(i, c)
    <3>1. \A q : q \in ProcCol(s) <=> q \in Procs /\ RankInProcRow(q) = i
      BY <2>1 DEF ProcCol
    <3> QED BY <3>1
  <2>6. w[GetRank(i, j)] = ReduceColumnInPlace(M)[s]
    BY <2>1 DEF ReduceColumn
  <2> HIDE DEF w, part, first, there, s, m, begin
  <2>7. \A k : LogicalOr(\E q \in ProcCol(s) : \E e \in M[q] : e.col = begin + k - 1 /\ e.val # 0)
               = LogicalOr(there(i, begin + k - 1))
    BY <2>5 DEF LogicalOr
  <2> QED BY <2>3, <2>4, <2>6, <2>7, ZenonT(30)
<1> HIDE DEF w, part, first, there
<1>2. IsVector(w)
  <2> SUFFICES ASSUME NEW r \in Procs
               PROVE  w[r] = [k \in 1 .. MyLength(r) |-> w[r][k]] /\ \A k \in 1 .. MyLength(r) : w[r][k] \in Element
    BY DEF IsVector
  <2> DEFINE i == RankInProcCol(r)
             j == RankInProcRow(r)
  <2>1. i \in 0 .. ProcRows - 1 /\ j \in 0 .. ProcCols - 1 /\ r = GetRank(i, j)
    BY RankPlace
  <2>2. MyLength(r) = part(i, j)
    BY DEF MyLength, part
  <2> HIDE DEF i, j
  <2>3. w[r] = [k \in 1 .. part(i, j) |-> LogicalOr(there(i, first(i, j) + k - 1))]
    BY <1>1, <2>1
  <2>4. \A k : LogicalOr(there(i, first(i, j) + k - 1)) \in Element
    BY Sizes DEF LogicalOr, Element
  <2> QED BY <2>2, <2>3, <2>4
<1>3. ASSUME NEW x \in Entity PROVE ElementAt(w, x) = LogicalOr(InColumn(M, x))
  <2>1. PICK i \in 0 .. ProcRows - 1, j \in 0 .. ProcCols - 1 : \E l \in 0 .. MyLocLength(NEntities, i, j) - 1 :
          x = LengthUntil(NEntities, i, j) + l /\ Owner(NEntities, x) = [rank |-> GetRank(i, j), lind |-> l]
    BY ElementPlace
  <2>2. PICK l \in 0 .. MyLocLength(NEntities, i, j) - 1 :
          x = LengthUntil(NEntities, i, j) + l /\ Owner(NEntities, x) = [rank |-> GetRank(i, j), lind |-> l]
    BY <2>1
  <2>3. ElementAt(w, x) = w[GetRank(i, j)][l + 1]
    BY <2>2 DEF ElementAt
  <2> DEFINE a == PartStart(NEntities, ProcCols, i)
  <2>4. /\ a \in Nat /\ part(i, j) \in Nat /\ first(i, j) \in Nat /\ first(i, j) + part(i, j) <= MyRowLength(NEntities, i)
        /\ MyRowLength(NEntities, i) = PartLength(NEntities, ProcCols, i) /\ l \in 0 .. part(i, j) - 1
        /\ i \in 0 .. ProcCols - 1 /\ x = (a + first(i, j)) + l
    <3>1. MyRowLength(NEntities, i) \in Nat
      BY Sizes, RowLengthType
    <3>2. i \in 0 .. ProcCols - 1
      BY Sizes
    <3> QED BY <2>2, <3>1, <3>2, Sizes, PartTypes DEF part, first, RowLenUntil, MyLocLength, MyRowLength, LengthUntil
  <2> DEFINE c == first(i, j) + (l + 1) - 1
  <2>5. c = first(i, j) + l /\ c \in 0 .. PartLength(NEntities, ProcCols, i) - 1 /\ x = a + c /\ x - a = c /\ x \in Int
    <3> DEFINE f == first(i, j)
    <3>1. l \in Int /\ f \in Nat /\ c = f + (l + 1) - 1
      BY <2>4
    <3>2. c = f + l
      <4> HIDE DEF f, c
      <4> QED BY <3>1
    <3>3. f + l \in 0 .. PartLength(NEntities, ProcCols, i) - 1
      <4> DEFINE p == part(i, j)
                 m == PartLength(NEntities, ProcCols, i)
      <4>1. p \in Nat /\ f \in Nat /\ f + p <= m /\ l \in 0 .. p - 1
        BY <2>4, Zenon
      <4>2. m \in Nat
        BY <2>4, Sizes, PartTypes
      <4> HIDE DEF c, a, f, p, m
      <4>3. f + l \in 0 .. m - 1
        BY <4>1, <4>2
      <4> QED BY <4>3 DEF m
    <3>4. x = a + (f + l)
      <4> HIDE DEF c, a
      <4> QED BY <2>4
    <3>5. a \in Nat
      BY <2>4
    <3> HIDE DEF a, f, c
    <3>6. c \in Nat /\ x = a + c
      BY <3>1, <3>2, <3>3, <3>4
    <3> QED BY <3>2, <3>3, <3>5, <3>6 DEF f
  <2>6. w[GetRank(i, j)][l + 1] = LogicalOr(there(i, c))
    <3>1. l + 1 \in 1 .. part(i, j) /\ j \in 0 .. ProcCols - 1
      BY <2>4
    <3>2. w[GetRank(i, j)] = [k \in 1 .. part(i, j) |-> LogicalOr(there(i, first(i, j) + k - 1))]
      BY <1>1
    <3>3. w[GetRank(i, j)][l + 1] = LogicalOr(there(i, first(i, j) + (l + 1) - 1))
      BY <3>1, <3>2
    <3>4. first(i, j) + (l + 1) - 1 = c
      BY <2>4
    <3> QED BY <3>3, <3>4
  <2> HIDE DEF c
  <2>7. there(i, c) <=> InColumn(M, x)
    <3>1. ASSUME there(i, c) PROVE InColumn(M, x)
      <4>1. PICK q \in Procs : RankInProcRow(q) = i /\ \E e \in M[q] : e.col = c /\ e.val # 0
        BY <3>1 DEF there
      <4>2. PICK e \in M[q] : e.col = c
        BY <4>1
      <4>3. ColOf(q, e) = x
        BY <2>5, <4>1, <4>2 DEF ColOf, ColOffset
      <4> QED BY <4>3, NonzeroPlaces
    <3>2. ASSUME InColumn(M, x) PROVE there(i, c)
      <4>1. PICK q \in Procs : \E e \in M[q] : ColOf(q, e) = x
        BY <3>2, NonzeroPlaces
      <4>2. PICK e \in M[q] : ColOf(q, e) = x
        BY <4>1
      <4>3. e \in Block(q)
        BY DEF InBlocks
      <4>4. PartOf(NEntities, ProcCols, x) = RankInProcRow(q) /\ x - PartStart(NEntities, ProcCols, RankInProcRow(q)) = e.col
        BY <4>2, <4>3, EntryPlace
      <4>5. PartOf(NEntities, ProcCols, x) = i
        <5>1. x - PartStart(NEntities, ProcCols, i) \in 0 .. PartLength(NEntities, ProcCols, i) - 1
          BY <2>5
        <5> QED BY <2>4, <2>5, <5>1, Sizes, PartUnique
      <4>6. RankInProcRow(q) = i /\ e.col = c
        BY <2>5, <4>4, <4>5
      <4>7. e.val # 0
        BY <4>3, Sizes DEF Block
      <4> QED BY <4>6, <4>7 DEF there
    <3> QED BY <3>1, <3>2
  <2> QED BY <2>3, <2>6, <2>7 DEF LogicalOr
<1> QED BY <1>2, <1>3 DEF w

\* A vector, or in each process nothing of it yet.
IsVectorSoFar(v) ==
  \A r \in Procs : /\ IsSequence(v[r]) /\ Len(v[r]) \in {0, MyLength(r)}
                   /\ \A k \in DOMAIN v[r] : v[r][k] \in Element

\* A vector with all its elements is one whose processes hold all or nothing.
LEMMA VectorSoFar ==
  ASSUME NEW v, IsVector(v)
  PROVE  IsVectorSoFar(v)
<1> SUFFICES ASSUME NEW r \in Procs
             PROVE  IsSequence(v[r]) /\ Len(v[r]) \in {0, MyLength(r)} /\ \A k \in DOMAIN v[r] : v[r][k] \in Element
  BY DEF IsVectorSoFar
<1> DEFINE n == MyLength(r)
<1>1. n \in Nat
  BY LengthType
<1>2. v[r] = [k \in 1 .. n |-> v[r][k]] /\ \A k \in 1 .. n : v[r][k] \in Element
  BY DEF IsVector
<1> HIDE DEF n
<1>3. Len(v[r]) = n /\ DOMAIN v[r] = 1 .. n
  BY <1>1, <1>2
<1> QED BY <1>1, <1>2, <1>3 DEF IsSequence, n

\* A row's reduction is 1 at the rows' entities that have a nonzero, whatever the vector was
\* before (Reduce, Row).
LEMMA ReduceRowRight ==
  ASSUME NEW M, InBlocks(M), NEW v, IsVectorSoFar(v)
  PROVE  /\ IsVector(ReduceRow(M, v))
         /\ \A x \in Entity : InRow(M, x) => ElementAt(ReduceRow(M, v), x) = 1
<1> DEFINE w == ReduceRow(M, v)
           old(r) == Resized(v[r], MyLength(r))
           first(r) == RowLenUntil(NEntities, RankInProcCol(r), RankInProcRow(r))
           there(r, c) == \E q \in ProcRow(r) : \E e \in M[q] : e.row = c /\ e.val # 0
           none(r) == \A q \in ProcRow(r) : M[q] = {}
<1>1. ASSUME NEW r \in Procs
      PROVE  w[r] = IF none(r) THEN old(r)
                    ELSE [k \in DOMAIN old(r) |-> LogicalOr(old(r)[k] # 0 \/ there(r, first(r) + k - 1))]
  BY DEF ReduceRow
<1>2. ASSUME NEW r \in Procs
      PROVE  old(r) = [k \in 1 .. MyLength(r) |-> old(r)[k]] /\ \A k \in 1 .. MyLength(r) : old(r)[k] \in Element
  <2> DEFINE n == MyLength(r)
             arr == v[r]
  <2>1. n \in Nat
    BY LengthType
  <2>2. IsSequence(arr) /\ \A k \in DOMAIN arr : arr[k] \in Element
    BY DEF IsVectorSoFar
  <2> HIDE DEF n, arr
  <2>3. old(r) = [k \in 1 .. n |-> IF k <= Len(arr) THEN arr[k] ELSE 0]
    BY DEF Resized, n, arr
  <2>4. DOMAIN arr = 1 .. Len(arr) /\ Len(arr) \in Nat
    BY <2>2 DEF IsSequence
  <2>5. 0 \in Element
    BY Sizes DEF Element
  <2> HIDE DEF old
  <2>6. ASSUME NEW k \in 1 .. n PROVE old(r)[k] \in Element
    <3>1. CASE k <= Len(arr)
      <4>1. k \in DOMAIN arr
        BY <2>1, <2>4, <3>1
      <4> QED BY <2>2, <2>3, <3>1, <4>1
    <3>2. CASE ~ (k <= Len(arr))
      BY <2>3, <2>5, <3>2
    <3> QED BY <3>1, <3>2
  <2> QED BY <2>3, <2>6 DEF n
<1> HIDE DEF w, old, first, there, none
<1>3. IsVector(w)
  <2> SUFFICES ASSUME NEW r \in Procs
               PROVE  w[r] = [k \in 1 .. MyLength(r) |-> w[r][k]] /\ \A k \in 1 .. MyLength(r) : w[r][k] \in Element
    BY DEF IsVector
  <2>1. CASE none(r)
    BY <1>1, <1>2, <2>1
  <2>2. CASE ~ none(r)
    <3>1. w[r] = [k \in 1 .. MyLength(r) |-> LogicalOr(old(r)[k] # 0 \/ there(r, first(r) + k - 1))]
      BY <1>1, <1>2, <2>2
    <3>2. \A b : LogicalOr(b) \in Element
      BY Sizes DEF LogicalOr, Element
    <3> QED BY <3>1, <3>2
  <2> QED BY <2>1, <2>2
<1>4. ASSUME NEW x \in Entity, InRow(M, x) PROVE ElementAt(w, x) = 1
  <2>1. PICK i \in 0 .. ProcRows - 1, j \in 0 .. ProcCols - 1 : \E l \in 0 .. MyLocLength(NEntities, i, j) - 1 :
          x = LengthUntil(NEntities, i, j) + l /\ Owner(NEntities, x) = [rank |-> GetRank(i, j), lind |-> l]
    BY ElementPlace
  <2>2. PICK l \in 0 .. MyLocLength(NEntities, i, j) - 1 :
          x = LengthUntil(NEntities, i, j) + l /\ Owner(NEntities, x) = [rank |-> GetRank(i, j), lind |-> l]
    BY <2>1
  <2> DEFINE r == GetRank(i, j)
             a == PartStart(NEntities, ProcRows, i)
             f == RowLenUntil(NEntities, i, j)
             p == MyLocLength(NEntities, i, j)
             m == PartLength(NEntities, ProcRows, i)
             c == f + (l + 1) - 1
  <2>3. ElementAt(w, x) = w[r][l + 1]
    BY <2>2 DEF ElementAt
  <2>4. r \in Procs /\ l + 1 \in 1 .. MyLength(r) /\ RankInProcCol(r) = i /\ RankInProcRow(r) = j
    BY <2>2, ElementIs
  <2>5. m = MyRowLength(NEntities, i) /\ m \in Nat /\ a \in Nat
    BY Sizes, PartTypes DEF MyRowLength
  <2>6. f = PartStart(m, ProcCols, j) /\ p = PartLength(m, ProcCols, j)
    BY <2>5 DEF RowLenUntil, MyLocLength
  <2>7. f \in Nat /\ p \in Nat /\ f + p <= m
    <3> HIDE DEF f, p, m
    <3> QED BY <2>5, <2>6, Sizes, PartTypes
  <2>8. x = (a + f) + l /\ l \in 0 .. p - 1 /\ first(r) = f
    BY <2>2, <2>4 DEF LengthUntil, first
  <2> HIDE DEF a, f, p, m, r, c
  <2>9. c \in 0 .. m - 1 /\ x - a = c /\ x \in Int
    <3>1. c = f + (l + 1) - 1
      BY DEF c
    <3>2. c = f + l /\ f + l \in 0 .. m - 1
      BY <2>5, <2>7, <2>8, <3>1
    <3>3. x = a + c /\ c \in Nat
      BY <2>5, <2>7, <2>8, <3>2
    <3> QED BY <2>5, <3>2, <3>3
  <2>10. PartOf(NEntities, ProcRows, x) = i
    <3>1. x - PartStart(NEntities, ProcRows, i) \in 0 .. PartLength(NEntities, ProcRows, i) - 1
      BY <2>9 DEF a, m
    <3> QED BY <2>9, <3>1, Sizes, PartUnique
  <2>11. PICK q \in Procs : \E e \in M[q] : RowOf(q, e) = x
    BY <1>4, NonzeroPlaces
  <2>12. PICK e \in M[q] : RowOf(q, e) = x
    BY <2>11
  <2>13. e \in Block(q)
    BY DEF InBlocks
  <2>14. PartOf(NEntities, ProcRows, x) = RankInProcCol(q) /\ x - PartStart(NEntities, ProcRows, RankInProcCol(q)) = e.row
    BY <2>12, <2>13, EntryPlace
  <2>15. RankInProcCol(q) = i /\ e.row = c
    BY <2>9, <2>10, <2>14 DEF a
  <2>16. e.val # 0
    BY <2>13, Sizes DEF Block
  <2>17. q \in ProcRow(r)
    BY <2>4, <2>15 DEF ProcRow
  <2>18. ~ none(r) /\ there(r, c)
    BY <2>15, <2>16, <2>17 DEF none, there
  <2>19. w[r] = [k \in 1 .. MyLength(r) |-> LogicalOr(old(r)[k] # 0 \/ there(r, f + k - 1))]
    BY <1>1, <1>2, <2>4, <2>8, <2>18, ZenonT(30)
  <2>20. w[r][l + 1] = LogicalOr(old(r)[l + 1] # 0 \/ there(r, c))
    BY <2>4, <2>19 DEF c
  <2> QED BY <2>3, <2>18, <2>20 DEF LogicalOr
<1> QED BY <1>3, <1>4 DEF w

\* The diagonal that a line's reduction leaves in the vector (diagonalizeV): the predicate's
\* number for the entities that have a nonzero, exactly so if columns are reduced.
LEMMA DiagonalRight ==
  ASSUME NEW d, d.scale \in 1 .. ElementRange - 1, InBlocks(matrices[d.mat]), IsVectorSoFar(dm)
  PROVE  /\ IsVector(Diagonal(d))
         /\ \A x \in Entity : d.dim = "Column" \/ Reduction(matrices[d.mat], d, x) # 0 => ElementAt(Diagonal(d), x) = Reduction(matrices[d.mat], d, x)
<1> DEFINE M == matrices[d.mat]
           reduced == IF d.dim = "Column" THEN ReduceColumn(M) ELSE ReduceRow(M, dm)
           s == d.scale
           w == Diagonal(d)
<1>1. IsVector(reduced)
  BY ReduceColumnRight, ReduceRowRight
<1>2. /\ d.dim = "Column" => \A x \in Entity : ElementAt(reduced, x) = LogicalOr(InColumn(M, x))
      /\ d.dim # "Column" => \A x \in Entity : InRow(M, x) => ElementAt(reduced, x) = 1
  BY ReduceColumnRight, ReduceRowRight
<1>3. s \in Nat /\ s # 0 /\ s < ElementRange
  BY Sizes
<1>4. w = IF s = 1 THEN reduced ELSE Scaled(reduced, s)
  BY DEF Diagonal
<1>5. ASSUME NEW x PROVE Reduction(M, d, x) = IF (IF d.dim = "Column" THEN InColumn(M, x) ELSE InRow(M, x)) THEN s ELSE 0
  BY DEF Reduction, InColumn, InRow
<1> HIDE DEF M, reduced, s, w
<1>6. IsVector(w) /\ \A x \in Entity : ElementAt(w, x) = (ElementAt(reduced, x) * s) % ElementRange
  <2>1. CASE s = 1
    <3>1. ASSUME NEW x \in Entity PROVE ElementAt(reduced, x) = (ElementAt(reduced, x) * 1) % ElementRange
      <4> DEFINE b == ElementAt(reduced, x)
      <4>1. b \in 0 .. ElementRange - 1
        BY <1>1, ElementType DEF Element
      <4> HIDE DEF b
      <4>2. b * 1 = b /\ b % ElementRange = b
        BY <4>1, Sizes
      <4> QED BY <4>2 DEF b
    <3> QED BY <1>1, <1>4, <2>1, <3>1
  <2>2. CASE s # 1
    BY <1>1, <1>3, <1>4, <2>2, ScaledRight
  <2> QED BY <2>1, <2>2
<1>7. (1 * s) % ElementRange = s /\ (0 * s) % ElementRange = 0
  <2>1. 1 * s = s /\ 0 * s = 0
    BY <1>3
  <2>2. s % ElementRange = s /\ 0 % ElementRange = 0
    BY <1>3, Sizes
  <2> QED BY <2>1, <2>2
<1>8. ASSUME NEW x \in Entity, d.dim = "Column" \/ Reduction(M, d, x) # 0 PROVE ElementAt(w, x) = Reduction(M, d, x)
  <2>1. CASE d.dim = "Column"
    <3>1. ElementAt(reduced, x) = IF InColumn(M, x) THEN 1 ELSE 0
      BY <1>2, <2>1 DEF LogicalOr
    <3> QED BY <1>5, <1>6, <1>7, <2>1, <3>1
  <2>2. CASE d.dim # "Column"
    <3>1. InRow(M, x)
      BY <1>5, <1>8, <2>2
    <3>2. ElementAt(reduced, x) = 1
      BY <1>2, <2>2, <3>1
    <3> QED BY <1>5, <1>6, <1>7, <2>2, <3>1, <3>2
  <2> QED BY <2>1, <2>2
<1> QED BY <1>6, <1>8 DEF w, M

-----------------------------------------------------------------------------
(* What an answer has. *)

\* An assignment has what a line asks for.
LineHolds(l, ans) ==
  l.op # "malformed" =>
    /\ l.mat[1] \in DOMAIN ans /\ l.mat[2] \in DOMAIN ans
    /\ l.op = "select" =>
         \E e \in data : /\ e.val = l.diag.scale
                         /\ ans[l.mat[1]] = (IF l.transposed THEN e.col ELSE e.row)
                         /\ ans[l.mat[2]] = (IF l.transposed THEN e.row ELSE e.col)
    /\ l.diag.kind = "constant" => ans[Restricted(l)] = l.diag.pos

Extends(more, ans) == DOMAIN ans \subseteq DOMAIN more /\ \A n \in DOMAIN ans : more[n] = ans[n]

\* It stays so when the assignment is extended.
LEMMA HoldsOn ==
  ASSUME NEW l, NEW ans, LineHolds(l, ans), NEW more, Extends(more, ans)
  PROVE  LineHolds(l, more)
<1> SUFFICES ASSUME l.op # "malformed" PROVE LineHolds(l, more)
  BY DEF LineHolds
<1>1. l.mat[1] \in DOMAIN ans /\ l.mat[2] \in DOMAIN ans /\ Restricted(l) \in {l.mat[1], l.mat[2]}
  BY DEF LineHolds, Restricted
<1>2. /\ l.mat[1] \in DOMAIN more /\ l.mat[2] \in DOMAIN more
      /\ more[l.mat[1]] = ans[l.mat[1]] /\ more[l.mat[2]] = ans[l.mat[2]]
      /\ more[Restricted(l)] = ans[Restricted(l)]
  BY <1>1 DEF Extends
<1> QED BY <1>2 DEF LineHolds

\* What a line makes of the assignments so far has it, and extends one of them.
LEMMA ExtendedRight ==
  ASSUME NEW l \in LineForms, NEW some, l.op \notin {"select", "malformed"} =>
           \A ans \in some : l.mat[1] \in DOMAIN ans /\ l.mat[2] \in DOMAIN ans
  PROVE  \A more \in Extended(l, some, data) : LineHolds(l, more) /\ \E ans \in some : Extends(more, ans)
<1>0. l.op \in {"select", "left", "right", "malformed"} /\ l.transposed \in BOOLEAN
  BY DEF LineForms
<1>1. ASSUME l.op = "malformed", NEW more \in Extended(l, some, data)
      PROVE  LineHolds(l, more) /\ \E ans \in some : Extends(more, ans)
  BY <1>1 DEF Extended, LineHolds, Extends
<1>2. ASSUME l.op \notin {"select", "malformed"}, NEW more \in Extended(l, some, data)
      PROVE  LineHolds(l, more) /\ \E ans \in some : Extends(more, ans)
  <2>1. more \in some /\ (l.diag.kind = "constant" => more[Restricted(l)] = l.diag.pos)
    BY <1>2 DEF Extended, WithConstant
  <2>2. Extends(more, more)
    BY DEF Extends
  <2>3. LineHolds(l, more)
    BY <1>2, <2>1 DEF LineHolds
  <2> QED BY <2>1, <2>2, <2>3
<1>3. ASSUME l.op = "select", NEW more \in Extended(l, some, data)
      PROVE  LineHolds(l, more) /\ \E ans \in some : Extends(more, ans)
  <2>1. more \in WithTriple(l, some, data) /\ (l.diag.kind = "constant" => more[Restricted(l)] = l.diag.pos)
    BY <1>3 DEF Extended, WithConstant
  <2>2. PICK ans \in some : \E e \in TriplesOf(l, data) : Agree(ans, Assigned(l, e)) /\ more = Joined(ans, Assigned(l, e))
    <3>1. PICK p \in some \X {Assigned(l, e) : e \in TriplesOf(l, data)} : Agree(p[1], p[2]) /\ more = Joined(p[1], p[2])
      BY <2>1 DEF WithTriple
    <3> QED BY <3>1
  <2>3. PICK e \in TriplesOf(l, data) : Agree(ans, Assigned(l, e)) /\ more = Joined(ans, Assigned(l, e))
    BY <2>2
  <2> DEFINE a == Assigned(l, e)
             m == l.mat[1]
             n == l.mat[2]
  <2>4. e \in data /\ e.val = l.diag.scale /\ (m = n => e.row = e.col)
    BY DEF TriplesOf
  <2>5. DOMAIN a = {m, n}
    BY DEF Assigned
  <2>6. a[m] = (IF l.transposed THEN e.col ELSE e.row)
    BY <1>0 DEF Assigned
  <2>7. a[n] = (IF l.transposed THEN e.row ELSE e.col)
    <3>1. CASE m = n
      BY <2>4, <2>6, <3>1
    <3>2. CASE m # n
      BY <1>0, <3>2 DEF Assigned
    <3> QED BY <3>1, <3>2
  <2> HIDE DEF a
  <2>8. DOMAIN more = DOMAIN ans \cup {m, n} /\ \A k \in DOMAIN more : more[k] = IF k \in DOMAIN ans THEN ans[k] ELSE a[k]
    BY <2>3, <2>5 DEF Joined, a
  <2>9. \A k \in DOMAIN ans \cap {m, n} : ans[k] = a[k]
    BY <2>3, <2>5 DEF Agree, a
  <2>10. m \in DOMAIN more /\ n \in DOMAIN more /\ more[m] = a[m] /\ more[n] = a[n]
    BY <2>8, <2>9
  <2>11. Extends(more, ans)
    BY <2>8 DEF Extends
  <2>12. LineHolds(l, more)
    BY <2>1, <2>4, <2>6, <2>7, <2>10 DEF LineHolds
  <2> QED BY <2>11, <2>12
<1> QED BY <1>0, <1>1, <1>2, <1>3

\* The assignments after each line are those that it makes of the ones before it.
SomeRight(some) ==
  /\ some[0] = {<<>>} /\ \A k \in 1 .. Len(script.lines) : some[k] = Extended(script.lines[k], some[k - 1], data)
  /\ Assignments(script.lines, data) = some[Len(script.lines)]

\* There are such sets of assignments.
LEMMA AssignmentsRight ==
  ASSUME Len(script.lines) \in Nat
  PROVE  \E some : SomeRight(some)
<1> DEFINE L == script.lines
           n == Len(L)
           Body(g) == [k \in 0 .. n |-> IF k = 0 THEN {<<>>} ELSE Extended(L[k], g[k - 1], data)]
           some == CHOOSE g : g = Body(g)
<1>1. n \in Nat
  OBVIOUS
<1>2. some = Body(some)
  <2> DEFINE Upto(g, m) == g = [k \in 0 .. m |-> IF k = 0 THEN {<<>>} ELSE Extended(L[k], g[k - 1], data)]
             S == {m \in 0 .. n : \E g : Upto(g, m)}
  <2>1. 0 \in S
    <3> DEFINE g == [k \in 0 .. 0 |-> {<<>>}]
    <3>1. g = [k \in 0 .. 0 |-> IF k = 0 THEN {<<>>} ELSE Extended(L[k], g[k - 1], data)]
      OBVIOUS
    <3> HIDE DEF g
    <3>2. \E h : Upto(h, 0)
      BY <3>1
    <3> QED BY <1>1, <3>2
  <2>2. ASSUME NEW m \in 0 .. n - 1, m \in S PROVE m + 1 \in S
    <3>1. PICK g : Upto(g, m)
      BY <2>2
    <3> DEFINE h == [k \in 0 .. m + 1 |-> IF k = m + 1 THEN Extended(L[k], g[m], data) ELSE g[k]]
    <3>2. ASSUME NEW k \in 0 .. m + 1 PROVE h[k] = IF k = 0 THEN {<<>>} ELSE Extended(L[k], h[k - 1], data)
      <4>1. CASE k = m + 1
        <5>1. k # 0 /\ k - 1 = m /\ m \in 0 .. m + 1 /\ m # m + 1
          BY <4>1
        <5>2. h[k - 1] = g[m] /\ h[k] = Extended(L[k], g[m], data)
          BY <4>1, <5>1
        <5> QED BY <5>1, <5>2
      <4>2. CASE k # m + 1
        <5>1. k \in 0 .. m /\ h[k] = g[k]
          BY <4>2
        <5>2. g[k] = IF k = 0 THEN {<<>>} ELSE Extended(L[k], g[k - 1], data)
          BY <3>1, <5>1
        <5>3. k # 0 => k - 1 \in 0 .. m + 1 /\ k - 1 # m + 1
          BY <5>1
        <5>4. k # 0 => h[k - 1] = g[k - 1]
          BY <5>3
        <5> QED BY <5>1, <5>2, <5>4
      <4> QED BY <4>1, <4>2
    <3>3. h = [k \in 0 .. m + 1 |-> h[k]]
      OBVIOUS
    <3> HIDE DEF h
    <3>4. Upto(h, m + 1)
      BY <3>2, <3>3
    <3>5. m + 1 \in 0 .. n
      BY <1>1
    <3> HIDE DEF Upto
    <3> QED BY <3>4, <3>5
  <2>3. n \in S
    <3> HIDE DEF S, n
    <3>1. 0 .. n \subseteq S
      BY <1>1, <2>1, <2>2, BoundedInduction
    <3> QED BY <1>1, <3>1
  <2>4. \E g : g = Body(g)
    BY <2>3
  <2> HIDE DEF Body
  <2> QED BY <2>4, Zenon
<1>3. some[0] = {<<>>} /\ \A k \in 1 .. n : some[k] = Extended(L[k], some[k - 1], data)
  <2>1. Body(some)[0] = {<<>>}
    BY <1>1
  <2>2. \A k \in 1 .. n : Body(some)[k] = Extended(L[k], some[k - 1], data)
    BY <1>1
  <2> HIDE DEF Body, some
  <2> QED BY <1>2, <2>1, <2>2
<1>4. Assignments(script.lines, data) = some[n]
  BY DEF Assignments
<1> HIDE DEF some, Body
<1> QED BY <1>3, <1>4 DEF SomeRight

\* An answer has what every line of its query asks for.
LEMMA AnswerHolds ==
  ASSUME WellFormed(script), NEW ans \in Answers
  PROVE  \A i \in 1 .. Len(script.lines) : LineHolds(script.lines[i], ans)
<1> DEFINE L == script.lines
           n == Len(L)
<1>1. L \in Seq(LineForms) /\ n \in Nat /\ \A i \in 1 .. n : L[i] \in LineForms
  BY DEF WellFormed
<1>2. PICK some : SomeRight(some)
  BY <1>1, AssignmentsRight
<1>3. some[0] = {<<>>} /\ \A k \in 1 .. n : some[k] = Extended(L[k], some[k - 1], data)
  BY <1>2 DEF SomeRight
<1>4. ans \in some[n]
  BY <1>2 DEF Answers, AnswersTo, SomeRight
<1> HIDE DEF L, n
<1> DEFINE T == {k \in 0 .. n : \A a \in some[k] : \A i \in 1 .. k : LineHolds(L[i], a)}
<1>5. 0 \in T
  BY <1>1
<1>6. ASSUME NEW k \in 0 .. n - 1, k \in T PROVE k + 1 \in T
  <2> DEFINE m == k + 1
             l == L[m]
  <2>1. m \in 1 .. n /\ m - 1 = k /\ m \in 0 .. n /\ k \in Nat /\ 1 .. m = (1 .. k) \cup {m}
    BY <1>1
  <2> HIDE DEF m
  <2>2. some[m] = Extended(l, some[k], data) /\ l \in LineForms
    BY <1>1, <1>3, <2>1
  <2>3. \A a \in some[k] : \A i \in 1 .. k : LineHolds(L[i], a)
    BY <1>6
  <2>4. ASSUME l.op \notin {"select", "malformed"}, NEW a \in some[k]
        PROVE  l.mat[1] \in DOMAIN a /\ l.mat[2] \in DOMAIN a
    <3>1. LineWellFormed(script, m)
      BY <2>1, <2>4 DEF WellFormed, L, n
    <3>2. l.mat \in Earlier(script, m)
      BY <2>4, <3>1 DEF LineWellFormed, L
    <3>3. PICK j \in 1 .. m - 1 : L[j].op # "malformed" /\ L[j].mat = l.mat
      BY <3>2 DEF Earlier, L
    <3>4. LineHolds(L[j], a)
      BY <2>1, <2>3, <3>3
    <3> QED BY <3>3, <3>4 DEF LineHolds
  <2>5. ASSUME NEW a \in some[m], NEW i \in 1 .. m PROVE LineHolds(L[i], a)
    <3> HIDE DEF l
    <3>1. LineHolds(l, a) /\ \E b \in some[k] : Extends(a, b)
      BY <2>2, <2>4, ExtendedRight
    <3>2. PICK b \in some[k] : Extends(a, b)
      BY <3>1
    <3>3. CASE i = m
      BY <3>1, <3>3 DEF l
    <3>4. CASE i # m
      <4>1. LineHolds(L[i], b)
        BY <2>1, <2>3, <3>4
      <4> QED BY <3>2, <4>1, HoldsOn
    <3> QED BY <3>3, <3>4
  <2> QED BY <2>1, <2>5 DEF m
<1>7. n \in T
  <2> HIDE DEF T
  <2>1. 0 .. n \subseteq T
    BY <1>1, <1>5, <1>6, BoundedInduction
  <2> QED BY <1>1, <2>1
<1> QED BY <1>4, <1>7 DEF L, n

-----------------------------------------------------------------------------
(* The invariant. *)

\* The graph is what was read; the query is one of the program's.
Given ==
  /\ data \in SUBSET Triple /\ nonisov \in Renumberings /\ G = ReadGraph
  /\ script \in Scripts
  /\ script.program = "magiqScal" => \E k \in DOMAIN LubmQueries : script = LubmQueries[k]

Progress ==
  /\ phase \in {"query_execution", "result_generation", "empty", "error", "done"}
  /\ repeat \in 1 .. MaxRepeat
  /\ line \in 1 .. Len(script.lines) + 1
  /\ phase \in {"query_execution", "empty"} => \A i \in 1 .. line - 1 : script.lines[i].op # "malformed"

MatricesInBlocks ==
  /\ DOMAIN matrices = Names(script)
  /\ \A n \in DOMAIN matrices : matrices[n] # NoMatrix => InBlocks(matrices[n])
  /\ phase \in {"query_execution", "empty"} =>
       \A i \in 1 .. line - 1 : matrices[script.lines[i].mat] # NoMatrix

\* The place of an answer's entities for two labels.
Place(ans, n) == Numbered(nonisov, ans[n])

\* A matrix that was computed has, for each answer, an entry with the value 1: the semiring
\* gives 1 for the predicate of the query, and products of ones stay.
AnswersKept ==
  phase \in {"query_execution", "empty"} =>
    \A ans \in Answers : \A i \in 1 .. line - 1 :
      LET n == script.lines[i].mat IN Has(matrices[n], Place(ans, n[1]), Place(ans, n[2]), 1)

IInv == Given /\ Progress /\ MatricesInBlocks /\ IsVectorSoFar(dm) /\ AnswersKept /\ DiagonalCovers

\* The places of entries are entities.
LEMMA HasPlace ==
  ASSUME NEW M, InBlocks(M), NEW x, NEW y, NEW val, Has(M, x, y, val)
  PROVE  /\ x \in Entity /\ y \in Entity /\ <<x, y>> \in Nonzeros(M)
         /\ InRow(M, x) /\ InColumn(M, y)
<1>1. PICK r \in Procs : \E e \in M[r] : RowOf(r, e) = x /\ ColOf(r, e) = y
  BY DEF Has
<1>2. PICK e \in M[r] : RowOf(r, e) = x /\ ColOf(r, e) = y
  BY <1>1
<1>3. e \in Block(r)
  BY DEF InBlocks
<1>4. x \in Entity /\ y \in Entity
  BY <1>2, <1>3, EntryPlace
<1>5. InRow(M, x) /\ InColumn(M, y)
  BY <1>2, NonzeroPlaces
<1>6. Nonzeros(M) = UNION {{<<RowOf(q, d), ColOf(q, d)>> : d \in M[q]} : q \in Procs}
  BY DEF Nonzeros, RowOf, ColOf
<1>7. <<x, y>> \in Nonzeros(M)
  BY <1>2, <1>6
<1> QED BY <1>4, <1>5, <1>7

\* An entity keeps being one when it is numbered anew.
LEMMA NumberedEntity ==
  ASSUME NEW p \in Renumberings, NEW x \in Entity
  PROVE  Numbered(p, x) \in Entity
BY RenumberingsAssumption DEF Numbered

\* The graph has each triple (the load).
LEMMA GraphRight ==
  ASSUME Given
  PROVE  /\ InBlocks(G)
         /\ \A e \in data : Has(G, Numbered(nonisov, e.row), Numbered(nonisov, e.col), e.val)
<1> DEFINE new(e) == [row |-> Numbered(nonisov, e.row), col |-> Numbered(nonisov, e.col), val |-> e.val]
           entries == {new(e) : e \in data}
<1>1. \A e \in data : new(e) \in Triple
  <2> SUFFICES ASSUME NEW e \in data PROVE new(e) \in Triple
    OBVIOUS
  <2>1. e \in Triple /\ nonisov \in Renumberings
    BY DEF Given
  <2>2. e.row \in Entity /\ e.col \in Entity /\ e.val \in 1 .. ElementRange - 1
    BY <2>1 DEF Triple
  <2>3. Numbered(nonisov, e.row) \in Entity /\ Numbered(nonisov, e.col) \in Entity
    BY <2>1, <2>2, NumberedEntity
  <2> QED BY <2>2, <2>3 DEF Triple
<1>2. G = Scatter(entries)
  BY DEF Given, ReadGraph
<1>3. entries \in SUBSET Triple
  BY <1>1
<1>4. InBlocks(Scatter(entries)) /\ \A t \in entries : Has(Scatter(entries), t.row, t.col, t.val)
  <2> HIDE DEF entries
  <2> QED BY <1>3, ScatterRight
<1>5. ASSUME NEW e \in data
      PROVE  Has(G, Numbered(nonisov, e.row), Numbered(nonisov, e.col), e.val)
  <2>1. new(e) \in entries
    OBVIOUS
  <2>2. new(e).row = Numbered(nonisov, e.row) /\ new(e).col = Numbered(nonisov, e.col) /\ new(e).val = e.val
    OBVIOUS
  <2> HIDE DEF new, entries
  <2> QED BY <1>2, <1>4, <2>1, <2>2
<1> QED BY <1>2, <1>4, <1>5

\* Of two labels of which one is the other's, or is made equal to it by a filter, an answer
\* has one entity.
LEMMA EquatedRight ==
  ASSUME NEW ans \in Answers, NEW m, NEW n, Equated(script, m, n)
  PROVE  ans[m] = ans[n]
<1>1. CASE m = n
  BY <1>1
<1>2. CASE m # n
  <2>1. PICK i \in DOMAIN script.results :
          script.results[i].op = "filter" /\ {script.results[i].mat[1], script.results[i].rename} = {m, n}
    BY <1>2 DEF Equated
  <2>2. ans[script.results[i].mat[1]] = ans[script.results[i].rename]
    BY <2>1 DEF Answers, AnswersTo
  <2> QED BY <2>1, <2>2
<1> QED BY <1>1, <1>2

-----------------------------------------------------------------------------
(* A line of the execution. *)

\* When a line can be executed.
Ready == phase = "query_execution" /\ line <= Len(script.lines) /\ Line.op # "malformed"

\* The next line is in a form the program reads, and the matrices it reads were computed
\* and have the answers' entries.
LEMMA LineRight ==
  ASSUME IInv, Ready
  PROVE  /\ line \in 1 .. Len(script.lines) /\ Len(script.lines) \in Nat
         /\ Line \in LineForms /\ WellFormed(script) /\ LineWellFormed(script, line)
         /\ Line.mat \in DOMAIN matrices
         /\ \A n \in Earlier(script, line) :
              /\ InBlocks(matrices[n])
              /\ \A ans \in Answers : Has(matrices[n], Place(ans, n[1]), Place(ans, n[2]), 1)
<1>1. WellFormed(script)
  BY ScriptsAssumption DEF IInv, Given
<1>2. Len(script.lines) \in Nat /\ line \in 1 .. Len(script.lines)
  BY <1>1 DEF WellFormed, IInv, Progress, Ready
<1>3. Line \in LineForms /\ LineWellFormed(script, line)
  BY <1>1, <1>2 DEF WellFormed, Ready, Line
<1>4. Line.mat \in DOMAIN matrices
  <2>1. DOMAIN script.lines = 1 .. Len(script.lines)
    BY <1>1 DEF WellFormed
  <2> QED BY <1>2, <2>1 DEF IInv, MatricesInBlocks, Names, Line
<1>5. ASSUME NEW n \in Earlier(script, line)
      PROVE  /\ InBlocks(matrices[n])
             /\ \A ans \in Answers : Has(matrices[n], Place(ans, n[1]), Place(ans, n[2]), 1)
  <2>1. PICK i \in 1 .. line - 1 : script.lines[i].mat = n
    BY DEF Earlier
  <2>2. i \in DOMAIN script.lines
    BY <1>1, <1>2 DEF WellFormed
  <2>3. n \in DOMAIN matrices /\ matrices[n] # NoMatrix
    BY <2>1, <2>2 DEF IInv, MatricesInBlocks, Names, Ready
  <2>4. InBlocks(matrices[n])
    BY <2>3 DEF IInv, MatricesInBlocks
  <2>5. \A ans \in Answers : Has(matrices[n], Place(ans, n[1]), Place(ans, n[2]), 1)
    BY <2>1 DEF IInv, AnswersKept, Ready
  <2> QED BY <2>4, <2>5
<1> QED BY <1>1, <1>2, <1>3, <1>4, <1>5

\* The operand of a line, and the value that an answer's entry has in it.
Operand == IF Line.op = "select" THEN G ELSE matrices[Line.mat]
Turned == Line.op = "select" /\ Line.transposed

\* What a line works on, selected or read, has the answers' entries.
LEMMA OperandRight ==
  ASSUME IInv, Ready
  PROVE  /\ InBlocks(Operand)
         /\ \A ans \in Answers :
              LET x == Place(ans, Line.mat[1])
                  y == Place(ans, Line.mat[2])
              IN Has(Operand, IF Turned THEN y ELSE x, IF Turned THEN x ELSE y, Line.diag.scale)
<1>1. /\ line \in 1 .. Len(script.lines) /\ WellFormed(script) /\ LineWellFormed(script, line)
      /\ \A n \in Earlier(script, line) :
           InBlocks(matrices[n]) /\ \A ans \in Answers : Has(matrices[n], Place(ans, n[1]), Place(ans, n[2]), 1)
  BY LineRight
<1>2. CASE Line.op = "select"
  <2>1. InBlocks(G) /\ \A e \in data : Has(G, Numbered(nonisov, e.row), Numbered(nonisov, e.col), e.val)
    BY GraphRight DEF IInv
  <2>2. ASSUME NEW ans \in Answers
        PROVE  LET x == Place(ans, Line.mat[1])
                   y == Place(ans, Line.mat[2])
               IN Has(G, IF Turned THEN y ELSE x, IF Turned THEN x ELSE y, Line.diag.scale)
    <3>1. LineHolds(Line, ans)
      BY <1>1, AnswerHolds DEF Line
    <3>2. PICK e \in data : /\ e.val = Line.diag.scale
                            /\ ans[Line.mat[1]] = (IF Line.transposed THEN e.col ELSE e.row)
                            /\ ans[Line.mat[2]] = (IF Line.transposed THEN e.row ELSE e.col)
      BY <1>2, <3>1 DEF LineHolds
    <3>3. Has(G, Numbered(nonisov, e.row), Numbered(nonisov, e.col), Line.diag.scale)
      BY <2>1, <3>2
    <3> QED BY <1>2, <3>2, <3>3 DEF Place, Turned
  <2> QED BY <1>2, <2>1, <2>2 DEF Operand
<1>3. CASE Line.op # "select"
  <2>1. Line.mat \in Earlier(script, line) /\ Line.diag.scale = 1
    BY <1>1, <1>3 DEF LineWellFormed, Line
  <2> QED BY <1>1, <1>3, <2>1 DEF Operand, Turned
<1> QED BY <1>2, <1>3

\* The place in the vector that scales the entry of an answer has the line's number.
LEMMA DiagonalOfRight ==
  ASSUME IInv, Ready
  PROVE  /\ IsVector(DiagonalOf(Line.diag))
         /\ \A ans \in Answers : ElementAt(DiagonalOf(Line.diag), Place(ans, Restricted(Line))) = Line.diag.scale
<1> DEFINE d == Line.diag
           w == DiagonalOf(d)
<1>1. /\ Line \in LineForms /\ LineWellFormed(script, line) /\ WellFormed(script) /\ line \in 1 .. Len(script.lines)
      /\ \A n \in Earlier(script, line) :
           InBlocks(matrices[n]) /\ \A ans \in Answers : Has(matrices[n], Place(ans, n[1]), Place(ans, n[2]), 1)
  BY LineRight
<1>2. d.scale \in 1 .. ElementRange - 1
  <2>1. CASE Line.op = "select"
    BY <1>1, <2>1 DEF LineWellFormed, Line
  <2>2. CASE Line.op # "select"
    <3>1. d.scale = 1
      BY <1>1, <2>2 DEF LineWellFormed, Line, Ready
    <3> QED BY <3>1, Sizes
  <2> QED BY <2>1, <2>2
<1>3. ASSUME NEW ans \in Answers PROVE Place(ans, Restricted(Line)) \in Entity
  <2> DEFINE x == Place(ans, Line.mat[1])
             y == Place(ans, Line.mat[2])
  <2>1. InBlocks(Operand) /\ Has(Operand, IF Turned THEN y ELSE x, IF Turned THEN x ELSE y, d.scale)
    BY OperandRight
  <2>2. x \in Entity /\ y \in Entity
    <3> HIDE DEF x, y, d
    <3>1. (IF Turned THEN y ELSE x) \in Entity /\ (IF Turned THEN x ELSE y) \in Entity
      BY <2>1, HasPlace
    <3> QED BY <3>1
  <2> QED BY <2>2 DEF Restricted
<1>4. CASE d.kind = "constant"
  <2> DEFINE ind == Constant(d.pos)
             s == d.scale
  <2>1. s % ElementRange = s /\ s \in Element
    <3> HIDE DEF s
    <3>1. s \in 1 .. ElementRange - 1
      BY <1>2 DEF s
    <3> QED BY <3>1, Sizes DEF Element
  <2>2. w = UnitVector(ind, s)
    BY <1>4, <2>1 DEF DiagonalOf
  <2>3. IsVector(w) /\ (ind \in Entity => ElementAt(w, ind) = s)
    <3> HIDE DEF ind, s, w
    <3> QED BY <2>1, <2>2, UnitVectorRight
  <2>4. ASSUME NEW ans \in Answers PROVE Place(ans, Restricted(Line)) = ind
    <3>1. LineHolds(Line, ans)
      BY <1>1, AnswerHolds DEF Line
    <3>2. ans[Restricted(Line)] = d.pos
      BY <1>4, <3>1 DEF LineHolds, Ready
    <3> QED BY <3>2 DEF Place, Constant
  <2> HIDE DEF ind, w
  <2> QED BY <1>3, <2>3, <2>4 DEF w
<1>5. CASE d.kind # "constant"
  <2>1. d.kind = "reduce"
    BY <1>1, <1>5 DEF LineForms, Diagonals
  <2>2. d.mat \in Earlier(script, line) /\ Equated(script, Reduced(d), Restricted(Line))
    BY <1>1, <2>1 DEF LineWellFormed, Line
  <2>3. w = Diagonal(d)
    BY <1>5 DEF DiagonalOf
  <2>4. InBlocks(matrices[d.mat]) /\ IsVectorSoFar(dm)
    BY <1>1, <2>2 DEF IInv
  <2>5. /\ IsVector(Diagonal(d))
        /\ \A x \in Entity : d.dim = "Column" \/ Reduction(matrices[d.mat], d, x) # 0 => ElementAt(Diagonal(d), x) = Reduction(matrices[d.mat], d, x)
    <3> HIDE DEF d
    <3> QED BY <1>2, <2>4, DiagonalRight
  <2>6. ASSUME NEW ans \in Answers PROVE ElementAt(w, Place(ans, Restricted(Line))) = d.scale
    <3> DEFINE M == matrices[d.mat]
               x == Place(ans, Restricted(Line))
    <3>1. x = Place(ans, Reduced(d))
      <4>1. ans[Reduced(d)] = ans[Restricted(Line)]
        BY <2>2, EquatedRight
      <4> QED BY <4>1 DEF Place
    <3>2. Has(M, Place(ans, d.mat[1]), Place(ans, d.mat[2]), 1)
      BY <1>1, <2>2
    <3>3. InRow(M, Place(ans, d.mat[1])) /\ InColumn(M, Place(ans, d.mat[2]))
      <4> HIDE DEF M
      <4>1. InBlocks(M)
        BY <2>4 DEF M
      <4> QED BY <3>2, <4>1, HasPlace
    <3>4. IF d.dim = "Column" THEN InColumn(M, x) ELSE InRow(M, x)
      BY <3>1, <3>3 DEF Reduced
    <3>5. Reduction(matrices[d.mat], d, x) = d.scale
      BY <3>4 DEF Reduction, InRow, InColumn
    <3>6. d.scale # 0 /\ x \in Entity
      BY <1>2, <1>3
    <3> HIDE DEF x, d, w
    <3> QED BY <2>3, <2>5, <3>5, <3>6 DEF x
  <2> QED BY <2>3, <2>5, <2>6
<1> QED BY <1>4, <1>5

\* What a line computes keeps the entry of every answer.
LEMMA LineResultRight ==
  ASSUME IInv, Ready
  PROVE  LET R == LineResult(DiagonalOf(Line.diag))
         IN /\ InBlocks(R)
            /\ \A ans \in Answers : Has(R, Place(ans, Line.mat[1]), Place(ans, Line.mat[2]), 1)
<1> DEFINE v == DiagonalOf(Line.diag)
           s == Line.diag.scale
           dim == AppliedDim(Line)
           P == multDimApplyPrune(Operand, v, dim, Line.isRDF)
           R == LineResult(v)
<1>1. InBlocks(Operand) /\ IsVector(v)
  BY OperandRight, DiagonalOfRight
<1>2. InBlocks(P)
  <2> HIDE DEF v, dim
  <2> QED BY <1>1, ApplyRight
<1>3. R = IF Turned THEN Transpose(P) ELSE P
  BY DEF LineResult, Operand, Turned
<1>4. Line \in LineForms /\ LineWellFormed(script, line)
  BY LineRight
<1>5. Product(s, s, Line.isRDF) = 1
  <2>1. CASE Line.op = "select"
    <3>1. Line.isRDF /\ s \in 1 .. ElementRange - 1
      BY <1>4, <2>1 DEF LineWellFormed, Line
    <3>2. s # 0
      BY <3>1
    <3> QED BY <3>1, <3>2 DEF Product
  <2>2. CASE Line.op # "select"
    <3>1. s = 1
      BY <1>4, <2>2 DEF LineWellFormed, Line, Ready
    <3> QED BY <3>1, ProductOfOnes
  <2> QED BY <2>1, <2>2
<1>6. ASSUME NEW ans \in Answers
      PROVE  LET x == Place(ans, Line.mat[1])
                 y == Place(ans, Line.mat[2])
             IN Has(P, IF Turned THEN y ELSE x, IF Turned THEN x ELSE y, 1)
  <2> DEFINE x == Place(ans, Line.mat[1])
             y == Place(ans, Line.mat[2])
             a == IF Turned THEN y ELSE x
             b == IF Turned THEN x ELSE y
  <2>1. Has(Operand, a, b, s)
    BY OperandRight
  <2>2. ElementAt(v, Place(ans, Restricted(Line))) = s
    BY DiagonalOfRight
  <2>3. Place(ans, Restricted(Line)) = IF dim = "Column" THEN b ELSE a
    <3>1. Line.op \in {"select", "left", "right", "malformed"} /\ Line.op # "malformed" /\ Line.transposed \in BOOLEAN
      BY <1>4 DEF LineForms, Ready
    <3> QED BY <3>1 DEF Restricted, AppliedDim, Turned
  <2> HIDE DEF a, b, v, dim, s
  <2>4. Product(s, ElementAt(v, IF dim = "Column" THEN b ELSE a), Line.isRDF) = 1
    BY <1>5, <2>2, <2>3
  <2>5. Has(P, a, b, 1)
    BY <1>1, <2>1, <2>4, ApplyKeeps
  <2> QED BY <2>5 DEF a, b
<1> HIDE DEF P, R, v
<1>7. InBlocks(R)
  BY <1>2, <1>3, TransposeRight
<1>8. ASSUME NEW ans \in Answers PROVE Has(R, Place(ans, Line.mat[1]), Place(ans, Line.mat[2]), 1)
  <2>1. CASE Turned
    <3>1. Has(P, Place(ans, Line.mat[2]), Place(ans, Line.mat[1]), 1)
      BY <1>6, <2>1
    <3> QED BY <1>2, <1>3, <2>1, <3>1, TransposeRight
  <2>2. CASE ~ Turned
    BY <1>3, <1>6, <2>2
  <2> QED BY <2>1, <2>2
<1> QED BY <1>7, <1>8 DEF R, v

-----------------------------------------------------------------------------
(* The steps of the programs. *)

\* The invariant holds when a query starts.
LEMMA InitRight ==
  ASSUME Init \/ LubmInit
  PROVE  IInv
<1>1. data \in SUBSET Triple /\ nonisov \in Renumberings /\ script \in Scripts /\ Start
      /\ (script.program = "magiqScal" => \E k \in DOMAIN LubmQueries : script = LubmQueries[k])
  <2>1. CASE Init
    BY <2>1, InputsAssumption DEF Init
  <2>2. CASE LubmInit
    <3>1. 1 \in DOMAIN LubmQueries
      BY DEF LubmQueries
    <3>2. script = LubmQueries[1] /\ data \in LubmInputs /\ nonisov \in Renumberings /\ Start
      BY <2>2 DEF LubmInit
    <3> QED BY <3>1, <3>2, LubmAssumption
  <2> QED BY <2>1, <2>2
<1>2. Given
  BY <1>1 DEF Given, Start
<1>3. line = 1 /\ phase = "query_execution" /\ repeat = 1 /\ dm = FreshVector
      /\ matrices = [n \in Names(script) |-> NoMatrix]
  BY <1>1 DEF Start
<1>4. Len(script.lines) \in Nat
  BY <1>1, ScriptsAssumption DEF WellFormed
<1>5. Progress
  BY <1>3, <1>4, RepeatAssumption DEF Progress
<1>6. MatricesInBlocks
  BY <1>3 DEF MatricesInBlocks
<1>7. IsVectorSoFar(dm)
  BY <1>3 DEF IsVectorSoFar, FreshVector, IsSequence
<1>8. AnswersKept /\ DiagonalCovers
  BY <1>3 DEF AnswersKept, DiagonalCovers, JustReduced
<1> QED BY <1>2, <1>5, <1>6, <1>7, <1>8 DEF IInv

\* A line of the query keeps the invariant.
LEMMA ExecuteKeeps ==
  ASSUME IInv, Execute
  PROVE  IInv'
<1> DEFINE d == Line.diag
           v == DiagonalOf(d)
           R == LineResult(v)
<1>1. Ready
  BY DEF Execute, Ready
<1>2. /\ line \in 1 .. Len(script.lines) /\ Len(script.lines) \in Nat
      /\ Line \in LineForms /\ LineWellFormed(script, line) /\ Line.mat \in DOMAIN matrices
  BY <1>1, LineRight
<1>3. /\ UNCHANGED <<data, nonisov, G, script, repeat>> /\ line' = line + 1
      /\ dm' = (IF d.kind = "constant" THEN dm ELSE v)
      /\ matrices' = [matrices EXCEPT ![Line.mat] = R]
      /\ phase' \in {"query_execution", "empty"}
  BY DEF Execute
<1>4. InBlocks(R) /\ \A ans \in Answers : Has(R, Place(ans, Line.mat[1]), Place(ans, Line.mat[2]), 1)
  BY <1>1, LineResultRight
<1>5. IsVector(v)
  BY <1>1, DiagonalOfRight
<1>6. line \in Nat /\ 1 .. line' - 1 = (1 .. line - 1) \cup {line} /\ line' - 1 = line /\ Line.op # "malformed"
      /\ Line = script.lines[line]
  BY <1>1, <1>2, <1>3 DEF Ready, Line
<1> HIDE DEF R, v
<1>7. Given'
  BY <1>3 DEF IInv, Given, ReadGraph
<1>8. Progress'
  BY <1>2, <1>3, <1>6 DEF IInv, Progress, Execute
<1>9. matrices'[Line.mat] = R /\ DOMAIN matrices' = DOMAIN matrices
      /\ \A n \in DOMAIN matrices : n # Line.mat => matrices'[n] = matrices[n]
  BY <1>2, <1>3
<1>10. R # NoMatrix
  <2>1. DOMAIN R = Procs
    BY <1>4 DEF InBlocks
  <2>2. Procs # {}
    <3> DEFINE n == Cardinality(Procs)
    <3>1. n \in Nat \ {0} /\ Procs = 0 .. n - 1
      BY ProcsRight
    <3> HIDE DEF n
    <3>2. 0 \in Procs
      BY <3>1
    <3> QED BY <3>2
  <2>3. DOMAIN NoMatrix = {}
    BY DEF NoMatrix
  <2> QED BY <2>1, <2>2, <2>3
<1>11. \A i \in 1 .. line - 1 : script.lines[i].mat \in DOMAIN matrices
  <2>1. DOMAIN script.lines = 1 .. Len(script.lines)
    BY ScriptsAssumption DEF IInv, Given, WellFormed
  <2> QED BY <1>2, <2>1, SMTT(30) DEF IInv, MatricesInBlocks, Names
<1>12. MatricesInBlocks'
  <2>1. DOMAIN matrices' = Names(script')
    BY <1>3, <1>9 DEF IInv, MatricesInBlocks
  <2>2. ASSUME NEW n \in DOMAIN matrices', matrices'[n] # NoMatrix PROVE InBlocks(matrices'[n])
    BY <1>4, <1>9, <2>2 DEF IInv, MatricesInBlocks
  <2>3. ASSUME NEW i \in 1 .. line' - 1 PROVE matrices'[script'.lines[i].mat] # NoMatrix
    <3>1. CASE i = line
      BY <1>3, <1>6, <1>9, <1>10, <3>1
    <3>2. CASE i # line
      <4>1. i \in 1 .. line - 1 /\ matrices[script.lines[i].mat] # NoMatrix
        BY <1>1, <1>6, <3>2 DEF IInv, MatricesInBlocks, Ready
      <4> QED BY <1>3, <1>9, <1>10, <1>11, <4>1
    <3> QED BY <3>1, <3>2
  <2> QED BY <2>1, <2>2, <2>3 DEF MatricesInBlocks
<1>13. IsVectorSoFar(dm')
  BY <1>3, <1>5, VectorSoFar DEF IInv
<1>14. AnswersKept'
  <2>1. Answers' = Answers /\ \A ans, n : Place(ans, n)' = Place(ans, n)
    BY <1>3 DEF Answers, Place
  <2>2. ASSUME NEW ans \in Answers, NEW i \in 1 .. line' - 1
        PROVE  LET n == script.lines[i].mat IN Has(matrices'[n], Place(ans, n[1]), Place(ans, n[2]), 1)
    <3>1. CASE script.lines[i].mat = Line.mat
      BY <1>4, <1>9, <3>1
    <3>2. CASE script.lines[i].mat # Line.mat
      <4>1. i \in 1 .. line - 1
        BY <1>6, <3>2
      <4>2. LET n == script.lines[i].mat IN Has(matrices[n], Place(ans, n[1]), Place(ans, n[2]), 1)
        BY <1>1, <4>1 DEF IInv, AnswersKept, Ready
      <4> QED BY <1>9, <1>11, <3>2, <4>1, <4>2
    <3> QED BY <3>1, <3>2
  <2> QED BY <1>3, <2>1, <2>2 DEF AnswersKept, Place
<1>15. DiagonalCovers'
  <2> SUFFICES ASSUME JustReduced', NEW x \in Entity
               PROVE  LET e == script'.lines[line' - 1].diag
                          wanted == Reduction(matrices'[e.mat], e, x)
                      IN (e.dim = "Column" \/ wanted # 0) => ElementAt(dm', x) = wanted
    BY DEF DiagonalCovers
  <2>1. script'.lines[line' - 1].diag = d /\ d.kind = "reduce"
    BY <1>3, <1>6 DEF JustReduced
  <2>2. d.mat \in Earlier(script, line) \ {Line.mat}
    BY <1>2, <2>1 DEF LineWellFormed, Line
  <2>3. matrices'[d.mat] = matrices[d.mat] /\ InBlocks(matrices[d.mat])
    <3>1. \A n \in Earlier(script, line) : n \in DOMAIN matrices
      BY <1>11 DEF Earlier
    <3> QED BY <1>1, <1>9, <2>2, <3>1, LineRight
  <2>4. v = Diagonal(d) /\ dm' = v
    BY <1>3, <2>1 DEF v, DiagonalOf
  <2>5. d.scale \in 1 .. ElementRange - 1 /\ IsVectorSoFar(dm)
    <3>1. CASE Line.op = "select"
      BY <1>2, <3>1 DEF LineWellFormed, Line, IInv
    <3>2. CASE Line.op # "select"
      <4>1. d.scale = 1
        BY <1>2, <1>6, <3>2 DEF LineWellFormed, Line
      <4> QED BY <4>1, Sizes DEF IInv
    <3> QED BY <3>1, <3>2
  <2> DEFINE wanted == Reduction(matrices[d.mat], d, x)
  <2>6. d.dim = "Column" \/ wanted # 0 => ElementAt(Diagonal(d), x) = wanted
    <3> HIDE DEF d
    <3> QED BY <2>3, <2>5, DiagonalRight
  <2>7. wanted = Reduction(matrices'[d.mat], d, x)
    BY <2>3
  <2> HIDE DEF d, wanted
  <2> QED BY <2>1, <2>4, <2>6, <2>7
<1> QED BY <1>7, <1>8, <1>12, <1>13, <1>14, <1>15 DEF IInv

\* The steps that execute nothing leave the execution as it is; only a matrix that the
\* result generation is done with is freed.
Resting == UNCHANGED execution /\ phase' \in {"result_generation", "error", "done"} /\ repeat' \in 1 .. MaxRepeat
Freeing ==
  \/ UNCHANGED matrices
  \/ \E n : matrices' = [matrices EXCEPT ![n] = NoMatrix]

\* They keep the invariant.
LEMMA RestingKeeps ==
  ASSUME IInv, Resting, Freeing
  PROVE  IInv'
<1>1. UNCHANGED <<data, nonisov, G, script, dm, line>> /\ phase' \in {"result_generation", "error", "done"}
      /\ repeat' \in 1 .. MaxRepeat
  BY DEF Resting, execution
<1>2. Given'
  BY <1>1 DEF IInv, Given, ReadGraph
<1>3. Progress'
  BY <1>1 DEF IInv, Progress
<1>4. MatricesInBlocks'
  <2>1. DOMAIN matrices' = DOMAIN matrices /\ \A n \in DOMAIN matrices : matrices'[n] \in {matrices[n], NoMatrix}
    BY DEF Freeing
  <2> QED BY <1>1, <2>1 DEF IInv, MatricesInBlocks
<1>5. IsVectorSoFar(dm')
  BY <1>1 DEF IInv
<1>6. AnswersKept' /\ DiagonalCovers'
  BY <1>1 DEF AnswersKept, DiagonalCovers, JustReduced
<1> QED BY <1>2, <1>3, <1>4, <1>5, <1>6 DEF IInv

\* A new run, of the same query or of the next one.
Again ==
  /\ UNCHANGED <<data, nonisov, G>> /\ repeat' \in 1 .. MaxRepeat
  /\ line' = 1 /\ phase' = "query_execution"
  /\ \/ UNCHANGED <<script, matrices, dm>>
     \/ /\ \E k \in DOMAIN LubmQueries : script' = LubmQueries[k]
        /\ matrices' = [n \in Names(script') |-> NoMatrix] /\ dm' = FreshVector

\* So does the next repetition, or the next query of the program.
LEMMA AgainKeeps ==
  ASSUME IInv, Again
  PROVE  IInv'
<1>1. UNCHANGED <<data, nonisov, G>> /\ repeat' \in 1 .. MaxRepeat /\ line' = 1 /\ phase' = "query_execution"
  BY DEF Again
<1>2. script' \in Scripts /\ (script'.program = "magiqScal" => \E k \in DOMAIN LubmQueries : script' = LubmQueries[k])
  BY LubmAssumption DEF IInv, Given, Again
<1>3. Given'
  BY <1>1, <1>2 DEF IInv, Given, ReadGraph
<1>4. Len(script'.lines) \in Nat
  BY <1>2, ScriptsAssumption DEF WellFormed
<1>5. Progress'
  BY <1>1, <1>4 DEF Progress
<1>6. MatricesInBlocks'
  <2>1. CASE UNCHANGED <<script, matrices, dm>>
    BY <1>1, <2>1 DEF IInv, MatricesInBlocks
  <2>2. CASE matrices' = [n \in Names(script') |-> NoMatrix]
    BY <1>1, <2>2 DEF MatricesInBlocks
  <2> QED BY <2>1, <2>2 DEF Again
<1>7. IsVectorSoFar(dm')
  <2>1. CASE UNCHANGED <<script, matrices, dm>>
    BY <2>1 DEF IInv
  <2>2. CASE dm' = FreshVector
    BY <2>2 DEF IsVectorSoFar, FreshVector, IsSequence
  <2> QED BY <2>1, <2>2 DEF Again
<1>8. AnswersKept' /\ DiagonalCovers'
  BY <1>1 DEF AnswersKept, DiagonalCovers, JustReduced
<1> QED BY <1>3, <1>5, <1>6, <1>7, <1>8 DEF IInv

\* A stuttering step changes nothing of it.
LEMMA StutterKeeps ==
  ASSUME IInv, UNCHANGED vars
  PROVE  IInv'
<1>1. UNCHANGED <<data, nonisov, G, script, dm, line, matrices, phase, repeat>>
  BY DEF vars, execution
<1>2. Given' /\ Progress'
  BY <1>1 DEF IInv, Given, ReadGraph, Progress
<1>3. MatricesInBlocks' /\ IsVectorSoFar(dm')
  BY <1>1 DEF IInv, MatricesInBlocks
<1>4. AnswersKept'
  BY <1>1 DEF IInv, AnswersKept, Answers, Place
<1>5. DiagonalCovers'
  BY <1>1 DEF IInv, DiagonalCovers, JustReduced
<1> QED BY <1>2, <1>3, <1>4, <1>5 DEF IInv

\* Every step keeps the invariant.
LEMMA NextKeeps ==
  ASSUME IInv, [MagiqNext \/ LubmNext]_vars
  PROVE  IInv'
<1>0. repeat \in 1 .. MaxRepeat
  BY DEF IInv, Progress
<1>1. CASE Execute
  BY <1>1, ExecuteKeeps
<1>2. CASE Reject
  BY <1>0, <1>2, RestingKeeps DEF Reject, Resting, Freeing
<1>3. CASE BeginResults
  BY <1>0, <1>3, RestingKeeps DEF BeginResults, Resting, Freeing
<1>4. CASE ApplyResultLine
  BY <1>0, <1>4, RestingKeeps DEF ApplyResultLine, Resting, Freeing, execution
<1>5. CASE DropResultLine
  BY <1>0, <1>5, RestingKeeps DEF DropResultLine, Resting, Freeing, execution
<1>6. CASE EndOfScript
  BY <1>0, <1>6, RestingKeeps DEF EndOfScript, Resting, Freeing
<1>7. CASE RunAgain
  <2>1. repeat' \in 1 .. MaxRepeat
    BY <1>0, <1>7, RepeatAssumption DEF RunAgain
  <2> QED BY <1>7, <2>1, AgainKeeps DEF RunAgain, Again
<1>8. CASE TakeTransposed
  BY <1>0, <1>8, RestingKeeps DEF TakeTransposed, Take, Resting, Freeing, execution
<1>9. CASE Combine
  BY <1>0, <1>9, RestingKeeps DEF Combine, Take, Resting, Freeing, execution
<1>10. CASE script.program = "magiqScal" /\ NextQuery
  <2> DEFINE Q == LubmQueries
             k == CHOOSE i \in DOMAIN Q : Q[i] = script
  <2>1. DOMAIN Q = 1 .. 7 /\ Len(Q) = 7
    BY DEF LubmQueries
  <2>2. k \in 1 .. 7
    BY <1>10, <2>1 DEF IInv, Given
  <2>3. /\ UNCHANGED <<data, nonisov, G>> /\ line' = 1 /\ phase' = "query_execution"
        /\ k < Len(Q) \/ repeat < MaxRepeat
        /\ script' = Q[(k % Len(Q)) + 1]
        /\ repeat' = IF k < Len(Q) THEN repeat ELSE repeat + 1
        /\ matrices' = [n \in Names(script') |-> NoMatrix] /\ dm' = FreshVector
    BY <1>10 DEF NextQuery
  <2> HIDE DEF k, Q
  <2>4. (k % Len(Q)) + 1 \in DOMAIN Q
    BY <2>1, <2>2
  <2>5. repeat' \in 1 .. MaxRepeat
    BY <1>0, <2>3, RepeatAssumption
  <2>6. \E m \in DOMAIN LubmQueries : script' = LubmQueries[m]
    BY <2>3, <2>4 DEF Q
  <2> QED BY <2>3, <2>5, <2>6, AgainKeeps DEF Again
<1>11. CASE UNCHANGED vars
  BY <1>11, StutterKeeps
<1> QED BY <1>1, <1>2, <1>3, <1>4, <1>5, <1>6, <1>7, <1>8, <1>9, <1>10, <1>11 DEF MagiqNext, LubmNext, Next

\* The invariant holds throughout.
LEMMA InvariantHolds == ProgramsSpec => []IInv
<1>1. Init \/ LubmInit => IInv
  BY InitRight
<1>2. IInv /\ [MagiqNext \/ LubmNext]_vars => IInv'
  BY NextKeeps
<1> QED BY <1>1, <1>2, PTL DEF ProgramsSpec

\* Whatever the graph, the grid and the query, in both programs, a query's matrices keep
\* every nonzero that is part of an answer, from the line that computes it to the end of
\* the execution, so that stopping early at an empty matrix loses none (parseQueryLine,
\* multDimApplyPrune).
THEOREM NoAnswerIsLost == ProgramsSpec => []NoAnswerLost
<1>1. IInv => NoAnswerLost
  <2> SUFFICES ASSUME IInv, phase \in {"query_execution", "empty"}, NEW ans \in Answers, NEW i \in 1 .. line - 1
               PROVE  LET n == script.lines[i].mat
                      IN <<Numbered(nonisov, ans[n[1]]), Numbered(nonisov, ans[n[2]])>> \in Nonzeros(matrices[n])
    BY DEF NoAnswerLost
  <2> DEFINE n == script.lines[i].mat
             M == matrices[n]
  <2>1. Has(M, Place(ans, n[1]), Place(ans, n[2]), 1)
    BY DEF IInv, AnswersKept
  <2>2. InBlocks(M)
    <3>1. WellFormed(script) /\ line \in 1 .. Len(script.lines) + 1
      BY ScriptsAssumption DEF IInv, Given, Progress
    <3>2. i \in DOMAIN script.lines
      BY <3>1 DEF WellFormed
    <3>3. n \in DOMAIN matrices
      BY <3>2 DEF IInv, MatricesInBlocks, Names
    <3>4. M # NoMatrix
      BY DEF IInv, MatricesInBlocks
    <3> QED BY <3>3, <3>4 DEF IInv, MatricesInBlocks
  <2> HIDE DEF M, n
  <2>3. <<Place(ans, n[1]), Place(ans, n[2])>> \in Nonzeros(M)
    BY <2>1, <2>2, HasPlace
  <2> QED BY <2>3 DEF Place, M, n
<1> QED BY <1>1, InvariantHolds, PTL

\* After every reduction the vector has the predicate's number for the entities that have a
\* nonzero, in the part of the process that owns them: for columns, after the exchange with
\* the complement rank, and for rows, in spite of what the vector was before (Reduce,
\* diagonalizeV).
THEOREM DiagonalsCover == ProgramsSpec => []DiagonalCovers
<1>1. IInv => DiagonalCovers
  BY DEF IInv
<1> QED BY <1>1, InvariantHolds, PTL

\* The matrices stay in blocks of the grid's shape without explicit zeros, and the vector in
\* parts of its distribution, with elements of the element type.
THEOREM ExecutionTyped == ProgramsSpec => []ExecutionTypes
<1>1. IInv => ExecutionTypes
  BY DEF IInv, Given, Progress, MatricesInBlocks, InBlocks, IsVectorSoFar, Element, ExecutionTypes
<1> QED BY <1>1, InvariantHolds, PTL

-----------------------------------------------------------------------------
(* The matrices, and the parts of a table, of the first process row. *)

\* Pairs of entities, finitely many.
Pair == Entity \X Entity

\* A matrix has finitely many nonzeros.
LEMMA PairsFinite == ASSUME NEW m \in SUBSET Pair PROVE IsFiniteSet(m)
<1>1. 0 \in Int /\ NEntities - 1 \in Int
  BY Sizes
<1>2. IsFiniteSet(Entity)
  BY <1>1, FS_Interval DEF Entity
<1>3. IsFiniteSet(Pair)
  BY <1>2, FS_Product DEF Pair
<1> QED BY <1>3, FS_Subset

\* The part of a matrix that a process of the first row gets (get_local_indices).
InPart(m, c) == {e \in m : PartOf(NEntities, ProcCols, e[2]) = c}

\* A process has the nonzeros of its columns, sorted by column (get_local_indices).
LEMMA GatheredRight ==
  ASSUME NEW m \in SUBSET Pair, NEW c
  PROVE  Lists(RG!Gathered(m, c), InPart(m, c)) /\ SortedOn(RG!Gathered(m, c), 2)
<1> DEFINE S == InPart(m, c)
           first == [e \in Pair |-> e[1]]
           second == Column(Pair, 2)
           n == Cardinality(S)
           e == RG!Gathered(m, c)
<1>1. S \in SUBSET Pair
  BY DEF InPart
<1>2. IsFiniteSet(S)
  BY <1>1, PairsFinite
<1>3. \A x \in S : x \in Pair /\ second[x] = x[2] /\ first[x] = x[1] /\ x[1] \in Int /\ x[2] \in Int
  BY <1>1, Sizes DEF Pair, Column, Entity
<1>4. TellApart(S, second, first)
  <2>1. \A x, y \in S : x[2] = y[2] /\ x[1] = y[1] => x = y
    BY <1>1 DEF Pair
  <2> HIDE DEF first, second, S
  <2> QED BY <1>3, <2>1 DEF TellApart
<1>5. \A x \in S : Lower(S, second, first, x) = {y \in S : y[2] < x[2] \/ (y[2] = x[2] /\ y[1] < x[1])}
  <2> HIDE DEF first, second, S
  <2> QED BY <1>3 DEF Lower
<1>6. e = [i \in 1 .. n |-> CHOOSE x \in S : Cardinality({y \in S : y[2] < x[2] \/ (y[2] = x[2] /\ y[1] < x[1])}) = i - 1]
  BY Zenon DEF RG!Gathered, RG!InOrderOf, RG!Cardinality, Cardinality, RG!PartOf, PartOf, RG!PerPart, PerPart, InPart
<1> HIDE DEF e, first, second, S
<1>7. /\ n \in Nat
      /\ \A i \in 1 .. n : \E x \in S : Cardinality(Lower(S, second, first, x)) = i - 1
      /\ \A f : /\ f = [i \in 1 .. n |-> f[i]]
                /\ \A i \in 1 .. n : f[i] \in S /\ Cardinality(Lower(S, second, first, f[i])) = i - 1
                => Lists(f, S) /\ AscendsBy(f, second)
  BY <1>2, <1>4, InKeyOrder
<1>8. ASSUME NEW i \in 1 .. n PROVE e[i] \in S /\ Cardinality(Lower(S, second, first, e[i])) = i - 1
  <2>1. \E x \in S : Cardinality({y \in S : y[2] < x[2] \/ (y[2] = x[2] /\ y[1] < x[1])}) = i - 1
    BY <1>5, <1>7
  <2>2. e[i] \in S /\ Cardinality({y \in S : y[2] < e[i][2] \/ (y[2] = e[i][2] /\ y[1] < e[i][1])}) = i - 1
    BY <1>6, <2>1
  <2> QED BY <1>5, <2>2
<1>9. e = [i \in 1 .. n |-> e[i]]
  <2> DEFINE chosen(i) == CHOOSE x \in S : Cardinality({y \in S : y[2] < x[2] \/ (y[2] = x[2] /\ y[1] < x[1])}) = i - 1
  <2>1. e = [i \in 1 .. n |-> chosen(i)]
    BY <1>6
  <2> HIDE DEF chosen
  <2> QED BY <2>1
<1>10. Lists(e, S) /\ AscendsBy(e, second)
  BY <1>7, <1>8, <1>9
<1>11. \A i \in 1 .. Len(e) : e[i] \in Pair
  BY <1>3, <1>10 DEF Lists
<1>12. SortedOn(e, 2)
  BY <1>10, <1>11, SortedByColumn DEF second
<1> QED BY <1>10, <1>12 DEF e, S

\* ResultGen's operators of LocalTables are those of LocalTables.
LEMMA SameOperators ==
  /\ \A s, places : RG!AtPlaces(s, places) = AtPlaces(s, places)
  /\ \A t, p : RG!SortOn(t, p) = SortOn(t, p)
  /\ \A t1, t2, p : RG!Meetings(t1, t2, p) = Meetings(t1, t2, p)
<1>1. ASSUME NEW s, NEW places PROVE RG!AtPlaces(s, places) = AtPlaces(s, places)
  BY Zenon DEF RG!AtPlaces, AtPlaces, RG!InOrderOf, InOrderOf, RG!Cardinality, Cardinality
<1>2. ASSUME NEW t, NEW p PROVE RG!SortOn(t, p) = SortOn(t, p)
  BY Zenon DEF RG!SortOn, SortOn, RG!InOrderOf, InOrderOf, RG!Cardinality, Cardinality
<1>3. ASSUME NEW t1, NEW t2, NEW p PROVE RG!Meetings(t1, t2, p) = Meetings(t1, t2, p)
  BY Zenon DEF RG!Meetings, Meetings, RG!RunLength, RunLength
<1> QED BY <1>1, <1>2, <1>3

-----------------------------------------------------------------------------
(* Tables over the first process row. *)

\* n sequences that together have each element of a set once.
Shared(seqs, n, R) ==
  /\ \A k \in 1 .. n : \A i \in 1 .. Len(seqs[k]) : seqs[k][i] \in R
  /\ \A x \in R : \E k \in 1 .. n : \E i \in 1 .. Len(seqs[k]) : seqs[k][i] = x
  /\ \A k, l \in 1 .. n : \A i \in 1 .. Len(seqs[k]), j \in 1 .. Len(seqs[l]) :
       seqs[k][i] = seqs[l][j] => k = l /\ i = j

\* Their concatenation has each element of each of them.
Flattened(c, seqs, n) ==
  /\ IsSequence(c)
  /\ \A j \in 1 .. Len(c) : \E k \in 1 .. n : \E i \in 1 .. Len(seqs[k]) : c[j] = seqs[k][i]
  /\ \A R : Shared(seqs, n, R) => Lists(c, R)
  /\ \A d : Sums(d, [q \in 0 .. n - 1 |-> Len(seqs[q + 1])], n) => Len(c) = d[n]

\* So is what FlattenSeq gives.
LEMMA FlattenRight ==
  ASSUME NEW n \in Nat \ {0}, NEW seqs, seqs = [k \in 1 .. n |-> seqs[k]], \A k \in 1 .. n : IsSequence(seqs[k])
  PROVE  Flattened(RG!FlattenSeq(seqs), seqs, n)
<1> DEFINE counts == [q \in 0 .. n - 1 |-> Len(seqs[q + 1])]
           c == RG!FlattenSeq(seqs)
<1>1. DOMAIN seqs = 1 .. n /\ Len(seqs) = n
  BY Zenon, SMT
<1>2. c = Concatenation(seqs)
  BY <1>1 DEF RG!FlattenSeq, Concatenation
<1>3. \A q \in 0 .. n - 1 : counts[q] \in Nat /\ q + 1 \in 1 .. n /\ counts[q] = Len(seqs[q + 1])
  <2> SUFFICES ASSUME NEW q \in 0 .. n - 1 PROVE counts[q] \in Nat /\ q + 1 \in 1 .. n /\ counts[q] = Len(seqs[q + 1])
    OBVIOUS
  <2>1. q + 1 \in 1 .. n
    OBVIOUS
  <2>2. IsSequence(seqs[q + 1])
    BY <2>1
  <2> QED BY <2>1, <2>2 DEF IsSequence
<1> HIDE DEF counts, c
<1>4. \E d : Sums(d, counts, n)
  BY <1>3, SumsExist
<1>5. ASSUME NEW d, Sums(d, counts, n)
      PROVE  /\ IsSequence(c) /\ Len(c) = d[n]
             /\ \A j \in 1 .. Len(c) : \E k \in 1 .. n : \E i \in 1 .. Len(seqs[k]) : c[j] = seqs[k][i]
             /\ \A R : Shared(seqs, n, R) => Lists(c, R)
  <2>1. LengthsSum(seqs, d, n)
    BY <1>5 DEF LengthsSum, counts
  <2>2. OneAfterAnother(c, seqs, d, n)
    BY <1>2, <2>1, ConcatenationRight
  <2>3. /\ c = [j \in 1 .. d[n] |-> c[j]]
        /\ \A q \in 0 .. n - 1 : \A i \in 1 .. Len(seqs[q + 1]) : c[d[q] + i] = seqs[q + 1][i]
    BY <2>2 DEF OneAfterAnother
  <2>4. /\ \A k \in 0 .. n : d[k] \in Nat
        /\ \A q \in 0 .. n - 1 : d[q + 1] = d[q] + counts[q]
    BY <1>5 DEF Sums
  <2>5. d[n] \in Nat
    BY <2>4
  <2>6. IsSequence(c) /\ Len(c) = d[n]
    <3> DEFINE Z == {c[j] : j \in 1 .. d[n]}
    <3>1. \A j \in 1 .. d[n] : c[j] \in Z
      OBVIOUS
    <3> DEFINE m == d[n]
    <3>2. m \in Nat /\ c = [j \in 1 .. m |-> c[j]] /\ \A j \in 1 .. m : c[j] \in Z
      BY <2>3, <2>5, <3>1
    <3> HIDE DEF Z, m
    <3>3. c \in Seq(Z) /\ Len(c) = m
      BY <3>2
    <3> QED BY <3>3, TypedIsSequence DEF m
  <2>7. /\ \A j \in 1 .. d[n] : \E q \in 0 .. n - 1 : InSlot(d, q, j)
        /\ \A q \in 0 .. n - 1, j \in Int : InSlot(d, q, j) => j \in 1 .. d[n]
        /\ \A q, r \in 0 .. n - 1, i, j \in Int : InSlot(d, q, i) /\ InSlot(d, r, j) /\ q < r => i < j
    BY <1>5, SlotsRight
  <2>7a. ASSUME NEW q \in 0 .. n - 1
         PROVE  d[q] \in Nat /\ d[q + 1] \in Nat /\ counts[q] \in Nat /\ d[q + 1] = d[q] + counts[q] /\ q + 1 \in 1 .. n
                /\ counts[q] = Len(seqs[q + 1])
    <3>1. q \in 0 .. n /\ q + 1 \in 0 .. n
      OBVIOUS
    <3> QED BY <1>3, <2>4, <3>1
  <2>8. ASSUME NEW q \in 0 .. n - 1, NEW j \in Int, InSlot(d, q, j)
        PROVE  q + 1 \in 1 .. n /\ j - d[q] \in 1 .. Len(seqs[q + 1]) /\ c[j] = seqs[q + 1][j - d[q]]
    <3> DEFINE i == j - d[q]
    <3>1. i \in 1 .. Len(seqs[q + 1]) /\ d[q] + i = j
      <4> DEFINE u == d[q]
                 w == d[q + 1]
                 m == counts[q]
      <4>1. u \in Nat /\ w \in Nat /\ m \in Nat /\ w = u + m /\ m = Len(seqs[q + 1]) /\ u < j /\ j <= w
        BY <2>7a, <2>8 DEF InSlot
      <4> HIDE DEF u, w, m
      <4>2. j - u \in 1 .. m /\ u + (j - u) = j
        BY <4>1, SMTT(30)
      <4> QED BY <4>1, <4>2 DEF u
    <3>2. c[d[q] + i] = seqs[q + 1][i]
      <4> HIDE DEF i
      <4> QED BY <2>3, <3>1
    <3> QED BY <2>7a, <3>1, <3>2
  <2>9. ASSUME NEW q \in 0 .. n - 1, NEW i \in 1 .. Len(seqs[q + 1])
        PROVE  d[q] + i \in 1 .. d[n] /\ c[d[q] + i] = seqs[q + 1][i]
    <3> DEFINE j == d[q] + i
    <3>1. j \in Int /\ d[q] < j /\ j <= d[q + 1]
      <4> DEFINE u == d[q]
                 w == d[q + 1]
                 m == counts[q]
      <4>1. u \in Nat /\ w \in Nat /\ m \in Nat /\ w = u + m /\ i \in 1 .. m
        BY <2>7a
      <4> HIDE DEF u, w, m
      <4>2. u + i \in Int /\ u < u + i /\ u + i <= w
        BY <4>1, SMTT(30)
      <4> QED BY <4>2 DEF u, w
    <3>2. InSlot(d, q, j)
      BY <3>1 DEF InSlot
    <3>3. c[j] = seqs[q + 1][i]
      BY <2>3
    <3> HIDE DEF j
    <3>4. j \in 1 .. d[n]
      BY <2>7, <3>1, <3>2
    <3> QED BY <3>3, <3>4 DEF j
  <2>10. ASSUME NEW j \in 1 .. d[n] PROVE \E k \in 1 .. n : \E i \in 1 .. Len(seqs[k]) : c[j] = seqs[k][i]
    <3>1. PICK q \in 0 .. n - 1 : InSlot(d, q, j)
      BY <2>7
    <3>2. j \in Int
      BY <2>5
    <3> QED BY <2>8, <3>1, <3>2, Zenon
  <2>11. ASSUME NEW R, Shared(seqs, n, R) PROVE Lists(c, R)
    <3>1. \A j \in 1 .. d[n] : c[j] \in R
      BY <2>10, <2>11 DEF Shared
    <3>2. ASSUME NEW x \in R PROVE \E j \in 1 .. d[n] : c[j] = x
      <4>1. PICK k \in 1 .. n : \E i \in 1 .. Len(seqs[k]) : seqs[k][i] = x
        BY <2>11 DEF Shared
      <4>2. k - 1 \in 0 .. n - 1 /\ (k - 1) + 1 = k
        OBVIOUS
      <4> QED BY <2>9, <4>1, <4>2, ZenonT(30)
    <3>3. ASSUME NEW i \in 1 .. d[n], NEW j \in 1 .. d[n], c[i] = c[j] PROVE i = j
      <4>1. PICK q \in 0 .. n - 1 : InSlot(d, q, i)
        BY <2>7
      <4>2. PICK r \in 0 .. n - 1 : InSlot(d, r, j)
        BY <2>7
      <4>3. /\ q + 1 \in 1 .. n /\ i - d[q] \in 1 .. Len(seqs[q + 1]) /\ c[i] = seqs[q + 1][i - d[q]]
            /\ r + 1 \in 1 .. n /\ j - d[r] \in 1 .. Len(seqs[r + 1]) /\ c[j] = seqs[r + 1][j - d[r]]
        <5>1. i \in Int /\ j \in Int
          OBVIOUS
        <5>2. q + 1 \in 1 .. n /\ i - d[q] \in 1 .. Len(seqs[q + 1]) /\ c[i] = seqs[q + 1][i - d[q]]
          BY <2>8, <4>1, <5>1
        <5>3. r + 1 \in 1 .. n /\ j - d[r] \in 1 .. Len(seqs[r + 1]) /\ c[j] = seqs[r + 1][j - d[r]]
          BY <2>8, <4>2, <5>1
        <5> QED BY <5>2, <5>3
      <4> DEFINE k == q + 1
                 l == r + 1
                 x == i - d[q]
                 y == j - d[r]
      <4>4. k = l /\ x = y
        <5>1. k \in 1 .. n /\ l \in 1 .. n /\ x \in 1 .. Len(seqs[k]) /\ y \in 1 .. Len(seqs[l]) /\ seqs[k][x] = seqs[l][y]
          BY <3>3, <4>3
        <5> HIDE DEF k, l, x, y
        <5> QED BY <2>11, <5>1, SMTT(30) DEF Shared
      <4>5. q = r /\ d[q] \in Nat
        <5>1. k = l
          BY <4>4
        <5>2. q = r
          BY <5>1
        <5>3. d[q] \in Nat
          BY <2>7a
        <5> QED BY <5>2, <5>3
      <4> DEFINE u == d[q]
      <4>6. u \in Nat /\ i - u = j - u
        BY <4>4, <4>5
      <4> HIDE DEF u
      <4> QED BY <4>6
    <3> QED BY <2>6, <3>1, <3>2, <3>3 DEF Lists
  <2> QED BY <2>6, <2>10, <2>11
<1>6. \A d : Sums(d, counts, n) => Len(c) = d[n]
  BY <1>5
<1>7. IsSequence(c) /\ (\A j \in 1 .. Len(c) : \E k \in 1 .. n : \E i \in 1 .. Len(seqs[k]) : c[j] = seqs[k][i])
      /\ \A R : Shared(seqs, n, R) => Lists(c, R)
  <2>1. PICK d : Sums(d, counts, n)
    BY <1>4
  <2> QED BY <1>5, <2>1
<1> QED BY <1>6, <1>7 DEF counts, c, Flattened

-----------------------------------------------------------------------------
(* Tables: rows of entities in the parts of the processes. *)

Width(w) == [1 .. w -> Entity]
IsTable(t, w) ==
  /\ t = [c \in RG!Row |-> t[c]]
  /\ \A c \in RG!Row : IsSequence(t[c]) /\ \A i \in 1 .. Len(t[c]) : t[c][i] \in Width(w)

\* Sorted by a column and spread by it: what a join or a filter needs of its key.
PartIs(r, p, c) == PartOf(NEntities, ProcCols, r[p]) = c
AlignedOn(t, p) == \A c \in RG!Row : SortedOn(t[c], p) /\ \A i \in 1 .. Len(t[c]) : PartIs(t[c][i], p, c)

\* The parts, from 1, and the rows that they have together.
PartsOf(t) == [k \in 1 .. ProcCols |-> t[k - 1]]
Holds(t, R) == Shared(PartsOf(t), ProcCols, R)

\* The place of a process's part.
LEMMA PartPlaces ==
  ASSUME NEW c \in RG!Row
  PROVE  c + 1 \in 1 .. ProcCols /\ (c + 1) - 1 = c /\ \A t : PartsOf(t)[c + 1] = t[c]
<1>1. c + 1 \in 1 .. ProcCols /\ (c + 1) - 1 = c
  BY Sizes DEF RG!Row
<1> QED BY <1>1 DEF PartsOf

\* The column offsets of the redistribution are those of the parts (local_redistribution).
LEMMA BetweenRight ==
  ASSUME NEW e \in Entity, NEW c \in RG!Row
  PROVE  RG!Between(e, c) <=> PartOf(NEntities, ProcCols, e) = c
<1> DEFINE S(k) == PartStart(NEntities, ProcCols, k)
           L(k) == PartLength(NEntities, ProcCols, k)
           P == PartOf(NEntities, ProcCols, e)
           per == PerPart(NEntities, ProcCols)
<1>0. c \in 0 .. ProcCols - 1 /\ e \in 0 .. NEntities - 1
  BY DEF RG!Row, Entity
<1>1. RG!Between(e, c) <=> (c = ProcCols - 1 \/ e < S(c + 1)) /\ (c = 0 \/ S(c) <= e)
  BY DEF RG!Between, RG!PartStart, PartStart, RG!PerPart, PerPart
<1>2. per \in Nat
  BY Sizes, DivBounds DEF PerPart
<1>3. \A k \in 0 .. ProcCols - 1 : S(k) = k * per /\ S(k + 1) = (k + 1) * per
        /\ L(k) = IF k = ProcCols - 1 THEN NEntities - (ProcCols - 1) * per ELSE per
  BY DEF PartStart, PartLength
<1>4. P \in 0 .. ProcCols - 1 /\ e - S(P) \in 0 .. L(P) - 1
  BY <1>0, Sizes, PartOfRight
<1>5. ASSUME P = c PROVE RG!Between(e, c)
  <2>1. e - S(c) \in 0 .. L(c) - 1
    BY <1>4, <1>5
  <2> HIDE DEF P, S, L, per
  <2> DEFINE u == c * per
  <2>2. u \in Nat /\ (c + 1) * per = u + per
    BY <1>0, <1>2, Sizes
  <2> HIDE DEF u
  <2>3. S(c) = u /\ S(c + 1) = u + per
    BY <1>0, <1>3, <2>2 DEF u
  <2>4. u <= e
    BY <1>0, <2>1, <2>2, <2>3
  <2>5. c = ProcCols - 1 \/ e < u + per
    BY <1>0, <1>2, <1>3, <2>1, <2>2, <2>3
  <2> QED BY <1>1, <2>3, <2>4, <2>5
<1>6. ASSUME RG!Between(e, c) PROVE P = c
  <2> DEFINE u == c * per
  <2>1. (c = ProcCols - 1 \/ e < S(c + 1)) /\ (c = 0 \/ S(c) <= e)
    BY <1>1, <1>6
  <2> HIDE DEF P, S, L, per
  <2>2. u \in Nat /\ (c + 1) * per = u + per /\ (c = 0 => u = 0) /\ (c = ProcCols - 1 => (ProcCols - 1) * per = u)
    BY <1>0, <1>2, Sizes
  <2> HIDE DEF u
  <2>3. S(c) = u /\ S(c + 1) = u + per /\ L(c) = IF c = ProcCols - 1 THEN NEntities - u ELSE per
    BY <1>0, <1>3, <2>2 DEF u
  <2>4. e - u \in 0 .. L(c) - 1
    BY <1>0, <1>2, <2>1, <2>2, <2>3, Sizes
  <2> QED BY <1>0, <2>3, <2>4, Sizes, PartUnique DEF P, S, L
<1> QED BY <1>5, <1>6

\* The row parts' lists make up the whole.
LEMMA ListsShared ==
  ASSUME NEW t, NEW R, NEW f, \A c \in RG!Row : Lists(t[c], {r \in R : f[r] = c}), \A r \in R : f[r] \in RG!Row
  PROVE  Holds(t, R)
<1> DEFINE s == PartsOf(t)
<1>1. \A k \in 1 .. ProcCols : k - 1 \in RG!Row /\ s[k] = t[k - 1]
  BY Sizes DEF PartsOf, RG!Row
<1>2. \A c \in RG!Row : c + 1 \in 1 .. ProcCols /\ s[c + 1] = t[c]
  BY PartPlaces
<1> HIDE DEF s
<1>3. \A k \in 1 .. ProcCols : Lists(s[k], {r \in R : f[r] = k - 1})
  BY <1>1
<1>4. \A k \in 1 .. ProcCols : \A i \in 1 .. Len(s[k]) : s[k][i] \in R /\ f[s[k][i]] = k - 1
  BY <1>3 DEF Lists
<1>5. ASSUME NEW x \in R PROVE \E k \in 1 .. ProcCols : \E i \in 1 .. Len(s[k]) : s[k][i] = x
  <2>1. f[x] \in RG!Row
    OBVIOUS
  <2>2. \E i \in 1 .. Len(t[f[x]]) : t[f[x]][i] = x
    BY <2>1 DEF Lists
  <2> QED BY <1>2, <2>1, <2>2
<1>6. ASSUME NEW k \in 1 .. ProcCols, NEW l \in 1 .. ProcCols, NEW i \in 1 .. Len(s[k]), NEW j \in 1 .. Len(s[l]), s[k][i] = s[l][j]
      PROVE  k = l /\ i = j
  <2>1. k = l
    <3>1. k - 1 = l - 1
      BY <1>4, <1>6
    <3> QED BY <3>1
  <2> QED BY <1>3, <1>6, <2>1 DEF Lists
<1> QED BY <1>4, <1>5, <1>6 DEF Holds, Shared, s

\* An aligned part has the rows of the whole whose key is its own.
LEMMA AlignedLists ==
  ASSUME NEW t, NEW w, IsTable(t, w), NEW p, AlignedOn(t, p), NEW R, Holds(t, R), NEW c \in RG!Row
  PROVE  Lists(t[c], {r \in R : PartIs(r, p, c)})
<1> DEFINE s == PartsOf(t)
<1>1. \A k \in 1 .. ProcCols : k - 1 \in RG!Row /\ s[k] = t[k - 1]
  BY Sizes DEF PartsOf, RG!Row
<1>2. c + 1 \in 1 .. ProcCols /\ s[c + 1] = t[c]
  BY PartPlaces
<1> HIDE DEF s
<1>3. Shared(s, ProcCols, R)
  BY DEF Holds, s
<1>4. \A i \in 1 .. Len(t[c]) : t[c][i] \in {r \in R : PartIs(r, p, c)}
  BY <1>2, <1>3 DEF Shared, AlignedOn
<1>5. ASSUME NEW x \in R, PartIs(x, p, c) PROVE \E i \in 1 .. Len(t[c]) : t[c][i] = x
  <2>1. PICK k \in 1 .. ProcCols : \E i \in 1 .. Len(s[k]) : s[k][i] = x
    BY <1>3 DEF Shared
  <2>2. PICK i \in 1 .. Len(t[k - 1]) : t[k - 1][i] = x
    BY <1>1, <2>1
  <2>3. k - 1 \in RG!Row
    BY <1>1
  <2>4. PartIs(x, p, k - 1)
    BY <2>2, <2>3 DEF AlignedOn
  <2>5. k - 1 = c
    BY <1>5, <2>4 DEF PartIs
  <2> QED BY <2>2, <2>5
<1>6. \A i, j \in 1 .. Len(t[c]) : t[c][i] = t[c][j] => i = j
  BY <1>2, <1>3 DEF Shared
<1> QED BY <1>4, <1>5, <1>6 DEF Lists, IsTable

\* The key columns of a table's rows are entities, of one part each.
LEMMA KeyRight ==
  ASSUME NEW w \in Nat, NEW p \in 1 .. w, NEW r \in Width(w)
  PROVE  r[p] \in Entity /\ r[p] \in Int /\ PartOf(NEntities, ProcCols, r[p]) \in RG!Row
<1>1. r[p] \in Entity
  BY DEF Width
<1>2. r[p] \in 0 .. NEntities - 1 /\ r[p] \in Int
  BY <1>1, Sizes DEF Entity
<1> QED BY <1>1, <1>2, Sizes, PartOfRight DEF RG!Row

\* What a process sends to another: the rows of its part whose key is the other's.
Sent(t, p, c) ==
  LET part == RG!SortOn(t, p) IN RG!AtPlaces(part, {i \in DOMAIN part : RG!Between(part[i][p], c)})

\* What is sent is as sorted as the part, and has the rows with keys of the receiver.
LEMMA SentRight ==
  ASSUME NEW w \in Nat, NEW p \in 1 .. w, NEW t, IsSequence(t), \A i \in 1 .. Len(t) : t[i] \in Width(w),
         NEW c \in RG!Row
  PROVE  /\ IsSequence(Sent(t, p, c))
         /\ \A i \in 1 .. Len(Sent(t, p, c)) :
              PartIs(Sent(t, p, c)[i], p, c) /\ \E j \in 1 .. Len(t) : Sent(t, p, c)[i] = t[j]
         /\ \A R : Lists(t, R) => Lists(Sent(t, p, c), {r \in R : PartIs(r, p, c)})
<1> DEFINE part == RG!SortOn(t, p)
           places == {i \in DOMAIN part : RG!Between(part[i][p], c)}
           sent == RG!AtPlaces(part, places)
<1>1. \A i \in 1 .. Len(t) : t[i][p] \in Int
  BY KeyRight
<1>2. /\ IsSequence(part)
      /\ \A i \in 1 .. Len(part) : \E j \in 1 .. Len(t) : part[i] = t[j]
      /\ \A R : Lists(t, R) => Lists(part, R)
  BY <1>1, SortOnRight, SameOperators
<1> HIDE DEF part
<1>3. DOMAIN part = 1 .. Len(part)
  BY <1>2 DEF IsSequence
<1>4. \A i \in 1 .. Len(part) : part[i] \in Width(w)
  BY <1>2
<1>5. \A i \in 1 .. Len(part) : RG!Between(part[i][p], c) <=> PartIs(part[i], p, c)
  <2> SUFFICES ASSUME NEW i \in 1 .. Len(part) PROVE RG!Between(part[i][p], c) <=> PartIs(part[i], p, c)
    OBVIOUS
  <2>1. part[i][p] \in Entity
    BY <1>4, KeyRight
  <2> QED BY <2>1, BetweenRight DEF PartIs
<1>6. places = {i \in 1 .. Len(part) : PartIs(part[i], p, c)}
  BY <1>3, <1>5
<1> HIDE DEF places
<1>7. /\ IsSequence(sent)
      /\ \A k \in 1 .. Len(sent) : \E i \in places : sent[k] = part[i]
      /\ \A R : Lists(part, R) => Lists(sent, {part[i] : i \in places})
  <2>1. places \in SUBSET (1 .. Len(part))
    BY <1>6
  <2>2. /\ IsSequence(AtPlaces(part, places))
        /\ \A k \in 1 .. Len(AtPlaces(part, places)) : \E i \in places : AtPlaces(part, places)[k] = part[i]
        /\ \A R : Lists(part, R) => Lists(AtPlaces(part, places), {part[i] : i \in places})
    BY <1>2, <2>1, AtRight
  <2>3. sent = AtPlaces(part, places)
    BY SameOperators
  <2> QED BY <2>2, <2>3, Zenon
<1> HIDE DEF sent
<1>8. \A i \in 1 .. Len(sent) : PartIs(sent[i], p, c) /\ \E j \in 1 .. Len(t) : sent[i] = t[j]
  <2> SUFFICES ASSUME NEW i \in 1 .. Len(sent) PROVE PartIs(sent[i], p, c) /\ \E j \in 1 .. Len(t) : sent[i] = t[j]
    OBVIOUS
  <2>1. PICK k \in places : sent[i] = part[k]
    BY <1>7
  <2>2. k \in 1 .. Len(part) /\ PartIs(part[k], p, c)
    BY <1>6
  <2> QED BY <1>2, <2>1, <2>2
<1>9. ASSUME NEW R, Lists(t, R) PROVE Lists(sent, {r \in R : PartIs(r, p, c)})
  <2>1. Lists(part, R)
    BY <1>2, <1>9
  <2>2. {part[i] : i \in places} = {r \in R : PartIs(r, p, c)}
    <3>1. \A i \in places : part[i] \in R /\ PartIs(part[i], p, c)
      BY <1>6, <2>1 DEF Lists
    <3>2. \A r \in R : PartIs(r, p, c) => \E i \in places : part[i] = r
      BY <1>6, <2>1 DEF Lists
    <3> QED BY <3>1, <3>2
  <2> QED BY <1>7, <2>1, <2>2
<1>10. Sent(t, p, c) = sent
  BY DEF Sent, sent, places, part
<1> QED BY <1>7, <1>8, <1>9, <1>10

\* The redistribution brings each row to the process of its key, sorted by it, and loses and
\* repeats none, wherever the rows were (local_redistribution).
THEOREM RedistributedRight ==
  ASSUME NEW w \in Nat, NEW p \in 1 .. w, NEW t, IsTable(t, w)
  PROVE  /\ IsTable(RG!Redistributed(t, p), w) /\ AlignedOn(RG!Redistributed(t, p), p)
         /\ \A R : Holds(t, R) => Holds(RG!Redistributed(t, p), R)
<1> DEFINE sent(k, c) == Sent(t[k - 1], p, c)
           all(c) == [k \in 1 .. ProcCols |-> sent(k, c)]
           flat(c) == RG!FlattenSeq(all(c))
           u == RG!Redistributed(t, p)
<1>1. u = [c \in RG!Row |-> RG!SortOn(flat(c), p)]
  BY Zenon DEF RG!Redistributed, Sent
<1>2. ASSUME NEW k \in 1 .. ProcCols, NEW c \in RG!Row
      PROVE  /\ IsSequence(sent(k, c))
             /\ \A i \in 1 .. Len(sent(k, c)) : PartIs(sent(k, c)[i], p, c) /\ \E j \in 1 .. Len(t[k - 1]) : sent(k, c)[i] = t[k - 1][j]
             /\ \A R : Lists(t[k - 1], R) => Lists(sent(k, c), {r \in R : PartIs(r, p, c)})
  <2>1. k - 1 \in RG!Row
    BY Sizes DEF RG!Row
  <2> DEFINE s == t[k - 1]
  <2>2. IsSequence(s) /\ \A i \in 1 .. Len(s) : s[i] \in Width(w)
    BY <2>1 DEF IsTable
  <2> HIDE DEF s
  <2> QED BY <2>2, SentRight, ZenonT(30) DEF s
<1> HIDE DEF sent
<1>3. ASSUME NEW c \in RG!Row
      PROVE  /\ IsSequence(flat(c))
             /\ \A j \in 1 .. Len(flat(c)) : flat(c)[j] \in Width(w) /\ PartIs(flat(c)[j], p, c)
             /\ \A S : Shared(all(c), ProcCols, S) => Lists(flat(c), S)
  <2> DEFINE a == all(c)
             f == flat(c)
  <2>1. a = [k \in 1 .. ProcCols |-> a[k]] /\ \A k \in 1 .. ProcCols : a[k] = sent(k, c)
    OBVIOUS
  <2> HIDE DEF a
  <2>2. \A k \in 1 .. ProcCols : IsSequence(a[k])
    BY <1>2, <2>1
  <2>3. Flattened(RG!FlattenSeq(a), a, ProcCols)
    <3>1. ProcCols \in Nat \ {0}
      BY Sizes
    <3>2. a = [k \in 1 .. ProcCols |-> a[k]]
      BY <2>1
    <3> QED BY <2>2, <3>1, <3>2, FlattenRight
  <2>4. f = RG!FlattenSeq(a)
    BY DEF a
  <2> HIDE DEF f
  <2>5. ASSUME NEW j \in 1 .. Len(f) PROVE f[j] \in Width(w) /\ PartIs(f[j], p, c)
    <3>1. PICK k \in 1 .. ProcCols : \E i \in 1 .. Len(a[k]) : f[j] = a[k][i]
      BY <2>3, <2>4 DEF Flattened
    <3>2. PartIs(f[j], p, c) /\ \E i \in 1 .. Len(t[k - 1]) : f[j] = t[k - 1][i]
      BY <1>2, <2>1, <3>1, SMTT(30)
    <3>3. k - 1 \in RG!Row
      BY Sizes DEF RG!Row
    <3> QED BY <3>2, <3>3 DEF IsTable
  <2> QED BY <2>3, <2>4, <2>5 DEF a, f, Flattened
<1>4. ASSUME NEW c \in RG!Row
      PROVE  /\ IsSequence(u[c]) /\ SortedOn(u[c], p)
             /\ \A i \in 1 .. Len(u[c]) : u[c][i] \in Width(w) /\ PartIs(u[c][i], p, c)
             /\ \A S : Shared(all(c), ProcCols, S) => Lists(u[c], S)
  <2> DEFINE f == flat(c)
             e == RG!SortOn(f, p)
  <2>1. u[c] = e
    BY <1>1
  <2>2. /\ IsSequence(f) /\ \A j \in 1 .. Len(f) : f[j] \in Width(w) /\ PartIs(f[j], p, c)
        /\ \A S : Shared(all(c), ProcCols, S) => Lists(f, S)
    BY <1>3
  <2> HIDE DEF f
  <2>3. \A i \in 1 .. Len(f) : f[i][p] \in Int
    BY <2>2, KeyRight
  <2>4. /\ IsSequence(e) /\ SortedOn(e, p)
        /\ \A i \in 1 .. Len(e) : \E j \in 1 .. Len(f) : e[i] = f[j]
        /\ \A S : Lists(f, S) => Lists(e, S)
    BY <2>2, <2>3, SortOnRight, SameOperators
  <2> HIDE DEF e, all, u
  <2> QED BY <2>1, <2>2, <2>4
<1>5. u = [c \in RG!Row |-> u[c]]
  BY <1>1
<1> HIDE DEF u
<1>6. IsTable(u, w) /\ AlignedOn(u, p)
  BY <1>4, <1>5 DEF IsTable, AlignedOn
<1>7. ASSUME NEW R, Holds(t, R) PROVE Holds(u, R)
  <2> DEFINE s == PartsOf(t)
             key == [r \in R |-> PartOf(NEntities, ProcCols, r[p])]
             from(k) == {s[k][i] : i \in 1 .. Len(s[k])}
  <2>1. \A k \in 1 .. ProcCols : k - 1 \in RG!Row /\ s[k] = t[k - 1]
    BY Sizes DEF PartsOf, RG!Row
  <2>2. Shared(s, ProcCols, R)
    BY <1>7 DEF Holds
  <2> HIDE DEF s
  <2>3. ASSUME NEW k \in 1 .. ProcCols PROVE Lists(t[k - 1], from(k)) /\ from(k) \subseteq R
    <3>1. IsSequence(s[k])
      BY <2>1 DEF IsTable
    <3>2. \A i \in 1 .. Len(s[k]) : s[k][i] \in R
      BY <2>2 DEF Shared
    <3>3. \A i, j \in 1 .. Len(s[k]) : s[k][i] = s[k][j] => i = j
      BY <2>2 DEF Shared
    <3>4. Lists(s[k], from(k))
      BY <3>1, <3>3 DEF Lists
    <3> QED BY <2>1, <3>2, <3>4
  <2>4. \A k, l \in 1 .. ProcCols : \A x \in from(k) : x \in from(l) => k = l
    BY <2>2 DEF Shared
  <2>5. \A x \in R : \E k \in 1 .. ProcCols : x \in from(k)
    <3> SUFFICES ASSUME NEW x \in R PROVE \E k \in 1 .. ProcCols : x \in from(k)
      OBVIOUS
    <3>1. PICK k \in 1 .. ProcCols : \E i \in 1 .. Len(s[k]) : s[k][i] = x
      BY <2>2 DEF Shared
    <3> QED BY <3>1
  <2>6. R \subseteq Width(w)
    <3> SUFFICES ASSUME NEW x \in R PROVE x \in Width(w)
      OBVIOUS
    <3>1. PICK k \in 1 .. ProcCols : \E i \in 1 .. Len(s[k]) : s[k][i] = x
      BY <2>2 DEF Shared
    <3> QED BY <2>1, <3>1 DEF IsTable
  <2> HIDE DEF from
  <2>7. ASSUME NEW c \in RG!Row PROVE Lists(u[c], {r \in R : PartIs(r, p, c)})
    <3> DEFINE a == all(c)
               S == {r \in R : PartIs(r, p, c)}
    <3>1. \A k \in 1 .. ProcCols : a[k] = sent(k, c)
      OBVIOUS
    <3> HIDE DEF a
    <3>2. ASSUME NEW k \in 1 .. ProcCols PROVE Lists(a[k], {r \in from(k) : PartIs(r, p, c)})
      BY <1>2, <2>3, <3>1
    <3>3. ASSUME NEW k \in 1 .. ProcCols, NEW i \in 1 .. Len(a[k]) PROVE a[k][i] \in S /\ a[k][i] \in from(k)
      BY <2>3, <3>2 DEF Lists
    <3>4. ASSUME NEW x \in S PROVE \E k \in 1 .. ProcCols : \E i \in 1 .. Len(a[k]) : a[k][i] = x
      <4>1. PICK k \in 1 .. ProcCols : x \in from(k)
        BY <2>5
      <4>2. \E i \in 1 .. Len(a[k]) : a[k][i] = x
        BY <3>2, <4>1 DEF Lists
      <4> QED BY <4>2
    <3>5. ASSUME NEW k \in 1 .. ProcCols, NEW l \in 1 .. ProcCols, NEW i \in 1 .. Len(a[k]), NEW j \in 1 .. Len(a[l]), a[k][i] = a[l][j]
          PROVE  k = l /\ i = j
      <4>1. k = l
        BY <2>4, <3>3, <3>5
      <4> QED BY <3>2, <3>5, <4>1 DEF Lists
    <3> HIDE DEF S
    <3>6. Shared(a, ProcCols, S)
      BY <3>3, <3>4, <3>5 DEF Shared
    <3> QED BY <1>4, <3>6 DEF a, S
  <2>8. \A r \in R : key[r] \in RG!Row /\ \A c : PartIs(r, p, c) <=> key[r] = c
    BY <2>6, KeyRight DEF PartIs
  <2> HIDE DEF key
  <2>9. \A c \in RG!Row : Lists(u[c], {r \in R : key[r] = c})
    <3> SUFFICES ASSUME NEW c \in RG!Row PROVE Lists(u[c], {r \in R : key[r] = c})
      OBVIOUS
    <3>1. {r \in R : PartIs(r, p, c)} = {r \in R : key[r] = c}
      BY <2>8
    <3> QED BY <2>7, <3>1
  <2> QED BY <2>8, <2>9, ListsShared
<1> QED BY <1>6, <1>7 DEF u

-----------------------------------------------------------------------------
(* Joins and filters. *)

\* The pairs of a row and a nonzero that meet; and a sequence of such pairs on the process of
\* their key, ascending.
Met(R, m, p) == {x \in R \X m : x[1][p] = x[2][2]}
Meets(met, w, p, c) ==
  /\ IsSequence(met)
  /\ \A k \in 1 .. Len(met) : met[k] \in Width(w) \X Pair /\ met[k][1][p] = met[k][2][2] /\ PartIs(met[k][1], p, c)
  /\ \A i, j \in 1 .. Len(met) : i < j => met[i][1][p] <= met[j][1][p]
Here(M, p, c) == {x \in M : PartIs(x[1], p, c)}

\* The merge of aligned tables finds all rows of a process that meet, each pair once (local_join).
LEMMA MeetingsMeet ==
  ASSUME NEW w \in Nat, NEW p \in 1 .. w, NEW c \in RG!Row, NEW m \in SUBSET Pair,
         NEW t, IsSequence(t), \A i \in 1 .. Len(t) : t[i] \in Width(w) /\ PartIs(t[i], p, c), SortedOn(t, p)
  PROVE  /\ Meets(RG!Meetings(t, RG!Gathered(m, c), p), w, p, c)
         /\ \A R : Lists(t, {r \in R : PartIs(r, p, c)})
                   => Lists(RG!Meetings(t, RG!Gathered(m, c), p), Here(Met(R, m, p), p, c))
<1> DEFINE g == RG!Gathered(m, c)
           met == RG!Meetings(t, g, p)
           at == KeyAt(t, g, p)
<1>1. Lists(g, InPart(m, c)) /\ SortedOn(g, 2)
  BY GatheredRight
<1>2. \A j \in 1 .. Len(g) : g[j] \in m /\ g[j] \in Pair /\ PartOf(NEntities, ProcCols, g[j][2]) = c
  BY <1>1 DEF Lists, InPart
<1> HIDE DEF g
<1>3. PICK ix : Lists(ix, Meeting(t, g, p)) /\ AscendsBy(ix, KeyAt(t, g, p)) /\ RG!Meetings(t, g, p) = RowsAt(t, g, ix)
  <2>1. Sorted(t, p, g)
    BY <1>1 DEF Sorted, Lists
  <2> QED BY <2>1, MeetingsRight, SameOperators
<1>4. /\ IsSequence(met) /\ Len(met) = Len(ix)
      /\ \A k \in 1 .. Len(ix) : met[k] = <<t[ix[k][1]], g[ix[k][2]]>>
  <2>1. IsSequence(ix)
    BY <1>3 DEF Lists
  <2> QED BY <1>3, <2>1, RowsAtRight
<1>5. \A k \in 1 .. Len(ix) : ix[k] \in (1 .. Len(t)) \X (1 .. Len(g)) /\ t[ix[k][1]][p] = g[ix[k][2]][2] /\ at[ix[k]] = t[ix[k][1]][p]
  <2>1. \A q \in Meeting(t, g, p) : q \in (1 .. Len(t)) \X (1 .. Len(g)) /\ t[q[1]][p] = g[q[2]][2] /\ at[q] = t[q[1]][p]
    BY DEF Meeting, KeyAt
  <2> QED BY <1>3, <2>1 DEF Lists
<1> HIDE DEF met, at
<1>6. \A k \in 1 .. Len(ix) : ix[k][1] \in 1 .. Len(t) /\ ix[k][2] \in 1 .. Len(g)
                               /\ met[k][1] = t[ix[k][1]] /\ met[k][2] = g[ix[k][2]]
  BY <1>4, <1>5
<1>7. Meets(met, w, p, c)
  <2>1. \A k \in 1 .. Len(met) : met[k] \in Width(w) \X Pair /\ met[k][1][p] = met[k][2][2] /\ PartIs(met[k][1], p, c)
    <3> SUFFICES ASSUME NEW k \in 1 .. Len(ix)
                 PROVE  met[k] \in Width(w) \X Pair /\ met[k][1][p] = met[k][2][2] /\ PartIs(met[k][1], p, c)
      BY <1>4
    <3> DEFINE a == t[ix[k][1]]
               b == g[ix[k][2]]
    <3>1. a \in Width(w) /\ PartIs(a, p, c) /\ b \in Pair /\ a[p] = b[2]
      BY <1>2, <1>5, <1>6
    <3>2. met[k] = <<a, b>> /\ met[k][1] = a /\ met[k][2] = b
      BY <1>4, <1>6
    <3> HIDE DEF a, b
    <3> QED BY <3>1, <3>2
  <2>2. ASSUME NEW i \in 1 .. Len(met), NEW j \in 1 .. Len(met), i < j PROVE met[i][1][p] <= met[j][1][p]
    <3>1. at[ix[i]] <= at[ix[j]]
      BY <1>3, <1>4, <2>2 DEF AscendsBy, at
    <3> QED BY <1>4, <1>5, <1>6, <3>1
  <2> QED BY <1>4, <2>1, <2>2 DEF Meets
<1>8. ASSUME NEW R, Lists(t, {r \in R : PartIs(r, p, c)}) PROVE Lists(met, Here(Met(R, m, p), p, c))
  <2>1. \A k \in 1 .. Len(met) : met[k] \in Here(Met(R, m, p), p, c)
    <3>1. \A i \in 1 .. Len(t) : t[i] \in R /\ PartIs(t[i], p, c)
      BY <1>8 DEF Lists
    <3> SUFFICES ASSUME NEW k \in 1 .. Len(ix) PROVE met[k] \in Here(Met(R, m, p), p, c)
      BY <1>4
    <3> DEFINE a == t[ix[k][1]]
               b == g[ix[k][2]]
    <3>2. a \in R /\ PartIs(a, p, c) /\ b \in m /\ a[p] = b[2]
      BY <1>2, <1>5, <1>6, <3>1
    <3>3. met[k] = <<a, b>> /\ met[k][1] = a /\ met[k][2] = b
      BY <1>4, <1>6
    <3> HIDE DEF a, b
    <3> QED BY <3>2, <3>3 DEF Here, Met
  <2>2. ASSUME NEW x \in Here(Met(R, m, p), p, c) PROVE \E k \in 1 .. Len(met) : met[k] = x
    <3>1. x = <<x[1], x[2]>> /\ x[1] \in R /\ x[2] \in m /\ x[1][p] = x[2][2] /\ PartIs(x[1], p, c)
      BY DEF Here, Met
    <3>2. PICK i \in 1 .. Len(t) : t[i] = x[1]
      BY <1>8, <3>1 DEF Lists
    <3>3. x[2] \in InPart(m, c)
      BY <3>1 DEF InPart, PartIs
    <3>4. PICK j \in 1 .. Len(g) : g[j] = x[2]
      BY <1>1, <3>3 DEF Lists
    <3>5. <<i, j>> \in Meeting(t, g, p)
      BY <3>1, <3>2, <3>4 DEF Meeting
    <3>6. PICK k \in 1 .. Len(ix) : ix[k] = <<i, j>>
      BY <1>3, <3>5 DEF Lists
    <3>7. met[k] = <<t[i], g[j]>>
      BY <1>4, <3>6
    <3> QED BY <1>4, <3>1, <3>2, <3>4, <3>7
  <2>3. ASSUME NEW k \in 1 .. Len(met), NEW l \in 1 .. Len(met), met[k] = met[l] PROVE k = l
    <3>1. t[ix[k][1]] = t[ix[l][1]] /\ g[ix[k][2]] = g[ix[l][2]]
      BY <1>4, <1>6, <2>3
    <3>2. ix[k][1] = ix[l][1]
      BY <1>4, <1>6, <1>8, <3>1, ZenonT(30) DEF Lists
    <3>3. ix[k][2] = ix[l][2]
      BY <1>1, <1>4, <1>6, <3>1 DEF Lists
    <3>4. ix[k] = ix[l]
      <4> DEFINE x == ix[k]
                 y == ix[l]
      <4>1. x \in (1 .. Len(t)) \X (1 .. Len(g)) /\ y \in (1 .. Len(t)) \X (1 .. Len(g)) /\ x[1] = y[1] /\ x[2] = y[2]
        BY <1>4, <1>5, <3>2, <3>3
      <4> HIDE DEF x, y
      <4>2. x = y
        BY <4>1, SMTT(30)
      <4> QED BY <4>2 DEF x, y
    <3> QED BY <1>3, <1>4, <3>4 DEF Lists
  <2> QED BY <1>4, <2>1, <2>2, <2>3 DEF Lists
<1> QED BY <1>7, <1>8 DEF met, g

\* The pairs that a filter keeps: those whose first column of the matrix is the other key.
Agreeing(M, q) == {x \in M : x[1][q] = x[2][1]}
KeptPairs(all, q) == RG!AtPlaces(all, {i \in DOMAIN all : all[i][1][q] = all[i][2][1]})

\* Of these a filter keeps those that agree in the second column too (local_filter).
LEMMA FilteredMeet ==
  ASSUME NEW w, NEW p, NEW q, NEW c, NEW all, Meets(all, w, p, c)
  PROVE  Meets(KeptPairs(all, q), w, p, c) /\ \A M : Lists(all, M) => Lists(KeptPairs(all, q), Agreeing(M, q))
<1> DEFINE places == {i \in DOMAIN all : all[i][1][q] = all[i][2][1]}
           met == RG!AtPlaces(all, places)
           M0 == {all[k] : k \in 1 .. Len(all)}
           key == [x \in M0 |-> x[1][p]]
<1>1. IsSequence(all) /\ DOMAIN all = 1 .. Len(all)
  BY DEF Meets, IsSequence
<1>2. places \in SUBSET (1 .. Len(all)) /\ \A i : i \in places <=> i \in 1 .. Len(all) /\ all[i][1][q] = all[i][2][1]
  BY <1>1
<1> HIDE DEF places
<1>3. /\ IsSequence(met)
      /\ \A k \in 1 .. Len(met) : \E i \in places : met[k] = all[i]
      /\ \A S : Lists(all, S) => Lists(met, {all[i] : i \in places})
      /\ \A b : AscendsBy(all, b) => AscendsBy(met, b)
  BY <1>1, <1>2, AtRight, SameOperators
<1> HIDE DEF met
<1>4. \A k \in 1 .. Len(met) : \E i \in 1 .. Len(all) : met[k] = all[i] /\ all[i][1][q] = all[i][2][1]
  BY <1>2, <1>3
<1>5. \A i \in 1 .. Len(all) : all[i] \in M0 /\ key[all[i]] = all[i][1][p]
  OBVIOUS
<1> HIDE DEF M0, key
<1>6. AscendsBy(all, key)
  <2>1. \A i \in 1 .. Len(all) : all[i][1][p] \in Int
    <3> SUFFICES ASSUME NEW i \in 1 .. Len(all) PROVE all[i][1][p] \in Int
      OBVIOUS
    <3>1. all[i] \in Width(w) \X Pair /\ all[i][1][p] = all[i][2][2]
      BY DEF Meets
    <3> QED BY <3>1, Sizes DEF Pair, Entity
  <2> QED BY <1>5, <2>1 DEF Meets, AscendsBy
<1>7. \A i, j \in 1 .. Len(met) : i < j => met[i][1][p] <= met[j][1][p]
  <2>1. AscendsBy(met, key)
    BY <1>3, <1>6
  <2>2. \A k \in 1 .. Len(met) : key[met[k]] = met[k][1][p]
    BY <1>4, <1>5
  <2> QED BY <2>1, <2>2 DEF AscendsBy
<1>8. \A k \in 1 .. Len(met) : /\ met[k] \in Width(w) \X Pair /\ met[k][1][p] = met[k][2][2] /\ PartIs(met[k][1], p, c)
                               /\ met[k][1][q] = met[k][2][1]
  BY <1>4 DEF Meets
<1>9. ASSUME NEW M, Lists(all, M) PROVE Lists(met, Agreeing(M, q))
  <2>1. {all[i] : i \in places} = Agreeing(M, q)
    <3>1. \A i \in places : all[i] \in Agreeing(M, q)
      BY <1>2, <1>9 DEF Lists, Agreeing
    <3>2. ASSUME NEW x \in Agreeing(M, q) PROVE \E i \in places : all[i] = x
      <4>1. x \in M /\ x[1][q] = x[2][1]
        BY DEF Agreeing
      <4>2. PICK i \in 1 .. Len(all) : all[i] = x
        BY <1>9, <4>1 DEF Lists
      <4> QED BY <1>2, <4>1, <4>2
    <3> QED BY <3>1, <3>2
  <2> QED BY <1>3, <1>9, <2>1
<1>10. met = KeptPairs(all, q)
  BY DEF KeptPairs, met, places
<1> QED BY <1>3, <1>7, <1>8, <1>9, <1>10 DEF Meets

\* The columns of a result: each comes from one of the table or of the matrix.
IsOrder(order, w) ==
  /\ IsSequence(order)
  /\ \A i \in 1 .. Len(order) : order[i] \in ({0} \X (0 .. w - 1)) \cup ({1} \X {0, 1})
Put(order, M) == {RG!PutTuple(order, x[1], x[2]) : x \in M}
Distinct(order, M) == \A x, y \in M : RG!PutTuple(order, x[1], x[2]) = RG!PutTuple(order, y[1], y[2]) => x = y
PutAll(order, met) == [i \in DOMAIN met |-> RG!PutTuple(order, met[i][1], met[i][2])]

\* An order that takes columns of both tables makes rows of its width (put_tuple).
LEMMA TupleRight ==
  ASSUME NEW w \in Nat, NEW order, IsOrder(order, w), NEW a \in Width(w), NEW b \in Pair
  PROVE  /\ RG!PutTuple(order, a, b) \in Width(Len(order))
         /\ \A i \in 1 .. Len(order) :
              /\ \A j \in 1 .. w : order[i] = <<0, j - 1>> => RG!PutTuple(order, a, b)[i] = a[j]
              /\ order[i] = <<1, 0>> => RG!PutTuple(order, a, b)[i] = b[1]
              /\ order[i] = <<1, 1>> => RG!PutTuple(order, a, b)[i] = b[2]
<1> DEFINE z(i) == IF order[i][1] = 0 THEN a[order[i][2] + 1] ELSE b[order[i][2] + 1]
           r == RG!PutTuple(order, a, b)
<1>1. DOMAIN order = 1 .. Len(order)
  BY DEF IsOrder, IsSequence
<1>2. r = [i \in 1 .. Len(order) |-> z(i)]
  BY <1>1 DEF RG!PutTuple
<1>3. ASSUME NEW i \in 1 .. Len(order) PROVE z(i) \in Entity
  <2>1. CASE order[i] \in {0} \X (0 .. w - 1)
    <3>1. order[i][1] = 0 /\ order[i][2] + 1 \in 1 .. w
      BY <2>1
    <3>2. z(i) = a[order[i][2] + 1]
      BY <3>1
    <3> HIDE DEF z
    <3> QED BY <3>1, <3>2 DEF Width
  <2>2. CASE order[i] \in {1} \X {0, 1}
    <3>1. order[i][1] = 1 /\ order[i][2] + 1 \in {1, 2}
      BY <2>2
    <3>2. z(i) = b[order[i][2] + 1]
      BY <3>1
    <3>3. b[1] \in Entity /\ b[2] \in Entity
      BY DEF Pair
    <3> HIDE DEF z
    <3> QED BY <3>1, <3>2, <3>3
  <2> QED BY <2>1, <2>2 DEF IsOrder
<1>4. ASSUME NEW i \in 1 .. Len(order)
      PROVE  /\ \A j \in 1 .. w : order[i] = <<0, j - 1>> => z(i) = a[j]
             /\ order[i] = <<1, 0>> => z(i) = b[1]
             /\ order[i] = <<1, 1>> => z(i) = b[2]
  <2>1. ASSUME NEW j \in 1 .. w, order[i] = <<0, j - 1>> PROVE z(i) = a[j]
    <3>1. order[i][1] = 0 /\ order[i][2] + 1 = j
      BY <2>1
    <3> QED BY <3>1
  <2>2. ASSUME order[i] = <<1, 0>> PROVE z(i) = b[1]
    <3>1. order[i][1] = 1 /\ order[i][2] + 1 = 1
      BY <2>2
    <3> QED BY <3>1
  <2>3. ASSUME order[i] = <<1, 1>> PROVE z(i) = b[2]
    <3>1. order[i][1] = 1 /\ order[i][2] + 1 = 2
      BY <2>3
    <3> QED BY <3>1
  <2> QED BY <2>1, <2>2, <2>3
<1> HIDE DEF z, r
<1>5. r \in Width(Len(order)) /\ \A i \in 1 .. Len(order) : r[i] = z(i)
  BY <1>2, <1>3 DEF Width
<1> QED BY <1>4, <1>5 DEF r

\* The rows of a result, from pairs that meet: a column that has the key is sorted.
LEMMA PutRight ==
  ASSUME NEW w \in Nat, NEW p \in 1 .. w, NEW c, NEW met, Meets(met, w, p, c), NEW order, IsOrder(order, w)
  PROVE  /\ IsSequence(PutAll(order, met))
         /\ \A i \in 1 .. Len(PutAll(order, met)) : PutAll(order, met)[i] \in Width(Len(order))
         /\ \A q \in 1 .. Len(order) : order[q] \in {<<0, p - 1>>, <<1, 1>>} =>
              SortedOn(PutAll(order, met), q) /\ \A i \in 1 .. Len(PutAll(order, met)) : PartIs(PutAll(order, met)[i], q, c)
         /\ \A M : Lists(met, M) /\ Distinct(order, M) => Lists(PutAll(order, met), Put(order, M))
<1> DEFINE t == PutAll(order, met)
           n == Len(met)
           row(i) == RG!PutTuple(order, met[i][1], met[i][2])
<1>1. IsSequence(met) /\ n \in Nat /\ DOMAIN met = 1 .. n
  BY DEF Meets, IsSequence
<1>2. t = [i \in 1 .. n |-> row(i)]
  BY <1>1 DEF PutAll
<1>3. ASSUME NEW i \in 1 .. n
      PROVE  /\ row(i) \in Width(Len(order))
             /\ \A q \in 1 .. Len(order) : order[q] \in {<<0, p - 1>>, <<1, 1>>} => row(i)[q] = met[i][1][p]
             /\ met[i][1][p] \in Int /\ PartIs(met[i][1], p, c)
  <2> DEFINE a == met[i][1]
             b == met[i][2]
  <2>1. a \in Width(w) /\ b \in Pair /\ a[p] = b[2] /\ PartIs(a, p, c)
    BY DEF Meets
  <2> HIDE DEF a, b
  <2>2. RG!PutTuple(order, a, b) \in Width(Len(order))
    BY <2>1, TupleRight
  <2>3. ASSUME NEW q \in 1 .. Len(order), order[q] \in {<<0, p - 1>>, <<1, 1>>} PROVE RG!PutTuple(order, a, b)[q] = a[p]
    <3>1. CASE order[q] = <<0, p - 1>>
      BY <2>1, <3>1, TupleRight
    <3>2. CASE order[q] = <<1, 1>>
      BY <2>1, <3>2, TupleRight
    <3> QED BY <2>3, <3>1, <3>2
  <2>4. a[p] \in Int
    BY <2>1, KeyRight
  <2> QED BY <2>1, <2>2, <2>3, <2>4 DEF a, b
<1> HIDE DEF row, n, t
<1>4. IsSequence(t) /\ Len(t) = n
  <2>1. t \in Seq(Width(Len(order))) /\ Len(t) = n
    BY <1>1, <1>2, <1>3
  <2> QED BY <2>1, TypedIsSequence
<1>5. \A i \in 1 .. n : t[i] = row(i)
  BY <1>2
<1>6. ASSUME NEW q \in 1 .. Len(order), order[q] \in {<<0, p - 1>>, <<1, 1>>}
      PROVE  SortedOn(t, q) /\ \A i \in 1 .. n : PartIs(t[i], q, c)
  <2>1. \A i \in 1 .. n : t[i][q] = met[i][1][p] /\ t[i][q] \in Int /\ PartIs(met[i][1], p, c)
    BY <1>3, <1>5, <1>6
  <2>2. \A i, j \in 1 .. n : i < j => met[i][1][p] <= met[j][1][p]
    BY DEF Meets, n
  <2> QED BY <1>4, <2>1, <2>2 DEF SortedOn, PartIs
<1>7. ASSUME NEW M, Lists(met, M), Distinct(order, M) PROVE Lists(t, Put(order, M))
  <2>1. \A i \in 1 .. n : met[i] \in M /\ t[i] = RG!PutTuple(order, met[i][1], met[i][2])
    BY <1>5, <1>7 DEF Lists, n, row
  <2>2. \A i \in 1 .. n : t[i] \in Put(order, M)
    BY <2>1 DEF Put
  <2>3. ASSUME NEW z \in Put(order, M) PROVE \E i \in 1 .. n : t[i] = z
    <3>1. PICK x \in M : z = RG!PutTuple(order, x[1], x[2])
      BY DEF Put
    <3>2. PICK i \in 1 .. n : met[i] = x
      BY <1>7 DEF Lists, n
    <3> QED BY <2>1, <3>1, <3>2
  <2>4. ASSUME NEW i \in 1 .. n, NEW j \in 1 .. n, t[i] = t[j] PROVE i = j
    <3>1. met[i] = met[j]
      BY <1>7, <2>1, <2>4 DEF Distinct
    <3> QED BY <1>7, <3>1 DEF Lists, n
  <2> QED BY <1>4, <2>2, <2>3, <2>4 DEF Lists
<1> QED BY <1>3, <1>4, <1>5, <1>6, <1>7 DEF t

\* A join or a filter of a table: the rows in their parts, each column of the key sorted and
\* spread, and none missing or twice.
LEMMA CombinedRight ==
  ASSUME NEW w \in Nat, NEW p \in 1 .. w, NEW met, \A c \in RG!Row : Meets(met[c], w, p, c),
         NEW order, IsOrder(order, w), NEW u, u = [c \in RG!Row |-> PutAll(order, met[c])]
  PROVE  /\ IsTable(u, Len(order))
         /\ \A q \in 1 .. Len(order) : order[q] \in {<<0, p - 1>>, <<1, 1>>} => AlignedOn(u, q)
         /\ \A M \in SUBSET (Width(w) \X Pair) :
              (\A c \in RG!Row : Lists(met[c], Here(M, p, c))) /\ Distinct(order, M) => Holds(u, Put(order, M))
<1>1. ASSUME NEW c \in RG!Row
      PROVE  /\ IsSequence(u[c]) /\ \A i \in 1 .. Len(u[c]) : u[c][i] \in Width(Len(order))
             /\ \A q \in 1 .. Len(order) : order[q] \in {<<0, p - 1>>, <<1, 1>>} =>
                  SortedOn(u[c], q) /\ \A i \in 1 .. Len(u[c]) : PartIs(u[c][i], q, c)
             /\ \A M : Lists(met[c], M) /\ Distinct(order, M) => Lists(u[c], Put(order, M))
  <2> DEFINE s == met[c]
  <2>1. Meets(s, w, p, c) /\ u[c] = PutAll(order, s)
    OBVIOUS
  <2> HIDE DEF s
  <2>2. /\ IsSequence(PutAll(order, s))
        /\ \A i \in 1 .. Len(PutAll(order, s)) : PutAll(order, s)[i] \in Width(Len(order))
    BY <2>1, PutRight
  <2>3. \A q \in 1 .. Len(order) : order[q] \in {<<0, p - 1>>, <<1, 1>>} =>
          SortedOn(PutAll(order, s), q) /\ \A i \in 1 .. Len(PutAll(order, s)) : PartIs(PutAll(order, s)[i], q, c)
    BY <2>1, PutRight
  <2>4. \A M : Lists(s, M) /\ Distinct(order, M) => Lists(PutAll(order, s), Put(order, M))
    BY <2>1, PutRight
  <2> QED BY <2>1, <2>2, <2>3, <2>4 DEF s
<1>2. IsTable(u, Len(order))
  BY <1>1 DEF IsTable
<1>3. ASSUME NEW q \in 1 .. Len(order), order[q] \in {<<0, p - 1>>, <<1, 1>>} PROVE AlignedOn(u, q)
  BY <1>1, <1>3 DEF AlignedOn
<1>4. ASSUME NEW M \in SUBSET (Width(w) \X Pair), \A c \in RG!Row : Lists(met[c], Here(M, p, c)), Distinct(order, M)
      PROVE  Holds(u, Put(order, M))
  <2> DEFINE row(x) == RG!PutTuple(order, x[1], x[2])
             part(x) == PartOf(NEntities, ProcCols, x[1][p])
             f == [r \in Put(order, M) |-> part(CHOOSE x \in M : row(x) = r)]
  <2>1. \A x \in M : row(x) \in Put(order, M) /\ f[row(x)] = part(x)
    <3> SUFFICES ASSUME NEW x \in M PROVE row(x) \in Put(order, M) /\ f[row(x)] = part(x)
      OBVIOUS
    <3>1. row(x) \in Put(order, M)
      BY DEF Put
    <3> DEFINE y == CHOOSE z \in M : row(z) = row(x)
    <3>2. y \in M /\ row(y) = row(x)
      <4> HIDE DEF row
      <4> QED OBVIOUS
    <3>3. f[row(x)] = part(y)
      BY <3>1
    <3> HIDE DEF y, f
    <3>4. y = x
      BY <1>4, <3>2 DEF Distinct
    <3> QED BY <3>1, <3>3, <3>4
  <2>2. \A r \in Put(order, M) : \E x \in M : r = row(x)
    BY DEF Put
  <2> HIDE DEF f
  <2>3. \A x \in M : part(x) \in RG!Row
    <3> SUFFICES ASSUME NEW x \in M PROVE part(x) \in RG!Row
      OBVIOUS
    <3>1. x[1] \in Width(w)
      OBVIOUS
    <3> QED BY <3>1, KeyRight
  <2>4. \A x \in M : \A c : PartIs(x[1], p, c) <=> part(x) = c
    BY DEF PartIs
  <2> HIDE DEF part, row
  <2>5. \A r \in Put(order, M) : f[r] \in RG!Row
    BY <2>1, <2>2, <2>3
  <2>6. ASSUME NEW c \in RG!Row PROVE Lists(u[c], {r \in Put(order, M) : f[r] = c})
    <3>1. Put(order, Here(M, p, c)) = {r \in Put(order, M) : f[r] = c}
      <4>1. \A x \in Here(M, p, c) : x \in M /\ f[row(x)] = c /\ row(x) \in Put(order, M)
        BY <2>1, <2>4 DEF Here
      <4>2. \A r \in Put(order, M) : f[r] = c => \E x \in Here(M, p, c) : r = row(x)
        BY <2>1, <2>2, <2>4 DEF Here
      <4>3. \A r : r \in Put(order, Here(M, p, c)) <=> \E x \in Here(M, p, c) : r = row(x)
        BY DEF Put, row
      <4> QED BY <4>1, <4>2, <4>3
    <3>2. Distinct(order, Here(M, p, c))
      BY <1>4 DEF Distinct, Here
    <3> QED BY <1>1, <1>4, <3>1, <3>2
  <2> QED BY <2>5, <2>6, ListsShared
<1> QED BY <1>2, <1>3, <1>4

\* local_join over all processes.
JoinedTable(t, m, p, order) == [c \in RG!Row |-> RG!LocalJoin(t[c], RG!Gathered(m, c), p, order)]
FilteredTable(t, m, p, q, order) == [c \in RG!Row |-> RG!LocalFilter(t[c], RG!Gathered(m, c), p, q, order)]

\* A join of a table that is aligned with the key has the rows of all pairs that meet, in
\* the processes together as in one place (local_join).
THEOREM JoinRight ==
  ASSUME NEW w \in Nat, NEW p \in 1 .. w, NEW m \in SUBSET Pair, NEW t, IsTable(t, w), AlignedOn(t, p),
         NEW order, IsOrder(order, w)
  PROVE  /\ IsTable(JoinedTable(t, m, p, order), Len(order))
         /\ \A q \in 1 .. Len(order) : order[q] \in {<<0, p - 1>>, <<1, 1>>} => AlignedOn(JoinedTable(t, m, p, order), q)
         /\ \A R \in SUBSET Width(w) : Holds(t, R) /\ Distinct(order, Met(R, m, p)) =>
              Holds(JoinedTable(t, m, p, order), Put(order, Met(R, m, p)))
<1> DEFINE met == [c \in RG!Row |-> RG!Meetings(t[c], RG!Gathered(m, c), p)]
           u == JoinedTable(t, m, p, order)
<1>1. u = [c \in RG!Row |-> PutAll(order, met[c])]
  BY DEF JoinedTable, RG!LocalJoin, PutAll
<1>2. ASSUME NEW c \in RG!Row
      PROVE  Meets(met[c], w, p, c) /\ \A R : Holds(t, R) => Lists(met[c], Here(Met(R, m, p), p, c))
  <2> DEFINE s == t[c]
  <2>1. IsSequence(s) /\ (\A i \in 1 .. Len(s) : s[i] \in Width(w) /\ PartIs(s[i], p, c)) /\ SortedOn(s, p)
    BY DEF IsTable, AlignedOn
  <2>2. met[c] = RG!Meetings(s, RG!Gathered(m, c), p)
    OBVIOUS
  <2>3. \A R : Holds(t, R) => Lists(s, {r \in R : PartIs(r, p, c)})
    BY AlignedLists
  <2> HIDE DEF s, met
  <2> QED BY <2>1, <2>2, <2>3, MeetingsMeet
<1> HIDE DEF met, u
<1>3. /\ IsTable(u, Len(order))
      /\ \A q \in 1 .. Len(order) : order[q] \in {<<0, p - 1>>, <<1, 1>>} => AlignedOn(u, q)
      /\ \A M \in SUBSET (Width(w) \X Pair) :
           (\A c \in RG!Row : Lists(met[c], Here(M, p, c))) /\ Distinct(order, M) => Holds(u, Put(order, M))
  BY <1>1, <1>2, CombinedRight
<1>4. ASSUME NEW R \in SUBSET Width(w), Holds(t, R), Distinct(order, Met(R, m, p)) PROVE Holds(u, Put(order, Met(R, m, p)))
  <2>1. Met(R, m, p) \in SUBSET (Width(w) \X Pair)
    BY DEF Met
  <2> QED BY <1>2, <1>3, <1>4, <2>1
<1> QED BY <1>3, <1>4 DEF u

\* A filter has those whose renamed label agrees (local_filter).
THEOREM FilterRight ==
  ASSUME NEW w \in Nat, NEW p \in 1 .. w, NEW k, NEW m \in SUBSET Pair, NEW t, IsTable(t, w), AlignedOn(t, p),
         NEW order, IsOrder(order, w)
  PROVE  /\ IsTable(FilteredTable(t, m, p, k, order), Len(order))
         /\ \A q \in 1 .. Len(order) : order[q] \in {<<0, p - 1>>, <<1, 1>>} => AlignedOn(FilteredTable(t, m, p, k, order), q)
         /\ \A R \in SUBSET Width(w) : Holds(t, R) /\ Distinct(order, Agreeing(Met(R, m, p), k)) =>
              Holds(FilteredTable(t, m, p, k, order), Put(order, Agreeing(Met(R, m, p), k)))
<1> DEFINE all(c) == RG!Meetings(t[c], RG!Gathered(m, c), p)
           met == [c \in RG!Row |-> KeptPairs(all(c), k)]
           u == FilteredTable(t, m, p, k, order)
<1>1. u = [c \in RG!Row |-> PutAll(order, met[c])]
  BY DEF FilteredTable, RG!LocalFilter, PutAll, KeptPairs
<1>2. ASSUME NEW c \in RG!Row
      PROVE  Meets(met[c], w, p, c) /\ \A R : Holds(t, R) => Lists(met[c], Here(Agreeing(Met(R, m, p), k), p, c))
  <2> DEFINE s == t[c]
             a == all(c)
  <2>1. IsSequence(s) /\ (\A i \in 1 .. Len(s) : s[i] \in Width(w) /\ PartIs(s[i], p, c)) /\ SortedOn(s, p)
    BY DEF IsTable, AlignedOn
  <2>2. met[c] = KeptPairs(a, k) /\ a = RG!Meetings(s, RG!Gathered(m, c), p)
    OBVIOUS
  <2>3. \A R : Holds(t, R) => Lists(s, {r \in R : PartIs(r, p, c)})
    BY AlignedLists
  <2> HIDE DEF s, a, met, all
  <2>4. Meets(a, w, p, c) /\ \A R : Holds(t, R) => Lists(a, Here(Met(R, m, p), p, c))
    BY <2>1, <2>2, <2>3, MeetingsMeet
  <2>5. Meets(met[c], w, p, c) /\ \A M : Lists(a, M) => Lists(met[c], Agreeing(M, k))
    BY <2>2, <2>4, FilteredMeet
  <2>6. \A R : Agreeing(Here(Met(R, m, p), p, c), k) = Here(Agreeing(Met(R, m, p), k), p, c)
    BY DEF Agreeing, Here
  <2> QED BY <2>4, <2>5, <2>6
<1> HIDE DEF met, u, all
<1>3. /\ IsTable(u, Len(order))
      /\ \A q \in 1 .. Len(order) : order[q] \in {<<0, p - 1>>, <<1, 1>>} => AlignedOn(u, q)
      /\ \A M \in SUBSET (Width(w) \X Pair) :
           (\A c \in RG!Row : Lists(met[c], Here(M, p, c))) /\ Distinct(order, M) => Holds(u, Put(order, M))
  BY <1>1, <1>2, CombinedRight
<1>4. ASSUME NEW R \in SUBSET Width(w), Holds(t, R), Distinct(order, Agreeing(Met(R, m, p), k))
      PROVE  Holds(u, Put(order, Agreeing(Met(R, m, p), k)))
  <2>1. Agreeing(Met(R, m, p), k) \in SUBSET (Width(w) \X Pair)
    BY DEF Met, Agreeing
  <2> QED BY <1>2, <1>3, <1>4, <2>1
<1> QED BY <1>3, <1>4 DEF u

\* The first table: the transposed matrix, spread over and sorted by the first label.
FirstTable(m) == [c \in RG!Row |-> RG!Gathered(RG!Transpose(m), c)]

\* The first table has the transposed nonzeros, and is aligned with its second column.
LEMMA FirstRight ==
  ASSUME NEW m \in SUBSET Pair
  PROVE  IsTable(FirstTable(m), 2) /\ AlignedOn(FirstTable(m), 2) /\ Holds(FirstTable(m), RG!Transpose(m))
<1> DEFINE T == RG!Transpose(m)
           u == FirstTable(m)
           f == [r \in T |-> PartOf(NEntities, ProcCols, r[2])]
<1>1. T \in SUBSET Pair
  BY DEF RG!Transpose, Pair
<1>2. Pair \subseteq Width(2)
  BY DEF Pair, Width
<1>3. \A r \in T : r \in Width(2) /\ f[r] \in RG!Row /\ \A c : PartIs(r, 2, c) <=> f[r] = c
  <2>1. \A r \in Width(2) : PartOf(NEntities, ProcCols, r[2]) \in RG!Row
    <3>1. 2 \in 1 .. 2 /\ 2 \in Nat
      OBVIOUS
    <3> QED BY <3>1, KeyRight
  <2> QED BY <1>1, <1>2, <2>1 DEF PartIs
<1>4. u = [c \in RG!Row |-> RG!Gathered(T, c)]
  BY DEF FirstTable
<1>5. \A c \in RG!Row : InPart(T, c) = {r \in T : f[r] = c}
  BY <1>3 DEF InPart
<1> HIDE DEF T, u, f
<1>6. \A c \in RG!Row : Lists(u[c], {r \in T : f[r] = c}) /\ SortedOn(u[c], 2)
  <2> SUFFICES ASSUME NEW c \in RG!Row PROVE Lists(u[c], {r \in T : f[r] = c}) /\ SortedOn(u[c], 2)
    OBVIOUS
  <2>1. Lists(RG!Gathered(T, c), InPart(T, c)) /\ SortedOn(RG!Gathered(T, c), 2)
    BY <1>1, GatheredRight
  <2> QED BY <1>4, <1>5, <2>1
<1>7. \A c \in RG!Row : IsSequence(u[c]) /\ \A i \in 1 .. Len(u[c]) : u[c][i] \in T /\ f[u[c][i]] = c
  BY <1>6 DEF Lists
<1>8. IsTable(u, 2) /\ AlignedOn(u, 2)
  <2>1. \A c \in RG!Row : \A i \in 1 .. Len(u[c]) : u[c][i] \in Width(2) /\ PartIs(u[c][i], 2, c)
    BY <1>3, <1>7
  <2>2. IsTable(u, 2)
    BY <1>4, <1>7, <2>1 DEF IsTable
  <2> QED BY <1>6, <2>1, <2>2 DEF AlignedOn
<1>9. Holds(u, T)
  BY <1>3, <1>6, ListsShared
<1> QED BY <1>8, <1>9 DEF u, T

-----------------------------------------------------------------------------
(* Counts, and the labels of a table. *)

\* The rows of the parts are as many as those of the whole table (send_local_results).
LEMMA TotalRowsRight ==
  ASSUME NEW t, NEW w, IsTable(t, w)
  PROVE  /\ Flattened(RG!FlattenSeq(PartsOf(t)), PartsOf(t), ProcCols)
         /\ RG!TotalRows(t) = Len(RG!FlattenSeq(PartsOf(t)))
         /\ RG!TotalRows(t) \in Nat
<1> DEFINE s == PartsOf(t)
           counts == [q \in 0 .. ProcCols - 1 |-> Len(s[q + 1])]
           Body(g) == [c \in 0 .. ProcCols |-> IF c = 0 THEN 0 ELSE g[c - 1] + Len(t[c - 1])]
           total == CHOOSE g : g = Body(g)
<1>1. s = [k \in 1 .. ProcCols |-> s[k]] /\ \A k \in 1 .. ProcCols : IsSequence(s[k]) /\ s[k] = t[k - 1] /\ k - 1 \in RG!Row
  BY Sizes DEF PartsOf, IsTable, RG!Row
<1> HIDE DEF s
<1>2. Flattened(RG!FlattenSeq(s), s, ProcCols)
  BY <1>1, Sizes, FlattenRight
<1>3. \A q \in 0 .. ProcCols - 1 : q + 1 \in 1 .. ProcCols /\ (q + 1) - 1 = q
  BY Sizes
<1>4. \A q \in 0 .. ProcCols - 1 : counts[q] = Len(t[q]) /\ counts[q] \in Nat
  BY <1>1, <1>3 DEF IsSequence
<1>5. PICK d : Sums(d, counts, ProcCols)
  <2> HIDE DEF counts
  <2> QED BY <1>4, Sizes, SumsExist
<1>6. d = Body(d)
  <2>1. d \in [0 .. ProcCols -> Nat] /\ d[0] = 0 /\ \A k \in 0 .. ProcCols - 1 : d[k + 1] = d[k] + counts[k]
    BY <1>5 DEF Sums
  <2>2. \A c \in 1 .. ProcCols : c - 1 \in 0 .. ProcCols - 1 /\ (c - 1) + 1 = c
    BY Sizes
  <2> HIDE DEF counts
  <2>3. \A c \in 1 .. ProcCols : d[c] = d[c - 1] + Len(t[c - 1])
    BY <1>4, <2>1, <2>2
  <2> QED BY <2>1, <2>3, Sizes
<1>7. total = Body(total)
  <2> HIDE DEF Body
  <2> QED BY <1>6
<1>8. RG!TotalRows(t) = total[ProcCols]
  BY DEF RG!TotalRows
<1>9. \A c \in 0 .. ProcCols : total[c] = IF c = 0 THEN 0 ELSE total[c - 1] + Len(t[c - 1])
  <2> HIDE DEF total
  <2> QED BY <1>7
<1>10. \A c \in 0 .. ProcCols : d[c] = IF c = 0 THEN 0 ELSE d[c - 1] + Len(t[c - 1])
  BY <1>6
<1> HIDE DEF total, Body, counts
<1>11. \A c \in 0 .. ProcCols : total[c] = d[c]
  <2> DEFINE S == {c \in 0 .. ProcCols : total[c] = d[c]}
  <2>1. 0 \in S
    BY <1>9, <1>10, Sizes
  <2>2. ASSUME NEW k \in 0 .. ProcCols - 1, k \in S PROVE k + 1 \in S
    <3>1. k + 1 \in 0 .. ProcCols /\ k + 1 # 0 /\ (k + 1) - 1 = k
      BY Sizes
    <3>2. total[k + 1] = total[k] + Len(t[k]) /\ d[k + 1] = d[k] + Len(t[k])
      BY <1>9, <1>10, <3>1
    <3> QED BY <2>2, <3>1, <3>2
  <2>3. 0 .. ProcCols \subseteq S
    <3> HIDE DEF S
    <3> QED BY <2>1, <2>2, Sizes, BoundedInduction
  <2> QED BY <2>3
<1>12. total[ProcCols] = d[ProcCols]
  BY <1>11, Sizes
<1>13. Len(RG!FlattenSeq(s)) = d[ProcCols]
  BY <1>2, <1>5 DEF Flattened, counts
<1>14. Len(RG!FlattenSeq(s)) \in Nat
  BY <1>2 DEF Flattened, IsSequence
<1> QED BY <1>2, <1>8, <1>12, <1>13, <1>14 DEF s

\* A place for a new element: the others keep their order.
LEMMA InsertRight ==
  ASSUME NEW s, IsSequence(s), NEW pos \in 1 .. Len(s) + 1, NEW e
  PROVE  /\ IsSequence(RG!InsertAt(s, pos, e)) /\ Len(RG!InsertAt(s, pos, e)) = Len(s) + 1
         /\ \A k \in 1 .. pos - 1 : RG!InsertAt(s, pos, e)[k] = s[k]
         /\ RG!InsertAt(s, pos, e)[pos] = e
         /\ \A k \in pos .. Len(s) : RG!InsertAt(s, pos, e)[k + 1] = s[k]
<1> DEFINE S == {s[i] : i \in 1 .. Len(s)} \cup {e}
           n == Len(s)
           a == SubSeq(s, 1, pos - 1)
           b == SubSeq(s, pos, n)
           c == RG!InsertAt(s, pos, e)
<1>1. n \in Nat /\ s = [k \in 1 .. n |-> s[k]] /\ \A k \in 1 .. n : s[k] \in S
  BY DEF IsSequence
<1>2. e \in S
  OBVIOUS
<1> HIDE DEF n, S
<1>3. s \in Seq(S) /\ Len(s) = n
  BY <1>1
<1>4. a \in Seq(S) /\ Len(a) = pos - 1 /\ \A k \in 1 .. pos - 1 : a[k] = s[k]
  BY <1>1, <1>3 DEF n
<1>5. b \in Seq(S) /\ Len(b) = (n - pos) + 1 /\ \A k \in 1 .. (n - pos) + 1 : b[k] = s[(pos + k) - 1]
  BY <1>1, <1>3 DEF n
<1>6. c = a \o <<e>> \o b
  BY DEF RG!InsertAt, n
<1> HIDE DEF a, b, c
<1> DEFINE ae == a \o <<e>>
<1>7. ae \in Seq(S) /\ Len(ae) = pos /\ (\A k \in 1 .. pos - 1 : ae[k] = a[k]) /\ ae[pos] = e
  BY <1>1, <1>2, <1>4 DEF n
<1>8. c = ae \o b
  BY <1>6
<1> HIDE DEF ae
<1>9. IsSequence(c) /\ Len(c) = Len(ae) + Len(b) /\ Len(ae) = pos /\ Len(b) = (n - pos) + 1
      /\ (\A k \in 1 .. Len(ae) : c[k] = ae[k]) /\ \A k \in 1 .. Len(b) : c[Len(ae) + k] = b[k]
  <2>1. IsSequence(ae) /\ IsSequence(b)
    BY <1>5, <1>7, TypedIsSequence
  <2>2. IsSequence(ae \o b) /\ Len(ae \o b) = Len(ae) + Len(b)
        /\ (\A k \in 1 .. Len(ae) : (ae \o b)[k] = ae[k]) /\ \A k \in 1 .. Len(b) : (ae \o b)[Len(ae) + k] = b[k]
    BY <2>1, Chained
  <2>3. Len(ae) = pos /\ Len(b) = (n - pos) + 1
    BY <1>5, <1>7
  <2> QED BY <1>8, <2>2, <2>3
<1>10. Len(c) = n + 1 /\ (\A k \in 1 .. pos : c[k] = ae[k]) /\ \A k \in 1 .. Len(b) : c[pos + k] = b[k]
  <2>1. pos \in 1 .. n + 1
    BY DEF n
  <2> QED BY <1>1, <1>9, <2>1
<1>11. \A k \in 1 .. pos - 1 : c[k] = s[k]
  BY <1>1, <1>4, <1>7, <1>10 DEF n
<1>12. c[pos] = e
  BY <1>1, <1>7, <1>10 DEF n
<1>13. ASSUME NEW k \in pos .. n PROVE c[k + 1] = s[k]
  <2> DEFINE j == (k - pos) + 1
  <2>1. j \in 1 .. (n - pos) + 1 /\ pos + j = k + 1 /\ (pos + j) - 1 = k
    BY <1>1 DEF n
  <2> HIDE DEF j
  <2>2. c[pos + j] = b[j] /\ b[j] = s[(pos + j) - 1]
    BY <1>1, <1>5, <1>10, <2>1
  <2> QED BY <2>1, <2>2
<1> QED BY <1>9, <1>10, <1>11, <1>12, <1>13 DEF c, n

-----------------------------------------------------------------------------
(* Rows and assignments. *)

\* The row of an assignment of entities to labels, in columns with the labels of L; the rows
\* of a set of them; and whether the columns tell them apart.
RowAt(L, a) == [i \in 1 .. Len(L) |-> a[L[i]]]
RowsOf(L, S) == {RowAt(L, a) : a \in S}
Told(L, S) == \A a, b \in S : RowAt(L, a) = RowAt(L, b) => a = b

\* An assignment without the others, and those that a join or a filter makes of some.
Only(a, H) == [n \in H |-> a[n]]
JoinedBy(S, H, m, mat) == {a \in [H \cup {mat[1]} -> Entity] : Only(a, H) \in S /\ <<a[mat[1]], a[mat[2]]>> \in m}
KeptBy(S, m, l1, l2) == {a \in S : <<a[l1], a[l2]>> \in m}

\* The labels of the columns that an order makes.
OrderRight(old, order, mat, new) ==
  /\ IsOrder(order, Len(old)) /\ Len(new) = Len(order)
  /\ \A i \in 1 .. Len(new) :
       new[i] = IF order[i][1] = 0 THEN old[order[i][2] + 1] ELSE mat[order[i][2] + 1]

\* The new columns' row is put together from the old one and the nonzero.
LEMMA RowPut ==
  ASSUME NEW L, Len(L) \in Nat, NEW mat, NEW order, NEW new, OrderRight(L, order, mat, new),
         NEW a, NEW r, \A j \in 1 .. Len(L) : r[j] = a[L[j]], NEW e, e[1] = a[mat[1]], e[2] = a[mat[2]]
  PROVE  RG!PutTuple(order, r, e) = RowAt(new, a)
<1> DEFINE z(i) == IF order[i][1] = 0 THEN r[order[i][2] + 1] ELSE e[order[i][2] + 1]
<1>1. DOMAIN order = 1 .. Len(order) /\ Len(new) = Len(order)
  BY DEF OrderRight, IsOrder, IsSequence
<1>2. RG!PutTuple(order, r, e) = [i \in 1 .. Len(new) |-> z(i)]
  BY <1>1 DEF RG!PutTuple
<1>3. ASSUME NEW i \in 1 .. Len(new) PROVE z(i) = a[new[i]]
  <2> DEFINE o == order[i]
  <2>1. new[i] = (IF o[1] = 0 THEN L[o[2] + 1] ELSE mat[o[2] + 1]) /\ z(i) = (IF o[1] = 0 THEN r[o[2] + 1] ELSE e[o[2] + 1])
    BY DEF OrderRight
  <2>2. o \in ({0} \X (0 .. Len(L) - 1)) \cup ({1} \X {0, 1})
    BY <1>1 DEF OrderRight, IsOrder
  <2> HIDE DEF o, z
  <2>3. CASE o \in {0} \X (0 .. Len(L) - 1)
    <3>1. o[1] = 0 /\ o[2] + 1 \in 1 .. Len(L)
      BY <2>3
    <3>2. new[i] = L[o[2] + 1] /\ z(i) = r[o[2] + 1]
      BY <2>1, <3>1
    <3> QED BY <3>1, <3>2
  <2>4. CASE o \in {1} \X {0, 1}
    <3>1. o[1] = 1 /\ (o[2] + 1 = 1 \/ o[2] + 1 = 2)
      BY <2>4
    <3>2. new[i] = mat[o[2] + 1] /\ z(i) = e[o[2] + 1]
      BY <2>1, <3>1
    <3> QED BY <3>1, <3>2
  <2> QED BY <2>2, <2>3, <2>4
<1> HIDE DEF z
<1> QED BY <1>2, <1>3 DEF RowAt

\* A join extends the assignments.
LEMMA JoinRows ==
  ASSUME NEW H, NEW S \in SUBSET [H -> Entity], NEW m \in SUBSET Pair, NEW mat, mat[1] \notin H,
         NEW L, Len(L) \in Nat, \A i \in 1 .. Len(L) : L[i] \in H, Told(L, S),
         NEW p \in 1 .. Len(L), L[p] = mat[2],
         NEW order, NEW new, OrderRight(L, order, mat, new),
         \A a, b \in JoinedBy(S, H, m, mat) :
           RowAt(new, a) = RowAt(new, b) => a[mat[1]] = b[mat[1]] /\ \A j \in 1 .. Len(L) : a[L[j]] = b[L[j]]
  PROVE  /\ Put(order, Met(RowsOf(L, S), m, p)) = RowsOf(new, JoinedBy(S, H, m, mat))
         /\ Distinct(order, Met(RowsOf(L, S), m, p))
         /\ Told(new, JoinedBy(S, H, m, mat))
<1> DEFINE T == JoinedBy(S, H, m, mat)
           M == Met(RowsOf(L, S), m, p)
           l1 == mat[1]
           l2 == mat[2]
           pair(a) == <<RowAt(L, Only(a, H)), <<a[l1], a[l2]>>>>
<1>1. l2 \in H
  OBVIOUS
<1>2. ASSUME NEW a \in T
      PROVE  /\ pair(a) \in M /\ RG!PutTuple(order, pair(a)[1], pair(a)[2]) = RowAt(new, a)
             /\ a \in [H \cup {l1} -> Entity] /\ Only(a, H) \in S
  <2>1. a \in [H \cup {l1} -> Entity] /\ Only(a, H) \in S /\ <<a[l1], a[l2]>> \in m
    BY DEF JoinedBy
  <2> DEFINE r == RowAt(L, Only(a, H))
             e == <<a[l1], a[l2]>>
  <2>2. \A j \in 1 .. Len(L) : r[j] = a[L[j]]
    BY DEF RowAt, Only
  <2>3. e[1] = a[l1] /\ e[2] = a[l2] /\ e \in m
    BY <2>1
  <2>4. r \in RowsOf(L, S)
    BY <2>1 DEF RowsOf
  <2>5. pair(a) = <<r, e>>
    OBVIOUS
  <2> HIDE DEF r, e, pair
  <2>6. r[p] = e[2]
    BY <2>2, <2>3
  <2>7. pair(a) \in M
    BY <2>3, <2>4, <2>5, <2>6 DEF Met
  <2>8. RG!PutTuple(order, r, e) = RowAt(new, a)
    BY <2>2, <2>3, RowPut
  <2> QED BY <2>1, <2>5, <2>7, <2>8
<1>3. ASSUME NEW x \in M PROVE \E a \in T : x = pair(a)
  <2>1. x \in RowsOf(L, S) \X m /\ x[1][p] = x[2][2]
    BY DEF Met
  <2>2. PICK b \in S : x[1] = RowAt(L, b)
    BY <2>1 DEF RowsOf
  <2> DEFINE a == [n \in H \cup {l1} |-> IF n = l1 THEN x[2][1] ELSE b[n]]
  <2>3. x[2] \in Pair /\ x[2] \in m /\ x = <<x[1], x[2]>>
    BY <2>1
  <2>4. b \in [H -> Entity] /\ x[2][1] \in Entity /\ x[2] = <<x[2][1], x[2][2]>>
    BY <2>3 DEF Pair
  <2>5. a \in [H \cup {l1} -> Entity] /\ a[l1] = x[2][1] /\ \A n \in H : a[n] = b[n]
    BY <2>4
  <2> HIDE DEF a
  <2>6. Only(a, H) = b
    BY <2>4, <2>5 DEF Only
  <2>7. a[l2] = x[2][2]
    <3>1. RowAt(L, b)[p] = b[l2]
      BY DEF RowAt
    <3> QED BY <1>1, <2>1, <2>2, <2>5, <3>1
  <2>8. a \in T
    BY <2>3, <2>4, <2>5, <2>6, <2>7 DEF JoinedBy
  <2>9. x = pair(a)
    BY <2>2, <2>3, <2>4, <2>5, <2>6, <2>7
  <2> QED BY <2>8, <2>9
<1>4. ASSUME NEW a \in T, NEW b \in T, RowAt(new, a) = RowAt(new, b) PROVE a = b
  <2>1. a[l1] = b[l1] /\ \A j \in 1 .. Len(L) : a[L[j]] = b[L[j]]
    BY <1>4
  <2>2. RowAt(L, Only(a, H)) = RowAt(L, Only(b, H))
    BY <2>1 DEF RowAt, Only
  <2>3. Only(a, H) = Only(b, H)
    BY <1>2, <2>2 DEF Told
  <2>4. \A n \in H : a[n] = b[n]
    <3>1. \A n \in H : Only(a, H)[n] = a[n] /\ Only(b, H)[n] = b[n]
      BY DEF Only
    <3> QED BY <2>3, <3>1
  <2>5. \A n \in H \cup {l1} : a[n] = b[n]
    BY <2>1, <2>4
  <2>6. a \in [H \cup {l1} -> Entity] /\ b \in [H \cup {l1} -> Entity]
    BY <1>2
  <2> DEFINE K == H \cup {l1}
  <2>7. a \in [K -> Entity] /\ b \in [K -> Entity] /\ \A n \in K : a[n] = b[n]
    BY <2>5, <2>6
  <2> HIDE DEF K, T
  <2> QED BY <2>7
<1> HIDE DEF T, M, pair
<1>5. \A x \in M : \E a \in T : x = pair(a) /\ RG!PutTuple(order, x[1], x[2]) = RowAt(new, a)
  BY <1>2, <1>3
<1>6. Put(order, M) = RowsOf(new, T)
  <2>1. \A a \in T : RowAt(new, a) \in Put(order, M)
    BY <1>2 DEF Put
  <2>2. \A r \in Put(order, M) : \E a \in T : r = RowAt(new, a)
    BY <1>5 DEF Put
  <2> QED BY <2>1, <2>2 DEF RowsOf
<1>7. Distinct(order, M)
  BY <1>4, <1>5 DEF Distinct
<1> QED BY <1>4, <1>6, <1>7 DEF Told, T, M

\* A filter keeps some.
LEMMA FilterRows ==
  ASSUME NEW H, NEW S \in SUBSET [H -> Entity], NEW m \in SUBSET Pair, NEW mat,
         NEW L, Len(L) \in Nat, \A i \in 1 .. Len(L) : L[i] \in H, Told(L, S),
         NEW p \in 1 .. Len(L), L[p] = mat[2], NEW k \in 1 .. Len(L),
         NEW order, IsOrder(order, Len(L)), Len(order) = Len(L), \A i \in 1 .. Len(L) : order[i] = <<0, i - 1>>
  PROVE  /\ Put(order, Agreeing(Met(RowsOf(L, S), m, p), k)) = RowsOf(L, KeptBy(S, m, L[k], mat[2]))
         /\ Distinct(order, Agreeing(Met(RowsOf(L, S), m, p), k))
         /\ Told(L, KeptBy(S, m, L[k], mat[2]))
<1> DEFINE T == KeptBy(S, m, L[k], mat[2])
           M == Agreeing(Met(RowsOf(L, S), m, p), k)
           pair(a) == <<RowAt(L, a), <<a[L[k]], a[mat[2]]>>>>
<1>1. ASSUME NEW a \in S, NEW e PROVE RG!PutTuple(order, RowAt(L, a), e) = RowAt(L, a)
  <2>1. DOMAIN order = 1 .. Len(L)
    BY DEF IsOrder, IsSequence
  <2>2. \A i \in 1 .. Len(L) : order[i][1] = 0 /\ order[i][2] + 1 = i
    <3> SUFFICES ASSUME NEW i \in 1 .. Len(L) PROVE order[i][1] = 0 /\ order[i][2] + 1 = i
      OBVIOUS
    <3>1. order[i] = <<0, i - 1>>
      OBVIOUS
    <3> QED BY <3>1
  <2>3. \A i \in 1 .. Len(L) : RowAt(L, a)[i] = a[L[i]]
    BY DEF RowAt
  <2> DEFINE z(i) == IF order[i][1] = 0 THEN RowAt(L, a)[order[i][2] + 1] ELSE e[order[i][2] + 1]
  <2>4. RG!PutTuple(order, RowAt(L, a), e) = [i \in 1 .. Len(L) |-> z(i)]
    BY <2>1 DEF RG!PutTuple
  <2>5. \A i \in 1 .. Len(L) : z(i) = a[L[i]]
    <3> SUFFICES ASSUME NEW i \in 1 .. Len(L) PROVE z(i) = a[L[i]]
      OBVIOUS
    <3>1. z(i) = RowAt(L, a)[i]
      BY <2>2
    <3> HIDE DEF z
    <3> QED BY <2>3, <3>1
  <2> HIDE DEF z
  <2> QED BY <2>4, <2>5 DEF RowAt
<1>2. ASSUME NEW a \in T PROVE pair(a) \in M /\ RG!PutTuple(order, pair(a)[1], pair(a)[2]) = RowAt(L, a) /\ a \in S
  <2> DEFINE r == RowAt(L, a)
             e == <<a[L[k]], a[mat[2]]>>
  <2>1. a \in S /\ e \in m
    BY DEF KeptBy
  <2>2. r \in RowsOf(L, S) /\ r[p] = a[mat[2]] /\ r[k] = a[L[k]]
    BY <2>1 DEF RowsOf, RowAt
  <2>3. pair(a) = <<r, e>> /\ e[1] = a[L[k]] /\ e[2] = a[mat[2]]
    OBVIOUS
  <2>4. RG!PutTuple(order, r, e) = r
    BY <1>1, <2>1
  <2> HIDE DEF r, e, pair
  <2> QED BY <2>1, <2>2, <2>3, <2>4 DEF Met, Agreeing, r
<1>3. ASSUME NEW x \in M PROVE \E a \in T : x = pair(a)
  <2>1. x \in RowsOf(L, S) \X m /\ x[1][p] = x[2][2] /\ x[1][k] = x[2][1]
    BY DEF Met, Agreeing
  <2>2. PICK a \in S : x[1] = RowAt(L, a)
    BY <2>1 DEF RowsOf
  <2>3. x[2] \in Pair /\ x[2] \in m /\ x = <<x[1], x[2]>>
    BY <2>1
  <2>4. x[2] = <<x[2][1], x[2][2]>>
    BY <2>3 DEF Pair
  <2>5. x[2][2] = a[mat[2]] /\ x[2][1] = a[L[k]]
    BY <2>1, <2>2 DEF RowAt
  <2>6. a \in T
    BY <2>3, <2>4, <2>5 DEF KeptBy
  <2>7. x = pair(a)
    BY <2>2, <2>3, <2>4, <2>5
  <2> QED BY <2>6, <2>7
<1>4. ASSUME NEW a \in T, NEW b \in T, RowAt(L, a) = RowAt(L, b) PROVE a = b
  BY <1>2, <1>4 DEF Told
<1> HIDE DEF T, M, pair
<1>5. \A x \in M : \E a \in T : x = pair(a) /\ RG!PutTuple(order, x[1], x[2]) = RowAt(L, a)
  BY <1>2, <1>3
<1>6. Put(order, M) = RowsOf(L, T)
  <2>1. \A a \in T : RowAt(L, a) \in Put(order, M)
    BY <1>2 DEF Put
  <2>2. \A r \in Put(order, M) : \E a \in T : r = RowAt(L, a)
    BY <1>5 DEF Put
  <2> QED BY <2>1, <2>2 DEF RowsOf
<1>7. Distinct(order, M)
  BY <1>4, <1>5 DEF Distinct
<1> QED BY <1>4, <1>6, <1>7 DEF Told, T, M

\* The first table has the assignments of its matrix.
LEMMA FirstRows ==
  ASSUME NEW m \in SUBSET Pair, NEW mat, mat[1] # mat[2]
  PROVE  LET T == {a \in [{mat[1], mat[2]} -> Entity] : <<a[mat[1]], a[mat[2]]>> \in m}
             L == <<mat[2], mat[1]>>
         IN RG!Transpose(m) = RowsOf(L, T) /\ Told(L, T)
<1> DEFINE T == {a \in [{mat[1], mat[2]} -> Entity] : <<a[mat[1]], a[mat[2]]>> \in m}
           L == <<mat[2], mat[1]>>
<1>1. \A a : RowAt(L, a) = <<a[mat[2]], a[mat[1]]>>
  <2> SUFFICES ASSUME NEW a PROVE RowAt(L, a) = <<a[mat[2]], a[mat[1]]>>
    OBVIOUS
  <2>1. Len(L) = 2 /\ L[1] = mat[2] /\ L[2] = mat[1]
    OBVIOUS
  <2> HIDE DEF L
  <2>2. RowAt(L, a) = [i \in 1 .. 2 |-> a[L[i]]]
    BY <2>1 DEF RowAt
  <2> DEFINE u == a[mat[2]]
             v == a[mat[1]]
             s == RowAt(L, a)
  <2>3. s \in Seq({u, v}) /\ Len(s) = 2 /\ s[1] = u /\ s[2] = v
    BY <2>1, <2>2
  <2> HIDE DEF s, u, v
  <2>4. s = <<s[1], s[2]>>
    BY <2>3
  <2> QED BY <2>3, <2>4 DEF s, u, v
<1> HIDE DEF L
<1>2. ASSUME NEW a \in T PROVE RowAt(L, a) \in RG!Transpose(m)
  <2> DEFINE e == <<a[mat[1]], a[mat[2]]>>
  <2>1. e \in m /\ e[1] = a[mat[1]] /\ e[2] = a[mat[2]]
    OBVIOUS
  <2> HIDE DEF e, T
  <2> QED BY <1>1, <2>1 DEF RG!Transpose
<1>3. ASSUME NEW r \in RG!Transpose(m) PROVE \E a \in T : r = RowAt(L, a)
  <2>1. PICK e \in m : r = <<e[2], e[1]>>
    BY DEF RG!Transpose
  <2> DEFINE a == [n \in {mat[1], mat[2]} |-> IF n = mat[1] THEN e[1] ELSE e[2]]
  <2>2. e[1] \in Entity /\ e[2] \in Entity /\ e = <<e[1], e[2]>>
    BY DEF Pair
  <2>3. a \in [{mat[1], mat[2]} -> Entity] /\ a[mat[1]] = e[1] /\ a[mat[2]] = e[2]
    BY <2>2
  <2> HIDE DEF a
  <2>4. a \in T
    BY <2>2, <2>3
  <2> QED BY <1>1, <2>1, <2>3, <2>4
<1>4. ASSUME NEW a \in T, NEW b \in T, RowAt(L, a) = RowAt(L, b) PROVE a = b
  <2>1. a[mat[1]] = b[mat[1]] /\ a[mat[2]] = b[mat[2]]
    BY <1>1, <1>4
  <2>2. a \in [{mat[1], mat[2]} -> Entity] /\ b \in [{mat[1], mat[2]} -> Entity]
    OBVIOUS
  <2> HIDE DEF T
  <2> QED BY <2>1, <2>2
<1> HIDE DEF T
<1>5. RG!Transpose(m) = RowsOf(L, T)
  BY <1>2, <1>3 DEF RowsOf
<1>6. Told(L, T)
  BY <1>4 DEF Told
<1> QED BY <1>5, <1>6 DEF T, L

-----------------------------------------------------------------------------
(* The calls in the code (module Lubm). *)

\* The columns of a call's result in which the key is.
KeyColumns(call) ==
  IF call.op = "transposed" THEN {2} ELSE {q \in 1 .. Len(call.order) : call.order[q] \in {<<0, call.pivot>>, <<1, 1>>}}

\* A call and the labels of the columns before and after it: its pivots are the columns of
\* its labels, its order makes the columns after it, without those of the labels that are
\* left out, and the table is aligned with the key by the call before it or else
\* redistributed by it.
HasLabel(new, lost, n) == n \in lost \/ \E i \in 1 .. Len(new) : new[i] = n
CallRight(lost, before, call, old, new) ==
  /\ call.op \in {"join", "filter"}
  /\ call.pivot \in Nat /\ call.pivot + 1 \in 1 .. Len(old) /\ old[call.pivot + 1] = call.mat[2]
  /\ OrderRight(old, call.order, call.mat, new)
  /\ IF call.by = -1 THEN call.pivot + 1 \in KeyColumns(before) ELSE call.by = call.pivot
  /\ call.op = "join" => HasLabel(new, lost, call.mat[1]) /\ \A j \in 1 .. Len(old) : HasLabel(new, lost, old[j])
  /\ call.op = "filter" =>
       /\ new = old /\ Len(call.order) = Len(old) /\ \A i \in 1 .. Len(old) : call.order[i] = <<0, i - 1>>
       /\ call.pivot12 + 1 \in 1 .. Len(old) /\ old[call.pivot12 + 1] = call.rename
  /\ call.report \in BOOLEAN
CallsRight(lost, calls, columns) ==
  /\ IsSequence(calls) /\ IsSequence(columns) /\ Len(columns) = Len(calls)
  /\ \A i \in 1 .. Len(columns) : IsSequence(columns[i])
  /\ Len(calls) > 0 => calls[1].op = "transposed" /\ columns[1] = <<calls[1].mat[2], calls[1].mat[1]>>
  /\ Len(calls) > 0 => Len(calls) > 1 /\ calls[Len(calls)].report
  /\ \A i \in 2 .. Len(calls) : CallRight(lost, calls[i - 1], calls[i], columns[i - 1], columns[i])

\* The labels of the columns after each call, and those without a column: both of them have
\* a constant in the execution.
l1_columns == <<<<0, 4>>, <<4, 3, 4>>, <<4, 3, 4, 5>>, <<4, 3, 4, 5>>, <<4, 1, 3, 4, 5>>, <<4, 1, 2, 3, 4, 5>>>>
l2_columns == <<<<0, 1>>, <<0, 1, 2>>>>
l4_columns == <<<<0, 2>>, <<0, 2, 5>>, <<0, 2, 4, 5>>, <<0, 2, 3, 4, 5>>, <<0, 1, 2, 3, 4, 5>>>>
l5_columns == <<<<0, 2>>, <<2, 2, 0>>>>
l6_columns == <<<<0, 4>>, <<0, 3, 4>>, <<0, 2, 3, 4>>, <<0, 1, 2, 3, 4>>>>
l7_columns == <<<<2, 5>>, <<2, 3, 5>>, <<2, 3, 4, 5>>, <<2, 3, 4, 5>>, <<1, 2, 3, 4, 5>>, <<0, 1, 2, 3, 4, 5>>>>
LubmColumns == <<l1_columns, l2_columns, <<>>, l4_columns, l5_columns, l6_columns, l7_columns>>
Lost(k) == IF k = 1 THEN {0} ELSE IF k = 5 THEN {1} ELSE {}

\* Columns are sequences.
LEMMA ColumnsTyped ==
  ASSUME NEW c \in Seq(Seq(Nat))
  PROVE  IsSequence(c) /\ \A i \in 1 .. Len(c) : IsSequence(c[i])
BY TypedIsSequence

\* The calls of query 1.
LEMMA CallsOf1 == CallsRight({0}, resgen_l1, l1_columns)
<1>1. IsSequence(resgen_l1) /\ Len(resgen_l1) = 6
  BY DEF resgen_l1, IsSequence
<1>2. IsSequence(l1_columns) /\ Len(l1_columns) = 6 /\ \A i \in 1 .. Len(l1_columns) : IsSequence(l1_columns[i])
  <2>1. l1_columns \in Seq(Seq(Nat)) /\ Len(l1_columns) = 6
    BY DEF l1_columns
  <2> QED BY <2>1, ColumnsTyped
<1>3. resgen_l1[1] = First(<<4, 0>>) /\ l1_columns[1] = <<0, 4>>
  BY DEF resgen_l1, l1_columns
<1>4. resgen_l1[1].op = "transposed" /\ l1_columns[1] = <<resgen_l1[1].mat[2], resgen_l1[1].mat[1]>>
  BY <1>3 DEF First
<1>5. CallRight({0}, resgen_l1[1], resgen_l1[2], l1_columns[1], l1_columns[2])
  <2>1. resgen_l1[1] = First(<<4, 0>>) /\ resgen_l1[2] = Jn(<<3, 4>>, -1, 1, <<Old(1), New, NewKey>>, FALSE)
    BY DEF resgen_l1
  <2>2. l1_columns[1] = <<0, 4>> /\ l1_columns[2] = <<4, 3, 4>>
    BY DEF l1_columns
  <2> QED BY <2>1, <2>2 DEF CallRight, HasLabel, KeyColumns, OrderRight, IsOrder, Jn, Fl, Old, New, NewKey, IsSequence, First
<1>6. CallRight({0}, resgen_l1[2], resgen_l1[3], l1_columns[2], l1_columns[3])
  <2>1. resgen_l1[2] = Jn(<<3, 4>>, -1, 1, <<Old(1), New, NewKey>>, FALSE) /\ resgen_l1[3] = Jn(<<5, 3>>, 1, 1, <<Old(0), Old(1), Old(2), New>>, FALSE)
    BY DEF resgen_l1
  <2>2. l1_columns[2] = <<4, 3, 4>> /\ l1_columns[3] = <<4, 3, 4, 5>>
    BY DEF l1_columns
  <2> QED BY <2>1, <2>2 DEF CallRight, HasLabel, KeyColumns, OrderRight, IsOrder, Jn, Fl, Old, New, NewKey, IsSequence
<1>7. CallRight({0}, resgen_l1[3], resgen_l1[4], l1_columns[3], l1_columns[4])
  <2>1. resgen_l1[3] = Jn(<<5, 3>>, 1, 1, <<Old(0), Old(1), Old(2), New>>, FALSE) /\ resgen_l1[4] = Fl(<<6, 5>>, 4, 3, 3, 2, <<Old(0), Old(1), Old(2), Old(3)>>, FALSE)
    BY DEF resgen_l1
  <2>2. l1_columns[3] = <<4, 3, 4, 5>> /\ l1_columns[4] = <<4, 3, 4, 5>>
    BY DEF l1_columns
  <2> QED BY <2>1, <2>2 DEF CallRight, HasLabel, KeyColumns, OrderRight, IsOrder, Jn, Fl, Old, New, NewKey, IsSequence
<1>8. CallRight({0}, resgen_l1[4], resgen_l1[5], l1_columns[4], l1_columns[5])
  <2>1. resgen_l1[4] = Fl(<<6, 5>>, 4, 3, 3, 2, <<Old(0), Old(1), Old(2), Old(3)>>, FALSE) /\ resgen_l1[5] = Jn(<<1, 5>>, -1, 3, <<Old(0), New, Old(1), Old(2), Old(3)>>, FALSE)
    BY DEF resgen_l1
  <2>2. l1_columns[4] = <<4, 3, 4, 5>> /\ l1_columns[5] = <<4, 1, 3, 4, 5>>
    BY DEF l1_columns
  <2> QED BY <2>1, <2>2 DEF CallRight, HasLabel, KeyColumns, OrderRight, IsOrder, Jn, Fl, Old, New, NewKey, IsSequence
<1>9. CallRight({0}, resgen_l1[5], resgen_l1[6], l1_columns[5], l1_columns[6])
  <2>1. resgen_l1[5] = Jn(<<1, 5>>, -1, 3, <<Old(0), New, Old(1), Old(2), Old(3)>>, FALSE) /\ resgen_l1[6] = Jn(<<2, 3>>, 2, 2, <<Old(0), Old(1), New, Old(2), Old(3), Old(4)>>, TRUE)
    BY DEF resgen_l1
  <2>2. l1_columns[5] = <<4, 1, 3, 4, 5>> /\ l1_columns[6] = <<4, 1, 2, 3, 4, 5>>
    BY DEF l1_columns
  <2> QED BY <2>1, <2>2 DEF CallRight, HasLabel, KeyColumns, OrderRight, IsOrder, Jn, Fl, Old, New, NewKey, IsSequence
<1>10. resgen_l1[6].report
  <2>1. resgen_l1[6] = Jn(<<2, 3>>, 2, 2, <<Old(0), Old(1), New, Old(2), Old(3), Old(4)>>, TRUE)
    BY DEF resgen_l1
  <2> QED BY <2>1 DEF Jn
<1>11. \A i \in 2 .. Len(resgen_l1) : CallRight({0}, resgen_l1[i - 1], resgen_l1[i], l1_columns[i - 1], l1_columns[i])
  <2> SUFFICES ASSUME NEW i \in 2 .. 6 PROVE CallRight({0}, resgen_l1[i - 1], resgen_l1[i], l1_columns[i - 1], l1_columns[i])
    BY <1>1
  <2>1. (i = 2 /\ i - 1 = 1) \/ (i = 3 /\ i - 1 = 2) \/ (i = 4 /\ i - 1 = 3) \/ (i = 5 /\ i - 1 = 4) \/ (i = 6 /\ i - 1 = 5)
    OBVIOUS
  <2> QED BY <2>1, <1>5, <1>6, <1>7, <1>8, <1>9
<1> QED BY <1>1, <1>2, <1>4, <1>10, <1>11 DEF CallsRight

\* The calls of query 2.
LEMMA CallsOf2 == CallsRight({}, resgen_l2, l2_columns)
<1>1. IsSequence(resgen_l2) /\ Len(resgen_l2) = 2
  BY DEF resgen_l2, IsSequence
<1>2. IsSequence(l2_columns) /\ Len(l2_columns) = 2 /\ \A i \in 1 .. Len(l2_columns) : IsSequence(l2_columns[i])
  <2>1. l2_columns \in Seq(Seq(Nat)) /\ Len(l2_columns) = 2
    BY DEF l2_columns
  <2> QED BY <2>1, ColumnsTyped
<1>3. resgen_l2[1] = First(<<1, 0>>) /\ l2_columns[1] = <<0, 1>>
  BY DEF resgen_l2, l2_columns
<1>4. resgen_l2[1].op = "transposed" /\ l2_columns[1] = <<resgen_l2[1].mat[2], resgen_l2[1].mat[1]>>
  BY <1>3 DEF First
<1>5. CallRight({}, resgen_l2[1], resgen_l2[2], l2_columns[1], l2_columns[2])
  <2>1. resgen_l2[1] = First(<<1, 0>>) /\ resgen_l2[2] = Jn(<<2, 1>>, -1, 1, <<Old(0), Old(1), New>>, TRUE)
    BY DEF resgen_l2
  <2>2. l2_columns[1] = <<0, 1>> /\ l2_columns[2] = <<0, 1, 2>>
    BY DEF l2_columns
  <2> QED BY <2>1, <2>2 DEF CallRight, HasLabel, KeyColumns, OrderRight, IsOrder, Jn, Fl, Old, New, NewKey, IsSequence, First
<1>6. resgen_l2[2].report
  <2>1. resgen_l2[2] = Jn(<<2, 1>>, -1, 1, <<Old(0), Old(1), New>>, TRUE)
    BY DEF resgen_l2
  <2> QED BY <2>1 DEF Jn
<1>7. \A i \in 2 .. Len(resgen_l2) : CallRight({}, resgen_l2[i - 1], resgen_l2[i], l2_columns[i - 1], l2_columns[i])
  <2> SUFFICES ASSUME NEW i \in 2 .. 2 PROVE CallRight({}, resgen_l2[i - 1], resgen_l2[i], l2_columns[i - 1], l2_columns[i])
    BY <1>1
  <2>1. (i = 2 /\ i - 1 = 1)
    OBVIOUS
  <2> QED BY <2>1, <1>5
<1> QED BY <1>1, <1>2, <1>4, <1>6, <1>7 DEF CallsRight

\* The calls of query 4.
LEMMA CallsOf4 == CallsRight({}, resgen_l4, l4_columns)
<1>1. IsSequence(resgen_l4) /\ Len(resgen_l4) = 5
  BY DEF resgen_l4, IsSequence
<1>2. IsSequence(l4_columns) /\ Len(l4_columns) = 5 /\ \A i \in 1 .. Len(l4_columns) : IsSequence(l4_columns[i])
  <2>1. l4_columns \in Seq(Seq(Nat)) /\ Len(l4_columns) = 5
    BY DEF l4_columns
  <2> QED BY <2>1, ColumnsTyped
<1>3. resgen_l4[1] = First(<<2, 0>>) /\ l4_columns[1] = <<0, 2>>
  BY DEF resgen_l4, l4_columns
<1>4. resgen_l4[1].op = "transposed" /\ l4_columns[1] = <<resgen_l4[1].mat[2], resgen_l4[1].mat[1]>>
  BY <1>3 DEF First
<1>5. CallRight({}, resgen_l4[1], resgen_l4[2], l4_columns[1], l4_columns[2])
  <2>1. resgen_l4[1] = First(<<2, 0>>) /\ resgen_l4[2] = Jn(<<5, 2>>, -1, 1, <<Old(0), Old(1), New>>, FALSE)
    BY DEF resgen_l4
  <2>2. l4_columns[1] = <<0, 2>> /\ l4_columns[2] = <<0, 2, 5>>
    BY DEF l4_columns
  <2> QED BY <2>1, <2>2 DEF CallRight, HasLabel, KeyColumns, OrderRight, IsOrder, Jn, Fl, Old, New, NewKey, IsSequence, First
<1>6. CallRight({}, resgen_l4[2], resgen_l4[3], l4_columns[2], l4_columns[3])
  <2>1. resgen_l4[2] = Jn(<<5, 2>>, -1, 1, <<Old(0), Old(1), New>>, FALSE) /\ resgen_l4[3] = Jn(<<4, 2>>, -1, 1, <<Old(0), Old(1), New, Old(2)>>, FALSE)
    BY DEF resgen_l4
  <2>2. l4_columns[2] = <<0, 2, 5>> /\ l4_columns[3] = <<0, 2, 4, 5>>
    BY DEF l4_columns
  <2> QED BY <2>1, <2>2 DEF CallRight, HasLabel, KeyColumns, OrderRight, IsOrder, Jn, Fl, Old, New, NewKey, IsSequence
<1>7. CallRight({}, resgen_l4[3], resgen_l4[4], l4_columns[3], l4_columns[4])
  <2>1. resgen_l4[3] = Jn(<<4, 2>>, -1, 1, <<Old(0), Old(1), New, Old(2)>>, FALSE) /\ resgen_l4[4] = Jn(<<3, 2>>, -1, 1, <<Old(0), Old(1), New, Old(2), Old(3)>>, FALSE)
    BY DEF resgen_l4
  <2>2. l4_columns[3] = <<0, 2, 4, 5>> /\ l4_columns[4] = <<0, 2, 3, 4, 5>>
    BY DEF l4_columns
  <2> QED BY <2>1, <2>2 DEF CallRight, HasLabel, KeyColumns, OrderRight, IsOrder, Jn, Fl, Old, New, NewKey, IsSequence
<1>8. CallRight({}, resgen_l4[4], resgen_l4[5], l4_columns[4], l4_columns[5])
  <2>1. resgen_l4[4] = Jn(<<3, 2>>, -1, 1, <<Old(0), Old(1), New, Old(2), Old(3)>>, FALSE) /\ resgen_l4[5] = Jn(<<1, 2>>, -1, 1, <<Old(0), New, Old(1), Old(2), Old(3), Old(4)>>, TRUE)
    BY DEF resgen_l4
  <2>2. l4_columns[4] = <<0, 2, 3, 4, 5>> /\ l4_columns[5] = <<0, 1, 2, 3, 4, 5>>
    BY DEF l4_columns
  <2> QED BY <2>1, <2>2 DEF CallRight, HasLabel, KeyColumns, OrderRight, IsOrder, Jn, Fl, Old, New, NewKey, IsSequence
<1>9. resgen_l4[5].report
  <2>1. resgen_l4[5] = Jn(<<1, 2>>, -1, 1, <<Old(0), New, Old(1), Old(2), Old(3), Old(4)>>, TRUE)
    BY DEF resgen_l4
  <2> QED BY <2>1 DEF Jn
<1>10. \A i \in 2 .. Len(resgen_l4) : CallRight({}, resgen_l4[i - 1], resgen_l4[i], l4_columns[i - 1], l4_columns[i])
  <2> SUFFICES ASSUME NEW i \in 2 .. 5 PROVE CallRight({}, resgen_l4[i - 1], resgen_l4[i], l4_columns[i - 1], l4_columns[i])
    BY <1>1
  <2>1. (i = 2 /\ i - 1 = 1) \/ (i = 3 /\ i - 1 = 2) \/ (i = 4 /\ i - 1 = 3) \/ (i = 5 /\ i - 1 = 4)
    OBVIOUS
  <2> QED BY <2>1, <1>5, <1>6, <1>7, <1>8
<1> QED BY <1>1, <1>2, <1>4, <1>9, <1>10 DEF CallsRight

\* The calls of query 5.
LEMMA CallsOf5 == CallsRight({1}, resgen_l5, l5_columns)
<1>1. IsSequence(resgen_l5) /\ Len(resgen_l5) = 2
  BY DEF resgen_l5, IsSequence
<1>2. IsSequence(l5_columns) /\ Len(l5_columns) = 2 /\ \A i \in 1 .. Len(l5_columns) : IsSequence(l5_columns[i])
  <2>1. l5_columns \in Seq(Seq(Nat)) /\ Len(l5_columns) = 2
    BY DEF l5_columns
  <2> QED BY <2>1, ColumnsTyped
<1>3. resgen_l5[1] = First(<<2, 0>>) /\ l5_columns[1] = <<0, 2>>
  BY DEF resgen_l5, l5_columns
<1>4. resgen_l5[1].op = "transposed" /\ l5_columns[1] = <<resgen_l5[1].mat[2], resgen_l5[1].mat[1]>>
  BY <1>3 DEF First
<1>5. CallRight({1}, resgen_l5[1], resgen_l5[2], l5_columns[1], l5_columns[2])
  <2>1. resgen_l5[1] = First(<<2, 0>>) /\ resgen_l5[2] = Jn(<<1, 2>>, -1, 1, <<Old(1), NewKey, Old(0)>>, TRUE)
    BY DEF resgen_l5
  <2>2. l5_columns[1] = <<0, 2>> /\ l5_columns[2] = <<2, 2, 0>>
    BY DEF l5_columns
  <2> QED BY <2>1, <2>2 DEF CallRight, HasLabel, KeyColumns, OrderRight, IsOrder, Jn, Fl, Old, New, NewKey, IsSequence, First
<1>6. resgen_l5[2].report
  <2>1. resgen_l5[2] = Jn(<<1, 2>>, -1, 1, <<Old(1), NewKey, Old(0)>>, TRUE)
    BY DEF resgen_l5
  <2> QED BY <2>1 DEF Jn
<1>7. \A i \in 2 .. Len(resgen_l5) : CallRight({1}, resgen_l5[i - 1], resgen_l5[i], l5_columns[i - 1], l5_columns[i])
  <2> SUFFICES ASSUME NEW i \in 2 .. 2 PROVE CallRight({1}, resgen_l5[i - 1], resgen_l5[i], l5_columns[i - 1], l5_columns[i])
    BY <1>1
  <2>1. (i = 2 /\ i - 1 = 1)
    OBVIOUS
  <2> QED BY <2>1, <1>5
<1> QED BY <1>1, <1>2, <1>4, <1>6, <1>7 DEF CallsRight

\* The calls of query 6.
LEMMA CallsOf6 == CallsRight({}, resgen_l6, l6_columns)
<1>1. IsSequence(resgen_l6) /\ Len(resgen_l6) = 4
  BY DEF resgen_l6, IsSequence
<1>2. IsSequence(l6_columns) /\ Len(l6_columns) = 4 /\ \A i \in 1 .. Len(l6_columns) : IsSequence(l6_columns[i])
  <2>1. l6_columns \in Seq(Seq(Nat)) /\ Len(l6_columns) = 4
    BY DEF l6_columns
  <2> QED BY <2>1, ColumnsTyped
<1>3. resgen_l6[1] = First(<<4, 0>>) /\ l6_columns[1] = <<0, 4>>
  BY DEF resgen_l6, l6_columns
<1>4. resgen_l6[1].op = "transposed" /\ l6_columns[1] = <<resgen_l6[1].mat[2], resgen_l6[1].mat[1]>>
  BY <1>3 DEF First
<1>5. CallRight({}, resgen_l6[1], resgen_l6[2], l6_columns[1], l6_columns[2])
  <2>1. resgen_l6[1] = First(<<4, 0>>) /\ resgen_l6[2] = Jn(<<3, 4>>, -1, 1, <<Old(0), New, NewKey>>, FALSE)
    BY DEF resgen_l6
  <2>2. l6_columns[1] = <<0, 4>> /\ l6_columns[2] = <<0, 3, 4>>
    BY DEF l6_columns
  <2> QED BY <2>1, <2>2 DEF CallRight, HasLabel, KeyColumns, OrderRight, IsOrder, Jn, Fl, Old, New, NewKey, IsSequence, First
<1>6. CallRight({}, resgen_l6[2], resgen_l6[3], l6_columns[2], l6_columns[3])
  <2>1. resgen_l6[2] = Jn(<<3, 4>>, -1, 1, <<Old(0), New, NewKey>>, FALSE) /\ resgen_l6[3] = Jn(<<2, 3>>, 1, 1, <<Old(0), New, Old(1), Old(2)>>, FALSE)
    BY DEF resgen_l6
  <2>2. l6_columns[2] = <<0, 3, 4>> /\ l6_columns[3] = <<0, 2, 3, 4>>
    BY DEF l6_columns
  <2> QED BY <2>1, <2>2 DEF CallRight, HasLabel, KeyColumns, OrderRight, IsOrder, Jn, Fl, Old, New, NewKey, IsSequence
<1>7. CallRight({}, resgen_l6[3], resgen_l6[4], l6_columns[3], l6_columns[4])
  <2>1. resgen_l6[3] = Jn(<<2, 3>>, 1, 1, <<Old(0), New, Old(1), Old(2)>>, FALSE) /\ resgen_l6[4] = Jn(<<1, 4>>, 3, 3, <<Old(0), New, Old(1), Old(2), Old(3)>>, TRUE)
    BY DEF resgen_l6
  <2>2. l6_columns[3] = <<0, 2, 3, 4>> /\ l6_columns[4] = <<0, 1, 2, 3, 4>>
    BY DEF l6_columns
  <2> QED BY <2>1, <2>2 DEF CallRight, HasLabel, KeyColumns, OrderRight, IsOrder, Jn, Fl, Old, New, NewKey, IsSequence
<1>8. resgen_l6[4].report
  <2>1. resgen_l6[4] = Jn(<<1, 4>>, 3, 3, <<Old(0), New, Old(1), Old(2), Old(3)>>, TRUE)
    BY DEF resgen_l6
  <2> QED BY <2>1 DEF Jn
<1>9. \A i \in 2 .. Len(resgen_l6) : CallRight({}, resgen_l6[i - 1], resgen_l6[i], l6_columns[i - 1], l6_columns[i])
  <2> SUFFICES ASSUME NEW i \in 2 .. 4 PROVE CallRight({}, resgen_l6[i - 1], resgen_l6[i], l6_columns[i - 1], l6_columns[i])
    BY <1>1
  <2>1. (i = 2 /\ i - 1 = 1) \/ (i = 3 /\ i - 1 = 2) \/ (i = 4 /\ i - 1 = 3)
    OBVIOUS
  <2> QED BY <2>1, <1>5, <1>6, <1>7
<1> QED BY <1>1, <1>2, <1>4, <1>8, <1>9 DEF CallsRight

\* The calls of query 7.
LEMMA CallsOf7 == CallsRight({}, resgen_l7, l7_columns)
<1>1. IsSequence(resgen_l7) /\ Len(resgen_l7) = 6
  BY DEF resgen_l7, IsSequence
<1>2. IsSequence(l7_columns) /\ Len(l7_columns) = 6 /\ \A i \in 1 .. Len(l7_columns) : IsSequence(l7_columns[i])
  <2>1. l7_columns \in Seq(Seq(Nat)) /\ Len(l7_columns) = 6
    BY DEF l7_columns
  <2> QED BY <2>1, ColumnsTyped
<1>3. resgen_l7[1] = First(<<5, 2>>) /\ l7_columns[1] = <<2, 5>>
  BY DEF resgen_l7, l7_columns
<1>4. resgen_l7[1].op = "transposed" /\ l7_columns[1] = <<resgen_l7[1].mat[2], resgen_l7[1].mat[1]>>
  BY <1>3 DEF First
<1>5. CallRight({}, resgen_l7[1], resgen_l7[2], l7_columns[1], l7_columns[2])
  <2>1. resgen_l7[1] = First(<<5, 2>>) /\ resgen_l7[2] = Jn(<<3, 5>>, -1, 1, <<Old(0), New, NewKey>>, TRUE)
    BY DEF resgen_l7
  <2>2. l7_columns[1] = <<2, 5>> /\ l7_columns[2] = <<2, 3, 5>>
    BY DEF l7_columns
  <2> QED BY <2>1, <2>2 DEF CallRight, HasLabel, KeyColumns, OrderRight, IsOrder, Jn, Fl, Old, New, NewKey, IsSequence, First
<1>6. CallRight({}, resgen_l7[2], resgen_l7[3], l7_columns[2], l7_columns[3])
  <2>1. resgen_l7[2] = Jn(<<3, 5>>, -1, 1, <<Old(0), New, NewKey>>, TRUE) /\ resgen_l7[3] = Jn(<<4, 3>>, 1, 1, <<Old(0), Old(1), New, Old(2)>>, TRUE)
    BY DEF resgen_l7
  <2>2. l7_columns[2] = <<2, 3, 5>> /\ l7_columns[3] = <<2, 3, 4, 5>>
    BY DEF l7_columns
  <2> QED BY <2>1, <2>2 DEF CallRight, HasLabel, KeyColumns, OrderRight, IsOrder, Jn, Fl, Old, New, NewKey, IsSequence
<1>7. CallRight({}, resgen_l7[3], resgen_l7[4], l7_columns[3], l7_columns[4])
  <2>1. resgen_l7[3] = Jn(<<4, 3>>, 1, 1, <<Old(0), Old(1), New, Old(2)>>, TRUE) /\ resgen_l7[4] = Fl(<<6, 4>>, 5, 2, 2, 3, <<Old(0), Old(1), Old(2), Old(3)>>, TRUE)
    BY DEF resgen_l7
  <2>2. l7_columns[3] = <<2, 3, 4, 5>> /\ l7_columns[4] = <<2, 3, 4, 5>>
    BY DEF l7_columns
  <2> QED BY <2>1, <2>2 DEF CallRight, HasLabel, KeyColumns, OrderRight, IsOrder, Jn, Fl, Old, New, NewKey, IsSequence
<1>8. CallRight({}, resgen_l7[4], resgen_l7[5], l7_columns[4], l7_columns[5])
  <2>1. resgen_l7[4] = Fl(<<6, 4>>, 5, 2, 2, 3, <<Old(0), Old(1), Old(2), Old(3)>>, TRUE) /\ resgen_l7[5] = Jn(<<1, 4>>, -1, 2, <<New, Old(0), Old(1), Old(2), Old(3)>>, TRUE)
    BY DEF resgen_l7
  <2>2. l7_columns[4] = <<2, 3, 4, 5>> /\ l7_columns[5] = <<1, 2, 3, 4, 5>>
    BY DEF l7_columns
  <2> QED BY <2>1, <2>2 DEF CallRight, HasLabel, KeyColumns, OrderRight, IsOrder, Jn, Fl, Old, New, NewKey, IsSequence
<1>9. CallRight({}, resgen_l7[5], resgen_l7[6], l7_columns[5], l7_columns[6])
  <2>1. resgen_l7[5] = Jn(<<1, 4>>, -1, 2, <<New, Old(0), Old(1), Old(2), Old(3)>>, TRUE) /\ resgen_l7[6] = Jn(<<0, 3>>, 2, 2, <<New, Old(0), Old(1), Old(2), Old(3), Old(4)>>, TRUE)
    BY DEF resgen_l7
  <2>2. l7_columns[5] = <<1, 2, 3, 4, 5>> /\ l7_columns[6] = <<0, 1, 2, 3, 4, 5>>
    BY DEF l7_columns
  <2> QED BY <2>1, <2>2 DEF CallRight, HasLabel, KeyColumns, OrderRight, IsOrder, Jn, Fl, Old, New, NewKey, IsSequence
<1>10. resgen_l7[6].report
  <2>1. resgen_l7[6] = Jn(<<0, 3>>, 2, 2, <<New, Old(0), Old(1), Old(2), Old(3), Old(4)>>, TRUE)
    BY DEF resgen_l7
  <2> QED BY <2>1 DEF Jn
<1>11. \A i \in 2 .. Len(resgen_l7) : CallRight({}, resgen_l7[i - 1], resgen_l7[i], l7_columns[i - 1], l7_columns[i])
  <2> SUFFICES ASSUME NEW i \in 2 .. 6 PROVE CallRight({}, resgen_l7[i - 1], resgen_l7[i], l7_columns[i - 1], l7_columns[i])
    BY <1>1
  <2>1. (i = 2 /\ i - 1 = 1) \/ (i = 3 /\ i - 1 = 2) \/ (i = 4 /\ i - 1 = 3) \/ (i = 5 /\ i - 1 = 4) \/ (i = 6 /\ i - 1 = 5)
    OBVIOUS
  <2> QED BY <2>1, <1>5, <1>6, <1>7, <1>8, <1>9
<1> QED BY <1>1, <1>2, <1>4, <1>10, <1>11 DEF CallsRight

\* The pivots, orders and redistributions that are constants in the code are right for every
\* query in it: each call's table is aligned with its pivot, the pivot's column has the key,
\* and the columns of the result have the labels of LubmColumns (resgen_l1 to resgen_l7).
THEOREM CallsAreRight ==
  ASSUME NEW k \in DOMAIN LubmQueries
  PROVE  CallsRight(Lost(k), LubmQueries[k].results, LubmColumns[k])
<1>1. k \in 1 .. 7
  BY DEF LubmQueries
<1>2. CASE k = 1
  <2>1. LubmQueries[1] = Hard(lubm_l1_find \o lubm_l1_restrict, resgen_l1)
    BY DEF LubmQueries
  <2>2. LubmQueries[1].results = resgen_l1
    BY <2>1 DEF Hard
  <2>3. LubmColumns[1] = l1_columns /\ Lost(1) = {0}
    BY DEF LubmColumns, Lost
  <2> QED BY <1>2, <2>2, <2>3, CallsOf1
<1>3. CASE k = 2
  <2>1. LubmQueries[2] = Hard(lubm_l2, resgen_l2)
    BY DEF LubmQueries
  <2>2. LubmQueries[2].results = resgen_l2
    BY <2>1 DEF Hard
  <2>3. LubmColumns[2] = l2_columns /\ Lost(2) = {}
    BY DEF LubmColumns, Lost
  <2> QED BY <1>3, <2>2, <2>3, CallsOf2
<1>4. CASE k = 3
  <2>1. LubmQueries[3] = Hard(lubm_l3, <<>>)
    BY DEF LubmQueries
  <2>2. LubmQueries[3].results = <<>>
    BY <2>1 DEF Hard
  <2>3. LubmColumns[3] = <<>> /\ Lost(3) = {}
    BY DEF LubmColumns, Lost
  <2>4. CallsRight({}, <<>>, <<>>)
    BY DEF CallsRight, IsSequence
  <2> QED BY <1>4, <2>2, <2>3, <2>4
<1>5. CASE k = 4
  <2>1. LubmQueries[4] = Hard(lubm_l4, resgen_l4)
    BY DEF LubmQueries
  <2>2. LubmQueries[4].results = resgen_l4
    BY <2>1 DEF Hard
  <2>3. LubmColumns[4] = l4_columns /\ Lost(4) = {}
    BY DEF LubmColumns, Lost
  <2> QED BY <1>5, <2>2, <2>3, CallsOf4
<1>6. CASE k = 5
  <2>1. LubmQueries[5] = Hard(lubm_l5, resgen_l5)
    BY DEF LubmQueries
  <2>2. LubmQueries[5].results = resgen_l5
    BY <2>1 DEF Hard
  <2>3. LubmColumns[5] = l5_columns /\ Lost(5) = {1}
    BY DEF LubmColumns, Lost
  <2> QED BY <1>6, <2>2, <2>3, CallsOf5
<1>7. CASE k = 6
  <2>1. LubmQueries[6] = Hard(lubm_l6, resgen_l6)
    BY DEF LubmQueries
  <2>2. LubmQueries[6].results = resgen_l6
    BY <2>1 DEF Hard
  <2>3. LubmColumns[6] = l6_columns /\ Lost(6) = {}
    BY DEF LubmColumns, Lost
  <2> QED BY <1>7, <2>2, <2>3, CallsOf6
<1>8. CASE k = 7
  <2>1. LubmQueries[7] = Hard(lubm_l7_find \o lubm_l7_restrict, resgen_l7)
    BY DEF LubmQueries
  <2>2. LubmQueries[7].results = resgen_l7
    BY <2>1 DEF Hard
  <2>3. LubmColumns[7] = l7_columns /\ Lost(7) = {}
    BY DEF LubmColumns, Lost
  <2> QED BY <1>8, <2>2, <2>3, CallsOf7
<1> QED BY <1>1, <1>2, <1>3, <1>4, <1>5, <1>6, <1>7, <1>8

-----------------------------------------------------------------------------
(* The tables of the result generation. *)

InGeneration == phase \in {"result_generation", "done"}

\* What goes into the last join or filter is aligned with its key.
Merging(t, p) == AlignedOn(t, p) /\ \A c \in RG!Row : IsSequence(t[c])

\* A query from a file: once there is a table, its columns have the labels so far, and it is
\* aligned with its first key and with the label of its second column as long as it has
\* only these two.
ParseShape ==
  LET first == script.results[1].mat IN
  /\ labels = <<>> => resLine = 1 /\ primary = RG!NoLabel /\ indl = RG!Empty /\ applied = <<>>
  /\ labels # <<>> =>
       /\ resLine > 1 /\ primary = first[2]
       /\ Len(labels) > 1 /\ Lists(labels, LabelsAfter(script)[resLine - 1])
       /\ IsTable(indl, Len(labels))
       /\ Len(labels) = 2 => labels = <<first[2], first[1]>> /\ AlignedOn(indl, 2)
  /\ Len(applied) > 1 => Merging(indw, RG!OldPosition(RG!LineOfKey))

\* A query in the code: its columns are those of the calls, and it is aligned with every
\* column in which the last key is.
CodeShape(k) ==
  LET calls == script.results IN
  /\ applied = [i \in 1 .. resLine - 1 |-> i]
  /\ phase = "result_generation" =>
       \A i \in resLine .. Len(calls) : matrices[calls[i].mat] # NoMatrix /\ found[i] = Nonzeros(matrices[calls[i].mat])
  /\ resLine > 1 =>
       /\ labels = LubmColumns[k][resLine - 1] /\ IsTable(indl, Len(labels))
       /\ \A q \in KeyColumns(calls[resLine - 1]) : AlignedOn(indl, q)
  /\ resLine > 2 => Merging(indw, calls[resLine - 1].pivot + 1)
Shape ==
  /\ (script.program = "magiqParse" \/ \E k \in DOMAIN LubmQueries : script = LubmQueries[k])
  /\ ~InGeneration => NoResults
  /\ InGeneration =>
       /\ resLine \in 1 .. Len(script.results) + 1
       /\ IsSequence(applied) /\ \A i \in 1 .. Len(applied) : applied[i] \in 1 .. resLine - 1
       /\ DOMAIN found = 1 .. Len(script.results) /\ \A i \in 1 .. Len(script.results) : found[i] \in SUBSET Pair
       /\ script.program = "magiqParse" => ParseShape
       /\ \A k \in DOMAIN LubmQueries : script = LubmQueries[k] => CodeShape(k)

-----------------------------------------------------------------------------
(* The labels of a query's lines. *)

\* The labels after a line, from those before it.
NextLabels(s, k, had) ==
  IF k = 1 THEN {s.results[k].mat[1], s.results[k].mat[2]}
  ELSE IF s.results[k].op = "join" /\ s.results[k].mat[2] \in had THEN had \cup {s.results[k].mat[1]} ELSE had

\* The labels are those after line after line.
LEMMA LabelsAfterRight ==
  ASSUME NEW s, Len(s.results) \in Nat
  PROVE  /\ LabelsAfter(s)[0] = {}
         /\ \A k \in 1 .. Len(s.results) : LabelsAfter(s)[k] = NextLabels(s, k, LabelsAfter(s)[k - 1])
<1> DEFINE n == Len(s.results)
           W == UNION {{s.results[k].mat[1], s.results[k].mat[2]} : k \in 1 .. n}
           T == SUBSET W
           F == [k \in 1 .. n |-> [x \in T |-> NextLabels(s, k, x)]]
           Body(g) == [k \in 0 .. n |->
             IF k = 0 THEN {}
             ELSE IF k = 1 THEN {s.results[k].mat[1], s.results[k].mat[2]}
             ELSE IF s.results[k].op = "join" /\ s.results[k].mat[2] \in g[k - 1]
                  THEN g[k - 1] \cup {s.results[k].mat[1]}
                  ELSE g[k - 1]]
           f == CHOOSE g : g = Body(g)
<1>1. LabelsAfter(s) = f
  BY DEF LabelsAfter
<1>2. F \in [1 .. n -> [T -> T]]
  <2>1. ASSUME NEW k \in 1 .. n, NEW x \in T PROVE NextLabels(s, k, x) \in T
    <3>1. s.results[k].mat[1] \in W /\ s.results[k].mat[2] \in W
      OBVIOUS
    <3> HIDE DEF W
    <3> QED BY <3>1 DEF NextLabels
  <2> HIDE DEF T
  <2> QED BY <2>1
<1>3. PICK g : Follows(g, n, T, {}, F)
  <2>1. {} \in T
    BY SMTT(30)
  <2> HIDE DEF F, T, n
  <2> QED BY <1>2, <2>1, PrimitiveRecursion DEF n
<1>4. g \in [0 .. n -> T] /\ g[0] = {} /\ \A k \in 1 .. n : g[k] = NextLabels(s, k, g[k - 1])
  <2>1. g \in [0 .. n -> T] /\ g[0] = {} /\ \A k \in 1 .. n : g[k] = F[k][g[k - 1]]
    BY <1>3 DEF Follows
  <2>2. \A k \in 1 .. n : k - 1 \in 0 .. n
    OBVIOUS
  <2> HIDE DEF T
  <2>3. \A k \in 1 .. n : g[k - 1] \in T
    BY <2>1, <2>2
  <2> QED BY <2>1, <2>3
<1>5. g = Body(g)
  <2> HIDE DEF T, F
  <2>1. \A k \in 0 .. n : k # 0 => k \in 1 .. n
    OBVIOUS
  <2>2. \A k \in 0 .. n : g[k] = Body(g)[k]
    BY <1>4, <2>1 DEF NextLabels
  <2>3. g = [k \in 0 .. n |-> g[k]] /\ Body(g) = [k \in 0 .. n |-> Body(g)[k]]
    BY <1>4
  <2> HIDE DEF Body
  <2> QED BY <2>2, <2>3
<1>6. f = Body(f)
  <2> HIDE DEF Body
  <2> QED BY <1>5, Zenon
<1>7. /\ f[0] = {} /\ \A k \in 1 .. n : f[k] = NextLabels(s, k, f[k - 1])
  <2> HIDE DEF f
  <2>1. \A k \in 1 .. n : k \in 0 .. n /\ k # 0
    BY SMTT(30)
  <2> DEFINE h == Body(f)
  <2>2. \A k \in 0 .. n : f[k] = h[k]
    BY <1>6, Zenon
  <2>3. h[0] = {} /\ \A k \in 1 .. n : h[k] = NextLabels(s, k, f[k - 1])
    <3>1. 0 \in 0 .. n
      OBVIOUS
    <3>2. h[0] = {}
      BY <3>1
    <3>3. ASSUME NEW k \in 1 .. n PROVE h[k] = NextLabels(s, k, f[k - 1])
      BY <2>1 DEF NextLabels
    <3> QED BY <3>2, <3>3
  <2> HIDE DEF h
  <2> QED BY <2>1, <2>2, <2>3
<1> HIDE DEF f, Body, T, F, W, n
<1>8. LabelsAfter(s)[0] = {} /\ \A k \in 1 .. n : LabelsAfter(s)[k] = NextLabels(s, k, LabelsAfter(s)[k - 1])
  BY <1>1, <1>7, Zenon
<1> QED BY <1>8 DEF n

-----------------------------------------------------------------------------
(* The columns of a query from a file. *)

\* The place of a label among the columns, and that of a line's key before a join moved it.
PlaceOf(L, n) == CHOOSE i \in DOMAIN L : L[i] = n
OldPlace(q, L) ==
  IF q.op = "join" /\ PlaceOf(L, q.mat[1]) < PlaceOf(L, q.mat[2]) THEN PlaceOf(L, q.mat[2]) - 1 ELSE PlaceOf(L, q.mat[2])
OldColumns(L) == [i \in DOMAIN L |-> <<0, i - 1>>]
PlaceFor(L, n) ==
  IF \E i \in DOMAIN L : L[i] > n THEN RG!Min({i \in DOMAIN L : L[i] > n}) ELSE Len(L) + 1

\* Columns with different labels have one place for each.
LEMMA PlaceRight ==
  ASSUME NEW L, NEW H, Lists(L, H)
  PROVE  /\ DOMAIN L = 1 .. Len(L) /\ Len(L) \in Nat
         /\ \A j \in 1 .. Len(L) : PlaceOf(L, L[j]) = j
         /\ \A n \in H : PlaceOf(L, n) \in 1 .. Len(L) /\ L[PlaceOf(L, n)] = n
         /\ RG!Range(L) = H
<1>1. DOMAIN L = 1 .. Len(L) /\ Len(L) \in Nat
  BY DEF Lists, IsSequence
<1>2. ASSUME NEW j \in 1 .. Len(L) PROVE PlaceOf(L, L[j]) = j
  <2>1. \E i \in DOMAIN L : L[i] = L[j]
    BY <1>1
  <2>2. PlaceOf(L, L[j]) \in DOMAIN L /\ L[PlaceOf(L, L[j])] = L[j]
    BY <2>1, Zenon DEF PlaceOf
  <2> QED BY <1>1, <2>2, Zenon DEF Lists
<1>3. ASSUME NEW n \in H PROVE PlaceOf(L, n) \in 1 .. Len(L) /\ L[PlaceOf(L, n)] = n
  <2>1. PICK j \in 1 .. Len(L) : L[j] = n
    BY DEF Lists
  <2> QED BY <1>2, <2>1
<1>4. RG!Range(L) = H
  BY <1>1 DEF RG!Range, Lists
<1> QED BY <1>1, <1>2, <1>3, <1>4

\* A new label's place is before the first larger one, or the last.
LEMMA PlaceForRight ==
  ASSUME NEW L, IsSequence(L), NEW n
  PROVE  PlaceFor(L, n) \in 1 .. Len(L) + 1
<1>1. DOMAIN L = 1 .. Len(L) /\ Len(L) \in Nat
  BY DEF IsSequence
<1>2. CASE \E i \in DOMAIN L : L[i] > n
  <2> DEFINE S == {i \in DOMAIN L : L[i] > n}
  <2>1. S \in SUBSET Nat /\ S # {} /\ S \subseteq 1 .. Len(L)
    BY <1>1, <1>2
  <2>2. PlaceFor(L, n) = RG!Min(S)
    BY <1>2 DEF PlaceFor
  <2> HIDE DEF S
  <2>3. \E m \in S : \A k \in S : m <= k
    BY <2>1, Smallest
  <2>4. RG!Min(S) \in S
    BY <2>3, Zenon DEF RG!Min
  <2>5. PlaceFor(L, n) \in 1 .. Len(L)
    BY <2>1, <2>2, <2>4
  <2> QED BY <1>1, <2>5
<1>3. CASE ~\E i \in DOMAIN L : L[i] > n
  BY <1>1, <1>3 DEF PlaceFor
<1> QED BY <1>2, <1>3

\* A join's line finds the place where its key was.
KeysMoved(L, mat, new) ==
  \A p \in 1 .. Len(L) : \A q : q.op = "join" /\ q.mat = mat /\ L[p] = mat[2] => OldPlace(q, new) = p

\* A join puts the new label among the old ones.
LEMMA InsertOrder ==
  ASSUME NEW L, NEW H, Lists(L, H), NEW mat, mat[1] \notin H, NEW pos \in 1 .. Len(L) + 1
  PROVE  /\ Lists(RG!InsertAt(L, pos, mat[1]), H \cup {mat[1]})
         /\ Len(RG!InsertAt(L, pos, mat[1])) = Len(L) + 1
         /\ Len(RG!InsertAt(OldColumns(L), pos, <<1, 0>>)) = Len(L) + 1
         /\ OrderRight(L, RG!InsertAt(OldColumns(L), pos, <<1, 0>>), mat, RG!InsertAt(L, pos, mat[1]))
         /\ KeysMoved(L, mat, RG!InsertAt(L, pos, mat[1]))
<1> DEFINE l1 == mat[1]
           new == RG!InsertAt(L, pos, l1)
           old == OldColumns(L)
           order == RG!InsertAt(old, pos, <<1, 0>>)
           w == Len(L)
<1>1. IsSequence(L) /\ w \in Nat /\ DOMAIN L = 1 .. w
  BY DEF Lists, IsSequence
<1>2. IsSequence(old) /\ Len(old) = w /\ \A i \in 1 .. w : old[i] = <<0, i - 1>>
  BY <1>1 DEF OldColumns, IsSequence
<1> HIDE DEF old
<1>3. /\ IsSequence(new) /\ Len(new) = w + 1
      /\ \A k \in 1 .. pos - 1 : new[k] = L[k]
      /\ new[pos] = l1
      /\ \A k \in pos .. w : new[k + 1] = L[k]
  BY <1>1, InsertRight
<1>4. /\ IsSequence(order) /\ Len(order) = w + 1
      /\ \A k \in 1 .. pos - 1 : order[k] = old[k]
      /\ order[pos] = <<1, 0>>
      /\ \A k \in pos .. w : order[k + 1] = old[k]
  <2>1. pos \in 1 .. Len(old) + 1
    BY <1>2
  <2>2. /\ IsSequence(order) /\ Len(order) = Len(old) + 1
        /\ \A k \in 1 .. pos - 1 : order[k] = old[k]
        /\ order[pos] = <<1, 0>>
        /\ \A k \in pos .. Len(old) : order[k + 1] = old[k]
    BY <1>2, <2>1, InsertRight
  <2> QED BY <1>2, <2>2
<1>5. /\ \A k \in 1 .. w : L[k] \in H
      /\ \A n \in H : \E k \in 1 .. w : L[k] = n
      /\ \A i, j \in 1 .. w : L[i] = L[j] => i = j
  BY DEF Lists
<1> HIDE DEF new, order, w, l1
<1>6. pos \in 1 .. w + 1
  BY DEF w
<1>7. ASSUME NEW i \in 1 .. w + 1 PROVE i = pos \/ i \in 1 .. pos - 1 \/ (i - 1 \in pos .. w /\ (i - 1) + 1 = i)
  BY <1>1, <1>6
<1>8. \A k \in 1 .. pos - 1 : k \in 1 .. w
  BY <1>1, <1>6
<1>9. \A k \in pos .. w : k \in 1 .. w
  BY <1>1, <1>6
<1>10. Lists(new, H \cup {l1})
  <2>1. ASSUME NEW i \in 1 .. w + 1 PROVE new[i] \in H \cup {l1}
    <3>1. CASE i = pos
      BY <1>3, <3>1
    <3>2. CASE i \in 1 .. pos - 1
      BY <1>3, <1>5, <1>8, <3>2
    <3>3. CASE i - 1 \in pos .. w /\ (i - 1) + 1 = i
      BY <1>3, <1>5, <1>9, <3>3
    <3> QED BY <1>7, <3>1, <3>2, <3>3
  <2>2. ASSUME NEW n \in H \cup {l1} PROVE \E i \in 1 .. w + 1 : new[i] = n
    <3>1. CASE n = l1
      BY <1>3, <1>6, <3>1
    <3>2. CASE n \in H
      <4>1. PICK k \in 1 .. w : L[k] = n
        BY <1>5, <3>2
      <4>2. CASE k < pos
        <5>1. k \in 1 .. pos - 1 /\ k \in 1 .. w + 1
          BY <1>1, <1>6, <4>2
        <5> QED BY <1>3, <4>1, <5>1
      <4>3. CASE k >= pos
        <5>1. k \in pos .. w /\ k + 1 \in 1 .. w + 1
          BY <1>1, <1>6, <4>3
        <5> QED BY <1>3, <4>1, <5>1
      <4> QED BY <1>1, <1>6, <4>2, <4>3
    <3> QED BY <2>2, <3>1, <3>2
  <2>3. ASSUME NEW i \in 1 .. w + 1, NEW j \in 1 .. w + 1, new[i] = new[j], i < j PROVE FALSE
    <3>1. l1 \notin H
      BY DEF l1
    <3>2. CASE i = pos
      <4>1. j - 1 \in pos .. w /\ (j - 1) + 1 = j
        BY <1>1, <1>6, <2>3, <3>2
      <4> QED BY <1>3, <1>5, <1>9, <2>3, <3>1, <3>2, <4>1
    <3>3. CASE j = pos
      <4>1. i \in 1 .. pos - 1
        BY <1>1, <1>6, <2>3, <3>3
      <4> QED BY <1>3, <1>5, <1>8, <2>3, <3>1, <3>3, <4>1
    <3>4. CASE i \in 1 .. pos - 1 /\ j \in 1 .. pos - 1
      <4>1. L[i] = L[j] /\ i \in 1 .. w /\ j \in 1 .. w
        BY <1>3, <1>8, <2>3, <3>4
      <4>2. i = j
        BY <1>5, <4>1
      <4> QED BY <2>3, <4>2
    <3>5. CASE i \in 1 .. pos - 1 /\ j - 1 \in pos .. w /\ (j - 1) + 1 = j
      <4>1. new[(j - 1) + 1] = L[j - 1]
        BY <1>3, <3>5
      <4>2. L[i] = L[j - 1] /\ i \in 1 .. w /\ j - 1 \in 1 .. w
        BY <1>3, <1>8, <1>9, <2>3, <3>5, <4>1
      <4>3. i = j - 1
        BY <1>5, <4>2
      <4> QED BY <1>6, <3>5, <4>3
    <3>6. CASE i - 1 \in pos .. w /\ (i - 1) + 1 = i
      <4>1. j - 1 \in pos .. w /\ (j - 1) + 1 = j
        BY <1>1, <1>6, <2>3, <3>6
      <4>2. new[(j - 1) + 1] = L[j - 1] /\ new[(i - 1) + 1] = L[i - 1]
        BY <1>3, <3>6, <4>1
      <4>3. L[i - 1] = L[j - 1] /\ i - 1 \in 1 .. w /\ j - 1 \in 1 .. w
        BY <1>9, <2>3, <3>6, <4>1, <4>2
      <4>4. i - 1 = j - 1
        BY <1>5, <4>3
      <4> QED BY <2>3, <4>4
    <3> QED BY <1>7, <3>2, <3>3, <3>4, <3>5, <3>6
  <2>4. ASSUME NEW i \in 1 .. w + 1, NEW j \in 1 .. w + 1, new[i] = new[j] PROVE i = j
    <3>1. ~(i < j) /\ ~(j < i)
      BY <2>3, <2>4
    <3> QED BY <1>1, <3>1
  <2>5. /\ \A i \in 1 .. w + 1 : new[i] \in H \cup {l1}
        /\ \A n \in H \cup {l1} : \E i \in 1 .. w + 1 : new[i] = n
        /\ \A i, j \in 1 .. w + 1 : new[i] = new[j] => i = j
    BY <2>1, <2>2, <2>4
  <2> QED BY <1>3, <2>5 DEF Lists
<1>11. OrderRight(L, order, mat, new)
  <2>1. ASSUME NEW i \in 1 .. w + 1
        PROVE  /\ order[i] \in ({0} \X (0 .. w - 1)) \cup ({1} \X {0, 1})
               /\ new[i] = IF order[i][1] = 0 THEN L[order[i][2] + 1] ELSE mat[order[i][2] + 1]
    <3>1. CASE i = pos
      <4>1. order[i] = <<1, 0>> /\ new[i] = mat[1]
        BY <1>3, <1>4, <3>1 DEF l1
      <4> QED BY <4>1
    <3>2. ASSUME NEW k \in 1 .. w, order[i] = old[k], new[i] = L[k]
          PROVE  /\ order[i] \in ({0} \X (0 .. w - 1)) \cup ({1} \X {0, 1})
                 /\ new[i] = IF order[i][1] = 0 THEN L[order[i][2] + 1] ELSE mat[order[i][2] + 1]
      <4>1. order[i] = <<0, k - 1>>
        BY <1>2, <3>2 DEF w
      <4>2. order[i][1] = 0 /\ order[i][2] = k - 1 /\ k - 1 \in 0 .. w - 1 /\ (k - 1) + 1 = k
        BY <1>1, <4>1
      <4> QED BY <3>2, <4>1, <4>2
    <3>3. CASE i \in 1 .. pos - 1
      BY <1>3, <1>4, <1>8, <3>2, <3>3
    <3>4. CASE i - 1 \in pos .. w /\ (i - 1) + 1 = i
      <4>1. order[(i - 1) + 1] = old[i - 1] /\ new[(i - 1) + 1] = L[i - 1]
        BY <1>3, <1>4, <3>4
      <4>2. order[i] = old[i - 1] /\ new[i] = L[i - 1] /\ i - 1 \in 1 .. w
        BY <1>9, <3>4, <4>1
      <4> QED BY <3>2, <4>2
    <3> QED BY <1>7, <3>1, <3>3, <3>4
  <2>2. w = Len(L)
    BY DEF w
  <2> QED BY <1>3, <1>4, <2>1, <2>2 DEF OrderRight, IsOrder
<1>12. ASSUME NEW p \in 1 .. w, NEW q, q.op = "join", q.mat = mat, L[p] = mat[2] PROVE OldPlace(q, new) = p
  <2> HIDE DEF l1
  <2>1. /\ \A j \in 1 .. Len(new) : PlaceOf(new, new[j]) = j
    BY <1>10, PlaceRight
  <2>2. PlaceOf(new, mat[1]) = pos
    BY <1>3, <1>6, <2>1 DEF l1
  <2>3. CASE p < pos
    <3>1. p \in 1 .. pos - 1 /\ p \in 1 .. w + 1
      BY <1>1, <1>6, <2>3
    <3>2. PlaceOf(new, mat[2]) = p
      BY <1>3, <1>12, <2>1, <3>1
    <3> QED BY <1>12, <2>2, <2>3, <3>1, <3>2 DEF OldPlace
  <2>4. CASE p >= pos
    <3>1. p \in pos .. w /\ p + 1 \in 1 .. w + 1 /\ pos < p + 1 /\ (p + 1) - 1 = p
      BY <1>1, <1>6, <2>4
    <3>2. PlaceOf(new, mat[2]) = p + 1
      BY <1>3, <1>12, <2>1, <3>1
    <3> QED BY <1>12, <2>2, <3>1, <3>2 DEF OldPlace
  <2> QED BY <1>1, <1>6, <2>3, <2>4
<1>13. KeysMoved(L, mat, new)
  BY <1>12 DEF KeysMoved, w
<1> QED BY <1>3, <1>4, <1>10, <1>11, <1>13 DEF new, order, w, l1, old

-----------------------------------------------------------------------------
(* The steps of the result generation, of a query from a file. *)

\* The query has its form, and its result lines are a sequence.
LEMMA QueryRight ==
  ASSUME IInv, Shape
  PROVE  /\ WellFormed(script) /\ Len(script.results) \in Nat
         /\ IsSequence(script.results) /\ DOMAIN script.results = 1 .. Len(script.results)
         /\ Len(script.lines) \in Nat
         /\ script.program = "magiqParse" => script.results \in Seq(ResultForms)
<1>1. WellFormed(script)
  BY ScriptsAssumption DEF IInv, Given
<1>2. Len(script.lines) \in Nat
  BY <1>1 DEF WellFormed
<1>3. CASE script.program = "magiqParse"
  <2>1. script.results \in Seq(ResultForms)
    BY <1>1, <1>3 DEF WellFormed
  <2>2. IsSequence(script.results) /\ Len(script.results) \in Nat
    BY <2>1, TypedIsSequence DEF IsSequence
  <2>3. DOMAIN script.results = 1 .. Len(script.results)
    BY <2>1
  <2> QED BY <1>1, <1>2, <1>3, <2>1, <2>2, <2>3
<1>4. CASE \E k \in DOMAIN LubmQueries : script = LubmQueries[k]
  <2>1. IsSequence(script.results)
    BY <1>4, CallsAreRight DEF CallsRight
  <2>2. Len(script.results) \in Nat /\ DOMAIN script.results = 1 .. Len(script.results)
    BY <2>1 DEF IsSequence
  <2>3. script.program # "magiqParse"
    BY <1>4 DEF LubmQueries, Hard
  <2> QED BY <1>1, <1>2, <2>1, <2>2, <2>3
<1> QED BY <1>3, <1>4 DEF Shape

\* The queries in the code are run by the program that has them.
LEMMA ProgramOf ==
  ASSUME NEW k \in DOMAIN LubmQueries
  PROVE  LubmQueries[k].program = "magiqScal" /\ LubmQueries[k] \in Scripts
<1>1. LubmQueries[k].program = "magiqScal"
  BY DEF LubmQueries, Hard
<1> QED BY <1>1, LubmAssumption

\* The nonzeros of a matrix are pairs of entities.
LEMMA NonzerosType ==
  ASSUME NEW M, InBlocks(M)
  PROVE  Nonzeros(M) \in SUBSET Pair
<1> SUFFICES ASSUME NEW e \in Nonzeros(M) PROVE e \in Pair
  OBVIOUS
<1>1. PICK r \in Procs : \E d \in M[r] : e = <<RowOf(r, d), ColOf(r, d)>>
  BY DEF Nonzeros, RowOf, ColOf
<1>2. PICK d \in M[r] : e = <<RowOf(r, d), ColOf(r, d)>>
  BY <1>1
<1>3. d \in Block(r)
  BY DEF InBlocks
<1>4. RowOf(r, d) \in Entity /\ ColOf(r, d) \in Entity
  BY <1>3, EntryPlace
<1> QED BY <1>2, <1>4 DEF Pair

\* When the result generation begins, all its matrices are there.
LEMMA BeginKeeps ==
  ASSUME IInv, Shape, BeginResults
  PROVE  Shape'
<1>1. /\ phase = "query_execution" /\ line > Len(script.lines) /\ phase' = "result_generation"
      /\ found' = [i \in DOMAIN script.results |-> Nonzeros(matrices[script.results[i].mat])]
      /\ script' = script /\ matrices' = matrices /\ resLine' = resLine /\ labels' = labels /\ primary' = primary
      /\ indl' = indl /\ applied' = applied /\ indw' = indw
  BY DEF BeginResults, execution
<1>2. /\ WellFormed(script) /\ Len(script.results) \in Nat /\ DOMAIN script.results = 1 .. Len(script.results)
      /\ Len(script.lines) \in Nat
  BY QueryRight
<1>3. resLine = 1 /\ labels = <<>> /\ primary = RG!NoLabel /\ indl = RG!Empty /\ applied = <<>>
  BY <1>1 DEF Shape, InGeneration, NoResults
<1>4. ASSUME NEW i \in 1 .. Len(script.results)
      PROVE  matrices[script.results[i].mat] # NoMatrix /\ Nonzeros(matrices[script.results[i].mat]) \in SUBSET Pair
  <2> DEFINE n == script.results[i].mat
  <2>1. n \in Earlier(script, Len(script.lines) + 1)
    BY <1>2 DEF WellFormed, ResultWellFormed
  <2>2. line = Len(script.lines) + 1
    BY <1>1, <1>2 DEF IInv, Progress
  <2>3. PICK j \in 1 .. line - 1 : script.lines[j].mat = n
    BY <2>1, <2>2 DEF Earlier
  <2>4. matrices[n] # NoMatrix
    BY <1>1, <2>3 DEF IInv, MatricesInBlocks
  <2>5. n \in DOMAIN matrices
    <3>1. j \in DOMAIN script.lines
      BY <1>2, <2>2 DEF WellFormed
    <3> QED BY <2>3, <3>1 DEF IInv, MatricesInBlocks, Names
  <2>6. InBlocks(matrices[n])
    BY <2>4, <2>5 DEF IInv, MatricesInBlocks
  <2> QED BY <2>4, <2>6, NonzerosType
<1>5. IsSequence(applied) /\ Len(applied) = 0
  BY <1>3 DEF IsSequence
<1>6. DOMAIN found' = 1 .. Len(script.results) /\ \A i \in 1 .. Len(script.results) : found'[i] \in SUBSET Pair
  BY <1>1, <1>2, <1>4
<1>7. ParseShape'
  BY <1>1, <1>3, <1>5 DEF ParseShape
<1>8. ASSUME NEW k \in DOMAIN LubmQueries, script = LubmQueries[k] PROVE CodeShape(k)'
  <2>1. applied = [i \in 1 .. resLine - 1 |-> i]
    BY <1>3
  <2>2. \A i \in resLine .. Len(script.results) :
          matrices[script.results[i].mat] # NoMatrix /\ found'[i] = Nonzeros(matrices[script.results[i].mat])
    BY <1>1, <1>2, <1>3, <1>4
  <2>3. ~(resLine > 1) /\ ~(resLine > 2)
    BY <1>3
  <2> QED BY <1>1, <2>1, <2>2, <2>3 DEF CodeShape
<1>9. InGeneration' /\ resLine' \in 1 .. Len(script'.results) + 1
  BY <1>1, <1>2, <1>3 DEF InGeneration
<1>10. IsSequence(applied') /\ \A i \in 1 .. Len(applied') : applied'[i] \in 1 .. resLine' - 1
  BY <1>1, <1>5
<1> QED BY <1>1, <1>6, <1>7, <1>8, <1>9, <1>10 DEF Shape

\* A line of the result generation of a query from a file.
Generating == script.program = "magiqParse" /\ phase = "result_generation" /\ resLine <= Len(script.results)
Had == LabelsAfter(script)[resLine - 1]
Call == script.results[resLine]

\* What is known when such a line comes.
LEMMA GeneratingRight ==
  ASSUME IInv, Shape, Generating
  PROVE  /\ WellFormed(script) /\ script.results \in Seq(ResultForms) /\ resLine \in 1 .. Len(script.results)
         /\ Len(script.results) \in Nat
         /\ Call \in ResultForms /\ ResultWellFormed(script, resLine) /\ ParseShape
         /\ LabelsAfter(script)[resLine] = NextLabels(script, resLine, Had)
         /\ \A k \in DOMAIN LubmQueries : script # LubmQueries[k]
         /\ found[resLine] \in SUBSET Pair
         /\ IsSequence(applied) /\ \A i \in 1 .. Len(applied) : applied[i] \in 1 .. resLine - 1
         /\ DOMAIN found = 1 .. Len(script.results) /\ \A i \in 1 .. Len(script.results) : found[i] \in SUBSET Pair
<1>1. WellFormed(script) /\ Len(script.results) \in Nat /\ script.results \in Seq(ResultForms)
  BY QueryRight DEF Generating
<1>2. /\ resLine \in 1 .. Len(script.results) + 1 /\ ParseShape
      /\ IsSequence(applied) /\ \A i \in 1 .. Len(applied) : applied[i] \in 1 .. resLine - 1
      /\ DOMAIN found = 1 .. Len(script.results) /\ \A i \in 1 .. Len(script.results) : found[i] \in SUBSET Pair
  BY DEF Shape, InGeneration, Generating
<1>3. resLine \in 1 .. Len(script.results)
  BY <1>1, <1>2 DEF Generating
<1>4. ResultWellFormed(script, resLine) /\ Call \in ResultForms
  BY <1>1, <1>3 DEF WellFormed, Call
<1>5. LabelsAfter(script)[resLine] = NextLabels(script, resLine, Had)
  BY <1>1, <1>3, LabelsAfterRight DEF Had
<1>6. \A k \in DOMAIN LubmQueries : script # LubmQueries[k]
  BY ProgramOf DEF Generating
<1> QED BY <1>1, <1>2, <1>3, <1>4, <1>5, <1>6

\* What every line leaves of the shape.
LEMMA ShapeAfter ==
  ASSUME IInv, Shape, Generating, UNCHANGED execution, phase' = phase, resLine' = resLine + 1, found' = found,
         ParseShape',
         \/ applied' = applied
         \/ applied' = Append(applied, resLine)
  PROVE  Shape'
<1>1. /\ resLine \in 1 .. Len(script.results) /\ Len(script.results) \in Nat
      /\ \A k \in DOMAIN LubmQueries : script # LubmQueries[k]
      /\ IsSequence(applied) /\ \A i \in 1 .. Len(applied) : applied[i] \in 1 .. resLine - 1
      /\ DOMAIN found = 1 .. Len(script.results) /\ \A i \in 1 .. Len(script.results) : found[i] \in SUBSET Pair
  BY GeneratingRight
<1>2. script' = script /\ InGeneration' /\ resLine' \in 1 .. Len(script.results) + 1
  BY <1>1 DEF execution, InGeneration, Generating
<1>3. IsSequence(applied') /\ \A i \in 1 .. Len(applied') : applied'[i] \in 1 .. resLine
  <2>1. CASE applied' = applied
    BY <1>1, <2>1
  <2>2. CASE applied' = Append(applied, resLine)
    <3>1. /\ IsSequence(applied') /\ Len(applied') = Len(applied) + 1 /\ Len(applied) \in Nat
          /\ \A i \in 1 .. Len(applied) : applied'[i] = applied[i]
          /\ applied'[Len(applied) + 1] = resLine
      BY <1>1, <2>2, Appended DEF IsSequence
    <3>2. \A i \in 1 .. Len(applied') : i \in 1 .. Len(applied) \/ i = Len(applied) + 1
      BY <3>1
    <3>3. \A i \in 1 .. Len(applied) : applied'[i] \in 1 .. resLine
      BY <1>1, <3>1
    <3> QED BY <1>1, <3>1, <3>2, <3>3
  <2> QED BY <2>1, <2>2
<1>4. resLine' - 1 = resLine
  BY <1>1
<1>5. script'.program = "magiqParse"
  BY <1>2 DEF Generating
<1> QED BY <1>1, <1>2, <1>3, <1>4, <1>5 DEF Shape

\* The first line.
LEMMA FirstKeeps ==
  ASSUME IInv, Shape, Generating, UNCHANGED execution, phase' = phase, RG!FirstJoin
  PROVE  Shape'
<1>1. /\ resLine \in 1 .. Len(script.results) /\ Call \in ResultForms /\ ResultWellFormed(script, resLine) /\ ParseShape
      /\ LabelsAfter(script)[resLine] = NextLabels(script, resLine, Had) /\ found[resLine] \in SUBSET Pair
  BY GeneratingRight
<1>2. /\ labels = <<>> /\ labels' = <<Call.mat[2], Call.mat[1]>> /\ primary' = Call.mat[2]
      /\ indl' = FirstTable(found[resLine]) /\ applied' = Append(applied, resLine)
      /\ resLine' = resLine + 1 /\ found' = found /\ script' = script
  BY DEF RG!FirstJoin, RG!Mat, RG!Advance, Call, FirstTable, execution
<1>3. resLine = 1 /\ applied = <<>>
  BY <1>1, <1>2 DEF ParseShape
<1>4. LabelsAfter(script)[1] = {Call.mat[1], Call.mat[2]} /\ Call.mat[1] # Call.mat[2]
  BY <1>1, <1>3 DEF NextLabels, Call, ResultWellFormed
<1>5. Lists(<<Call.mat[2], Call.mat[1]>>, {Call.mat[1], Call.mat[2]})
  <2> DEFINE a == Call.mat[1]
             b == Call.mat[2]
             s == <<b, a>>
  <2>1. IsSequence(s) /\ Len(s) = 2 /\ s[1] = b /\ s[2] = a
    BY DEF IsSequence
  <2>2. a # b
    BY <1>4
  <2> HIDE DEF a, b, s
  <2>3. \A i \in 1 .. 2 : i = 1 \/ i = 2
    OBVIOUS
  <2>4. \A i \in 1 .. 2 : s[i] \in {a, b}
    BY <2>1, <2>3
  <2>5. \A x \in {a, b} : \E i \in 1 .. 2 : s[i] = x
    BY <2>1
  <2>6. \A i, j \in 1 .. 2 : s[i] = s[j] => i = j
    BY <2>1, <2>2, <2>3
  <2>7. Lists(s, {a, b})
    BY <2>1, <2>4, <2>5, <2>6 DEF Lists
  <2> QED BY <2>7 DEF a, b, s
<1>6. IsTable(indl', 2) /\ AlignedOn(indl', 2)
  BY <1>1, <1>2, FirstRight
<1>7. Len(labels') = 2 /\ labels' # <<>> /\ Len(applied') = 1 /\ resLine' = 2
  <2>1. Len(labels') = 2
    BY <1>2
  <2>2. labels' # <<>>
    BY <1>2
  <2> QED BY <1>2, <1>3, <2>1, <2>2
<1>8. ParseShape'
  <2>1. primary' = script'.results[1].mat[2] /\ labels' = <<script'.results[1].mat[2], script'.results[1].mat[1]>>
    BY <1>2, <1>3 DEF Call
  <2>2. Lists(labels', LabelsAfter(script')[resLine' - 1])
    <3>1. resLine' - 1 = 1
      BY <1>7
    <3> QED BY <1>2, <1>4, <1>5, <3>1
  <2> QED BY <1>6, <1>7, <2>1, <2>2 DEF ParseShape
<1> QED BY <1>2, <1>8, ShapeAfter

\* A line without a key.
LEMMA NoKeyKeeps ==
  ASSUME IInv, Shape, Generating, UNCHANGED execution, phase' = phase, RG!NoKey
  PROVE  Shape'
<1>1. /\ resLine \in 1 .. Len(script.results) /\ ParseShape
      /\ LabelsAfter(script)[resLine] = NextLabels(script, resLine, Had)
  BY GeneratingRight
<1>2. /\ labels # <<>> /\ ~RG!HasKey
      /\ resLine' = resLine + 1 /\ found' = found /\ script' = script
      /\ labels' = labels /\ primary' = primary /\ indl' = indl /\ applied' = applied /\ indw' = indw
  BY DEF RG!NoKey, RG!Advance, execution
<1>3. resLine > 1 /\ Lists(labels, Had)
  BY <1>1, <1>2 DEF ParseShape, Had
<1>4. Call.mat[2] \notin Had
  <2>1. RG!Range(labels) = Had
    BY <1>3, PlaceRight
  <2> QED BY <1>2, <2>1 DEF RG!HasKey, RG!Mat, Call
<1>5. LabelsAfter(script)[resLine] = Had
  BY <1>1, <1>3, <1>4 DEF NextLabels, Call
<1>6. resLine' - 1 = resLine /\ resLine' > 1
  BY <1>1, <1>2
<1>7. Len(applied') > 1 => Merging(indw', (RG!OldPosition(RG!LineOfKey))')
  <2>1. (RG!OldPosition(RG!LineOfKey))' = RG!OldPosition(RG!LineOfKey)
    BY <1>2 DEF RG!OldPosition, RG!LineOfKey, RG!LastApplied, RG!Position
  <2> QED BY <1>1, <1>2, <2>1 DEF ParseShape
<1>8. ParseShape'
  <2>1. Lists(labels', LabelsAfter(script')[resLine' - 1])
    BY <1>2, <1>3, <1>5, <1>6
  <2> QED BY <1>1, <1>2, <1>6, <1>7, <2>1 DEF ParseShape
<1> QED BY <1>2, <1>8, ShapeAfter

\* A line with a key finds the table aligned with it.
LEMMA DistributedRight ==
  ASSUME IInv, Shape, Generating, RG!HasKey
  PROVE  LET p == PlaceOf(labels, Call.mat[2])
         IN /\ resLine > 1 /\ Lists(labels, Had) /\ IsTable(indl, Len(labels)) /\ Call.mat[2] \in Had
            /\ Len(labels) \in Nat \ {0, 1} /\ p \in 1 .. Len(labels) /\ labels[p] = Call.mat[2]
            /\ Len(labels) = 2 => p = 2
            /\ IsTable(RG!Distributed, Len(labels)) /\ AlignedOn(RG!Distributed, p)
            /\ \A R : Holds(indl, R) => Holds(RG!Distributed, R)
<1> DEFINE w == Len(labels)
           p == PlaceOf(labels, Call.mat[2])
<1>1. /\ resLine \in 1 .. Len(script.results) /\ ParseShape /\ ResultWellFormed(script, resLine)
  BY GeneratingRight
<1>2. labels # <<>>
  BY DEF RG!HasKey
<1>3. /\ resLine > 1 /\ Lists(labels, Had) /\ IsTable(indl, w) /\ primary = script.results[1].mat[2]
      /\ w = 2 => labels = <<script.results[1].mat[2], script.results[1].mat[1]>> /\ AlignedOn(indl, 2)
      /\ w > 1
  BY <1>1, <1>2 DEF ParseShape, Had
<1>4. w \in Nat /\ RG!Range(labels) = Had
  BY <1>3, PlaceRight
<1>5. Call.mat[2] \in Had
  BY <1>4 DEF RG!HasKey, RG!Mat, Call
<1>6. p \in 1 .. w /\ labels[p] = Call.mat[2]
  BY <1>3, <1>5, PlaceRight
<1>7. Call.mat[2] # primary
  BY <1>1, <1>3, <1>5 DEF ResultWellFormed, Call, Had
<1>8. RG!Position(RG!Mat[2]) = p
  BY DEF RG!Position, RG!Mat, Call, PlaceOf
<1>9. CASE w = 2
  <2>1. labels[1] = primary
    BY <1>3, <1>9
  <2>2. p = 2
    BY <1>6, <1>7, <1>9, <2>1
  <2>3. RG!Distributed = indl
    BY <1>9 DEF RG!Distributed, RG!NeedsRedistribution
  <2> HIDE DEF p
  <2> QED BY <1>3, <1>4, <1>5, <1>6, <1>9, <2>2, <2>3 DEF p
<1>10. CASE w # 2
  <2>1. w > 2 /\ w \in Nat \ {0, 1}
    <3>1. w > 1
      BY <1>3
    <3> HIDE DEF w
    <3> QED BY <1>4, <1>10, <3>1
  <2>2. RG!Distributed = RG!Redistributed(indl, p)
    BY <1>7, <1>8, <2>1 DEF RG!Distributed, RG!NeedsRedistribution, RG!Mat, Call
  <2>3. /\ IsTable(RG!Redistributed(indl, p), w) /\ AlignedOn(RG!Redistributed(indl, p), p)
        /\ \A R : Holds(indl, R) => Holds(RG!Redistributed(indl, p), R)
    BY <1>3, <1>4, <1>6, RedistributedRight
  <2> HIDE DEF p, w
  <2> QED BY <1>3, <1>5, <1>6, <1>10, <2>1, <2>2, <2>3 DEF p, w
<1> QED BY <1>9, <1>10

\* The columns that a join makes, and their order.
NewColumns == RG!InsertAt(labels, PlaceFor(labels, Call.mat[1]), Call.mat[1])
NewOrder == RG!InsertAt(OldColumns(labels), PlaceFor(labels, Call.mat[1]), <<1, 0>>)
KeyPlace == PlaceOf(labels, Call.mat[2])

\* A join.
LEMMA JoinLine ==
  ASSUME IInv, Shape, Generating, RG!Join
  PROVE  /\ Call.op = "join" /\ Call.mat[1] \notin Had
         /\ LabelsAfter(script)[resLine] = Had \cup {Call.mat[1]}
         /\ Lists(NewColumns, Had \cup {Call.mat[1]})
         /\ Len(NewColumns) = Len(labels) + 1 /\ Len(NewOrder) = Len(labels) + 1
         /\ OrderRight(labels, NewOrder, Call.mat, NewColumns)
         /\ OldPlace(Call, NewColumns) = KeyPlace
         /\ labels' = NewColumns /\ indw' = RG!Distributed
         /\ indl' = JoinedTable(RG!Distributed, found[resLine], KeyPlace, NewOrder)
         /\ nres' = RG!TotalRows(indl')
         /\ resLine' = resLine + 1 /\ found' = found /\ primary' = primary /\ applied' = Append(applied, resLine)
<1>1. /\ resLine \in 1 .. Len(script.results) /\ ParseShape /\ ResultWellFormed(script, resLine)
      /\ LabelsAfter(script)[resLine] = NextLabels(script, resLine, Had)
  BY GeneratingRight
<1>2. RG!HasKey /\ Call.op = "join"
  BY DEF RG!Join, Call
<1>3. /\ resLine > 1 /\ Lists(labels, Had) /\ Call.mat[2] \in Had
      /\ KeyPlace \in 1 .. Len(labels) /\ labels[KeyPlace] = Call.mat[2]
  BY <1>2, DistributedRight DEF KeyPlace
<1>4. Call.mat[1] \notin Had
  BY <1>1, <1>2, <1>3 DEF ResultWellFormed, Call, Had
<1>5. LabelsAfter(script)[resLine] = Had \cup {Call.mat[1]}
  BY <1>1, <1>2, <1>3 DEF NextLabels, Call
<1>6. PlaceFor(labels, Call.mat[1]) \in 1 .. Len(labels) + 1
  BY <1>3, PlaceForRight DEF Lists
<1>7. /\ Lists(NewColumns, Had \cup {Call.mat[1]})
      /\ Len(NewColumns) = Len(labels) + 1 /\ Len(NewOrder) = Len(labels) + 1
      /\ OrderRight(labels, NewOrder, Call.mat, NewColumns)
      /\ KeysMoved(labels, Call.mat, NewColumns)
  <2> DEFINE pos == PlaceFor(labels, Call.mat[1])
             mat == Call.mat
  <2>1. pos \in 1 .. Len(labels) + 1 /\ mat[1] \notin Had /\ Lists(labels, Had)
    BY <1>3, <1>4, <1>6
  <2> HIDE DEF pos, mat
  <2>2. /\ Lists(RG!InsertAt(labels, pos, mat[1]), Had \cup {mat[1]})
        /\ Len(RG!InsertAt(labels, pos, mat[1])) = Len(labels) + 1
        /\ Len(RG!InsertAt(OldColumns(labels), pos, <<1, 0>>)) = Len(labels) + 1
        /\ OrderRight(labels, RG!InsertAt(OldColumns(labels), pos, <<1, 0>>), mat, RG!InsertAt(labels, pos, mat[1]))
        /\ KeysMoved(labels, mat, RG!InsertAt(labels, pos, mat[1]))
    BY <2>1, InsertOrder
  <2> QED BY <2>2 DEF pos, mat, NewColumns, NewOrder
<1>8. OldPlace(Call, NewColumns) = KeyPlace
  BY <1>2, <1>3, <1>7 DEF KeysMoved
<1>9. RG!InsertPos = PlaceFor(labels, Call.mat[1]) /\ RG!Kept = OldColumns(labels) /\ RG!Position(RG!Mat[2]) = KeyPlace
  BY DEF RG!InsertPos, PlaceFor, RG!Kept, OldColumns, RG!Position, PlaceOf, RG!Mat, Call, KeyPlace
<1>10. /\ labels' = NewColumns /\ indw' = RG!Distributed
       /\ indl' = JoinedTable(RG!Distributed, found[resLine], KeyPlace, NewOrder)
       /\ nres' = RG!TotalRows(indl')
       /\ resLine' = resLine + 1 /\ found' = found /\ primary' = primary /\ applied' = Append(applied, resLine)
  <2>1. RG!InsertAt(labels, RG!InsertPos, RG!Mat[1]) = NewColumns /\ RG!InsertAt(RG!Kept, RG!InsertPos, <<1, 0>>) = NewOrder
    BY <1>9 DEF NewColumns, NewOrder, RG!Mat, Call
  <2> DEFINE result == [c \in RG!Row |-> RG!LocalJoin(RG!Distributed[c], RG!Gathered(found[resLine], c), RG!Position(RG!Mat[2]), RG!InsertAt(RG!Kept, RG!InsertPos, <<1, 0>>))]
  <2>2. /\ labels' = RG!InsertAt(labels, RG!InsertPos, RG!Mat[1]) /\ indw' = RG!Distributed
        /\ indl' = result /\ nres' = RG!TotalRows(result)
        /\ resLine' = resLine + 1 /\ found' = found /\ primary' = primary /\ applied' = Append(applied, resLine)
    BY DEF RG!Join, RG!Advance
  <2>3. result = JoinedTable(RG!Distributed, found[resLine], KeyPlace, NewOrder)
    BY <1>9, <2>1 DEF JoinedTable
  <2> HIDE DEF result
  <2> QED BY <2>1, <2>2, <2>3
<1> QED BY <1>2, <1>4, <1>5, <1>7, <1>8, <1>10

\* A filter.
RenamePlace == PlaceOf(labels, Call.rename)

\* A filter line finds the table aligned with its key, and its two columns.
LEMMA FilterLine ==
  ASSUME IInv, Shape, Generating, RG!Filter
  PROVE  /\ Call.op = "filter" /\ FilterWellFormed(script, resLine) /\ RG!HasKey
         /\ LabelsAfter(script)[resLine] = Had
         /\ RenamePlace \in 1 .. Len(labels) /\ labels[RenamePlace] = Call.rename
         /\ IsOrder(OldColumns(labels), Len(labels)) /\ Len(OldColumns(labels)) = Len(labels)
         /\ \A i \in 1 .. Len(labels) : OldColumns(labels)[i] = <<0, i - 1>>
         /\ labels' = labels /\ indw' = RG!Distributed
         /\ indl' = FilteredTable(RG!Distributed, found[resLine], KeyPlace, RenamePlace, OldColumns(labels))
         /\ nres' = RG!TotalRows(indl')
         /\ resLine' = resLine + 1 /\ found' = found /\ primary' = primary /\ applied' = Append(applied, resLine)
<1>1. /\ resLine \in 1 .. Len(script.results) /\ ParseShape /\ ResultWellFormed(script, resLine)
      /\ LabelsAfter(script)[resLine] = NextLabels(script, resLine, Had)
  BY GeneratingRight
<1>2. RG!HasKey /\ Call.op = "filter"
  BY DEF RG!Filter, Call
<1>3. /\ resLine > 1 /\ Lists(labels, Had) /\ Call.mat[2] \in Had
      /\ KeyPlace \in 1 .. Len(labels) /\ labels[KeyPlace] = Call.mat[2]
  BY <1>2, DistributedRight DEF KeyPlace
<1>4. FilterWellFormed(script, resLine)
  BY <1>1, <1>2, <1>3 DEF ResultWellFormed, Call, Had
<1>5. Call.rename \in Had
  BY <1>4 DEF FilterWellFormed, Had, Call
<1>6. RenamePlace \in 1 .. Len(labels) /\ labels[RenamePlace] = Call.rename
  BY <1>3, <1>5, PlaceRight DEF RenamePlace
<1>7. LabelsAfter(script)[resLine] = Had
  BY <1>1, <1>2, <1>3 DEF NextLabels, Call
<1>8. /\ IsOrder(OldColumns(labels), Len(labels)) /\ Len(OldColumns(labels)) = Len(labels)
      /\ \A i \in 1 .. Len(labels) : OldColumns(labels)[i] = <<0, i - 1>>
  <2> DEFINE w == Len(labels)
             o == OldColumns(labels)
  <2>1. w \in Nat /\ DOMAIN labels = 1 .. w
    BY <1>3, PlaceRight
  <2>2. IsSequence(o) /\ Len(o) = w /\ \A i \in 1 .. w : o[i] = <<0, i - 1>>
    BY <2>1 DEF OldColumns, IsSequence
  <2> HIDE DEF o, w
  <2>3. ASSUME NEW i \in 1 .. w PROVE o[i] \in {0} \X (0 .. w - 1)
    <3>1. i - 1 \in 0 .. w - 1
      BY <2>1
    <3>2. o[i] = <<0, i - 1>> /\ <<0, i - 1>> \in {0} \X (0 .. w - 1)
      BY <2>2, <3>1
    <3> QED BY <3>2
  <2>4. IsOrder(o, w)
    BY <2>2, <2>3 DEF IsOrder
  <2> QED BY <2>2, <2>4 DEF o, w
<1>9. RG!Kept = OldColumns(labels) /\ RG!Position(RG!Mat[2]) = KeyPlace /\ RG!Position(script.results[resLine].rename) = RenamePlace
  BY DEF RG!Kept, OldColumns, RG!Position, PlaceOf, RG!Mat, Call, KeyPlace, RenamePlace
<1>10. /\ labels' = labels /\ indw' = RG!Distributed
       /\ indl' = FilteredTable(RG!Distributed, found[resLine], KeyPlace, RenamePlace, OldColumns(labels))
       /\ nres' = RG!TotalRows(indl')
       /\ resLine' = resLine + 1 /\ found' = found /\ primary' = primary /\ applied' = Append(applied, resLine)
  <2> DEFINE result == [c \in RG!Row |-> RG!LocalFilter(RG!Distributed[c], RG!Gathered(found[resLine], c), RG!Position(RG!Mat[2]),
                                                        RG!Position(script.results[resLine].rename), RG!Kept)]
  <2>2. /\ labels' = labels /\ indw' = RG!Distributed
        /\ indl' = result /\ nres' = RG!TotalRows(result)
        /\ resLine' = resLine + 1 /\ found' = found /\ primary' = primary /\ applied' = Append(applied, resLine)
    BY DEF RG!Filter, RG!Advance
  <2>3. result = FilteredTable(RG!Distributed, found[resLine], KeyPlace, RenamePlace, OldColumns(labels))
    BY <1>9 DEF FilteredTable
  <2> HIDE DEF result
  <2> QED BY <2>2, <2>3
<1> QED BY <1>2, <1>4, <1>6, <1>7, <1>8, <1>10

\* What a line with a key does with its key, in the next state.
LEMMA KeyAfter ==
  ASSUME IInv, Shape, Generating, script' = script, applied' = Append(applied, resLine)
  PROVE  (RG!OldPosition(RG!LineOfKey))' = OldPlace(Call, labels')
<1>1. IsSequence(applied)
  BY GeneratingRight
<1>2. applied'[Len(applied')] = resLine
  BY <1>1, Appended
<1>3. (RG!OldPosition(RG!LineOfKey))' = OldPlace(script'.results[applied'[Len(applied')]], labels')
  BY DEF RG!OldPosition, RG!LineOfKey, RG!LastApplied, RG!Position, OldPlace, PlaceOf
<1> QED BY <1>2, <1>3 DEF Call

\* The steps keep the shape.
LEMMA JoinKeeps ==
  ASSUME IInv, Shape, Generating, UNCHANGED execution, phase' = phase, RG!Join
  PROVE  Shape'
<1> DEFINE w == Len(labels)
<1>1. /\ Call.op = "join" /\ LabelsAfter(script)[resLine] = Had \cup {Call.mat[1]}
      /\ Lists(NewColumns, Had \cup {Call.mat[1]})
      /\ Len(NewColumns) = w + 1 /\ Len(NewOrder) = w + 1
      /\ OrderRight(labels, NewOrder, Call.mat, NewColumns) /\ OldPlace(Call, NewColumns) = KeyPlace
      /\ labels' = NewColumns /\ indw' = RG!Distributed
      /\ indl' = JoinedTable(RG!Distributed, found[resLine], KeyPlace, NewOrder)
      /\ resLine' = resLine + 1 /\ found' = found /\ primary' = primary /\ applied' = Append(applied, resLine)
  BY JoinLine
<1>2. RG!HasKey /\ script' = script
  BY DEF RG!Join, execution
<1>3. /\ resLine > 1 /\ w \in Nat \ {0, 1} /\ KeyPlace \in 1 .. w
      /\ IsTable(RG!Distributed, w) /\ AlignedOn(RG!Distributed, KeyPlace)
  BY <1>2, DistributedRight DEF KeyPlace
<1>4. /\ found[resLine] \in SUBSET Pair /\ ParseShape /\ resLine \in 1 .. Len(script.results)
  BY GeneratingRight
<1>5. IsTable(indl', w + 1)
  <2>1. IsOrder(NewOrder, w)
    BY <1>1 DEF OrderRight
  <2> HIDE DEF w
  <2>2. IsTable(JoinedTable(RG!Distributed, found[resLine], KeyPlace, NewOrder), Len(NewOrder))
    BY <1>3, <1>4, <2>1, JoinRight
  <2> QED BY <1>1, <2>2
<1>6. Merging(indw', (RG!OldPosition(RG!LineOfKey))')
  <2>1. (RG!OldPosition(RG!LineOfKey))' = KeyPlace
    BY <1>1, <1>2, KeyAfter
  <2> QED BY <1>1, <1>3, <2>1 DEF Merging, IsTable
<1>7. labels # <<>>
  BY <1>2 DEF RG!HasKey
<1>8. ParseShape'
  <2>1. Len(labels') = w + 1 /\ w + 1 # 2 /\ w + 1 > 1 /\ labels' # <<>>
    <3> HIDE DEF w
    <3>1. Len(labels') = w + 1 /\ w + 1 # 2 /\ w + 1 > 1
      BY <1>1, <1>3
    <3> QED BY <3>1
  <2>2. resLine' > 1 /\ resLine' - 1 = resLine
    BY <1>1, <1>3, <1>4
  <2>3. Lists(labels', LabelsAfter(script')[resLine' - 1])
    BY <1>1, <1>2, <2>2
  <2>4. primary' = script'.results[1].mat[2]
    BY <1>1, <1>2, <1>4, <1>7 DEF ParseShape
  <2> HIDE DEF w
  <2> QED BY <1>5, <1>6, <2>1, <2>2, <2>3, <2>4 DEF ParseShape
<1> QED BY <1>1, <1>8, ShapeAfter

\* A filter line keeps the shape.
LEMMA FilterKeeps ==
  ASSUME IInv, Shape, Generating, UNCHANGED execution, phase' = phase, RG!Filter
  PROVE  Shape'
<1> DEFINE w == Len(labels)
<1>1. /\ Call.op = "filter" /\ RG!HasKey /\ LabelsAfter(script)[resLine] = Had
      /\ IsOrder(OldColumns(labels), w) /\ Len(OldColumns(labels)) = w
      /\ \A i \in 1 .. w : OldColumns(labels)[i] = <<0, i - 1>>
      /\ labels' = labels /\ indw' = RG!Distributed
      /\ indl' = FilteredTable(RG!Distributed, found[resLine], KeyPlace, RenamePlace, OldColumns(labels))
      /\ resLine' = resLine + 1 /\ found' = found /\ primary' = primary /\ applied' = Append(applied, resLine)
  BY FilterLine
<1>2. script' = script
  BY DEF execution
<1>3. /\ resLine > 1 /\ w \in Nat \ {0, 1} /\ KeyPlace \in 1 .. w /\ Lists(labels, Had)
      /\ labels[KeyPlace] = Call.mat[2] /\ (w = 2 => KeyPlace = 2)
      /\ IsTable(RG!Distributed, w) /\ AlignedOn(RG!Distributed, KeyPlace)
  BY <1>1, DistributedRight DEF KeyPlace
<1>4. /\ found[resLine] \in SUBSET Pair /\ ParseShape /\ resLine \in 1 .. Len(script.results)
  BY GeneratingRight
<1> HIDE DEF w
<1>5. /\ IsTable(indl', w)
      /\ \A q \in 1 .. w : OldColumns(labels)[q] \in {<<0, KeyPlace - 1>>, <<1, 1>>} => AlignedOn(indl', q)
  BY <1>1, <1>3, <1>4, FilterRight
<1>6. w = 2 => AlignedOn(indl', 2)
  <2> SUFFICES ASSUME w = 2 PROVE AlignedOn(indl', 2)
    OBVIOUS
  <2>1. KeyPlace = 2 /\ OldColumns(labels)[2] = <<0, KeyPlace - 1>>
    BY <1>1, <1>3
  <2> QED BY <1>3, <1>5, <2>1
<1>7. Merging(indw', (RG!OldPosition(RG!LineOfKey))')
  <2>1. (RG!OldPosition(RG!LineOfKey))' = OldPlace(Call, labels')
    BY <1>1, <1>2, KeyAfter
  <2>2. OldPlace(Call, labels') = KeyPlace
    BY <1>1 DEF OldPlace, KeyPlace
  <2> QED BY <1>1, <1>3, <2>1, <2>2 DEF Merging, IsTable
<1>8. labels # <<>>
  BY <1>1 DEF RG!HasKey
<1>9. ParseShape'
  <2>1. resLine' > 1 /\ resLine' - 1 = resLine
    BY <1>1, <1>3, <1>4
  <2>2. Lists(labels', LabelsAfter(script')[resLine' - 1])
    BY <1>1, <1>2, <1>3, <2>1
  <2>3. /\ primary' = script'.results[1].mat[2] /\ Len(labels') = w
        /\ w = 2 => labels' = <<script'.results[1].mat[2], script'.results[1].mat[1]>>
    BY <1>1, <1>2, <1>4, <1>8 DEF ParseShape, w
  <2>4. w > 1
    BY <1>3
  <2> QED BY <1>1, <1>5, <1>6, <1>7, <1>8, <2>1, <2>2, <2>3, <2>4 DEF ParseShape
<1> QED BY <1>1, <1>9, ShapeAfter

-----------------------------------------------------------------------------
(* The nonzeros of a matrix. *)

\* A matrix has something at the places of its nonzeros, and nowhere else.
LEMMA NonzeroHas ==
  ASSUME NEW M, NEW x, NEW y
  PROVE  <<x, y>> \in Nonzeros(M) <=> \E val : Has(M, x, y, val)
<1>1. Nonzeros(M) = UNION {{<<RowOf(r, e), ColOf(r, e)>> : e \in M[r]} : r \in Procs}
  BY DEF Nonzeros, RowOf, ColOf
<1>2. ASSUME <<x, y>> \in Nonzeros(M) PROVE \E val : Has(M, x, y, val)
  <2>1. PICK r \in Procs : <<x, y>> \in {<<RowOf(r, e), ColOf(r, e)>> : e \in M[r]}
    BY <1>1, <1>2
  <2>2. PICK e \in M[r] : <<x, y>> = <<RowOf(r, e), ColOf(r, e)>>
    BY <2>1
  <2>3. Has(M, x, y, e.val)
    BY <2>2 DEF Has
  <2> QED BY <2>3
<1>3. ASSUME NEW val, Has(M, x, y, val) PROVE <<x, y>> \in Nonzeros(M)
  <2>1. PICK r \in Procs : \E e \in M[r] : RowOf(r, e) = x /\ ColOf(r, e) = y
    BY <1>3 DEF Has
  <2> QED BY <1>1, <2>1
<1> QED BY <1>2, <1>3

\* A transposed matrix has nothing else than the transposed nonzeros (Transpose).
LEMMA TransposeHas ==
  ASSUME NEW M, InBlocks(M), NEW x, NEW y, NEW val, Has(Transpose(M), y, x, val)
  PROVE  Has(M, x, y, val)
<1> DEFINE turned(e) == [row |-> e.col, col |-> e.row, val |-> e.val]
<1>1. PICK r \in Procs : \E e \in Transpose(M)[r] : RowOf(r, e) = y /\ ColOf(r, e) = x /\ e.val = val
  BY DEF Has
<1>2. PICK e \in Transpose(M)[r] : RowOf(r, e) = y /\ ColOf(r, e) = x /\ e.val = val
  BY <1>1
<1> DEFINE q == GetComplementRank(r)
<1>3. Transpose(M)[r] = {turned(d) : d \in M[q]}
  BY DEF Transpose
<1>4. PICK d \in M[q] : e = turned(d)
  BY <1>3
<1> DEFINE i == RankInProcCol(r)
           j == RankInProcRow(r)
<1>5. i \in 0 .. ProcRows - 1 /\ j \in 0 .. ProcCols - 1 /\ ProcRows = ProcCols
  BY RankPlace, Sizes
<1>6. q = GetRank(j, i)
  <2>1. q = ProcCols * j + i
    BY DEF GetComplementRank
  <2>2. GetRank(j, i) = j * ProcCols + i
    BY DEF GetRank
  <2> HIDE DEF i, j, q
  <2> QED BY <1>5, <2>1, <2>2, Sizes
<1>7. RankInProcCol(GetRank(j, i)) = j /\ RankInProcRow(GetRank(j, i)) = i
  <2> HIDE DEF i, j
  <2> QED BY <1>5, RankRight
<1>8. q \in Procs
  BY Sizes, ComplementInvolution
<1>9. RankInProcCol(q) = RankInProcRow(r) /\ RankInProcRow(q) = RankInProcCol(r)
  BY <1>6, <1>7
<1> HIDE DEF i, j, q
<1>10. e.row = d.col /\ e.col = d.row /\ e.val = d.val
  BY <1>4
<1>11. RowOf(q, d) = ColOf(r, e) /\ ColOf(q, d) = RowOf(r, e)
  BY <1>5, <1>9, <1>10, Sizes DEF RowOf, ColOf, RowOffset, ColOffset
<1> QED BY <1>2, <1>8, <1>10, <1>11 DEF Has

\* Its nonzeros are the transposed ones.
LEMMA TransposedNonzeros ==
  ASSUME NEW M, InBlocks(M)
  PROVE  Nonzeros(Transpose(M)) = RG!Transpose(Nonzeros(M))
<1> DEFINE T == Transpose(M)
<1>1. InBlocks(T) /\ \A x, y, val : Has(M, x, y, val) => Has(T, y, x, val)
  BY TransposeRight
<1>2. \A x, y, val : Has(T, y, x, val) => Has(M, x, y, val)
  BY TransposeHas
<1>3. Nonzeros(T) \in SUBSET Pair /\ Nonzeros(M) \in SUBSET Pair
  BY <1>1, NonzerosType
<1> HIDE DEF T
<1>4. \A x, y : <<y, x>> \in Nonzeros(T) <=> <<x, y>> \in Nonzeros(M)
  BY <1>1, <1>2, NonzeroHas
<1>5. ASSUME NEW e \in Nonzeros(T) PROVE e \in RG!Transpose(Nonzeros(M))
  <2>1. e = <<e[1], e[2]>>
    BY <1>3 DEF Pair
  <2> DEFINE d == <<e[2], e[1]>>
  <2>2. d \in Nonzeros(M) /\ e = <<d[2], d[1]>>
    BY <1>4, <2>1
  <2> QED BY <2>2 DEF RG!Transpose
<1>6. ASSUME NEW e \in RG!Transpose(Nonzeros(M)) PROVE e \in Nonzeros(T)
  <2>1. PICK d \in Nonzeros(M) : e = <<d[2], d[1]>>
    BY DEF RG!Transpose
  <2>2. d = <<d[1], d[2]>>
    BY <1>3 DEF Pair
  <2> QED BY <1>4, <2>1, <2>2
<1> QED BY <1>5, <1>6 DEF T

-----------------------------------------------------------------------------
(* The steps of the result generation, of a query in the code. *)

Calling(k) == k \in DOMAIN LubmQueries /\ script = LubmQueries[k] /\ phase = "result_generation" /\ resLine <= Len(script.results)

\* What is known when a call comes.
LEMMA CallingRight ==
  ASSUME IInv, Shape, NEW k, Calling(k)
  PROVE  /\ WellFormed(script) /\ Len(script.results) \in Nat /\ resLine \in 1 .. Len(script.results)
         /\ CodeShape(k) /\ CallsRight(Lost(k), script.results, LubmColumns[k])
         /\ ResultWellFormed(script, resLine)
         /\ InBlocks(matrices[Call.mat]) /\ found[resLine] = Nonzeros(matrices[Call.mat]) /\ found[resLine] \in SUBSET Pair
         /\ \A i \in 1 .. Len(script.results) : script.results[i].mat \in DOMAIN matrices
         /\ \A i \in resLine + 1 .. Len(script.results) : script.results[i].mat # Call.mat
         /\ DOMAIN found = 1 .. Len(script.results) /\ \A i \in 1 .. Len(script.results) : found[i] \in SUBSET Pair
         /\ IsSequence(applied)
<1>1. WellFormed(script) /\ Len(script.results) \in Nat /\ Len(script.lines) \in Nat
  BY QueryRight
<1>2. /\ resLine \in 1 .. Len(script.results) + 1 /\ CodeShape(k)
      /\ DOMAIN found = 1 .. Len(script.results) /\ \A i \in 1 .. Len(script.results) : found[i] \in SUBSET Pair
      /\ IsSequence(applied)
  BY DEF Shape, InGeneration, Calling
<1>3. resLine \in 1 .. Len(script.results)
  BY <1>1, <1>2 DEF Calling
<1>4. CallsRight(Lost(k), script.results, LubmColumns[k])
  BY CallsAreRight DEF Calling
<1>5. \A i \in 1 .. Len(script.results) : ResultWellFormed(script, i)
  BY <1>1 DEF WellFormed
<1>6. ASSUME NEW i \in 1 .. Len(script.results) PROVE script.results[i].mat \in DOMAIN matrices
  <2>1. script.results[i].mat \in Earlier(script, Len(script.lines) + 1)
    BY <1>5 DEF ResultWellFormed
  <2>2. PICK j \in 1 .. (Len(script.lines) + 1) - 1 : script.lines[j].mat = script.results[i].mat
    BY <2>1 DEF Earlier
  <2>3. j \in DOMAIN script.lines
    BY <1>1 DEF WellFormed
  <2> QED BY <2>2, <2>3 DEF IInv, MatricesInBlocks, Names
<1>7. matrices[Call.mat] # NoMatrix /\ found[resLine] = Nonzeros(matrices[Call.mat])
  BY <1>2, <1>3 DEF CodeShape, Calling, Call
<1>8. InBlocks(matrices[Call.mat])
  BY <1>3, <1>6, <1>7 DEF IInv, MatricesInBlocks, Call
<1>9. ASSUME NEW i \in resLine + 1 .. Len(script.results) PROVE script.results[i].mat # Call.mat
  <2>1. i \in 1 .. Len(script.results) /\ resLine \in 1 .. i - 1
    BY <1>1, <1>3
  <2> QED BY <1>5, <2>1 DEF ResultWellFormed, Call
<1> QED BY <1>1, <1>2, <1>3, <1>4, <1>5, <1>6, <1>7, <1>8, <1>9

\* What every call leaves of the shape.
LEMMA ShapeAfterCall ==
  ASSUME IInv, Shape, NEW k, Calling(k), NEW t, Take(t),
         labels' = LubmColumns[k][resLine], IsTable(t, Len(labels')),
         \A q \in KeyColumns(Call) : AlignedOn(t, q),
         resLine > 1 => Merging(indw', Call.pivot + 1)
  PROVE  /\ CodeShape(k)' /\ InGeneration' /\ script' = script
         /\ resLine' \in 1 .. Len(script'.results) + 1
         /\ IsSequence(applied') /\ \A i \in 1 .. Len(applied') : applied'[i] \in 1 .. resLine' - 1
         /\ DOMAIN found' = 1 .. Len(script'.results) /\ \A i \in 1 .. Len(script'.results) : found'[i] \in SUBSET Pair
<1>1. /\ Len(script.results) \in Nat /\ resLine \in 1 .. Len(script.results) /\ CodeShape(k)
      /\ \A i \in 1 .. Len(script.results) : script.results[i].mat \in DOMAIN matrices
      /\ \A i \in resLine + 1 .. Len(script.results) : script.results[i].mat # Call.mat
      /\ DOMAIN found = 1 .. Len(script.results) /\ \A i \in 1 .. Len(script.results) : found[i] \in SUBSET Pair
      /\ IsSequence(applied)
  BY CallingRight
<1>2. /\ indl' = t /\ matrices' = [matrices EXCEPT ![Call.mat] = NoMatrix] /\ applied' = Append(applied, resLine)
      /\ resLine' = resLine + 1 /\ phase' = phase /\ found' = found /\ script' = script
      /\ phase = "result_generation"
  BY DEF Take, ResLine, Call, execution
<1>3. applied' = [i \in 1 .. resLine' - 1 |-> i]
  <2>1. applied = [i \in 1 .. resLine - 1 |-> i] /\ resLine \in Nat \ {0}
    BY <1>1 DEF CodeShape
  <2>2. applied \in Seq(Nat) /\ Len(applied) = resLine - 1
    <3>1. resLine - 1 \in Nat
      BY <2>1
    <3>2. [i \in 1 .. resLine - 1 |-> i] \in [1 .. resLine - 1 -> Nat]
      OBVIOUS
    <3> DEFINE n == resLine - 1
    <3>3. n \in Nat /\ applied \in [1 .. n -> Nat]
      BY <2>1, <3>1, <3>2
    <3> HIDE DEF n
    <3>4. applied \in Seq(Nat) /\ Len(applied) = n
      BY <3>3
    <3> QED BY <3>4 DEF n
  <2> DEFINE s == Append(applied, resLine)
  <2>3. Len(s) = resLine /\ s = [i \in 1 .. resLine |-> s[i]]
    BY <2>1, <2>2
  <2>4. ASSUME NEW i \in 1 .. resLine PROVE s[i] = i
    <3>1. CASE i = resLine
      BY <2>1, <2>2, <3>1
    <3>2. CASE i # resLine
      <4>1. i \in 1 .. resLine - 1
        BY <2>1, <3>2
      <4>2. s[i] = applied[i]
        BY <2>2, <4>1
      <4> QED BY <2>1, <4>1, <4>2
    <3> QED BY <3>1, <3>2
  <2>5. resLine' - 1 = resLine
    BY <1>2, <2>1
  <2> HIDE DEF s
  <2>6. s = [i \in 1 .. resLine |-> i]
    BY <2>3, <2>4
  <2> QED BY <1>2, <2>5, <2>6 DEF s
<1>4. resLine' - 1 = resLine /\ resLine' \in 1 .. Len(script.results) + 1
  BY <1>1, <1>2
<1>5. IsSequence(applied') /\ \A i \in 1 .. Len(applied') : applied'[i] \in 1 .. resLine' - 1
  <2>1. IsSequence(applied') /\ Len(applied') = Len(applied) + 1
    BY <1>1, <1>2, Appended
  <2>2. applied' = [i \in 1 .. resLine |-> i]
    BY <1>3, <1>4
  <2>3. DOMAIN applied' = 1 .. Len(applied') /\ DOMAIN applied' = 1 .. resLine
    BY <2>1, <2>2 DEF IsSequence
  <2> QED BY <1>4, <2>1, <2>2, <2>3
<1>6. ASSUME NEW i \in resLine' .. Len(script.results)
      PROVE  matrices'[script.results[i].mat] # NoMatrix /\ found'[i] = Nonzeros(matrices'[script.results[i].mat])
  <2>1. i \in resLine .. Len(script.results) /\ i \in resLine + 1 .. Len(script.results) /\ i \in 1 .. Len(script.results)
    BY <1>1, <1>2
  <2>2. matrices'[script.results[i].mat] = matrices[script.results[i].mat]
    BY <1>1, <1>2, <2>1
  <2>3. matrices[script.results[i].mat] # NoMatrix /\ found[i] = Nonzeros(matrices[script.results[i].mat])
    BY <1>1, <1>2, <2>1 DEF CodeShape
  <2> QED BY <1>2, <2>2, <2>3
<1>7. CodeShape(k)'
  <2>1. resLine' > 1 => labels' = LubmColumns[k][resLine' - 1] /\ IsTable(indl', Len(labels'))
    BY <1>2, <1>4
  <2>2. \A q \in KeyColumns(script'.results[resLine' - 1]) : AlignedOn(indl', q)
    BY <1>2, <1>4 DEF Call
  <2>3. resLine' > 2 => Merging(indw', script'.results[resLine' - 1].pivot + 1)
    BY <1>1, <1>2, <1>4 DEF Call
  <2> QED BY <1>2, <1>3, <1>6, <2>1, <2>2, <2>3 DEF CodeShape
<1>8. InGeneration'
  BY <1>2 DEF InGeneration
<1> QED BY <1>1, <1>2, <1>4, <1>5, <1>7, <1>8

\* The first call.
LEMMA FirstCall ==
  ASSUME IInv, Shape, NEW k, Calling(k), TakeTransposed
  PROVE  /\ resLine = 1 /\ found[1] \in SUBSET Pair /\ Take(FirstTable(found[1]))
         /\ labels' = <<Call.mat[2], Call.mat[1]>> /\ labels' = LubmColumns[k][1] /\ KeyColumns(Call) = {2}
         /\ nres' = nres
<1>1. /\ Len(script.results) \in Nat /\ resLine \in 1 .. Len(script.results)
      /\ CallsRight(Lost(k), script.results, LubmColumns[k])
      /\ InBlocks(matrices[Call.mat]) /\ found[resLine] = Nonzeros(matrices[Call.mat]) /\ found[resLine] \in SUBSET Pair
  BY CallingRight
<1>2. Call.op = "transposed" /\ labels' = <<Call.mat[2], Call.mat[1]>> /\ nres' = nres
  BY DEF TakeTransposed, ResLine, Call
<1>3. resLine = 1
  <2> SUFFICES ASSUME resLine # 1 PROVE FALSE
    OBVIOUS
  <2>1. resLine \in 2 .. Len(script.results)
    BY <1>1, SMTT(30)
  <2>2. Call.op \in {"join", "filter"}
    BY <1>1, <2>1 DEF CallsRight, CallRight, Call
  <2> QED BY <1>2, <2>2
<1>4. LubmColumns[k][1] = <<Call.mat[2], Call.mat[1]>>
  BY <1>1, <1>3 DEF CallsRight, Call
<1>5. Take(FirstTable(found[1]))
  <2>1. Nonzeros(Transpose(matrices[Call.mat])) = RG!Transpose(found[1])
    BY <1>1, <1>3, TransposedNonzeros
  <2>2. FirstTable(found[1]) = [c \in RG!Row |-> GatheredOf(Transpose(matrices[Call.mat]), c)]
    BY <2>1 DEF FirstTable, GatheredOf
  <2>3. Take([c \in RG!Row |-> GatheredOf(Transpose(matrices[ResLine.mat]), c)])
    BY DEF TakeTransposed
  <2> QED BY <2>2, <2>3 DEF ResLine, Call
<1>6. KeyColumns(Call) = {2}
  BY <1>2 DEF KeyColumns
<1> QED BY <1>1, <1>2, <1>3, <1>4, <1>5, <1>6

\* Any other call finds the table aligned with its key.
Key == Call.pivot + 1

\* Such a call finds the table aligned with its key.
LEMMA LaterCall ==
  ASSUME IInv, Shape, NEW k, Calling(k), Combine
  PROVE  LET old == LubmColumns[k][resLine - 1]
             new == LubmColumns[k][resLine]
             t == IF Call.op = "join" THEN JoinedTable(Spread, found[resLine], Key, Call.order)
                  ELSE FilteredTable(Spread, found[resLine], Key, Call.pivot12 + 1, Call.order)
         IN /\ resLine > 1 /\ CallRight(Lost(k), script.results[resLine - 1], Call, old, new)
            /\ labels = old /\ labels' = new /\ Take(t) /\ indw' = Spread
            /\ Len(old) \in Nat /\ Len(new) = Len(Call.order) /\ IsTable(indl, Len(old))
            /\ Key \in 1 .. Len(old) /\ Key - 1 = Call.pivot /\ IsOrder(Call.order, Len(old))
            /\ IsTable(Spread, Len(old)) /\ AlignedOn(Spread, Key)
            /\ \A R : Holds(indl, R) => Holds(Spread, R)
            /\ nres' = IF Call.report THEN RG!TotalRows(t) ELSE nres
<1> DEFINE old == LubmColumns[k][resLine - 1]
           new == LubmColumns[k][resLine]
<1>1. /\ Len(script.results) \in Nat /\ resLine \in 1 .. Len(script.results) /\ CodeShape(k)
      /\ CallsRight(Lost(k), script.results, LubmColumns[k])
      /\ found[resLine] = Nonzeros(matrices[Call.mat]) /\ found[resLine] \in SUBSET Pair
  BY CallingRight
<1>2. Call.op \in {"join", "filter"} /\ indw' = Spread /\ labels' = RG!PutTuple(Call.order, labels, Call.mat)
  BY DEF Combine, ResLine, Call
<1>3. resLine \in 2 .. Len(script.results) /\ resLine > 1
  <2>1. script.results[1].op = "transposed"
    BY <1>1 DEF CallsRight
  <2>2. resLine # 1
    BY <1>2, <2>1 DEF Call
  <2> QED BY <1>1, <2>2
<1>4. CallRight(Lost(k), script.results[resLine - 1], Call, old, new)
  BY <1>1, <1>3 DEF CallsRight, Call
<1>5. IsSequence(old) /\ IsSequence(new)
  <2>1. resLine - 1 \in 1 .. Len(script.results) /\ Len(LubmColumns[k]) = Len(script.results)
    BY <1>1, <1>3 DEF CallsRight
  <2> QED BY <1>1, <2>1 DEF CallsRight
<1>6. labels = old /\ IsTable(indl, Len(labels)) /\ \A q \in KeyColumns(script.results[resLine - 1]) : AlignedOn(indl, q)
  BY <1>1, <1>3 DEF CodeShape
<1>7. /\ Call.pivot \in Nat /\ Key \in 1 .. Len(old) /\ OrderRight(old, Call.order, Call.mat, new)
      /\ IF Call.by = -1 THEN Key \in KeyColumns(script.results[resLine - 1]) ELSE Call.by = Call.pivot
  BY <1>4 DEF CallRight, Key
<1> HIDE DEF old, new
<1>8. Key - 1 = Call.pivot /\ Len(old) \in Nat
  BY <1>5, <1>7 DEF Key, IsSequence
<1>9. IsTable(Spread, Len(old)) /\ AlignedOn(Spread, Key) /\ \A R : Holds(indl, R) => Holds(Spread, R)
  <2>1. CASE Call.by = -1
    <3>1. Spread = indl
      BY <2>1 DEF Spread, ResLine, Call
    <3> QED BY <1>6, <1>7, <2>1, <3>1
  <2>2. CASE Call.by # -1
    <3>1. Spread = RG!Redistributed(indl, Key)
      BY <1>7, <2>2 DEF Spread, ResLine, Call, Key
    <3>2. /\ IsTable(RG!Redistributed(indl, Key), Len(old)) /\ AlignedOn(RG!Redistributed(indl, Key), Key)
          /\ \A R : Holds(indl, R) => Holds(RG!Redistributed(indl, Key), R)
      BY <1>6, <1>7, <1>8, RedistributedRight
    <3> QED BY <3>1, <3>2
  <2> QED BY <2>1, <2>2
<1>10. labels' = new
  <2>1. RG!PutTuple(Call.order, old, Call.mat) = new
    <3>1. DOMAIN Call.order = 1 .. Len(new) /\ Len(new) = Len(Call.order)
      BY <1>7 DEF OrderRight, IsOrder, IsSequence
    <3> DEFINE z(i) == IF Call.order[i][1] = 0 THEN old[Call.order[i][2] + 1] ELSE Call.mat[Call.order[i][2] + 1]
    <3>2. \A i \in 1 .. Len(new) : z(i) = new[i]
      BY <1>7 DEF OrderRight
    <3>3. RG!PutTuple(Call.order, old, Call.mat) = [i \in 1 .. Len(new) |-> z(i)]
      BY <3>1 DEF RG!PutTuple
    <3> HIDE DEF z
    <3>4. RG!PutTuple(Call.order, old, Call.mat) = [i \in 1 .. Len(new) |-> new[i]]
      BY <3>2, <3>3
    <3> QED BY <1>5, <3>4 DEF IsSequence
  <2> QED BY <1>2, <1>6, <2>1
<1> DEFINE t == IF Call.op = "join" THEN JoinedTable(Spread, found[resLine], Key, Call.order)
                ELSE FilteredTable(Spread, found[resLine], Key, Call.pivot12 + 1, Call.order)
<1>11. [c \in RG!Row |-> Combined(c)] = t
  <2>1. CASE Call.op = "join"
    <3>1. \A c \in RG!Row : Combined(c) = RG!LocalJoin(Spread[c], RG!Gathered(found[resLine], c), Key, Call.order)
      BY <1>1, <2>1 DEF Combined, GatheredOf, ResLine, Call, Key
    <3> QED BY <2>1, <3>1 DEF JoinedTable
  <2>2. CASE Call.op # "join"
    <3>1. \A c \in RG!Row : Combined(c) = RG!LocalFilter(Spread[c], RG!Gathered(found[resLine], c), Key, Call.pivot12 + 1, Call.order)
      BY <1>1, <2>2 DEF Combined, GatheredOf, ResLine, Call, Key
    <3> QED BY <2>2, <3>1 DEF FilteredTable
  <2> QED BY <2>1, <2>2
<1> HIDE DEF t
<1>12. Take(t) /\ nres' = IF Call.report THEN RG!TotalRows(t) ELSE nres
  <2>1. Take(t) /\ nres' = IF ResLine.report THEN RG!TotalRows(indl') ELSE nres
    BY <1>11 DEF Combine
  <2>2. indl' = t
    BY <2>1 DEF Take
  <2> QED BY <2>1, <2>2 DEF ResLine, Call
<1>13. Len(new) = Len(Call.order) /\ IsOrder(Call.order, Len(old))
  BY <1>7 DEF OrderRight
<1> QED BY <1>2, <1>3, <1>4, <1>6, <1>7, <1>8, <1>9, <1>10, <1>12, <1>13 DEF old, new, t

\* The calls keep the shape.
LEMMA CallKeeps ==
  ASSUME IInv, Shape, NEW k, Calling(k), TakeTransposed \/ Combine
  PROVE  Shape'
<1>1. ASSUME NEW j, Calling(j)
      PROVE  /\ CodeShape(j)' /\ InGeneration' /\ script' = script
             /\ resLine' \in 1 .. Len(script'.results) + 1
             /\ IsSequence(applied') /\ \A i \in 1 .. Len(applied') : applied'[i] \in 1 .. resLine' - 1
             /\ DOMAIN found' = 1 .. Len(script'.results) /\ \A i \in 1 .. Len(script'.results) : found'[i] \in SUBSET Pair
  <2>1. CASE TakeTransposed
    <3>1. /\ resLine = 1 /\ found[1] \in SUBSET Pair /\ Take(FirstTable(found[1]))
          /\ labels' = <<Call.mat[2], Call.mat[1]>> /\ labels' = LubmColumns[j][1] /\ KeyColumns(Call) = {2}
      BY <1>1, <2>1, FirstCall
    <3>2. IsTable(FirstTable(found[1]), 2) /\ AlignedOn(FirstTable(found[1]), 2)
      BY <3>1, FirstRight
    <3>3. Len(labels') = 2
      BY <3>1
    <3>4. labels' = LubmColumns[j][resLine] /\ IsTable(FirstTable(found[1]), Len(labels')) /\ ~(resLine > 1)
          /\ \A q \in KeyColumns(Call) : AlignedOn(FirstTable(found[1]), q)
      BY <3>1, <3>2, <3>3
    <3>5. Take(FirstTable(found[1]))
      BY <3>1
    <3> HIDE <2>1
    <3> QED BY <1>1, <3>4, <3>5, ShapeAfterCall
  <2>2. CASE Combine
    <3> DEFINE old == LubmColumns[j][resLine - 1]
               new == LubmColumns[j][resLine]
               t == IF Call.op = "join" THEN JoinedTable(Spread, found[resLine], Key, Call.order)
                    ELSE FilteredTable(Spread, found[resLine], Key, Call.pivot12 + 1, Call.order)
    <3>1. /\ resLine > 1 /\ CallRight(Lost(j), script.results[resLine - 1], Call, old, new)
          /\ labels = old /\ labels' = new /\ Take(t) /\ indw' = Spread
          /\ Len(old) \in Nat /\ Len(new) = Len(Call.order)
          /\ Key \in 1 .. Len(old) /\ Key - 1 = Call.pivot /\ IsOrder(Call.order, Len(old))
          /\ IsTable(Spread, Len(old)) /\ AlignedOn(Spread, Key)
      BY <1>1, <2>2, LaterCall
    <3>2. found[resLine] \in SUBSET Pair
      BY <1>1, CallingRight
    <3>3. IsTable(t, Len(Call.order)) /\ \A q \in 1 .. Len(Call.order) : Call.order[q] \in {<<0, Key - 1>>, <<1, 1>>} => AlignedOn(t, q)
      <4> HIDE DEF old, new
      <4>1. CASE Call.op = "join"
        BY <3>1, <3>2, <4>1, JoinRight
      <4>2. CASE Call.op # "join"
        BY <3>1, <3>2, <4>2, FilterRight
      <4> QED BY <4>1, <4>2
    <3> HIDE DEF t
    <3>4. Call.op # "transposed"
      BY <3>1 DEF CallRight
    <3>5. \A q \in KeyColumns(Call) : AlignedOn(t, q)
      BY <3>1, <3>3, <3>4 DEF KeyColumns
    <3>6. Merging(indw', Key)
      BY <3>1 DEF Merging, IsTable
    <3>7. labels' = LubmColumns[j][resLine] /\ IsTable(t, Len(labels')) /\ Take(t) /\ (resLine > 1 => Merging(indw', Call.pivot + 1))
      BY <3>1, <3>3, <3>6 DEF Key
    <3> HIDE DEF old, new
    <3> QED BY <1>1, <3>5, <3>7, ShapeAfterCall
  <2> QED BY <2>1, <2>2
<1>2. \A j \in DOMAIN LubmQueries : script = LubmQueries[j] => Calling(j)
  BY DEF Calling
<1>3. script'.program # "magiqParse"
  <2>1. script' = script
    BY <1>1
  <2> QED BY <2>1, ProgramOf DEF Calling
<1>4. \A j \in DOMAIN LubmQueries : script' = LubmQueries[j] => CodeShape(j)'
  BY <1>1, <1>2
<1>5. \E j \in DOMAIN LubmQueries : script' = LubmQueries[j]
  BY <1>1 DEF Calling
<1> QED BY <1>1, <1>3, <1>4, <1>5 DEF Shape

\* Before the result generation its state is the one it starts in.
LEMMA ShapeStarts ==
  ASSUME Init \/ LubmInit
  PROVE  Shape
<1>1. phase = "query_execution" /\ NoResults
  BY DEF Init, LubmInit, Start
<1>2. script.program = "magiqParse" \/ \E k \in DOMAIN LubmQueries : script = LubmQueries[k]
  <2>1. 1 \in DOMAIN LubmQueries
    BY DEF LubmQueries
  <2> QED BY <2>1 DEF Init, LubmInit
<1> QED BY <1>1, <1>2 DEF Shape, InGeneration

\* A step to where there are no results, of the same query or to one of the code.
LEMMA IdleKeeps ==
  ASSUME Shape, phase' \in {"query_execution", "empty", "error"}, NoResults',
         script' = script \/ \E k \in DOMAIN LubmQueries : script' = LubmQueries[k]
  PROVE  Shape'
<1>1. ~InGeneration'
  BY DEF InGeneration
<1>2. script'.program = "magiqParse" \/ \E k \in DOMAIN LubmQueries : script' = LubmQueries[k]
  BY DEF Shape
<1> QED BY <1>1, <1>2 DEF Shape

\* While there is a query to execute, there are no results.
LEMMA NoResultsYet ==
  ASSUME Shape, phase = "query_execution", UNCHANGED results
  PROVE  NoResults'
BY DEF Shape, InGeneration, NoResults, results

\* A step that leaves the results as they are.
LEMMA SameShape ==
  ASSUME Shape, UNCHANGED <<script, matrices, results>>,
         phase' = phase \/ (phase = "result_generation" /\ phase' = "done")
  PROVE  Shape'
<1>1. /\ script' = script /\ matrices' = matrices /\ found' = found /\ resLine' = resLine /\ labels' = labels
      /\ primary' = primary /\ indl' = indl /\ nres' = nres /\ applied' = applied /\ indw' = indw
  BY DEF results
<1>2. InGeneration' <=> InGeneration
  BY DEF InGeneration
<1>3. NoResults' <=> NoResults
  BY <1>1 DEF NoResults
<1>4. (RG!OldPosition(RG!LineOfKey))' = RG!OldPosition(RG!LineOfKey)
  BY <1>1 DEF RG!OldPosition, RG!LineOfKey, RG!LastApplied, RG!Position
<1>5. ParseShape => ParseShape'
  BY <1>1, <1>4 DEF ParseShape
<1>6. phase' = "result_generation" => phase = "result_generation"
  OBVIOUS
<1>7. \A k \in DOMAIN LubmQueries : CodeShape(k) => CodeShape(k)'
  BY <1>1, <1>6 DEF CodeShape
<1> QED BY <1>1, <1>2, <1>3, <1>5, <1>7 DEF Shape

\* Every step keeps the shape.
LEMMA ShapeKeeps ==
  ASSUME IInv, Shape, [MagiqNext \/ LubmNext]_vars
  PROVE  Shape'
<1>1. CASE Execute
  BY <1>1, NoResultsYet, IdleKeeps DEF Execute, results
<1>2. CASE Reject
  BY <1>2, NoResultsYet, IdleKeeps DEF Reject, execution
<1>3. CASE BeginResults
  BY <1>3, BeginKeeps
<1>4. CASE script.program = "magiqParse" /\ ApplyResultLine
  <2>1. Generating /\ UNCHANGED execution /\ phase' = phase /\ (RG!FirstJoin \/ RG!Join \/ RG!Filter)
    BY <1>4 DEF ApplyResultLine, Generating, RG!FirstJoin, RG!Join, RG!Filter
  <2> QED BY <2>1, FirstKeeps, JoinKeeps, FilterKeeps
<1>5. CASE script.program = "magiqParse" /\ DropResultLine
  <2>1. Generating /\ UNCHANGED execution /\ phase' = phase /\ RG!NoKey
    BY <1>5 DEF DropResultLine, Generating, RG!NoKey
  <2> QED BY <2>1, NoKeyKeeps
<1>6. CASE EndOfScript
  BY <1>6, SameShape DEF EndOfScript, execution
<1>7. CASE RunAgain
  BY <1>7, IdleKeeps DEF RunAgain, ClearResults, NoResults
<1>8. CASE script.program = "magiqScal" /\ (TakeTransposed \/ Combine)
  <2>1. script.program # "magiqParse"
    BY <1>8
  <2>2. PICK k \in DOMAIN LubmQueries : script = LubmQueries[k]
    BY <2>1 DEF Shape
  <2>3. phase = "result_generation" /\ resLine <= Len(script.results)
    BY <1>8 DEF TakeTransposed, Combine
  <2>4. Calling(k)
    BY <2>2, <2>3 DEF Calling
  <2> QED BY <1>8, <2>4, CallKeeps
<1>9. CASE script.program = "magiqScal" /\ NextQuery
  <2> DEFINE Q == LubmQueries
             k == CHOOSE i \in DOMAIN Q : Q[i] = script
  <2>1. DOMAIN Q = 1 .. 7 /\ Len(Q) = 7
    BY DEF LubmQueries
  <2>2. k \in 1 .. 7
    BY <1>9, <2>1 DEF IInv, Given
  <2>3. script' = Q[(k % Len(Q)) + 1] /\ phase' = "query_execution" /\ ClearResults
    BY <1>9 DEF NextQuery
  <2> HIDE DEF k, Q
  <2>4. (k % Len(Q)) + 1 \in DOMAIN Q
    BY <2>1, <2>2
  <2>5. \E m \in DOMAIN LubmQueries : script' = LubmQueries[m]
    BY <2>3, <2>4 DEF Q
  <2> QED BY <2>3, <2>5, IdleKeeps DEF ClearResults, NoResults
<1>10. CASE UNCHANGED vars
  BY <1>10, SameShape DEF vars, execution
<1> QED BY <1>1, <1>2, <1>3, <1>4, <1>5, <1>6, <1>7, <1>8, <1>9, <1>10 DEF MagiqNext, LubmNext, Next

\* The shape holds throughout.
LEMMA ShapeHolds == ProgramsSpec => [](IInv /\ Shape)
<1>1. Init \/ LubmInit => IInv /\ Shape
  BY InitRight, ShapeStarts
<1>2. IInv /\ Shape /\ [MagiqNext \/ LubmNext]_vars => IInv' /\ Shape'
  BY NextKeeps, ShapeKeeps
<1> QED BY <1>1, <1>2, PTL DEF ProgramsSpec

\* In both programs, whatever the graph, the grid and the query, the tables that a join or a
\* filter merges are sorted by their pivots and on the process that has the key's columns of
\* the matrix: the redistributions that the lines' labels call for, and those that are
\* constants in the code, are the ones that are needed (local_redistribution, resgen_l1 to
\* resgen_l7).
THEOREM MergedTablesAreAligned == ProgramsSpec => []KeysAligned
<1>1. ASSUME NEW t, NEW p, Merging(t, p), NEW c \in RG!Row, NEW i \in DOMAIN t[c]
      PROVE  /\ PartOf(NEntities, ProcCols, t[c][i][p]) = c
             /\ i > 1 => t[c][i - 1][p] <= t[c][i][p]
  <2>1. Len(t[c]) \in Nat /\ i \in 1 .. Len(t[c])
    BY <1>1 DEF Merging, IsSequence
  <2>2. SortedOn(t[c], p) /\ PartIs(t[c][i], p, c)
    BY <1>1, <2>1 DEF Merging, AlignedOn
  <2>3. ASSUME i > 1 PROVE t[c][i - 1][p] <= t[c][i][p]
    <3>1. i - 1 \in 1 .. Len(t[c]) /\ i - 1 < i
      BY <2>1, <2>3
    <3> QED BY <2>1, <2>2, <3>1 DEF SortedOn
  <2> QED BY <2>2, <2>3 DEF PartIs
<1>2. ASSUME IInv, Shape PROVE KeysAligned
  <2> DEFINE pivot == RG!OldPosition(RG!LineOfKey)
  <2>1. \A x : RG!PartOf(NEntities, ProcCols, x) = PartOf(NEntities, ProcCols, x)
    BY DEF RG!PartOf, PartOf, RG!PerPart, PerPart
  <2>2. ~InGeneration => Len(applied) = 0
    <3>1. ~InGeneration => applied = <<>>
      BY <1>2 DEF Shape, NoResults
    <3> QED BY <3>1
  <2>3. CASE script.program = "magiqParse"
    <3> SUFFICES ASSUME Len(applied) > 1 PROVE Merging(indw, RG!OldPosition(RG!LineOfKey))
      <4>1. RG!KeysAligned <=>
              (Len(applied) > 1 =>
                 \A c \in RG!Row : \A i \in DOMAIN indw[c] :
                   /\ RG!PartOf(NEntities, ProcCols, indw[c][i][pivot]) = c
                   /\ i > 1 => indw[c][i - 1][pivot] <= indw[c][i][pivot])
        BY DEF RG!KeysAligned
      <4> HIDE DEF pivot
      <4> QED BY <1>1, <2>1, <2>3, <4>1 DEF KeysAligned, pivot
    <3>1. InGeneration
      BY <2>2
    <3> QED BY <1>2, <2>3, <3>1 DEF Shape, ParseShape
  <2>4. CASE script.program # "magiqParse"
    <3>1. PICK k \in DOMAIN LubmQueries : script = LubmQueries[k]
      BY <1>2, <2>4, SMTT(30) DEF Shape
    <3> SUFFICES ASSUME Len(applied) > 1 PROVE Merging(indw, script.results[applied[Len(applied)]].pivot + 1)
      BY <1>1, <2>4 DEF KeysAligned
    <3>2. InGeneration
      BY <2>2
    <3>3. CodeShape(k) /\ resLine \in 1 .. Len(script.results) + 1 /\ Len(script.results) \in Nat
      BY <1>2, <3>1, <3>2, QueryRight DEF Shape
    <3>4. applied = [i \in 1 .. resLine - 1 |-> i]
      BY <3>3 DEF CodeShape
    <3>5. Len(applied) = resLine - 1
      BY <3>3, <3>4
    <3>6. applied[Len(applied)] = resLine - 1 /\ resLine > 2
      BY <3>3, <3>4, <3>5
    <3> QED BY <3>3, <3>6 DEF CodeShape
  <2> QED BY <2>3, <2>4
<1>3. IInv /\ Shape => KeysAligned
  BY <1>2
<1> QED BY <1>3, ShapeHolds, PTL

\* The labels only get more.
LEMMA LabelsGrow ==
  ASSUME NEW s, Len(s.results) \in Nat
  PROVE  \A i, k \in 1 .. Len(s.results) : i <= k => LabelsAfter(s)[i] \subseteq LabelsAfter(s)[k]
<1> DEFINE n == Len(s.results)
           had == LabelsAfter(s)
<1>1. \A k \in 1 .. n : had[k] = NextLabels(s, k, had[k - 1])
  BY LabelsAfterRight
<1> SUFFICES ASSUME NEW i \in 1 .. n PROVE \A k \in 1 .. n : i <= k => had[i] \subseteq had[k]
  OBVIOUS
<1> DEFINE S == {k \in 0 .. n : i <= k => had[i] \subseteq had[k]}
<1> HIDE DEF had, n
<1>2. n \in Nat
  BY DEF n
<1>3. 0 \in S
  BY <1>2
<1>4. ASSUME NEW k \in 0 .. n - 1, k \in S PROVE k + 1 \in S
  <2>1. k + 1 \in 1 .. n /\ (k + 1) - 1 = k /\ k + 1 \in 0 .. n
    BY <1>2
  <2>2. CASE i <= k
    <3>1. k + 1 # 1
      BY <2>2
    <3>2. had[k + 1] = NextLabels(s, k + 1, had[k])
      BY <1>1, <2>1
    <3>3. had[k] \subseteq had[k + 1]
      BY <3>1, <3>2 DEF NextLabels
    <3> QED BY <1>4, <2>1, <2>2, <3>3
  <2>3. CASE ~(i <= k)
    <3>1. i <= k + 1 => i = k + 1
      BY <2>3
    <3> QED BY <2>1, <3>1
  <2> QED BY <2>2, <2>3
<1>5. 0 .. n \subseteq S
  <2> HIDE DEF S
  <2> QED BY <1>2, <1>3, <1>4, BoundedInduction
<1> QED BY <1>2, <1>5 DEF had, n

\* In both programs, whatever the graph, the grid and the query: matrices and the vector are
\* as distributed, and a table of a query from a file has one column per label, of entities,
\* all labels different and no more than there is space for, and is keyed by one of them.
THEOREM MagiqTyped == ProgramsSpec => []TypeOK
<1>1. ASSUME IInv, Shape, script.program = "magiqParse" PROVE RG!TypeOK
  <2>1. script \in Scripts /\ WellFormed(script) /\ Len(script.results) \in Nat
    BY <1>1, QueryRight DEF IInv, Given
  <2>2. script.results \in {s.results : s \in Scripts}
    BY <2>1
  <2>3. resLine \in 1 .. Len(script.results) + 1
    BY <1>1, <2>1 DEF Shape, NoResults
  <2>4. \A s : RG!Cardinality(s) = Cardinality(s)
    BY DEF RG!Cardinality, Cardinality
  <2>5. CASE labels = <<>>
    <3>1. primary = RG!NoLabel /\ indl = RG!Empty
      BY <1>1, <2>5 DEF Shape, NoResults, ParseShape
    <3>2. Len(labels) = 0 /\ RG!Range(labels) = {}
      BY <2>5 DEF RG!Range
    <3>3. Len(labels) <= MaxLabels /\ RG!Cardinality(RG!Range(labels)) = Len(labels)
      BY <2>4, <3>2, LabelsAssumption, FS_EmptySet
    <3>4. \A c \in RG!Row : \A i \in DOMAIN indl[c] : indl[c][i] \in [DOMAIN labels -> RG!Entity]
      BY <3>1 DEF RG!Empty
    <3> QED BY <2>2, <2>3, <3>1, <3>3, <3>4 DEF RG!TypeOK
  <2>6. CASE labels # <<>>
    <3> DEFINE H == LabelsAfter(script)[resLine - 1]
    <3>1. ParseShape
      BY <1>1, <2>6 DEF Shape, NoResults
    <3>2. resLine > 1 /\ Lists(labels, H) /\ IsTable(indl, Len(labels)) /\ primary = script.results[1].mat[2]
      BY <2>6, <3>1 DEF ParseShape
    <3>3. DOMAIN labels = 1 .. Len(labels) /\ RG!Range(labels) = H
      BY <3>2, PlaceRight
    <3>4. Cardinality(H) = Len(labels)
      BY <3>2, ListsCounted
    <3>5. resLine - 1 \in 1 .. Len(script.results)
      BY <2>1, <2>3, <3>2
    <3>6. Cardinality(H) <= MaxLabels
      BY <2>1, <3>5 DEF WellFormed
    <3>7. primary \in H
      <4>1. 1 \in 1 .. Len(script.results) /\ 1 <= resLine - 1
        BY <2>1, <2>3, <3>2
      <4>2. LabelsAfter(script)[1] \subseteq H
        BY <2>1, <3>5, <4>1, LabelsGrow
      <4>3. LabelsAfter(script)[1] = NextLabels(script, 1, LabelsAfter(script)[1 - 1])
        BY <2>1, <4>1, LabelsAfterRight
      <4> QED BY <3>2, <4>2, <4>3 DEF NextLabels
    <3>8. \A c \in RG!Row : \A i \in DOMAIN indl[c] : indl[c][i] \in [DOMAIN labels -> RG!Entity]
      BY <3>2, <3>3 DEF IsTable, Width, IsSequence, RG!Entity, Entity
    <3> HIDE DEF H
    <3> QED BY <2>2, <2>3, <2>4, <3>3, <3>4, <3>6, <3>7, <3>8 DEF RG!TypeOK
  <2> QED BY <2>5, <2>6
<1>2. IInv /\ Shape => (script.program = "magiqParse" => RG!TypeOK)
  BY <1>1
<1>3. IInv => ExecutionTypes
  BY DEF IInv, Given, Progress, MatricesInBlocks, InBlocks, IsVectorSoFar, Element, ExecutionTypes
<1>4. IInv /\ Shape => TypeOK
  BY <1>2, <1>3 DEF TypeOK
<1> QED BY <1>4, ShapeHolds, PTL

-----------------------------------------------------------------------------
(* What the nonzeros of a query's matrices say. *)

\* What a line asks of the place of a nonzero: a triple that the line selects, and its constant.
PlaceOfTriple(l, e) ==
  IF l.transposed THEN <<Numbered(nonisov, e.col), Numbered(nonisov, e.row)>>
  ELSE <<Numbered(nonisov, e.row), Numbered(nonisov, e.col)>>
Coordinate(l, e) == IF l.op = "left" THEN e[1] ELSE e[2]
AsksFor(l, e) ==
  /\ l.op = "select" => \E t \in data : t.val = l.diag.scale /\ PlaceOfTriple(l, t) = e
  /\ l.diag.kind = "constant" => Coordinate(l, e) = Constant(l.diag.pos)

\* A reduction of rows leaves what an earlier one put in the vector where a process row of the
\* reduced matrix is empty: such an entity is in no nonzero of that matrix.
Reached(d, N, x) == \E e \in N : e[IF d.dim = "Column" THEN 2 ELSE 1] = x

\* A nonzero has what the lines asked for that its matrix comes from, or the entity that they
\* restrict is in no nonzero of the matrix that they reduce.
ExecutionSound ==
  phase = "query_execution" =>
    \A i \in 1 .. line - 1 :
      LET l == script.lines[i] IN
      \A e \in Nonzeros(matrices[l.mat]) :
        AsksFor(l, e) \/ (l.diag.kind = "reduce" /\ ~Reached(l.diag, Nonzeros(matrices[l.diag.mat]), Coordinate(l, e)))

\* So in the result generation, with the matrices that it found, which have every answer.
FoundAsks(l, e) ==
  \/ AsksFor(l, e)
  \/ /\ l.diag.kind = "reduce"
     /\ \E q \in 1 .. Len(script.results) : script.results[q].mat = l.diag.mat /\ ~Reached(l.diag, found[q], Coordinate(l, e))
FoundSound ==
  InGeneration =>
    /\ \A i \in 1 .. Len(script.lines) : script.lines[i].op # "malformed"
    /\ \A i \in 1 .. Len(script.lines), r \in 1 .. Len(script.results) :
         script.lines[i].mat = script.results[r].mat => \A e \in found[r] : FoundAsks(script.lines[i], e)
FoundComplete ==
  InGeneration =>
    \A ans \in Answers : \A r \in 1 .. Len(script.results) :
      <<Place(ans, script.results[r].mat[1]), Place(ans, script.results[r].mat[2])>> \in found[r]

\* The assignments of entities to the labels of the table that have a nonzero in every
\* matrix so far, a filter's with the renamed label in place of its first.
FirstLabel(c) == IF c.op = "filter" THEN c.rename ELSE c.mat[1]
Solutions(s, F, n) ==
  {a \in [LabelsAfter(s)[n] -> Entity] :
     \A k \in 1 .. n : <<a[FirstLabel(s.results[k])], a[s.results[k].mat[2]]>> \in F[k]}

\* A table after some lines, with the labels of its columns: each line had its key, and the
\* table has the rows of these assignments, each once.
Keyed(s, n) == \A k \in 2 .. n : s.results[k].mat[2] \in LabelsAfter(s)[k - 1]
TableOf(s, F, n, L, t) ==
  /\ Keyed(s, n)
  /\ Len(L) \in Nat /\ \A i \in 1 .. Len(L) : L[i] \in LabelsAfter(s)[n]
  /\ Holds(t, RowsOf(L, Solutions(s, F, n)))
  /\ Told(L, Solutions(s, F, n))

\* Unless a line was dropped, that is the table, and the number of its rows is reported.
Content ==
  InGeneration =>
    /\ Len(applied) <= resLine - 1
    /\ Len(applied) = resLine - 1 /\ resLine > 1 =>
         /\ TableOf(script, found, resLine - 1, labels, indl)
         /\ script.program = "magiqParse" \/ (resLine > 2 /\ script.results[resLine - 1].report) => nres = RG!TotalRows(indl)
Sound == ExecutionSound /\ FoundSound /\ FoundComplete /\ Content

\* Any index is in some part, not before its start.
LEMMA PartOfAny ==
  ASSUME NEW len \in Nat, NEW parts \in Nat \ {0}, NEW ind \in Nat
  PROVE  /\ PartOf(len, parts, ind) \in 0 .. parts - 1
         /\ ind - PartStart(len, parts, PartOf(len, parts, ind)) \in Nat
<1> DEFINE q == len \div parts
           k == PartOf(len, parts, ind)
<1>1. q \in Nat /\ PerPart(len, parts) = q
  BY DivBounds DEF PerPart
<1>2. CASE q # 0 /\ ind \div q < parts - 1
  <2>1. k = ind \div q
    BY <1>1, <1>2 DEF PartOf
  <2>2. q \in Nat \ {0}
    BY <1>1, <1>2
  <2>3. ind \div q \in Nat /\ (ind \div q) * q <= ind
    BY <2>2, DivBounds
  <2>4. PartStart(len, parts, k) = (ind \div q) * q
    BY <1>1, <2>1 DEF PartStart
  <2>5. (ind \div q) * q \in Nat
    BY <2>2, <2>3, SMT
  <2> DEFINE s == (ind \div q) * q
  <2>6. ind - s \in Nat
    <3>1. s \in Nat /\ s <= ind
      BY <2>3, <2>5
    <3> HIDE DEF s
    <3> QED BY <3>1
  <2>7. k \in 0 .. parts - 1
    <3> DEFINE n == ind \div q
    <3>1. n \in Nat /\ n < parts - 1
      BY <1>2, <2>3
    <3> HIDE DEF n
    <3>2. n \in 0 .. parts - 1
      BY <3>1
    <3> QED BY <2>1, <3>2 DEF n
  <2> QED BY <2>4, <2>6, <2>7
<1>3. CASE ~(q # 0 /\ ind \div q < parts - 1)
  <2>1. k = parts - 1
    BY <1>1, <1>3 DEF PartOf
  <2>2. PartStart(len, parts, k) = (parts - 1) * q
    BY <1>1, <2>1 DEF PartStart
  <2>3. (parts - 1) * q \in Nat /\ (parts - 1) * q <= ind
    <3>1. CASE q = 0
      BY <3>1, SMT
    <3>2. CASE q # 0
      <4>1. q \in Nat \ {0}
        BY <1>1, <3>2
      <4>2. ind \div q \in Nat /\ (ind \div q) * q <= ind
        BY <4>1, DivBounds
      <4>3. parts - 1 \in Nat /\ parts - 1 <= ind \div q
        BY <1>3, <3>2, <4>2
      <4>4. (parts - 1) * q <= (ind \div q) * q
        BY <4>1, <4>2, <4>3, MulMonotone
      <4>5. (parts - 1) * q \in Nat /\ (ind \div q) * q \in Nat
        BY <4>1, <4>2, <4>3, SMT
      <4> HIDE DEF q
      <4> QED BY <4>2, <4>4, <4>5
    <3> QED BY <3>1, <3>2
  <2> DEFINE s == (parts - 1) * q
  <2>4. ind - s \in Nat
    <3>1. s \in Nat /\ s <= ind
      BY <2>3
    <3> HIDE DEF s
    <3> QED BY <3>1
  <2> QED BY <2>1, <2>2, <2>4
<1> QED BY <1>2, <1>3

\* No other index, even one beyond the vector, has the place of an entity.
LEMMA OwnerOnly ==
  ASSUME NEW ind \in Nat, NEW i \in 0 .. ProcRows - 1, NEW j \in 0 .. ProcCols - 1, NEW l \in Nat,
         Owner(NEntities, ind).rank = GetRank(i, j), Owner(NEntities, ind).lind = l
  PROVE  ind = LengthUntil(NEntities, i, j) + l
<1> DEFINE row == PartOf(NEntities, ProcRows, ind)
           within == ind - PartStart(NEntities, ProcRows, row)
           n == MyRowLength(NEntities, row)
           col == PartOf(n, ProcCols, within)
           a == PartStart(NEntities, ProcRows, row)
           b == PartStart(n, ProcCols, col)
<1>1. Owner(NEntities, ind) = [rank |-> GetRank(row, col), lind |-> within - b]
  BY DEF Owner, AtRank, OwnerPlace, OwnerInRow, PlaceInRow, OwnerWithinRow
<1>2. row \in 0 .. ProcRows - 1 /\ within \in Nat
  BY Sizes, PartOfAny
<1>3. n \in Nat
  BY <1>2, Sizes, RowLengthType
<1> HIDE DEF row, within, n
<1>4. col \in 0 .. ProcCols - 1 /\ within - b \in Nat
  BY <1>2, <1>3, Sizes, PartOfAny
<1> HIDE DEF col
<1>5. GetRank(row, col) = GetRank(i, j) /\ within - b = l
  BY <1>1
<1>6. row = i /\ col = j
  BY <1>2, <1>4, <1>5, RankRight
<1>7. a \in Nat /\ b \in Nat
  BY <1>2, <1>3, <1>4, Sizes, PartTypes
<1>8. within = ind - a
  BY DEF within
<1>9. LengthUntil(NEntities, row, col) = a + b
  BY DEF LengthUntil, RowLenUntil, n
<1> HIDE DEF a, b
<1>10. ind = (a + b) + l
  BY <1>2, <1>5, <1>7, <1>8
<1> QED BY <1>6, <1>9, <1>10, SMTT(30)

\* A vector with one element has nothing elsewhere (SetElement).
LEMMA UnitVectorOnly ==
  ASSUME NEW ind \in Nat, NEW value \in Element, NEW x \in Entity, ElementAt(UnitVector(ind, value), x) # 0
  PROVE  x = ind
<1> DEFINE w == UnitVector(ind, value)
           own == Owner(NEntities, ind)
<1>1. \A r \in Procs : w[r] = [k \in 1 .. MyLength(r) |-> IF r = own.rank /\ k = own.lind + 1 THEN value ELSE 0]
  BY DEF UnitVector
<1> HIDE DEF w
<1>2. PICK i \in 0 .. ProcRows - 1, j \in 0 .. ProcCols - 1 : \E l \in 0 .. MyLocLength(NEntities, i, j) - 1 :
        x = LengthUntil(NEntities, i, j) + l /\ Owner(NEntities, x) = [rank |-> GetRank(i, j), lind |-> l]
  BY ElementPlace
<1>3. PICK l \in 0 .. MyLocLength(NEntities, i, j) - 1 :
        x = LengthUntil(NEntities, i, j) + l /\ Owner(NEntities, x) = [rank |-> GetRank(i, j), lind |-> l]
  BY <1>2
<1>4. /\ ElementAt(w, x) = w[GetRank(i, j)][l + 1]
      /\ GetRank(i, j) \in Procs /\ l + 1 \in 1 .. MyLength(GetRank(i, j))
  BY <1>3, ElementIs
<1>5. ElementAt(w, x) # 0
  BY DEF w
<1>6. GetRank(i, j) = own.rank /\ l + 1 = own.lind + 1
  BY <1>1, <1>4, <1>5, ZenonT(30)
<1>7. own.lind \in Int
  <2> DEFINE row == PartOf(NEntities, ProcRows, ind)
             within == ind - PartStart(NEntities, ProcRows, row)
             n == MyRowLength(NEntities, row)
             col == PartOf(n, ProcCols, within)
             b == PartStart(n, ProcCols, col)
  <2>1. Owner(NEntities, ind) = [rank |-> GetRank(row, col), lind |-> within - b]
    BY DEF Owner, AtRank, OwnerPlace, OwnerInRow, PlaceInRow, OwnerWithinRow
  <2>2. row \in 0 .. ProcRows - 1 /\ within \in Nat
    BY Sizes, PartOfAny
  <2>3. n \in Nat
    BY <2>2, Sizes, RowLengthType
  <2> HIDE DEF row, within, n
  <2>4. within - b \in Nat
    BY <2>2, <2>3, Sizes, PartOfAny
  <2> QED BY <2>1, <2>4
<1>8. l \in Nat /\ own.lind = l
  <2> HIDE DEF own
  <2> QED BY <1>3, <1>6, <1>7
<1>9. ind = LengthUntil(NEntities, i, j) + l
  BY <1>6, <1>8, OwnerOnly
<1> QED BY <1>3, <1>9

\* What is left of a matrix was there, and its product is not zero (DimApply and Prune).
LEMMA ApplyOnly ==
  ASSUME NEW M, InBlocks(M), NEW v, IsVector(v), NEW dim, NEW isRDF, NEW x, NEW y, NEW val,
         Has(multDimApplyPrune(M, v, dim, isRDF), x, y, val)
  PROVE  \E u : Has(M, x, y, u) /\ u \in Element \ {0} /\ Product(u, ElementAt(v, IF dim = "Column" THEN y ELSE x), isRDF) # 0
<1> DEFINE p(r, e) == Product(e.val, ScaleOf(v, r, e, dim), isRDF)
           A == DimApply(M, v, dim, isRDF)
           R == multDimApplyPrune(M, v, dim, isRDF)
<1>1. PICK r \in Procs : \E f \in R[r] : RowOf(r, f) = x /\ ColOf(r, f) = y /\ f.val = val
  BY DEF Has
<1>2. PICK f \in R[r] : RowOf(r, f) = x /\ ColOf(r, f) = y /\ f.val = val
  BY <1>1
<1>3. A[r] = {[e EXCEPT !.val = p(r, e)] : e \in M[r]}
  <2> DEFINE scaler == IF dim = "Column" THEN ScalerByColumn(v, r) ELSE ScalerByRow(v, r)
             at(e) == IF dim = "Column" THEN e.col + 1 ELSE e.row + 1
  <2>1. A[r] = {[e EXCEPT !.val = Product(e.val, scaler[at(e)], isRDF)] : e \in M[r]}
    BY DEF DimApply
  <2>2. ASSUME NEW e \in M[r] PROVE scaler[at(e)] = ScaleOf(v, r, e, dim)
    <3>1. e \in Block(r)
      BY DEF InBlocks
    <3>2. /\ ScalerByColumn(v, r)[e.col + 1] = ElementAt(v, ColOf(r, e))
          /\ ScalerByRow(v, r)[e.row + 1] = ElementAt(v, RowOf(r, e))
      BY <3>1, ScalerRight
    <3> QED BY <3>2 DEF ScaleOf
  <2> HIDE DEF scaler, at, A
  <2> QED BY <2>1, <2>2
<1>4. R[r] = {e \in A[r] : e.val # 0}
  BY DEF multDimApplyPrune, Prune
<1> HIDE DEF A, R, p
<1>5. PICK e \in M[r] : f = [e EXCEPT !.val = p(r, e)]
  BY <1>3, <1>4
<1>6. e \in Block(r)
  BY DEF InBlocks
<1>7. f.row = e.row /\ f.col = e.col /\ f.val = p(r, e)
  BY <1>5, <1>6 DEF Block
<1>8. RowOf(r, e) = x /\ ColOf(r, e) = y
  BY <1>2, <1>7 DEF RowOf, ColOf
<1>9. p(r, e) # 0
  BY <1>4, <1>7
<1>10. Product(e.val, ElementAt(v, IF dim = "Column" THEN y ELSE x), isRDF) # 0
  BY <1>8, <1>9 DEF p, ScaleOf
<1>11. Has(M, x, y, e.val)
  BY <1>8 DEF Has
<1>12. e.val \in Element \ {0}
  BY <1>6, Sizes DEF Block, Element
<1> QED BY <1>10, <1>11, <1>12

\* A product that is not zero has no factor zero, and with the semiring equal ones.
LEMMA ProductOnly ==
  ASSUME NEW a \in Element, NEW b \in Element, NEW isRDF, Product(a, b, isRDF) # 0
  PROVE  b # 0 /\ (isRDF => a = b)
<1>1. CASE isRDF
  BY <1>1 DEF Product
<1>2. CASE ~isRDF
  <2>1. Product(a, b, isRDF) = (a * b) % ElementRange
    BY <1>2 DEF Product
  <2>2. CASE b = 0
    <3>1. a * b = 0
      BY <2>2, Sizes DEF Element
    <3>2. 0 % ElementRange = 0
      BY Sizes
    <3> QED BY <2>1, <3>1, <3>2
  <2> QED BY <1>2, <2>2
<1> QED BY <1>1, <1>2

\* The graph has nothing else than the triples (the load).
LEMMA GraphOnly ==
  ASSUME Given, NEW x, NEW y, NEW val, Has(G, x, y, val)
  PROVE  \E t \in data : t.val = val /\ x = Numbered(nonisov, t.row) /\ y = Numbered(nonisov, t.col)
<1> DEFINE new(e) == [row |-> Numbered(nonisov, e.row), col |-> Numbered(nonisov, e.col), val |-> e.val]
           entries == {new(e) : e \in data}
           owner(t) == BlockOwner(NEntities, NEntities, t.row, t.col)
           piece(t) == [row |-> owner(t).lrow, col |-> owner(t).lcol, val |-> t.val]
<1>1. G = Scatter(entries)
  BY DEF Given, ReadGraph
<1>2. entries \in SUBSET Triple
  <2>1. ASSUME NEW e \in data PROVE new(e) \in Triple
    <3>1. e \in Triple
      BY DEF Given
    <3>2. e.row \in Entity /\ e.col \in Entity /\ e.val \in 1 .. ElementRange - 1
      BY <3>1 DEF Triple
    <3>3. Numbered(nonisov, e.row) \in Entity /\ Numbered(nonisov, e.col) \in Entity
      BY <3>2, NumberedEntity DEF Given
    <3> QED BY <3>2, <3>3 DEF Triple
  <2> HIDE DEF new
  <2> QED BY <2>1
<1>3. G = [r \in Procs |-> {piece(t) : t \in {d \in entries : owner(d).rank = r}}]
  BY <1>1 DEF Scatter
<1>4. PICK r \in Procs : \E f \in G[r] : RowOf(r, f) = x /\ ColOf(r, f) = y /\ f.val = val
  BY DEF Has
<1>5. PICK f \in G[r] : RowOf(r, f) = x /\ ColOf(r, f) = y /\ f.val = val
  BY <1>4
<1> HIDE DEF owner, entries
<1>6. PICK t \in entries : owner(t).rank = r /\ f = piece(t)
  BY <1>3
<1>7. RowOf(r, piece(t)) = t.row /\ ColOf(r, piece(t)) = t.col
  <2> DEFINE i == PartOf(NEntities, ProcRows, t.row)
             j == PartOf(NEntities, ProcCols, t.col)
             a == PartStart(NEntities, ProcRows, i)
             b == PartStart(NEntities, ProcCols, j)
  <2>1. t.row \in 0 .. NEntities - 1 /\ t.col \in 0 .. NEntities - 1
    BY <1>2 DEF Triple, Entity
  <2>2. owner(t) = [rank |-> GetRank(i, j), lrow |-> t.row - a, lcol |-> t.col - b]
    BY DEF BlockOwner, owner
  <2>3. i \in 0 .. ProcRows - 1 /\ j \in 0 .. ProcCols - 1
    BY <2>1, Sizes, PartOfRight
  <2>4. a \in Nat /\ b \in Nat
    BY <2>3, Sizes, PartTypes
  <2> HIDE DEF i, j
  <2>5. RankInProcCol(r) = i /\ RankInProcRow(r) = j
    BY <1>6, <2>2, <2>3, RankRight
  <2>6. piece(t).row = t.row - a /\ piece(t).col = t.col - b
    BY <2>2
  <2> HIDE DEF piece
  <2>7. RowOf(r, piece(t)) = a + (t.row - a) /\ ColOf(r, piece(t)) = b + (t.col - b)
    BY <2>5, <2>6 DEF RowOf, ColOf, RowOffset, ColOffset
  <2>8. a + (t.row - a) = t.row /\ b + (t.col - b) = t.col
    <3> HIDE DEF a, b
    <3> QED BY <2>1, <2>4
  <2> QED BY <2>7, <2>8
<1>8. t.row = x /\ t.col = y /\ t.val = val
  <2>1. f.val = t.val
    BY <1>6
  <2> HIDE DEF piece
  <2> QED BY <1>5, <1>6, <1>7, <2>1
<1>9. PICK e \in data : t = new(e)
  BY DEF entries
<1>10. t.val = e.val /\ t.row = Numbered(nonisov, e.row) /\ t.col = Numbered(nonisov, e.col)
  BY <1>9
<1> QED BY <1>8, <1>10

\* A line's matrix: what its diagonal has for the entity that a nonzero's place restricts, and
\* what the operand has at the place.
TurnedPlace(e) == IF Turned THEN <<e[2], e[1]>> ELSE e

\* A nonzero of a line's matrix comes from one of its operand that the diagonal lets through.
LEMMA LineNonzero ==
  ASSUME IInv, Ready, NEW e \in Nonzeros(LineResult(DiagonalOf(Line.diag)))
  PROVE  /\ e \in Pair
         /\ ElementAt(DiagonalOf(Line.diag), Coordinate(Line, e)) # 0
         /\ \E u : /\ Has(Operand, TurnedPlace(e)[1], TurnedPlace(e)[2], u)
                   /\ Line.isRDF => u = ElementAt(DiagonalOf(Line.diag), Coordinate(Line, e))
<1> DEFINE v == DiagonalOf(Line.diag)
           dim == AppliedDim(Line)
           P == multDimApplyPrune(Operand, v, dim, Line.isRDF)
           R == LineResult(v)
<1>1. InBlocks(Operand) /\ IsVector(v)
  BY OperandRight, DiagonalOfRight
<1>2. R = IF Turned THEN Transpose(P) ELSE P
  BY DEF LineResult, Operand, Turned
<1>3. InBlocks(R)
  BY LineResultRight
<1>4. e \in Pair
  BY <1>3, NonzerosType
<1>5. e = <<e[1], e[2]>> /\ e[1] \in Entity /\ e[2] \in Entity
  BY <1>4 DEF Pair
<1>6. PICK val : Has(R, e[1], e[2], val)
  <2> HIDE DEF R
  <2>1. <<e[1], e[2]>> \in Nonzeros(R)
    BY <1>5 DEF R
  <2> QED BY <2>1, NonzeroHas
<1> DEFINE a == TurnedPlace(e)[1]
           b == TurnedPlace(e)[2]
<1>7. Has(P, a, b, val)
  <2>1. CASE Turned
    <3>1. a = e[2] /\ b = e[1]
      BY <2>1 DEF TurnedPlace
    <3>2. InBlocks(P)
      <4> HIDE DEF v, dim
      <4> QED BY <1>1, ApplyRight
    <3> HIDE DEF P, R, a, b
    <3>3. Has(Transpose(P), e[1], e[2], val)
      BY <1>2, <1>6, <2>1
    <3> QED BY <3>1, <3>2, <3>3, TransposeHas
  <2>2. CASE ~Turned
    BY <1>2, <1>6, <2>2 DEF TurnedPlace
  <2> QED BY <2>1, <2>2
<1>8. Line \in LineForms /\ Line.op # "malformed"
  BY LineRight DEF Ready
<1>9. Coordinate(Line, e) = (IF dim = "Column" THEN b ELSE a)
  <2>1. Line.op \in {"select", "left", "right", "malformed"} /\ Line.op # "malformed" /\ Line.transposed \in BOOLEAN
    BY <1>8 DEF LineForms
  <2> QED BY <2>1 DEF Coordinate, AppliedDim, Turned, TurnedPlace
<1>10. PICK u \in Element \ {0} : Has(Operand, a, b, u) /\ Product(u, ElementAt(v, IF dim = "Column" THEN b ELSE a), Line.isRDF) # 0
  <2> HIDE DEF v, dim, a, b
  <2> QED BY <1>1, <1>7, ApplyOnly DEF P
<1>11. ElementAt(v, Coordinate(Line, e)) \in Element
  <2>1. Coordinate(Line, e) \in Entity
    BY <1>5 DEF Coordinate
  <2> HIDE DEF v
  <2> QED BY <1>1, <2>1, ElementType
<1> HIDE DEF v, dim, a, b, P, R
<1>12. ElementAt(v, Coordinate(Line, e)) # 0 /\ (Line.isRDF => u = ElementAt(v, Coordinate(Line, e)))
  BY <1>9, <1>10, <1>11, ProductOnly
<1> QED BY <1>4, <1>10, <1>12 DEF v, a, b

\* A line that restricts a matrix only takes nonzeros away.
LEMMA LineRestricts ==
  ASSUME IInv, Ready, Line.op # "select"
  PROVE  Nonzeros(LineResult(DiagonalOf(Line.diag))) \subseteq Nonzeros(matrices[Line.mat])
<1> SUFFICES ASSUME NEW e \in Nonzeros(LineResult(DiagonalOf(Line.diag)))
             PROVE  e \in Nonzeros(matrices[Line.mat])
  OBVIOUS
<1>1. TurnedPlace(e) = e /\ Operand = matrices[Line.mat]
  BY DEF TurnedPlace, Turned, Operand
<1>2. PICK u : Has(matrices[Line.mat], e[1], e[2], u)
  BY <1>1, LineNonzero
<1>3. e = <<e[1], e[2]>>
  BY LineNonzero DEF Pair
<1> QED BY <1>2, <1>3, NonzeroHas

\* The nonzeros that a line leaves have what it asks for, or are not reached by what it reduces.
LEMMA LineSound ==
  ASSUME IInv, Ready, NEW e \in Nonzeros(LineResult(DiagonalOf(Line.diag)))
  PROVE  \/ AsksFor(Line, e)
         \/ Line.diag.kind = "reduce" /\ ~Reached(Line.diag, Nonzeros(matrices[Line.diag.mat]), Coordinate(Line, e))
<1> DEFINE d == Line.diag
           x == Coordinate(Line, e)
           M == matrices[d.mat]
           c == ElementAt(DiagonalOf(d), x)
<1>1. /\ e \in Pair /\ c # 0
      /\ \E u : Has(Operand, TurnedPlace(e)[1], TurnedPlace(e)[2], u) /\ (Line.isRDF => u = c)
  BY LineNonzero
<1>2. /\ Line \in LineForms /\ LineWellFormed(script, line) /\ WellFormed(script)
      /\ \A n \in Earlier(script, line) : InBlocks(matrices[n])
  BY LineRight
<1>3. e = <<e[1], e[2]>> /\ x \in Entity
  BY <1>1 DEF Pair, Coordinate
<1>4. d \in Diagonals /\ d.kind \in {"constant", "reduce"} /\ d.scale \in Nat
  BY <1>2 DEF LineForms, Diagonals
<1>5. d.scale \in 1 .. ElementRange - 1
  <2>1. CASE Line.op = "select"
    BY <1>2, <2>1 DEF LineWellFormed, Line
  <2>2. CASE Line.op # "select"
    <3>1. d.scale = 1
      BY <1>2, <2>2 DEF LineWellFormed, Line
    <3> QED BY <3>1, Sizes
  <2> QED BY <2>1, <2>2

\* The triple that a line selects.
<1>6. ASSUME Line.op = "select", c = d.scale
      PROVE  \E t \in data : t.val = d.scale /\ PlaceOfTriple(Line, t) = e
  <2>1. Line.isRDF /\ Operand = G
    BY <1>2, <1>6 DEF LineWellFormed, Line, Operand
  <2>2. Has(G, TurnedPlace(e)[1], TurnedPlace(e)[2], d.scale)
    BY <1>1, <1>6, <2>1
  <2>3. PICK t \in data : /\ t.val = d.scale
                          /\ TurnedPlace(e)[1] = Numbered(nonisov, t.row) /\ TurnedPlace(e)[2] = Numbered(nonisov, t.col)
    <3> HIDE DEF d
    <3> QED BY <2>2, GraphOnly DEF IInv
  <2>4. PlaceOfTriple(Line, t) = e
    BY <1>3, <1>6, <2>3 DEF PlaceOfTriple, TurnedPlace, Turned
  <2> QED BY <2>3, <2>4
<1>7. CASE d.kind = "constant"
  <2> DEFINE ind == Constant(d.pos)
             s == d.scale % ElementRange
  <2>1. s = d.scale /\ s \in Element
    <3> DEFINE n == d.scale
    <3>1. n \in 1 .. ElementRange - 1
      BY <1>5
    <3> HIDE DEF n
    <3>2. n % ElementRange = n /\ n \in Element
      BY <3>1, Sizes DEF Element
    <3> QED BY <3>2 DEF n
  <2>2. ind \in Nat
    <3>1. d.pos \in Nat
      BY <1>4, <1>7 DEF Diagonals
    <3>2. CASE d.pos \in Entity
      <4>1. ind \in Entity
        BY <3>2, NumberedEntity DEF Constant, IInv, Given
      <4> QED BY <4>1, Sizes DEF Entity
    <3>3. CASE d.pos \notin Entity
      <4>1. nonisov = <<>> \/ nonisov \in [Entity -> Entity]
        BY RenumberingsAssumption DEF IInv, Given
      <4>2. d.pos \notin DOMAIN nonisov
        <5>1. CASE nonisov = <<>>
          BY <5>1
        <5>2. CASE nonisov \in [Entity -> Entity]
          BY <3>3, <5>2
        <5> QED BY <4>1, <5>1, <5>2
      <4> QED BY <3>1, <4>2 DEF Constant, Numbered
    <3> QED BY <3>2, <3>3
  <2>3. DiagonalOf(d) = UnitVector(ind, s)
    BY <1>7 DEF DiagonalOf
  <2> HIDE DEF ind, s, d, x
  <2>4. x = ind
    BY <1>1, <1>3, <2>1, <2>2, <2>3, UnitVectorOnly
  <2>5. c = s
    BY <1>3, <2>1, <2>2, <2>3, <2>4, UnitVectorRight
  <2>6. Line.op = "select" => \E t \in data : t.val = d.scale /\ PlaceOfTriple(Line, t) = e
    BY <1>6, <2>1, <2>5
  <2>7. x = Constant(d.pos)
    BY <2>4 DEF ind
  <2> QED BY <2>6, <2>7 DEF AsksFor, d, x
<1>8. CASE d.kind = "reduce" /\ Reached(d, Nonzeros(M), x)
  <2>1. d.mat \in Earlier(script, line)
    BY <1>2, <1>8 DEF LineWellFormed, Line
  <2>2. Reduction(M, d, x) = d.scale /\ d.scale # 0
    BY <1>5, <1>8 DEF Reduction, Reached
  <2>3. DiagonalOf(d) = Diagonal(d)
    BY <1>8 DEF DiagonalOf
  <2>4. InBlocks(M) /\ IsVectorSoFar(dm)
    BY <1>2, <2>1 DEF IInv
  <2> HIDE DEF d, x
  <2>5. c = d.scale
    BY <1>3, <1>5, <2>2, <2>3, <2>4, DiagonalRight
  <2>6. Line.op = "select" => \E t \in data : t.val = d.scale /\ PlaceOfTriple(Line, t) = e
    BY <1>6, <2>5
  <2> QED BY <1>8, <2>6 DEF AsksFor, d, x
<1>9. CASE d.kind = "reduce" /\ ~Reached(d, Nonzeros(M), x)
  BY <1>9
<1> QED BY <1>4, <1>7, <1>8, <1>9

\* The lines so far stay sound when one is executed.
LEMMA ExecuteSound ==
  ASSUME IInv, ExecutionSound, Execute
  PROVE  ExecutionSound'
<1> DEFINE R == LineResult(DiagonalOf(Line.diag))
<1>1. /\ Ready /\ matrices' = [matrices EXCEPT ![Line.mat] = R] /\ line' = line + 1
      /\ data' = data /\ nonisov' = nonisov /\ script' = script /\ phase = "query_execution"
  BY DEF Execute, Ready
<1>2. /\ line \in 1 .. Len(script.lines) /\ Len(script.lines) \in Nat /\ WellFormed(script)
      /\ LineWellFormed(script, line) /\ Line.mat \in DOMAIN matrices
      /\ Line = script.lines[line] /\ Line \in LineForms
  BY <1>1, LineRight DEF Line
<1>3. \A l, e : AsksFor(l, e)' <=> AsksFor(l, e)
  BY <1>1 DEF AsksFor, PlaceOfTriple, Constant
<1>4. \A i \in 1 .. line - 1 : script.lines[i].op # "malformed" /\ script.lines[i].mat \in Earlier(script, line)
  BY <1>1 DEF IInv, Progress, Earlier
<1>5. ASSUME NEW n \in Earlier(script, line) PROVE Nonzeros(matrices'[n]) \subseteq Nonzeros(matrices[n])
  <2>1. CASE n = Line.mat
    <3>1. Line.op # "select"
      BY <1>2, <1>5, <2>1 DEF LineWellFormed
    <3>2. matrices'[n] = R
      BY <1>1, <1>2, <2>1
    <3> HIDE DEF R
    <3> QED BY <1>1, <2>1, <3>1, <3>2, LineRestricts DEF R
  <2>2. CASE n # Line.mat
    BY <1>1, <2>2
  <2> QED BY <2>1, <2>2
<1> HIDE DEF R
<1> SUFFICES ASSUME NEW i \in 1 .. line, NEW e \in Nonzeros(matrices'[script.lines[i].mat])
             PROVE  LET l == script.lines[i] IN
                    \/ AsksFor(l, e)
                    \/ l.diag.kind = "reduce" /\ ~Reached(l.diag, Nonzeros(matrices'[l.diag.mat]), Coordinate(l, e))
  <2>1. line' - 1 = line
    BY <1>1, <1>2
  <2> QED BY <1>1, <1>3, <2>1 DEF ExecutionSound
<1> DEFINE l == script.lines[i]
<1>6. CASE i = line
  <2>1. l = Line /\ matrices'[l.mat] = R
    BY <1>1, <1>2, <1>6
  <2>2. AsksFor(l, e) \/ (l.diag.kind = "reduce" /\ ~Reached(l.diag, Nonzeros(matrices[l.diag.mat]), Coordinate(l, e)))
    BY <1>1, <2>1, LineSound DEF R
  <2>3. l.diag.kind = "reduce" => matrices'[l.diag.mat] = matrices[l.diag.mat]
    <3>1. l.diag.kind = "reduce" => l.diag.mat # Line.mat
      BY <1>2, <2>1 DEF LineWellFormed
    <3> QED BY <1>1, <3>1
  <2> QED BY <2>2, <2>3
<1>7. CASE i # line
  <2>1. i \in 1 .. line - 1
    BY <1>2, <1>7
  <2>2. e \in Nonzeros(matrices[l.mat])
    BY <1>4, <1>5, <2>1
  <2>3. AsksFor(l, e) \/ (l.diag.kind = "reduce" /\ ~Reached(l.diag, Nonzeros(matrices[l.diag.mat]), Coordinate(l, e)))
    BY <1>1, <2>1, <2>2 DEF ExecutionSound
  <2>4. ASSUME l.diag.kind = "reduce" PROVE Nonzeros(matrices'[l.diag.mat]) \subseteq Nonzeros(matrices[l.diag.mat])
    <3>1. LineWellFormed(script, i)
      BY <1>2, <1>4, <2>1 DEF WellFormed
    <3>2. l.diag.mat \in Earlier(script, i)
      BY <2>4, <3>1 DEF LineWellFormed
    <3>3. \A j \in 1 .. i - 1 : j \in 1 .. line - 1
      BY <1>2
    <3>4. Earlier(script, i) \subseteq Earlier(script, line)
      BY <3>3 DEF Earlier
    <3> QED BY <1>5, <3>2, <3>4
  <2>5. l.diag.kind = "reduce" => \A x : Reached(l.diag, Nonzeros(matrices'[l.diag.mat]), x) => Reached(l.diag, Nonzeros(matrices[l.diag.mat]), x)
    BY <2>4 DEF Reached
  <2> QED BY <2>3, <2>5
<1> QED BY <1>6, <1>7

\* A matrix of the execution is one that the result generation takes.
LEMMA TakenBySome ==
  ASSUME WellFormed(script), script.results # <<>>, NEW n \in Earlier(script, Len(script.lines) + 1)
  PROVE  \E q \in 1 .. Len(script.results) : script.results[q].mat = n
BY DEF WellFormed

\* The result generation finds the nonzeros that the execution leaves.
LEMMA BeginSound ==
  ASSUME IInv, Shape, ExecutionSound, BeginResults
  PROVE  FoundSound' /\ FoundComplete' /\ Content'
<1>1. /\ phase = "query_execution" /\ line > Len(script.lines) /\ phase' = "result_generation"
      /\ found' = [i \in DOMAIN script.results |-> Nonzeros(matrices[script.results[i].mat])]
      /\ data' = data /\ nonisov' = nonisov /\ script' = script /\ matrices' = matrices
      /\ resLine' = resLine /\ labels' = labels /\ applied' = applied
  BY DEF BeginResults, execution
<1>2. /\ WellFormed(script) /\ Len(script.results) \in Nat /\ DOMAIN script.results = 1 .. Len(script.results)
      /\ Len(script.lines) \in Nat
  BY QueryRight
<1>3. line = Len(script.lines) + 1
  BY <1>1, <1>2 DEF IInv, Progress
<1>4. \A i \in 1 .. Len(script.lines) : script.lines[i].op # "malformed" /\ i \in 1 .. line - 1
  BY <1>1, <1>2, <1>3 DEF IInv, Progress
<1>5. \A l, e : AsksFor(l, e)' <=> AsksFor(l, e)
  BY <1>1 DEF AsksFor, PlaceOfTriple, Constant
<1>6. \A r \in 1 .. Len(script.results) : found'[r] = Nonzeros(matrices[script.results[r].mat])
  BY <1>1, <1>2
<1>7. FoundSound'
  <2> DEFINE Asked(l, e) ==
               \/ AsksFor(l, e)
               \/ /\ l.diag.kind = "reduce"
                  /\ \E q \in 1 .. Len(script.results) :
                       script.results[q].mat = l.diag.mat /\ ~Reached(l.diag, found'[q], Coordinate(l, e))
  <2>a. \A i, e : FoundAsks(script.lines[i], e)' <=> Asked(script.lines[i], e)
    BY <1>1, <1>5, ZenonT(30) DEF FoundAsks, Reached
  <2>b. ASSUME NEW i \in 1 .. Len(script.lines), NEW r \in 1 .. Len(script.results),
               script.lines[i].mat = script.results[r].mat, NEW e \in found'[r]
        PROVE  Asked(script.lines[i], e)
    <3> DEFINE l == script.lines[i]
    <3>1. e \in Nonzeros(matrices[l.mat])
      BY <1>6, <2>b
    <3>2. AsksFor(l, e) \/ (l.diag.kind = "reduce" /\ ~Reached(l.diag, Nonzeros(matrices[l.diag.mat]), Coordinate(l, e)))
      BY <1>1, <1>4, <2>b, <3>1 DEF ExecutionSound
    <3>3. ASSUME l.diag.kind = "reduce"
          PROVE  \E q \in 1 .. Len(script.results) : script.results[q].mat = l.diag.mat
      <4>1. LineWellFormed(script, i)
        BY <1>2, <1>4 DEF WellFormed
      <4>2. l.diag.mat \in Earlier(script, i)
        BY <3>3, <4>1 DEF LineWellFormed
      <4>3. \A j \in 1 .. i - 1 : j \in 1 .. (Len(script.lines) + 1) - 1
        BY <1>2
      <4>4. l.diag.mat \in Earlier(script, Len(script.lines) + 1)
        BY <4>2, <4>3 DEF Earlier
      <4>5. script.results # <<>>
        BY <1>2
      <4> HIDE DEF l
      <4> QED BY <1>2, <4>4, <4>5, TakenBySome
    <3>4. CASE AsksFor(l, e)
      BY <3>4
    <3>5. CASE l.diag.kind = "reduce" /\ ~Reached(l.diag, Nonzeros(matrices[l.diag.mat]), Coordinate(l, e))
      <4>1. PICK q \in 1 .. Len(script.results) : script.results[q].mat = l.diag.mat
        BY <3>3, <3>5
      <4>2. found'[q] = Nonzeros(matrices[l.diag.mat])
        BY <1>6, <4>1
      <4>3. ~Reached(l.diag, found'[q], Coordinate(l, e))
        BY <3>5, <4>2
      <4> QED BY <3>5, <4>1, <4>3
    <3> QED BY <3>2, <3>4, <3>5
  <2> HIDE DEF Asked
  <2> QED BY <1>1, <1>4, <2>a, <2>b DEF FoundSound
<1>8. FoundComplete'
  <2>1. Answers' = Answers /\ \A ans, n : Place(ans, n)' = Place(ans, n)
    BY <1>1 DEF Answers, Place
  <2> SUFFICES ASSUME NEW ans \in Answers, NEW r \in 1 .. Len(script.results)
               PROVE  <<Place(ans, script.results[r].mat[1]), Place(ans, script.results[r].mat[2])>> \in found'[r]
    BY <1>1, <2>1 DEF FoundComplete, Place
  <2> DEFINE n == script.results[r].mat
  <2>2. n \in Earlier(script, Len(script.lines) + 1)
    BY <1>2 DEF WellFormed, ResultWellFormed
  <2>3. PICK j \in 1 .. line - 1 : script.lines[j].mat = n
    BY <1>3, <2>2 DEF Earlier
  <2>4. Has(matrices[n], Place(ans, n[1]), Place(ans, n[2]), 1)
    BY <1>1, <2>3 DEF IInv, AnswersKept
  <2> HIDE DEF n
  <2>5. <<Place(ans, n[1]), Place(ans, n[2])>> \in Nonzeros(matrices[n])
    BY <2>4, NonzeroHas
  <2> QED BY <1>6, <2>5 DEF n
<1>9. Content'
  <2>1. resLine = 1 /\ applied = <<>>
    BY <1>1 DEF Shape, InGeneration, NoResults
  <2>2. Len(applied) = 0
    BY <2>1
  <2> QED BY <1>1, <2>1, <2>2 DEF Content
<1> QED BY <1>7, <1>8, <1>9

\* What was found stays what the query and the graph ask for.
LEMMA FoundStays ==
  ASSUME FoundSound, FoundComplete, UNCHANGED <<data, nonisov, script, found>>, InGeneration' => InGeneration
  PROVE  FoundSound' /\ FoundComplete'
<1>1. data' = data /\ nonisov' = nonisov /\ script' = script /\ found' = found
  OBVIOUS
<1>2. \A l, e : AsksFor(l, e)' <=> AsksFor(l, e)
  BY <1>1 DEF AsksFor, PlaceOfTriple, Constant
<1>3. FoundSound'
  <2>1. \A l, e : FoundAsks(l, e)' <=> FoundAsks(l, e)
    BY <1>1, <1>2 DEF FoundAsks, Reached
  <2> QED BY <1>1, <2>1 DEF FoundSound
<1>4. Answers' = Answers /\ \A ans, n : Place(ans, n)' = Place(ans, n)
  BY <1>1 DEF Answers, Place
<1>5. FoundComplete'
  BY <1>1, <1>4 DEF FoundComplete, Place
<1> QED BY <1>3, <1>5

-----------------------------------------------------------------------------
(* The rows of the table, line by line. *)

\* The lines are of the forms that the steps know, the first one no filter.
OpsRight(s) ==
  /\ \A k \in 1 .. Len(s.results) : s.results[k].op \in {"join", "filter", "transposed"}
  /\ \A k \in 2 .. Len(s.results) : s.results[k].op \in {"join", "filter"}

\* What a line reads of an assignment is among the labels so far.
LEMMA KeyedLabels ==
  ASSUME NEW s, WellFormed(s), Len(s.results) \in Nat, OpsRight(s), NEW n \in 1 .. Len(s.results), Keyed(s, n)
  PROVE  \A k \in 1 .. n :
           /\ FirstLabel(s.results[k]) \in LabelsAfter(s)[n]
           /\ s.results[k].mat[2] \in LabelsAfter(s)[n]
<1> DEFINE had == LabelsAfter(s)
           R == s.results
<1> SUFFICES ASSUME NEW k \in 1 .. n PROVE FirstLabel(R[k]) \in had[n] /\ R[k].mat[2] \in had[n]
  OBVIOUS
<1>1. k \in 1 .. Len(R) /\ ResultWellFormed(s, k)
  BY DEF WellFormed
<1>2. had[k] = NextLabels(s, k, had[k - 1]) /\ had[k] \subseteq had[n]
  BY <1>1, LabelsAfterRight, LabelsGrow
<1>3. CASE k = 1
  <2>1. R[k].op # "filter"
    BY <1>1, <1>3 DEF ResultWellFormed
  <2> QED BY <1>2, <1>3, <2>1 DEF NextLabels, FirstLabel
<1>4. CASE k # 1
  <2>1. k \in 2 .. n /\ R[k].mat[2] \in had[k - 1] /\ R[k].op \in {"join", "filter"}
    BY <1>1, <1>4 DEF Keyed, OpsRight
  <2>2. R[k].mat[2] \in had[k]
    BY <1>2, <1>4, <2>1 DEF NextLabels
  <2>3. CASE R[k].op = "join"
    <3>1. R[k].mat[1] \in had[k]
      BY <1>2, <1>4, <2>1, <2>3 DEF NextLabels
    <3> QED BY <1>2, <2>2, <2>3, <3>1 DEF FirstLabel
  <2>4. CASE R[k].op = "filter"
    <3>1. FilterWellFormed(s, k)
      BY <1>1, <2>1, <2>4 DEF ResultWellFormed
    <3>2. R[k].rename \in had[k - 1]
      BY <3>1 DEF FilterWellFormed
    <3>3. R[k].rename \in had[k]
      BY <1>2, <1>4, <2>4, <3>2 DEF NextLabels
    <3> QED BY <1>2, <2>2, <2>4, <3>3 DEF FirstLabel
  <2> QED BY <2>1, <2>3, <2>4
<1> QED BY <1>3, <1>4

\* A line adds its nonzeros to what is asked of the assignments: a join ...
LEMMA SolutionsJoined ==
  ASSUME NEW s, WellFormed(s), Len(s.results) \in Nat, OpsRight(s), NEW F, NEW n \in 1 .. Len(s.results) - 1, Keyed(s, n),
         s.results[n + 1].op = "join", s.results[n + 1].mat[2] \in LabelsAfter(s)[n]
  PROVE  LET mat == s.results[n + 1].mat
             H == LabelsAfter(s)[n]
         IN /\ mat[1] \notin H /\ LabelsAfter(s)[n + 1] = H \cup {mat[1]}
            /\ Solutions(s, F, n + 1) = JoinedBy(Solutions(s, F, n), H, F[n + 1], mat)
<1> DEFINE mat == s.results[n + 1].mat
           H == LabelsAfter(s)[n]
           R == s.results
           A(k) == FirstLabel(R[k])
           B(k) == R[k].mat[2]
<1>1. n \in 1 .. Len(R) /\ n + 1 \in 1 .. Len(R) /\ n + 1 > 1 /\ n + 1 # 1 /\ (n + 1) - 1 = n
  OBVIOUS
<1>2. mat[1] \notin H
  <2>1. ResultWellFormed(s, n + 1)
    BY <1>1 DEF WellFormed
  <2> QED BY <1>1, <2>1 DEF ResultWellFormed
<1>3. LabelsAfter(s)[n + 1] = H \cup {mat[1]}
  <2>1. LabelsAfter(s)[n + 1] = NextLabels(s, n + 1, H)
    BY <1>1, LabelsAfterRight
  <2> QED BY <1>1, <2>1 DEF NextLabels
<1>4. \A k \in 1 .. n : A(k) \in H /\ B(k) \in H
  BY <1>1, KeyedLabels
<1>5. A(n + 1) = mat[1] /\ B(n + 1) = mat[2] /\ mat[2] \in H
  BY DEF FirstLabel
<1>6. Solutions(s, F, n) = {a \in [H -> Entity] : \A k \in 1 .. n : <<a[A(k)], a[B(k)]>> \in F[k]}
  BY Zenon DEF Solutions
<1>7. Solutions(s, F, n + 1) = {a \in [H \cup {mat[1]} -> Entity] : \A k \in 1 .. n + 1 : <<a[A(k)], a[B(k)]>> \in F[k]}
  BY <1>3, Zenon DEF Solutions
<1> HIDE DEF A, B, H, mat, R
<1>8. \A k \in 1 .. n + 1 : k \in 1 .. n \/ k = n + 1
  OBVIOUS
<1>9. ASSUME NEW a \in [H \cup {mat[1]} -> Entity]
      PROVE  /\ Only(a, H) \in [H -> Entity]
             /\ \A k \in 1 .. n : <<Only(a, H)[A(k)], Only(a, H)[B(k)]>> = <<a[A(k)], a[B(k)]>>
  BY <1>4 DEF Only
<1>10. ASSUME NEW a \in Solutions(s, F, n + 1) PROVE a \in JoinedBy(Solutions(s, F, n), H, F[n + 1], mat)
  <2>1. a \in [H \cup {mat[1]} -> Entity] /\ \A k \in 1 .. n + 1 : <<a[A(k)], a[B(k)]>> \in F[k]
    BY <1>7
  <2>2. \A k \in 1 .. n : <<a[A(k)], a[B(k)]>> \in F[k]
    BY <2>1
  <2>3. Only(a, H) \in Solutions(s, F, n)
    BY <1>6, <1>9, <2>1, <2>2
  <2>4. <<a[mat[1]], a[mat[2]]>> \in F[n + 1]
    BY <1>1, <1>5, <2>1
  <2> QED BY <2>1, <2>3, <2>4 DEF JoinedBy
<1>11. ASSUME NEW a \in JoinedBy(Solutions(s, F, n), H, F[n + 1], mat) PROVE a \in Solutions(s, F, n + 1)
  <2>1. a \in [H \cup {mat[1]} -> Entity] /\ Only(a, H) \in Solutions(s, F, n) /\ <<a[mat[1]], a[mat[2]]>> \in F[n + 1]
    BY DEF JoinedBy
  <2>2. \A k \in 1 .. n : <<a[A(k)], a[B(k)]>> \in F[k]
    BY <1>6, <1>9, <2>1
  <2>3. \A k \in 1 .. n + 1 : <<a[A(k)], a[B(k)]>> \in F[k]
    BY <1>5, <1>8, <2>1, <2>2
  <2> QED BY <1>7, <2>1, <2>3
<1>12. Solutions(s, F, n + 1) = JoinedBy(Solutions(s, F, n), H, F[n + 1], mat)
  BY <1>10, <1>11
<1> QED BY <1>2, <1>3, <1>12 DEF H, mat, R

\* ... or a filter.
LEMMA SolutionsKept ==
  ASSUME NEW s, WellFormed(s), Len(s.results) \in Nat, OpsRight(s), NEW F, NEW n \in 1 .. Len(s.results) - 1,
         s.results[n + 1].op = "filter"
  PROVE  /\ LabelsAfter(s)[n + 1] = LabelsAfter(s)[n]
         /\ Solutions(s, F, n + 1) = KeptBy(Solutions(s, F, n), F[n + 1], s.results[n + 1].rename, s.results[n + 1].mat[2])
<1> DEFINE H == LabelsAfter(s)[n]
           R == s.results
           A(k) == FirstLabel(R[k])
           B(k) == R[k].mat[2]
           l1 == R[n + 1].rename
           l2 == R[n + 1].mat[2]
<1>1. n \in 1 .. Len(R) /\ n + 1 \in 1 .. Len(R) /\ n + 1 # 1 /\ (n + 1) - 1 = n
  OBVIOUS
<1>3. LabelsAfter(s)[n + 1] = H
  <2>1. LabelsAfter(s)[n + 1] = NextLabels(s, n + 1, H)
    BY <1>1, LabelsAfterRight
  <2> QED BY <1>1, <2>1 DEF NextLabels
<1>5. A(n + 1) = l1 /\ B(n + 1) = l2
  BY DEF FirstLabel
<1>6. Solutions(s, F, n) = {a \in [H -> Entity] : \A k \in 1 .. n : <<a[A(k)], a[B(k)]>> \in F[k]}
  BY Zenon DEF Solutions
<1>7. Solutions(s, F, n + 1) = {a \in [H -> Entity] : \A k \in 1 .. n + 1 : <<a[A(k)], a[B(k)]>> \in F[k]}
  BY <1>3, Zenon DEF Solutions
<1> HIDE DEF A, B, H, l1, l2, R
<1>8. \A k \in 1 .. n + 1 : k \in 1 .. n \/ k = n + 1
  OBVIOUS
<1>9. \A k \in 1 .. n : k \in 1 .. n + 1
  OBVIOUS
<1>10. ASSUME NEW a PROVE a \in Solutions(s, F, n + 1) <=> a \in KeptBy(Solutions(s, F, n), F[n + 1], l1, l2)
  <2> DEFINE In(k) == <<a[A(k)], a[B(k)]>> \in F[k]
  <2>1. In(n + 1) <=> <<a[l1], a[l2]>> \in F[n + 1]
    BY <1>5
  <2>2. a \in Solutions(s, F, n + 1) <=> (a \in [H -> Entity] /\ \A k \in 1 .. n + 1 : In(k))
    BY <1>7
  <2>3. a \in Solutions(s, F, n) <=> (a \in [H -> Entity] /\ \A k \in 1 .. n : In(k))
    BY <1>6
  <2> HIDE DEF In
  <2>4. (\A k \in 1 .. n + 1 : In(k)) <=> (\A k \in 1 .. n : In(k)) /\ In(n + 1)
    BY <1>8, <1>9
  <2>5. a \in KeptBy(Solutions(s, F, n), F[n + 1], l1, l2) <=> (a \in Solutions(s, F, n) /\ In(n + 1))
    BY <2>1 DEF KeptBy
  <2> QED BY <2>2, <2>3, <2>4, <2>5
<1>12. Solutions(s, F, n + 1) = KeptBy(Solutions(s, F, n), F[n + 1], l1, l2)
  BY <1>10
<1> QED BY <1>3, <1>12 DEF H, l1, l2, R

\* The rows are as wide as the columns.
LEMMA RowsWide ==
  ASSUME NEW H, NEW S \in SUBSET [H -> Entity], NEW L, Len(L) \in Nat, \A i \in 1 .. Len(L) : L[i] \in H
  PROVE  RowsOf(L, S) \in SUBSET Width(Len(L))
<1> SUFFICES ASSUME NEW r \in RowsOf(L, S) PROVE r \in Width(Len(L))
  OBVIOUS
<1>1. PICK a \in S : r = RowAt(L, a)
  BY Zenon DEF RowsOf
<1>2. a \in [H -> Entity]
  OBVIOUS
<1>3. \A i \in 1 .. Len(L) : a[L[i]] \in Entity
  BY <1>2
<1> QED BY <1>1, <1>3 DEF RowAt, Width

\* Solutions assign entities to the labels of the table.
LEMMA SolutionsType ==
  ASSUME NEW s, NEW F, NEW n
  PROVE  Solutions(s, F, n) \in SUBSET [LabelsAfter(s)[n] -> Entity]
BY DEF Solutions

\* What the lemmas on rows need and say, in a word each.
Among(L, H) == Len(L) \in Nat /\ \A i \in 1 .. Len(L) : L[i] \in H
Unchanging(order, w) == IsOrder(order, w) /\ Len(order) = w /\ \A i \in 1 .. w : order[i] = <<0, i - 1>>
Apart(new, L, mat, T) ==
  \A a, b \in T : RowAt(new, a) = RowAt(new, b) => a[mat[1]] = b[mat[1]] /\ \A j \in 1 .. Len(L) : a[L[j]] = b[L[j]]
PutInto(order, M, L, T) == Put(order, M) = RowsOf(L, T) /\ Distinct(order, M) /\ Told(L, T)

\* The rows of a join are those of the extended assignments.
LEMMA JoinPuts ==
  ASSUME NEW H, NEW S, S \in SUBSET [H -> Entity], NEW m, m \in SUBSET Pair, NEW mat, mat[1] \notin H,
         NEW L, Among(L, H), Told(L, S), NEW p, p \in 1 .. Len(L), L[p] = mat[2],
         NEW order, NEW new, OrderRight(L, order, mat, new), NEW T, T = JoinedBy(S, H, m, mat), Apart(new, L, mat, T)
  PROVE  PutInto(order, Met(RowsOf(L, S), m, p), new, T)
<1>1. Len(L) \in Nat /\ \A i \in 1 .. Len(L) : L[i] \in H
  BY DEF Among
<1>2. \A a, b \in JoinedBy(S, H, m, mat) :
        RowAt(new, a) = RowAt(new, b) => a[mat[1]] = b[mat[1]] /\ \A j \in 1 .. Len(L) : a[L[j]] = b[L[j]]
  BY DEF Apart
<1>3. /\ Put(order, Met(RowsOf(L, S), m, p)) = RowsOf(new, JoinedBy(S, H, m, mat))
      /\ Distinct(order, Met(RowsOf(L, S), m, p))
      /\ Told(new, JoinedBy(S, H, m, mat))
  BY <1>1, <1>2, JoinRows
<1> QED BY <1>3 DEF PutInto

\* The rows of a filter are those of the assignments that it keeps.
LEMMA FilterPuts ==
  ASSUME NEW H, NEW S, S \in SUBSET [H -> Entity], NEW m, m \in SUBSET Pair, NEW mat,
         NEW L, Among(L, H), Told(L, S), NEW p, p \in 1 .. Len(L), L[p] = mat[2], NEW k, k \in 1 .. Len(L),
         NEW order, Unchanging(order, Len(L)), NEW T, T = KeptBy(S, m, L[k], mat[2])
  PROVE  PutInto(order, Agreeing(Met(RowsOf(L, S), m, p), k), L, T)
<1>1. Len(L) \in Nat /\ \A i \in 1 .. Len(L) : L[i] \in H
  BY DEF Among
<1>2. IsOrder(order, Len(L)) /\ Len(order) = Len(L) /\ \A i \in 1 .. Len(L) : order[i] = <<0, i - 1>>
  BY DEF Unchanging
<1>3. /\ Put(order, Agreeing(Met(RowsOf(L, S), m, p), k)) = RowsOf(L, KeptBy(S, m, L[k], mat[2]))
      /\ Distinct(order, Agreeing(Met(RowsOf(L, S), m, p), k))
      /\ Told(L, KeptBy(S, m, L[k], mat[2]))
  BY <1>1, <1>2, FilterRows
<1> QED BY <1>3 DEF PutInto

\* The first line's table.
LEMMA TableBegins ==
  ASSUME NEW s, WellFormed(s), Len(s.results) \in Nat \ {0}, NEW F, F[1] \in SUBSET Pair
  PROVE  TableOf(s, F, 1, <<s.results[1].mat[2], s.results[1].mat[1]>>, FirstTable(F[1]))
<1> DEFINE mat == s.results[1].mat
           L == <<mat[2], mat[1]>>
           T == {a \in [{mat[1], mat[2]} -> Entity] : <<a[mat[1]], a[mat[2]]>> \in F[1]}
<1>1. ResultWellFormed(s, 1)
  BY DEF WellFormed
<1>2. s.results[1].op # "filter" /\ mat[1] # mat[2]
  BY <1>1 DEF ResultWellFormed
<1>3. LabelsAfter(s)[1] = {mat[1], mat[2]}
  <2>1. LabelsAfter(s)[1] = NextLabels(s, 1, LabelsAfter(s)[1 - 1])
    BY LabelsAfterRight
  <2> QED BY <2>1 DEF NextLabels
<1>4. FirstLabel(s.results[1]) = mat[1]
  BY <1>2 DEF FirstLabel
<1>5. Solutions(s, F, 1) = T
  <2>1. 1 .. 1 = {1}
    BY SMTT(30)
  <2> QED BY <1>3, <1>4, <2>1, SMTT(30) DEF Solutions
<1>6. RG!Transpose(F[1]) = RowsOf(L, T) /\ Told(L, T)
  BY <1>2, FirstRows
<1>7. Holds(FirstTable(F[1]), RG!Transpose(F[1]))
  BY FirstRight
<1>8. Keyed(s, 1)
  BY DEF Keyed
<1>9. Len(L) \in Nat /\ \A i \in 1 .. Len(L) : L[i] \in LabelsAfter(s)[1]
  <2>1. Len(L) = 2 /\ L[1] = mat[2] /\ L[2] = mat[1]
    OBVIOUS
  <2> HIDE DEF L, mat
  <2>2. \A i \in 1 .. 2 : i = 1 \/ i = 2
    OBVIOUS
  <2> QED BY <1>3, <2>1, <2>2
<1> HIDE DEF L, T
<1>10. TableOf(s, F, 1, L, FirstTable(F[1]))
  BY <1>5, <1>6, <1>7, <1>8, <1>9 DEF TableOf
<1> QED BY <1>10 DEF L

\* A line with a key keeps that every line had one.
LEMMA KeyedOn ==
  ASSUME NEW s, NEW n \in Nat \ {0}, Keyed(s, n), s.results[n + 1].mat[2] \in LabelsAfter(s)[n]
  PROVE  Keyed(s, n + 1)
<1>1. (n + 1) - 1 = n
  OBVIOUS
<1> SUFFICES ASSUME NEW k \in 2 .. n + 1 PROVE s.results[k].mat[2] \in LabelsAfter(s)[k - 1]
  BY DEF Keyed
<1>2. k \in 2 .. n \/ k = n + 1
  OBVIOUS
<1> QED BY <1>1, <1>2 DEF Keyed

\* Labels without a column have one entity only; the others all have one.
OneEntityEach(lost, S) == \A x \in lost : \A a, b \in S : a[x] = b[x]
HaveLabels(new, lost, L, mat) == HasLabel(new, lost, mat[1]) /\ \A j \in 1 .. Len(L) : HasLabel(new, lost, L[j])

\* A join's, where the labels that get no column have one entity only.
LEMMA TableJoins ==
  ASSUME NEW s, WellFormed(s), Len(s.results) \in Nat, OpsRight(s), NEW F, NEW n \in 1 .. Len(s.results) - 1,
         F[n + 1] \in SUBSET Pair,
         s.results[n + 1].op = "join",
         NEW L, NEW t, TableOf(s, F, n, L, t),
         NEW p \in 1 .. Len(L), L[p] = s.results[n + 1].mat[2],
         NEW order, NEW new, OrderRight(L, order, s.results[n + 1].mat, new),
         NEW u, IsTable(u, Len(L)), AlignedOn(u, p), \A R : Holds(t, R) => Holds(u, R),
         NEW lost, OneEntityEach(lost, Solutions(s, F, n + 1)), HaveLabels(new, lost, L, s.results[n + 1].mat)
  PROVE  TableOf(s, F, n + 1, new, JoinedTable(u, F[n + 1], p, order))
<1> DEFINE mat == s.results[n + 1].mat
           H == LabelsAfter(s)[n]
           S == Solutions(s, F, n)
           T == Solutions(s, F, n + 1)
           m == F[n + 1]
<1>1. Keyed(s, n) /\ Len(L) \in Nat /\ (\A i \in 1 .. Len(L) : L[i] \in H) /\ Holds(t, RowsOf(L, S)) /\ Told(L, S)
  BY DEF TableOf
<1>2. mat[2] \in H
  BY <1>1
<1>3. mat[1] \notin H /\ LabelsAfter(s)[n + 1] = H \cup {mat[1]} /\ T = JoinedBy(S, H, m, mat)
  BY <1>1, <1>2, SolutionsJoined
<1>4. S \in SUBSET [H -> Entity]
  BY SolutionsType
<1>5. Keyed(s, n + 1)
  BY <1>1, <1>2, KeyedOn
<1>6. /\ IsOrder(order, Len(L)) /\ Len(new) = Len(order)
      /\ \A i \in 1 .. Len(new) : new[i] = IF order[i][1] = 0 THEN L[order[i][2] + 1] ELSE mat[order[i][2] + 1]
  BY DEF OrderRight
<1>7. /\ IsSequence(order) /\ Len(order) \in Nat
      /\ \A i \in 1 .. Len(order) : order[i] \in ({0} \X (0 .. Len(L) - 1)) \cup ({1} \X {0, 1})
  BY <1>6 DEF IsOrder, IsSequence
<1>8. \A i \in 1 .. Len(new) : new[i] \in H \cup {mat[1]}
  <2> SUFFICES ASSUME NEW i \in 1 .. Len(new) PROVE new[i] \in H \cup {mat[1]}
    BY SMTT(30)
  <2>1. order[i] \in ({0} \X (0 .. Len(L) - 1)) \cup ({1} \X {0, 1})
    BY <1>6, <1>7
  <2>2. CASE order[i] \in {0} \X (0 .. Len(L) - 1)
    <3>1. order[i][1] = 0 /\ order[i][2] \in 0 .. Len(L) - 1
      BY <2>2
    <3>2. order[i][2] + 1 \in 1 .. Len(L)
      BY <1>1, <3>1, SMTT(30)
    <3>3. new[i] = L[order[i][2] + 1]
      BY <1>6, <3>1
    <3> QED BY <1>1, <3>2, <3>3
  <2>3. CASE order[i] \in {1} \X {0, 1}
    <3>1. order[i][1] = 1 /\ order[i][2] \in {0, 1}
      BY <2>3
    <3>2. new[i] = mat[order[i][2] + 1]
      BY <1>6, <3>1
    <3>3. order[i][2] + 1 \in {1, 2}
      BY <3>1
    <3> HIDE DEF mat
    <3>4. new[i] \in {mat[1], mat[2]}
      BY <3>2, <3>3
    <3> QED BY <1>2, <3>4
  <2> QED BY <2>1, <2>2, <2>3
<1>9. ASSUME NEW a \in T, NEW b \in T, RowAt(new, a) = RowAt(new, b)
      PROVE  a[mat[1]] = b[mat[1]] /\ \A j \in 1 .. Len(L) : a[L[j]] = b[L[j]]
  <2>1. ASSUME NEW x, HasLabel(new, lost, x) PROVE a[x] = b[x]
    <3>1. CASE x \in lost
      BY <3>1 DEF OneEntityEach
    <3>2. CASE \E i \in 1 .. Len(new) : new[i] = x
      <4>1. PICK i \in 1 .. Len(new) : new[i] = x
        BY <3>2
      <4>2. RowAt(new, a)[i] = a[x] /\ RowAt(new, b)[i] = b[x]
        BY <4>1 DEF RowAt
      <4> QED BY <1>9, <4>2
    <3> QED BY <2>1, <3>1, <3>2 DEF HasLabel
  <2> QED BY <2>1 DEF HaveLabels
<1> HIDE DEF H, S, T, m, mat
<1>10. PutInto(order, Met(RowsOf(L, S), m, p), new, T)
  <2>1. m \in SUBSET Pair /\ L[p] = mat[2] /\ OrderRight(L, order, mat, new)
    BY DEF m, mat
  <2>2. Among(L, H) /\ Apart(new, L, mat, T)
    BY <1>1, <1>9 DEF Among, Apart
  <2> QED BY <1>1, <1>3, <1>4, <2>1, <2>2, JoinPuts
<1>11. Holds(JoinedTable(u, m, p, order), RowsOf(new, T))
  <2>1. m \in SUBSET Pair
    BY DEF m
  <2>2. RowsOf(L, S) \in SUBSET Width(Len(L))
    BY <1>1, <1>4, RowsWide
  <2>3. Holds(u, RowsOf(L, S))
    BY <1>1
  <2>4. \A R \in SUBSET Width(Len(L)) : Holds(u, R) /\ Distinct(order, Met(R, m, p)) =>
          Holds(JoinedTable(u, m, p, order), Put(order, Met(R, m, p)))
    BY <1>1, <1>6, <2>1, JoinRight
  <2>5. Put(order, Met(RowsOf(L, S), m, p)) = RowsOf(new, T) /\ Distinct(order, Met(RowsOf(L, S), m, p))
    BY <1>10 DEF PutInto
  <2> QED BY <2>2, <2>3, <2>4, <2>5, Zenon
<1>12. Len(new) \in Nat /\ \A i \in 1 .. Len(new) : new[i] \in LabelsAfter(s)[n + 1]
  BY <1>3, <1>6, <1>7, <1>8
<1>13. Told(new, T)
  BY <1>10 DEF PutInto
<1> QED BY <1>5, <1>11, <1>12, <1>13 DEF TableOf, T, m

\* A filter's.
LEMMA TableFilters ==
  ASSUME NEW s, WellFormed(s), Len(s.results) \in Nat, OpsRight(s), NEW F, NEW n \in 1 .. Len(s.results) - 1,
         F[n + 1] \in SUBSET Pair,
         s.results[n + 1].op = "filter",
         NEW L, NEW t, TableOf(s, F, n, L, t),
         NEW p \in 1 .. Len(L), L[p] = s.results[n + 1].mat[2],
         NEW k \in 1 .. Len(L), L[k] = s.results[n + 1].rename,
         NEW order, IsOrder(order, Len(L)), Len(order) = Len(L), \A i \in 1 .. Len(L) : order[i] = <<0, i - 1>>,
         NEW u, IsTable(u, Len(L)), AlignedOn(u, p), \A R : Holds(t, R) => Holds(u, R)
  PROVE  TableOf(s, F, n + 1, L, FilteredTable(u, F[n + 1], p, k, order))
<1> DEFINE mat == s.results[n + 1].mat
           H == LabelsAfter(s)[n]
           S == Solutions(s, F, n)
           T == Solutions(s, F, n + 1)
           m == F[n + 1]
<1>1. Keyed(s, n) /\ Len(L) \in Nat /\ (\A i \in 1 .. Len(L) : L[i] \in H) /\ Holds(t, RowsOf(L, S)) /\ Told(L, S)
  BY DEF TableOf
<1>2. mat[2] \in H
  BY <1>1
<1>3. LabelsAfter(s)[n + 1] = H /\ T = KeptBy(S, m, L[k], mat[2])
  <2>1. LabelsAfter(s)[n + 1] = H /\ T = KeptBy(S, m, s.results[n + 1].rename, mat[2])
    BY SolutionsKept, ZenonT(30)
  <2> QED BY <2>1
<1>4. S \in SUBSET [H -> Entity]
  BY SolutionsType
<1>5. Keyed(s, n + 1)
  BY <1>1, <1>2, KeyedOn
<1> HIDE DEF H, S, T, m, mat
<1>10. PutInto(order, Agreeing(Met(RowsOf(L, S), m, p), k), L, T)
  <2>1. m \in SUBSET Pair /\ L[p] = mat[2]
    BY DEF m, mat
  <2>2. Among(L, H) /\ Unchanging(order, Len(L))
    BY <1>1 DEF Among, Unchanging
  <2> QED BY <1>1, <1>3, <1>4, <2>1, <2>2, FilterPuts
<1>11. Holds(FilteredTable(u, m, p, k, order), RowsOf(L, T))
  <2>1. m \in SUBSET Pair
    BY DEF m
  <2>2. RowsOf(L, S) \in SUBSET Width(Len(L))
    BY <1>1, <1>4, RowsWide
  <2>3. Holds(u, RowsOf(L, S))
    BY <1>1
  <2>4. \A R \in SUBSET Width(Len(L)) : Holds(u, R) /\ Distinct(order, Agreeing(Met(R, m, p), k)) =>
          Holds(FilteredTable(u, m, p, k, order), Put(order, Agreeing(Met(R, m, p), k)))
    BY <1>1, <2>1, FilterRight
  <2>5. Put(order, Agreeing(Met(RowsOf(L, S), m, p), k)) = RowsOf(L, T) /\ Distinct(order, Agreeing(Met(RowsOf(L, S), m, p), k))
    BY <1>10 DEF PutInto
  <2> QED BY <2>2, <2>3, <2>4, <2>5, Zenon
<1>13. Told(L, T)
  BY <1>10 DEF PutInto
<1> QED BY <1>1, <1>3, <1>5, <1>11, <1>13 DEF TableOf, T, m

\* The lines of the result generation are of these forms, in a file and in the code.
LEMMA OpsHold ==
  ASSUME IInv, Shape
  PROVE  OpsRight(script)
<1>1. CASE script.program = "magiqParse"
  <2>1. script.results \in Seq(ResultForms)
    BY <1>1, QueryRight
  <2>2. \A k \in 1 .. Len(script.results) : script.results[k] \in ResultForms
    BY <2>1
  <2>3. Len(script.results) \in Nat
    BY QueryRight
  <2> QED BY <2>2, <2>3, SMTT(30) DEF OpsRight, ResultForms
<1>2. CASE \E k \in DOMAIN LubmQueries : script = LubmQueries[k]
  <2>1. PICK k \in DOMAIN LubmQueries : script = LubmQueries[k]
    BY <1>2
  <2>2. CallsRight(Lost(k), script.results, LubmColumns[k])
    BY <2>1, CallsAreRight
  <2>3. Len(script.results) \in Nat
    BY QueryRight
  <2>4. \A i \in 2 .. Len(script.results) : script.results[i].op \in {"join", "filter"}
    BY <2>2 DEF CallsRight, CallRight
  <2>5. Len(script.results) > 0 => script.results[1].op = "transposed"
    BY <2>2 DEF CallsRight
  <2>6. \A i \in 1 .. Len(script.results) : i = 1 \/ i \in 2 .. Len(script.results)
    BY <2>3
  <2> QED BY <2>3, <2>4, <2>5, <2>6 DEF OpsRight
<1> QED BY <1>1, <1>2 DEF Shape

\* A label of the code without a column has a constant in the execution.
FixedBy(s, x, r, i) ==
  /\ r \in {1, 2} /\ r \in 1 .. Len(s.results) /\ s.results[r].op # "filter"
  /\ i \in 1 .. Len(s.lines) /\ s.lines[i].mat = s.results[r].mat /\ s.lines[i].op # "malformed"
  /\ s.lines[i].diag.kind = "constant" /\ x = Restricted(s.lines[i])

\* The first of two sequences has the first element.
LEMMA FirstOfChained ==
  ASSUME NEW A, NEW B, IsSequence(A), IsSequence(B), Len(A) > 0
  PROVE  (A \o B)[1] = A[1] /\ 1 \in 1 .. Len(A \o B)
<1>1. Len(A \o B) = Len(A) + Len(B) /\ Len(A) \in Nat /\ Len(B) \in Nat
  BY Chained
<1>2. \A j \in 1 .. Len(A) : (A \o B)[j] = A[j]
  BY Chained
<1> QED BY <1>1, <1>2

\* Each label without a column is such a label.
LEMMA LostConstant ==
  ASSUME NEW k \in DOMAIN LubmQueries, NEW x \in Lost(k)
  PROVE  \E r, i : FixedBy(LubmQueries[k], x, r, i)
<1>1. k = 1 \/ k = 5
  BY DEF Lost
<1>2. CASE k = 1
  <2>1. x = 0
    BY <1>2 DEF Lost
  <2>2. LubmQueries[k] = Hard(lubm_l1_find \o lubm_l1_restrict, resgen_l1)
    BY <1>2, SMT DEF LubmQueries
  <2>3. LubmQueries[k].lines = lubm_l1_find \o lubm_l1_restrict /\ LubmQueries[k].results = resgen_l1
    BY <2>2, SMT DEF Hard
  <2> DEFINE l == lubm_l1_find[1]
             y == Pos[103594630]
  <2>a. l = FromG(<<4, 0>>, I(y, 17))
    BY SMT DEF lubm_l1_find
  <2> HIDE DEF y, l
  <2>4. Len(lubm_l1_find) = 8 /\ IsSequence(lubm_l1_find)
    BY SMT DEF lubm_l1_find, IsSequence
  <2>5. IsSequence(lubm_l1_restrict)
    BY SMT DEF lubm_l1_restrict, IsSequence
  <2>6. /\ (lubm_l1_find \o lubm_l1_restrict)[1] = l
        /\ 1 \in 1 .. Len(lubm_l1_find \o lubm_l1_restrict)
    <3>1. Len(lubm_l1_find) > 0
      BY <2>4
    <3> QED BY <2>4, <2>5, <3>1, FirstOfChained DEF l
  <2>7. resgen_l1[1] = First(<<4, 0>>) /\ Len(resgen_l1) = 6
    BY SMT DEF resgen_l1
  <2>8. resgen_l1[1].op # "filter" /\ resgen_l1[1].mat = <<4, 0>>
    BY <2>7 DEF First
  <2>9. l.op = "select" /\ l.mat = <<4, 0>> /\ l.diag.kind = "constant"
    BY <2>a DEF FromG, Ln, I
  <2>10. Restricted(l) = 0
    BY <2>9 DEF Restricted
  <2>11. LubmQueries[k].lines[1] = l /\ 1 \in 1 .. Len(LubmQueries[k].lines)
    BY <2>3, <2>6
  <2>12. FixedBy(LubmQueries[k], x, 1, 1)
    <3>1. 1 \in 1 .. Len(LubmQueries[k].results)
      BY <2>3, <2>7
    <3> QED BY <2>1, <2>3, <2>8, <2>9, <2>10, <2>11, <3>1 DEF FixedBy
  <2> QED BY <2>12
<1>3. CASE k = 5
  <2>1. x = 1
    BY <1>3 DEF Lost
  <2>2. LubmQueries[k] = Hard(lubm_l5, resgen_l5)
    BY <1>3, SMT DEF LubmQueries
  <2>3. LubmQueries[k].lines = lubm_l5 /\ LubmQueries[k].results = resgen_l5
    BY <2>2, SMT DEF Hard
  <2> DEFINE l == lubm_l5[3]
             y == Pos[2808777]
  <2>4. l = Left(I(y, 1), <<1, 2>>) /\ Len(lubm_l5) = 4
    BY SMT DEF lubm_l5
  <2> HIDE DEF y, l
  <2>7. resgen_l5[2] = Jn(<<1, 2>>, -1, 1, <<Old(1), NewKey, Old(0)>>, TRUE) /\ Len(resgen_l5) = 2
    BY SMT DEF resgen_l5
  <2>8. resgen_l5[2].op # "filter" /\ resgen_l5[2].mat = <<1, 2>>
    BY <2>7, SMT DEF Jn
  <2>9. l.op = "left" /\ l.mat = <<1, 2>> /\ l.diag.kind = "constant"
    BY <2>4 DEF Left, Ln, I
  <2>10. Restricted(l) = 1
    BY <2>9 DEF Restricted
  <2>11. LubmQueries[k].lines[3] = l /\ 3 \in 1 .. Len(LubmQueries[k].lines)
    BY <2>3, <2>4 DEF l
  <2>12. FixedBy(LubmQueries[k], x, 2, 3)
    <3>1. 2 \in 1 .. Len(LubmQueries[k].results)
      BY <2>3, <2>7
    <3> QED BY <2>1, <2>3, <2>8, <2>9, <2>10, <2>11, <3>1 DEF FixedBy
  <2> QED BY <2>12
<1> QED BY <1>1, <1>2, <1>3

\* So all assignments have that entity.
LEMMA LostFixed ==
  ASSUME IInv, Shape, FoundSound, InGeneration,
         NEW n \in 2 .. Len(script.results), NEW x, NEW r, NEW i, FixedBy(script, x, r, i), NEW a \in Solutions(script, found, n)
  PROVE  a[x] = Constant(script.lines[i].diag.pos)
<1>2. Len(script.results) \in Nat
  BY QueryRight
<1> DEFINE l == script.lines[i]
           e == <<a[l.mat[1]], a[l.mat[2]]>>
<1>3. r \in 1 .. n /\ r \in 1 .. Len(script.results) /\ i \in 1 .. Len(script.lines) /\ l.mat = script.results[r].mat
      /\ l.diag.kind = "constant" /\ x = Restricted(l)
  BY <1>2 DEF FixedBy
<1>4. FirstLabel(script.results[r]) = script.results[r].mat[1]
  BY DEF FixedBy, FirstLabel
<1>5. e \in found[r]
  <2>1. <<a[FirstLabel(script.results[r])], a[script.results[r].mat[2]]>> \in found[r]
    BY <1>3 DEF Solutions
  <2> QED BY <1>3, <1>4, <2>1
<1>6. FoundAsks(l, e)
  BY <1>3, <1>5 DEF FoundSound
<1>7. AsksFor(l, e)
  BY <1>3, <1>6 DEF FoundAsks
<1>8. Coordinate(l, e) = Constant(l.diag.pos)
  BY <1>3, <1>7 DEF AsksFor
<1>9. Coordinate(l, e) = a[Restricted(l)]
  BY DEF Coordinate, Restricted
<1> QED BY <1>3, <1>8, <1>9

-----------------------------------------------------------------------------
(* The steps of the result generation keep what the table has. *)

\* One more line is applied.
LEMMA OneMore ==
  ASSUME IsSequence(applied), applied' = Append(applied, resLine)
  PROVE  Len(applied') = Len(applied) + 1 /\ Len(applied) \in Nat
BY Appended DEF IsSequence

\* The first line of a query from a file.
LEMMA FirstContent ==
  ASSUME IInv, Shape, Generating, UNCHANGED execution, phase' = phase, RG!FirstJoin
  PROVE  Content'
<1>1. /\ resLine \in 1 .. Len(script.results) /\ found[resLine] \in SUBSET Pair /\ ParseShape /\ WellFormed(script)
      /\ Len(script.results) \in Nat
  BY GeneratingRight
<1>2. /\ labels = <<>> /\ labels' = <<Call.mat[2], Call.mat[1]>>
      /\ indl' = FirstTable(found[resLine]) /\ applied' = Append(applied, resLine)
      /\ resLine' = resLine + 1 /\ found' = found /\ script' = script
      /\ nres' = RG!TotalRows(FirstTable(found[resLine]))
  BY DEF RG!FirstJoin, RG!Mat, RG!Advance, Call, FirstTable, execution
<1>3. resLine = 1 /\ applied = <<>>
  BY <1>1, <1>2 DEF ParseShape
<1>4. TableOf(script, found, 1, labels', indl')
  <2>1. Len(script.results) \in Nat \ {0} /\ found[1] \in SUBSET Pair
    BY <1>1, <1>3
  <2>2. TableOf(script, found, 1, <<script.results[1].mat[2], script.results[1].mat[1]>>, FirstTable(found[1]))
    BY <1>1, <2>1, TableBegins
  <2> QED BY <1>2, <1>3, <2>2 DEF Call
<1>5. Len(applied') = 1 /\ resLine' = 2 /\ resLine' - 1 = 1 /\ resLine' > 1
  <2>1. Len(applied') = 1
    BY <1>2, <1>3
  <2> QED BY <1>2, <1>3, <2>1
<1>6. nres' = RG!TotalRows(indl')
  BY <1>2
<1>7. (RG!TotalRows(indl))' = RG!TotalRows(indl')
  OBVIOUS
<1> QED BY <1>2, <1>4, <1>5, <1>6, <1>7 DEF Content

\* A line that is dropped.
LEMMA NoKeyContent ==
  ASSUME IInv, Shape, Content, Generating, RG!NoKey
  PROVE  Content'
<1>1. resLine \in 1 .. Len(script.results) /\ Len(applied) <= resLine - 1 /\ IsSequence(applied)
  BY GeneratingRight DEF Content, InGeneration, Generating
<1>2. applied' = applied /\ resLine' = resLine + 1 /\ Len(applied) \in Nat
  BY <1>1 DEF RG!NoKey, RG!Advance, IsSequence
<1>3. Len(applied') <= resLine' - 1 /\ Len(applied') # resLine' - 1
  BY <1>1, <1>2
<1> QED BY <1>3 DEF Content

\* A join.
LEMMA JoinContent ==
  ASSUME IInv, Shape, Content, Generating, UNCHANGED execution, RG!Join
  PROVE  Content'
<1> DEFINE n == resLine - 1
<1>1. /\ Call.op = "join" /\ Lists(NewColumns, Had \cup {Call.mat[1]})
      /\ OrderRight(labels, NewOrder, Call.mat, NewColumns)
      /\ labels' = NewColumns
      /\ indl' = JoinedTable(RG!Distributed, found[resLine], KeyPlace, NewOrder)
      /\ nres' = RG!TotalRows(indl')
      /\ resLine' = resLine + 1 /\ found' = found /\ applied' = Append(applied, resLine)
  BY JoinLine
<1>2. RG!HasKey /\ script' = script
  BY DEF RG!Join, execution
<1>3. /\ resLine > 1 /\ KeyPlace \in 1 .. Len(labels) /\ labels[KeyPlace] = Call.mat[2] /\ Lists(labels, Had)
      /\ IsTable(RG!Distributed, Len(labels)) /\ AlignedOn(RG!Distributed, KeyPlace)
      /\ \A R : Holds(indl, R) => Holds(RG!Distributed, R)
  BY <1>2, DistributedRight DEF KeyPlace
<1>4. /\ found[resLine] \in SUBSET Pair /\ resLine \in 1 .. Len(script.results) /\ WellFormed(script)
      /\ Len(script.results) \in Nat /\ IsSequence(applied)
  BY GeneratingRight
<1>5. Len(applied) <= resLine - 1 /\ (Len(applied) = resLine - 1 => TableOf(script, found, n, labels, indl))
  BY <1>3 DEF Content, InGeneration, Generating
<1>6. Len(applied') = Len(applied) + 1 /\ Len(applied) \in Nat
  BY <1>1, <1>4, OneMore
<1>7. n \in 1 .. Len(script.results) - 1 /\ n + 1 = resLine /\ resLine' - 1 = n + 1
  BY <1>1, <1>3, <1>4
<1>8. ASSUME Len(applied) = resLine - 1 PROVE TableOf(script, found, n + 1, labels', indl')
  <2>1. TableOf(script, found, n, labels, indl)
    BY <1>5, <1>8
  <2>2. OpsRight(script)
    BY OpsHold
  <2>3. HaveLabels(NewColumns, {}, labels, Call.mat)
    BY <1>1, <1>3 DEF Lists, HasLabel, HaveLabels
  <2>4. OneEntityEach({}, Solutions(script, found, n + 1))
    BY DEF OneEntityEach
  <2>5. script.results[n + 1] = Call /\ found[n + 1] = found[resLine]
    BY <1>7 DEF Call
  <2> HIDE DEF n
  <2>6. TableOf(script, found, n + 1, NewColumns, JoinedTable(RG!Distributed, found[n + 1], KeyPlace, NewOrder))
    BY <1>1, <1>3, <1>4, <1>7, <2>1, <2>2, <2>3, <2>4, <2>5, TableJoins
  <2> QED BY <1>1, <2>5, <2>6
<1>9. Len(applied') <= resLine' - 1 /\ (Len(applied') = resLine' - 1 => Len(applied) = resLine - 1)
  BY <1>1, <1>4, <1>5, <1>6
<1>10. (RG!TotalRows(indl))' = RG!TotalRows(indl')
  OBVIOUS
<1> QED BY <1>1, <1>2, <1>7, <1>8, <1>9, <1>10 DEF Content

\* A filter.
LEMMA FilterContent ==
  ASSUME IInv, Shape, Content, Generating, UNCHANGED execution, RG!Filter
  PROVE  Content'
<1> DEFINE n == resLine - 1
           order == OldColumns(labels)
<1>1. /\ Call.op = "filter" /\ RG!HasKey /\ RenamePlace \in 1 .. Len(labels) /\ labels[RenamePlace] = Call.rename
      /\ IsOrder(order, Len(labels)) /\ Len(order) = Len(labels)
      /\ \A i \in 1 .. Len(labels) : order[i] = <<0, i - 1>>
      /\ labels' = labels
      /\ indl' = FilteredTable(RG!Distributed, found[resLine], KeyPlace, RenamePlace, order)
      /\ nres' = RG!TotalRows(indl')
      /\ resLine' = resLine + 1 /\ found' = found /\ applied' = Append(applied, resLine)
  BY FilterLine
<1>2. script' = script
  BY DEF execution
<1>3. /\ resLine > 1 /\ KeyPlace \in 1 .. Len(labels) /\ labels[KeyPlace] = Call.mat[2]
      /\ IsTable(RG!Distributed, Len(labels)) /\ AlignedOn(RG!Distributed, KeyPlace)
      /\ \A R : Holds(indl, R) => Holds(RG!Distributed, R)
  BY <1>1, DistributedRight DEF KeyPlace
<1>4. /\ found[resLine] \in SUBSET Pair /\ resLine \in 1 .. Len(script.results) /\ WellFormed(script)
      /\ Len(script.results) \in Nat /\ IsSequence(applied)
  BY GeneratingRight
<1>5. Len(applied) <= resLine - 1 /\ (Len(applied) = resLine - 1 => TableOf(script, found, n, labels, indl))
  BY <1>3 DEF Content, InGeneration, Generating
<1>6. Len(applied') = Len(applied) + 1 /\ Len(applied) \in Nat
  BY <1>1, <1>4, OneMore
<1>7. n \in 1 .. Len(script.results) - 1 /\ n + 1 = resLine /\ resLine' - 1 = n + 1
  BY <1>1, <1>3, <1>4
<1>8. ASSUME Len(applied) = resLine - 1 PROVE TableOf(script, found, n + 1, labels', indl')
  <2>1. TableOf(script, found, n, labels, indl)
    BY <1>5, <1>8
  <2>2. OpsRight(script)
    BY OpsHold
  <2>5. script.results[n + 1] = Call /\ found[n + 1] = found[resLine]
    BY <1>7 DEF Call
  <2> HIDE DEF n, order
  <2>6. TableOf(script, found, n + 1, labels, FilteredTable(RG!Distributed, found[n + 1], KeyPlace, RenamePlace, order))
    BY <1>1, <1>3, <1>4, <1>7, <2>1, <2>2, <2>5, TableFilters
  <2> QED BY <1>1, <2>5, <2>6
<1>9. Len(applied') <= resLine' - 1 /\ (Len(applied') = resLine' - 1 => Len(applied) = resLine - 1)
  BY <1>1, <1>4, <1>5, <1>6
<1>10. (RG!TotalRows(indl))' = RG!TotalRows(indl')
  OBVIOUS
<1> QED BY <1>1, <1>2, <1>7, <1>8, <1>9, <1>10 DEF Content

\* The first call of a query in the code.
LEMMA FirstCallContent ==
  ASSUME IInv, Shape, NEW k, Calling(k), TakeTransposed
  PROVE  Content'
<1>1. /\ resLine = 1 /\ found[1] \in SUBSET Pair /\ Take(FirstTable(found[1]))
      /\ labels' = <<Call.mat[2], Call.mat[1]>>
  BY FirstCall
<1>2. WellFormed(script) /\ Len(script.results) \in Nat /\ resLine \in 1 .. Len(script.results) /\ CodeShape(k)
      /\ IsSequence(applied)
  BY CallingRight
<1>3. /\ indl' = FirstTable(found[1]) /\ applied' = Append(applied, resLine) /\ resLine' = resLine + 1
      /\ found' = found /\ script' = script
  BY <1>1 DEF Take, execution
<1>4. TableOf(script, found, 1, labels', indl')
  <2>1. Len(script.results) \in Nat \ {0}
    BY <1>1, <1>2
  <2>2. TableOf(script, found, 1, <<script.results[1].mat[2], script.results[1].mat[1]>>, FirstTable(found[1]))
    BY <1>1, <1>2, <2>1, TableBegins
  <2> QED BY <1>1, <1>3, <2>2 DEF Call
<1>5. Len(applied') = 1 /\ resLine' = 2 /\ resLine' - 1 = 1 /\ ~(resLine' > 2)
  <2>1. applied = [i \in 1 .. resLine - 1 |-> i]
    BY <1>2 DEF CodeShape
  <2>2. Len(applied) = 0
    <3>1. 1 .. resLine - 1 = {}
      BY <1>1
    <3>2. Len(applied) \in Nat /\ DOMAIN applied = 1 .. Len(applied)
      BY <1>2 DEF IsSequence
    <3>3. DOMAIN applied = {}
      BY <2>1, <3>1
    <3>4. 1 \notin 1 .. Len(applied)
      BY <3>2, <3>3
    <3> QED BY <3>2, <3>4
  <2>3. Len(applied') = Len(applied) + 1
    BY <1>2, <1>3, OneMore
  <2> QED BY <1>1, <1>3, <2>2, <2>3
<1>6. script'.program # "magiqParse"
  BY <1>3, ProgramOf DEF Calling
<1> QED BY <1>3, <1>4, <1>5, <1>6 DEF Content

\* The later ones.
LEMMA LaterCallContent ==
  ASSUME IInv, Shape, FoundSound, Content, NEW k, Calling(k), Combine
  PROVE  Content'
<1> DEFINE n == resLine - 1
           old == LubmColumns[k][resLine - 1]
           new == LubmColumns[k][resLine]
           t == IF Call.op = "join" THEN JoinedTable(Spread, found[resLine], Key, Call.order)
                ELSE FilteredTable(Spread, found[resLine], Key, Call.pivot12 + 1, Call.order)
<1>1. /\ resLine > 1 /\ CallRight(Lost(k), script.results[resLine - 1], Call, old, new)
      /\ labels = old /\ labels' = new /\ Take(t)
      /\ Len(old) \in Nat
      /\ Key \in 1 .. Len(old) /\ Key - 1 = Call.pivot /\ IsOrder(Call.order, Len(old))
      /\ IsTable(Spread, Len(old)) /\ AlignedOn(Spread, Key)
      /\ \A R : Holds(indl, R) => Holds(Spread, R)
      /\ nres' = IF Call.report THEN RG!TotalRows(t) ELSE nres
  BY LaterCall
<1>2. WellFormed(script) /\ Len(script.results) \in Nat /\ resLine \in 1 .. Len(script.results) /\ CodeShape(k)
      /\ IsSequence(applied) /\ found[resLine] \in SUBSET Pair
  BY CallingRight
<1>3. /\ indl' = t /\ applied' = Append(applied, resLine) /\ resLine' = resLine + 1
      /\ found' = found /\ script' = script
  <2> HIDE DEF t
  <2> QED BY <1>1 DEF Take, execution
<1>4. script'.program # "magiqParse" /\ script.program # "magiqParse" /\ k \in DOMAIN LubmQueries /\ script = LubmQueries[k] /\ InGeneration
  BY <1>3, ProgramOf DEF Calling, InGeneration
<1>5. Len(applied) <= resLine - 1 /\ (Len(applied) = resLine - 1 => TableOf(script, found, n, labels, indl))
  BY <1>1, <1>4 DEF Content
<1>6. Len(applied') = Len(applied) + 1 /\ Len(applied) \in Nat
  BY <1>2, <1>3, OneMore
<1>7. n \in 1 .. Len(script.results) - 1 /\ n + 1 = resLine /\ resLine' - 1 = n + 1
  BY <1>1, <1>2, <1>3
<1>a. Call.op \in {"join", "filter"} /\ old[Key] = Call.mat[2]
  <2>1. Call.op \in {"join", "filter"} /\ old[Call.pivot + 1] = Call.mat[2]
    BY <1>1 DEF CallRight
  <2>2. Call.pivot + 1 = Key
    BY DEF Key
  <2> QED BY <2>1, <2>2
<1>8. ASSUME Len(applied) = resLine - 1 PROVE TableOf(script, found, n + 1, labels', indl')
  <2>1. TableOf(script, found, n, old, indl)
    BY <1>1, <1>5, <1>8
  <2>2. OpsRight(script)
    BY OpsHold
  <2>5. script.results[n + 1] = Call /\ found[n + 1] = found[resLine]
    BY <1>7 DEF Call
  <2>6. CASE Call.op = "join"
    <3>1. OrderRight(old, Call.order, Call.mat, new) /\ HaveLabels(new, Lost(k), old, Call.mat)
      BY <1>1, <2>6 DEF CallRight, HaveLabels
    <3>2. OneEntityEach(Lost(k), Solutions(script, found, n + 1))
      <4>1. n + 1 \in 2 .. Len(script.results)
        BY <1>1, <1>2, <1>7
      <4> SUFFICES ASSUME NEW x \in Lost(k), NEW a \in Solutions(script, found, n + 1), NEW b \in Solutions(script, found, n + 1)
                   PROVE  a[x] = b[x]
        BY DEF OneEntityEach
      <4>2. PICK r, i : FixedBy(script, x, r, i)
        BY <1>4, LostConstant
      <4> HIDE DEF n
      <4>3. \A c \in Solutions(script, found, n + 1) : c[x] = Constant(script.lines[i].diag.pos)
        BY <1>4, <4>1, <4>2, LostFixed
      <4> QED BY <4>3
    <3> HIDE DEF n, old, new
    <3>3. TableOf(script, found, n + 1, new, JoinedTable(Spread, found[n + 1], Key, Call.order))
      BY <1>1, <1>2, <1>7, <1>a, <2>1, <2>2, <2>5, <2>6, <3>1, <3>2, TableJoins
    <3>4. t = JoinedTable(Spread, found[n + 1], Key, Call.order)
      BY <2>5, <2>6
    <3> HIDE DEF t
    <3> QED BY <1>1, <1>3, <3>3, <3>4
  <2>7. CASE Call.op = "filter"
    <3>1. /\ new = old /\ Len(Call.order) = Len(old) /\ \A i \in 1 .. Len(old) : Call.order[i] = <<0, i - 1>>
          /\ Call.pivot12 + 1 \in 1 .. Len(old) /\ old[Call.pivot12 + 1] = Call.rename
      BY <1>1, <2>7 DEF CallRight
    <3> HIDE DEF n, old, new
    <3>3. TableOf(script, found, n + 1, old, FilteredTable(Spread, found[n + 1], Key, Call.pivot12 + 1, Call.order))
      BY <1>1, <1>2, <1>7, <1>a, <2>1, <2>2, <2>5, <2>7, <3>1, TableFilters
    <3>4. t = FilteredTable(Spread, found[n + 1], Key, Call.pivot12 + 1, Call.order)
      BY <2>5, <2>7
    <3> HIDE DEF t
    <3> QED BY <1>1, <1>3, <3>1, <3>3, <3>4
  <2> QED BY <1>a, <2>6, <2>7
<1>9. Len(applied') <= resLine' - 1 /\ (Len(applied') = resLine' - 1 => Len(applied) = resLine - 1)
  BY <1>2, <1>3, <1>5, <1>6
<1>10. (RG!TotalRows(indl))' = RG!TotalRows(indl')
  OBVIOUS
<1>11. script'.results[resLine' - 1].report => nres' = RG!TotalRows(indl')
  <2>1. script'.results[resLine' - 1] = Call
    BY <1>3, <1>7 DEF Call
  <2> HIDE DEF t
  <2> QED BY <1>1, <1>3, <2>1
<1>12. TableOf(script, found, n + 1, labels', indl') => TableOf(script', found', resLine' - 1, labels', indl')
  BY <1>3, <1>7
<1> HIDE DEF t, n, old, new
<1> QED BY <1>4, <1>8, <1>9, <1>10, <1>11, <1>12 DEF Content

\* What was found and the table stay.
LEMMA ContentStays ==
  ASSUME Content, UNCHANGED <<script, found, resLine, labels, indl, nres, applied>>, InGeneration' => InGeneration
  PROVE  Content'
<1>1. script' = script /\ found' = found /\ resLine' = resLine /\ labels' = labels /\ indl' = indl /\ nres' = nres /\ applied' = applied
  OBVIOUS
<1>2. (RG!TotalRows(indl))' = RG!TotalRows(indl)
  BY <1>1
<1> QED BY <1>1, <1>2 DEF Content

\* Where nothing was executed, or no matrix is looked at, there is nothing to say.
LEMMA SoundIdle ==
  ASSUME phase' \in {"empty", "error"} \/ (phase' = "query_execution" /\ line' = 1)
  PROVE  Sound'
<1>1. ~InGeneration'
  BY DEF InGeneration
<1>2. phase' = "query_execution" => 1 .. line' - 1 = {}
  BY SMT
<1>3. ExecutionSound'
  BY <1>2 DEF ExecutionSound
<1> QED BY <1>1, <1>3 DEF Sound, FoundSound, FoundComplete, Content

\* In the result generation, what is not in the matrices stays.
LEMMA SoundLater ==
  ASSUME Sound, phase = "result_generation", phase' \in {"result_generation", "done"}, UNCHANGED <<data, nonisov, script, found>>, Content'
  PROVE  Sound'
<1>1. InGeneration' => InGeneration
  BY DEF InGeneration
<1>2. FoundSound' /\ FoundComplete'
  BY <1>1, FoundStays DEF Sound
<1>3. ExecutionSound'
  BY DEF ExecutionSound
<1> QED BY <1>2, <1>3 DEF Sound

\* Every step keeps what the nonzeros and the tables say.
LEMMA SoundKeeps ==
  ASSUME IInv, Shape, Sound, [MagiqNext \/ LubmNext]_vars
  PROVE  Sound'
<1>a. ExecutionSound /\ FoundSound /\ FoundComplete /\ Content
  BY DEF Sound
<1>1. CASE Execute
  <2>1. phase' \in {"query_execution", "empty"}
    BY <1>1 DEF Execute
  <2>2. ~InGeneration'
    BY <2>1 DEF InGeneration
  <2>3. ExecutionSound'
    BY <1>1, <1>a, ExecuteSound
  <2> QED BY <2>2, <2>3 DEF Sound, FoundSound, FoundComplete, Content
<1>2. CASE Reject
  BY <1>2, SoundIdle DEF Reject
<1>3. CASE BeginResults
  <2>1. FoundSound' /\ FoundComplete' /\ Content'
    BY <1>3, <1>a, BeginSound
  <2>2. phase' = "result_generation"
    BY <1>3 DEF BeginResults
  <2>3. ExecutionSound'
    BY <2>2 DEF ExecutionSound
  <2> QED BY <2>1, <2>3 DEF Sound
<1>4. CASE script.program = "magiqParse" /\ ApplyResultLine
  <2>1. Generating /\ UNCHANGED execution /\ phase' = phase /\ (RG!FirstJoin \/ RG!Join \/ RG!Filter)
    BY <1>4 DEF ApplyResultLine, Generating, RG!FirstJoin, RG!Join, RG!Filter
  <2>2. Content'
    BY <1>a, <2>1, FirstContent, JoinContent, FilterContent
  <2>3. phase = "result_generation" /\ phase' = phase /\ UNCHANGED <<data, nonisov, script, found>>
    BY <2>1 DEF Generating, execution, RG!FirstJoin, RG!Join, RG!Filter, RG!Advance
  <2> QED BY <2>2, <2>3, SoundLater
<1>5. CASE script.program = "magiqParse" /\ DropResultLine
  <2>1. Generating /\ UNCHANGED execution /\ phase' = phase /\ RG!NoKey
    BY <1>5 DEF DropResultLine, Generating, RG!NoKey
  <2>2. Content'
    BY <1>a, <2>1, NoKeyContent
  <2>3. phase = "result_generation" /\ phase' = phase /\ UNCHANGED <<data, nonisov, script, found>>
    BY <2>1 DEF Generating, execution, RG!NoKey, RG!Advance
  <2> QED BY <2>2, <2>3, SoundLater
<1>6. CASE EndOfScript
  <2>1. phase = "result_generation" /\ phase' = "done" /\ UNCHANGED <<data, nonisov, script, found>>
        /\ UNCHANGED <<script, found, resLine, labels, indl, nres, applied>>
    BY <1>6 DEF EndOfScript, execution, results
  <2>2. InGeneration' => InGeneration
    BY <2>1 DEF InGeneration
  <2>3. Content'
    BY <1>a, <2>1, <2>2, ContentStays
  <2> QED BY <2>1, <2>3, SoundLater
<1>7. CASE RunAgain
  BY <1>7, SoundIdle DEF RunAgain
<1>8. CASE script.program = "magiqScal" /\ (TakeTransposed \/ Combine)
  <2>1. script.program # "magiqParse"
    BY <1>8
  <2>2. PICK k \in DOMAIN LubmQueries : script = LubmQueries[k]
    BY <2>1 DEF Shape
  <2>3. phase = "result_generation" /\ resLine <= Len(script.results)
    BY <1>8 DEF TakeTransposed, Combine
  <2>4. Calling(k)
    BY <2>2, <2>3 DEF Calling
  <2>5. Content'
    BY <1>8, <1>a, <2>4, FirstCallContent, LaterCallContent
  <2>6. phase' = phase /\ UNCHANGED <<data, nonisov, script, found>>
    BY <1>8 DEF TakeTransposed, Combine, Take, execution
  <2> QED BY <2>3, <2>5, <2>6, SoundLater
<1>9. CASE script.program = "magiqScal" /\ NextQuery
  <2>1. line' = 1 /\ phase' = "query_execution"
    BY <1>9 DEF NextQuery
  <2> QED BY <2>1, SoundIdle
<1>10. CASE UNCHANGED vars
  <2>1. /\ UNCHANGED <<data, nonisov, script, found, matrices, line, phase>>
        /\ UNCHANGED <<script, found, resLine, labels, indl, nres, applied>>
    BY <1>10 DEF vars, execution, results
  <2>2. InGeneration' => InGeneration
    BY <2>1 DEF InGeneration
  <2>3. FoundSound' /\ FoundComplete' /\ Content'
    BY <1>a, <2>1, <2>2, FoundStays, ContentStays
  <2>4. \A l, e : AsksFor(l, e)' <=> AsksFor(l, e)
    BY <2>1 DEF AsksFor, PlaceOfTriple, Constant
  <2>5. ExecutionSound'
    BY <1>a, <2>1, <2>4 DEF ExecutionSound
  <2> QED BY <2>3, <2>5 DEF Sound
<1> QED BY <1>1, <1>2, <1>3, <1>4, <1>5, <1>6, <1>7, <1>8, <1>9, <1>10 DEF MagiqNext, LubmNext, Next

\* They hold throughout.
LEMMA SoundHolds == ProgramsSpec => [](IInv /\ Shape /\ Sound)
<1>1. Init \/ LubmInit => IInv /\ Shape /\ Sound
  <2> SUFFICES ASSUME Init \/ LubmInit PROVE IInv /\ Shape /\ Sound
    OBVIOUS
  <2>1. phase = "query_execution" /\ line = 1
    BY DEF Init, LubmInit, Start
  <2>2. ExecutionSound
    <3>1. 1 .. line - 1 = {}
      BY <2>1
    <3> QED BY <3>1 DEF ExecutionSound
  <2>3. Sound
    BY <2>1, <2>2 DEF Sound, FoundSound, FoundComplete, Content, InGeneration
  <2> QED BY <2>3, InitRight, ShapeStarts
<1>2. IInv /\ Shape /\ Sound /\ [MagiqNext \/ LubmNext]_vars => IInv' /\ Shape' /\ Sound'
  BY NextKeeps, ShapeKeeps, SoundKeeps
<1> QED BY <1>1, <1>2, PTL DEF ProgramsSpec

-----------------------------------------------------------------------------
(* The answers of a query. *)

\* The labels of a query's lines, and of the first ones.
LabelsUpto(k) == UNION {{script.lines[i].mat[1], script.lines[i].mat[2]} : i \in 1 .. k}
AllLabels == LabelsUpto(Len(script.lines))
NoneMalformed == \A i \in 1 .. Len(script.lines) : script.lines[i].op # "malformed"

\* A line that selects has the labels of its matrix anew, any other one has them already.
LEMMA LabelsUptoRight ==
  ASSUME WellFormed(script), NoneMalformed
  PROVE  /\ LabelsUpto(0) = {}
         /\ \A k \in 1 .. Len(script.lines) :
              LET m == script.lines[k].mat
              IN /\ LabelsUpto(k) = LabelsUpto(k - 1) \cup {m[1], m[2]}
                 /\ script.lines[k].op # "select" => LabelsUpto(k) = LabelsUpto(k - 1)
                 /\ LabelsUpto(k) \subseteq AllLabels
<1> DEFINE n == Len(script.lines)
<1>1. n \in Nat
  BY DEF WellFormed
<1>2. LabelsUpto(0) = {}
  <2>1. 1 .. 0 = {}
    OBVIOUS
  <2> QED BY <2>1 DEF LabelsUpto
<1>3. ASSUME NEW k \in 1 .. n
      PROVE  LET m == script.lines[k].mat
             IN /\ LabelsUpto(k) = LabelsUpto(k - 1) \cup {m[1], m[2]}
                /\ script.lines[k].op # "select" => LabelsUpto(k) = LabelsUpto(k - 1)
                /\ LabelsUpto(k) \subseteq AllLabels
  <2> DEFINE m == script.lines[k].mat
  <2>1. 1 .. k = (1 .. k - 1) \cup {k} /\ 1 .. k \subseteq 1 .. n
    BY <1>1
  <2>2. LabelsUpto(k) = LabelsUpto(k - 1) \cup {m[1], m[2]}
    BY <2>1 DEF LabelsUpto
  <2>3. LabelsUpto(k) \subseteq AllLabels
    BY <2>1 DEF LabelsUpto, AllLabels
  <2>4. ASSUME script.lines[k].op # "select" PROVE LabelsUpto(k) = LabelsUpto(k - 1)
    <3>1. LineWellFormed(script, k)
      BY DEF WellFormed, NoneMalformed
    <3>2. m \in Earlier(script, k)
      BY <2>4, <3>1 DEF LineWellFormed
    <3>3. PICK j \in 1 .. k - 1 : script.lines[j].mat = m
      BY <3>2, SMTT(30) DEF Earlier
    <3>4. m[1] \in LabelsUpto(k - 1) /\ m[2] \in LabelsUpto(k - 1)
      BY <3>3 DEF LabelsUpto
    <3> QED BY <2>2, <3>4
  <2> QED BY <2>2, <2>3, <2>4
<1> QED BY <1>2, <1>3

\* A triple that a line selects gives entities to the line's labels.
LEMMA AssignedRight ==
  ASSUME NEW l \in LineForms, NEW e \in Triple, l.mat[1] = l.mat[2] => e.row = e.col
  PROVE  LET a == Assigned(l, e)
         IN /\ DOMAIN a = {l.mat[1], l.mat[2]}
            /\ a[l.mat[1]] = (IF l.transposed THEN e.col ELSE e.row)
            /\ a[l.mat[2]] = (IF l.transposed THEN e.row ELSE e.col)
            /\ \A x \in DOMAIN a : a[x] \in Entity
<1> DEFINE a == Assigned(l, e)
           m == l.mat[1]
           n == l.mat[2]
<1>0. l.transposed \in BOOLEAN /\ e.row \in Entity /\ e.col \in Entity
  BY DEF LineForms, Triple
<1>1. DOMAIN a = {m, n}
  BY DEF Assigned
<1>2. a[m] = (IF l.transposed THEN e.col ELSE e.row)
  BY <1>0 DEF Assigned
<1>3. a[n] = (IF l.transposed THEN e.row ELSE e.col)
  <2>1. CASE m = n
    BY <1>2, <2>1
  <2>2. CASE m # n
    BY <1>0, <2>2 DEF Assigned
  <2> QED BY <2>1, <2>2
<1> HIDE DEF a
<1>4. \A x \in DOMAIN a : a[x] \in Entity
  BY <1>0, <1>1, <1>2, <1>3
<1> QED BY <1>1, <1>2, <1>3, <1>4 DEF a

\* What a line makes of assignments to some labels are assignments to these and its own.
LEMMA ExtendedTyped ==
  ASSUME NEW l \in LineForms, data \in SUBSET Triple, l.op # "malformed",
         NEW H, NEW some, some \in SUBSET [H -> Entity], NEW K,
         K = IF l.op = "select" THEN H \cup {l.mat[1], l.mat[2]} ELSE H
  PROVE  Extended(l, some, data) \in SUBSET [K -> Entity]
<1>1. CASE l.op # "select"
  BY <1>1 DEF Extended, WithConstant
<1>2. CASE l.op = "select"
  <2>1. ASSUME NEW more \in WithTriple(l, some, data) PROVE more \in [K -> Entity]
    <3>1. PICK p \in some \X {Assigned(l, e) : e \in TriplesOf(l, data)} : more = Joined(p[1], p[2])
      BY DEF WithTriple
    <3>2. PICK e \in TriplesOf(l, data) : p[2] = Assigned(l, e)
      BY <3>1
    <3>3. e \in Triple /\ (l.mat[1] = l.mat[2] => e.row = e.col)
      BY DEF TriplesOf
    <3> DEFINE a == p[1]
               b == p[2]
    <3>4. DOMAIN b = {l.mat[1], l.mat[2]} /\ \A x \in DOMAIN b : b[x] \in Entity
      BY <3>2, <3>3, AssignedRight
    <3>5. a \in [H -> Entity]
      BY <3>1
    <3> HIDE DEF a, b
    <3>6. DOMAIN a \cup DOMAIN b = K
      BY <1>2, <3>4, <3>5
    <3>7. more = [x \in K |-> IF x \in DOMAIN a THEN a[x] ELSE b[x]]
      BY <3>1, <3>6 DEF Joined, a, b
    <3> QED BY <3>4, <3>5, <3>6, <3>7
  <2> QED BY <1>2, <2>1 DEF Extended, WithConstant
<1> QED BY <1>1, <1>2

\* An answer assigns an entity to each label of its query.
LEMMA AnswerTyped ==
  ASSUME WellFormed(script), NoneMalformed, data \in SUBSET Triple, NEW ans \in Answers
  PROVE  ans \in [AllLabels -> Entity]
<1> DEFINE L == script.lines
           n == Len(L)
<1>1. n \in Nat /\ \A k \in 1 .. n : L[k] \in LineForms
  BY DEF WellFormed
<1>2. PICK some : SomeRight(some)
  BY <1>1, AssignmentsRight
<1> DEFINE T == {k \in 0 .. n : some[k] \in SUBSET [LabelsUpto(k) -> Entity]}
<1>3. 0 \in T
  <2>1. LabelsUpto(0) = {} /\ some[0] = {<<>>}
    BY <1>2, LabelsUptoRight DEF SomeRight
  <2>2. <<>> \in [{} -> Entity]
    OBVIOUS
  <2>3. some[0] \in SUBSET [LabelsUpto(0) -> Entity]
    BY <2>1, <2>2
  <2> QED BY <1>1, <2>3
<1>4. ASSUME NEW k \in 0 .. n - 1, k \in T PROVE k + 1 \in T
  <2> DEFINE m == k + 1
  <2>1. m \in 1 .. n /\ m - 1 = k /\ m \in 0 .. n
    BY <1>1
  <2> HIDE DEF m
  <2>2. some[m] = Extended(L[m], some[k], data)
    BY <1>2, <2>1 DEF SomeRight
  <2>3. some[k] \in SUBSET [LabelsUpto(k) -> Entity]
    BY <1>4
  <2>4. L[m] \in LineForms /\ L[m].op # "malformed"
    BY <1>1, <2>1 DEF NoneMalformed
  <2>5. LabelsUpto(m) = IF L[m].op = "select" THEN LabelsUpto(k) \cup {L[m].mat[1], L[m].mat[2]} ELSE LabelsUpto(k)
    BY <2>1, LabelsUptoRight
  <2>6. some[m] \in SUBSET [LabelsUpto(m) -> Entity]
    <3> DEFINE l == L[m]
               had == some[k]
               old == LabelsUpto(k)
               new == LabelsUpto(m)
    <3>1. Extended(l, had, data) \in SUBSET [new -> Entity]
      <4> HIDE DEF l, had, old, new
      <4> QED BY <2>3, <2>4, <2>5, ExtendedTyped DEF l, had, old, new
    <3> QED BY <2>2, <3>1
  <2>7. m \in T
    BY <2>1, <2>6
  <2> QED BY <2>7 DEF m
<1>5. n \in T
  <2> HIDE DEF T, n
  <2>1. 0 .. n \subseteq T
    BY <1>1, <1>3, <1>4, BoundedInduction
  <2> QED BY <1>1, <2>1
<1> QED BY <1>2, <1>5 DEF Answers, AnswersTo, SomeRight, AllLabels

\* A line keeps what an assignment that has all it asks for gives to the labels so far.
LEMMA ExtendedHas ==
  ASSUME NEW l \in LineForms, data \in SUBSET Triple, l.op # "malformed",
         NEW W, NEW c, c \in [W -> Entity], LineHolds(l, c),
         NEW H, H \subseteq W, NEW some, Only(c, H) \in some, NEW K,
         K = H \cup {l.mat[1], l.mat[2]}, l.op # "select" => K = H
  PROVE  Only(c, K) \in Extended(l, some, data)
<1> DEFINE a == Only(c, K)
           before == IF l.op = "select" THEN WithTriple(l, some, data) ELSE some
           m == l.mat[1]
           n == l.mat[2]
<1>1. m \in W /\ n \in W
  BY DEF LineHolds
<1>2. l.diag.kind = "constant" => a[Restricted(l)] = l.diag.pos
  <2>1. Restricted(l) \in K
    BY DEF Restricted
  <2>2. a[Restricted(l)] = c[Restricted(l)]
    BY <2>1 DEF Only
  <2> QED BY <2>2 DEF LineHolds
<1>3. a \in before
  <2>1. CASE l.op # "select"
    BY <2>1
  <2>2. CASE l.op = "select"
    <3>1. PICK e \in data : /\ e.val = l.diag.scale
                            /\ c[m] = (IF l.transposed THEN e.col ELSE e.row)
                            /\ c[n] = (IF l.transposed THEN e.row ELSE e.col)
      BY <2>2 DEF LineHolds
    <3>2. m = n => e.row = e.col
      BY <3>1
    <3>3. e \in TriplesOf(l, data) /\ e \in Triple
      BY <3>1, <3>2 DEF TriplesOf
    <3> DEFINE b == Assigned(l, e)
               d == Only(c, H)
    <3>4. DOMAIN b = {m, n} /\ b[m] = c[m] /\ b[n] = c[n]
      BY <3>1, <3>2, <3>3, AssignedRight
    <3>5. DOMAIN d = H /\ \A x \in H : d[x] = c[x]
      BY DEF Only
    <3>6. \A x \in DOMAIN b : b[x] = c[x]
      BY <3>4
    <3>7. Agree(d, b)
      <4> HIDE DEF b, d
      <4> QED BY <3>5, <3>6 DEF Agree
    <3>8. a = Joined(d, b)
      <4> HIDE DEF b, d, m, n
      <4>1. DOMAIN d \cup DOMAIN b = K
        BY <3>4, <3>5 DEF m, n
      <4>2. \A x \in K : (IF x \in DOMAIN d THEN d[x] ELSE b[x]) = c[x]
        BY <3>5, <3>6, <4>1
      <4> QED BY <4>1, <4>2 DEF Joined, Only
    <3>9. <<d, b>> \in some \X {Assigned(l, t) : t \in TriplesOf(l, data)}
      BY <3>3
    <3>10. a \in WithTriple(l, some, data)
      <4> HIDE DEF a, b, d
      <4>1. Agree(<<d, b>>[1], <<d, b>>[2]) /\ a = Joined(<<d, b>>[1], <<d, b>>[2])
        BY <3>7, <3>8
      <4> QED BY <3>9, <4>1 DEF WithTriple
    <3> QED BY <2>2, <3>10
  <2> QED BY <2>1, <2>2
<1> HIDE DEF a, before
<1>4. a \in WithConstant(l, before)
  BY <1>2, <1>3 DEF WithConstant
<1>5. Extended(l, some, data) = WithConstant(l, before)
  BY DEF Extended, before
<1> QED BY <1>4, <1>5 DEF a

\* An assignment to the labels of the query that has what the lines and filters ask for is an
\* answer.
FiltersHold(c) ==
  \A i \in 1 .. Len(script.results) : script.results[i].op = "filter" => c[script.results[i].mat[1]] = c[script.results[i].rename]

\* An assignment to the labels of the query with all that lines and filters ask for is an answer.
LEMMA AnswerFound ==
  ASSUME WellFormed(script), NoneMalformed, data \in SUBSET Triple, DOMAIN script.results = 1 .. Len(script.results),
         NEW c \in [AllLabels -> Entity], FiltersHold(c), \A i \in 1 .. Len(script.lines) : LineHolds(script.lines[i], c)
  PROVE  c \in Answers
<1> DEFINE L == script.lines
           n == Len(L)
<1>1. n \in Nat /\ \A k \in 1 .. n : L[k] \in LineForms
  BY DEF WellFormed
<1>2. PICK some : SomeRight(some)
  BY <1>1, AssignmentsRight
<1> DEFINE T == {k \in 0 .. n : Only(c, LabelsUpto(k)) \in some[k]}
<1>3. 0 \in T
  <2>1. LabelsUpto(0) = {} /\ some[0] = {<<>>}
    BY <1>2, LabelsUptoRight DEF SomeRight
  <2>2. Only(c, {}) = <<>>
    BY DEF Only
  <2>3. Only(c, LabelsUpto(0)) \in some[0]
    BY <2>1, <2>2
  <2> QED BY <1>1, <2>3
<1>4. ASSUME NEW k \in 0 .. n - 1, k \in T PROVE k + 1 \in T
  <2> DEFINE m == k + 1
  <2>1. m \in 1 .. n /\ m - 1 = k /\ m \in 0 .. n
    BY <1>1
  <2> HIDE DEF m
  <2> DEFINE l == L[m]
             had == some[k]
             old == LabelsUpto(k)
             new == LabelsUpto(m)
  <2>2. some[m] = Extended(l, had, data)
    BY <1>2, <2>1 DEF SomeRight
  <2>3. Only(c, old) \in had
    BY <1>4
  <2>4. l \in LineForms /\ l.op # "malformed" /\ LineHolds(l, c)
    BY <1>1, <2>1 DEF NoneMalformed
  <2>5. new = old \cup {l.mat[1], l.mat[2]} /\ (l.op # "select" => new = old) /\ new \subseteq AllLabels
    BY <2>1, LabelsUptoRight
  <2>6. Only(c, new) \in Extended(l, had, data)
    <3> HIDE DEF l, had, old, new
    <3> QED BY <2>3, <2>4, <2>5, ExtendedHas
  <2>7. m \in T
    BY <2>1, <2>2, <2>6
  <2> QED BY <2>7 DEF m
<1>5. n \in T
  <2> HIDE DEF T, n
  <2>1. 0 .. n \subseteq T
    BY <1>1, <1>3, <1>4, BoundedInduction
  <2> QED BY <1>1, <2>1
<1>6. Only(c, AllLabels) = c
  BY DEF Only
<1>7. c \in Assignments(script.lines, data)
  BY <1>2, <1>5, <1>6 DEF SomeRight, AllLabels
<1> QED BY <1>7 DEF Answers, AnswersTo, FiltersHold

\* A permutation gives different entities different numbers, and each number to one.
LEMMA NumberedBijective ==
  ASSUME NEW p \in Renumberings
  PROVE  /\ \A x, y \in Entity : Numbered(p, x) = Numbered(p, y) => x = y
         /\ \A y \in Entity : \E x \in Entity : Numbered(p, x) = y
         /\ \A x : Numbered(p, x) \in Entity => x \in Entity
<1>1. CASE p = <<>>
  <2>1. \A x : Numbered(p, x) = x
    BY <1>1 DEF Numbered
  <2> QED BY <2>1
<1>2. CASE p \in [Entity -> Entity] /\ \A x \in Entity : \E y \in Entity : p[y] = x
  <2>1. \A x \in Entity : Numbered(p, x) = p[x]
    BY <1>2 DEF Numbered
  <2>2. \A x : x \notin Entity => Numbered(p, x) = x
    BY <1>2 DEF Numbered
  <2>3. IsFiniteSet(Entity)
    BY Sizes, FS_Interval DEF Entity
  <2>4. p \in Surjection(Entity, Entity)
    BY <1>2 DEF Surjection
  <2>5. p \in Injection(Entity, Entity)
    BY <2>3, <2>4, FS_SurjSameCardinalityImpliesInj
  <2>6. \A x, y \in Entity : p[x] = p[y] => x = y
    BY <2>5 DEF Injection, IsInjective
  <2> QED BY <1>2, <2>1, <2>2, <2>6
<1> QED BY <1>1, <1>2, RenumberingsAssumption

-----------------------------------------------------------------------------
(* The answers and the rows of the table. *)

\* A query whose result generation applied all its lines.
TableLabels == LabelsAfter(script)[Len(script.results)]
Answered ==
  /\ WellFormed(script) /\ NoneMalformed /\ OpsRight(script)
  /\ Len(script.results) \in Nat \ {0} /\ DOMAIN script.results = 1 .. Len(script.results)
  /\ Keyed(script, Len(script.results))
  /\ data \in SUBSET Triple /\ nonisov \in Renumberings
  /\ InGeneration /\ FoundSound /\ FoundComplete

\* The labels of the table are labels of the query's lines.
LEMMA TableLabelsRight ==
  ASSUME Answered
  PROVE  TableLabels \subseteq AllLabels
<1> DEFINE R == script.results
           n == Len(R)
           had == LabelsAfter(script)
<1>1. n \in Nat /\ \A k \in 1 .. n : had[k] = NextLabels(script, k, had[k - 1])
  BY LabelsAfterRight DEF Answered
<1>2. ASSUME NEW k \in 1 .. n PROVE R[k].mat[1] \in AllLabels /\ R[k].mat[2] \in AllLabels
  <2>1. R[k].mat \in Earlier(script, Len(script.lines) + 1) /\ Len(script.lines) \in Nat
    BY DEF Answered, WellFormed, ResultWellFormed
  <2>2. PICK j \in 1 .. (Len(script.lines) + 1) - 1 : script.lines[j].mat = R[k].mat
    BY <2>1 DEF Earlier
  <2>3. j \in 1 .. Len(script.lines)
    BY <2>1
  <2> QED BY <2>2, <2>3, SMTT(30) DEF AllLabels, LabelsUpto
<1> DEFINE T == {k \in 0 .. n : k > 0 => had[k] \subseteq AllLabels}
<1>3. 0 \in T
  BY <1>1
<1>4. ASSUME NEW k \in 0 .. n - 1, k \in T PROVE k + 1 \in T
  <2>1. k + 1 \in 1 .. n /\ (k + 1) - 1 = k /\ k + 1 \in 0 .. n /\ (k + 1 # 1 => k > 0)
    BY <1>1
  <2>2. had[k + 1] = NextLabels(script, k + 1, had[k])
    BY <1>1, <2>1
  <2>3. R[k + 1].mat[1] \in AllLabels /\ R[k + 1].mat[2] \in AllLabels
    BY <1>2, <2>1
  <2>4. k > 0 => had[k] \subseteq AllLabels
    BY <1>4
  <2>5. had[k + 1] \subseteq AllLabels
    <3> HIDE DEF had
    <3> QED BY <2>1, <2>2, <2>3, <2>4 DEF NextLabels
  <2> QED BY <2>1, <2>5
<1>5. n \in T
  <2> HIDE DEF T, n
  <2>1. 0 .. n \subseteq T
    BY <1>1, <1>3, <1>4, BoundedInduction
  <2> QED BY <1>1, <2>1
<1> QED BY <1>1, <1>5 DEF TableLabels, Answered

\* The entities, numbered as in the graph, that an answer gives to the labels of the table.
Solved(ans) == [x \in TableLabels |-> Place(ans, x)]

\* They are among those that have a nonzero in every matrix.
LEMMA SolvedRight ==
  ASSUME Answered, NEW ans \in Answers
  PROVE  Solved(ans) \in Solutions(script, found, Len(script.results))
<1> DEFINE R == script.results
           n == Len(R)
           a == Solved(ans)
<1>1. ans \in [AllLabels -> Entity]
  BY AnswerTyped DEF Answered
<1>2. a \in [TableLabels -> Entity]
  BY <1>1, TableLabelsRight, NumberedEntity DEF Solved, Place, Answered
<1>3. ASSUME NEW k \in 1 .. n PROVE <<a[FirstLabel(R[k])], a[R[k].mat[2]]>> \in found[k]
  <2>1. n \in 1 .. n
    BY DEF Answered
  <2>2. FirstLabel(R[k]) \in TableLabels /\ R[k].mat[2] \in TableLabels
    BY <2>1, KeyedLabels DEF TableLabels, Answered
  <2>3. a[FirstLabel(R[k])] = Place(ans, FirstLabel(R[k])) /\ a[R[k].mat[2]] = Place(ans, R[k].mat[2])
    BY <2>2 DEF Solved
  <2>4. Place(ans, FirstLabel(R[k])) = Place(ans, R[k].mat[1])
    <3>1. CASE R[k].op = "filter"
      <4>1. ans[R[k].mat[1]] = ans[R[k].rename]
        BY <3>1 DEF Answered, Answers, AnswersTo
      <4> QED BY <3>1, <4>1 DEF FirstLabel, Place
    <3>2. CASE R[k].op # "filter"
      BY <3>2 DEF FirstLabel
    <3> QED BY <3>1, <3>2
  <2>5. <<Place(ans, R[k].mat[1]), Place(ans, R[k].mat[2])>> \in found[k]
    BY DEF Answered, FoundComplete
  <2> QED BY <2>3, <2>4, <2>5
<1> HIDE DEF a
<1>4. a \in [LabelsAfter(script)[n] -> Entity]
  BY <1>2 DEF TableLabels
<1> QED BY <1>3, <1>4 DEF Solutions, a

\* A label that the table does not have is the first one of filters, which rename it to one
\* that the table has.
Renames(r, x, y) ==
  /\ r \in 1 .. Len(script.results) /\ script.results[r].op = "filter"
  /\ script.results[r].mat[1] = x /\ script.results[r].rename = y

\* A renamed label is another one for one label of the table only.
LEMMA RenamedRight ==
  ASSUME Answered
  PROVE  /\ \A x \in AllLabels \ TableLabels : \E r, y : Renames(r, x, y)
         /\ \A r, x, y : Renames(r, x, y) =>
              /\ y \in TableLabels
              /\ x # y => x \notin TableLabels /\ \A q, z : Renames(q, x, z) => z = y
<1> DEFINE R == script.results
           n == Len(R)
<1>0. n \in 1 .. n /\ n \in Nat
  BY DEF Answered
<1>1. \A k \in 1 .. n : FirstLabel(R[k]) \in TableLabels /\ R[k].mat[2] \in TableLabels
  BY <1>0, KeyedLabels DEF TableLabels, Answered
<1>2. ASSUME NEW x \in AllLabels, x \notin TableLabels PROVE \E r, y : Renames(r, x, y)
  <2>1. PICK i \in 1 .. Len(script.lines) : x \in {script.lines[i].mat[1], script.lines[i].mat[2]}
    BY DEF AllLabels, LabelsUpto
  <2>2. script.lines[i].mat \in Earlier(script, Len(script.lines) + 1)
    <3>1. i \in 1 .. (Len(script.lines) + 1) - 1
      BY DEF Answered, WellFormed
    <3> QED BY <3>1 DEF Earlier, Answered, NoneMalformed
  <2>3. script.results # <<>>
    BY <1>0 DEF Answered
  <2>4. PICK r \in 1 .. n : R[r].mat = script.lines[i].mat
    BY <2>2, <2>3, TakenBySome DEF Answered
  <2>5. x = R[r].mat[1] /\ x # FirstLabel(R[r])
    BY <1>1, <1>2, <2>1, <2>4
  <2>6. R[r].op = "filter"
    BY <2>5 DEF FirstLabel
  <2> QED BY <2>5, <2>6 DEF Renames
<1>3. ASSUME NEW r, NEW x, NEW y, Renames(r, x, y)
      PROVE  /\ y \in TableLabels
             /\ x # y => x \notin TableLabels /\ \A q, z : Renames(q, x, z) => z = y
  <2>1. r \in 1 .. n /\ R[r].op = "filter" /\ R[r].mat[1] = x /\ R[r].rename = y
    BY <1>3 DEF Renames
  <2>2. y \in TableLabels
    BY <1>1, <2>1 DEF FirstLabel
  <2>3. FilterWellFormed(script, r)
    <3>1. ResultWellFormed(script, r)
      BY <2>1 DEF Answered, WellFormed
    <3>2. r # 1
      BY <2>1, <3>1 DEF ResultWellFormed
    <3>3. r \in 2 .. n /\ r > 1
      BY <1>0, <2>1, <3>2
    <3>4. R[r].mat[2] \in LabelsAfter(script)[r - 1]
      BY <3>3 DEF Answered, Keyed
    <3> QED BY <2>1, <3>1, <3>3, <3>4 DEF ResultWellFormed
  <2>4. x # y => x \notin TableLabels /\ \A q \in 1 .. n : R[q].op = "filter" /\ R[q].mat[1] = x => R[q].rename = y
    BY <2>1, <2>3 DEF FilterWellFormed, TableLabels
  <2> QED BY <2>2, <2>4 DEF Renames
<1> QED BY <1>2, <1>3

\* An assignment to all labels, in the numbers of the graph, that has a nonzero in each matrix.
Covers(b) ==
  /\ b \in [AllLabels -> Entity]
  /\ \A r \in 1 .. Len(script.results) : <<b[script.results[r].mat[1]], b[script.results[r].mat[2]]>> \in found[r]
  /\ FiltersHold(b)

\* A solution is one of them, without the labels that filters rename.
LEMMA SolutionCovers ==
  ASSUME Answered, NEW a \in Solutions(script, found, Len(script.results))
  PROVE  \E b : Covers(b) /\ Only(b, TableLabels) = a
<1> DEFINE R == script.results
           n == Len(R)
           NewName(x) == CHOOSE y : \E r : Renames(r, x, y)
           b == [x \in AllLabels |-> IF x \in TableLabels THEN a[x] ELSE a[NewName(x)]]
<1>1. a \in [TableLabels -> Entity] /\ \A k \in 1 .. n : <<a[FirstLabel(R[k])], a[R[k].mat[2]]>> \in found[k]
  BY DEF Solutions, TableLabels
<1>2. ASSUME NEW r, NEW x, NEW y, Renames(r, x, y), x # y PROVE NewName(x) = y
  <2>1. \A q, z : Renames(q, x, z) => z = y
    BY <1>2, RenamedRight
  <2>2. \E z : \E q : Renames(q, x, z)
    BY <1>2
  <2>3. \E q : Renames(q, x, NewName(x))
    BY <2>2, Zenon
  <2> QED BY <2>1, <2>3
<1>3. ASSUME NEW x \in AllLabels, x \notin TableLabels PROVE NewName(x) \in TableLabels
  <2>1. PICK r, y : Renames(r, x, y)
    BY <1>3, RenamedRight
  <2>2. y \in TableLabels
    BY <2>1, RenamedRight
  <2>3. x # y
    BY <1>3, <2>2
  <2>4. NewName(x) = y
    BY <1>2, <2>1, <2>3
  <2> QED BY <2>2, <2>4
<1> HIDE DEF NewName
<1>4. b \in [AllLabels -> Entity]
  BY <1>1, <1>3
<1>5. \A x \in TableLabels : x \in AllLabels /\ b[x] = a[x]
  BY TableLabelsRight
<1>6. ASSUME NEW r, NEW x, NEW y, Renames(r, x, y), x \in AllLabels PROVE b[x] = a[y] /\ b[y] = a[y]
  <2>1. y \in TableLabels
    BY <1>6, RenamedRight
  <2>2. x # y => x \notin TableLabels
    BY <1>6, RenamedRight
  <2>3. x # y => b[x] = a[y]
    BY <1>2, <1>6, <2>2
  <2> QED BY <1>5, <2>1, <2>3
<1> HIDE DEF b
<1>7. \A k \in 1 .. n : FirstLabel(R[k]) \in TableLabels /\ R[k].mat[2] \in TableLabels
  <2>1. n \in 1 .. n
    BY SMTT(30) DEF Answered
  <2> QED BY <2>1, KeyedLabels, SMTT(30) DEF TableLabels, Answered
<1>8. \A k \in 1 .. n : R[k].mat[1] \in AllLabels
  <2> SUFFICES ASSUME NEW k \in 1 .. n PROVE R[k].mat[1] \in AllLabels
    OBVIOUS
  <2>1. R[k].mat \in Earlier(script, Len(script.lines) + 1) /\ Len(script.lines) \in Nat
    BY DEF Answered, WellFormed, ResultWellFormed
  <2>2. PICK j \in 1 .. (Len(script.lines) + 1) - 1 : script.lines[j].mat = R[k].mat
    BY <2>1 DEF Earlier
  <2>3. j \in 1 .. Len(script.lines)
    BY <2>1
  <2> QED BY <2>2, <2>3 DEF AllLabels, LabelsUpto
<1>9. ASSUME NEW k \in 1 .. n PROVE b[R[k].mat[1]] = a[FirstLabel(R[k])]
  <2>1. CASE R[k].op = "filter"
    <3>1. Renames(k, R[k].mat[1], R[k].rename)
      BY <2>1 DEF Renames
    <3>2. b[R[k].mat[1]] = a[R[k].rename]
      BY <1>6, <1>8, <3>1
    <3> QED BY <2>1, <3>2 DEF FirstLabel
  <2>2. CASE R[k].op # "filter"
    <3>1. FirstLabel(R[k]) = R[k].mat[1]
      BY <2>2 DEF FirstLabel
    <3> QED BY <1>5, <1>7, <3>1
  <2> QED BY <2>1, <2>2
<1>10. \A k \in 1 .. n : <<b[R[k].mat[1]], b[R[k].mat[2]]>> \in found[k]
  BY <1>1, <1>5, <1>7, <1>9
<1>11. FiltersHold(b)
  <2> SUFFICES ASSUME NEW k \in 1 .. n, R[k].op = "filter" PROVE b[R[k].mat[1]] = b[R[k].rename]
    BY DEF FiltersHold
  <2>1. Renames(k, R[k].mat[1], R[k].rename)
    BY DEF Renames
  <2> QED BY <1>6, <1>8, <2>1
<1>12. Only(b, TableLabels) = a
  <2>1. a = [x \in TableLabels |-> a[x]]
    BY <1>1
  <2> QED BY <1>5, <2>1 DEF Only
<1> QED BY <1>4, <1>10, <1>11, <1>12 DEF Covers

\* Such an assignment, in the numbers of the file, has what each line asks for.
LEMMA CoveringHolds ==
  ASSUME Answered, NEW b, Covers(b), NEW ans \in [AllLabels -> Entity], \A x \in AllLabels : Place(ans, x) = b[x],
         NEW i \in 1 .. Len(script.lines)
  PROVE  LineHolds(script.lines[i], ans)
<1> DEFINE l == script.lines[i]
           m == l.mat[1]
           n == l.mat[2]
           R == script.results
           e == <<b[m], b[n]>>
<1>0. l \in LineForms /\ l.op # "malformed" /\ LineWellFormed(script, i)
  <2>1. WellFormed(script) /\ l.op # "malformed"
    BY DEF Answered, NoneMalformed
  <2>2. script.lines \in Seq(LineForms)
    BY <2>1, Zenon DEF WellFormed
  <2>3. l \in LineForms
    BY <2>2
  <2>4. LineWellFormed(script, i)
    BY <2>1, ZenonT(30) DEF WellFormed
  <2> QED BY <2>1, <2>3, <2>4
<1>1. m \in AllLabels /\ n \in AllLabels /\ Restricted(l) \in AllLabels
  BY DEF AllLabels, LabelsUpto, Restricted
<1>2. b[m] = Numbered(nonisov, ans[m]) /\ b[n] = Numbered(nonisov, ans[n]) /\ b[Restricted(l)] = Numbered(nonisov, ans[Restricted(l)])
  BY <1>1 DEF Place
<1>3. ans[m] \in Entity /\ ans[n] \in Entity /\ ans[Restricted(l)] \in Entity
  BY <1>1
<1>4. script.results # <<>>
  BY DEF Answered
<1>5. \A k \in 1 .. Len(script.lines) : k \in 1 .. (Len(script.lines) + 1) - 1
  BY DEF Answered, WellFormed
<1>6. PICK r \in 1 .. Len(R) : R[r].mat = l.mat
  <2>1. l.mat \in Earlier(script, Len(script.lines) + 1)
    BY <1>0, <1>5 DEF Earlier
  <2> QED BY <1>4, <2>1, TakenBySome DEF Answered
<1>7. e \in found[r]
  BY <1>6 DEF Covers
<1>8. FoundAsks(l, e)
  <2> HIDE DEF e
  <2> QED BY <1>6, <1>7 DEF Answered, FoundSound
<1>9. Coordinate(l, e) = b[Restricted(l)]
  BY DEF Coordinate, Restricted
<1>10. AsksFor(l, e)
  <2> SUFFICES ASSUME l.diag.kind = "reduce",
                      NEW q \in 1 .. Len(R), R[q].mat = l.diag.mat,
                      ~Reached(l.diag, found[q], Coordinate(l, e))
               PROVE  FALSE
    BY <1>8 DEF FoundAsks
  <2>1. Equated(script, Reduced(l.diag), Restricted(l))
    BY <1>0 DEF LineWellFormed
  <2>2. b[Reduced(l.diag)] = b[Restricted(l)]
    <3>1. CASE Reduced(l.diag) = Restricted(l)
      BY <3>1
    <3>2. CASE Reduced(l.diag) # Restricted(l)
      <4>1. PICK j \in 1 .. Len(R) : R[j].op = "filter" /\ {R[j].mat[1], R[j].rename} = {Reduced(l.diag), Restricted(l)}
        BY <2>1, <3>2 DEF Equated, Answered
      <4>2. b[R[j].mat[1]] = b[R[j].rename]
        BY <4>1 DEF Covers, FiltersHold
      <4>3. \/ R[j].mat[1] = Reduced(l.diag) /\ R[j].rename = Restricted(l)
            \/ R[j].mat[1] = Restricted(l) /\ R[j].rename = Reduced(l.diag)
        BY <3>2, <4>1
      <4> QED BY <4>2, <4>3
    <3> QED BY <3>1, <3>2
  <2> DEFINE d == <<b[R[q].mat[1]], b[R[q].mat[2]]>>
  <2>3. d \in found[q]
    BY DEF Covers
  <2>4. d[IF l.diag.dim = "Column" THEN 2 ELSE 1] = b[Reduced(l.diag)]
    BY DEF Reduced
  <2> HIDE DEF d, e
  <2> QED BY <1>9, <2>2, <2>3, <2>4 DEF Reached
<1>11. l.op = "select" => \E t \in data : /\ t.val = l.diag.scale
                                          /\ ans[m] = (IF l.transposed THEN t.col ELSE t.row)
                                          /\ ans[n] = (IF l.transposed THEN t.row ELSE t.col)
  <2> SUFFICES ASSUME l.op = "select"
               PROVE  \E t \in data : /\ t.val = l.diag.scale
                                      /\ ans[m] = (IF l.transposed THEN t.col ELSE t.row)
                                      /\ ans[n] = (IF l.transposed THEN t.row ELSE t.col)
    OBVIOUS
  <2>1. PICK t \in data : t.val = l.diag.scale /\ PlaceOfTriple(l, t) = e
    BY <1>10 DEF AsksFor
  <2>2. t.row \in Entity /\ t.col \in Entity
    BY DEF Answered, Triple
  <2>3. \A x, y \in Entity : Numbered(nonisov, x) = Numbered(nonisov, y) => x = y
    BY NumberedBijective DEF Answered
  <2>4. CASE l.transposed
    <3>1. Numbered(nonisov, t.col) = b[m] /\ Numbered(nonisov, t.row) = b[n]
      BY <2>1, <2>4 DEF PlaceOfTriple
    <3>2. ans[m] = t.col /\ ans[n] = t.row
      BY <1>2, <1>3, <2>2, <2>3, <3>1
    <3> QED BY <2>1, <2>4, <3>2
  <2>5. CASE ~l.transposed
    <3>1. Numbered(nonisov, t.row) = b[m] /\ Numbered(nonisov, t.col) = b[n]
      BY <2>1, <2>5 DEF PlaceOfTriple
    <3>2. ans[m] = t.row /\ ans[n] = t.col
      BY <1>2, <1>3, <2>2, <2>3, <3>1
    <3> QED BY <2>1, <2>5, <3>2
  <2> QED BY <2>4, <2>5
<1>12. l.diag.kind = "constant" => ans[Restricted(l)] = l.diag.pos
  <2> SUFFICES ASSUME l.diag.kind = "constant" PROVE ans[Restricted(l)] = l.diag.pos
    BY SMTT(30)
  <2>1. Numbered(nonisov, ans[Restricted(l)]) = Numbered(nonisov, l.diag.pos)
    BY <1>2, <1>9, <1>10 DEF AsksFor, Constant
  <2>2. Numbered(nonisov, ans[Restricted(l)]) \in Entity
    BY <1>3, NumberedEntity DEF Answered
  <2>3. l.diag.pos \in Entity
    BY <2>1, <2>2, NumberedBijective DEF Answered
  <2> QED BY <1>3, <2>1, <2>3, NumberedBijective DEF Answered
<1>13. m \in DOMAIN ans /\ n \in DOMAIN ans
  BY <1>1
<1> QED BY <1>11, <1>12, <1>13 DEF LineHolds

\* Each solution is that of an answer ...
LEMMA SolutionAnswers ==
  ASSUME Answered, NEW a \in Solutions(script, found, Len(script.results))
  PROVE  \E ans \in Answers : Solved(ans) = a
<1>1. PICK b : Covers(b) /\ Only(b, TableLabels) = a
  BY SolutionCovers
<1> DEFINE OldNumber(y) == CHOOSE x \in Entity : Numbered(nonisov, x) = y
           ans == [x \in AllLabels |-> OldNumber(b[x])]
<1>2. \A y \in Entity : OldNumber(y) \in Entity /\ Numbered(nonisov, OldNumber(y)) = y
  BY NumberedBijective DEF Answered
<1> HIDE DEF OldNumber
<1>3. b \in [AllLabels -> Entity]
  BY <1>1 DEF Covers
<1>4. ans \in [AllLabels -> Entity] /\ \A x \in AllLabels : Place(ans, x) = b[x]
  BY <1>2, <1>3 DEF Place
<1>5. FiltersHold(ans)
  <2>1. \A k \in 1 .. Len(script.results) : script.results[k].op = "filter" =>
          script.results[k].mat[1] \in AllLabels /\ script.results[k].rename \in AllLabels
    <3> SUFFICES ASSUME NEW k \in 1 .. Len(script.results), script.results[k].op = "filter"
                 PROVE  script.results[k].mat[1] \in AllLabels /\ script.results[k].rename \in AllLabels
      OBVIOUS
    <3>1. Renames(k, script.results[k].mat[1], script.results[k].rename)
      BY DEF Renames
    <3>2. script.results[k].rename \in AllLabels
      BY <3>1, RenamedRight, TableLabelsRight
    <3>3. script.results[k].mat \in Earlier(script, Len(script.lines) + 1) /\ Len(script.lines) \in Nat
      BY DEF Answered, WellFormed, ResultWellFormed
    <3>4. PICK j \in 1 .. (Len(script.lines) + 1) - 1 : script.lines[j].mat = script.results[k].mat
      BY <3>3 DEF Earlier
    <3>5. j \in 1 .. Len(script.lines)
      BY <3>3
    <3> QED BY <3>2, <3>4, <3>5, SMTT(30) DEF AllLabels, LabelsUpto
  <2> QED BY <1>1, <2>1, SMTT(30) DEF FiltersHold, Covers
<1> HIDE DEF ans
<1>6. \A i \in 1 .. Len(script.lines) : LineHolds(script.lines[i], ans)
  BY <1>1, <1>4, CoveringHolds
<1>7. ans \in Answers
  BY <1>4, <1>5, <1>6, AnswerFound DEF Answered
<1>8. Solved(ans) = a
  BY <1>1, <1>4, TableLabelsRight DEF Solved, Only
<1> QED BY <1>7, <1>8

\* ... and of one only.
LEMMA SolvedOnce ==
  ASSUME Answered, NEW ans \in Answers, NEW other \in Answers, Solved(ans) = Solved(other)
  PROVE  ans = other
<1>1. ans \in [AllLabels -> Entity] /\ other \in [AllLabels -> Entity]
  BY AnswerTyped DEF Answered
<1>2. ASSUME NEW x \in TableLabels PROVE ans[x] = other[x]
  <2>1. Solved(ans)[x] = Numbered(nonisov, ans[x]) /\ Solved(other)[x] = Numbered(nonisov, other[x])
    BY DEF Solved, Place
  <2>2. ans[x] \in Entity /\ other[x] \in Entity
    BY <1>1, TableLabelsRight
  <2> QED BY <2>1, <2>2, NumberedBijective DEF Answered
<1>3. ASSUME NEW x \in AllLabels, x \notin TableLabels PROVE ans[x] = other[x]
  <2>1. PICK r, y : Renames(r, x, y)
    BY <1>3, RenamedRight
  <2>2. y \in TableLabels
    BY <2>1, RenamedRight
  <2>3. ans[x] = ans[y] /\ other[x] = other[y]
    BY <2>1 DEF Renames, Answered, Answers, AnswersTo
  <2> QED BY <1>2, <2>2, <2>3
<1> QED BY <1>1, <1>2, <1>3

\* A query that is done applied all its lines.
Complete == phase = "done" /\ script.results # <<>> /\ Len(applied) = Len(script.results)

\* Then its table is that of all its lines, and the number of its rows is reported.
LEMMA CompleteRight ==
  ASSUME IInv, Shape, Sound, Complete
  PROVE  /\ Answered
         /\ TableOf(script, found, Len(script.results), labels, indl)
         /\ nres = RG!TotalRows(indl)
         /\ IsTable(indl, Len(labels)) /\ IsSequence(labels)
<1> DEFINE n == Len(script.results)
<1>1. InGeneration
  BY DEF Complete, InGeneration
<1>2. WellFormed(script) /\ n \in Nat /\ DOMAIN script.results = 1 .. n /\ IsSequence(script.results)
  BY QueryRight
<1>3. n # 0
  BY <1>2 DEF Complete, IsSequence
<1>4. resLine \in 1 .. n + 1 /\ Len(applied) <= resLine - 1 /\ Len(applied) = n
  BY <1>1 DEF Shape, Sound, Content, Complete
<1>5. resLine = n + 1 /\ resLine > 1 /\ resLine - 1 = n
  BY <1>2, <1>3, <1>4
<1>6. /\ TableOf(script, found, n, labels, indl)
      /\ script.program = "magiqParse" \/ (resLine > 2 /\ script.results[n].report) => nres = RG!TotalRows(indl)
  BY <1>1, <1>4, <1>5 DEF Sound, Content
<1>7. Answered
  <2>1. data \in SUBSET Triple /\ nonisov \in Renumberings
    BY DEF IInv, Given
  <2>2. NoneMalformed
    BY <1>1 DEF Sound, FoundSound, NoneMalformed
  <2>3. Keyed(script, n)
    BY <1>6 DEF TableOf
  <2> QED BY <1>1, <1>2, <1>3, <2>1, <2>2, <2>3, OpsHold DEF Answered, Sound
<1>8. nres = RG!TotalRows(indl) /\ IsTable(indl, Len(labels)) /\ IsSequence(labels)
  <2>1. CASE script.program = "magiqParse"
    <3>1. ParseShape
      BY <1>1, <2>1 DEF Shape
    <3>2. labels # <<>>
      BY <1>3, <1>5, <3>1 DEF ParseShape
    <3> QED BY <1>6, <2>1, <3>1, <3>2 DEF ParseShape, Lists
  <2>2. CASE \E k \in DOMAIN LubmQueries : script = LubmQueries[k]
    <3>1. PICK k \in DOMAIN LubmQueries : script = LubmQueries[k]
      BY <2>2
    <3>2. CodeShape(k)
      BY <1>1, <3>1 DEF Shape
    <3>3. CallsRight(Lost(k), script.results, LubmColumns[k])
      BY <3>1, CallsAreRight
    <3>4. n > 1 /\ script.results[n].report
      BY <1>2, <1>3, <3>3 DEF CallsRight
    <3>5. resLine > 2
      BY <1>2, <1>5, <3>4
    <3>6. IsSequence(LubmColumns[k][n])
      BY <1>2, <1>3, <3>3 DEF CallsRight
    <3> QED BY <1>5, <1>6, <3>2, <3>4, <3>5, <3>6 DEF CodeShape
  <2> QED BY <2>1, <2>2 DEF Shape
<1> QED BY <1>6, <1>7, <1>8

\* An answer's row.
AnswerRow(ans) == [i \in 1 .. Len(labels) |-> Place(ans, labels[i])]

\* The answers are as many as the rows that list theirs.
LEMMA AnswersListed ==
  ASSUME Answered, Len(labels) \in Nat, \A i \in 1 .. Len(labels) : labels[i] \in TableLabels,
         Told(labels, Solutions(script, found, Len(script.results))),
         NEW rows, Lists(rows, RowsOf(labels, Solutions(script, found, Len(script.results))))
  PROVE  /\ {rows[i] : i \in 1 .. Len(rows)} = {AnswerRow(ans) : ans \in Answers}
         /\ Len(rows) = Cardinality(Answers)
<1> DEFINE S == Solutions(script, found, Len(script.results))
<1>1. \A ans \in Answers : AnswerRow(ans) = RowAt(labels, Solved(ans))
  BY DEF AnswerRow, RowAt, Solved
<1>2. \A ans \in Answers : Solved(ans) \in S
  BY SolvedRight
<1>3. \A a \in S : \E ans \in Answers : Solved(ans) = a
  BY SolutionAnswers
<1>4. \A ans, other \in Answers : Solved(ans) = Solved(other) => ans = other
  BY SolvedOnce
<1>5. Told(labels, S) /\ Lists(rows, RowsOf(labels, S))
  OBVIOUS
<1> HIDE DEF S
<1>6. \A i \in 1 .. Len(rows) : \E ans \in Answers : AnswerRow(ans) = rows[i]
  <2> SUFFICES ASSUME NEW i \in 1 .. Len(rows) PROVE \E ans \in Answers : AnswerRow(ans) = rows[i]
    OBVIOUS
  <2>1. PICK a \in S : rows[i] = RowAt(labels, a)
    BY <1>5 DEF Lists, RowsOf
  <2>2. PICK ans \in Answers : Solved(ans) = a
    BY <1>3
  <2> QED BY <1>1, <2>1, <2>2
<1>7. \A ans \in Answers : \E i \in 1 .. Len(rows) : rows[i] = AnswerRow(ans)
  <2> SUFFICES ASSUME NEW ans \in Answers PROVE \E i \in 1 .. Len(rows) : rows[i] = AnswerRow(ans)
    OBVIOUS
  <2>1. RowAt(labels, Solved(ans)) \in RowsOf(labels, S)
    BY <1>2 DEF RowsOf
  <2> QED BY <1>1, <1>5, <2>1 DEF Lists
<1>8. \A ans, other \in Answers : AnswerRow(ans) = AnswerRow(other) => ans = other
  BY <1>1, <1>2, <1>4, <1>5 DEF Told
<1>9. {rows[i] : i \in 1 .. Len(rows)} = {AnswerRow(ans) : ans \in Answers}
  BY <1>6, <1>7
<1> DEFINE s == [i \in 1 .. Len(rows) |-> CHOOSE ans \in Answers : AnswerRow(ans) = rows[i]]
<1>10. \A i \in 1 .. Len(rows) : s[i] \in Answers /\ AnswerRow(s[i]) = rows[i]
  BY <1>6
<1>11. Len(rows) \in Nat /\ \A i, j \in 1 .. Len(rows) : rows[i] = rows[j] => i = j
  BY <1>5 DEF Lists, IsSequence
<1>12. IsSequence(s) /\ Len(s) = Len(rows)
  BY <1>11 DEF IsSequence
<1> HIDE DEF s
<1>13. Lists(s, Answers)
  <2>1. ASSUME NEW ans \in Answers PROVE \E i \in 1 .. Len(rows) : s[i] = ans
    <3>1. PICK i \in 1 .. Len(rows) : rows[i] = AnswerRow(ans)
      BY <1>7
    <3> QED BY <1>8, <1>10, <3>1
  <2>2. ASSUME NEW i \in 1 .. Len(rows), NEW j \in 1 .. Len(rows), s[i] = s[j] PROVE i = j
    BY <1>10, <1>11, <2>2
  <2> QED BY <1>10, <1>12, <2>1, <2>2 DEF Lists
<1>14. Cardinality(Answers) = Len(rows)
  BY <1>12, <1>13, ListsCounted
<1> QED BY <1>9, <1>14

\* In both programs, whatever the graph, the grid, the permutation and the query: a query that
\* applied all its lines reports exactly its answers, each in one row of the table, and their
\* number (parseSparql and resgen_l1 to resgen_l7).
THEOREM QueriesAreAnswered == ProgramsSpec => []ExactAnswers
<1>1. IInv /\ Shape /\ Sound => ExactAnswers
  <2> SUFFICES ASSUME IInv, Shape, Sound, Complete PROVE ExactAnswers
    BY DEF ExactAnswers, Complete
  <2> DEFINE n == Len(script.results)
             S == Solutions(script, found, n)
             rows == RG!FlattenSeq(PartsOf(indl))
  <2>1. Answered /\ TableOf(script, found, n, labels, indl) /\ nres = RG!TotalRows(indl) /\ IsTable(indl, Len(labels)) /\ IsSequence(labels)
    BY CompleteRight
  <2>2. /\ Flattened(rows, PartsOf(indl), ProcCols) /\ RG!TotalRows(indl) = Len(rows)
    BY <2>1, TotalRowsRight
  <2>3. TableRows = rows
    BY DEF TableRows, PartsOf, FlattenSeq, RG!FlattenSeq
  <2>4. /\ Len(labels) \in Nat /\ \A i \in 1 .. Len(labels) : labels[i] \in TableLabels
        /\ Told(labels, S) /\ Holds(indl, RowsOf(labels, S))
    BY <2>1 DEF TableOf, TableLabels
  <2>5. Lists(rows, RowsOf(labels, S))
    <3> HIDE DEF rows, S
    <3> QED BY <2>2, <2>4 DEF Flattened, Holds
  <2>6. {rows[i] : i \in 1 .. Len(rows)} = {AnswerRow(ans) : ans \in Answers} /\ Len(rows) = Cardinality(Answers)
    <3> HIDE DEF rows
    <3> QED BY <2>1, <2>4, <2>5, AnswersListed
  <2>7. DOMAIN labels = 1 .. Len(labels) /\ DOMAIN rows = 1 .. Len(rows)
    <3>1. IsSequence(rows)
      BY <2>5 DEF Lists
    <3>2. IsSequence(labels)
      BY <2>1
    <3> QED BY <3>1, <3>2 DEF IsSequence
  <2>8. \A ans : AnswerRow(ans) = [i \in DOMAIN labels |-> Numbered(nonisov, ans[labels[i]])]
    BY <2>7 DEF AnswerRow, Place
  <2> HIDE DEF rows
  <2> QED BY <2>1, <2>2, <2>3, <2>6, <2>7, <2>8, ZenonT(30) DEF ExactAnswers
<1> QED BY <1>1, SoundHolds, PTL
=============================================================================
