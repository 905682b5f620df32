--------------------------------- MODULE DistMatrix ---------------------------------
(***************************************************************************)
(* SpParMat's operations on a square sparse matrix that is distributed in  *)
(* blocks, and on the dense vector FullyDistVec that goes with it: Reduce, *)
(* DimApply, Prune and Transpose.  A matrix is a function from processes   *)
(* to the entries of their blocks, at local indices; a vector is one from  *)
(* processes to their local arrays.                                        *)
(*                                                                         *)
(* Every operation is collective and returns what it leaves on all the     *)
(* processes; an element type of ElementRange values wraps around.         *)
(***************************************************************************)
EXTENDS Distribution, SequencesExt

CONSTANTS NEntities,    \* rows and columns of a matrix
          ElementRange  \* 256 for ElementType, uint8_t

ASSUME DistMatrixAssumption ==
  ProcRows = ProcCols /\ NEntities \in Nat \ {0} /\ ElementRange \in Nat \ {0, 1}

Entity == 0 .. NEntities - 1

ProcCol(r) == {q \in Procs : RankInProcRow(q) = RankInProcRow(r)}   \* ColWorld of r
ProcRow(r) == {q \in Procs : RankInProcCol(q) = RankInProcCol(r)}   \* RowWorld of r

MyLength(r) == MyLocLength(NEntities, RankInProcCol(r), RankInProcRow(r))

Block(r) == [row : 0 .. LocRows(NEntities, RankInProcCol(r)) - 1,
             col : 0 .. LocCols(NEntities, RankInProcRow(r)) - 1,
             val : 1 .. ElementRange - 1]

\* The distributed matrix with the given entries, at global indices.
Scatter(entries) ==
  LET owner(e) == BlockOwner(NEntities, NEntities, e.row, e.col) IN
  [r \in Procs |-> {[row |-> owner(e).lrow, col |-> owner(e).lcol, val |-> e.val] :
                      e \in {d \in entries : owner(d).rank = r}}]

\* The global places of a matrix's entries.
Nonzeros(M) ==
  UNION {{<<RowOffset(NEntities, RankInProcCol(r)) + e.row,
            ColOffset(NEntities, RankInProcRow(r)) + e.col>> : e \in M[r]} : r \in Procs}

getnnz(M) == Cardinality(Nonzeros(M))

\* The vector's element for a global index.
ElementAt(v, ind) == LET own == Owner(NEntities, ind) IN v[own.rank][own.lind + 1]

-----------------------------------------------------------------------------

LogicalOr(found) == IF found THEN 1 ELSE 0

\* Each process column reduces its columns, a part of them to each of its processes; what
\* P(i,j) has belongs to P(j,i).
ReduceColumnInPlace(M) ==
  [r \in Procs |->
     LET n == LocCols(NEntities, RankInProcRow(r))
         first == PartStart(n, ProcRows, RankInProcCol(r))
     IN [k \in 1 .. PartLength(n, ProcRows, RankInProcCol(r)) |->
           LogicalOr(\E q \in ProcCol(r) : \E e \in M[q] : e.col = first + k - 1 /\ e.val # 0)]]
ReduceColumn(M) ==
  LET trarr == ReduceColumnInPlace(M) IN [r \in Procs |-> trarr[GetComplementRank(r)]]

\* Each process row reduces its rows, a part of them to each of its processes, in batches
\* of nonempty columns: no batch at all when the whole process row is empty.  The array
\* that comes in is only resized: what it holds is reduced along with the matrix.
Resized(arr, len) == [k \in 1 .. len |-> IF k <= Len(arr) THEN arr[k] ELSE 0]
ReduceRow(M, rvec) ==
  [r \in Procs |->
     LET old == Resized(rvec[r], MyLength(r))
         first == RowLenUntil(NEntities, RankInProcCol(r), RankInProcRow(r))
         inRow(k) == \E q \in ProcRow(r) : \E e \in M[q] : e.row = first + k - 1 /\ e.val # 0
     IN IF \A q \in ProcRow(r) : M[q] = {} THEN old
        ELSE [k \in DOMAIN old |-> LogicalOr(old[k] # 0 \/ inRow(k))]]

\* Apply with bind2nd(multiplies, scalar).
Scaled(v, scalar) ==
  [r \in Procs |-> [k \in DOMAIN v[r] |-> (v[r][k] * scalar) % ElementRange]]

\* A vector of zeros and SetElement.
UnitVector(ind, value) ==
  LET own == Owner(NEntities, ind) IN
  [r \in Procs |-> [k \in 1 .. MyLength(r) |-> IF r = own.rank /\ k = own.lind + 1 THEN value ELSE 0]]

\* DimApply's scaler: the vector's part for the columns or the rows of a process.
ScalerByColumn(v, r) ==
  FlattenSeq([i \in 1 .. ProcRows |-> v[GetComplementRank(GetRank(i - 1, RankInProcRow(r)))]])
ScalerByRow(v, r) == FlattenSeq([j \in 1 .. ProcCols |-> v[GetRank(RankInProcCol(r), j - 1)]])

\* rdf_multiply and std::multiplies.
ProductOfNonzeros(a, b, isRDF) == IF a # 0 /\ b # 0 THEN 1 ELSE 0
Product(a, b, isRDF) ==
  IF isRDF THEN IF a # 0 /\ b # 0 /\ a = b THEN 1 ELSE 0 ELSE (a * b) % ElementRange

DimApply(M, v, dim, isRDF) ==
  [r \in Procs |->
     LET scaler == IF dim = "Column" THEN ScalerByColumn(v, r) ELSE ScalerByRow(v, r)
         at(e) == IF dim = "Column" THEN e.col + 1 ELSE e.row + 1
     IN {[e EXCEPT !.val = Product(@, scaler[at(e)], isRDF)] : e \in M[r]}]

Prune(M) == [r \in Procs |-> {e \in M[r] : e.val # 0}]

\* P(i,j) and P(j,i) exchange their blocks, with rows and columns swapped.
TransposeSwappingOnly(M) ==
  [r \in Procs |-> {[row |-> e.col, col |-> e.row, val |-> e.val] : e \in M[r]}]
Transpose(M) ==
  [r \in Procs |-> {[row |-> e.col, col |-> e.row, val |-> e.val] : e \in M[GetComplementRank(r)]}]
=============================================================================
