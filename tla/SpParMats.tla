----------------------------------- MODULE SpParMats -----------------------------------
(***************************************************************************)
(* The program of FullyDistVectors with calls on distributed matrices in   *)
(* between: those of GlobalMatrices, which this implements.  A matrix comes *)
(* as an abstract one and is dealt out in blocks; the vectors are masks,   *)
(* bounds and lists of indices.                                            *)
(***************************************************************************)
EXTENDS FullyDistVectors, DistSpMat

-----------------------------------------------------------------------------
(* Matrices and what they stand for. *)

BlocksOf(M) ==
  Matrix(M.m, M.n, ByRank(LAMBDA r :
    {LET own == BlockOwner(M.m, M.n, p[1], p[2]) IN Entry(own.lrow, own.lcol, M.at[p]) : p \in Block(M, r)}))
BuiltMatrix == FoldSet(LAMBDA M, built : (M :> BlocksOf(M)) @@ built, <<>>, Matrices)

\* Each rank has its block, with one entry for a place.
BlocksInPlace(A) ==
  \A r \in Procs :
    /\ \A e \in A.blk[r] : e.row \in 0 .. LocalRows(A, r) - 1 /\ e.col \in 0 .. LocalCols(A, r) - 1 /\ e.val \in Value
    /\ Cardinality({<<e.row, e.col>> : e \in A.blk[r]}) = Cardinality(A.blk[r])
AbsMatrix(A) ==
  LET placed(r) == {<<e.row + RowStart(A, r), e.col + ColStart(A, r), e.val>> : e \in A.blk[r]}
      all == UNION {placed(r) : r \in Procs}
  IN [m |-> A.m, n |-> A.n,
      at |-> IF BlocksInPlace(A) THEN [p \in {<<e[1], e[2]>> : e \in all} |-> (CHOOSE e \in all : <<e[1], e[2]>> = p)[3]]
             ELSE Broken]

TheMatrix(A) == [is |-> "matrix", of |-> A]
MatrixWith(A, v) == [is |-> "matrix and value", of |-> <<A, v>>]
DenseWith(v, d) == [is |-> "value and dense", of |-> <<v, d>>]
TheTriples(ds) == [is |-> "triples", of |-> ds]
\* Three vectors stand for the set of their triples, if these are as many as the first is long.
AbsTriples(ds) ==
  LET rows == AbsDense(ds[1])
      cols == AbsDense(ds[2])
      vals == AbsDense(ds[3])
  IN [count |-> ds[1].glen, of |-> {<<rows[i], cols[i], vals[i]>> : i \in DOMAIN rows}]
AnyAnswer == CASE out.is = "matrix" -> <<AbsMatrix(out.of)>>
               [] out.is = "matrix and value" -> <<<<AbsMatrix(out.of[1]), out.of[2]>>>>
               [] out.is = "value and dense" -> <<<<out.of[1], AbsDense(out.of[2])>>>>
               [] out.is = "triples" -> <<AbsTriples(out.of)>>
               [] OTHER -> Answer

-----------------------------------------------------------------------------
(* Calls.  The rows of the matrices are values of vectors. *)

Mats == {M \in Matrices : M.m < ElementRange}
Fitting == {M \in Mats : M.n = sp.glen}
SquareOnes == {M \in Fitting : M.m = M.n}

CallFromTriples == Idle /\ \E e \in LikeDense, sum \in BOOLEAN :
  LET vals == Iota(dn.glen, 1) IN
  Ask([op |-> "fromTriples", rows |-> e, sum |-> sum],
      TheMatrix(FromTriples(ElementRange, ElementRange + 1, BuiltDense[e], dn, LAMBDA r, i : vals.arr[r][i], sum)))
CallFindTriples == Idle /\ \E M \in Fitting :
  Ask([op |-> "findTriples", matrix |-> M], TheTriples(FindTriples(BuiltMatrix[M])))
CallTranspose == Idle /\ \E M \in Fitting : Ask([op |-> "transpose", matrix |-> M], TheMatrix(TransposeBlocks(BuiltMatrix[M])))
CallSave == Idle /\ \E M \in Fitting, transpose \in BOOLEAN :
  Ask([op |-> "save", matrix |-> M, transpose |-> transpose], Plain(SaveGatheredBlocks(BuiltMatrix[M], transpose)))
CallReadMatrix == Idle /\ \E M \in Fitting, memory \in {2, 5, 8}, pario, transpose, byColumns \in BOOLEAN :
  LET A == BuiltMatrix[M]
      byRows == SaveGatheredBlocks(A, FALSE)
      swapped == SaveGatheredBlocks(TransposeBlocks(A), TRUE)
      lines == IF byColumns THEN swapped ELSE byRows
      m == IF transpose THEN M.n ELSE M.m
      n == IF transpose THEN M.m ELSE M.n
  IN /\ Readable(m, n, lines, memory, pario)
     /\ Ask([op |-> "readMatrix", matrix |-> M, memory |-> memory, pario |-> pario, transpose |-> transpose,
             byColumns |-> byColumns], TheMatrix(ReadDistributeBlocks(m, n, lines, memory, pario, transpose)))

CallMaskedReduce == Idle /\ \E M \in Mats, exclude \in BOOLEAN :
  /\ M.m = sp.glen
  /\ Ask([op |-> "maskedReduce", matrix |-> M, exclude |-> exclude], TheDense(MaskedReduce(BuiltMatrix[M], sp, exclude)))
CallPruneColumn == Idle /\ \E M \in Fitting, listed \in BOOLEAN :
  /\ listed => EveryListedMet(BuiltMatrix[M], sp)
  /\ Ask([op |-> "pruneColumn", matrix |-> M, listed |-> listed],
         TheMatrix(IF listed THEN PruneListedColumns(BuiltMatrix[M], sp) ELSE PruneColumn(BuiltMatrix[M], dn)))

CallKselect == Idle /\ \E M \in Fitting, k \in 1 .. 3 :
  Ask([op |-> "kselect", matrix |-> M, k |-> k],
      LET found == Kselect1(BuiltMatrix[M], k) IN DenseWith(found[1], found[2]))
CallKselectListed == Idle /\ \E M \in Fitting, k \in 1 .. 3 :
  Ask([op |-> "kselectListed", matrix |-> M, k |-> k], TheSparse(KselectListed(BuiltMatrix[M], sp, k)))

CallAddLoops == Idle /\ \E M \in SquareOnes, one, replace \in BOOLEAN :
  Ask([op |-> "addLoops", matrix |-> M, one |-> one, replace |-> replace],
      TheMatrix(IF one THEN AddLoop(BuiltMatrix[M], 1, replace) ELSE AddLoops(BuiltMatrix[M], dn, replace)))
CallRemoveLoops == Idle /\ \E M \in SquareOnes :
  Ask([op |-> "removeLoops", matrix |-> M],
      LET removed == RemoveLoops(BuiltMatrix[M]) IN MatrixWith(removed[1], removed[2]))
CallShape == Idle /\ \E M \in SquareOnes :
  Ask([op |-> "shape", matrix |-> M],
      Plain([bandwidth |-> Bandwidth(BuiltMatrix[M]), profile |-> Profile(BuiltMatrix[M])]))

CallMultiply == Idle /\ \E M \in Fitting, N \in Matrices :
  /\ M.n = N.m /\ Splittable(M.n)
  /\ Ask([op |-> "multiply", matrix |-> M, by |-> N], TheMatrix(Mult_AnXBn_DoubleBuff(BuiltMatrix[M], BuiltMatrix[N])))
CallSquare == Idle /\ \E M \in SquareOnes : Ask([op |-> "square", matrix |-> M], TheMatrix(Square(BuiltMatrix[M])))

\* The vector dn has indices of rows, ci has indices of columns.
Indexing == {x \in Mats \X Denses :
               /\ Splittable(x[1].m) /\ Splittable(x[1].n) /\ ValuesAreIndices(x[2], x[1].n)
               /\ \A r \in Procs : \A i \in 1 .. Len(dn.arr[r]) : dn.arr[r][i] < x[1].m}
CallIndex == Idle /\ \E x \in Indexing, same \in BOOLEAN :
  /\ same => x[1].m = x[1].n /\ BuiltDense[x[2]] = dn
  /\ Ask([op |-> "index", matrix |-> x[1], ci |-> x[2], same |-> same],
         TheMatrix(SubsRef_SR(BuiltMatrix[x[1]], dn, BuiltDense[x[2]], same)))
CallPruneIndexed == Idle /\ \E x \in Indexing :
  Ask([op |-> "prune", matrix |-> x[1], ci |-> x[2]], TheMatrix(Prune(BuiltMatrix[x[1]], dn, BuiltDense[x[2]])))

\* Indices that are listed once.
Distinct(d) == \A i, j \in DOMAIN d : d[i] = d[j] => i = j
CallAssignMatrix == Idle /\ \E x \in Indexing, N \in Mats :
  /\ N.m = dn.glen /\ N.n = Size(x[2]) /\ Splittable(N.m) /\ Splittable(N.n)
  /\ Distinct(x[2]) /\ \E d \in Denses : BuiltDense[d] = dn /\ Distinct(d)
  /\ Ask([op |-> "assign matrix", matrix |-> x[1], ci |-> x[2], other |-> N],
         TheMatrix(SpAsgn(BuiltMatrix[x[1]], dn, BuiltDense[x[2]], BuiltMatrix[N])))

-----------------------------------------------------------------------------

NextOperation ==
  \/ Next \/ CallFromTriples \/ CallFindTriples \/ CallTranspose \/ CallSave \/ CallReadMatrix \/ CallMaskedReduce
  \/ CallPruneColumn \/ CallKselect \/ CallKselectListed \/ CallAddLoops \/ CallRemoveLoops \/ CallShape
  \/ CallMultiply \/ CallSquare \/ CallIndex \/ CallPruneIndexed \/ CallAssignMatrix

Spec == Init /\ [][NextOperation]_vars

-----------------------------------------------------------------------------
(* Properties. *)

GM == INSTANCE GlobalMatrices WITH sparse <- AbsSparse(sp), dense <- AbsDense(dn), answer <- AnyAnswer

\* Every operation changes the vectors, and answers, as it would if vectors and matrices were in
\* one place: wherever the parts are, whichever ranks have none, and however many threads work.
ImplementsGlobal == GM!SpecOperations
=============================================================================
