----------------------------------- MODULE SpDCCols -----------------------------------
(***************************************************************************)
(* The block of a process and its operations: A is the object of class     *)
(* SpDCCols, with the storage of Dcsc, and each action is one operation    *)
(* with everything it calls, the choice of the kernel included.  The calls *)
(* are those of SparseMatrix, which this implements: arguments come as     *)
(* abstract matrices and are built the way the program builds its own, by  *)
(* sorting triples.                                                        *)
(*                                                                         *)
(* A guard beyond that of the call is a precondition of the code: what it  *)
(* does otherwise is an assertion that fails or a read past an array.      *)
(***************************************************************************)
EXTENDS LocalKernels

CONSTANTS Matrices, Vectors,
          MaxNnz,            \* bound of the model on the nonzeros of the block
          LateSinglePieces   \* whether ColConcatenate meets parts of which only a later one has nonzeros

LOCAL INSTANCE SequencesExt
LOCAL INSTANCE FiniteSetsExt
LOCAL INSTANCE TLC

VARIABLES A, call, out
vars == <<A, call, out>>

NoCall == [op |-> "none"]

-----------------------------------------------------------------------------
(* Objects and what they stand for. *)

ListOf(x) == [k \in 1 .. Cardinality(DOMAIN x) |->
                LET i == SetToSortSeq(DOMAIN x, LAMBDA a, b : a < b)[k] IN [row |-> i, val |-> x[i]]]
TriplesOf(M) == Tuples(M.m, M.n, SetToSeq({[row |-> p[1], col |-> p[2], val |-> M.at[p]] : p \in DOMAIN M.at}))
FromTuples(t) == Object(t.m, t.n, FromColSorted(SortColBased(t)))
Build(M) == FromTuples(TriplesOf(M))
AsTuples(obj) == FillTuples(obj.dcsc, obj.m, obj.n)

Matrix(m, n, at) == [m |-> m, n |-> n, at |-> at]
Abs(obj) == Matrix(obj.m, obj.n, Meaning(obj.dcsc))
\* A list out of order or with a place twice stands for no matrix.
Ordered(list) == \A k \in 1 .. Len(list) - 1 : ColBefore(list[k], list[k + 1])
Broken == [p \in {<<>>} |-> 0]
AbsTuples(t) ==
  Matrix(t.m, t.n, IF Ordered(t.tuples) THEN FoldLeft(LAMBDA f, e : (<<e.row, e.col>> :> e.val) @@ f, <<>>, t.tuples)
                   ELSE Broken)
AbsVector(list) ==
  IF \A k \in 1 .. Len(list) - 1 : list[k].row < list[k + 1].row
  THEN FoldLeft(LAMBDA f, e : (e.row :> e.val) @@ f, <<>>, list)
  ELSE [i \in {-1} |-> 0]

\* What a call returns, with its kind.
Nothing == [is |-> "nothing", of |-> <<>>]
Objects(objs) == [is |-> "objects", of |-> objs]
Triples(t) == [is |-> "triples", of |-> <<t>>]
Sparse(list) == [is |-> "sparse", of |-> list]
ForReceivers(lists) == [is |-> "receivers", of |-> lists]
Plain(value) == [is |-> "plain", of |-> value]

Answer ==
  CASE out.is = "objects" -> [i \in DOMAIN out.of |-> Abs(out.of[i])]
    [] out.is = "triples" -> [i \in DOMAIN out.of |-> AbsTuples(out.of[i])]
    [] out.is = "sparse" -> AbsVector(out.of)
    [] out.is = "receivers" -> [p \in DOMAIN out.of |-> AbsVector(out.of[p])]
    [] OTHER -> out.of

-----------------------------------------------------------------------------
(* Construction and conversion. *)

Idle == call = NoCall
Serve(c, newA, newOut) ==
  call' = c /\ A' = newA /\ A'.nnz <= MaxNnz /\ out' = newOut
Ask(c, newOut) == Serve(c, A, newOut)

Init == /\ \E M \in Matrices : A = Build(M)
        /\ call = NoCall /\ out = Nothing

Return == call # NoCall /\ call' = NoCall /\ out' = Nothing /\ UNCHANGED A

\* Through triples, by one thread or more; through text, which needs a nonzero; by copying the
\* arrays; by the copy constructor, which makes a null pointer of no nonzeros.
Rebuilt(how, threads) ==
  CASE how = "tuples" -> FromTuples(AsTuples(A))
    [] how = "threads" -> Object(A.m, A.n, IF isZero(A) THEN NullDcsc
                                            ELSE FromColSortedThreaded(AsTuples(A), threads))
    [] how = "stream" -> FromTuples(getstream(putstream(AsTuples(A))))
    [] how = "arrays" -> [A EXCEPT !.dcsc = [cp |-> A.dcsc.cp, jc |-> A.dcsc.jc, ir |-> A.dcsc.ir, numx |-> A.dcsc.numx]]
    [] how = "copy" -> Object(A.m, A.n, Converted(A.dcsc, [v \in Values |-> v]))
Rebuild == Idle /\ \E how \in {"tuples", "threads", "stream", "arrays", "copy"}, threads \in 1 .. 3 :
  /\ how = "stream" => ~ isZero(A)
  /\ how # "threads" => threads = 1
  /\ Serve([op |-> "rebuild", how |-> how, threads |-> threads], Rebuilt(how, threads), Nothing)

Conform == {N \in Matrices : N.m = A.m /\ N.n = A.n}
RightFactors == {N \in Matrices : N.m = A.n}
Factors == {F \in Matrices \X Matrices : F[1].m = A.m /\ F[2].n = A.n /\ F[1].n = F[2].m}
Fitting == {x \in Vectors : DOMAIN x \subseteq 0 .. A.n - 1}

\* operator==.
Equal(B) == (isZero(A) /\ isZero(B)) \/ (A.nnz = B.nnz /\ Same(A.dcsc, B.dcsc))
Compare == Idle /\ \E N \in Conform : Ask([op |-> "compare", arg |-> N], Plain(<<Equal(Build(N))>>))

\* An edge list, with every edge twice.
EdgeList == Idle /\ \E removeloops \in BOOLEAN :
  LET edges == [k \in DOMAIN AsTuples(A).tuples |-> <<AsTuples(A).tuples[k].row, AsTuples(A).tuples[k].col>>]
  IN Serve([op |-> "edges", removeloops |-> removeloops],
           FromTuples(FromEdges(A.m, A.n, edges \o edges, removeloops)), Nothing)

-----------------------------------------------------------------------------
(* Sums. *)

Plus_(B) == IF isZero(B) THEN A ELSE IF isZero(A) THEN B ELSE Object(A.m, A.n, AddAssign(A.dcsc, B.dcsc))
Add == Idle /\ \E N \in Conform : Serve([op |-> "add", arg |-> N], Plus_(Build(N)), Nothing)

\* Into a matrix without nonzeros the product, which must have one, is stored as it is.
PlusEq_AnXBn(B, C) == IF isZero(B) \/ isZero(C) THEN <<>> ELSE SpColByCol(B.dcsc, C.dcsc, B.n, {})
PlusEq_AnXBt(B, C) ==
  IF isZero(B) \/ isZero(C) THEN <<>> ELSE SpCartesian(SpIntersect(B.dcsc, TransposeConst(C).dcsc), {})
AddProduct == Idle /\ \E F \in Factors, how \in {"AnXBn", "AnXBt"} :
  LET B == Build(F[1])
      C == Build(F[2])
      multstack == IF how = "AnXBn" THEN PlusEq_AnXBn(B, C) ELSE PlusEq_AnXBt(B, C)
  IN /\ isZero(A) /\ ~ isZero(B) /\ ~ isZero(C) => multstack # <<>>
     /\ Serve([op |-> "addProduct", how |-> how, left |-> F[1], right |-> F[2]],
              Object(A.m, A.n, IF isZero(A) THEN FromStack(multstack) ELSE AddAndAssign(A.dcsc, multstack)), Nothing)

-----------------------------------------------------------------------------
(* Pruning and scaling: in place, or into a new object. *)

Reduce(c, d) ==
  LET B == Object(A.m, A.n, IF isZero(A) THEN NullDcsc ELSE d)
  IN IF c.inPlace THEN Serve(c, B, Nothing) ELSE Ask(c, Objects(<<B>>))

PruneValue == Idle /\ \E v \in Values, inPlace \in BOOLEAN :
  Reduce([op |-> "prune", value |-> v, inPlace |-> inPlace], Prune(A.dcsc, {v}))
PruneDiagonal == Idle /\ \E o \in {0, 1}, inPlace \in BOOLEAN :
  Reduce([op |-> "pruneI", offset |-> o, inPlace |-> inPlace],
         PruneI(A.dcsc, {<<i + o, i + o, v>> : i \in 0 .. A.m, v \in Values}, o, 0))
PruneBelow == Idle /\ \E t \in 0 .. A.n - 1, inPlace \in BOOLEAN :
  Reduce([op |-> "pruneColumn", column |-> t, inPlace |-> inPlace],
         PruneColumn(A.dcsc, [c \in 1 .. A.n |-> IF c - 1 = t THEN 1 ELSE 0]))
\* The cursor waits at a column that is empty for good: none of those listed may be.
PruneBelowListed == Idle /\ \E t \in 0 .. A.n - 1, inPlace \in BOOLEAN :
  LET pinds == [k \in 1 .. A.n - t |-> t + k - 1] IN
  /\ ToSet(pinds) \subseteq ToSet(A.dcsc.jc)
  /\ Reduce([op |-> "pruneColumnInds", columns |-> pinds, inPlace |-> inPlace],
            PruneColumnInds(A.dcsc, pinds, [k \in DOMAIN pinds |-> 1]))

\* The member function and the friend that makes a new object.
Multiplied(B, exclude) ==
  IF isZero(A) \/ (isZero(B) /\ ~ exclude) THEN Object(A.m, A.n, NullDcsc)
  ELSE IF isZero(B) THEN A
  ELSE Object(A.m, A.n, EWiseMult(A.dcsc, B.dcsc, exclude))
EWiseMultiply == Idle /\ \E N \in Conform, exclude, inPlace \in BOOLEAN :
  LET c == [op |-> "ewiseMult", arg |-> N, exclude |-> exclude, inPlace |-> inPlace]
      B == Multiplied(Build(N), exclude)
  IN IF inPlace THEN Serve(c, B, Nothing) ELSE Ask(c, Objects(<<B>>))

EWiseNot == Idle /\ \E N \in Conform, notB \in BOOLEAN :
  LET B == Build(N) IN
  Ask([op |-> "ewiseApplyNot", arg |-> N, notB |-> notB],
      Objects(<<Object(A.m, A.n, IF isZero(A) \/ (isZero(B) /\ ~ notB) THEN NullDcsc
                                 ELSE EWiseApplyNot(A.dcsc, B.dcsc, notB, 1 % ElementRange))>>))

\* There is no storage without room for a nonzero, so that something must be allowed.
EWiseGeneral == Idle /\ \E N \in Conform, aNulls, bNulls, both, filter \in BOOLEAN :
  LET B == Build(N) IN
  /\ ~ isZero(A) \/ (~ isZero(B) /\ aNulls)
  /\ isZero(B) => bNulls
  /\ Ask([op |-> "ewiseApply", arg |-> N, aNulls |-> aNulls, bNulls |-> bNulls, both |-> both, filter |-> filter],
         Objects(<<[m |-> A.m, n |-> A.n, nnz |-> 0,
                    dcsc |-> EWiseApply(A.dcsc, B.dcsc, {v \in Values \X Values : filter => Plus(v[1], v[2]) # 0},
                                        aNulls, bNulls, both)]>>))

Array(f(_, _)) == [i \in 1 .. A.m |-> [j \in 1 .. A.n |-> f(i - 1, j - 1)]]
EWiseScaled == Idle /\ Serve([op |-> "scale"], [A EXCEPT !.dcsc = EWiseScale(@, Array(LAMBDA i, j : i + j))], Nothing)
DenseUpdated == Idle /\ Ask([op |-> "dense"], Plain(UpdateDense(A.dcsc, Array(LAMBDA i, j : 1 % ElementRange))))
Apply == Idle /\ Serve([op |-> "apply"],
               [A EXCEPT !.dcsc = Converted(@, [v \in Values |-> Plus(v, 1)])], Nothing)

-----------------------------------------------------------------------------
(* Shape. *)

Transpose ==
  /\ Idle
  /\ \/ Serve([op |-> "transpose"], IF isZero(A) THEN Object(A.n, A.m, NullDcsc) ELSE TransposeConst(A), Nothing)
     \/ Ask([op |-> "transposeConst"], Objects(<<TransposeConst(A)>>))

Pieces(parts) ==
  LET cuts == [i \in 1 .. parts - 1 |-> i * (A.n \div parts)]
      dcscs == ColSplit(A.dcsc, cuts)
  IN [i \in 1 .. parts |-> Object(A.m, IF i < parts THEN A.n \div parts ELSE A.n - cuts[parts - 1],
                                  IF isZero(A) THEN NullDcsc ELSE dcscs[i])]

\* C is the object that the pieces are put together in.  Of a single piece with nonzeros only
\* the arrays are taken, not where it begins.
ColConcatenated(C, matrices) ==
  LET widths(k) == FoldLeft(LAMBDA w, B : w + B.n, 0, SubSeq(matrices, 1, k))
      nonempties == SelectSeq([k \in DOMAIN matrices |-> k], LAMBDA k : ~ isZero(matrices[k]))
      parts == [k \in DOMAIN nonempties |-> matrices[nonempties[k]].dcsc]
      n == widths(Len(matrices))
  IN IF nonempties = <<>> THEN [C EXCEPT !.n = n]
     ELSE IF Len(nonempties) = 1 THEN [matrices[nonempties[1]] EXCEPT !.n = n]
     ELSE Object(matrices[nonempties[1]].m, n,
                 ColConcatenate(parts, [k \in DOMAIN nonempties |-> widths(nonempties[k] - 1)]))

Merged(B, C) ==
  IF isZero(B) THEN Object(B.m, B.n + C.n, [C.dcsc EXCEPT !.jc = [k \in DOMAIN @ |-> @[k] + B.n]])
  ELSE IF isZero(C) THEN Object(B.m, B.n + C.n, B.dcsc)
  ELSE Object(B.m, B.n + C.n, Merge(B.dcsc, C.dcsc, B.n))

\* The block is split, the pieces are looked at, and it is put together again.
SplitMerge == Idle /\ \E parts \in 2 .. A.n, how \in {"Split", "ColSplit"} :
  LET ps == Pieces(parts)
      late == isZero(ps[1]) /\ Cardinality({k \in DOMAIN ps : ~ isZero(ps[k])}) = 1
  IN /\ how = "Split" => parts = 2
     /\ how = "ColSplit" => (LateSinglePieces \/ ~ late)
     /\ Serve([op |-> "split", how |-> how, parts |-> parts],
              IF how = "Split" THEN Merged(ps[1], ps[2]) ELSE ColConcatenated(Object(A.m, A.n, NullDcsc), ps),
              Objects(ps))

\* Columns that are listed, in increasing order.
ColIndex(ci) ==
  LET found == SelectSeq([j \in DOMAIN ci |-> j], LAMBDA j : ci[j] \in ToSet(A.dcsc.jc))
      at(j) == CHOOSE i \in DOMAIN A.dcsc.jc : A.dcsc.jc[i] = ci[j]
  IN Object(A.m, Len(ci), Assemble([k \in DOMAIN found |-> [Column(A.dcsc, at(found[k]) - 1) EXCEPT !.col = found[k] - 1]]))
LeftMatrix(ri) == Object(Len(ri), A.m, FromIndices(ri, TRUE))
RightMatrix(ci) == Object(A.n, Len(ci), FromIndices(ci, FALSE))
Indexed(ri, ci) ==
  IF ri = <<>> /\ ci = <<>> THEN Object(A.m, A.n, NullDcsc)
  ELSE IF ri = <<>> THEN ColIndex(ci)
  ELSE IF ci = <<>> THEN OrdColByCol(LeftMatrix(ri), A, {})
  ELSE OrdColByCol(LeftMatrix(ri), OrdColByCol(A, RightMatrix(ci), {}), {})
Indices(n) == [k \in 1 .. n |-> k - 1]
Index == Idle /\ \E ri \in {<<>>, Indices(A.m), <<A.m - 1>>}, ci \in {<<>>, <<A.n - 1>>, <<0, A.n - 1>>} :
  Ask([op |-> "index", ri |-> ri, ci |-> ci], Objects(<<Indexed(ri, ci)>>))

\* The entry at a place, of a matrix that has storage.
Found(p) ==
  IF p[2] \notin ToSet(A.dcsc.jc) THEN <<>>
  ELSE LET c == Column(A.dcsc, (CHOOSE i \in DOMAIN A.dcsc.jc : A.dcsc.jc[i] = p[2]) - 1)
           here == SelectSeq(c.ents, LAMBDA e : e.row = p[1])
       IN IF here = <<>> THEN <<>> ELSE <<here[1].val>>
Element == Idle /\ ~ isZero(A) /\ \E p \in (0 .. A.m - 1) \X (0 .. A.n - 1) : Ask([op |-> "element", at |-> p], Plain(Found(p)))

\* Loops are changed in the triples, and the storage is built again.
AddLoopsTo == Idle /\ A.m = A.n /\ \E replace \in BOOLEAN :
  Serve([op |-> "addLoops", replace |-> replace],
        FromTuples(AddLoops(AsTuples(A), [i \in 1 .. A.n |-> (i - 1) % ElementRange], replace)), Nothing)
RemoveLoopsOf == Idle /\ A.m = A.n /\ Serve([op |-> "removeLoops"], FromTuples(RemoveLoops(AsTuples(A))), Nothing)

-----------------------------------------------------------------------------
(* Products and merges. *)

Multiply ==
  Idle /\ \E N \in RightFactors, said \in {{}, {0}}, how \in {"OrdColByCol", "OrdOutProdMult", "Tuples_AnXBn", "Tuples_AnXBt"} :
    LET B == Build(N) IN
    Ask([op |-> "multiply", how |-> how, arg |-> N, said |-> said],
        CASE how = "OrdColByCol" -> Objects(<<OrdColByCol(A, B, said)>>)
          [] how = "OrdOutProdMult" -> Objects(<<OrdOutProdMult(A, B, said)>>)
          [] how = "Tuples_AnXBn" -> Triples(Tuples_AnXBn(A, B, said))
          [] how = "Tuples_AnXBt" -> Triples(Tuples_AnXBt(A, TransposeConst(B), said)))
MultiplyThreaded == Idle /\ \E N \in RightFactors, threads \in 1 .. 2 :
  Ask([op |-> "localSpGEMM", arg |-> N, threads |-> threads], Triples(LocalSpGEMM(A, Build(N), threads)))

\* The block with a matrix, once or twice; MergeAll needs lists with entries.
MergeLists == Idle /\ \E N \in Conform, k \in 0 .. 2, how \in {"MergeAll", "MultiwayMerge"} :
  LET lists == [i \in 1 .. k + 1 |-> IF i = 1 THEN AsTuples(A) ELSE AsTuples(Build(N))] IN
  /\ how = "MergeAll" => \A i \in DOMAIN lists : nnzOf(lists[i]) > 0
  /\ Ask([op |-> "merge", how |-> how, arg |-> N, others |-> k],
         Triples(IF how = "MergeAll" THEN MergeAll(lists, A.m, A.n) ELSE MultiwayMerge(lists, A.m, A.n, 1)))

SpMV == Idle /\ \E x \in Fitting, said \in {{}, {0}} :
  Ask([op |-> "spmv", x |-> x, said |-> said],
      Sparse(IF isZero(A) \/ x = <<>> THEN <<>> ELSE SpMXSpV(A.dcsc, ListOf(x), said)))
SpMVCsc == Idle /\ \E x \in Fitting, how \in {"HeapSort", "Bucket"}, buckets \in 1 .. 3 :
  LET csc == CscFromTuples(AsTuples(A), A.n) IN
  /\ how = "HeapSort" => buckets = 1
  /\ Ask([op |-> "spmvCsc", how |-> how, x |-> x, buckets |-> buckets],
         Sparse(IF how = "HeapSort" THEN SpMXSpV_HeapSort(csc, ListOf(x))
                ELSE SpMXSpV_Bucket(csc, A.m, ListOf(x), buckets)))
SpMVDense == Idle /\ \E x \in Fitting, threads \in 1 .. 2 :
  LET dense == [c \in 1 .. A.n |-> IF c - 1 \in DOMAIN x THEN x[c - 1] ELSE 0]
      y == [r \in 1 .. A.m |-> 1 % ElementRange]
  IN Ask([op |-> "gespmv", x |-> x, threads |-> threads],
         Plain(IF isZero(A) THEN y ELSE IF threads = 1 THEN dcsc_gespmv(A, dense, y)
               ELSE dcsc_gespmv_threaded(A, dense, y, threads)))

SpMVLogical == Idle /\ \E x \in Fitting :
  Ask([op |-> "spmvLogical", x |-> x],
      Sparse(IF isZero(A) \/ x = <<>> THEN <<>> ELSE SpMXSpV_bool(A.dcsc, ListOf(x))))

\* What receiver p has of one buffer with displacements.
Sliced(buffer, p) ==
  SubSeq(buffer.sendbuf, buffer.sdispls[p] + 1,
         IF p + 1 \in DOMAIN buffer.sdispls THEN buffer.sdispls[p + 1] ELSE Len(buffer.sendbuf))

\* splits = 0 stands for a matrix that is not split by rows; no piece may be empty.
NoEmptyPiece(splits) ==
  \A i \in 0 .. splits - 1 : \E e \in ToSet(A.dcsc.ir) : Recipient(e, A.m \div splits, splits) = i
SpMVForReceivers ==
  Idle /\ \E x \in Fitting, p_c \in 1 .. A.m, splits \in 0 .. A.m, how \in {"buffers", "threaded", "setbuffers"} :
    LET y == ListOf(x) IN
    /\ (how = "buffers") = (splits = 0)
    /\ NoEmptyPiece(splits)
    /\ Ask([op |-> "spmvReceivers", how |-> how, x |-> x, p_c |-> p_c, splits |-> splits],
           ForReceivers(
             CASE how = "buffers" -> SpMXSpV_buffers(A.dcsc, A.m, y, p_c)
               [] how = "threaded" -> LET buffer == generic_gespmv_threaded(A, y, splits, p_c)
                                      IN [p \in 0 .. p_c - 1 |-> Sliced(buffer, p)]
               [] how = "setbuffers" -> generic_gespmv_threaded_setbuffers(A, y, splits, p_c)))

Next ==
  \/ Return \/ Rebuild \/ Compare \/ EdgeList \/ Add \/ AddProduct
  \/ PruneValue \/ PruneDiagonal \/ PruneBelow \/ PruneBelowListed
  \/ EWiseMultiply \/ EWiseNot \/ EWiseGeneral \/ EWiseScaled \/ DenseUpdated \/ Apply \/ Transpose
  \/ SplitMerge \/ Index \/ Element \/ AddLoopsTo \/ RemoveLoopsOf \/ Multiply \/ MultiplyThreaded
  \/ MergeLists \/ SpMV \/ SpMVCsc \/ SpMVDense \/ SpMVLogical \/ SpMVForReceivers

Spec == Init /\ [][Next]_vars

-----------------------------------------------------------------------------
(* Properties. *)

\* The storage of the block is in order after every operation, and so is that of the objects
\* it returns but for the general EWiseApply, which keeps columns that it left nothing of.
TypeOK ==
  /\ A.m \in Nat /\ A.n \in Nat /\ WellFormed(A.dcsc, A.m, A.n) /\ A.nnz = nz(A.dcsc)
  /\ call.op = "spmvReceivers" => call.p_c \in 1 .. A.m /\ call.splits \in 0 .. A.m
  /\ out.is = "objects" /\ call.op # "ewiseApply" =>
       \A i \in DOMAIN out.of : WellFormed(out.of[i].dcsc, out.of[i].m, out.of[i].n)

\* The search by chunks that large multiplications use finds a column wherever it is, its
\* chunk's first and its last included, and none that is not there.
AuxFindsEveryColumn ==
  A.nnz > 0 =>
    \A c \in 0 .. A.n - 1 :
      LET pos == AuxIndex(A.dcsc, c, ConstructAux(A.dcsc, A.n), ChunkSize(A.dcsc, A.n))
      IN IF \E i \in DOMAIN A.dcsc.jc : A.dcsc.jc[i] = c THEN pos # -1 /\ A.dcsc.jc[pos + 1] = c ELSE pos = -1

\* A call that threads answer together.
Threaded == call.op = "spmvReceivers" /\ call.how = "threaded" /\ A.nnz > 0 /\ call.x # <<>>

\* "FACT: Data is sorted": the rows that a thread computes are in order, and those of the thread
\* of a later piece of the block come after them.
DataIsSorted ==
  Threaded =>
    LET outs == PieceOutputs(A, ListOf(call.x), call.splits) IN
    /\ \A i \in DOMAIN outs : outs[i] \in Seq([row : 0 .. A.m - 1, col : {0}, val : Values])
    /\ \A i, j \in DOMAIN outs : \A k \in DOMAIN outs[i], l \in DOMAIN outs[j] :
         i < j \/ (i = j /\ k < l) => outs[i][k].row < outs[j][l].row

\* Threads that set the displacements of one array of receivers without locks never write the
\* same one.
NoRacingMarks ==
  Threaded =>
    LET outs == PieceOutputs(A, ListOf(call.x), call.splits)
        written(i) == {d[1] : d \in Marks(outs, i, A.m \div call.p_c, call.p_c)}
    IN \A i, j \in DOMAIN outs : i # j => written(i) \cap written(j) = {}

SM == INSTANCE SparseMatrix WITH mat <- Abs(A), answer <- Answer

\* Every operation changes the block, and answers, as the matrix it stands for would: by
\* whichever kernel, number of threads, buffers or storage.
ImplementsSparseMatrix == SM!Spec

\* "Concatenates (merges) multiple matrices (cut along the columns) into 1 piece": putting
\* together what ColSplit cut gives the matrix that was cut.
ConcatenationRestores == [][call'.op = "split" => Abs(A') = Abs(A)]_vars
=============================================================================
