--------------------------------- MODULE SparseMatrix ---------------------------------
(***************************************************************************)
(* What a process expects of the block it keeps: a matrix, a partial       *)
(* function from places to values, that one call at a time changes or asks *)
(* about.  A value of zero is an entry like any other.  There is one       *)
(* action for each thing that can be asked, whatever number of kernels     *)
(* the code has for it.                                                    *)
(***************************************************************************)
EXTENDS Integers, Sequences, FiniteSets

CONSTANTS ElementRange,
          Matrices,     \* the matrices a call may be given, see Matrix
          Vectors       \* the vectors, partial functions from indices to values

LOCAL INSTANCE SequencesExt
LOCAL INSTANCE FiniteSetsExt

VARIABLES mat,      \* the matrix: dimensions m and n, and the entries at
          call,     \* the call being served, its name op and arguments
          answer    \* what it returns

vars == <<mat, call, answer>>

Place(m, n) == (0 .. m - 1) \X (0 .. n - 1)
Matrix(m, n, at) == [m |-> m, n |-> n, at |-> at]
Zero(m, n) == Matrix(m, n, [p \in {} |-> 0])

NoCall == [op |-> "none"]

-----------------------------------------------------------------------------
(* The algebra. *)

SumOver(S, f(_)) == FoldSet(LAMBDA x, s : (s + f(x)) % ElementRange, 0, S)

SumOf(M, N) ==
  LET v(X, p) == IF p \in DOMAIN X.at THEN X.at[p] ELSE 0 IN
  [M EXCEPT !.at = [p \in DOMAIN M.at \cup DOMAIN N.at |-> (v(M, p) + v(N, p)) % ElementRange]]
Where(M, keep(_)) == [M EXCEPT !.at = [p \in {q \in DOMAIN M.at : keep(q)} |-> M.at[p]]]
Map(M, f(_)) == [M EXCEPT !.at = [p \in DOMAIN M.at |-> f(p)]]
TransposeOf(M) == Matrix(M.n, M.m, [p \in {<<q[2], q[1]>> : q \in DOMAIN M.at} |-> M.at[<<p[2], p[1]>>]])

\* Products of values in said do not count.
Terms(M, N, i, j, said) ==
  {k \in 0 .. M.n - 1 : <<i, k>> \in DOMAIN M.at /\ <<k, j>> \in DOMAIN N.at
                         /\ ((M.at[<<i, k>>] * N.at[<<k, j>>]) % ElementRange) \notin said}
ProductOf(M, N, said) ==
  Matrix(M.m, N.n,
         [p \in {q \in Place(M.m, N.n) : Terms(M, N, q[1], q[2], said) # {}} |->
            SumOver(Terms(M, N, p[1], p[2], said), LAMBDA k : M.at[<<p[1], k>>] * N.at[<<k, p[2]>>])])

\* The columns from first up to last, as a matrix of its own; the rows and columns listed.
ColumnRange(M, first, last) ==
  Matrix(M.m, last - first, [p \in {q \in Place(M.m, last - first) : <<q[1], q[2] + first>> \in DOMAIN M.at} |->
                               M.at[<<p[1], p[2] + first>>]])
Selected(M, ri, ci) ==
  Matrix(Len(ri), Len(ci),
         [p \in {q \in Place(Len(ri), Len(ci)) : <<ri[q[1] + 1], ci[q[2] + 1]>> \in DOMAIN M.at} |->
            M.at[<<ri[p[1] + 1], ci[p[2] + 1]>>]])

\* A vector is a matrix with one column; all is an entry's value in a logical matrix.
AsColumn(x, n) == Matrix(n, 1, [p \in {<<i, 0>> : i \in DOMAIN x} |-> x[p[1]]])
AsVector(M) == [i \in {p[1] : p \in DOMAIN M.at} |-> M.at[<<i, 0>>]]
TimesVector(M, x, said) == AsVector(ProductOf(M, AsColumn(x, M.n), said))
Logical(M) == Map(M, LAMBDA p : 1 % ElementRange)

\* The part of a vector of length m that the p-th of p_c receivers has, with its indices.
PartOf(y, m, p_c, p) ==
  LET first == p * (m \div p_c)
      last == IF p = p_c - 1 THEN m ELSE first + m \div p_c
  IN [i \in {j - first : j \in {k \in DOMAIN y : first <= k /\ k < last}} |-> y[i + first]]

Indices(n) == SetToSortSeq(0 .. n - 1, LAMBDA a, b : a < b)

-----------------------------------------------------------------------------
(* Calls. *)

Serve(c, newMat, newAnswer) ==
  /\ call' = c
  /\ mat' = newMat
  /\ answer' = newAnswer

Ask(M, c, newAnswer) == Serve(c, M, newAnswer)
Conform(M) == {N \in Matrices : N.m = M.m /\ N.n = M.n}
RightFactors(M) == {N \in Matrices : N.m = M.n}
Factors(M) == {F \in Matrices \X Matrices : F[1].m = M.m /\ F[2].n = M.n /\ F[1].n = F[2].m}
Fitting(M) == {x \in Vectors : DOMAIN x \subseteq 0 .. M.n - 1}

Init == /\ mat \in Matrices
        /\ call = NoCall /\ answer = <<>>

\* The caller has the answer.
Return == call # NoCall /\ call' = NoCall /\ answer' = <<>> /\ UNCHANGED mat

\* Calls on the matrix M.

\* Conversions of the storage, text and copies: the same matrix.
Rebuild(M) == \E how \in {"tuples", "threads", "stream", "arrays", "copy"}, threads \in 1 .. 3 :
             Ask(M, [op |-> "rebuild", how |-> how, threads |-> threads], <<>>)

\* Whether it is the same as another, zeros that are stored included.
Compare(M) == \E N \in Conform(M) : Ask(M, [op |-> "compare", arg |-> N], <<M = N>>)

\* Its entries as the edges of a graph without values, with loops or without.
EdgeList(M) == \E removeloops \in BOOLEAN :
  Serve([op |-> "edges", removeloops |-> removeloops],
        Where(Logical(M), LAMBDA p : removeloops => p[1] # p[2]), <<>>)

Add(M) == \E N \in Conform(M) : Serve([op |-> "add", arg |-> N], SumOf(M, N), <<>>)

AddProduct(M) == \E F \in Factors(M), how \in {"AnXBn", "AnXBt"} :
  Serve([op |-> "addProduct", how |-> how, left |-> F[1], right |-> F[2]],
        SumOf(M, ProductOf(F[1], F[2], {})), <<>>)

\* In place, or as the answer.
Reduce(M, c, R) == IF c.inPlace THEN Serve(c, R, <<>>) ELSE Ask(M, c, <<R>>)
Prune(M) == \E v \in 0 .. ElementRange - 1, inPlace \in BOOLEAN :
  Reduce(M, [op |-> "prune", value |-> v, inPlace |-> inPlace], Where(M, LAMBDA p : M.at[p] # v))
PruneI(M) == \E o \in {0, 1}, inPlace \in BOOLEAN :
  Reduce(M, [op |-> "pruneI", offset |-> o, inPlace |-> inPlace], Where(M, LAMBDA p : p[1] + o # p[2]))
PruneColumn(M) == \E t \in 0 .. M.n - 1, inPlace \in BOOLEAN :
  Reduce(M, [op |-> "pruneColumn", column |-> t, inPlace |-> inPlace],
         Where(M, LAMBDA p : p[2] = t => M.at[p] >= 1))
PruneColumnInds(M) == \E t \in 0 .. M.n - 1, inPlace \in BOOLEAN :
  Reduce(M, [op |-> "pruneColumnInds", columns |-> SubSeq(Indices(M.n), t + 1, M.n), inPlace |-> inPlace],
         Where(M, LAMBDA p : p[2] >= t => M.at[p] >= 1))

EWiseMult(M) == \E N \in Conform(M), exclude, inPlace \in BOOLEAN :
  Reduce(M, [op |-> "ewiseMult", arg |-> N, exclude |-> exclude, inPlace |-> inPlace],
         IF exclude THEN Where(M, LAMBDA p : p \notin DOMAIN N.at)
         ELSE Map(Where(M, LAMBDA p : p \in DOMAIN N.at), LAMBDA p : (M.at[p] * N.at[p]) % ElementRange))

EWiseApplyNot(M) == \E N \in Conform(M), notB \in BOOLEAN :
  Ask(M, [op |-> "ewiseApplyNot", arg |-> N, notB |-> notB],
      <<IF notB THEN Map(Where(M, LAMBDA p : p \notin DOMAIN N.at), LAMBDA p : (M.at[p] + 1) % ElementRange)
        ELSE Where(SumOf(M, N), LAMBDA p : p \in DOMAIN M.at \cap DOMAIN N.at)>>)

\* Zero for what is absent, and only results other than zero if filter.
EWiseApply(M) == \E N \in Conform(M), aNulls, bNulls, both, filter \in BOOLEAN :
  Ask(M, [op |-> "ewiseApply", arg |-> N, aNulls |-> aNulls, bNulls |-> bNulls, both |-> both, filter |-> filter],
      LET S == SumOf(M, N) IN
      <<Where(S, LAMBDA p : /\ filter => S.at[p] # 0
                            /\ IF p \notin DOMAIN M.at THEN aNulls
                               ELSE IF p \notin DOMAIN N.at THEN bNulls ELSE both)>>)

\* Scaled by the sum of row and column; added into a dense array of ones.
Dense(M, f(_, _)) == [i \in 1 .. M.m |-> [j \in 1 .. M.n |-> f(i - 1, j - 1)]]
EWiseScale(M) == Serve([op |-> "scale"], Map(M, LAMBDA p : (M.at[p] * (p[1] + p[2])) % ElementRange), <<>>)
UpdateDense(M) == Ask(M, [op |-> "dense"],
                   Dense(M, LAMBDA i, j : (1 + (IF <<i, j>> \in DOMAIN M.at THEN M.at[<<i, j>>] ELSE 0)) % ElementRange))
Apply(M) == Serve([op |-> "apply"], Map(M, LAMBDA p : (M.at[p] + 1) % ElementRange), <<>>)

Transpose(M) == \/ Serve([op |-> "transpose"], TransposeOf(M), <<>>)
             \/ Ask(M, [op |-> "transposeConst"], <<TransposeOf(M)>>)

\* Cut into parts that are put together again.
SplitMerge(M) == \E parts \in 2 .. M.n, how \in {"Split", "ColSplit"} :
  LET w == M.n \div parts IN
  Ask(M, [op |-> "split", how |-> how, parts |-> parts],
      [i \in 1 .. parts |-> ColumnRange(M, (i - 1) * w, IF i = parts THEN M.n ELSE i * w)])

\* Empty lists stand for all rows or columns.
Index(M) == \E ri \in {<<>>, Indices(M.m), <<M.m - 1>>}, ci \in {<<>>, <<M.n - 1>>, <<0, M.n - 1>>} :
  Ask(M, [op |-> "index", ri |-> ri, ci |-> ci],
      <<IF ri = <<>> /\ ci = <<>> THEN Zero(M.m, M.n)
        ELSE Selected(M, IF ri = <<>> THEN Indices(M.m) ELSE ri, IF ci = <<>> THEN Indices(M.n) ELSE ci)>>)
Element(M) == \E p \in Place(M.m, M.n) :
  Ask(M, [op |-> "element", at |-> p], IF p \in DOMAIN M.at THEN <<M.at[p]>> ELSE <<>>)

\* Loops of a square matrix.
AddLoops(M) == M.m = M.n /\ \E replace \in BOOLEAN :
  Serve([op |-> "addLoops", replace |-> replace],
        LET loops == Matrix(M.m, M.n, [p \in {<<i, i>> : i \in 0 .. M.n - 1} |-> p[1] % ElementRange]) IN
        SumOf(IF replace THEN Where(M, LAMBDA p : p[1] # p[2]) ELSE M,
              IF replace THEN loops ELSE Where(loops, LAMBDA p : p \notin DOMAIN M.at)), <<>>)
RemoveLoops(M) == M.m = M.n /\ Serve([op |-> "removeLoops"], Where(M, LAMBDA p : p[1] # p[2]), <<>>)

-----------------------------------------------------------------------------
(* Products and merges, by any kernel. *)

Multiply(M) ==
  \E N \in RightFactors(M), said \in {{}, {0}}, how \in {"OrdColByCol", "OrdOutProdMult", "Tuples_AnXBn", "Tuples_AnXBt"} :
    Ask(M, [op |-> "multiply", how |-> how, arg |-> N, said |-> said], <<ProductOf(M, N, said)>>)
MultiplyThreaded(M) == \E N \in RightFactors(M), threads \in 1 .. 2 :
  Ask(M, [op |-> "localSpGEMM", arg |-> N, threads |-> threads], <<ProductOf(M, N, {})>>)

MergeLists(M) == \E N \in Conform(M), k \in 0 .. 2, how \in {"MergeAll", "MultiwayMerge"} :
  Ask(M, [op |-> "merge", how |-> how, arg |-> N, others |-> k],
      <<IF k = 0 THEN M ELSE IF k = 1 THEN SumOf(M, N) ELSE SumOf(SumOf(M, N), N)>>)

SpMV(M) == \E x \in Fitting(M), said \in {{}, {0}} :
  Ask(M, [op |-> "spmv", x |-> x, said |-> said], TimesVector(M, x, said))
SpMVCsc(M) == \E x \in Fitting(M), how \in {"HeapSort", "Bucket"}, buckets \in 1 .. 3 :
  Ask(M, [op |-> "spmvCsc", how |-> how, x |-> x, buckets |-> buckets], TimesVector(M, x, {}))
SpMVDense(M) == \E x \in Fitting(M), threads \in 1 .. 2 :
  Ask(M, [op |-> "gespmv", x |-> x, threads |-> threads],
      LET y == TimesVector(M, x, {}) IN
      [i \in 1 .. M.m |-> (1 + (IF i - 1 \in DOMAIN y THEN y[i - 1] ELSE 0)) % ElementRange])

\* Logical matrices; the result whole, or cut up for receivers.
SpMVLogical(M) == \E x \in Fitting(M) :
  Ask(M, [op |-> "spmvLogical", x |-> x], TimesVector(Logical(M), x, {}))
SpMVForReceivers(M) == \E x \in Fitting(M), p_c \in 1 .. M.m, splits \in 0 .. M.m, how \in {"buffers", "threaded", "setbuffers"} :
  Ask(M, [op |-> "spmvReceivers", how |-> how, x |-> x, p_c |-> p_c, splits |-> splits],
      [p \in 0 .. p_c - 1 |-> PartOf(TimesVector(Logical(M), x, {}), M.m, p_c, p)])

Next ==
  \/ Return
  \/ call = NoCall /\ \E M \in {mat} :
       \/ Rebuild(M) \/ Compare(M) \/ EdgeList(M) \/ Add(M) \/ AddProduct(M)
       \/ Prune(M) \/ PruneI(M) \/ PruneColumn(M) \/ PruneColumnInds(M)
       \/ EWiseMult(M) \/ EWiseApplyNot(M) \/ EWiseApply(M) \/ EWiseScale(M) \/ UpdateDense(M) \/ Apply(M)
       \/ Transpose(M) \/ SplitMerge(M) \/ Index(M) \/ Element(M) \/ AddLoops(M) \/ RemoveLoops(M)
       \/ Multiply(M) \/ MultiplyThreaded(M) \/ MergeLists(M)
       \/ SpMV(M) \/ SpMVCsc(M) \/ SpMVDense(M) \/ SpMVLogical(M) \/ SpMVForReceivers(M)

Spec == Init /\ [][Next]_vars
=============================================================================
