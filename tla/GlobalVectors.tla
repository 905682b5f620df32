--------------------------------- MODULE GlobalVectors ---------------------------------
(***************************************************************************)
(* What the distributed vectors promise: a dense vector is a function from *)
(* its indices to values, a sparse one a function from some of them, and   *)
(* every operation works on the whole vector, wherever its parts are.      *)
(* FullyDistVectors implements this.                                       *)
(***************************************************************************)
EXTENDS Integers, Sequences, FiniteSets

CONSTANTS Sparses, Denses,   \* the vectors that calls are made on
          Matrices,          \* matrices [m, n, at] to multiply with
          Arrays,            \* arrays from all processes, to make a vector of
          ElementRange       \* values are 0 .. ElementRange - 1

LOCAL INSTANCE SequencesExt
LOCAL INSTANCE FiniteSetsExt
LOCAL INSTANCE TLC

VARIABLES sparse,   \* [len, at], at giving the values that are present
          dense,    \* a function from 0 .. n - 1
          call,     \* the call being served
          answer

vars == <<sparse, dense, call, answer>>

NoCall == [op |-> "none"]
Value == 0 .. ElementRange - 1
ValueSets == {Value, Value \ {0}, {1, 2}}

-----------------------------------------------------------------------------
(* Vectors. *)

Plus(a, b) == (a + b) % ElementRange
SumOver(J, f(_)) == FoldSet(LAMBDA j, s : Plus(s, f(j)), 0, J)

Of(len, at) == [len |-> len, at |-> at]
Size(d) == Cardinality(DOMAIN d)
At(s, i) == IF i \in DOMAIN s.at THEN s.at[i] ELSE 0
Full(s) == [i \in 0 .. s.len - 1 |-> At(s, i)]
Map(s, f(_)) == Of(s.len, [i \in DOMAIN s.at |-> f(i)])
Where(s, I) == Of(s.len, [i \in I |-> s.at[i]])
Found(d, vals) == Of(Size(d), [i \in {j \in DOMAIN d : d[j] \in vals} |-> d[i]])
From(list) == [i \in 0 .. Len(list) - 1 |-> list[i + 1]]
InOrder(I) == IF I = {} THEN <<>> ELSE SelectSeq([k \in 1 .. Max(I) + 1 |-> k - 1], LAMBDA i : i \in I)
Listed(I, f(_)) == From([k \in 1 .. Cardinality(I) |-> f(InOrder(I)[k])])

\* Values for indices that may come up several times: their sum, or the smallest of them.
Collected(len, J, ind(_), num(_), sum) ==
  Of(len, [i \in {ind(j) : j \in J} |->
             LET here == {j \in J : ind(j) = i}
             IN IF sum THEN SumOver(here, num) ELSE Min({num(j) : j \in here})])
\* Of the values of two vectors.
OfBoth(s, t, sum) ==
  Collected(s.len, ({1} \X DOMAIN s.at) \cup ({2} \X DOMAIN t.at), LAMBDA j : j[2],
            LAMBDA j : IF j[1] = 1 THEN s.at[j[2]] ELSE t.at[j[2]], sum)
SumOf(s, t) == OfBoth(s, t, TRUE)

Times(M, s) ==
  LET terms(i) == {k \in DOMAIN s.at : <<i, k>> \in DOMAIN M.at}
  IN Of(M.m, [i \in {j \in 0 .. M.m - 1 : terms(j) # {}} |->
                SumOver(terms(i), LAMBDA k : M.at[<<i, k>>] * s.at[k])])

-----------------------------------------------------------------------------
(* Calls, on the sparse vector s and the dense vector d. *)

Serve(c, s, d, a) == call' = c /\ sparse' = s /\ dense' = d /\ answer' = a

Init == /\ sparse \in Sparses /\ dense \in Denses /\ sparse.len = Size(dense)
        /\ call = NoCall /\ answer = <<>>

Return == call # NoCall /\ call' = NoCall /\ answer' = <<>> /\ UNCHANGED <<sparse, dense>>

\* Both vectors are assigned others.
Assign == \E s \in Sparses, d \in Denses : s.len = Size(d) /\ Serve([op |-> "assign"], s, d, <<>>)

Like(s) == {t \in Sparses : t.len = s.len}
LikeDense(d) == {e \in Denses : Size(e) = Size(d)}
Indices(s) == 0 .. s.len - 1

-----------------------------------------------------------------------------
(* The sparse vector changes. *)

FromDense(s, d) == \E vals \in ValueSets, how \in {"copy", "constructor", "find"} :
  Serve([op |-> "fromDense", how |-> how, vals |-> vals], Found(d, vals), d, <<>>)

\* From what all processes have; sorted lists keep the first of several values, others the smallest.
FromLocal(s, d) == \E t \in Like(s), sum, sorted \in BOOLEAN :
  Serve([op |-> "fromLocal", other |-> t, sum |-> sum, sorted |-> sorted],
        IF sorted /\ ~ sum THEN Of(s.len, [i \in DOMAIN s.at \cup DOMAIN t.at |->
                                             IF i \in DOMAIN s.at THEN s.at[i] ELSE t.at[i]])
        ELSE OfBoth(s, t, sum), d, <<>>)
FromIndices(s, d) == \E e \in LikeDense(d), sum \in BOOLEAN :
  Serve([op |-> "fromIndices", inds |-> e, sum |-> sum],
        Collected(s.len, DOMAIN e, LAMBDA j : e[j], LAMBDA j : d[j], sum), d, <<>>)

\* Lines of text, some for the same index, read by all processes or by one.
ReadLines(s, d) == \E t \in Like(s) :
  Serve([op |-> "parallelRead", other |-> t], SumOf(s, t), d, <<>>)
ReadByOne(s, d) == \E t \in Like(s), buffer \in 1 .. 2 :
  Serve([op |-> "readDistribute", other |-> t, buffer |-> buffer], t, d, <<>>)

SetElement(s, d) == \E i \in Indices(s) :
  Serve([op |-> "set", at |-> i], Of(s.len, [j \in DOMAIN s.at \cup {i} |-> IF j = i THEN 1 ELSE s.at[j]]), d, <<>>)
DelElement(s, d) == \E i \in Indices(s) :
  Serve([op |-> "delete", at |-> i], Where(s, DOMAIN s.at \ {i}), d, <<>>)

Iota(s, d) == \E n \in 1 .. ElementRange - 1 :
  LET v == [i \in 0 .. n - 1 |-> Plus(i, 1)] IN Serve([op |-> "iota", n |-> n], Of(n, v), v, <<>>)
Numbered(s, d) == \E how \in {"nziota", "applyInd", "setNumToInd", "fixed", "reset"} :
  Serve([op |-> "number", how |-> how],
        CASE how = "nziota" -> Map(s, LAMBDA i : Cardinality({j \in DOMAIN s.at : j < i}))
          [] how = "applyInd" -> Map(s, LAMBDA i : Plus(s.at[i], i))
          [] how = "setNumToInd" -> Map(s, LAMBDA i : i)
          [] how = "fixed" -> Map(s, LAMBDA i : 1)
          [] OTHER -> Where(s, {}), d, <<>>)

\* A vector taken from itself is empty, not zero.
AddSparse(s, d) == \/ \E t \in Like(s) : Serve([op |-> "add", other |-> t], SumOf(s, t), d, <<>>)
                   \/ Serve([op |-> "addSelf"], SumOf(s, s), d, <<>>)
Negated(t) == Map(t, LAMBDA i : (- t.at[i]) % ElementRange)
SubSparse(s, d) == \/ \E t \in Like(s) : Serve([op |-> "sub", other |-> t], SumOf(s, Negated(t)), d, <<>>)
                   \/ Serve([op |-> "subSelf"], Where(s, {}), d, <<>>)

Select(s, d) == \E vals \in ValueSets, apply \in BOOLEAN :
  LET t == Where(s, {i \in DOMAIN s.at : d[i] \in vals})
  IN Serve([op |-> "select", vals |-> vals, apply |-> apply],
           IF apply THEN Map(t, LAMBDA i : Plus(t.at[i], d[i])) ELSE t, d, <<>>)
Setminus(s, d) == \E t \in Like(s) :
  Serve([op |-> "setminus", other |-> t], Where(s, DOMAIN s.at \ DOMAIN t.at), d, <<>>)
FilterByVal(s, d) == \E t \in Like(s), byIndex \in BOOLEAN :
  LET out == IF byIndex THEN DOMAIN t.at ELSE {t.at[i] : i \in DOMAIN t.at}
  IN Serve([op |-> "filter", other |-> t, byIndex |-> byIndex], Where(s, {i \in DOMAIN s.at : s.at[i] \notin out}), d, <<>>)

\* The product takes the place of the vector; values may be taken to be the indices.
SpMV(s, d) == \E M \in Matrices, indexisvalue \in BOOLEAN, threads \in 0 .. 2 :
  /\ M.n = s.len
  /\ Serve([op |-> "spmv", matrix |-> M, indexisvalue |-> indexisvalue, threads |-> threads],
           Times(M, IF indexisvalue THEN Map(s, LAMBDA i : i) ELSE s), d, <<>>)

-----------------------------------------------------------------------------
(* Questions about the sparse vector. *)

Ask(s, d, c, a) == Serve(c, s, d, <<a>>)

FindVals(s, d) == \E vals \in ValueSets, what \in {"vals", "inds"} :
  Ask(s, d, [op |-> "findSparse", what |-> what, vals |-> vals],
      Listed({i \in DOMAIN s.at : s.at[i] \in vals}, LAMBDA i : IF what = "vals" THEN s.at[i] ELSE i))
Element(s, d) == \E i \in Indices(s) : Ask(s, d, [op |-> "element", at |-> i], <<i \in DOMAIN s.at, At(s, i)>>)
\* The indices ri are all answered if they are servable, each process's in order and of different
\* places.  If not, an answer may be missing or be that to another index.
IndexSparse(s, d) == \E ri \in LikeDense(d) :
  \/ Ask(s, d, [op |-> "indexSparse", ri |-> ri, servable |-> TRUE], [k \in DOMAIN ri |-> At(s, ri[k])])
  \/ /\ call' = [op |-> "indexSparse", ri |-> ri, servable |-> FALSE] /\ UNCHANGED <<sparse, dense>>
     /\ Len(answer') = 1 /\ DOMAIN answer'[1] = DOMAIN ri
     /\ \A k \in DOMAIN ri : answer'[1][k] \in {0} \cup {At(s, ri[j]) : j \in DOMAIN ri}
CountSparse(s, d) == \E vals \in ValueSets :
  Ask(s, d, [op |-> "countSparse", vals |-> vals], Cardinality({i \in DOMAIN s.at : s.at[i] \in vals}))
ReduceSparse(s, d) == \E squares \in BOOLEAN :
  Ask(s, d, [op |-> "reduceSparse", squares |-> squares],
      SumOver(DOMAIN s.at, LAMBDA i : IF squares THEN s.at[i] * s.at[i] ELSE s.at[i]))
\* Absent values are equal to zeros.
EqualSparse(s, d) == \E t \in Like(s) : Ask(s, d, [op |-> "equalSparse", other |-> t], Full(s) = Full(t))

\* Every value once, at its first index.
Uniq(s, d) == Ask(s, d, [op |-> "uniq"], Where(s, {i \in DOMAIN s.at : \A j \in DOMAIN s.at : s.at[j] = s.at[i] => i <= j}))
\* The indices in the order of their values.
SortSparse(s, d) ==
  Ask(s, d, [op |-> "sortSparse"],
      SortSeq(InOrder(DOMAIN s.at), LAMBDA i, j : s.at[i] < s.at[j] \/ (s.at[i] = s.at[j] /\ i < j)))

\* Values become indices and indices values; none if a value is too large.
Inverted(s, n, sum) ==
  IF \A i \in DOMAIN s.at : s.at[i] < n
  THEN Collected(n, DOMAIN s.at, LAMBDA i : s.at[i], LAMBDA i : i, sum) ELSE Of(n, <<>>)
Invert(s, d) == \E n \in {s.len, ElementRange}, how \in {"invert", "binops", "sum", "rma"} :
  Ask(s, d, [op |-> "invert", how |-> how, len |-> n], Inverted(s, n, how = "sum"))

EWiseMult(s, d) == \E exclude \in BOOLEAN :
  LET zeros == {i \in DOMAIN s.at : d[i] = 0} IN
  Ask(s, d, [op |-> "ewiseMult", exclude |-> exclude],
      IF exclude THEN Where(s, zeros)
      ELSE Of(s.len, [i \in DOMAIN s.at \ zeros |-> (s.at[i] * d[i]) % ElementRange]))
\* Sums, for the indices in I, only those other than zero if filter.
Applied(len, I, f(_), g(_), filter) ==
  Of(len, [i \in {j \in I : filter => Plus(f(j), g(j)) # 0} |-> Plus(f(i), g(i))])
EWiseApplyDense(s, d) == \E nulls, filter \in BOOLEAN, threads \in 0 .. 3 :
  Ask(s, d, [op |-> "ewiseApplyDense", nulls |-> nulls, filter |-> filter, threads |-> threads],
      Applied(s.len, IF nulls THEN DOMAIN d ELSE DOMAIN s.at,
              LAMBDA i : IF i \in DOMAIN s.at THEN s.at[i] ELSE 1, LAMBDA i : d[i], filter))
EWiseApplySparse(s, d) == \E t \in Like(s), vnulls, wnulls, both, filter \in BOOLEAN :
  Ask(s, d, [op |-> "ewiseApplySparse", other |-> t, vnulls |-> vnulls, wnulls |-> wnulls, both |-> both, filter |-> filter],
      LET onlyS == DOMAIN s.at \ DOMAIN t.at
          onlyT == DOMAIN t.at \ DOMAIN s.at
      IN Applied(s.len, (IF both THEN DOMAIN s.at \cap DOMAIN t.at ELSE {}) \cup (IF wnulls THEN onlyS ELSE {})
                          \cup (IF vnulls THEN onlyT ELSE {}),
                 LAMBDA i : At(s, i), LAMBDA i : At(t, i), filter))

OldSpMV(s, d) == \E M \in Matrices : M.n = s.len /\ Ask(s, d, [op |-> "spmvOld", matrix |-> M], Times(M, s))

-----------------------------------------------------------------------------
(* The dense vector changes. *)

ToDense(s, d) == Serve([op |-> "toDense"], s, Full(s), <<>>)
\* As text and back, by one process or by all.
Stored(s, d) == \E how \in {"gathered", "parallel"}, buffer \in 1 .. 2 :
  Serve([op |-> "store", how |-> how, buffer |-> buffer], s, d, <<>>)
FromArrays(s, d) == \E arrays \in Arrays :
  Serve([op |-> "fromArrays", arrays |-> arrays], s, From(FlattenSeq(arrays)), <<>>)
SetDense(s, d) == \E i \in DOMAIN d : Serve([op |-> "setDense", at |-> i], s, [d EXCEPT ![i] = 1], <<>>)
NumberedDense(s, d) == \E how \in {"applyInd", "fixed"} :
  Serve([op |-> "numberDense", how |-> how], s, [i \in DOMAIN d |-> IF how = "fixed" THEN 1 ELSE Plus(d[i], i)], <<>>)

AddToDense(s, d) == \E minus \in BOOLEAN :
  Serve([op |-> "addToDense", minus |-> minus], s,
        [i \in DOMAIN d |-> IF minus THEN (d[i] - At(s, i)) % ElementRange ELSE Plus(d[i], At(s, i))], <<>>)
Set(s, d) == Serve([op |-> "setSparse"], s, [i \in DOMAIN d |-> IF i \in DOMAIN s.at THEN s.at[i] ELSE d[i]], <<>>)
ApplyMask(s, d) ==
  Serve([op |-> "applyMask"], s, [i \in DOMAIN d |-> IF i \in DOMAIN s.at THEN Plus(d[i], 1) ELSE d[i]], <<>>)
EWise(s, d) == \E e \in LikeDense(d), minus \in BOOLEAN :
  Serve([op |-> "ewise", other |-> e, minus |-> minus], s,
        [i \in DOMAIN d |-> IF minus THEN (d[i] - e[i]) % ElementRange ELSE Plus(d[i], e[i])], <<>>)
\* With a dense vector or the sparse one, sums other than zero, or all; absent values count as one or not at all.
EWiseApply(s, d) ==
  \/ \E e \in LikeDense(d), filter \in BOOLEAN :
       Serve([op |-> "ewiseApply", other |-> e, filter |-> filter], s,
             [i \in DOMAIN d |-> IF filter /\ Plus(d[i], e[i]) = 0 THEN d[i] ELSE Plus(d[i], e[i])], <<>>)
  \/ \E nulls, filter \in BOOLEAN :
       Serve([op |-> "ewiseApplyWith", nulls |-> nulls, filter |-> filter], s,
             [i \in DOMAIN d |->
                LET v == IF i \in DOMAIN s.at THEN s.at[i] ELSE 1 IN
                IF (i \in DOMAIN s.at \/ nulls) /\ (filter => Plus(d[i], v) # 0) THEN Plus(d[i], v) ELSE d[i]], <<>>)

\* In order, with the indices that the values had.
SortDense(s, d) ==
  LET order == SortSeq(InOrder(DOMAIN d), LAMBDA i, j : d[i] < d[j] \/ (d[i] = d[j] /\ i < j))
  IN Serve([op |-> "sortDense"], s, From([k \in DOMAIN order |-> d[order[k]]]), <<From(order)>>)

\* Some permutation.
RandPerm(s, d) ==
  /\ call' = [op |-> "randPerm"] /\ UNCHANGED <<sparse, answer>>
  /\ DOMAIN dense' = DOMAIN d
  /\ \A v \in Value : Cardinality({i \in DOMAIN d : d[i] = v}) = Cardinality({i \in DOMAIN d : dense'[i] = v})

\* Each present value is put at the index it gives, or the other way round; of several values
\* for an index any one stays.
GSet(s, d) == \E invert \in BOOLEAN :
  LET place(i) == IF invert THEN s.at[i] ELSE i
      val(i) == IF invert THEN i ELSE s.at[i]
      puts(k) == {val(i) : i \in {j \in DOMAIN s.at : place(j) = k}}
  IN /\ call' = [op |-> "gset", invert |-> invert] /\ UNCHANGED <<sparse, answer>>
     /\ DOMAIN dense' = DOMAIN d
     /\ \A k \in DOMAIN d : dense'[k] \in IF puts(k) = {} THEN {d[k]} ELSE puts(k)

-----------------------------------------------------------------------------
(* Questions about the dense vector. *)

ElementDense(s, d) == \E i \in DOMAIN d : Ask(s, d, [op |-> "elementDense", at |-> i], d[i])
CountDense(s, d) == \E vals \in ValueSets :
  Ask(s, d, [op |-> "countDense", vals |-> vals], Cardinality({i \in DOMAIN d : d[i] \in vals}))
FindInds(s, d) == \E vals \in ValueSets :
  Ask(s, d, [op |-> "findDense", vals |-> vals], Listed({i \in DOMAIN d : d[i] \in vals}, LAMBDA i : i))
EqualDense(s, d) == \E e \in LikeDense(d) : Ask(s, d, [op |-> "equalDense", other |-> e], d = e)
ReduceDense(s, d) == \E squares \in BOOLEAN :
  Ask(s, d, [op |-> "reduceDense", squares |-> squares],
      SumOver(DOMAIN d, LAMBDA i : IF squares THEN d[i] * d[i] ELSE d[i]))
\* The first index of the smallest value, and the value.
MinElement(s, d) ==
  LET least == Min({d[i] : i \in DOMAIN d})
  IN Ask(s, d, [op |-> "min"], <<Min({i \in DOMAIN d : d[i] = least}), least>>)
IndexDense(s, d) == \E ri \in LikeDense(d) :
  Ask(s, d, [op |-> "indexDense", ri |-> ri], [k \in DOMAIN ri |-> d[ri[k]]])
\* At the indices that the present values are, or none.
GGet(s, d) ==
  Ask(s, d, [op |-> "gget"], Map(s, LAMBDA i : IF s.at[i] \in DOMAIN d THEN d[s.at[i]] ELSE 0))
Concatenate(s, d) == \E e \in Denses :
  Ask(s, d, [op |-> "concatenate", other |-> e],
      [i \in 0 .. Size(d) + Size(e) - 1 |-> IF i < Size(d) THEN d[i] ELSE e[i - Size(d)]])
DenseSpMV(s, d) == \E M \in Matrices :
  M.n = Size(d) /\ Ask(s, d, [op |-> "spmvDense", matrix |-> M], Full(Times(M, Of(Size(d), d))))

-----------------------------------------------------------------------------

Next ==
  \/ Return
  \/ call = NoCall /\ Assign
  \/ call = NoCall /\ \E s \in {sparse}, d \in {dense} :
       \/ FromDense(s, d) \/ FromLocal(s, d) \/ FromIndices(s, d) \/ ReadLines(s, d) \/ ReadByOne(s, d)
       \/ SetElement(s, d) \/ DelElement(s, d) \/ Iota(s, d) \/ Numbered(s, d) \/ AddSparse(s, d) \/ SubSparse(s, d)
       \/ Select(s, d) \/ Setminus(s, d) \/ FilterByVal(s, d) \/ SpMV(s, d)
       \/ FindVals(s, d) \/ Element(s, d) \/ IndexSparse(s, d) \/ CountSparse(s, d) \/ ReduceSparse(s, d)
       \/ EqualSparse(s, d) \/ Uniq(s, d) \/ SortSparse(s, d) \/ Invert(s, d) \/ EWiseMult(s, d)
       \/ EWiseApplyDense(s, d) \/ EWiseApplySparse(s, d) \/ OldSpMV(s, d)
       \/ ToDense(s, d) \/ Stored(s, d) \/ FromArrays(s, d) \/ SetDense(s, d) \/ NumberedDense(s, d)
       \/ AddToDense(s, d) \/ Set(s, d) \/ ApplyMask(s, d) \/ EWise(s, d) \/ EWiseApply(s, d)
       \/ SortDense(s, d) \/ RandPerm(s, d) \/ GSet(s, d)
       \/ ElementDense(s, d) \/ CountDense(s, d) \/ FindInds(s, d) \/ EqualDense(s, d) \/ ReduceDense(s, d)
       \/ MinElement(s, d) \/ IndexDense(s, d) \/ GGet(s, d) \/ Concatenate(s, d) \/ DenseSpMV(s, d)

Spec == Init /\ [][Next]_vars
=============================================================================
