------------------------------- MODULE FullyDistVectors -------------------------------
(***************************************************************************)
(* A sparse and a dense vector distributed over the grid, and a program    *)
(* that calls one collective operation after the other on them: the calls  *)
(* of GlobalVectors.  Arguments come as abstract vectors and are spread    *)
(* over the ranks as the program's own are.  SpParMats adds the calls on   *)
(* matrices and says what all of this implements.                          *)
(*                                                                         *)
(* Calls are made on the vectors in Sparses and Denses; a result that is   *)
(* none of them is replaced by an assignment.  What the ranks, threads and *)
(* the network decide (the order of items, the hash function, who writes   *)
(* last) is any of the outcomes.  A guard beyond that of the call is a     *)
(* precondition of the code.                                               *)
(***************************************************************************)
EXTENDS DistSpMV

CONSTANTS Sparses, Denses, Matrices, Arrays

\* A sparse vector has a length and values at some of the indices below it.
ASSUME VectorsAssumption ==
  \A s \in Sparses : s.len \in Nat /\ DOMAIN s.at \subseteq 0 .. s.len - 1 /\ \A i \in DOMAIN s.at : s.at[i] \in Value

VARIABLES sp, dn, call, out
vars == <<sp, dn, call, out>>

NoCall == [op |-> "none"]
ValueSets == {Value, Value \ {0}, {1, 2}}

-----------------------------------------------------------------------------
(* Vectors and what they stand for. *)

Size(d) == Cardinality(DOMAIN d)
SparseOf(s) ==
  Sparse(s.len, [r \in Procs |->
    LET here == {i \in DOMAIN s.at : Owner(s.len, i).rank = r}
    IN [k \in 1 .. Cardinality(here) |-> Pair(InOrder(here)[k] - LenUntil(s.len, r), s.at[InOrder(here)[k]])]])
DenseOf(d) ==
  Dense(Size(d), [r \in Procs |-> [i \in 1 .. LocLength(Size(d), r) |-> d[LenUntil(Size(d), r) + i - 1]]])
BuiltSparse == [s \in Sparses |-> SparseOf(s)]
BuiltDense == [d \in Denses |-> DenseOf(d)]

\* Each rank has its part of the whole, a list in order.
SparseInPlace(s) ==
  \A r \in Procs :
    /\ \A k \in 1 .. Len(s.loc[r]) : s.loc[r][k].ind \in 0 .. LocLength(s.glen, r) - 1 /\ s.loc[r][k].num \in Value
    /\ \A k \in 1 .. Len(s.loc[r]) - 1 : s.loc[r][k].ind < s.loc[r][k + 1].ind
DenseInPlace(d) ==
  \A r \in Procs : Len(d.arr[r]) = LocLength(d.glen, r) /\ \A i \in 1 .. Len(d.arr[r]) : d.arr[r][i] \in Value

\* What is not in place stands for no vector.
Broken == [i \in {-1} |-> 0]
Whole(lists, glen) ==
  LET all == InRankOrder([r \in Procs |-> [k \in 1 .. Len(lists[r]) |-> Pair(lists[r][k].ind + LenUntil(glen, r), lists[r][k].num)]])
  IN FoldLeft(LAMBDA whole, e : (e.ind :> e.num) @@ whole, <<>>, all)
AbsSparse(s) == [len |-> s.glen, at |-> IF SparseInPlace(s) THEN Whole(s.loc, s.glen) ELSE Broken]
AbsDense(d) ==
  IF DenseInPlace(d)
  THEN Whole([r \in Procs |-> [i \in 1 .. Len(d.arr[r]) |-> Pair(i - 1, d.arr[r][i])]], d.glen) ELSE Broken

\* What a call returns, with its kind.
Nothing == [is |-> "nothing", of |-> <<>>]
TheSparse(s) == [is |-> "sparse", of |-> s]
TheDense(d) == [is |-> "dense", of |-> d]
Plain(v) == [is |-> "plain", of |-> v]
Answer == CASE out.is = "nothing" -> <<>>
            [] out.is = "sparse" -> <<AbsSparse(out.of)>>
            [] out.is = "dense" -> <<AbsDense(out.of)>>
            [] out.is = "plain" -> <<out.of>>

-----------------------------------------------------------------------------

\* Both vectors are among those that calls are made on.
Known == /\ \E s \in Sparses : BuiltSparse[s] = sp
         /\ \E d \in Denses : BuiltDense[d] = dn
         /\ sp.glen = dn.glen

\* What is asked is asked between calls, of vectors that are given.
Idle == call = NoCall /\ Known
Serve(c, s, d, o) == call' = c /\ sp' = s /\ dn' = d /\ out' = o
ServeSparse(c, s) == Serve(c, s, dn, Nothing)
ServeDense(c, d) == Serve(c, sp, d, Nothing)
Ask(c, o) == Serve(c, sp, dn, o)

Pairings == {p \in Sparses \X Denses : p[1].len = Size(p[2])}
Init == /\ \E p \in Pairings : sp = BuiltSparse[p[1]] /\ dn = BuiltDense[p[2]]
        /\ call = NoCall /\ out = Nothing

Return == call # NoCall /\ call' = NoCall /\ out' = Nothing /\ UNCHANGED <<sp, dn>>

Assign == \E p \in Pairings :
  /\ call = NoCall /\ call' = [op |-> "assign"] /\ out' = Nothing
  /\ sp' = BuiltSparse[p[1]] /\ dn' = BuiltDense[p[2]]

Like == {t \in Sparses : t.len = sp.glen}
LikeDense == {e \in Denses : Size(e) = dn.glen}
Indices == 0 .. sp.glen - 1
ValuesAreIndices(e, glen) == \A i \in DOMAIN e : e[i] < glen

-----------------------------------------------------------------------------
(* The sparse vector changes. *)

CallFromDense == Idle /\ \E vals \in ValueSets, how \in {"copy", "constructor", "find"} :
  /\ how # "find" => vals = Value
  /\ ServeSparse([op |-> "fromDense", how |-> how, vals |-> vals],
                 IF how = "find" THEN Find(dn, vals) ELSE SparseFromDense(dn))

\* Each rank gives its parts of two vectors, one after the other or index by index.
Shuffled(a, b, sorted) ==
  LET one(list, i) == SelectSeq(list, LAMBDA e : e.ind = i)
      I == InOrder(Inds(a) \cup Inds(b))
  IN IF sorted THEN FlattenSeq([k \in 1 .. Len(I) |-> one(a, I[k]) \o one(b, I[k])]) ELSE a \o b
CallFromLocal == Idle /\ \E t \in Like, sum, sorted \in BOOLEAN :
  ServeSparse([op |-> "fromLocal", other |-> t, sum |-> sum, sorted |-> sorted],
              FromLocal(sp.glen, [r \in Procs |-> Shuffled(sp.loc[r], BuiltSparse[t].loc[r], sorted)], sum, sorted))
CallFromIndices == Idle /\ \E e \in LikeDense, sum \in BOOLEAN :
  /\ ValuesAreIndices(e, sp.glen)
  /\ ServeSparse([op |-> "fromIndices", inds |-> e, sum |-> sum], FromIndices(sp.glen, BuiltDense[e], dn, sum))

\* Files with the lines of both vectors, and of one.
FileOf(s) == InRankOrder([r \in Procs |-> [k \in 1 .. Len(s.loc[r]) |->
                                             Pair(s.loc[r][k].ind + LenUntil(s.glen, r), s.loc[r][k].num)]])
CallParallelRead == Idle /\ \E t \in Like :
  LET lines == FileOf(sp) \o FileOf(BuiltSparse[t]) IN
  /\ EveryRankReceives(sp.glen, lines)
  /\ ServeSparse([op |-> "parallelRead", other |-> t], ParallelRead(EmptySparse(sp.glen), lines))
CallReadDistribute == Idle /\ \E t \in Like, buffer \in 1 .. 2 :
  ServeSparse([op |-> "readDistribute", other |-> t, buffer |-> buffer],
              ReadDistribute(sp.glen, FileOf(BuiltSparse[t]), buffer))

CallSetElement == Idle /\ \E i \in Indices : ServeSparse([op |-> "set", at |-> i], SetElement(sp, i, 1))
CallDelElement == Idle /\ \E i \in Indices : ServeSparse([op |-> "delete", at |-> i], DelElement(sp, i))

CallIota == Idle /\ \E n \in 1 .. ElementRange - 1 :
  Serve([op |-> "iota", n |-> n], IotaSparse(n, 1), Iota(n, 1), Nothing)
CallNumber == Idle /\ \E how \in {"nziota", "applyInd", "setNumToInd", "fixed", "reset"} :
  ServeSparse([op |-> "number", how |-> how],
              CASE how = "nziota" -> NzIota(sp, 0) [] how = "applyInd" -> ApplyInd(sp)
                [] how = "setNumToInd" -> SetNumToInd(sp) [] how = "fixed" -> FixedSparse(sp, 1)
                [] how = "reset" -> EmptySparse(sp.glen))

CallPlusEq ==
  /\ Idle
  /\ \/ \E t \in Like : ServeSparse([op |-> "add", other |-> t], PlusEq(sp, BuiltSparse[t]))
     \/ ServeSparse([op |-> "addSelf"], PlusEqSelf(sp))
CallMinusEq ==
  /\ Idle
  /\ \/ \E t \in Like : ServeSparse([op |-> "sub", other |-> t], MinusEq(sp, BuiltSparse[t]))
     \/ ServeSparse([op |-> "subSelf"], MinusEqSelf(sp))

CallSelect == Idle /\ \E vals \in ValueSets, apply \in BOOLEAN :
  ServeSparse([op |-> "select", vals |-> vals, apply |-> apply],
              IF apply THEN SelectApply(sp, dn, vals) ELSE Select(sp, dn, vals))
CallSetminus == Idle /\ \E t \in Like : ServeSparse([op |-> "setminus", other |-> t], Setminus(sp, BuiltSparse[t]))
CallFilterByVal == Idle /\ \E t \in Like, byIndex \in BOOLEAN :
  ServeSparse([op |-> "filter", other |-> t, byIndex |-> byIndex], FilterByVal(sp, BuiltSparse[t], byIndex))

\* The comment at include/ParFriends.h:1381 allows any x to be y as well.  Where the matrix is
\* not square the owners of x's elements are then those of a vector of another length (:1389),
\* and the pieces overlap or end past the block: not modelled.
CallSpMV == Idle /\ \E M \in Matrices, indexisvalue, aliased \in BOOLEAN, threads \in 0 .. 2 :
  /\ M.n = sp.glen /\ HasValues(indexisvalue) /\ (aliased => M.m = M.n)
  /\ ServeSparse([op |-> "spmv", matrix |-> M, indexisvalue |-> indexisvalue, threads |-> threads],
                 SpMV(M, IF aliased THEN Aliased(M, sp) ELSE sp, indexisvalue, threads))

-----------------------------------------------------------------------------
(* Questions about the sparse vector. *)

CallFind == Idle /\ \E vals \in ValueSets, what \in {"vals", "inds"} :
  Ask([op |-> "findSparse", what |-> what, vals |-> vals],
      TheDense(IF what = "vals" THEN FindVals(sp, vals) ELSE FindInds(sp, vals)))
CallElement == Idle /\ \E i \in Indices : Ask([op |-> "element", at |-> i], Plain(Element(sp, i)))
CallIndexSparse == Idle /\ \E ri \in LikeDense :
  /\ ValuesAreIndices(ri, sp.glen)
  /\ Ask([op |-> "indexSparse", ri |-> ri, servable |-> Servable(sp, BuiltDense[ri])],
         TheDense(IndexSparse(sp, BuiltDense[ri])))
CallCount == Idle /\ \E vals \in ValueSets : Ask([op |-> "countSparse", vals |-> vals], Plain(Count(sp, vals)))
CallReduce == Idle /\ \E squares \in BOOLEAN :
  Ask([op |-> "reduceSparse", squares |-> squares], Plain(IF squares THEN ReduceUnary(sp) ELSE Reduce(sp)))
CallEqual == Idle /\ \E t \in Like : Ask([op |-> "equalSparse", other |-> t], Plain(EqualSparse(sp, BuiltSparse[t])))

\* The hash of a value is anything; here an index of the first rank or of the last.
CallUniq == /\ Idle
            /\ \E hash \in [{e.num : e \in UNION {ToSet(sp.loc[r]) : r \in Procs}} -> {0, sp.glen - 1}] :
                 Ask([op |-> "uniq"], TheSparse(UniqAll2All(sp, hash)))
CallSort == Idle /\ Ask([op |-> "sortSparse"], Plain(LET t == SortSparse(sp) IN InRankOrder([r \in Procs |-> NumsOf(t.loc[r])])))

CallInvert == Idle /\ \E n \in {sp.glen, ElementRange}, how \in {"invert", "binops", "sum", "rma"}, backwards \in BOOLEAN :
  /\ how = "rma" => ~ backwards
  /\ Ask([op |-> "invert", how |-> how, len |-> n],
         TheSparse(IF how = "rma" THEN InvertRMA(sp, n) ELSE Invert(sp, n, how = "sum", backwards)))

CallEWiseMult == Idle /\ \E exclude \in BOOLEAN :
  Ask([op |-> "ewiseMult", exclude |-> exclude], TheSparse(EWiseMult(sp, dn, exclude)))
CallEWiseApplyDense == Idle /\ \E nulls, filter \in BOOLEAN, threads \in 0 .. 3 :
  Ask([op |-> "ewiseApplyDense", nulls |-> nulls, filter |-> filter, threads |-> threads],
      TheSparse(IF threads = 0 THEN EWiseApplySD(sp, dn, filter, nulls, 1)
                ELSE EWiseApply_threaded(sp, dn, filter, nulls, 1, threads)))
CallEWiseApplySparse == Idle /\ \E t \in Like, vnulls, wnulls, both, filter \in BOOLEAN :
  Ask([op |-> "ewiseApplySparse", other |-> t, vnulls |-> vnulls, wnulls |-> wnulls, both |-> both, filter |-> filter],
      TheSparse(EWiseApplySS(sp, BuiltSparse[t], filter, vnulls, wnulls, both, 0, 0)))

CallOldSpMV == Idle /\ \E M \in Matrices : M.n = sp.glen /\ Ask([op |-> "spmvOld", matrix |-> M], TheSparse(OldSpMV(M, sp)))

-----------------------------------------------------------------------------
(* The dense vector changes. *)

CallToDense == Idle /\ ServeDense([op |-> "toDense"], DenseFromSparse(sp))
CallStored == Idle /\ \E how \in {"gathered", "parallel"}, buffer \in 1 .. 2 :
  /\ how = "parallel" => buffer = 1 /\ EveryRankReceives(dn.glen, ParallelWrite(SparseFromDense(dn)))
  /\ ServeDense([op |-> "store", how |-> how, buffer |-> buffer],
                IF how = "gathered" THEN GatheredAndRead(dn, buffer) ELSE WrittenAndRead(dn))
CallFromArrays == Idle /\ \E arrays \in Arrays :
  ServeDense([op |-> "fromArrays", arrays |-> arrays], FromArrays([r \in Procs |-> arrays[r + 1]]))
CallSetDense == Idle /\ \E i \in Indices : ServeDense([op |-> "setDense", at |-> i], SetDense(dn, i, 1))
CallNumberDense == Idle /\ \E how \in {"applyInd", "fixed"} :
  ServeDense([op |-> "numberDense", how |-> how], IF how = "fixed" THEN FixedDense(dn, 1) ELSE ApplyIndDense(dn))

CallAddTo == Idle /\ \E minus \in BOOLEAN :
  ServeDense([op |-> "addToDense", minus |-> minus], IF minus THEN SubtractFrom(dn, sp) ELSE AddTo(dn, sp))
CallSet == Idle /\ ServeDense([op |-> "setSparse"], Set(dn, sp))
CallApplyMask == Idle /\ ServeDense([op |-> "applyMask"], ApplyMask(dn, sp))
CallEWise == Idle /\ \E e \in LikeDense, minus \in BOOLEAN :
  ServeDense([op |-> "ewise", other |-> e, minus |-> minus], EWise(dn, BuiltDense[e], minus))
CallEWiseApply ==
  /\ Idle
  /\ \/ \E e \in LikeDense, filter \in BOOLEAN :
          ServeDense([op |-> "ewiseApply", other |-> e, filter |-> filter], EWiseApplyDense(dn, BuiltDense[e], filter))
     \/ \E nulls, filter \in BOOLEAN :
          ServeDense([op |-> "ewiseApplyWith", nulls |-> nulls, filter |-> filter],
                     EWiseApplyWith(dn, sp, filter, nulls, 1))

CallSortDense ==
  Idle /\ LET both == SortDense(dn) IN Serve([op |-> "sortDense"], sp, both[1], TheDense(both[2]))
\* Some of the choices of ranks, and of local orders.
CallRandPerm == Idle /\ \E a, b, c, reversed \in {0, 1} :
  LET dest == [r \in Procs |-> [i \in 1 .. Len(dn.arr[r]) |-> (a * r + b * i + c) % (ProcRows * ProcCols)]]
  IN ServeDense([op |-> "randPerm"], RandPerm(dn, dest, LAMBDA list : IF reversed = 1 THEN Reverse(list) ELSE list))

\* Where several values are put any one stays.
CallGSet == Idle /\ \E invert \in BOOLEAN :
  LET candidates == GSetCandidates(dn, sp, invert)
      slots == {x \in Procs \X (1 .. dn.glen) : x[2] <= Len(dn.arr[x[1]])}
      disputed == {x \in slots : Cardinality(candidates[x[1]][x[2]]) > 1}
  IN \E last \in [disputed -> Value] :
       /\ \A x \in disputed : last[x] \in candidates[x[1]][x[2]]
       /\ ServeDense([op |-> "gset", invert |-> invert],
                     LocallyDense(dn, LAMBDA r, i : IF <<r, i>> \in disputed THEN last[<<r, i>>]
                                                    ELSE CHOOSE v \in candidates[r][i] : TRUE))

-----------------------------------------------------------------------------
(* Questions about the dense vector. *)

CallGetElement == Idle /\ \E i \in Indices : Ask([op |-> "elementDense", at |-> i], Plain(GetElement(dn, i)))
CallCountDense == Idle /\ \E vals \in ValueSets : Ask([op |-> "countDense", vals |-> vals], Plain(CountDense(dn, vals)))
CallFindInds == Idle /\ \E vals \in ValueSets : Ask([op |-> "findDense", vals |-> vals], TheDense(FindIndsDense(dn, vals)))
CallEqualDense == Idle /\ \E e \in LikeDense : Ask([op |-> "equalDense", other |-> e], Plain(EqualDense(dn, BuiltDense[e])))
CallReduceDense == Idle /\ \E squares \in BOOLEAN :
  Ask([op |-> "reduceDense", squares |-> squares], Plain(IF squares THEN ReduceDenseUnary(dn) ELSE ReduceDense(dn)))
CallMinElement == /\ Idle /\ \A r \in Procs : dn.arr[r] # <<>>
                  /\ Ask([op |-> "min"], Plain(MinElement(dn)))
CallIndexDense == Idle /\ \E ri \in LikeDense :
  /\ ValuesAreIndices(ri, dn.glen)
  /\ Ask([op |-> "indexDense", ri |-> ri], TheDense(IndexDense(dn, BuiltDense[ri])))
CallGGet == Idle /\ Ask([op |-> "gget"], TheSparse(GGet(dn, sp, 0)))
CallConcatenate == Idle /\ \E e \in Denses :
  Ask([op |-> "concatenate", other |-> e], TheDense(Concatenate(dn, BuiltDense[e])))
CallDenseSpMV == Idle /\ \E M \in Matrices : M.n = dn.glen /\ Ask([op |-> "spmvDense", matrix |-> M], TheDense(DenseSpMV(M, dn)))

-----------------------------------------------------------------------------

Next ==
  \/ Return \/ Assign \/ CallFromDense \/ CallFromLocal \/ CallFromIndices \/ CallParallelRead
  \/ CallReadDistribute \/ CallSetElement \/ CallDelElement \/ CallIota \/ CallNumber \/ CallPlusEq
  \/ CallMinusEq \/ CallSelect \/ CallSetminus \/ CallFilterByVal \/ CallSpMV \/ CallFind \/ CallElement
  \/ CallIndexSparse \/ CallCount \/ CallReduce \/ CallEqual \/ CallUniq \/ CallSort \/ CallInvert
  \/ CallEWiseMult \/ CallEWiseApplyDense \/ CallEWiseApplySparse \/ CallOldSpMV \/ CallToDense
  \/ CallStored \/ CallFromArrays \/ CallSetDense \/ CallNumberDense \/ CallAddTo \/ CallSet
  \/ CallApplyMask \/ CallEWise \/ CallEWiseApply \/ CallSortDense \/ CallRandPerm \/ CallGSet
  \/ CallGetElement \/ CallCountDense \/ CallFindInds \/ CallEqualDense \/ CallReduceDense
  \/ CallMinElement \/ CallIndexDense \/ CallGGet \/ CallConcatenate \/ CallDenseSpMV

-----------------------------------------------------------------------------
(* Properties. *)

\* After every operation each rank has exactly its part of both vectors, its list in order and
\* without an index twice; operations search, merge and place by position in reliance on it.
TypeOK == SparseInPlace(sp) /\ DenseInPlace(dn)

\* When a vector is inverted by one-sided puts under shared locks, every place of every
\* receive buffer is written by exactly one rank, whatever the ranks send each other.
PutsDisjoint ==
  call = NoCall /\ Known =>
    \A q \in Procs :
      LET puts == PutsTo(sp, ElementRange, q)
      IN {p.slot : p \in puts} = 1 .. Cardinality(puts)
=============================================================================
