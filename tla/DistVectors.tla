--------------------------------- MODULE DistVectors ---------------------------------
(***************************************************************************)
(* The vectors FullyDistVec and FullyDistSpVec, spread over all processes: *)
(* what their collective operations, and the friend functions on them,     *)
(* leave on each process.  A dense vector has its length glen and, for     *)
(* every rank, the array arr; a sparse one, for every rank, the list loc   *)
(* of the pairs of vectors ind and num, at local indices in order.         *)
(*                                                                         *)
(* All ranks call an operation together and its steps are separated by     *)
(* collective calls, so that an operation is a function from what all      *)
(* ranks have to what all ranks have then.  Predicates are given as the    *)
(* set of values that satisfy them, and values are modulo ElementRange.    *)
(***************************************************************************)
EXTENDS Distribution, Sequences, SequencesExt

CONSTANT ElementRange

Value == 0 .. ElementRange - 1
NT == 0   \* the value NT()

Plus(a, b) == (a + b) % ElementRange
Minus(a, b) == (a - b) % ElementRange
Total(list) == FoldLeft(Plus, 0, list)

LenUntil(glen, r) == LengthUntil(glen, RankInProcCol(r), RankInProcRow(r))
LocLength(glen, r) == MyLocLength(glen, RankInProcCol(r), RankInProcRow(r))

Dense(glen, arr) == [glen |-> glen, arr |-> arr]
Sparse(glen, loc) == [glen |-> glen, loc |-> loc]
Pair(ind, num) == [ind |-> ind, num |-> num]
EmptySparse(glen) == Sparse(glen, [r \in Procs |-> <<>>])

-----------------------------------------------------------------------------
(* Communication. *)

InRankOrder(lists) == FlattenSeq([k \in 1 .. ProcRows * ProcCols |-> lists[k - 1]])
CountBefore(lists, r) == FoldSet(LAMBDA q, s : s + Len(lists[q]), 0, 0 .. r - 1)   \* MPI_Exscan

\* The items for q, in their order: datsent[owner].push_back(item).
ItemsFor(items, q) ==
  LET upto[k \in 0 .. Len(items)] ==
        IF k = 0 THEN <<>> ELSE IF items[k].to = q THEN Append(upto[k - 1], items[k]) ELSE upto[k - 1]
  IN upto[Len(items)]

\* Items go to the rank in their field to, and arrive by sender and in the sender's order.
Alltoallv(items) ==
  [q \in Procs |-> InRankOrder([r \in Procs |-> ItemsFor(items[r], q)])]
PairTo(rank, ind, num) == [to |-> rank, ind |-> ind, num |-> num]
Pairs(items) == [k \in 1 .. Len(items) |-> Pair(items[k].ind, items[k].num)]

\* The place of a pair with global index g in a vector of length glen.
SentHome(glen, g, num) == LET own == Owner(glen, g) IN PairTo(own.rank, own.lind, num)

-----------------------------------------------------------------------------
(* Lists of pairs. *)

SortedPairs(list) == SortSeq(list, LAMBDA a, b : a.ind < b.ind \/ (a.ind = b.ind /\ a.num < b.num))

\* Of neighbours with the same index the first is kept, or they are summed.
Unique(list, sum) ==
  FoldLeft(LAMBDA done, e :
             IF done = <<>> \/ Last(done).ind # e.ind THEN Append(done, e)
             ELSE IF sum THEN [done EXCEPT ![Len(done)].num = Plus(@, e.num)]
             ELSE done,
           <<>>, list)

\* arr[ind] = num, in the order of the list.
InSlots(arr, list) ==
  FoldLeft(LAMBDA a, e : [a EXCEPT ![e.ind + 1] = e.num], arr, list)

Filled(n) == [i \in 1 .. n |-> NT]

-----------------------------------------------------------------------------
(* Construction and conversion. *)

Find(d, vals) ==
  Sparse(d.glen, [r \in Procs |-> SelectSeq([i \in 1 .. Len(d.arr[r]) |-> Pair(i - 1, d.arr[r][i])],
                                            LAMBDA e : e.num \in vals)])
SparseFromDense(d) == Find(d, Value)
DenseFromSparse(s) ==
  Dense(s.glen, [r \in Procs |-> InSlots(Filled(LocLength(s.glen, r)), s.loc[r])])

\* Each rank gives what it is to have, in any order unless sorted.
FromLocal(glen, lists, SumDuplicates, sorted) ==
  Sparse(glen, [r \in Procs |-> Unique(IF sorted THEN lists[r] ELSE SortedPairs(lists[r]), SumDuplicates)])

\* From dense vectors of indices and of values.
FromIndices(glen, inds, vals, SumDuplicates) ==
  LET recv == Alltoallv([r \in Procs |-> [i \in 1 .. Len(inds.arr[r]) |->
                                            SentHome(glen, inds.arr[r][i], vals.arr[r][i])]])
  IN Sparse(glen, [r \in Procs |-> Unique(SortedPairs(Pairs(recv[r])), SumDuplicates)])

\* An array from every rank, of the same size on all.
FromArrays(fillarr) == Dense(CountBefore(fillarr, ProcRows * ProcCols), fillarr)

\* Values that the ranks have, one after the other, each at the rank it belongs to.
ToHomes(glen, lists) ==
  Alltoallv([r \in Procs |-> [i \in 1 .. Len(lists[r]) |-> SentHome(glen, CountBefore(lists, r) + i - 1, lists[r][i])]])
NumsOf(list) == [k \in 1 .. Len(list) |-> list[k].num]

\* What the ranks found, spread evenly.
Rebalanced(found) ==
  LET glen == CountBefore(found, ProcRows * ProcCols)
      recv == ToHomes(glen, found)
  IN Dense(glen, [q \in Procs |-> NumsOf(recv[q])])

GlobalInds(s, r, list) == [k \in 1 .. Len(list) |-> list[k].ind + LenUntil(s.glen, r)]
ValuedIn(s, r, vals) == SelectSeq(s.loc[r], LAMBDA e : e.num \in vals)
FindVals(s, vals) == Rebalanced([r \in Procs |-> NumsOf(ValuedIn(s, r, vals))])
FindInds(s, vals) == Rebalanced([r \in Procs |-> GlobalInds(s, r, ValuedIn(s, r, vals))])
FindIndsDense(d, vals) ==
  LET s == Find(d, vals) IN Rebalanced([r \in Procs |-> GlobalInds(s, r, s.loc[r])])

\* One vector after the other.
Concatenate(d, e) ==
  LET nglen == d.glen + e.glen
      items(v, gloffset, r) == [i \in 1 .. Len(v.arr[r]) |->
                                  SentHome(nglen, gloffset + LenUntil(v.glen, r) + i - 1, v.arr[r][i])]
      recv == Alltoallv([r \in Procs |-> items(d, 0, r) \o items(e, d.glen, r)])
  IN Dense(nglen, [q \in Procs |-> InSlots(Filled(LocLength(nglen, q)), recv[q])])

\* Numbers in place of values, by a function of the rank, the place in the list and the pair.
Renumbered(s, f(_, _, _)) ==
  Sparse(s.glen, [r \in Procs |-> [k \in 1 .. Len(s.loc[r]) |-> [s.loc[r][k] EXCEPT !.num = f(r, k, @)]]])
Iota(globalsize, first) ==
  Dense(globalsize, [r \in Procs |-> [i \in 1 .. LocLength(globalsize, r) |-> i - 1 + LenUntil(globalsize, r) + first]])
IotaSparse(globalsize, first) ==
  Sparse(globalsize, [r \in Procs |-> [i \in 1 .. LocLength(globalsize, r) |->
                                         Pair(i - 1, i - 1 + LenUntil(globalsize, r) + first)]])
NnzUntil(s, r) == CountBefore(s.loc, r)
NzIota(s, first) == Renumbered(s, LAMBDA r, k, num : NnzUntil(s, r) + first + k - 1)
ApplyInd(s) == Renumbered(s, LAMBDA r, k, num : Plus(num, s.loc[r][k].ind + LenUntil(s.glen, r)))
SetNumToInd(s) == Renumbered(s, LAMBDA r, k, num : s.loc[r][k].ind + LenUntil(s.glen, r))
FixedSparse(s, fixedval) == Renumbered(s, LAMBDA r, k, num : fixedval)
ApplyIndDense(d) ==
  Dense(d.glen, [r \in Procs |-> [i \in 1 .. Len(d.arr[r]) |-> Plus(d.arr[r][i], i - 1 + LenUntil(d.glen, r))]])
FixedDense(d, fixedval) == Dense(d.glen, [r \in Procs |-> [i \in 1 .. Len(d.arr[r]) |-> fixedval]])

-----------------------------------------------------------------------------
(* Text: the lines of a file, each a pair with a global index. *)

\* An entry is written with the number of nonzeros before its rank's added to its local index,
\* the right index if the ranks before are full.
SaveGathered(s) ==
  InRankOrder([r \in Procs |-> [k \in 1 .. Len(s.loc[r]) |-> Pair(s.loc[r][k].ind + CountBefore(s.loc, r), s.loc[r][k].num)]])
ParallelWrite(s) == SaveGathered(s)

\* What the ranks read is appended to what they have.
SparseCommon(s, data) ==
  LET recv == Alltoallv(data)
  IN [s EXCEPT !.loc = [q \in Procs |-> @[q] \o Unique(SortedPairs(Pairs(recv[q])), TRUE)]]
LinesOf(lines, r) ==
  LET nprocs == ProcRows * ProcCols
      first == PartStart(Len(lines), nprocs, r)
  IN SubSeq(lines, first + 1, first + PartLength(Len(lines), nprocs, r))
LinesSent(glen, lines) ==
  [r \in Procs |-> [k \in 1 .. Len(LinesOf(lines, r)) |-> SentHome(glen, LinesOf(lines, r)[k].ind, LinesOf(lines, r)[k].num)]]
ParallelRead(s, lines) == SparseCommon(s, LinesSent(s.glen, lines))
\* Otherwise a rank takes an entry from an array without any.
EveryRankReceives(glen, lines) == \A q \in Procs : Alltoallv(LinesSent(glen, lines))[q] # <<>>

\* One rank reads and fills a buffer for each, all of which are sent when one of them is full
\* or the file is at its end.
ReadDistribute(glen, lines, buffperneigh) ==
  LET read(st, k) ==
        LET e == SentHome(glen, lines[k].ind, lines[k].num)
            data == Append(st.data, e)
            full == Len(SelectSeq(data, LAMBDA f : f.to = e.to)) = buffperneigh
        IN IF full \/ k = Len(lines) THEN [scattered |-> st.scattered \o data, data |-> <<>>]
           ELSE [st EXCEPT !.data = data]
      sent == FoldLeft(read, [scattered |-> <<>>, data |-> <<>>], [k \in 1 .. Len(lines) |-> k]).scattered
  IN Sparse(glen, [q \in Procs |-> Pairs(SelectSeq(sent, LAMBDA e : e.to = q))])

\* A dense vector goes through a sparse one; what is read comes after what it had.
GatheredAndRead(d, buffperneigh) ==
  DenseFromSparse(ReadDistribute(d.glen, SaveGathered(SparseFromDense(d)), buffperneigh))
WrittenAndRead(d) == DenseFromSparse(ParallelRead(SparseFromDense(d), ParallelWrite(SparseFromDense(d))))

-----------------------------------------------------------------------------
(* One element. *)

LowerBound(list, ind) == Cardinality({k \in 1 .. Len(list) : list[k].ind < ind})

\* Whether there is one and its value, as its owner broadcasts it.
Element(s, indx) ==
  LET own == Owner(s.glen, indx)
      list == s.loc[own.rank]
      it == LowerBound(list, own.lind) + 1
  IN IF it <= Len(list) /\ list[it].ind = own.lind THEN <<TRUE, list[it].num>> ELSE <<FALSE, NT>>

SetElementInserts(s, indx, numx) ==
  LET own == Owner(s.glen, indx)
      it == LowerBound(s.loc[own.rank], own.lind)
  IN [s EXCEPT !.loc[own.rank] = InsertAt(@, it + 1, Pair(own.lind, numx))]
SetElement(s, indx, numx) ==
  LET own == Owner(s.glen, indx)
      list == s.loc[own.rank]
      it == LowerBound(list, own.lind)
      after == IF it < Len(list) /\ list[it + 1].ind = own.lind THEN it + 2 ELSE it + 1
  IN [s EXCEPT !.loc[own.rank] =
        SubSeq(@, 1, it) \o <<Pair(own.lind, numx)>> \o SubSeq(@, after, Len(@))]
DelElement(s, indx) ==
  LET own == Owner(s.glen, indx)
      it == LowerBound(s.loc[own.rank], own.lind) + 1
  IN IF Element(s, indx)[1] THEN [s EXCEPT !.loc[own.rank] = RemoveAt(@, it)] ELSE s

InArray(d, own) == own.lind < Len(d.arr[own.rank])
SetDense(d, indx, numx) ==
  LET own == Owner(d.glen, indx) IN IF InArray(d, own) THEN [d EXCEPT !.arr[own.rank][own.lind + 1] = numx] ELSE d
GetElement(d, indx) ==
  LET own == Owner(d.glen, indx) IN IF InArray(d, own) THEN d.arr[own.rank][own.lind + 1] ELSE NT

-----------------------------------------------------------------------------
(* Many elements, by a dense vector of indices. *)

\* What rank r asks for, num being the place that waits for it.
Requests(v, ri, r) ==
  [i \in 1 .. Len(ri.arr[r]) |-> LET own == Owner(v.glen, ri.arr[r][i]) IN PairTo(own.rank, own.lind, i)]

\* The owner intersects the requests of a rank with its indices, in one pass over both.
FoundInPass(s, reqs, i) ==
  /\ \E k \in 1 .. Len(s.loc[reqs[i].to]) : s.loc[reqs[i].to][k].ind = reqs[i].ind
  /\ \A j \in 1 .. i - 1 : reqs[j].to = reqs[i].to => reqs[j].ind < reqs[i].ind
ValueAt(list, ind) == list[CHOOSE k \in 1 .. Len(list) : list[k].ind = ind].num

\* A reply is put where its local index was first asked for, of whichever owner.
IndexSparse(s, ri) ==
  LET replies(reqs) ==
        LET found == SelectSeq([i \in 1 .. Len(reqs) |-> i], LAMBDA i : FoundInPass(s, reqs, i))
            back(q) == SelectSeq(found, LAMBDA i : reqs[i].to = q)
            place(i) == Min({j \in 1 .. Len(reqs) : reqs[j].ind = reqs[i].ind})
        IN InRankOrder([q \in Procs |->
             [k \in 1 .. Len(back(q)) |-> Pair(place(back(q)[k]) - 1, ValueAt(s.loc[q], reqs[back(q)[k]].ind))]])
  IN Dense(ri.glen, [r \in Procs |-> InSlots(Filled(Len(ri.arr[r])), replies(Requests(s, ri, r)))])
\* The requests that are all served: each rank's in order, and of different local indices.
Servable(s, ri) ==
  \A r \in Procs : LET reqs == Requests(s, ri, r) IN
    \A i, j \in 1 .. Len(reqs) :
      i < j => reqs[i].ind # reqs[j].ind /\ (reqs[i].to = reqs[j].to => reqs[i].ind < reqs[j].ind)

\* From a dense vector everything comes back, in the order asked for.
IndexDense(d, ri) ==
  LET replies(reqs) ==
        InRankOrder([q \in Procs |->
          LET asked == SelectSeq(reqs, LAMBDA e : e.to = q)
          IN [k \in 1 .. Len(asked) |-> Pair(asked[k].num - 1, d.arr[q][asked[k].ind + 1])]])
  IN Dense(ri.glen, [r \in Procs |-> InSlots(Filled(Len(ri.arr[r])), replies(Requests(d, ri, r)))])

-----------------------------------------------------------------------------
(* Sorting.  The parallel sorts are libraries: ranks without entries are left out, and *)
(* of the sorted sequence each rank has as many entries as it gave.                    *)

ParallelSort(lists) ==
  LET sorted == SortedPairs(InRankOrder(lists))
  IN [r \in Procs |-> SubSeq(sorted, CountBefore(lists, r) + 1, CountBefore(lists, r) + Len(lists[r]))]
ByValue(glen, r, list) == [k \in 1 .. Len(list) |-> Pair(list[k].num, list[k].ind + LenUntil(glen, r))]

\* The vector in order, and the indices its values had.
SortDense(d) ==
  LET s == SparseFromDense(d)
      vecpair == ParallelSort([r \in Procs |-> ByValue(d.glen, r, s.loc[r])])
  IN <<Dense(d.glen, [r \in Procs |-> [k \in 1 .. Len(vecpair[r]) |-> vecpair[r][k].ind]]),
       Dense(d.glen, [r \in Procs |-> NumsOf(vecpair[r])])>>

\* The indices only, not at the places that the entries have.
SortSparse(s) ==
  LET sorted == ParallelSort([r \in Procs |-> ByValue(s.glen, r, s.loc[r])])
  IN IF \A r \in Procs : s.loc[r] = <<>> THEN EmptySparse(0)
     ELSE Sparse(s.glen, [r \in Procs |-> [k \in 1 .. Len(sorted[r]) |-> Pair(k - 1, sorted[r][k].num)]])

\* The values go to the owners of their hashes, which send back one index of each.
UniqAll2All(s, hash) ==
  LET sent(r) == [k \in 1 .. Len(s.loc[r]) |->
                    PairTo(Owner(s.glen, hash[s.loc[r][k].num]).rank, s.loc[r][k].num, s.loc[r][k].ind + LenUntil(s.glen, r))]
      tosort == Alltoallv([r \in Procs |-> sent(r)])
      kept == [q \in Procs |-> Unique(SortedPairs(Pairs(tosort[q])), FALSE)]
      back == Alltoallv([q \in Procs |-> [k \in 1 .. Len(kept[q]) |-> SentHome(s.glen, kept[q][k].num, kept[q][k].ind)]])
  IN Sparse(s.glen, [r \in Procs |-> SortedPairs(Pairs(back[r]))])

\* A random permutation: dest gives the rank each value is sent to, shuffle an order for what
\* a rank has then.
RandPerm(d, dest, shuffle(_)) ==
  LET recvbuf == Alltoallv([r \in Procs |-> [i \in 1 .. Len(d.arr[r]) |-> PairTo(dest[r][i], i, d.arr[r][i])]])
      homes == ToHomes(d.glen, [r \in Procs |-> NumsOf(shuffle(recvbuf[r]))])
  IN Dense(d.glen, [r \in Procs |-> InSlots([i \in 1 .. LocLength(d.glen, r) |-> d.arr[r][i]], homes[r])])

-----------------------------------------------------------------------------
(* Inverting: values become indices and indices values. *)

\* With threads, the items for a rank are in any order; backwards stands for the others.
Inversions(s, globallen, r, backwards) ==
  LET items == [k \in 1 .. Len(s.loc[r]) |-> SentHome(globallen, s.loc[r][k].num, s.loc[r][k].ind + LenUntil(s.glen, r))]
  IN IF backwards THEN Reverse(items) ELSE items
Fits(s, globallen) == \A r \in Procs : \A k \in 1 .. Len(s.loc[r]) : s.loc[r][k].num < globallen
Inverted(recv, globallen, sum) ==
  Sparse(globallen, [q \in Procs |-> Unique(SortedPairs(Pairs(recv[q])), sum)])

Invert(s, globallen, sum, backwards) ==
  IF ~ Fits(s, globallen) THEN EmptySparse(globallen)
  ELSE Inverted(Alltoallv([r \in Procs |-> Inversions(s, globallen, r, backwards)]), globallen, sum)

\* By one-sided puts: a rank tells the others how many items they get, each computes where
\* those of the others begin in its buffer and puts that into their rmadispls.
PutsToOwnPlace(s, globallen, q) ==
  LET sent(r) == Inversions(s, globallen, r, FALSE)
      sdispls(r) == Len(SelectSeq(sent(r), LAMBDA e : e.to < q))
      items(r) == SelectSeq(sent(r), LAMBDA e : e.to = q)
  IN UNION {{[slot |-> sdispls(r) + k, item |-> items(r)[k]] : k \in 1 .. Len(items(r))} : r \in Procs}
PutsTo(s, globallen, q) ==
  LET items == [r \in Procs |-> ItemsFor(Inversions(s, globallen, r, FALSE), q)]
      recvcnt == [r \in Procs |-> Len(items[r])]
      rmadispls == Displacements(recvcnt)
  IN UNION {{[slot |-> rmadispls[r] + k, item |-> items[r][k]] : k \in 1 .. recvcnt[r]} : r \in Procs}
InvertRMA(s, globallen) ==
  IF ~ Fits(s, globallen) THEN EmptySparse(globallen)
  ELSE LET buffer(puts) == [k \in 1 .. Cardinality(puts) |-> (CHOOSE p \in puts : p.slot = k).item]
       IN Inverted([q \in Procs |-> buffer(PutsTo(s, globallen, q))], globallen, FALSE)

-----------------------------------------------------------------------------
(* Counting and reducing: locally, and over the ranks. *)

OverRanks(f(_)) == FoldSet(LAMBDA r, sum : sum + f(r), 0, Procs)
Count(s, vals) == OverRanks(LAMBDA r : Len(ValuedIn(s, r, vals)))
CountDense(d, vals) == OverRanks(LAMBDA r : Len(SelectSeq(d.arr[r], LAMBDA v : v \in vals)))

Squared(nums) == [k \in 1 .. Len(nums) |-> (nums[k] * nums[k]) % ElementRange]
Reduce(s) == OverRanks(LAMBDA r : Total(NumsOf(s.loc[r]))) % ElementRange
ReduceUnary(s) == OverRanks(LAMBDA r : Total(Squared(NumsOf(s.loc[r])))) % ElementRange
ReduceDense(d) == OverRanks(LAMBDA r : Total(d.arr[r])) % ElementRange
ReduceDenseUnary(d) == OverRanks(LAMBDA r : Total(Squared(d.arr[r]))) % ElementRange

\* Of the ranks that have the least value the lowest index; every rank must have a value.
MinElement(d) ==
  LET localMin == [r \in Procs |-> Min(ToSet(d.arr[r]))]
      globalMin == Min({localMin[r] : r \in Procs})
      localMinIdx(r) == IF localMin[r] = globalMin
                        THEN Min({i \in 1 .. Len(d.arr[r]) : d.arr[r][i] = globalMin}) - 1 + LenUntil(d.glen, r)
                        ELSE d.glen
  IN <<Min({localMinIdx(r) : r \in Procs}), globalMin>>

EqualDense(d, e) == \A r \in Procs : d.arr[r] = e.arr[r]
\* Through dense vectors, so that zeros and absent values are the same.
EqualSparse(s, t) == EqualDense(DenseFromSparse(s), DenseFromSparse(t))

-----------------------------------------------------------------------------
(* Element by element: without communication, on the lists of each rank. *)

Inds(list) == {list[k].ind : k \in 1 .. Len(list)}
InOrder(I) == IF I = {} THEN <<>> ELSE SelectSeq([k \in 1 .. Max(I) + 1 |-> k - 1], LAMBDA i : i \in I)
ByIndex(I, num(_)) == [k \in 1 .. Cardinality(I) |-> Pair(InOrder(I)[k], num(InOrder(I)[k]))]
At(list, ind, null) == IF ind \in Inds(list) THEN ValueAt(list, ind) ELSE null
Locally(s, list(_)) == Sparse(s.glen, [r \in Procs |-> list(r)])
LocallyDense(d, val(_, _)) == Dense(d.glen, [r \in Procs |-> [i \in 1 .. Len(d.arr[r]) |-> val(r, i)]])

PlusEq(s, t) ==
  Locally(s, LAMBDA r : ByIndex(Inds(s.loc[r]) \cup Inds(t.loc[r]),
                                LAMBDA i : Plus(At(s.loc[r], i, 0), At(t.loc[r], i, 0))))
MinusEq(s, t) ==
  Locally(s, LAMBDA r : ByIndex(Inds(s.loc[r]) \cup Inds(t.loc[r]),
                                LAMBDA i : Minus(At(s.loc[r], i, 0), At(t.loc[r], i, 0))))
\* With the same object on both sides.
PlusEqSelf(s) == Renumbered(s, LAMBDA r, k, num : (2 * num) % ElementRange)
MinusEqSelf(s) == EmptySparse(s.glen)

Select(s, d, vals) == Locally(s, LAMBDA r : SelectSeq(s.loc[r], LAMBDA e : d.arr[r][e.ind + 1] \in vals))
SelectApply(s, d, vals) ==
  LET kept == Select(s, d, vals)
  IN Renumbered(kept, LAMBDA r, k, num : Plus(num, d.arr[r][kept.loc[r][k].ind + 1]))
Setminus(s, t) == Locally(s, LAMBDA r : SelectSeq(s.loc[r], LAMBDA e : e.ind \notin Inds(t.loc[r])))

\* All ranks have all indices, or values, of the selector.
FilterByVal(s, selector, filterByIndex) ==
  LET recvbuf == InRankOrder([r \in Procs |-> IF filterByIndex THEN GlobalInds(selector, r, selector.loc[r])
                                              ELSE NumsOf(selector.loc[r])])
  IN Locally(s, LAMBDA r : SelectSeq(s.loc[r], LAMBDA e : e.num \notin ToSet(recvbuf)))

AddTo(d, s) ==
  LocallyDense(d, LAMBDA r, i : IF d.arr[r][i] = NT THEN At(s.loc[r], i - 1, d.arr[r][i])
                                ELSE Plus(d.arr[r][i], At(s.loc[r], i - 1, 0)))
SubtractFrom(d, s) == LocallyDense(d, LAMBDA r, i : Minus(d.arr[r][i], At(s.loc[r], i - 1, 0)))
Set(d, s) == LocallyDense(d, LAMBDA r, i : At(s.loc[r], i - 1, d.arr[r][i]))
ApplyMask(d, mask) ==
  LocallyDense(d, LAMBDA r, i : IF i - 1 \in Inds(mask.loc[r]) THEN Plus(d.arr[r][i], 1) ELSE d.arr[r][i])
EWise(d, e, minus) ==
  LocallyDense(d, LAMBDA r, i : IF minus THEN Minus(d.arr[r][i], e.arr[r][i]) ELSE Plus(d.arr[r][i], e.arr[r][i]))

\* A sum, of a pair of values that is operated on.
Allowed(a, b, filter) == filter => Plus(a, b) # 0
EWiseApplyDense(d, e, filter) ==
  LocallyDense(d, LAMBDA r, i : IF Allowed(d.arr[r][i], e.arr[r][i], filter) THEN Plus(d.arr[r][i], e.arr[r][i]) ELSE d.arr[r][i])
EWiseApplyWith(d, s, filter, applyNulls, nullValue) ==
  LocallyDense(d, LAMBDA r, i :
    LET v == At(s.loc[r], i - 1, nullValue)
    IN IF (i - 1 \in Inds(s.loc[r]) \/ applyNulls) /\ Allowed(d.arr[r][i], v, filter) THEN Plus(d.arr[r][i], v)
       ELSE d.arr[r][i])

\* The friends that make a new sparse vector.
EWiseMult(V, W, exclude) ==
  Locally(V, LAMBDA r :
    LET kept == SelectSeq(V.loc[r], LAMBDA e : (W.arr[r][e.ind + 1] = 0) = exclude)
    IN IF exclude THEN kept
       ELSE [k \in 1 .. Len(kept) |-> [kept[k] EXCEPT !.num = (@ * W.arr[r][kept[k].ind + 1]) % ElementRange]])

\* One thread works on a range of the dense part or, without nulls, of the sparse one, where it
\* begins by a search.  No thread stands for the sequential program.
Applied(V, W, r, filter, allowVNulls, Vzero, start, next) ==
  LET range == IF allowVNulls THEN [i \in 1 .. next - start |-> start + i - 1]
               ELSE [k \in 1 .. next - start |-> V.loc[r][start + k].ind]
      spart == LowerBound(V.loc[r], start)
      seen == IF allowVNulls THEN SubSeq(V.loc[r], spart + 1, Len(V.loc[r])) ELSE V.loc[r]
      v(i) == At(seen, i, Vzero)
      done == SelectSeq(range, LAMBDA i : Allowed(v(i), W.arr[r][i + 1], filter))
  IN [k \in 1 .. Len(done) |-> Pair(done[k], Plus(v(done[k]), W.arr[r][done[k] + 1]))]
EWiseApply_threaded(V, W, filter, allowVNulls, Vzero, nthreads) ==
  Locally(V, LAMBDA r :
    LET size == IF allowVNulls THEN Len(W.arr[r]) ELSE Len(V.loc[r])
        perthread == size \div nthreads
    IN FlattenSeq([t \in 1 .. nthreads |->
         Applied(V, W, r, filter, allowVNulls, Vzero, perthread * (t - 1), IF t = nthreads THEN size ELSE perthread * t)]))
EWiseApplySD(V, W, filter, allowVNulls, Vzero) ==
  Locally(V, LAMBDA r :
    Applied(V, W, r, filter, allowVNulls, Vzero, 0, IF allowVNulls THEN Len(W.arr[r]) ELSE Len(V.loc[r])))

EWiseApplySS(V, W, filter, allowVNulls, allowWNulls, allowIntersect, Vzero, Wzero) ==
  Locally(V, LAMBDA r :
    LET v == V.loc[r]
        w == W.loc[r]
        I == {i \in Inds(v) \cup Inds(w) :
                /\ CASE i \notin Inds(w) -> allowWNulls
                     [] i \notin Inds(v) -> allowVNulls
                     [] OTHER -> allowIntersect
                /\ Allowed(At(v, i, Vzero), At(w, i, Wzero), filter)}
    IN ByIndex(I, LAMBDA i : Plus(At(v, i, Vzero), At(w, i, Wzero))))

-----------------------------------------------------------------------------
(* One-sided access to a dense vector by the values of a sparse one. *)

\* What is put, at which rank and place; places past the end are not.
GSetPuts(d, s, invert) ==
  UNION {{LET gind == e.ind + LenUntil(s.glen, r)
              globind == IF invert THEN e.num ELSE gind
          IN [globind |-> globind, at |-> Owner(d.glen, globind), val |-> IF invert THEN gind ELSE e.num] :
            e \in ToSet(s.loc[r])} : r \in Procs}
\* Puts to the same place are not ordered, so that any of them may be the last.
GSetCandidates(d, s, invert) ==
  [r \in Procs |-> [i \in 1 .. Len(d.arr[r]) |->
     LET vals == {p.val : p \in {q \in GSetPuts(d, s, invert) : q.globind < d.glen /\ q.at = [rank |-> r, lind |-> i - 1]}}
     IN IF vals = {} THEN {d.arr[r][i]} ELSE vals]]

GGet(d, s, nullValue) ==
  Renumbered(s, LAMBDA r, k, num :
    LET own == Owner(d.glen, num) IN IF num < d.glen THEN d.arr[own.rank][own.lind + 1] ELSE nullValue)
=============================================================================
