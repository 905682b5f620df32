-------------------------------- MODULE VectorProofs --------------------------------
(***************************************************************************)
(* Inversion of a sparse vector by one-sided puts, for every grid and      *)
(* every vector: the puts of all ranks into a receive buffer are disjoint  *)
(* and fill it, and leave in it what MPI_Alltoallv would.  The theorem on  *)
(* PutsDisjoint is of the program of SpParMats.  Then two facts of the    *)
(* block of a process: its search by chunks finds every column, and the    *)
(* threads of a buffered product mark no displacement twice.               *)
(***************************************************************************)
EXTENDS SpParMats, CommonProofs

-----------------------------------------------------------------------------
(* Exchanges. *)

\* The items for a receiver are a sequence.
LEMMA ItemsForRight ==
  ASSUME NEW items, IsSequence(items), NEW q
  PROVE  IsSequence(ItemsFor(items, q))
<1> DEFINE n == Len(items)
           S == {items[k] : k \in 1 .. n}
           F == [k \in 1 .. n |-> [c \in Seq(S) |-> IF items[k].to = q THEN Append(c, items[k]) ELSE c]]
           Body(g) == [k \in 0 .. n |-> IF k = 0 THEN <<>>
                                        ELSE IF items[k].to = q THEN Append(g[k - 1], items[k]) ELSE g[k - 1]]
           f == CHOOSE g : g = Body(g)
<1>1. n \in Nat
  BY DEF IsSequence
<1>2. F \in [1 .. n -> [Seq(S) -> Seq(S)]]
  <2> SUFFICES ASSUME NEW k \in 1 .. n, NEW c \in Seq(S)
               PROVE  (IF items[k].to = q THEN Append(c, items[k]) ELSE c) \in Seq(S)
    OBVIOUS
  <2>1. items[k] \in S
    OBVIOUS
  <2> HIDE DEF S
  <2> QED BY <2>1
<1>3. <<>> \in Seq(S)
  OBVIOUS
<1>4. PICK g : Follows(g, n, Seq(S), <<>>, F)
  <2> HIDE DEF F, n, S
  <2> QED BY <1>1, <1>2, <1>3, PrimitiveRecursion, Zenon
<1> HIDE DEF S
<1>5. \A k \in 1 .. n : g[k] = IF items[k].to = q THEN Append(g[k - 1], items[k]) ELSE g[k - 1]
  <2> SUFFICES ASSUME NEW k \in 1 .. n
               PROVE  g[k] = IF items[k].to = q THEN Append(g[k - 1], items[k]) ELSE g[k - 1]
    OBVIOUS
  <2>1. k - 1 \in 0 .. n
    BY <1>1
  <2>2. g[k - 1] \in Seq(S) /\ g[k] = F[k][g[k - 1]]
    BY <1>4, <2>1 DEF Follows
  <2> QED BY <2>2
<1>6. g = Body(g)
  <2>1. g = [k \in 0 .. n |-> g[k]] /\ g[0] = <<>>
    BY <1>4 DEF Follows
  <2> HIDE DEF F, n
  <2>2. ASSUME NEW k \in 0 .. n
        PROVE  g[k] = IF k = 0 THEN <<>> ELSE IF items[k].to = q THEN Append(g[k - 1], items[k]) ELSE g[k - 1]
    <3>1. CASE k = 0
      BY <2>1, <3>1
    <3>2. CASE k # 0
      <4>1. k \in 1 .. n
        BY <1>1, <3>2
      <4> QED BY <1>5, <3>2, <4>1
    <3> QED BY <3>1, <3>2
  <2> QED BY <2>1, <2>2
<1>7. f = Body(f)
  <2>1. \E h : h = Body(h)
    <3> HIDE DEF Body
    <3> QED BY <1>6, Zenon
  <2> QED BY <2>1, Zenon
<1>8. ItemsFor(items, q) = f[n]
  BY DEF ItemsFor
<1> DEFINE T == {k \in 0 .. n : f[k] \in Seq(S)}
<1> HIDE DEF f, n
<1>9. \A k \in 0 .. n : f[k] = IF k = 0 THEN <<>> ELSE IF items[k].to = q THEN Append(f[k - 1], items[k]) ELSE f[k - 1]
  <2> SUFFICES ASSUME NEW k \in 0 .. n
               PROVE  f[k] = IF k = 0 THEN <<>> ELSE IF items[k].to = q THEN Append(f[k - 1], items[k]) ELSE f[k - 1]
    OBVIOUS
  <2>1. Body(f)[k] = IF k = 0 THEN <<>> ELSE IF items[k].to = q THEN Append(f[k - 1], items[k]) ELSE f[k - 1]
    OBVIOUS
  <2> HIDE DEF Body
  <2> QED BY <1>7, <2>1, Zenon
<1>10. 0 \in T
  <2>1. 0 \in 0 .. n
    BY <1>1
  <2>2. f[0] = <<>>
    BY <1>9, <2>1
  <2> QED BY <1>3, <2>1, <2>2
<1>11. ASSUME NEW k \in 0 .. n - 1, k \in T PROVE k + 1 \in T
  <2>1. k + 1 \in 0 .. n /\ k + 1 # 0 /\ (k + 1) - 1 = k /\ k + 1 \in 1 .. n
    BY <1>1
  <2>2. items[k + 1] \in S
    BY <2>1 DEF S
  <2>3. f[k] \in Seq(S)
    BY <1>11
  <2>4. f[k + 1] = IF items[k + 1].to = q THEN Append(f[k], items[k + 1]) ELSE f[k]
    BY <1>9, <2>1
  <2>5. f[k + 1] \in Seq(S)
    BY <2>2, <2>3, <2>4
  <2> QED BY <2>1, <2>5
<1>12. 0 .. n \subseteq T
  <2> HIDE DEF T
  <2> QED BY <1>1, <1>10, <1>11, BoundedInduction
<1>13. f[n] \in Seq(S)
  BY <1>1, <1>12
<1> QED BY <1>8, <1>13, TypedIsSequence

\* What the ranks sent, one after the other, has their sequences at the displacements.
LEMMA RankOrderRight ==
  ASSUME NEW lists, \A q \in Procs : IsSequence(lists[q])
  PROVE  LET d == Displacements([q \in Procs |-> Len(lists[q])])
             c == InRankOrder(lists)
             n == Cardinality(Procs)
         IN /\ Sums(d, [q \in Procs |-> Len(lists[q])], n)
            /\ c = [j \in 1 .. d[n] |-> c[j]]
            /\ \A q \in Procs : \A i \in 1 .. Len(lists[q]) : c[d[q] + i] = lists[q][i]
<1> DEFINE counts == [q \in Procs |-> Len(lists[q])]
           d == Displacements(counts)
           n == Cardinality(Procs)
           seqs == [k \in 1 .. n |-> lists[k - 1]]
           c == InRankOrder(lists)
<1>1. n \in Nat \ {0} /\ Procs = 0 .. n - 1 /\ n = ProcRows * ProcCols
  <2>1. n \in Nat \ {0} /\ Procs = 0 .. n - 1
    BY ProcsRight
  <2> DEFINE e == ProcRows * ProcCols
  <2>2. e \in Nat
    BY GridAssumption, SMT
  <2>3. Procs = 0 .. e - 1
    BY DEF Procs
  <2> HIDE DEF n, e
  <2>4. n - 1 \in 0 .. e - 1 /\ (e # 0 => e - 1 \in 0 .. n - 1)
    BY <2>1, <2>2, <2>3
  <2>5. n = e
    BY <2>1, <2>2, <2>4
  <2> QED BY <2>1, <2>5 DEF e
<1>2. \A q \in Procs : counts[q] \in Nat /\ counts[q] = Len(lists[q])
  BY DEF IsSequence
<1>3. Sums(d, counts, n)
  <2> HIDE DEF counts
  <2> QED BY <1>2, DisplacementsRight
<1>4. seqs = [k \in 1 .. n |-> seqs[k]] /\ \A k \in 1 .. n : IsSequence(seqs[k])
  BY <1>1
<1>5. Sums(d, [q \in 0 .. n - 1 |-> Len(seqs[q + 1])], n)
  <2>1. counts = [q \in 0 .. n - 1 |-> Len(seqs[q + 1])]
    <3>1. \A q \in 0 .. n - 1 : seqs[q + 1] = lists[q]
      BY <1>1
    <3> HIDE DEF n, seqs
    <3> QED BY <1>1, <3>1
  <2> QED BY <1>3, <2>1
<1>6. Len(seqs) = n /\ Len(seqs) # 0
  BY <1>1
<1>7. c = Concatenation(seqs)
  <2>1. c = FlattenSeq(seqs)
    BY <1>1 DEF InRankOrder
  <2> HIDE DEF seqs
  <2> QED BY <1>6, <2>1 DEF FlattenSeq, Concatenation
<1>8. \A q \in Procs : q \in 0 .. n - 1 /\ seqs[q + 1] = lists[q]
  BY <1>1
<1> HIDE DEF seqs, c, d, n, counts
<1>9. /\ c = [j \in 1 .. d[n] |-> c[j]]
      /\ \A q \in 0 .. n - 1 : \A i \in 1 .. Len(seqs[q + 1]) : c[d[q] + i] = seqs[q + 1][i]
  <2>1. LengthsSum(seqs, d, n)
    BY <1>4, <1>5, Zenon DEF LengthsSum
  <2>2. OneAfterAnother(c, seqs, d, n)
    BY <1>1, <1>7, <2>1, ConcatenationRight, Zenon
  <2> QED BY <2>2, Zenon DEF OneAfterAnother
<1>10. ASSUME NEW q \in Procs, NEW i \in 1 .. Len(lists[q]) PROVE c[d[q] + i] = lists[q][i]
  <2>1. q \in 0 .. n - 1 /\ seqs[q + 1] = lists[q]
    BY <1>8
  <2>2. i \in 1 .. Len(seqs[q + 1])
    BY <2>1, Zenon
  <2>3. c[d[q] + i] = seqs[q + 1][i]
    BY <1>9, <2>1, <2>2, Zenon
  <2> QED BY <2>1, <2>3, Zenon
<1> QED BY <1>3, <1>9, <1>10, Zenon DEF d, counts, n, c

-----------------------------------------------------------------------------
(* Puts. *)

\* Every rank's list has a length.
HasLengths(s) == \A r \in Procs : Len(s.loc[r]) \in Nat

\* What is put at a place.
ItemAt(puts, j) == (CHOOSE p \in puts : p.slot = j).item

\* Puts at the first n places, each at one, of the items that recv has there.
InPlaceOnce(puts, recv, n) == puts = {[slot |-> j, item |-> recv[j]] : j \in 1 .. n}

\* One-sided puts leave in the receive buffer of a rank what an exchange would bring it: the
\* place j is written once, with the j-th item in the order of the ranks.
LEMMA PutsRight ==
  ASSUME NEW s, HasLengths(s), NEW globallen, NEW q
  PROVE  LET recv == InRankOrder([r \in Procs |-> ItemsFor(Inversions(s, globallen, r, FALSE), q)])
         IN \E n \in Nat : /\ recv = [j \in 1 .. n |-> recv[j]]
                          /\ InPlaceOnce(PutsTo(s, globallen, q), recv, n)
<1> DEFINE items == [r \in Procs |-> ItemsFor(Inversions(s, globallen, r, FALSE), q)]
           counts == [r \in Procs |-> Len(items[r])]
           d == Displacements(counts)
           m == Cardinality(Procs)
           recv == InRankOrder(items)
           puts == UNION {{[slot |-> d[r] + k, item |-> items[r][k]] : k \in 1 .. counts[r]} : r \in Procs}
<1>1. \A r \in Procs : IsSequence(items[r])
  <2> SUFFICES ASSUME NEW r \in Procs PROVE IsSequence(ItemsFor(Inversions(s, globallen, r, FALSE), q))
    OBVIOUS
  <2> DEFINE len == Len(s.loc[r])
             inv(k) == SentHome(globallen, s.loc[r][k].num, s.loc[r][k].ind + LenUntil(s.glen, r))
  <2>1. Inversions(s, globallen, r, FALSE) = [k \in 1 .. len |-> inv(k)]
    BY DEF Inversions
  <2>2. len \in Nat
    BY DEF HasLengths
  <2> HIDE DEF len, inv
  <2>3. IsSequence([k \in 1 .. len |-> inv(k)])
    BY <2>2 DEF IsSequence
  <2> QED BY <2>1, <2>3, ItemsForRight
<1>2. PutsTo(s, globallen, q) = puts
  BY DEF PutsTo
<1> HIDE DEF items
<1>3. /\ Sums(d, counts, m)
      /\ recv = [j \in 1 .. d[m] |-> recv[j]]
      /\ \A r \in Procs : \A k \in 1 .. Len(items[r]) : recv[d[r] + k] = items[r][k]
  BY <1>1, RankOrderRight
<1>4. m \in Nat \ {0} /\ Procs = 0 .. m - 1
  BY ProcsRight
<1>5. \A r \in Procs : counts[r] \in Nat /\ counts[r] = Len(items[r])
  BY <1>1 DEF IsSequence
<1> HIDE DEF counts, d, m, recv
<1>6. d[m] \in Nat /\ \A r \in Procs : d[r] \in Nat /\ d[r + 1] = d[r] + counts[r]
  BY <1>3, <1>4 DEF Sums
<1>7. \A j \in 1 .. d[m] : \E r \in Procs : InSlot(d, r, j)
  BY <1>3, <1>4, SlotsRight
<1>8. \A r \in Procs, j \in Int : InSlot(d, r, j) => j \in 1 .. d[m]
  BY <1>3, <1>4, SlotsRight
<1> DEFINE all == {[slot |-> j, item |-> recv[j]] : j \in 1 .. d[m]}
<1>9. ASSUME NEW p \in puts PROVE p \in all
  <2>0. PICK r \in Procs : \E k \in 1 .. counts[r] : p = [slot |-> d[r] + k, item |-> items[r][k]]
    BY <1>9
  <2>1. PICK k \in 1 .. counts[r] : p = [slot |-> d[r] + k, item |-> items[r][k]]
    BY <2>0
  <2>2. d[r] + k \in Int /\ InSlot(d, r, d[r] + k)
    BY <1>5, <1>6, SMTT(30) DEF InSlot
  <2>3. recv[d[r] + k] = items[r][k]
    BY <1>3, <1>5
  <2> QED BY <1>8, <2>1, <2>2, <2>3
<1>10. ASSUME NEW j \in 1 .. d[m] PROVE [slot |-> j, item |-> recv[j]] \in puts
  <2>1. PICK r \in Procs : InSlot(d, r, j)
    BY <1>7
  <2> DEFINE k == j - d[r]
  <2>2. k \in 1 .. counts[r] /\ d[r] + k = j
    BY <1>5, <1>6, <2>1 DEF InSlot
  <2> HIDE DEF k
  <2>3. recv[d[r] + k] = items[r][k]
    BY <1>3, <1>5, <2>2
  <2>4. [slot |-> d[r] + k, item |-> items[r][k]] \in puts
    BY <2>2
  <2> QED BY <2>2, <2>3, <2>4
<1>11. puts = all
  <2> HIDE DEF puts
  <2> QED BY <1>9, <1>10
<1>12. InPlaceOnce(PutsTo(s, globallen, q), recv, d[m])
  BY <1>2, <1>11 DEF InPlaceOnce
<1> QED BY <1>3, <1>6, <1>12, Zenon DEF recv, items

\* The slots of such a set of puts are its numbers, each once.
LEMMA SlotsOfPuts ==
  ASSUME NEW n \in Nat, NEW recv, NEW puts, InPlaceOnce(puts, recv, n)
  PROVE  /\ Cardinality(puts) = n /\ {p.slot : p \in puts} = 1 .. n
         /\ \A j \in 1 .. n : ItemAt(puts, j) = recv[j]
<1>0. puts = {[slot |-> j, item |-> recv[j]] : j \in 1 .. n}
  BY DEF InPlaceOnce
<1> DEFINE f == [j \in 1 .. n |-> [slot |-> j, item |-> recv[j]]]
<1>1. IsFiniteSet(1 .. n) /\ Cardinality(1 .. n) = n
  <2>1. 1 \in Int /\ n \in Int
    OBVIOUS
  <2>2. IsFiniteSet(1 .. n) /\ Cardinality(1 .. n) = IF 1 > n THEN 0 ELSE n - 1 + 1
    BY <2>1, FS_Interval
  <2> QED BY <2>2
<1>2. f \in Bijection(1 .. n, puts)
  <2>1. f \in [1 .. n -> puts] /\ DOMAIN f = 1 .. n
    BY <1>0
  <2>2. ASSUME NEW i \in 1 .. n, NEW j \in 1 .. n, f[i] = f[j] PROVE i = j
    <3>1. f[i].slot = i /\ f[j].slot = j
      BY <1>0
    <3> QED BY <2>2, <3>1
  <2>3. \A p \in puts : \E j \in 1 .. n : f[j] = p
    BY <1>0
  <2> HIDE DEF f
  <2>4. f \in Injection(1 .. n, puts)
    BY <2>1, <2>2 DEF Injection, IsInjective
  <2>5. f \in Surjection(1 .. n, puts)
    BY <2>1, <2>3 DEF Surjection
  <2> QED BY <2>4, <2>5 DEF Bijection
<1>3. Cardinality(puts) = n
  <2>1. ExistsBijection(1 .. n, puts)
    BY <1>2 DEF ExistsBijection
  <2> QED BY <1>1, <2>1, FS_Bijection
<1>4. {p.slot : p \in puts} = 1 .. n
  <2>1. ASSUME NEW p \in puts PROVE p.slot \in 1 .. n
    BY <1>0
  <2>2. ASSUME NEW j \in 1 .. n PROVE j \in {p.slot : p \in puts}
    <3>1. [slot |-> j, item |-> recv[j]] \in puts /\ [slot |-> j, item |-> recv[j]].slot = j
      BY <1>0
    <3> QED BY <3>1
  <2> QED BY <2>1, <2>2
<1>5. ASSUME NEW j \in 1 .. n PROVE ItemAt(puts, j) = recv[j]
  <2>1. [slot |-> j, item |-> recv[j]] \in puts
    BY <1>0
  <2>2. \E p \in puts : p.slot = j
    BY <2>1
  <2> DEFINE c == CHOOSE p \in puts : p.slot = j
  <2>3. c \in puts /\ c.slot = j
    BY <2>2, Zenon
  <2> HIDE DEF c
  <2>4. c.item = recv[j]
    BY <1>0, <2>3
  <2> QED BY <2>4 DEF c, ItemAt
<1> QED BY <1>3, <1>4, <1>5

-----------------------------------------------------------------------------
(* Theorems. *)

\* Inversion by one-sided puts gives the vector that inversion by an exchange gives, the first
\* of several values for an index included.
THEOREM PutsInvert ==
  ASSUME NEW s, HasLengths(s), NEW globallen
  PROVE  InvertRMA(s, globallen) = Invert(s, globallen, FALSE, FALSE)
<1> DEFINE inv == [r \in Procs |-> Inversions(s, globallen, r, FALSE)]
           buffer(puts) == [k \in 1 .. Cardinality(puts) |-> (CHOOSE p \in puts : p.slot = k).item]
           recv(q) == InRankOrder([r \in Procs |-> ItemsFor(inv[r], q)])
<1>1. ASSUME NEW q \in Procs PROVE buffer(PutsTo(s, globallen, q)) = recv(q)
  <2> DEFINE c == InRankOrder([r \in Procs |-> ItemsFor(Inversions(s, globallen, r, FALSE), q)])
             puts == PutsTo(s, globallen, q)
  <2>1. [r \in Procs |-> ItemsFor(inv[r], q)] = [r \in Procs |-> ItemsFor(Inversions(s, globallen, r, FALSE), q)]
    OBVIOUS
  <2>2. recv(q) = c
    BY <2>1, Zenon
  <2>3. PICK n \in Nat : /\ c = [j \in 1 .. n |-> c[j]]
                        /\ InPlaceOnce(puts, c, n)
    BY PutsRight, Zenon
  <2> HIDE DEF c, puts, recv
  <2>4. Cardinality(puts) = n /\ \A j \in 1 .. n : ItemAt(puts, j) = c[j]
    <3>1. InPlaceOnce(puts, c, n)
      BY <2>3
    <3>2. n \in Nat
      OBVIOUS
    <3> QED BY <3>1, <3>2, SlotsOfPuts, Zenon
  <2>5. buffer(puts) = [j \in 1 .. n |-> c[j]]
    BY <2>4 DEF ItemAt
  <2> HIDE DEF buffer
  <2> QED BY <2>2, <2>3, <2>5, Zenon DEF puts
<1>2. [q \in Procs |-> buffer(PutsTo(s, globallen, q))] = [q \in Procs |-> recv(q)]
  <2> HIDE DEF buffer, recv
  <2> QED BY <1>1
<1>3. Alltoallv(inv) = [q \in Procs |-> recv(q)]
  BY DEF Alltoallv
<1>4. InvertRMA(s, globallen) =
        IF ~ Fits(s, globallen) THEN EmptySparse(globallen)
        ELSE Inverted([q \in Procs |-> buffer(PutsTo(s, globallen, q))], globallen, FALSE)
  BY DEF InvertRMA
<1>5. Invert(s, globallen, FALSE, FALSE) =
        IF ~ Fits(s, globallen) THEN EmptySparse(globallen)
        ELSE Inverted(Alltoallv(inv), globallen, FALSE)
  BY DEF Invert
<1> HIDE DEF inv, buffer, recv
<1> QED BY <1>2, <1>3, <1>4, <1>5, Zenon

\* The vectors that calls are made on have a natural number of entries on every rank.
LEMMA BuiltLengths ==
  ASSUME NEW v \in Sparses
  PROVE  HasLengths(BuiltSparse[v])
<1> SUFFICES ASSUME NEW r \in Procs PROVE Len(BuiltSparse[v].loc[r]) \in Nat
  BY DEF HasLengths
<1> DEFINE here == {i \in DOMAIN v.at : Owner(v.len, i).rank = r}
           n == Cardinality(here)
           pair(k) == Pair(InOrder(here)[k] - LenUntil(v.len, r), v.at[InOrder(here)[k]])
<1>1. n \in Nat
  <2> DEFINE I == 0 .. v.len - 1
  <2>1. v.len \in Nat /\ DOMAIN v.at \subseteq I
    BY VectorsAssumption, Zenon
  <2>2. IsFiniteSet(I)
    <3>1. 0 \in Int /\ v.len - 1 \in Int
      BY <2>1
    <3> QED BY <3>1, FS_Interval
  <2> HIDE DEF I
  <2>3. here \subseteq I
    BY <2>1
  <2> HIDE DEF here
  <2> QED BY <2>2, <2>3, FS_Subset, FS_CardinalityType
<1>2. BuiltSparse[v].loc[r] = [k \in 1 .. n |-> pair(k)]
  BY DEF BuiltSparse, SparseOf, Sparse
<1> HIDE DEF n, pair
<1> QED BY <1>1, <1>2

\* When a vector is inverted by one-sided puts, every place of every receive buffer is written by
\* exactly one rank, whatever the ranks send each other.
THEOREM VectorPutsDisjoint == Spec => []PutsDisjoint
<1>1. PutsDisjoint
  <2> SUFFICES ASSUME Known, NEW q \in Procs
               PROVE  {p.slot : p \in PutsTo(sp, ElementRange, q)} = 1 .. Cardinality(PutsTo(sp, ElementRange, q))
    BY DEF PutsDisjoint
  <2>1. HasLengths(sp)
    BY BuiltLengths, Zenon DEF Known
  <2> DEFINE recv == InRankOrder([r \in Procs |-> ItemsFor(Inversions(sp, ElementRange, r, FALSE), q)])
             puts == PutsTo(sp, ElementRange, q)
  <2>2. PICK n \in Nat : InPlaceOnce(puts, recv, n)
    BY <2>1, PutsRight, Zenon
  <2> HIDE DEF recv, puts
  <2>3. Cardinality(puts) = n /\ {p.slot : p \in puts} = 1 .. n
    BY <2>2, SlotsOfPuts, Zenon
  <2> QED BY <2>3 DEF puts
<1> QED BY <1>1, PTL
-----------------------------------------------------------------------------
(* The block of a process. *)

CONSTANTS Threshold, BlockMatrices, BlockVectors, MaxNnz, LateSinglePieces
VARIABLES block, blockCall, blockOut

Kernels == INSTANCE SpDCCols WITH Matrices <- BlockMatrices, Vectors <- BlockVectors,
                                  A <- block, call <- blockCall, out <- blockOut

\* A quotient rounded up is enough, and no more than one too many.
LEMMA CeilDivBounds ==
  ASSUME NEW a \in Nat, NEW b \in Nat \ {0}
  PROVE  /\ Kernels!CeilDiv(a, b) \in Nat
         /\ a <= Kernels!CeilDiv(a, b) * b
         /\ Kernels!CeilDiv(a, b) * b < a + b
<1> DEFINE q == (a + b - 1) \div b
           x == q * b
<1>1. a + b - 1 \in Nat
  OBVIOUS
<1>2. q \in Nat /\ x <= a + b - 1 /\ a + b - 1 < x + b
  BY <1>1, DivBounds
<1>3. x \in Nat
  <2> HIDE DEF q
  <2> QED BY <1>2
<1>4. Kernels!CeilDiv(a, b) = q
  BY DEF Kernels!CeilDiv
<1> HIDE DEF x
<1>5. a <= x /\ x < a + b
  BY <1>2, <1>3
<1> QED BY <1>2, <1>4, <1>5 DEF x

\* The powers of two double.
LEMMA PowersDouble ==
  /\ Kernels!Pow2[0] = 1
  /\ \A e \in 0 .. 63 : Kernels!Pow2[e] \in Nat \ {0}
  /\ \A e \in 0 .. 62 : Kernels!Pow2[e + 1] = 2 * Kernels!Pow2[e]
<1> DEFINE F == [k \in 1 .. 63 |-> [i \in Nat \ {0} |-> 2 * i]]
           Body(g) == [e \in 0 .. 63 |-> IF e = 0 THEN 1 ELSE 2 * g[e - 1]]
           f == Kernels!Pow2
<1>1. F \in [1 .. 63 -> [Nat \ {0} -> Nat \ {0}]] /\ 63 \in Nat /\ 1 \in Nat \ {0}
  OBVIOUS
<1>2. PICK g : Follows(g, 63, Nat \ {0}, 1, F)
  <2> HIDE DEF F
  <2> QED BY <1>1, PrimitiveRecursion
<1>3. g \in [0 .. 63 -> Nat \ {0}] /\ g[0] = 1 /\ \A k \in 1 .. 63 : g[k] = 2 * g[k - 1]
  <2>1. ASSUME NEW k \in 1 .. 63 PROVE g[k] = 2 * g[k - 1]
    <3>1. g[k - 1] \in Nat \ {0}
      BY <1>2 DEF Follows
    <3> QED BY <1>2, <3>1 DEF Follows
  <2> QED BY <1>2, <2>1 DEF Follows
<1>4. g = Body(g)
  BY <1>3
<1>5. f = CHOOSE h : h = Body(h)
  BY DEF Kernels!Pow2, Kernels!IndexBits
<1>6. f = Body(f)
  <2> HIDE DEF Body, f
  <2> QED BY <1>4, <1>5
<1> HIDE DEF f
<1>7. \A e \in 1 .. 63 : f[e] = 2 * f[e - 1]
  <2> SUFFICES ASSUME NEW e \in 1 .. 63 PROVE f[e] = 2 * f[e - 1]
    OBVIOUS
  <2>1. f[e] = Body(f)[e]
    BY <1>6
  <2> QED BY <2>1
<1>8. f[0] = 1
  <2>1. f[0] = Body(f)[0]
    BY <1>6
  <2> QED BY <2>1
<1> DEFINE S == {e \in 0 .. 63 : f[e] \in Nat \ {0}}
<1>9. 0 .. 63 \subseteq S
  <2>1. 0 \in S
    BY <1>8
  <2>2. \A k \in 0 .. 63 - 1 : k \in S => k + 1 \in S
    <3> SUFFICES ASSUME NEW k \in 0 .. 62, k \in S PROVE k + 1 \in S
      OBVIOUS
    <3>1. f[k + 1] = 2 * f[k] /\ k + 1 \in 0 .. 63
      BY <1>7
    <3> QED BY <3>1
  <2> HIDE DEF S
  <2> QED BY <2>1, <2>2, BoundedInduction
<1>10. \A e \in 0 .. 62 : f[e + 1] = 2 * f[e]
  <2> SUFFICES ASSUME NEW e \in 0 .. 62 PROVE f[e + 1] = 2 * f[e]
    OBVIOUS
  <2>1. e + 1 \in 1 .. 63 /\ (e + 1) - 1 = e
    OBVIOUS
  <2> QED BY <1>7, <2>1
<1> QED BY <1>8, <1>9, <1>10 DEF f

\* Each is a product of two of them.
LEMMA PowersMultiply ==
  ASSUME NEW n \in 0 .. 63
  PROVE  \A e \in 0 .. n : Kernels!Pow2[e] * Kernels!Pow2[n - e] = Kernels!Pow2[n]
<1> DEFINE f == Kernels!Pow2
           S == {e \in 0 .. n : f[e] * f[n - e] = f[n]}
<1>1. f[0] = 1 /\ (\A e \in 0 .. 63 : f[e] \in Nat \ {0}) /\ \A e \in 0 .. 62 : f[e + 1] = 2 * f[e]
  BY PowersDouble
<1> HIDE DEF f
<1>2. 0 \in S
  <2>1. f[n] \in Nat \ {0}
    BY <1>1, Zenon
  <2>2. f[n] \in Nat /\ n - 0 = n /\ 0 \in 0 .. n
    BY <2>1
  <2> QED BY <1>1, <2>2
<1>3. ASSUME NEW k \in 0 .. n - 1, k \in S PROVE k + 1 \in S
  <2> DEFINE a == f[k]
             b == f[n - (k + 1)]
  <2>1. k \in 0 .. 62 /\ n - (k + 1) \in 0 .. 62 /\ (n - (k + 1)) + 1 = n - k
    OBVIOUS
  <2>2. f[k + 1] = 2 * a /\ f[n - k] = 2 * b /\ a \in Nat /\ b \in Nat
    <3>1. f[k + 1] = 2 * a
      BY <1>1, <2>1, Zenon
    <3>2. f[(n - (k + 1)) + 1] = 2 * b
      BY <1>1, <2>1, Zenon
    <3>3. k \in 0 .. 63 /\ n - (k + 1) \in 0 .. 63
      BY <2>1
    <3>4. a \in Nat \ {0} /\ b \in Nat \ {0}
      BY <1>1, <3>3, Zenon
    <3> QED BY <2>1, <3>1, <3>2, <3>4
  <2>3. a * f[n - k] = f[n]
    BY <1>3
  <2> HIDE DEF a, b
  <2>4. a * (2 * b) = (2 * a) * b
    BY <2>2
  <2> QED BY <1>3, <2>2, <2>3, <2>4 DEF b
<1>4. 0 .. n \subseteq S
  <2>1. n \in Nat
    OBVIOUS
  <2> HIDE DEF S
  <2> QED BY <1>2, <1>3, <2>1, BoundedInduction
<1> QED BY <1>4 DEF f

\* The first bit of a number below one of them is below it.
LEMMA FirstBitRight ==
  ASSUME NEW b \in 0 .. 63, NEW n \in Nat \ {0}, n < Kernels!Pow2[b]
  PROVE  LET e == Kernels!FirstBit(n)
         IN e \in 0 .. b - 1 /\ e \in 0 .. 62 /\ Kernels!Pow2[e] <= n /\ n < Kernels!Pow2[e + 1]
<1> DEFINE f == Kernels!Pow2
           Brackets(e) == f[e] <= n /\ n < f[e + 1]
           S == {k \in 0 .. b : n < f[k] => \E e \in 0 .. k - 1 : Brackets(e)}
           T == {d \in 0 .. 63 : \A e \in 0 .. 63 : e + d <= 63 => f[e] <= f[e + d]}
<1>1. f[0] = 1 /\ (\A e \in 0 .. 63 : f[e] \in Nat \ {0}) /\ \A e \in 0 .. 62 : f[e + 1] = 2 * f[e]
  BY PowersDouble
<1>2. Kernels!FirstBit(n) = CHOOSE e \in 0 .. 62 : Brackets(e)
  BY DEF Kernels!FirstBit, Kernels!IndexBits
<1> HIDE DEF f
<1>3. 0 .. b \subseteq S
  <2>1. 0 \in S
    BY <1>1
  <2>2. ASSUME NEW k \in 0 .. b - 1, k \in S PROVE k + 1 \in S
    <3>1. f[k] \in Nat /\ f[k + 1] \in Nat
      <4>1. k \in 0 .. 63 /\ k + 1 \in 0 .. 63
        OBVIOUS
      <4>2. f[k] \in Nat \ {0} /\ f[k + 1] \in Nat \ {0}
        BY <1>1, <4>1, Zenon
      <4> QED BY <4>2
    <3>2. n < f[k + 1] => \E e \in 0 .. k : Brackets(e)
      <4>1. CASE n < f[k]
        <5>1. PICK e \in 0 .. k - 1 : Brackets(e)
          BY <2>2, <4>1
        <5> QED BY <5>1
      <4>2. CASE ~ (n < f[k])
        <5>1. f[k] <= n /\ k \in 0 .. k
          BY <3>1, <4>2
        <5> QED BY <5>1
      <4> QED BY <4>1, <4>2
    <3>3. k + 1 \in 0 .. b /\ (k + 1) - 1 = k
      OBVIOUS
    <3> HIDE DEF Brackets
    <3> QED BY <3>2, <3>3
  <2>3. b \in Nat
    OBVIOUS
  <2> HIDE DEF S
  <2> QED BY <2>1, <2>2, <2>3, BoundedInduction
<1>4. 0 .. 63 \subseteq T
  <2>1. 0 \in T
    <3>1. \A e \in 0 .. 63 : f[e] <= f[e + 0]
      <4> SUFFICES ASSUME NEW e \in 0 .. 63 PROVE f[e] <= f[e + 0]
        OBVIOUS
      <4>1. f[e] \in Nat \ {0}
        BY <1>1, Zenon
      <4>2. e + 0 = e
        OBVIOUS
      <4> QED BY <4>1, <4>2
    <3> QED BY <3>1
  <2>2. ASSUME NEW d \in 0 .. 63 - 1, d \in T PROVE d + 1 \in T
    <3>1. ASSUME NEW e \in 0 .. 63, e + (d + 1) <= 63 PROVE f[e] <= f[e + (d + 1)]
      <4>1. f[e] <= f[e + d] /\ e + d \in 0 .. 62 /\ (e + d) + 1 = e + (d + 1)
        BY <2>2, <3>1
      <4>2. f[e + (d + 1)] = 2 * f[e + d] /\ f[e + d] \in Nat /\ f[e] \in Nat
        BY <1>1, <4>1
      <4> QED BY <4>1, <4>2
    <3> QED BY <3>1
  <2>3. 63 \in Nat
    OBVIOUS
  <2> HIDE DEF T
  <2> QED BY <2>1, <2>2, <2>3, BoundedInduction
<1> DEFINE e0 == Kernels!FirstBit(n)
<1>5. e0 \in 0 .. 62 /\ Brackets(e0)
  <2>1. PICK e \in 0 .. b - 1 : Brackets(e)
    <3>1. b \in 0 .. b /\ n < f[b]
      BY DEF f
    <3> HIDE DEF Brackets
    <3> QED BY <1>3, <3>1
  <2>2. e \in 0 .. 62
    OBVIOUS
  <2> HIDE DEF Brackets
  <2> QED BY <1>2, <2>1, <2>2
<1> HIDE DEF e0
<1>6. ~ (b <= e0)
  <2> SUFFICES ASSUME b <= e0 PROVE FALSE
    OBVIOUS
  <2>1. e0 - b \in 0 .. 63 /\ b + (e0 - b) = e0 /\ b \in 0 .. 63
    BY <1>5
  <2>2. f[b] <= f[e0]
    <3>1. e0 - b \in T
      BY <1>4, <2>1, Zenon
    <3>2. b + (e0 - b) <= 63
      BY <1>5, <2>1
    <3>3. f[b] <= f[b + (e0 - b)]
      <4> HIDE DEF e0
      <4> QED BY <2>1, <3>1, <3>2
    <3> QED BY <2>1, <3>3
  <2>3. f[b] \in Nat /\ f[e0] \in Nat
    <3>1. e0 \in 0 .. 63 /\ b \in 0 .. 63
      BY <1>5
    <3>2. f[b] \in Nat \ {0} /\ f[e0] \in Nat \ {0}
      BY <1>1, <3>1, Zenon
    <3> QED BY <3>2
  <2>4. n < f[b] /\ f[e0] <= n
    BY <1>5 DEF f
  <2> HIDE DEF e0
  <2> QED BY <2>2, <2>3, <2>4
<1> QED BY <1>5, <1>6 DEF e0, f

\* Which number a quotient rounded up is.
LEMMA CeilDivIs ==
  ASSUME NEW a \in Nat, NEW b \in Nat \ {0}, NEW c \in Nat, a <= c * b, c * b < a + b
  PROVE  Kernels!CeilDiv(a, b) = c
<1> DEFINE t == Kernels!CeilDiv(a, b)
<1>1. t \in Nat /\ a <= t * b /\ t * b < a + b
  BY CeilDivBounds
<1> HIDE DEF t
<1>2. ASSUME NEW x \in Nat, NEW y \in Nat, a <= x * b, y * b < a + b, x < y PROVE FALSE
  <2>1. y - (x + 1) \in Nat
    BY <1>2
  <2>2. (y - (x + 1)) * b \in Nat
    BY <2>1
  <2>3. y * b = x * b + b + (y - (x + 1)) * b
    BY <2>1
  <2>4. x * b \in Nat /\ y * b \in Nat
    OBVIOUS
  <2> QED BY <1>2, <2>2, <2>3, <2>4
<1>3. t = c
  BY <1>1, <1>2
<1> QED BY <1>3 DEF t

\* Below 2^24 the quotient of two floats rounded up is that of the numbers: between two whole
\* numbers there are as many floats as it takes to tell it from the lower one.
LEMMA FloatQuotientExact ==
  ASSUME NEW a \in Nat, NEW b \in Nat \ {0}, b <= a, a < Kernels!ExactBelow
  PROVE  Kernels!CeilOfQuotient(a, b) = Kernels!CeilDiv(a, b)
<1> DEFINE k == a \div b
           e == Kernels!FirstBit(k)
           p == Kernels!Pow2[e]
           q == Kernels!Pow2[23 - e]
           h == Kernels!Pow2[23]
           x == a * q
           m == Kernels!Nearest(x, b)
           kb == k * b
           r == a - kb
<1>1. k \in Nat /\ kb <= a /\ a < kb + b
  BY DivBounds
<1>2. a < Kernels!Pow2[24] /\ Kernels!Pow2[24] = 2 * h /\ h \in Nat \ {0} /\ Kernels!Pow2[24] \in Nat
  <2>1. 23 \in 0 .. 62 /\ 23 + 1 = 24 /\ 24 \in 0 .. 63 /\ 23 \in 0 .. 63
    OBVIOUS
  <2>2. Kernels!Pow2[24] = 2 * h /\ h \in Nat \ {0} /\ Kernels!Pow2[24] \in Nat
    BY <2>1, PowersDouble
  <2> QED BY <2>2 DEF Kernels!ExactBelow, Kernels!Significand
<1>3. k # 0 /\ k <= kb /\ kb \in Nat
  <2> HIDE DEF k
  <2>1. k # 0
    <3> SUFFICES ASSUME k = 0 PROVE FALSE
      OBVIOUS
    <3>1. k * b = 0
      OBVIOUS
    <3> QED BY <1>1, <3>1
  <2>2. k \in Nat /\ b - 1 \in Nat
    BY <1>1
  <2>3. k * (b - 1) \in Nat
    BY <2>2
  <2>4. k * b = k + k * (b - 1)
    BY <2>2
  <2> QED BY <2>1, <2>2, <2>3, <2>4
<1>4. k \in Nat \ {0} /\ k < Kernels!Pow2[24]
  <2> HIDE DEF k, kb
  <2> QED BY <1>1, <1>2, <1>3
<1>5. e \in 0 .. 23 /\ e \in 0 .. 62 /\ p <= k /\ k < Kernels!Pow2[e + 1]
  <2>1. 24 \in 0 .. 63 /\ 24 - 1 = 23
    OBVIOUS
  <2> HIDE DEF k
  <2> QED BY <1>4, <2>1, FirstBitRight
<1>6. p * q = h
  <2>1. 23 \in 0 .. 63
    OBVIOUS
  <2> HIDE DEF e
  <2> QED BY <1>5, <2>1, PowersMultiply
<1>7. p \in Nat \ {0} /\ q \in Nat \ {0}
  <2>1. e \in 0 .. 63 /\ 23 - e \in 0 .. 63
    BY <1>5
  <2> HIDE DEF e
  <2> QED BY <2>1, PowersDouble
<1>8. Kernels!CeilOfQuotient(a, b) = Kernels!CeilDiv(m, q)
  <2>1. e < Kernels!Significand /\ Kernels!Significand - 1 - e = 23 - e
    BY <1>5 DEF Kernels!Significand
  <2> QED BY <2>1 DEF Kernels!CeilOfQuotient
<1>9. m = IF 2 * (x % b) > b \/ (2 * (x % b) = b /\ (x \div b) % 2 = 1) THEN x \div b + 1 ELSE x \div b
  BY DEF Kernels!Nearest
<1> HIDE DEF k, e, p, q, h, m
<1>10. r \in Nat /\ r < b /\ a = kb + r
  BY <1>1, <1>3
<1> DEFINE kq == k * q
           rq == r * q
<1>11. kq \in Nat /\ rq \in Nat /\ x = kq * b + rq /\ x \in Nat
  <2> HIDE DEF r
  <2>1. kq \in Nat /\ rq \in Nat
    BY <1>1, <1>7, <1>10
  <2>2. x = (k * b + r) * q
    BY <1>10
  <2>3. (k * b + r) * q = (k * q) * b + r * q
    BY <1>1, <1>7, <1>10, SMT
  <2>4. x \in Nat
    BY <1>7
  <2> QED BY <2>1, <2>2, <2>3, <2>4
<1>12. CASE r = 0
  <2>1. rq = 0 /\ x = kq * b
    BY <1>7, <1>11, <1>12
  <2> HIDE DEF kq, x, rq
  <2>2. x \div b = kq /\ x % b = 0
    BY <1>11, <2>1
  <2>3. m = kq
    BY <1>9, <2>2
  <2>4. Kernels!CeilDiv(m, q) = k
    <3>1. m = k * q /\ m \in Nat /\ k * q < m + q
      BY <1>7, <1>11, <2>3 DEF kq
    <3>2. k * q <= k * q
      BY <1>11 DEF kq
    <3> QED BY <1>1, <1>7, <3>1, <3>2, CeilDivIs
  <2>5. Kernels!CeilDiv(a, b) = k
    <3>1. a = kb
      <4> HIDE DEF kb
      <4> QED BY <1>3, <1>10, <1>12
    <3>2. a <= k * b /\ k * b < a + b
      BY <1>3, <3>1
    <3> QED BY <1>1, <3>2, CeilDivIs
  <2> QED BY <1>8, <2>4, <2>5
<1>13. CASE r # 0
  <2> HIDE DEF r, x
  <2>1. b < 2 * q
    <3> SUFFICES ASSUME ~ (b < 2 * q) PROVE FALSE
      OBVIOUS
    <3> DEFINE u == b - 2 * q
               v == k - p
               pu == p * u
               vb == v * b
               pq == p * q
    <3>1. u \in Nat /\ v \in Nat
      BY <1>1, <1>5, <1>7
    <3>2. pu \in Nat /\ vb \in Nat /\ pq \in Nat
      <4> HIDE DEF u, v
      <4> QED BY <1>7, <3>1
    <3>3. kb = vb + p * b
      BY <1>1, <1>7, SMT
    <3>4. p * b = pu + 2 * pq
      BY <1>7, SMT
    <3>5. pq = h
      BY <1>6
    <3> HIDE DEF pu, vb, pq, kb
    <3> QED BY <1>1, <1>2, <1>3, <3>2, <3>3, <3>4, <3>5
  <2>2. q <= rq
    <3> DEFINE s == (r - 1) * q
    <3>1. r - 1 \in Nat
      BY <1>10, <1>13
    <3>2. s \in Nat
      BY <1>7, <3>1
    <3>3. rq = q + s
      BY <1>7, <1>10
    <3> HIDE DEF s, rq
    <3> QED BY <1>7, <1>11, <3>2, <3>3
  <2> DEFINE t == rq \div b
             w == rq % b
             tb == t * b
  <2>3. t \in Nat /\ w \in 0 .. b - 1 /\ rq = tb + w /\ tb \in Nat
    <3> HIDE DEF rq
    <3>1. t \in Nat /\ w \in 0 .. b - 1 /\ rq = t * b + w
      BY <1>11
    <3>2. t * b \in Nat
      <4> HIDE DEF t
      <4> QED BY <3>1
    <3> QED BY <3>1, <3>2
  <2>4. t < q
    <3> SUFFICES ASSUME ~ (t < q) PROVE FALSE
      OBVIOUS
    <3> DEFINE i == (b - r) * q
               j == (t - q) * b
               bq == b * q
    <3>1. b - r \in Nat /\ b - r # 0 /\ t - q \in Nat
      BY <1>7, <1>10, <2>3
    <3>2. i \in Nat /\ i # 0 /\ j \in Nat /\ bq \in Nat
      <4>1. \A c \in Nat \ {0} : c * q \in Nat /\ c * q # 0
        BY <1>7, SMT
      <4>2. i \in Nat /\ i # 0
        BY <3>1, <4>1
      <4>3. j \in Nat /\ bq \in Nat
        BY <1>7, <3>1
      <4> QED BY <4>2, <4>3
    <3>3. bq = rq + i
      BY <1>7, <1>10, SMT
    <3>4. tb = bq + j
      <4> HIDE DEF t
      <4> QED BY <1>7, <2>3, SMT
    <3> HIDE DEF i, j, bq, rq, tb, t
    <3> QED BY <1>11, <2>3, <3>2, <3>3, <3>4
  <2> DEFINE n == kq + t
  <2>5. x \div b = n /\ x % b = w /\ n \in Nat
    <3>1. x = n * b + w /\ n \in Nat
      <4> DEFINE kqb == kq * b
      <4>1. n * b = kqb + tb
        <5> HIDE DEF kq, t
        <5> QED BY <1>11, <2>3, SMT
      <4>2. kqb \in Nat
        <5> HIDE DEF kq
        <5> QED BY <1>11
      <4> HIDE DEF kqb, tb, rq, t, kq
      <4>3. x = kqb + rq
        BY <1>11 DEF kqb
      <4> QED BY <1>11, <2>3, <4>1, <4>2, <4>3
    <3> HIDE DEF n, w
    <3>2. \A y \in Nat, z \in 0 .. b - 1 : (y * b + z) \div b = y /\ (y * b + z) % b = z
      BY SMT
    <3> QED BY <2>3, <3>1, <3>2
  <2> HIDE DEF t, w, tb, rq
  <2>6. m \in Nat /\ kq < m /\ m <= kq + q
    <3> HIDE DEF kq, n
    <3>0. n \in Nat /\ n = kq + t
      BY <2>5 DEF n
    <3>1. m = IF 2 * w > b \/ (2 * w = b /\ n % 2 = 1) THEN n + 1 ELSE n
      BY <1>9, <2>5
    <3>2. m = n \/ m = n + 1
      BY <3>1
    <3>3. CASE t = 0
      <4>1. w = rq /\ w \in Nat
        <5>1. tb = 0
          BY <3>3 DEF tb
        <5> QED BY <1>11, <2>3, <5>1
      <4>2. 2 * w > b
        BY <1>7, <2>1, <2>2, <4>1
      <4>3. m = n + 1
        BY <3>1, <4>2
      <4> QED BY <1>7, <1>11, <3>0, <3>3, <4>3
    <3>4. CASE t # 0
      BY <1>7, <1>11, <2>3, <2>4, <3>0, <3>2, <3>4
    <3> QED BY <3>3, <3>4
  <2>7. Kernels!CeilDiv(m, q) = k + 1
    <3>1. (k + 1) * q = kq + q
      BY <1>1, <1>7
    <3> HIDE DEF kq
    <3>2. m <= (k + 1) * q /\ (k + 1) * q < m + q /\ k + 1 \in Nat
      BY <1>1, <1>7, <1>11, <2>6, <3>1
    <3> QED BY <1>7, <2>6, <3>2, CeilDivIs
  <2>8. Kernels!CeilDiv(a, b) = k + 1
    <3>1. (k + 1) * b = kb + b
      BY <1>1
    <3> HIDE DEF kb
    <3>2. a <= (k + 1) * b /\ (k + 1) * b < a + b /\ k + 1 \in Nat
      BY <1>1, <1>3, <1>10, <1>13, <3>1
    <3> QED BY <3>2, CeilDivIs
  <2> QED BY <1>8, <2>7, <2>8
<1> QED BY <1>12, <1>13

\* In a list that increases from each place to the next, it does from any place to any later one.
LEMMA IncreasingFar ==
  ASSUME NEW s \in Seq(Int), Kernels!Increasing(s), NEW i \in 1 .. Len(s), NEW j \in 1 .. Len(s), i < j
  PROVE  s[i] < s[j]
<1> DEFINE n == Len(s) - i
           S == {k \in 0 .. n : k > 0 => s[i] < s[i + k]}
<1>1. n \in Nat /\ Len(s) \in Nat
  OBVIOUS
<1>2. 0 \in S
  BY <1>1
<1>3. ASSUME NEW k \in 0 .. n - 1, k \in S PROVE k + 1 \in S
  <2>1. i + k \in 1 .. Len(s) - 1 /\ i + k + 1 \in 1 .. Len(s) /\ k + 1 \in 0 .. n
    BY <1>1
  <2>2. s[i + k] < s[i + k + 1]
    BY <2>1 DEF Kernels!Increasing
  <2>3. s[i] \in Int /\ s[i + k] \in Int /\ s[i + k + 1] \in Int
    BY <2>1
  <2>4. s[i] < s[i + k + 1]
    <3>1. CASE k = 0
      BY <2>2, <3>1
    <3>2. CASE k > 0
      <4>1. s[i] < s[i + k]
        BY <1>3, <3>2
      <4> HIDE DEF S
      <4>2. \A a, b, c \in Int : a < b /\ b < c => a < c
        OBVIOUS
      <4> QED BY <2>2, <2>3, <4>1, <4>2, Zenon
    <3> QED BY <3>1, <3>2
  <2>5. i + k + 1 = i + (k + 1)
    OBVIOUS
  <2> QED BY <2>1, <2>4, <2>5
<1>4. n \in S
  <2> HIDE DEF S
  <2>1. 0 .. n \subseteq S
    BY <1>1, <1>2, <1>3, BoundedInduction
  <2> QED BY <1>1, <2>1
<1>5. j - i \in 0 .. n
  BY <1>1
<1>6. 0 .. n \subseteq S
  <2> HIDE DEF S, n
  <2> QED BY <1>1, <1>2, <1>3, BoundedInduction
<1>7. j - i > 0 /\ i + (j - i) = j
  OBVIOUS
<1> QED BY <1>5, <1>6, <1>7

\* What LowerBound gives in such a list has all smaller elements, and no other, before it.
LEMMA LowerBoundRight ==
  ASSUME NEW d, d.jc \in Seq(Int), Kernels!Increasing(d.jc), NEW x \in Int
  PROVE  /\ Kernels!LowerBound(d, x) \in 0 .. Len(d.jc)
         /\ \A i \in 1 .. Len(d.jc) : d.jc[i] < x <=> i <= Kernels!LowerBound(d, x)
<1> DEFINE s == d.jc
           n == Len(s)
           T == {p \in 0 .. n : p < n => s[p + 1] >= x}
           b == Kernels!LowerBound(d, x)
<1>1. n \in Nat /\ s \in Seq(Int)
  OBVIOUS
<1>2. \E p \in 0 .. n : (p < n => s[p + 1] >= x) /\ \A i \in 1 .. p : s[i] < x
  <2>1. n \in T /\ T \in SUBSET Nat
    BY <1>1
  <2>2. PICK p \in T : \A q \in T : p <= q
    <3> HIDE DEF T
    <3>1. T # {}
      BY <2>1
    <3> QED BY <2>1, <3>1, Smallest
  <2>3. ASSUME NEW i \in 1 .. p PROVE s[i] < x
    <3>0. p \in 0 .. n
      OBVIOUS
    <3>1. i - 1 \in 0 .. n /\ i - 1 < n /\ ~ (p <= i - 1) /\ (i - 1) + 1 = i /\ i \in 1 .. n
      <4> HIDE DEF n, T
      <4> QED BY <1>1, <3>0
    <3>2. i - 1 \notin T
      BY <2>2, <3>1
    <3>3. ~ (s[(i - 1) + 1] >= x)
      BY <3>1, <3>2
    <3>4. s[i] \in Int
      BY <1>1, <3>1
    <3> HIDE DEF s
    <3> QED BY <3>1, <3>3, <3>4
  <2> QED BY <2>2, <2>3
<1>3. b = CHOOSE p \in 0 .. n : (p < n => s[p + 1] >= x) /\ \A i \in 1 .. p : s[i] < x
  BY DEF Kernels!LowerBound, Kernels!nzc
<1> HIDE DEF b
<1>4. b \in 0 .. n /\ (b < n => s[b + 1] >= x) /\ \A i \in 1 .. b : s[i] < x
  <2> HIDE DEF n, s
  <2> QED BY <1>2, <1>3, Zenon
<1>5. ASSUME NEW i \in 1 .. n, i > b PROVE ~ (s[i] < x)
  <2>0. b + 1 \in 1 .. n /\ b < n
    <3> HIDE DEF n, s
    <3> QED BY <1>1, <1>4, <1>5
  <2>1. b + 1 \in 1 .. n /\ b < n /\ s[i] \in Int /\ s[b + 1] \in Int
    BY <1>1, <2>0
  <2>2. i = b + 1 \/ s[b + 1] < s[i]
    <3>1. CASE i # b + 1
      <4>1. b + 1 < i
        BY <1>4, <1>5, <3>1
      <4> QED BY <2>1, <4>1, IncreasingFar
    <3> QED BY <3>1
  <2> HIDE DEF s
  <2> QED BY <1>4, <2>1, <2>2
<1>6. ASSUME NEW i \in 1 .. n PROVE s[i] < x <=> i <= b
  BY <1>1, <1>4, <1>5
<1> QED BY <1>4, <1>6 DEF b

\* A column of a block is in one chunk, and there is an end after it.
LEMMA ChunkOf ==
  ASSUME NEW n \in Nat, NEW csize \in Nat \ {0}, NEW c \in 0 .. n - 1
  PROVE  /\ c \div csize \in Nat
         /\ (c \div csize) * csize <= c /\ c < (c \div csize + 1) * csize
         /\ c \div csize + 2 \in 1 .. Kernels!CeilDiv(n + 1, csize) + 1
<1> DEFINE q == c \div csize
           t == Kernels!CeilDiv(n + 1, csize)
<1>1. q \in Nat /\ q * csize <= c /\ c < q * csize + csize
  BY DivBounds
<1>2. t \in Nat /\ n + 1 <= t * csize
  BY CeilDivBounds
<1> HIDE DEF q, t
<1>3. (q + 1) * csize = q * csize + csize
  BY <1>1
<1>4. ~ (t <= q)
  <2> SUFFICES ASSUME t <= q PROVE FALSE
    OBVIOUS
  <2>1. q - t \in Nat
    BY <1>1, <1>2
  <2>2. (q - t) * csize \in Nat
    BY <2>1
  <2>3. q * csize = t * csize + (q - t) * csize
    BY <1>1, <1>2, <2>1
  <2>4. t * csize \in Nat /\ q * csize \in Nat
    BY <1>1, <1>2
  <2> HIDE DEF q, t
  <2> QED BY <1>1, <1>2, <2>2, <2>3, <2>4
<1>5. q + 2 \in 1 .. t + 1
  BY <1>1, <1>2, <1>4
<1> QED BY <1>1, <1>3, <1>5 DEF q, t

\* In a list of different natural numbers in order none is less than its place.
LEMMA IncreasingAbove ==
  ASSUME NEW s \in Seq(Nat), Kernels!Increasing(s), NEW i \in 1 .. Len(s)
  PROVE  i <= s[i] + 1
<1> DEFINE n == Len(s)
           S == {k \in 0 .. n : k > 0 => k <= s[k] + 1}
<1>1. n \in Nat /\ \A k \in 1 .. n : s[k] \in Nat
  OBVIOUS
<1>2. \A k \in 1 .. n - 1 : s[k] < s[k + 1]
  BY DEF Kernels!Increasing
<1> HIDE DEF n
<1>3. 0 .. n \subseteq S
  <2>1. 0 \in S
    BY <1>1
  <2>2. ASSUME NEW k \in 0 .. n - 1, k \in S PROVE k + 1 \in S
    <3>1. CASE k = 0
      <4>1. 1 \in 1 .. n
        BY <1>1, <3>1
      <4>2. s[1] \in Nat
        BY <1>1, <4>1
      <4> QED BY <1>1, <3>1, <4>1, <4>2
    <3>2. CASE k # 0
      <4>1. k \in 1 .. n - 1 /\ k \in 1 .. n /\ k + 1 \in 1 .. n
        BY <1>1, <3>2
      <4>2. s[k] < s[k + 1] /\ s[k] \in Nat /\ s[k + 1] \in Nat /\ k <= s[k] + 1
        BY <1>1, <1>2, <2>2, <4>1
      <4> QED BY <4>1, <4>2
    <3> QED BY <3>1, <3>2
  <2> HIDE DEF S
  <2> QED BY <1>1, <2>1, <2>2, BoundedInduction
<1>4. i \in 1 .. n
  BY DEF n
<1> QED BY <1>1, <1>3, <1>4

\* In a block narrower than 2^24 columns the chunks are those of exact arithmetic.
LEMMA ChunksExact ==
  ASSUME NEW n \in Nat, n + 1 < Kernels!ExactBelow, NEW d, NEW l \in Nat \ {0}, Len(d.jc) = l, l <= n
  PROVE  LET csize == Kernels!ChunkSize(d, n)
         IN /\ csize = Kernels!CeilDiv(n + 1, l) /\ csize \in Nat \ {0}
            /\ Kernels!ColChunks(d, n) = Kernels!CeilDiv(n + 1, csize)
            /\ \A q \in 0 .. n : Kernels!ToFloat(q) = q
<1> DEFINE a == n + 1
           x == Kernels!ExactBelow
           csize == Kernels!CeilDiv(a, l)
<1>0. x \in Nat
  <2>1. 24 \in 0 .. 63
    OBVIOUS
  <2>2. Kernels!Pow2[24] \in Nat \ {0}
    BY <2>1, PowersDouble, Zenon
  <2> QED BY <2>2 DEF Kernels!ExactBelow, Kernels!Significand
<1>1. \A q \in 0 .. a : Kernels!ToFloat(q) = q
  <2> SUFFICES ASSUME NEW q \in 0 .. a PROVE Kernels!ToFloat(q) = q
    OBVIOUS
  <2>1. q < x
    <3> HIDE DEF x
    <3>1. a < x
      BY DEF x
    <3> QED BY <1>0, <3>1
  <2> QED BY <2>1 DEF Kernels!ToFloat
<1>2. a \in Nat /\ l <= a /\ l \in 0 .. a /\ a \in 0 .. a
  OBVIOUS
<1>3. Kernels!ChunkSize(d, n) = csize
  <2>1. Kernels!ToFloat(n + 1) = a /\ Kernels!ToFloat(Kernels!nzc(d)) = l
    BY <1>1, <1>2 DEF Kernels!nzc
  <2>2. Kernels!CeilOfQuotient(a, l) = csize
    BY <1>2, FloatQuotientExact
  <2> QED BY <2>1, <2>2 DEF Kernels!ChunkSize
<1>4. csize \in Nat /\ a <= csize * l /\ csize * l < a + l
  BY <1>2, CeilDivBounds
<1> HIDE DEF csize, x
<1>5. csize # 0
  <2> SUFFICES ASSUME csize = 0 PROVE FALSE
    OBVIOUS
  <2>1. csize * l = 0
    BY <1>4
  <2> QED BY <1>4, <2>1
<1>6. csize <= a
  <2> DEFINE s == (csize - 1) * (l - 1)
  <2>1. csize - 1 \in Nat /\ l - 1 \in Nat
    BY <1>4, <1>5
  <2>2. s \in Nat
    BY <2>1
  <2>3. csize * l = s + csize + l - 1
    BY <1>4, SMT
  <2> HIDE DEF s
  <2> QED BY <1>4, <2>2, <2>3
<1>7. Kernels!ColChunks(d, n) = Kernels!CeilDiv(a, csize)
  <2>1. Kernels!ToFloat(n + 1) = a
    BY <1>1, <1>2
  <2>2. Kernels!CeilOfQuotient(a, csize) = Kernels!CeilDiv(a, csize)
    BY <1>2, <1>4, <1>5, <1>6, FloatQuotientExact
  <2> QED BY <1>3, <2>1, <2>2 DEF Kernels!ColChunks
<1>8. \A q \in 0 .. n : Kernels!ToFloat(q) = q
  BY <1>1
<1> QED BY <1>3, <1>4, <1>5, <1>7, <1>8 DEF csize

\* What the search finds, in the array that ConstructAux made.
LEMMA SearchRight ==
  ASSUME NEW d, NEW n \in Nat, n + 1 < Kernels!ExactBelow,
         d.jc \in Seq(0 .. n - 1), Kernels!Increasing(d.jc), d.jc # <<>>, NEW c \in 0 .. n - 1
  PROVE  LET pos == Kernels!AuxIndex(d, c, Kernels!ConstructAux(d, n), Kernels!ChunkSize(d, n))
         IN IF \E i \in DOMAIN d.jc : d.jc[i] = c THEN pos # -1 /\ d.jc[pos + 1] = c ELSE pos = -1
<1> DEFINE s == d.jc
           csize == Kernels!ChunkSize(d, n)
           aux == Kernels!ConstructAux(d, n)
           base == c \div csize
           here == {p \in aux[base + 1] .. aux[base + 2] - 1 : s[p + 1] = c}
           pos == Kernels!AuxIndex(d, c, aux, csize)
<1>1. s \in Seq(Int) /\ Len(s) \in Nat /\ Len(s) > 0 /\ DOMAIN s = 1 .. Len(s)
  OBVIOUS
<1>2. /\ csize \in Nat \ {0} /\ Kernels!ColChunks(d, n) = Kernels!CeilDiv(n + 1, csize)
      /\ \A q \in 0 .. n : Kernels!ToFloat(q) = q
  <2>1. Len(s) <= n
    <3>1. s \in Seq(Nat) /\ Len(s) \in 1 .. Len(s) /\ s[Len(s)] \in 0 .. n - 1
      BY <1>1
    <3>2. Len(s) <= s[Len(s)] + 1
      BY <3>1, IncreasingAbove
    <3> QED BY <1>1, <3>1, <3>2
  <2>2. Len(s) \in Nat \ {0}
    BY <1>1
  <2> QED BY <2>1, <2>2, ChunksExact
<1>3. /\ base \in Nat
      /\ base * csize <= c /\ c < (base + 1) * csize
      /\ base + 2 \in 1 .. Kernels!CeilDiv(n + 1, csize) + 1
  <2>1. csize \in Nat \ {0}
    BY <1>2
  <2> HIDE DEF csize
  <2> QED BY <2>1, ChunkOf
<1>4. \A k \in 1 .. Kernels!CeilDiv(n + 1, csize) + 1 : aux[k] = Kernels!LowerBound(d, (k - 1) * csize)
  BY <1>2 DEF Kernels!ConstructAux
<1>5. pos = IF here = {} THEN -1 ELSE CHOOSE p \in here : \A q \in here : p <= q
  <2>1. base \in 0 .. n
    <3>1. base \in Nat /\ base <= c
      <4> HIDE DEF csize
      <4>1. base * csize \in Nat /\ base <= base * csize
        <5> DEFINE i == csize - 1
        <5>1. i \in Nat
          BY <1>2
        <5>2. base * i \in Nat /\ csize = i + 1
          <6> HIDE DEF base, i
          <6>1. base \in Nat
            BY <1>3
          <6> QED BY <1>2, <5>1, <6>1 DEF i
        <5> HIDE DEF i, base
        <5>3. base * csize = base * i + base
          BY <1>3, <5>1, <5>2
        <5> QED BY <1>3, <5>2, <5>3
      <4> HIDE DEF base
      <4> QED BY <1>3, <4>1
    <3> HIDE DEF base
    <3> QED BY <3>1
  <2>2. Kernels!ToFloat(base) = base
    BY <1>2, <2>1
  <2> DEFINE b == Kernels!ToFloat(c \div csize)
             there == {p \in aux[b + 1] .. aux[b + 2] - 1 : d.jc[p + 1] = c}
             first(places) == IF places = {} THEN -1 ELSE CHOOSE p \in places : \A q \in places : p <= q
  <2>3. pos = first(there)
    <3> HIDE DEF csize, aux
    <3> QED BY Zenon DEF Kernels!AuxIndex
  <2>4. there = here
    BY <2>2
  <2>5. pos = first(here)
    <3> HIDE DEF pos, here, there, first
    <3> QED BY <2>3, <2>4
  <2> QED BY <2>5
<1> HIDE DEF s, csize, aux, base, here, pos
<1>6. base * csize \in Int /\ (base + 1) * csize \in Int
  BY <1>2, <1>3
<1>7. /\ aux[base + 1] = Kernels!LowerBound(d, base * csize)
      /\ aux[base + 2] = Kernels!LowerBound(d, (base + 1) * csize)
  <2>1. base + 1 \in 1 .. Kernels!CeilDiv(n + 1, csize) + 1 /\ (base + 1) - 1 = base /\ (base + 2) - 1 = base + 1
    <3>1. Kernels!CeilDiv(n + 1, csize) \in Nat
      <4>1. n + 1 \in Nat
        OBVIOUS
      <4> QED BY <1>2, <4>1, CeilDivBounds
    <3> QED BY <1>3, <3>1
  <2> QED BY <1>3, <1>4, <2>1
<1>8. /\ aux[base + 1] \in 0 .. Len(s) /\ \A i \in 1 .. Len(s) : s[i] < base * csize <=> i <= aux[base + 1]
      /\ aux[base + 2] \in 0 .. Len(s) /\ \A i \in 1 .. Len(s) : s[i] < (base + 1) * csize <=> i <= aux[base + 2]
  BY <1>1, <1>6, <1>7, LowerBoundRight DEF s
<1>9. \A p : p \in here <=> p \in aux[base + 1] .. aux[base + 2] - 1 /\ s[p + 1] = c
  BY DEF here
<1>10. ASSUME NEW i \in 1 .. Len(s), s[i] = c PROVE i - 1 \in here
  <2>1. ~ (s[i] < base * csize) /\ s[i] < (base + 1) * csize
    BY <1>3, <1>6, <1>10
  <2>2. ~ (i <= aux[base + 1]) /\ i <= aux[base + 2]
    BY <1>8, <2>1
  <2>3. i - 1 \in aux[base + 1] .. aux[base + 2] - 1 /\ (i - 1) + 1 = i
    BY <1>8, <2>2
  <2> QED BY <1>9, <1>10, <2>3
<1>11. ASSUME NEW p \in here PROVE p \in Nat /\ p + 1 \in 1 .. Len(s) /\ s[p + 1] = c
  <2>1. p \in aux[base + 1] .. aux[base + 2] - 1 /\ s[p + 1] = c
    BY <1>9
  <2>2. aux[base + 1] \in Nat /\ aux[base + 2] \in Nat /\ aux[base + 2] <= Len(s)
    BY <1>1, <1>8
  <2>3. \A a, b, l \in Nat : b <= l => a .. b - 1 \subseteq 0 .. l - 1
    OBVIOUS
  <2>4. Len(s) \in Nat
    BY <1>1
  <2>5. p \in 0 .. Len(s) - 1
    BY <2>1, <2>2, <2>3, <2>4
  <2>6. p \in Nat /\ p + 1 \in 1 .. Len(s)
    BY <2>4, <2>5
  <2> QED BY <2>1, <2>6
<1>12. CASE here = {}
  <2>1. ~ \E i \in DOMAIN s : s[i] = c
    BY <1>1, <1>10, <1>12
  <2> QED BY <1>5, <1>12, <2>1 DEF s, pos, aux, csize
<1>13. CASE here # {}
  <2>1. here \in SUBSET Nat
    BY <1>11
  <2>2. \E p \in here : \A q \in here : p <= q
    BY <1>13, <2>1, Smallest
  <2>3. pos \in here
    BY <1>5, <1>13, <2>2
  <2>4. pos \in Nat /\ pos + 1 \in DOMAIN s /\ s[pos + 1] = c
    BY <1>1, <1>11, <2>3
  <2>5. pos # -1
    BY <2>4
  <2> QED BY <2>4, <2>5 DEF s, pos, aux, csize
<1> QED BY <1>12, <1>13

\* In a block whose storage is in order, of fewer than 2^24 - 1 columns, the search by chunks
\* finds every column that is there, and none that is not, although the size and the number of
\* chunks are computed with floats (src/dcsc.cpp:914) and so is a column's chunk (:1015):
\* whatever the number of nonempty columns, and so the size of the chunks, with the last chunk
\* shorter than the others or past the last column.  Of wider blocks it says nothing.
THEOREM SearchFindsEveryColumn ==
  Kernels!TypeOK /\ block.n + 1 < Kernels!ExactBelow => Kernels!AuxFindsEveryColumn
<1> SUFFICES ASSUME Kernels!TypeOK, block.n + 1 < Kernels!ExactBelow, block.nnz > 0, NEW c \in 0 .. block.n - 1
             PROVE  LET pos == Kernels!AuxIndex(block.dcsc, c, Kernels!ConstructAux(block.dcsc, block.n),
                                                Kernels!ChunkSize(block.dcsc, block.n))
                    IN IF \E i \in DOMAIN block.dcsc.jc : block.dcsc.jc[i] = c
                       THEN pos # -1 /\ block.dcsc.jc[pos + 1] = c ELSE pos = -1
  BY DEF Kernels!AuxFindsEveryColumn
<1> DEFINE d == block.dcsc
<1>1. /\ block.n \in Nat /\ block.nnz = Len(d.ir)
      /\ d.jc \in Seq(0 .. block.n - 1) /\ Kernels!Increasing(d.jc)
      /\ d.cp[1] = 0 /\ d.cp[Len(d.jc) + 1] = Len(d.ir)
  BY DEF Kernels!TypeOK, Kernels!WellFormed, Kernels!nz, Kernels!nzc
<1>2. d.jc # <<>>
  <2> SUFFICES ASSUME d.jc = <<>> PROVE FALSE
    OBVIOUS
  <2>1. Len(d.jc) + 1 = 1
    OBVIOUS
  <2> QED BY <1>1, <2>1
<1> HIDE DEF d
<1>3. LET pos == Kernels!AuxIndex(d, c, Kernels!ConstructAux(d, block.n), Kernels!ChunkSize(d, block.n))
      IN IF \E i \in DOMAIN d.jc : d.jc[i] = c THEN pos # -1 /\ d.jc[pos + 1] = c ELSE pos = -1
  BY <1>1, <1>2, SearchRight
<1> QED BY <1>3 DEF d

\* Receivers have rows in order, each at least perproc of them.
LEMMA RecipientInOrder ==
  ASSUME NEW perproc \in Nat \ {0}, NEW p_c \in Nat \ {0}, NEW r \in Nat, NEW s \in Nat, r <= s
  PROVE  /\ Kernels!Recipient(r, perproc, p_c) \in Nat /\ Kernels!Recipient(s, perproc, p_c) \in Nat
         /\ Kernels!Recipient(r, perproc, p_c) <= Kernels!Recipient(s, perproc, p_c)
<1> DEFINE a == r \div perproc
           b == s \div perproc
<1>1. a \in Nat /\ a * perproc <= r
  BY DivBounds
<1>2. b \in Nat /\ s < b * perproc + perproc
  BY DivBounds
<1>3. /\ Kernels!Recipient(r, perproc, p_c) = IF a < p_c THEN a ELSE p_c - 1
      /\ Kernels!Recipient(s, perproc, p_c) = IF b < p_c THEN b ELSE p_c - 1
  BY DEF Kernels!Recipient
<1> HIDE DEF a, b
<1>4. ~ (b < a)
  <2> SUFFICES ASSUME b < a PROVE FALSE
    OBVIOUS
  <2>1. a - b - 1 \in Nat
    BY <1>1, <1>2
  <2>2. (a - b - 1) * perproc \in Nat
    BY <2>1
  <2>3. a * perproc = (b * perproc + perproc) + (a - b - 1) * perproc
    BY <1>1, <1>2
  <2>4. a * perproc \in Nat /\ b * perproc + perproc \in Nat
    BY <1>1, <1>2
  <2> QED BY <1>1, <1>2, <2>2, <2>3, <2>4
<1> QED BY <1>1, <1>2, <1>3, <1>4

\* What the threads have: rows in order, piece by piece.
InOrderByPieces(outs, splits) ==
  /\ DOMAIN outs = 0 .. splits - 1
  /\ \A i \in 0 .. splits - 1 :
       /\ Len(outs[i]) \in Nat /\ DOMAIN outs[i] = 1 .. Len(outs[i])
       /\ outs[i] # <<>> => Len(outs[i]) > 0
       /\ \A k \in 1 .. Len(outs[i]) : outs[i][k].row \in Nat
  /\ \A i, j \in 0 .. splits - 1 : \A k \in 1 .. Len(outs[i]), l \in 1 .. Len(outs[j]) :
       i < j \/ (i = j /\ k < l) => outs[i][k].row < outs[j][l].row

\* A thread marks receivers after the last one of every piece before, and none after its own
\* last one unless no piece after it has entries.
LEMMA MarksBetween ==
  ASSUME NEW splits \in Nat, NEW outs, InOrderByPieces(outs, splits), NEW i \in 0 .. splits - 1,
         NEW perproc \in Nat \ {0}, NEW p_c \in Nat \ {0}, NEW d \in Kernels!Marks(outs, i, perproc, p_c)
  PROVE  /\ outs[i] # <<>> /\ d[1] \in Int
         /\ \A k \in 0 .. i - 1 : outs[k] # <<>> => Kernels!EndRec(outs[k], perproc, p_c) < d[1]
         /\ \A k \in i + 1 .. splits - 1 : outs[k] # <<>> => d[1] <= Kernels!EndRec(outs[i], perproc, p_c)
<1> DEFINE mine == outs[i]
           rec(k) == Kernels!Recipient(mine[k].row, perproc, p_c)
           end_rec == Kernels!EndRec(mine, perproc, p_c)
           beg_rec == rec(1)
           before == {k \in DOMAIN outs : k < i /\ outs[k] # <<>>}
           head(p) == CHOOSE k \in DOMAIN mine : rec(k) >= p /\ \A l \in 1 .. k - 1 : rec(l) < p
           offset == Kernels!accum(outs, i)
           first == {<<p, offset>> : p \in Kernels!FirstNew(outs, before, perproc, p_c) .. beg_rec}
           between == {<<p, offset + head(p) - 1>> : p \in beg_rec + 1 .. end_rec}
           rest == {<<p, Kernels!accum(outs, i + 1)>> : p \in end_rec + 1 .. p_c - 1}
<1>0. /\ \A r, s \in Nat : r <= s =>
           /\ Kernels!Recipient(r, perproc, p_c) \in Nat /\ Kernels!Recipient(s, perproc, p_c) \in Nat
           /\ Kernels!Recipient(r, perproc, p_c) <= Kernels!Recipient(s, perproc, p_c)
      /\ \A r, s \in Nat : r < s => r <= s
  <2>1. ASSUME NEW r \in Nat, NEW s \in Nat, r <= s
        PROVE  /\ Kernels!Recipient(r, perproc, p_c) \in Nat /\ Kernels!Recipient(s, perproc, p_c) \in Nat
               /\ Kernels!Recipient(r, perproc, p_c) <= Kernels!Recipient(s, perproc, p_c)
    BY <2>1, RecipientInOrder
  <2>2. \A r, s \in Nat : r < s => r <= s
    OBVIOUS
  <2> QED BY <2>1, <2>2
<1>1. Kernels!Marks(outs, i, perproc, p_c) =
        IF mine = <<>> THEN {}
        ELSE (IF before = {} THEN {} ELSE first) \cup between
             \cup (IF \E k \in DOMAIN outs : k > i /\ outs[k] # <<>> THEN {} ELSE rest)
  BY DEF Kernels!Marks
<1>2. mine # <<>>
  BY <1>1
<1>3. \/ before # {} /\ d \in first
      \/ d \in between
      \/ d \in rest /\ ~ \E k \in DOMAIN outs : k > i /\ outs[k] # <<>>
  <2> HIDE DEF first, between, rest, before, mine
  <2> QED BY <1>1, <1>2
<1>4. /\ d \in first => d[1] \in Kernels!FirstNew(outs, before, perproc, p_c) .. beg_rec
      /\ d \in between => d[1] \in beg_rec + 1 .. end_rec
      /\ d \in rest => d[1] \in end_rec + 1 .. p_c - 1
  <2> HIDE DEF before, beg_rec, end_rec, rec
  <2> QED OBVIOUS
<1> HIDE DEF first, between, rest
<1>5. Len(mine) \in Nat /\ Len(mine) > 0 /\ \A k \in 1 .. Len(mine) : mine[k].row \in Nat
  BY <1>2 DEF InOrderByPieces
<1>6. beg_rec \in Nat /\ end_rec \in Nat /\ beg_rec <= end_rec
  <2>1. 1 \in 1 .. Len(mine) /\ Len(mine) \in 1 .. Len(mine)
    <3> HIDE DEF mine
    <3> QED BY <1>5
  <2>2. mine[1].row \in Nat /\ mine[Len(mine)].row \in Nat
    <3> HIDE DEF mine
    <3> QED BY <1>5, <2>1
  <2>3. mine[1].row <= mine[Len(mine)].row
    <3>1. CASE Len(mine) = 1
      <4> HIDE DEF mine
      <4> QED BY <2>2, <3>1
    <3>2. CASE Len(mine) # 1
      <4>1. 1 < Len(mine)
        <5> HIDE DEF mine
        <5>1. \A n \in Nat : n > 0 /\ n # 1 => 1 < n
          OBVIOUS
        <5> QED BY <1>5, <3>2, <5>1, Zenon
      <4>2. mine[1].row < mine[Len(mine)].row
        BY <2>1, <4>1 DEF InOrderByPieces
      <4> HIDE DEF mine
      <4> QED BY <2>2, <4>2
    <3> QED BY <3>1, <3>2
  <2> HIDE DEF mine
  <2> QED BY <1>0, <2>2, <2>3, Zenon DEF Kernels!EndRec
<1>7. ASSUME NEW k \in 0 .. i - 1, outs[k] # <<>>
      PROVE  /\ k \in before
             /\ Kernels!EndRec(outs[k], perproc, p_c) \in Nat
             /\ Kernels!EndRec(outs[k], perproc, p_c) <= beg_rec
  <2>1. k \in 0 .. splits - 1 /\ k < i
    OBVIOUS
  <2>2. /\ Len(outs[k]) \in 1 .. Len(outs[k]) /\ outs[k][Len(outs[k])].row \in Nat
        /\ 1 \in 1 .. Len(mine) /\ mine[1].row \in Nat
    <3>1. Len(outs[k]) \in Nat /\ Len(outs[k]) > 0 /\ \A l \in 1 .. Len(outs[k]) : outs[k][l].row \in Nat
      BY <1>7, <2>1 DEF InOrderByPieces
    <3> QED BY <1>5, <3>1
  <2>3. outs[k][Len(outs[k])].row < mine[1].row
    BY <2>1, <2>2 DEF InOrderByPieces
  <2>4. k \in before
    BY <1>7, <2>1 DEF InOrderByPieces
  <2> HIDE DEF mine, before
  <2> QED BY <1>0, <2>2, <2>3, <2>4, Zenon DEF Kernels!EndRec
<1>8. \A k \in before : k \in 0 .. i - 1 /\ outs[k] # <<>>
  BY DEF InOrderByPieces
<1>9. ASSUME before # {}
      PROVE  \E m \in before : /\ \A l \in before : l <= m
                               /\ Kernels!FirstNew(outs, before, perproc, p_c) = Kernels!EndRec(outs[m], perproc, p_c) + 1
  <2> DEFINE T == {i - n : n \in before}
             m == Kernels!Latest(before)
  <2>1. T \in SUBSET Nat /\ T # {}
    <3> HIDE DEF before
    <3> QED BY <1>8, <1>9
  <2>2. PICK t \in T : \A u \in T : t <= u
    <3> HIDE DEF T
    <3> QED BY <2>1, Smallest
  <2>3. PICK n \in before : t = i - n
    <3> HIDE DEF before
    <3> QED BY <2>2
  <2>4. ASSUME NEW l \in before PROVE l <= n
    <3>1. i - l \in T
      OBVIOUS
    <3>2. i - n <= i - l
      <4> HIDE DEF T
      <4> QED BY <2>2, <2>3, <3>1
    <3>3. l \in Int /\ n \in Int
      <4> HIDE DEF before, T
      <4> QED BY <1>8
    <3> HIDE DEF before, T
    <3> QED BY <3>2, <3>3
  <2>5. m \in before /\ \A l \in before : l <= m
    <3> HIDE DEF before, T
    <3>1. \E x \in before : \A l \in before : l <= x
      BY <2>4
    <3> QED BY <3>1, Zenon DEF Kernels!Latest
  <2>6. Kernels!FirstNew(outs, before, perproc, p_c) = Kernels!EndRec(outs[m], perproc, p_c) + 1
    <3> HIDE DEF before, T
    <3> QED BY DEF Kernels!FirstNew
  <2> HIDE DEF m, before, T
  <2> QED BY <2>5, <2>6
<1>10. ASSUME before # {}
       PROVE  /\ Kernels!FirstNew(outs, before, perproc, p_c) \in Int
              /\ \A k \in before : Kernels!EndRec(outs[k], perproc, p_c) < Kernels!FirstNew(outs, before, perproc, p_c)
  <2>1. PICK m \in before : /\ \A l \in before : l <= m
                            /\ Kernels!FirstNew(outs, before, perproc, p_c) = Kernels!EndRec(outs[m], perproc, p_c) + 1
    BY <1>9, <1>10
  <2>2. m \in 0 .. i - 1 /\ outs[m] # <<>>
    <3> HIDE DEF before
    <3> QED BY <1>8
  <2>3. Kernels!EndRec(outs[m], perproc, p_c) \in Nat
    BY <1>7, <2>2
  <2>4. ASSUME NEW k \in before PROVE Kernels!EndRec(outs[k], perproc, p_c) < Kernels!FirstNew(outs, before, perproc, p_c)
    <3>1. k \in 0 .. i - 1 /\ outs[k] # <<>> /\ k <= m
      <4> HIDE DEF before
      <4> QED BY <1>8, <2>1
    <3>2. Kernels!EndRec(outs[k], perproc, p_c) \in Nat
      BY <1>7, <3>1
    <3>3. Kernels!EndRec(outs[k], perproc, p_c) <= Kernels!EndRec(outs[m], perproc, p_c)
      <4>1. CASE k = m
        BY <3>2, <4>1
      <4>2. CASE k # m
        <5>1. k < m /\ k \in 0 .. splits - 1 /\ m \in 0 .. splits - 1
          <6> HIDE DEF before
          <6> QED BY <2>2, <3>1, <4>2
        <5>2. /\ Len(outs[k]) \in 1 .. Len(outs[k]) /\ outs[k][Len(outs[k])].row \in Nat
              /\ Len(outs[m]) \in 1 .. Len(outs[m]) /\ outs[m][Len(outs[m])].row \in Nat
          <6>1. /\ Len(outs[k]) \in Nat /\ Len(outs[k]) > 0 /\ \A l \in 1 .. Len(outs[k]) : outs[k][l].row \in Nat
                /\ Len(outs[m]) \in Nat /\ Len(outs[m]) > 0 /\ \A l \in 1 .. Len(outs[m]) : outs[m][l].row \in Nat
            BY <2>2, <3>1, <5>1 DEF InOrderByPieces
          <6> HIDE DEF before
          <6> QED BY <6>1
        <5>3. outs[k][Len(outs[k])].row < outs[m][Len(outs[m])].row
          BY <5>1, <5>2 DEF InOrderByPieces
        <5> HIDE DEF before
        <5> QED BY <1>0, <5>2, <5>3, Zenon DEF Kernels!EndRec
      <4> QED BY <4>1, <4>2
    <3> HIDE DEF before
    <3> QED BY <2>1, <2>3, <3>2, <3>3
  <2> HIDE DEF before
  <2> QED BY <2>1, <2>3, <2>4
<1> HIDE DEF before, beg_rec, end_rec, mine
<1>11. d[1] \in Int
  BY <1>3, <1>4, <1>6, <1>10
<1>12. ASSUME NEW k \in 0 .. i - 1, outs[k] # <<>> PROVE Kernels!EndRec(outs[k], perproc, p_c) < d[1]
  <2>1. CASE before # {} /\ d \in first
    BY <1>4, <1>6, <1>7, <1>10, <1>12, <2>1
  <2>2. CASE d \in between
    BY <1>4, <1>6, <1>7, <1>12, <2>2
  <2>3. CASE d \in rest
    BY <1>4, <1>6, <1>7, <1>12, <2>3
  <2> QED BY <1>3, <2>1, <2>2, <2>3
<1>13. ASSUME NEW k \in i + 1 .. splits - 1, outs[k] # <<>> PROVE d[1] <= end_rec
  <2>1. k \in DOMAIN outs /\ k > i
    BY DEF InOrderByPieces
  <2>2. CASE before # {} /\ d \in first
    BY <1>4, <1>6, <1>10, <2>2
  <2>3. CASE d \in between
    BY <1>4, <1>6, <2>3
  <2> QED BY <1>3, <1>13, <2>1, <2>2, <2>3
<1> QED BY <1>2, <1>11, <1>12, <1>13 DEF end_rec, mine

\* Two threads never mark the same receiver.
LEMMA MarksDisjoint ==
  ASSUME NEW splits \in Nat, NEW outs, InOrderByPieces(outs, splits), NEW perproc \in Nat \ {0}, NEW p_c \in Nat \ {0},
         NEW i \in 0 .. splits - 1, NEW j \in 0 .. splits - 1, i < j,
         NEW d \in Kernels!Marks(outs, i, perproc, p_c), NEW e \in Kernels!Marks(outs, j, perproc, p_c)
  PROVE  d[1] # e[1]
<1>1. outs[i] # <<>> /\ outs[j] # <<>> /\ d[1] \in Int /\ e[1] \in Int
  BY MarksBetween
<1>2. j \in i + 1 .. splits - 1 /\ i \in 0 .. j - 1
  OBVIOUS
<1>3. d[1] <= Kernels!EndRec(outs[i], perproc, p_c)
  BY <1>1, <1>2, MarksBetween
<1>4. Kernels!EndRec(outs[i], perproc, p_c) < e[1]
  BY <1>1, <1>2, MarksBetween
<1>5. Kernels!EndRec(outs[i], perproc, p_c) \in Nat
  <2>1. Len(outs[i]) \in 1 .. Len(outs[i]) /\ outs[i][Len(outs[i])].row \in Nat
    <3>1. Len(outs[i]) \in Nat /\ Len(outs[i]) > 0 /\ \A k \in 1 .. Len(outs[i]) : outs[i][k].row \in Nat
      BY <1>1 DEF InOrderByPieces
    <3> QED BY <3>1
  <2>2. outs[i][Len(outs[i])].row <= outs[i][Len(outs[i])].row
    BY <2>1
  <2> QED BY <2>1, <2>2, RecipientInOrder DEF Kernels!EndRec
<1> QED BY <1>1, <1>3, <1>4, <1>5

\* "No matter how many splits or threads, there will be only one recipient head": when the data
\* of the threads is sorted, as they take it to be, no two of them write the same displacement,
\* for any block, any number of pieces, empty ones between others included, and any number of
\* receivers up to that of rows.
THEOREM OneRecipientHead == Kernels!TypeOK /\ Kernels!DataIsSorted => Kernels!NoRacingMarks
<1> DEFINE outs == Kernels!PieceOutputs(block, Kernels!ListOf(blockCall.x), blockCall.splits)
           splits == blockCall.splits
           perproc == block.m \div blockCall.p_c
           p_c == blockCall.p_c
           marks(i) == Kernels!Marks(outs, i, perproc, p_c)
<1> SUFFICES ASSUME Kernels!TypeOK, Kernels!DataIsSorted, Kernels!Threaded,
                    NEW i \in DOMAIN outs, NEW j \in DOMAIN outs, i # j, NEW d \in marks(i), NEW e \in marks(j)
             PROVE  d[1] # e[1]
  BY DEF Kernels!NoRacingMarks
<1>1. block.m \in Nat /\ p_c \in 1 .. block.m /\ splits \in 0 .. block.m
  BY DEF Kernels!TypeOK, Kernels!Threaded
<1>2. splits \in Nat /\ p_c \in Nat \ {0} /\ perproc \in Nat \ {0}
  <2>1. splits \in Nat /\ p_c \in Nat \ {0} /\ p_c <= block.m
    BY <1>1
  <2>2. perproc \in Nat /\ block.m < perproc * p_c + p_c
    BY <1>1, <2>1, DivBounds
  <2>3. perproc # 0
    <3> SUFFICES ASSUME perproc = 0 PROVE FALSE
      OBVIOUS
    <3> HIDE DEF perproc, p_c
    <3>1. perproc * p_c = 0
      BY <2>1
    <3> QED BY <1>1, <2>1, <2>2, <3>1
  <2> QED BY <2>1, <2>2, <2>3
<1>3. DOMAIN outs = 0 .. splits - 1
  BY DEF Kernels!PieceOutputs
<1>4. /\ \A k \in DOMAIN outs : outs[k] \in Seq([row : 0 .. block.m - 1, col : {0}, val : Kernels!Values])
      /\ \A a, b \in DOMAIN outs : \A k \in DOMAIN outs[a], l \in DOMAIN outs[b] :
           a < b \/ (a = b /\ k < l) => outs[a][k].row < outs[b][l].row
  BY DEF Kernels!DataIsSorted
<1> HIDE DEF outs, splits, perproc, p_c
<1>5. InOrderByPieces(outs, splits)
  <2>1. ASSUME NEW k \in 0 .. splits - 1
        PROVE  /\ Len(outs[k]) \in Nat /\ DOMAIN outs[k] = 1 .. Len(outs[k])
               /\ outs[k] # <<>> => Len(outs[k]) > 0
               /\ \A l \in 1 .. Len(outs[k]) : outs[k][l].row \in Nat
    <3> DEFINE R == [row : 0 .. block.m - 1, col : {0}, val : Kernels!Values]
    <3>1. outs[k] \in Seq(R)
      BY <1>3, <1>4
    <3>2. \A x \in R : x.row \in Nat
      BY <1>1
    <3> HIDE DEF R
    <3>3. Len(outs[k]) \in Nat /\ DOMAIN outs[k] = 1 .. Len(outs[k]) /\ \A l \in 1 .. Len(outs[k]) : outs[k][l] \in R
      BY <3>1
    <3>4. outs[k] # <<>> => Len(outs[k]) > 0
      BY <3>1
    <3> QED BY <3>2, <3>3, <3>4
  <2> QED BY <1>3, <1>4, <2>1 DEF InOrderByPieces
<1>6. CASE i < j
  BY <1>2, <1>3, <1>5, <1>6, MarksDisjoint
<1>7. CASE j < i
  BY <1>2, <1>3, <1>5, <1>7, MarksDisjoint
<1> QED BY <1>2, <1>3, <1>6, <1>7
=============================================================================
