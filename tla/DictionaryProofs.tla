------------------------------ MODULE DictionaryProofs ------------------------------
(***************************************************************************)
(* The numbering of the labels, for every grid, every set of labels and    *)
(* every hash function: the processes agree on the numbers, and the vector *)
(* of the labels is in place and inverse to the numbering.                 *)
(***************************************************************************)
EXTENDS Dictionary, CommonProofs

-----------------------------------------------------------------------------
(* Receive buffers. *)

\* An element of a receive buffer is one that a process has sent, at its place after
\* what the lower ranks sent, and everything sent is in the buffer.
LEMMA InRankOrderRight ==
  ASSUME NEW data, \A q \in Procs : Len(data[q]) \in Nat
  PROVE  LET d == Displacements([q \in Procs |-> Len(data[q])])
             c == InRankOrder(data)
             n == Cardinality(Procs)
         IN /\ Sums(d, [q \in Procs |-> Len(data[q])], n)
            /\ c = [j \in 1 .. d[n] |-> c[j]] /\ d[n] \in Nat
            /\ \A j \in 1 .. d[n] : \E q \in Procs : \E i \in 1 .. Len(data[q]) : j = d[q] + i
            /\ \A q \in Procs : \A i \in 1 .. Len(data[q]) :
                 InSlot(d, q, d[q] + i) /\ d[q] + i \in 1 .. d[n] /\ c[d[q] + i] = data[q][i]
<1> DEFINE counts == [q \in Procs |-> Len(data[q])]
           d == Displacements(counts)
           c == InRankOrder(data)
           n == Cardinality(Procs)
           From(j) == CHOOSE q \in Procs : d[q] < j /\ j <= d[q + 1]
<1>1. n \in Nat /\ Procs = 0 .. n - 1
  BY ProcsRight
<1>2. \A q \in Procs : counts[q] \in Nat
  OBVIOUS
<1>3. Sums(d, counts, n)
  <2> HIDE DEF counts, d
  <2> QED BY <1>2, DisplacementsRight DEF d
<1>4. c = [j \in 1 .. d[n] |-> data[From(j)][j - d[From(j)]]]
  BY DEF InRankOrder
<1>5. \A q \in Procs : counts[q] = Len(data[q])
  OBVIOUS
<1> HIDE DEF counts, d, c, n
<1>6. \A q \in Procs : d[q] \in Nat /\ d[q + 1] = d[q] + Len(data[q])
  BY <1>1, <1>3, <1>5 DEF Sums
<1>7. d[n] \in Nat
  BY <1>1, <1>3 DEF Sums
<1>8. c = [j \in 1 .. d[n] |-> c[j]]
  BY <1>4
<1>9. ASSUME NEW j \in 1 .. d[n]
      PROVE  \E q \in Procs : \E i \in 1 .. Len(data[q]) : j = d[q] + i
  <2>1. PICK q \in Procs : InSlot(d, q, j)
    BY <1>1, <1>3, <1>9, SlotsRight
  <2>2. j - d[q] \in 1 .. Len(data[q]) /\ j = d[q] + (j - d[q])
    BY <1>6, <1>7, <2>1 DEF InSlot
  <2> QED BY <2>2
<1>10. ASSUME NEW q \in Procs, NEW i \in 1 .. Len(data[q])
       PROVE  InSlot(d, q, d[q] + i) /\ d[q] + i \in 1 .. d[n] /\ c[d[q] + i] = data[q][i]
  <2> DEFINE j == d[q] + i
             r == From(j)
  <2>1. j \in Int /\ InSlot(d, q, j) /\ j - d[q] = i
    BY <1>6 DEF InSlot
  <2>2. j \in 1 .. d[n]
    <3> HIDE DEF j
    <3> QED BY <1>1, <1>3, <2>1, SlotsRight
  <2>3. r \in Procs /\ d[r] < j /\ j <= d[r + 1]
    <3>1. \E x \in Procs : d[x] < j /\ j <= d[x + 1]
      BY <2>1 DEF InSlot
    <3> HIDE DEF j
    <3> QED BY <3>1
  <2> HIDE DEF j, r
  <2>4. r = q
    <3>1. InSlot(d, r, j)
      BY <2>3 DEF InSlot
    <3>2. ~ (q < r)
      <4>1. SUFFICES ASSUME q < r PROVE FALSE
        OBVIOUS
      <4>2. j < j
        BY <1>1, <1>3, <2>1, <2>3, <3>1, <4>1, SlotsRight
      <4> QED BY <2>1, <4>2
    <3>3. ~ (r < q)
      <4>1. SUFFICES ASSUME r < q PROVE FALSE
        OBVIOUS
      <4>2. j < j
        BY <1>1, <1>3, <2>1, <2>3, <3>1, <4>1, SlotsRight
      <4> QED BY <2>1, <4>2
    <3> QED BY <1>1, <2>3, <3>2, <3>3
  <2>5. c[j] = data[r][j - d[r]]
    BY <1>4, <2>2 DEF r
  <2> QED BY <2>1, <2>2, <2>4, <2>5 DEF j
<1> QED BY <1>3, <1>7, <1>8, <1>9, <1>10 DEF counts, d, c, n

-----------------------------------------------------------------------------
(* Labels and their owners. *)

\* What the processes have read and hash with.
Inputs == hash \in Hashes /\ keys \in [Procs -> KeySets]

\* The labels whose hash is in the share of a process.
Owned(p) == {l \in AllLabels : HashOwner(l) = p}

\* A label has a hash, and the hash is in the share of a process.
LEMMA HashOwnerRight ==
  ASSUME Inputs
  PROVE  /\ \A l \in Labels : hash[l] \in Nat /\ HashOwner(l) \in Procs
         /\ \A p \in Procs : keys[p] \in SUBSET Labels
         /\ AllLabels \in SUBSET Labels
<1>1. hash \in [Labels -> 0 .. HashRange - 1] /\ keys \in [Procs -> SUBSET Labels] /\ HashRange \in Nat \ {0}
  BY DictionaryAssumption DEF Inputs
<1>2. \A p \in Procs : keys[p] \in SUBSET Labels
  BY <1>1
<1>3. ASSUME NEW l \in Labels PROVE hash[l] \in Nat /\ HashOwner(l) \in Procs
  <2> DEFINE h == hash[l]
             n == Cardinality(Procs)
             x == h * n
             q == x \div HashRange
  <2>1. h \in 0 .. HashRange - 1 /\ h \in Nat
    BY <1>1
  <2>2. n \in Nat \ {0} /\ Procs = 0 .. n - 1
    BY ProcsRight
  <2> HIDE DEF h, n
  <2>3. x \in Nat /\ h + 1 \in Nat /\ h + 1 <= HashRange /\ HashRange \in Nat
    BY <1>1, <2>1, <2>2
  <2>4. (h + 1) * n <= HashRange * n
    BY <2>2, <2>3, MulMonotone
  <2>5. (h + 1) * n = x + n /\ HashRange * n \in Nat /\ n * HashRange = HashRange * n
    BY <2>1, <2>2, <1>1
  <2>6. x < HashRange * n
    <3> HIDE DEF x
    <3> QED BY <2>2, <2>3, <2>4, <2>5
  <2>7. q \in Nat /\ q * HashRange <= x
    <3> HIDE DEF x
    <3> QED BY <1>1, <2>3, DivBounds
  <2>8. q < n
    <3> SUFFICES ASSUME n <= q PROVE FALSE
      BY <2>2, <2>7
    <3>1. n * HashRange <= q * HashRange
      <4> HIDE DEF q
      <4> QED BY <1>1, <2>2, <2>7, MulMonotone
    <3>2. q * HashRange \in Nat
      <4> HIDE DEF q
      <4> QED BY <1>1, <2>7
    <3> DEFINE y == q * HashRange
               z == HashRange * n
    <3>3. y \in Nat /\ z \in Nat /\ z <= y /\ y <= x /\ x < z
      BY <2>5, <2>6, <2>7, <3>1, <3>2
    <3> HIDE DEF y, z, x
    <3> QED BY <2>3, <3>3
  <2>9. HashOwner(l) = q
    BY DEF HashOwner, h, n
  <2> HIDE DEF q
  <2> QED BY <2>1, <2>2, <2>7, <2>8, <2>9 DEF h
<1>4. AllLabels \in SUBSET Labels
  BY <1>2 DEF AllLabels
<1> QED BY <1>2, <1>3, <1>4

\* The set of pairs of a hash and a label has each of the labels once.
LEMMA UniqueRight ==
  ASSUME Inputs, NEW S \in SUBSET Labels
  PROVE  LET e == Unique(S)
             n == Cardinality(S)
         IN /\ n \in Nat /\ n <= Cardinality(Labels) /\ e \in [1 .. n -> S] /\ Len(e) = n
            /\ \A x \in S : \E i \in 1 .. n : e[i] = x
            /\ \A i, j \in 1 .. n : e[i] = e[j] => i = j
<1> DEFINE before == [x \in S |-> {y \in S : ByHashThenLabel(y, x)}]
           e == Unique(S)
           n == Cardinality(S)
<1>1. IsFiniteSet(S) /\ Cardinality(S) <= Cardinality(Labels)
  BY DictionaryAssumption, FS_Subset
<1>2. n \in Nat
  BY <1>1, FS_CardinalityType
<1>3. \A x \in S : x \in Nat /\ hash[x] \in Nat
  BY HashOwnerRight, DictionaryAssumption
<1>4. TotalOrder(S, before)
  <2>1. \A x, y \in S : y \in before[x] <=> ByHashThenLabel(y, x)
    OBVIOUS
  <2>2. \A x \in S : before[x] \subseteq S
    OBVIOUS
  <2> HIDE DEF before
  <2>3. ASSUME NEW x \in S, NEW y \in S, x \in before[y] PROVE before[x] \subseteq before[y]
    <3> SUFFICES ASSUME NEW z \in before[x] PROVE z \in before[y]
      OBVIOUS
    <3>1. z \in S /\ ByHashThenLabel(z, x) /\ ByHashThenLabel(x, y)
      BY <2>1, <2>2, <2>3
    <3>2. ByHashThenLabel(z, y)
      BY <1>3, <3>1 DEF ByHashThenLabel
    <3> QED BY <2>1, <3>1, <3>2
  <2>4. \A x \in S : before[x] \subseteq S /\ x \notin before[x]
    BY <1>3, <2>1, <2>2 DEF ByHashThenLabel
  <2>5. \A x, y \in S : x # y => x \in before[y] \/ y \in before[x]
    BY <1>3, <2>1 DEF ByHashThenLabel
  <2> QED BY <2>3, <2>4, <2>5 DEF TotalOrder
<1>5. e = [i \in 1 .. n |-> CHOOSE x \in S : Cardinality({y \in S : ByHashThenLabel(y, x)}) = i - 1]
  BY DEF Unique, InOrderOf
<1> HIDE DEF e
<1>6. ASSUME NEW i \in 1 .. n PROVE e[i] \in S /\ Cardinality(before[e[i]]) = i - 1
  <2>1. \E x \in S : Cardinality(before[x]) = i - 1
    <3> HIDE DEF before
    <3> QED BY <1>1, <1>4, RankTaken
  <2>2. \E x \in S : Cardinality({y \in S : ByHashThenLabel(y, x)}) = i - 1
    BY <2>1
  <2>3. e[i] \in S /\ Cardinality({y \in S : ByHashThenLabel(y, e[i])}) = i - 1
    BY <1>5, <2>2
  <2> QED BY <2>3
<1>7. Enumerates(e, S, before)
  <2> HIDE DEF before
  <2> QED BY <1>5, <1>6 DEF Enumerates
<1> HIDE DEF before
<1>8. /\ \A x \in S : \E i \in 1 .. n : e[i] = x
      /\ \A i, j \in 1 .. n : e[i] = e[j] => i = j
  BY <1>1, <1>4, <1>7, EnumerationRight
<1>9. e \in [1 .. n -> S]
  BY <1>7 DEF Enumerates
<1>10. e \in Seq(S) /\ Len(e) = n
  <2> HIDE DEF n
  <2> QED BY <1>2, <1>9
<1> QED BY <1>1, <1>2, <1>8, <1>9, <1>10 DEF e

\* What a process sends to a recipient is its labels that hash to it.
LEMMA OutgoingRight ==
  ASSUME Inputs, NEW p \in Procs, NEW q \in Procs
  PROVE  LET e == Outgoing(p, q)
         IN /\ Len(e) \in Nat /\ DOMAIN e = 1 .. Len(e)
            /\ \A i \in 1 .. Len(e) : e[i] \in keys[p] /\ HashOwner(e[i]) = q
            /\ \A l \in keys[p] : HashOwner(l) = q => \E i \in 1 .. Len(e) : e[i] = l
<1> DEFINE S == {l \in keys[p] : HashOwner(l) = q}
           e == Outgoing(p, q)
           n == Cardinality(S)
<1>1. S \in SUBSET Labels
  BY HashOwnerRight
<1>2. S \in SUBSET Int /\ IsFiniteSet(S)
  <2>1. Labels \in SUBSET Int /\ IsFiniteSet(Labels)
    BY DictionaryAssumption
  <2> HIDE DEF S
  <2> QED BY <1>1, <2>1, FS_Subset
<1>3. e = InOrderOf(S, LAMBDA l, m : l < m)
  BY DEF Outgoing
<1>4. n \in Nat /\ e \in [1 .. n -> S] /\ \A x \in S : \E i \in 1 .. n : e[i] = x
  <2> HIDE DEF S, e
  <2> QED BY <1>2, <1>3, Ascending
<1>5. e \in Seq(S) /\ Len(e) = n
  <2> HIDE DEF n, e, S
  <2> QED BY <1>4
<1>6. \A i \in 1 .. n : e[i] \in S
  BY <1>4
<1> HIDE DEF e, n
<1>7. /\ Len(e) \in Nat /\ DOMAIN e = 1 .. Len(e)
      /\ \A i \in 1 .. Len(e) : e[i] \in keys[p] /\ HashOwner(e[i]) = q
      /\ \A l \in keys[p] : HashOwner(l) = q => \E i \in 1 .. Len(e) : e[i] = l
  BY <1>4, <1>5, <1>6
<1> QED BY <1>7 DEF e

\* What a process receives is the labels it owns.
LEMMA OwnedReceived ==
  ASSUME Inputs, NEW p \in Procs
  PROVE  UNION {Elements(Outgoing(q, p)) : q \in Procs} = Owned(p)
<1>1. ASSUME NEW l \in Owned(p) PROVE l \in UNION {Elements(Outgoing(q, p)) : q \in Procs}
  <2>1. PICK q \in Procs : l \in keys[q] /\ HashOwner(l) = p
    BY <1>1 DEF Owned, AllLabels
  <2> DEFINE e == Outgoing(q, p)
  <2>2. DOMAIN e = 1 .. Len(e) /\ \E i \in 1 .. Len(e) : e[i] = l
    BY <2>1, OutgoingRight
  <2> HIDE DEF e
  <2>3. l \in Elements(e)
    BY <2>2 DEF Elements
  <2> QED BY <2>3 DEF e
<1>2. ASSUME NEW q \in Procs, NEW l \in Elements(Outgoing(q, p)) PROVE l \in Owned(p)
  <2>1. PICK i \in DOMAIN Outgoing(q, p) : Outgoing(q, p)[i] = l
    BY <1>2 DEF Elements
  <2>2. l \in keys[q] /\ HashOwner(l) = p
    BY <2>1, OutgoingRight, SMTT(30)
  <2> QED BY <2>2 DEF Owned, AllLabels
<1> QED BY <1>1, <1>2

\* The numbers of labels that the processes own add up to the number of labels.
LEMMA OwnedAddUp ==
  ASSUME Inputs, NEW d, NEW counts, Sums(d, counts, Cardinality(Procs)),
         \A p \in Procs : counts[p] = Cardinality(Owned(p))
  PROVE  /\ d[Cardinality(Procs)] = Cardinality(AllLabels)
         /\ Cardinality(AllLabels) \in Nat
<1> DEFINE n == Cardinality(Procs)
           Below(k) == {l \in AllLabels : HashOwner(l) < k}
           S == {k \in 0 .. n : IsFiniteSet(Below(k)) /\ Cardinality(Below(k)) = d[k]}
<1>1. n \in Nat /\ Procs = 0 .. n - 1
  BY ProcsRight
<1>2. IsFiniteSet(AllLabels) /\ Cardinality(AllLabels) \in Nat /\ \A l \in AllLabels : HashOwner(l) \in 0 .. n - 1
  BY <1>1, HashOwnerRight, DictionaryAssumption, FS_Subset, FS_CardinalityType
<1>3. \A k \in 0 .. n : d[k] \in Nat
  BY DEF Sums
<1> HIDE DEF n
<1>4. 0 \in S
  <2>1. Below(0) = {}
    <3>1. \A l \in AllLabels : ~ (HashOwner(l) < 0)
      BY <1>2
    <3> QED BY <3>1
  <2>2. d[0] = 0
    BY DEF Sums
  <2>3. IsFiniteSet(Below(0)) /\ Cardinality(Below(0)) = 0
    BY <2>1, FS_EmptySet
  <2> HIDE DEF Below
  <2> QED BY <1>1, <2>2, <2>3
<1>5. ASSUME NEW k \in 0 .. n - 1, k \in S PROVE k + 1 \in S
  <2> DEFINE A == Below(k)
             B == Owned(k)
  <2>1. A \cup B = Below(k + 1) /\ A \cap B = {}
    <3>1. \A l \in AllLabels : HashOwner(l) \in Int
      BY <1>2
    <3>2. \A l \in AllLabels : HashOwner(l) < k + 1 <=> HashOwner(l) < k \/ HashOwner(l) = k
      BY <3>1
    <3>3. \A l \in AllLabels : ~ (HashOwner(l) < k /\ HashOwner(l) = k)
      BY <3>1
    <3> QED BY <3>2, <3>3 DEF Owned
  <2>2. IsFiniteSet(A) /\ Cardinality(A) = d[k]
    BY <1>5
  <2>3. B \in SUBSET AllLabels
    BY DEF Owned
  <2>4. IsFiniteSet(B) /\ Cardinality(B) = counts[k] /\ k \in Procs
    BY <1>1, <1>2, <2>3, FS_Subset
  <2>5. d[k + 1] = d[k] + counts[k] /\ counts[k] \in Nat
    BY <1>5 DEF Sums, n
  <2>6. IsFiniteSet(A \cup B) /\ Cardinality(A \cup B) = Cardinality(A) + Cardinality(B) - Cardinality(A \cap B)
    <3> HIDE DEF A, B
    <3> QED BY <2>2, <2>4, FS_Union
  <2>7. Cardinality(A \cap B) = 0
    BY <2>1, FS_EmptySet
  <2>8. k \in 0 .. n /\ k + 1 \in 0 .. n /\ d[k] \in Nat
    BY <1>1, <1>3
  <2>9. Cardinality(A \cup B) = d[k + 1]
    <3> HIDE DEF A, B
    <3> QED BY <2>2, <2>4, <2>5, <2>6, <2>7, <2>8
  <2> QED BY <2>1, <2>6, <2>8, <2>9
<1>6. n \in S
  <2> HIDE DEF S
  <2>1. 0 .. n \subseteq S
    BY <1>1, <1>4, <1>5, BoundedInduction
  <2> QED BY <1>1, <2>1
<1>7. Below(n) = AllLabels
  BY <1>1, <1>2
<1> QED BY <1>2, <1>6, <1>7 DEF n

-----------------------------------------------------------------------------
(* The numbers of the labels, when all processes have counted theirs. *)

Counted(p) == uniqsorted[p] = Unique(Owned(p)) /\ uniqsize[p] = Cardinality(Owned(p))
Settled == \A p \in Procs : Counted(p)

\* The distinct labels of a process are those it owns, each once.
LEMMA SortedRight ==
  ASSUME Inputs, NEW p \in Procs, Counted(p)
  PROVE  /\ uniqsize[p] \in Nat /\ uniqsize[p] <= Cardinality(Labels)
         /\ DOMAIN uniqsorted[p] = 1 .. uniqsize[p] /\ Len(uniqsorted[p]) = uniqsize[p]
         /\ \A i \in 1 .. uniqsize[p] : uniqsorted[p][i] \in Owned(p)
         /\ \A l \in Owned(p) : \E i \in 1 .. uniqsize[p] : uniqsorted[p][i] = l
         /\ \A i, j \in 1 .. uniqsize[p] : uniqsorted[p][i] = uniqsorted[p][j] => i = j
<1> DEFINE S == Owned(p)
           e == Unique(S)
           n == Cardinality(S)
<1>1. S \in SUBSET Labels
  BY HashOwnerRight DEF Owned
<1> HIDE DEF S
<1>2. /\ n \in Nat /\ n <= Cardinality(Labels) /\ e \in [1 .. n -> S] /\ Len(e) = n
      /\ \A x \in S : \E i \in 1 .. n : e[i] = x
      /\ \A i, j \in 1 .. n : e[i] = e[j] => i = j
  BY <1>1, UniqueRight
<1>3. uniqsorted[p] = e /\ uniqsize[p] = n
  BY DEF Counted, S
<1> HIDE DEF e, n
<1>4. DOMAIN e = 1 .. n /\ \A i \in 1 .. n : e[i] \in S
  BY <1>2
<1> QED BY <1>2, <1>3, <1>4 DEF S

\* The numbers are 0, 1, 2, ... up to the number of labels, those of a process after those
\* of the lower ranks.
LEMMA IndicesRight ==
  ASSUME Inputs, Settled
  PROVE  /\ totallength = Cardinality(AllLabels) /\ totallength \in Nat
         /\ \A p \in Procs : uniqsize[p] \in Nat
         /\ \A p \in Procs : \A i \in 1 .. uniqsize[p] : GlobalIndex(p, i) \in 0 .. totallength - 1
         /\ \A p \in Procs : \A i, j \in Int : i < j <=> GlobalIndex(p, i) < GlobalIndex(p, j)
         /\ \A g \in 0 .. totallength - 1 : \E p \in Procs : \E i \in 1 .. uniqsize[p] : GlobalIndex(p, i) = g
         /\ \A p, q \in Procs : p < q =>
              \A i \in 1 .. uniqsize[p], j \in 1 .. uniqsize[q] : GlobalIndex(p, i) < GlobalIndex(q, j)
<1> DEFINE d == Displacements(uniqsize)
           n == Cardinality(Procs)
<1>1. n \in Nat /\ Procs = 0 .. n - 1
  BY ProcsRight
<1>2. \A p \in Procs : uniqsize[p] \in Nat
  BY SortedRight DEF Settled
<1>3. Sums(d, uniqsize, n)
  BY <1>2, DisplacementsRight
<1>4. \A p \in Procs, i \in Int : GlobalIndex(p, i) = d[p] + i - 1
  BY DEF GlobalIndex, SizeUntil
<1>5. totallength = d[n]
  BY DEF totallength
<1>6. d[n] = Cardinality(AllLabels) /\ Cardinality(AllLabels) \in Nat
  <2>1. \A p \in Procs : uniqsize[p] = Cardinality(Owned(p))
    BY DEF Settled, Counted
  <2> HIDE DEF d
  <2> QED BY <1>3, <2>1, OwnedAddUp DEF n
<1> HIDE DEF d, n
<1>7. \A p \in Procs : d[p] \in Nat /\ d[p + 1] = d[p] + uniqsize[p]
  BY <1>1, <1>3 DEF Sums
<1>8. ASSUME NEW p \in Procs, NEW i \in 1 .. uniqsize[p]
      PROVE  GlobalIndex(p, i) + 1 \in Int /\ InSlot(d, p, GlobalIndex(p, i) + 1)
  <2>1. GlobalIndex(p, i) + 1 = d[p] + i
    BY <1>2, <1>4, <1>7
  <2> QED BY <1>2, <1>7, <2>1 DEF InSlot
<1>9. ASSUME NEW p \in Procs, NEW i \in 1 .. uniqsize[p]
      PROVE  GlobalIndex(p, i) \in 0 .. totallength - 1
  <2>1. GlobalIndex(p, i) + 1 \in 1 .. d[n]
    BY <1>1, <1>3, <1>8, SlotsRight
  <2>2. GlobalIndex(p, i) \in Int
    BY <1>2, <1>4, <1>7
  <2> QED BY <1>5, <1>6, <2>1, <2>2
<1>10. ASSUME NEW p \in Procs, NEW i \in Int, NEW j \in Int
       PROVE  i < j <=> GlobalIndex(p, i) < GlobalIndex(p, j)
  <2>1. GlobalIndex(p, i) = d[p] + i - 1 /\ GlobalIndex(p, j) = d[p] + j - 1 /\ d[p] \in Nat
    BY <1>4, <1>7
  <2> QED BY <2>1
<1>11. ASSUME NEW g \in 0 .. totallength - 1
       PROVE  \E p \in Procs : \E i \in 1 .. uniqsize[p] : GlobalIndex(p, i) = g
  <2>1. g + 1 \in 1 .. d[n]
    BY <1>5, <1>6
  <2>2. PICK p \in Procs : InSlot(d, p, g + 1)
    BY <1>1, <1>3, <2>1, SlotsRight
  <2> DEFINE i == g + 1 - d[p]
  <2>3. i \in 1 .. uniqsize[p] /\ i \in Int /\ d[p] + i - 1 = g
    BY <1>2, <1>7, <2>2 DEF InSlot
  <2>4. GlobalIndex(p, i) = g
    <3> HIDE DEF i
    <3> QED BY <1>4, <2>3
  <2> QED BY <2>3, <2>4
<1>12. ASSUME NEW p \in Procs, NEW q \in Procs, p < q, NEW i \in 1 .. uniqsize[p], NEW j \in 1 .. uniqsize[q]
       PROVE  GlobalIndex(p, i) < GlobalIndex(q, j)
  <2> DEFINE x == GlobalIndex(p, i)
             y == GlobalIndex(q, j)
  <2>1. x + 1 \in Int /\ y + 1 \in Int /\ InSlot(d, p, x + 1) /\ InSlot(d, q, y + 1)
    BY <1>8
  <2>2. x \in Int /\ y \in Int
    BY <1>2, <1>4, <1>7
  <2> HIDE DEF x, y
  <2>3. x + 1 < y + 1
    BY <1>1, <1>3, <1>12, <2>1, SlotsRight
  <2>4. x < y
    BY <2>2, <2>3
  <2> QED BY <2>4 DEF x, y
<1> QED BY <1>2, <1>5, <1>6, <1>9, <1>10, <1>11, <1>12

\* Each label has the number of its place at its owner, and no other label has it.
LEMMA NumbersRight ==
  ASSUME Inputs, Settled
  PROVE  /\ \A p \in Procs : \A i \in 1 .. uniqsize[p] : Number(p, uniqsorted[p][i]) = GlobalIndex(p, i)
         /\ \A l \in AllLabels : Number(HashOwner(l), l) \in 0 .. totallength - 1
         /\ \A l, m \in AllLabels : Number(HashOwner(l), l) = Number(HashOwner(m), m) => l = m
<1>1. ASSUME NEW p \in Procs, NEW i \in 1 .. uniqsize[p]
      PROVE  Number(p, uniqsorted[p][i]) = GlobalIndex(p, i)
  <2> DEFINE k == CHOOSE j \in DOMAIN uniqsorted[p] : uniqsorted[p][j] = uniqsorted[p][i]
  <2>0. Counted(p)
    BY DEF Settled
  <2>1. DOMAIN uniqsorted[p] = 1 .. uniqsize[p]
    BY <2>0, SortedRight
  <2>2. k \in 1 .. uniqsize[p] /\ uniqsorted[p][k] = uniqsorted[p][i]
    BY <2>1
  <2>3. Number(p, uniqsorted[p][i]) = GlobalIndex(p, k)
    BY DEF Number
  <2> HIDE DEF k
  <2>4. k = i
    BY <2>0, <2>2, SortedRight
  <2> QED BY <2>3, <2>4
<1>2. ASSUME NEW l \in AllLabels
      PROVE  /\ HashOwner(l) \in Procs
             /\ \E i \in 1 .. uniqsize[HashOwner(l)] :
                  uniqsorted[HashOwner(l)][i] = l /\ Number(HashOwner(l), l) = GlobalIndex(HashOwner(l), i)
  <2> DEFINE p == HashOwner(l)
  <2>1. p \in Procs /\ l \in Owned(p)
    BY HashOwnerRight DEF Owned
  <2> HIDE DEF p
  <2>2. Counted(p)
    BY <2>1 DEF Settled
  <2>3. PICK i \in 1 .. uniqsize[p] : uniqsorted[p][i] = l
    BY <2>1, <2>2, SortedRight
  <2>4. Number(p, l) = GlobalIndex(p, i)
    BY <1>1, <2>1, <2>3
  <2> QED BY <2>1, <2>3, <2>4 DEF p
<1>3. ASSUME NEW l \in AllLabels PROVE Number(HashOwner(l), l) \in 0 .. totallength - 1
  BY <1>2, IndicesRight
<1>4. ASSUME NEW l \in AllLabels, NEW m \in AllLabels, Number(HashOwner(l), l) = Number(HashOwner(m), m)
      PROVE  l = m
  <2> DEFINE p == HashOwner(l)
             q == HashOwner(m)
  <2>1. p \in Procs /\ q \in Procs /\ p \in Int /\ q \in Int
    BY <1>2, ProcsRight
  <2>2. PICK i \in 1 .. uniqsize[p] : uniqsorted[p][i] = l /\ Number(p, l) = GlobalIndex(p, i)
    BY <1>2
  <2>3. PICK j \in 1 .. uniqsize[q] : uniqsorted[q][j] = m /\ Number(q, m) = GlobalIndex(q, j)
    BY <1>2
  <2>4. GlobalIndex(p, i) = GlobalIndex(q, j)
    BY <1>4, <2>2, <2>3
  <2> HIDE DEF p, q
  <2>5. GlobalIndex(p, i) \in 0 .. totallength - 1 /\ GlobalIndex(q, j) \in 0 .. totallength - 1 /\ totallength \in Nat
    BY <2>1, IndicesRight
  <2>6. ~ (p < q)
    <3> SUFFICES ASSUME p < q PROVE FALSE
      OBVIOUS
    <3>1. GlobalIndex(p, i) < GlobalIndex(q, j)
      BY <2>1, IndicesRight
    <3> QED BY <2>4, <2>5, <3>1
  <2>7. ~ (q < p)
    <3> SUFFICES ASSUME q < p PROVE FALSE
      OBVIOUS
    <3>1. GlobalIndex(q, j) < GlobalIndex(p, i)
      BY <2>1, IndicesRight
    <3> QED BY <2>4, <2>5, <3>1
  <2>8. p = q
    BY <2>1, <2>6, <2>7
  <2>9. i \in Int /\ j \in Int /\ uniqsize[p] \in Nat
    BY <2>1, <2>8, IndicesRight
  <2>10. i = j
    <3>1. GlobalIndex(p, i) = GlobalIndex(p, j) /\ GlobalIndex(p, i) \in Int
      BY <2>4, <2>5, <2>8
    <3>2. i < j <=> GlobalIndex(p, i) < GlobalIndex(p, j)
      BY <2>1, <2>9, IndicesRight
    <3>3. j < i <=> GlobalIndex(p, j) < GlobalIndex(p, i)
      BY <2>1, <2>9, IndicesRight
    <3> QED BY <2>9, <3>1, <3>2, <3>3
  <2> QED BY <2>2, <2>3, <2>8, <2>10
<1> QED BY <1>1, <1>3, <1>4

-----------------------------------------------------------------------------
(* The vector of the labels. *)

\* The i-th label of q belongs to p, and e is what p is told of it.
Tells(e, q, i, p) ==
  /\ Owner(totallength, GlobalIndex(q, i)).rank = p
  /\ e.ind = Owner(totallength, GlobalIndex(q, i)).lind
  /\ e.label = uniqsorted[q][i]

\* o has the places, in the order of q, of what q tells p.
InOrder(o, q, p) ==
  /\ o \in [1 .. Len(Mapped(q, p)) -> 1 .. uniqsize[q]]
  /\ \A k \in 1 .. Len(Mapped(q, p)) : Tells(Mapped(q, p)[k], q, o[k], p)
  /\ \A j, k \in 1 .. Len(Mapped(q, p)) : j < k => o[j] < o[k]
  /\ \A i \in 1 .. uniqsize[q] :
       Owner(totallength, GlobalIndex(q, i)).rank = p => \E k \in 1 .. Len(Mapped(q, p)) : o[k] = i

\* A process tells the owner of a place its local index and the label, in order.
LEMMA MappedRight ==
  ASSUME Inputs, Settled, NEW p \in Procs, NEW q \in Procs
  PROVE  Len(Mapped(q, p)) \in Nat /\ \E o : InOrder(o, q, p)
<1> DEFINE mine == {i \in DOMAIN uniqsorted[q] : Owner(totallength, GlobalIndex(q, i)).rank = p}
           o == InOrderOf(mine, LAMBDA i, j : i < j)
           n == Cardinality(mine)
           m == Mapped(q, p)
<1>1. DOMAIN uniqsorted[q] = 1 .. uniqsize[q] /\ uniqsize[q] \in Nat
  BY SortedRight DEF Settled
<1>2. mine \in SUBSET (1 .. uniqsize[q])
  BY <1>1
<1>3. mine \in SUBSET Int /\ IsFiniteSet(mine)
  <2>1. IsFiniteSet(1 .. uniqsize[q])
    BY <1>1, FS_Interval
  <2> HIDE DEF mine
  <2>2. mine \in SUBSET Int
    BY <1>1, <1>2
  <2> DEFINE all == 1 .. uniqsize[q]
  <2>3. mine \in SUBSET all /\ IsFiniteSet(all)
    BY <1>2, <2>1
  <2> HIDE DEF all
  <2> QED BY <2>2, <2>3, FS_Subset
<1>4. m = [k \in DOMAIN o |->
             [ind |-> Owner(totallength, GlobalIndex(q, o[k])).lind, label |-> uniqsorted[q][o[k]]]]
  BY DEF Mapped
<1>5. /\ n \in Nat /\ o \in [1 .. n -> mine] /\ \A x \in mine : \E k \in 1 .. n : o[k] = x
      /\ \A j, k \in 1 .. n : j < k <=> o[j] < o[k]
  <2> HIDE DEF mine
  <2> QED BY <1>3, Ascending
<1> HIDE DEF o, n, m
<1>6. Len(m) = n
  <2>1. m = [k \in 1 .. n |-> m[k]]
    BY <1>4, <1>5
  <2> QED BY <1>5, <2>1
<1>7. \A k \in 1 .. n : Tells(m[k], q, o[k], p) /\ o[k] \in 1 .. uniqsize[q]
  <2> SUFFICES ASSUME NEW k \in 1 .. n PROVE Tells(m[k], q, o[k], p) /\ o[k] \in 1 .. uniqsize[q]
    OBVIOUS
  <2>1. o[k] \in mine
    BY <1>5
  <2>2. Owner(totallength, GlobalIndex(q, o[k])).rank = p /\ o[k] \in 1 .. uniqsize[q]
    BY <1>2, <2>1
  <2>3. m[k] = [ind |-> Owner(totallength, GlobalIndex(q, o[k])).lind, label |-> uniqsorted[q][o[k]]]
    BY <1>4, <1>5
  <2> QED BY <2>2, <2>3 DEF Tells
<1>8. \A i \in 1 .. uniqsize[q] :
        Owner(totallength, GlobalIndex(q, i)).rank = p => \E k \in 1 .. n : o[k] = i
  BY <1>1, <1>5
<1>9. o \in [1 .. n -> 1 .. uniqsize[q]]
  BY <1>5, <1>7
<1>10. InOrder(o, q, p)
  BY <1>5, <1>6, <1>7, <1>8, <1>9 DEF InOrder, m
<1> QED BY <1>5, <1>6, <1>10 DEF m

\* What arrives at a process.
Arrived(p) == InRankOrder([q \in Procs |-> Mapped(q, p)])

MyLength(p) == MyLocLength(totallength, RankInProcCol(p), RankInProcRow(p))

\* The place of a label in the range of its owner.
LEMMA PlaceRight ==
  ASSUME Inputs, Settled, NEW p \in Procs
  PROVE  /\ MyLength(p) \in Nat
         /\ \E start \in Nat :
              /\ \A g \in 0 .. totallength - 1 : Owner(totallength, g).rank = p =>
                   Owner(totallength, g).lind \in 0 .. MyLength(p) - 1 /\ Owner(totallength, g).lind + start = g
              /\ \A e \in 0 .. MyLength(p) - 1 :
                   start + e \in 0 .. totallength - 1 /\ Owner(totallength, start + e) = [rank |-> p, lind |-> e]
<1> DEFINE row == RankInProcCol(p)
           col == RankInProcRow(p)
           start == LengthUntil(totallength, row, col)
<1>1. totallength \in Nat
  BY IndicesRight
<1>2. row \in 0 .. ProcRows - 1 /\ col \in 0 .. ProcCols - 1 /\ p = GetRank(row, col)
  BY RankPlace
<1>3. MyRowLength(totallength, row) \in Nat /\ PartStart(totallength, ProcRows, row) \in Nat
  <2> HIDE DEF row
  <2> QED BY <1>1, <1>2, RowLengthType, PartTypes, GridAssumption
<1>4. MyLength(p) \in Nat /\ RowLenUntil(totallength, row, col) \in Nat
  <2> HIDE DEF row, col
  <2>1. MyLocLength(totallength, row, col) \in Nat /\ RowLenUntil(totallength, row, col) \in Nat
    BY <1>2, <1>3, PartTypes, GridAssumption DEF MyLocLength, RowLenUntil
  <2> QED BY <2>1 DEF MyLength, row, col
<1>5. start \in Nat
  BY <1>3, <1>4 DEF LengthUntil
<1>6. MyLength(p) = MyLocLength(totallength, row, col)
  BY DEF MyLength
<1> HIDE DEF row, col
<1>7. ASSUME NEW g \in 0 .. totallength - 1, Owner(totallength, g).rank = p
      PROVE  Owner(totallength, g).lind \in 0 .. MyLength(p) - 1 /\ Owner(totallength, g).lind + start = g
  <2> DEFINE place == OwnerPlace(totallength, g)
  <2>1. /\ place.row \in 0 .. ProcRows - 1 /\ place.col \in 0 .. ProcCols - 1
        /\ place.lind \in 0 .. MyLocLength(totallength, place.row, place.col) - 1
        /\ LengthUntil(totallength, place.row, place.col) + place.lind = g
    BY <1>1, OwnerInRange
  <2>2. Owner(totallength, g) = [rank |-> GetRank(place.row, place.col), lind |-> place.lind]
    BY DEF Owner, AtRank
  <2> HIDE DEF place
  <2>3. GetRank(place.row, place.col) = p
    BY <1>7, <2>2
  <2>4. place.row = row /\ place.col = col
    BY <2>1, <2>3, RankRight DEF row, col
  <2> QED BY <1>4, <1>5, <1>6, <2>1, <2>2, <2>4
<1>8. ASSUME NEW e \in 0 .. MyLength(p) - 1
      PROVE  start + e \in 0 .. totallength - 1 /\ Owner(totallength, start + e) = [rank |-> p, lind |-> e]
  <2> DEFINE g == start + e
  <2>1. g \in Int /\ g - start = e
    BY <1>5
  <2>2. g - LengthUntil(totallength, row, col) \in 0 .. MyLocLength(totallength, row, col) - 1
    BY <1>6, <2>1
  <2> HIDE DEF g
  <2>3. /\ g \in 0 .. totallength - 1
        /\ Owner(totallength, g) = [rank |-> GetRank(row, col), lind |-> g - LengthUntil(totallength, row, col)]
    BY <1>1, <1>2, <2>1, <2>2, OwnerUnique
  <2> QED BY <1>2, <2>1, <2>3 DEF g
<1> HIDE DEF start
<1> QED BY <1>4, <1>5, <1>7, <1>8

\* What arrives at a process are the local indices of its part, in order, each with the
\* label that has the number.
LEMMA ArrivedRight ==
  ASSUME Inputs, Settled, NEW p \in Procs
  PROVE  /\ MyLength(p) \in Nat
         /\ DOMAIN Arrived(p) = 1 .. MyLength(p)
         /\ \A j \in 1 .. MyLength(p) : Arrived(p)[j].ind = j - 1
         /\ \A q \in Procs : \A i \in 1 .. uniqsize[q] :
              LET place == Owner(totallength, GlobalIndex(q, i))
              IN place.rank = p =>
                   place.lind + 1 \in 1 .. MyLength(p) /\ Arrived(p)[place.lind + 1].label = uniqsorted[q][i]
<1> DEFINE data == [q \in Procs |-> Mapped(q, p)]
           counts == [q \in Procs |-> Len(data[q])]
           d == Displacements(counts)
           a == Arrived(p)
           n == Cardinality(Procs)
           m == MyLength(p)
           len == d[n]
<1>1. n \in Nat /\ Procs = 0 .. n - 1
  BY ProcsRight
<1>2. \A q \in Procs : data[q] = Mapped(q, p) /\ Len(data[q]) \in Nat
  BY MappedRight
<1>3. /\ Sums(d, counts, n)
      /\ a = [j \in 1 .. len |-> a[j]] /\ len \in Nat
      /\ \A j \in 1 .. len : \E q \in Procs : \E i \in 1 .. Len(data[q]) : j = d[q] + i
      /\ \A q \in Procs : \A i \in 1 .. Len(data[q]) :
           InSlot(d, q, d[q] + i) /\ d[q] + i \in 1 .. len /\ a[d[q] + i] = data[q][i]
  <2>1. a = InRankOrder(data)
    BY DEF Arrived
  <2> HIDE DEF data, a
  <2> QED BY <1>2, <2>1, InRankOrderRight, ZenonT(60)
<1>4. m \in Nat
  BY PlaceRight
<1>5. PICK start \in Nat :
        /\ \A g \in 0 .. totallength - 1 : Owner(totallength, g).rank = p =>
             Owner(totallength, g).lind \in 0 .. m - 1 /\ Owner(totallength, g).lind + start = g
        /\ \A e \in 0 .. m - 1 :
             start + e \in 0 .. totallength - 1 /\ Owner(totallength, start + e) = [rank |-> p, lind |-> e]
  BY PlaceRight
<1>6. totallength \in Nat /\ \A q \in Procs : uniqsize[q] \in Nat
  BY IndicesRight
<1> HIDE DEF data, counts, d, a, n, m, len
<1>7. len \in Nat /\ Sums(d, counts, n)
  BY <1>3
<1>8. ASSUME NEW q \in Procs, NEW k \in 1 .. Len(Mapped(q, p))
       PROVE  InSlot(d, q, d[q] + k) /\ d[q] + k \in 1 .. len /\ a[d[q] + k] = Mapped(q, p)[k]
  <2>1. k \in 1 .. Len(data[q]) /\ data[q] = Mapped(q, p)
    BY <1>2
  <2> QED BY <1>3, <2>1, Zenon
<1>9. ASSUME NEW j \in 1 .. len
      PROVE  \E q \in Procs : \E k \in 1 .. Len(Mapped(q, p)) :
               j = d[q] + k /\ InSlot(d, q, j) /\ a[j] = Mapped(q, p)[k]
  <2>1. PICK q \in Procs : \E k \in 1 .. Len(data[q]) : j = d[q] + k
    BY <1>3, Zenon
  <2>2. data[q] = Mapped(q, p)
    BY <1>2
  <2>3. PICK k \in 1 .. Len(Mapped(q, p)) : j = d[q] + k
    BY <2>1, <2>2, Zenon
  <2> QED BY <1>8, <2>3, Zenon
<1>10. ASSUME NEW q \in Procs, NEW i \in 1 .. uniqsize[q], NEW e, Tells(e, q, i, p)
      PROVE  e.ind \in 0 .. m - 1 /\ e.ind + start = GlobalIndex(q, i)
  BY <1>5, <1>10, IndicesRight DEF Tells
<1>11. \A j \in 1 .. len : a[j].ind \in 0 .. m - 1
  <2> SUFFICES ASSUME NEW j \in 1 .. len PROVE a[j].ind \in 0 .. m - 1
    OBVIOUS
  <2>1. PICK q \in Procs : \E k \in 1 .. Len(Mapped(q, p)) : a[j] = Mapped(q, p)[k]
    BY <1>9
  <2>2. PICK k \in 1 .. Len(Mapped(q, p)) : a[j] = Mapped(q, p)[k]
    BY <2>1
  <2>3. PICK o : InOrder(o, q, p)
    BY MappedRight
  <2>4. Tells(a[j], q, o[k], p) /\ o[k] \in 1 .. uniqsize[q]
    BY <2>2, <2>3 DEF InOrder
  <2> QED BY <1>10, <2>4
<1>12. ASSUME NEW j \in 1 .. len, NEW k \in 1 .. len, j < k PROVE a[j].ind < a[k].ind
  <2>1. PICK q \in Procs : \E x \in 1 .. Len(Mapped(q, p)) :
               j = d[q] + x /\ InSlot(d, q, j) /\ a[j] = Mapped(q, p)[x]
    BY <1>9
  <2>2. PICK x \in 1 .. Len(Mapped(q, p)) : j = d[q] + x /\ InSlot(d, q, j) /\ a[j] = Mapped(q, p)[x]
    BY <2>1
  <2>3. PICK r \in Procs : \E y \in 1 .. Len(Mapped(r, p)) :
               k = d[r] + y /\ InSlot(d, r, k) /\ a[k] = Mapped(r, p)[y]
    BY <1>9
  <2>4. PICK y \in 1 .. Len(Mapped(r, p)) : k = d[r] + y /\ InSlot(d, r, k) /\ a[k] = Mapped(r, p)[y]
    BY <2>3
  <2>5. PICK o : InOrder(o, q, p)
    BY MappedRight
  <2>6. PICK u : InOrder(u, r, p)
    BY MappedRight
  <2>7. Tells(a[j], q, o[x], p) /\ o[x] \in 1 .. uniqsize[q]
    BY <2>2, <2>5 DEF InOrder
  <2>8. Tells(a[k], r, u[y], p) /\ u[y] \in 1 .. uniqsize[r]
    BY <2>4, <2>6 DEF InOrder
  <2>9. /\ a[j].ind \in Int /\ a[j].ind + start = GlobalIndex(q, o[x])
        /\ a[k].ind \in Int /\ a[k].ind + start = GlobalIndex(r, u[y])
    <3>1. a[j].ind \in 0 .. m - 1 /\ a[j].ind + start = GlobalIndex(q, o[x])
      BY <1>10, <2>7, Zenon
    <3>2. a[k].ind \in 0 .. m - 1 /\ a[k].ind + start = GlobalIndex(r, u[y])
      BY <1>10, <2>8, Zenon
    <3>3. 0 .. m - 1 \subseteq Int
      BY <1>4
    <3> QED BY <3>1, <3>2, <3>3, Zenon
  <2>10. GlobalIndex(q, o[x]) < GlobalIndex(r, u[y])
    <3>1. q \in Int /\ r \in Int
      BY <1>1
    <3>2. ~ (r < q)
      <4> SUFFICES ASSUME r < q PROVE FALSE
        OBVIOUS
      <4>1. q \in 0 .. n - 1 /\ r \in 0 .. n - 1 /\ j \in Int /\ k \in Int
        BY <1>7, <1>1
      <4>2. k < j
        BY <1>7, <1>1, <2>2, <2>4, <4>1, SlotsRight
      <4> QED BY <1>12, <4>1, <4>2
    <3>3. CASE q < r
      BY <2>7, <2>8, <3>3, IndicesRight
    <3>4. CASE q = r
      <4>1. d[q] \in Nat
        BY <1>1, <1>3, SMTT(30) DEF Sums
      <4>2. x < y
        BY <1>2, <1>12, <2>2, <2>4, <3>4, <4>1
      <4>3. Tells(a[k], q, o[y], p) /\ o[y] \in 1 .. uniqsize[q] /\ o[x] < o[y]
        BY <2>2, <2>4, <2>5, <3>4, <4>2 DEF InOrder
      <4>4. GlobalIndex(q, o[y]) = GlobalIndex(r, u[y])
        BY <1>10, <2>9, <4>3
      <4>5. GlobalIndex(q, o[x]) < GlobalIndex(q, o[y])
        BY <1>6, <2>7, <4>3, IndicesRight
      <4> QED BY <4>4, <4>5
    <3> QED BY <3>1, <3>2, <3>3, <3>4
  <2> QED BY <2>9, <2>10
<1>13. ASSUME NEW q \in Procs, NEW i \in 1 .. uniqsize[q], Owner(totallength, GlobalIndex(q, i)).rank = p
       PROVE  \E j \in 1 .. len : Tells(a[j], q, i, p)
  <2>1. PICK o : InOrder(o, q, p)
    BY MappedRight
  <2>2. PICK k \in 1 .. Len(Mapped(q, p)) : o[k] = i
    BY <1>13, <2>1 DEF InOrder
  <2>3. Tells(Mapped(q, p)[k], q, i, p)
    BY <2>1, <2>2 DEF InOrder
  <2>4. d[q] + k \in 1 .. len /\ a[d[q] + k] = Mapped(q, p)[k]
    BY <1>8
  <2> QED BY <2>3, <2>4
<1>14. ASSUME NEW e \in 0 .. m - 1 PROVE \E j \in 1 .. len : a[j].ind = e
  <2>1. start + e \in 0 .. totallength - 1 /\ Owner(totallength, start + e) = [rank |-> p, lind |-> e]
    BY <1>5
  <2>2. PICK q \in Procs : \E i \in 1 .. uniqsize[q] : GlobalIndex(q, i) = start + e
    BY <2>1, IndicesRight
  <2>3. PICK i \in 1 .. uniqsize[q] : GlobalIndex(q, i) = start + e
    BY <2>2
  <2>4. PICK j \in 1 .. len : Tells(a[j], q, i, p)
    BY <1>13, <2>1, <2>3
  <2>5. a[j].ind = e
    BY <2>1, <2>3, <2>4 DEF Tells
  <2> QED BY <2>5
<1>15. len = m /\ \A j \in 1 .. len : a[j].ind = j - 1
  <2> DEFINE f == [j \in 1 .. len |-> a[j].ind]
  <2>1. f \in [1 .. len -> 0 .. m - 1]
    BY <1>11
  <2>2. \A i, j \in 1 .. len : i < j => f[i] < f[j]
    BY <1>12
  <2>3. \A e \in 0 .. m - 1 : \E j \in 1 .. len : f[j] = e
    BY <1>14
  <2>4. \A j \in 1 .. len : f[j] = a[j].ind
    OBVIOUS
  <2> HIDE DEF f
  <2>5. len \in Nat
    BY <1>7
  <2>6. IncreasesOnto(f, len, m)
    BY <2>1, <2>2, <2>3 DEF IncreasesOnto
  <2>7. len = m /\ \A j \in 1 .. len : f[j] = j - 1
    BY <1>4, <2>5, <2>6, OwnPlaces
  <2> QED BY <2>4, <2>7
<1>16. ASSUME NEW q \in Procs, NEW i \in 1 .. uniqsize[q], Owner(totallength, GlobalIndex(q, i)).rank = p
       PROVE  /\ Owner(totallength, GlobalIndex(q, i)).lind + 1 \in 1 .. m
              /\ a[Owner(totallength, GlobalIndex(q, i)).lind + 1].label = uniqsorted[q][i]
  <2>1. PICK j \in 1 .. len : Tells(a[j], q, i, p)
    BY <1>13, <1>16
  <2> DEFINE e == Owner(totallength, GlobalIndex(q, i)).lind
  <2>2. a[j].ind = e /\ a[j].label = uniqsorted[q][i]
    BY <2>1 DEF Tells
  <2> HIDE DEF e
  <2>3. e = j - 1 /\ e + 1 = j
    BY <1>3, <1>15, <2>2
  <2> QED BY <1>15, <2>2, <2>3 DEF e
<1>17. DOMAIN a = 1 .. len
  BY <1>3
<1> QED BY <1>4, <1>15, <1>16, <1>17 DEF a, m

-----------------------------------------------------------------------------
(* What comes back to a process. *)

ToOwners(p) == [q \in Procs |-> Outgoing(p, q)]
ToPlaces(p) == [q \in Procs |-> Mapped(p, q)]
NumbersBack(p) == [q \in Procs |-> [i \in DOMAIN Outgoing(q, p) |-> Number(p, Outgoing(q, p)[i])]]

\* The numbers that come back stand where the labels stood.
LEMMA ReplyRight ==
  ASSUME Inputs, NEW p \in Procs
  PROVE  LET labels == InRankOrder(ToOwners(p))
             numbers == InRankOrder([q \in Procs |-> NumbersBack(q)[p]])
         IN /\ Elements(labels) = keys[p]
            /\ \A l \in keys[p] : numbers[CHOOSE i \in DOMAIN labels : labels[i] = l] = Number(HashOwner(l), l)
<1> DEFINE out == ToOwners(p)
           back == [q \in Procs |-> NumbersBack(q)[p]]
           counts == [q \in Procs |-> Len(out[q])]
           backCounts == [q \in Procs |-> Len(back[q])]
           d == Displacements(counts)
           len == d[Cardinality(Procs)]
           labels == InRankOrder(out)
           numbers == InRankOrder(back)
<1>1. \A q \in Procs : out[q] = Outgoing(p, q) /\ Len(out[q]) \in Nat /\ DOMAIN out[q] = 1 .. Len(out[q])
  BY OutgoingRight DEF ToOwners
<1>2. ASSUME NEW q \in Procs
      PROVE  Len(back[q]) = Len(out[q]) /\ \A i \in 1 .. Len(out[q]) : back[q][i] = Number(q, out[q][i])
  <2>1. back[q] = [i \in 1 .. Len(out[q]) |-> Number(q, out[q][i])]
    BY <1>1 DEF NumbersBack
  <2> HIDE DEF back, out
  <2> QED BY <1>1, <2>1
<1>3. backCounts = counts
  <2> HIDE DEF back, out
  <2> QED BY <1>2
<1>4. /\ labels = [j \in 1 .. len |-> labels[j]]
      /\ \A j \in 1 .. len : \E q \in Procs : \E i \in 1 .. Len(out[q]) : j = d[q] + i
      /\ \A q \in Procs : \A i \in 1 .. Len(out[q]) : d[q] + i \in 1 .. len /\ labels[d[q] + i] = out[q][i]
  <2> HIDE DEF out
  <2> QED BY <1>1, InRankOrderRight, ZenonT(60)
<1>5. \A q \in Procs : \A i \in 1 .. Len(back[q]) : numbers[Displacements(backCounts)[q] + i] = back[q][i]
  <2>1. \A q \in Procs : Len(back[q]) \in Nat
    BY <1>1, <1>2
  <2> HIDE DEF back
  <2> QED BY <2>1, InRankOrderRight
<1>6. \A q \in Procs : \A i \in 1 .. Len(back[q]) : numbers[d[q] + i] = back[q][i]
  <2> HIDE DEF back, counts, backCounts
  <2> QED BY <1>3, <1>5
<1>7. DOMAIN labels = 1 .. len
  <2> HIDE DEF labels, len
  <2> QED BY <1>4
<1> HIDE DEF out, back, counts, backCounts, d, len, labels, numbers
<1>8. ASSUME NEW l \in keys[p] PROVE \E i \in DOMAIN labels : labels[i] = l
  <2> DEFINE q == HashOwner(l)
  <2>1. q \in Procs
    BY HashOwnerRight
  <2>2. PICK i \in 1 .. Len(Outgoing(p, q)) : Outgoing(p, q)[i] = l
    BY <2>1, OutgoingRight
  <2> HIDE DEF q
  <2>3. i \in 1 .. Len(out[q]) /\ out[q][i] = l
    BY <1>1, <2>1, <2>2
  <2> QED BY <1>4, <1>7, <2>1, <2>3
<1>9. ASSUME NEW j \in DOMAIN labels
      PROVE  labels[j] \in keys[p] /\ numbers[j] = Number(HashOwner(labels[j]), labels[j])
  <2>1. PICK q \in Procs : \E i \in 1 .. Len(out[q]) : j = d[q] + i
    BY <1>4, <1>7
  <2>2. PICK i \in 1 .. Len(out[q]) : j = d[q] + i
    BY <2>1
  <2>3. labels[j] = out[q][i]
    BY <1>4, <2>2
  <2>4. numbers[j] = Number(q, out[q][i])
    BY <1>2, <1>6, <2>2
  <2>5. out[q][i] \in keys[p] /\ HashOwner(out[q][i]) = q
    BY <1>1, OutgoingRight
  <2> QED BY <2>3, <2>4, <2>5
<1>10. Elements(labels) = keys[p]
  BY <1>8, <1>9 DEF Elements
<1>11. ASSUME NEW l \in keys[p]
       PROVE  numbers[CHOOSE i \in DOMAIN labels : labels[i] = l] = Number(HashOwner(l), l)
  <2> DEFINE j == CHOOSE i \in DOMAIN labels : labels[i] = l
  <2>1. j \in DOMAIN labels /\ labels[j] = l
    BY <1>8
  <2> HIDE DEF j
  <2>2. numbers[j] = Number(HashOwner(l), l)
    BY <1>9, <2>1
  <2> QED BY <2>2 DEF j
<1> QED BY <1>10, <1>11 DEF labels, numbers, out, back

-----------------------------------------------------------------------------
(* The inductive invariant.                                                *)
(*                                                                         *)
(* What the processes have read determines everything: which labels each   *)
(* of them sends and owns, the numbers when all have counted, and from the *)
(* numbers the vector.  The invariant says how far each process is.        *)

SentInv(p) ==
  /\ pc[p] = "hash" => sent[p] = <<>>
  /\ pc[p] \in {"labels", "scan"} => sent[p] = <<ToOwners(p)>>
  /\ pc[p] = "redistribute" => sent[p] = <<ToOwners(p), ToPlaces(p)>>
  /\ pc[p] \in {"numbers", "done"} => sent[p] = <<ToOwners(p), ToPlaces(p), NumbersBack(p)>>

CountInv(p) ==
  /\ pc[p] \in {"hash", "labels"} => uniqsorted[p] = <<>> /\ uniqsize[p] = -1
  /\ pc[p] \notin {"hash", "labels"} => Counted(p)
  /\ pc[p] \in {"redistribute", "numbers", "done"} => Settled

PlaceInv(p) ==
  pc[p] \in {"numbers", "done"} =>
    /\ recvinds[p] = [i \in DOMAIN Arrived(p) |-> Arrived(p)[i].ind]
    /\ distmapper[p] = [i \in DOMAIN Arrived(p) |-> Arrived(p)[i].label]

DoneInv(p) == Done(p) => ultimateperm[p] = [l \in keys[p] |-> Number(HashOwner(l), l)]

LocalInv(p) == SentInv(p) /\ CountInv(p) /\ PlaceInv(p) /\ DoneInv(p)

Labelled == {"hash", "labels", "scan", "redistribute", "numbers", "done"}
Domains ==
  /\ pc \in [Procs -> Labelled]
  /\ DOMAIN sent = Procs /\ DOMAIN uniqsorted = Procs /\ DOMAIN uniqsize = Procs
  /\ DOMAIN recvinds = Procs /\ DOMAIN distmapper = Procs /\ DOMAIN ultimateperm = Procs

IInv == Inputs /\ Domains /\ \A p \in Procs : LocalInv(p)

\* The processes start with nothing.
LEMMA InitIInv == Init => IInv
<1> SUFFICES ASSUME Init PROVE IInv
  OBVIOUS
<1>1. Inputs
  BY DEF Init, Inputs
<1>2. Domains
  BY DEF Init, Domains, Labelled
<1>3. ASSUME NEW p \in Procs PROVE LocalInv(p)
  BY DEF Init, LocalInv, SentInv, CountInv, PlaceInv, DoneInv, Done
<1> QED BY <1>1, <1>2, <1>3 DEF IInv

\* What the labels determine stays.
LEMMA SameLabels ==
  ASSUME hash' = hash, keys' = keys
  PROVE  /\ Inputs <=> Inputs'
         /\ \A p : ToOwners(p)' = ToOwners(p) /\ Owned(p)' = Owned(p)
         /\ \A S : Unique(S)' = Unique(S)
<1>1. Inputs <=> Inputs'
  BY DEF Inputs
<1>2. \A l : HashOwner(l)' = HashOwner(l)
  BY DEF HashOwner
<1>3. \A p, q : Outgoing(p, q)' = Outgoing(p, q)
  BY DEF Outgoing, InOrderOf, HashOwner
<1>4. \A S : Unique(S)' = Unique(S)
  BY DEF Unique, InOrderOf, ByHashThenLabel
<1>5. AllLabels' = AllLabels
  BY DEF AllLabels
<1> QED BY <1>1, <1>2, <1>3, <1>4, <1>5 DEF ToOwners, Owned

\* And what the numbers determine.
LEMMA SameNumbers ==
  ASSUME hash' = hash, keys' = keys, uniqsorted' = uniqsorted, uniqsize' = uniqsize
  PROVE  /\ Settled <=> Settled'
         /\ \A p : Counted(p) <=> Counted(p)'
         /\ \A p : ToPlaces(p)' = ToPlaces(p) /\ NumbersBack(p)' = NumbersBack(p) /\ Arrived(p)' = Arrived(p)
         /\ \A p, l : Number(p, l)' = Number(p, l) /\ HashOwner(l)' = HashOwner(l)
<1>1. \A l : HashOwner(l)' = HashOwner(l)
  BY DEF HashOwner
<1>2. \A p : Owned(p)' = Owned(p)
  BY SameLabels
<1>3. \A S : Unique(S)' = Unique(S)
  BY SameLabels
<1>4. \A p : Counted(p) <=> Counted(p)'
  BY <1>2, <1>3 DEF Counted
<1>5. Settled <=> Settled'
  BY <1>4 DEF Settled
<1>6. totallength' = totallength /\ \A p, i : GlobalIndex(p, i)' = GlobalIndex(p, i)
  BY DEF totallength, GlobalIndex, SizeUntil
<1>7. \A p, q : Mapped(p, q)' = Mapped(p, q)
  BY DEF Mapped, InOrderOf, totallength, GlobalIndex, SizeUntil
<1>8. \A p, l : Number(p, l)' = Number(p, l)
  BY <1>6 DEF Number
<1>9. \A p, q : Outgoing(p, q)' = Outgoing(p, q)
  BY DEF Outgoing, InOrderOf, HashOwner
<1>10. \A p : Arrived(p)' = Arrived(p)
  BY <1>7 DEF Arrived
<1>11. \A p : ToPlaces(p)' = ToPlaces(p)
  BY <1>7 DEF ToPlaces
<1>12. \A p : NumbersBack(p)' = NumbersBack(p)
  BY <1>8, <1>9 DEF NumbersBack
<1> QED BY <1>1, <1>4, <1>5, <1>8, <1>10, <1>11, <1>12

Same == UNCHANGED <<hash, keys, uniqsorted, uniqsize>>

\* A process that takes no step stays as it is.
LEMMA OthersStay ==
  ASSUME Same, NEW q \in Procs, LocalInv(q),
         pc'[q] = pc[q], sent'[q] = sent[q], recvinds'[q] = recvinds[q],
         distmapper'[q] = distmapper[q], ultimateperm'[q] = ultimateperm[q]
  PROVE  LocalInv(q)'
<1>1. hash' = hash /\ keys' = keys /\ uniqsorted' = uniqsorted /\ uniqsize' = uniqsize
  BY DEF Same
<1>2. /\ ToOwners(q)' = ToOwners(q) /\ ToPlaces(q)' = ToPlaces(q) /\ NumbersBack(q)' = NumbersBack(q)
      /\ Arrived(q)' = Arrived(q) /\ (Settled <=> Settled') /\ (Counted(q) <=> Counted(q)')
  BY <1>1, SameLabels, SameNumbers
<1>3. \A l : Number(HashOwner(l), l)' = Number(HashOwner(l), l)
  <2>1. \A l : HashOwner(l)' = HashOwner(l)
    BY <1>1, SameNumbers
  <2>2. \A p, l : Number(p, l)' = Number(p, l)
    BY <1>1, SameNumbers
  <2> QED BY <1>1, <2>1, <2>2 DEF Number, GlobalIndex, SizeUntil, HashOwner
<1>4. SentInv(q)'
  BY <1>2 DEF LocalInv, SentInv
<1>5. CountInv(q)'
  BY <1>1, <1>2 DEF LocalInv, CountInv
<1>6. PlaceInv(q)'
  BY <1>2 DEF LocalInv, PlaceInv
<1>7. DoneInv(q)'
  BY <1>1, <1>3 DEF LocalInv, DoneInv, Done
<1> QED BY <1>4, <1>5, <1>6, <1>7 DEF LocalInv

\* A step of p that is right for p is right.
LEMMA StepOf ==
  ASSUME IInv, NEW p \in Procs, Same, Domains', LocalInv(p)',
         \A q \in Procs \ {p} : /\ pc'[q] = pc[q] /\ sent'[q] = sent[q] /\ recvinds'[q] = recvinds[q]
                                /\ distmapper'[q] = distmapper[q] /\ ultimateperm'[q] = ultimateperm[q]
  PROVE  IInv'
<1>1. Inputs'
  BY SameLabels DEF IInv, Same
<1>2. ASSUME NEW q \in Procs PROVE LocalInv(q)'
  <2>1. CASE q # p
    BY <2>1, OthersStay DEF IInv
  <2> QED BY <2>1
<1> QED BY <1>1, <1>2 DEF IInv

\* Up to three exchanges.
LEMMA Exchanges ==
  ASSUME NEW a, NEW b, NEW c
  PROVE  /\ Len(<<>>) = 0
         /\ Len(<<a>>) = 1 /\ <<a>>[1] = a
         /\ Len(<<a, b>>) = 2 /\ <<a, b>>[1] = a /\ <<a, b>>[2] = b
         /\ Len(<<a, b, c>>) = 3 /\ <<a, b, c>>[1] = a /\ <<a, b, c>>[2] = b /\ <<a, b, c>>[3] = c
OBVIOUS

\* What a process has given to the exchanges it has entered.
LEMMA SentRight ==
  ASSUME IInv, NEW q \in Procs
  PROVE  /\ Len(sent[q]) \in 0 .. 3
         /\ Len(sent[q]) = 0 => pc[q] = "hash"
         /\ Len(sent[q]) = 1 => pc[q] \in {"labels", "scan"}
         /\ Len(sent[q]) >= 1 => sent[q][1] = ToOwners(q)
         /\ Len(sent[q]) >= 2 => sent[q][2] = ToPlaces(q) /\ Settled
         /\ Len(sent[q]) >= 3 => sent[q][3] = NumbersBack(q)
<1> DEFINE a == ToOwners(q)
           b == ToPlaces(q)
           c == NumbersBack(q)
<1>1. /\ Len(<<>>) = 0
      /\ Len(<<a>>) = 1 /\ <<a>>[1] = a
      /\ Len(<<a, b>>) = 2 /\ <<a, b>>[1] = a /\ <<a, b>>[2] = b
      /\ Len(<<a, b, c>>) = 3 /\ <<a, b, c>>[1] = a /\ <<a, b, c>>[2] = b /\ <<a, b, c>>[3] = c
  BY Exchanges
<1>2. /\ pc[q] = "hash" => sent[q] = <<>>
      /\ pc[q] \in {"labels", "scan"} => sent[q] = <<a>>
      /\ pc[q] = "redistribute" => sent[q] = <<a, b>>
      /\ pc[q] \in {"numbers", "done"} => sent[q] = <<a, b, c>>
  BY DEF IInv, LocalInv, SentInv
<1>3. pc[q] \in Labelled /\ (pc[q] \in {"redistribute", "numbers", "done"} => Settled)
  BY DEF IInv, LocalInv, CountInv, Domains
<1> HIDE DEF a, b, c
<1>4. /\ Len(sent[q]) \in 0 .. 3
      /\ Len(sent[q]) = 0 => pc[q] = "hash"
      /\ Len(sent[q]) = 1 => pc[q] \in {"labels", "scan"}
      /\ Len(sent[q]) >= 1 => sent[q][1] = a
      /\ Len(sent[q]) >= 2 => sent[q][2] = b /\ Settled
      /\ Len(sent[q]) >= 3 => sent[q][3] = c
  <2>1. CASE pc[q] = "hash"
    BY <1>1, <1>2, <2>1
  <2>2. CASE pc[q] \in {"labels", "scan"}
    <3>1. Len(sent[q]) = 1 /\ sent[q][1] = a
      BY <1>1, <1>2, <2>2, Zenon
    <3> QED BY <1>3, <2>2, <3>1
  <2>3. CASE pc[q] = "redistribute"
    <3>1. Len(sent[q]) = 2 /\ sent[q][1] = a /\ sent[q][2] = b
      BY <1>1, <1>2, <2>3, Zenon
    <3> QED BY <1>3, <2>3, <3>1
  <2>4. CASE pc[q] \in {"numbers", "done"}
    <3>1. Len(sent[q]) = 3 /\ sent[q][1] = a /\ sent[q][2] = b /\ sent[q][3] = c
      BY <1>1, <1>2, <2>4, Zenon
    <3> QED BY <1>3, <2>4, <3>1
  <2> QED BY <1>3, <2>1, <2>2, <2>3, <2>4 DEF Labelled
<1> QED BY <1>4 DEF a, b, c

\* Sending the labels.
LEMMA SendLabelsIInv ==
  ASSUME IInv, NEW p \in Procs, SendLabels(p)
  PROVE  IInv'
<1>1. pc[p] = "hash" /\ LocalInv(p) /\ Domains
  BY DEF SendLabels, IInv
<1>2. Same /\ UNCHANGED <<recvinds, distmapper, ultimateperm>>
  BY DEF SendLabels, Same
<1>3. /\ pc' = [pc EXCEPT ![p] = "labels"]
      /\ sent' = [sent EXCEPT ![p] = Append(@, ToOwners(p))]
  BY DEF SendLabels, Goto, Exchange, ToOwners
<1>4. Domains'
  BY <1>1, <1>2, <1>3 DEF Domains, Same, Labelled
<1>5. pc'[p] = "labels" /\ sent'[p] = <<ToOwners(p)>>
  <2>1. sent[p] = <<>>
    BY <1>1 DEF LocalInv, SentInv
  <2>2. sent'[p] = Append(<<>>, ToOwners(p))
    BY <1>1, <1>3, <2>1 DEF Domains
  <2> QED BY <1>1, <1>3, <2>2 DEF Domains
<1>6. ToOwners(p)' = ToOwners(p)
  BY <1>2, SameLabels DEF Same
<1>7. LocalInv(p)'
  <2>1. SentInv(p)'
    BY <1>5, <1>6 DEF SentInv
  <2>2. CountInv(p)'
    BY <1>1, <1>2, <1>5 DEF CountInv, LocalInv, Same
  <2>3. PlaceInv(p)' /\ DoneInv(p)'
    BY <1>5 DEF PlaceInv, DoneInv, Done
  <2> QED BY <2>1, <2>2, <2>3 DEF LocalInv
<1>8. \A q \in Procs \ {p} : /\ pc'[q] = pc[q] /\ sent'[q] = sent[q] /\ recvinds'[q] = recvinds[q]
                             /\ distmapper'[q] = distmapper[q] /\ ultimateperm'[q] = ultimateperm[q]
  BY <1>1, <1>2, <1>3 DEF Domains
<1> QED BY <1>2, <1>4, <1>7, <1>8, StepOf

\* Counting the distinct labels: no process can be past the scan before this one is.
LEMMA CountUniqueIInv ==
  ASSUME IInv, NEW p \in Procs, CountUnique(p)
  PROVE  IInv'
<1>1. pc[p] = "labels" /\ LocalInv(p) /\ Domains /\ Inputs /\ \A q \in Procs : LocalInv(q)
  BY DEF CountUnique, IInv
<1> DEFINE received == UNION {Elements(Received(sent, Procs, p)[q]) : q \in Procs}
<1>2. hash' = hash /\ keys' = keys /\ UNCHANGED <<sent, recvinds, distmapper, ultimateperm>>
  BY DEF CountUnique
<1>3. /\ pc' = [pc EXCEPT ![p] = "scan"]
      /\ uniqsorted' = [uniqsorted EXCEPT ![p] = Unique(received)]
      /\ uniqsize' = [uniqsize EXCEPT ![p] = Len(Unique(received))]
  BY DEF CountUnique, Goto
<1>4. received = Owned(p)
  <2>1. Len(sent[p]) = 1
    BY <1>1, Exchanges DEF LocalInv, SentInv
  <2>2. ASSUME NEW q \in Procs PROVE Received(sent, Procs, p)[q] = Outgoing(q, p)
    <3>1. Len(sent[q]) >= 1
      BY <2>1 DEF CountUnique, AllArrived
    <3>2. sent[q][1] = ToOwners(q)
      BY <3>1, SentRight
    <3> QED BY <2>1, <3>2 DEF Received, ToOwners
  <2>3. received = UNION {Elements(Outgoing(q, p)) : q \in Procs}
    BY <2>2
  <2> QED BY <1>1, <2>3, OwnedReceived
<1> HIDE DEF received
<1>5. Domains'
  BY <1>1, <1>2, <1>3 DEF Domains, Labelled
<1>6. Counted(p)'
  <2>1. Owned(p) \in SUBSET Labels
    BY <1>1, HashOwnerRight DEF Owned
  <2> DEFINE S == Owned(p)
  <2>2. Len(Unique(S)) = Cardinality(S)
    <3> HIDE DEF S
    <3> QED BY <1>1, <2>1, UniqueRight DEF S
  <2>3. Owned(p)' = Owned(p) /\ \A T : Unique(T)' = Unique(T)
    BY <1>2, SameLabels
  <2>4. uniqsorted'[p] = Unique(S) /\ uniqsize'[p] = Cardinality(S)
    BY <1>1, <1>3, <1>4, <2>2 DEF Domains
  <2>5. Unique(Owned(p))' = Unique(Owned(p))
    BY <1>2 DEF Unique, InOrderOf, ByHashThenLabel, Owned, HashOwner, AllLabels
  <2> QED BY <2>3, <2>4, <2>5 DEF Counted
<1>7. ASSUME NEW q \in Procs PROVE pc[q] \in {"hash", "labels", "scan"}
  <2>1. uniqsize[p] = -1
    BY <1>1 DEF LocalInv, CountInv
  <2>2. ~ Settled
    <3> SUFFICES ASSUME Settled PROVE FALSE
      OBVIOUS
    <3>1. uniqsize[p] \in Nat
      BY <1>1, SortedRight DEF Settled
    <3> QED BY <2>1, <3>1
  <2> QED BY <1>1, <2>2 DEF LocalInv, CountInv, Domains, Labelled
<1>8. ASSUME NEW q \in Procs PROVE LocalInv(q)'
  <2>1. ToOwners(q)' = ToOwners(q)
    BY <1>2, SameLabels
  <2>2. pc'[q] \in {"hash", "labels", "scan"} /\ (pc'[q] = "hash" <=> pc[q] = "hash")
    BY <1>1, <1>3, <1>7 DEF Domains
  <2>3. SentInv(q)'
    <3>1. sent'[q] = sent[q] /\ SentInv(q)
      BY <1>1, <1>2 DEF LocalInv
    <3> QED BY <1>7, <2>1, <2>2, <3>1 DEF SentInv
  <2>4. CountInv(q)'
    <3>1. CASE q = p
      BY <1>1, <1>3, <1>6, <3>1 DEF CountInv, Domains
    <3>2. CASE q # p
      <4>1. pc'[q] = pc[q] /\ uniqsorted'[q] = uniqsorted[q] /\ uniqsize'[q] = uniqsize[q]
        BY <1>1, <1>3, <3>2 DEF Domains
      <4>2. Unique(Owned(q))' = Unique(Owned(q)) /\ Owned(q)' = Owned(q)
        BY <1>2 DEF Unique, InOrderOf, ByHashThenLabel, Owned, HashOwner, AllLabels
      <4>3. Counted(q) => Counted(q)'
        BY <4>1, <4>2 DEF Counted
      <4> QED BY <1>1, <1>7, <4>1, <4>3 DEF LocalInv, CountInv
    <3> QED BY <3>1, <3>2
  <2>5. PlaceInv(q)' /\ DoneInv(q)'
    BY <2>2 DEF PlaceInv, DoneInv, Done
  <2> QED BY <2>3, <2>4, <2>5 DEF LocalInv
<1>9. Inputs'
  BY <1>1, <1>2, SameLabels
<1> QED BY <1>5, <1>8, <1>9 DEF IInv

\* Telling the owners of the places: all have counted.
LEMMA DistributeIInv ==
  ASSUME IInv, NEW p \in Procs, Distribute(p)
  PROVE  IInv'
<1>1. pc[p] = "scan" /\ LocalInv(p) /\ Domains /\ \A q \in Procs : LocalInv(q) /\ uniqsize[q] # -1
  BY DEF Distribute, IInv
<1>2. Same /\ UNCHANGED <<recvinds, distmapper, ultimateperm>>
  BY DEF Distribute, Same
<1>3. /\ pc' = [pc EXCEPT ![p] = "redistribute"]
      /\ sent' = [sent EXCEPT ![p] = Append(@, ToPlaces(p))]
  BY DEF Distribute, Goto, Exchange, ToPlaces
<1>4. Settled
  BY <1>1 DEF Settled, LocalInv, CountInv
<1>5. Domains'
  BY <1>1, <1>2, <1>3 DEF Domains, Same, Labelled
<1>6. pc'[p] = "redistribute" /\ sent'[p] = <<ToOwners(p), ToPlaces(p)>>
  <2>1. sent[p] = <<ToOwners(p)>>
    BY <1>1 DEF LocalInv, SentInv
  <2>2. sent'[p] = Append(<<ToOwners(p)>>, ToPlaces(p))
    BY <1>1, <1>3, <2>1 DEF Domains
  <2> QED BY <1>1, <1>3, <2>2, AppendSecond DEF Domains
<1>7. /\ ToOwners(p)' = ToOwners(p) /\ ToPlaces(p)' = ToPlaces(p)
      /\ (Settled <=> Settled') /\ (Counted(p) <=> Counted(p)')
  BY <1>2, SameLabels, SameNumbers DEF Same
<1>8. LocalInv(p)'
  <2>1. SentInv(p)'
    BY <1>6, <1>7 DEF SentInv
  <2>2. CountInv(p)'
    BY <1>4, <1>6, <1>7 DEF CountInv, Settled
  <2>3. PlaceInv(p)' /\ DoneInv(p)'
    BY <1>6 DEF PlaceInv, DoneInv, Done
  <2> QED BY <2>1, <2>2, <2>3 DEF LocalInv
<1>9. \A q \in Procs \ {p} : /\ pc'[q] = pc[q] /\ sent'[q] = sent[q] /\ recvinds'[q] = recvinds[q]
                             /\ distmapper'[q] = distmapper[q] /\ ultimateperm'[q] = ultimateperm[q]
  BY <1>1, <1>2, <1>3 DEF Domains
<1> QED BY <1>2, <1>5, <1>8, <1>9, StepOf

\* Receiving the part of the vector and answering with the numbers.
LEMMA PlaceIInv ==
  ASSUME IInv, NEW p \in Procs, Place(p)
  PROVE  IInv'
<1> DEFINE arrived == InRankOrder(Received(sent, Procs, p))
           back == [q \in Procs |-> [i \in DOMAIN sent[q][1][p] |-> Number(p, sent[q][1][p][i])]]
<1>1. pc[p] = "redistribute" /\ LocalInv(p) /\ Domains /\ \A q \in Procs : Len(sent[q]) >= Len(sent[p])
  BY DEF Place, IInv, AllArrived
<1>2. Same /\ UNCHANGED ultimateperm
  BY DEF Place, Same
<1>3. /\ pc' = [pc EXCEPT ![p] = "numbers"]
      /\ sent' = [sent EXCEPT ![p] = Append(@, back)]
      /\ recvinds' = [recvinds EXCEPT ![p] = [i \in DOMAIN arrived |-> arrived[i].ind]]
      /\ distmapper' = [distmapper EXCEPT ![p] = [i \in DOMAIN arrived |-> arrived[i].label]]
  BY DEF Place, Goto, Exchange
<1>4. Len(sent[p]) = 2
  <2>1. Len(sent[p]) \in 0 .. 3 /\ Len(sent[p]) # 0 /\ Len(sent[p]) # 1
    BY <1>1, SentRight
  <2>2. sent[p] = <<ToOwners(p), ToPlaces(p)>>
    BY <1>1 DEF LocalInv, SentInv
  <2> QED BY <2>2, Exchanges, Zenon
<1>5. \A q \in Procs : sent[q][1] = ToOwners(q) /\ sent[q][2] = ToPlaces(q)
  BY <1>1, <1>4, SentRight
<1>6. Settled
  BY <1>1 DEF LocalInv, CountInv
<1>7. arrived = Arrived(p)
  <2>1. Received(sent, Procs, p) = [q \in Procs |-> Mapped(q, p)]
    <3>1. \A q \in Procs : sent[q][Len(sent[p])][p] = Mapped(q, p)
      <4>1. \A q \in Procs : sent[q][Len(sent[p])] = ToPlaces(q)
        BY <1>4, <1>5, Zenon
      <4>2. \A q \in Procs : ToPlaces(q)[p] = Mapped(q, p)
        BY DEF ToPlaces
      <4> QED BY <4>1, <4>2, Zenon
    <3> QED BY <3>1 DEF Received
  <2> QED BY <2>1 DEF Arrived
<1>8. back = NumbersBack(p)
  <2>1. \A q \in Procs : sent[q][1][p] = Outgoing(q, p)
    BY <1>5 DEF ToOwners
  <2>2. \A q \in Procs : [i \in DOMAIN sent[q][1][p] |-> Number(p, sent[q][1][p][i])]
                         = [i \in DOMAIN Outgoing(q, p) |-> Number(p, Outgoing(q, p)[i])]
    BY <2>1
  <2> QED BY <2>2 DEF NumbersBack
<1> HIDE DEF arrived, back
<1>9. Domains'
  BY <1>1, <1>2, <1>3 DEF Domains, Same, Labelled
<1>10. pc'[p] = "numbers" /\ sent'[p] = <<ToOwners(p), ToPlaces(p), NumbersBack(p)>>
  <2>1. sent[p] = <<ToOwners(p), ToPlaces(p)>>
    BY <1>1 DEF LocalInv, SentInv
  <2>2. sent'[p] = Append(<<ToOwners(p), ToPlaces(p)>>, NumbersBack(p))
    BY <1>1, <1>3, <1>8, <2>1 DEF Domains
  <2> QED BY <1>1, <1>3, <2>2, AppendThird DEF Domains
<1>11. /\ ToOwners(p)' = ToOwners(p) /\ ToPlaces(p)' = ToPlaces(p) /\ NumbersBack(p)' = NumbersBack(p)
       /\ Arrived(p)' = Arrived(p) /\ (Settled <=> Settled') /\ (Counted(p) <=> Counted(p)')
  BY <1>2, SameLabels, SameNumbers DEF Same
<1>12. LocalInv(p)'
  <2>1. SentInv(p)'
    BY <1>10, <1>11 DEF SentInv
  <2>2. CountInv(p)'
    BY <1>6, <1>10, <1>11 DEF CountInv, Settled
  <2>3. PlaceInv(p)'
    BY <1>1, <1>3, <1>7, <1>11 DEF PlaceInv, Domains
  <2>4. DoneInv(p)'
    BY <1>10 DEF DoneInv, Done
  <2> QED BY <2>1, <2>2, <2>3, <2>4 DEF LocalInv
<1>13. \A q \in Procs \ {p} : /\ pc'[q] = pc[q] /\ sent'[q] = sent[q] /\ recvinds'[q] = recvinds[q]
                              /\ distmapper'[q] = distmapper[q] /\ ultimateperm'[q] = ultimateperm[q]
  BY <1>1, <1>2, <1>3 DEF Domains
<1> QED BY <1>2, <1>9, <1>12, <1>13, StepOf

\* Receiving the numbers.
LEMMA ReceiveNumbersIInv ==
  ASSUME IInv, NEW p \in Procs, ReceiveNumbers(p)
  PROVE  IInv'
<1> DEFINE numbers == InRankOrder(Received(sent, Procs, p))
           labels == InRankOrder(sent[p][1])
           perm == [l \in Elements(labels) |-> numbers[CHOOSE i \in DOMAIN labels : labels[i] = l]]
<1>1. /\ pc[p] = "numbers" /\ LocalInv(p) /\ Domains /\ Inputs
      /\ \A q \in Procs : Len(sent[q]) >= Len(sent[p])
  BY DEF ReceiveNumbers, IInv, AllArrived
<1>2. Same /\ UNCHANGED <<sent, recvinds, distmapper>>
  BY DEF ReceiveNumbers, Same
<1>3. pc' = [pc EXCEPT ![p] = "done"] /\ ultimateperm' = [ultimateperm EXCEPT ![p] = perm]
  BY DEF ReceiveNumbers, Goto
<1>4. Len(sent[p]) = 3
  <2>1. sent[p] = <<ToOwners(p), ToPlaces(p), NumbersBack(p)>>
    BY <1>1 DEF LocalInv, SentInv
  <2> QED BY <2>1, Exchanges, Zenon
<1>5. \A q \in Procs : sent[q][1] = ToOwners(q) /\ sent[q][3] = NumbersBack(q)
  BY <1>1, <1>4, SentRight
<1>6. perm = [l \in keys[p] |-> Number(HashOwner(l), l)]
  <2>1. labels = InRankOrder(ToOwners(p))
    BY <1>5
  <2>2. numbers = InRankOrder([q \in Procs |-> NumbersBack(q)[p]])
    <3>1. Received(sent, Procs, p) = [q \in Procs |-> NumbersBack(q)[p]]
      BY <1>4, <1>5 DEF Received
    <3> QED BY <3>1
  <2> HIDE DEF labels, numbers
  <2>3. /\ Elements(labels) = keys[p]
        /\ \A l \in keys[p] : numbers[CHOOSE i \in DOMAIN labels : labels[i] = l] = Number(HashOwner(l), l)
    <3>1. /\ Elements(InRankOrder(ToOwners(p))) = keys[p]
          /\ \A l \in keys[p] :
               InRankOrder([q \in Procs |-> NumbersBack(q)[p]])
                 [CHOOSE i \in DOMAIN InRankOrder(ToOwners(p)) : InRankOrder(ToOwners(p))[i] = l]
                 = Number(HashOwner(l), l)
      BY <1>1, ReplyRight, Zenon
    <3> QED BY <2>1, <2>2, <3>1, Zenon
  <2> QED BY <2>3
<1> HIDE DEF perm
<1>7. Domains'
  BY <1>1, <1>2, <1>3 DEF Domains, Same, Labelled
<1>8. pc'[p] = "done"
  BY <1>1, <1>3 DEF Domains
<1>9. /\ ToOwners(p)' = ToOwners(p) /\ ToPlaces(p)' = ToPlaces(p) /\ NumbersBack(p)' = NumbersBack(p)
      /\ Arrived(p)' = Arrived(p) /\ (Settled <=> Settled') /\ (Counted(p) <=> Counted(p)')
  BY <1>2, SameLabels, SameNumbers DEF Same
<1>10. LocalInv(p)'
  <2>1. SentInv(p)'
    BY <1>1, <1>2, <1>8, <1>9 DEF SentInv, LocalInv
  <2>2. CountInv(p)'
    BY <1>1, <1>8, <1>9 DEF CountInv, LocalInv
  <2>3. PlaceInv(p)'
    BY <1>1, <1>2, <1>9 DEF PlaceInv, LocalInv
  <2>4. DoneInv(p)'
    <3>1. ultimateperm'[p] = [l \in keys[p] |-> Number(HashOwner(l), l)]
      BY <1>1, <1>3, <1>6 DEF Domains
    <3>2. hash' = hash /\ keys' = keys /\ uniqsorted' = uniqsorted /\ uniqsize' = uniqsize
      BY <1>2 DEF Same
    <3>3. \A l : Number(HashOwner(l), l)' = Number(HashOwner(l), l)
      BY <3>2 DEF Number, GlobalIndex, SizeUntil, HashOwner
    <3> QED BY <3>1, <3>2, <3>3 DEF DoneInv
  <2> QED BY <2>1, <2>2, <2>3, <2>4 DEF LocalInv
<1>11. \A q \in Procs \ {p} : /\ pc'[q] = pc[q] /\ sent'[q] = sent[q] /\ recvinds'[q] = recvinds[q]
                              /\ distmapper'[q] = distmapper[q] /\ ultimateperm'[q] = ultimateperm[q]
  BY <1>1, <1>2, <1>3 DEF Domains
<1> QED BY <1>2, <1>7, <1>10, <1>11, StepOf

\* The invariant is inductive.
LEMMA NextIInv == IInv /\ [Next]_vars => IInv'
<1> SUFFICES ASSUME IInv, [Next]_vars PROVE IInv'
  OBVIOUS
<1>1. CASE \E p \in Procs : Step(p)
  <2>1. PICK p \in Procs : Step(p)
    BY <1>1
  <2>2. CASE SendLabels(p)
    BY <2>2, SendLabelsIInv
  <2>3. CASE CountUnique(p)
    BY <2>3, CountUniqueIInv
  <2>4. CASE Distribute(p)
    BY <2>4, DistributeIInv
  <2>5. CASE Place(p)
    BY <2>5, PlaceIInv
  <2>6. CASE ReceiveNumbers(p)
    BY <2>6, ReceiveNumbersIInv
  <2> QED BY <2>1, <2>2, <2>3, <2>4, <2>5, <2>6 DEF Step
<1>2. CASE UNCHANGED vars
  <2>1. Same /\ UNCHANGED <<pc, sent, recvinds, distmapper, ultimateperm>>
    BY <1>2 DEF vars, Same
  <2>2. Inputs'
    BY <2>1, SameLabels DEF IInv, Same
  <2>3. Domains'
    BY <2>1 DEF IInv, Domains, Same
  <2>4. ASSUME NEW q \in Procs PROVE LocalInv(q)'
    BY <2>1, OthersStay DEF IInv
  <2> QED BY <2>2, <2>3, <2>4 DEF IInv
<1> QED BY <1>1, <1>2 DEF Next, Terminated

\* And so it holds.
LEMMA Invariant == Spec => []IInv
BY InitIInv, NextIInv, PTL DEF Spec

-----------------------------------------------------------------------------
(* The theorems. *)

\* The variables have their types; in particular the number of a label is below the number
\* of labels.
THEOREM DictionaryTypes == Spec => []TypeOK
<1>1. IInv => TypeOK
  <2> SUFFICES ASSUME IInv PROVE TypeOK
    OBVIOUS
  <2>1. Inputs /\ Domains
    BY DEF IInv
  <2>2. Cardinality(Labels) \in Nat
    BY DictionaryAssumption, FS_CardinalityType
  <2>3. ASSUME NEW p \in Procs
        PROVE  uniqsize[p] \in -1 .. Cardinality(Labels) /\ Elements(uniqsorted[p]) \subseteq AllLabels
    <3>1. CountInv(p)
      BY DEF IInv, LocalInv
    <3>2. CASE pc[p] \in {"hash", "labels"}
      <4>1. uniqsorted[p] = <<>> /\ uniqsize[p] = -1
        BY <3>1, <3>2 DEF CountInv
      <4>2. Elements(<<>>) = {}
        BY DEF Elements
      <4> QED BY <2>2, <4>1, <4>2
    <3>3. CASE pc[p] \notin {"hash", "labels"}
      <4>1. Counted(p)
        BY <3>1, <3>3 DEF CountInv
      <4>2. /\ uniqsize[p] \in Nat /\ uniqsize[p] <= Cardinality(Labels)
            /\ DOMAIN uniqsorted[p] = 1 .. uniqsize[p]
            /\ \A i \in 1 .. uniqsize[p] : uniqsorted[p][i] \in Owned(p)
        BY <2>1, <4>1, SortedRight
      <4>3. Elements(uniqsorted[p]) \subseteq AllLabels
        BY <4>2 DEF Elements, Owned
      <4> QED BY <2>2, <4>2, <4>3
    <3> QED BY <3>2, <3>3
  <2>4. ASSUME NEW p \in Procs, Done(p)
        PROVE  ultimateperm[p] \in [keys[p] -> 0 .. Cardinality(AllLabels) - 1]
    <3>1. Settled /\ ultimateperm[p] = [l \in keys[p] |-> Number(HashOwner(l), l)]
      BY <2>4 DEF IInv, LocalInv, CountInv, DoneInv, Done
    <3>2. totallength = Cardinality(AllLabels)
      BY <2>1, <3>1, IndicesRight
    <3>3. \A l \in keys[p] : Number(HashOwner(l), l) \in 0 .. totallength - 1
      BY <2>1, <3>1, NumbersRight DEF AllLabels
    <3> QED BY <3>1, <3>2, <3>3
  <2> QED BY <2>1, <2>3, <2>4 DEF TypeOK, Inputs, Domains, Labelled
<1> QED BY Invariant, <1>1, PTL

\* What a process that is done has.
LEMMA DoneRight ==
  ASSUME IInv, NEW p \in Procs, Done(p)
  PROVE  Inputs /\ Settled /\ \A l \in keys[p] : l \in AllLabels /\ ultimateperm[p][l] = Number(HashOwner(l), l)
<1>1. Inputs /\ Settled /\ ultimateperm[p] = [l \in keys[p] |-> Number(HashOwner(l), l)]
  BY DEF IInv, LocalInv, CountInv, DoneInv, Done
<1> QED BY <1>1 DEF AllLabels

\* Two processes give a label the same number, and different labels different numbers,
\* whatever the hash function (TupleRead1stPassNExchange).
THEOREM DictionaryAgrees == Spec => []SameNumbering
<1>1. IInv => SameNumbering
  <2> SUFFICES ASSUME IInv, NEW p \in Procs, NEW q \in Procs, Done(p), Done(q),
                      NEW l \in keys[p], NEW m \in keys[q]
               PROVE  ultimateperm[p][l] = ultimateperm[q][m] <=> l = m
    BY DEF SameNumbering
  <2>1. /\ Inputs /\ Settled /\ l \in AllLabels /\ m \in AllLabels
        /\ ultimateperm[p][l] = Number(HashOwner(l), l) /\ ultimateperm[q][m] = Number(HashOwner(m), m)
    BY DoneRight
  <2> QED BY <2>1, NumbersRight
<1> QED BY Invariant, <1>1, PTL

\* What a process receives for its part of the vector are its local indices in order
\* (the assertion of ReDistributeToVector), on every grid and for every number of labels.
THEOREM DictionaryInPlace == Spec => []IndicesInPlace
<1>1. IInv => IndicesInPlace
  <2> SUFFICES ASSUME IInv, NEW p \in Procs, pc[p] \in {"numbers", "done"}
               PROVE  /\ Len(recvinds[p]) = MyLength(p)
                      /\ \A i \in DOMAIN recvinds[p] : recvinds[p][i] = i - 1
    BY DEF IndicesInPlace, MyLength
  <2>1. Inputs /\ Settled /\ recvinds[p] = [i \in DOMAIN Arrived(p) |-> Arrived(p)[i].ind]
    BY DEF IInv, LocalInv, CountInv, PlaceInv
  <2>2. /\ MyLength(p) \in Nat /\ DOMAIN Arrived(p) = 1 .. MyLength(p)
        /\ \A j \in 1 .. MyLength(p) : Arrived(p)[j].ind = j - 1
    BY <2>1, ArrivedRight
  <2>3. recvinds[p] = [i \in 1 .. MyLength(p) |-> i - 1]
    BY <2>1, <2>2
  <2> QED BY <2>2, <2>3
<1> QED BY Invariant, <1>1, PTL

\* The vector is the inverse of the numbering (distmapper against ultimateperm).
THEOREM DictionaryInverse == Spec => []MapperIsInverse
<1>1. IInv => MapperIsInverse
  <2> SUFFICES ASSUME IInv, NEW p \in Procs, NEW q \in Procs, Done(p), Done(q), NEW l \in keys[p],
                      Owner(totallength, ultimateperm[p][l]).rank = q
               PROVE  distmapper[q][Owner(totallength, ultimateperm[p][l]).lind + 1] = l
    BY DEF MapperIsInverse
  <2> DEFINE h == HashOwner(l)
  <2>1. Inputs /\ Settled /\ l \in AllLabels /\ ultimateperm[p][l] = Number(h, l)
    BY DoneRight
  <2>2. h \in Procs /\ l \in Owned(h)
    BY <2>1, HashOwnerRight DEF Owned
  <2> HIDE DEF h
  <2>3. PICK i \in 1 .. uniqsize[h] : uniqsorted[h][i] = l
    BY <2>1, <2>2, SortedRight DEF Settled
  <2>4. ultimateperm[p][l] = GlobalIndex(h, i)
    BY <2>1, <2>2, <2>3, NumbersRight
  <2> DEFINE e == Owner(totallength, GlobalIndex(h, i)).lind
  <2>5. Owner(totallength, GlobalIndex(h, i)).rank = q
    BY <2>4
  <2>6. e + 1 \in 1 .. MyLength(q) /\ Arrived(q)[e + 1].label = uniqsorted[h][i] /\ DOMAIN Arrived(q) = 1 .. MyLength(q)
    BY <2>1, <2>2, <2>5, ArrivedRight
  <2>7. distmapper[q] = [j \in DOMAIN Arrived(q) |-> Arrived(q)[j].label]
    BY DEF IInv, LocalInv, PlaceInv, Done
  <2>8. distmapper[q][e + 1] = l
    <3> HIDE DEF e
    <3> QED BY <2>3, <2>6, <2>7
  <2> QED BY <2>4, <2>8
<1> QED BY Invariant, <1>1, PTL
=============================================================================
