--------------------------------- MODULE CommonProofs ---------------------------------
(***************************************************************************)
(* Facts about data that the proofs of several components need: induction  *)
(* on numbers, stated for a set of numbers so that it can be cited where a *)
(* recursive function is shown to exist or to have a property; sequences   *)
(* whose elements have no common type; and the elements of a finite set in *)
(* an order, as a sequence.                                                *)
(*                                                                         *)
(* Then ownership on the grid, for every grid and every length: Owner and  *)
(* LengthUntil are inverse to each other, and the ranges of the processes  *)
(* follow one another without a gap or an overlap.  The displacements into *)
(* a buffer for all give every place of it to one rank.                    *)
(*                                                                         *)
(* Then sequences that list a set, each element once, and what LocalTables *)
(* does to them: sorting a table keeps its rows, and the merge of two      *)
(* sorted tables meets every two rows with the same key, once.             *)
(***************************************************************************)
EXTENDS Distribution, LocalTables, FunctionTheorems, FiniteSetTheorems, TLAPS

\* A set of numbers that is not empty has a smallest.
LEMMA Smallest ==
  ASSUME NEW T \in SUBSET Nat, T # {}
  PROVE  \E m \in T : \A k \in T : m <= k
<1> DEFINE R == OpToRel(<, Nat)
<1>1. IsWellFoundedOn(R, Nat)
  BY NatLessThanWellFounded
<1>2. \A k, m \in Nat : k < m => <<k, m>> \in R
  BY DEF OpToRel
<1> HIDE DEF R
<1>3. PICK m \in T : \A k \in T : <<k, m>> \notin R
  BY <1>1, WFMin, Zenon
<1>4. ASSUME NEW k \in T PROVE m <= k
  <2>1. k \in Nat /\ m \in Nat
    OBVIOUS
  <2>2. ~ (k < m)
    BY <1>2, <1>3, <2>1, Zenon
  <2> QED BY <2>1, <2>2
<1> QED BY <1>4

\* A set of numbers that has 0 and the successor of each of its members has all numbers.
LEMMA SetInduction ==
  ASSUME NEW S, 0 \in S, \A n \in Nat : n \in S => n + 1 \in S
  PROVE  Nat \subseteq S
<1> DEFINE T == {n \in Nat : n \notin S}
<1> SUFFICES ASSUME T # {} PROVE FALSE
  OBVIOUS
<1>1. T \in SUBSET Nat
  OBVIOUS
<1>2. PICK m \in T : \A k \in T : m <= k
  <2> HIDE DEF T
  <2> QED BY <1>1, Smallest
<1>3. m \in Nat /\ m # 0 /\ m - 1 \in Nat /\ m - 1 \notin T
  BY <1>2
<1>4. m - 1 \in S
  BY <1>3
<1>5. (m - 1) + 1 \in S
  BY <1>3, <1>4
<1> QED BY <1>2, <1>3, <1>5

\* The induction is bounded: up to n the step may use the bound.
LEMMA BoundedInduction ==
  ASSUME NEW n \in Nat, NEW S, 0 \in S, \A k \in 0 .. n - 1 : k \in S => k + 1 \in S
  PROVE  0 .. n \subseteq S
<1> DEFINE T == {k \in Nat : k <= n => k \in S}
<1>1. 0 \in T
  OBVIOUS
<1>2. \A k \in Nat : k \in T => k + 1 \in T
  OBVIOUS
<1>3. Nat \subseteq T
  <2> HIDE DEF T
  <2> QED BY <1>1, <1>2, SetInduction
<1> QED BY <1>3

\* A function given by its value at 0 and by how each value follows from the one before:
\* F[k][x] is the value at k when the one before it is x.
Follows(f, n, T, a, F) == f \in [0 .. n -> T] /\ f[0] = a /\ \A k \in 1 .. n : f[k] = F[k][f[k - 1]]

\* There is one.
LEMMA PrimitiveRecursion ==
  ASSUME NEW n \in Nat, NEW T, NEW a \in T, NEW F \in [1 .. n -> [T -> T]]
  PROVE  \E f : Follows(f, n, T, a, F)
<1> DEFINE S == {m \in 0 .. n : \E f : Follows(f, m, T, a, F)}
<1>1. 0 \in S
  <2> DEFINE f == [k \in 0 .. 0 |-> a]
  <2>1. Follows(f, 0, T, a, F)
    BY DEF Follows
  <2> HIDE DEF f
  <2> QED BY <2>1
<1>2. ASSUME NEW m \in 0 .. n - 1, m \in S PROVE m + 1 \in S
  <2>0. PICK f : Follows(f, m, T, a, F)
    BY <1>2
  <2>1. f \in [0 .. m -> T] /\ f[0] = a /\ \A k \in 1 .. m : f[k] = F[k][f[k - 1]]
    BY <2>0 DEF Follows
  <2>2. m \in Nat /\ m + 1 \in 1 .. n /\ f[m] \in T
    BY <2>1
  <2> DEFINE g == [k \in 0 .. m + 1 |-> IF k = m + 1 THEN F[m + 1][f[m]] ELSE f[k]]
  <2>3. g \in [0 .. m + 1 -> T]
    BY <2>1, <2>2
  <2>4. g[0] = a /\ g[m + 1] = F[m + 1][f[m]] /\ \A k \in 0 .. m : g[k] = f[k]
    BY <2>1, <2>2
  <2> HIDE DEF g
  <2>5. ASSUME NEW k \in 1 .. m + 1 PROVE g[k] = F[k][g[k - 1]]
    <3>1. CASE k = m + 1
      BY <2>2, <2>4, <3>1
    <3>2. CASE k # m + 1
      <4>1. k \in 1 .. m /\ k - 1 \in 0 .. m /\ k \in 0 .. m
        BY <2>2, <3>2
      <4> QED BY <2>1, <2>4, <4>1
    <3> QED BY <3>1, <3>2
  <2>6. Follows(g, m + 1, T, a, F)
    BY <2>2, <2>3, <2>4, <2>5 DEF Follows
  <2> QED BY <2>2, <2>6
<1>3. n \in S
  <2> HIDE DEF S
  <2>1. 0 .. n \subseteq S
    BY <1>1, <1>2, BoundedInduction
  <2> QED BY <2>1
<1> QED BY <1>3

-----------------------------------------------------------------------------
(* Division. *)

\* The quotient of a division brackets the dividend.
LEMMA DivBounds ==
  ASSUME NEW n \in Nat, NEW d \in Nat \ {0}
  PROVE  /\ n \div d \in Nat
         /\ (n \div d) * d <= n
         /\ n < (n \div d) * d + d
OBVIOUS

\* The remainder is what a multiple is exceeded by.
LEMMA Remainder ==
  ASSUME NEW q \in Nat, NEW h \in Nat \ {0}, NEW e \in 0 .. h - 1
  PROVE  (q * h + e) % h = e
OBVIOUS

\* A number is a multiple and a remainder.
LEMMA Divided ==
  ASSUME NEW n \in Nat, NEW d \in Nat \ {0}
  PROVE  \E q \in Nat, e \in 0 .. d - 1 : n = q * d + e /\ n % d = e
<1> DEFINE q == n \div d
           x == q * d
           e == n - x
<1>1. q \in Nat /\ q * d <= n /\ n < q * d + d
  BY DivBounds
<1>2. x \in Nat
  <2> HIDE DEF q
  <2> QED BY <1>1
<1>3. e \in 0 .. d - 1 /\ n = x + e
  <2>1. x <= n /\ n < x + d
    BY <1>1
  <2> HIDE DEF x
  <2> QED BY <1>2, <2>1
<1> HIDE DEF e, q
<1>4. (q * d + e) % d = e
  BY <1>1, <1>3, Remainder
<1> QED BY <1>1, <1>3, <1>4

-----------------------------------------------------------------------------
(* Sequences of elements of any kind. *)

\* A sequence of whatever it has.
IsSequence(c) == Len(c) \in Nat /\ c = [k \in 1 .. Len(c) |-> c[k]]

\* A sequence of elements of a set is one.
LEMMA TypedIsSequence ==
  ASSUME NEW S, NEW c \in Seq(S)
  PROVE  IsSequence(c)
BY DEF IsSequence

\* What is in a sequence after something is appended.
LEMMA Appended ==
  ASSUME NEW c, IsSequence(c), NEW e
  PROVE  /\ IsSequence(Append(c, e))
         /\ Len(Append(c, e)) = Len(c) + 1 /\ Len(c) \in Nat
         /\ \A k \in 1 .. Len(c) : Append(c, e)[k] = c[k]
         /\ Append(c, e)[Len(c) + 1] = e
<1> DEFINE S == {c[k] : k \in 1 .. Len(c)} \cup {e}
<1>1. c \in Seq(S)
  BY DEF IsSequence
<1>2. e \in S
  OBVIOUS
<1> HIDE DEF S
<1>3. /\ Append(c, e) \in Seq(S) /\ Len(Append(c, e)) = Len(c) + 1 /\ Len(c) \in Nat
      /\ \A k \in 1 .. Len(c) : Append(c, e)[k] = c[k]
      /\ Append(c, e)[Len(c) + 1] = e
  BY <1>1, <1>2
<1> QED BY <1>3, TypedIsSequence

\* And after the first element is taken.
LEMMA Taken ==
  ASSUME NEW c, IsSequence(c), c # <<>>
  PROVE  /\ IsSequence(Tail(c))
         /\ Len(c) \in Nat /\ Len(c) > 0 /\ Len(Tail(c)) = Len(c) - 1
         /\ \A k \in 1 .. Len(c) - 1 : Tail(c)[k] = c[k + 1]
         /\ Head(c) = c[1]
<1> DEFINE S == {c[k] : k \in 1 .. Len(c)}
<1>1. c \in Seq(S)
  BY DEF IsSequence
<1> HIDE DEF S
<1>2. /\ Tail(c) \in Seq(S) /\ Len(c) \in Nat /\ Len(c) > 0 /\ Len(Tail(c)) = Len(c) - 1
      /\ \A k \in 1 .. Len(c) - 1 : Tail(c)[k] = c[k + 1]
      /\ Head(c) = c[1]
  BY <1>1
<1> QED BY <1>2, TypedIsSequence

\* A second element.
LEMMA AppendSecond ==
  ASSUME NEW a, NEW b
  PROVE  Append(<<a>>, b) = <<a, b>>
<1>1. ASSUME NEW s \in Seq({a, b}), Len(s) = 2 PROVE s = <<s[1], s[2]>>
  BY <1>1
<1>2. <<a>> \in Seq({a, b})
  OBVIOUS
<1>3. /\ Append(<<a>>, b) \in Seq({a, b}) /\ Len(Append(<<a>>, b)) = 2
      /\ Append(<<a>>, b)[1] = a /\ Append(<<a>>, b)[2] = b
  BY <1>2
<1>4. Append(<<a>>, b) = <<Append(<<a>>, b)[1], Append(<<a>>, b)[2]>>
  BY <1>1, <1>3, Zenon
<1> QED BY <1>3, <1>4, Zenon

\* And a third.
LEMMA AppendThird ==
  ASSUME NEW a, NEW b, NEW c
  PROVE  Append(<<a, b>>, c) = <<a, b, c>>
<1>1. ASSUME NEW s \in Seq({a, b, c}), Len(s) = 3 PROVE s = <<s[1], s[2], s[3]>>
  BY <1>1
<1>2. <<a, b>> \in Seq({a, b, c})
  OBVIOUS
<1>3. /\ Append(<<a, b>>, c) \in Seq({a, b, c}) /\ Len(Append(<<a, b>>, c)) = 3
      /\ Append(<<a, b>>, c)[1] = a /\ Append(<<a, b>>, c)[2] = b /\ Append(<<a, b>>, c)[3] = c
  BY <1>2
<1>4. Append(<<a, b>>, c) = <<Append(<<a, b>>, c)[1], Append(<<a, b>>, c)[2], Append(<<a, b>>, c)[3]>>
  BY <1>1, <1>3, Zenon
<1> QED BY <1>3, <1>4, Zenon

-----------------------------------------------------------------------------
(* The elements of a finite set in an order. *)

\* before gives each element of S the set of the elements before it in a strict total order.
TotalOrder(S, before) ==
  /\ \A x \in S : before[x] \subseteq S /\ x \notin before[x]
  /\ \A x, y \in S : x \in before[y] => before[x] \subseteq before[y]
  /\ \A x, y \in S : x # y => x \in before[y] \/ y \in before[x]

\* A sequence that has each element at the place of its rank.
Enumerates(e, S, before) ==
  /\ e \in [1 .. Cardinality(S) -> S]
  /\ \A i \in 1 .. Cardinality(S) : Cardinality(before[e[i]]) = i - 1

\* The number of elements before an element is a rank: smaller for a smaller element.
LEMMA RankIncreases ==
  ASSUME NEW S, IsFiniteSet(S), NEW before, TotalOrder(S, before)
  PROVE  /\ \A x \in S : Cardinality(before[x]) \in 0 .. Cardinality(S) - 1
         /\ \A x, y \in S : x \in before[y] <=> Cardinality(before[x]) < Cardinality(before[y])
<1>1. Cardinality(S) \in Nat
  BY FS_CardinalityType
<1>2. ASSUME NEW x \in S
      PROVE  IsFiniteSet(before[x]) /\ Cardinality(before[x]) \in 0 .. Cardinality(S) - 1
  <2>1. before[x] \in SUBSET S /\ before[x] # S
    BY DEF TotalOrder
  <2>2. IsFiniteSet(before[x]) /\ Cardinality(before[x]) <= Cardinality(S) /\ Cardinality(before[x]) # Cardinality(S)
    BY <2>1, FS_Subset
  <2>3. Cardinality(before[x]) \in Nat
    BY <2>2, FS_CardinalityType
  <2> QED BY <1>1, <2>2, <2>3
<1>3. ASSUME NEW x \in S, NEW y \in S, x \in before[y]
      PROVE  Cardinality(before[x]) < Cardinality(before[y])
  <2>1. before[x] \in SUBSET before[y] /\ before[x] # before[y] /\ IsFiniteSet(before[y])
    BY <1>2, <1>3 DEF TotalOrder
  <2>2. Cardinality(before[x]) <= Cardinality(before[y]) /\ Cardinality(before[x]) # Cardinality(before[y])
    BY <2>1, FS_Subset
  <2> QED BY <1>1, <1>2, <2>2
<1>4. ASSUME NEW x \in S, NEW y \in S, Cardinality(before[x]) < Cardinality(before[y])
      PROVE  x \in before[y]
  <2>1. x # y
    BY <1>1, <1>2, <1>4
  <2>2. CASE y \in before[x]
    <3>1. Cardinality(before[y]) < Cardinality(before[x])
      BY <2>2, <1>3
    <3> QED BY <1>1, <1>2, <1>4, <3>1
  <2> QED BY <2>1, <2>2 DEF TotalOrder
<1> QED BY <1>2, <1>3, <1>4

\* Every place below the number of elements is the rank of one of them.
LEMMA RankTaken ==
  ASSUME NEW S, IsFiniteSet(S), NEW before, TotalOrder(S, before), NEW i \in 1 .. Cardinality(S)
  PROVE  \E x \in S : Cardinality(before[x]) = i - 1
<1> DEFINE rank == [x \in S |-> Cardinality(before[x]) + 1]
           n == Cardinality(S)
<1>1. n \in Nat
  BY FS_CardinalityType
<1>2. \A x \in S : rank[x] \in 1 .. n
  BY <1>1, RankIncreases
<1>3. \A x, y \in S : rank[x] = rank[y] => x = y
  <2> SUFFICES ASSUME NEW x \in S, NEW y \in S, rank[x] = rank[y], x # y PROVE FALSE
    OBVIOUS
  <2>1. Cardinality(before[x]) \in Nat /\ Cardinality(before[y]) \in Nat
    BY <1>1, RankIncreases
  <2>2. x \in before[y] \/ y \in before[x]
    BY DEF TotalOrder
  <2>3. Cardinality(before[x]) < Cardinality(before[y]) \/ Cardinality(before[y]) < Cardinality(before[x])
    BY <2>2, RankIncreases
  <2> QED BY <2>1, <2>3
<1>4. rank \in [S -> 1 .. n]
  BY <1>2
<1>5. rank \in Injection(S, 1 .. n)
  BY <1>3, <1>4, Fun_IsInj
<1>6. IsFiniteSet(1 .. n) /\ Cardinality(1 .. n) = n
  BY <1>1, FS_Interval
<1>7. rank \in Surjection(S, 1 .. n)
  <2> HIDE DEF rank
  <2> QED BY <1>5, <1>6, FS_Injection
<1>8. PICK x \in S : rank[x] = i
  <2>1. \A t \in 1 .. n : \E x \in S : rank[x] = t
    <3> HIDE DEF rank, n
    <3> QED BY <1>7, Fun_SurjectionProperties, Zenon
  <2> QED BY <2>1
<1>9. Cardinality(before[x]) \in Nat /\ Cardinality(before[x]) + 1 = i
  BY <1>1, <1>8, RankIncreases
<1> QED BY <1>9

\* Such a sequence has every element once, in the order.
LEMMA EnumerationRight ==
  ASSUME NEW S, IsFiniteSet(S), NEW before, TotalOrder(S, before), NEW e, Enumerates(e, S, before)
  PROVE  /\ \A x \in S : \E i \in 1 .. Cardinality(S) : e[i] = x
         /\ \A i, j \in 1 .. Cardinality(S) : i < j <=> e[i] \in before[e[j]]
         /\ \A i, j \in 1 .. Cardinality(S) : e[i] = e[j] => i = j
<1> DEFINE n == Cardinality(S)
<1>1. n \in Nat
  BY FS_CardinalityType
<1>2. \A i \in 1 .. n : e[i] \in S /\ Cardinality(before[e[i]]) = i - 1
  BY DEF Enumerates
<1>3. ASSUME NEW x \in S PROVE \E i \in 1 .. n : e[i] = x
  <2> DEFINE i == Cardinality(before[x]) + 1
  <2>1. i \in 1 .. n /\ Cardinality(before[x]) = i - 1
    BY <1>1, RankIncreases
  <2>2. e[i] \in S /\ Cardinality(before[e[i]]) = Cardinality(before[x])
    BY <1>2, <2>1
  <2>3. e[i] \notin before[x] /\ x \notin before[e[i]]
    BY <1>1, <2>2, RankIncreases
  <2>4. e[i] = x
    BY <2>2, <2>3 DEF TotalOrder
  <2> QED BY <2>1, <2>4
<1>4. ASSUME NEW i \in 1 .. n, NEW j \in 1 .. n PROVE i < j <=> e[i] \in before[e[j]]
  <2>1. e[i] \in before[e[j]] <=> Cardinality(before[e[i]]) < Cardinality(before[e[j]])
    BY <1>2, RankIncreases
  <2> QED BY <1>1, <1>2, <2>1
<1>5. ASSUME NEW i \in 1 .. n, NEW j \in 1 .. n, e[i] = e[j] PROVE i = j
  BY <1>1, <1>2, <1>5
<1> QED BY <1>3, <1>4, <1>5

\* Numbers in their order.
LEMMA Ascending ==
  ASSUME NEW S \in SUBSET Int, IsFiniteSet(S)
  PROVE  LET e == InOrderOf(S, LAMBDA i, j : i < j)
             n == Cardinality(S)
         IN /\ n \in Nat /\ e \in [1 .. n -> S]
            /\ \A x \in S : \E i \in 1 .. n : e[i] = x
            /\ \A i, j \in 1 .. n : i < j <=> e[i] < e[j]
            /\ \A i, j \in 1 .. n : e[i] = e[j] => i = j
<1> DEFINE before == [x \in S |-> {y \in S : y < x}]
           e == InOrderOf(S, LAMBDA i, j : i < j)
           n == Cardinality(S)
<1>1. TotalOrder(S, before)
  <2>1. \A x, y \in S : y \in before[x] <=> y < x
    OBVIOUS
  <2>2. \A x \in S : before[x] \subseteq S
    OBVIOUS
  <2> HIDE DEF before
  <2>3. ASSUME NEW x \in S, NEW y \in S, x \in before[y] PROVE before[x] \subseteq before[y]
    <3> SUFFICES ASSUME NEW z \in before[x] PROVE z \in before[y]
      OBVIOUS
    <3>1. z \in S /\ z < x /\ x < y
      BY <2>1, <2>2, <2>3
    <3> QED BY <2>1, <3>1
  <2>4. \A x \in S : before[x] \subseteq S /\ x \notin before[x]
    BY <2>1, <2>2
  <2>5. \A x, y \in S : x # y => x \in before[y] \/ y \in before[x]
    BY <2>1
  <2> QED BY <2>3, <2>4, <2>5 DEF TotalOrder
<1>2. n \in Nat
  BY FS_CardinalityType
<1>3. e = [i \in 1 .. n |-> CHOOSE x \in S : Cardinality({y \in S : y < x}) = i - 1]
  BY DEF InOrderOf
<1> HIDE DEF e
<1>4. ASSUME NEW i \in 1 .. n PROVE e[i] \in S /\ Cardinality(before[e[i]]) = i - 1
  <2>1. \E x \in S : Cardinality(before[x]) = i - 1
    <3> HIDE DEF before
    <3> QED BY <1>1, RankTaken
  <2>2. \E x \in S : Cardinality({y \in S : y < x}) = i - 1
    BY <2>1
  <2>3. e[i] \in S /\ Cardinality({y \in S : y < e[i]}) = i - 1
    BY <1>3, <2>2
  <2> QED BY <2>3
<1>5. Enumerates(e, S, before)
  <2> HIDE DEF before
  <2> QED BY <1>3, <1>4 DEF Enumerates
<1>6. \A i, j \in 1 .. n : e[i] \in before[e[j]] <=> e[i] < e[j]
  BY <1>4
<1> HIDE DEF before
<1>7. /\ \A x \in S : \E i \in 1 .. n : e[i] = x
      /\ \A i, j \in 1 .. n : i < j <=> e[i] \in before[e[j]]
      /\ \A i, j \in 1 .. n : e[i] = e[j] => i = j
  BY <1>1, <1>5, EnumerationRight
<1>8. e \in [1 .. n -> S]
  BY <1>5 DEF Enumerates
<1> QED BY <1>2, <1>6, <1>7, <1>8 DEF e
\* The values of f are in increasing order and are all the numbers below m.
IncreasesOnto(f, n, m) ==
  /\ f \in [1 .. n -> 0 .. m - 1]
  /\ \A i, j \in 1 .. n : i < j => f[i] < f[j]
  /\ \A e \in 0 .. m - 1 : \E j \in 1 .. n : f[j] = e

\* Each of them is at its own place.
LEMMA OwnPlaces ==
  ASSUME NEW n \in Nat, NEW m \in Nat, NEW f, IncreasesOnto(f, n, m)
  PROVE  n = m /\ \A j \in 1 .. n : f[j] = j - 1
<1> USE DEF IncreasesOnto
<1> DEFINE S == {k \in 0 .. n : k > 0 => f[k] = k - 1}
<1>1. 0 \in S
  OBVIOUS
<1>2. ASSUME NEW k \in 0 .. n - 1, k \in S PROVE k + 1 \in S
  <2>1. k + 1 \in 1 .. n /\ k \in 0 .. n /\ f[k + 1] \in 0 .. m - 1
    OBVIOUS
  <2>2. f[k + 1] >= k
    <3>1. CASE k = 0
      BY <2>1, <3>1
    <3>2. CASE k > 0
      <4>1. k \in 1 .. n /\ k < k + 1 /\ f[k] \in 0 .. m - 1
        BY <3>2
      <4>2. f[k] < f[k + 1] /\ f[k] = k - 1
        BY <1>2, <2>1, <3>2, <4>1
      <4> QED BY <2>1, <4>1, <4>2
    <3> QED BY <3>1, <3>2
  <2>3. k \in 0 .. m - 1
    BY <2>1, <2>2
  <2>4. PICK j \in 1 .. n : f[j] = k
    BY <2>3
  <2>5. ~ (k + 1 < j)
    BY <2>1, <2>2, <2>4
  <2>6. ~ (j <= k)
    <3> SUFFICES ASSUME j <= k PROVE FALSE
      OBVIOUS
    <3>1. k \in 1 .. n /\ k > 0
      BY <2>1
    <3>2. f[k] = k - 1 /\ (j = k \/ f[j] < f[k])
      BY <1>2, <3>1
    <3> QED BY <2>4, <3>1, <3>2
  <2>7. j = k + 1
    BY <2>5, <2>6
  <2> QED BY <2>1, <2>4, <2>7
<1>3. 0 .. n \subseteq S
  <2> HIDE DEF S
  <2> QED BY <1>1, <1>2, BoundedInduction
<1>4. \A j \in 1 .. n : f[j] = j - 1
  BY <1>3
<1>5. n <= m
  <2>1. CASE n = 0
    BY <2>1
  <2>2. CASE n > 0
    <3>1. n \in 1 .. n /\ f[n] \in 0 .. m - 1
      BY <2>2
    <3> QED BY <1>4, <3>1
  <2> QED BY <2>1, <2>2
<1>6. m <= n
  <2>1. CASE m = 0
    BY <2>1
  <2>2. CASE m > 0
    <3>1. m - 1 \in 0 .. m - 1
      BY <2>2
    <3>2. PICK j \in 1 .. n : f[j] = m - 1
      BY <3>1
    <3> QED BY <1>4, <3>2
  <2> QED BY <2>1, <2>2
<1> QED BY <1>4, <1>5, <1>6
-----------------------------------------------------------------------------
(* The grid: who owns what. *)

\* Multiplication by a length keeps the order of parts.
LEMMA MulMonotone ==
  ASSUME NEW a \in Nat, NEW b \in Nat, NEW q \in Nat, a <= b
  PROVE  a * q <= b * q
<1>1. PICK c \in Nat : b = a + c
  BY SMT
<1>2. b * q = a * q + c * q /\ c * q \in Nat /\ a * q \in Nat
  BY <1>1, SMT
<1> QED
  BY <1>2, SMT

\* The parts of one dimension start in its beginning and have a length.
LEMMA PartTypes ==
  ASSUME NEW len \in Nat, NEW parts \in Nat \ {0}, NEW k \in 0 .. parts - 1
  PROVE  /\ PerPart(len, parts) \in Nat
         /\ PartStart(len, parts, k) \in Nat
         /\ PartLength(len, parts, k) \in Nat
         /\ PartStart(len, parts, k) + PartLength(len, parts, k) <= len
<1> DEFINE q == len \div parts
<1>1. q \in Nat /\ q * parts <= len
  BY DivBounds
<1> HIDE DEF q
<1>2. k * q \in Nat /\ (parts - 1) * q \in Nat /\ parts * q = (parts - 1) * q + q
  BY <1>1, SMT
<1>3. k # parts - 1 => (k + 1) * q <= parts * q
  <2>1. SUFFICES ASSUME k # parts - 1 PROVE (k + 1) * q <= parts * q
    OBVIOUS
  <2>2. k + 1 \in Nat /\ k + 1 <= parts /\ parts \in Nat
    BY <2>1
  <2> QED
    BY <2>2, <1>1, MulMonotone
<1>4. (k + 1) * q = k * q + q /\ q * parts = parts * q
  BY <1>1, SMT
<1>5. PerPart(len, parts) = q /\ PartStart(len, parts, k) = k * q
  BY DEF PerPart, PartStart, q
<1>6. PartLength(len, parts, k) = IF k = parts - 1 THEN len - (parts - 1) * q ELSE q
  BY DEF PartLength, PerPart, q
<1> QED
  BY <1>1, <1>2, <1>3, <1>4, <1>5, <1>6

\* PartOf names the part whose range holds the element.
LEMMA PartOfRight ==
  ASSUME NEW len \in Nat, NEW parts \in Nat \ {0}, NEW ind \in 0 .. len - 1
  PROVE  /\ PartOf(len, parts, ind) \in 0 .. parts - 1
         /\ ind - PartStart(len, parts, PartOf(len, parts, ind))
              \in 0 .. PartLength(len, parts, PartOf(len, parts, ind)) - 1
<1> DEFINE q == len \div parts
           k == PartOf(len, parts, ind)
<1>1. q \in Nat /\ PerPart(len, parts) = q
  BY DivBounds DEF PerPart
<1>2. CASE q # 0 /\ ind \div q < parts - 1
  <2>1. k = ind \div q
    BY <1>1, <1>2 DEF PartOf
  <2>2. ind \in Nat /\ q \in Nat \ {0}
    BY <1>1, <1>2
  <2>3. ind \div q \in Nat /\ (ind \div q) * q <= ind /\ ind < (ind \div q) * q + q
    BY <2>2, DivBounds
  <2>4. PartStart(len, parts, k) = k * q /\ PartLength(len, parts, k) = q
    BY <1>1, <1>2, <2>1, <2>3 DEF PartStart, PartLength
  <2> HIDE DEF q
  <2> QED
    BY <1>2, <2>1, <2>2, <2>3, <2>4
<1>3. CASE ~(q # 0 /\ ind \div q < parts - 1)
  <2>1. k = parts - 1
    BY <1>1, <1>3 DEF PartOf
  <2>2. PartStart(len, parts, k) = (parts - 1) * q /\ PartLength(len, parts, k) = len - (parts - 1) * q
    BY <1>1, <2>1 DEF PartStart, PartLength
  <2>3. (parts - 1) * q <= ind
    <3>1. CASE q = 0
      BY <3>1, SMT
    <3>2. CASE q # 0
      <4>1. ind \in Nat /\ q \in Nat \ {0}
        BY <1>1, <3>2
      <4>2. ind \div q \in Nat /\ (ind \div q) * q <= ind
        BY <4>1, DivBounds
      <4>3. parts - 1 \in Nat /\ parts - 1 <= ind \div q
        BY <1>3, <3>2, <4>2
      <4>4. (parts - 1) * q <= (ind \div q) * q
        BY <4>1, <4>2, <4>3, MulMonotone
      <4>5. (parts - 1) * q \in Nat /\ (ind \div q) * q \in Nat
        BY <4>1, <4>2, <4>3, SMT
      <4> HIDE DEF q
      <4> QED
        BY <4>1, <4>2, <4>4, <4>5
    <3> QED
      BY <3>1, <3>2
  <2>4. (parts - 1) * q \in Nat
    BY <1>1, SMT
  <2> HIDE DEF q
  <2> QED
    BY <2>1, <2>2, <2>3, <2>4
<1> QED
  BY <1>2, <1>3

\* ... and no other part's range holds it.
LEMMA PartUnique ==
  ASSUME NEW len \in Nat, NEW parts \in Nat \ {0}, NEW k \in 0 .. parts - 1, NEW ind \in Int,
         ind - PartStart(len, parts, k) \in 0 .. PartLength(len, parts, k) - 1
  PROVE  ind \in 0 .. len - 1 /\ PartOf(len, parts, ind) = k
<1> DEFINE q == len \div parts
<1>1. q \in Nat /\ PerPart(len, parts) = q /\ PartStart(len, parts, k) = k * q
  BY DivBounds DEF PerPart, PartStart
<1>2. ind \in 0 .. len - 1
  BY PartTypes
<1>3. k * q \in Nat /\ k * q <= ind
  BY <1>1, <1>2, SMT
<1>4. CASE k # parts - 1
  <2>1. PartLength(len, parts, k) = q
    BY <1>1, <1>4 DEF PartLength
  <2>2. ind < k * q + q /\ q \in Nat \ {0}
    BY <1>1, <1>2, <1>3, <2>1
  <2>3. ind \in Nat
    BY <1>2
  <2>4. ind \div q \in Nat /\ (ind \div q) * q <= ind /\ ind < (ind \div q) * q + q
    BY <2>3, <2>2, DivBounds
  <2>5. ind \div q = k
    <3> DEFINE d == ind \div q
    <3> HIDE DEF d, q
    <3>1. k \in Nat /\ d \in Nat
      BY <2>4 DEF d, q
    <3>2. ASSUME NEW a \in Nat, NEW b \in Nat, a * q <= ind, ind < b * q + q
          PROVE  a <= b
      <4>1. SUFFICES ASSUME b + 1 <= a PROVE FALSE
        BY SMT
      <4>2. (b + 1) * q <= a * q
        BY <4>1, <1>1, MulMonotone
      <4>3. (b + 1) * q = b * q + q /\ b * q \in Nat /\ a * q \in Nat
        BY <1>1, SMT
      <4> QED
        BY <3>2, <4>2, <4>3, <1>2, <1>1
    <3>3. d * q <= ind /\ ind < d * q + q
      BY <2>4 DEF d, q
    <3>4. k <= d /\ d <= k
      BY <3>1, <3>2, <3>3, <1>3, <2>2
    <3>5. d = k
      BY <3>1, <3>4
    <3> QED
      BY <3>5 DEF d, q
  <2> HIDE DEF q
  <2> QED
    BY <1>1, <1>2, <1>4, <2>2, <2>5 DEF PartOf
<1>5. CASE k = parts - 1
  <2>1. ~(q # 0 /\ ind \div q < parts - 1)
    <3>1. SUFFICES ASSUME q # 0, ind \div q < parts - 1 PROVE FALSE
      OBVIOUS
    <3>2. q \in Nat \ {0} /\ ind \in Nat
      BY <1>1, <1>2, <3>1
    <3>3. ind \div q \in Nat /\ ind < (ind \div q) * q + q
      BY <3>2, DivBounds
    <3> DEFINE d == ind \div q
    <3> HIDE DEF d, q
    <3>4. d \in Nat /\ ind < d * q + q /\ d + 1 <= k
      BY <3>1, <3>3, <1>5 DEF d, q
    <3>5. (d + 1) * q <= k * q
      BY <3>4, <1>1, MulMonotone
    <3>6. (d + 1) * q = d * q + q /\ d * q \in Nat
      BY <3>4, <1>1, SMT
    <3> QED
      BY <3>4, <3>5, <3>6, <1>3, <1>1, <1>2
  <2> HIDE DEF q
  <2> QED
    BY <1>1, <1>2, <1>5, <2>1 DEF PartOf
<1> QED
  BY <1>2, <1>4, <1>5

\* The part of a vector that a process row takes has a length (MyRowLength).
LEMMA RowLengthType ==
  ASSUME NEW glen \in Nat, NEW row \in 0 .. ProcRows - 1
  PROVE  MyRowLength(glen, row) \in Nat
  BY PartTypes, GridAssumption DEF MyRowLength

\* A place on the grid has one rank, and the rank's row and column are the place's.
LEMMA RankRight ==
  ASSUME NEW row \in 0 .. ProcRows - 1, NEW col \in 0 .. ProcCols - 1
  PROVE  /\ RankInProcCol(GetRank(row, col)) = row
         /\ RankInProcRow(GetRank(row, col)) = col
         /\ GetRank(row, col) \in Procs
<1> DEFINE rank == row * ProcCols + col
<1>1. row \in Nat /\ col \in Nat /\ ProcCols \in Nat \ {0} /\ row * ProcCols \in Nat
  BY GridAssumption, SMT
<1>2. rank \div ProcCols = row /\ rank % ProcCols = col
  BY <1>1, SMT
<1>3. rank <= ProcRows * ProcCols - 1
  <2>1. row + 1 \in Nat /\ row + 1 <= ProcRows /\ ProcRows \in Nat
    BY GridAssumption
  <2>2. (row + 1) * ProcCols <= ProcRows * ProcCols
    BY <1>1, <2>1, MulMonotone
  <2>3. (row + 1) * ProcCols = row * ProcCols + ProcCols /\ ProcRows * ProcCols \in Nat
    BY <1>1, <2>1, SMT
  <2> QED
    BY <1>1, <2>2, <2>3
<1>4. rank \in 0 .. ProcRows * ProcCols - 1
  BY <1>1, <1>3, GridAssumption, SMT
<1> QED
  BY <1>2, <1>4 DEF GetRank, RankInProcCol, RankInProcRow, Procs

\* A rank has a place on the grid.
LEMMA RankPlace ==
  ASSUME NEW rank \in Procs
  PROVE  /\ RankInProcCol(rank) \in 0 .. ProcRows - 1
         /\ RankInProcRow(rank) \in 0 .. ProcCols - 1
         /\ rank = GetRank(RankInProcCol(rank), RankInProcRow(rank))
<1> DEFINE row == RankInProcCol(rank)
           col == RankInProcRow(rank)
<1>1. rank \in Nat /\ ProcCols \in Nat \ {0} /\ ProcRows * ProcCols \in Nat /\ rank < ProcRows * ProcCols
  BY GridAssumption, SMT DEF Procs
<1>2. row \in Nat /\ row * ProcCols <= rank /\ rank < row * ProcCols + ProcCols
  BY <1>1, DivBounds DEF RankInProcCol
<1>3. col \in 0 .. ProcCols - 1 /\ rank = row * ProcCols + col
  BY <1>1, SMT DEF RankInProcRow, RankInProcCol
<1> HIDE DEF row, col
<1>4. row \in 0 .. ProcRows - 1
  <2>1. SUFFICES ASSUME ProcRows <= row PROVE FALSE
    BY <1>2, GridAssumption
  <2>2. ProcRows * ProcCols <= row * ProcCols
    BY <1>1, <1>2, <2>1, GridAssumption, MulMonotone
  <2>3. row * ProcCols \in Nat
    BY <1>1, <1>2, SMT
  <2> QED
    BY <1>1, <1>2, <2>2, <2>3
<1> QED BY <1>3, <1>4 DEF GetRank, row, col

\* Every element of a vector has an owner on the grid, within whose range it lies: the
\* owner's elements begin at LengthUntil and the local index counts from there
\* (FullyDist::Owner against LengthUntil and MyLocLength).
THEOREM OwnerInRange ==
  ASSUME NEW glen \in Nat, NEW gind \in 0 .. glen - 1
  PROVE  LET place == OwnerPlace(glen, gind)
         IN /\ place.row \in 0 .. ProcRows - 1
            /\ place.col \in 0 .. ProcCols - 1
            /\ place.lind \in 0 .. MyLocLength(glen, place.row, place.col) - 1
            /\ LengthUntil(glen, place.row, place.col) + place.lind = gind
<1> DEFINE row == PartOf(glen, ProcRows, gind)
           n == MyRowLength(glen, row)
           ind == gind - PartStart(glen, ProcRows, row)
           col == PartOf(n, ProcCols, ind)
<1>1. row \in 0 .. ProcRows - 1 /\ ind \in 0 .. n - 1
  BY PartOfRight, GridAssumption DEF MyRowLength
<1>2. n \in Nat
  BY <1>1, RowLengthType
<1>3. PartStart(glen, ProcRows, row) \in Nat
  BY <1>1, PartTypes, GridAssumption
<1>4. OwnerPlace(glen, gind) = [row |-> row, col |-> col, lind |-> ind - PartStart(n, ProcCols, col)]
  BY DEF OwnerPlace, OwnerInRow, PlaceInRow, OwnerWithinRow
<1> HIDE DEF row, n, ind
<1>5. col \in 0 .. ProcCols - 1 /\ ind - PartStart(n, ProcCols, col) \in 0 .. PartLength(n, ProcCols, col) - 1
  BY <1>1, <1>2, PartOfRight, GridAssumption
<1>6. PartStart(n, ProcCols, col) \in Nat
  BY <1>2, <1>5, PartTypes, GridAssumption
<1> HIDE DEF col
<1>7. MyLocLength(glen, row, col) = PartLength(n, ProcCols, col)
  BY DEF MyLocLength, n
<1>8. LengthUntil(glen, row, col) = PartStart(glen, ProcRows, row) + PartStart(n, ProcCols, col)
  BY DEF LengthUntil, RowLenUntil, n
<1>9. gind = PartStart(glen, ProcRows, row) + ind
  BY <1>3 DEF ind
<1> QED
  BY <1>1, <1>3, <1>4, <1>5, <1>6, <1>7, <1>8, <1>9

\* Nobody else owns it: a process whose range holds a global index is the one that
\* FullyDist::Owner names, and the place in its range is the local index.
THEOREM OwnerUnique ==
  ASSUME NEW glen \in Nat, NEW gind \in Int,
         NEW row \in 0 .. ProcRows - 1, NEW col \in 0 .. ProcCols - 1,
         gind - LengthUntil(glen, row, col) \in 0 .. MyLocLength(glen, row, col) - 1
  PROVE  /\ gind \in 0 .. glen - 1
         /\ Owner(glen, gind) = [rank |-> GetRank(row, col), lind |-> gind - LengthUntil(glen, row, col)]
<1> DEFINE n == MyRowLength(glen, row)
           ind == gind - PartStart(glen, ProcRows, row)
<1>1. n \in Nat /\ PartStart(glen, ProcRows, row) \in Nat /\ ProcCols \in Nat \ {0}
  BY RowLengthType, PartTypes, GridAssumption
<1>2. PartStart(n, ProcCols, col) \in Nat
  BY <1>1, PartTypes, GridAssumption
<1>3. LengthUntil(glen, row, col) = PartStart(glen, ProcRows, row) + PartStart(n, ProcCols, col)
  BY DEF LengthUntil, RowLenUntil
<1>4. ind \in Int /\ ind - PartStart(n, ProcCols, col) = gind - LengthUntil(glen, row, col)
  BY <1>1, <1>2, <1>3
<1>5. ind - PartStart(n, ProcCols, col) \in 0 .. PartLength(n, ProcCols, col) - 1
  BY <1>4 DEF MyLocLength
<1>6. ind \in 0 .. n - 1 /\ PartOf(n, ProcCols, ind) = col
  <2> HIDE DEF n, ind
  <2> QED BY <1>1, <1>4, <1>5, PartUnique
<1>7. gind \in 0 .. glen - 1 /\ PartOf(glen, ProcRows, gind) = row
  BY <1>6, PartUnique, GridAssumption DEF MyRowLength
<1>8. OwnerPlace(glen, gind) = [row |-> row, col |-> col, lind |-> ind - PartStart(n, ProcCols, col)]
  BY <1>6, <1>7 DEF OwnerPlace, OwnerInRow, PlaceInRow, OwnerWithinRow
<1> QED
  BY <1>4, <1>7, <1>8 DEF Owner, AtRank

\* On a square grid the complement of a process's complement is the process, so that
\* the exchanges of TransposeVector pair the processes up.
THEOREM ComplementInvolution ==
  ASSUME ProcRows = ProcCols, NEW rank \in Procs
  PROVE  /\ GetComplementRank(rank) \in Procs
         /\ GetComplementRank(GetComplementRank(rank)) = rank
<1> DEFINE row == RankInProcCol(rank)
           col == RankInProcRow(rank)
<1>1. rank \in Nat /\ ProcCols \in Nat \ {0} /\ ProcCols * ProcCols \in Nat /\ rank < ProcCols * ProcCols
  BY GridAssumption, SMT DEF Procs
<1>2. row \in Nat /\ row * ProcCols <= rank /\ rank < row * ProcCols + ProcCols
  BY <1>1, DivBounds DEF RankInProcCol
<1>3. col \in 0 .. ProcCols - 1 /\ rank = row * ProcCols + col
  BY <1>1, SMT DEF RankInProcRow, RankInProcCol
<1> HIDE DEF row, col
<1>4. row \in 0 .. ProcRows - 1
  <2>1. SUFFICES ASSUME ProcCols <= row PROVE FALSE
    BY <1>2, <1>1
  <2>2. ProcCols * ProcCols <= row * ProcCols
    BY <1>1, <1>2, <2>1, MulMonotone
  <2>3. row * ProcCols \in Nat
    BY <1>1, <1>2, SMT
  <2> QED
    BY <1>1, <1>2, <2>2, <2>3
<1>5. GetComplementRank(rank) = GetRank(col, row)
  BY <1>1, <1>2, <1>3, SMT DEF GetComplementRank, GetRank, row, col
<1>6. col \in 0 .. ProcRows - 1 /\ row \in 0 .. ProcCols - 1
  BY <1>3, <1>4
<1>7. /\ RankInProcCol(GetRank(col, row)) = col /\ RankInProcRow(GetRank(col, row)) = row
      /\ GetRank(col, row) \in Procs
  BY <1>6, RankRight
<1>8. GetComplementRank(GetRank(col, row)) = ProcCols * row + col
  BY <1>7 DEF GetComplementRank
<1> QED
  BY <1>1, <1>2, <1>3, <1>5, <1>7, <1>8, SMT
-----------------------------------------------------------------------------
(* Displacements. *)

\* The processes are numbered from 0.
LEMMA ProcsRight ==
  /\ Cardinality(Procs) \in Nat \ {0} /\ IsFiniteSet(Procs)
  /\ Procs = 0 .. Cardinality(Procs) - 1
<1>1. ProcRows * ProcCols \in Nat \ {0}
  BY GridAssumption, SMT
<1> DEFINE n == ProcRows * ProcCols
<1>2. n \in Nat \ {0}
  BY <1>1
<1>3. IsFiniteSet(0 .. n - 1) /\ Cardinality(0 .. n - 1) = n
  <2> HIDE DEF n
  <2>1. 0 \in Int /\ n - 1 \in Int /\ ~(0 > n - 1)
    BY <1>2
  <2>2. IsFiniteSet(0 .. n - 1) /\ Cardinality(0 .. n - 1) = (n - 1) - 0 + 1
    BY <2>1, FS_Interval
  <2> QED BY <1>2, <2>2
<1> QED BY <1>2, <1>3 DEF Procs

\* d[k] is the sum of the first k counts.
Sums(d, counts, n) ==
  /\ d \in [0 .. n -> Nat] /\ d[0] = 0
  /\ \A k \in 0 .. n - 1 : counts[k] \in Nat /\ d[k + 1] = d[k] + counts[k]

\* The place j is one of those that the counts give to q.
InSlot(d, q, j) == d[q] < j /\ j <= d[q + 1]

\* The displacements are the sums.
LEMMA DisplacementsRight ==
  ASSUME NEW counts, \A q \in Procs : counts[q] \in Nat
  PROVE  Sums(Displacements(counts), counts, Cardinality(Procs))
<1> DEFINE n == Cardinality(Procs)
           f == Displacements(counts)
           F == [k \in 1 .. n |-> [i \in Nat |-> i + counts[k - 1]]]
           Body(g) == [k \in 0 .. n |-> IF k = 0 THEN 0 ELSE g[k - 1] + counts[k - 1]]
<1>1. n \in Nat /\ 0 \in Nat /\ \A k \in 1 .. n : counts[k - 1] \in Nat
  BY ProcsRight
<1>2. F \in [1 .. n -> [Nat -> Nat]]
  <2> HIDE DEF n
  <2>1. \A k \in 1 .. n : [i \in Nat |-> i + counts[k - 1]] \in [Nat -> Nat]
    BY <1>1
  <2> QED BY <2>1
<1>3. PICK g : Follows(g, n, Nat, 0, F)
  <2> HIDE DEF F, n
  <2> QED BY <1>1, <1>2, PrimitiveRecursion, Zenon
<1> HIDE DEF n
<1>4. \A k \in 1 .. n : g[k] = g[k - 1] + counts[k - 1]
  <2> SUFFICES ASSUME NEW k \in 1 .. n PROVE g[k] = g[k - 1] + counts[k - 1]
    OBVIOUS
  <2>1. g[k - 1] \in Nat
    BY <1>1, <1>3 DEF Follows
  <2> QED BY <1>3, <2>1 DEF Follows
<1>5. g = Body(g)
  BY <1>3, <1>4 DEF Follows
<1>6. f = CHOOSE h : h = Body(h)
  BY DEF Displacements, n
<1>7. f = Body(f)
  <2>1. \E h : h = Body(h)
    <3> HIDE DEF Body
    <3> QED BY <1>5, Zenon
  <2> QED BY <1>6, <2>1, Zenon
<1> HIDE DEF f, F
<1>8. f[0] = 0
  BY <1>1, <1>7
<1>9. ASSUME NEW k \in 0 .. n - 1 PROVE f[k + 1] = f[k] + counts[k]
  <2>1. k + 1 \in 0 .. n /\ k + 1 # 0 /\ (k + 1) - 1 = k
    BY <1>1
  <2>2. Body(f)[k + 1] = f[k] + counts[k]
    BY <2>1
  <2> HIDE DEF Body
  <2> QED BY <1>7, <2>2, Zenon
<1> DEFINE S == {k \in 0 .. n : f[k] \in Nat}
<1>10. 0 \in S
  BY <1>1, <1>8
<1>11. ASSUME NEW k \in 0 .. n - 1, k \in S PROVE k + 1 \in S
  <2>1. k + 1 \in 0 .. n /\ k + 1 \in 1 .. n /\ (k + 1) - 1 = k
    BY <1>1
  <2>2. counts[k] \in Nat
    BY <1>1, <2>1
  <2> QED BY <1>9, <1>11, <2>1, <2>2
<1>12. 0 .. n \subseteq S
  <2> HIDE DEF S
  <2> QED BY <1>1, <1>10, <1>11, BoundedInduction
<1>13. DOMAIN f = 0 .. n
  BY <1>7
<1>14. f = [k \in 0 .. n |-> f[k]]
  <2>1. Body(f) = [k \in 0 .. n |-> Body(f)[k]]
    OBVIOUS
  <2> HIDE DEF Body
  <2> QED BY <1>7, <2>1, Zenon
<1>15. f \in [0 .. n -> Nat]
  BY <1>12, <1>14
<1>16. \A k \in 0 .. n - 1 : counts[k] \in Nat
  BY ProcsRight DEF n
<1>17. Sums(f, counts, n)
  <2> HIDE DEF Body
  <2> QED BY <1>8, <1>9, <1>15, <1>16 DEF Sums
<1> QED BY <1>17 DEF f, n

\* The sums grow.
LEMMA SumsGrow ==
  ASSUME NEW n \in Nat, NEW counts, NEW d, Sums(d, counts, n), NEW i \in 0 .. n
  PROVE  \A k \in i .. n : d[i] <= d[k]
<1> DEFINE S == {e \in 0 .. n - i : d[i] <= d[i + e]}
<1>1. \A k \in 0 .. n : d[k] \in Nat
  BY DEF Sums
<1>2. 0 \in S
  BY <1>1
<1>3. ASSUME NEW e \in 0 .. (n - i) - 1, e \in S PROVE e + 1 \in S
  <2>1. i + e \in 0 .. n - 1 /\ i + (e + 1) = (i + e) + 1 /\ i + e \in 0 .. n /\ (i + e) + 1 \in 0 .. n
    OBVIOUS
  <2>2. d[(i + e) + 1] = d[i + e] + counts[i + e] /\ counts[i + e] \in Nat
    BY <2>1 DEF Sums
  <2>3. d[i] <= d[i + e] /\ d[i] \in Nat /\ d[i + e] \in Nat
    BY <1>1, <1>3, <2>1
  <2>4. d[i] <= d[i + (e + 1)]
    BY <2>1, <2>2, <2>3
  <2> QED BY <2>1, <2>4
<1>4. n - i \in Nat
  OBVIOUS
<1>5. 0 .. n - i \subseteq S
  <2> DEFINE m == n - i
  <2>1. m \in Nat /\ \A e \in 0 .. m - 1 : e \in S => e + 1 \in S
    BY <1>3, <1>4
  <2> HIDE DEF S, m
  <2>2. 0 .. m \subseteq S
    BY <1>2, <2>1, BoundedInduction
  <2> QED BY <2>2 DEF m
<1>6. ASSUME NEW k \in i .. n PROVE d[i] <= d[k]
  <2>1. k - i \in 0 .. n - i /\ i + (k - i) = k
    OBVIOUS
  <2>2. k - i \in S
    BY <1>5, <2>1
  <2> QED BY <2>1, <2>2
<1> QED BY <1>6

\* Every place up to the sum of all is given to one, and the lower of two have lower places.
LEMMA SlotsRight ==
  ASSUME NEW n \in Nat, NEW counts, NEW d, Sums(d, counts, n)
  PROVE  /\ \A j \in 1 .. d[n] : \E q \in 0 .. n - 1 : InSlot(d, q, j)
         /\ \A q \in 0 .. n - 1, j \in Int : InSlot(d, q, j) => j \in 1 .. d[n]
         /\ \A q, r \in 0 .. n - 1, i, j \in Int : InSlot(d, q, i) /\ InSlot(d, r, j) /\ q < r => i < j
<1>1. \A k \in 0 .. n : d[k] \in Nat
  BY DEF Sums
<1>2. ASSUME NEW j \in 1 .. d[n] PROVE \E q \in 0 .. n - 1 : InSlot(d, q, j)
  <2> DEFINE S == {k \in 0 .. n : d[k] < j}
  <2> SUFFICES ASSUME \A q \in 0 .. n - 1 : ~ InSlot(d, q, j) PROVE FALSE
    OBVIOUS
  <2>1. 0 \in S
    BY DEF Sums
  <2>2. ASSUME NEW k \in 0 .. n - 1, k \in S PROVE k + 1 \in S
    <3>1. k + 1 \in 0 .. n /\ d[k + 1] \in Nat
      BY <1>1
    <3>2. ~ (j <= d[k + 1])
      BY <2>2 DEF InSlot
    <3> QED BY <3>1, <3>2
  <2>3. 0 .. n \subseteq S
    <3> HIDE DEF S
    <3> QED BY <2>1, <2>2, BoundedInduction
  <2> QED BY <1>1, <2>3
<1>3. ASSUME NEW q \in 0 .. n - 1, NEW j \in Int, InSlot(d, q, j) PROVE j \in 1 .. d[n]
  <2>1. q + 1 \in 0 .. n /\ n \in (q + 1) .. n /\ q \in 0 .. n
    OBVIOUS
  <2>2. d[q + 1] <= d[n]
    BY <2>1, SumsGrow
  <2> QED BY <1>1, <1>3, <2>1, <2>2 DEF InSlot
<1>4. ASSUME NEW q \in 0 .. n - 1, NEW r \in 0 .. n - 1, NEW i \in Int, NEW j \in Int,
             InSlot(d, q, i), InSlot(d, r, j), q < r
      PROVE  i < j
  <2>1. q + 1 \in 0 .. n /\ r \in (q + 1) .. n /\ r \in 0 .. n
    BY <1>4
  <2>2. d[q + 1] <= d[r]
    BY <2>1, SumsGrow
  <2> QED BY <1>1, <1>4, <2>1, <2>2 DEF InSlot
<1> QED BY <1>2, <1>3, <1>4
-----------------------------------------------------------------------------
(* Concatenation. *)

\* Sequences one after the other (SequencesExt!FlattenSeq where there is one).
Concatenation(seqs) ==
  LET f[k \in 1 .. Len(seqs)] == IF k = 1 THEN seqs[k] ELSE f[k - 1] \o seqs[k]
  IN f[Len(seqs)]

\* The sums of the lengths of n sequences; and a sequence in which each begins where they say.
LengthsSum(seqs, d, n) ==
  /\ seqs = [k \in 1 .. n |-> seqs[k]] /\ \A k \in 1 .. n : IsSequence(seqs[k])
  /\ Sums(d, [q \in 0 .. n - 1 |-> Len(seqs[q + 1])], n)
OneAfterAnother(c, seqs, d, n) ==
  /\ c = [j \in 1 .. d[n] |-> c[j]]
  /\ \A q \in 0 .. n - 1 : \A i \in 1 .. Len(seqs[q + 1]) : c[d[q] + i] = seqs[q + 1][i]

\* That is what the concatenation is.
LEMMA ConcatenationRight ==
  ASSUME NEW n \in Nat \ {0}, NEW seqs, NEW d, LengthsSum(seqs, d, n)
  PROVE  OneAfterAnother(Concatenation(seqs), seqs, d, n)
<1>0. /\ seqs = [k \in 1 .. n |-> seqs[k]] /\ \A k \in 1 .. n : IsSequence(seqs[k])
      /\ Sums(d, [q \in 0 .. n - 1 |-> Len(seqs[q + 1])], n)
  BY DEF LengthsSum
<1> DEFINE counts == [q \in 0 .. n - 1 |-> Len(seqs[q + 1])]
           m == n - 1
           S == UNION {{seqs[k][i] : i \in 1 .. Len(seqs[k])} : k \in 1 .. n}
           F == [k \in 1 .. m |-> [c \in Seq(S) |-> c \o seqs[k + 1]]]
           Body(h) == [k \in 1 .. n |-> IF k = 1 THEN seqs[k] ELSE h[k - 1] \o seqs[k]]
           f == CHOOSE h : h = Body(h)
<1>1. m \in Nat /\ Len(seqs) = n
  BY <1>0 DEF m
<1>2. \A q \in 0 .. n - 1 : q + 1 \in 1 .. n /\ counts[q] \in Nat /\ counts[q] = Len(seqs[q + 1])
  <2> SUFFICES ASSUME NEW q \in 0 .. n - 1 PROVE q + 1 \in 1 .. n /\ counts[q] \in Nat /\ counts[q] = Len(seqs[q + 1])
    OBVIOUS
  <2>1. q + 1 \in 1 .. n
    OBVIOUS
  <2>2. IsSequence(seqs[q + 1])
    BY <1>0, <2>1
  <2>3. counts[q] = Len(seqs[q + 1])
    OBVIOUS
  <2> HIDE DEF counts
  <2> QED BY <2>1, <2>2, <2>3 DEF IsSequence
<1>3. Sums(d, counts, n)
  BY <1>0
<1>5. \A k \in 1 .. n : seqs[k] \in Seq(S) /\ Len(seqs[k]) = counts[k - 1]
  <2> SUFFICES ASSUME NEW k \in 1 .. n PROVE seqs[k] \in Seq(S) /\ Len(seqs[k]) = counts[k - 1]
    OBVIOUS
  <2>1. \A i \in 1 .. Len(seqs[k]) : seqs[k][i] \in S
    OBVIOUS
  <2>2. Len(seqs[k]) \in Nat /\ seqs[k] = [i \in 1 .. Len(seqs[k]) |-> seqs[k][i]]
    BY <1>0 DEF IsSequence
  <2>3. k - 1 \in 0 .. n - 1 /\ (k - 1) + 1 = k
    OBVIOUS
  <2>4. Len(seqs[k]) = counts[k - 1]
    BY <1>2, <2>3
  <2> HIDE DEF S, counts
  <2> QED BY <2>1, <2>2, <2>4
<1> HIDE DEF S, counts, m
<1>6. \A k \in 1 .. m : k + 1 \in 1 .. n
  BY <1>1 DEF m
<1>7. F \in [1 .. m -> [Seq(S) -> Seq(S)]]
  <2> SUFFICES ASSUME NEW k \in 1 .. m, NEW c \in Seq(S) PROVE c \o seqs[k + 1] \in Seq(S)
    OBVIOUS
  <2> QED BY <1>5, <1>6
<1>8. seqs[1] \in Seq(S)
  BY <1>1, <1>5
<1>9. PICK g : Follows(g, m, Seq(S), seqs[1], F)
  <2> HIDE DEF F
  <2> QED BY <1>1, <1>7, <1>8, PrimitiveRecursion, Zenon
<1> DEFINE h == [k \in 1 .. n |-> g[k - 1]]
<1>10. h = Body(h)
  <2>1. ASSUME NEW k \in 1 .. n PROVE h[k] = IF k = 1 THEN seqs[k] ELSE h[k - 1] \o seqs[k]
    <3>1. CASE k = 1
      BY <1>9, <3>1 DEF Follows
    <3>2. CASE k # 1
      <4>1. k - 1 \in 1 .. n /\ k - 1 \in 1 .. m /\ (k - 1) - 1 \in 0 .. m /\ (k - 1) + 1 = k
        BY <1>1, <3>2 DEF m
      <4>2. g[(k - 1) - 1] \in Seq(S) /\ g[k - 1] = F[k - 1][g[(k - 1) - 1]]
        BY <1>9, <4>1 DEF Follows
      <4>3. g[k - 1] = g[(k - 1) - 1] \o seqs[k]
        BY <4>1, <4>2
      <4> QED BY <3>2, <4>1, <4>3
    <3> QED BY <3>1, <3>2
  <2> HIDE DEF h
  <2>2. h = [k \in 1 .. n |-> h[k]]
    BY DEF h
  <2> QED BY <2>1, <2>2
<1>11. f = Body(f)
  <2>1. \E e : e = Body(e)
    <3> HIDE DEF Body, h
    <3> QED BY <1>10, Zenon
  <2> QED BY <2>1, Zenon
<1>12. Concatenation(seqs) = f[n]
  BY <1>1 DEF Concatenation
<1> HIDE DEF f
<1>13. ASSUME NEW k \in 1 .. n PROVE f[k] = IF k = 1 THEN seqs[k] ELSE f[k - 1] \o seqs[k]
  <2>1. Body(f)[k] = IF k = 1 THEN seqs[k] ELSE f[k - 1] \o seqs[k]
    OBVIOUS
  <2> HIDE DEF Body
  <2> QED BY <1>11, <2>1, Zenon
<1> DEFINE Holds(k) == /\ f[k + 1] \in Seq(S) /\ Len(f[k + 1]) = d[k + 1]
                       /\ \A q \in 0 .. k : \A i \in 1 .. counts[q] : f[k + 1][d[q] + i] = seqs[q + 1][i]
           T == {k \in 0 .. m : Holds(k)}
<1>14. 0 \in T
  <2>1. 1 \in 1 .. n /\ 0 \in 0 .. m /\ 0 \in 0 .. n - 1
    BY <1>1
  <2>2. f[1] = seqs[1] /\ seqs[1] = seqs[0 + 1] /\ seqs[1] \in Seq(S) /\ Len(seqs[1]) = counts[0]
    BY <1>5, <1>13, <2>1
  <2>3. d[0] = 0 /\ d[0 + 1] = d[0] + counts[0] /\ counts[0] \in Nat
    BY <1>3, <2>1 DEF Sums
  <2>4. Len(f[0 + 1]) = d[0 + 1]
    BY <2>2, <2>3
  <2>5. \A q \in 0 .. 0 : \A i \in 1 .. counts[q] : f[0 + 1][d[q] + i] = seqs[q + 1][i]
    BY <2>2, <2>3
  <2> QED BY <2>1, <2>2, <2>4, <2>5
<1>15. ASSUME NEW k \in 0 .. m - 1, k \in T PROVE k + 1 \in T
  <2> DEFINE s == f[k + 1]
             t == seqs[k + 2]
  <2>1. k + 2 \in 1 .. n /\ (k + 2) - 1 = k + 1 /\ k + 2 # 1 /\ (k + 1) + 1 = k + 2 /\ k + 1 \in 0 .. m
        /\ k + 1 \in 0 .. n - 1
    BY <1>1 DEF m
  <2>2. f[k + 2] = s \o t
    BY <1>13, <2>1
  <2>3. t = seqs[(k + 1) + 1] /\ t \in Seq(S) /\ Len(t) = counts[k + 1]
    BY <1>5, <2>1
  <2>4. Holds(k)
    BY <1>15
  <2> DEFINE k1 == k + 1
             k2 == k + 2
  <2>5. d[k2] = d[k1] + counts[k1] /\ d[k1] \in Nat /\ counts[k1] \in Nat
    <3>1. k1 \in 0 .. n - 1 /\ k1 \in 0 .. n /\ k1 + 1 = k2
      BY <1>1, <2>1
    <3> HIDE DEF k1, k2
    <3>2. d[k1 + 1] = d[k1] + counts[k1] /\ counts[k1] \in Nat /\ d[k1] \in Nat
      BY <1>3, <3>1 DEF Sums
    <3> QED BY <3>1, <3>2
  <2> HIDE DEF s, t
  <2>6. s \in Seq(S) /\ Len(s) = d[k + 1]
    BY <2>4 DEF s
  <2>7. s \o t \in Seq(S) /\ Len(s \o t) = d[k2]
    BY <2>3, <2>5, <2>6, SMTT(30)
  <2>8. ASSUME NEW q \in 0 .. k + 1, NEW i \in 1 .. counts[q] PROVE (s \o t)[d[q] + i] = seqs[q + 1][i]
    <3>1. CASE q = k + 1
      <4>1. i \in 1 .. Len(t) /\ counts[q] = Len(t) /\ d[q] = Len(s)
        BY <2>3, <2>6, <3>1
      <4>2. (s \o t)[Len(s) + i] = t[i]
        BY <2>3, <2>6, <4>1, SMTT(30)
      <4> QED BY <2>3, <3>1, <4>1, <4>2
    <3>2. CASE q # k + 1
      <4>1. q \in 0 .. k /\ q \in 0 .. n - 1 /\ q \in 0 .. n /\ q + 1 \in 0 .. n /\ k + 1 \in (q + 1) .. n
        BY <1>1, <2>1, <3>2 DEF m
      <4>2. d[q] \in Nat /\ d[q + 1] = d[q] + counts[q] /\ counts[q] \in Nat
        BY <1>3, <4>1 DEF Sums
      <4>3. d[q + 1] <= d[k + 1]
        BY <1>1, <1>3, <4>1, SumsGrow
      <4>4. d[q] + i \in 1 .. Len(s)
        BY <2>5, <2>6, <4>2, <4>3, SMTT(30)
      <4>5. (s \o t)[d[q] + i] = s[d[q] + i]
        BY <2>3, <2>6, <4>4
      <4>6. s[d[q] + i] = seqs[q + 1][i]
        BY <2>4, <4>1 DEF s
      <4> QED BY <4>5, <4>6
    <3> QED BY <3>1, <3>2
  <2>9. f[k1 + 1] = s \o t /\ k1 + 1 = k2
    BY <2>1, <2>2
  <2>10. Holds(k1)
    <3>1. \A q \in 0 .. k1 : \A i \in 1 .. counts[q] : (s \o t)[d[q] + i] = seqs[q + 1][i]
      BY <2>8
    <3> HIDE DEF k1, k2
    <3>2. f[k1 + 1] \in Seq(S) /\ Len(f[k1 + 1]) = d[k1 + 1]
      <4>1. d[k1 + 1] = d[k2]
        BY <2>9, Zenon
      <4> QED BY <2>7, <2>9, <4>1, Zenon
    <3>3. \A q \in 0 .. k1 : \A i \in 1 .. counts[q] : f[k1 + 1][d[q] + i] = seqs[q + 1][i]
      BY <2>9, <3>1, Zenon
    <3> QED BY <3>2, <3>3, Zenon
  <2> QED BY <2>1, <2>10
<1>16. 0 .. m \subseteq T
  <2> HIDE DEF T
  <2> QED BY <1>1, <1>14, <1>15, BoundedInduction
<1>17. Holds(m) /\ m + 1 = n /\ 0 .. m = 0 .. n - 1
  <2>1. m + 1 = n /\ m \in 0 .. m
    BY <1>1 DEF m
  <2>2. n - 1 = m
    BY DEF m
  <2> HIDE DEF m
  <2>3. m \in T
    BY <1>16, <2>1, Zenon
  <2>4. Holds(m)
    BY <2>3, Zenon DEF T
  <2> QED BY <2>1, <2>2, <2>4, Zenon
<1>18. f[n] = [j \in 1 .. d[n] |-> f[n][j]]
  BY <1>17
<1>19. \A q \in 0 .. n - 1 : \A i \in 1 .. Len(seqs[q + 1]) : f[n][d[q] + i] = seqs[q + 1][i]
  BY <1>2, <1>17
<1> HIDE DEF T, Holds, F, Body, h
<1> DEFINE c == Concatenation(seqs)
<1>20. c = [j \in 1 .. d[n] |-> c[j]]
  BY <1>12, <1>18, Zenon
<1>21. \A q \in 0 .. n - 1 : \A i \in 1 .. Len(seqs[q + 1]) : c[d[q] + i] = seqs[q + 1][i]
  BY <1>12, <1>19, Zenon
<1> HIDE DEF c
<1> QED BY <1>20, <1>21, Zenon DEF c, OneAfterAnother

\* Numbers have partial sums.
LEMMA SumsExist ==
  ASSUME NEW n \in Nat, NEW counts, \A q \in 0 .. n - 1 : counts[q] \in Nat
  PROVE  \E d : Sums(d, counts, n)
<1> DEFINE F == [k \in 1 .. n |-> [x \in Nat |-> x + counts[k - 1]]]
<1>1. F \in [1 .. n -> [Nat -> Nat]]
  <2> SUFFICES ASSUME NEW k \in 1 .. n, NEW x \in Nat PROVE x + counts[k - 1] \in Nat
    OBVIOUS
  <2>1. k - 1 \in 0 .. n - 1
    OBVIOUS
  <2> QED BY <2>1
<1>2. PICK d : Follows(d, n, Nat, 0, F)
  <2> HIDE DEF F
  <2> QED BY <1>1, PrimitiveRecursion
<1>3. d \in [0 .. n -> Nat] /\ d[0] = 0 /\ \A k \in 1 .. n : d[k] = F[k][d[k - 1]]
  BY <1>2 DEF Follows
<1>4. ASSUME NEW q \in 0 .. n - 1 PROVE d[q + 1] = d[q] + counts[q]
  <2>1. q + 1 \in 1 .. n /\ (q + 1) - 1 = q /\ d[q] \in Nat
    BY <1>3
  <2> QED BY <1>3, <2>1
<1> QED BY <1>3, <1>4 DEF Sums

-----------------------------------------------------------------------------
(* Listings: sequences that have the elements of a set, each once. *)

Lists(s, S) ==
  /\ IsSequence(s)
  /\ \A i \in 1 .. Len(s) : s[i] \in S
  /\ \A x \in S : \E i \in 1 .. Len(s) : s[i] = x
  /\ \A i, j \in 1 .. Len(s) : s[i] = s[j] => i = j

\* Ascending in a number that each element has.
AscendsBy(s, key) ==
  /\ \A i \in 1 .. Len(s) : key[s[i]] \in Int
  /\ \A i, j \in 1 .. Len(s) : i < j => key[s[i]] <= key[s[j]]

\* The elements of two sequences, one after the other.
LEMMA Chained ==
  ASSUME NEW s, IsSequence(s), NEW t, IsSequence(t)
  PROVE  /\ IsSequence(s \o t) /\ Len(s \o t) = Len(s) + Len(t) /\ Len(s) \in Nat /\ Len(t) \in Nat
         /\ \A k \in 1 .. Len(s) : (s \o t)[k] = s[k]
         /\ \A k \in 1 .. Len(t) : (s \o t)[Len(s) + k] = t[k]
         /\ \A k \in 1 .. Len(s \o t) : k \in 1 .. Len(s) \/ (k - Len(s) \in 1 .. Len(t) /\ (s \o t)[k] = t[k - Len(s)])
<1> DEFINE S == {s[k] : k \in 1 .. Len(s)} \cup {t[k] : k \in 1 .. Len(t)}
<1>1. s \in Seq(S) /\ t \in Seq(S)
  <2>1. \A k \in 1 .. Len(s) : s[k] \in S
    OBVIOUS
  <2>2. \A k \in 1 .. Len(t) : t[k] \in S
    OBVIOUS
  <2> HIDE DEF S
  <2> QED BY <2>1, <2>2 DEF IsSequence
<1> HIDE DEF S
<1>2. /\ s \o t \in Seq(S) /\ Len(s \o t) = Len(s) + Len(t) /\ Len(s) \in Nat /\ Len(t) \in Nat
      /\ \A k \in 1 .. Len(s) : (s \o t)[k] = s[k]
      /\ \A k \in 1 .. Len(t) : (s \o t)[Len(s) + k] = t[k]
  BY <1>1
<1>3. ASSUME NEW k \in 1 .. Len(s \o t)
      PROVE  k \in 1 .. Len(s) \/ (k - Len(s) \in 1 .. Len(t) /\ (s \o t)[k] = t[k - Len(s)])
  <2>1. CASE k <= Len(s)
    BY <1>2, <2>1
  <2>2. CASE k > Len(s)
    <3>1. k - Len(s) \in 1 .. Len(t) /\ Len(s) + (k - Len(s)) = k
      BY <1>2, <2>2
    <3> QED BY <1>2, <3>1
  <2> QED BY <1>2, <2>1, <2>2
<1> QED BY <1>2, <1>3, TypedIsSequence

\* They list the two sets, if they have nothing in common.
LEMMA ListsChained ==
  ASSUME NEW S, NEW s, Lists(s, S), NEW T, NEW t, Lists(t, T), S \cap T = {}
  PROVE  Lists(s \o t, S \cup T)
<1> DEFINE c == s \o t
<1>1. IsSequence(s) /\ IsSequence(t)
  BY DEF Lists
<1>2. /\ IsSequence(c) /\ Len(c) = Len(s) + Len(t) /\ Len(s) \in Nat /\ Len(t) \in Nat
      /\ \A k \in 1 .. Len(s) : c[k] = s[k]
      /\ \A k \in 1 .. Len(t) : c[Len(s) + k] = t[k]
      /\ \A k \in 1 .. Len(c) : k \in 1 .. Len(s) \/ (k - Len(s) \in 1 .. Len(t) /\ c[k] = t[k - Len(s)])
  BY <1>1, Chained
<1> HIDE DEF c
<1>3. \A i \in 1 .. Len(c) : c[i] \in S \cup T
  BY <1>2, ZenonT(30) DEF Lists
<1>4. ASSUME NEW x \in S \cup T PROVE \E i \in 1 .. Len(c) : c[i] = x
  <2>1. CASE x \in S
    <3>1. PICK i \in 1 .. Len(s) : s[i] = x
      BY <2>1 DEF Lists
    <3> QED BY <1>2, <3>1
  <2>2. CASE x \in T
    <3>1. PICK i \in 1 .. Len(t) : t[i] = x
      BY <2>2 DEF Lists
    <3>2. Len(s) + i \in 1 .. Len(c)
      BY <1>2
    <3> QED BY <1>2, <3>1, <3>2
  <2> QED BY <2>1, <2>2
<1>5. ASSUME NEW i \in 1 .. Len(c), NEW j \in 1 .. Len(c), c[i] = c[j] PROVE i = j
  <2>1. CASE i \in 1 .. Len(s) /\ j \in 1 .. Len(s)
    BY <1>2, <1>5, <2>1 DEF Lists
  <2>2. CASE i \notin 1 .. Len(s) /\ j \notin 1 .. Len(s)
    <3>1. /\ i - Len(s) \in 1 .. Len(t) /\ c[i] = t[i - Len(s)]
          /\ j - Len(s) \in 1 .. Len(t) /\ c[j] = t[j - Len(s)]
      BY <1>2, <2>2
    <3>2. i - Len(s) = j - Len(s)
      BY <1>5, <3>1 DEF Lists
    <3> QED BY <1>2, <3>2
  <2>3. ASSUME NEW k \in 1 .. Len(c), k \in 1 .. Len(s), NEW m \in 1 .. Len(c), m \notin 1 .. Len(s), c[k] = c[m] PROVE FALSE
    <3>1. m - Len(s) \in 1 .. Len(t) /\ c[m] = t[m - Len(s)]
      BY <1>2, <2>3
    <3>2. c[m] \in T /\ c[k] \in S
      BY <1>2, <2>3, <3>1 DEF Lists
    <3> QED BY <2>3, <3>2
  <2> QED BY <1>5, <2>1, <2>2, <2>3
<1> QED BY <1>2, <1>3, <1>4, <1>5 DEF Lists, c

\* And they ascend, if no element of the first is above one of the second.
LEMMA AscendsChained ==
  ASSUME NEW key, NEW s, IsSequence(s), AscendsBy(s, key), NEW t, IsSequence(t), AscendsBy(t, key),
         \A i \in 1 .. Len(s), j \in 1 .. Len(t) : key[s[i]] <= key[t[j]]
  PROVE  AscendsBy(s \o t, key)
<1> DEFINE c == s \o t
<1>2. /\ IsSequence(c) /\ Len(c) = Len(s) + Len(t) /\ Len(s) \in Nat /\ Len(t) \in Nat
      /\ \A k \in 1 .. Len(s) : c[k] = s[k]
      /\ \A k \in 1 .. Len(c) : k \in 1 .. Len(s) \/ (k - Len(s) \in 1 .. Len(t) /\ c[k] = t[k - Len(s)])
  BY Chained
<1> HIDE DEF c
<1>3. \A i \in 1 .. Len(c) : key[c[i]] \in Int
  BY <1>2 DEF AscendsBy
<1>4. ASSUME NEW i \in 1 .. Len(c), NEW j \in 1 .. Len(c), i < j PROVE key[c[i]] <= key[c[j]]
  <2>1. CASE j \in 1 .. Len(s)
    <3>1. i \in 1 .. Len(s)
      BY <1>2, <1>4, <2>1
    <3> QED BY <1>2, <1>4, <2>1, <3>1 DEF AscendsBy
  <2>2. CASE j \notin 1 .. Len(s)
    <3>1. j - Len(s) \in 1 .. Len(t) /\ c[j] = t[j - Len(s)]
      BY <1>2, <2>2
    <3>2. CASE i \in 1 .. Len(s)
      BY <1>2, <3>1, <3>2
    <3>3. CASE i \notin 1 .. Len(s)
      <4>1. i - Len(s) \in 1 .. Len(t) /\ c[i] = t[i - Len(s)] /\ i - Len(s) < j - Len(s)
        BY <1>2, <1>4, <3>3
      <4> QED BY <3>1, <4>1 DEF AscendsBy
    <3> QED BY <3>2, <3>3
  <2> QED BY <2>1, <2>2
<1> QED BY <1>3, <1>4 DEF AscendsBy, c

\* A listing is as long as its set is large.
LEMMA ListsCounted ==
  ASSUME NEW s, NEW R, Lists(s, R)
  PROVE  IsFiniteSet(R) /\ Cardinality(R) = Len(s)
<1> DEFINE n == Len(s)
<1>1. n \in Nat /\ s = [i \in 1 .. n |-> s[i]]
  BY DEF Lists, IsSequence
<1>2. /\ \A i \in 1 .. n : s[i] \in R
      /\ \A x \in R : \E i \in 1 .. n : s[i] = x
      /\ \A i, j \in 1 .. n : s[i] = s[j] => i = j
  BY DEF Lists
<1>3. IsFiniteSet(1 .. n) /\ Cardinality(1 .. n) = n
  <2> HIDE DEF n
  <2>1. 1 \in Int /\ n \in Int /\ (IF 1 > n THEN 0 ELSE n - 1 + 1) = n
    BY <1>1
  <2> QED BY <2>1, FS_Interval
<1> HIDE DEF n
<1>4. s \in [1 .. n -> R]
  BY <1>1, <1>2
<1>5. s \in Bijection(1 .. n, R)
  <2>1. s \in Injection(1 .. n, R)
    BY <1>2, <1>4 DEF Injection, IsInjective
  <2>2. s \in Surjection(1 .. n, R)
    BY <1>2, <1>4 DEF Surjection
  <2> QED BY <2>1, <2>2 DEF Bijection
<1>6. ExistsBijection(1 .. n, R)
  BY <1>5 DEF ExistsBijection
<1> QED BY <1>3, <1>6, FS_Bijection DEF n

\* The elements at some places of a sequence.
LEMMA AtRight ==
  ASSUME NEW s, IsSequence(s), NEW places \in SUBSET (1 .. Len(s))
  PROVE  LET c == AtPlaces(s, places)
         IN /\ IsSequence(c)
            /\ \A k \in 1 .. Len(c) : \E i \in places : c[k] = s[i]
            /\ \A S : Lists(s, S) => Lists(c, {s[i] : i \in places})
            /\ \A key : AscendsBy(s, key) => AscendsBy(c, key)
<1> DEFINE place == InOrderOf(places, LAMBDA i, j : i < j)
           n == Cardinality(places)
           c == AtPlaces(s, places)
<1>0. Len(s) \in Nat
  BY DEF IsSequence
<1>1. places \in SUBSET Int /\ IsFiniteSet(places)
  <2>1. IsFiniteSet(1 .. Len(s)) /\ 1 .. Len(s) \subseteq Int
    BY <1>0, FS_Interval
  <2>2. IsFiniteSet(places)
    BY <2>1, FS_Subset, Zenon
  <2> QED BY <2>1, <2>2
<1>2. /\ n \in Nat /\ place \in [1 .. n -> places]
      /\ \A x \in places : \E i \in 1 .. n : place[i] = x
      /\ \A i, j \in 1 .. n : i < j <=> place[i] < place[j]
      /\ \A i, j \in 1 .. n : place[i] = place[j] => i = j
  BY <1>1, Ascending
<1>3. c = [k \in 1 .. n |-> s[place[k]]]
  <2>1. c = [k \in DOMAIN place |-> s[place[k]]]
    BY Zenon DEF AtPlaces
  <2> HIDE DEF place
  <2> QED BY <1>2, <2>1
<1> HIDE DEF place, c, n
<1>4. IsSequence(c) /\ Len(c) = n
  <2> DEFINE S == {s[i] : i \in places}
  <2>1. c \in [1 .. n -> S]
    BY <1>2, <1>3
  <2> HIDE DEF S
  <2>2. c \in Seq(S) /\ Len(c) = n
    BY <1>2, <2>1
  <2> QED BY <2>2, TypedIsSequence
<1>5. \A k \in 1 .. n : place[k] \in places /\ place[k] \in 1 .. Len(s) /\ c[k] = s[place[k]]
  BY <1>2, <1>3
<1>6. ASSUME NEW S, Lists(s, S) PROVE Lists(c, {s[i] : i \in places})
  <2>1. ASSUME NEW x \in {s[i] : i \in places} PROVE \E k \in 1 .. Len(c) : c[k] = x
    <3>1. PICK i \in places : s[i] = x
      OBVIOUS
    <3>2. PICK k \in 1 .. n : place[k] = i
      BY <1>2
    <3> QED BY <1>4, <1>5, <3>1, <3>2
  <2>2. ASSUME NEW i \in 1 .. Len(c), NEW j \in 1 .. Len(c), c[i] = c[j] PROVE i = j
    <3>1. place[i] = place[j]
      BY <1>4, <1>5, <1>6, <2>2, SMTT(30) DEF Lists
    <3> QED BY <1>2, <1>4, <3>1
  <2>3. \A i \in 1 .. Len(c) : c[i] \in {s[k] : k \in places}
    BY <1>4, <1>5
  <2> QED BY <1>4, <2>1, <2>2, <2>3 DEF Lists
<1>7. ASSUME NEW key, AscendsBy(s, key) PROVE AscendsBy(c, key)
  <2>1. \A i \in 1 .. n : key[c[i]] \in Int
    BY <1>5, <1>7 DEF AscendsBy
  <2>2. ASSUME NEW i \in 1 .. n, NEW j \in 1 .. n, i < j PROVE key[c[i]] <= key[c[j]]
    <3>1. place[i] < place[j]
      BY <1>2, <2>2
    <3> QED BY <1>5, <1>7, <3>1 DEF AscendsBy
  <2> QED BY <1>4, <2>1, <2>2 DEF AscendsBy
<1>8. \A k \in 1 .. Len(c) : \E i \in places : c[k] = s[i]
  BY <1>4, <1>5
<1> QED BY <1>4, <1>6, <1>7, <1>8 DEF c

-----------------------------------------------------------------------------
(* Sorting: by a number, and by another one where it is the same. *)

Lower(S, a, b, x) == {y \in S : a[y] < a[x] \/ (a[y] = a[x] /\ b[y] < b[x])}
TellApart(S, a, b) ==
  /\ \A x \in S : a[x] \in Int /\ b[x] \in Int
  /\ \A x, y \in S : a[x] = a[y] /\ b[x] = b[y] => x = y

\* The elements have ranks, and in the order of the ranks they are listed and sorted.
LEMMA InKeyOrder ==
  ASSUME NEW S, IsFiniteSet(S), NEW a, NEW b, TellApart(S, a, b)
  PROVE  /\ Cardinality(S) \in Nat
         /\ \A i \in 1 .. Cardinality(S) : \E x \in S : Cardinality(Lower(S, a, b, x)) = i - 1
         /\ \A e : /\ e = [i \in 1 .. Cardinality(S) |-> e[i]]
                   /\ \A i \in 1 .. Cardinality(S) : e[i] \in S /\ Cardinality(Lower(S, a, b, e[i])) = i - 1
                   => Lists(e, S) /\ AscendsBy(e, a)
<1> DEFINE before == [x \in S |-> Lower(S, a, b, x)]
           n == Cardinality(S)
<1>1. TotalOrder(S, before)
  <2>1. \A x, y \in S : y \in before[x] <=> a[y] < a[x] \/ (a[y] = a[x] /\ b[y] < b[x])
    BY DEF Lower
  <2>2. \A x \in S : before[x] \subseteq S
    BY DEF Lower
  <2> HIDE DEF before
  <2>3. ASSUME NEW x \in S, NEW y \in S, x \in before[y] PROVE before[x] \subseteq before[y]
    <3> SUFFICES ASSUME NEW z \in before[x] PROVE z \in before[y]
      OBVIOUS
    <3>1. z \in S
      BY <2>2
    <3>2. /\ a[z] < a[x] \/ (a[z] = a[x] /\ b[z] < b[x])
          /\ a[x] < a[y] \/ (a[x] = a[y] /\ b[x] < b[y])
      BY <2>1, <2>3, <3>1
    <3>3. a[x] \in Int /\ a[y] \in Int /\ a[z] \in Int /\ b[x] \in Int /\ b[y] \in Int /\ b[z] \in Int
      BY <3>1 DEF TellApart
    <3>4. a[z] < a[y] \/ (a[z] = a[y] /\ b[z] < b[y])
      BY <3>2, <3>3
    <3> QED BY <2>1, <3>1, <3>4
  <2>4. ASSUME NEW x \in S PROVE x \notin before[x]
    BY <2>1 DEF TellApart
  <2>5. ASSUME NEW x \in S, NEW y \in S, x # y PROVE x \in before[y] \/ y \in before[x]
    <3>1. a[x] \in Int /\ a[y] \in Int /\ b[x] \in Int /\ b[y] \in Int /\ (a[x] # a[y] \/ b[x] # b[y])
      BY <2>5 DEF TellApart
    <3> QED BY <2>1, <3>1
  <2> QED BY <2>2, <2>3, <2>4, <2>5 DEF TotalOrder
<1>2. n \in Nat
  BY FS_CardinalityType
<1>3. ASSUME NEW i \in 1 .. n PROVE \E x \in S : Cardinality(Lower(S, a, b, x)) = i - 1
  <2>1. \E x \in S : Cardinality(before[x]) = i - 1
    <3> HIDE DEF before
    <3> QED BY <1>1, RankTaken
  <2> QED BY <2>1
<1>4. ASSUME NEW e, e = [i \in 1 .. n |-> e[i]],
             \A i \in 1 .. n : e[i] \in S /\ Cardinality(Lower(S, a, b, e[i])) = i - 1
      PROVE  Lists(e, S) /\ AscendsBy(e, a)
  <2>1. e \in [1 .. n -> S] /\ Enumerates(e, S, before)
    BY <1>4 DEF Enumerates
  <2>2. \A x, y \in S : y \in before[x] => a[y] <= a[x]
    BY DEF Lower, TellApart
  <2> HIDE DEF before
  <2>3. /\ \A x \in S : \E i \in 1 .. n : e[i] = x
        /\ \A i, j \in 1 .. n : i < j <=> e[i] \in before[e[j]]
        /\ \A i, j \in 1 .. n : e[i] = e[j] => i = j
    <3>1. Enumerates(e, S, before)
      BY <2>1
    <3> QED BY <1>1, <3>1, EnumerationRight, Zenon
  <2>4. e \in Seq(S) /\ Len(e) = n
    BY <1>2, <2>1
  <2>5. Lists(e, S)
    <3>1. IsSequence(e)
      BY <2>4, TypedIsSequence
    <3> QED BY <2>1, <2>3, <2>4, <3>1 DEF Lists
  <2>6. AscendsBy(e, a)
    <3>1. \A i \in 1 .. n : e[i] \in S
      BY <2>1
    <3>2. \A i \in 1 .. n : a[e[i]] \in Int
      BY <3>1 DEF TellApart
    <3> QED BY <2>2, <2>3, <2>4, <3>1, <3>2 DEF AscendsBy
  <2> QED BY <2>5, <2>6
<1> QED BY <1>2, <1>3, <1>4

\* A column of a table, and a table that is sorted on one.
Column(S, p) == [r \in S |-> r[p]]
SortedOn(t, p) ==
  /\ \A i \in 1 .. Len(t) : t[i][p] \in Int
  /\ \A i, j \in 1 .. Len(t) : i < j => t[i][p] <= t[j][p]

\* Rows in the order of a column are sorted on it.
LEMMA SortedByColumn ==
  ASSUME NEW S, NEW t, \A i \in 1 .. Len(t) : t[i] \in S, NEW p
  PROVE  AscendsBy(t, Column(S, p)) <=> SortedOn(t, p)
<1>1. \A i \in 1 .. Len(t) : Column(S, p)[t[i]] = t[i][p]
  BY DEF Column
<1> QED BY <1>1 DEF AscendsBy, SortedOn

\* A table sorted on a column: its rows, each once, ascending (symmergesort).
LEMMA SortOnRight ==
  ASSUME NEW t, IsSequence(t), NEW p, \A i \in 1 .. Len(t) : t[i][p] \in Int
  PROVE  LET e == SortOn(t, p)
         IN /\ IsSequence(e) /\ SortedOn(e, p)
            /\ \A i \in 1 .. Len(e) : \E j \in 1 .. Len(t) : e[i] = t[j]
            /\ \A S : Lists(t, S) => Lists(e, S)
<1> DEFINE P == DOMAIN t
           n == Cardinality(P)
           at == [i \in P |-> t[i][p]]
           place == [i \in P |-> i]
           order == InOrderOf(P, LAMBDA i, j : t[i][p] < t[j][p] \/ (t[i][p] = t[j][p] /\ i < j))
           e == SortOn(t, p)
<1>1. IsSequence(t) /\ Len(t) \in Nat /\ P = 1 .. Len(t)
  BY DEF IsSequence
<1>2. IsFiniteSet(P)
  BY <1>1, FS_Interval
<1>3. \A i \in P : i \in Int /\ t[i][p] \in Int /\ at[i] = t[i][p] /\ place[i] = i
  BY <1>1
<1>4. order = [i \in 1 .. n |-> CHOOSE x \in P : Cardinality({y \in P : t[y][p] < t[x][p] \/ (t[y][p] = t[x][p] /\ y < x)}) = i - 1]
  BY Zenon DEF InOrderOf
<1>5. e = [i \in DOMAIN order |-> t[order[i]]]
  BY Zenon DEF SortOn
<1> HIDE DEF e, order, P, at, place
<1>6. TellApart(P, at, place)
  BY <1>3 DEF TellApart
<1>7. \A x \in P : Lower(P, at, place, x) = {y \in P : t[y][p] < t[x][p] \/ (t[y][p] = t[x][p] /\ y < x)}
  BY <1>3 DEF Lower
<1>8. /\ n \in Nat
      /\ \A i \in 1 .. n : \E x \in P : Cardinality(Lower(P, at, place, x)) = i - 1
      /\ \A f : /\ f = [i \in 1 .. n |-> f[i]]
                /\ \A i \in 1 .. n : f[i] \in P /\ Cardinality(Lower(P, at, place, f[i])) = i - 1
                => Lists(f, P) /\ AscendsBy(f, at)
  BY <1>2, <1>6, InKeyOrder
<1>9. ASSUME NEW i \in 1 .. n PROVE order[i] \in P /\ Cardinality(Lower(P, at, place, order[i])) = i - 1
  <2>1. \E x \in P : Cardinality({y \in P : t[y][p] < t[x][p] \/ (t[y][p] = t[x][p] /\ y < x)}) = i - 1
    BY <1>7, <1>8
  <2>2. order[i] \in P /\ Cardinality({y \in P : t[y][p] < t[order[i]][p] \/ (t[y][p] = t[order[i]][p] /\ y < order[i])}) = i - 1
    BY <1>4, <2>1
  <2> QED BY <1>7, <2>2
<1>10. Lists(order, P) /\ AscendsBy(order, at) /\ DOMAIN order = 1 .. n /\ Len(order) = n
  <2>1. order = [i \in 1 .. n |-> order[i]] /\ DOMAIN order = 1 .. n
    <3> DEFINE chosen(i) == CHOOSE x \in P : Cardinality({y \in P : t[y][p] < t[x][p] \/ (t[y][p] = t[x][p] /\ y < x)}) = i - 1
    <3>1. order = [i \in 1 .. n |-> chosen(i)]
      BY <1>4
    <3> HIDE DEF chosen
    <3> QED BY <3>1
  <2>2. Lists(order, P) /\ AscendsBy(order, at)
    BY <1>8, <1>9, <2>1
  <2>3. Len(order) = n
    BY <1>8, <2>1, <2>2 DEF Lists, IsSequence
  <2> QED BY <2>1, <2>2, <2>3
<1>11. \A i \in 1 .. n : e[i] = t[order[i]] /\ order[i] \in P
  BY <1>5, <1>9, <1>10
<1>12. IsSequence(e) /\ Len(e) = n
  <2> DEFINE Z == {t[j] : j \in P}
  <2>1. \A i \in 1 .. n : e[i] \in Z
    BY <1>11
  <2>2. e = [i \in 1 .. n |-> e[i]]
    BY <1>5, <1>10
  <2> HIDE DEF Z
  <2>3. e \in Seq(Z) /\ Len(e) = n
    BY <1>8, <2>1, <2>2
  <2> QED BY <2>3, TypedIsSequence
<1>13. ASSUME NEW S, Lists(t, S) PROVE Lists(e, S)
  <2>1. \A i \in 1 .. n : e[i] \in S
    BY <1>1, <1>11, <1>13 DEF Lists
  <2>2. ASSUME NEW x \in S PROVE \E i \in 1 .. n : e[i] = x
    <3>1. PICK j \in P : t[j] = x
      BY <1>1, <1>13 DEF Lists
    <3>2. PICK i \in 1 .. n : order[i] = j
      BY <1>10 DEF Lists
    <3> QED BY <1>11, <3>1, <3>2
  <2>3. ASSUME NEW i \in 1 .. n, NEW j \in 1 .. n, e[i] = e[j] PROVE i = j
    <3>1. order[i] = order[j]
      BY <1>1, <1>11, <1>13, <2>3 DEF Lists
    <3> QED BY <1>10, <3>1 DEF Lists
  <2> QED BY <1>12, <2>1, <2>2, <2>3 DEF Lists
<1>14. SortedOn(e, p)
  <2>1. \A i \in 1 .. n : e[i][p] = at[order[i]]
    BY <1>3, <1>11
  <2> QED BY <1>10, <1>12, <2>1 DEF AscendsBy, SortedOn
<1>15. \A i \in 1 .. Len(e) : \E j \in 1 .. Len(t) : e[i] = t[j]
  BY <1>1, <1>11, <1>12
<1> QED BY <1>12, <1>13, <1>14, <1>15 DEF e

-----------------------------------------------------------------------------
(* The merge of two sorted tables (local_join, local_filter). *)

\* A bounded set of numbers that is not empty has a largest.
LEMMA LargestNumber ==
  ASSUME NEW n \in Nat, NEW T \in SUBSET (0 .. n), T # {}
  PROVE  \E m \in T : \A k \in T : m >= k
<1> DEFINE U == {n - k : k \in T}
<1>1. U \in SUBSET Nat /\ U # {}
  <2>1. \A k \in T : n - k \in Nat
    OBVIOUS
  <2> QED BY <2>1
<1>2. PICK m \in U : \A k \in U : m <= k
  <2> HIDE DEF U
  <2> QED BY <1>1, Smallest
<1>3. n - m \in T /\ m \in Nat
  BY <1>2
<1>4. ASSUME NEW k \in T PROVE n - m >= k
  <2>1. n - k \in U /\ m \in U
    BY <1>2
  <2>2. m <= n - k
    BY <1>2, <2>1
  <2> QED BY <1>3, <2>2
<1> QED BY <1>3, <1>4

\* From a place on where nothing is below the key, the rows of a sorted table that have it
\* come first.
LEMMA RunRight ==
  ASSUME NEW t, IsSequence(t), NEW p, SortedOn(t, p), NEW i \in 1 .. Len(t) + 1, NEW key \in Int,
         \A k \in i .. Len(t) : key <= t[k][p]
  PROVE  /\ RunLength(t, p, i, key) \in Nat /\ i + RunLength(t, p, i, key) <= Len(t) + 1
         /\ \A k \in i .. Len(t) : t[k][p] = key <=> k < i + RunLength(t, p, i, key)
<1> DEFINE n == Len(t)
           m == n + 1 - i
           T == {r \in 0 .. n - i + 1 : \A k \in i .. i + r - 1 : t[k][p] = key}
           Ends(r) == i + r <= n => t[i + r][p] # key
           run == RunLength(t, p, i, key)
<1>1. n \in Nat /\ m \in Nat /\ n - i + 1 = m /\ i \in Nat
  BY DEF IsSequence
<1>2. run = CHOOSE r \in 0 .. n - i + 1 : (\A k \in i .. i + r - 1 : t[k][p] = key) /\ Ends(r)
  BY Zenon DEF RunLength
<1>3. \A k \in 1 .. n : t[k][p] \in Int
  BY DEF SortedOn
<1>4. \A k, l \in 1 .. n : k < l => t[k][p] <= t[l][p]
  BY DEF SortedOn
<1> HIDE DEF run, n, m
<1>5. T \in SUBSET (0 .. m) /\ 0 \in T
  BY <1>1
<1>6. \A r : r \in T <=> r \in 0 .. m /\ \A k \in i .. i + r - 1 : t[k][p] = key
  BY <1>1
<1> HIDE DEF T
<1>7. run \in T /\ Ends(run)
  <2>1. PICK x \in T : \A y \in T : x >= y
    BY <1>1, <1>5, LargestNumber
  <2>2. x \in 0 .. m /\ \A k \in i .. i + x - 1 : t[k][p] = key
    BY <1>6, <2>1
  <2>3. ASSUME i + x <= n, t[i + x][p] = key PROVE FALSE
    <3>1. x + 1 \in 0 .. m
      BY <1>1, <2>2, <2>3 DEF m
    <3>2. x \in Nat /\ (i + (x + 1)) - 1 = i + x
      BY <1>1, <2>2
    <3>3. ASSUME NEW k \in i .. i + x PROVE t[k][p] = key
      <4>1. k = i + x \/ k \in i .. (i + x) - 1
        BY <1>1, <3>2
      <4> QED BY <2>2, <2>3, <4>1
    <3>4. x + 1 \in T
      BY <1>6, <3>1, <3>2, <3>3
    <3> QED BY <2>1, <2>2, <3>4
  <2>4. Ends(x)
    BY <2>3
  <2> HIDE DEF Ends
  <2>5. \E r \in 0 .. n - i + 1 : (\A k \in i .. i + r - 1 : t[k][p] = key) /\ Ends(r)
    BY <1>1, <2>2, <2>4
  <2>6. run \in 0 .. n - i + 1 /\ (\A k \in i .. i + run - 1 : t[k][p] = key) /\ Ends(run)
    BY <1>2, <2>5
  <2> QED BY <1>1, <1>6, <2>6
<1>8. run \in 0 .. m /\ \A k \in i .. i + run - 1 : t[k][p] = key
  BY <1>6, <1>7
<1>9. ASSUME NEW k \in i .. n, t[k][p] = key, k >= i + run PROVE FALSE
  <2> DEFINE l == i + run
  <2>1. l \in i .. n /\ l \in 1 .. n /\ k \in 1 .. n /\ l <= k
    BY <1>1, <1>8, <1>9
  <2>2. t[l][p] # key
    BY <1>7, <2>1
  <2> HIDE DEF l
  <2>3. key <= t[l][p]
    BY <2>1 DEF n
  <2>4. l = k \/ t[l][p] <= t[k][p]
    BY <1>4, <2>1
  <2> QED BY <1>3, <1>9, <2>1, <2>2, <2>3, <2>4
<1>10. ASSUME NEW k \in i .. n, k < i + run PROVE t[k][p] = key
  BY <1>1, <1>8, <1>10
<1>11. run \in Nat /\ i + run <= n + 1
  BY <1>1, <1>8 DEF m
<1> QED BY <1>9, <1>10, <1>11, <1>8, <1>1 DEF run, n

\* Sequences of the same length with the same elements.
LEMMA SameSequence ==
  ASSUME NEW a, IsSequence(a), NEW b, IsSequence(b), Len(a) = Len(b), \A k \in 1 .. Len(a) : a[k] = b[k]
  PROVE  a = b
BY DEF IsSequence

\* The places of two tables where rows meet: those before one of two places, and those at them.
Meeting(t1, t2, p) == {q \in (1 .. Len(t1)) \X (1 .. Len(t2)) : t1[q[1]][p] = t2[q[2]][2]}
Past(t1, t2, p, i, j) == {q \in Meeting(t1, t2, p) : q[1] < i \/ q[2] < j}
Now(t1, t2, p, i, j) == {q \in Meeting(t1, t2, p) : (q[1] = i /\ q[2] >= j) \/ (q[2] = j /\ q[1] > i)}
KeyAt(t1, t2, p) == [q \in (1 .. Len(t1)) \X (1 .. Len(t2)) |-> t1[q[1]][p]]
RowsAt(t1, t2, ix) == [k \in 1 .. Len(ix) |-> <<t1[ix[k][1]], t2[ix[k][2]]>>]

\* At two equal keys the merge takes the places that are at them.
LEMMA PairPlacesRight ==
  ASSUME NEW t1, IsSequence(t1), NEW p, SortedOn(t1, p), NEW t2, IsSequence(t2), SortedOn(t2, 2),
         NEW i1 \in 1 .. Len(t1), NEW i2 \in 1 .. Len(t2), t1[i1][p] = t2[i2][2]
  PROVE  LET across == RunLength(t2, 2, i2 + 1, t1[i1][p])
             down == RunLength(t1, p, i1 + 1, t1[i1][p])
             a == [k \in 1 .. across + 1 |-> <<i1, i2 + k - 1>>]
             b == [k \in 1 .. down |-> <<i1 + k, i2>>]
         IN /\ across \in Nat /\ down \in Nat
            /\ IsSequence(a) /\ Len(a) = across + 1 /\ IsSequence(b) /\ Len(b) = down
            /\ Lists(a \o b, Now(t1, t2, p, i1, i2))
<1> DEFINE key == t1[i1][p]
           across == RunLength(t2, 2, i2 + 1, key)
           down == RunLength(t1, p, i1 + 1, key)
           a == [k \in 1 .. across + 1 |-> <<i1, i2 + k - 1>>]
           b == [k \in 1 .. down |-> <<i1 + k, i2>>]
           n1 == Len(t1)
           n2 == Len(t2)
           A == {q \in Meeting(t1, t2, p) : q[1] = i1 /\ q[2] >= i2}
           B == {q \in Meeting(t1, t2, p) : q[2] = i2 /\ q[1] > i1}
<1>1. n1 \in Nat /\ n2 \in Nat /\ key \in Int /\ t2[i2][2] = key
  BY DEF IsSequence, SortedOn
<1>2. /\ across \in Nat /\ i2 + 1 + across <= n2 + 1
      /\ \A k \in i2 + 1 .. n2 : t2[k][2] = key <=> k < i2 + 1 + across
  <2>1. \A k \in i2 + 1 .. n2 : key <= t2[k][2]
    BY <1>1 DEF SortedOn
  <2> DEFINE j == i2 + 1
             run == RunLength(t2, 2, j, key)
  <2>2. j \in 1 .. n2 + 1
    BY <1>1
  <2>3. run \in Nat /\ j + run <= n2 + 1 /\ \A k \in j .. n2 : t2[k][2] = key <=> k < j + run
    <3>1. \A k \in j .. n2 : key <= t2[k][2]
      BY <2>1
    <3> HIDE DEF key, j
    <3> QED BY <1>1, <2>2, <3>1, RunRight
  <2> HIDE DEF key
  <2> QED BY <2>3
<1>3. /\ down \in Nat /\ i1 + 1 + down <= n1 + 1
      /\ \A k \in i1 + 1 .. n1 : t1[k][p] = key <=> k < i1 + 1 + down
  <2>1. \A k \in i1 + 1 .. n1 : key <= t1[k][p]
    BY <1>1 DEF SortedOn
  <2> DEFINE j == i1 + 1
             run == RunLength(t1, p, j, key)
  <2>2. j \in 1 .. n1 + 1
    BY <1>1
  <2>3. run \in Nat /\ j + run <= n1 + 1 /\ \A k \in j .. n1 : t1[k][p] = key <=> k < j + run
    <3>1. \A k \in j .. n1 : key <= t1[k][p]
      BY <2>1
    <3> HIDE DEF key, j
    <3> QED BY <1>1, <2>2, <3>1, RunRight, SMTT(30)
  <2> HIDE DEF key
  <2> QED BY <2>3
<1>4. \A i, j : <<i, j>> \in Meeting(t1, t2, p) <=> i \in 1 .. n1 /\ j \in 1 .. n2 /\ t1[i][p] = t2[j][2]
  BY DEF Meeting
<1>4a. \A q \in Meeting(t1, t2, p) : q = <<q[1], q[2]>> /\ q[1] \in 1 .. n1 /\ q[2] \in 1 .. n2
  BY DEF Meeting
<1> HIDE DEF key, across, down, n1, n2
<1>5. IsSequence(a) /\ Len(a) = across + 1
  <2>1. a \in Seq({i1} \X Int) /\ Len(a) = across + 1
    BY <1>2
  <2> QED BY <2>1, TypedIsSequence
<1>6. IsSequence(b) /\ Len(b) = down
  <2>1. b \in Seq(Int \X {i2}) /\ Len(b) = down
    BY <1>3
  <2> QED BY <2>1, TypedIsSequence
<1>7. Lists(a, A)
  <2>1. ASSUME NEW k \in 1 .. across + 1 PROVE a[k] \in A
    <3>1. i2 + k - 1 \in 1 .. n2 /\ (i2 + k - 1 = i2 \/ (i2 + k - 1 \in i2 + 1 .. n2 /\ i2 + k - 1 < i2 + 1 + across))
      BY <1>1, <1>2 DEF n2
    <3>2. t2[i2 + k - 1][2] = key
      BY <1>1, <1>2, <3>1
    <3>3. <<i1, i2 + k - 1>> \in Meeting(t1, t2, p)
      BY <1>4, <3>1, <3>2 DEF key, n1
    <3> QED BY <1>1, <1>2, <3>1, <3>3
  <2>2. ASSUME NEW q \in A PROVE \E k \in 1 .. across + 1 : a[k] = q
    <3> DEFINE j == q[2]
    <3>1. q = <<i1, j>> /\ j \in 1 .. n2 /\ j >= i2
      BY <1>4a
    <3>2. t2[j][2] = key
      BY <1>4, <3>1 DEF key
    <3> HIDE DEF j
    <3>3. j = i2 \/ j \in i2 + 1 .. n2
      BY <1>1, <3>1
    <3>4. j < i2 + 1 + across
      BY <1>2, <3>2, <3>3
    <3>5. j - i2 + 1 \in 1 .. across + 1 /\ i2 + (j - i2 + 1) - 1 = j
      BY <1>2, <3>1, <3>4
    <3>6. a[j - i2 + 1] = <<i1, i2 + (j - i2 + 1) - 1>>
      BY <3>5
    <3> QED BY <3>1, <3>5, <3>6
  <2>3. \A k, l \in 1 .. across + 1 : a[k] = a[l] => k = l
    BY <1>2
  <2> QED BY <1>5, <2>1, <2>2, <2>3 DEF Lists
<1>8. Lists(b, B)
  <2>1. ASSUME NEW k \in 1 .. down PROVE b[k] \in B
    <3>1. i1 + k \in i1 + 1 .. n1 /\ i1 + k < i1 + 1 + down /\ i1 + k \in 1 .. n1 /\ i1 + k > i1
      BY <1>1, <1>3 DEF n1
    <3>2. t1[i1 + k][p] = key
      BY <1>3, <3>1
    <3>3. <<i1 + k, i2>> \in Meeting(t1, t2, p)
      BY <1>1, <1>4, <3>1, <3>2 DEF n2
    <3> QED BY <3>1, <3>3
  <2>2. ASSUME NEW q \in B PROVE \E k \in 1 .. down : b[k] = q
    <3> DEFINE i == q[1]
    <3>1. q = <<i, i2>> /\ i \in 1 .. n1 /\ i > i1
      BY <1>4a
    <3>2. t1[i][p] = key
      BY <1>1, <1>4, <3>1
    <3> HIDE DEF i
    <3>3. i \in i1 + 1 .. n1
      BY <1>1, <3>1
    <3>4. i < i1 + 1 + down
      BY <1>3, <3>2, <3>3
    <3>5. i - i1 \in 1 .. down /\ i1 + (i - i1) = i
      BY <1>3, <3>1, <3>4
    <3>6. b[i - i1] = <<i1 + (i - i1), i2>>
      BY <3>5
    <3> QED BY <3>1, <3>5, <3>6
  <2>3. \A k, l \in 1 .. down : b[k] = b[l] => k = l
    BY <1>3
  <2> QED BY <1>6, <2>1, <2>2, <2>3 DEF Lists
<1>9. A \cap B = {} /\ A \cup B = Now(t1, t2, p, i1, i2)
  BY <1>4a DEF Now
<1>10. Lists(a \o b, Now(t1, t2, p, i1, i2))
  <2> HIDE DEF a, b, A, B
  <2>1. Lists(a \o b, A \cup B)
    BY <1>7, <1>8, <1>9, ListsChained
  <2> QED BY <1>9, <2>1
<1> QED BY <1>2, <1>3, <1>5, <1>6, <1>10 DEF key, across, down

\* The tables, sorted; and a state of the merge: the rows past have met.
Sorted(t1, p, t2) == IsSequence(t1) /\ SortedOn(t1, p) /\ IsSequence(t2) /\ SortedOn(t2, 2)
Merged(t1, t2, p, s) ==
  /\ s.i1 \in 1 .. Len(t1) + 1 /\ s.i2 \in 1 .. Len(t2) + 1
  /\ \E ix : /\ Lists(ix, Past(t1, t2, p, s.i1, s.i2)) /\ AscendsBy(ix, KeyAt(t1, t2, p))
            /\ s.met = RowsAt(t1, t2, ix)

\* A step of the merge.
MergeTurn(t1, t2, p, s) ==
  IF s.i1 > Len(t1) \/ s.i2 > Len(t2) THEN s
  ELSE IF t1[s.i1][p] < t2[s.i2][2] THEN [s EXCEPT !.i1 = @ + 1]
  ELSE IF t1[s.i1][p] > t2[s.i2][2] THEN [s EXCEPT !.i2 = @ + 1]
  ELSE [i1 |-> s.i1 + 1, i2 |-> s.i2 + 1,
        met |-> s.met \o ([k \in 1 .. RunLength(t2, 2, s.i2 + 1, t1[s.i1][p]) + 1 |-> <<t1[s.i1], t2[s.i2 + k - 1]>>]
                          \o [k \in 1 .. RunLength(t1, p, s.i1 + 1, t1[s.i1][p]) |-> <<t1[s.i1 + k], t2[s.i2]>>])]

\* The rows of a place one after the other.
LEMMA RowsAtRight ==
  ASSUME NEW t1, NEW t2, NEW ix, IsSequence(ix)
  PROVE  /\ IsSequence(RowsAt(t1, t2, ix)) /\ Len(RowsAt(t1, t2, ix)) = Len(ix) /\ Len(ix) \in Nat
         /\ \A k \in 1 .. Len(ix) : RowsAt(t1, t2, ix)[k] = <<t1[ix[k][1]], t2[ix[k][2]]>>
<1> DEFINE S == {<<t1[ix[k][1]], t2[ix[k][2]]>> : k \in 1 .. Len(ix)}
           m == RowsAt(t1, t2, ix)
<1>1. Len(ix) \in Nat
  BY DEF IsSequence
<1>2. m = [k \in 1 .. Len(ix) |-> <<t1[ix[k][1]], t2[ix[k][2]]>>]
  BY DEF RowsAt
<1>3. \A k \in 1 .. Len(ix) : <<t1[ix[k][1]], t2[ix[k][2]]>> \in S
  OBVIOUS
<1> HIDE DEF m, S
<1>4. m \in Seq(S) /\ Len(m) = Len(ix)
  BY <1>1, <1>2, <1>3
<1> QED BY <1>1, <1>2, <1>4, TypedIsSequence DEF m

\* Pairs of places in two sequences, one sequence of them after the other.
LEMMA RowsAtChained ==
  ASSUME NEW t1, NEW t2, NEW a, IsSequence(a), NEW b, IsSequence(b)
  PROVE  RowsAt(t1, t2, a \o b) = RowsAt(t1, t2, a) \o RowsAt(t1, t2, b)
<1> DEFINE c == a \o b
           ra == RowsAt(t1, t2, a)
           rb == RowsAt(t1, t2, b)
           rc == RowsAt(t1, t2, c)
           r == ra \o rb
<1>1. /\ IsSequence(c) /\ Len(c) = Len(a) + Len(b) /\ Len(a) \in Nat /\ Len(b) \in Nat
      /\ \A k \in 1 .. Len(a) : c[k] = a[k]
      /\ \A k \in 1 .. Len(c) : k \in 1 .. Len(a) \/ (k - Len(a) \in 1 .. Len(b) /\ c[k] = b[k - Len(a)])
  BY Chained
<1>2. /\ IsSequence(ra) /\ Len(ra) = Len(a) /\ \A k \in 1 .. Len(a) : ra[k] = <<t1[a[k][1]], t2[a[k][2]]>>
      /\ IsSequence(rb) /\ Len(rb) = Len(b) /\ \A k \in 1 .. Len(b) : rb[k] = <<t1[b[k][1]], t2[b[k][2]]>>
  BY RowsAtRight
<1> HIDE DEF c, ra, rb
<1>3. /\ IsSequence(r) /\ Len(r) = Len(ra) + Len(rb)
      /\ \A k \in 1 .. Len(ra) : r[k] = ra[k]
      /\ \A k \in 1 .. Len(r) : k \in 1 .. Len(ra) \/ (k - Len(ra) \in 1 .. Len(rb) /\ r[k] = rb[k - Len(ra)])
  <2>1. IsSequence(ra) /\ IsSequence(rb)
    BY <1>2
  <2> QED BY <2>1, Chained, ZenonT(30)
<1>4. IsSequence(rc) /\ Len(rc) = Len(c) /\ \A k \in 1 .. Len(c) : rc[k] = <<t1[c[k][1]], t2[c[k][2]]>>
  <2>1. IsSequence(c)
    BY <1>1
  <2>2. IsSequence(RowsAt(t1, t2, c)) /\ Len(RowsAt(t1, t2, c)) = Len(c)
    BY <2>1, RowsAtRight, SMTT(30)
  <2>3. \A k \in 1 .. Len(c) : RowsAt(t1, t2, c)[k] = <<t1[c[k][1]], t2[c[k][2]]>>
    BY <2>1, RowsAtRight, SMTT(30)
  <2> QED BY <2>2, <2>3, Zenon DEF rc
<1> HIDE DEF r, rc
<1>5. ASSUME NEW k \in 1 .. Len(rc) PROVE rc[k] = r[k]
  <2>1. CASE k \in 1 .. Len(a)
    <3>1. rc[k] = <<t1[c[k][1]], t2[c[k][2]]>> /\ c[k] = a[k]
      BY <1>1, <1>4, <2>1
    <3>2. r[k] = ra[k] /\ ra[k] = <<t1[a[k][1]], t2[a[k][2]]>>
      BY <1>2, <1>3, <2>1
    <3> QED BY <3>1, <3>2
  <2>2. CASE k \notin 1 .. Len(a)
    <3>1. k - Len(a) \in 1 .. Len(b) /\ c[k] = b[k - Len(a)] /\ r[k] = rb[k - Len(a)]
      BY <1>1, <1>2, <1>3, <1>4, <2>2
    <3> QED BY <1>2, <1>4, <3>1
  <2> QED BY <2>1, <2>2
<1>6. Len(rc) = Len(r)
  BY <1>1, <1>2, <1>3, <1>4
<1> QED BY <1>3, <1>4, <1>5, <1>6, SameSequence DEF c, ra, rb, r, rc

\* An iteration of the merge loop puts out what the rows it leaves meet.
LEMMA MergeTurnRight ==
  ASSUME NEW t1, NEW p, NEW t2, Sorted(t1, p, t2), NEW s, Merged(t1, t2, p, s), s = [i1 |-> s.i1, i2 |-> s.i2, met |-> s.met]
  PROVE  LET z == MergeTurn(t1, t2, p, s)
         IN /\ Merged(t1, t2, p, z)
            /\ z.i1 > Len(t1) \/ z.i2 > Len(t2) \/ z.i1 + z.i2 >= s.i1 + s.i2 + 1
<1> DEFINE z == MergeTurn(t1, t2, p, s)
           n1 == Len(t1)
           n2 == Len(t2)
           i == s.i1
           j == s.i2
           P(k, l) == Past(t1, t2, p, k, l)
<1>1. n1 \in Nat /\ n2 \in Nat /\ i \in 1 .. n1 + 1 /\ j \in 1 .. n2 + 1
  BY DEF Sorted, IsSequence, Merged
<1>2. PICK ix : Lists(ix, P(i, j)) /\ AscendsBy(ix, KeyAt(t1, t2, p)) /\ s.met = RowsAt(t1, t2, ix)
  BY DEF Merged
<1>3. \A q \in Meeting(t1, t2, p) : q[1] \in 1 .. n1 /\ q[2] \in 1 .. n2 /\ t1[q[1]][p] = t2[q[2]][2]
  BY DEF Meeting
<1>4. /\ \A k \in 1 .. n1 : t1[k][p] \in Int
      /\ \A k, l \in 1 .. n1 : k < l => t1[k][p] <= t1[l][p]
      /\ \A k \in 1 .. n2 : t2[k][2] \in Int
      /\ \A k, l \in 1 .. n2 : k < l => t2[k][2] <= t2[l][2]
  BY DEF Sorted, SortedOn
<1>5. CASE i > n1 \/ j > n2
  <2>1. z = s
    BY <1>5 DEF MergeTurn
  <2> HIDE DEF z
  <2> QED BY <1>5, <2>1 DEF z
<1>6. CASE i <= n1 /\ j <= n2 /\ t1[i][p] < t2[j][2]
  <2>1. z = [i1 |-> i + 1, i2 |-> j, met |-> s.met]
    <3>1. z = [s EXCEPT !.i1 = i + 1]
      BY <1>1, <1>6 DEF MergeTurn
    <3> HIDE DEF z
    <3> QED BY <3>1
  <2>2. P(i + 1, j) = P(i, j)
    <3>1. ASSUME NEW q \in Meeting(t1, t2, p), q[1] = i, q[2] >= j PROVE FALSE
      <4>1. q[2] = j \/ t2[j][2] <= t2[q[2]][2]
        BY <1>1, <1>3, <1>4, <1>6, <3>1, SMTT(30)
      <4>2. t1[i][p] = t2[q[2]][2] /\ t1[i][p] \in Int /\ t2[j][2] \in Int
        BY <1>1, <1>3, <1>4, <1>6, <3>1
      <4> QED BY <1>6, <4>1, <4>2
    <3>2. \A q \in Meeting(t1, t2, p) : q[1] < i + 1 \/ q[2] < j => q[1] < i \/ q[2] < j
      BY <1>1, <1>3, <3>1
    <3>3. \A q \in Meeting(t1, t2, p) : q[1] < i \/ q[2] < j => q[1] < i + 1 \/ q[2] < j
      BY <1>1, <1>3
    <3> QED BY <3>2, <3>3 DEF Past
  <2>3. z.i1 = i + 1 /\ z.i2 = j /\ z.met = s.met
    BY <2>1
  <2> HIDE DEF z, i, j
  <2>4. Merged(t1, t2, p, z)
    BY <1>1, <1>2, <1>6, <2>2, <2>3, SMTT(30) DEF Merged
  <2> QED BY <1>1, <2>3, <2>4 DEF i, j, z
<1>7. CASE i <= n1 /\ j <= n2 /\ t1[i][p] > t2[j][2]
  <2>1. z = [i1 |-> i, i2 |-> j + 1, met |-> s.met]
    <3>1. t1[i][p] \in Int /\ t2[j][2] \in Int
      BY <1>1, <1>4, <1>7
    <3>2. z = [s EXCEPT !.i2 = j + 1]
      BY <1>1, <1>7, <3>1, SMTT(30) DEF MergeTurn
    <3> HIDE DEF z
    <3> QED BY <3>2
  <2>2. P(i, j + 1) = P(i, j)
    <3>1. ASSUME NEW q \in Meeting(t1, t2, p), q[2] = j, q[1] >= i PROVE FALSE
      <4>1. q[1] = i \/ t1[i][p] <= t1[q[1]][p]
        BY <1>1, <1>3, <1>4, <1>7, <3>1, SMTT(30)
      <4>2. t1[q[1]][p] = t2[j][2] /\ t1[i][p] \in Int /\ t2[j][2] \in Int
        BY <1>1, <1>3, <1>4, <1>7, <3>1
      <4> QED BY <1>7, <4>1, <4>2
    <3>2. \A q \in Meeting(t1, t2, p) : q[1] < i \/ q[2] < j + 1 => q[1] < i \/ q[2] < j
      BY <1>1, <1>3, <3>1, SMTT(30)
    <3>3. \A q \in Meeting(t1, t2, p) : q[1] < i \/ q[2] < j => q[1] < i \/ q[2] < j + 1
      BY <1>1, <1>3
    <3> QED BY <3>2, <3>3 DEF Past
  <2>3. z.i1 = i /\ z.i2 = j + 1 /\ z.met = s.met
    BY <2>1
  <2> HIDE DEF z, i, j
  <2>4. Merged(t1, t2, p, z)
    BY <1>1, <1>2, <1>7, <2>2, <2>3, SMTT(30) DEF Merged
  <2> QED BY <1>1, <2>3, <2>4 DEF i, j, z
<1>8. CASE i <= n1 /\ j <= n2 /\ t1[i][p] = t2[j][2]
  <2> DEFINE key == t1[i][p]
             across == RunLength(t2, 2, j + 1, key)
             down == RunLength(t1, p, i + 1, key)
             a == [k \in 1 .. across + 1 |-> <<i, j + k - 1>>]
             b == [k \in 1 .. down |-> <<i + k, j>>]
             ra == [k \in 1 .. across + 1 |-> <<t1[i], t2[j + k - 1]>>]
             rb == [k \in 1 .. down |-> <<t1[i + k], t2[j]>>]
             c == ix \o (a \o b)
  <2>1. z = [i1 |-> i + 1, i2 |-> j + 1, met |-> s.met \o (ra \o rb)]
    <3>1. t1[i][p] \in Int /\ t2[j][2] \in Int /\ ~(t1[i][p] < t2[j][2]) /\ ~(t1[i][p] > t2[j][2]) /\ ~(i > n1) /\ ~(j > n2)
      BY <1>1, <1>4, <1>8
    <3> QED BY <3>1 DEF MergeTurn
  <2>2. z.i1 = i + 1 /\ z.i2 = j + 1 /\ z.met = s.met \o (ra \o rb)
    <3> HIDE DEF z, ra, rb, i, j
    <3> QED BY <2>1
  <2>3. i \in 1 .. n1 /\ j \in 1 .. n2
    BY <1>1, <1>8
  <2>4. /\ across \in Nat /\ down \in Nat
        /\ IsSequence(a) /\ Len(a) = across + 1 /\ IsSequence(b) /\ Len(b) = down
        /\ Lists(a \o b, Now(t1, t2, p, i, j))
    BY <1>8, <2>3, PairPlacesRight DEF Sorted
  <2>5. ra = RowsAt(t1, t2, a) /\ rb = RowsAt(t1, t2, b)
    BY <2>4 DEF RowsAt
  <2> HIDE DEF ra, rb, across, down, z
  <2>6. ra \o rb = RowsAt(t1, t2, a \o b)
    <3>1. IsSequence(a) /\ IsSequence(b)
      BY <2>4
    <3> HIDE DEF a, b
    <3>2. RowsAt(t1, t2, a \o b) = RowsAt(t1, t2, a) \o RowsAt(t1, t2, b)
      BY <3>1, RowsAtChained
    <3> QED BY <2>5, <3>2
  <2>7. IsSequence(ix) /\ IsSequence(a \o b)
    BY <1>2, <2>4 DEF Lists
  <2>8. z.met = RowsAt(t1, t2, c)
    <3> HIDE DEF a, b
    <3>1. RowsAt(t1, t2, ix \o (a \o b)) = RowsAt(t1, t2, ix) \o RowsAt(t1, t2, a \o b)
      BY <2>7, RowsAtChained
    <3> QED BY <1>2, <2>2, <2>6, <3>1
  <2>9. P(i, j) \cap Now(t1, t2, p, i, j) = {} /\ P(i + 1, j + 1) = P(i, j) \cup Now(t1, t2, p, i, j)
    <3>1. \A q \in Meeting(t1, t2, p) : ~((q[1] < i \/ q[2] < j) /\ ((q[1] = i /\ q[2] >= j) \/ (q[2] = j /\ q[1] > i)))
      BY <1>1, <1>3
    <3>2. \A q \in Meeting(t1, t2, p) : (q[1] < i + 1 \/ q[2] < j + 1) <=> (q[1] < i \/ q[2] < j) \/ ((q[1] = i /\ q[2] >= j) \/ (q[2] = j /\ q[1] > i))
      BY <1>1, <1>3, SMTT(30)
    <3> HIDE DEF i, j
    <3> QED BY <3>1, <3>2 DEF Past, Now
  <2>10. Lists(c, P(i + 1, j + 1))
    <3> DEFINE d == a \o b
               A == P(i, j)
               B == Now(t1, t2, p, i, j)
    <3>1. Lists(ix, A) /\ Lists(d, B) /\ A \cap B = {}
      BY <1>2, <2>4, <2>9
    <3>2. Lists(ix \o d, A \cup B)
      <4> HIDE DEF d, A, B
      <4> QED BY <3>1, ListsChained
    <3> HIDE DEF a, b
    <3> QED BY <2>9, <3>2
  <2> DEFINE d == a \o b
             at == KeyAt(t1, t2, p)
  <2>11. /\ \A k \in 1 .. Len(d) : d[k] \in Now(t1, t2, p, i, j)
         /\ \A k \in 1 .. Len(ix) : ix[k] \in P(i, j)
    BY <1>2, <2>4 DEF Lists
  <2> HIDE DEF c, d, a, b, i, j
  <2>12. \A q \in Meeting(t1, t2, p) : at[q] = t1[q[1]][p]
    BY DEF KeyAt, Meeting
  <2>13. ASSUME NEW q \in Now(t1, t2, p, i, j) PROVE at[q] = key
    <3>1. q \in Meeting(t1, t2, p) /\ (q[1] = i \/ q[2] = j)
      BY DEF Now
    <3> QED BY <1>3, <1>8, <2>12, <3>1
  <2>14. ASSUME NEW q \in P(i, j) PROVE at[q] <= key
    <3>1. q \in Meeting(t1, t2, p) /\ (q[1] < i \/ q[2] < j)
      BY DEF Past
    <3>2. at[q] = t1[q[1]][p] /\ at[q] = t2[q[2]][2] /\ q[1] \in 1 .. n1 /\ q[2] \in 1 .. n2
      BY <1>3, <2>12, <3>1
    <3>3. CASE q[1] < i
      BY <1>4, <2>3, <3>2, <3>3
    <3>4. CASE q[2] < j
      BY <1>4, <1>8, <2>3, <3>2, <3>4
    <3> QED BY <3>1, <3>3, <3>4
  <2>15. key \in Int
    BY <1>4, <2>3
  <2> HIDE DEF key, at
  <2>16. AscendsBy(d, at)
    BY <2>11, <2>13, <2>15 DEF AscendsBy
  <2>17. \A k \in 1 .. Len(ix), l \in 1 .. Len(d) : at[ix[k]] <= at[d[l]]
    <3> SUFFICES ASSUME NEW k \in 1 .. Len(ix), NEW l \in 1 .. Len(d) PROVE at[ix[k]] <= at[d[l]]
      OBVIOUS
    <3>1. at[ix[k]] <= key /\ at[d[l]] = key
      BY <2>11, <2>13, <2>14
    <3> QED BY <3>1
  <2>18. AscendsBy(c, at)
    <3>1. IsSequence(ix) /\ IsSequence(d) /\ AscendsBy(ix, at)
      BY <1>2, <2>7 DEF d, at
    <3> QED BY <2>16, <2>17, <3>1, AscendsChained DEF c, d
  <2>19. Merged(t1, t2, p, z)
    <3>1. z.i1 \in 1 .. n1 + 1 /\ z.i2 \in 1 .. n2 + 1
      BY <1>1, <2>2, <2>3
    <3>2. Lists(c, Past(t1, t2, p, z.i1, z.i2)) /\ AscendsBy(c, KeyAt(t1, t2, p)) /\ z.met = RowsAt(t1, t2, c)
      BY <2>2, <2>8, <2>10, <2>18 DEF at
    <3> QED BY <3>1, <3>2 DEF Merged
  <2>20. z.i1 + z.i2 >= i + j + 1
    BY <1>1, <2>2
  <2> QED BY <2>19, <2>20 DEF z, i, j
<1>9. i > n1 \/ j > n2 \/ (i <= n1 /\ j <= n2 /\ (t1[i][p] < t2[j][2] \/ t1[i][p] > t2[j][2] \/ t1[i][p] = t2[j][2]))
  BY <1>1, <1>4
<1> QED BY <1>5, <1>6, <1>7, <1>8, <1>9

\* The merge of local_join and local_filter, with its cursors, meets the rows of every two
\* places of sorted tables that have the same key, once, in the order of the key, whatever
\* runs of equal keys there are; its loop ends at the end of one of the tables.
THEOREM MeetingsRight ==
  ASSUME NEW t1, NEW p, NEW t2, Sorted(t1, p, t2)
  PROVE  \E ix : /\ Lists(ix, Meeting(t1, t2, p)) /\ AscendsBy(ix, KeyAt(t1, t2, p))
                /\ Meetings(t1, t2, p) = RowsAt(t1, t2, ix)
<1> DEFINE n1 == Len(t1)
           n2 == Len(t2)
           n == n1 + n2
           S == {t1[i] : i \in 1 .. n1} \X {t2[j] : j \in 1 .. n2}
           T == [i1 : 1 .. n1 + 1, i2 : 1 .. n2 + 1, met : Seq(S)]
           Z == {s \in T : Merged(t1, t2, p, s)}
           a == [i1 |-> 1, i2 |-> 1, met |-> <<>>]
           step == [k \in 1 .. n |-> [s \in Z |-> MergeTurn(t1, t2, p, s)]]
           Body(h) == [k \in 0 .. n |-> IF k = 0 THEN a ELSE MergeTurn(t1, t2, p, h[k - 1])]
           f == CHOOSE h : h = Body(h)
<1>1. n1 \in Nat /\ n2 \in Nat /\ n \in Nat
  BY DEF Sorted, IsSequence
<1> HIDE DEF n
<1>2. Meetings(t1, t2, p) = f[n].met
  BY Zenon DEF Meetings, MergeTurn, n
<1>3. ASSUME NEW s, Merged(t1, t2, p, s) PROVE s.met \in Seq(S)
  <2>1. PICK ix : Lists(ix, Past(t1, t2, p, s.i1, s.i2)) /\ s.met = RowsAt(t1, t2, ix)
    BY <1>3 DEF Merged
  <2>2. IsSequence(ix) /\ \A k \in 1 .. Len(ix) : ix[k] \in Past(t1, t2, p, s.i1, s.i2)
    BY <2>1 DEF Lists
  <2>3. \A k \in 1 .. Len(ix) : ix[k][1] \in 1 .. n1 /\ ix[k][2] \in 1 .. n2
    BY <2>2 DEF Past, Meeting
  <2>4. \A k \in 1 .. Len(ix) : <<t1[ix[k][1]], t2[ix[k][2]]>> \in S
    BY <2>3
  <2>5. Len(ix) \in Nat
    BY <2>2 DEF IsSequence
  <2> HIDE DEF S
  <2> QED BY <2>1, <2>4, <2>5 DEF RowsAt
<1>4. a \in Z
  <2>1. Lists(<<>>, {}) /\ AscendsBy(<<>>, KeyAt(t1, t2, p)) /\ <<>> = RowsAt(t1, t2, <<>>)
    BY DEF Lists, AscendsBy, RowsAt, IsSequence
  <2>2. Past(t1, t2, p, 1, 1) = {}
    BY <1>1 DEF Past, Meeting
  <2>3. a.i1 = 1 /\ a.i2 = 1 /\ a.met = <<>> /\ a \in T
    BY <1>1
  <2> HIDE DEF a, T
  <2>4. Merged(t1, t2, p, a)
    <3> DEFINE e == <<>>
    <3>1. Lists(e, Past(t1, t2, p, a.i1, a.i2)) /\ AscendsBy(e, KeyAt(t1, t2, p)) /\ a.met = RowsAt(t1, t2, e)
      BY <2>1, <2>2, <2>3
    <3>2. a.i1 \in 1 .. n1 + 1 /\ a.i2 \in 1 .. n2 + 1
      BY <1>1, <2>3
    <3> HIDE DEF e
    <3> QED BY <3>1, <3>2 DEF Merged
  <2> QED BY <2>3, <2>4
<1>5. ASSUME NEW s \in Z
      PROVE  /\ MergeTurn(t1, t2, p, s) \in Z
             /\ \/ MergeTurn(t1, t2, p, s).i1 > n1 \/ MergeTurn(t1, t2, p, s).i2 > n2
                \/ MergeTurn(t1, t2, p, s).i1 + MergeTurn(t1, t2, p, s).i2 >= s.i1 + s.i2 + 1
  <2> DEFINE z == MergeTurn(t1, t2, p, s)
  <2>1. s = [i1 |-> s.i1, i2 |-> s.i2, met |-> s.met] /\ s.i1 \in 1 .. n1 + 1 /\ s.i2 \in 1 .. n2 + 1
    OBVIOUS
  <2>2. Merged(t1, t2, p, z) /\ (z.i1 > n1 \/ z.i2 > n2 \/ z.i1 + z.i2 >= s.i1 + s.i2 + 1)
    <3> HIDE DEF z
    <3> QED BY <2>1, MergeTurnRight DEF z
  <2>3. z = [i1 |-> z.i1, i2 |-> z.i2, met |-> z.met]
    <3>1. z = s \/ \E x, y, m : z = [i1 |-> x, i2 |-> y, met |-> m]
      <4>1. \A x : [s EXCEPT !.i1 = x] = [i1 |-> x, i2 |-> s.i2, met |-> s.met]
        BY <2>1
      <4>2. \A x : [s EXCEPT !.i2 = x] = [i1 |-> s.i1, i2 |-> x, met |-> s.met]
        BY <2>1
      <4> QED BY <4>1, <4>2, Zenon DEF MergeTurn
    <3> HIDE DEF z
    <3> QED BY <2>1, <3>1
  <2> HIDE DEF z
  <2>4. z.met \in Seq(S)
    BY <1>3, <2>2
  <2>5. z \in T
    <3>1. z.i1 \in 1 .. n1 + 1 /\ z.i2 \in 1 .. n2 + 1
      BY <2>2 DEF Merged
    <3> HIDE DEF S, n1, n2
    <3> QED BY <2>3, <2>4, <3>1
  <2> QED BY <2>2, <2>5 DEF z
<1> HIDE DEF Z, a
<1>6. PICK g : Follows(g, n, Z, a, step)
  <2>1. step \in [1 .. n -> [Z -> Z]]
    BY <1>5
  <2> HIDE DEF step
  <2> QED BY <1>1, <1>4, <2>1, PrimitiveRecursion, Zenon
<1>7. g \in [0 .. n -> Z] /\ g[0] = a /\ \A k \in 1 .. n : g[k] = MergeTurn(t1, t2, p, g[k - 1])
  <2>1. g \in [0 .. n -> Z] /\ g[0] = a /\ \A k \in 1 .. n : g[k] = step[k][g[k - 1]]
    BY <1>6 DEF Follows
  <2>2. \A k \in 1 .. n : g[k - 1] \in Z
    BY <1>1, <2>1
  <2> QED BY <2>1, <2>2
<1>8. g = Body(g)
  <2>1. \A k \in 0 .. n : g[k] = IF k = 0 THEN a ELSE MergeTurn(t1, t2, p, g[k - 1])
    BY <1>1, <1>7
  <2> QED BY <1>7, <2>1
<1>9. f = Body(f)
  <2>1. \E h : h = Body(h)
    <3> HIDE DEF Body
    <3> QED BY <1>8, Zenon
  <2> QED BY <2>1, Zenon
<1> HIDE DEF f
<1>10. f[0] = a /\ \A k \in 1 .. n : f[k] = MergeTurn(t1, t2, p, f[k - 1])
  <2>1. \A k \in 0 .. n : Body(f)[k] = IF k = 0 THEN a ELSE MergeTurn(t1, t2, p, f[k - 1])
    OBVIOUS
  <2> HIDE DEF Body
  <2>2. \A k \in 0 .. n : f[k] = IF k = 0 THEN a ELSE MergeTurn(t1, t2, p, f[k - 1])
    BY <1>9, <2>1
  <2> QED BY <1>1, <2>2
<1> DEFINE U == {k \in 0 .. n : f[k] \in Z /\ (f[k].i1 > n1 \/ f[k].i2 > n2 \/ f[k].i1 + f[k].i2 >= k + 2)}
<1>11. 0 \in U
  <2>1. a.i1 = 1 /\ a.i2 = 1
    BY DEF a
  <2> QED BY <1>1, <1>4, <1>10, <2>1
<1>12. ASSUME NEW k \in 0 .. n - 1, k \in U PROVE k + 1 \in U
  <2>1. k + 1 \in 1 .. n /\ (k + 1) - 1 = k
    BY <1>1
  <2> DEFINE s == f[k]
             z == f[k + 1]
  <2>2. z = MergeTurn(t1, t2, p, s) /\ s \in Z
    BY <1>10, <1>12, <2>1
  <2>3. s.i1 > n1 \/ s.i2 > n2 \/ s.i1 + s.i2 >= k + 2
    BY <1>12
  <2>4. z \in Z /\ (z.i1 > n1 \/ z.i2 > n2 \/ z.i1 + z.i2 >= s.i1 + s.i2 + 1)
    <3> HIDE DEF s, z
    <3> QED BY <1>5, <2>2
  <2>5. s.i1 \in Int /\ s.i2 \in Int /\ z.i1 \in Int /\ z.i2 \in Int
    <3>1. ASSUME NEW y \in Z PROVE y.i1 \in Int /\ y.i2 \in Int
      <4>1. y \in T
        <5> HIDE DEF T
        <5> QED BY <3>1 DEF Z
      <4> QED BY <1>1, <4>1 DEF n1, n2
    <3> HIDE DEF Z, s, z
    <3> QED BY <2>2, <2>4, <3>1
  <2>6. CASE s.i1 > n1 \/ s.i2 > n2
    <3>1. z = s
      <4> HIDE DEF s, z
      <4> QED BY <2>2, <2>6, ZenonT(30) DEF MergeTurn
    <3> HIDE DEF s, z
    <3>2. z.i1 > n1 \/ z.i2 > n2
      BY <2>6, <3>1
    <3> QED BY <2>1, <2>4, <3>2 DEF z
  <2>7. CASE ~(s.i1 > n1 \/ s.i2 > n2)
    <3> HIDE DEF s, z
    <3>1. z.i1 > n1 \/ z.i2 > n2 \/ z.i1 + z.i2 >= (k + 1) + 2
      BY <2>1, <2>3, <2>4, <2>5, <2>7, SMTT(30)
    <3> QED BY <2>1, <2>4, <3>1 DEF z
  <2> QED BY <2>6, <2>7
<1>13. n \in U
  <2> HIDE DEF U
  <2>1. 0 .. n \subseteq U
    BY <1>1, <1>11, <1>12, BoundedInduction
  <2> QED BY <1>1, <2>1
<1> DEFINE s == f[n]
<1>14. Merged(t1, t2, p, s) /\ (s.i1 > n1 \/ s.i2 > n2 \/ s.i1 + s.i2 >= n + 2)
  BY <1>13 DEF Z
<1> HIDE DEF s
<1>15. s.i1 = n1 + 1 \/ s.i2 = n2 + 1
  <2>1. s.i1 \in 1 .. n1 + 1 /\ s.i2 \in 1 .. n2 + 1
    BY <1>14 DEF Merged
  <2> HIDE DEF n1, n2
  <2> QED BY <1>1, <1>14, <2>1 DEF n
<1>16. Past(t1, t2, p, s.i1, s.i2) = Meeting(t1, t2, p)
  <2>1. \A q \in Meeting(t1, t2, p) : q[1] \in 1 .. n1 /\ q[2] \in 1 .. n2
    BY DEF Meeting
  <2>2. \A q \in Meeting(t1, t2, p) : q[1] < n1 + 1 /\ q[2] < n2 + 1
    BY <1>1, <2>1
  <2> QED BY <1>15, <2>2 DEF Past
<1> QED BY <1>2, <1>14, <1>16 DEF Merged, s
=============================================================================
