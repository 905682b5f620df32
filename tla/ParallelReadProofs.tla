----------------------------- MODULE ParallelReadProofs -----------------------------
(***************************************************************************)
(* The parallel reader, for every number of ranks, every file, way of      *)
(* splitting it and length of the batches.                                 *)
(*                                                                         *)
(* First, readers that do not permute the vertices call the same           *)
(* collectives on every rank: the number of batches is a rank's own, but   *)
(* only the first one is followed by a collective.  With permuted vertices *)
(* every batch is, and the ranks part (IInv).                              *)
(*                                                                         *)
(* Then, each line is processed once and in order: a rank is always at the *)
(* beginning of a line (PositionInv) and has the lines of its range that   *)
(* start before it (LinesInv).                                             *)
(***************************************************************************)
EXTENDS ParallelRead, CommonProofs

Barrier == [op |-> "barrier", root |-> -1]
Reduction == [op |-> "reduce", root |-> 0]

\* What a rank has called when it is at control point c, before or after its first batch.
Called(c, firstcall) ==
  IF c = "fetch" /\ firstcall THEN <<>>
  ELSE IF c \in {"fetch", "barrier"} THEN <<Barrier>> ELSE <<Barrier, Reduction>>

Unpermuted == reader \in Readers /\ ~ reader.perm
ControlInv ==
  /\ pc \in [Rank -> {"fetch", "barrier", "reduce", "done"}] /\ first \in [Rank -> BOOLEAN]
  /\ DOMAIN log = Rank
  /\ \A p \in Rank : pc[p] # "fetch" => ~ first[p]
LogInv == \A p \in Rank : log[p] = Called(pc[p], first[p])

IInv == Unpermuted /\ ControlInv /\ LogInv

\* The calls of two ranks are the same as far as both have called.
LEMMA CalledMatch ==
  ASSUME NEW c, NEW d, NEW b, NEW e
  PROVE  SameCalls(Called(c, b), Called(d, e))
BY DEF SameCalls, Called

\* Going on after a batch, or leaving the loop with the reduction.
LEMMA ContinueIInv ==
  ASSUME IInv, NEW p \in Rank, NEW done, Continue(p, done), log[p] = <<Barrier>>,
         first' \in [Rank -> BOOLEAN], ~ first'[p], \A q \in Rank : q # p => first'[q] = first[q],
         UNCHANGED reader
  PROVE  IInv'
<1>1. Unpermuted'
  BY DEF IInv, Unpermuted
<1>2. CASE done
  <2>1. /\ pc' = [pc EXCEPT ![p] = "reduce"]
        /\ log' = [log EXCEPT ![p] = Append(@, Reduction)]
    BY <1>2 DEF Continue, Call, Reduction
  <2>2. Append(<<Barrier>>, Reduction) = <<Barrier, Reduction>>
    BY AppendSecond
  <2>3. ControlInv'
    BY <2>1 DEF IInv, ControlInv
  <2>4. LogInv'
    BY <2>1, <2>2 DEF IInv, ControlInv, LogInv, Called
  <2> QED BY <1>1, <2>3, <2>4 DEF IInv
<1>3. CASE ~ done
  <2>1. pc' = [pc EXCEPT ![p] = "fetch"] /\ log' = log
    BY <1>3 DEF Continue
  <2>2. ControlInv'
    BY <2>1 DEF IInv, ControlInv
  <2>3. LogInv'
    BY <2>1 DEF IInv, ControlInv, LogInv, Called
  <2> QED BY <1>1, <2>2, <2>3 DEF IInv
<1> QED BY <1>2, <1>3

\* A batch: the first one is followed by the barrier.
LEMMA FetchIInv ==
  ASSUME IInv, NEW p \in Rank, Fetch(p)
  PROVE  IInv'
<1>1. pc[p] = "fetch" /\ ~ reader.perm /\ UNCHANGED reader
  BY DEF Fetch, IInv, Unpermuted
<1>2. PICK done : AfterLines(p, first[p], done) /\ first' = [first EXCEPT ![p] = FALSE]
  BY <1>1 DEF Fetch
<1>3. first' \in [Rank -> BOOLEAN] /\ ~ first'[p] /\ \A q \in Rank : q # p => first'[q] = first[q]
  BY <1>2 DEF IInv, ControlInv
<1>4. CASE first[p]
  <2>1. /\ pc' = [pc EXCEPT ![p] = "barrier"] /\ log[p] = <<>>
        /\ log' = [log EXCEPT ![p] = Append(@, Barrier)]
    BY <1>1, <1>2, <1>4 DEF AfterLines, Call, Barrier, IInv, LogInv, Called
  <2>2. Append(<<>>, Barrier) = <<Barrier>>
    OBVIOUS
  <2>3. Unpermuted' /\ ControlInv'
    BY <1>1, <1>3, <2>1 DEF IInv, Unpermuted, ControlInv
  <2>4. LogInv'
    BY <1>3, <2>1, <2>2 DEF IInv, ControlInv, LogInv, Called
  <2> QED BY <2>3, <2>4 DEF IInv
<1>5. CASE ~ first[p]
  <2>1. Continue(p, done) /\ log[p] = <<Barrier>>
    BY <1>1, <1>2, <1>5 DEF AfterLines, IInv, LogInv, Called
  <2> QED BY <1>1, <1>3, <2>1, ContinueIInv
<1> QED BY <1>4, <1>5

\* After the barrier.
LEMMA LeaveBarrierIInv ==
  ASSUME IInv, NEW p \in Rank, LeaveBarrier(p)
  PROVE  IInv'
<1>1. Continue(p, finished[p]) /\ pc[p] = "barrier" /\ UNCHANGED <<reader, first>>
  BY DEF LeaveBarrier
<1>2. log[p] = <<Barrier>> /\ ~ first[p] /\ first \in [Rank -> BOOLEAN]
  BY <1>1 DEF IInv, ControlInv, LogInv, Called
<1> QED BY <1>1, <1>2, ContinueIInv

\* The next-state relation; no rank is in the exchange of permuted vertices.
LEMMA NextIInv == IInv /\ [Next]_vars => IInv'
<1> SUFFICES ASSUME IInv, [Next]_vars PROVE IInv'
  OBVIOUS
<1>1. ASSUME NEW p \in Rank, Step(p) PROVE IInv'
  <2>1. CASE Fetch(p)
    BY <2>1, FetchIInv
  <2>2. CASE LeaveExchange(p)
    BY <2>2 DEF LeaveExchange, IInv, ControlInv
  <2>3. CASE LeaveBarrier(p)
    BY <2>3, LeaveBarrierIInv
  <2>4. CASE LeaveReduce(p)
    <3>1. pc[p] = "reduce" /\ pc' = [pc EXCEPT ![p] = "done"] /\ UNCHANGED <<reader, first, log>>
      BY <2>4 DEF LeaveReduce
    <3>2. Unpermuted' /\ ControlInv'
      BY <3>1 DEF IInv, Unpermuted, ControlInv
    <3>3. LogInv'
      BY <3>1 DEF IInv, ControlInv, LogInv, Called
    <3> QED BY <3>2, <3>3 DEF IInv
  <2> QED BY <1>1, <2>1, <2>2, <2>3, <2>4 DEF Step
<1>2. CASE UNCHANGED vars
  BY <1>2 DEF vars, IInv, Unpermuted, ControlInv, LogInv
<1> QED BY <1>1, <1>2 DEF Next, Terminated

-----------------------------------------------------------------------------
\* All ranks go through the same collectives in the same order if no vertices are permuted
\* (ParallelReadMM, FullyDistSpVec::ParallelRead), however unevenly the lines are spread.
THEOREM UnpermutedReadersMatch ==
  ASSUME \A r \in Readers : ~ r.perm
  PROVE  Spec => []CollectivesMatch
<1>1. Init => IInv
  BY DEF Init, IInv, Unpermuted, ControlInv, LogInv, Called
<1>2. IInv /\ [Next]_vars => IInv'
  BY NextIInv
<1>3. IInv => CollectivesMatch
  BY CalledMatch DEF IInv, LogInv, CollectivesMatch
<1> QED BY <1>1, <1>2, <1>3, PTL DEF Spec

-----------------------------------------------------------------------------
(* Ranges.  The share of the first p of d ranks in n bytes. *)

LEMMA ShareMonotone ==
  ASSUME NEW a \in Nat, NEW b \in Nat, a <= b, NEW d \in Nat \ {0}
  PROVE  a \div d \in Nat /\ a \div d <= b \div d
<1> DEFINE x == a \div d
           y == b \div d
<1>1. x \in Nat /\ x * d <= a /\ y \in Nat /\ b < y * d + d
  BY DivBounds
<1>2. SUFFICES x <= y
  BY <1>1
<1>3. SUFFICES ASSUME y + 1 <= x PROVE FALSE
  BY <1>1
<1> HIDE DEF x, y
<1>4. (y + 1) * d <= x * d /\ (y + 1) * d = y * d + d /\ x * d \in Nat /\ y * d \in Nat
  BY <1>1, <1>3
<1> QED BY <1>1, <1>4

LEMMA ShareRight ==
  ASSUME NEW n \in Nat, NEW d \in Nat \ {0}, NEW p \in 0 .. d
  PROVE  /\ (p * n) \div d \in 0 .. n
         /\ (0 * n) \div d = 0
         /\ d <= n /\ p >= 1 => (p * n) \div d >= 1
         /\ \A q \in 0 .. d : p <= q => (p * n) \div d <= (q * n) \div d
<1>1. ASSUME NEW q \in 0 .. d, p <= q PROVE (p * n) \div d <= (q * n) \div d
  <2>1. p * n \in Nat /\ q * n \in Nat /\ p * n <= q * n
    BY <1>1
  <2> HIDE <1>1
  <2> QED BY <2>1, ShareMonotone
<1>2. (p * n) \div d \in 0 .. n
  <2>1. p * n \in Nat /\ d * n \in Nat /\ p * n <= d * n
    OBVIOUS
  <2>2. (p * n) \div d \in Nat /\ (p * n) \div d <= (d * n) \div d
    BY <2>1, ShareMonotone
  <2>3. (d * n) \div d = n
    OBVIOUS
  <2> QED BY <2>2, <2>3
<1>3. (0 * n) \div d = 0
  OBVIOUS
<1>4. ASSUME d <= n, p >= 1 PROVE (p * n) \div d >= 1
  <2>1. p * n \in Nat /\ n <= p * n
    BY <1>4
  <2>2. d \div d <= (p * n) \div d /\ (p * n) \div d \in Nat
    BY <2>1, <1>4, ShareMonotone
  <2>3. d \div d = 1
    OBVIOUS
  <2> QED BY <2>2, <2>3
<1> QED BY <1>1, <1>2, <1>3, <1>4

Low(p) == StartOf(file, p)
High(p) == EndOf(file, p)

\* The ranges follow one another from the header to the end of the file; only the first
\* rank of the vector reader may begin behind the end of its own.
LEMMA RangesRight ==
  ASSUME reader \in Readers, file \in Files
  PROVE  /\ \A p \in Rank : Low(p) \in 1 .. file.size /\ High(p) \in 0 .. file.size
         /\ 0 \in Rank /\ NP - 1 \in Rank
         /\ Low(0) = file.header /\ High(NP - 1) = file.size
         /\ \A p \in Rank : p + 1 \in Rank => High(p) = Low(p + 1)
         /\ \A p, q \in Rank : p < q => High(p) <= Low(q)
         /\ reader.splitData => \A p \in Rank : file.header <= Low(p)
<1>1. /\ NP \in Nat \ {0} /\ file.size \in Nat /\ file.header \in 1 .. file.size
      /\ ~ reader.splitData => NP <= file.size
  BY FilesAssumption
<1>2. 0 \in Rank /\ NP - 1 \in Rank /\ Rank \subseteq 0 .. NP
  BY <1>1 DEF Rank
<1> DEFINE size == file.size
           header == file.header
           base == IF reader.splitData THEN header ELSE 0
           n == size - base
           share(p) == (p * n) \div NP
<1>3. base \in Nat /\ n \in Nat /\ base + n = size /\ base <= header
  BY <1>1
<1>4. /\ \A p \in 0 .. NP : share(p) \in 0 .. n
      /\ share(0) = 0
      /\ \A p \in 0 .. NP : NP <= n /\ p >= 1 => share(p) >= 1
      /\ \A p, q \in 0 .. NP : p <= q => share(p) <= share(q)
  <2> HIDE DEF n
  <2> QED BY <1>1, <1>2, <1>3, ShareRight
<1>5. \A p \in Rank : Low(p) = IF p = 0 THEN header ELSE base + share(p)
  BY <1>1, <1>4 DEF Low, StartOf, Rank
<1>6. \A p \in Rank : High(p) = IF p = NP - 1 THEN size ELSE base + share(p + 1)
  BY <1>1 DEF High, EndOf, Rank
<1>7. \A p \in Rank : p >= 1 => base + share(p) >= 1 /\ (reader.splitData => base + share(p) >= header)
  <2> TAKE p \in Rank
  <2> HAVE p >= 1
  <2>1. CASE reader.splitData
    <3>1. share(p) \in 0 .. n
      BY <1>2, <1>4
    <3>2. base = header /\ header >= 1
      BY <2>1, <1>1
    <3> HIDE DEF share
    <3> QED BY <3>1, <3>2, <1>3
  <2>2. CASE ~ reader.splitData
    <3>1. NP <= n
      BY <2>2, <1>1, <1>3
    <3> QED BY <2>2, <3>1, <1>1, <1>2, <1>3, <1>4 DEF Rank
  <2> QED BY <2>1, <2>2
<1>8. \A p \in Rank : p + 1 \in 0 .. NP /\ p \in 0 .. NP /\ (p # 0 => p >= 1)
  BY <1>1 DEF Rank
<1>9. size \in Nat /\ header \in 1 .. size
  BY <1>1
<1> HIDE DEF share, base, n, size, header
<1>10. \A p \in Rank : Low(p) \in 1 .. size /\ High(p) \in 0 .. size
  <2> TAKE p \in Rank
  <2>1. share(p) \in 0 .. n /\ share(p + 1) \in 0 .. n
    BY <1>4, <1>8
  <2>2. Low(p) \in 1 .. size
    BY <2>1, <1>3, <1>5, <1>7, <1>8, <1>9
  <2>3. High(p) \in 0 .. size
    BY <2>1, <1>3, <1>6, <1>9
  <2> QED BY <2>2, <2>3
<1>11. Low(0) = header /\ High(NP - 1) = size
  BY <1>2, <1>5, <1>6
<1>12. \A p \in Rank : p + 1 \in Rank => High(p) = Low(p + 1)
  BY <1>1, <1>5, <1>6 DEF Rank
<1>13. \A p, q \in Rank : p < q => High(p) <= Low(q)
  <2> TAKE p, q \in Rank
  <2> HAVE p < q
  <2>1. High(p) = base + share(p + 1) /\ Low(q) = base + share(q)
    BY <1>1, <1>5, <1>6 DEF Rank
  <2>2. p + 1 \in 0 .. NP /\ q \in 0 .. NP /\ p + 1 <= q
    BY <1>8 DEF Rank
  <2>3. share(p + 1) <= share(q) /\ share(p + 1) \in 0 .. n /\ share(q) \in 0 .. n
    BY <2>2, <1>4
  <2> QED BY <2>1, <2>3, <1>3
<1>14. reader.splitData => \A p \in Rank : header <= Low(p)
  BY <1>5, <1>7, <1>8, <1>9
<1> QED BY <1>2, <1>10, <1>11, <1>12, <1>13, <1>14 DEF size, header

-----------------------------------------------------------------------------
(* A batch. *)

Boundary(c) == c \in LineStarts(file) \cup {file.size}
Unread(p) == first[p] /\ pc[p] = "fetch"

\* Where a rank is: at the beginning of its range, which the first rank knows to be the
\* beginning of a line, and later at the beginning of a line or the end of the file.
PositionInv ==
  /\ \A p \in Rank : first[p] => pc[p] \in {"fetch", "exchange"}
  /\ \A p \in Rank : Unread(p) => curpos[p] = Low(p)
  /\ \A p \in Rank : p = 0 \/ ~ Unread(p) => Boundary(curpos[p])

\* A line starts after a newline, the first one after that of the header.
LEMMA StartsRight ==
  ASSUME file \in Files
  PROVE  /\ file.size \in Nat \ {0} /\ file.header \in 1 .. file.size
         /\ file.nl \subseteq 0 .. file.size - 1
         /\ LineStarts(file) \subseteq file.header .. file.size - 1
         /\ \A s \in LineStarts(file) : s - 1 \in file.nl
         /\ \A i \in file.nl : i >= file.header - 1 => Boundary(i + 1)
<1> HIDE DEF Boundary
<1>1. /\ file.size \in Nat /\ file.header \in 1 .. file.size
      /\ file.nl \subseteq 0 .. file.size - 1 /\ file.header - 1 \in file.nl
  BY FilesAssumption
<1>2. \A s : s \in LineStarts(file) <=> /\ s = file.header \/ \E i \in file.nl : i >= file.header /\ s = i + 1
                                        /\ s < file.size
  BY DEF LineStarts
<1>3. \A s \in LineStarts(file) : s - 1 \in file.nl
  BY <1>1, <1>2
<1>4. \A i \in file.nl : i >= file.header - 1 => Boundary(i + 1)
  <2> TAKE i \in file.nl
  <2> HAVE i >= file.header - 1
  <2>1. i \in 0 .. file.size - 1
    BY <1>1
  <2>2. CASE i + 1 < file.size
    <3>1. i + 1 = file.header \/ i >= file.header
      BY <1>1, <2>1
    <3> QED BY <1>2, <2>2, <3>1 DEF Boundary
  <2>3. CASE ~ i + 1 < file.size
    BY <1>1, <2>1, <2>3 DEF Boundary
  <2> QED BY <2>2, <2>3
<1>5. LineStarts(file) \subseteq file.header .. file.size - 1
  BY <1>1, <1>2
<1> QED BY <1>1, <1>3, <1>4, <1>5

\* The greatest and the smallest element.
LEMMA MaxRight ==
  ASSUME NEW S \in SUBSET Int, NEW m \in S, \A y \in S : y <= m
  PROVE  Max(S) = m
<1> DEFINE max == Max(S)
<1>1. m \in S /\ \A y \in S : m >= y
  OBVIOUS
<1>2. max \in S /\ \A y \in S : max >= y
  BY <1>1 DEF Max
<1> HIDE DEF max
<1>3. max \in Int /\ m \in Int /\ max >= m /\ m >= max
  BY <1>1, <1>2
<1> QED BY <1>3 DEF max

LEMMA MinRight ==
  ASSUME NEW S \in SUBSET Nat, S # {}
  PROVE  Min(S) \in S /\ \A y \in S : Min(S) <= y
<1>1. PICK m \in S : \A y \in S : m <= y
  BY Smallest
<1> QED BY <1>1 DEF Min

\* What a read of n bytes from position a of a file delivers.
Delivers(w, a, n, size) == w = {i \in a .. a + n - 1 : i < size}

LEMMA WindowShape ==
  ASSUME NEW size \in Nat, NEW a \in 0 .. size, NEW n \in Nat \ {0},
         NEW w, Delivers(w, a, n, size)
  PROVE  /\ w = {} <=> a = size
         /\ w \subseteq a .. size - 1
         /\ \A i, j : j \in w /\ i \in a .. j => i \in w
         /\ Cardinality(w) < n <=> a + n > size
         /\ w # {} => Max(w) \in w /\ \A i \in w : i <= Max(w)
         /\ a + n > size /\ w # {} => Max(w) = size - 1 /\ size - 1 \in w
         /\ a + n <= size => w = a .. a + n - 1
<1> DEFINE m == IF a + n <= size THEN a + n ELSE size
<1>1. w = a .. m - 1
  BY DEF Delivers
<1>2. m \in Nat /\ a <= m /\ m <= size /\ (a < m <=> a < size) /\ (a + n <= size => m = a + n)
      /\ (a + n > size => m = size)
  OBVIOUS
<1> HIDE DEF m
<1>3. Cardinality(w) = m - a
  <2>1. a \in Int /\ m - 1 \in Int /\ m \in Int
    BY <1>2
  <2>2. Cardinality(a .. m - 1) = IF a > m - 1 THEN 0 ELSE (m - 1) - a + 1
    BY <2>1, FS_Interval
  <2>3. a > m - 1 => m = a
    BY <1>2
  <2> HIDE <1>1
  <2>4. Cardinality(a .. m - 1) = m - a
    BY <1>2, <2>2, <2>3
  <2> QED BY <1>1, <2>4
<1>4. w # {} => Max(w) = m - 1 /\ m - 1 \in w /\ \A i \in w : i <= m - 1
  <2> HAVE w # {}
  <2>1. w \in SUBSET Int /\ m - 1 \in w /\ \A y \in w : y <= m - 1
    BY <1>1, <1>2
  <2> QED BY <2>1, MaxRight
<1>5. w = {} <=> a = size
  <2>1. CASE a < size
    <3>1. a \in w
      BY <1>1, <1>2, <2>1
    <3> QED BY <2>1, <3>1
  <2>2. CASE ~ a < size
    <3>1. a = size /\ m = a
      BY <1>2, <2>2
    <3>2. \A i \in w : FALSE
      BY <1>1, <1>2, <3>1
    <3> QED BY <3>1, <3>2
  <2> QED BY <2>1, <2>2
<1>6. w \subseteq a .. size - 1 /\ \A i, j : j \in w /\ i \in a .. j => i \in w
  BY <1>1, <1>2
<1>7. Cardinality(w) < n <=> a + n > size
  BY <1>2, <1>3
<1>8. a + n > size /\ w # {} => Max(w) = size - 1 /\ size - 1 \in w
  BY <1>2, <1>4
<1>9. a + n <= size => w = a .. a + n - 1
  BY <1>1, <1>2
<1>10. w # {} => Max(w) \in w /\ \A i \in w : i <= Max(w)
  BY <1>4
<1> QED BY <1>5, <1>6, <1>7, <1>8, <1>9, <1>10

\* What a rank reads, from where.
Reads(p, a, n) ==
  /\ ReadFrom(p) = a /\ a \in 0 .. file.size
  /\ BytesToFetch(p) = n /\ n \in Nat \ {0} /\ n >= reader.batch
  /\ Window(p) = {} <=> a = file.size
  /\ Window(p) \subseteq a .. file.size - 1
  /\ \A i, j : j \in Window(p) /\ i \in a .. j => i \in Window(p)
  /\ Cardinality(Window(p)) < n <=> a + n > file.size
  /\ Window(p) # {} => Max(Window(p)) \in Window(p) /\ \A i \in Window(p) : i <= Max(Window(p))
  /\ a + n > file.size /\ Window(p) # {} => Max(Window(p)) = file.size - 1 /\ file.size - 1 \in Window(p)
  /\ a + n <= file.size => Window(p) = a .. a + n - 1

LEMMA WindowRight ==
  ASSUME TypeOK, PositionInv, NEW p \in Rank, pc[p] = "fetch"
  PROVE  /\ Reads(p, ReadFrom(p), BytesToFetch(p))
         /\ SkipsPartialLine(p, first[p]) =>
              /\ ReadFrom(p) = curpos[p] - 1 /\ curpos[p] = Low(p) /\ Window(p) # {}
              /\ BytesToFetch(p) = reader.batch + 1
         /\ ~ SkipsPartialLine(p, first[p]) => ReadFrom(p) = curpos[p] /\ BytesToFetch(p) = reader.batch
<1>1. file.size \in Nat \ {0} /\ reader.batch \in Nat \ {0}
  BY StartsRight, FilesAssumption DEF TypeOK
<1>2. curpos[p] \in 0 .. file.size /\ Low(p) \in 1 .. file.size
  BY RangesRight DEF TypeOK
<1>3. SkipsPartialLine(p, first[p]) => curpos[p] = Low(p)
  BY DEF PositionInv, Unread, SkipsPartialLine
<1>4. /\ SkipsPartialLine(p, first[p]) => ReadFrom(p) = curpos[p] - 1 /\ BytesToFetch(p) = reader.batch + 1
      /\ ~ SkipsPartialLine(p, first[p]) => ReadFrom(p) = curpos[p] /\ BytesToFetch(p) = reader.batch
  BY DEF ReadFrom, BytesToFetch
<1>5. ReadFrom(p) \in 0 .. file.size /\ BytesToFetch(p) \in Nat \ {0} /\ BytesToFetch(p) >= reader.batch
  BY <1>1, <1>2, <1>3, <1>4
<1>6. SkipsPartialLine(p, first[p]) => ReadFrom(p) < file.size
  BY <1>1, <1>2, <1>3, <1>4
<1> DEFINE size == file.size
           a == ReadFrom(p)
           n == BytesToFetch(p)
           w == Window(p)
<1>7. Delivers(w, a, n, size)
  BY DEF Window, Delivers
<1>8. size \in Nat /\ a \in 0 .. size /\ n \in Nat \ {0}
  BY <1>1, <1>5
<1>9. /\ w = {} <=> a = size
      /\ w \subseteq a .. size - 1
      /\ \A i, j : j \in w /\ i \in a .. j => i \in w
      /\ Cardinality(w) < n <=> a + n > size
      /\ w # {} => Max(w) \in w /\ \A i \in w : i <= Max(w)
      /\ a + n > size /\ w # {} => Max(w) = size - 1 /\ size - 1 \in w
      /\ a + n <= size => w = a .. a + n - 1
  <2> HIDE DEF a, n, w, size
  <2> QED BY <1>7, <1>8, WindowShape
<1>10. Reads(p, a, n)
  BY <1>5, <1>9 DEF Reads
<1>11. SkipsPartialLine(p, first[p]) => Window(p) # {}
  BY <1>1, <1>6, <1>9
<1> QED BY <1>3, <1>4, <1>10, <1>11

\* Where the lines end that a read shows: at every newline, and at the end of the file when
\* it shows that; it always shows an end of a line.
LEMMA BreaksRight ==
  ASSUME TypeOK, PositionInv, NEW p \in Rank, pc[p] = "fetch", Window(p) # {}
  PROVE  /\ Breaks(p) \subseteq Window(p) /\ Breaks(p) # {}
         /\ \A b \in Breaks(p) : b \in file.nl \/ b = file.size - 1
         /\ \A i \in file.nl : i \in Window(p) => i \in Breaks(p)
         /\ ReadFrom(p) + BytesToFetch(p) > file.size => file.size - 1 \in Breaks(p)
<1> DEFINE a == ReadFrom(p)
           n == BytesToFetch(p)
<1>1. Reads(p, a, n) /\ (n = reader.batch \/ n = reader.batch + 1)
  BY WindowRight, Zenon
<1>2. /\ file.size \in Nat \ {0} /\ reader.batch \in Nat \ {0}
      /\ \A s \in 0 .. file.size - reader.batch : \E i \in s .. s + reader.batch - 1 : i \in file.nl
  BY StartsRight, FilesAssumption DEF TypeOK
<1> HIDE DEF a, n
<1>3. CASE a + n > file.size
  <2>1. CheckNewline(Window(p), n) = {file.size - 1}
    BY <1>1, <1>3 DEF CheckNewline, Reads
  <2>2. Breaks(p) = (file.nl \cap Window(p)) \cup {file.size - 1}
    BY <2>1 DEF Breaks, n
  <2>3. file.size - 1 \in Window(p)
    BY <1>1, <1>3 DEF Reads
  <2> QED BY <2>2, <2>3 DEF a, n
<1>4. CASE ~ a + n > file.size
  <2>1. CheckNewline(Window(p), n) = {}
    BY <1>1, <1>4 DEF CheckNewline, Reads
  <2>2. Breaks(p) = file.nl \cap Window(p)
    BY <2>1 DEF Breaks, n
  <2>3. a \in 0 .. file.size - reader.batch /\ Window(p) = a .. a + n - 1 /\ n >= reader.batch /\ n \in Nat
    BY <1>1, <1>2, <1>4 DEF Reads
  <2>4. PICK i \in a .. a + reader.batch - 1 : i \in file.nl
    BY <1>2, <2>3
  <2>5. i \in Window(p)
    BY <1>2, <2>3, <2>4
  <2> QED BY <2>2, <2>4, <2>5, <1>4 DEF a, n
<1> QED BY <1>3, <1>4

\* The first line of a batch starts at the first line start from the rank's position on.
LEMMA FirstLineRight ==
  ASSUME TypeOK, PositionInv, NEW p \in Rank, pc[p] = "fetch", Window(p) # {}
  PROVE  /\ FirstLine(p) \in 0 .. file.size /\ Boundary(FirstLine(p))
         /\ ReadFrom(p) <= FirstLine(p) /\ curpos[p] <= FirstLine(p)
         /\ \A s \in LineStarts(file) : curpos[p] <= s => FirstLine(p) <= s
<1> DEFINE a == ReadFrom(p)
           n == BytesToFetch(p)
           size == file.size
           header == file.header
<1>1. Reads(p, a, n)
  BY WindowRight, Zenon
<1>2. /\ size \in Nat \ {0} /\ header \in 1 .. size
      /\ LineStarts(file) \subseteq header .. size - 1
      /\ \A s \in LineStarts(file) : s - 1 \in file.nl
      /\ \A i \in file.nl : i >= header - 1 => Boundary(i + 1)
  BY StartsRight DEF TypeOK
<1>3. curpos[p] \in 0 .. size
  BY DEF TypeOK
<1>4. CASE SkipsPartialLine(p, first[p])
  <2>1. a = curpos[p] - 1 /\ curpos[p] = Low(p)
    BY <1>4, WindowRight
  <2>2. Low(p) \in 1 .. size /\ (reader.splitData => header <= Low(p))
    BY RangesRight DEF TypeOK
  <2> DEFINE S == Breaks(p) \cup {Max(Window(p))}
             m == Min(S)
  <2>3. /\ Breaks(p) \subseteq Window(p) /\ Breaks(p) # {}
        /\ \A b \in Breaks(p) : b \in file.nl \/ b = size - 1
        /\ \A i \in file.nl : i \in Window(p) => i \in Breaks(p)
    BY BreaksRight
  <2>4. /\ Window(p) \subseteq a .. size - 1 /\ a \in 0 .. size
        /\ Max(Window(p)) \in Window(p) /\ \A i \in Window(p) : i <= Max(Window(p))
        /\ \A i, j : j \in Window(p) /\ i \in a .. j => i \in Window(p)
    BY <1>1 DEF Reads
  <2>5. m \in S /\ \A y \in S : m <= y
    <3>1. S \in SUBSET Nat /\ S # {}
      BY <1>2, <2>3, <2>4
    <3> HIDE DEF S
    <3> QED BY <3>1, MinRight
  <2>6. FirstLine(p) = m + 1
    BY <1>4 DEF FirstLine
  <2> HIDE DEF m
  <2>7. m \in Breaks(p) /\ \A b \in Breaks(p) : m <= b
    <3>1. PICK b \in Breaks(p) : TRUE
      BY <2>3
    <3>2. b \in Window(p) /\ b \in Nat /\ m \in Window(p) /\ m \in Nat
      BY <1>2, <2>3, <2>4, <2>5
    <3>3. m <= b /\ b <= Max(Window(p)) /\ Max(Window(p)) \in Nat
      BY <1>2, <2>4, <2>5, <3>2
    <3>4. m = Max(Window(p)) => m = b
      BY <3>2, <3>3
    <3> QED BY <2>5, <3>4
  <2>8. m \in a .. size - 1 /\ m \in Window(p)
    BY <2>3, <2>4, <2>7
  <2>9. Boundary(m + 1)
    <3>1. CASE m = size - 1
      BY <1>2, <3>1 DEF Boundary
    <3>2. CASE m \in file.nl
      <4>1. m >= header - 1
        <5>1. CASE reader.splitData
          BY <1>2, <2>1, <2>2, <2>8, <5>1
        <5>2. CASE ~ reader.splitData
          BY <3>2, <5>2, FilesAssumption DEF TypeOK
        <5> QED BY <5>1, <5>2
      <4> QED BY <1>2, <3>2, <4>1
    <3> QED BY <2>3, <2>7, <3>1, <3>2
  <2>10. ASSUME NEW s \in LineStarts(file), curpos[p] <= s PROVE m + 1 <= s
    <3>1. s \in header .. size - 1 /\ s - 1 \in file.nl
      BY <1>2
    <3>2. SUFFICES ASSUME s <= m PROVE FALSE
      BY <1>2, <2>8, <3>1
    <3>3. s - 1 \in a .. m
      BY <1>2, <1>3, <2>1, <2>2, <2>8, <2>10, <3>1, <3>2
    <3>4. s - 1 \in Breaks(p)
      BY <2>3, <2>4, <2>8, <3>1, <3>3
    <3>5. m <= s - 1
      BY <2>7, <3>4
    <3> QED BY <1>2, <2>8, <3>1, <3>2, <3>5
  <2>11. m + 1 \in 0 .. size /\ a <= m + 1 /\ curpos[p] <= m + 1
    BY <1>2, <1>3, <2>1, <2>2, <2>4, <2>8
  <2> QED BY <2>6, <2>9, <2>10, <2>11
<1>5. CASE ~ SkipsPartialLine(p, first[p])
  <2>1. FirstLine(p) = curpos[p] /\ a = curpos[p]
    BY <1>5, WindowRight DEF FirstLine
  <2>2. p = 0 \/ ~ Unread(p)
    BY <1>5 DEF SkipsPartialLine, Unread
  <2>3. Boundary(curpos[p])
    BY <2>2 DEF PositionInv
  <2> QED BY <1>3, <2>1, <2>3
<1> QED BY <1>4, <1>5

\* The lines of a batch are those that start from its first line to where the rank goes on,
\* in order; those that start behind the range are not among them, and after a read to the
\* end of the file none of the range is left.
LEMMA BatchRight ==
  ASSUME TypeOK, PositionInv, NEW p \in Rank, pc[p] = "fetch", Window(p) # {}
  PROVE  LET batch == LinesIn(p)
             from == FirstLine(p)
             to == NextPosition(p, batch)
         IN /\ batch \in Seq((0 .. file.size) \X (0 .. file.size))
            /\ to \in 0 .. file.size /\ Boundary(to) /\ from <= to
            /\ \A i \in DOMAIN batch :
                 batch[i][1] \in LineStarts(file) /\ from <= batch[i][1] /\ batch[i][1] < to /\ batch[i][1] < High(p)
            /\ \A i, j \in DOMAIN batch : i < j => batch[i][1] < batch[j][1]
            /\ \A s \in LineStarts(file) : from <= s /\ s < to => \E i \in DOMAIN batch : batch[i][1] = s
            /\ ReadFrom(p) + BytesToFetch(p) > file.size => High(p) <= to
<1> DEFINE size == file.size
           header == file.header
           starts == LineStarts(file)
           a == ReadFrom(p)
           n == BytesToFetch(p)
           w == Window(p)
           B == Breaks(p)
           F == FirstLine(p)
           E == High(p)
           T == LineEnds(p)
           e == InOrderOf(T, LAMBDA i, j : i < j)
           k == Cardinality(T)
           batch == LinesIn(p)
           to == NextPosition(p, batch)
<1>1. /\ size \in Nat \ {0} /\ header \in 1 .. size
      /\ starts \subseteq header .. size - 1
      /\ \A s \in starts : s - 1 \in file.nl
      /\ \A i \in file.nl : i >= header - 1 => Boundary(i + 1)
  BY StartsRight DEF TypeOK
<1>2. /\ a \in 0 .. size /\ w \subseteq a .. size - 1
      /\ \A i, j : j \in w /\ i \in a .. j => i \in w
  <2>1. Reads(p, a, n)
    BY WindowRight, Zenon
  <2> QED BY <2>1 DEF Reads
<1>3. /\ B \subseteq w /\ B # {}
      /\ \A b \in B : b \in file.nl \/ b = size - 1
      /\ \A i \in file.nl : i \in w => i \in B
      /\ a + n > size => size - 1 \in B
  BY BreaksRight
<1>4. F \in 0 .. size /\ Boundary(F) /\ a <= F
  BY FirstLineRight
<1>5. E \in 0 .. size
  BY RangesRight DEF TypeOK
<1>6. \A x : x \in T <=> /\ x \in B /\ F <= x /\ F < E
                         /\ \A b \in B : F <= b /\ b < x => b + 1 < E
  BY DEF LineEnds, High
<1>7. /\ k \in Nat /\ e \in [1 .. k -> T]
      /\ \A x \in T : \E i \in 1 .. k : e[i] = x
      /\ \A i, j \in 1 .. k : i < j <=> e[i] < e[j]
  <2> DEFINE D == 0 .. size - 1
  <2>1. B \subseteq D
    BY <1>1, <1>2, <1>3
  <2>2. IsFiniteSet(D) /\ D \subseteq Int
    BY <1>1, FS_Interval
  <2>3. T \in SUBSET D
    BY <1>6, <2>1
  <2> HIDE DEF T, D
  <2>4. T \in SUBSET Int /\ IsFiniteSet(T)
    BY <2>2, <2>3, FS_Subset
  <2> QED BY <2>4, Ascending
<1>8. batch = [i \in 1 .. k |-> <<IF i = 1 THEN F ELSE e[i - 1] + 1, e[i]>>]
  BY DEF LinesIn
<1>9. to = IF batch = <<>> THEN F ELSE batch[Len(batch)][2] + 1
  BY DEF NextPosition
<1> HIDE DEF size, header, starts, a, n, w, B, F, E, T, e, k, batch, to
<1>10. B \subseteq 0 .. size - 1
  BY <1>1, <1>2, <1>3
<1>11. T \subseteq 0 .. size - 1 /\ \A i \in 1 .. k : e[i] \in T /\ e[i] \in 0 .. size - 1
  <2>1. T \subseteq 0 .. size - 1
    BY <1>6, <1>10
  <2> QED BY <1>7, <2>1
<1>12. DOMAIN batch = 1 .. k /\ Len(batch) = k
  BY <1>7, <1>8
<1>13. \A i \in 1 .. k : batch[i][1] = (IF i = 1 THEN F ELSE e[i - 1] + 1) /\ batch[i][2] = e[i]
  BY <1>8
<1>14. batch \in Seq((0 .. size) \X (0 .. size))
  <2>1. \A i \in 1 .. k : (IF i = 1 THEN F ELSE e[i - 1] + 1) \in 0 .. size /\ e[i] \in 0 .. size
    <3> TAKE i \in 1 .. k
    <3>1. CASE i = 1
      BY <1>1, <1>4, <1>11, <3>1
    <3>2. CASE i # 1
      <4>1. i - 1 \in 1 .. k
        BY <1>7, <3>2
      <4> QED BY <1>1, <1>11, <3>2, <4>1
    <3> QED BY <3>1, <3>2
  <2>2. batch \in [1 .. k -> (0 .. size) \X (0 .. size)]
    BY <1>8, <2>1
  <2> QED BY <1>7, <2>2
<1>15. batch = <<>> <=> k = 0
  BY <1>12, <1>14
<1>16. to = IF k = 0 THEN F ELSE e[k] + 1
  <2>1. CASE k = 0
    BY <1>9, <1>15, <2>1
  <2>2. CASE k # 0
    <3>1. k \in 1 .. k
      BY <1>7, <2>2
    <3> QED BY <1>9, <1>12, <1>13, <1>15, <2>2, <3>1
  <2> QED BY <2>1, <2>2
<1>17. header <= F /\ (F < size => F \in starts)
  BY <1>1, <1>4 DEF Boundary, starts, size, header
<1>18. \A b \in B : F <= b /\ b + 1 < size => b + 1 \in starts
  <2> TAKE b \in B
  <2> HAVE F <= b /\ b + 1 < size
  <2>1. b \in file.nl /\ b \in 0 .. size - 1
    BY <1>1, <1>2, <1>3
  <2>2. Boundary(b + 1)
    BY <1>1, <1>4, <1>17, <2>1
  <2> QED BY <1>1, <2>1, <2>2 DEF Boundary, starts, size
<1>19. to \in 0 .. size /\ Boundary(to) /\ F <= to
  <2>1. CASE k = 0
    BY <1>1, <1>4, <1>16, <2>1
  <2>2. CASE k # 0
    <3>1. e[k] \in B /\ F <= e[k] /\ e[k] \in 0 .. size - 1 /\ to = e[k] + 1
      BY <1>6, <1>7, <1>11, <1>16, <2>2
    <3>2. CASE e[k] \in file.nl
      BY <1>1, <1>4, <1>17, <3>1, <3>2
    <3>3. CASE e[k] = size - 1
      BY <1>1, <1>4, <3>1, <3>3 DEF Boundary, size
    <3> QED BY <1>3, <3>1, <3>2, <3>3
  <2> QED BY <2>1, <2>2
<1>20. ASSUME NEW i \in 1 .. k
       PROVE  batch[i][1] \in starts /\ F <= batch[i][1] /\ batch[i][1] < to /\ batch[i][1] < E
  <2>1. e[i] \in T /\ e[k] \in T /\ e[i] <= e[k] /\ to = e[k] + 1 /\ e[i] \in Nat /\ e[k] \in Nat
    <3>1. k \in 1 .. k /\ k # 0
      BY <1>7
    <3>2. i < k => e[i] < e[k]
      BY <1>7, <3>1
    <3>3. i < k \/ i = k
      BY <1>7
    <3> QED BY <1>1, <1>11, <1>16, <3>1, <3>2, <3>3
  <2>2. F <= e[i] /\ F < E
    BY <1>6, <2>1
  <2>3. CASE i = 1
    BY <1>1, <1>4, <1>5, <1>13, <1>17, <2>1, <2>2, <2>3
  <2>4. CASE i # 1
    <3>1. i - 1 \in 1 .. k /\ i - 1 < i /\ batch[i][1] = e[i - 1] + 1
      BY <1>7, <1>13, <2>4
    <3>2. e[i - 1] < e[i] /\ e[i - 1] \in T /\ e[i - 1] \in 0 .. size - 1
      BY <1>7, <1>11, <3>1
    <3>3. e[i - 1] \in B /\ F <= e[i - 1]
      BY <1>6, <3>2
    <3>4. e[i - 1] + 1 < E
      BY <1>6, <2>1, <3>2, <3>3
    <3>5. e[i - 1] + 1 \in starts
      BY <1>1, <1>5, <1>18, <3>2, <3>3, <3>4
    <3> QED BY <1>1, <1>4, <1>5, <2>1, <3>1, <3>2, <3>3, <3>4, <3>5
  <2> QED BY <2>3, <2>4
<1>21. ASSUME NEW i \in 1 .. k, NEW j \in 1 .. k, i < j
       PROVE  batch[i][1] < batch[j][1]
  <2>1. j - 1 \in 1 .. k /\ j # 1 /\ batch[j][1] = e[j - 1] + 1
    BY <1>7, <1>13, <1>21
  <2>2. e[j - 1] \in Nat /\ F <= e[j - 1]
    BY <1>1, <1>6, <1>11, <2>1
  <2>3. CASE i = 1
    BY <1>4, <1>13, <2>1, <2>2, <2>3
  <2>4. CASE i # 1
    <3>1. i - 1 \in 1 .. k /\ i - 1 < j - 1 /\ batch[i][1] = e[i - 1] + 1
      BY <1>7, <1>13, <1>21, <2>4
    <3>2. e[i - 1] < e[j - 1] /\ e[i - 1] \in Nat
      BY <1>7, <1>11, <2>1, <3>1
    <3> QED BY <2>1, <2>2, <3>1, <3>2
  <2> QED BY <2>3, <2>4
<1>22. ASSUME NEW s \in starts, F <= s, s < to
       PROVE  \E i \in 1 .. k : batch[i][1] = s
  <2>1. s \in header .. size - 1 /\ s - 1 \in file.nl
    BY <1>1
  <2>2. k # 0 /\ k \in 1 .. k
    BY <1>4, <1>7, <1>16, <1>22, <2>1
  <2>3. CASE s = F
    <3>1. 1 \in 1 .. k
      BY <1>7, <2>2
    <3> QED BY <1>13, <2>3, <3>1
  <2>4. CASE s # F
    <3>1. F <= s - 1 /\ s - 1 < e[k] /\ e[k] \in B /\ e[k] \in T /\ F < E /\ e[k] \in 0 .. size - 1
      BY <1>1, <1>4, <1>6, <1>7, <1>11, <1>16, <1>22, <2>1, <2>2, <2>4
    <3>2. s - 1 \in B
      <4>1. s - 1 \in a .. e[k]
        BY <1>1, <1>2, <1>4, <2>1, <3>1
      <4>2. e[k] \in w
        BY <1>3, <3>1
      <4> QED BY <1>2, <1>3, <2>1, <4>1, <4>2
    <3>3. s - 1 \in T
      <4>1. ASSUME NEW b \in B, F <= b, b < s - 1 PROVE b + 1 < E
        <5>1. b \in 0 .. size - 1
          BY <1>1, <1>2, <1>3
        <5>2. b < e[k]
          BY <1>1, <2>1, <3>1, <4>1, <5>1
        <5> QED BY <1>6, <3>1, <4>1, <5>2
      <4> QED BY <1>6, <3>1, <3>2, <4>1
    <3>4. PICK i \in 1 .. k : e[i] = s - 1
      BY <1>7, <3>3
    <3>5. i < k
      BY <1>7, <2>2, <3>1, <3>4
    <3>6. i + 1 \in 1 .. k /\ i + 1 # 1 /\ (i + 1) - 1 = i
      BY <1>7, <3>5
    <3>7. batch[i + 1][1] = e[i] + 1
      BY <1>13, <3>6
    <3>8. batch[i + 1][1] = s
      BY <1>1, <2>1, <3>4, <3>7
    <3> QED BY <3>6, <3>8
  <2> QED BY <2>3, <2>4
<1>23. ASSUME a + n > size PROVE E <= to
  <2>1. SUFFICES ASSUME to < E PROVE FALSE
    BY <1>5, <1>19
  <2> DEFINE later == {b \in B : to <= b}
  <2>2. later \in SUBSET Nat /\ size - 1 \in later
    <3>1. later \subseteq B /\ size - 1 \in B
      BY <1>3, <1>23
    <3>2. to <= size - 1
      BY <1>1, <1>5, <1>19, <2>1
    <3>3. size - 1 \in later
      BY <3>1, <3>2
    <3>4. B \subseteq Nat
      BY <1>1, <1>10
    <3> HIDE DEF later
    <3> QED BY <3>1, <3>3, <3>4
  <2>3. PICK b \in later : \A c \in later : b <= c
    <3> HIDE DEF later
    <3> QED BY <2>2, Smallest
  <2>4. b \in B /\ to <= b /\ b \in Nat /\ F <= b /\ F < E
    BY <1>4, <1>5, <1>19, <2>1, <2>2, <2>3
  <2>5. ASSUME NEW c \in B, F <= c, c < b PROVE c + 1 < E
    <3>1. c \in 0 .. size - 1
      BY <1>1, <1>2, <1>3
    <3>2. c < to
      BY <1>19, <2>3, <2>4, <2>5, <3>1
    <3> QED BY <1>5, <1>19, <2>1, <3>1, <3>2
  <2>6. b \in T
    BY <1>6, <2>4, <2>5
  <2>7. PICK i \in 1 .. k : e[i] = b
    BY <1>7, <2>6
  <2>8. k # 0 /\ k \in 1 .. k /\ (i < k \/ i = k)
    BY <1>7
  <2>9. e[i] <= e[k] /\ e[k] \in Nat
    BY <1>1, <1>7, <1>11, <2>4, <2>7, <2>8
  <2> QED BY <1>16, <2>4, <2>7, <2>8, <2>9
<1>24. /\ batch \in Seq((0 .. size) \X (0 .. size))
       /\ to \in 0 .. size /\ Boundary(to) /\ F <= to
       /\ \A i \in DOMAIN batch :
            batch[i][1] \in starts /\ F <= batch[i][1] /\ batch[i][1] < to /\ batch[i][1] < E
       /\ \A i, j \in DOMAIN batch : i < j => batch[i][1] < batch[j][1]
       /\ \A s \in starts : F <= s /\ s < to => \E i \in DOMAIN batch : batch[i][1] = s
       /\ a + n > size => E <= to
  BY <1>12, <1>14, <1>19, <1>20, <1>21, <1>22, <1>23
<1> QED BY <1>24 DEF size, starts, a, n, F, E, batch, to

\* What a rank gets from a batch and where it goes on.
Gets(p, batch, to) ==
  /\ batch \in Seq((0 .. file.size) \X (0 .. file.size))
  /\ to \in 0 .. file.size /\ Boundary(to) /\ curpos[p] <= to
  /\ \A i \in DOMAIN batch :
       batch[i][1] \in LineStarts(file) /\ curpos[p] <= batch[i][1] /\ batch[i][1] < to /\ batch[i][1] < High(p)
  /\ \A i, j \in DOMAIN batch : i < j => batch[i][1] < batch[j][1]
  /\ \A s \in LineStarts(file) : curpos[p] <= s /\ s < to => \E i \in DOMAIN batch : batch[i][1] = s
  /\ first[p] /\ file.size <= reader.batch => High(p) <= to

\* How the batch changes the state: done is what FetchBatch returns.
Processes(p, batch, to, done) ==
  /\ curpos' = [curpos EXCEPT ![p] = to]
  /\ got' = [got EXCEPT ![p] = @ \o (lines[p] \o batch)]
  /\ lines' = [lines EXCEPT ![p] = Remaining(lines[p] \o batch)]
  /\ finished' = [finished EXCEPT ![p] = done]
  /\ IF reader.perm
     THEN /\ pc' = [pc EXCEPT ![p] = "exchange"]
          /\ Call(p, "alltoall")
          /\ first' = first
     ELSE /\ AfterLines(p, first[p], done)
          /\ first' = [first EXCEPT ![p] = FALSE]
  /\ reader' = reader /\ file' = file

LEMMA FetchRight ==
  ASSUME TypeOK, PositionInv, NEW p \in Rank, Fetch(p)
  PROVE  \E batch, to, done :
           Gets(p, batch, to) /\ done \in BOOLEAN /\ (done <=> High(p) <= to) /\ Processes(p, batch, to, done)
<1> DEFINE batch == LinesIn(p)
           to == NextPosition(p, batch)
           done == Window(p) = {} \/ to >= EndOf(file, p)
<1>1. pc[p] = "fetch" /\ Processes(p, batch, to, done)
  BY DEF Fetch, Processes
<1>2. /\ file.size \in Nat \ {0} /\ file.header \in 1 .. file.size
      /\ LineStarts(file) \subseteq file.header .. file.size - 1 /\ reader.batch \in Nat
  BY StartsRight, FilesAssumption DEF TypeOK
<1>3. High(p) \in 0 .. file.size /\ Low(p) \in 1 .. file.size /\ curpos[p] \in 0 .. file.size
  BY RangesRight DEF TypeOK
<1>4. /\ Reads(p, ReadFrom(p), BytesToFetch(p))
      /\ SkipsPartialLine(p, first[p]) =>
           /\ ReadFrom(p) = curpos[p] - 1 /\ curpos[p] = Low(p) /\ Window(p) # {}
           /\ BytesToFetch(p) = reader.batch + 1
      /\ ~ SkipsPartialLine(p, first[p]) => ReadFrom(p) = curpos[p] /\ BytesToFetch(p) = reader.batch
  BY <1>1, WindowRight
<1>5. first[p] => curpos[p] >= 1
  BY <1>1, <1>3 DEF PositionInv, Unread
<1>6. CASE Window(p) = {}
  <2>1. ReadFrom(p) = file.size /\ ReadFrom(p) = curpos[p]
    BY <1>4, <1>6 DEF Reads
  <2>2. to = file.size
    BY <1>6, <2>1 DEF NextPosition
  <2>3. batch = <<>>
    <3>1. batch = [k \in 1 .. Cardinality({}) |->
                     <<IF k = 1 THEN FirstLine(p) ELSE InOrderOf({}, LAMBDA d, e : d < e)[k - 1] + 1,
                       InOrderOf({}, LAMBDA d, e : d < e)[k]>>]
      BY <1>6 DEF LinesIn
    <3>2. Cardinality({}) = 0
      BY FS_EmptySet
    <3> HIDE DEF batch
    <3>3. 1 .. Cardinality({}) = {} /\ 1 .. Cardinality({}) = 1 .. 0
      BY <3>2
    <3>4. batch \in [1 .. 0 -> Nat]
      BY <3>1, <3>3
    <3>5. batch \in Seq(Nat) /\ Len(batch) = 0
      BY <3>4
    <3> QED BY <3>5
  <2>4. Boundary(file.size)
    BY DEF Boundary
  <2> HIDE DEF batch, to
  <2>5. Gets(p, batch, to)
    <3>1. /\ batch \in Seq((0 .. file.size) \X (0 .. file.size)) /\ DOMAIN batch = {}
          /\ to \in 0 .. file.size /\ Boundary(to) /\ curpos[p] = to
      <4>1. \A S : <<>> \in Seq(S)
        OBVIOUS
      <4>2. DOMAIN <<>> = {}
        OBVIOUS
      <4>3. file.size \in 0 .. file.size
        BY <1>2
      <4> QED BY <2>1, <2>2, <2>3, <2>4, <4>1, <4>2, <4>3, Zenon
    <3>2. \A s \in LineStarts(file) : ~ (curpos[p] <= s /\ s < to)
      BY <1>2, <2>1, <2>2
    <3> QED BY <1>3, <2>2, <3>1, <3>2 DEF Gets
  <2>6. High(p) <= to /\ done = TRUE
    BY <1>3, <1>6, <2>2
  <2> QED BY <1>1, <2>5, <2>6
<1>7. CASE Window(p) # {}
  <2> DEFINE F == FirstLine(p)
  <2>1. /\ F \in 0 .. file.size /\ curpos[p] <= F
        /\ \A s \in LineStarts(file) : curpos[p] <= s => F <= s
    BY <1>1, <1>7, FirstLineRight
  <2>2. /\ batch \in Seq((0 .. file.size) \X (0 .. file.size))
        /\ to \in 0 .. file.size /\ Boundary(to) /\ F <= to
        /\ \A i \in DOMAIN batch :
             batch[i][1] \in LineStarts(file) /\ F <= batch[i][1] /\ batch[i][1] < to /\ batch[i][1] < High(p)
        /\ \A i, j \in DOMAIN batch : i < j => batch[i][1] < batch[j][1]
        /\ \A s \in LineStarts(file) : F <= s /\ s < to => \E i \in DOMAIN batch : batch[i][1] = s
        /\ ReadFrom(p) + BytesToFetch(p) > file.size => High(p) <= to
    BY <1>1, <1>7, BatchRight
  <2>3. done <=> High(p) <= to
    BY <1>3, <1>7, <2>2 DEF High
  <2> HIDE DEF batch, to, F, done
  <2>4. \A i \in DOMAIN batch : curpos[p] <= batch[i][1]
    <3> TAKE i \in DOMAIN batch
    <3>1. F <= batch[i][1] /\ batch[i][1] \in Nat
      BY <1>2, <2>2
    <3> QED BY <1>3, <2>1, <3>1
  <2>5. first[p] /\ file.size <= reader.batch => High(p) <= to
    <3> HAVE first[p] /\ file.size <= reader.batch
    <3>1. ReadFrom(p) + BytesToFetch(p) > file.size
      <4>1. CASE SkipsPartialLine(p, first[p])
        BY <1>2, <1>3, <1>4, <1>5, <4>1
      <4>2. CASE ~ SkipsPartialLine(p, first[p])
        BY <1>2, <1>3, <1>4, <1>5, <4>2
      <4> QED BY <4>1, <4>2
    <3> QED BY <2>2, <3>1
  <2>6. curpos[p] <= to
    BY <1>3, <2>1, <2>2
  <2>7. Gets(p, batch, to)
    BY <2>1, <2>2, <2>4, <2>5, <2>6 DEF Gets
  <2> QED BY <1>1, <2>3, <2>7 DEF done
<1> QED BY <1>6, <1>7

-----------------------------------------------------------------------------
(* The steps. *)

Data == (0 .. file.size) \X (0 .. file.size)
Calls == [op : {"alltoall", "barrier", "reduce"}, root : {-1, 0}]

\* A rank moves to control point c, after its first batch unless it is in the exchange.
Moves(p, c) ==
  /\ pc' = [pc EXCEPT ![p] = c] /\ c \in {"fetch", "exchange", "barrier", "reduce", "done"}
  /\ first' \in [Rank -> BOOLEAN]
  /\ \A q \in Rank : q # p => first'[q] = first[q]
  /\ first'[p] => c = "exchange"
  /\ log' \in [Rank -> Seq(Calls)]
  /\ reader' = reader /\ file' = file

LEMMA CallTypes ==
  ASSUME TypeOK, NEW p \in Rank, NEW op \in {"alltoall", "barrier", "reduce"}, Call(p, op)
  PROVE  log' \in [Rank -> Seq(Calls)]
<1> DEFINE e == [op |-> op, root |-> IF op = "reduce" THEN 0 ELSE -1]
<1>1. e \in Calls
  BY DEF Calls
<1>2. log \in [Rank -> Seq(Calls)] /\ log' = [log EXCEPT ![p] = Append(@, e)]
  BY DEF TypeOK, Calls, Call
<1> HIDE DEF e
<1> QED BY <1>1, <1>2

\* Going on after a batch.
LEMMA ContinueTypes ==
  ASSUME TypeOK, NEW p \in Rank, NEW done, Continue(p, done)
  PROVE  /\ log' \in [Rank -> Seq(Calls)]
         /\ \E c \in {"fetch", "reduce"} :
              pc' = [pc EXCEPT ![p] = c] /\ (c = "fetch" => ~ done) /\ (c = "reduce" => done)
<1>1. log \in [Rank -> Seq(Calls)]
  BY DEF TypeOK, Calls
<1>2. CASE done
  BY <1>2, CallTypes DEF Continue
<1>3. CASE ~ done
  BY <1>1, <1>3 DEF Continue
<1> QED BY <1>2, <1>3

LEMMA AfterLinesTypes ==
  ASSUME TypeOK, NEW p \in Rank, NEW wasFirst, NEW done, AfterLines(p, wasFirst, done)
  PROVE  /\ log' \in [Rank -> Seq(Calls)]
         /\ \E c \in {"fetch", "barrier", "reduce"} :
              pc' = [pc EXCEPT ![p] = c] /\ (c = "fetch" => ~ done) /\ (c = "reduce" => done)
<1>1. CASE wasFirst
  BY <1>1, CallTypes DEF AfterLines
<1>2. CASE ~ wasFirst
  BY <1>2, ContinueTypes DEF AfterLines
<1> QED BY <1>1, <1>2

\* A batch moves the rank and changes what it has.
LEMMA FetchMoves ==
  ASSUME TypeOK, PositionInv, NEW p \in Rank, Fetch(p)
  PROVE  \E batch, to, done, c :
           /\ Gets(p, batch, to) /\ done \in BOOLEAN /\ (done <=> High(p) <= to)
           /\ Processes(p, batch, to, done)
           /\ Moves(p, c) /\ (c = "fetch" => ~ done) /\ (c \in {"reduce", "done"} => done)
           /\ (c = "fetch" => ~ first'[p])
<1>1. PICK batch, to, done :
        Gets(p, batch, to) /\ done \in BOOLEAN /\ (done <=> High(p) <= to) /\ Processes(p, batch, to, done)
  BY FetchRight
<1>2. first \in [Rank -> BOOLEAN]
  BY DEF TypeOK
<1>3. CASE reader.perm
  <2>1. /\ pc' = [pc EXCEPT ![p] = "exchange"] /\ Call(p, "alltoall") /\ first' = first
        /\ reader' = reader /\ file' = file
    BY <1>1, <1>3 DEF Processes
  <2>2. log' \in [Rank -> Seq(Calls)]
    BY <2>1, CallTypes
  <2>3. Moves(p, "exchange")
    BY <1>2, <2>1, <2>2 DEF Moves
  <2> QED BY <1>1, <2>3
<1>4. CASE ~ reader.perm
  <2>1. /\ AfterLines(p, first[p], done) /\ first' = [first EXCEPT ![p] = FALSE]
        /\ reader' = reader /\ file' = file
    BY <1>1, <1>4 DEF Processes
  <2>2. log' \in [Rank -> Seq(Calls)]
    BY <2>1, AfterLinesTypes
  <2>3. PICK c \in {"fetch", "barrier", "reduce"} :
          pc' = [pc EXCEPT ![p] = c] /\ (c = "fetch" => ~ done) /\ (c = "reduce" => done)
    BY <2>1, AfterLinesTypes
  <2>4. first' \in [Rank -> BOOLEAN] /\ (\A q \in Rank : q # p => first'[q] = first[q]) /\ ~ first'[p]
    BY <1>2, <2>1
  <2>5. Moves(p, c)
    BY <2>1, <2>2, <2>3, <2>4 DEF Moves
  <2> QED BY <1>1, <2>3, <2>4, <2>5
<1> QED BY <1>3, <1>4

\* The other steps move a rank that has had a batch and leave what it has.
LEMMA OthersMove ==
  ASSUME TypeOK, PositionInv, NEW p \in Rank, LeaveExchange(p) \/ LeaveBarrier(p) \/ LeaveReduce(p)
  PROVE  /\ ~ Unread(p)
         /\ UNCHANGED <<curpos, finished, lines, got>>
         /\ \E c : /\ Moves(p, c) /\ (c = "fetch" => ~ finished[p] /\ ~ first'[p])
                   /\ (c \in {"reduce", "done"} => finished[p] \/ pc[p] = "reduce")
<1>1. first \in [Rank -> BOOLEAN] /\ log \in [Rank -> Seq(Calls)]
  BY DEF TypeOK, Calls
<1>2. CASE LeaveExchange(p)
  <2>1. /\ pc[p] = "exchange" /\ AfterLines(p, first[p], finished[p]) /\ first' = [first EXCEPT ![p] = FALSE]
        /\ UNCHANGED <<reader, file, curpos, finished, lines, got>>
    BY <1>2 DEF LeaveExchange
  <2>2. log' \in [Rank -> Seq(Calls)]
    BY <2>1, AfterLinesTypes
  <2>3. PICK c \in {"fetch", "barrier", "reduce"} :
          pc' = [pc EXCEPT ![p] = c] /\ (c = "fetch" => ~ finished[p]) /\ (c = "reduce" => finished[p])
    BY <2>1, AfterLinesTypes
  <2>4. first' \in [Rank -> BOOLEAN] /\ (\A q \in Rank : q # p => first'[q] = first[q]) /\ ~ first'[p]
    BY <1>1, <2>1
  <2>5. Moves(p, c)
    BY <2>1, <2>2, <2>3, <2>4 DEF Moves
  <2> QED BY <2>1, <2>3, <2>4, <2>5 DEF Unread
<1>3. CASE LeaveBarrier(p)
  <2>1. /\ pc[p] = "barrier" /\ Continue(p, finished[p]) /\ first' = first
        /\ UNCHANGED <<reader, file, curpos, finished, lines, got>>
    BY <1>3 DEF LeaveBarrier
  <2>2. ~ first[p]
    BY <2>1 DEF PositionInv
  <2>3. log' \in [Rank -> Seq(Calls)]
    BY <2>1, ContinueTypes
  <2>4. PICK c \in {"fetch", "reduce"} :
          pc' = [pc EXCEPT ![p] = c] /\ (c = "fetch" => ~ finished[p]) /\ (c = "reduce" => finished[p])
    BY <2>1, ContinueTypes
  <2>5. Moves(p, c)
    BY <1>1, <2>1, <2>2, <2>3, <2>4 DEF Moves
  <2> QED BY <2>1, <2>2, <2>4, <2>5 DEF Unread
<1>4. CASE LeaveReduce(p)
  <2>1. /\ pc[p] = "reduce" /\ pc' = [pc EXCEPT ![p] = "done"] /\ first' = first /\ log' = log
        /\ UNCHANGED <<reader, file, curpos, finished, lines, got>>
    BY <1>4 DEF LeaveReduce
  <2>2. ~ first[p]
    BY <2>1 DEF PositionInv
  <2>3. Moves(p, "done")
    BY <1>1, <2>1, <2>2 DEF Moves
  <2> QED BY <2>1, <2>2, <2>3 DEF Unread
<1> QED BY <1>2, <1>3, <1>4

\* Such a move keeps the types and the positions if the data the rank has afterwards do.
LEMMA MovesPosition ==
  ASSUME TypeOK, PositionInv, NEW p \in Rank, NEW c, Moves(p, c), c = "fetch" => ~ first'[p],
         curpos' \in [Rank -> 0 .. file.size], \A q \in Rank : q # p => curpos'[q] = curpos[q],
         Boundary(curpos'[p]), finished' \in [Rank -> BOOLEAN],
         lines' \in [Rank -> Seq(Data)], got' \in [Rank -> Seq(Data)]
  PROVE  TypeOK' /\ PositionInv'
<1>1. reader' = reader /\ file' = file
  BY DEF Moves
<1>2. pc' \in [Rank -> {"fetch", "exchange", "barrier", "reduce", "done"}]
  BY DEF TypeOK, Moves
<1>3. TypeOK'
  BY <1>1, <1>2 DEF TypeOK, Moves, Data, Calls
<1>4. \A q \in Rank : q # p => pc'[q] = pc[q] /\ first'[q] = first[q] /\ curpos'[q] = curpos[q]
  BY DEF TypeOK, Moves
<1>5. pc'[p] = c /\ (first'[p] => c = "exchange")
  BY DEF TypeOK, Moves
<1>6. (\A q : Low(q)' = Low(q)) /\ \A x : Boundary(x)' <=> Boundary(x)
  BY <1>1 DEF Low, StartOf, Boundary, LineStarts
<1>7. \A q \in Rank : q # p => (Unread(q)' <=> Unread(q))
  BY <1>4 DEF Unread
<1>8. ~ Unread(p)'
  BY <1>5 DEF Unread
<1>9. \A q \in Rank : first'[q] => pc'[q] \in {"fetch", "exchange"}
  BY <1>4, <1>5 DEF PositionInv
<1>10. \A q \in Rank : Unread(q)' => curpos'[q] = Low(q)
  BY <1>4, <1>7, <1>8 DEF PositionInv
<1>11. \A q \in Rank : q = 0 \/ ~ Unread(q)' => Boundary(curpos'[q])
  BY <1>4, <1>7, <1>8 DEF PositionInv
<1>12. \A q \in Rank : Unread(q)' => curpos'[q] = Low(q)'
  BY <1>6, <1>10
<1>13. \A q \in Rank : q = 0 \/ ~ Unread(q)' => Boundary(curpos[q])'
  BY <1>6, <1>11
<1> QED BY <1>3, <1>9, <1>12, <1>13 DEF PositionInv

LEMMA NextPositions == TypeOK /\ PositionInv /\ [Next]_vars => TypeOK' /\ PositionInv'
<1> SUFFICES ASSUME TypeOK, PositionInv, [Next]_vars PROVE TypeOK' /\ PositionInv'
  OBVIOUS
<1>1. /\ curpos \in [Rank -> 0 .. file.size] /\ finished \in [Rank -> BOOLEAN]
      /\ lines \in [Rank -> Seq(Data)] /\ got \in [Rank -> Seq(Data)]
  BY DEF TypeOK, Data
<1>2. ASSUME NEW p \in Rank, Fetch(p) PROVE TypeOK' /\ PositionInv'
  <2>1. PICK batch, to, done, c :
          /\ Gets(p, batch, to) /\ done \in BOOLEAN /\ Processes(p, batch, to, done)
          /\ Moves(p, c) /\ (c = "fetch" => ~ first'[p])
    BY <1>2, FetchMoves
  <2>2. batch \in Seq(Data) /\ to \in 0 .. file.size /\ Boundary(to)
    BY <2>1 DEF Gets, Data
  <2>3. /\ curpos' = [curpos EXCEPT ![p] = to]
        /\ got' = [got EXCEPT ![p] = @ \o (lines[p] \o batch)]
        /\ lines' = [lines EXCEPT ![p] = Remaining(lines[p] \o batch)]
        /\ finished' = [finished EXCEPT ![p] = done]
    BY <2>1 DEF Processes
  <2>4. curpos' \in [Rank -> 0 .. file.size] /\ curpos'[p] = to /\ \A q \in Rank : q # p => curpos'[q] = curpos[q]
    BY <1>1, <2>2, <2>3
  <2>5. lines[p] \o batch \in Seq(Data) /\ got[p] \o (lines[p] \o batch) \in Seq(Data)
        /\ Remaining(lines[p] \o batch) \in Seq(Data)
    <3>1. lines[p] \in Seq(Data) /\ got[p] \in Seq(Data)
      BY <1>1
    <3>2. lines[p] \o batch \in Seq(Data)
      BY <2>2, <3>1
    <3> QED BY <3>1, <3>2 DEF Remaining
  <2>6. lines' \in [Rank -> Seq(Data)] /\ got' \in [Rank -> Seq(Data)]
    BY <1>1, <2>3, <2>5
  <2>7. finished' \in [Rank -> BOOLEAN]
    BY <1>1, <2>1, <2>3
  <2> QED BY <2>1, <2>2, <2>4, <2>6, <2>7, MovesPosition
<1>3. ASSUME NEW p \in Rank, LeaveExchange(p) \/ LeaveBarrier(p) \/ LeaveReduce(p)
      PROVE  TypeOK' /\ PositionInv'
  <2>1. ~ Unread(p) /\ UNCHANGED <<curpos, finished, lines, got>>
    BY <1>3, OthersMove
  <2>2. PICK c : Moves(p, c) /\ (c = "fetch" => ~ first'[p])
    BY <1>3, OthersMove
  <2>3. Boundary(curpos'[p])
    BY <2>1 DEF PositionInv
  <2>4. /\ curpos' \in [Rank -> 0 .. file.size] /\ \A q \in Rank : q # p => curpos'[q] = curpos[q]
        /\ finished' \in [Rank -> BOOLEAN] /\ lines' \in [Rank -> Seq(Data)] /\ got' \in [Rank -> Seq(Data)]
    BY <1>1, <2>1
  <2> QED BY <2>2, <2>3, <2>4, MovesPosition
<1>4. CASE UNCHANGED vars
  BY <1>4 DEF vars, TypeOK, PositionInv, Unread, Low, StartOf, Boundary, LineStarts
<1> QED BY <1>2, <1>3, <1>4 DEF Next, Step, Terminated

LEMMA InitPositions == Init => TypeOK /\ PositionInv
<1> SUFFICES ASSUME Init PROVE TypeOK /\ PositionInv
  OBVIOUS
<1>1. reader \in Readers /\ file \in Files
  BY DEF Init
<1>2. /\ \A p \in Rank : Low(p) \in 1 .. file.size
      /\ Low(0) = file.header
  BY <1>1, RangesRight
<1>3. curpos \in [Rank -> 0 .. file.size] /\ \A p \in Rank : curpos[p] = Low(p)
  BY <1>2 DEF Init, Low
<1>4. TypeOK
  BY <1>1, <1>3 DEF Init, TypeOK
<1>5. Boundary(file.header)
  BY <1>1, FilesAssumption DEF Boundary, LineStarts
<1>6. \A p \in Rank : pc[p] = "fetch" /\ first[p]
  BY DEF Init
<1>7. \A p \in Rank : p = 0 \/ ~ Unread(p) => Boundary(curpos[p])
  BY <1>2, <1>3, <1>5, <1>6 DEF Unread
<1> QED BY <1>3, <1>4, <1>6, <1>7 DEF PositionInv

\* The types of the variables and the positions, for every file, every number of ranks and
\* every length of the batches (FetchBatch and its callers).
THEOREM ReadTypes == Spec => []TypeOK
<1>1. Init => TypeOK /\ PositionInv
  BY InitPositions
<1>2. TypeOK /\ PositionInv /\ [Next]_vars => TypeOK' /\ PositionInv'
  BY NextPositions
<1> QED BY <1>1, <1>2, PTL DEF Spec

-----------------------------------------------------------------------------
(* The lines a rank has. *)

\* g has, in order, the lines that start in the range of a rank before position to.
Covers(p, g, to) ==
  /\ \A i \in DOMAIN g :
       g[i][1] \in LineStarts(file) /\ Low(p) <= g[i][1] /\ g[i][1] < to /\ g[i][1] < High(p)
  /\ \A i, j \in DOMAIN g : i < j => g[i][1] < g[j][1]
  /\ \A s \in LineStarts(file) : Low(p) <= s /\ s < to /\ s < High(p) => \E i \in DOMAIN g : g[i][1] = s

\* A reader that keeps the lines of a batch needs one that is as long as the file.
OneBatch(r) == \A f \in Files : f.size <= r.batch

\* A rank that has had a batch has the lines of its range as far as it is, and is finished
\* when it is at the end of it; if the lines are kept, it is finished at once.
RankLines(p) ==
  /\ Unread(p) => got[p] = <<>> /\ lines[p] = <<>>
  /\ ~ Unread(p) => Covers(p, got[p], curpos[p]) /\ Low(p) <= curpos[p]
  /\ ~ Unread(p) => (finished[p] <=> High(p) <= curpos[p])
  /\ pc[p] = "fetch" /\ ~ first[p] => ~ finished[p]
  /\ pc[p] \in {"reduce", "done"} => finished[p]
  /\ reader.clearLines => lines[p] = <<>>
  /\ ~ reader.clearLines /\ ~ Unread(p) => finished[p]

LinesInv ==
  /\ TypeOK /\ PositionInv
  /\ reader.clearLines \/ OneBatch(reader)
  /\ \A p \in Rank : RankLines(p)

\* The lines of another batch come after those before it.
LEMMA CoversMore ==
  ASSUME TypeOK, NEW p \in Rank, NEW g \in Seq(Data), Covers(p, g, curpos[p]), Low(p) <= curpos[p],
         NEW batch, NEW to, Gets(p, batch, to)
  PROVE  Covers(p, g \o batch, to)
<1> DEFINE h == g \o batch
           starts == LineStarts(file)
           c == curpos[p]
<1>1. batch \in Seq(Data) /\ c \in 0 .. file.size /\ to \in 0 .. file.size /\ c <= to /\ file.size \in Nat
  BY FilesAssumption DEF Gets, TypeOK, Data
<1>2. Low(p) \in Nat /\ High(p) \in Nat /\ starts \subseteq Nat /\ c \in Nat /\ Low(p) <= c
  <2>1. reader \in Readers /\ file \in Files
    BY DEF TypeOK
  <2>2. Low(p) \in 1 .. file.size /\ High(p) \in 0 .. file.size
    BY <2>1, RangesRight
  <2>3. starts \subseteq file.header .. file.size - 1 /\ file.header \in Nat
    BY <2>1, StartsRight
  <2> QED BY <1>1, <2>2, <2>3
<1>3. /\ Len(g) \in Nat /\ Len(batch) \in Nat /\ Len(h) = Len(g) + Len(batch)
      /\ DOMAIN g = 1 .. Len(g) /\ DOMAIN batch = 1 .. Len(batch) /\ DOMAIN h = 1 .. Len(h)
      /\ \A i \in 1 .. Len(g) : h[i] = g[i]
      /\ \A i \in 1 .. Len(batch) : h[Len(g) + i] = batch[i]
  BY <1>1
<1>4. /\ \A i \in 1 .. Len(g) : g[i][1] \in starts /\ Low(p) <= g[i][1] /\ g[i][1] < c /\ g[i][1] < High(p)
      /\ \A i, j \in 1 .. Len(g) : i < j => g[i][1] < g[j][1]
      /\ \A s \in starts : Low(p) <= s /\ s < c /\ s < High(p) => \E i \in 1 .. Len(g) : g[i][1] = s
  BY <1>3 DEF Covers
<1>5. /\ \A i \in 1 .. Len(batch) :
           batch[i][1] \in starts /\ c <= batch[i][1] /\ batch[i][1] < to /\ batch[i][1] < High(p)
      /\ \A i, j \in 1 .. Len(batch) : i < j => batch[i][1] < batch[j][1]
      /\ \A s \in starts : c <= s /\ s < to => \E i \in 1 .. Len(batch) : batch[i][1] = s
  BY <1>3 DEF Gets
<1> HIDE DEF h, starts, c
<1>6. \A i \in 1 .. Len(h) : i \in 1 .. Len(g) \/ \E j \in 1 .. Len(batch) : i = Len(g) + j
  <2> TAKE i \in 1 .. Len(h)
  <2>1. CASE i <= Len(g)
    BY <1>3, <2>1
  <2>2. CASE ~ i <= Len(g)
    <3>1. i - Len(g) \in 1 .. Len(batch) /\ i = Len(g) + (i - Len(g))
      BY <1>3, <2>2
    <3> QED BY <3>1
  <2> QED BY <2>1, <2>2
<1>7. ASSUME NEW i \in 1 .. Len(h)
      PROVE  h[i][1] \in starts /\ Low(p) <= h[i][1] /\ h[i][1] < to /\ h[i][1] < High(p)
  <2>1. CASE i \in 1 .. Len(g)
    <3>1. h[i] = g[i] /\ g[i][1] \in Nat
      BY <1>2, <1>3, <1>4, <2>1
    <3>2. g[i][1] < to
      BY <1>1, <1>4, <2>1, <3>1 DEF c
    <3> QED BY <1>4, <2>1, <3>1, <3>2
  <2>2. ASSUME NEW j \in 1 .. Len(batch), i = Len(g) + j
        PROVE  h[i][1] \in starts /\ Low(p) <= h[i][1] /\ h[i][1] < to /\ h[i][1] < High(p)
    <3>1. h[i] = batch[j] /\ batch[j][1] \in Nat /\ c <= batch[j][1]
      BY <1>2, <1>3, <1>5, <2>2
    <3>2. Low(p) <= batch[j][1]
      BY <1>2, <3>1
    <3> QED BY <1>5, <3>1, <3>2
  <2> QED BY <1>6, <2>1, <2>2
<1>8. ASSUME NEW i \in 1 .. Len(h), NEW j \in 1 .. Len(h), i < j
      PROVE  h[i][1] < h[j][1]
  <2>1. CASE j \in 1 .. Len(g)
    <3>1. i \in 1 .. Len(g)
      BY <1>3, <1>8, <2>1
    <3> QED BY <1>3, <1>4, <1>8, <2>1, <3>1
  <2>2. CASE j \notin 1 .. Len(g)
    <3>1. PICK m \in 1 .. Len(batch) : j = Len(g) + m
      BY <1>6, <2>2
    <3>2. CASE i \in 1 .. Len(g)
      <4>1. h[i] = g[i] /\ g[i][1] < c /\ g[i][1] \in Nat
        BY <1>2, <1>3, <1>4, <3>2
      <4>2. h[j] = batch[m] /\ c <= batch[m][1] /\ batch[m][1] \in Nat
        BY <1>2, <1>3, <1>5, <3>1
      <4>3. c \in Nat
        BY <1>2
      <4> HIDE DEF c
      <4> QED BY <4>1, <4>2, <4>3
    <3>3. CASE i \notin 1 .. Len(g)
      <4>1. PICK k \in 1 .. Len(batch) : i = Len(g) + k
        BY <1>6, <3>3
      <4>2. k < m
        BY <1>3, <1>8, <3>1, <4>1
      <4> QED BY <1>3, <1>5, <3>1, <4>1, <4>2
    <3> QED BY <3>2, <3>3
  <2> QED BY <2>1, <2>2
<1>9. ASSUME NEW s \in starts, Low(p) <= s, s < to, s < High(p)
      PROVE  \E i \in 1 .. Len(h) : h[i][1] = s
  <2>1. CASE s < c
    <3>1. PICK i \in 1 .. Len(g) : g[i][1] = s
      BY <1>4, <1>9, <2>1
    <3>2. i \in 1 .. Len(h) /\ h[i] = g[i]
      BY <1>3
    <3> QED BY <3>1, <3>2
  <2>2. CASE ~ s < c
    <3>1. c <= s
      BY <1>1, <1>2, <2>2 DEF c
    <3>2. PICK i \in 1 .. Len(batch) : batch[i][1] = s
      BY <1>5, <1>9, <3>1
    <3>3. Len(g) + i \in 1 .. Len(h) /\ h[Len(g) + i] = batch[i]
      BY <1>3
    <3> QED BY <3>2, <3>3
  <2> QED BY <2>1, <2>2
<1> QED BY <1>3, <1>7, <1>8, <1>9 DEF Covers, h, starts

\* A move of one rank leaves the lines of the others.
LEMMA OtherLines ==
  ASSUME TypeOK, PositionInv, NEW p \in Rank, NEW c, Moves(p, c), NEW q \in Rank, q # p, RankLines(q),
         curpos'[q] = curpos[q], got'[q] = got[q], lines'[q] = lines[q], finished'[q] = finished[q]
  PROVE  RankLines(q)'
<1>1. reader' = reader /\ file' = file /\ pc'[q] = pc[q] /\ first'[q] = first[q]
  BY DEF TypeOK, Moves
<1>2. Unread(q)' <=> Unread(q)
  BY <1>1 DEF Unread
<1>3. Low(q)' = Low(q) /\ High(q)' = High(q)
  BY <1>1 DEF Low, High, StartOf, EndOf
<1>4. Covers(q, got[q], curpos[q])' <=> Covers(q, got[q], curpos[q])
  BY <1>1, <1>3 DEF Covers, LineStarts
<1> QED BY <1>1, <1>2, <1>3, <1>4 DEF RankLines

LEMMA NextLines == LinesInv /\ [Next]_vars => LinesInv'
<1> SUFFICES ASSUME LinesInv, [Next]_vars PROVE LinesInv'
  OBVIOUS
<1>1. TypeOK /\ PositionInv /\ (reader.clearLines \/ OneBatch(reader)) /\ \A p \in Rank : RankLines(p)
  BY DEF LinesInv
<1>2. TypeOK' /\ PositionInv'
  BY <1>1, NextPositions
<1>3. ASSUME NEW p \in Rank, NEW c, Moves(p, c), RankLines(p)',
             \A q \in Rank : q # p => /\ curpos'[q] = curpos[q] /\ got'[q] = got[q]
                                      /\ lines'[q] = lines[q] /\ finished'[q] = finished[q]
      PROVE  LinesInv'
  <2>1. \A q \in Rank : RankLines(q)'
    BY <1>1, <1>3, OtherLines
  <2>2. reader' = reader
    BY <1>3 DEF Moves
  <2> QED BY <1>1, <1>2, <2>1, <2>2 DEF LinesInv, OneBatch
<1>4. ASSUME NEW p \in Rank, Fetch(p) PROVE LinesInv'
  <2>1. PICK batch, to, done, c :
          /\ Gets(p, batch, to) /\ done \in BOOLEAN /\ (done <=> High(p) <= to) /\ Processes(p, batch, to, done)
          /\ Moves(p, c) /\ (c = "fetch" => ~ done) /\ (c \in {"reduce", "done"} => done)
          /\ (c = "fetch" => ~ first'[p])
    BY <1>1, <1>4, FetchMoves
  <2>2. /\ curpos' = [curpos EXCEPT ![p] = to]
        /\ got' = [got EXCEPT ![p] = @ \o (lines[p] \o batch)]
        /\ lines' = [lines EXCEPT ![p] = Remaining(lines[p] \o batch)]
        /\ finished' = [finished EXCEPT ![p] = done]
        /\ reader' = reader /\ file' = file
    BY <2>1 DEF Processes
  <2>3. /\ curpos \in [Rank -> 0 .. file.size] /\ finished \in [Rank -> BOOLEAN] /\ first[p] \in BOOLEAN
        /\ lines \in [Rank -> Seq(Data)] /\ got \in [Rank -> Seq(Data)]
        /\ batch \in Seq(Data) /\ curpos[p] <= to /\ to \in 0 .. file.size
    <3>1. /\ curpos \in [Rank -> 0 .. file.size] /\ finished \in [Rank -> BOOLEAN]
          /\ first \in [Rank -> BOOLEAN]
          /\ lines \in [Rank -> Seq(Data)] /\ got \in [Rank -> Seq(Data)]
      BY <1>1 DEF TypeOK, Data
    <3>2. batch \in Seq(Data) /\ curpos[p] <= to /\ to \in 0 .. file.size
      BY <2>1 DEF Gets, Data
    <3> QED BY <3>1, <3>2
  <2>4. pc[p] = "fetch" /\ RankLines(p) /\ file.size \in Nat /\ Low(p) \in Nat /\ High(p) \in Nat
    <3>1. reader \in Readers /\ file \in Files /\ file.size \in Nat
      BY <1>1, FilesAssumption DEF TypeOK
    <3>2. Low(p) \in 1 .. file.size /\ High(p) \in 0 .. file.size
      BY <3>1, RangesRight
    <3>3. pc[p] = "fetch" /\ RankLines(p)
      BY <1>1, <1>4 DEF Fetch
    <3> QED BY <3>1, <3>2, <3>3
  <2>5. lines[p] = <<>> /\ (~ reader.clearLines => first[p])
    BY <1>1, <2>3, <2>4 DEF RankLines, Unread
  <2>6. lines[p] \o batch = batch
    BY <2>3, <2>5
  <2>7. Covers(p, got[p], curpos[p]) /\ Low(p) <= curpos[p]
    <3>1. CASE Unread(p)
      <4>1. got[p] = <<>> /\ curpos[p] = Low(p)
        BY <1>1, <2>4, <3>1 DEF RankLines, PositionInv
      <4>2. DOMAIN <<>> = {}
        OBVIOUS
      <4>3. \A s \in LineStarts(file) : ~ (Low(p) <= s /\ s < Low(p))
        BY <1>1, <2>4, StartsRight DEF TypeOK
      <4> QED BY <2>4, <4>1, <4>2, <4>3 DEF Covers
    <3>2. CASE ~ Unread(p)
      BY <2>4, <3>2 DEF RankLines
    <3> QED BY <3>1, <3>2
  <2>8. Covers(p, got[p] \o batch, to)
    BY <1>1, <2>1, <2>3, <2>7, CoversMore
  <2>9. Low(p) <= to
    BY <2>3, <2>4, <2>7
  <2>10. curpos'[p] = to /\ got'[p] = got[p] \o batch /\ lines'[p] = Remaining(batch) /\ finished'[p] = done
    BY <2>2, <2>3, <2>6
  <2>11. pc'[p] = c /\ (first'[p] => c = "exchange")
    BY <1>1, <2>1 DEF Moves, TypeOK
  <2>12. ~ reader.clearLines => done
    <3> HAVE ~ reader.clearLines
    <3>1. first[p] /\ file.size <= reader.batch
      BY <1>1, <2>5 DEF OneBatch, TypeOK
    <3> QED BY <2>1, <3>1 DEF Gets
  <2>13. ~ Unread(p)'
    BY <2>11 DEF Unread
  <2>14. Low(p)' = Low(p) /\ High(p)' = High(p) /\ LineStarts(file') = LineStarts(file)
    BY <2>2 DEF Low, High, StartOf, EndOf
  <2>15. Covers(p, got[p], curpos[p])'
    BY <2>8, <2>10, <2>14 DEF Covers
  <2>16. reader.clearLines => lines'[p] = <<>>
    BY <2>10 DEF Remaining
  <2>17. RankLines(p)'
    BY <2>1, <2>2, <2>9, <2>10, <2>11, <2>12, <2>13, <2>14, <2>15, <2>16 DEF RankLines
  <2>18. \A q \in Rank : q # p => /\ curpos'[q] = curpos[q] /\ got'[q] = got[q]
                                  /\ lines'[q] = lines[q] /\ finished'[q] = finished[q]
    BY <2>2, <2>3
  <2> QED BY <1>3, <2>1, <2>17, <2>18
<1>5. ASSUME NEW p \in Rank, LeaveExchange(p) \/ LeaveBarrier(p) \/ LeaveReduce(p) PROVE LinesInv'
  <2>1. ~ Unread(p) /\ UNCHANGED <<curpos, finished, lines, got>>
    BY <1>1, <1>5, OthersMove
  <2>2. PICK c : /\ Moves(p, c) /\ (c = "fetch" => ~ finished[p] /\ ~ first'[p])
                 /\ (c \in {"reduce", "done"} => finished[p] \/ pc[p] = "reduce")
    BY <1>1, <1>5, OthersMove
  <2>3. /\ pc'[p] = c /\ (first'[p] => c = "exchange") /\ reader' = reader /\ file' = file
    BY <1>1, <2>2 DEF Moves, TypeOK
  <2>4. ~ Unread(p)'
    BY <2>2, <2>3 DEF Unread
  <2>5. Low(p)' = Low(p) /\ High(p)' = High(p) /\ LineStarts(file') = LineStarts(file)
    BY <2>3 DEF Low, High, StartOf, EndOf
  <2>6. RankLines(p)
    BY <1>1
  <2>7. Covers(p, got[p], curpos[p])'
    BY <2>1, <2>5, <2>6 DEF Covers, RankLines
  <2>8. c \in {"reduce", "done"} => finished[p]
    BY <2>2, <2>6 DEF RankLines
  <2>9. RankLines(p)'
    BY <2>1, <2>2, <2>3, <2>4, <2>5, <2>6, <2>7, <2>8 DEF RankLines
  <2> QED BY <1>3, <2>1, <2>2, <2>9
<1>6. CASE UNCHANGED vars
  <2>1. \A p : RankLines(p)' <=> RankLines(p)
    BY <1>6 DEF vars, RankLines, Unread, Covers, Low, High, StartOf, EndOf, LineStarts
  <2> QED BY <1>1, <1>2, <1>6, <2>1 DEF LinesInv, OneBatch, vars
<1> QED BY <1>4, <1>5, <1>6 DEF Next, Step, Terminated

\* Each line start is in the range of a rank.
LEMMA EachStartInRange ==
  ASSUME reader \in Readers, file \in Files, NEW s \in LineStarts(file)
  PROVE  \E p \in Rank : Low(p) <= s /\ s < High(p)
<1> DEFINE S == {p \in Rank : Low(p) <= s}
<1>1. /\ NP \in Nat \ {0} /\ Rank = 0 .. NP - 1 /\ file.size \in Nat
      /\ s \in file.header .. file.size - 1 /\ file.header \in Nat
  BY StartsRight, FilesAssumption DEF Rank
<1>2. /\ \A p \in Rank : Low(p) \in Nat /\ High(p) \in Nat
      /\ 0 \in Rank /\ NP - 1 \in Rank /\ Low(0) = file.header /\ High(NP - 1) = file.size
      /\ \A p \in Rank : p + 1 \in Rank => High(p) = Low(p + 1)
  BY RangesRight
<1>3. SUFFICES ASSUME \A p \in Rank : Low(p) <= s => ~ (s < High(p)) PROVE FALSE
  OBVIOUS
<1>4. 0 \in S
  BY <1>1, <1>2
<1>5. ASSUME NEW k \in 0 .. (NP - 1) - 1, k \in S PROVE k + 1 \in S
  <2>1. k \in Rank /\ k + 1 \in Rank
    BY <1>1
  <2>2. High(k) <= s
    BY <1>1, <1>2, <1>3, <1>5, <2>1
  <2> QED BY <1>2, <2>1, <2>2
<1>6. 0 .. NP - 1 \subseteq S
  <2>1. NP - 1 \in Nat
    BY <1>1
  <2> HIDE DEF S
  <2> QED BY <1>4, <1>5, <2>1, BoundedInduction
<1>7. Low(NP - 1) <= s
  BY <1>1, <1>2, <1>6
<1> QED BY <1>1, <1>2, <1>3, <1>7

\* When the readers are past their loops, each line of the file has been processed once and
\* in order, whatever the file, the number of ranks, the ranges and the batches: for a reader
\* that clears the lines of a batch (ParallelReadMM), and for one that keeps them if a batch
\* is as long as the file (FullyDistSpVec::ParallelRead).
THEOREM ReadEachLineOnce ==
  ASSUME \A r \in Readers : r.clearLines \/ OneBatch(r)
  PROVE  Spec => []EachLineOnce
<1>1. Init => LinesInv
  <2> SUFFICES ASSUME Init PROVE LinesInv
    OBVIOUS
  <2>1. TypeOK /\ PositionInv
    BY InitPositions
  <2>2. \A p \in Rank : RankLines(p)
    BY DEF Init, RankLines, Unread
  <2> QED BY <2>1, <2>2 DEF LinesInv, Init
<1>2. LinesInv /\ [Next]_vars => LinesInv'
  BY NextLines
<1>3. LinesInv => EachLineOnce
  <2> SUFFICES ASSUME LinesInv, \A p \in Rank : pc[p] \in {"reduce", "done"} PROVE
        /\ UNION {{got[p][i][1] : i \in DOMAIN got[p]} : p \in Rank} = LineStarts(file)
        /\ \A p, q \in Rank : \A i \in DOMAIN got[p], j \in DOMAIN got[q] :
             p < q \/ (p = q /\ i < j) => got[p][i][1] < got[q][j][1]
    BY DEF EachLineOnce
  <2>1. reader \in Readers /\ file \in Files /\ curpos \in [Rank -> 0 .. file.size]
    BY DEF LinesInv, TypeOK
  <2>2. \A p \in Rank : Covers(p, got[p], curpos[p]) /\ High(p) <= curpos[p]
    BY DEF LinesInv, RankLines, Unread
  <2>3. LineStarts(file) \subseteq Nat /\ file.size \in Nat
    BY <2>1, StartsRight
  <2>4. /\ \A p \in Rank : Low(p) \in Nat /\ High(p) \in Nat
        /\ \A p, q \in Rank : p < q => High(p) <= Low(q)
    BY <2>1, RangesRight
  <2>5. \A p \in Rank : \A i \in DOMAIN got[p] :
          got[p][i][1] \in LineStarts(file) /\ Low(p) <= got[p][i][1] /\ got[p][i][1] < High(p)
    BY <2>2 DEF Covers
  <2>6. ASSUME NEW s \in LineStarts(file) PROVE \E p \in Rank : \E i \in DOMAIN got[p] : got[p][i][1] = s
    <3>1. PICK p \in Rank : Low(p) <= s /\ s < High(p)
      BY <2>1, EachStartInRange
    <3>2. s < curpos[p]
      BY <2>1, <2>2, <2>3, <2>4, <3>1
    <3> QED BY <2>2, <3>1, <3>2 DEF Covers
  <2>7. UNION {{got[p][i][1] : i \in DOMAIN got[p]} : p \in Rank} = LineStarts(file)
    BY <2>5, <2>6
  <2>8. ASSUME NEW p \in Rank, NEW q \in Rank, NEW i \in DOMAIN got[p], NEW j \in DOMAIN got[q],
               p < q \/ (p = q /\ i < j)
        PROVE  got[p][i][1] < got[q][j][1]
    <3>1. CASE p < q
      <4>1. /\ got[p][i][1] < High(p) /\ got[p][i][1] \in Nat /\ High(p) <= Low(q)
            /\ Low(q) <= got[q][j][1] /\ got[q][j][1] \in Nat
        BY <2>3, <2>4, <2>5, <3>1
      <4> QED BY <2>4, <4>1
    <3>2. CASE p = q /\ i < j
      BY <2>2, <3>2 DEF Covers
    <3> QED BY <2>8, <3>1, <3>2
  <2> QED BY <2>7, <2>8
<1> QED BY <1>1, <1>2, <1>3, PTL DEF Spec
=============================================================================
