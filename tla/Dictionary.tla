--------------------------------- MODULE Dictionary ---------------------------------
(***************************************************************************)
(* The first pass of SpParMat::ReadGeneralizedTuples: the vertex labels    *)
(* that the processes have read are numbered 0, 1, 2, ... without a        *)
(* coordinator.  A label is sent to the process its hash names; that       *)
(* process sorts the distinct labels it received, numbers them after those *)
(* of the lower ranks (MPI_Exscan) and sends their numbers back.  The      *)
(* inverse, from numbers to labels, goes to the owners of a distributed    *)
(* vector (SpParHelper::ReDistributeToVector).                             *)
(*                                                                         *)
(* The exchange of the counts before an exchange of data is one step with  *)
(* it: both wait for the same processes.                                   *)
(***************************************************************************)
EXTENDS Distribution, Sequences, FiniteSets, Collectives, Ordering

CONSTANTS Labels,     \* the labels, numbers whose order is that of the strings
          HashRange,  \* number of hash values, 2^64 in the code
          Hashes,     \* the hash functions considered
          KeySets     \* the sets of labels a process may have read

ASSUME DictionaryAssumption ==
  /\ Labels \subseteq Nat /\ IsFiniteSet(Labels) /\ HashRange \in Nat \ {0}
  /\ Hashes \subseteq [Labels -> 0 .. HashRange - 1] /\ KeySets \subseteq SUBSET Labels

VARIABLES hash,         \* the hash function
          keys,         \* the labels a process has read, its allkeys
          pc,
          sent,         \* what a process has given to its exchanges
          uniqsorted,   \* the distinct labels it received, in order
          uniqsize,     \* what it gave to MPI_Exscan and MPI_Allreduce, -1 before
          recvinds,     \* the local indices ReDistributeToVector received
          distmapper,   \* its part of the number-to-label vector
          ultimateperm  \* the numbers of its labels

vars == <<hash, keys, pc, sent, uniqsorted, uniqsize, recvinds, distmapper, ultimateperm>>

Goto(p, label) == pc' = [pc EXCEPT ![p] = label]
Exchange(p, data) == sent' = [sent EXCEPT ![p] = Append(@, data)]
Elements(s) == {s[i] : i \in DOMAIN s}

\* What has arrived from all, that of each rank at its displacement.
InRankOrder(data) ==
  LET displs == Displacements([q \in Procs |-> Len(data[q])])
      from(j) == CHOOSE q \in Procs : displs[q] < j /\ j <= displs[q + 1]
  IN [j \in 1 .. displs[Cardinality(Procs)] |-> data[from(j)][j - displs[from(j)]]]

\* The process whose share of the hash range holds the label's hash.  In whole numbers: the code
\* has doubles, which may give the topmost hashes to a process past the last one.
HashOwner(l) == (hash[l] * Cardinality(Procs)) \div HashRange

\* std::map<std::string, uint64_t> keeps the outgoing labels of a recipient in their order.
Outgoing(p, q) == InOrderOf({l \in keys[p] : HashOwner(l) = q}, LAMBDA l, m : l < m)

Init ==
  /\ hash \in Hashes
  /\ keys \in [Procs -> KeySets]
  /\ pc = [p \in Procs |-> "hash"]
  /\ sent = [p \in Procs |-> <<>>]
  /\ uniqsorted = [p \in Procs |-> <<>>]
  /\ uniqsize = [p \in Procs |-> -1]
  /\ recvinds = [p \in Procs |-> <<>>]
  /\ distmapper = [p \in Procs |-> <<>>]
  /\ ultimateperm = [p \in Procs |-> <<>>]

SendLabels(p) ==
  /\ pc[p] = "hash"
  /\ Exchange(p, [q \in Procs |-> Outgoing(p, q)])
  /\ Goto(p, "labels")
  /\ UNCHANGED <<hash, keys, uniqsorted, uniqsize, recvinds, distmapper, ultimateperm>>

\* std::set<pair<hash, string>>: distinct labels may have the same hash.
ByHashThenLabel(l, m) == hash[l] < hash[m] \/ (hash[l] = hash[m] /\ l < m)
Unique(received) == InOrderOf(received, ByHashThenLabel)

CountUnique(p) ==
  /\ pc[p] = "labels"
  /\ AllArrived(sent, Procs, p)
  /\ LET unique == Unique(UNION {Elements(Received(sent, Procs, p)[q]) : q \in Procs})
     IN /\ uniqsorted' = [uniqsorted EXCEPT ![p] = unique]
        /\ uniqsize' = [uniqsize EXCEPT ![p] = Len(unique)]
  /\ Goto(p, "scan")
  /\ UNCHANGED <<hash, keys, sent, recvinds, distmapper, ultimateperm>>

totallength == Displacements(uniqsize)[Cardinality(Procs)]
SizeUntilNone(p) == 0
SizeUntil(p) == Displacements(uniqsize)[p]

\* The number of the i-th label of p.
GlobalIndexFromOne(p, i) == SizeUntil(p) + i
GlobalIndex(p, i) == SizeUntil(p) + i - 1

\* The labels of p that go to q in the vector, with their local indices there.
Mapped(p, q) ==
  LET mine == {i \in DOMAIN uniqsorted[p] : Owner(totallength, GlobalIndex(p, i)).rank = q}
      order == InOrderOf(mine, LAMBDA i, j : i < j)
  IN [n \in DOMAIN order |->
        [ind |-> Owner(totallength, GlobalIndex(p, order[n])).lind, label |-> uniqsorted[p][order[n]]]]

\* MPI_Exscan and MPI_Allreduce return when every process has called them.
Distribute(p) ==
  /\ pc[p] = "scan"
  /\ \A q \in Procs : uniqsize[q] # -1
  /\ Exchange(p, [q \in Procs |-> Mapped(p, q)])
  /\ Goto(p, "redistribute")
  /\ UNCHANGED <<hash, keys, uniqsorted, uniqsize, recvinds, distmapper, ultimateperm>>

\* The i-th label that arrives becomes the i-th element, whatever its index; then the
\* numbers go back to those who sent the labels.
NumberInStringOrder(p, l) ==
  GlobalIndex(p, Cardinality({m \in Elements(uniqsorted[p]) : m <= l}))
Number(p, l) == GlobalIndex(p, CHOOSE i \in DOMAIN uniqsorted[p] : uniqsorted[p][i] = l)
Place(p) ==
  LET arrived == InRankOrder(Received(sent, Procs, p))
      asked(q) == sent[q][1][p]
  IN
  /\ pc[p] = "redistribute"
  /\ AllArrived(sent, Procs, p)
  /\ recvinds' = [recvinds EXCEPT ![p] = [i \in DOMAIN arrived |-> arrived[i].ind]]
  /\ distmapper' = [distmapper EXCEPT ![p] = [i \in DOMAIN arrived |-> arrived[i].label]]
  /\ Exchange(p, [q \in Procs |-> [i \in DOMAIN asked(q) |-> Number(p, asked(q)[i])]])
  /\ Goto(p, "numbers")
  /\ UNCHANGED <<hash, keys, uniqsorted, uniqsize, ultimateperm>>

\* The numbers arrive in the order in which the labels were sent.
ReceiveNumbers(p) ==
  LET numbers == InRankOrder(Received(sent, Procs, p))
      labels == InRankOrder(sent[p][1])
  IN
  /\ pc[p] = "numbers"
  /\ AllArrived(sent, Procs, p)
  /\ ultimateperm' = [ultimateperm EXCEPT ![p] =
       [l \in Elements(labels) |-> numbers[CHOOSE i \in DOMAIN labels : labels[i] = l]]]
  /\ Goto(p, "done")
  /\ UNCHANGED <<hash, keys, sent, uniqsorted, uniqsize, recvinds, distmapper>>

Step(p) == SendLabels(p) \/ CountUnique(p) \/ Distribute(p) \/ Place(p) \/ ReceiveNumbers(p)
Terminated == (\A p \in Procs : pc[p] = "done") /\ UNCHANGED vars
Next == (\E p \in Procs : Step(p)) \/ Terminated
Spec == Init /\ [][Next]_vars

-----------------------------------------------------------------------------
(* Correctness. *)

AllLabels == UNION {keys[p] : p \in Procs}
Done(p) == pc[p] = "done"

\* The types of the variables.
TypeOK ==
  /\ hash \in Hashes /\ keys \in [Procs -> KeySets]
  /\ pc \in [Procs -> {"hash", "labels", "scan", "redistribute", "numbers", "done"}]
  /\ \A p \in Procs :
       /\ uniqsize[p] \in -1 .. Cardinality(Labels)
       /\ Elements(uniqsorted[p]) \subseteq AllLabels
       /\ Done(p) => ultimateperm[p] \in [keys[p] -> 0 .. Cardinality(AllLabels) - 1]

\* Two processes give a label the same number, and different labels different numbers,
\* also when their hashes collide (TupleRead1stPassNExchange).
SameNumbering ==
  \A p, q \in Procs : Done(p) /\ Done(q) =>
    \A l \in keys[p], m \in keys[q] : ultimateperm[p][l] = ultimateperm[q][m] <=> l = m

\* The numbers a process receives for its part of the vector are its local indices in
\* order, as ReDistributeToVector asserts for each one (SpParHelper.cpp:94): nothing is
\* out of place, missing or twice, however the numbers of the ranks fall on the grid.
IndicesInPlace ==
  \A p \in Procs : pc[p] \in {"numbers", "done"} =>
    /\ Len(recvinds[p]) = MyLocLength(totallength, RankInProcCol(p), RankInProcRow(p))
    /\ \A i \in DOMAIN recvinds[p] : recvinds[p][i] = i - 1

\* The vector is the inverse of the numbering: at the place of a label's number the
\* owner has the label (distmapper, which ReadGeneralizedTuples returns).
MapperIsInverse ==
  \A p, q \in Procs : Done(p) /\ Done(q) =>
    \A l \in keys[p] :
      LET place == Owner(totallength, ultimateperm[p][l])
      IN place.rank = q => distmapper[q][place.lind + 1] = l
=============================================================================
