----------------------------------- MODULE Summa -----------------------------------
(***************************************************************************)
(* C = A * B with SUMMA on an N x N process grid: Mult_AnXBn_Synch of      *)
(* include/ParFriends.h, with the parts of SpParHelper (GetSetSizes,       *)
(* BCastMatrix), CommGrid and LocalSpGEMM it is made of.                   *)
(*                                                                         *)
(* A process is its place <<row, column>> in the grid.  Its state is the   *)
(* blocking MPI call it is in (pc), its stage of the SUMMA loop, the       *)
(* blocks it holds, the partial products it has to merge, and what it      *)
(* allocated.  MPI matches collectives by position: the n-th call of every *)
(* member of a communicator belongs together.  rowLog[p] and colLog[p] are *)
(* the calls p made on its row and its column communicator.  The sizes go  *)
(* through the communicators of A and B, the blocks through the duplicates *)
(* of the result's grid; they have the same members and a process uses     *)
(* them in one order, so a communicator and its duplicate share a log.     *)
(***************************************************************************)
EXTENDS Integers, Sequences, FiniteSets, Collectives

CONSTANTS N,        \* grid dimension, the number of SUMMA stages
          Eager,    \* TRUE: the root of a broadcast may leave before the others arrive
          ClearA,   \* the caller's clearA and clearB flags
          ClearB,
          Inputs    \* the multiplications considered, see InputsAssumption

ASSUME NAssumption == N \in Nat \ {0}
ASSUME FlagsAssumption == Eager \in BOOLEAN /\ ClearA \in BOOLEAN /\ ClearB \in BOOLEAN

Stage == 0 .. N - 1
Proc == Stage \X Stage
NoBlock == <<-1, -1>>
Block == Proc \cup {NoBlock}

\* a and b are the nonempty blocks of A and B, prod the triples <<r, k, c>> whose
\* local product A(r,k) * B(k,c) has nonzeros.
ASSUME InputsAssumption ==
  /\ Inputs \subseteq [a : SUBSET Proc, b : SUBSET Proc, prod : SUBSET (Stage \X Stage \X Stage)]
  /\ \A x \in Inputs : \A t \in x.prod : <<t[1], t[2]>> \in x.a /\ <<t[2], t[3]>> \in x.b

VARIABLES in,        \* the multiplication, an element of Inputs
          pc,        \* the call the process is in
          stage,     \* i of the SUMMA loop
          rowLog,    \* the collectives the process called on its row communicator
          colLog,    \* the same for its column communicator
          aSizes,    \* ARecvSizes: the block of each row member whose sizes it learnt
          bSizes,    \* BRecvSizes
          aRecv,     \* the block *ARecv holds
          bRecv,     \* the block *BRecv holds
          tomerge,   \* the stages whose partial product was kept
          own,       \* which of A.spSeq and B.spSeq are allocated
          temps,     \* the received blocks still allocated, <<"A" or "B", stage>>
          result     \* the merged result, {} before the end

comm == <<rowLog, colLog>>
vars == <<in, pc, stage, rowLog, colLog, aSizes, bSizes, aRecv, bRecv, tomerge, own, temps, result>>

-----------------------------------------------------------------------------
(* The grid. *)

RowWorld(p) == {q \in Proc : q[1] = p[1]}
ColWorld(p) == {q \in Proc : q[2] = p[2]}

\* The rank of p in its row and its column communicator.
RankInProcRow(p) == p[2]
RankInProcColSwapped(p) == p[2]
RankInProcCol(p) == p[1]

\* The member with rank i of p's row and column communicator.
RowMember(p, i) == <<p[1], i>>
ColMember(p, i) == <<i, p[2]>>

-----------------------------------------------------------------------------
(* Collectives, by position on their communicator. *)

Gather(blk) == [op |-> "allgather", root |-> -1, blk |-> blk]
Bcast(root, blk) == [op |-> "bcast", root |-> root, blk |-> blk]

\* A broadcast can return at the root (at once if the library buffers it), and
\* elsewhere when the root has called it.
BcastReturns(log, world, p, root) ==
  IF p = root THEN Eager \/ AllArrived(log, world, p)
              ELSE Len(log[root]) >= Len(log[p])

\* What the broadcast p is in delivers.
Delivered(log, p, root) == log[root][Len(log[p])].blk

CallRow(p, call) == rowLog' = [rowLog EXCEPT ![p] = Append(@, call)]
CallCol(p, call) == colLog' = [colLog EXCEPT ![p] = Append(@, call)]

-----------------------------------------------------------------------------
Init ==
  /\ in \in Inputs
  /\ pc = [p \in Proc |-> "start"]
  /\ stage = [p \in Proc |-> 0]
  /\ rowLog = [p \in Proc |-> <<>>]
  /\ colLog = [p \in Proc |-> <<>>]
  /\ aSizes = [p \in Proc |-> [i \in Stage |-> NoBlock]]
  /\ bSizes = [p \in Proc |-> [i \in Stage |-> NoBlock]]
  /\ aRecv = [p \in Proc |-> NoBlock]
  /\ bRecv = [p \in Proc |-> NoBlock]
  /\ tomerge = [p \in Proc |-> {}]
  /\ own = [p \in Proc |-> {"A", "B"}]
  /\ temps = [p \in Proc |-> {}]
  /\ result = [p \in Proc |-> {}]

\* The call, up to MPI_Barrier on the world of the result's grid.
Enter(p) ==
  /\ pc[p] = "start"
  /\ pc' = [pc EXCEPT ![p] = "barrier"]
  /\ UNCHANGED <<in, stage, comm, aSizes, bSizes, aRecv, bRecv, tomerge, own, temps, result>>

\* Everybody is in the barrier or past it; GetSetSizes of A on the row communicator.
LeaveBarrier(p) ==
  /\ pc[p] = "barrier"
  /\ \A q \in Proc : pc[q] # "start"
  /\ pc' = [pc EXCEPT ![p] = "sizesA"]
  /\ CallRow(p, Gather(p))
  /\ UNCHANGED <<in, stage, colLog, aSizes, bSizes, aRecv, bRecv, tomerge, own, temps, result>>

\* The sizes of A's blocks are known; GetSetSizes of B on the column communicator.
LeaveSizesA(p) ==
  /\ pc[p] = "sizesA"
  /\ AllArrived(rowLog, RowWorld(p), p)
  /\ aSizes' = [aSizes EXCEPT ![p] =
                  [i \in Stage |-> Delivered(rowLog, p, RowMember(p, i))]]
  /\ pc' = [pc EXCEPT ![p] = "sizesB"]
  /\ CallCol(p, Gather(p))
  /\ UNCHANGED <<in, stage, rowLog, bSizes, aRecv, bRecv, tomerge, own, temps, result>>

\* The root of the broadcast of stage i.
StageRootStaggered(p, i) == (p[1] + p[2] + i) % N
StageRoot(p, i) == i

\* Stage i begins: the owner of the i-th block of the row shallow-copies it and is
\* the root of the broadcast, everybody else allocates an empty matrix for it.
BeginStage(p, i, held) ==
  IF i = RankInProcRow(p)
  THEN /\ aRecv' = [aRecv EXCEPT ![p] = p]
       /\ temps' = [temps EXCEPT ![p] = held]
       /\ CallRow(p, Bcast(StageRoot(p, i), p))
  ELSE /\ aRecv' = [aRecv EXCEPT ![p] = NoBlock]
       /\ temps' = [temps EXCEPT ![p] = held \cup {<<"A", i>>}]
       /\ CallRow(p, Bcast(StageRoot(p, i), NoBlock))

LeaveSizesB(p) ==
  /\ pc[p] = "sizesB"
  /\ AllArrived(colLog, ColWorld(p), p)
  /\ bSizes' = [bSizes EXCEPT ![p] =
                  [i \in Stage |-> Delivered(colLog, p, ColMember(p, i))]]
  /\ pc' = [pc EXCEPT ![p] = "bcastA"]
  /\ BeginStage(p, 0, temps[p])
  /\ UNCHANGED <<in, stage, colLog, aSizes, bRecv, tomerge, own, result>>

\* The i-th block of the row arrived; the same for the i-th block of the column.
LeaveBcastA(p) ==
  LET i == stage[p] IN
  /\ pc[p] = "bcastA"
  /\ BcastReturns(rowLog, RowWorld(p), p, RowMember(p, StageRoot(p, i)))
  /\ aRecv' = [aRecv EXCEPT ![p] = Delivered(rowLog, p, RowMember(p, StageRoot(p, i)))]
  /\ pc' = [pc EXCEPT ![p] = "bcastB"]
  /\ IF i = RankInProcCol(p)
     THEN /\ bRecv' = [bRecv EXCEPT ![p] = p]
          /\ UNCHANGED temps
          /\ CallCol(p, Bcast(StageRoot(p, i), p))
     ELSE /\ bRecv' = [bRecv EXCEPT ![p] = NoBlock]
          /\ temps' = [temps EXCEPT ![p] = @ \cup {<<"B", i>>}]
          /\ CallCol(p, Bcast(StageRoot(p, i), NoBlock))
  /\ UNCHANGED <<in, stage, rowLog, aSizes, bSizes, tomerge, own, result>>

LeaveBcastB(p) ==
  LET i == stage[p] IN
  /\ pc[p] = "bcastB"
  /\ BcastReturns(colLog, ColWorld(p), p, ColMember(p, StageRoot(p, i)))
  /\ bRecv' = [bRecv EXCEPT ![p] = Delivered(colLog, p, ColMember(p, StageRoot(p, i)))]
  /\ pc' = [pc EXCEPT ![p] = "multiply"]
  /\ UNCHANGED <<in, stage, rowLog, colLog, aSizes, bSizes, aRecv, tomerge, own, temps, result>>

\* LocalSpGEMM returns an empty product for an empty operand.
EmptyOperand(a, b) == a \notin in.a \/ b \notin in.b

\* Whether the product of the two blocks has nonzeros.  Blocks with different
\* inner indices do not belong together, their product is a wrong term.
HasNonzeros(a, b) ==
  /\ ~ EmptyOperand(a, b)
  /\ a[2] = b[1] => <<a[1], a[2], b[2]>> \in in.prod

DeleteOperandsSwapped(p, a, b, clearA, clearB) ==
  LET dead == (IF clearB THEN {"A"} ELSE {}) \cup (IF clearA THEN {"B"} ELSE {})
      i == stage[p]
  IN [temps |-> temps[p] \ {<<x, i>> : x \in dead},
      own |-> own[p] \ ((IF a = p THEN dead \cap {"A"} ELSE {})
                          \cup (IF b = p THEN dead \cap {"B"} ELSE {}))]

\* The operands LocalSpGEMM deletes on its way out: those it was told to, but none
\* when it returned early because one of them is empty.  (Nor is a product deleted that has no
\* nonzeros; products are not among the allocations here.)
DeleteOperands(p, a, b, clearA, clearB) ==
  LET dead == IF EmptyOperand(a, b) THEN {}
              ELSE (IF clearA THEN {"A"} ELSE {}) \cup (IF clearB THEN {"B"} ELSE {})
      i == stage[p]
  IN [temps |-> temps[p] \ {<<x, i>> : x \in dead},
      own |-> own[p] \ ((IF a = p THEN dead \cap {"A"} ELSE {})
                          \cup (IF b = p THEN dead \cap {"B"} ELSE {}))]

\* The loop condition i < stages.
MoreStagesOffByOne(i) == i <= N
MoreStagesTooFew(i) == i < N - 1
MoreStages(i) == i < N

\* The local product of stage i is kept unless it is empty; the next stage or the
\* end of the loop.
Multiply(p) ==
  LET i == stage[p]
      left == DeleteOperands(p, aRecv[p], bRecv[p], i # RankInProcRow(p), i # RankInProcCol(p))
  IN
  /\ pc[p] = "multiply"
  /\ tomerge' = IF HasNonzeros(aRecv[p], bRecv[p])
                THEN [tomerge EXCEPT ![p] = @ \cup {<<aRecv[p], bRecv[p]>>}]
                ELSE tomerge
  /\ stage' = [stage EXCEPT ![p] = i + 1]
  /\ own' = [own EXCEPT ![p] = left.own]
  /\ IF MoreStages(i + 1)
     THEN /\ pc' = [pc EXCEPT ![p] = "bcastA"]
          /\ BeginStage(p, i + 1, left.temps)
     ELSE /\ pc' = [pc EXCEPT ![p] = "merge"]
          /\ temps' = [temps EXCEPT ![p] = left.temps]
          /\ UNCHANGED <<aRecv, rowLog>>
  /\ UNCHANGED <<in, colLog, aSizes, bSizes, bRecv, result>>

\* The inputs the caller gave up are deleted, the partial products merged.
Merge(p) ==
  /\ pc[p] = "merge"
  /\ pc' = [pc EXCEPT ![p] = "done"]
  /\ own' = [own EXCEPT ![p] = @ \ ((IF ClearA THEN {"A"} ELSE {})
                                    \cup (IF ClearB THEN {"B"} ELSE {}))]
  /\ result' = [result EXCEPT ![p] = tomerge[p]]
  /\ UNCHANGED <<in, stage, comm, aSizes, bSizes, aRecv, bRecv, tomerge, temps>>

Step(p) == \/ Enter(p) \/ LeaveBarrier(p) \/ LeaveSizesA(p) \/ LeaveSizesB(p)
           \/ LeaveBcastA(p) \/ LeaveBcastB(p) \/ Multiply(p) \/ Merge(p)

Terminated == (\A p \in Proc : pc[p] = "done") /\ UNCHANGED vars

Next == (\E p \in Proc : Step(p)) \/ Terminated

\* Every process runs until it is in a call that cannot return yet.
Spec == Init /\ [][Next]_vars /\ \A p \in Proc : WF_vars(Step(p))

-----------------------------------------------------------------------------
(* Correctness. *)

Term == Block \X Block
Call == [op : {"allgather", "bcast"}, root : Stage \cup {-1}, blk : Block]
Temp == {"A", "B"} \X Stage

\* The types of the variables above; a stage may be N only when the loop is over.
TypeOK ==
  /\ in \in Inputs
  /\ pc \in [Proc -> {"start", "barrier", "sizesA", "sizesB", "bcastA", "bcastB",
                      "multiply", "merge", "done"}]
  /\ stage \in [Proc -> 0 .. N]
  /\ \A p \in Proc : stage[p] = N => pc[p] \in {"merge", "done"}
  /\ rowLog \in [Proc -> Seq(Call)]
  /\ colLog \in [Proc -> Seq(Call)]
  /\ aSizes \in [Proc -> [Stage -> Block]]
  /\ bSizes \in [Proc -> [Stage -> Block]]
  /\ aRecv \in [Proc -> Block]
  /\ bRecv \in [Proc -> Block]
  /\ tomerge \in [Proc -> SUBSET Term]
  /\ own \in [Proc -> SUBSET {"A", "B"}]
  /\ temps \in [Proc -> SUBSET Temp]
  /\ result \in [Proc -> SUBSET Term]

\* Whatever the skew between the processes, the calls that MPI matches with each
\* other are the same collective with the same root (BCastMatrix, GetSetSizes).
CollectivesMatch ==
  \A p \in Proc : /\ \A q \in RowWorld(p) : SameCalls(rowLog[p], rowLog[q])
                  /\ \A q \in ColWorld(p) : SameCalls(colLog[p], colLog[q])

\* The operands LocalSpGEMM gets at stage i share the inner index i, and the sizes
\* their arrays were allocated with are those of the very blocks that arrived.
OperandsMatch ==
  \A p \in Proc : pc[p] = "multiply" =>
    /\ aRecv[p] = <<p[1], stage[p]>> /\ aSizes[p][stage[p]] = aRecv[p]
    /\ bRecv[p] = <<stage[p], p[2]>> /\ bSizes[p][stage[p]] = bRecv[p]

\* The 'delete A' and 'delete B' conditions never reach the caller's own blocks: they
\* are there until the loop is over, and afterwards unless the caller gave them up.
InputsSurvive ==
  \A p \in Proc : own[p] = {x \in {"A", "B"} :
      pc[p] = "done" => ~ (IF x = "A" THEN ClearA ELSE ClearB)}

\* The blocks received for a stage whose other operand is empty.
LeftBehind(p) ==
  {t \in Temp :
     /\ t[2] # (IF t[1] = "A" THEN p[2] ELSE p[1])
     /\ EmptyOperand(<<p[1], t[2]>>, <<t[2], p[2]>>)}

\* The memory a process still holds when it returns: every block it received and could
\* multiply is deleted, and what is left behind are the blocks whose
\* other operand is empty (LocalSpGEMM returns before its deletions).
OnlyUnmultipliedLeft == \A p \in Proc : pc[p] = "done" => temps[p] = LeftBehind(p)

Wanted(p) == {<< <<p[1], k>>, <<k, p[2]>> >> : k \in {k \in Stage : <<p[1], k, p[2]>> \in in.prod}}

Collective == INSTANCE SpGEMM WITH
  Products <- [Proc -> SUBSET Term],
  want <- [p \in Proc |-> Wanted(p)],
  called <- {p \in Proc : pc[p] # "start"},
  ret <- {<<p, result[p]>> : p \in {q \in Proc : pc[q] = "done"}}

\* SUMMA is a collective multiplication: nobody returns before everybody called it,
\* everybody returns, and each block of the result is the sum of exactly the partial
\* products of its row of A and its column of B (Mult_AnXBn_Synch).
ImplementsSpGEMM == Collective!Spec
=============================================================================
