-------------------------------- MODULE SummaProofs --------------------------------
(***************************************************************************)
(* The safety of SUMMA for every grid, every input and every way MPI may   *)
(* time its collectives.  The inductive invariant IInv says what is in     *)
(* every position of every communicator's log (LogInv) as a function of    *)
(* where its caller is (RowCalls, ColCalls); the operands of each stage    *)
(* and the partial products kept so far follow from it.                    *)
(***************************************************************************)
EXTENDS Summa, TLAPS

InLoop == {"bcastA", "bcastB", "multiply"}
After == {"merge", "done"}

\* The number of calls a process has made on its row communicator when it is at
\* control point c of stage i, and the call at position n.
RowCalls(c, i) == IF c \in {"start", "barrier"} THEN 0
                  ELSE IF c \in {"sizesA", "sizesB"} THEN 1
                  ELSE IF c \in InLoop THEN i + 2 ELSE N + 1
ColCalls(c, i) == IF c \in {"start", "barrier", "sizesA"} THEN 0
                  ELSE IF c = "sizesB" THEN 1
                  ELSE IF c = "bcastA" THEN i + 1
                  ELSE IF c \in InLoop THEN i + 2 ELSE N + 1
RowCall(p, n) == IF n = 1 THEN Gather(p) ELSE Bcast(n - 2, IF p[2] = n - 2 THEN p ELSE NoBlock)
ColCall(p, n) == IF n = 1 THEN Gather(p) ELSE Bcast(n - 2, IF p[1] = n - 2 THEN p ELSE NoBlock)

StageInv == \A p \in Proc :
  /\ pc[p] \in InLoop => stage[p] < N
  /\ pc[p] \in After => stage[p] = N
  /\ pc[p] \notin InLoop \cup After => stage[p] = 0

BarrierInv == \A p \in Proc :
  pc[p] \notin {"start", "barrier"} => \A q \in Proc : pc[q] # "start"

LogInv == \A p \in Proc :
  /\ Len(rowLog[p]) = RowCalls(pc[p], stage[p])
  /\ Len(colLog[p]) = ColCalls(pc[p], stage[p])
  /\ \A n \in 1 .. Len(rowLog[p]) : rowLog[p][n] = RowCall(p, n)
  /\ \A n \in 1 .. Len(colLog[p]) : colLog[p][n] = ColCall(p, n)

SizesInv == \A p \in Proc :
  /\ pc[p] \in {"sizesB"} \cup InLoop => aSizes[p] = [i \in Stage |-> <<p[1], i>>]
  /\ pc[p] \in InLoop => bSizes[p] = [i \in Stage |-> <<i, p[2]>>]

RecvInv == \A p \in Proc :
  /\ pc[p] \in {"bcastB", "multiply"} => aRecv[p] = <<p[1], stage[p]>>
  /\ pc[p] = "multiply" => bRecv[p] = <<stage[p], p[2]>>

TermInv == \A p \in Proc :
  /\ tomerge[p] = {<< <<p[1], k>>, <<k, p[2]>> >> :
                     k \in {k \in 0 .. stage[p] - 1 : <<p[1], k, p[2]>> \in in.prod}}
  /\ pc[p] = "done" => result[p] = tomerge[p]

IInv == /\ TypeOK /\ StageInv /\ BarrierInv /\ LogInv
        /\ SizesInv /\ RecvInv /\ TermInv /\ InputsSurvive

-----------------------------------------------------------------------------
\* What an allgather or a broadcast delivers: the calls of the process that matter
\* are at the position of the receiver's own call.
LEMMA RowDelivers ==
  ASSUME TypeOK, StageInv, LogInv, NEW p \in Proc, NEW i \in Stage,
         Len(rowLog[<<p[1], i>>]) >= Len(rowLog[p]), Len(rowLog[p]) >= 1,
         Len(rowLog[p]) \in {1, i + 2}
  PROVE  Delivered(rowLog, p, RowMember(p, i)) = <<p[1], i>>
<1> DEFINE q == <<p[1], i>>
<1>1. q \in Proc /\ q[2] = i /\ i \in Nat
  BY NAssumption DEF Proc, Stage
<1>2. Len(rowLog[p]) \in 1 .. Len(rowLog[q])
  BY <1>1 DEF TypeOK
<1>3. rowLog[q][Len(rowLog[p])] = RowCall(q, Len(rowLog[p]))
  BY <1>1, <1>2 DEF LogInv
<1>4. RowCall(q, Len(rowLog[p])).blk = q
  BY <1>1 DEF RowCall, Gather, Bcast
<1> QED BY <1>3, <1>4 DEF Delivered, RowMember

\* The same on a column communicator.
LEMMA ColDelivers ==
  ASSUME TypeOK, StageInv, LogInv, NEW p \in Proc, NEW i \in Stage,
         Len(colLog[<<i, p[2]>>]) >= Len(colLog[p]), Len(colLog[p]) >= 1,
         Len(colLog[p]) \in {1, i + 2}
  PROVE  Delivered(colLog, p, ColMember(p, i)) = <<i, p[2]>>
<1> DEFINE q == <<i, p[2]>>
<1>1. q \in Proc /\ q[1] = i /\ i \in Nat
  BY NAssumption DEF Proc, Stage
<1>2. Len(colLog[p]) \in 1 .. Len(colLog[q])
  BY <1>1 DEF TypeOK
<1>3. colLog[q][Len(colLog[p])] = ColCall(q, Len(colLog[p]))
  BY <1>1, <1>2 DEF LogInv
<1>4. ColCall(q, Len(colLog[p])).blk = q
  BY <1>1 DEF ColCall, Gather, Bcast
<1> QED BY <1>3, <1>4 DEF Delivered, ColMember

\* A broadcast that returns at p has been called at its root.
LEMMA BcastArrived ==
  ASSUME NEW log, NEW world, NEW p, NEW root, Len(log[p]) \in Int, BcastReturns(log, world, p, root)
  PROVE  Len(log[root]) >= Len(log[p])
BY DEF BcastReturns

\* Appending the call of the next position keeps a log in its form.
LEMMA AppendCall ==
  ASSUME NEW S, NEW s \in Seq(S), NEW e \in S, NEW F(_),
         \A n \in 1 .. Len(s) : s[n] = F(n), e = F(Len(s) + 1)
  PROVE  /\ Append(s, e) \in Seq(S)
         /\ Len(Append(s, e)) = Len(s) + 1
         /\ \A n \in 1 .. Len(s) + 1 : Append(s, e)[n] = F(n)
OBVIOUS

-----------------------------------------------------------------------------
\* Before the call nothing is logged, received or merged.
LEMMA InitIInv == Init => IInv
<1> SUFFICES ASSUME Init PROVE IInv
  OBVIOUS
<1>0. NoBlock \in Block /\ 0 \in 0 .. N /\ N # 0
  BY NAssumption DEF Block
<1>1. TypeOK
  BY <1>0 DEF Init, TypeOK
<1>2. StageInv /\ BarrierInv
  BY DEF Init, StageInv, BarrierInv, InLoop, After
<1>3. LogInv
  BY DEF Init, LogInv, RowCalls, ColCalls
<1>4. SizesInv /\ RecvInv
  BY DEF Init, SizesInv, RecvInv, InLoop
<1>5. TermInv
  BY DEF Init, TermInv
<1>6. InputsSurvive
  BY DEF Init, InputsSurvive
<1> QED BY <1>1, <1>2, <1>3, <1>4, <1>5, <1>6 DEF IInv

\* Types of the calls a process makes.
LEMMA CallTypes ==
  ASSUME NEW p \in Proc, NEW i \in Stage
  PROVE  /\ Gather(p) \in Call
         /\ Bcast(i, p) \in Call /\ Bcast(i, NoBlock) \in Call
         /\ i \in Int /\ i >= 0
BY NAssumption DEF Call, Gather, Bcast, Block, Stage

\* Entering the barrier of the world makes no call on a row or a column.
LEMMA EnterIInv ==
  ASSUME IInv, NEW p \in Proc, Enter(p)
  PROVE  IInv'
<1> USE DEF IInv
<1>1. TypeOK'
  BY DEF TypeOK, Enter, comm
<1>2. StageInv' /\ BarrierInv'
  BY DEF TypeOK, StageInv, BarrierInv, Enter, InLoop, After
<1>3. LogInv'
  BY DEF TypeOK, LogInv, Enter, comm, RowCalls, ColCalls, InLoop
<1>4. SizesInv' /\ RecvInv'
  BY DEF TypeOK, SizesInv, RecvInv, Enter, InLoop
<1>5. TermInv'
  BY DEF TypeOK, TermInv, Enter
<1>6. InputsSurvive'
  BY DEF TypeOK, InputsSurvive, Enter
<1> QED BY <1>1, <1>2, <1>3, <1>4, <1>5, <1>6

\* Leaving the barrier makes the first call on the row: GetSetSizes of A.
LEMMA LeaveBarrierIInv ==
  ASSUME IInv, NEW p \in Proc, LeaveBarrier(p)
  PROVE  IInv'
<1> USE DEF IInv
<1>0. Gather(p) \in Call
  BY DEF Call, Gather, Block
<1>1. TypeOK'
  BY <1>0 DEF TypeOK, LeaveBarrier, CallRow
<1>2. StageInv' /\ BarrierInv'
  BY DEF TypeOK, StageInv, BarrierInv, LeaveBarrier, InLoop, After
<1>3. LogInv'
  <2>1. rowLog[p] \in Seq(Call) /\ Len(rowLog[p]) = 0
    BY DEF TypeOK, LogInv, LeaveBarrier, RowCalls
  <2>2. /\ Len(rowLog'[p]) = 1
        /\ \A n \in 1 .. 1 : rowLog'[p][n] = RowCall(p, n)
    BY <1>0, <2>1 DEF TypeOK, LeaveBarrier, CallRow, RowCall
  <2> QED BY <2>2, ZenonT(60) DEF TypeOK, LogInv, LeaveBarrier, CallRow, RowCalls, ColCalls, InLoop
<1>4. SizesInv' /\ RecvInv'
  BY DEF TypeOK, SizesInv, RecvInv, LeaveBarrier, InLoop
<1>5. TermInv'
  BY DEF TypeOK, TermInv, LeaveBarrier
<1>6. InputsSurvive'
  BY DEF TypeOK, InputsSurvive, LeaveBarrier
<1> QED BY <1>1, <1>2, <1>3, <1>4, <1>5, <1>6

\* The sizes of A's row are learnt; the first call on the column: GetSetSizes of B.
LEMMA LeaveSizesAIInv ==
  ASSUME IInv, NEW p \in Proc, LeaveSizesA(p)
  PROVE  IInv'
<1> USE DEF IInv
<1>0. Gather(p) \in Call
  BY DEF Call, Gather, Block
<1>a. aSizes'[p] = [i \in Stage |-> <<p[1], i>>]
  <2>1. ASSUME NEW i \in Stage PROVE Delivered(rowLog, p, RowMember(p, i)) = <<p[1], i>>
    <3>1. Len(rowLog[p]) = 1
      BY DEF LogInv, LeaveSizesA, RowCalls
    <3>2. <<p[1], i>> \in RowWorld(p)
      BY DEF RowWorld, Proc
    <3>3. Len(rowLog[<<p[1], i>>]) >= Len(rowLog[p])
      BY <3>2 DEF LeaveSizesA, AllArrived
    <3>4. TypeOK /\ StageInv /\ LogInv /\ 1 >= 1
      OBVIOUS
    <3> HIDE DEF IInv
    <3> QED BY <3>1, <3>3, <3>4, RowDelivers
  <2> QED BY <2>1 DEF TypeOK, LeaveSizesA
<1>1. TypeOK'
  <2>1. aSizes' \in [Proc -> [Stage -> Block]]
    BY <1>a DEF TypeOK, LeaveSizesA, Block, Proc
  <2> QED BY <1>0, <2>1 DEF TypeOK, LeaveSizesA, CallCol
<1>2. StageInv' /\ BarrierInv'
  BY DEF TypeOK, StageInv, BarrierInv, LeaveSizesA, InLoop, After
<1>3. LogInv'
  <2>1. colLog[p] \in Seq(Call) /\ Len(colLog[p]) = 0
    BY DEF TypeOK, LogInv, LeaveSizesA, ColCalls
  <2>2. /\ Len(colLog'[p]) = 1
        /\ \A n \in 1 .. 1 : colLog'[p][n] = ColCall(p, n)
    BY <1>0, <2>1 DEF TypeOK, LeaveSizesA, CallCol, ColCall
  <2> QED BY <2>2, ZenonT(60) DEF TypeOK, LogInv, LeaveSizesA, CallCol, RowCalls, ColCalls, InLoop
<1>4. SizesInv' /\ RecvInv'
  BY <1>a DEF TypeOK, SizesInv, RecvInv, LeaveSizesA, InLoop
<1>5. TermInv'
  BY DEF TypeOK, TermInv, LeaveSizesA
<1>6. InputsSurvive'
  BY DEF TypeOK, InputsSurvive, LeaveSizesA
<1> QED BY <1>1, <1>2, <1>3, <1>4, <1>5, <1>6

\* What the beginning of stage i does to the row log, the received blocks and aRecv.
LEMMA BeginStageEffect ==
  ASSUME TypeOK, NEW p \in Proc, NEW i \in Stage, NEW held \in SUBSET Temp,
         BeginStage(p, i, held), Len(rowLog[p]) = i + 1,
         \A n \in 1 .. Len(rowLog[p]) : rowLog[p][n] = RowCall(p, n)
  PROVE  /\ rowLog' \in [Proc -> Seq(Call)]
         /\ aRecv' \in [Proc -> Block]
         /\ temps' \in [Proc -> SUBSET Temp]
         /\ \A q \in Proc : q # p => rowLog'[q] = rowLog[q] /\ aRecv'[q] = aRecv[q]
         /\ Len(rowLog'[p]) = i + 2
         /\ \A n \in 1 .. i + 2 : rowLog'[p][n] = RowCall(p, n)
<1> DEFINE e == Bcast(i, IF i = p[2] THEN p ELSE NoBlock)
<1>1. rowLog' = [rowLog EXCEPT ![p] = Append(@, e)]
  BY DEF BeginStage, CallRow, StageRoot, RankInProcRow
<1>2. i \in Int /\ i >= 0 /\ i + 2 # 1 /\ (i + 2) - 2 = i /\ e \in Call
  BY CallTypes
<1>3. e = RowCall(p, i + 2)
  BY <1>2 DEF RowCall
<1>4. /\ Append(rowLog[p], e) \in Seq(Call)
      /\ Len(Append(rowLog[p], e)) = i + 2
      /\ \A n \in 1 .. i + 2 : Append(rowLog[p], e)[n] = RowCall(p, n)
  <2> HIDE DEF e
  <2> QED BY <1>2, <1>3 DEF TypeOK
<1>5. rowLog'[p] = Append(rowLog[p], e)
  BY <1>1 DEF TypeOK
<1>6. /\ rowLog' \in [Proc -> Seq(Call)]
      /\ \A q \in Proc : q # p => rowLog'[q] = rowLog[q]
  <2> HIDE DEF e
  <2> QED BY <1>1, <1>4 DEF TypeOK
<1>7. aRecv' \in [Proc -> Block] /\ \A q \in Proc : q # p => aRecv'[q] = aRecv[q]
  <2>1. PICK b \in Block : aRecv' = [aRecv EXCEPT ![p] = b]
    BY DEF BeginStage, Block
  <2> QED BY <2>1 DEF TypeOK
<1>8. temps' \in [Proc -> SUBSET Temp]
  <2>1. {<<"A", i>>} \subseteq Temp
    BY DEF Temp
  <2>2. PICK t \in SUBSET Temp : temps' = [temps EXCEPT ![p] = t]
    BY <2>1 DEF BeginStage
  <2> QED BY <2>2 DEF TypeOK
<1> QED
  <2> HIDE DEF e
  <2> QED BY <1>4, <1>5, <1>6, <1>7, <1>8

\* The sizes of B's column are learnt; the broadcast of stage 0 on the row.
LEMMA LeaveSizesBIInv ==
  ASSUME IInv, NEW p \in Proc, LeaveSizesB(p)
  PROVE  IInv'
<1> USE DEF IInv
<1>0. 0 \in Stage /\ temps[p] \in SUBSET Temp /\ stage[p] = 0 /\ N \in Nat /\ N > 0
  <2>1. 0 \in Stage /\ N \in Nat /\ N > 0
    BY NAssumption DEF Stage
  <2>2. temps[p] \in SUBSET Temp
    BY DEF TypeOK
  <2>3. stage[p] = 0
    BY DEF StageInv, LeaveSizesB, InLoop, After
  <2> QED BY <2>1, <2>2, <2>3
<1>a. bSizes'[p] = [i \in Stage |-> <<i, p[2]>>]
  <2>1. ASSUME NEW i \in Stage PROVE Delivered(colLog, p, ColMember(p, i)) = <<i, p[2]>>
    <3>1. Len(colLog[p]) = 1
      BY DEF LogInv, LeaveSizesB, ColCalls
    <3>2. <<i, p[2]>> \in ColWorld(p)
      BY DEF ColWorld, Proc
    <3>3. Len(colLog[<<i, p[2]>>]) >= Len(colLog[p])
      BY <3>2 DEF LeaveSizesB, AllArrived
    <3>4. TypeOK /\ StageInv /\ LogInv /\ 1 >= 1
      OBVIOUS
    <3> HIDE DEF IInv
    <3> QED BY <3>1, <3>3, <3>4, ColDelivers
  <2> QED BY <2>1 DEF TypeOK, LeaveSizesB
<1>b. Len(rowLog[p]) = 1 /\ \A n \in 1 .. Len(rowLog[p]) : rowLog[p][n] = RowCall(p, n)
  BY DEF LogInv, LeaveSizesB, RowCalls
<1>c. /\ rowLog' \in [Proc -> Seq(Call)]
      /\ aRecv' \in [Proc -> Block]
      /\ temps' \in [Proc -> SUBSET Temp]
      /\ \A q \in Proc : q # p => rowLog'[q] = rowLog[q] /\ aRecv'[q] = aRecv[q]
      /\ Len(rowLog'[p]) = 2
      /\ \A n \in 1 .. 2 : rowLog'[p][n] = RowCall(p, n)
  <2>1. BeginStage(p, 0, temps[p])
    BY DEF LeaveSizesB
  <2>2. TypeOK /\ Len(rowLog[p]) = 0 + 1 /\ 0 + 2 = 2
    BY <1>b
  <2> HIDE DEF IInv
  <2>3. /\ rowLog' \in [Proc -> Seq(Call)]
        /\ aRecv' \in [Proc -> Block]
        /\ temps' \in [Proc -> SUBSET Temp]
        /\ \A q \in Proc : q # p => rowLog'[q] = rowLog[q] /\ aRecv'[q] = aRecv[q]
        /\ Len(rowLog'[p]) = 0 + 2
        /\ \A n \in 1 .. 0 + 2 : rowLog'[p][n] = RowCall(p, n)
    BY <1>0, <1>b, <2>1, <2>2, BeginStageEffect, Zenon
  <2> QED BY <2>2, <2>3
<1>1. TypeOK'
  <2>1. bSizes' \in [Proc -> [Stage -> Block]]
    BY <1>a DEF TypeOK, LeaveSizesB, Block, Proc
  <2> QED BY <1>0, <1>c, <2>1 DEF TypeOK, LeaveSizesB
<1>2. StageInv' /\ BarrierInv'
  BY <1>0 DEF TypeOK, StageInv, BarrierInv, LeaveSizesB, InLoop, After
<1>3. LogInv'
  <2>1. /\ pc'[p] = "bcastA" /\ stage' = stage /\ colLog' = colLog
        /\ \A q \in Proc : q # p => pc'[q] = pc[q]
    BY DEF TypeOK, LeaveSizesB
  <2>2. RowCalls("bcastA", 0) = 2 /\ ColCalls("bcastA", 0) = 1 /\ ColCalls("sizesB", 0) = 1
    BY DEF RowCalls, ColCalls, InLoop
  <2>3. Len(colLog[p]) = 1 /\ pc[p] = "sizesB"
    BY <1>0, <2>2 DEF LogInv, LeaveSizesB
  <2>4. ASSUME NEW q \in Proc PROVE LogInv!(q)'
    <3>1. CASE q = p
      <4>1. Len(rowLog'[p]) = RowCalls(pc'[p], stage'[p])
        BY <1>0, <1>c, <2>1, <2>2
      <4>2. Len(colLog'[p]) = ColCalls(pc'[p], stage'[p])
        BY <1>0, <2>1, <2>2, <2>3
      <4>3. \A n \in 1 .. Len(colLog[p]) : colLog[p][n] = ColCall(p, n)
        BY DEF LogInv
      <4>4. \A n \in 1 .. Len(colLog'[p]) : colLog'[p][n] = ColCall(p, n)
        BY <2>1, <4>3
      <4>5. \A n \in 1 .. Len(rowLog'[p]) : rowLog'[p][n] = RowCall(p, n)
        BY <1>c
      <4> QED BY <3>1, <4>1, <4>2, <4>4, <4>5 DEF RowCalls, ColCalls, RowCall, ColCall
    <3>2. CASE q # p
      <4>1. /\ pc'[q] = pc[q] /\ stage'[q] = stage[q]
            /\ rowLog'[q] = rowLog[q] /\ colLog'[q] = colLog[q]
        BY <3>2, <1>c, <2>1
      <4>2. LogInv!(q)
        BY DEF LogInv
      <4> HIDE DEF IInv
      <4> QED BY <4>1, <4>2 DEF RowCalls, ColCalls, RowCall, ColCall
    <3> QED BY <3>1, <3>2
  <2> QED BY <2>4 DEF LogInv
<1>4. SizesInv' /\ RecvInv'
  BY <1>a, <1>c, SMTT(30) DEF TypeOK, SizesInv, RecvInv, LeaveSizesB, InLoop
<1>5. TermInv'
  BY DEF TypeOK, TermInv, LeaveSizesB
<1>6. InputsSurvive'
  BY DEF TypeOK, InputsSurvive, LeaveSizesB
<1> QED BY <1>1, <1>2, <1>3, <1>4, <1>5, <1>6

\* The block of A arrives; the broadcast of the same stage on the column.
LEMMA LeaveBcastAIInv ==
  ASSUME IInv, NEW p \in Proc, LeaveBcastA(p)
  PROVE  IInv'
<1> USE DEF IInv
<1> DEFINE i == stage[p]
           e == Bcast(i, IF i = p[1] THEN p ELSE NoBlock)
<1>0. /\ i \in Stage /\ i \in Int /\ i >= 0 /\ e \in Call /\ N \in Nat
      /\ i + 2 # 1 /\ (i + 2) - 2 = i
  <2>1. i \in Stage /\ N \in Nat
    BY NAssumption DEF Stage, TypeOK, StageInv, LeaveBcastA, InLoop
  <2> QED BY <2>1, CallTypes
<1>a. aRecv'[p] = <<p[1], i>>
  <2>1. Len(rowLog[p]) = i + 2
    BY DEF LogInv, LeaveBcastA, RowCalls, InLoop
  <2>2. BcastReturns(rowLog, RowWorld(p), p, <<p[1], i>>)
    BY DEF LeaveBcastA, StageRoot, RowMember
  <2>3. Len(rowLog[<<p[1], i>>]) >= Len(rowLog[p])
    BY <1>0, <2>1, <2>2 DEF BcastReturns
  <2>4. Delivered(rowLog, p, RowMember(p, i)) = <<p[1], i>>
    BY <1>0, <2>1, <2>3, RowDelivers
  <2> QED BY <2>4 DEF TypeOK, LeaveBcastA, StageRoot
<1>b. colLog' = [colLog EXCEPT ![p] = Append(@, e)]
  BY DEF LeaveBcastA, CallCol, StageRoot, RankInProcCol
<1>c. Len(colLog[p]) = i + 1 /\ \A n \in 1 .. Len(colLog[p]) : colLog[p][n] = ColCall(p, n)
  BY DEF LogInv, LeaveBcastA, ColCalls
<1>d. e = ColCall(p, i + 2)
  BY <1>0 DEF ColCall
<1> HIDE DEF e
<1>e. /\ colLog' \in [Proc -> Seq(Call)]
      /\ \A q \in Proc : q # p => colLog'[q] = colLog[q]
      /\ Len(colLog'[p]) = i + 2
      /\ \A n \in 1 .. i + 2 : colLog'[p][n] = ColCall(p, n)
  BY <1>0, <1>b, <1>c, <1>d DEF TypeOK
<1>f. bRecv' \in [Proc -> Block] /\ \A q \in Proc : q # p => bRecv'[q] = bRecv[q]
  <2>1. PICK b \in Block : bRecv' = [bRecv EXCEPT ![p] = b]
    BY DEF LeaveBcastA, Block
  <2> QED BY <2>1 DEF TypeOK
<1>g. temps' \in [Proc -> SUBSET Temp]
  <2>1. {<<"B", i>>} \subseteq Temp /\ temps[p] \in SUBSET Temp
    BY <1>0 DEF Temp, TypeOK
  <2>2. PICK t \in SUBSET Temp : temps' = temps \/ temps' = [temps EXCEPT ![p] = t]
    BY <2>1 DEF LeaveBcastA
  <2> QED BY <2>2 DEF TypeOK
<1>1. TypeOK'
  <2>1. aRecv' \in [Proc -> Block]
    <3>1. <<p[1], i>> \in Block
      BY <1>0 DEF Block, Proc
    <3>2. PICK b : aRecv' = [aRecv EXCEPT ![p] = b]
      BY DEF LeaveBcastA
    <3> QED BY <1>a, <3>1, <3>2 DEF TypeOK
  <2> QED BY <1>0, <1>e, <1>f, <1>g, <2>1 DEF TypeOK, LeaveBcastA, Stage
<1>2. StageInv' /\ BarrierInv'
  BY <1>0 DEF TypeOK, StageInv, BarrierInv, LeaveBcastA, InLoop, After
<1>3. LogInv'
  <2>1. /\ pc[p] = "bcastA" /\ pc'[p] = "bcastB" /\ stage' = stage /\ rowLog' = rowLog
        /\ \A q \in Proc : q # p => pc'[q] = pc[q]
    BY DEF TypeOK, LeaveBcastA
  <2>2. /\ RowCalls("bcastA", i) = i + 2 /\ RowCalls("bcastB", i) = i + 2
        /\ ColCalls("bcastB", i) = i + 2
    BY DEF RowCalls, ColCalls, InLoop
  <2> QED BY <1>0, <1>e, <2>1, <2>2, SMTT(30) DEF LogInv
<1>4. SizesInv' /\ RecvInv'
  BY <1>a, <1>f DEF TypeOK, SizesInv, RecvInv, LeaveBcastA, InLoop
<1>5. TermInv'
  BY DEF TypeOK, TermInv, LeaveBcastA
<1>6. InputsSurvive'
  BY DEF TypeOK, InputsSurvive, LeaveBcastA
<1> QED BY <1>1, <1>2, <1>3, <1>4, <1>5, <1>6

\* The block of B arrives.
LEMMA LeaveBcastBIInv ==
  ASSUME IInv, NEW p \in Proc, LeaveBcastB(p)
  PROVE  IInv'
<1> USE DEF IInv
<1> DEFINE i == stage[p]
<1>0. i \in Stage /\ i \in Int /\ i >= 0 /\ N \in Nat
  <2>1. i \in Stage /\ N \in Nat
    BY NAssumption DEF Stage, TypeOK, StageInv, LeaveBcastB, InLoop
  <2> QED BY <2>1, CallTypes
<1>a. bRecv'[p] = <<i, p[2]>>
  <2>1. Len(colLog[p]) = i + 2
    BY DEF LogInv, LeaveBcastB, ColCalls, InLoop
  <2>2. BcastReturns(colLog, ColWorld(p), p, <<i, p[2]>>)
    BY DEF LeaveBcastB, StageRoot, ColMember
  <2>3. Len(colLog[<<i, p[2]>>]) >= Len(colLog[p])
    BY <1>0, <2>1, <2>2 DEF BcastReturns
  <2>4. Delivered(colLog, p, ColMember(p, i)) = <<i, p[2]>>
    BY <1>0, <2>1, <2>3, ColDelivers
  <2> QED BY <2>4 DEF TypeOK, LeaveBcastB, StageRoot
<1>b. PICK b : bRecv' = [bRecv EXCEPT ![p] = b]
  BY DEF LeaveBcastB
<1>1. TypeOK'
  <2>1. <<i, p[2]>> \in Block
    BY <1>0 DEF Block, Proc
  <2>2. bRecv' \in [Proc -> Block]
    BY <1>a, <1>b, <2>1 DEF TypeOK
  <2> QED BY <1>0, <2>2 DEF TypeOK, LeaveBcastB, Stage
<1>2. StageInv' /\ BarrierInv'
  BY <1>0 DEF TypeOK, StageInv, BarrierInv, LeaveBcastB, InLoop, After
<1>3. LogInv'
  BY <1>0 DEF TypeOK, LogInv, LeaveBcastB, RowCalls, ColCalls, InLoop
<1>4. SizesInv' /\ RecvInv'
  BY <1>a, <1>b DEF TypeOK, SizesInv, RecvInv, LeaveBcastB, InLoop
<1>5. TermInv'
  BY DEF TypeOK, TermInv, LeaveBcastB
<1>6. InputsSurvive'
  BY DEF TypeOK, InputsSurvive, LeaveBcastB
<1> QED BY <1>1, <1>2, <1>3, <1>4, <1>5, <1>6

\* At stage i the local product is the term of inner index i, and the operands that
\* are the caller's own blocks are not deleted.
LEMMA MultiplyOperands ==
  ASSUME IInv, NEW p \in Proc, Multiply(p)
  PROVE  LET i == stage[p]
             left == DeleteOperands(p, aRecv[p], bRecv[p], i # RankInProcRow(p), i # RankInProcCol(p))
         IN  /\ i \in Stage
             /\ aRecv[p] = <<p[1], i>> /\ bRecv[p] = <<i, p[2]>>
             /\ HasNonzeros(aRecv[p], bRecv[p]) <=> <<p[1], i, p[2]>> \in in.prod
             /\ left.own = own[p]
             /\ left.temps \in SUBSET Temp
<1> DEFINE i == stage[p]
           dead == IF EmptyOperand(aRecv[p], bRecv[p]) THEN {}
                   ELSE (IF i # p[2] THEN {"A"} ELSE {}) \cup (IF i # p[1] THEN {"B"} ELSE {})
           left == DeleteOperands(p, aRecv[p], bRecv[p], i # RankInProcRow(p), i # RankInProcCol(p))
<1>1. i \in Stage
  BY NAssumption DEF IInv, Stage, TypeOK, StageInv, Multiply, InLoop
<1>2. aRecv[p] = <<p[1], i>> /\ bRecv[p] = <<i, p[2]>>
  BY DEF IInv, RecvInv, Multiply
<1>3. HasNonzeros(aRecv[p], bRecv[p]) <=> <<p[1], i, p[2]>> \in in.prod
  <2>1. in \in Inputs
    BY DEF IInv, TypeOK
  <2>2. ASSUME <<p[1], i, p[2]>> \in in.prod
        PROVE  <<p[1], i>> \in in.a /\ <<i, p[2]>> \in in.b
    <3> DEFINE t == <<p[1], i, p[2]>>
    <3>1. <<t[1], t[2]>> \in in.a /\ <<t[2], t[3]>> \in in.b
      BY <2>1, <2>2, InputsAssumption
    <3> QED BY <3>1
  <2> QED BY <1>2, <2>2 DEF HasNonzeros, EmptyOperand
<1>4. left = [temps |-> temps[p] \ {<<x, i>> : x \in dead},
              own |-> own[p] \ ((IF aRecv[p] = p THEN dead \cap {"A"} ELSE {})
                                  \cup (IF bRecv[p] = p THEN dead \cap {"B"} ELSE {}))]
  BY DEF DeleteOperands, RankInProcRow, RankInProcCol
<1>5. aRecv[p] = p => "A" \notin dead
  BY <1>2
<1>6. bRecv[p] = p => "B" \notin dead
  BY <1>2
<1>7. left.own = own[p]
  <2> HIDE DEF dead
  <2> QED BY <1>4, <1>5, <1>6
<1>8. left.temps \in SUBSET Temp
  <2>1. temps[p] \in SUBSET Temp
    BY DEF IInv, TypeOK
  <2> QED BY <1>4, <2>1
<1> HIDE DEF left
<1> QED BY <1>1, <1>2, <1>3, <1>7, <1>8 DEF left

\* The partial product of the stage is kept; the next stage begins or the loop ends.
LEMMA MultiplyIInv ==
  ASSUME IInv, NEW p \in Proc, Multiply(p)
  PROVE  IInv'
<1> USE DEF IInv
<1> DEFINE i == stage[p]
           left == DeleteOperands(p, aRecv[p], bRecv[p], i # RankInProcRow(p), i # RankInProcCol(p))
<1>0. /\ i \in Stage /\ i \in Int /\ i >= 0 /\ N \in Nat /\ i + 1 \in 0 .. N
      /\ i = N - 1 <=> ~ MoreStages(i + 1)
      /\ MoreStages(i + 1) => i + 1 \in Stage
  <2>1. i \in Stage
    BY MultiplyOperands
  <2> QED BY <2>1, NAssumption DEF Stage, MoreStages
<1>a. /\ aRecv[p] = <<p[1], i>> /\ bRecv[p] = <<i, p[2]>>
      /\ HasNonzeros(aRecv[p], bRecv[p]) <=> <<p[1], i, p[2]>> \in in.prod
      /\ left.own = own[p] /\ left.temps \in SUBSET Temp
  BY MultiplyOperands
<1>b. own' = own
  BY <1>a DEF Multiply, TypeOK
<1>c. /\ pc[p] = "multiply" /\ stage' = [stage EXCEPT ![p] = i + 1]
      /\ UNCHANGED <<in, colLog, aSizes, bSizes, bRecv, result>>
  BY DEF Multiply
<1>d. \/ /\ i + 1 < N /\ pc' = [pc EXCEPT ![p] = "bcastA"]
         /\ BeginStage(p, i + 1, left.temps)
      \/ /\ i + 1 = N /\ pc' = [pc EXCEPT ![p] = "merge"]
         /\ temps' = [temps EXCEPT ![p] = left.temps]
         /\ UNCHANGED <<aRecv, rowLog>>
  BY <1>0 DEF Multiply, MoreStages
<1>e. tomerge' = IF <<p[1], i, p[2]>> \in in.prod
                 THEN [tomerge EXCEPT ![p] = @ \cup {<< <<p[1], i>>, <<i, p[2]>> >>}]
                 ELSE tomerge
  BY <1>a DEF Multiply
<1> HIDE DEF left
<1>f. /\ Len(rowLog[p]) = i + 2 /\ \A n \in 1 .. Len(rowLog[p]) : rowLog[p][n] = RowCall(p, n)
      /\ Len(colLog[p]) = i + 2 /\ \A n \in 1 .. Len(colLog[p]) : colLog[p][n] = ColCall(p, n)
  BY <1>c DEF LogInv, RowCalls, ColCalls, InLoop
<1>g. /\ rowLog' \in [Proc -> Seq(Call)]
      /\ aRecv' \in [Proc -> Block]
      /\ temps' \in [Proc -> SUBSET Temp]
      /\ \A q \in Proc : q # p => rowLog'[q] = rowLog[q] /\ aRecv'[q] = aRecv[q]
      /\ Len(rowLog'[p]) = IF i + 1 < N THEN i + 3 ELSE i + 2
      /\ \A n \in 1 .. Len(rowLog'[p]) : rowLog'[p][n] = RowCall(p, n)
  <2>1. CASE i + 1 < N
    <3> DEFINE j == i + 1
    <3>1. j \in Stage /\ BeginStage(p, j, left.temps)
      BY <1>0, <1>d, <2>1 DEF Stage
    <3>2. Len(rowLog[p]) = j + 1 /\ j + 2 = i + 3
      BY <1>0, <1>f
    <3>3. TypeOK
      OBVIOUS
    <3> HIDE DEF j, IInv
    <3>4. /\ rowLog' \in [Proc -> Seq(Call)]
          /\ aRecv' \in [Proc -> Block]
          /\ temps' \in [Proc -> SUBSET Temp]
          /\ \A q \in Proc : q # p => rowLog'[q] = rowLog[q] /\ aRecv'[q] = aRecv[q]
          /\ Len(rowLog'[p]) = j + 2
          /\ \A n \in 1 .. j + 2 : rowLog'[p][n] = RowCall(p, n)
      BY <1>a, <1>f, <3>1, <3>2, <3>3, BeginStageEffect, Zenon
    <3> QED BY <2>1, <3>2, <3>4
  <2>2. CASE ~ (i + 1 < N)
    BY <1>a, <1>d, <1>f, <2>2 DEF TypeOK
  <2> QED BY <2>1, <2>2
<1>1. TypeOK'
  <2>1. tomerge' \in [Proc -> SUBSET Term]
    <3>1. {<< <<p[1], i>>, <<i, p[2]>> >>} \subseteq Term /\ tomerge[p] \subseteq Term
      BY <1>0 DEF Term, Block, Proc, TypeOK
    <3>2. PICK t \in SUBSET Term : tomerge' = tomerge \/ tomerge' = [tomerge EXCEPT ![p] = t]
      BY <1>e, <3>1
    <3> QED BY <3>2 DEF TypeOK
  <2>2. /\ stage' \in [Proc -> 0 .. N]
        /\ \A q \in Proc : stage'[q] = N => pc'[q] \in {"merge", "done"}
    BY <1>0, <1>c, <1>d DEF TypeOK
  <2>3. pc' \in [Proc -> {"start", "barrier", "sizesA", "sizesB", "bcastA", "bcastB",
                          "multiply", "merge", "done"}]
    BY <1>d DEF TypeOK
  <2> QED BY <1>b, <1>c, <1>g, <2>1, <2>2, <2>3 DEF TypeOK
<1>2. StageInv' /\ BarrierInv'
  BY <1>0, <1>c, <1>d DEF TypeOK, StageInv, BarrierInv, InLoop, After
<1>3. LogInv'
  <2>1. ASSUME NEW q \in Proc PROVE LogInv!(q)'
    <3>1. CASE q = p
      <4>1. pc'[p] = IF i + 1 < N THEN "bcastA" ELSE "merge"
        BY <1>d DEF TypeOK
      <4>2. stage'[p] = i + 1
        BY <1>c DEF TypeOK
      <4>3. Len(rowLog'[p]) = RowCalls(pc[p], stage[p])'
        BY <1>0, <1>d, <1>g, <4>1, <4>2 DEF RowCalls, InLoop
      <4>4. Len(colLog'[p]) = ColCalls(pc[p], stage[p])'
        BY <1>0, <1>c, <1>d, <1>f, <4>1, <4>2 DEF ColCalls, InLoop
      <4>5. \A n \in 1 .. Len(colLog'[p]) : colLog'[p][n] = ColCall(p, n)
        BY <1>c, <1>f
      <4> QED BY <3>1, <4>3, <4>4, <4>5, <1>g DEF RowCalls, ColCalls, RowCall, ColCall
    <3>2. CASE q # p
      <4>1. /\ pc'[q] = pc[q] /\ stage'[q] = stage[q]
            /\ rowLog'[q] = rowLog[q] /\ colLog'[q] = colLog[q]
        BY <3>2, <1>c, <1>d, <1>g DEF TypeOK
      <4>2. LogInv!(q)
        BY DEF LogInv
      <4> HIDE DEF IInv
      <4> QED BY <4>1, <4>2 DEF RowCalls, ColCalls, RowCall, ColCall
    <3> QED BY <3>1, <3>2
  <2> QED BY <2>1 DEF LogInv
<1>4. SizesInv' /\ RecvInv'
  BY <1>c, <1>d, <1>g, ZenonT(60) DEF TypeOK, SizesInv, RecvInv, InLoop
<1>5. TermInv'
  <2>1. ASSUME NEW q \in Proc PROVE TermInv!(q)'
    <3>1. CASE q = p
      <4>1. tomerge'[p] = tomerge[p] \cup (IF <<p[1], i, p[2]>> \in in.prod
                                          THEN {<< <<p[1], i>>, <<i, p[2]>> >>} ELSE {})
        BY <1>e DEF TypeOK
      <4>2. {k \in 0 .. (i + 1) - 1 : <<p[1], k, p[2]>> \in in.prod}
              = {k \in 0 .. i - 1 : <<p[1], k, p[2]>> \in in.prod}
                  \cup (IF <<p[1], i, p[2]>> \in in.prod THEN {i} ELSE {})
        BY <1>0
      <4>3. tomerge[p] = {<< <<p[1], k>>, <<k, p[2]>> >> :
                            k \in {k \in 0 .. i - 1 : <<p[1], k, p[2]>> \in in.prod}}
        BY DEF TermInv
      <4>4. tomerge'[p] = {<< <<p[1], k>>, <<k, p[2]>> >> :
                            k \in {k \in 0 .. (i + 1) - 1 : <<p[1], k, p[2]>> \in in.prod}}
        BY <4>1, <4>2, <4>3
      <4>5. stage'[p] = i + 1 /\ in' = in /\ pc'[p] # "done"
        BY <1>c, <1>d DEF TypeOK
      <4> QED BY <3>1, <4>4, <4>5
    <3>2. CASE q # p
      BY <3>2, <1>c, <1>d, <1>e, ZenonT(60) DEF TypeOK, TermInv
    <3> QED BY <3>1, <3>2
  <2> QED BY <2>1 DEF TermInv
<1>6. InputsSurvive'
  BY <1>b, <1>c, <1>d DEF TypeOK, InputsSurvive
<1> QED BY <1>1, <1>2, <1>3, <1>4, <1>5, <1>6

\* The partial products become the result, and the inputs given up are deleted.
LEMMA MergeIInv ==
  ASSUME IInv, NEW p \in Proc, Merge(p)
  PROVE  IInv'
<1> USE DEF IInv
<1>1. TypeOK'
  BY DEF TypeOK, Merge, comm
<1>2. StageInv' /\ BarrierInv'
  BY DEF TypeOK, StageInv, BarrierInv, Merge, InLoop, After
<1>3. LogInv'
  BY DEF TypeOK, LogInv, Merge, comm, RowCalls, ColCalls, RowCall, ColCall, InLoop
<1>4. SizesInv' /\ RecvInv'
  BY DEF TypeOK, SizesInv, RecvInv, Merge, InLoop
<1>5. TermInv'
  BY DEF TypeOK, TermInv, Merge
<1>6. InputsSurvive'
  BY FlagsAssumption DEF TypeOK, InputsSurvive, Merge
<1> QED BY <1>1, <1>2, <1>3, <1>4, <1>5, <1>6

-----------------------------------------------------------------------------
\* Every step of SUMMA preserves the inductive invariant.
LEMMA NextIInv == IInv /\ [Next]_vars => IInv'
<1> SUFFICES ASSUME IInv, [Next]_vars PROVE IInv'
  OBVIOUS
<1>1. ASSUME NEW p \in Proc, Step(p) PROVE IInv'
  BY <1>1, EnterIInv, LeaveBarrierIInv, LeaveSizesAIInv, LeaveSizesBIInv,
     LeaveBcastAIInv, LeaveBcastBIInv, MultiplyIInv, MergeIInv DEF Step
<1>2. CASE UNCHANGED vars
  <2> USE <1>2 DEF IInv, vars, comm
  <2>1. TypeOK'
    BY DEF TypeOK
  <2>2. StageInv' /\ BarrierInv' /\ SizesInv' /\ RecvInv' /\ TermInv' /\ InputsSurvive'
    BY DEF StageInv, BarrierInv, SizesInv, RecvInv, TermInv, InputsSurvive
  <2>3. LogInv'
    BY DEF LogInv, RowCalls, ColCalls, RowCall, ColCall
  <2> QED BY <2>1, <2>2, <2>3
<1> QED BY <1>1, <1>2 DEF Next, Terminated

\* The invariant from which the properties of SUMMA follow, for every grid, every
\* input and both timings of the broadcasts.
THEOREM SummaInvariant == Spec => []IInv
BY InitIInv, NextIInv, PTL DEF Spec

\* The types of the variables, see TypeOK.
THEOREM SummaTypes == Spec => []TypeOK
BY SummaInvariant, PTL DEF IInv

\* Calls that MPI matches with each other are the same collective with the same root,
\* on every row and every column, however far one process runs ahead of another.
THEOREM SummaCollectives == Spec => []CollectivesMatch
<1>1. IInv => CollectivesMatch
  <2> SUFFICES ASSUME IInv, NEW p \in Proc
               PROVE  /\ \A q \in RowWorld(p) : SameCalls(rowLog[p], rowLog[q])
                      /\ \A q \in ColWorld(p) : SameCalls(colLog[p], colLog[q])
    BY DEF CollectivesMatch
  <2>1. \A q \in Proc : /\ DOMAIN rowLog[q] = 1 .. Len(rowLog[q])
                        /\ DOMAIN colLog[q] = 1 .. Len(colLog[q])
    BY DEF IInv, TypeOK
  <2>2. \A q \in RowWorld(p) : SameCalls(rowLog[p], rowLog[q])
    <3> SUFFICES ASSUME NEW q \in RowWorld(p),
                        NEW n \in DOMAIN rowLog[p] \cap DOMAIN rowLog[q]
                 PROVE  /\ rowLog[p][n].op = rowLog[q][n].op
                        /\ rowLog[p][n].root = rowLog[q][n].root
      BY DEF SameCalls
    <3>1. q \in Proc
      BY DEF RowWorld
    <3>2. rowLog[p][n] = RowCall(p, n) /\ rowLog[q][n] = RowCall(q, n)
      BY <2>1, <3>1 DEF IInv, LogInv
    <3> QED BY <3>2 DEF RowCall, Gather, Bcast
  <2>3. \A q \in ColWorld(p) : SameCalls(colLog[p], colLog[q])
    <3> SUFFICES ASSUME NEW q \in ColWorld(p),
                        NEW n \in DOMAIN colLog[p] \cap DOMAIN colLog[q]
                 PROVE  /\ colLog[p][n].op = colLog[q][n].op
                        /\ colLog[p][n].root = colLog[q][n].root
      BY DEF SameCalls
    <3>1. q \in Proc
      BY DEF ColWorld
    <3>2. colLog[p][n] = ColCall(p, n) /\ colLog[q][n] = ColCall(q, n)
      BY <2>1, <3>1 DEF IInv, LogInv
    <3> QED BY <3>2 DEF ColCall, Gather, Bcast
  <2> QED BY <2>2, <2>3
<1> QED BY <1>1, SummaInvariant, PTL

\* The operands of every local product share the inner index of the stage and have
\* the sizes their receivers allocated.
THEOREM SummaOperands == Spec => []OperandsMatch
<1>1. IInv => OperandsMatch
  <2> SUFFICES ASSUME IInv, NEW p \in Proc, pc[p] = "multiply"
               PROVE  /\ aRecv[p] = <<p[1], stage[p]>> /\ aSizes[p][stage[p]] = aRecv[p]
                      /\ bRecv[p] = <<stage[p], p[2]>> /\ bSizes[p][stage[p]] = bRecv[p]
    BY DEF OperandsMatch
  <2>1. stage[p] \in Stage
    BY NAssumption DEF IInv, StageInv, TypeOK, InLoop, Stage
  <2>2. aRecv[p] = <<p[1], stage[p]>> /\ bRecv[p] = <<stage[p], p[2]>>
    BY DEF IInv, RecvInv
  <2>3. aSizes[p] = [i \in Stage |-> <<p[1], i>>] /\ bSizes[p] = [i \in Stage |-> <<i, p[2]>>]
    BY DEF IInv, SizesInv, InLoop
  <2> QED BY <2>1, <2>2, <2>3
<1> QED BY <1>1, SummaInvariant, PTL

\* The caller's blocks survive the multiplication unless the caller gave them up.
THEOREM SummaInputs == Spec => []InputsSurvive
BY SummaInvariant, PTL DEF IInv

\* SUMMA implements the safety of a collective multiplication: nobody returns before
\* everybody called it, and what a process returns is its block of the product.
THEOREM SummaRefines == Spec => Collective!Safety
<1>1. Init => Collective!Init
  <2> SUFFICES ASSUME Init PROVE Collective!Init
    OBVIOUS
  <2>1. \A p \in Proc : Wanted(p) \in SUBSET Term
    <3> SUFFICES ASSUME NEW p \in Proc, NEW k \in Stage
                 PROVE  << <<p[1], k>>, <<k, p[2]>> >> \in Term
      BY DEF Wanted
    <3>1. <<p[1], k>> \in Proc /\ <<k, p[2]>> \in Proc
      BY DEF Proc
    <3> QED BY <3>1 DEF Term, Block
  <2>2. [p \in Proc |-> Wanted(p)] \in [Proc -> SUBSET Term]
    BY <2>1
  <2> QED BY <2>2 DEF Init, Collective!Init
<1>2. IInv /\ [Next]_vars => [Collective!Next]_(Collective!vars)
  <2> DEFINE called == {p \in Proc : pc[p] # "start"}
             ret == {<<p, result[p]>> : p \in {q \in Proc : pc[q] = "done"}}
             want == [p \in Proc |-> Wanted(p)]
  <2> SUFFICES ASSUME IInv, [Next]_vars
               PROVE  [Collective!Next]_(Collective!vars)
    OBVIOUS
  <2> USE DEF IInv
  <2>1. ASSUME in' = in PROVE want' = want
    BY <2>1 DEF Wanted
  <2>2. ASSUME NEW p \in Proc, Enter(p) PROVE Collective!Call(p)
    <3>1. want' = want
      BY <2>2, <2>1 DEF Enter
    <3>2. called' = called \cup {p} /\ p \notin called
      BY <2>2 DEF Enter, TypeOK
    <3>3. ret' = ret
      BY <2>2 DEF Enter, TypeOK
    <3> QED BY <3>1, <3>2, <3>3 DEF Collective!Call
  <2>3. ASSUME NEW p \in Proc, Merge(p) PROVE Collective!Return(p)
    <3>1. want' = want
      BY <2>3, <2>1 DEF Merge
    <3>2. called' = called /\ called = Proc
      BY <2>3 DEF Merge, TypeOK, BarrierInv
    <3>3. ret' = ret \cup {<<p, result'[p]>>} /\ \A e \in ret : e[1] # p
      BY <2>3 DEF Merge, TypeOK
    <3>4. result'[p] = want[p]
      <4>1. result'[p] = tomerge[p] /\ stage[p] = N
        BY <2>3 DEF Merge, TypeOK, StageInv, After
      <4> QED BY <4>1 DEF TermInv, Wanted, Stage
    <3> QED BY <3>1, <3>2, <3>3, <3>4 DEF Collective!Return
  <2>4. ASSUME NEW p \in Proc,
               LeaveBarrier(p) \/ LeaveSizesA(p) \/ LeaveSizesB(p)
                 \/ LeaveBcastA(p) \/ LeaveBcastB(p) \/ Multiply(p)
        PROVE  UNCHANGED <<want, called, ret>>
    <3>1. in' = in /\ result' = result
      BY <2>4 DEF LeaveBarrier, LeaveSizesA, LeaveSizesB, LeaveBcastA, LeaveBcastB, Multiply
    <3>2. PICK c \in {"sizesA", "sizesB", "bcastA", "bcastB", "multiply", "merge"} :
             pc' = [pc EXCEPT ![p] = c]
      BY <2>4 DEF LeaveBarrier, LeaveSizesA, LeaveSizesB, LeaveBcastA, LeaveBcastB, Multiply
    <3>3. pc[p] \notin {"start", "done"}
      BY <2>4 DEF LeaveBarrier, LeaveSizesA, LeaveSizesB, LeaveBcastA, LeaveBcastB, Multiply
    <3>4. \A q \in Proc : /\ pc'[q] = "start" <=> pc[q] = "start"
                          /\ pc'[q] = "done" <=> pc[q] = "done"
      BY <3>2, <3>3 DEF TypeOK
    <3> QED BY <3>1, <3>4, <2>1
  <2>5. ASSUME UNCHANGED vars PROVE UNCHANGED <<want, called, ret>>
    BY <2>5, <2>1 DEF vars
  <2> QED BY <2>2, <2>3, <2>4, <2>5 DEF Next, Step, Terminated, Collective!Next, Collective!vars
<1> QED BY <1>1, <1>2, SummaInvariant, PTL DEF Spec, Collective!Safety

-----------------------------------------------------------------------------
(* Memory: TempsInv says which received blocks are allocated at every moment, those    *)
(* left behind by the stages that are over and those of the present stage.  It is      *)
(* inductive relative to IInv, which names the operands of a stage.                    *)

Receiving(p, t) ==
  \/ t[1] = "A" /\ pc[p] \in InLoop /\ stage[p] # p[2]
  \/ t[1] = "B" /\ pc[p] \in {"bcastB", "multiply"} /\ stage[p] # p[1]

Held(p, t) == \/ t[2] < stage[p] /\ t \in LeftBehind(p)
              \/ t[2] = stage[p] /\ Receiving(p, t)

TempsInv == \A p \in Proc : temps[p] = {t \in Temp : Held(p, t)}

\* What the beginning of stage i allocates.
LEMMA BeginStageTemps ==
  ASSUME NEW p \in Proc, NEW i \in Stage, NEW held, BeginStage(p, i, held)
  PROVE  temps' = [temps EXCEPT ![p] = held \cup (IF i # p[2] THEN {<<"A", i>>} ELSE {})]
BY DEF BeginStage, RankInProcRow

\* Another process's blocks are not touched.
LEMMA OthersHeld ==
  ASSUME TempsInv, NEW q \in Proc, in' = in,
         temps'[q] = temps[q], stage'[q] = stage[q],
         pc'[q] \in InLoop <=> pc[q] \in InLoop,
         pc'[q] \in {"bcastB", "multiply"} <=> pc[q] \in {"bcastB", "multiply"}
  PROVE  TempsInv!(q)'
<1>1. \A t \in Temp : Held(q, t)' <=> Held(q, t)
  BY DEF Held, Receiving, LeftBehind, EmptyOperand
<1> QED BY <1>1 DEF TempsInv

\* Nothing is held before the call.
LEMMA InitTempsInv == Init => TempsInv
<1> SUFFICES ASSUME Init, NEW p \in Proc PROVE temps[p] = {t \in Temp : Held(p, t)}
  BY DEF TempsInv
<1>1. temps[p] = {} /\ stage[p] = 0 /\ pc[p] = "start"
  BY DEF Init
<1>2. \A t \in Temp : t[2] \in Stage
  BY DEF Temp
<1> QED BY <1>1, <1>2, NAssumption DEF Held, Receiving, InLoop, Stage

\* The actions that neither allocate nor delete.
LEMMA QuietTempsInv ==
  ASSUME IInv, TempsInv, NEW p \in Proc,
         Enter(p) \/ LeaveBarrier(p) \/ LeaveSizesA(p) \/ LeaveBcastB(p) \/ Merge(p)
  PROVE  TempsInv'
<1> SUFFICES ASSUME NEW q \in Proc PROVE TempsInv!(q)'
  BY DEF TempsInv
<1>1. temps' = temps /\ stage' = stage /\ in' = in
  BY DEF Enter, LeaveBarrier, LeaveSizesA, LeaveBcastB, Merge
<1>2. /\ pc'[q] \in InLoop <=> pc[q] \in InLoop
      /\ pc'[q] \in {"bcastB", "multiply"} <=> pc[q] \in {"bcastB", "multiply"}
  BY DEF IInv, TypeOK, InLoop, Enter, LeaveBarrier, LeaveSizesA, LeaveBcastB, Merge
<1> QED BY <1>1, <1>2, OthersHeld

\* Stage 0 begins: nothing was held before, the block of A is allocated unless it is the
\* process's own.
LEMMA LeaveSizesBTempsInv ==
  ASSUME IInv, TempsInv, NEW p \in Proc, LeaveSizesB(p)
  PROVE  TempsInv'
<1> SUFFICES ASSUME NEW q \in Proc PROVE TempsInv!(q)'
  BY DEF TempsInv
<1>0. pc[p] = "sizesB" /\ stage[p] = 0 /\ stage' = stage /\ in' = in /\ 0 \in Stage
  BY NAssumption DEF LeaveSizesB, IInv, StageInv, InLoop, After, Stage
<1>1. pc' = [pc EXCEPT ![p] = "bcastA"]
  BY DEF LeaveSizesB
<1>2. temps' = [temps EXCEPT ![p] = @ \cup (IF 0 # p[2] THEN {<<"A", 0>>} ELSE {})]
  BY <1>0, BeginStageTemps DEF LeaveSizesB
<1>3. CASE q # p
  BY <1>0, <1>1, <1>2, <1>3, OthersHeld DEF IInv, TypeOK
<1>4. CASE q = p
  <2>1. \A t \in Temp : t[2] \in Stage
    BY DEF Temp
  <2>2. temps[p] = {}
    BY <1>0, <2>1, NAssumption DEF TempsInv, Held, Receiving, InLoop, Stage
  <2>3. temps'[p] = {t \in Temp : t = <<"A", 0>> /\ 0 # p[2]}
    BY <1>0, <1>2, <2>2 DEF IInv, TypeOK, Temp
  <2>4. \A t \in Temp : Held(p, t)' <=> t = <<"A", 0>> /\ 0 # p[2]
    BY <1>0, <1>1, <2>1, NAssumption DEF Held, Receiving, InLoop, IInv, TypeOK, Stage, Temp
  <2> QED BY <1>4, <2>3, <2>4
<1> QED BY <1>3, <1>4

\* The block of B is allocated unless it is the process's own.
LEMMA LeaveBcastATempsInv ==
  ASSUME IInv, TempsInv, NEW p \in Proc, LeaveBcastA(p)
  PROVE  TempsInv'
<1> SUFFICES ASSUME NEW q \in Proc PROVE TempsInv!(q)'
  BY DEF TempsInv
<1> DEFINE i == stage[p]
<1>0. pc[p] = "bcastA" /\ i \in Stage /\ stage' = stage /\ in' = in
  BY NAssumption DEF LeaveBcastA, IInv, TypeOK, StageInv, InLoop, Stage
<1>1. pc' = [pc EXCEPT ![p] = "bcastB"]
  BY DEF LeaveBcastA
<1>2. temps' = [temps EXCEPT ![p] = @ \cup (IF i # p[1] THEN {<<"B", i>>} ELSE {})]
  BY DEF LeaveBcastA, RankInProcCol, IInv, TypeOK
<1>3. CASE q # p
  BY <1>0, <1>1, <1>2, <1>3, OthersHeld DEF IInv, TypeOK
<1>4. CASE q = p
  <2>1. temps'[p] = {t \in Temp : Held(p, t) \/ (t = <<"B", i>> /\ i # p[1])}
    BY <1>0, <1>2 DEF TempsInv, IInv, TypeOK, Temp
  <2>2. pc'[p] = "bcastB" /\ stage'[p] = i
    BY <1>0, <1>1 DEF IInv, TypeOK
  <2>3. ASSUME NEW t \in Temp PROVE Held(p, t)' <=> Held(p, t) \/ (t = <<"B", i>> /\ i # p[1])
    <3>1. LeftBehind(p)' = LeftBehind(p)
      BY <1>0 DEF LeftBehind, EmptyOperand
    <3>2. Receiving(p, t)' <=> (t[1] = "A" /\ i # p[2]) \/ (t[1] = "B" /\ i # p[1])
      BY <2>2 DEF Receiving, InLoop
    <3>3. Receiving(p, t) <=> t[1] = "A" /\ i # p[2]
      BY <1>0 DEF Receiving, InLoop
    <3>4. t = <<"B", i>> <=> t[1] = "B" /\ t[2] = i
      BY <1>0 DEF Temp
    <3> QED BY <2>2, <3>1, <3>2, <3>3, <3>4 DEF Held
  <2> QED BY <1>4, <2>1, <2>3
<1> QED BY <1>3, <1>4

\* What is held after the local product: all that was held but the received operands, which
\* stay if one of the two is empty.
LEMMA MultiplyLeaves ==
  ASSUME IInv, TempsInv, NEW p \in Proc, Multiply(p)
  PROVE  LET i == stage[p]
             left == DeleteOperands(p, aRecv[p], bRecv[p], i # RankInProcRow(p), i # RankInProcCol(p))
         IN  /\ left.temps \subseteq Temp
             /\ \A t \in Temp : t \in left.temps <=> t[2] < i + 1 /\ t \in LeftBehind(p)
<1> DEFINE i == stage[p]
           dead == IF EmptyOperand(aRecv[p], bRecv[p]) THEN {}
                   ELSE (IF i # p[2] THEN {"A"} ELSE {}) \cup (IF i # p[1] THEN {"B"} ELSE {})
           left == DeleteOperands(p, aRecv[p], bRecv[p], i # RankInProcRow(p), i # RankInProcCol(p))
<1>1. /\ i \in Stage /\ i \in Nat /\ pc[p] = "multiply"
      /\ aRecv[p] = <<p[1], i>> /\ bRecv[p] = <<i, p[2]>>
  <2>1. i \in Stage /\ aRecv[p] = <<p[1], i>> /\ bRecv[p] = <<i, p[2]>>
    BY MultiplyOperands
  <2>2. pc[p] = "multiply"
    BY DEF Multiply
  <2> QED BY <2>1, <2>2, NAssumption DEF Stage
<1>2. left.temps = temps[p] \ {<<x, i>> : x \in dead}
  BY DEF DeleteOperands, RankInProcRow, RankInProcCol
<1>3. left.temps \subseteq Temp
  <2>1. temps[p] \in SUBSET Temp
    BY DEF IInv, TypeOK
  <2> QED BY <1>2, <2>1
<1>4. ASSUME NEW t \in Temp
      PROVE  t \in left.temps <=> t[2] < i + 1 /\ t \in LeftBehind(p)
  <2>1. t[1] \in {"A", "B"} /\ t[2] \in Stage /\ t[2] \in Nat /\ t = <<t[1], t[2]>>
    BY NAssumption DEF Temp, Stage
  <2>2. t \in temps[p] <=> Held(p, t)
    BY DEF TempsInv
  <2>3. t \in {<<x, i>> : x \in dead} <=> t[2] = i /\ t[1] \in dead
    <3> HIDE DEF dead
    <3> QED BY <2>1
  <2>4. CASE t[2] = i
    <3>1. t \in temps[p] <=> (t[1] = "A" /\ i # p[2]) \/ (t[1] = "B" /\ i # p[1])
      BY <1>1, <2>2, <2>4 DEF Held, Receiving, InLoop
    <3>2. t \in LeftBehind(p) <=> /\ i # (IF t[1] = "A" THEN p[2] ELSE p[1])
                                  /\ EmptyOperand(aRecv[p], bRecv[p])
      BY <1>1, <2>4 DEF LeftBehind
    <3>3. t[1] \in dead <=> /\ ~ EmptyOperand(aRecv[p], bRecv[p])
                            /\ (t[1] = "A" /\ i # p[2]) \/ (t[1] = "B" /\ i # p[1])
      OBVIOUS
    <3>4. t \in left.temps <=> t \in temps[p] /\ t[1] \notin dead
      BY <1>2, <2>3, <2>4
    <3>5. t[2] < i + 1
      BY <1>1, <2>4
    <3> QED BY <2>1, <3>1, <3>2, <3>3, <3>4, <3>5
  <2>5. CASE t[2] # i
    <3>1. t \in left.temps <=> t \in temps[p]
      BY <1>2, <2>3, <2>5
    <3>2. t \in temps[p] <=> t[2] < i /\ t \in LeftBehind(p)
      BY <2>2, <2>5 DEF Held
    <3>3. t[2] < i <=> t[2] < i + 1
      BY <1>1, <2>1, <2>5
    <3> QED BY <3>1, <3>2, <3>3
  <2> QED BY <2>4, <2>5
<1> HIDE DEF left
<1> QED BY <1>3, <1>4 DEF left

\* The stage is over, the next one allocates its block of A.
LEMMA MultiplyTempsInv ==
  ASSUME IInv, TempsInv, NEW p \in Proc, Multiply(p)
  PROVE  TempsInv'
<1> SUFFICES ASSUME NEW q \in Proc PROVE TempsInv!(q)'
  BY DEF TempsInv
<1> DEFINE i == stage[p]
           left == DeleteOperands(p, aRecv[p], bRecv[p], i # RankInProcRow(p), i # RankInProcCol(p))
<1>0. i \in Stage /\ i \in Nat /\ N \in Nat /\ in' = in /\ stage' = [stage EXCEPT ![p] = i + 1]
  <2>1. i \in Stage
    BY MultiplyOperands
  <2>2. in' = in /\ stage' = [stage EXCEPT ![p] = i + 1]
    BY DEF Multiply
  <2> QED BY <2>1, <2>2, NAssumption DEF Stage
<1>1. /\ left.temps \subseteq Temp
      /\ \A t \in Temp : t \in left.temps <=> t[2] < i + 1 /\ t \in LeftBehind(p)
  BY MultiplyLeaves
<1>2. \/ /\ i + 1 \in Stage /\ pc' = [pc EXCEPT ![p] = "bcastA"]
         /\ BeginStage(p, i + 1, left.temps)
      \/ /\ pc' = [pc EXCEPT ![p] = "merge"]
         /\ temps' = [temps EXCEPT ![p] = left.temps]
  BY <1>0 DEF Multiply, MoreStages, Stage
<1>3. pc[p] = "multiply"
  BY DEF Multiply
<1> HIDE DEF left
<1>4. PICK new \in SUBSET {<<"A", i + 1>>} :
        /\ temps' = [temps EXCEPT ![p] = left.temps \cup new]
        /\ <<"A", i + 1>> \in new <=> pc'[p] = "bcastA" /\ i + 1 # p[2]
        /\ new \subseteq Temp
        /\ \/ pc' = [pc EXCEPT ![p] = "bcastA"]
           \/ pc' = [pc EXCEPT ![p] = "merge"]
  <2>1. CASE /\ i + 1 \in Stage /\ pc' = [pc EXCEPT ![p] = "bcastA"]
             /\ BeginStage(p, i + 1, left.temps)
    <3>1. temps' = [temps EXCEPT ![p] = left.temps \cup (IF i + 1 # p[2] THEN {<<"A", i + 1>>} ELSE {})]
      BY <2>1, BeginStageTemps
    <3>2. pc'[p] = "bcastA"
      BY <2>1 DEF IInv, TypeOK
    <3>3. {<<"A", i + 1>>} \subseteq Temp
      BY <2>1 DEF Temp
    <3> QED BY <2>1, <3>1, <3>2, <3>3
  <2>2. CASE pc' = [pc EXCEPT ![p] = "merge"] /\ temps' = [temps EXCEPT ![p] = left.temps]
    <3>1. pc'[p] = "merge"
      BY <2>2 DEF IInv, TypeOK
    <3>2. temps' = [temps EXCEPT ![p] = left.temps \cup {}]
      BY <2>2
    <3> QED
      <4> WITNESS {} \in SUBSET {<<"A", i + 1>>}
      <4> QED BY <2>2, <3>1, <3>2
  <2> QED BY <1>2, <2>1, <2>2
<1>5. CASE q # p
  <2>1. temps'[q] = temps[q] /\ stage'[q] = stage[q] /\ pc'[q] = pc[q]
    BY <1>0, <1>4, <1>5 DEF IInv, TypeOK
  <2> QED BY <1>0, <2>1, OthersHeld
<1>6. CASE q = p
  <2>1. temps'[p] = left.temps \cup new /\ stage'[p] = i + 1 /\ pc'[p] \in {"bcastA", "merge"}
    BY <1>0, <1>4 DEF IInv, TypeOK
  <2>2. ASSUME NEW t \in Temp PROVE Held(p, t)' <=> t \in left.temps \/ t \in new
    <3>1. LeftBehind(p)' = LeftBehind(p)
      BY <1>0 DEF LeftBehind, EmptyOperand
    <3>2. Receiving(p, t)' <=> t[1] = "A" /\ pc'[p] = "bcastA" /\ i + 1 # p[2]
      BY <2>1 DEF Receiving, InLoop
    <3>3. t \in new <=> t[2] = i + 1 /\ t[1] = "A" /\ pc'[p] = "bcastA" /\ i + 1 # p[2]
      BY <1>4 DEF Temp
    <3> QED BY <1>1, <2>1, <3>1, <3>2, <3>3 DEF Held
  <2>3. temps'[p] \subseteq Temp
    BY <1>1, <1>4, <2>1
  <2>4. temps'[p] = {t \in Temp : Held(p, t)'}
    BY <2>1, <2>2, <2>3
  <2> QED BY <1>6, <2>4
<1> QED BY <1>5, <1>6

\* Every step of SUMMA preserves TempsInv.
LEMMA NextTempsInv == IInv /\ TempsInv /\ [Next]_vars => TempsInv'
<1> SUFFICES ASSUME IInv, TempsInv, [Next]_vars PROVE TempsInv'
  OBVIOUS
<1>1. ASSUME NEW p \in Proc, Step(p) PROVE TempsInv'
  BY <1>1, QuietTempsInv, LeaveSizesBTempsInv, LeaveBcastATempsInv, MultiplyTempsInv DEF Step
<1>2. CASE UNCHANGED vars
  <2>1. in' = in /\ temps' = temps /\ stage' = stage /\ pc' = pc
    BY <1>2 DEF vars
  <2> QED BY <2>1, OthersHeld DEF TempsInv
<1> QED BY <1>1, <1>2 DEF Next, Terminated

\* The memory a process still holds when it returns, see OnlyUnmultipliedLeft: every
\* block it received is deleted but those that met an empty operand.
THEOREM SummaMemory == Spec => []OnlyUnmultipliedLeft
<1>1. IInv /\ TempsInv => OnlyUnmultipliedLeft
  <2> SUFFICES ASSUME IInv, TempsInv, NEW p \in Proc, pc[p] = "done"
               PROVE  temps[p] = LeftBehind(p)
    BY DEF OnlyUnmultipliedLeft
  <2>1. stage[p] = N
    BY DEF IInv, StageInv, After
  <2>2. \A t \in Temp : t[2] < N /\ t[2] # N
    BY NAssumption DEF Temp, Stage
  <2>3. \A t \in Temp : Held(p, t) <=> t \in LeftBehind(p)
    BY <2>1, <2>2 DEF Held
  <2> QED BY <2>3 DEF TempsInv, LeftBehind
<1> QED BY <1>1, SummaInvariant, InitTempsInv, NextTempsInv, PTL DEF Spec
=============================================================================
