--------------------------------- MODULE TreeGather ---------------------------------
(***************************************************************************)
(* send_local_indices of the result generation: the processes of a grid    *)
(* column send their local tables to the first one along a binary tree,    *)
(* with point-to-point messages, each receiver merging what it gets into   *)
(* its own table.  It is called once per matrix of a query, one call right *)
(* after another and all with the same tag.                                *)
(*                                                                         *)
(* A table is a sequence of pairs <<row, column>> sorted by column.        *)
(***************************************************************************)
EXTENDS Integers, Sequences, FiniteSets

CONSTANTS ColNeighs,  \* colneighs, the number of processes of the column
          Calls,      \* number of calls in a row
          Tables      \* the tables considered: functions from processes to tables

ColRank == 0 .. ColNeighs - 1

ASSUME TreeGatherAssumption ==
  /\ ColNeighs \in Nat \ {0} /\ Calls \in Nat \ {0}
  /\ Tables \subseteq [ColRank -> Seq(Int \X Int)]
  /\ \A t \in Tables : \A r \in ColRank :
       \A i, j \in DOMAIN t[r] : i < j => t[r][i][2] <= t[r][j][2]

VARIABLES eager,         \* TRUE: MPI_Send returns at once; FALSE: when the message is received
          input,         \* input[c], the tables of call c
          call,          \* the call a process is in
          pc,
          round,         \* p in the code: 2, 4, 8, ...
          local,         \* local_indices
          number_count,  \* number_count, in pairs
          chan,          \* chan[s][r], the messages from s that r has not received
          gathered       \* gathered[r][c], local_indices of r after call c

vars == <<eager, input, call, pc, round, local, number_count, chan, gathered>>

Sends(r, p) == r % p = p \div 2
Receiver(r, p) == r - p \div 2
Receives(r, p) == r % p = 0 /\ r + p \div 2 < ColNeighs
Sender(r, p) == r + p \div 2

\* merge_local_vectors on the column.  After k pairs FromFirst(s, t)[k] of them are from
\* the first table, which wins a tie.
FromFirst(s, t) ==
  LET i[k \in 0 .. Len(s) + Len(t)] ==
        IF k = 0 THEN 0
        ELSE IF i[k - 1] < Len(s) /\ (k - 1 - i[k - 1] < Len(t) => s[i[k - 1] + 1][2] <= t[k - i[k - 1]][2])
             THEN i[k - 1] + 1 ELSE i[k - 1]
  IN i

MergeAppended(s, t) == s \o t
Merge(s, t) ==
  LET i == FromFirst(s, t)
  IN [k \in 1 .. Len(s) + Len(t) |-> IF i[k] = i[k - 1] THEN t[k - i[k]] ELSE s[i[k]]]

Goto(r, label) == pc' = [pc EXCEPT ![r] = label]

\* The tree goes on while p <= colneighs.
MoreRoundsTooFew(p) == p < ColNeighs
MoreRoundsTooMany(p) == p <= 2 * ColNeighs
MoreRounds(p) == p <= ColNeighs

Init ==
  /\ eager \in BOOLEAN
  /\ input \in [1 .. Calls -> Tables]
  /\ call = [r \in ColRank |-> 1]
  /\ pc = [r \in ColRank |-> "round"]
  /\ round = [r \in ColRank |-> 2]
  /\ local = [r \in ColRank |-> input[1][r]]
  /\ number_count = [r \in ColRank |-> 0]
  /\ chan = [s \in ColRank |-> [r \in ColRank |-> <<>>]]
  /\ gathered = [r \in ColRank |-> <<>>]

Put(r, msg) ==
  chan' = [chan EXCEPT ![r][Receiver(r, round[r])] = Append(@, msg)]
\* A send has returned.
Returned(r) == eager \/ chan[r][Receiver(r, round[r])] = <<>>

CountStale(r) == number_count[r]
Count(r) == Len(local[r])

SendCount(r) ==
  /\ pc[r] = "round" /\ MoreRounds(round[r]) /\ Sends(r, round[r])
  /\ number_count' = [number_count EXCEPT ![r] = Count(r)]
  /\ Put(r, Count(r))
  /\ Goto(r, "countSent")
  /\ UNCHANGED <<eager, input, call, round, local, gathered>>

SendData(r) ==
  /\ pc[r] = "countSent" /\ Returned(r)
  /\ Put(r, local[r])
  /\ Goto(r, "dataSent")
  /\ UNCHANGED <<eager, input, call, round, local, number_count, gathered>>

NextRound(r) == round' = [round EXCEPT ![r] = 2 * @]

DataReturned(r) ==
  /\ pc[r] = "dataSent" /\ Returned(r)
  /\ NextRound(r)
  /\ Goto(r, "round")
  /\ UNCHANGED <<eager, input, call, local, number_count, chan, gathered>>

Arrived(r) == chan[Sender(r, round[r])][r]
Take(r) == chan' = [chan EXCEPT ![Sender(r, round[r])][r] = Tail(@)]

RecvCount(r) ==
  /\ pc[r] = "round" /\ MoreRounds(round[r]) /\ Receives(r, round[r])
  /\ Arrived(r) # <<>>
  /\ number_count' = [number_count EXCEPT ![r] = Head(Arrived(r))]
  /\ Take(r)
  /\ Goto(r, "counted")
  /\ UNCHANGED <<eager, input, call, round, local, gathered>>

RecvData(r) ==
  /\ pc[r] = "counted" /\ Arrived(r) # <<>>
  /\ local' = [local EXCEPT ![r] = Merge(@, Head(Arrived(r)))]
  /\ Take(r)
  /\ NextRound(r)
  /\ Goto(r, "round")
  /\ UNCHANGED <<eager, input, call, number_count, gathered>>

\* A process with nothing to do in a round.
Skip(r) ==
  /\ pc[r] = "round" /\ MoreRounds(round[r])
  /\ ~Sends(r, round[r]) /\ ~Receives(r, round[r])
  /\ NextRound(r)
  /\ UNCHANGED <<eager, input, call, pc, local, number_count, chan, gathered>>

\* The call returns; the next one gets the indices of the next matrix.
Return(r) ==
  /\ pc[r] = "round" /\ ~MoreRounds(round[r])
  /\ gathered' = [gathered EXCEPT ![r] = Append(@, local[r])]
  /\ IF call[r] < Calls
     THEN /\ call' = [call EXCEPT ![r] = @ + 1]
          /\ local' = [local EXCEPT ![r] = input[call[r] + 1][r]]
          /\ round' = [round EXCEPT ![r] = 2]
          /\ UNCHANGED pc
     ELSE Goto(r, "done") /\ UNCHANGED <<call, local, round>>
  /\ UNCHANGED <<eager, input, number_count, chan>>

Step(r) == SendCount(r) \/ SendData(r) \/ DataReturned(r) \/ RecvCount(r) \/ RecvData(r)
           \/ Skip(r) \/ Return(r)
Terminated == (\A r \in ColRank : pc[r] = "done") /\ UNCHANGED vars
Next == (\E r \in ColRank : Step(r)) \/ Terminated
Spec == Init /\ [][Next]_vars

-----------------------------------------------------------------------------
(* Correctness. *)

Pairs(tables) == UNION {{tables[r][i] : i \in DOMAIN tables[r]} : r \in ColRank}
Times(table, pair) == Cardinality({i \in DOMAIN table : table[i] = pair})
\* How often the processes below k have the pair between them, for every k.
TimesBelow(tables, pair) ==
  LET sum[k \in 0 .. ColNeighs] == IF k = 0 THEN 0 ELSE sum[k - 1] + Times(tables[k - 1], pair)
  IN sum

\* The powers of two, from 1 to more than the number of processes.
Powers ==
  LET power[k \in 0 .. ColNeighs] == IF k = 0 THEN 1 ELSE 2 * power[k - 1]
  IN {power[k] : k \in 0 .. ColNeighs}

\* The types of the variables.  The rounds double until they pass the number of processes,
\* a table has nothing but pairs of its call, and no more messages are under way than the
\* two of every call.
TypeOK ==
  /\ eager \in BOOLEAN /\ input \in [1 .. Calls -> Tables] /\ call \in [ColRank -> 1 .. Calls]
  /\ pc \in [ColRank -> {"round", "countSent", "dataSent", "counted", "done"}]
  /\ \A r \in ColRank : round[r] \in {2 * h : h \in Powers} /\ round[r] <= 2 * ColNeighs
  /\ \A r \in ColRank : \A i \in DOMAIN local[r] : local[r][i] \in Pairs(input[call[r]])
  /\ \A s, r \in ColRank : Len(chan[s][r]) <= 2 * Calls

\* When the first process of the column returns from a call it has the pairs of all
\* processes of the column in that call, each as often as they had it, and none of
\* another call, however far ahead the senders are ("each process send its local
\* indices to first process in current column", magiqScal.h:251).
FirstHasAll ==
  \A c \in DOMAIN gathered[0] :
    /\ \A i \in DOMAIN gathered[0][c] : gathered[0][c][i] \in Pairs(input[c])
    /\ \A pair \in Pairs(input[c]) : Times(gathered[0][c], pair) = TimesBelow(input[c], pair)[ColNeighs]

\* The table stays sorted by column through every merge: the joins that follow depend
\* on it (local_join compares the heads of its tables only).
StaysSorted ==
  \A r \in ColRank : \A i, j \in DOMAIN local[r] : i < j => local[r][i][2] <= local[r][j][2]

\* A receiver that has received a count finds next, from the same sender, the table with
\* so many pairs: the two messages of a pair of sends are never mixed with those of
\* another round or call.
CountFitsTable ==
  \A r \in ColRank : pc[r] = "counted" /\ Arrived(r) # <<>> => Len(Head(Arrived(r))) = number_count[r]
=============================================================================
