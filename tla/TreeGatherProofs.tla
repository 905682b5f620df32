------------------------------ MODULE TreeGatherProofs ------------------------------
(***************************************************************************)
(* The gather, for every number of processes, calls and tables and both    *)
(* kinds of sends.                                                         *)
(*                                                                         *)
(* First, its messages are never mixed up, although all of them have the   *)
(* same tag.  A sender may be whole calls ahead of its receiver; what      *)
(* holds is said of a channel, of whether its sender has yet to send the   *)
(* table of its last count, and of whether its receiver has yet to take    *)
(* the table of the last count that it took (IInv).                        *)
(*                                                                         *)
(* Then, that tables stay sorted and that nothing is lost or added: what a *)
(* merge has, which ranks meet in a round, and how many messages are under *)
(* way between them, which tells of what call the next one is (GatherInv). *)
(***************************************************************************)
EXTENDS TreeGather, CommonProofs

\* Counts and tables alternate.  With expects = 1 the receiver has taken count and the channel
\* begins with the table, with owes = 1 the channel ends with the count of a table of size.
Alternates(c, expects, owes, count, size) ==
  /\ IsSequence(c)
  /\ (Len(c) + expects + owes) % 2 = 0
  /\ \A k \in 1 .. Len(c) - 1 : (k + expects) % 2 = 1 => Len(c[k + 1]) = c[k]
  /\ owes = 1 /\ Len(c) > 0 => c[Len(c)] = size
  /\ expects = 1 /\ Len(c) > 0 => Len(c[1]) = count
  /\ expects = 1 /\ Len(c) = 0 => count = size

Expects(s, r) == IF pc[r] = "counted" /\ Sender(r, round[r]) = s THEN 1 ELSE 0
Owes(s, r) == IF pc[s] = "countSent" /\ Receiver(s, round[s]) = r THEN 1 ELSE 0

Domains ==
  /\ DOMAIN pc = ColRank /\ DOMAIN round = ColRank /\ DOMAIN local = ColRank
  /\ DOMAIN number_count = ColRank /\ DOMAIN chan = ColRank
  /\ \A s \in ColRank : DOMAIN chan[s] = ColRank
  /\ \A r \in ColRank : round[r] \in Nat /\ round[r] >= 2

\* Messages go to a rank of the column.
Partners == \A r \in ColRank :
  /\ pc[r] \in {"countSent", "dataSent"} => Receiver(r, round[r]) \in ColRank
  /\ pc[r] = "counted" => Sender(r, round[r]) \in ColRank

ChannelInv == \A s, r \in ColRank :
  Alternates(chan[s][r], Expects(s, r), Owes(s, r), number_count[r], Len(local[s]))

IInv == Domains /\ Partners /\ ChannelInv

-----------------------------------------------------------------------------
(* What the four messages of a pair of sends and receives do to a channel. *)

\* A count is sent when the channel is in order.
LEMMA CountSent ==
  ASSUME NEW c, NEW expects \in {0, 1}, NEW count, NEW size, NEW any,
         Alternates(c, expects, 0, count, any)
  PROVE  Alternates(Append(c, size), expects, 1, count, size)
BY Appended DEF Alternates

\* Its table follows.
LEMMA TableSent ==
  ASSUME NEW c, NEW expects \in {0, 1}, NEW count, NEW t, NEW any,
         Alternates(c, expects, 1, count, Len(t))
  PROVE  Alternates(Append(c, t), expects, 0, count, any)
BY Appended DEF Alternates

\* What a receiver takes first is a count.
LEMMA CountTaken ==
  ASSUME NEW c, NEW owes \in {0, 1}, NEW any, NEW size,
         Alternates(c, 0, owes, any, size), c # <<>>
  PROVE  Alternates(Tail(c), 1, owes, Head(c), size)
BY Taken DEF Alternates

\* What it takes then is the table.
LEMMA TableTaken ==
  ASSUME NEW c, NEW owes \in {0, 1}, NEW count, NEW size, NEW any,
         Alternates(c, 1, owes, count, size), c # <<>>
  PROVE  Len(Head(c)) = count /\ Alternates(Tail(c), 0, owes, any, size)
BY Taken DEF Alternates

\* The last count taken matters only to those who expect a table, the size of the sender's own
\* table only if it owes it.
LEMMA Unconcerned ==
  ASSUME NEW c, NEW expects \in {0, 1}, NEW owes \in {0, 1}, NEW count, NEW size,
         NEW newCount, NEW newSize, Alternates(c, expects, owes, count, size),
         expects = 1 => newCount = count, owes = 1 => newSize = size
  PROVE  Alternates(c, expects, owes, newCount, newSize)
BY DEF Alternates, IsSequence

\* The bits are bits.
LEMMA Bits == \A s, r : Expects(s, r) \in {0, 1} /\ Owes(s, r) \in {0, 1}
BY DEF Expects, Owes

-----------------------------------------------------------------------------
(* Every step keeps the invariant. *)

\* Where a rank sends to and receives from in its round.
LEMMA PartnersInColumn ==
  ASSUME NEW r \in ColRank, NEW p \in Nat, p >= 2
  PROVE  /\ Sends(r, p) => Receiver(r, p) \in ColRank /\ Receiver(r, p) # r
         /\ Receives(r, p) => Sender(r, p) \in ColRank /\ Sender(r, p) # r
<1>1. r \in Nat /\ r < ColNeighs /\ ColNeighs \in Nat
  BY TreeGatherAssumption DEF ColRank
<1>2. p \div 2 \in Nat /\ p \div 2 >= 1
  OBVIOUS
<1>3. Receives(r, p) => Sender(r, p) \in ColRank /\ Sender(r, p) # r
  BY <1>1, <1>2 DEF Receives, Sender, ColRank
<1>4. r % p \in Nat /\ r % p <= r
  BY <1>1
<1>5. Sends(r, p) => Receiver(r, p) \in ColRank /\ Receiver(r, p) # r
  BY <1>1, <1>2, <1>4 DEF Sends, Receiver, ColRank
<1> QED BY <1>3, <1>5

\* Before the first round nothing is on the way.
LEMMA InitIInv == Init => IInv
<1> SUFFICES ASSUME Init PROVE IInv
  OBVIOUS
<1>1. Domains
  BY DEF Init, Domains
<1>2. Partners
  BY DEF Init, Partners
<1>3. ChannelInv
  <2> SUFFICES ASSUME NEW s \in ColRank, NEW r \in ColRank
               PROVE  Alternates(chan[s][r], Expects(s, r), Owes(s, r), number_count[r], Len(local[s]))
    BY DEF ChannelInv
  <2>1. chan[s][r] = <<>> /\ Expects(s, r) = 0 /\ Owes(s, r) = 0
    BY DEF Init, Expects, Owes
  <2>2. IsSequence(<<>>)
    BY DEF IsSequence
  <2> QED BY <2>1, <2>2 DEF Alternates
<1> QED BY <1>1, <1>2, <1>3 DEF IInv

\* A step that puts nothing on a channel and takes nothing off it, and after which a rank that
\* still owes or expects a table has the same one and the same count.
LEMMA OtherChannels ==
  ASSUME IInv, NEW s \in ColRank, NEW r \in ColRank,
         chan'[s][r] = chan[s][r], Expects(s, r)' = Expects(s, r), Owes(s, r)' = Owes(s, r),
         Expects(s, r) = 1 => number_count'[r] = number_count[r],
         Owes(s, r) = 1 => Len(local'[s]) = Len(local[s])
  PROVE  Alternates(chan'[s][r], Expects(s, r)', Owes(s, r)', number_count'[r], Len(local'[s]))
<1>1. Alternates(chan[s][r], Expects(s, r), Owes(s, r), number_count[r], Len(local[s]))
  BY DEF IInv, ChannelInv
<1>2. Expects(s, r) \in {0, 1} /\ Owes(s, r) \in {0, 1}
  BY Bits
<1>3. Alternates(chan[s][r], Expects(s, r), Owes(s, r), number_count'[r], Len(local'[s]))
  BY <1>1, <1>2, Unconcerned
<1> QED BY <1>3

\* The count of its table, to the receiver of the round.
LEMMA SendCountIInv ==
  ASSUME IInv, NEW r \in ColRank, SendCount(r)
  PROVE  IInv'
<1> DEFINE to == Receiver(r, round[r])
<1>1. to \in ColRank /\ to # r
  BY PartnersInColumn DEF IInv, Domains, SendCount
<1>2. Domains'
  BY DEF IInv, Domains, SendCount, Put, Goto
<1>3. Partners'
  BY <1>1 DEF IInv, Domains, Partners, SendCount, Goto
<1>4. /\ pc[r] = "round" /\ pc'[r] = "countSent" /\ round' = round /\ local' = local
      /\ \A q \in ColRank : q # r => pc'[q] = pc[q] /\ number_count'[q] = number_count[q]
      /\ chan'[r][to] = Append(chan[r][to], Len(local[r]))
      /\ \A s, q \in ColRank : s # r \/ q # to => chan'[s][q] = chan[s][q]
  BY <1>1 DEF IInv, Domains, SendCount, Put, Goto, Count
<1>5. ASSUME NEW s \in ColRank, NEW q \in ColRank
      PROVE  Alternates(chan'[s][q], Expects(s, q)', Owes(s, q)', number_count'[q], Len(local'[s]))
  <2>1. CASE s = r /\ q = to
    <3>1. Alternates(chan[r][to], Expects(r, to), 0, number_count[to], Len(local[r]))
      BY <1>1, <1>4 DEF IInv, ChannelInv, Owes
    <3>2. Alternates(Append(chan[r][to], Len(local[r])), Expects(r, to), 1, number_count[to], Len(local[r]))
      BY <3>1, Bits, CountSent
    <3>3. Expects(r, to)' = Expects(r, to) /\ Owes(r, to)' = 1
      BY <1>1, <1>4 DEF Expects, Owes
    <3> QED BY <1>1, <1>4, <2>1, <3>2, <3>3
  <2>2. CASE ~ (s = r /\ q = to)
    <3>1. Expects(s, q)' = Expects(s, q) /\ Owes(s, q)' = Owes(s, q)
      BY <1>4, <2>2 DEF Expects, Owes
    <3>2. Expects(s, q) = 1 => number_count'[q] = number_count[q]
      BY <1>4 DEF Expects
    <3> QED BY <1>4, <2>2, <3>1, <3>2, OtherChannels
  <2> QED BY <2>1, <2>2
<1>6. ChannelInv'
  BY <1>5 DEF ChannelInv
<1> QED BY <1>2, <1>3, <1>6 DEF IInv

\* The table.
LEMMA SendDataIInv ==
  ASSUME IInv, NEW r \in ColRank, SendData(r)
  PROVE  IInv'
<1> DEFINE to == Receiver(r, round[r])
<1>1. to \in ColRank
  BY DEF IInv, Partners, SendData
<1>2. Domains'
  BY DEF IInv, Domains, SendData, Put, Goto
<1>3. Partners'
  BY <1>1 DEF IInv, Domains, Partners, SendData, Goto
<1>4. /\ pc[r] = "countSent" /\ pc'[r] = "dataSent" /\ round' = round /\ local' = local
      /\ number_count' = number_count
      /\ \A q \in ColRank : q # r => pc'[q] = pc[q]
      /\ chan'[r][to] = Append(chan[r][to], local[r])
      /\ \A s, q \in ColRank : s # r \/ q # to => chan'[s][q] = chan[s][q]
  BY <1>1 DEF IInv, Domains, SendData, Put, Goto
<1>5. ASSUME NEW s \in ColRank, NEW q \in ColRank
      PROVE  Alternates(chan'[s][q], Expects(s, q)', Owes(s, q)', number_count'[q], Len(local'[s]))
  <2>0. Expects(s, q)' = Expects(s, q)
    BY <1>4 DEF Expects
  <2>1. CASE s = r /\ q = to
    <3>1. Alternates(chan[r][to], Expects(r, to), 1, number_count[to], Len(local[r]))
      BY <1>1, <1>4 DEF IInv, ChannelInv, Owes
    <3>2. Alternates(Append(chan[r][to], local[r]), Expects(r, to), 0, number_count[to], Len(local[r]))
      BY <3>1, Bits, TableSent
    <3>3. Owes(r, to)' = 0
      BY <1>4 DEF Owes
    <3> QED BY <1>4, <2>0, <2>1, <3>2, <3>3
  <2>2. CASE ~ (s = r /\ q = to)
    <3>1. Owes(s, q)' = Owes(s, q)
      BY <1>4, <2>2 DEF Owes
    <3> QED BY <1>4, <2>0, <2>2, <3>1, OtherChannels
  <2> QED BY <2>1, <2>2
<1>6. ChannelInv'
  BY <1>5 DEF ChannelInv
<1> QED BY <1>2, <1>3, <1>6 DEF IInv

\* The count, from the sender of the round.
LEMMA RecvCountIInv ==
  ASSUME IInv, NEW r \in ColRank, RecvCount(r)
  PROVE  IInv'
<1> DEFINE from == Sender(r, round[r])
<1>1. from \in ColRank /\ from # r
  BY PartnersInColumn DEF IInv, Domains, RecvCount
<1>2. Domains'
  BY DEF IInv, Domains, RecvCount, Take, Goto
<1>3. Partners'
  BY <1>1 DEF IInv, Domains, Partners, RecvCount, Goto
<1>4. /\ pc[r] = "round" /\ pc'[r] = "counted" /\ round' = round /\ local' = local
      /\ \A q \in ColRank : q # r => pc'[q] = pc[q] /\ number_count'[q] = number_count[q]
      /\ number_count'[r] = Head(chan[from][r]) /\ chan[from][r] # <<>>
      /\ chan'[from][r] = Tail(chan[from][r])
      /\ \A s, q \in ColRank : s # from \/ q # r => chan'[s][q] = chan[s][q]
  BY <1>1 DEF IInv, Domains, RecvCount, Take, Goto, Arrived
<1>5. ASSUME NEW s \in ColRank, NEW q \in ColRank
      PROVE  Alternates(chan'[s][q], Expects(s, q)', Owes(s, q)', number_count'[q], Len(local'[s]))
  <2>0. Owes(s, q)' = Owes(s, q)
    BY <1>4 DEF Owes
  <2>1. CASE s = from /\ q = r
    <3>1. Alternates(chan[from][r], 0, Owes(from, r), number_count[r], Len(local[from]))
      BY <1>1, <1>4 DEF IInv, ChannelInv, Expects
    <3>2. Alternates(Tail(chan[from][r]), 1, Owes(from, r), Head(chan[from][r]), Len(local[from]))
      BY <1>4, <3>1, Bits, CountTaken
    <3>3. Expects(from, r)' = 1
      BY <1>4 DEF Expects
    <3> QED BY <1>4, <2>0, <2>1, <3>2, <3>3
  <2>2. CASE ~ (s = from /\ q = r)
    <3>1. Expects(s, q)' = Expects(s, q)
      BY <1>4, <2>2 DEF Expects
    <3>2. Expects(s, q) = 1 => number_count'[q] = number_count[q]
      BY <1>4 DEF Expects
    <3> QED BY <1>4, <2>0, <2>2, <3>1, <3>2, OtherChannels
  <2> QED BY <2>1, <2>2
<1>6. ChannelInv'
  BY <1>5 DEF ChannelInv
<1> QED BY <1>2, <1>3, <1>6 DEF IInv

\* The table, which is merged into the receiver's.
LEMMA RecvDataIInv ==
  ASSUME IInv, NEW r \in ColRank, RecvData(r)
  PROVE  IInv'
<1> DEFINE from == Sender(r, round[r])
<1>1. from \in ColRank
  BY DEF IInv, Partners, RecvData
<1>2. Domains'
  BY DEF IInv, Domains, RecvData, Take, Goto, NextRound
<1>3. Partners'
  BY DEF IInv, Domains, Partners, RecvData, Goto, NextRound
<1>4. /\ pc[r] = "counted" /\ pc'[r] = "round" /\ number_count' = number_count
      /\ \A q \in ColRank : q # r => pc'[q] = pc[q] /\ round'[q] = round[q] /\ local'[q] = local[q]
      /\ chan[from][r] # <<>> /\ chan'[from][r] = Tail(chan[from][r])
      /\ \A s, q \in ColRank : s # from \/ q # r => chan'[s][q] = chan[s][q]
  BY <1>1 DEF IInv, Domains, RecvData, Take, Goto, NextRound, Arrived
<1>5. ASSUME NEW s \in ColRank, NEW q \in ColRank
      PROVE  Alternates(chan'[s][q], Expects(s, q)', Owes(s, q)', number_count'[q], Len(local'[s]))
  <2>0. Owes(s, q)' = Owes(s, q) /\ (Owes(s, q) = 1 => local'[s] = local[s])
    BY <1>4 DEF Owes
  <2>1. CASE s = from /\ q = r
    <3>1. Alternates(chan[from][r], 1, Owes(from, r), number_count[r], Len(local[from]))
      BY <1>1, <1>4 DEF IInv, ChannelInv, Expects
    <3>2. Alternates(Tail(chan[from][r]), 0, Owes(from, r), number_count[r], Len(local[from]))
      BY <1>4, <3>1, Bits, TableTaken
    <3>3. Alternates(Tail(chan[from][r]), 0, Owes(from, r), number_count[r], Len(local'[from]))
      BY <2>0, <2>1, <3>2, Bits, Unconcerned
    <3>4. Expects(s, q)' = 0
      BY <1>4, <2>1 DEF Expects
    <3> QED BY <1>4, <2>0, <2>1, <3>3, <3>4
  <2>2. CASE ~ (s = from /\ q = r)
    <3>1. Expects(s, q)' = Expects(s, q)
      BY <1>4, <2>2 DEF Expects
    <3> QED BY <1>4, <2>0, <2>2, <3>1, OtherChannels
  <2> QED BY <2>1, <2>2
<1>6. ChannelInv'
  BY <1>5 DEF ChannelInv
<1> QED BY <1>2, <1>3, <1>6 DEF IInv

\* Steps of a rank that neither owes nor expects a table, before or after, and that leave
\* the channels alone: the next round, the end of a call and the beginning of the next one.
LEMMA QuietIInv ==
  ASSUME IInv, NEW r \in ColRank, Domains', chan' = chan, number_count' = number_count,
         pc[r] \in {"round", "dataSent"}, pc'[r] \in {"round", "done"},
         \A q \in ColRank : q # r => pc'[q] = pc[q] /\ round'[q] = round[q] /\ local'[q] = local[q]
  PROVE  IInv'
<1>1. Partners'
  BY DEF IInv, Partners
<1>2. ASSUME NEW s \in ColRank, NEW q \in ColRank
      PROVE  Alternates(chan'[s][q], Expects(s, q)', Owes(s, q)', number_count'[q], Len(local'[s]))
  <2>1. /\ Owes(s, q)' = Owes(s, q) /\ (Owes(s, q) = 1 => local'[s] = local[s])
        /\ Expects(s, q)' = Expects(s, q)
    BY DEF Owes, Expects
  <2> QED BY <2>1, OtherChannels
<1>3. ChannelInv'
  BY <1>2 DEF ChannelInv
<1> QED BY <1>1, <1>3 DEF IInv

\* The next-state relation, a lemma for each of its actions.
LEMMA NextIInv == IInv /\ [Next]_vars => IInv'
<1> SUFFICES ASSUME IInv, [Next]_vars PROVE IInv'
  OBVIOUS
<1>1. ASSUME NEW r \in ColRank, Step(r) PROVE IInv'
  <2>1. CASE SendCount(r)
    BY <2>1, SendCountIInv
  <2>2. CASE SendData(r)
    BY <2>2, SendDataIInv
  <2>3. CASE RecvCount(r)
    BY <2>3, RecvCountIInv
  <2>4. CASE RecvData(r)
    BY <2>4, RecvDataIInv
  <2>5. CASE DataReturned(r)
    <3>1. Domains'
      BY <2>5 DEF IInv, Domains, DataReturned, Goto, NextRound
    <3> QED BY <2>5, <3>1, QuietIInv DEF IInv, Domains, DataReturned, Goto, NextRound
  <2>6. CASE Skip(r)
    <3>1. Domains'
      BY <2>6 DEF IInv, Domains, Skip, NextRound
    <3> QED BY <2>6, <3>1, QuietIInv DEF IInv, Domains, Skip, NextRound
  <2>7. CASE Return(r)
    <3>1. Domains'
      BY <2>7 DEF IInv, Domains, Return, Goto
    <3> QED BY <2>7, <3>1, QuietIInv DEF IInv, Domains, Return, Goto
  <2> QED BY <1>1, <2>1, <2>2, <2>3, <2>4, <2>5, <2>6, <2>7 DEF Step
<1>2. CASE UNCHANGED vars
  BY <1>2 DEF vars, IInv, Domains, Partners, ChannelInv, Expects, Owes
<1> QED BY <1>1, <1>2 DEF Next, Terminated

\* Whatever is on the way to it, a receiver that has taken a count finds next, from the same
\* sender, the table with so many pairs (send_local_indices): no receive takes a message of
\* another round or call, however many of them have been sent.
THEOREM GatherUnmixed == Spec => []CountFitsTable
<1>1. Init => IInv
  BY InitIInv
<1>2. IInv /\ [Next]_vars => IInv'
  BY NextIInv
<1>3. IInv => CountFitsTable
  <2> SUFFICES ASSUME IInv, NEW r \in ColRank, pc[r] = "counted", Arrived(r) # <<>>
               PROVE  Len(Head(Arrived(r))) = number_count[r]
    BY DEF CountFitsTable
  <2> DEFINE from == Sender(r, round[r])
  <2>1. from \in ColRank
    BY DEF IInv, Partners
  <2>2. Alternates(chan[from][r], 1, Owes(from, r), number_count[r], Len(local[from]))
    BY <2>1 DEF IInv, ChannelInv, Expects
  <2> QED BY <2>2, Bits, TableTaken DEF Arrived
<1> QED BY <1>1, <1>2, <1>3, PTL DEF Spec

-----------------------------------------------------------------------------
(* Merging two tables. *)

\* A table whose columns are numbers in ascending order.
IsTable(t) ==
  /\ IsSequence(t)
  /\ \A i \in 1 .. Len(t) : t[i][2] \in Int
  /\ \A i, j \in 1 .. Len(t) : i < j => t[i][2] <= t[j][2]

\* The k-th pair is taken from the first table, of which i have been taken.
TakesFirst(s, t, k, i) == i < Len(s) /\ (k - 1 - i < Len(t) => s[i + 1][2] <= t[k - i][2])

\* How many pairs have been taken from the first table: the definition is a good one, and
\* neither table is read past its end (merge_local_vectors).
LEMMA FromFirstRight ==
  ASSUME NEW s, NEW t, Len(s) \in Nat, Len(t) \in Nat
  PROVE  LET f == FromFirst(s, t)
             n == Len(s) + Len(t)
         IN /\ \A k \in 0 .. n : f[k] \in Nat /\ f[k] <= Len(s) /\ f[k] <= k /\ k - f[k] <= Len(t)
            /\ f[0] = 0
            /\ \A k \in 1 .. n : f[k] = IF TakesFirst(s, t, k, f[k - 1]) THEN f[k - 1] + 1 ELSE f[k - 1]
<1> DEFINE f == FromFirst(s, t)
           n == Len(s) + Len(t)
           F == [k \in 1 .. n |-> [i \in Nat |-> IF TakesFirst(s, t, k, i) THEN i + 1 ELSE i]]
           Body(g) == [k \in 0 .. n |->
                         IF k = 0 THEN 0
                         ELSE IF g[k - 1] < Len(s) /\ (k - 1 - g[k - 1] < Len(t) => s[g[k - 1] + 1][2] <= t[k - g[k - 1]][2])
                              THEN g[k - 1] + 1 ELSE g[k - 1]]
<1>1. n \in Nat /\ 0 \in Nat
  OBVIOUS
<1>2. F \in [1 .. n -> [Nat -> Nat]]
  OBVIOUS
<1>3. PICK g : Follows(g, n, Nat, 0, F)
  <2> HIDE DEF F, n
  <2> QED BY <1>1, <1>2, PrimitiveRecursion, Zenon
<1>4. \A k \in 1 .. n : g[k] = IF TakesFirst(s, t, k, g[k - 1]) THEN g[k - 1] + 1 ELSE g[k - 1]
  <2> SUFFICES ASSUME NEW k \in 1 .. n
               PROVE  g[k] = IF TakesFirst(s, t, k, g[k - 1]) THEN g[k - 1] + 1 ELSE g[k - 1]
    OBVIOUS
  <2>1. g[k - 1] \in Nat
    BY <1>3 DEF Follows
  <2> QED BY <1>3, <2>1 DEF Follows
<1>5. g = Body(g)
  BY <1>3, <1>4 DEF TakesFirst, Follows
<1>6. f = CHOOSE h : h = Body(h)
  BY DEF FromFirst
<1>7. f = Body(f)
  <2>1. \E h : h = Body(h)
    <3> HIDE DEF Body
    <3> QED BY <1>5, Zenon
  <2> QED BY <1>6, <2>1, Zenon
<1>8. f[0] = 0 /\ \A k \in 1 .. n : f[k] = IF TakesFirst(s, t, k, f[k - 1]) THEN f[k - 1] + 1 ELSE f[k - 1]
  <2> HIDE DEF f
  <2>1. f[0] = 0
    BY <1>1, <1>7
  <2>2. ASSUME NEW k \in 1 .. n
        PROVE  f[k] = IF TakesFirst(s, t, k, f[k - 1]) THEN f[k - 1] + 1 ELSE f[k - 1]
    <3>1. k \in 0 .. n /\ k # 0
      OBVIOUS
    <3>2. Body(f)[k] = IF TakesFirst(s, t, k, f[k - 1]) THEN f[k - 1] + 1 ELSE f[k - 1]
      BY <3>1 DEF TakesFirst
    <3> HIDE DEF Body
    <3> QED BY <1>7, <3>2, Zenon
  <2> QED BY <2>1, <2>2
<1> HIDE DEF f, F, Body
<1> DEFINE S == {k \in 0 .. n : f[k] \in Nat /\ f[k] <= Len(s) /\ f[k] <= k /\ k - f[k] <= Len(t)}
<1>9. 0 \in S
  BY <1>8
<1>10. ASSUME NEW k \in 0 .. n - 1, k \in S PROVE k + 1 \in S
  <2>1. k + 1 \in 1 .. n /\ (k + 1) - 1 = k
    OBVIOUS
  <2>2. f[k + 1] = IF TakesFirst(s, t, k + 1, f[k]) THEN f[k] + 1 ELSE f[k]
    BY <1>8, <2>1
  <2>3. f[k] \in Nat /\ f[k] <= Len(s) /\ f[k] <= k /\ k - f[k] <= Len(t)
    BY <1>10
  <2>4. TakesFirst(s, t, k + 1, f[k]) => f[k] < Len(s)
    BY DEF TakesFirst
  <2>5. ~ TakesFirst(s, t, k + 1, f[k]) => f[k] >= Len(s) \/ k - f[k] < Len(t)
    BY <2>1, <2>3 DEF TakesFirst
  <2> QED BY <2>1, <2>2, <2>3, <2>4, <2>5
<1>11. 0 .. n \subseteq S
  <2> HIDE DEF S, n
  <2> QED BY <1>1, <1>9, <1>10, BoundedInduction
<1> QED BY <1>8, <1>11 DEF f

\* How many of the first k elements of a sequence are x.
Among(t, k, x) == Cardinality({i \in 1 .. k : t[i] = x})

\* One more if the next one is.
LEMMA AmongNext ==
  ASSUME NEW t, NEW x, NEW k \in Nat
  PROVE  /\ Among(t, k, x) \in Nat
         /\ Among(t, k + 1, x) = IF t[k + 1] = x THEN Among(t, k, x) + 1 ELSE Among(t, k, x)
<1> DEFINE A == {i \in 1 .. k : t[i] = x}
           B == {i \in 1 .. k + 1 : t[i] = x}
<1>1. A \in SUBSET (1 .. k) /\ IsFiniteSet(1 .. k)
  BY FS_Interval
<1>2. IsFiniteSet(A)
  <2> HIDE DEF A
  <2> QED BY <1>1, FS_Subset
<1>3. Cardinality(A) \in Nat
  BY <1>2, FS_CardinalityType
<1>4. k + 1 \notin A
  OBVIOUS
<1>5. CASE t[k + 1] = x
  <2>1. B = A \cup {k + 1}
    BY <1>5
  <2>2. Cardinality(A \cup {k + 1}) = Cardinality(A) + 1
    <3> HIDE DEF A
    <3> QED BY <1>2, <1>4, FS_AddElement
  <2> QED BY <1>3, <1>5, <2>1, <2>2 DEF Among
<1>6. CASE t[k + 1] # x
  <2>1. B = A
    BY <1>6
  <2> QED BY <1>3, <1>6, <2>1 DEF Among
<1> QED BY <1>5, <1>6

\* There is nothing before the beginning.
LEMMA AmongNone == \A t, x : Among(t, 0, x) = 0
<1> SUFFICES ASSUME NEW t, NEW x PROVE Among(t, 0, x) = 0
  OBVIOUS
<1>1. {i \in 1 .. 0 : t[i] = x} = {}
  OBVIOUS
<1> QED BY <1>1, FS_EmptySet DEF Among

\* All of a sequence.
LEMMA TimesAmong ==
  ASSUME NEW t, IsSequence(t), NEW x
  PROVE  Times(t, x) = Among(t, Len(t), x) /\ Times(t, x) \in Nat
<1>1. DOMAIN t = 1 .. Len(t) /\ Len(t) \in Nat
  BY DEF IsSequence
<1>2. Times(t, x) = Among(t, Len(t), x)
  BY <1>1 DEF Times, Among
<1>3. Among(t, Len(t), x) \in Nat
  BY <1>1, AmongNext
<1> QED BY <1>2, <1>3

\* A step of the merge: the next pair is the next one of the first table or of the second.
LEMMA MergeStep ==
  ASSUME NEW s, NEW t, IsSequence(s), IsSequence(t)
  PROVE  LET f == FromFirst(s, t)
             n == Len(s) + Len(t)
             m == Merge(s, t)
         IN /\ n \in Nat /\ Len(m) = n /\ IsSequence(m)
            /\ \A k \in 0 .. n : f[k] \in Nat /\ f[k] <= Len(s) /\ f[k] <= k /\ k - f[k] <= Len(t)
            /\ f[0] = 0
            /\ \A k \in 0 .. n - 1 :
                 /\ k \in Nat /\ k \in 0 .. n /\ k + 1 \in 1 .. n
                 /\ f[k + 1] = IF TakesFirst(s, t, k + 1, f[k]) THEN f[k] + 1 ELSE f[k]
                 /\ \/ f[k + 1] = f[k] + 1 /\ f[k] + 1 \in 1 .. Len(s) /\ m[k + 1] = s[f[k] + 1]
                    \/ f[k + 1] = f[k] /\ k + 1 - f[k] \in 1 .. Len(t) /\ m[k + 1] = t[k + 1 - f[k]]
<1> DEFINE f == FromFirst(s, t)
           n == Len(s) + Len(t)
           m == Merge(s, t)
<1>1. Len(s) \in Nat /\ Len(t) \in Nat /\ n \in Nat
  BY DEF IsSequence
<1>2. /\ \A k \in 0 .. n : f[k] \in Nat /\ f[k] <= Len(s) /\ f[k] <= k /\ k - f[k] <= Len(t)
      /\ f[0] = 0
      /\ \A k \in 1 .. n : f[k] = IF TakesFirst(s, t, k, f[k - 1]) THEN f[k - 1] + 1 ELSE f[k - 1]
  BY <1>1, FromFirstRight
<1> HIDE DEF f
<1>3. m = [k \in 1 .. n |-> IF f[k] = f[k - 1] THEN t[k - f[k]] ELSE s[f[k]]]
  BY DEF Merge, f
<1> HIDE DEF m, n
<1>4. Len(m) = n /\ IsSequence(m)
  <2> DEFINE S == {m[k] : k \in 1 .. n}
  <2>1. m \in [1 .. n -> S]
    BY <1>3
  <2> HIDE DEF S
  <2>2. m \in Seq(S) /\ Len(m) = n
    BY <1>1, <2>1
  <2> QED BY <2>2, TypedIsSequence
<1>5. ASSUME NEW k \in 0 .. n - 1
      PROVE  /\ k \in Nat /\ k \in 0 .. n /\ k + 1 \in 1 .. n
             /\ f[k + 1] = IF TakesFirst(s, t, k + 1, f[k]) THEN f[k] + 1 ELSE f[k]
             /\ \/ f[k + 1] = f[k] + 1 /\ f[k] + 1 \in 1 .. Len(s) /\ m[k + 1] = s[f[k] + 1]
                \/ f[k + 1] = f[k] /\ k + 1 - f[k] \in 1 .. Len(t) /\ m[k + 1] = t[k + 1 - f[k]]
  <2>1. k \in 0 .. n /\ k + 1 \in 0 .. n /\ k + 1 \in 1 .. n /\ (k + 1) - 1 = k /\ k \in Nat
    BY <1>1
  <2>2. f[k + 1] = IF TakesFirst(s, t, k + 1, f[k]) THEN f[k] + 1 ELSE f[k]
    BY <1>2, <2>1
  <2>3. f[k] \in Nat /\ f[k + 1] \in Nat /\ f[k] <= k /\ f[k + 1] <= Len(s) /\ k + 1 - f[k + 1] <= Len(t)
    BY <1>2, <2>1
  <2>4. m[k + 1] = IF f[k + 1] = f[k] THEN t[k + 1 - f[k + 1]] ELSE s[f[k + 1]]
    <3>1. \A j \in 1 .. n : m[j] = IF f[j] = f[j - 1] THEN t[j - f[j]] ELSE s[f[j]]
      BY <1>3
    <3>2. \A j \in 1 .. n, i \in 0 .. n :
             j - 1 = i => m[j] = IF f[j] = f[i] THEN t[j - f[j]] ELSE s[f[j]]
      BY <3>1
    <3> QED BY <2>1, <2>3, <3>2
  <2>5. CASE f[k + 1] = f[k] + 1
    BY <1>1, <2>1, <2>2, <2>3, <2>4, <2>5, SMTT(30)
  <2>6. CASE f[k + 1] = f[k]
    BY <1>1, <2>1, <2>2, <2>3, <2>4, <2>6, SMTT(30)
  <2> QED BY <2>2, <2>5, <2>6
<1> QED BY <1>1, <1>2, <1>4, <1>5 DEF f, m, n

\* A merge is a sequence of pairs of the two tables, each as often as both have it.
LEMMA MergeHasBoth ==
  ASSUME NEW s, NEW t, IsSequence(s), IsSequence(t)
  PROVE  LET m == Merge(s, t)
         IN /\ IsSequence(m)
            /\ \A k \in 1 .. Len(m) : (\E i \in 1 .. Len(s) : m[k] = s[i]) \/ (\E i \in 1 .. Len(t) : m[k] = t[i])
            /\ \A x : Times(m, x) = Times(s, x) + Times(t, x)
<1> DEFINE f == FromFirst(s, t)
           n == Len(s) + Len(t)
           m == Merge(s, t)
<1>1. Len(s) \in Nat /\ Len(t) \in Nat /\ n \in Nat
  BY DEF IsSequence
<1>2. /\ Len(m) = n /\ IsSequence(m)
      /\ \A k \in 0 .. n : f[k] \in Nat /\ f[k] <= Len(s) /\ f[k] <= k /\ k - f[k] <= Len(t)
      /\ f[0] = 0
  BY MergeStep
<1>5. \A k \in 0 .. n - 1 :
        /\ k \in Nat /\ k \in 0 .. n /\ k + 1 \in 1 .. n
        /\ \/ f[k + 1] = f[k] + 1 /\ f[k] + 1 \in 1 .. Len(s) /\ m[k + 1] = s[f[k] + 1]
           \/ f[k + 1] = f[k] /\ k + 1 - f[k] \in 1 .. Len(t) /\ m[k + 1] = t[k + 1 - f[k]]
  BY MergeStep
<1> HIDE DEF f, m, n
<1>6. ASSUME NEW k \in 1 .. n
      PROVE  (\E i \in 1 .. Len(s) : m[k] = s[i]) \/ (\E i \in 1 .. Len(t) : m[k] = t[i])
  <2>1. k - 1 \in 0 .. n - 1 /\ (k - 1) + 1 = k
    BY <1>1
  <2> QED BY <1>5, <2>1
<1>7. ASSUME NEW x PROVE Times(m, x) = Times(s, x) + Times(t, x)
  <2> DEFINE S == {k \in 0 .. n : Among(m, k, x) = Among(s, f[k], x) + Among(t, k - f[k], x)}
  <2>1. 0 \in S
    BY <1>1, <1>2, AmongNone
  <2>2. ASSUME NEW k \in 0 .. n - 1, k \in S PROVE k + 1 \in S
    <3>1. /\ k \in Nat /\ k \in 0 .. n /\ k + 1 \in 0 .. n /\ f[k] \in Nat /\ k - f[k] \in Nat
          /\ f[k + 1] \in Nat
      BY <1>1, <1>2, <1>5
    <3>2. Among(m, k, x) = Among(s, f[k], x) + Among(t, k - f[k], x)
      BY <2>2
    <3>3. /\ Among(m, k, x) \in Nat /\ Among(s, f[k], x) \in Nat /\ Among(t, k - f[k], x) \in Nat
          /\ Among(m, k + 1, x) = IF m[k + 1] = x THEN Among(m, k, x) + 1 ELSE Among(m, k, x)
      BY <3>1, AmongNext
    <3>4. CASE f[k + 1] = f[k] + 1 /\ m[k + 1] = s[f[k] + 1]
      <4>1. Among(s, f[k] + 1, x) = IF s[f[k] + 1] = x THEN Among(s, f[k], x) + 1 ELSE Among(s, f[k], x)
        BY <3>1, AmongNext
      <4>2. k + 1 - f[k + 1] = k - f[k]
        BY <3>1, <3>4
      <4>3. Among(m, k + 1, x) = Among(s, f[k + 1], x) + Among(t, k + 1 - f[k + 1], x)
        BY <3>2, <3>3, <3>4, <4>1, <4>2
      <4> QED BY <3>1, <4>3
    <3>5. CASE f[k + 1] = f[k] /\ m[k + 1] = t[k + 1 - f[k]]
      <4> DEFINE j == k - f[k]
      <4>1. Among(t, j + 1, x) = IF t[j + 1] = x THEN Among(t, j, x) + 1 ELSE Among(t, j, x)
        BY <3>1, AmongNext
      <4>2. k + 1 - f[k + 1] = j + 1 /\ m[k + 1] = t[j + 1]
        BY <3>1, <3>5
      <4>3. Among(m, k + 1, x) = Among(s, f[k + 1], x) + Among(t, k + 1 - f[k + 1], x)
        BY <3>2, <3>3, <3>5, <4>1, <4>2
      <4> QED BY <3>1, <4>3
    <3> QED BY <1>5, <3>4, <3>5
  <2>3. 0 .. n \subseteq S
    <3> HIDE DEF S
    <3> QED BY <1>1, <2>1, <2>2, BoundedInduction
  <2>4. n \in S /\ f[n] = Len(s) /\ n - f[n] = Len(t)
    BY <1>1, <1>2, <2>3 DEF n
  <2>5. Among(m, n, x) = Among(s, Len(s), x) + Among(t, Len(t), x)
    BY <2>4
  <2> QED BY <1>2, <2>5, TimesAmong
<1> QED BY <1>2, <1>6, <1>7 DEF m

\* A merge of two tables is a table: it stays sorted by column.
LEMMA MergeSorted ==
  ASSUME NEW s, NEW t, IsTable(s), IsTable(t)
  PROVE  IsTable(Merge(s, t))
<1> DEFINE f == FromFirst(s, t)
           n == Len(s) + Len(t)
           m == Merge(s, t)
<1>1. Len(s) \in Nat /\ Len(t) \in Nat /\ n \in Nat /\ IsSequence(s) /\ IsSequence(t)
  BY DEF IsTable, IsSequence
<1>2. /\ Len(m) = n /\ IsSequence(m)
      /\ \A k \in 0 .. n : f[k] \in Nat /\ f[k] <= Len(s) /\ f[k] <= k /\ k - f[k] <= Len(t)
      /\ f[0] = 0
      /\ \A k \in 0 .. n - 1 :
           /\ k \in Nat /\ k \in 0 .. n /\ k + 1 \in 1 .. n
           /\ f[k + 1] = IF TakesFirst(s, t, k + 1, f[k]) THEN f[k] + 1 ELSE f[k]
           /\ \/ f[k + 1] = f[k] + 1 /\ f[k] + 1 \in 1 .. Len(s) /\ m[k + 1] = s[f[k] + 1]
              \/ f[k + 1] = f[k] /\ k + 1 - f[k] \in 1 .. Len(t) /\ m[k + 1] = t[k + 1 - f[k]]
  BY <1>1, MergeStep
<1> HIDE DEF f, m, n
<1>3. \A i \in 1 .. Len(s) : s[i][2] \in Int /\ \A j \in 1 .. Len(s) : i < j => s[i][2] <= s[j][2]
  BY DEF IsTable
<1>4. \A i \in 1 .. Len(t) : t[i][2] \in Int /\ \A j \in 1 .. Len(t) : i < j => t[i][2] <= t[j][2]
  BY DEF IsTable
\* What has been appended is not greater than what is next in either table.
<1>5. ASSUME NEW k \in 0 .. n - 1
      PROVE  /\ m[k + 1][2] \in Int
             /\ f[k + 1] + 1 \in 1 .. Len(s) => m[k + 1][2] <= s[f[k + 1] + 1][2]
             /\ k + 2 - f[k + 1] \in 1 .. Len(t) => m[k + 1][2] <= t[k + 2 - f[k + 1]][2]
  <2> DEFINE i == f[k]
             j == k - f[k]
  <2>1. i \in Nat /\ j \in Nat /\ k \in Nat /\ i <= Len(s) /\ j <= Len(t)
    BY <1>2
  <2>2. TakesFirst(s, t, k + 1, i) <=> i < Len(s) /\ (j < Len(t) => s[i + 1][2] <= t[j + 1][2])
    <3>1. (k + 1) - 1 - i = j /\ (k + 1) - i = j + 1
      BY <2>1
    <3> QED BY <3>1 DEF TakesFirst
  <2>3. f[k + 1] = IF TakesFirst(s, t, k + 1, i) THEN i + 1 ELSE i
    BY <1>2
  <2>4. \/ f[k + 1] = i + 1 /\ i + 1 \in 1 .. Len(s) /\ m[k + 1] = s[i + 1]
        \/ f[k + 1] = i /\ j + 1 \in 1 .. Len(t) /\ m[k + 1] = t[j + 1]
    <3>1. k + 1 - f[k] = j + 1
      BY <2>1
    <3>2. \/ f[k + 1] = i + 1 /\ i + 1 \in 1 .. Len(s) /\ m[k + 1] = s[i + 1]
          \/ f[k + 1] = i /\ k + 1 - f[k] \in 1 .. Len(t) /\ m[k + 1] = t[k + 1 - f[k]]
      BY <1>2
    <3> QED BY <3>1, <3>2
  <2> HIDE DEF i, j
  <2>5. k + 2 - (i + 1) = j + 1 /\ k + 2 - i = j + 2
    BY <2>1 DEF i, j
  <2>6. CASE f[k + 1] = i + 1
    <3>1. i + 1 \in 1 .. Len(s) /\ m[k + 1] = s[i + 1] /\ TakesFirst(s, t, k + 1, i)
      BY <2>1, <2>3, <2>4, <2>6
    <3>2. i + 2 \in 1 .. Len(s) => s[i + 1][2] <= s[i + 2][2]
      BY <1>3, <2>1, <3>1
    <3>3. j + 1 \in 1 .. Len(t) => s[i + 1][2] <= t[j + 1][2]
      BY <1>1, <2>1, <2>2, <3>1
    <3>4. f[k + 1] + 1 = i + 2 /\ k + 2 - f[k + 1] = j + 1
      BY <2>1, <2>5, <2>6
    <3> QED BY <1>3, <3>1, <3>2, <3>3, <3>4
  <2>7. CASE f[k + 1] = i
    <3>1. j + 1 \in 1 .. Len(t) /\ m[k + 1] = t[j + 1] /\ ~ TakesFirst(s, t, k + 1, i)
      BY <2>1, <2>3, <2>4, <2>7
    <3>2. j + 2 \in 1 .. Len(t) => t[j + 1][2] <= t[j + 2][2]
      BY <1>4, <2>1, <3>1
    <3>3. i + 1 \in 1 .. Len(s) => t[j + 1][2] <= s[i + 1][2]
      <4>1. i + 1 \in 1 .. Len(s) => s[i + 1][2] \in Int /\ t[j + 1][2] \in Int
        BY <1>3, <1>4, <3>1
      <4> QED BY <1>1, <2>1, <2>2, <3>1, <4>1
    <3>4. k + 2 - f[k + 1] = j + 2
      BY <2>1, <2>5, <2>7
    <3> QED BY <1>4, <2>7, <3>1, <3>2, <3>3, <3>4
  <2> QED BY <2>4, <2>6, <2>7
<1>6. \A k \in 1 .. n : m[k][2] \in Int
  <2> SUFFICES ASSUME NEW k \in 1 .. n PROVE m[k][2] \in Int
    OBVIOUS
  <2>1. k - 1 \in 0 .. n - 1 /\ (k - 1) + 1 = k
    BY <1>1
  <2> QED BY <1>5, <2>1
<1>7. ASSUME NEW k \in 1 .. n - 1 PROVE m[k][2] <= m[k + 1][2]
  <2>1. k - 1 \in 0 .. n - 1 /\ (k - 1) + 1 = k /\ (k - 1) + 2 = k + 1 /\ k \in 0 .. n - 1
    BY <1>1
  <2>2. /\ f[k] + 1 \in 1 .. Len(s) => m[k][2] <= s[f[k] + 1][2]
        /\ k + 1 - f[k] \in 1 .. Len(t) => m[k][2] <= t[k + 1 - f[k]][2]
    <3> DEFINE j == k - 1
    <3>1. j \in 0 .. n - 1 /\ j + 1 = k /\ j + 2 = k + 1
      BY <2>1
    <3> HIDE DEF j
    <3>2. /\ f[j + 1] + 1 \in 1 .. Len(s) => m[j + 1][2] <= s[f[j + 1] + 1][2]
          /\ j + 2 - f[j + 1] \in 1 .. Len(t) => m[j + 1][2] <= t[j + 2 - f[j + 1]][2]
      BY <1>5, <3>1
    <3>3. f[k] \in Nat
      BY <1>1, <1>2
    <3>4. f[j + 1] = f[k] /\ m[j + 1] = m[k] /\ j + 2 - f[k] = k + 1 - f[k]
      BY <3>1, <3>3
    <3> QED BY <3>2, <3>4, Zenon
  <2> QED BY <1>2, <2>1, <2>2
<1>8. ASSUME NEW i \in 1 .. n PROVE \A j \in 1 .. n : i < j => m[i][2] <= m[j][2]
  <2> DEFINE S == {d \in 0 .. n - i : m[i][2] <= m[i + d][2]}
  <2>1. n - i \in Nat
    BY <1>1
  <2>2. 0 \in S
    BY <1>6, <2>1
  <2>3. ASSUME NEW d \in 0 .. n - i - 1, d \in S PROVE d + 1 \in S
    <3>1. i + d \in 1 .. n - 1 /\ i + (d + 1) = (i + d) + 1 /\ i + d \in 1 .. n /\ i + (d + 1) \in 1 .. n
      BY <1>1
    <3>2. m[i][2] <= m[i + d][2] /\ m[i + d][2] <= m[i + (d + 1)][2]
      BY <1>7, <2>3, <3>1
    <3>3. m[i][2] <= m[i + (d + 1)][2]
      BY <1>6, <3>1, <3>2
    <3> QED BY <1>1, <3>3
  <2>4. 0 .. n - i \subseteq S
    <3> HIDE DEF S
    <3> DEFINE e == n - i
    <3>1. e \in Nat /\ \A d \in 0 .. e - 1 : d \in S => d + 1 \in S
      BY <2>1, <2>3
    <3> HIDE DEF e
    <3>2. 0 .. e \subseteq S
      BY <2>2, <3>1, BoundedInduction
    <3> QED BY <3>2 DEF e
  <2>5. ASSUME NEW j \in 1 .. n, i < j PROVE m[i][2] <= m[j][2]
    <3>1. j - i \in 0 .. n - i /\ i + (j - i) = j
      BY <1>1, <2>5
    <3>2. j - i \in S
      BY <2>4, <3>1
    <3> QED BY <3>1, <3>2
  <2> QED BY <2>5
<1> QED BY <1>2, <1>6, <1>8 DEF IsTable, m

-----------------------------------------------------------------------------
(* Rounds: powers of two, and who takes part in which. *)

\* A process with a table in a round sends it, receives or keeps it in the next one.
LEMMA Halves ==
  ASSUME NEW r \in Nat, NEW h \in Nat \ {0}
  PROVE  /\ r % h = 0 <=> r % (2 * h) \in {0, h}
         /\ r % (2 * h) = h => r - h \in Nat /\ (r - h) % (2 * h) = 0
         /\ r % (2 * h) = 0 => (r + h) % (2 * h) = h
<1>1. 2 * h \in Nat \ {0}
  OBVIOUS
<1>2. PICK q \in Nat, e \in 0 .. 2 * h - 1 : r = q * (2 * h) + e /\ r % (2 * h) = e
  BY <1>1, Divided
<1> DEFINE d == 2 * q
<1>3. q * (2 * h) = d * h /\ (d + 1) * h = d * h + h /\ d \in Nat /\ d * h \in Nat
  OBVIOUS
<1>4. CASE e < h
  <2>1. e \in 0 .. h - 1 /\ r = d * h + e
    BY <1>2, <1>3, <1>4
  <2>2. r % h = e
    <3> HIDE DEF d
    <3> QED BY <1>3, <2>1, Remainder
  <2> QED BY <1>2, <1>4, <2>2
<1>5. CASE e >= h
  <2>1. e - h \in 0 .. h - 1 /\ r = (d + 1) * h + (e - h) /\ d + 1 \in Nat
    BY <1>2, <1>3, <1>5
  <2>2. r % h = e - h
    <3> HIDE DEF d
    <3> DEFINE a == d + 1
               b == e - h
    <3>1. a \in Nat /\ b \in 0 .. h - 1 /\ r = a * h + b
      BY <2>1
    <3> HIDE DEF a, b
    <3>2. r % h = b
      BY <3>1, Remainder
    <3> QED BY <3>2 DEF b
  <2>3. e = h => r - h = q * (2 * h) + 0 /\ r - h \in Nat
    BY <1>2, <1>3
  <2>4. (q * (2 * h) + 0) % (2 * h) = 0
    BY <1>1, Remainder
  <2> QED BY <1>2, <1>5, <2>2, <2>3, <2>4
<1> QED BY <1>4, <1>5

\* The powers of two double and have nothing between a power and its double.
LEMMA PowersRight ==
  /\ Powers \subseteq Nat \ {0} /\ 1 \in Powers
  /\ \A h \in Powers : h <= ColNeighs => 2 * h \in Powers
  /\ \A g, h \in Powers : g < h => 2 * g <= h
<1> DEFINE n == ColNeighs
           F == [k \in 1 .. n |-> [i \in Nat |-> 2 * i]]
           Body(g) == [k \in 0 .. n |-> IF k = 0 THEN 1 ELSE 2 * g[k - 1]]
           p == CHOOSE g : g = Body(g)
<1>1. n \in Nat /\ 1 \in Nat /\ 0 \in Nat
  BY TreeGatherAssumption
<1>2. F \in [1 .. n -> [Nat -> Nat]]
  OBVIOUS
<1>3. PICK g : Follows(g, n, Nat, 1, F)
  <2> HIDE DEF F, n
  <2> QED BY <1>1, <1>2, PrimitiveRecursion, Zenon
<1>4. g = Body(g)
  <2>1. g \in [0 .. n -> Nat] /\ g[0] = 1 /\ \A k \in 1 .. n : g[k] = F[k][g[k - 1]]
    BY <1>3 DEF Follows
  <2>2. ASSUME NEW k \in 1 .. n PROVE g[k] = 2 * g[k - 1]
    <3>1. g[k - 1] \in Nat
      BY <1>1, <2>1
    <3> QED BY <2>1, <3>1
  <2> QED BY <1>1, <2>1, <2>2
<1>5. p = Body(p)
  <2> HIDE DEF Body
  <2> QED BY <1>4
<1>6. Powers = {p[k] : k \in 0 .. n}
  BY DEF Powers
<1> HIDE DEF p, n
<1>7. p[0] = 1 /\ \A k \in 0 .. n - 1 : p[k + 1] = 2 * p[k]
  <2>1. p[0] = 1
    BY <1>1, <1>5
  <2>2. ASSUME NEW k \in 0 .. n - 1 PROVE p[k + 1] = 2 * p[k]
    <3>1. k + 1 \in 0 .. n /\ k + 1 # 0 /\ (k + 1) - 1 = k
      BY <1>1
    <3>2. \A j \in 0 .. n : p[j] = IF j = 0 THEN 1 ELSE 2 * p[j - 1]
      BY <1>5
    <3> QED BY <3>1, <3>2
  <2> QED BY <2>1, <2>2
<1> HIDE DEF F, Body
\* They grow faster than the numbers.
<1>8. \A k \in 0 .. n : p[k] \in Nat /\ p[k] > k
  <2> DEFINE S == {k \in 0 .. n : p[k] \in Nat /\ p[k] > k}
  <2>1. 0 \in S
    BY <1>1, <1>7
  <2>2. ASSUME NEW k \in 0 .. n - 1, k \in S PROVE k + 1 \in S
    BY <1>1, <1>7, <2>2
  <2>3. 0 .. n \subseteq S
    <3> HIDE DEF S
    <3> QED BY <1>1, <2>1, <2>2, BoundedInduction
  <2> QED BY <2>3
<1>9. ASSUME NEW i \in 0 .. n, NEW j \in 0 .. n, i < j PROVE 2 * p[i] <= p[j]
  <2> DEFINE e == n - i - 1
             S == {d \in 0 .. e : 2 * p[i] <= p[i + 1 + d]}
  <2>1. e \in Nat /\ i \in 0 .. n - 1 /\ i + 1 + 0 = i + 1
    BY <1>1, <1>9
  <2>2. 0 \in S
    <3>1. p[i + 1] = 2 * p[i] /\ p[i] \in Nat
      BY <1>7, <1>8, <2>1
    <3>2. 2 * p[i] <= p[i + 1 + 0]
      BY <2>1, <3>1
    <3> QED BY <2>1, <3>2
  <2>3. ASSUME NEW d \in 0 .. e - 1, d \in S PROVE d + 1 \in S
    <3>1. i + 1 + d \in 0 .. n - 1 /\ i + 1 + d \in 0 .. n /\ i + 1 + (d + 1) = (i + 1 + d) + 1 /\ d + 1 \in 0 .. e
      BY <1>1, <2>1
    <3>2. p[i + 1 + (d + 1)] = 2 * p[i + 1 + d] /\ p[i + 1 + d] \in Nat /\ p[i] \in Nat
      BY <1>7, <1>8, <3>1
    <3>3. 2 * p[i] <= p[i + 1 + d]
      BY <2>3
    <3>4. 2 * p[i] <= p[i + 1 + (d + 1)]
      BY <3>2, <3>3
    <3> QED BY <3>1, <3>4
  <2>4. 0 .. e \subseteq S
    <3> HIDE DEF S, e
    <3> QED BY <2>1, <2>2, <2>3, BoundedInduction
  <2>5. j - i - 1 \in 0 .. e /\ i + 1 + (j - i - 1) = j
    BY <1>1, <1>9
  <2>6. j - i - 1 \in S
    BY <2>4, <2>5
  <2> QED BY <2>5, <2>6
<1>10. Powers \subseteq Nat \ {0} /\ 1 \in Powers
  BY <1>1, <1>6, <1>7, <1>8
<1>11. ASSUME NEW h \in Powers, h <= ColNeighs PROVE 2 * h \in Powers
  <2>1. PICK k \in 0 .. n : h = p[k]
    BY <1>6
  <2>2. k \in 0 .. n - 1
    BY <1>1, <1>8, <1>11, <2>1 DEF n
  <2>3. p[k + 1] = 2 * h /\ k + 1 \in 0 .. n
    BY <1>1, <1>7, <2>1, <2>2
  <2> QED BY <1>6, <2>3
<1>12. ASSUME NEW e \in Powers, NEW h \in Powers, e < h PROVE 2 * e <= h
  <2>1. PICK i \in 0 .. n, j \in 0 .. n : e = p[i] /\ h = p[j]
    BY <1>6
  <2>2. CASE i < j
    BY <1>9, <2>1, <2>2
  <2>3. CASE j <= i
    <3>1. p[j] <= p[i]
      <4>1. CASE j < i
        <5>1. 2 * p[j] <= p[i] /\ p[j] \in Nat /\ p[i] \in Nat
          BY <1>8, <1>9, <4>1
        <5> QED BY <5>1
      <4>2. CASE j = i
        BY <1>8, <4>2
      <4> QED BY <1>1, <2>3, <4>1, <4>2
    <3>2. p[i] \in Nat /\ p[j] \in Nat
      BY <1>8
    <3> QED BY <1>12, <2>1, <3>1, <3>2
  <2> QED BY <1>1, <2>2, <2>3
<1> QED BY <1>10, <1>11, <1>12
\* The sum over the processes below each one: the definition is a good one, and adds what
\* each of them has.
LEMMA TimesBelowRight ==
  ASSUME NEW tables, \A r \in ColRank : IsSequence(tables[r]), NEW pair
  PROVE  LET b == TimesBelow(tables, pair)
         IN /\ b[0] = 0 /\ \A k \in 0 .. ColNeighs : b[k] \in Nat
            /\ \A r \in ColRank : b[r + 1] = b[r] + Times(tables[r], pair)
<1> DEFINE n == ColNeighs
           add == [k \in 1 .. n |-> Times(tables[k - 1], pair)]
           F == [k \in 1 .. n |-> [i \in Nat |-> i + add[k]]]
           Body(g) == [k \in 0 .. n |-> IF k = 0 THEN 0 ELSE g[k - 1] + Times(tables[k - 1], pair)]
           b == TimesBelow(tables, pair)
<1>1. n \in Nat /\ 0 \in Nat /\ ColRank = 0 .. n - 1
  BY TreeGatherAssumption DEF ColRank
<1>2. F \in [1 .. n -> [Nat -> Nat]]
  <2>1. \A k \in 1 .. n : add[k] \in Nat
    <3> SUFFICES ASSUME NEW k \in 1 .. n PROVE add[k] \in Nat
      OBVIOUS
    <3>1. k - 1 \in ColRank
      BY <1>1
    <3>2. Times(tables[k - 1], pair) \in Nat
      BY <3>1, TimesAmong
    <3> QED BY <3>2
  <2> HIDE DEF add
  <2> QED BY <2>1
<1>3. PICK g : Follows(g, n, Nat, 0, F)
  <2> HIDE DEF F, n
  <2> QED BY <1>1, <1>2, PrimitiveRecursion, Zenon
<1>4. g = Body(g)
  <2>1. g \in [0 .. n -> Nat] /\ g[0] = 0 /\ \A k \in 1 .. n : g[k] = F[k][g[k - 1]]
    BY <1>3 DEF Follows
  <2>2. ASSUME NEW k \in 1 .. n PROVE g[k] = g[k - 1] + Times(tables[k - 1], pair)
    <3>1. g[k - 1] \in Nat
      BY <1>1, <2>1
    <3> QED BY <2>1, <3>1
  <2> QED BY <1>1, <2>1, <2>2
<1>5. b = Body(b)
  <2>1. b = CHOOSE h : h = Body(h)
    BY DEF TimesBelow
  <2> HIDE DEF Body, b
  <2> QED BY <1>4, <2>1
<1> HIDE DEF b, n, F, add
<1>6. b[0] = 0
  BY <1>1, <1>5
<1>7. ASSUME NEW r \in ColRank PROVE b[r + 1] = b[r] + Times(tables[r], pair)
  <2>1. r + 1 \in 0 .. n /\ r + 1 # 0 /\ (r + 1) - 1 = r
    BY <1>1
  <2>2. \A k \in 0 .. n : b[k] = IF k = 0 THEN 0 ELSE b[k - 1] + Times(tables[k - 1], pair)
    BY <1>5
  <2> QED BY <2>1, <2>2
<1> HIDE DEF Body
<1>8. \A k \in 0 .. n : b[k] \in Nat
  <2> DEFINE S == {k \in 0 .. n : b[k] \in Nat}
  <2>1. 0 \in S
    BY <1>1, <1>6
  <2>2. ASSUME NEW k \in 0 .. n - 1, k \in S PROVE k + 1 \in S
    <3>1. k \in ColRank /\ k + 1 \in 0 .. n
      BY <1>1
    <3>2. Times(tables[k], pair) \in Nat
      BY <3>1, TimesAmong
    <3> QED BY <1>7, <2>2, <3>1, <3>2
  <2>3. 0 .. n \subseteq S
    <3> HIDE DEF S
    <3> QED BY <1>1, <2>1, <2>2, BoundedInduction
  <2> QED BY <2>3
<1> QED BY <1>6, <1>7, <1>8 DEF b, n

-----------------------------------------------------------------------------
(* What the tables have in them, in every round of every call.  A process  *)
(* r with a table in the round 2h has gathered the tables of the processes *)
(* from r to below r + h.  The table that a process sends and the round in *)
(* which it sends are the same in every call, so that it is enough to      *)
(* count the messages to know of what call the next one is.                *)

Reach(r, h) == IF r + h <= ColNeighs THEN r + h ELSE ColNeighs

\* The table has what the processes from r to below r + h have.
Gathers(t, tables, r, h) ==
  \A pair : Times(t, pair) = TimesBelow(tables, pair)[Reach(r, h)] - TimesBelow(tables, pair)[r]

ShareOf(t, tables) == IsTable(t) /\ \A i \in 1 .. Len(t) : t[i] \in Pairs(tables)

\* The rank s sends to the rank r, in the round 2 (s - r).
Link(s, r) == s - r \in Powers /\ 2 * (s - r) <= ColNeighs /\ s % (2 * (s - r)) = s - r

SentIn(p, label, h) ==
  IF p > 2 * h \/ (p = 2 * h /\ label = "dataSent") THEN 2
  ELSE IF p = 2 * h /\ label = "countSent" THEN 1 ELSE 0
ReceivedIn(p, label, h) ==
  IF p > 2 * h THEN 2 ELSE IF p = 2 * h /\ label = "counted" THEN 1 ELSE 0

Sent(s, r) == 2 * (call[s] - 1) + SentIn(round[s], pc[s], s - r)
Received(s, r) == 2 * (call[r] - 1) + ReceivedIn(round[r], pc[r], s - r)

\* On the way from s, h ranks away, are the messages after the first received ones; every
\* second message is the table of its call.
UnderWay(c, sent, received, inp, s, h) ==
  /\ IsSequence(c) /\ Len(c) = sent - received
  /\ \A k \in 1 .. Len(c), j \in 1 .. Calls :
       received + k = 2 * j => ShareOf(c[k], inp[j]) /\ Gathers(c[k], inp[j], s, h)

Typed ==
  /\ eager \in BOOLEAN /\ input \in [1 .. Calls -> Tables] /\ call \in [ColRank -> 1 .. Calls]
  /\ pc \in [ColRank -> {"round", "countSent", "dataSent", "counted", "done"}]
  /\ DOMAIN gathered = ColRank

Rounds == \A r \in ColRank :
  /\ \E h \in Powers : round[r] = 2 * h /\ h <= ColNeighs
  /\ pc[r] \in {"countSent", "dataSent"} => round[r] <= ColNeighs /\ Sends(r, round[r])
  /\ pc[r] = "counted" => round[r] <= ColNeighs /\ Receives(r, round[r])

LocalInv == \A r \in ColRank :
  /\ ShareOf(local[r], input[call[r]])
  /\ \A h \in Powers : round[r] = 2 * h /\ r % h = 0 => Gathers(local[r], input[call[r]], r, h)

LinkOK(s, r) ==
  IF Link(s, r) THEN UnderWay(chan[s][r], Sent(s, r), Received(s, r), input, s, s - r)
  ELSE chan[s][r] = <<>>
LinkInv == \A s, r \in ColRank : LinkOK(s, r)

GatheredInv == \A r \in ColRank :
  /\ IsSequence(gathered[r])
  /\ Len(gathered[r]) = IF pc[r] = "done" THEN call[r] ELSE call[r] - 1
  /\ \A c \in 1 .. Len(gathered[r]) :
       /\ ShareOf(gathered[r][c], input[c])
       /\ r = 0 => \E h \in Powers : 2 * h > ColNeighs /\ Gathers(gathered[r][c], input[c], r, h)

GatherInv == IInv /\ Typed /\ Rounds /\ LocalInv /\ LinkInv /\ GatheredInv

\* The tables to be gathered are tables, and each process has gathered its own.
LEMMA InputRight ==
  ASSUME NEW tables \in Tables, NEW r \in ColRank
  PROVE  IsSequence(tables[r]) /\ ShareOf(tables[r], tables) /\ Gathers(tables[r], tables, r, 1)
<1>1. \A q \in ColRank : tables[q] \in Seq(Int \X Int)
  BY TreeGatherAssumption
<1>2. \A q \in ColRank : IsSequence(tables[q])
  BY <1>1, TypedIsSequence
<1>3. IsTable(tables[r])
  <2>1. \A i \in 1 .. Len(tables[r]) : tables[r][i][2] \in Int
    BY <1>1
  <2>2. \A i, j \in 1 .. Len(tables[r]) : i < j => tables[r][i][2] <= tables[r][j][2]
    <3>1. DOMAIN tables[r] = 1 .. Len(tables[r])
      BY <1>2 DEF IsSequence
    <3> QED BY <3>1, TreeGatherAssumption
  <2> QED BY <1>2, <2>1, <2>2 DEF IsTable
<1>4. \A i \in 1 .. Len(tables[r]) : tables[r][i] \in Pairs(tables)
  <2>1. DOMAIN tables[r] = 1 .. Len(tables[r])
    BY <1>2 DEF IsSequence
  <2> QED BY <2>1 DEF Pairs
<1>5. Gathers(tables[r], tables, r, 1)
  <2> SUFFICES ASSUME NEW pair
               PROVE  Times(tables[r], pair) = TimesBelow(tables, pair)[Reach(r, 1)] - TimesBelow(tables, pair)[r]
    BY DEF Gathers
  <2>1. r \in Nat /\ r + 1 <= ColNeighs /\ r \in 0 .. ColNeighs /\ Reach(r, 1) = r + 1
    BY TreeGatherAssumption DEF ColRank, Reach
  <2>2. Times(tables[r], pair) \in Nat
    BY <1>2, TimesAmong
  <2>3. /\ TimesBelow(tables, pair)[r] \in Nat
        /\ TimesBelow(tables, pair)[r + 1] = TimesBelow(tables, pair)[r] + Times(tables[r], pair)
    BY <1>2, <2>1, TimesBelowRight
  <2> QED BY <2>1, <2>2, <2>3
<1> QED BY <1>2, <1>3, <1>4, <1>5 DEF ShareOf

\* Merging what has been gathered from r on with what has been gathered from r + h on.
LEMMA GathersMore ==
  ASSUME NEW tables \in Tables, NEW r \in ColRank, NEW h \in Nat \ {0}, r + h < ColNeighs,
         NEW s, NEW t, ShareOf(s, tables), ShareOf(t, tables),
         Gathers(s, tables, r, h), Gathers(t, tables, r + h, h)
  PROVE  ShareOf(Merge(s, t), tables) /\ Gathers(Merge(s, t), tables, r, 2 * h)
<1>1. IsTable(Merge(s, t)) /\ IsSequence(s) /\ IsSequence(t)
  BY MergeSorted DEF ShareOf, IsTable
<1>2. \A i \in 1 .. Len(Merge(s, t)) : Merge(s, t)[i] \in Pairs(tables)
  <2>1. \A k \in 1 .. Len(Merge(s, t)) :
          (\E i \in 1 .. Len(s) : Merge(s, t)[k] = s[i]) \/ (\E i \in 1 .. Len(t) : Merge(s, t)[k] = t[i])
    BY <1>1, MergeHasBoth
  <2> QED BY <2>1 DEF ShareOf
<1>3. Gathers(Merge(s, t), tables, r, 2 * h)
  <2> SUFFICES ASSUME NEW pair
               PROVE  Times(Merge(s, t), pair)
                        = TimesBelow(tables, pair)[Reach(r, 2 * h)] - TimesBelow(tables, pair)[r]
    BY DEF Gathers
  <2> DEFINE b == TimesBelow(tables, pair)
  <2>1. Times(Merge(s, t), pair) = Times(s, pair) + Times(t, pair)
    BY <1>1, MergeHasBoth
  <2>2. r \in Nat /\ ColNeighs \in Nat /\ Reach(r, h) = r + h /\ Reach(r + h, h) = Reach(r, 2 * h)
    BY TreeGatherAssumption DEF ColRank, Reach
  <2>3. Times(s, pair) = b[r + h] - b[r] /\ Times(t, pair) = b[Reach(r, 2 * h)] - b[r + h]
    BY <2>2 DEF Gathers
  <2>4. r \in 0 .. ColNeighs /\ r + h \in 0 .. ColNeighs /\ Reach(r, 2 * h) \in 0 .. ColNeighs
    BY <2>2 DEF Reach
  <2>5. \A q \in ColRank : IsSequence(tables[q])
    BY InputRight
  <2>6. b[r] \in Nat /\ b[r + h] \in Nat /\ b[Reach(r, 2 * h)] \in Nat
    BY <2>4, <2>5, TimesBelowRight
  <2> HIDE DEF b
  <2>7. Times(Merge(s, t), pair) = b[Reach(r, 2 * h)] - b[r]
    BY <2>1, <2>3, <2>6
  <2> QED BY <2>7 DEF b
<1> QED BY <1>1, <1>2, <1>3 DEF ShareOf

\* The count of a table, the first message of a call.
LEMMA UnderWayCount ==
  ASSUME NEW c, NEW sent \in Int, NEW received \in Int, NEW inp, NEW s, NEW h, NEW n \in Int, NEW size,
         UnderWay(c, sent, received, inp, s, h), sent = 2 * n
  PROVE  UnderWay(Append(c, size), sent + 1, received, inp, s, h)
<1>1. IsSequence(c) /\ Len(c) = sent - received
  BY DEF UnderWay
<1>2. /\ IsSequence(Append(c, size)) /\ Len(Append(c, size)) = Len(c) + 1 /\ Len(c) \in Nat
      /\ \A k \in 1 .. Len(c) : Append(c, size)[k] = c[k]
  BY <1>1, Appended
<1>3. ASSUME NEW k \in 1 .. Len(c) + 1, NEW j \in 1 .. Calls, received + k = 2 * j
      PROVE  ShareOf(Append(c, size)[k], inp[j]) /\ Gathers(Append(c, size)[k], inp[j], s, h)
  <2>1. k # Len(c) + 1
    <3>1. ASSUME k = Len(c) + 1 PROVE 2 * j = 2 * n + 1
      <4> DEFINE l == Len(c)
      <4>1. l = sent - received /\ received + k = 2 * j /\ k = l + 1
        BY <1>1, <1>3, <3>1
      <4> HIDE DEF l
      <4> QED BY <4>1
    <3>2. j \in Int
      BY TreeGatherAssumption
    <3>3. 2 * j # 2 * n + 1
      BY <3>2
    <3> QED BY <3>1, <3>3
  <2>2. k \in 1 .. Len(c)
    BY <1>2, <2>1
  <2> QED BY <1>2, <1>3, <2>2 DEF UnderWay
<1> DEFINE more == Append(c, size)
<1>4. Len(more) = (sent + 1) - received /\ Len(more) = Len(c) + 1
  BY <1>1, <1>2
<1>5. \A k \in 1 .. Len(more), j \in 1 .. Calls :
        received + k = 2 * j => ShareOf(more[k], inp[j]) /\ Gathers(more[k], inp[j], s, h)
  <2> HIDE DEF more
  <2> QED BY <1>3, <1>4 DEF more
<1> HIDE DEF more
<1> QED BY <1>2, <1>4, <1>5, Zenon DEF UnderWay, more

\* The table of call n, the last of its two messages.
LEMMA UnderWayTable ==
  ASSUME NEW c, NEW sent \in Int, NEW received \in Int, NEW inp, NEW s, NEW h, NEW n \in Int, NEW t,
         UnderWay(c, sent, received, inp, s, h), sent = 2 * (n - 1) + 1,
         ShareOf(t, inp[n]), Gathers(t, inp[n], s, h)
  PROVE  UnderWay(Append(c, t), sent + 1, received, inp, s, h)
<1>1. IsSequence(c) /\ Len(c) = sent - received
  BY DEF UnderWay
<1>2. /\ IsSequence(Append(c, t)) /\ Len(Append(c, t)) = Len(c) + 1 /\ Len(c) \in Nat
      /\ \A k \in 1 .. Len(c) : Append(c, t)[k] = c[k]
      /\ Append(c, t)[Len(c) + 1] = t
  BY <1>1, Appended
<1>3. ASSUME NEW k \in 1 .. Len(c) + 1, NEW j \in 1 .. Calls, received + k = 2 * j
      PROVE  ShareOf(Append(c, t)[k], inp[j]) /\ Gathers(Append(c, t)[k], inp[j], s, h)
  <2>1. CASE k = Len(c) + 1
    <3>1. j = n
      BY <1>1, <1>2, <1>3, <2>1
    <3> QED BY <1>2, <2>1, <3>1
  <2>2. CASE k # Len(c) + 1
    <3>1. k \in 1 .. Len(c)
      BY <1>2, <2>2
    <3> QED BY <1>2, <1>3, <3>1 DEF UnderWay
  <2> QED BY <2>1, <2>2
<1> QED BY <1>1, <1>2, <1>3 DEF UnderWay

\* The first message is taken: it is the table of its call if it is the second one of it.
LEMMA UnderWayTaken ==
  ASSUME NEW c, NEW sent \in Int, NEW received \in Int, NEW inp, NEW s, NEW h,
         UnderWay(c, sent, received, inp, s, h), c # <<>>
  PROVE  /\ UnderWay(Tail(c), sent, received + 1, inp, s, h)
         /\ \A j \in 1 .. Calls : received + 1 = 2 * j => ShareOf(Head(c), inp[j]) /\ Gathers(Head(c), inp[j], s, h)
<1>1. IsSequence(c) /\ Len(c) = sent - received
  BY DEF UnderWay
<1>2. /\ IsSequence(Tail(c)) /\ Len(c) \in Nat /\ Len(c) > 0 /\ Len(Tail(c)) = Len(c) - 1
      /\ \A k \in 1 .. Len(c) - 1 : Tail(c)[k] = c[k + 1]
      /\ Head(c) = c[1]
  BY <1>1, Taken
<1>3. ASSUME NEW k \in 1 .. Len(c) - 1, NEW j \in 1 .. Calls, received + 1 + k = 2 * j
      PROVE  ShareOf(Tail(c)[k], inp[j]) /\ Gathers(Tail(c)[k], inp[j], s, h)
  <2>1. k + 1 \in 1 .. Len(c) /\ received + (k + 1) = 2 * j
    BY <1>2, <1>3
  <2>2. ShareOf(c[k + 1], inp[j]) /\ Gathers(c[k + 1], inp[j], s, h)
    BY <2>1 DEF UnderWay
  <2> QED BY <1>2, <2>2
<1>4. 1 \in 1 .. Len(c)
  BY <1>2
<1> QED BY <1>1, <1>2, <1>3, <1>4 DEF UnderWay

\* How the numbers of messages change with the rounds: only in the round of the link.
LEMMA Phases ==
  ASSUME NEW g \in Powers, NEW h \in Powers
  PROVE  /\ \A p, label : SentIn(p, label, h) \in {0, 1, 2} /\ ReceivedIn(p, label, h) \in {0, 1, 2}
         /\ h # g => /\ \A a, b : SentIn(2 * g, a, h) = SentIn(2 * g, b, h)
                     /\ \A a, b : ReceivedIn(2 * g, a, h) = ReceivedIn(2 * g, b, h)
                     /\ \A a : SentIn(2 * (2 * g), "round", h) = SentIn(2 * g, a, h)
                     /\ \A a : ReceivedIn(2 * (2 * g), "round", h) = ReceivedIn(2 * g, a, h)
         /\ SentIn(2 * g, "round", g) = 0 /\ SentIn(2 * g, "countSent", g) = 1
         /\ SentIn(2 * g, "dataSent", g) = 2 /\ SentIn(2 * (2 * g), "round", g) = 2
         /\ \A a : a # "counted" => ReceivedIn(2 * g, a, g) = 0
         /\ ReceivedIn(2 * g, "counted", g) = 1 /\ ReceivedIn(2 * (2 * g), "round", g) = 2
         /\ SentIn(2, "round", h) = 0 /\ ReceivedIn(2, "round", h) = 0
         /\ \A p \in Nat : \A a : p > 2 * h => SentIn(p, a, h) = 2 /\ ReceivedIn(p, a, h) = 2
<1>1. g \in Nat \ {0} /\ h \in Nat \ {0}
  BY PowersRight
<1>2. h # g => (2 * g <= h /\ g < h) \/ (2 * h <= g /\ h < g)
  BY <1>1, PowersRight
<1>3. h # g => /\ 2 * g # 2 * h /\ (2 * (2 * g) > 2 * h <=> 2 * g > 2 * h)
  BY <1>1, <1>2
<1>4. h # g => /\ \A a, b : SentIn(2 * g, a, h) = SentIn(2 * g, b, h)
               /\ \A a, b : ReceivedIn(2 * g, a, h) = ReceivedIn(2 * g, b, h)
               /\ \A a : SentIn(2 * (2 * g), "round", h) = SentIn(2 * g, a, h)
               /\ \A a : ReceivedIn(2 * (2 * g), "round", h) = ReceivedIn(2 * g, a, h)
  BY <1>3 DEF SentIn, ReceivedIn
<1>5. \A p, label : SentIn(p, label, h) \in {0, 1, 2} /\ ReceivedIn(p, label, h) \in {0, 1, 2}
  BY DEF SentIn, ReceivedIn
<1>6. /\ SentIn(2 * g, "round", g) = 0 /\ SentIn(2 * g, "countSent", g) = 1
      /\ SentIn(2 * g, "dataSent", g) = 2 /\ SentIn(2 * (2 * g), "round", g) = 2
  BY <1>1 DEF SentIn
<1>7. /\ \A a : a # "counted" => ReceivedIn(2 * g, a, g) = 0
      /\ ReceivedIn(2 * g, "counted", g) = 1 /\ ReceivedIn(2 * (2 * g), "round", g) = 2
  BY <1>1 DEF ReceivedIn
<1>8. /\ SentIn(2, "round", h) = 0 /\ ReceivedIn(2, "round", h) = 0
      /\ \A p \in Nat : \A a : p > 2 * h => SentIn(p, a, h) = 2 /\ ReceivedIn(p, a, h) = 2
  BY <1>1 DEF SentIn, ReceivedIn
<1> QED BY <1>4, <1>5, <1>6, <1>7, <1>8

\* The round of a power of two.
LEMMA RoundOf ==
  ASSUME NEW r \in ColRank, NEW h \in Powers
  PROVE  /\ Sends(r, 2 * h) <=> r % (2 * h) = h
         /\ Receives(r, 2 * h) <=> r % (2 * h) = 0 /\ r + h < ColNeighs
         /\ Receiver(r, 2 * h) = r - h /\ Sender(r, 2 * h) = r + h
<1>1. h \in Nat \ {0} /\ (2 * h) \div 2 = h
  BY PowersRight
<1> QED BY <1>1 DEF Sends, Receives, Receiver, Sender

\* In that round the two ranks of a link send and receive, and they are no others.
LEMMA LinkRight ==
  ASSUME NEW s \in ColRank, NEW r \in ColRank
  PROVE  /\ Link(s, r) =>
              /\ s - r \in Powers /\ s # r /\ r < s
              /\ s % (2 * (s - r)) = s - r
              /\ r % (2 * (s - r)) = 0 /\ r + (s - r) < ColNeighs
         /\ \A h \in Powers : 2 * h <= ColNeighs =>
              /\ r = s - h /\ s % (2 * h) = h => Link(s, r) /\ s - r = h
              /\ s = r + h /\ r % (2 * h) = 0 => Link(s, r) /\ s - r = h
<1>1. s \in Nat /\ r \in Nat /\ s < ColNeighs /\ r < ColNeighs /\ ColNeighs \in Nat
  BY TreeGatherAssumption DEF ColRank
<1>2. ASSUME Link(s, r)
      PROVE  /\ s - r \in Powers /\ s # r /\ r < s /\ s % (2 * (s - r)) = s - r
             /\ r % (2 * (s - r)) = 0 /\ r + (s - r) < ColNeighs
  <2> DEFINE h == s - r
  <2>1. h \in Powers /\ h \in Nat \ {0} /\ s % (2 * h) = h
    BY <1>2, PowersRight DEF Link
  <2>2. s - h = r /\ r + h = s
    BY <1>1
  <2>3. (s - h) % (2 * h) = 0
    <3> HIDE DEF h
    <3> QED BY <1>1, <2>1, Halves
  <2> QED BY <1>1, <2>1, <2>2, <2>3
<1>3. ASSUME NEW h \in Powers, 2 * h <= ColNeighs, r = s - h, s % (2 * h) = h
      PROVE  Link(s, r) /\ s - r = h
  <2>1. h \in Nat
    BY PowersRight
  <2>2. s - r = h
    BY <1>1, <1>3, <2>1
  <2> QED BY <1>3, <2>2 DEF Link
<1>4. ASSUME NEW h \in Powers, 2 * h <= ColNeighs, s = r + h, r % (2 * h) = 0
      PROVE  Link(s, r) /\ s - r = h
  <2>1. h \in Nat \ {0}
    BY PowersRight
  <2>2. s - r = h /\ s % (2 * h) = h
    BY <1>1, <1>4, <2>1, Halves
  <2> QED BY <1>4, <2>2 DEF Link
<1> QED BY <1>2, <1>3, <1>4

\* A link with the same messages on it, as many sent and as many received.
LEMMA OtherLinks ==
  ASSUME LinkInv, input' = input, NEW s \in ColRank, NEW q \in ColRank, chan'[s][q] = chan[s][q],
         Link(s, q) => Sent(s, q)' = Sent(s, q) /\ Received(s, q)' = Received(s, q)
  PROVE  LinkOK(s, q)'
<1>1. LinkOK(s, q)
  BY DEF LinkInv
<1>2. CASE Link(s, q)
  <2>1. UnderWay(chan'[s][q], Sent(s, q)', Received(s, q)', input', s, s - q)
    BY <1>1, <1>2 DEF LinkOK
  <2>2. Link(s, q)'
    BY <1>2 DEF Link
  <2> QED BY <2>1, <2>2 DEF LinkOK
<1>3. CASE ~ Link(s, q)
  BY <1>1, <1>3 DEF LinkOK, Link
<1> QED BY <1>2, <1>3

\* The numbers of messages are numbers.
LEMMA Counts ==
  ASSUME Typed, NEW s \in ColRank, NEW r \in ColRank, Link(s, r)
  PROVE  /\ Sent(s, r) \in Nat /\ Received(s, r) \in Nat /\ Sent(s, r) <= 2 * Calls
         /\ call[s] \in Nat /\ call[r] \in Nat
<1>1. s - r \in Powers
  BY DEF Link
<1>2. /\ SentIn(round[s], pc[s], s - r) \in {0, 1, 2}
      /\ ReceivedIn(round[r], pc[r], s - r) \in {0, 1, 2}
  BY <1>1, Phases
<1>3. call[s] \in 1 .. Calls /\ call[r] \in 1 .. Calls /\ Calls \in Nat
  BY TreeGatherAssumption DEF Typed
<1> QED BY <1>2, <1>3 DEF Sent, Received

\* Nothing is gathered in a step that neither begins a call nor a round nor merges.
LEMMA SameTables ==
  ASSUME Typed, LocalInv, GatheredInv, Typed', UNCHANGED <<input, call, round, local, gathered>>,
         \A q \in ColRank : pc'[q] = "done" <=> pc[q] = "done"
  PROVE  LocalInv' /\ GatheredInv'
<1>1. LocalInv'
  BY DEF LocalInv
<1>2. GatheredInv'
  BY DEF GatheredInv
<1> QED BY <1>1, <1>2

\* The count of its table is sent.
LEMMA SendCountGathers ==
  ASSUME GatherInv, NEW r \in ColRank, SendCount(r)
  PROVE  GatherInv'
<1>1. IInv'
  BY NextIInv DEF GatherInv, Next, Step
<1>2. PICK g \in Powers : round[r] = 2 * g /\ g <= ColNeighs
  BY DEF GatherInv, Rounds
<1> DEFINE to == r - g
<1>3. /\ Receiver(r, round[r]) = to /\ to \in ColRank /\ Link(r, to) /\ r - to = g /\ to # r
      /\ 2 * g <= ColNeighs /\ r % (2 * g) = g
  <2>1. Receiver(r, round[r]) \in ColRank /\ Receiver(r, round[r]) # r
    BY PartnersInColumn DEF GatherInv, IInv, Domains, SendCount
  <2>2. Receiver(r, round[r]) = to /\ r % (2 * g) = g /\ 2 * g <= ColNeighs
    BY <1>2, RoundOf DEF SendCount, MoreRounds
  <2> QED BY <2>1, <2>2, LinkRight
<1>4. /\ pc[r] = "round" /\ pc'[r] = "countSent" /\ round' = round /\ call' = call
      /\ \A q \in ColRank : q # r => pc'[q] = pc[q]
      /\ chan'[r][to] = Append(chan[r][to], Len(local[r]))
      /\ \A s, q \in ColRank : s # r \/ q # to => chan'[s][q] = chan[s][q]
  BY <1>3 DEF GatherInv, IInv, Domains, SendCount, Put, Goto, Count
<1>5. Typed'
  BY DEF GatherInv, Typed, SendCount, Goto
<1>6. Rounds'
  BY <1>4 DEF GatherInv, Rounds, SendCount, MoreRounds
<1>7. LocalInv' /\ GatheredInv'
  BY <1>4, <1>5, SameTables DEF GatherInv, SendCount
<1>8. ASSUME NEW s \in ColRank, NEW q \in ColRank PROVE LinkOK(s, q)'
  <2>1. CASE s = r /\ q = to
    <3>1. UnderWay(chan[r][to], Sent(r, to), Received(r, to), input, r, g)
      BY <1>3 DEF GatherInv, LinkInv, LinkOK
    <3>2. Sent(r, to) = 2 * (call[r] - 1) + 0 /\ Sent(r, to)' = 2 * (call[r] - 1) + 1
      BY <1>2, <1>3, <1>4, Phases DEF Sent
    <3>3. Received(r, to)' = Received(r, to)
      BY <1>3, <1>4 DEF Received
    <3>4. call[r] \in Nat /\ Sent(r, to) \in Nat /\ Received(r, to) \in Nat
      BY <1>3, Counts DEF GatherInv
    <3>5. UnderWay(chan'[r][to], Sent(r, to) + 1, Received(r, to), input, r, g)
      <4> DEFINE n == call[r] - 1
      <4>1. n \in Int /\ Sent(r, to) = 2 * n
        BY <3>2, <3>4
      <4> HIDE DEF n
      <4> QED BY <1>4, <3>1, <3>4, <4>1, UnderWayCount
    <3>6. UnderWay(chan'[r][to], Sent(r, to)', Received(r, to)', input', r, r - to)
      BY <1>3, <3>2, <3>3, <3>4, <3>5 DEF SendCount
    <3>7. Link(r, to)'
      BY <1>3 DEF Link
    <3> QED BY <2>1, <3>6, <3>7 DEF LinkOK
  <2>2. CASE ~ (s = r /\ q = to)
    <3>1. ASSUME Link(s, q) PROVE Sent(s, q)' = Sent(s, q) /\ Received(s, q)' = Received(s, q)
      <4>1. s - q \in Powers
        BY <3>1 DEF Link
      <4>2. Sent(s, q)' = Sent(s, q)
        <5>1. CASE s = r
          <6>1. r - q # g
            BY <1>2, <2>2, <5>1, PowersRight, TreeGatherAssumption DEF ColRank
          <6> QED BY <1>2, <1>4, <4>1, <5>1, <6>1, Phases DEF Sent
        <5>2. CASE s # r
          BY <1>4, <5>2 DEF Sent
        <5> QED BY <5>1, <5>2
      <4>3. Received(s, q)' = Received(s, q)
        <5>1. CASE q = r
          BY <1>4, <5>1 DEF Received, ReceivedIn
        <5>2. CASE q # r
          BY <1>4, <5>2 DEF Received
        <5> QED BY <5>1, <5>2
      <4> QED BY <4>2, <4>3
    <3>2. chan'[s][q] = chan[s][q]
      BY <1>4, <2>2
    <3> QED BY <3>1, <3>2, OtherLinks DEF GatherInv, SendCount
  <2> QED BY <2>1, <2>2
<1>9. LinkInv'
  BY <1>8 DEF LinkInv
<1> QED BY <1>1, <1>5, <1>6, <1>7, <1>9 DEF GatherInv

\* The table itself.
LEMMA SendDataGathers ==
  ASSUME GatherInv, NEW r \in ColRank, SendData(r)
  PROVE  GatherInv'
<1>1. IInv'
  BY NextIInv DEF GatherInv, Next, Step
<1>2. PICK g \in Powers : round[r] = 2 * g /\ g <= ColNeighs
  BY DEF GatherInv, Rounds
<1> DEFINE to == r - g
<1>3. /\ Receiver(r, round[r]) = to /\ to \in ColRank /\ Link(r, to) /\ r - to = g /\ to # r
      /\ 2 * g <= ColNeighs /\ r % (2 * g) = g
  <2>1. Receiver(r, round[r]) \in ColRank
    BY DEF GatherInv, IInv, Partners, SendData
  <2>2. Receiver(r, round[r]) = to /\ r % (2 * g) = g /\ 2 * g <= ColNeighs
    BY <1>2, RoundOf DEF SendData, GatherInv, Rounds
  <2> QED BY <2>1, <2>2, LinkRight
<1>4. /\ pc[r] = "countSent" /\ pc'[r] = "dataSent" /\ round' = round /\ call' = call
      /\ \A q \in ColRank : q # r => pc'[q] = pc[q]
      /\ chan'[r][to] = Append(chan[r][to], local[r])
      /\ \A s, q \in ColRank : s # r \/ q # to => chan'[s][q] = chan[s][q]
  BY <1>3 DEF GatherInv, IInv, Domains, SendData, Put, Goto
<1>5. Typed'
  BY DEF GatherInv, Typed, SendData, Goto
<1>6. Rounds'
  BY <1>4 DEF GatherInv, Rounds, SendData, MoreRounds
<1>7. LocalInv' /\ GatheredInv'
  BY <1>4, <1>5, SameTables DEF GatherInv, SendData
<1>8. ASSUME NEW s \in ColRank, NEW q \in ColRank PROVE LinkOK(s, q)'
  <2>1. CASE s = r /\ q = to
    <3>1. UnderWay(chan[r][to], Sent(r, to), Received(r, to), input, r, g)
      BY <1>3 DEF GatherInv, LinkInv, LinkOK
    <3>2. Sent(r, to) = 2 * (call[r] - 1) + 1 /\ Sent(r, to)' = 2 * (call[r] - 1) + 2
      BY <1>2, <1>3, <1>4, Phases DEF Sent
    <3>3. Received(r, to)' = Received(r, to)
      BY <1>3, <1>4 DEF Received
    <3>4. call[r] \in Nat /\ Sent(r, to) \in Nat /\ Received(r, to) \in Nat
      BY <1>3, Counts DEF GatherInv
    <3>5. ShareOf(local[r], input[call[r]]) /\ Gathers(local[r], input[call[r]], r, g)
      <4>1. r % g = 0
        BY <1>3, Halves, PowersRight DEF ColRank
      <4> QED BY <1>2, <4>1 DEF GatherInv, LocalInv
    <3>6. UnderWay(chan'[r][to], Sent(r, to) + 1, Received(r, to), input, r, g)
      <4> DEFINE n == call[r]
                 sent == Sent(r, to)
                 received == Received(r, to)
                 c == chan[r][to]
      <4>1. n \in Int /\ sent \in Int /\ received \in Int /\ sent = 2 * (n - 1) + 1
        BY <3>2, <3>4
      <4>2. UnderWay(c, sent, received, input, r, g) /\ ShareOf(local[r], input[n]) /\ Gathers(local[r], input[n], r, g)
        BY <3>1, <3>5
      <4> HIDE DEF n, sent, received, c
      <4>3. UnderWay(Append(c, local[r]), sent + 1, received, input, r, g)
        BY <4>1, <4>2, UnderWayTable
      <4> QED BY <1>4, <4>3 DEF sent, received, c
    <3>7. UnderWay(chan'[r][to], Sent(r, to)', Received(r, to)', input', r, r - to)
      BY <1>3, <3>2, <3>3, <3>4, <3>6 DEF SendData
    <3>8. Link(r, to)'
      BY <1>3 DEF Link
    <3> QED BY <2>1, <3>7, <3>8 DEF LinkOK
  <2>2. CASE ~ (s = r /\ q = to)
    <3>1. ASSUME Link(s, q) PROVE Sent(s, q)' = Sent(s, q) /\ Received(s, q)' = Received(s, q)
      <4>1. s - q \in Powers
        BY <3>1 DEF Link
      <4>2. Sent(s, q)' = Sent(s, q)
        <5>1. CASE s = r
          <6>1. r - q # g
            BY <1>2, <2>2, <5>1, PowersRight, TreeGatherAssumption DEF ColRank
          <6> QED BY <1>2, <1>4, <4>1, <5>1, <6>1, Phases DEF Sent
        <5>2. CASE s # r
          BY <1>4, <5>2 DEF Sent
        <5> QED BY <5>1, <5>2
      <4>3. Received(s, q)' = Received(s, q)
        <5>1. CASE q = r
          BY <1>4, <5>1 DEF Received, ReceivedIn
        <5>2. CASE q # r
          BY <1>4, <5>2 DEF Received
        <5> QED BY <5>1, <5>2
      <4> QED BY <4>2, <4>3
    <3>2. chan'[s][q] = chan[s][q]
      BY <1>4, <2>2
    <3> QED BY <3>1, <3>2, OtherLinks DEF GatherInv, SendData
  <2> QED BY <2>1, <2>2
<1>9. LinkInv'
  BY <1>8 DEF LinkInv
<1> QED BY <1>1, <1>5, <1>6, <1>7, <1>9 DEF GatherInv

\* A count is received.
LEMMA RecvCountGathers ==
  ASSUME GatherInv, NEW r \in ColRank, RecvCount(r)
  PROVE  GatherInv'
<1>1. IInv'
  BY NextIInv DEF GatherInv, Next, Step
<1>2. PICK g \in Powers : round[r] = 2 * g /\ g <= ColNeighs
  BY DEF GatherInv, Rounds
<1> DEFINE from == r + g
<1>3. /\ Sender(r, round[r]) = from /\ from \in ColRank /\ Link(from, r) /\ from - r = g /\ from # r
      /\ 2 * g <= ColNeighs
  <2>1. Sender(r, round[r]) \in ColRank /\ Sender(r, round[r]) # r
    BY PartnersInColumn DEF GatherInv, IInv, Domains, RecvCount
  <2>2. Sender(r, round[r]) = from /\ r % (2 * g) = 0 /\ 2 * g <= ColNeighs
    BY <1>2, RoundOf DEF RecvCount, MoreRounds
  <2> QED BY <2>1, <2>2, LinkRight
<1>4. /\ pc[r] = "round" /\ pc'[r] = "counted" /\ round' = round /\ call' = call
      /\ \A q \in ColRank : q # r => pc'[q] = pc[q]
      /\ chan[from][r] # <<>> /\ chan'[from][r] = Tail(chan[from][r])
      /\ \A s, q \in ColRank : s # from \/ q # r => chan'[s][q] = chan[s][q]
  BY <1>3 DEF GatherInv, IInv, Domains, RecvCount, Take, Goto, Arrived
<1>5. Typed'
  BY DEF GatherInv, Typed, RecvCount, Goto
<1>6. Rounds'
  BY <1>4 DEF GatherInv, Rounds, RecvCount, MoreRounds
<1>7. LocalInv' /\ GatheredInv'
  BY <1>4, <1>5, SameTables DEF GatherInv, RecvCount
<1>8. ASSUME NEW s \in ColRank, NEW q \in ColRank PROVE LinkOK(s, q)'
  <2>1. CASE s = from /\ q = r
    <3>1. UnderWay(chan[from][r], Sent(from, r), Received(from, r), input, from, g)
      BY <1>3 DEF GatherInv, LinkInv, LinkOK
    <3>2. Received(from, r) = 2 * (call[r] - 1) + 0 /\ Received(from, r)' = 2 * (call[r] - 1) + 1
      BY <1>2, <1>3, <1>4, Phases DEF Received
    <3>3. Sent(from, r)' = Sent(from, r)
      BY <1>3, <1>4 DEF Sent
    <3>4. call[r] \in Nat /\ Sent(from, r) \in Nat /\ Received(from, r) \in Nat
      BY <1>3, Counts DEF GatherInv
    <3>5. UnderWay(chan'[from][r], Sent(from, r), Received(from, r) + 1, input, from, g)
      BY <1>4, <3>1, <3>4, UnderWayTaken
    <3>6. UnderWay(chan'[from][r], Sent(from, r)', Received(from, r)', input', from, from - r)
      BY <1>3, <3>2, <3>3, <3>4, <3>5 DEF RecvCount
    <3>7. Link(from, r)'
      BY <1>3 DEF Link
    <3> QED BY <2>1, <3>6, <3>7 DEF LinkOK
  <2>2. CASE ~ (s = from /\ q = r)
    <3>1. ASSUME Link(s, q) PROVE Sent(s, q)' = Sent(s, q) /\ Received(s, q)' = Received(s, q)
      <4>1. s - q \in Powers
        BY <3>1 DEF Link
      <4>2. Sent(s, q)' = Sent(s, q)
        <5>1. CASE s = r
          BY <1>4, <5>1 DEF Sent, SentIn
        <5>2. CASE s # r
          BY <1>4, <5>2 DEF Sent
        <5> QED BY <5>1, <5>2
      <4>3. Received(s, q)' = Received(s, q)
        <5>1. CASE q = r
          <6>1. s - r # g
            BY <1>2, <2>2, <5>1, PowersRight, TreeGatherAssumption DEF ColRank
          <6> QED BY <1>2, <1>4, <4>1, <5>1, <6>1, Phases DEF Received
        <5>2. CASE q # r
          BY <1>4, <5>2 DEF Received
        <5> QED BY <5>1, <5>2
      <4> QED BY <4>2, <4>3
    <3>2. chan'[s][q] = chan[s][q]
      BY <1>4, <2>2
    <3> QED BY <3>1, <3>2, OtherLinks DEF GatherInv, RecvCount
  <2> QED BY <2>1, <2>2
<1>9. LinkInv'
  BY <1>8 DEF LinkInv
<1> QED BY <1>1, <1>5, <1>6, <1>7, <1>9 DEF GatherInv

\* The next round changes no number of messages if those of this one have been sent or
\* received by the rank.
LEMMA NextRoundLinks ==
  ASSUME Typed, NEW r \in ColRank, NEW g \in Powers, round[r] = 2 * g,
         round'[r] = 2 * (2 * g), pc'[r] = "round", call' = call,
         \A q \in ColRank : q # r => pc'[q] = pc[q] /\ round'[q] = round[q],
         NEW s \in ColRank, NEW q \in ColRank, Link(s, q),
         s = r /\ r - q = g => pc[r] = "dataSent",
         q = r => s - r # g
  PROVE  Sent(s, q)' = Sent(s, q) /\ Received(s, q)' = Received(s, q)
<1>1. s - q \in Powers
  BY DEF Link
<1>2. Sent(s, q)' = Sent(s, q)
  <2>1. CASE s = r /\ r - q = g
    BY <2>1, Phases DEF Sent
  <2>2. CASE s = r /\ r - q # g
    BY <1>1, <2>2, Phases DEF Sent
  <2>3. CASE s # r
    BY <2>3 DEF Sent
  <2> QED BY <2>1, <2>2, <2>3
<1>3. Received(s, q)' = Received(s, q)
  <2>1. CASE q = r
    BY <1>1, <2>1, Phases DEF Received
  <2>2. CASE q # r
    BY <2>2 DEF Received
  <2> QED BY <2>1, <2>2
<1> QED BY <1>2, <1>3

\* The rounds of the others are as they were.
LEMMA NextRoundRounds ==
  ASSUME Rounds, NEW r \in ColRank, NEW g \in Powers, 2 * g <= ColNeighs,
         round'[r] = 2 * (2 * g), pc'[r] = "round",
         \A q \in ColRank : q # r => pc'[q] = pc[q] /\ round'[q] = round[q]
  PROVE  Rounds'
<1>1. g \in Nat /\ ColNeighs \in Nat
  BY PowersRight, TreeGatherAssumption
<1>2. 2 * g \in Powers
  BY <1>1, PowersRight
<1>3. ASSUME NEW q \in ColRank
      PROVE  /\ \E h \in Powers : round'[q] = 2 * h /\ h <= ColNeighs
             /\ pc'[q] \in {"countSent", "dataSent"} => round'[q] <= ColNeighs /\ Sends(q, round'[q])
             /\ pc'[q] = "counted" => round'[q] <= ColNeighs /\ Receives(q, round'[q])
  <2>1. CASE q = r
    BY <1>2, <2>1
  <2>2. CASE q # r
    BY <2>2 DEF Rounds
  <2> QED BY <2>1, <2>2
<1> QED BY <1>3 DEF Rounds

\* The rank goes on to the next round with the table that it has, and without one if it has
\* sent it or has had none.
LEMMA NextRoundGathers ==
  ASSUME GatherInv, IInv', NEW r \in ColRank, NEW g \in Powers, round[r] = 2 * g, 2 * g <= ColNeighs,
         round' = [round EXCEPT ![r] = 2 * (2 * g)], pc'[r] = "round", pc[r] # "done", Typed',
         \A q \in ColRank : q # r => pc'[q] = pc[q],
         UNCHANGED <<input, call, local, chan, gathered>>,
         r % (2 * g) = g => pc[r] = "dataSent",
         ~ Receives(r, 2 * g)
  PROVE  GatherInv'
<1>1. g \in Nat \ {0} /\ r \in Nat /\ ColNeighs \in Nat
  BY PowersRight, TreeGatherAssumption DEF ColRank
<1>2. round'[r] = 2 * (2 * g) /\ \A q \in ColRank : q # r => round'[q] = round[q]
  BY DEF GatherInv, IInv, Domains
<1>3. Rounds'
  BY <1>2, NextRoundRounds DEF GatherInv
<1>4. LocalInv'
  <2> SUFFICES ASSUME NEW q \in ColRank
               PROVE  /\ ShareOf(local[q], input[call[q]])
                      /\ \A h \in Powers : round'[q] = 2 * h /\ q % h = 0 => Gathers(local[q], input[call[q]], q, h)
    BY DEF LocalInv
  <2>1. ShareOf(local[q], input[call[q]])
    BY DEF GatherInv, LocalInv
  <2>2. ASSUME NEW h \in Powers, round'[q] = 2 * h, q % h = 0
        PROVE  Gathers(local[q], input[call[q]], q, h)
    <3>1. CASE q # r
      BY <1>2, <2>2, <3>1 DEF GatherInv, LocalInv
    <3>2. CASE q = r
      <4>1. h = 2 * g
        BY <1>1, <1>2, <2>2, <3>2, PowersRight
      <4>2. ~ (r + g < ColNeighs)
        BY <2>2, <3>2, <4>1, RoundOf
      <4>3. r % g = 0
        BY <1>1, <2>2, <3>2, <4>1, Halves
      <4>4. Gathers(local[r], input[call[r]], r, g)
        BY <4>3 DEF GatherInv, LocalInv
      <4>5. Reach(r, 2 * g) = Reach(r, g)
        BY <1>1, <4>2 DEF Reach
      <4> QED BY <3>2, <4>1, <4>4, <4>5 DEF Gathers
    <3> QED BY <3>1, <3>2
  <2> QED BY <2>1, <2>2
<1>5. GatheredInv'
  <2>1. \A q \in ColRank : pc'[q] = "done" <=> pc[q] = "done"
    OBVIOUS
  <2> QED BY <2>1 DEF GatherInv, GatheredInv
<1>6. LinkInv'
  <2> SUFFICES ASSUME NEW s \in ColRank, NEW q \in ColRank PROVE LinkOK(s, q)'
    BY DEF LinkInv
  <2>1. ASSUME Link(s, q) PROVE Sent(s, q)' = Sent(s, q) /\ Received(s, q)' = Received(s, q)
    <3>1. s = r /\ r - q = g => pc[r] = "dataSent"
      BY <2>1, LinkRight
    <3>2. q = r => s - r # g
      BY <2>1, LinkRight, RoundOf
    <3> QED BY <1>2, <2>1, <3>1, <3>2, NextRoundLinks DEF GatherInv
  <2> QED BY <2>1, OtherLinks DEF GatherInv
<1> QED BY <1>3, <1>4, <1>5, <1>6 DEF GatherInv

\* The table is received and merged: it is that of the call that the receiver is in.
LEMMA RecvDataGathers ==
  ASSUME GatherInv, NEW r \in ColRank, RecvData(r)
  PROVE  GatherInv'
<1>1. IInv'
  BY NextIInv DEF GatherInv, Next, Step
<1>2. PICK g \in Powers : round[r] = 2 * g /\ g <= ColNeighs
  BY DEF GatherInv, Rounds
<1> DEFINE from == r + g
           c == chan[from][r]
<1>3. /\ Sender(r, round[r]) = from /\ from \in ColRank /\ Link(from, r) /\ from - r = g /\ from # r
      /\ 2 * g <= ColNeighs /\ r % (2 * g) = 0 /\ r + g < ColNeighs
  <2>1. Sender(r, round[r]) \in ColRank
    BY DEF GatherInv, IInv, Partners, RecvData
  <2>2. Sender(r, round[r]) = from /\ r % (2 * g) = 0 /\ r + g < ColNeighs /\ 2 * g <= ColNeighs
    BY <1>2, RoundOf DEF RecvData, GatherInv, Rounds
  <2>3. Link(from, r) /\ from - r = g
    BY <2>1, <2>2, LinkRight
  <2> QED BY <2>1, <2>2, <2>3, LinkRight
<1>4. /\ pc[r] = "counted" /\ pc'[r] = "round" /\ call' = call
      /\ round'[r] = 2 * (2 * g) /\ local'[r] = Merge(local[r], Head(c))
      /\ \A q \in ColRank : q # r => pc'[q] = pc[q] /\ round'[q] = round[q] /\ local'[q] = local[q]
      /\ c # <<>> /\ chan'[from][r] = Tail(c)
      /\ \A s, q \in ColRank : s # from \/ q # r => chan'[s][q] = chan[s][q]
  BY <1>2, <1>3 DEF GatherInv, IInv, Domains, RecvData, Take, Goto, Arrived, NextRound
<1>5. Typed'
  BY DEF GatherInv, Typed, RecvData, Goto
<1>6. Rounds'
  BY <1>3, <1>4, NextRoundRounds DEF GatherInv
<1>7. call[r] \in 1 .. Calls /\ call[r] \in Nat /\ g \in Nat \ {0} /\ r \in Nat /\ input[call[r]] \in Tables
  BY PowersRight, TreeGatherAssumption DEF GatherInv, Typed, ColRank
<1>8. /\ UnderWay(c, Sent(from, r), Received(from, r), input, from, g)
      /\ Received(from, r) = 2 * (call[r] - 1) + 1 /\ Received(from, r)' = 2 * (call[r] - 1) + 2
      /\ Sent(from, r)' = Sent(from, r)
      /\ Sent(from, r) \in Nat /\ Received(from, r) \in Nat
  <2>1. UnderWay(c, Sent(from, r), Received(from, r), input, from, g)
    BY <1>3 DEF GatherInv, LinkInv, LinkOK
  <2>2. Received(from, r) = 2 * (call[r] - 1) + 1 /\ Received(from, r)' = 2 * (call[r] - 1) + 2
    BY <1>2, <1>3, <1>4, Phases DEF Received
  <2>3. Sent(from, r)' = Sent(from, r)
    BY <1>3, <1>4 DEF Sent
  <2> QED BY <1>3, <2>1, <2>2, <2>3, Counts DEF GatherInv
<1>9. /\ UnderWay(Tail(c), Sent(from, r), Received(from, r) + 1, input, from, g)
      /\ ShareOf(Head(c), input[call[r]]) /\ Gathers(Head(c), input[call[r]], from, g)
  <2> DEFINE sent == Sent(from, r)
             received == Received(from, r)
             n == call[r]
  <2>1. sent \in Int /\ received \in Int /\ UnderWay(c, sent, received, input, from, g) /\ c # <<>>
    BY <1>4, <1>8
  <2>2. n \in 1 .. Calls /\ received + 1 = 2 * n
    BY <1>7, <1>8
  <2> HIDE DEF sent, received, n, c, from
  <2>3. /\ UnderWay(Tail(c), sent, received + 1, input, from, g)
        /\ ShareOf(Head(c), input[n]) /\ Gathers(Head(c), input[n], from, g)
    BY <2>1, <2>2, UnderWayTaken
  <2> QED BY <2>3 DEF sent, received, n, c, from
<1>10. ShareOf(local'[r], input[call[r]]) /\ Gathers(local'[r], input[call[r]], r, 2 * g)
  <2>1. r % g = 0
    BY <1>3, <1>7, Halves
  <2>2. ShareOf(local[r], input[call[r]]) /\ Gathers(local[r], input[call[r]], r, g)
    BY <1>2, <2>1 DEF GatherInv, LocalInv
  <2> QED BY <1>3, <1>4, <1>7, <1>9, <2>2, GathersMore
<1>11. LocalInv'
  <2> SUFFICES ASSUME NEW q \in ColRank
               PROVE  /\ ShareOf(local'[q], input[call[q]])
                      /\ \A h \in Powers : round'[q] = 2 * h /\ q % h = 0 => Gathers(local'[q], input[call[q]], q, h)
    BY <1>4 DEF LocalInv, RecvData
  <2>1. CASE q = r
    <3>1. ASSUME NEW h \in Powers, round'[r] = 2 * h PROVE h = 2 * g
      <4>1. h \in Nat /\ 2 * h = 2 * (2 * g)
        BY <1>4, <3>1, PowersRight
      <4> HIDE DEF c, from
      <4> QED BY <1>7, <4>1
    <3> QED BY <1>10, <2>1, <3>1
  <2>2. CASE q # r
    BY <1>4, <2>2 DEF GatherInv, LocalInv
  <2> QED BY <2>1, <2>2
<1>12. GatheredInv'
  <2>1. \A q \in ColRank : pc'[q] = "done" <=> pc[q] = "done"
    BY <1>4
  <2> QED BY <1>4, <2>1 DEF GatherInv, GatheredInv, RecvData
<1>13. ASSUME NEW s \in ColRank, NEW q \in ColRank PROVE LinkOK(s, q)'
  <2>1. CASE s = from /\ q = r
    <3>1. Received(from, r)' = Received(from, r) + 1
      BY <1>7, <1>8
    <3>2. UnderWay(chan'[from][r], Sent(from, r)', Received(from, r)', input', from, from - r)
      BY <1>3, <1>4, <1>8, <1>9, <3>1 DEF RecvData
    <3>3. Link(from, r)'
      BY <1>3 DEF Link
    <3> QED BY <2>1, <3>2, <3>3 DEF LinkOK
  <2>2. CASE ~ (s = from /\ q = r)
    <3>1. chan'[s][q] = chan[s][q]
      BY <1>4, <2>2
    <3>2. ASSUME Link(s, q) PROVE Sent(s, q)' = Sent(s, q) /\ Received(s, q)' = Received(s, q)
      <4>1. ~ (s = r /\ r - q = g)
        <5> SUFFICES ASSUME s = r, r - q = g PROVE FALSE
          OBVIOUS
        <5>1. r % (2 * g) = g
          BY <3>2, LinkRight
        <5> QED BY <1>3, <1>7, <5>1
      <4>2. q = r => s - r # g
        BY <1>7, <2>2, TreeGatherAssumption DEF ColRank
      <4> QED BY <1>2, <1>4, <3>2, <4>1, <4>2, NextRoundLinks DEF GatherInv
    <3> QED BY <3>1, <3>2, OtherLinks DEF GatherInv, RecvData
  <2> QED BY <2>1, <2>2
<1>14. LinkInv'
  BY <1>13 DEF LinkInv
<1> QED BY <1>1, <1>5, <1>6, <1>11, <1>12, <1>14 DEF GatherInv

\* A call returns: its first process has gathered everything that its rounds reach.
LEMMA ReturnGathers ==
  ASSUME GatherInv, NEW r \in ColRank, Return(r)
  PROVE  GatherInv'
<1>1. IInv'
  BY NextIInv DEF GatherInv, Next, Step
<1>2. PICK g \in Powers : round[r] = 2 * g /\ g <= ColNeighs
  BY DEF GatherInv, Rounds
<1>3. /\ g \in Nat \ {0} /\ ColNeighs \in Nat /\ r \in Nat /\ 2 * g > ColNeighs /\ 1 \in Powers
      /\ 1 <= ColNeighs /\ call[r] \in 1 .. Calls /\ call[r] \in Nat /\ Calls \in Nat
  BY <1>2, PowersRight, TreeGatherAssumption DEF Return, MoreRounds, ColRank, GatherInv, Typed
<1>4. /\ pc[r] = "round" /\ UNCHANGED <<eager, input, number_count, chan>>
      /\ gathered'[r] = Append(gathered[r], local[r])
      /\ \A q \in ColRank : q # r => /\ pc'[q] = pc[q] /\ round'[q] = round[q] /\ local'[q] = local[q]
                                     /\ call'[q] = call[q] /\ gathered'[q] = gathered[q]
  BY DEF GatherInv, IInv, Domains, Typed, Return, Goto
<1>5. \/ /\ call[r] < Calls /\ call'[r] = call[r] + 1 /\ local'[r] = input[call[r] + 1][r]
         /\ round'[r] = 2 * 1 /\ pc'[r] = "round"
      \/ /\ call'[r] = call[r] /\ local'[r] = local[r] /\ round'[r] = round[r] /\ pc'[r] = "done"
  BY DEF GatherInv, IInv, Domains, Typed, Return, Goto
<1>6. Typed'
  <2>1. call' \in [ColRank -> 1 .. Calls]
    <3>1. CASE call[r] < Calls
      <4>1. call[r] + 1 \in 1 .. Calls
        BY <1>3, <3>1
      <4> QED BY <3>1, <4>1 DEF GatherInv, Typed, Return
    <3>2. CASE ~ (call[r] < Calls)
      BY <3>2 DEF GatherInv, Typed, Return
    <3> QED BY <3>1, <3>2
  <2>2. pc' \in [ColRank -> {"round", "countSent", "dataSent", "counted", "done"}]
    BY DEF GatherInv, Typed, Return, Goto
  <2>3. DOMAIN gathered' = ColRank
    BY DEF GatherInv, Typed, Return
  <2> QED BY <1>4, <2>1, <2>2, <2>3 DEF GatherInv, Typed
<1>7. Rounds'
  <2>1. ASSUME NEW q \in ColRank
        PROVE  /\ \E h \in Powers : round'[q] = 2 * h /\ h <= ColNeighs
               /\ pc'[q] \in {"countSent", "dataSent"} => round'[q] <= ColNeighs /\ Sends(q, round'[q])
               /\ pc'[q] = "counted" => round'[q] <= ColNeighs /\ Receives(q, round'[q])
    <3>1. CASE q # r
      BY <1>4, <3>1 DEF GatherInv, Rounds
    <3>2. CASE q = r
      BY <1>2, <1>3, <1>5, <3>2
    <3> QED BY <3>1, <3>2
  <2> QED BY <2>1 DEF Rounds
<1>8. LocalInv'
  <2> SUFFICES ASSUME NEW q \in ColRank
               PROVE  /\ ShareOf(local'[q], input[call'[q]])
                      /\ \A h \in Powers : round'[q] = 2 * h /\ q % h = 0 => Gathers(local'[q], input[call'[q]], q, h)
    BY <1>4 DEF LocalInv
  <2>1. CASE q # r
    BY <1>4, <2>1 DEF GatherInv, LocalInv
  <2>2. CASE q = r /\ call'[r] = call[r] /\ local'[r] = local[r] /\ round'[r] = round[r]
    BY <2>2 DEF GatherInv, LocalInv
  <2>3. CASE /\ q = r /\ call[r] < Calls /\ call'[r] = call[r] + 1
             /\ local'[r] = input[call[r] + 1][r] /\ round'[r] = 2 * 1
    <3>1. input[call[r] + 1] \in Tables
      BY <1>3, <2>3 DEF GatherInv, Typed
    <3>2. \A h \in Powers : round'[r] = 2 * h => h = 1
      BY <2>3, PowersRight
    <3> QED BY <2>3, <3>1, <3>2, InputRight
  <2> QED BY <1>5, <2>1, <2>2, <2>3
<1>9. GatheredInv'
  <2> SUFFICES ASSUME NEW q \in ColRank
               PROVE  /\ IsSequence(gathered'[q])
                      /\ Len(gathered'[q]) = IF pc'[q] = "done" THEN call'[q] ELSE call'[q] - 1
                      /\ \A c \in 1 .. Len(gathered'[q]) :
                           /\ ShareOf(gathered'[q][c], input[c])
                           /\ q = 0 => \E h \in Powers : 2 * h > ColNeighs /\ Gathers(gathered'[q][c], input[c], q, h)
    BY <1>4 DEF GatheredInv
  <2>1. CASE q # r
    BY <1>4, <2>1 DEF GatherInv, GatheredInv
  <2>2. CASE q = r
    <3>1. IsSequence(gathered[r]) /\ Len(gathered[r]) = call[r] - 1
      BY <1>4 DEF GatherInv, GatheredInv
    <3>2. /\ IsSequence(gathered'[r]) /\ Len(gathered'[r]) = call[r]
          /\ \A k \in 1 .. Len(gathered[r]) : gathered'[r][k] = gathered[r][k]
          /\ gathered'[r][call[r]] = local[r]
      BY <1>3, <1>4, <3>1, Appended
    <3>3. Len(gathered'[r]) = IF pc'[r] = "done" THEN call'[r] ELSE call'[r] - 1
      BY <1>3, <1>5, <3>2
    <3>4. ASSUME NEW c \in 1 .. call[r]
          PROVE  /\ ShareOf(gathered'[r][c], input[c])
                 /\ r = 0 => \E h \in Powers : 2 * h > ColNeighs /\ Gathers(gathered'[r][c], input[c], r, h)
      <4>1. CASE c = call[r]
        <5>1. ShareOf(local[r], input[call[r]])
          BY DEF GatherInv, LocalInv
        <5>2. r = 0 => r % g = 0
          BY <1>3
        <5>3. r = 0 => Gathers(local[r], input[call[r]], r, g)
          BY <1>2, <5>2 DEF GatherInv, LocalInv
        <5> QED BY <1>3, <3>2, <4>1, <5>1, <5>3
      <4>2. CASE c # call[r]
        <5>1. c \in 1 .. Len(gathered[r])
          BY <1>3, <3>1, <4>2
        <5> QED BY <3>2, <5>1 DEF GatherInv, GatheredInv
      <4> QED BY <4>1, <4>2
    <3> QED BY <2>2, <3>2, <3>3, <3>4
  <2> QED BY <2>1, <2>2
<1>10. ASSUME NEW s \in ColRank, NEW q \in ColRank PROVE LinkOK(s, q)'
  <2>1. ASSUME Link(s, q) PROVE Sent(s, q)' = Sent(s, q) /\ Received(s, q)' = Received(s, q)
    <3> DEFINE h == s - q
    <3>1. h \in Powers /\ 2 * h <= ColNeighs /\ h \in Nat
      BY <2>1, PowersRight DEF Link
    <3>2. round[r] \in Nat /\ round[r] > 2 * h
      BY <1>2, <1>3, <3>1
    <3>3. \A a : SentIn(round[r], a, h) = 2 /\ ReceivedIn(round[r], a, h) = 2
      BY <3>1, <3>2, Phases
    <3>4. SentIn(2 * 1, "round", h) = 0 /\ ReceivedIn(2 * 1, "round", h) = 0
      BY <3>1, Phases
    <3>5. Sent(s, q)' = Sent(s, q)
      <4>1. CASE s # r
        BY <1>4, <4>1 DEF Sent
      <4>2. CASE s = r
        <5>1. Sent(s, q) = 2 * (call[r] - 1) + 2
          BY <3>3, <4>2 DEF Sent
        <5>2. Sent(s, q)' = 2 * (call'[r] - 1) + SentIn(round'[r], pc'[r], h)
          BY <4>2 DEF Sent
        <5> HIDE DEF h
        <5> QED BY <1>3, <1>5, <3>3, <3>4, <5>1, <5>2
      <4> QED BY <4>1, <4>2
    <3>6. Received(s, q)' = Received(s, q)
      <4>1. CASE q # r
        BY <1>4, <4>1 DEF Received
      <4>2. CASE q = r
        <5>1. Received(s, q) = 2 * (call[r] - 1) + 2
          BY <3>3, <4>2 DEF Received
        <5>2. Received(s, q)' = 2 * (call'[r] - 1) + ReceivedIn(round'[r], pc'[r], h)
          BY <4>2 DEF Received
        <5> HIDE DEF h
        <5> QED BY <1>3, <1>5, <3>3, <3>4, <5>1, <5>2
      <4> QED BY <4>1, <4>2
    <3> QED BY <3>5, <3>6
  <2> QED BY <1>4, <2>1, OtherLinks DEF GatherInv
<1>11. LinkInv'
  BY <1>10 DEF LinkInv
<1> QED BY <1>1, <1>6, <1>7, <1>8, <1>9, <1>11 DEF GatherInv

\* In the beginning every process has its own table of the first call.
LEMMA InitGathers == Init => GatherInv
<1> SUFFICES ASSUME Init PROVE GatherInv
  OBVIOUS
<1>1. IInv
  BY InitIInv
<1>2. 1 \in Powers /\ 1 \in 1 .. Calls /\ 1 <= ColNeighs /\ Calls \in Nat
  BY PowersRight, TreeGatherAssumption
<1>3. Typed
  BY <1>2 DEF Init, Typed
<1>4. Rounds
  <2>1. \A r \in ColRank : round[r] = 2 * 1 /\ pc[r] = "round"
    BY DEF Init
  <2> QED BY <1>2, <2>1 DEF Rounds
<1>5. LocalInv
  <2> SUFFICES ASSUME NEW r \in ColRank
               PROVE  /\ ShareOf(local[r], input[call[r]])
                      /\ \A h \in Powers : round[r] = 2 * h /\ r % h = 0 => Gathers(local[r], input[call[r]], r, h)
    BY DEF LocalInv
  <2>1. local[r] = input[1][r] /\ call[r] = 1 /\ input[1] \in Tables /\ round[r] = 2
    BY <1>2 DEF Init
  <2>2. \A h \in Powers : 2 = 2 * h => h = 1
    BY PowersRight
  <2> QED BY <2>1, <2>2, InputRight
<1>6. IsSequence(<<>>) /\ Len(<<>>) = 0
  BY DEF IsSequence
<1>7. LinkInv
  <2> SUFFICES ASSUME NEW s \in ColRank, NEW r \in ColRank PROVE LinkOK(s, r)
    BY DEF LinkInv
  <2>1. chan[s][r] = <<>>
    BY DEF Init
  <2>2. ASSUME Link(s, r) PROVE Sent(s, r) = 0 /\ Received(s, r) = 0
    <3>1. s - r \in Powers
      BY <2>2 DEF Link
    <3>2. SentIn(2, "round", s - r) = 0 /\ ReceivedIn(2, "round", s - r) = 0
      BY <3>1, Phases
    <3> QED BY <3>2 DEF Init, Sent, Received
  <2> QED BY <1>6, <2>1, <2>2 DEF LinkOK, UnderWay
<1>8. GatheredInv
  BY <1>6 DEF Init, GatheredInv
<1> QED BY <1>1, <1>3, <1>4, <1>5, <1>7, <1>8 DEF GatherInv

\* The next-state relation.
LEMMA NextGathers == GatherInv /\ [Next]_vars => GatherInv'
<1> SUFFICES ASSUME GatherInv, [Next]_vars PROVE GatherInv'
  OBVIOUS
<1>1. ASSUME NEW r \in ColRank, Step(r) PROVE GatherInv'
  <2>1. CASE SendCount(r)
    BY <2>1, SendCountGathers
  <2>2. CASE SendData(r)
    BY <2>2, SendDataGathers
  <2>3. CASE RecvCount(r)
    BY <2>3, RecvCountGathers
  <2>4. CASE RecvData(r)
    BY <2>4, RecvDataGathers
  <2>5. CASE Return(r)
    BY <2>5, ReturnGathers
  <2>6. CASE DataReturned(r) \/ Skip(r)
    <3>1. IInv'
      BY <1>1, NextIInv DEF GatherInv, Next
    <3>2. PICK g \in Powers : round[r] = 2 * g /\ g <= ColNeighs
      BY DEF GatherInv, Rounds
    <3>3. g \in Nat \ {0} /\ r \in Nat
      BY PowersRight DEF ColRank
    <3>4. CASE DataReturned(r)
      <4>1. r % (2 * g) = g /\ 2 * g <= ColNeighs /\ pc[r] = "dataSent"
        BY <3>2, <3>4, RoundOf DEF DataReturned, GatherInv, Rounds
      <4>2. ~ Receives(r, 2 * g)
        BY <3>3, <4>1, RoundOf
      <4>3. Typed' /\ pc'[r] = "round" /\ \A q \in ColRank : q # r => pc'[q] = pc[q]
        BY <3>4 DEF GatherInv, Typed, DataReturned, Goto
      <4> QED BY <3>1, <3>2, <3>4, <4>1, <4>2, <4>3, NextRoundGathers DEF DataReturned, NextRound
    <3>5. CASE Skip(r)
      <4>1. r % (2 * g) # g /\ 2 * g <= ColNeighs /\ ~ Receives(r, 2 * g) /\ pc[r] = "round"
        BY <3>2, <3>5, RoundOf DEF Skip, MoreRounds
      <4>2. Typed' /\ pc' = pc
        BY <3>5 DEF GatherInv, Typed, Skip
      <4> QED BY <3>1, <3>2, <3>5, <4>1, <4>2, NextRoundGathers DEF Skip, NextRound
    <3> QED BY <2>6, <3>4, <3>5
  <2> QED BY <1>1, <2>1, <2>2, <2>3, <2>4, <2>5, <2>6 DEF Step
<1>2. CASE UNCHANGED vars
  <2>1. IInv'
    BY NextIInv DEF GatherInv
  <2>2. Typed' /\ Rounds' /\ LocalInv' /\ GatheredInv'
    BY <1>2 DEF vars, GatherInv, Typed, Rounds, LocalInv, GatheredInv
  <2>3. LinkInv'
    BY <1>2 DEF vars, GatherInv, LinkInv, LinkOK, Link, Sent, Received
  <2> QED BY <2>1, <2>2, <2>3 DEF GatherInv
<1> QED BY <1>1, <1>2 DEF Next, Terminated

\* It holds in every state.
LEMMA GathersAlways == Spec => []GatherInv
BY InitGathers, NextGathers, PTL DEF Spec

\* The variables of the gather have their types: the rounds stop at the first power of two above
\* the number of processes, the tables have pairs of their call only, and a receiver is never
\* behind by more than the messages of all calls (send_local_indices).
THEOREM GatherTypes == Spec => []TypeOK
<1>1. ASSUME GatherInv PROVE TypeOK
  <2>1. \A r \in ColRank : round[r] \in {2 * h : h \in Powers} /\ round[r] <= 2 * ColNeighs
    <3> SUFFICES ASSUME NEW r \in ColRank
                 PROVE  round[r] \in {2 * h : h \in Powers} /\ round[r] <= 2 * ColNeighs
      OBVIOUS
    <3>1. PICK h \in Powers : round[r] = 2 * h /\ h <= ColNeighs
      BY <1>1 DEF GatherInv, Rounds
    <3>2. h \in Nat /\ ColNeighs \in Nat
      BY PowersRight, TreeGatherAssumption
    <3> QED BY <3>1, <3>2
  <2>2. \A r \in ColRank : \A i \in DOMAIN local[r] : local[r][i] \in Pairs(input[call[r]])
    <3> SUFFICES ASSUME NEW r \in ColRank
                 PROVE  \A i \in DOMAIN local[r] : local[r][i] \in Pairs(input[call[r]])
      OBVIOUS
    <3>1. ShareOf(local[r], input[call[r]])
      BY <1>1 DEF GatherInv, LocalInv
    <3>2. DOMAIN local[r] = 1 .. Len(local[r])
      BY <3>1 DEF ShareOf, IsTable, IsSequence
    <3> QED BY <3>1, <3>2 DEF ShareOf
  <2>3. ASSUME NEW s \in ColRank, NEW r \in ColRank PROVE Len(chan[s][r]) <= 2 * Calls
    <3>1. LinkOK(s, r)
      BY <1>1 DEF GatherInv, LinkInv
    <3>2. CASE Link(s, r)
      <4>1. Len(chan[s][r]) = Sent(s, r) - Received(s, r)
        BY <3>1, <3>2 DEF LinkOK, UnderWay
      <4>2. Sent(s, r) \in Nat /\ Received(s, r) \in Nat /\ Sent(s, r) <= 2 * Calls /\ Calls \in Nat
        BY <1>1, <3>2, Counts, TreeGatherAssumption DEF GatherInv
      <4> QED BY <4>1, <4>2
    <3>3. CASE ~ Link(s, r)
      BY <3>1, <3>3, TreeGatherAssumption DEF LinkOK
    <3> QED BY <3>2, <3>3
  <2> QED BY <1>1, <2>1, <2>2, <2>3 DEF TypeOK, GatherInv, Typed
<1> QED BY <1>1, GathersAlways, PTL

\* The table of a process is sorted by column through every merge (merge_local_vectors): the
\* joins that follow compare the heads of their tables only.
THEOREM GatherSorted == Spec => []StaysSorted
<1>1. ASSUME GatherInv PROVE StaysSorted
  <2> SUFFICES ASSUME NEW r \in ColRank
               PROVE  \A i, j \in DOMAIN local[r] : i < j => local[r][i][2] <= local[r][j][2]
    BY DEF StaysSorted
  <2>1. IsTable(local[r])
    BY <1>1 DEF GatherInv, LocalInv, ShareOf
  <2>2. DOMAIN local[r] = 1 .. Len(local[r])
    BY <2>1 DEF IsTable, IsSequence
  <2> QED BY <2>1, <2>2 DEF IsTable
<1> QED BY <1>1, GathersAlways, PTL

\* If the number of processes of the column is a power of two, the first process returns from
\* every call with the pairs of all of them, each as often as they have it and none of another
\* call (send_local_indices).  With three processes, a grid of nine, it does not: the run of
\* TreeGatherThree.cfg loses the table of the last one.
THEOREM GatherComplete ==
  ASSUME ColNeighs \in Powers
  PROVE  Spec => []FirstHasAll
<1>1. ASSUME GatherInv PROVE FirstHasAll
  <2>1. 0 \in ColRank /\ ColNeighs \in Nat
    BY TreeGatherAssumption DEF ColRank
  <2>2. IsSequence(gathered[0]) /\ DOMAIN gathered[0] = 1 .. Len(gathered[0])
    BY <1>1, <2>1 DEF GatherInv, GatheredInv, IsSequence
  <2>3. ASSUME NEW c \in 1 .. Len(gathered[0])
        PROVE  /\ \A i \in DOMAIN gathered[0][c] : gathered[0][c][i] \in Pairs(input[c])
               /\ \A pair \in Pairs(input[c]) :
                    Times(gathered[0][c], pair) = TimesBelow(input[c], pair)[ColNeighs]
    <3> DEFINE t == gathered[0][c]
    <3>1. ShareOf(t, input[c])
      BY <1>1, <2>1 DEF GatherInv, GatheredInv
    <3>2. DOMAIN t = 1 .. Len(t)
      BY <3>1 DEF ShareOf, IsTable, IsSequence
    <3>3. PICK h \in Powers : 2 * h > ColNeighs /\ Gathers(t, input[c], 0, h)
      BY <1>1, <2>1 DEF GatherInv, GatheredInv
    <3>4. h \in Nat /\ h >= ColNeighs
      <4>1. h \in Nat
        BY PowersRight
      <4>2. h < ColNeighs => 2 * h <= ColNeighs
        BY PowersRight
      <4> HIDE DEF t
      <4> QED BY <2>1, <3>3, <4>1, <4>2
    <3>5. Reach(0, h) = ColNeighs
      BY <2>1, <3>4 DEF Reach
    <3>6. \A q \in ColRank : IsSequence(input[c][q])
      <4>1. Len(gathered[0]) <= call[0] /\ call[0] \in 1 .. Calls
        BY <1>1, <2>1 DEF GatherInv, GatheredInv, Typed
      <4>2. c \in 1 .. Calls /\ input[c] \in Tables
        BY <1>1, <4>1, TreeGatherAssumption DEF GatherInv, Typed
      <4> QED BY <4>2, InputRight
    <3>7. ASSUME NEW pair \in Pairs(input[c]) PROVE Times(t, pair) = TimesBelow(input[c], pair)[ColNeighs]
      <4> DEFINE b == TimesBelow(input[c], pair)
      <4>1. Times(t, pair) = b[ColNeighs] - b[0]
        BY <3>3, <3>5 DEF Gathers
      <4>2. b[0] = 0 /\ b[ColNeighs] \in Nat
        BY <2>1, <3>6, TimesBelowRight
      <4> QED BY <4>1, <4>2
    <3> QED BY <3>1, <3>2, <3>7 DEF ShareOf
  <2> QED BY <2>2, <2>3 DEF FirstHasAll
<1> QED BY <1>1, GathersAlways, PTL
=============================================================================
