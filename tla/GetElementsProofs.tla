------------------------------ MODULE GetElementsProofs ------------------------------
(***************************************************************************)
(* GetElements is right for every grid, length of the vector, number of    *)
(* calls and index vectors in the vector's range: the exchanges of one     *)
(* call are never taken for those of another although nothing but their    *)
(* order tells them apart, owners are asked only for what they own, and    *)
(* the answers end up where they were asked for.                           *)
(***************************************************************************)
EXTENDS GetElements, CommonProofs

\* The exchanges of the current call that a process has entered at a control point, and
\* those of all its calls.
Made(label) ==
  IF label = "ask" THEN 0 ELSE IF label = "counts" THEN 1 ELSE IF label = "requests" THEN 2 ELSE 3
Exchanges(p) == 3 * (call[p] - 1) + Made(pc[p])

\* The calls it has finished.
Finished(p) == IF pc[p] = "done" THEN Calls ELSE call[p] - 1

Types ==
  /\ glen \in Lengths /\ index_vec \in Requests(glen)
  /\ call \in [Procs -> 1 .. Calls]
  /\ pc \in [Procs -> {"ask", "counts", "requests", "answers", "done"}]
  /\ \A p \in Procs : pc[p] = "done" => call[p] = Calls
  /\ DOMAIN sent = Procs /\ DOMAIN recvdata = Procs /\ DOMAIN out_vec = Procs

\* A process that is in no exchange has seen everybody in its last one.
InStep == \A p, q \in Procs :
  /\ Exchanges(p) - 1 <= Exchanges(q)
  /\ pc[p] \in {"ask", "done"} => Exchanges(p) <= Exchanges(q)

\* What p gives in the last two exchanges of call c: requests and answers.
Asks(p, c) == [q \in Procs |-> Wanted(index_vec[p][c], q)]
AnswersTo(p, inds) == [j \in DOMAIN inds |-> Lookup(p, inds[j])]
Answers(p, c) == [q \in Procs |-> AnswersTo(p, Wanted(index_vec[q][c], p))]

SentInv == \A p \in Procs :
  /\ IsSequence(sent[p]) /\ Len(sent[p]) = Exchanges(p)
  /\ \A c \in 1 .. Calls :
       /\ 3 * c - 1 <= Exchanges(p) => sent[p][3 * c - 1] = Asks(p, c)
       /\ 3 * c <= Exchanges(p) => sent[p][3 * c] = Answers(p, c)

AskedInv == \A p, q \in Procs :
  recvdata[p][q] = <<>> \/ \E c \in 1 .. Calls : recvdata[p][q] = Wanted(index_vec[q][c], p)

OutInv == \A p \in Procs :
  /\ IsSequence(out_vec[p]) /\ Len(out_vec[p]) = Finished(p)
  /\ \A c \in 1 .. Finished(p) :
       out_vec[p][c] = [i \in DOMAIN index_vec[p][c] |-> Element(index_vec[p][c][i])]

IInv == Types /\ InStep /\ SentInv /\ AskedInv /\ OutInv

-----------------------------------------------------------------------------
(* The parts of an exchange. *)

\* Who owns an element has it and knows where (FullyDist::Owner, arr[locind]).
LEMMA OwnedElement ==
  ASSUME glen \in Nat, NEW ind \in 0 .. glen - 1
  PROVE  LET p == Owner(glen, ind).rank
         IN /\ p \in Procs
            /\ Lookup(p, ind) = Element(ind)
            /\ Owner(glen, ind).lind \in DOMAIN arr(p)
            /\ ind - LengthUntil(glen, RankInProcCol(p), RankInProcRow(p)) \in DOMAIN arr(p)
<1> DEFINE place == OwnerPlace(glen, ind)
           p == GetRank(place.row, place.col)
<1>1. /\ place.row \in 0 .. ProcRows - 1 /\ place.col \in 0 .. ProcCols - 1
      /\ place.lind \in 0 .. MyLocLength(glen, place.row, place.col) - 1
      /\ LengthUntil(glen, place.row, place.col) + place.lind = ind
  BY OwnerInRange
<1>2. Owner(glen, ind).rank = p /\ Owner(glen, ind).lind = place.lind
  BY DEF Owner, AtRank
<1> HIDE DEF place
<1>3. RankInProcCol(p) = place.row /\ RankInProcRow(p) = place.col /\ p \in Procs
  BY <1>1, RankRight
<1> HIDE DEF p
<1>4. arr(p) = [l \in 0 .. MyLocLength(glen, place.row, place.col) - 1 |->
                  Element(LengthUntil(glen, place.row, place.col) + l)]
  BY <1>3 DEF arr
<1>5. place.lind \in DOMAIN arr(p) /\ arr(p)[place.lind] = Element(ind)
  BY <1>1, <1>4
<1>6. Lookup(p, ind) = Element(ind)
  BY <1>2, <1>5 DEF Lookup
<1>7. LengthUntil(glen, place.row, place.col) \in Int
  <2>1. MyRowLength(glen, place.row) \in Nat /\ PartStart(glen, ProcRows, place.row) \in Nat
    BY <1>1, RowLengthType, PartTypes, GridAssumption
  <2>2. RowLenUntil(glen, place.row, place.col) \in Nat
    BY <1>1, <2>1, PartTypes, GridAssumption DEF RowLenUntil
  <2> QED BY <2>1, <2>2 DEF LengthUntil
<1>8. ind - LengthUntil(glen, RankInProcCol(p), RankInProcRow(p)) = place.lind
  BY <1>1, <1>3, <1>7
<1> QED BY <1>2, <1>3, <1>5, <1>6, <1>8

\* An index vector asks for elements of the vector.
IsRequest(inds) ==
  /\ DOMAIN inds = 1 .. Len(inds) /\ Len(inds) \in Nat
  /\ \A i \in DOMAIN inds : inds[i] \in 0 .. glen - 1

\* The positions that are sent to an owner are exactly those it owns.
LEMMA PositionsRight ==
  ASSUME NEW inds, IsRequest(inds), NEW q
  PROVE  /\ \A j \in DOMAIN Positions(inds, q) :
              /\ Positions(inds, q)[j] \in DOMAIN inds
              /\ Owner(glen, inds[Positions(inds, q)[j]]).rank = q
         /\ \A i \in DOMAIN inds : Owner(glen, inds[i]).rank = q =>
              \E j \in DOMAIN Positions(inds, q) : Positions(inds, q)[j] = i
<1> DEFINE mine == {i \in DOMAIN inds : Owner(glen, inds[i]).rank = q}
           e == InOrderOf(mine, LAMBDA i, j : i < j)
<1>1. DOMAIN inds = 1 .. Len(inds) /\ Len(inds) \in Nat
  BY DEF IsRequest
<1>2. mine \in SUBSET Int /\ IsFiniteSet(mine)
  <2>1. IsFiniteSet(1 .. Len(inds)) /\ mine \in SUBSET (1 .. Len(inds))
    BY <1>1, FS_Interval
  <2> HIDE DEF mine
  <2>2. IsFiniteSet(mine)
    BY <2>1, FS_Subset
  <2> QED BY <2>1, <2>2
<1>3. e \in [1 .. Cardinality(mine) -> mine] /\ \A i \in mine : \E j \in 1 .. Cardinality(mine) : e[j] = i
  <2> HIDE DEF mine
  <2> QED BY <1>2, Ascending
<1>4. Positions(inds, q) = e
  BY DEF Positions
<1> HIDE DEF e
<1> QED BY <1>3, <1>4

\* Owners are asked only for what was to be asked and is theirs.
LEMMA WantedOwned ==
  ASSUME NEW inds, IsRequest(inds), NEW q, NEW j \in DOMAIN Wanted(inds, q)
  PROVE  Wanted(inds, q)[j] \in 0 .. glen - 1 /\ Owner(glen, Wanted(inds, q)[j]).rank = q
<1>1. j \in DOMAIN Positions(inds, q) /\ Wanted(inds, q)[j] = inds[Positions(inds, q)[j]]
  BY DEF Wanted
<1>2. Positions(inds, q)[j] \in DOMAIN inds /\ Owner(glen, inds[Positions(inds, q)[j]]).rank = q
  BY <1>1, PositionsRight
<1> QED BY <1>1, <1>2 DEF IsRequest

\* Asking all owners and putting back what they answer gives the elements asked for.
LEMMA RoundTrip ==
  ASSUME glen \in Nat, NEW inds, IsRequest(inds),
         NEW answers, \A q \in Procs : answers[q] = AnswersTo(q, Wanted(inds, q))
  PROVE  Restored(inds, answers) = [i \in DOMAIN inds |-> Element(inds[i])]
<1> SUFFICES ASSUME NEW i \in DOMAIN inds
             PROVE  LET q == Owner(glen, inds[i]).rank
                        j == CHOOSE j \in DOMAIN Positions(inds, q) : Positions(inds, q)[j] = i
                    IN answers[q][j] = Element(inds[i])
  BY ZenonT(60) DEF Restored
<1> DEFINE q == Owner(glen, inds[i]).rank
           j == CHOOSE j \in DOMAIN Positions(inds, q) : Positions(inds, q)[j] = i
<1>1. inds[i] \in 0 .. glen - 1
  BY DEF IsRequest
<1>2. q \in Procs /\ Lookup(q, inds[i]) = Element(inds[i])
  BY <1>1, OwnedElement
<1>3. ASSUME NEW r, r = Owner(glen, inds[i]).rank
      PROVE  \E k \in DOMAIN Positions(inds, r) : Positions(inds, r)[k] = i
  BY <1>3, PositionsRight
<1> HIDE DEF q
<1>4. j \in DOMAIN Positions(inds, q) /\ Positions(inds, q)[j] = i
  BY <1>3 DEF q
<1> HIDE DEF j
<1>5. j \in DOMAIN Wanted(inds, q) /\ Wanted(inds, q)[j] = inds[i]
  BY <1>4 DEF Wanted
<1>6. answers[q][j] = Lookup(q, inds[i])
  BY <1>2, <1>5, ZenonT(60) DEF AnswersTo
<1> QED BY <1>2, <1>6 DEF q, j

-----------------------------------------------------------------------------
(* Every step keeps the invariant. *)

\* Numbers of exchanges.
LEMMA ExchangesType ==
  ASSUME Types, NEW p \in Procs
  PROVE  /\ Calls \in Nat /\ call[p] \in 1 .. Calls
         /\ Made(pc[p]) \in 0 .. 3 /\ Exchanges(p) \in Nat /\ Exchanges(p) <= 3 * Calls
         /\ Exchanges(p) = 3 * call[p] - 3 + Made(pc[p])
<1>1. Calls \in Nat /\ call[p] \in 1 .. Calls
  BY RequestsAssumption DEF Types
<1>2. Made(pc[p]) \in 0 .. 3
  BY DEF Made
<1> QED BY <1>1, <1>2 DEF Exchanges

\* Every index vector asks for elements of the vector.
LEMMA VectorsRequest ==
  ASSUME Types
  PROVE  glen \in Nat /\ \A p \in Procs, c \in 1 .. Calls : IsRequest(index_vec[p][c])
<1>1. glen \in Nat /\ index_vec \in [Procs -> [1 .. Calls -> Seq(0 .. glen - 1)]]
  BY RequestsAssumption DEF Types
<1>2. ASSUME NEW S, NEW inds \in Seq(S)
      PROVE  DOMAIN inds = 1 .. Len(inds) /\ Len(inds) \in Nat /\ \A i \in DOMAIN inds : inds[i] \in S
  OBVIOUS
<1>3. ASSUME NEW p \in Procs, NEW c \in 1 .. Calls PROVE IsRequest(index_vec[p][c])
  <2> DEFINE inds == index_vec[p][c]
             S == 0 .. glen - 1
  <2>1. inds \in Seq(S)
    BY <1>1
  <2> HIDE DEF inds, S
  <2>2. DOMAIN inds = 1 .. Len(inds) /\ Len(inds) \in Nat /\ \A i \in DOMAIN inds : inds[i] \in S
    BY <1>2, <2>1
  <2> QED BY <2>2 DEF IsRequest, inds, S
<1> QED BY <1>1, <1>3

\* The vector and what is asked of it do not change, nor what is exchanged for it.
LEMMA SameData ==
  ASSUME glen' = glen, index_vec' = index_vec
  PROVE  /\ \A inds, q : Wanted(inds, q)' = Wanted(inds, q)
         /\ \A i : Element(i)' = Element(i)
         /\ \A p, c : Asks(p, c)' = Asks(p, c)
         /\ \A p, c : Answers(p, c)' = Answers(p, c)
<1>1. \A inds, q : Wanted(inds, q)' = Wanted(inds, q)
  <2>1. \A inds, q : Positions(inds, q)' = Positions(inds, q)
    BY DEF Positions, InOrderOf
  <2> QED BY <2>1 DEF Wanted
<1>2. \A i : Element(i)' = Element(i)
  BY DEF Element
<1>3. \A p, i : Lookup(p, i)' = Lookup(p, i)
  BY DEF Lookup, arr, Element
<1>4. \A p, inds : AnswersTo(p, inds)' = AnswersTo(p, inds)
  BY <1>3 DEF AnswersTo
<1>5. \A p, c : Asks(p, c)' = Asks(p, c)
  BY <1>1 DEF Asks
<1>6. \A p, c : Answers(p, c)' = Answers(p, c)
  BY <1>1, <1>4 DEF Answers
<1> QED BY <1>1, <1>2, <1>5, <1>6

\* A process enters its next exchange with the data that belongs there, when everybody has
\* entered the one before.
LEMMA Exchanged ==
  ASSUME IInv, NEW p \in Procs, NEW data, NEW label \in {"counts", "requests", "answers"},
         Exchange(p, data), Goto(p, label), UNCHANGED <<glen, index_vec, call, out_vec>>,
         Made(label) = Made(pc[p]) + 1, pc[p] # "done", DOMAIN recvdata' = Procs,
         \A q \in Procs : Exchanges(p) <= Exchanges(q),
         \A c \in 1 .. Calls :
           /\ 3 * c - 1 = Exchanges(p) + 1 => data = Asks(p, c)
           /\ 3 * c = Exchanges(p) + 1 => data = Answers(p, c)
  PROVE  Types' /\ InStep' /\ SentInv' /\ OutInv'
<1>1. Types'
  BY DEF IInv, Types, Exchange, Goto
<1>2. /\ Exchanges(p)' = Exchanges(p) + 1
      /\ \A q \in Procs : q # p => Exchanges(q)' = Exchanges(q)
      /\ \A q \in Procs : Exchanges(q) \in Nat
      /\ pc'[p] = label /\ \A q \in Procs : q # p => pc'[q] = pc[q]
  BY ExchangesType DEF IInv, Types, Goto, Exchanges
<1>3. InStep'
  BY <1>2 DEF IInv, InStep
<1>4. ASSUME NEW q \in Procs
      PROVE  /\ IsSequence(sent'[q]) /\ Len(sent'[q]) = Exchanges(q)'
             /\ \A c \in 1 .. Calls :
                  /\ 3 * c - 1 <= Exchanges(q)' => sent'[q][3 * c - 1] = Asks(q, c)
                  /\ 3 * c <= Exchanges(q)' => sent'[q][3 * c] = Answers(q, c)
  <2>1. /\ IsSequence(sent[q]) /\ Len(sent[q]) = Exchanges(q)
        /\ \A c \in 1 .. Calls :
             /\ 3 * c - 1 <= Exchanges(q) => sent[q][3 * c - 1] = Asks(q, c)
             /\ 3 * c <= Exchanges(q) => sent[q][3 * c] = Answers(q, c)
    BY DEF IInv, SentInv
  <2>2. CASE q # p
    <3>1. sent'[q] = sent[q] /\ Exchanges(q)' = Exchanges(q)
      BY <1>2, <2>2 DEF Exchange, IInv, Types
    <3> QED BY <2>1, <3>1
  <2>3. CASE q = p
    <3>1. sent'[p] = Append(sent[p], data)
      BY DEF Exchange, IInv, Types
    <3> DEFINE n == Exchanges(p)
               s == sent[p]
               t == sent'[p]
    <3>2. IsSequence(t) /\ Len(t) = n + 1 /\ n \in Nat /\ t[n + 1] = data /\ \A k \in 1 .. n : t[k] = s[k]
      BY <1>2, <2>1, <2>3, <3>1, Appended
    <3>3. ASSUME NEW c \in 1 .. Calls
          PROVE  /\ 3 * c - 1 <= n + 1 => t[3 * c - 1] = Asks(p, c)
                 /\ 3 * c <= n + 1 => t[3 * c] = Answers(p, c)
      <4>1. c \in Nat /\ 3 * c - 1 >= 1 /\ 3 * c - 1 \in Nat /\ 3 * c \in Nat
        OBVIOUS
      <4>2. /\ 3 * c - 1 <= n => s[3 * c - 1] = Asks(p, c)
            /\ 3 * c <= n => s[3 * c] = Answers(p, c)
            /\ 3 * c - 1 = n + 1 => data = Asks(p, c)
            /\ 3 * c = n + 1 => data = Answers(p, c)
        BY <2>1, <2>3
      <4> HIDE DEF n, s, t
      <4>3. ASSUME 3 * c - 1 <= n + 1 PROVE t[3 * c - 1] = Asks(p, c)
        <5>1. CASE 3 * c - 1 = n + 1
          BY <3>2, <4>2, <5>1
        <5>2. CASE 3 * c - 1 # n + 1
          <6>1. 3 * c - 1 \in 1 .. n
            BY <3>2, <4>1, <4>3, <5>2
          <6> QED BY <3>2, <4>2, <6>1
        <5> QED BY <5>1, <5>2
      <4>4. ASSUME 3 * c <= n + 1 PROVE t[3 * c] = Answers(p, c)
        <5>1. CASE 3 * c = n + 1
          BY <3>2, <4>2, <5>1
        <5>2. CASE 3 * c # n + 1
          <6>1. 3 * c \in 1 .. n
            BY <3>2, <4>1, <4>4, <5>2
          <6> QED BY <3>2, <4>2, <6>1
        <5> QED BY <5>1, <5>2
      <4> QED BY <4>3, <4>4
    <3> QED BY <1>2, <2>3, <3>2, <3>3
  <2> QED BY <2>2, <2>3
<1>5. SentInv'
  BY <1>4, SameData DEF SentInv
<1>6. OutInv'
  <2>1. \A q \in Procs : Finished(q)' = Finished(q)
    BY <1>2 DEF Finished
  <2> QED BY <2>1, SameData DEF IInv, OutInv
<1> QED BY <1>1, <1>3, <1>5, <1>6

\* Before the first call nothing is exchanged.
LEMMA InitIInv == Init => IInv
<1> SUFFICES ASSUME Init PROVE IInv
  OBVIOUS
<1>1. Calls \in Nat \ {0}
  BY RequestsAssumption
<1>2. \A p \in Procs : call[p] = 1 /\ pc[p] = "ask" /\ sent[p] = <<>> /\ out_vec[p] = <<>>
                       /\ \A q \in Procs : recvdata[p][q] = <<>>
  BY DEF Init
<1>3. Types
  BY <1>1 DEF Init, Types
<1>4. \A p \in Procs : Exchanges(p) = 0 /\ Finished(p) = 0
  BY <1>2 DEF Exchanges, Made, Finished
<1>5. InStep
  BY <1>4 DEF InStep
<1>6. IsSequence(<<>>) /\ Len(<<>>) = 0
  BY DEF IsSequence
<1>7. SentInv
  BY <1>2, <1>4, <1>6 DEF SentInv
<1>8. AskedInv
  BY <1>2 DEF AskedInv
<1>9. OutInv
  BY <1>2, <1>4, <1>6 DEF OutInv
<1> QED BY <1>3, <1>5, <1>7, <1>8, <1>9 DEF IInv

\* The first exchange of a call carries neither requests nor answers.
LEMMA AskIInv ==
  ASSUME IInv, NEW p \in Procs, Ask(p)
  PROVE  IInv'
<1> DEFINE data == [q \in Procs |-> Len(Positions(Asked(p), q))]
<1>1. /\ pc[p] = "ask" /\ Exchange(p, data) /\ Goto(p, "counts")
      /\ UNCHANGED <<glen, index_vec, call, recvdata, out_vec>>
  BY DEF Ask
<1> HIDE DEF data
<1>2. call[p] \in Nat /\ Exchanges(p) = 3 * call[p] - 3
  BY <1>1, ExchangesType DEF IInv, Made
<1>3. \A q \in Procs : Exchanges(p) <= Exchanges(q)
  BY <1>1 DEF IInv, InStep
<1>4. \A c \in 1 .. Calls : 3 * c - 1 # Exchanges(p) + 1 /\ 3 * c # Exchanges(p) + 1
  BY <1>2
<1>5. Made("counts") = Made(pc[p]) + 1 /\ DOMAIN recvdata' = Procs
  BY <1>1 DEF Made, IInv, Types
<1>6. Types' /\ InStep' /\ SentInv' /\ OutInv'
  BY <1>1, <1>3, <1>4, <1>5, Exchanged
<1>7. AskedInv'
  BY <1>1, SameData DEF IInv, AskedInv
<1> QED BY <1>6, <1>7 DEF IInv

\* Everybody a process waits for has entered as many exchanges.
LEMMA ArrivedExchanges ==
  ASSUME IInv, NEW p \in Procs, AllArrived(sent, Procs, p)
  PROVE  \A q \in Procs : Exchanges(p) <= Exchanges(q)
BY DEF IInv, SentInv, AllArrived

\* The requests.
LEMMA SendRequestsIInv ==
  ASSUME IInv, NEW p \in Procs, SendRequests(p)
  PROVE  IInv'
<1>1. /\ pc[p] = "counts" /\ Exchange(p, Asks(p, call[p])) /\ Goto(p, "requests")
      /\ UNCHANGED <<glen, index_vec, call, recvdata, out_vec>>
  BY DEF SendRequests, Asks, Asked
<1>2. call[p] \in Nat /\ Exchanges(p) = 3 * call[p] - 2
  BY <1>1, ExchangesType DEF IInv, Made
<1>3. \A q \in Procs : Exchanges(p) <= Exchanges(q)
  BY ArrivedExchanges DEF SendRequests
<1>4. \A c \in 1 .. Calls :
        /\ 3 * c - 1 = Exchanges(p) + 1 => Asks(p, call[p]) = Asks(p, c)
        /\ 3 * c = Exchanges(p) + 1 => Asks(p, call[p]) = Answers(p, c)
  <2> SUFFICES ASSUME NEW c \in 1 .. Calls
               PROVE  (3 * c - 1 = Exchanges(p) + 1 => c = call[p]) /\ 3 * c # Exchanges(p) + 1
    OBVIOUS
  <2> QED BY <1>2
<1>5. Made("requests") = Made(pc[p]) + 1 /\ DOMAIN recvdata' = Procs
  BY <1>1 DEF Made, IInv, Types
<1>6. Types' /\ InStep' /\ SentInv' /\ OutInv'
  BY <1>1, <1>3, <1>4, <1>5, Exchanged
<1>7. AskedInv'
  BY <1>1, SameData DEF IInv, AskedInv
<1> QED BY <1>6, <1>7 DEF IInv

\* The answers, to what the others asked for in the same call.
LEMMA AnswerIInv ==
  ASSUME IInv, NEW p \in Procs, Answer(p)
  PROVE  IInv'
<1> DEFINE asked == Received(sent, Procs, p)
           c == call[p]
           data == [q \in Procs |-> [j \in DOMAIN asked[q] |-> Lookup(p, asked[q][j])]]
<1>1. /\ pc[p] = "requests" /\ AllArrived(sent, Procs, p)
      /\ recvdata' = [recvdata EXCEPT ![p] = asked]
      /\ Exchange(p, data) /\ Goto(p, "answers")
      /\ UNCHANGED <<glen, index_vec, call, out_vec>>
  BY DEF Answer
<1>2. c \in 1 .. Calls /\ c \in Nat /\ Exchanges(p) = 3 * c - 1
  BY <1>1, ExchangesType DEF IInv, Made
<1>3. \A q \in Procs : Exchanges(p) <= Exchanges(q)
  BY <1>1, ArrivedExchanges
<1>4. ASSUME NEW q \in Procs PROVE asked[q] = Wanted(index_vec[q][c], p)
  <2>1. asked[q] = sent[q][3 * c - 1][p]
    BY <1>2 DEF Received, IInv, SentInv
  <2>2. sent[q][3 * c - 1] = Asks(q, c)
    BY <1>2, <1>3 DEF IInv, SentInv
  <2> QED BY <2>1, <2>2 DEF Asks
<1>5. data = Answers(p, c)
  <2> HIDE DEF asked, c
  <2> QED BY <1>4 DEF Answers, AnswersTo
<1> HIDE DEF data, asked
<1>6. \A d \in 1 .. Calls :
        /\ 3 * d - 1 = Exchanges(p) + 1 => data = Asks(p, d)
        /\ 3 * d = Exchanges(p) + 1 => data = Answers(p, d)
  <2> SUFFICES ASSUME NEW d \in 1 .. Calls
               PROVE  3 * d - 1 # Exchanges(p) + 1 /\ (3 * d = Exchanges(p) + 1 => d = c)
    BY <1>5
  <2> QED BY <1>2
<1>7. Made("answers") = Made(pc[p]) + 1 /\ DOMAIN recvdata' = Procs
  BY <1>1 DEF Made, IInv, Types
<1>8. Types' /\ InStep' /\ SentInv' /\ OutInv'
  BY <1>1, <1>3, <1>6, <1>7, Exchanged
<1>9. AskedInv'
  <2> SUFFICES ASSUME NEW r \in Procs, NEW q \in Procs
               PROVE  recvdata'[r][q] = <<>> \/ \E d \in 1 .. Calls : recvdata'[r][q] = Wanted(index_vec[q][d], r)
    BY <1>1, SameData DEF AskedInv
  <2>1. CASE r = p
    BY <1>1, <1>2, <1>4, <2>1 DEF IInv, Types
  <2>2. CASE r # p
    BY <1>1, <2>2 DEF IInv, Types, AskedInv
  <2> QED BY <2>1, <2>2
<1> QED BY <1>8, <1>9 DEF IInv

\* The end of a call: the answers are those of everybody to this call's requests.
LEMMA CollectIInv ==
  ASSUME IInv, NEW p \in Procs, Collect(p)
  PROVE  IInv'
<1> DEFINE answers == Received(sent, Procs, p)
           c == call[p]
<1>1. /\ pc[p] = "answers" /\ AllArrived(sent, Procs, p)
      /\ out_vec' = [out_vec EXCEPT ![p] = Append(@, Restored(index_vec[p][c], answers))]
      /\ \/ c < Calls /\ call' = [call EXCEPT ![p] = c + 1] /\ Goto(p, "ask")
         \/ ~ (c < Calls) /\ Goto(p, "done") /\ UNCHANGED call
      /\ UNCHANGED <<glen, index_vec, sent, recvdata>>
  BY DEF Collect, MoreCalls, Asked
<1>2. c \in 1 .. Calls /\ c \in Nat /\ Calls \in Nat /\ Exchanges(p) = 3 * c
  BY <1>1, ExchangesType DEF IInv, Made
<1>3. \A q \in Procs : Exchanges(p) <= Exchanges(q)
  BY <1>1, ArrivedExchanges
<1>4. ASSUME NEW q \in Procs PROVE answers[q] = AnswersTo(q, Wanted(index_vec[p][c], q))
  <2>1. answers[q] = sent[q][3 * c][p]
    BY <1>2 DEF Received, IInv, SentInv
  <2>2. sent[q][3 * c] = Answers(q, c)
    BY <1>2, <1>3 DEF IInv, SentInv
  <2> QED BY <2>1, <2>2 DEF Answers
<1> HIDE DEF answers
<1>5. Restored(index_vec[p][c], answers) = [i \in DOMAIN index_vec[p][c] |-> Element(index_vec[p][c][i])]
  <2>1. glen \in Nat /\ IsRequest(index_vec[p][c])
    BY <1>2, VectorsRequest DEF IInv
  <2> QED BY <1>4, <2>1, RoundTrip
<1>6. Types'
  <2>1. call' \in [Procs -> 1 .. Calls] /\ pc' \in [Procs -> {"ask", "counts", "requests", "answers", "done"}]
    <3>1. CASE c < Calls
      <4>1. c + 1 \in 1 .. Calls
        BY <1>2, <3>1
      <4> HIDE DEF c
      <4> QED BY <1>1, <3>1, <4>1 DEF IInv, Types, Goto
    <3>2. CASE ~ (c < Calls)
      BY <1>1, <3>2 DEF IInv, Types, Goto
    <3> QED BY <3>1, <3>2
  <2>2. \A q \in Procs : pc'[q] = "done" => call'[q] = Calls
    BY <1>1, <1>2 DEF IInv, Types, Goto
  <2>3. DOMAIN out_vec' = Procs
    BY <1>1 DEF IInv, Types
  <2> QED BY <1>1, <2>1, <2>2, <2>3 DEF IInv, Types
<1>7. /\ \A q \in Procs : Exchanges(q)' = Exchanges(q)
      /\ \A q \in Procs : q # p => pc'[q] = pc[q] /\ Finished(q)' = Finished(q)
      /\ Finished(p)' = c /\ Finished(p) = c - 1
  <2>1. ASSUME NEW q \in Procs, q # p
        PROVE  pc'[q] = pc[q] /\ Finished(q)' = Finished(q) /\ Exchanges(q)' = Exchanges(q)
    BY <1>1, <2>1 DEF IInv, Types, Goto, Exchanges, Finished
  <2>2. Exchanges(p)' = Exchanges(p) /\ Finished(p)' = c /\ Finished(p) = c - 1
    BY <1>1, <1>2 DEF IInv, Types, Goto, Exchanges, Made, Finished
  <2> QED BY <2>1, <2>2
<1>8. InStep'
  BY <1>3, <1>7 DEF IInv, InStep
<1>9. SentInv'
  BY <1>1, <1>7, SameData DEF IInv, SentInv
<1>10. AskedInv'
  BY <1>1, SameData DEF IInv, AskedInv
<1>11. OutInv'
  <2> SUFFICES ASSUME NEW q \in Procs
               PROVE  /\ IsSequence(out_vec'[q]) /\ Len(out_vec'[q]) = Finished(q)'
                      /\ \A d \in 1 .. Finished(q)' :
                           out_vec'[q][d] = [i \in DOMAIN index_vec[q][d] |-> Element(index_vec[q][d][i])]
    BY <1>1, SameData DEF OutInv
  <2>1. CASE q # p
    BY <1>1, <1>7, <2>1 DEF IInv, Types, OutInv
  <2>2. CASE q = p
    <3>1. /\ IsSequence(out_vec[p]) /\ Len(out_vec[p]) = c - 1
          /\ \A d \in 1 .. c - 1 : out_vec[p][d] = [i \in DOMAIN index_vec[p][d] |-> Element(index_vec[p][d][i])]
      BY <1>7 DEF IInv, OutInv
    <3>2. out_vec'[p] = Append(out_vec[p], Restored(index_vec[p][c], answers))
      BY <1>1 DEF IInv, Types
    <3>3. /\ IsSequence(out_vec'[p]) /\ Len(out_vec'[p]) = c
          /\ \A d \in 1 .. c - 1 : out_vec'[p][d] = out_vec[p][d]
          /\ out_vec'[p][c] = Restored(index_vec[p][c], answers)
      <4> HIDE DEF c
      <4> QED BY <1>2, <3>1, <3>2, Appended
    <3> HIDE DEF c
    <3>4. \A d \in 1 .. c : d = c \/ d \in 1 .. c - 1
      BY <1>2
    <3> QED BY <1>5, <1>7, <2>2, <3>1, <3>3, <3>4
  <2> QED BY <2>1, <2>2
<1> QED BY <1>6, <1>8, <1>9, <1>10, <1>11 DEF IInv

\* The next-state relation, a lemma for each of its actions.
LEMMA NextIInv == IInv /\ [Next]_vars => IInv'
<1> SUFFICES ASSUME IInv, [Next]_vars PROVE IInv'
  OBVIOUS
<1>1. ASSUME NEW p \in Procs, Step(p) PROVE IInv'
  BY <1>1, AskIInv, SendRequestsIInv, AnswerIInv, CollectIInv DEF Step
<1>2. CASE UNCHANGED vars
  <2>1. Types'
    BY <1>2 DEF vars, IInv, Types
  <2>2. \A p \in Procs : Exchanges(p)' = Exchanges(p) /\ Finished(p)' = Finished(p)
    BY <1>2 DEF vars, Exchanges, Finished
  <2>3. InStep'
    BY <1>2, <2>2 DEF vars, IInv, InStep
  <2>4. SentInv' /\ AskedInv' /\ OutInv'
    BY <1>2, <2>2, SameData DEF vars, IInv, SentInv, AskedInv, OutInv
  <2> QED BY <2>1, <2>3, <2>4 DEF IInv
<1> QED BY <1>1, <1>2 DEF Next, Terminated

\* The invariant holds throughout.
LEMMA Invariant == Spec => []IInv
<1>1. Init => IInv
  BY InitIInv
<1>2. IInv /\ [Next]_vars => IInv'
  BY NextIInv
<1> QED BY <1>1, <1>2, PTL DEF Spec

-----------------------------------------------------------------------------
(* The theorems. *)

\* The variables keep their types, no process is ever more than one exchange ahead of
\* another, and every call leaves one vector of answers (GetElements).
THEOREM GetElementsTypes == Spec => []TypeOK
<1>1. IInv => TypeOK
  <2> SUFFICES ASSUME IInv PROVE TypeOK
    OBVIOUS
  <2>1. \A p, q \in Procs : Len(sent[p]) - Len(sent[q]) \in -1 .. 1
    BY ExchangesType, SMTT(30) DEF IInv, SentInv, InStep
  <2>2. \A p \in Procs : Len(out_vec[p]) = IF pc[p] = "done" THEN Calls ELSE call[p] - 1
    BY DEF IInv, OutInv, Finished
  <2> QED BY <2>1, <2>2 DEF IInv, Types, TypeOK
<1> QED BY <1>1, Invariant, PTL

\* For every index it asked for, and in the order in which it asked, a process gets the
\* element at that index, however the calls of the processes interleave (GetElements).
THEOREM GetElementsRight == Spec => []AnswersRight
<1>1. IInv => AnswersRight
  BY DEF IInv, OutInv, IsSequence, AnswersRight
<1> QED BY <1>1, Invariant, PTL

\* Whatever an owner is asked for is in its range, so arr[locind] is never read out of
\* bounds (GetElements, FullyDist::Owner).
THEOREM GetElementsInBounds == Spec => []AskedOnlyForOwn
<1>1. IInv => AskedOnlyForOwn
  <2> SUFFICES ASSUME IInv, NEW p \in Procs, NEW q \in Procs, NEW j \in DOMAIN recvdata[p][q]
               PROVE  /\ Owner(glen, recvdata[p][q][j]).lind \in DOMAIN arr(p)
                      /\ recvdata[p][q][j] - LengthUntil(glen, RankInProcCol(p), RankInProcRow(p)) \in DOMAIN arr(p)
    BY DEF AskedOnlyForOwn
  <2>1. PICK c \in 1 .. Calls : recvdata[p][q] = Wanted(index_vec[q][c], p)
    BY DEF IInv, AskedInv
  <2>2. glen \in Nat /\ IsRequest(index_vec[q][c])
    BY VectorsRequest DEF IInv
  <2>3. recvdata[p][q][j] \in 0 .. glen - 1 /\ Owner(glen, recvdata[p][q][j]).rank = p
    BY <2>1, <2>2, WantedOwned
  <2> QED BY <2>2, <2>3, OwnedElement
<1> QED BY <1>1, Invariant, PTL
=============================================================================
