-------------------------------- MODULE GetElements --------------------------------
(***************************************************************************)
(* FullyDistVec::GetElements: every process asks for elements of a         *)
(* distributed vector by their global indices and gets them in the order   *)
(* in which it asked.  Requests go to the owners in one all-to-all and the *)
(* answers come back in a second one with the counts swapped.              *)
(* ProcessLines calls it twice in a row, for the rows and for the columns  *)
(* of the nonzeros a process has read.                                     *)
(***************************************************************************)
EXTENDS Distribution, Sequences, FiniteSets, Collectives, Ordering

LOCAL INSTANCE SequencesExt

CONSTANTS Calls,       \* number of calls in a row
          Lengths,     \* the vector lengths considered
          Requests(_)  \* what the processes may ask a vector of a length for in their
                       \* calls: functions from processes and calls to index vectors

\* The callers ask for places of the vector only: GetElements checks no index.
ASSUME RequestsAssumption ==
  /\ Calls \in Nat \ {0} /\ Lengths \subseteq Nat
  /\ \A n \in Lengths : Requests(n) \subseteq [Procs -> [1 .. Calls -> Seq(0 .. n - 1)]]

VARIABLES glen,      \* length of the vector
          index_vec, \* index_vec[p][c], the indices p asks for in its call c
          call,      \* the call a process is in
          pc,        \* its place in it
          sent,      \* what it has given to its exchanges
          recvdata,  \* the indices it was asked for, by asking process
          out_vec    \* out_vec[p], the answers to its finished calls

vars == <<glen, index_vec, call, pc, sent, recvdata, out_vec>>

\* The elements: the vector holds a permutation, whose values tell its places apart.
Element(gind) == glen - 1 - gind

\* The local part of p, indexed by local index.
arr(p) ==
  LET row == RankInProcCol(p)
      col == RankInProcRow(p)
  IN [l \in 0 .. MyLocLength(glen, row, col) - 1 |-> Element(LengthUntil(glen, row, col) + l)]

Asked(p) == index_vec[p][call[p]]

\* The positions of an index vector that owner q serves, in order.
Positions(inds, q) ==
  InOrderOf({i \in DOMAIN inds : Owner(glen, inds[i]).rank = q}, LAMBDA i, j : i < j)

Wanted(inds, q) == [j \in DOMAIN Positions(inds, q) |-> inds[Positions(inds, q)[j]]]

Init ==
  /\ glen \in Lengths
  /\ index_vec \in Requests(glen)
  /\ call = [p \in Procs |-> 1]
  /\ pc = [p \in Procs |-> "ask"]
  /\ sent = [p \in Procs |-> <<>>]
  /\ recvdata = [p \in Procs |-> [q \in Procs |-> <<>>]]
  /\ out_vec = [p \in Procs |-> <<>>]

Exchange(p, data) == sent' = [sent EXCEPT ![p] = Append(@, data)]
Goto(p, label) == pc' = [pc EXCEPT ![p] = label]

\* The counts are exchanged.
Ask(p) ==
  /\ pc[p] = "ask"
  /\ Exchange(p, [q \in Procs |-> Len(Positions(Asked(p), q))])
  /\ Goto(p, "counts")
  /\ UNCHANGED <<glen, index_vec, call, recvdata, out_vec>>

\* Each owner is sent the indices it owns.
SendRequests(p) ==
  /\ pc[p] = "counts"
  /\ AllArrived(sent, Procs, p)
  /\ Exchange(p, [q \in Procs |-> Wanted(Asked(p), q)])
  /\ Goto(p, "requests")
  /\ UNCHANGED <<glen, index_vec, call, recvdata, out_vec>>

\* The owner looks up what it was asked for and sends it back; a read past the end of
\* arr returns no element.
OutOfBounds == -1
Lookup(p, ind) ==
  LET locind == Owner(glen, ind).lind IN IF locind \in DOMAIN arr(p) THEN arr(p)[locind] ELSE OutOfBounds
Answer(p) ==
  LET asked == Received(sent, Procs, p) IN
  /\ pc[p] = "requests"
  /\ AllArrived(sent, Procs, p)
  /\ recvdata' = [recvdata EXCEPT ![p] = asked]
  /\ Exchange(p, [q \in Procs |-> [j \in DOMAIN asked[q] |-> Lookup(p, asked[q][j])]])
  /\ Goto(p, "answers")
  /\ UNCHANGED <<glen, index_vec, call, out_vec>>

\* The answers, owner after owner, are put back where they were asked for.
RestoredInOwnerOrder(inds, answers) == FlattenSeq([k \in 1 .. Cardinality(Procs) |-> answers[k - 1]])
Restored(inds, answers) ==
  [i \in DOMAIN inds |->
     LET q == Owner(glen, inds[i]).rank
         j == CHOOSE j \in DOMAIN Positions(inds, q) : Positions(inds, q)[j] = i
     IN answers[q][j]]

MoreCallsOneTooMany(p) == call[p] <= Calls
MoreCalls(p) == call[p] < Calls

Collect(p) ==
  /\ pc[p] = "answers"
  /\ AllArrived(sent, Procs, p)
  /\ out_vec' = [out_vec EXCEPT ![p] = Append(@, Restored(Asked(p), Received(sent, Procs, p)))]
  /\ IF MoreCalls(p)
     THEN call' = [call EXCEPT ![p] = @ + 1] /\ Goto(p, "ask")
     ELSE Goto(p, "done") /\ UNCHANGED call
  /\ UNCHANGED <<glen, index_vec, sent, recvdata>>

Step(p) == Ask(p) \/ SendRequests(p) \/ Answer(p) \/ Collect(p)
Terminated == (\A p \in Procs : pc[p] = "done") /\ UNCHANGED vars
Next == (\E p \in Procs : Step(p)) \/ Terminated
Spec == Init /\ [][Next]_vars

-----------------------------------------------------------------------------
(* Correctness. *)

\* The types of the variables; a process never runs more than one exchange ahead.
TypeOK ==
  /\ glen \in Lengths
  /\ call \in [Procs -> 1 .. Calls]
  /\ pc \in [Procs -> {"ask", "counts", "requests", "answers", "done"}]
  /\ \A p, q \in Procs : Len(sent[p]) - Len(sent[q]) \in -1 .. 1
  /\ \A p \in Procs : Len(out_vec[p]) = IF pc[p] = "done" THEN Calls ELSE call[p] - 1

\* A process gets, for every index it asked for and in the order it asked, the element
\* at that index of the vector, whoever asks for what in which call meanwhile
\* (GetElements).
AnswersRight ==
  \A p \in Procs : \A c \in DOMAIN out_vec[p] :
    out_vec[p][c] = [i \in DOMAIN index_vec[p][c] |-> Element(index_vec[p][c][i])]

\* A process is asked only for what it has: every index it receives lies in its range,
\* so arr[locind] is never read out of bounds (GetElements, FullyDist::Owner).
AskedOnlyForOwn ==
  \A p, q \in Procs : \A j \in DOMAIN recvdata[p][q] :
    /\ Owner(glen, recvdata[p][q][j]).lind \in DOMAIN arr(p)
    /\ recvdata[p][q][j] - LengthUntil(glen, RankInProcCol(p), RankInProcRow(p)) \in DOMAIN arr(p)
=============================================================================
