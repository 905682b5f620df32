-------------------------------- MODULE Collectives --------------------------------
(***************************************************************************)
(* How MPI matches blocking collectives: by position.  A module that       *)
(* models the calls of its processes keeps log[p], the sequence of the     *)
(* collectives p called on a communicator; the n-th calls of all its       *)
(* members are one collective.  A process is inside the last call of its   *)
(* log until an action lets it return.                                     *)
(***************************************************************************)
LOCAL INSTANCE Integers
LOCAL INSTANCE Sequences

\* Every member of world made as many calls as p: a call that needs all of them,
\* such as an allgather or a barrier, can return at p.
AllArrived(log, world, p) == \A q \in world : Len(log[q]) >= Len(log[p])

\* Calls at the same position are the same collective with the same root.
SameCalls(s, t) ==
  \A n \in DOMAIN s \cap DOMAIN t : s[n].op = t[n].op /\ s[n].root = t[n].root

\* All-to-all exchanges: sent[p] is the sequence of what p gave to its exchanges, one
\* function from receivers to data each.  What p receives in its latest exchange:
Received(sent, world, p) == [q \in world |-> sent[q][Len(sent[p])][p]]
=============================================================================
