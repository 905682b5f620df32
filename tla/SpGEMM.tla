---------------------------------- MODULE SpGEMM ----------------------------------
(***************************************************************************)
(* What a parallel C = A * B promises its callers, whatever algorithm is   *)
(* used: it is collective, so nobody returns before everybody called it,   *)
(* and each process returns once, with its block of the product.           *)
(***************************************************************************)
CONSTANTS Proc,      \* the processes
          Products   \* the functions from Proc to the possible result blocks

VARIABLES want,      \* the product of the inputs, block by block
          called,    \* the processes that called the multiplication
          ret        \* the processes that returned, with the block they returned

vars == <<want, called, ret>>

Init == want \in Products /\ called = {} /\ ret = {}

Call(p) ==
  /\ p \notin called
  /\ called' = called \cup {p}
  /\ UNCHANGED <<want, ret>>

\* p returns its block of the product.
Return(p) ==
  /\ called = Proc
  /\ \A e \in ret : e[1] # p
  /\ ret' = ret \cup {<<p, want[p]>>}
  /\ UNCHANGED <<want, called>>

Next == \E p \in Proc : Call(p) \/ Return(p)

Safety == Init /\ [][Next]_vars
Spec == Safety /\ WF_vars(Next)
=============================================================================
