--------------------------------- MODULE Ordering ---------------------------------
(* The elements of a finite set in a strict total order of it, as a sequence. *)
EXTENDS Integers, FiniteSets

InOrderOf(set, before(_, _)) ==
  [i \in 1 .. Cardinality(set) |->
     CHOOSE x \in set : Cardinality({y \in set : before(y, x)}) = i - 1]
=============================================================================
