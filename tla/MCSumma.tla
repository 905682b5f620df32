---------------------------------- MODULE MCSumma ----------------------------------
EXTENDS Summa

P == 0 .. N - 1

AllTriples(a, b) ==
  {t \in P \X P \X P : <<t[1], t[2]>> \in a /\ <<t[2], t[3]>> \in b}

\* Dense operands, operands with an empty block at each place, and a multiplication
\* in which two nonempty blocks have an empty product.
MCInputs ==
  LET full == P \X P
      holes(a, b) == [a |-> a, b |-> b, prod |-> AllTriples(a, b)]
  IN {holes(full, full)}
     \cup {holes(full \ {x}, full) : x \in full}
     \cup {holes(full, full \ {x}) : x \in full}
     \cup {[a |-> full, b |-> full, prod |-> AllTriples(full, full) \ {t}] : t \in P \X P \X P}
=============================================================================
