------------------------------- MODULE MCGetElements -------------------------------
EXTENDS GetElements

\* Process p asks, in call c, for every step-th element from p + c on, in an order that
\* wraps around the end of the vector: different processes ask for different elements,
\* in different orders, for some twice, or for nothing.
Every(n, step, count, p, c) == [i \in 1 .. count |-> (p + c + i * step) % n]
MCRequests(n) ==
  {[p \in Procs |-> [c \in 1 .. Calls |-> IF p \in idle THEN <<>> ELSE Every(n, step, count, p, c)]] :
     step \in {1, 2, n - 1}, count \in {1, 3}, idle \in {{}, {0}, {1, 2}}}
=============================================================================
