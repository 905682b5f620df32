-------------------------------- MODULE MCDictionary --------------------------------
EXTENDS Dictionary

\* Labels spread over the ranks, in reverse, and all in collision.
SomeHashes == {[l \in Labels |-> l % HashRange], [l \in Labels |-> HashRange - 1 - (l % HashRange)],
               [l \in Labels |-> 1]}
SomeKeySets == {{}, {l \in Labels : l % 2 = 1}, Labels}
=============================================================================
