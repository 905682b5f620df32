------------------------------- MODULE MCTreeGather -------------------------------
EXTENDS TreeGather

\* Process r holds some of the columns 0 and 1 in the one row it has.
TableOf(r, cols) == SelectSeq(<<<<r, 0>>, <<r, 1>>>>, LAMBDA pair : pair[2] \in cols)
AllTables == {[r \in ColRank |-> TableOf(r, cols[r])] : cols \in [ColRank -> SUBSET {0, 1}]}

\* Tables that differ in length and in their columns.
SomeTables == {[r \in ColRank |-> TableOf(r, IF r % 2 = 0 THEN {0, 1} ELSE {1})],
               [r \in ColRank |-> TableOf(r, IF r = 1 THEN {} ELSE {0})],
               [r \in ColRank |-> TableOf(r, IF r < 2 THEN {1} ELSE {0, 1})]}
=============================================================================
