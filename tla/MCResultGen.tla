-------------------------------- MODULE MCResultGen --------------------------------
EXTENDS ResultGen

J(a, b) == [op |-> "join", mat |-> <<a, b>>, rename |-> NoLabel]

AllContents == SUBSET (Entity \X Entity)

\* A key that is the second label of the first matrix.
FirstLabelQuery == {<<J(1, 0), J(2, 1), J(3, 0)>>}
=============================================================================
