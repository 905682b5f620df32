---------------------------------- MODULE MCSpDCCols ----------------------------------
(***************************************************************************)
(* Small matrices for SpDCCols: of each shape some with places in common,  *)
(* of the values 0 and 1, and vectors with a gap and with every index.     *)
(***************************************************************************)
EXTENDS SpDCCols

LOCAL M_(m, n, ones, zeros) ==
  Matrix(m, n, [p \in ones \cup zeros |-> IF p \in ones THEN 1 ELSE 0])

SmallMatrices ==
  {M_(2, 3, {<<0, 2>>, <<1, 0>>}, {<<0, 1>>}),
   M_(3, 2, {<<0, 0>>, <<1, 1>>}, {<<2, 1>>}),
   M_(2, 2, {<<0, 0>>, <<1, 0>>}, {}), M_(2, 2, {<<0, 1>>}, {<<1, 1>>})}
SmallVectors == {<<>>, [i \in {1} |-> 1], [i \in {0, 1} |-> 1], [i \in {0, 2} |-> i \div 2]}
=============================================================================
