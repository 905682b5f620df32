------------------------------ MODULE MCFullyDistVectors ------------------------------
(***************************************************************************)
(* Vectors for FullyDistVectors on a grid of 2 x 2: of length 5, of which  *)
(* the last rank has two elements, of length 3, of which the first one has *)
(* none, and of length 9, with up to three.  Values come up twice, are    *)
(* zero, or exceed the length.  One product is long enough for a thread to *)
(* merge several indices.                                                  *)
(***************************************************************************)
EXTENDS SpParMats

LOCAL S_(len, at) == [len |-> len, at |-> at]
LOCAL D_(list) == [i \in 0 .. Len(list) - 1 |-> list[i + 1]]
LOCAL M_(m, n, places) == [m |-> m, n |-> n, at |-> [p \in places |-> (p[1] + 2 * p[2] + 1) % 10]]

SmallSparses ==
  {S_(5, [i \in {0, 3, 4} |-> IF i = 4 THEN 3 ELSE 2]), S_(5, [i \in {1, 3} |-> 5 - i]), S_(5, <<>>),
   S_(5, [i \in 0 .. 4 |-> (3 * i + 1) % 8]), S_(3, [i \in {0, 2} |-> i]), S_(3, [i \in {1} |-> 7]),
   S_(9, [i \in {0, 2, 4, 5, 7, 8} |-> (5 * i + 2) % 8])}
SmallDenses ==
  {D_(<<2, 0, 3, 1, 4>>), D_(<<3, 1, 0, 6, 3>>), D_(<<1, 0, 2>>), D_(<<0, 0, 5>>),
   D_(<<4, 0, 1, 7, 7, 3, 2, 8, 7>>)}
SmallMatrices ==
  {M_(5, 5, {<<0, 0>>, <<0, 4>>, <<2, 3>>, <<3, 1>>, <<4, 1>>, <<4, 3>>, <<4, 4>>}),
   M_(3, 5, {<<0, 3>>, <<1, 0>>, <<2, 3>>, <<2, 4>>}), M_(5, 3, {<<0, 0>>, <<1, 2>>, <<4, 0>>, <<4, 2>>}),
   M_(25, 5, (0 .. 24) \X {1, 4}), M_(9, 9, {p \in (0 .. 8) \X (0 .. 8) : (p[1] * p[2]) % 5 = 4})}
SmallArrays == {<<<<3>>, <<1>>, <<0>>, <<6>>>>, <<<<1, 2>>, <<0, 3>>, <<4, 5>>, <<6, 7>>>>}
=============================================================================
