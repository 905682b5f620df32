----------------------------------- MODULE MCMagiq -----------------------------------
EXTENDS Lubm, TLC, Functions

J(a, b) == [op |-> "join", mat |-> <<a, b>>, rename |-> -1]
F(a, b, r) == [op |-> "filter", mat |-> <<a, b>>, rename |-> r]

\* examples/queries/poster/query.txt and lubm/q2.txt, with small constants.
Poster == [program |-> "magiqParse", lines |-> <<FromGT(<<1, 0>>, I(1, 2)), FromG(<<2, 1>>, D(1, 0, 3)), Left(TD(2, 1, 1), <<1, 0>>)>>,
           results |-> <<J(1, 0), J(2, 1)>>]
\* lubm/q5.txt; its last line has the semiring sign.
Q5 == [program |-> "magiqParse", lines |-> <<FromG(<<2, 0>>, I(2, 2)), FromGT(<<1, 2>>, D(2, 0, 3)), Left(I(0, 1), <<1, 2>>),
                   LeftRDF(TD(1, 2, 1), <<2, 0>>)>>,
       results |-> <<J(2, 0), J(1, 2)>>]
\* The star of lubm/q4.txt, and the cycle of q1.txt and q7.txt, shortened: a filter, and
\* restrictions from both sides.
Star == [program |-> "magiqParse", lines |-> <<FromG(<<1, 0>>, I(0, 2)), FromG(<<2, 1>>, D(1, 0, 3)), FromGT(<<3, 2>>, D(2, 1, 2)),
                     FromGT(<<4, 2>>, TD(3, 2, 3)), Right(<<3, 2>>, D(2, 1, 1)),
                     Left(TD(4, 2, 1), <<2, 1>>), Left(TD(2, 1, 1), <<1, 0>>)>>,
         results |-> <<J(1, 0), J(2, 1), J(3, 2), J(4, 2)>>]
Triangle == [program |-> "magiqParse", lines |-> <<FromG(<<1, 0>>, I(0, 2)), FromG(<<2, 1>>, D(1, 0, 3)), FromGT(<<3, 2>>, D(2, 1, 2)),
                         FromGT(<<3, 1>>, TD(2, 1, 3)), Left(D(3, 2, 1), <<3, 1>>), Left(D(3, 1, 1), <<3, 2>>),
                         Right(<<3, 2>>, D(2, 1, 1)), Left(TD(3, 2, 1), <<2, 1>>), Left(TD(2, 1, 1), <<1, 0>>)>>,
             results |-> <<J(1, 0), J(2, 1), J(3, 2), F(3, 1, 3)>>]
\* A line in no form after one that is, and a result line that comes before its key.
Blank == [program |-> "magiqParse", lines |-> <<FromG(<<1, 0>>, I(0, 2)), Ln("malformed", <<1, 0>>, FALSE, FALSE, I(0, 1))>>,
          results |-> <<J(1, 0)>>]
Keyless == [program |-> "magiqParse", lines |-> <<FromG(<<1, 0>>, I(0, 2)), FromG(<<2, 1>>, D(1, 0, 3)), FromGT(<<3, 2>>, D(2, 1, 2))>>,
            results |-> <<J(1, 0), J(3, 2), J(2, 1)>>]
\* A filter with a renamed label, as in q1.txt.
Renamed == [program |-> "magiqParse",
            lines |-> <<FromG(<<1, 0>>, I(0, 2)), FromG(<<2, 1>>, D(1, 0, 3)), FromG(<<3, 2>>, D(2, 1, 3)),
                        FromGT(<<6, 2>>, D(2, 1, 2))>>,
            results |-> <<J(1, 0), J(2, 1), F(6, 2, 1), J(3, 2)>>]
MCScripts == {Poster, Q5, Star, Triangle, Blank, Keyless, Renamed} \cup Range(LubmQueries)

E(x, y, v) == [row |-> x, col |-> y, val |-> v]

\* For the queries from files, over three entities, on both sides of a block boundary: every
\* graph with up to two triples of the predicates 2 and 3, and full ones, diagonals and
\* stripes with up to three predicates, 6 being the product of the others.
Corners == {0, 2, 4}
Cells == Corners \X Corners
Graph(cells, val(_, _)) == {E(c[1], c[2], val(c[1], c[2])) : c \in cells}
Few == UNION {{{E(c[1], c[2], f[c]) : c \in cells} : f \in [cells -> {2, 3}]} :
                cells \in {s \in SUBSET Cells : Cardinality(s) <= 2}}
Stripes == {Graph(cells, LAMBDA x, y : p[(j * x + k * y) % 3]) :
              cells \in {Cells, {c \in Cells : c[1] <= c[2]}, {c \in Cells : c[2] <= c[1]}, {c \in Cells : c[1] # c[2]}},
              p \in [0 .. 2 -> {2, 3, 6}], j \in {0, 1}, k \in {0, 1, 2}}
MCInputs == Few \cup Stripes

\* For the queries in the code: two graphs that between them answer every query, most of
\* them more than once, and these graphs with a triple removed or with another predicate.
MCPos == 103594630 :> 4 @@ 139306106 :> 2 @@ 130768016 :> 4 @@ 235928023 :> 2 @@ 223452631 :> 0
         @@ 2808777 :> 3 @@ 291959481 :> 4 @@ 191176245 :> 2 @@ 267261320 :> 0
Rows(m) == {t \in [row : Entity, col : Entity, val : 1 .. 18] : t.val = m[t.row + 1][t.col + 1]}
GraphA == Rows(<<<<17, 12, 17, 12, 14>>, <<0, 9, 17, 3, 17>>, <<8, 2, 9, 7, 17>>, <<3, 0, 0, 7, 17>>, <<9, 3, 17, 3, 17>>>>)
GraphB == Rows(<<<<17, 14, 17, 12, 12>>, <<0, 9, 17, 3, 17>>, <<17, 4, 17, 18, 0>>, <<3, 5, 5, 7, 17>>, <<17, 4, 4, 18, 17>>>>)
Damaged(g) == {g} \cup {g \ {t} : t \in g} \cup {(g \ {t}) \cup {[t EXCEPT !.val = 12]} : t \in {u \in g : u.val = 3}}
LubmInputsMC == Damaged(GraphA) \cup Damaged(GraphB)

NoPermutation == <<>>
MCRenumberings == {NoPermutation, [x \in Entity |-> (x + 2) % NEntities]}
=============================================================================
