-------------------------------- MODULE GlobalMatrices --------------------------------
(***************************************************************************)
(* What the operations of the distributed matrices promise, beside those   *)
(* of the vectors: a matrix is a function from places to values, and an    *)
(* operation works on the whole of it.  Calls name the matrix; the sparse  *)
(* and the dense vector serve as masks, bounds and lists of indices.       *)
(* SpParMats implements this.                                              *)
(***************************************************************************)
EXTENDS GlobalVectors

LOCAL INSTANCE SequencesExt
LOCAL INSTANCE FiniteSetsExt

-----------------------------------------------------------------------------
(* Matrices. *)

InMatrix(m, n, at) == [m |-> m, n |-> n, at |-> at]
Those(M, P(_)) == InMatrix(M.m, M.n, [p \in {q \in DOMAIN M.at : P(q)} |-> M.at[p]])
Turn(M) == InMatrix(M.n, M.m, [p \in {<<q[2], q[1]>> : q \in DOMAIN M.at} |-> M.at[<<p[2], p[1]>>]])
RowsIn(M, j) == {p \in DOMAIN M.at : p[2] = j}
Triples(M) == {<<p[1], p[2], M.at[p]>> : p \in DOMAIN M.at}
Columns(M) == 0 .. M.n - 1
Square(M) == M.m = M.n

Product(M, N) ==
  LET terms(i, j) == {k \in Columns(M) : <<i, k>> \in DOMAIN M.at /\ <<k, j>> \in DOMAIN N.at}
  IN InMatrix(M.m, N.n, [p \in {q \in (0 .. M.m - 1) \X Columns(N) : terms(q[1], q[2]) # {}} |->
                           SumOver(terms(p[1], p[2]), LAMBDA k : M.at[<<p[1], k>>] * N.at[<<k, p[2]>>])])

\* The values of column j, the largest first.
Descending(M, j) ==
  LET rows == InOrder({p[1] : p \in RowsIn(M, j)})
  IN SortSeq([k \in 1 .. Len(rows) |-> M.at[<<rows[k], j>>]], LAMBDA a, b : a > b)
LongestColumn(M) == Max({0} \cup {Cardinality(RowsIn(M, j)) : j \in Columns(M)})

\* The lines of a file, by rows.
LinesOf(M) ==
  LET keys == InOrder({p[1] * M.n + p[2] : p \in DOMAIN M.at})
      place(k) == <<keys[k] \div M.n, keys[k] % M.n>>
  IN [k \in 1 .. Len(keys) |-> <<place(k)[1], place(k)[2], M.at[place(k)]>>]

-----------------------------------------------------------------------------
(* A matrix from rows e, columns d and values by position; calls on a matrix M. *)

FromTriples(s, d) == \E e \in LikeDense(d), sum \in BOOLEAN :
  Ask(s, d, [op |-> "fromTriples", rows |-> e, sum |-> sum],
      LET places == {<<e[i], d[i]>> : i \in DOMAIN d}
          here(p) == {i \in DOMAIN d : <<e[i], d[i]>> = p}
          val(i) == Plus(i, 1)
      IN InMatrix(ElementRange, ElementRange + 1,
                  [p \in places |-> IF sum THEN SumOver(here(p), val) ELSE Max({val(i) : i \in here(p)})]))
\* Every entry once, in some order.
FindTriples(s, d, M) ==
  Ask(s, d, [op |-> "findTriples", matrix |-> M], [count |-> Cardinality(DOMAIN M.at), of |-> Triples(M)])
Transposed(s, d, M) == Ask(s, d, [op |-> "transpose", matrix |-> M], Turn(M))
Saved(s, d, M) == \E transpose \in BOOLEAN :
  Ask(s, d, [op |-> "save", matrix |-> M, transpose |-> transpose],
      LET lines == LinesOf(M) IN
      IF transpose THEN [k \in 1 .. Len(lines) |-> <<lines[k][2], lines[k][1], lines[k][3]>>] ELSE lines)
\* From a file of the lines of the matrix, by rows or by columns, with little memory or more.
ReadMatrix(s, d, M) == \E memory \in {2, 5, 8}, pario, transpose, byColumns \in BOOLEAN :
  Ask(s, d, [op |-> "readMatrix", matrix |-> M, memory |-> memory, pario |-> pario, transpose |-> transpose,
             byColumns |-> byColumns], IF transpose THEN Turn(M) ELSE M)

MaskedReduce(s, d, M) == \E exclude \in BOOLEAN :
  LET counted(j) == {p \in RowsIn(M, j) : (p[1] \in DOMAIN s.at) = ~ exclude} IN
  Ask(s, d, [op |-> "maskedReduce", matrix |-> M, exclude |-> exclude],
      [j \in Columns(M) |-> SumOver(counted(j), LAMBDA p : M.at[p] * M.at[p])])
PruneColumn(s, d, M) == \E listed \in BOOLEAN :
  Ask(s, d, [op |-> "pruneColumn", matrix |-> M, listed |-> listed],
      Those(M, LAMBDA p : IF listed THEN p[2] \in DOMAIN s.at => M.at[p] < s.at[p[2]] ELSE M.at[p] < d[p[2]]))

\* The k-th largest value of each column: zero for a column that has fewer, and for all if all
\* have fewer; of the columns that the sparse vector has, the smallest value if it has fewer.
Kselect(s, d, M) == \E k \in 1 .. 3 :
  \/ Ask(s, d, [op |-> "kselect", matrix |-> M, k |-> k],
         <<k <= LongestColumn(M), [j \in Columns(M) |-> IF k <= Len(Descending(M, j)) THEN Descending(M, j)[k] ELSE 0]>>)
  \/ Ask(s, d, [op |-> "kselectListed", matrix |-> M, k |-> k],
         Map(s, LAMBDA j : LET top == Descending(M, j) IN IF top = <<>> THEN 0 ELSE top[Min({k, Len(top)})]))

\* The diagonal gets the values of d, or ones, where it has none or everywhere.
AddLoops(s, d, M) == \E one, replace \in BOOLEAN :
  LET loops == {<<i, i>> : i \in Columns(M)}
      val(p) == IF p \in DOMAIN M.at /\ (p \notin loops \/ ~ replace) THEN M.at[p] ELSE IF one THEN 1 ELSE d[p[1]]
  IN Ask(s, d, [op |-> "addLoops", matrix |-> M, one |-> one, replace |-> replace],
         InMatrix(M.m, M.n, [p \in DOMAIN M.at \cup loops |-> val(p)]))
RemoveLoops(s, d, M) ==
  Ask(s, d, [op |-> "removeLoops", matrix |-> M],
      <<Those(M, LAMBDA p : p[1] # p[2]), Cardinality({p \in DOMAIN M.at : p[1] = p[2]})>>)
\* How far the columns reach above the diagonal: at most, and together.
Shape(s, d, M) ==
  LET reach(j) == {j - p[1] : p \in {q \in RowsIn(M, j) : q[1] <= j}} IN
  Ask(s, d, [op |-> "shape", matrix |-> M],
      [bandwidth |-> Max({-1} \cup UNION {reach(j) : j \in Columns(M)}),
       profile |-> FoldSet(LAMBDA j, sum : sum + IF reach(j) = {} THEN 1 ELSE Max(reach(j)), 0, Columns(M))])

Multiplied(s, d, M) == \E N \in Matrices :
  Ask(s, d, [op |-> "multiply", matrix |-> M, by |-> N], Product(M, N))
Squared(s, d, M) == Ask(s, d, [op |-> "square", matrix |-> M], Product(M, M))

\* Rows ri and columns ci, with repetitions.
Index(s, d, M) == \E ci \in Denses, same \in BOOLEAN :
  Ask(s, d, [op |-> "index", matrix |-> M, ci |-> ci, same |-> same],
      InMatrix(Size(d), Size(ci), [p \in {q \in (DOMAIN d) \X (DOMAIN ci) : <<d[q[1]], ci[q[2]]>> \in DOMAIN M.at} |->
                                     M.at[<<d[p[1]], ci[p[2]]>>]]))
Inside(M, ri, ci, p) == p[1] \in {ri[i] : i \in DOMAIN ri} /\ p[2] \in {ci[j] : j \in DOMAIN ci}
PruneIndexed(s, d, M) == \E ci \in Denses :
  Ask(s, d, [op |-> "prune", matrix |-> M, ci |-> ci], Those(M, LAMBDA p : ~ Inside(M, d, ci, p)))
\* Rows ri and columns ci become another matrix.
Assigned(s, d, M) == \E ci \in Denses, N \in Matrices :
  Ask(s, d, [op |-> "assign matrix", matrix |-> M, ci |-> ci, other |-> N],
      LET put == {<<d[p[1]], ci[p[2]]>> : p \in DOMAIN N.at}
          from(q) == CHOOSE p \in DOMAIN N.at : q = <<d[p[1]], ci[p[2]]>>
          kept == {p \in DOMAIN M.at : ~ Inside(M, d, ci, p)}
      IN InMatrix(M.m, M.n, [p \in kept \cup put |-> IF p \in put THEN N.at[from(p)] ELSE M.at[p]]))

-----------------------------------------------------------------------------

NextMatrixCall ==
  /\ call = NoCall
  /\ \E s \in {sparse}, d \in {dense} : FromTriples(s, d) \/ \E M \in Matrices :
       \/ FindTriples(s, d, M) \/ Transposed(s, d, M) \/ Saved(s, d, M) \/ ReadMatrix(s, d, M)
       \/ MaskedReduce(s, d, M) \/ PruneColumn(s, d, M) \/ Kselect(s, d, M)
       \/ Square(M) /\ (AddLoops(s, d, M) \/ RemoveLoops(s, d, M) \/ Shape(s, d, M) \/ Squared(s, d, M))
       \/ Multiplied(s, d, M) \/ Index(s, d, M) \/ PruneIndexed(s, d, M) \/ Assigned(s, d, M)

NextOperation == Next \/ NextMatrixCall
SpecOperations == Init /\ [][NextOperation]_vars
=============================================================================
