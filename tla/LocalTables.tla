--------------------------------- MODULE LocalTables ---------------------------------
(***************************************************************************)
(* What a process does with its part of a table in the result generation:  *)
(* it sorts it by a column, and merges it with the nonzeros of a matrix.   *)
(* A table is a sequence of rows, a row a sequence of entities; a nonzero  *)
(* is a row of two.                                                        *)
(***************************************************************************)
EXTENDS Ordering, Sequences

\* The elements of a sequence at some of its places, in the order they have.
AtPlaces(s, places) ==
  LET place == InOrderOf(places, LAMBDA i, j : i < j) IN [k \in DOMAIN place |-> s[place[k]]]

\* symmergesort on the entities of one column, equal ones in the order they have.
SortOn(table, pivot) ==
  LET order == InOrderOf(DOMAIN table,
                 LAMBDA i, j : table[i][pivot] < table[j][pivot] \/ (table[i][pivot] = table[j][pivot] /\ i < j))
  IN [i \in DOMAIN order |-> table[order[i]]]

\* How many rows from i on have the key.
RunLength(table, pivot, i, key) ==
  CHOOSE n \in 0 .. Len(table) - i + 1 :
    /\ \A k \in i .. i + n - 1 : table[k][pivot] = key
    /\ i + n <= Len(table) => table[i + n][pivot] # key

\* The merge of local_join and local_filter: the rows that meet.  At two equal keys the row
\* of the first table meets the run of its key in the second, the row of the second the
\* rest of its key's run in the first, and both advance.
Meetings(t1, t2, pivot1) ==
  LET pairsWith(i1, i2) ==
        LET key == t1[i1][pivot1]
            across == RunLength(t2, 2, i2 + 1, key)
            down == RunLength(t1, pivot1, i1 + 1, key)
        IN [k \in 1 .. across + 1 |-> <<t1[i1], t2[i2 + k - 1]>>]
           \o [k \in 1 .. down |-> <<t1[i1 + k], t2[i2]>>]
      loop[k \in 0 .. Len(t1) + Len(t2)] ==
        IF k = 0 THEN [i1 |-> 1, i2 |-> 1, met |-> <<>>]
        ELSE LET s == loop[k - 1] IN
             IF s.i1 > Len(t1) \/ s.i2 > Len(t2) THEN s
             ELSE IF t1[s.i1][pivot1] < t2[s.i2][2] THEN [s EXCEPT !.i1 = @ + 1]
             ELSE IF t1[s.i1][pivot1] > t2[s.i2][2] THEN [s EXCEPT !.i2 = @ + 1]
             ELSE [i1 |-> s.i1 + 1, i2 |-> s.i2 + 1, met |-> s.met \o pairsWith(s.i1, s.i2)]
  IN loop[Len(t1) + Len(t2)].met

\* put_tuple: an order lists, for each column of the result, the table (0 or 1) and the
\* column (from 0) it comes from.
PutTuple(order, r1, r2) ==
  [i \in DOMAIN order |-> IF order[i][1] = 0 THEN r1[order[i][2] + 1] ELSE r2[order[i][2] + 1]]

LocalJoin(t1, t2, pivot1, order) ==
  LET met == Meetings(t1, t2, pivot1) IN [i \in DOMAIN met |-> PutTuple(order, met[i][1], met[i][2])]
LocalFilter(t1, t2, pivot11, pivot12, order) ==
  LET all == Meetings(t1, t2, pivot11)
      met == AtPlaces(all, {i \in DOMAIN all : all[i][1][pivot12] = all[i][2][1]})
  IN [i \in DOMAIN met |-> PutTuple(order, met[i][1], met[i][2])]
=============================================================================
