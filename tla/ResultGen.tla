---------------------------------- MODULE ResultGen ----------------------------------
(***************************************************************************)
(* The result generation of a MAGiQ query (parseResGenLine): line after    *)
(* line, a table that is spread over the first process row is joined with  *)
(* or filtered by a matrix.  The nonzero (x, y) of the matrix m_a_b says   *)
(* that entity x for label a and entity y for label b belong together.     *)
(*                                                                         *)
(* Each line is one step: all its communication is collective.  The gather *)
(* of a matrix to the first row is the one of TreeGather where it loses    *)
(* nothing; what a process does with its part is in LocalTables.  A row of *)
(* a table has one entity per label.                                       *)
(***************************************************************************)
EXTENDS Distribution, LocalTables, SequencesExt

CONSTANTS NEntities,  \* dimension of the matrices
          MaxLabels,  \* columns a table may have, 5 in utils.h plus the one a join adds
          Queries,    \* the queries: sequences of [op, mat, rename], mat being <<a, b>>
          Contents    \* the matrices considered, sets of nonzeros

Entity == 0 .. NEntities - 1
Row == 0 .. ProcCols - 1    \* the processes of the first row

VARIABLES query,
          matrices,  \* matrices[i], the matrix of the query's line i
          line,      \* the next line
          labels,    \* the labels of the table's columns
          primary,   \* a label once there is a table
          indl,      \* indl[c], the part of the table that process c of the first row has
          nres,      \* what rank 0 reports for the last line
          applied,   \* the lines that were applied
          indw       \* the parts that went into the last join or filter

vars == <<query, matrices, line, labels, primary, indl, nres, applied, indw>>

NoLabel == -1
Empty == [c \in Row |-> <<>>]

Mat == query[line].mat

Init ==
  /\ query \in Queries
  /\ matrices \in [1 .. Len(query) -> Contents]
  /\ line = 1
  /\ labels = <<>> /\ primary = NoLabel
  /\ indl = Empty /\ nres = 0 /\ applied = <<>> /\ indw = Empty

-----------------------------------------------------------------------------
(* The steps of a line. *)

\* get_local_indices and send_local_indices: process c of the first row has the nonzeros
\* of the columns in its range, sorted by column.
Gathered(m, c) ==
  InOrderOf({e \in m : PartOf(NEntities, ProcCols, e[2]) = c},
            LAMBDA d, e : d[2] < e[2] \/ (d[2] = e[2] /\ d[1] < e[1]))

Transpose(m) == {<<e[2], e[1]>> : e \in m}

\* local_redistribution: each part goes, sorted, to the processes whose column offsets
\* its entities fall between; what arrives is sorted again.
BetweenOpenAtStart(e, c) == (c = ProcCols - 1 \/ e <= PartStart(NEntities, ProcCols, c + 1))
                            /\ (c = 0 \/ PartStart(NEntities, ProcCols, c) < e)
Between(e, c) == (c = ProcCols - 1 \/ e < PartStart(NEntities, ProcCols, c + 1))
                 /\ (c = 0 \/ PartStart(NEntities, ProcCols, c) <= e)
Redistributed(table, pivot) ==
  [c \in Row |->
     LET sent(k) == LET part == SortOn(table[k - 1], pivot)
                    IN AtPlaces(part, {i \in DOMAIN part : Between(part[i][pivot], c)})
     IN SortOn(FlattenSeq([k \in 1 .. ProcCols |-> sent(k)]), pivot)]

\* send_local_results.
TotalRowsOfFirst(tables) == Len(tables[0])
TotalRows(tables) ==
  LET total[c \in 0 .. ProcCols] == IF c = 0 THEN 0 ELSE total[c - 1] + Len(tables[c - 1])
  IN total[ProcCols]

-----------------------------------------------------------------------------
(* The lines. *)

Advance == line' = line + 1 /\ UNCHANGED <<query, matrices>>

\* The first line: the matrix is transposed, so that the table is sorted by and spread
\* over the entities of its first label.
FirstJoin ==
  LET table == [c \in Row |-> Gathered(Transpose(matrices[line]), c)] IN
  /\ line <= Len(query) /\ labels = <<>>
  /\ labels' = <<Mat[2], Mat[1]>>
  /\ primary' = Mat[2]
  /\ indl' = table
  /\ nres' = TotalRows(table)
  /\ applied' = Append(applied, line)
  /\ Advance
  /\ UNCHANGED indw

HasKey == labels # <<>> /\ Mat[2] \in Range(labels)
Position(label) == CHOOSE i \in DOMAIN labels : labels[i] = label

\* A matrix whose second label the table does not have is an error, the line is dropped.
NoKey ==
  /\ line <= Len(query) /\ labels # <<>> /\ ~HasKey
  /\ nres' = 0
  /\ Advance
  /\ UNCHANGED <<labels, primary, indl, applied, indw>>

\* The table is brought to the processes that have the columns of the key.
NeedsRedistributionNever == FALSE
NeedsRedistribution == Len(labels) > 2 /\ primary # Mat[2]
Distributed ==
  IF NeedsRedistribution THEN Redistributed(indl, Position(Mat[2])) ELSE indl

\* The columns of the table as they are, for an order.
Kept == [i \in DOMAIN labels |-> <<0, i - 1>>]

\* The place of a new label: before the first larger one.
InsertPos ==
  IF \E i \in DOMAIN labels : labels[i] > Mat[1]
  THEN Min({i \in DOMAIN labels : labels[i] > Mat[1]}) ELSE Len(labels) + 1

Join ==
  LET result == [c \in Row |->
        LocalJoin(Distributed[c], Gathered(matrices[line], c), Position(Mat[2]),
                  InsertAt(Kept, InsertPos, <<1, 0>>))] IN
  /\ line <= Len(query) /\ HasKey /\ query[line].op = "join"
  /\ labels' = InsertAt(labels, InsertPos, Mat[1])
  /\ indw' = Distributed
  /\ indl' = result
  /\ nres' = TotalRows(result)
  /\ applied' = Append(applied, line)
  /\ Advance
  /\ UNCHANGED primary

Filter ==
  LET result == [c \in Row |->
        LocalFilter(Distributed[c], Gathered(matrices[line], c), Position(Mat[2]),
                    Position(query[line].rename), Kept)] IN
  /\ line <= Len(query) /\ HasKey /\ query[line].op = "filter"
  /\ indw' = Distributed
  /\ indl' = result
  /\ nres' = TotalRows(result)
  /\ applied' = Append(applied, line)
  /\ Advance
  /\ UNCHANGED <<labels, primary>>

Finished == line > Len(query) /\ UNCHANGED vars

Next == FirstJoin \/ NoKey \/ Join \/ Filter \/ Finished
Spec == Init /\ [][Next]_vars

-----------------------------------------------------------------------------
(* Correctness. *)

\* The types of the variables; a table has one column per label.
TypeOK ==
  /\ query \in Queries /\ line \in 1 .. Len(query) + 1
  /\ Len(labels) <= MaxLabels /\ Cardinality(Range(labels)) = Len(labels)
  /\ primary \in Range(labels) \cup {NoLabel}
  /\ \A c \in Row : \A i \in DOMAIN indl[c] : indl[c][i] \in [DOMAIN labels -> Entity]

\* What the lines that were applied ask for: the assignments of entities to labels that
\* have a nonzero in every joined matrix, and in every filtering one with the renamed label
\* in place of the matrix's first.
Satisfies(row, i) ==
  LET at(label) == row[Position(label)]
      first == IF query[i].op = "join" THEN query[i].mat[1] ELSE query[i].rename
  IN <<at(first), at(query[i].mat[2])>> \in matrices[i]
Expected == {row \in [DOMAIN labels -> Entity] : \A k \in DOMAIN applied : Satisfies(row, applied[k])}

AllRows == FlattenSeq([k \in 1 .. ProcCols |-> indl[k - 1]])

\* After each line, the parts of the table are together the inner join of the matrices so
\* far, filtered: no row is missing, wrong or twice, on whichever process the rows met
\* (docs/Queries.md, "join: perform join operation, like table inner join").
JoinComplete == applied # <<>> => Range(AllRows) = Expected /\ Len(AllRows) = Cardinality(Expected)

\* The key of the last line, and where a label was in the table that line got: a join has
\* moved the columns after its own by one.
LastApplied == query[applied[Len(applied)]]
LineOfKey == LastApplied.mat[2]
OldPosition(label) ==
  IF LastApplied.op = "join" /\ Position(LastApplied.mat[1]) < Position(label)
  THEN Position(label) - 1 ELSE Position(label)

\* local_join and local_filter compare the heads of tables sorted by the key, on the process
\* that has the key's columns of the matrix: the table they get is sorted and spread so.
KeysAligned ==
  Len(applied) > 1 =>
    LET pivot == OldPosition(LineOfKey) IN
    \A c \in Row : \A i \in DOMAIN indw[c] :
      /\ PartOf(NEntities, ProcCols, indw[c][i][pivot]) = c
      /\ i > 1 => indw[c][i - 1][pivot] <= indw[c][i][pivot]
=============================================================================
