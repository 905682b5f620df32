-------------------------------- MODULE Distribution --------------------------------
(***************************************************************************)
(* Who owns what on the process grid: CommGrid's ranks, FullyDist's        *)
(* distribution of a vector over all processes and SpParMat's distribution *)
(* of a matrix in blocks.                                                  *)
(*                                                                         *)
(* A vector of length glen is first split over the process rows, each row  *)
(* taking glen / procrows elements and the last one the rest, and then the *)
(* same way over the processes of a row.                                   *)
(***************************************************************************)
EXTENDS Integers, FiniteSets

CONSTANTS ProcRows,   \* procrows, grrows
          ProcCols    \* proccols, grcols

ASSUME GridAssumption == ProcRows \in Nat \ {0} /\ ProcCols \in Nat \ {0}

Procs == 0 .. ProcRows * ProcCols - 1

\* The sums of the counts of the lower ranks (std::partial_sum, MPI_Exscan): where the items of
\* each begin in a buffer for all; the last is the total.
Displacements(counts) ==
  LET displs[k \in 0 .. Cardinality(Procs)] == IF k = 0 THEN 0 ELSE displs[k - 1] + counts[k - 1]
  IN displs

-----------------------------------------------------------------------------
(* CommGrid. *)

GetRank(row, col) == row * ProcCols + col
RankInProcCol(rank) == rank \div ProcCols    \* myprocrow
RankInProcRow(rank) == rank % ProcCols       \* myproccol

\* For P(i,j), the rank of P(j,i).
GetComplementRank(rank) == ProcCols * RankInProcRow(rank) + RankInProcCol(rank)

-----------------------------------------------------------------------------
(* One dimension: len elements over parts processes, len / parts each and the      *)
(* rest for the last one.                                                          *)

PerPart(len, parts) == len \div parts

\* The part an element is in: a short dimension is all owned by the last part.
PartOfShortFirst(len, parts, ind) ==
  IF PerPart(len, parts) = 0 THEN 0
  ELSE IF ind \div PerPart(len, parts) < parts - 1 THEN ind \div PerPart(len, parts) ELSE parts - 1
PartOf(len, parts, ind) ==
  IF PerPart(len, parts) # 0 /\ ind \div PerPart(len, parts) < parts - 1
  THEN ind \div PerPart(len, parts)
  ELSE parts - 1

PartStart(len, parts, k) == k * PerPart(len, parts)
PartLength(len, parts, k) ==
  IF k = parts - 1 THEN len - (parts - 1) * PerPart(len, parts) ELSE PerPart(len, parts)

-----------------------------------------------------------------------------
(* FullyDist: a vector over the grid. *)

MyRowLength(glen, row) == PartLength(glen, ProcRows, row)
RowLenUntil(glen, row, col) == PartStart(MyRowLength(glen, row), ProcCols, col)
MyLocLength(glen, row, col) == PartLength(MyRowLength(glen, row), ProcCols, col)
LengthUntil(glen, row, col) == PartStart(glen, ProcRows, row) + RowLenUntil(glen, row, col)

OwnerWithinRow(n_thisrow, ind_withinrow) ==
  LET col == PartOf(n_thisrow, ProcCols, ind_withinrow)
  IN [col |-> col, lind |-> ind_withinrow - PartStart(n_thisrow, ProcCols, col)]

\* The row, the column and the local index of the owner of the global index gind.
PlaceInRow(row, within) == [row |-> row, col |-> within.col, lind |-> within.lind]
OwnerInRow(glen, row, gind) ==
  PlaceInRow(row, OwnerWithinRow(MyRowLength(glen, row), gind - PartStart(glen, ProcRows, row)))
OwnerPlace(glen, gind) == OwnerInRow(glen, PartOf(glen, ProcRows, gind), gind)

AtRank(place) == [rank |-> GetRank(place.row, place.col), lind |-> place.lind]
Owner(glen, gind) == AtRank(OwnerPlace(glen, gind))

-----------------------------------------------------------------------------
(* SpParMat: a matrix in blocks. *)

BlockOwner(total_m, total_n, grow, gcol) ==
  LET row == PartOf(total_m, ProcRows, grow)
      col == PartOf(total_n, ProcCols, gcol)
  IN [rank |-> GetRank(row, col),
      lrow |-> grow - PartStart(total_m, ProcRows, row),
      lcol |-> gcol - PartStart(total_n, ProcCols, col)]

LocRows(total_m, row) == PartLength(total_m, ProcRows, row)
LocCols(total_n, col) == PartLength(total_n, ProcCols, col)

\* GetPlaceInGlobalGrid.
RowOffset(total_m, row) == PartStart(total_m, ProcRows, row)
ColOffset(total_n, col) == PartStart(total_n, ProcCols, col)
=============================================================================
