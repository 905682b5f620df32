------------------------------------- MODULE Lubm -------------------------------------
(***************************************************************************)
(* The program magiqScal: seven LUBM queries written as calls in the code, *)
(* run one after the other on the same graph, for several trials.  Their   *)
(* execution lines are those of Magiq; a query has its own vectors and     *)
(* matrices and never stops early.  In their result generation, the calls  *)
(* resgen_l1 ... resgen_l7, the pivots, the redistributions and the order  *)
(* of the columns are constants in the code instead of being derived from  *)
(* labels: a wrong one would silently join the wrong entities.             *)
(***************************************************************************)
EXTENDS Magiq

CONSTANTS Pos,        \* the entity that stands for a constant of the code
          LubmInputs  \* data for these queries, as Magiq's Inputs

\* A call of the result generation: the matrix, the column the table is redistributed by
\* before the matrix is gathered (none: -1), the pivots, the order, and whether the size of
\* the result is reported.  A filter renames the matrix's first label, as the query's text
\* form says (examples/queries/lubm); the code only has the pivots.
First(m) == [op |-> "transposed", mat |-> m]
Jn(m, by, pivot, order, report) ==
  [op |-> "join", mat |-> m, by |-> by, pivot |-> pivot, order |-> order, report |-> report]
Fl(m, rename, by, pivot, pivot12, order, report) ==
  [op |-> "filter", mat |-> m, rename |-> rename, by |-> by, pivot |-> pivot, pivot12 |-> pivot12,
   order |-> order, report |-> report]
Old(n) == <<0, n>>
New == <<1, 0>>
NewKey == <<1, 1>>

-----------------------------------------------------------------------------
(* The queries. *)

\* Queries 1 and 7 first find candidates for every label and then restrict the matrices.
lubm_l1_find ==
           <<FromG(<<4, 0>>, I(Pos[103594630], 17)), FromG(<<3, 4>>, D(4, 0, 12)),
             FromGT(<<2, 3>>, D(3, 4, 17)), Left(I(Pos[139306106], 1), <<2, 3>>),
             FromGT(<<5, 3>>, TD(2, 3, 14)), FromGT(<<1, 5>>, D(5, 3, 17)),
             Left(I(Pos[130768016], 1), <<1, 5>>), FromGT(<<6, 5>>, TD(1, 5, 3))>>
lubm_l1_restrict ==
           <<Left(TD(3, 4, 1), <<6, 5>>), Right(<<3, 4>>, D(6, 5, 1)),
             Left(TD(6, 5, 1), <<5, 3>>), Left(TD(5, 3, 1), <<3, 4>>),
             Left(TD(3, 4, 1), <<4, 0>>)>>
resgen_l1 == <<First(<<4, 0>>), Jn(<<3, 4>>, -1, 1, <<Old(1), New, NewKey>>, FALSE),
               Jn(<<5, 3>>, 1, 1, <<Old(0), Old(1), Old(2), New>>, FALSE),
               Fl(<<6, 5>>, 4, 3, 3, 2, <<Old(0), Old(1), Old(2), Old(3)>>, FALSE),
               Jn(<<1, 5>>, -1, 3, <<Old(0), New, Old(1), Old(2), Old(3)>>, FALSE),
               Jn(<<2, 3>>, 2, 2, <<Old(0), Old(1), New, Old(2), Old(3), Old(4)>>, TRUE)>>

lubm_l2 == <<FromG(<<1, 0>>, I(Pos[235928023], 17)), FromGT(<<2, 1>>, D(1, 0, 9)),
             Left(TD(2, 1, 1), <<1, 0>>)>>
resgen_l2 == <<First(<<1, 0>>), Jn(<<2, 1>>, -1, 1, <<Old(0), Old(1), New>>, TRUE)>>

\* The steps after the fourth are commented out; no results are generated.
lubm_l3 == <<FromG(<<4, 0>>, I(Pos[103594630], 17)), FromG(<<3, 4>>, D(4, 0, 12)),
             FromGT(<<2, 3>>, D(3, 4, 17)), Left(I(Pos[223452631], 1), <<2, 3>>)>>

lubm_l4 == <<FromG(<<2, 0>>, I(Pos[2808777], 7)), FromGT(<<1, 2>>, D(2, 0, 17)),
             Left(I(Pos[291959481], 1), <<1, 2>>), FromGT(<<3, 2>>, TD(1, 2, 9)),
             FromGT(<<4, 2>>, TD(3, 2, 8)), FromGT(<<5, 2>>, TD(4, 2, 2)),
             LeftRDF(TD(5, 2, 1), <<2, 0>>)>>
resgen_l4 == <<First(<<2, 0>>), Jn(<<5, 2>>, -1, 1, <<Old(0), Old(1), New>>, FALSE),
               Jn(<<4, 2>>, -1, 1, <<Old(0), Old(1), New, Old(2)>>, FALSE),
               Jn(<<3, 2>>, -1, 1, <<Old(0), Old(1), New, Old(2), Old(3)>>, FALSE),
               Jn(<<1, 2>>, -1, 1, <<Old(0), New, Old(1), Old(2), Old(3), Old(4)>>, TRUE)>>

lubm_l5 == <<FromG(<<2, 0>>, I(Pos[191176245], 17)), FromGT(<<1, 2>>, D(2, 0, 3)),
             Left(I(Pos[2808777], 1), <<1, 2>>), LeftRDF(TD(1, 2, 1), <<2, 0>>)>>
resgen_l5 == <<First(<<2, 0>>), Jn(<<1, 2>>, -1, 1, <<Old(1), NewKey, Old(0)>>, TRUE)>>

lubm_l6 == <<FromG(<<4, 0>>, I(Pos[130768016], 17)), FromGT(<<1, 4>>, D(4, 0, 3)),
             Left(I(Pos[267261320], 1), <<1, 4>>), FromG(<<3, 4>>, TD(1, 4, 7)),
             FromGT(<<2, 3>>, D(3, 4, 17)), Left(I(Pos[291959481], 1), <<2, 3>>),
             LeftRDF(TD(2, 3, 1), <<3, 4>>), LeftRDF(TD(3, 4, 1), <<4, 0>>)>>
resgen_l6 == <<First(<<4, 0>>), Jn(<<3, 4>>, -1, 1, <<Old(0), New, NewKey>>, FALSE),
               Jn(<<2, 3>>, 1, 1, <<Old(0), New, Old(1), Old(2)>>, FALSE),
               Jn(<<1, 4>>, 3, 3, <<Old(0), New, Old(1), Old(2), Old(3)>>, TRUE)>>

lubm_l7_find ==
           <<FromG(<<5, 2>>, I(Pos[291959481], 17)), FromG(<<3, 5>>, D(5, 2, 18)),
             FromGT(<<0, 3>>, D(3, 5, 17)), Left(I(Pos[223452631], 1), <<0, 3>>),
             FromGT(<<4, 3>>, TD(0, 3, 4)), FromGT(<<1, 4>>, D(4, 3, 17)),
             Left(I(Pos[235928023], 1), <<1, 4>>), FromG(<<6, 4>>, TD(1, 4, 5))>>
lubm_l7_restrict ==
           <<Left(TD(3, 5, 1), <<6, 4>>), Right(<<3, 5>>, D(6, 4, 1)),
             Left(TD(6, 4, 1), <<4, 3>>), Left(TD(4, 3, 1), <<3, 5>>),
             Left(TD(3, 5, 1), <<5, 2>>)>>
resgen_l7 == <<First(<<5, 2>>), Jn(<<3, 5>>, -1, 1, <<Old(0), New, NewKey>>, TRUE),
               Jn(<<4, 3>>, 1, 1, <<Old(0), Old(1), New, Old(2)>>, TRUE),
               Fl(<<6, 4>>, 5, 2, 2, 3, <<Old(0), Old(1), Old(2), Old(3)>>, TRUE),
               Jn(<<1, 4>>, -1, 2, <<New, Old(0), Old(1), Old(2), Old(3)>>, TRUE),
               Jn(<<0, 3>>, 2, 2, <<New, Old(0), Old(1), Old(2), Old(3), Old(4)>>, TRUE)>>

Hard(lines, calls) == [program |-> "magiqScal", lines |-> lines, results |-> calls]
LubmQueries == <<Hard(lubm_l1_find \o lubm_l1_restrict, resgen_l1), Hard(lubm_l2, resgen_l2), Hard(lubm_l3, <<>>),
                 Hard(lubm_l4, resgen_l4), Hard(lubm_l5, resgen_l5), Hard(lubm_l6, resgen_l6),
                 Hard(lubm_l7_find \o lubm_l7_restrict, resgen_l7)>>

ASSUME LubmAssumption ==
  /\ \A d \in LubmInputs : d \subseteq Triple
  /\ \A k \in DOMAIN LubmQueries : LubmQueries[k] \in Scripts

-----------------------------------------------------------------------------
(* The program. *)

LubmInit ==
  /\ data \in LubmInputs /\ nonisov \in Renumberings
  /\ script = LubmQueries[1]
  /\ Start

ResLine == script.results[resLine]

\* get_local_indices, send_local_indices and FreeMemory of a call's matrix.
GatheredOf(M, c) == RG!Gathered(Nonzeros(M), c)
Take(table) ==
  /\ phase = "result_generation" /\ resLine <= Len(script.results)
  /\ indl' = table
  /\ matrices' = [matrices EXCEPT ![ResLine.mat] = NoMatrix]
  /\ applied' = Append(applied, resLine)
  /\ resLine' = resLine + 1
  /\ UNCHANGED <<execution, phase, repeat, found, primary>>

\* The first matrix is transposed; its nonzeros are the table.
TakeTransposed ==
  /\ phase = "result_generation" /\ resLine <= Len(script.results) /\ ResLine.op = "transposed"
  /\ Take([c \in RG!Row |-> GatheredOf(Transpose(matrices[ResLine.mat]), c)])
  /\ labels' = <<ResLine.mat[2], ResLine.mat[1]>>
  /\ UNCHANGED <<nres, indw>>

\* local_redistribution where the code has one.
Spread == IF ResLine.by = -1 THEN indl ELSE RG!Redistributed(indl, ResLine.by + 1)

\* local_join or local_filter, with the constants of the call.
Combined(c) ==
  LET t2 == GatheredOf(matrices[ResLine.mat], c) IN
  IF ResLine.op = "join" THEN RG!LocalJoin(Spread[c], t2, ResLine.pivot + 1, ResLine.order)
  ELSE RG!LocalFilter(Spread[c], t2, ResLine.pivot + 1, ResLine.pivot12 + 1, ResLine.order)

Combine ==
  /\ phase = "result_generation" /\ resLine <= Len(script.results) /\ ResLine.op \in {"join", "filter"}
  /\ indw' = Spread
  /\ Take([c \in RG!Row |-> Combined(c)])
  /\ labels' = RG!PutTuple(ResLine.order, labels, ResLine.mat)
  /\ nres' = IF ResLine.report THEN RG!TotalRows(indl') ELSE nres

\* The next query of a trial, or the first one of the next trial.
NextQuery ==
  LET k == CHOOSE i \in DOMAIN LubmQueries : LubmQueries[i] = script IN
  /\ phase = "done"
  /\ k < Len(LubmQueries) \/ repeat < MaxRepeat
  /\ script' = LubmQueries[(k % Len(LubmQueries)) + 1]
  /\ repeat' = IF k < Len(LubmQueries) THEN repeat ELSE repeat + 1
  /\ matrices' = [n \in Names(script') |-> NoMatrix]
  /\ dm' = FreshVector
  /\ line' = 1 /\ phase' = "query_execution"
  /\ ClearResults
  /\ UNCHANGED <<data, nonisov, G>>

LubmNext ==
  /\ script.program = "magiqScal"
  /\ Execute \/ BeginResults \/ TakeTransposed \/ Combine \/ EndOfScript \/ NextQuery

MagiqNext == script.program = "magiqParse" /\ Next

\* Either program.
ProgramsSpec == (Init \/ LubmInit) /\ [][MagiqNext \/ LubmNext]_vars

-----------------------------------------------------------------------------
(* Correctness. *)

\* A join or a filter merges tables that are sorted by their pivots, and on the process
\* that has the key's columns of the matrix: so are the tables that the lines of a query's
\* text, or the constants of the code, send into it.
KeysAligned ==
  IF script.program = "magiqParse" THEN RG!KeysAligned
  ELSE Len(applied) > 1 =>
         LET pivot == script.results[applied[Len(applied)]].pivot + 1 IN
         \A c \in RG!Row : \A i \in DOMAIN indw[c] :
           /\ PartOf(NEntities, ProcCols, indw[c][i][pivot]) = c
           /\ i > 1 => indw[c][i - 1][pivot] <= indw[c][i][pivot]
=============================================================================
