------------------------------------ MODULE Magiq ------------------------------------
(***************************************************************************)
(* A MAGiQ query from its first line to its last (parseSparql): the lines  *)
(* of the query execution (parseQueryLine), each of which computes a       *)
(* matrix or restricts one, and those of the result generation             *)
(* (parseResGenLine), which join the matrices: ResultGen on the matrices   *)
(* that the execution leaves.                                              *)
(*                                                                         *)
(* The forms of an execution line, with <<a, b>> for m_a_b:                *)
(*   select    m = G (x) D*val  or  m = G.T (x) D*val                      *)
(*   left      m = D x m                                                   *)
(*   right     m = m x D                                                   *)
(* where D is I^pos or the reduction m'.D or m'.T.D of another matrix.     *)
(* isRDF tells the semiring sign from the sign of the plain product.       *)
(* All processes take the same lines: each line is a step.  A script names *)
(* the program that runs it: magiqParse reads it from a file, magiqScal    *)
(* has its scripts in the code (module Lubm).                              *)
(***************************************************************************)
EXTENDS DistMatrix

CONSTANTS MaxLabels,     \* as in ResultGen
          Inputs,        \* data: sets of entries [row, col, val], the triples of a file
          Renumberings,  \* the permutations a load may apply; an empty function for none
          Scripts,       \* queries: [program, lines, results]
          MaxRepeat      \* times a query is run, the program's last argument

VARIABLES data,      \* the triples, as the file numbers the entities
          nonisov,   \* the permutation, empty without isPerm
          G,         \* the graph
          script,    \* the query
          matrices,  \* the matrices by name; NoMatrix when absent or freed
          dm,        \* the vector all reductions go to
          line,      \* the next line of the execution
          phase,     \* what comes next, or how the query ended
          repeat     \* runs begun

\* ResultGen's state.
VARIABLES found,     \* the matrices the result generation starts from
          resLine, labels, primary, indl, nres, applied, indw

execution == <<data, nonisov, G, script, dm, line>>
results == <<found, resLine, labels, primary, indl, nres, applied, indw>>
vars == <<execution, matrices, phase, repeat, results>>

\* The forms of a diagonal and of a line.
I(pos, val) == [kind |-> "constant", pos |-> pos, scale |-> val]
D(a, b, val) == [kind |-> "reduce", mat |-> <<a, b>>, dim |-> "Row", scale |-> val]
TD(a, b, val) == [kind |-> "reduce", mat |-> <<a, b>>, dim |-> "Column", scale |-> val]

Ln(op, m, transposed, isRDF, d) == [op |-> op, mat |-> m, transposed |-> transposed, isRDF |-> isRDF, diag |-> d]
FromG(m, d) == Ln("select", m, FALSE, TRUE, d)
FromGT(m, d) == Ln("select", m, TRUE, TRUE, d)
Left(d, m) == Ln("left", m, FALSE, FALSE, d)
LeftRDF(d, m) == Ln("left", m, FALSE, TRUE, d)
Right(m, d) == Ln("right", m, FALSE, FALSE, d)

\* The triples of a file, the permutations, and the lines a parser returns.
Triple == [row : Entity, col : Entity, val : 1 .. ElementRange - 1]
Diagonals == [kind : {"constant"}, pos : Nat, scale : Nat]
             \cup [kind : {"reduce"}, mat : Nat \X Nat, dim : {"Row", "Column"}, scale : Nat]
LineForms == [op : {"select", "left", "right", "malformed"}, mat : Nat \X Nat, transposed : BOOLEAN,
              isRDF : BOOLEAN, diag : Diagonals]
ResultForms == [op : {"join", "filter"}, mat : Nat \X Nat, rename : Int]

ASSUME InputsAssumption == \A d \in Inputs : d \subseteq Triple
ASSUME RenumberingsAssumption ==
  \A p \in Renumberings : p = <<>> \/ (p \in [Entity -> Entity] /\ \A x \in Entity : \E y \in Entity : p[y] = x)
ASSUME RepeatAssumption == MaxRepeat \in Nat \ {0}
ASSUME LabelsAssumption == MaxLabels \in Nat

NoMatrix == <<>>
Names(s) == {s.lines[i].mat : i \in DOMAIN s.lines}

\* The label that the diagonal of a line restricts, and the one that a reduction is about.
Restricted(l) == IF l.op = "left" THEN l.mat[1] ELSE l.mat[2]
Reduced(d) == IF d.dim = "Column" THEN d.mat[2] ELSE d.mat[1]

\* What a query must be for its answers to be defined, as those of the repository are.
\* A line selects, with the semiring, a new matrix by a predicate, a number of the element
\* type, or restricts a matrix that an earlier line computed, and then has no predicate; a
\* reduction is of another such matrix, over the entities of the label that it restricts, or
\* of one that a filter makes equal to it.
Earlier(s, i) == {s.lines[j].mat : j \in {k \in 1 .. i - 1 : s.lines[k].op # "malformed"}}
Equated(s, m, n) ==
  \/ m = n
  \/ \E i \in DOMAIN s.results :
       s.results[i].op = "filter" /\ {s.results[i].mat[1], s.results[i].rename} = {m, n}
LineWellFormed(s, i) ==
  LET l == s.lines[i] IN
  /\ l.op = "select" => l.isRDF /\ l.diag.scale \in 1 .. ElementRange - 1 /\ l.mat \notin Earlier(s, i)
  /\ l.op # "select" => l.mat \in Earlier(s, i) /\ l.diag.scale = 1
  /\ l.diag.kind = "reduce" =>
       l.diag.mat \in Earlier(s, i) \ {l.mat} /\ Equated(s, Reduced(l.diag), Restricted(l))

\* The labels of the table after so many lines of the result generation, of which those
\* without a key are dropped.
LabelsAfter(s) ==
  LET had[k \in 0 .. Len(s.results)] ==
        IF k = 0 THEN {}
        ELSE IF k = 1 THEN {s.results[k].mat[1], s.results[k].mat[2]}
        ELSE IF s.results[k].op = "join" /\ s.results[k].mat[2] \in had[k - 1]
             THEN had[k - 1] \cup {s.results[k].mat[1]}
             ELSE had[k - 1]
  IN had

\* The result generation takes each matrix of the execution once.  The second label of the
\* first one is no key; a join adds a label; a filter renames its matrix's first label to one
\* of the table, and it has no other place there.
FilterWellFormed(s, i) ==
  LET l == s.results[i]
      had == LabelsAfter(s) IN
  /\ l.rename \in had[i - 1]
  /\ l.mat[1] # l.rename =>
       /\ l.mat[1] \notin had[Len(s.results)]
       /\ \A j \in 1 .. Len(s.results) :
            s.results[j].op = "filter" /\ s.results[j].mat[1] = l.mat[1] => s.results[j].rename = l.rename
ResultWellFormed(s, i) ==
  LET l == s.results[i]
      had == LabelsAfter(s) IN
  /\ l.mat \in Earlier(s, Len(s.lines) + 1) /\ \A j \in 1 .. i - 1 : s.results[j].mat # l.mat
  /\ i = 1 => l.op # "filter" /\ l.mat[1] # l.mat[2]
  /\ i > 1 /\ l.mat[2] \in had[i - 1] =>
       /\ l.mat[2] # s.results[1].mat[2]
       /\ l.op = "join" => l.mat[1] \notin had[i - 1]
       /\ l.op = "filter" => FilterWellFormed(s, i)

WellFormed(s) ==
  /\ s.lines \in Seq(LineForms)
  /\ \A i \in 1 .. Len(s.lines) : s.lines[i].op # "malformed" => LineWellFormed(s, i)
  /\ s.program = "magiqParse" => s.results \in Seq(ResultForms)
  /\ \A i \in 1 .. Len(s.results) : ResultWellFormed(s, i) /\ Cardinality(LabelsAfter(s)[i]) <= MaxLabels
  /\ s.results # <<>> => Earlier(s, Len(s.lines) + 1) \subseteq {s.results[i].mat : i \in 1 .. Len(s.results)}

ASSUME ScriptsAssumption == \A s \in Scripts : WellFormed(s)

RG == INSTANCE ResultGen WITH query <- script.results, matrices <- found, line <- resLine,
        Queries <- {s.results : s \in Scripts},
        Contents <- SUBSET (Entity \X Entity)

Numbered(perm, ind) == IF ind \in DOMAIN perm THEN perm[ind] ELSE ind

ReadGraph ==
  Scatter({[row |-> Numbered(nonisov, e.row), col |-> Numbered(nonisov, e.col), val |-> e.val] : e \in data})
FreshVector == [r \in Procs |-> <<>>]

NoResults ==
  /\ found = <<>> /\ resLine = 1 /\ labels = <<>> /\ primary = RG!NoLabel
  /\ indl = RG!Empty /\ nres = 0 /\ applied = <<>> /\ indw = RG!Empty

ClearResults ==
  /\ found' = <<>> /\ resLine' = 1 /\ labels' = <<>> /\ primary' = RG!NoLabel
  /\ indl' = RG!Empty /\ nres' = 0 /\ applied' = <<>> /\ indw' = RG!Empty

Start ==
  /\ G = ReadGraph
  /\ matrices = [n \in Names(script) |-> NoMatrix]
  /\ dm = FreshVector
  /\ line = 1 /\ phase = "query_execution" /\ repeat = 1
  /\ NoResults

Init ==
  /\ data \in Inputs /\ nonisov \in Renumberings
  /\ script \in {s \in Scripts : s.program = "magiqParse"}
  /\ Start

-----------------------------------------------------------------------------
(* The query execution. *)

Line == script.lines[line]

\* diagonalizeV.
Diagonal(d) ==
  LET reduced == IF d.dim = "Column" THEN ReduceColumn(matrices[d.mat]) ELSE ReduceRow(matrices[d.mat], dm)
  IN IF d.scale = 1 THEN reduced ELSE Scaled(reduced, d.scale)

\* The position of a constant: the graph's entities are numbered anew when it is permuted.
Constant(pos) == Numbered(nonisov, pos)

DiagonalOf(d) ==
  IF d.kind = "constant" THEN UnitVector(Constant(d.pos), d.scale % ElementRange) ELSE Diagonal(d)

\* columnApply: whether the operand's columns or its rows are scaled.
AppliedDimOfRight(l) == "Row"
AppliedDim(l) == IF l.op = "right" \/ (l.op = "select" /\ ~l.transposed) THEN "Column" ELSE "Row"

multDimApplyPrune(M, v, dim, isRDF) == Prune(DimApply(M, v, dim, isRDF))

LineResult(v) ==
  LET operand == IF Line.op = "select" THEN G ELSE matrices[Line.mat]
      product == multDimApplyPrune(operand, v, AppliedDim(Line), Line.isRDF)
  IN IF Line.op = "select" /\ Line.transposed THEN Transpose(product) ELSE product

\* magiqParse stops a query early at a result without nonzeros, magiqScal goes on.
StopsWhenEmpty == script.program = "magiqParse"

\* A line in one of the forms.
Execute ==
  /\ phase = "query_execution" /\ line <= Len(script.lines) /\ Line.op # "malformed"
  /\ LET v == DiagonalOf(Line.diag)
         result == LineResult(v)
     IN /\ dm' = IF Line.diag.kind = "constant" THEN dm ELSE v
        /\ matrices' = [matrices EXCEPT ![Line.mat] = result]
        /\ phase' = IF StopsWhenEmpty /\ getnnz(result) = 0 THEN "empty" ELSE phase
  /\ line' = line + 1
  /\ UNCHANGED <<data, nonisov, G, script, repeat, results>>

\* A line in no form ends the query with an error.
Reject ==
  /\ phase = "query_execution" /\ line <= Len(script.lines) /\ Line.op = "malformed"
  /\ phase' = "error"
  /\ UNCHANGED <<execution, matrices, repeat, results>>

\* The line result_generation.
BeginResults ==
  /\ phase = "query_execution" /\ line > Len(script.lines)
  /\ phase' = "result_generation"
  /\ found' = [i \in DOMAIN script.results |-> Nonzeros(matrices[script.results[i].mat])]
  /\ UNCHANGED <<execution, matrices, repeat, resLine, labels, primary, indl, nres, applied, indw>>

-----------------------------------------------------------------------------
(* The result generation. *)

\* A line that is applied frees its matrix.
ApplyResultLine ==
  /\ phase = "result_generation"
  /\ UNCHANGED <<execution, phase, repeat>>
  /\ RG!FirstJoin \/ RG!Join \/ RG!Filter
  /\ matrices' = [matrices EXCEPT ![script.results[resLine].mat] = NoMatrix]

DropResultLine ==
  /\ phase = "result_generation"
  /\ UNCHANGED <<execution, matrices, phase, repeat>>
  /\ RG!NoKey

EndOfScript ==
  /\ phase = "result_generation" /\ resLine > Len(script.results)
  /\ phase' = "done"
  /\ UNCHANGED <<execution, matrices, repeat, results>>

\* The program runs the same query again: its matrices and dm stay as they are.
RunAgain ==
  /\ phase \in {"empty", "error", "done"} /\ repeat < MaxRepeat
  /\ repeat' = repeat + 1
  /\ line' = 1 /\ phase' = "query_execution"
  /\ ClearResults
  /\ UNCHANGED <<data, nonisov, G, script, matrices, dm>>

Next == Execute \/ Reject \/ BeginResults \/ ApplyResultLine \/ DropResultLine \/ EndOfScript \/ RunAgain
Spec == Init /\ [][Next]_vars

-----------------------------------------------------------------------------
(* What a query asks for. *)

\* An assignment gives labels entities: the one that a triple gives to the labels of a line.
Assigned(l, e) == [n \in {l.mat[1], l.mat[2]} |-> IF (n = l.mat[1]) # l.transposed THEN e.row ELSE e.col]
Agree(ans, more) == \A n \in DOMAIN ans \cap DOMAIN more : ans[n] = more[n]
Joined(ans, more) == [n \in DOMAIN ans \cup DOMAIN more |-> IF n \in DOMAIN ans THEN ans[n] ELSE more[n]]

\* The assignments that have the triple of every line that selects from the graph, the
\* constant of every line that has one, and the equality of every filter: each line
\* extends or drops the assignments so far.
TriplesOf(l, triples) == {e \in triples : e.val = l.diag.scale /\ (l.mat[1] = l.mat[2] => e.row = e.col)}
WithTriple(l, some, triples) ==
  {Joined(p[1], p[2]) :
     p \in {q \in some \X {Assigned(l, e) : e \in TriplesOf(l, triples)} : Agree(q[1], q[2])}}
WithConstant(l, some) == {ans \in some : l.diag.kind = "constant" => ans[Restricted(l)] = l.diag.pos}
Extended(l, some, triples) ==
  IF l.op = "malformed" THEN some
  ELSE WithConstant(l, IF l.op = "select" THEN WithTriple(l, some, triples) ELSE some)
Assignments(lines, triples) ==
  LET some[k \in 0 .. Len(lines)] == IF k = 0 THEN {<<>>} ELSE Extended(lines[k], some[k - 1], triples)
  IN some[Len(lines)]
AnswersTo(s, triples) ==
  {ans \in Assignments(s.lines, triples) :
     \A i \in DOMAIN s.results : s.results[i].op = "filter" => ans[s.results[i].mat[1]] = ans[s.results[i].rename]}
Answers == AnswersTo(script, data)

-----------------------------------------------------------------------------
(* Correctness. *)

\* Matrices are in blocks of the grid's shape and hold no explicit zeros; dm is distributed
\* as a vector of the graph's dimension once it was used.  A table of the result generation
\* has one column per label.
ExecutionTypes ==
  /\ script \in Scripts /\ phase \in {"query_execution", "result_generation", "empty", "error", "done"}
  /\ repeat \in 1 .. MaxRepeat
  /\ \A n \in DOMAIN matrices :
       matrices[n] # NoMatrix =>
         \A r \in Procs : \A e \in matrices[n][r] : e \in Block(r)
  /\ \A r \in Procs : Len(dm[r]) \in {0, MyLength(r)} /\ \A k \in DOMAIN dm[r] : dm[r][k] \in 0 .. ElementRange - 1
TypeOK == ExecutionTypes /\ (script.program = "magiqParse" => RG!TypeOK)

\* A matrix keeps every nonzero that is part of an answer, whatever restricts it and in
\* whatever blocks the answer lies: an early stop means there is no answer.
NoAnswerLost ==
  phase \in {"query_execution", "empty"} =>
    \A ans \in Answers : \A i \in 1 .. line - 1 :
      LET n == script.lines[i].mat
      IN <<Numbered(nonisov, ans[n[1]]), Numbered(nonisov, ans[n[2]])>> \in Nonzeros(matrices[n])

TableRows == FlattenSeq([k \in 1 .. ProcCols |-> indl[k - 1]])

\* A query that ends reports exactly its answers, each once, however often it is run and
\* whatever reductions an earlier line or run left in dm.
ExactAnswers ==
  phase = "done" /\ script.results # <<>> /\ Len(applied) = Len(script.results) =>
    LET rowOf(ans) == [i \in DOMAIN labels |-> Numbered(nonisov, ans[labels[i]])] IN
    /\ {TableRows[i] : i \in DOMAIN TableRows} = {rowOf(ans) : ans \in Answers}
    /\ Len(TableRows) = Cardinality(Answers)
    /\ nres = Cardinality(Answers)

\* After a line with a reduction: the line, and what its diagonal should be for an entity.
JustReduced ==
  /\ phase = "query_execution" /\ line > 1
  /\ script.lines[line - 1].diag.kind = "reduce"
Reduction(M, d, x) ==
  IF \E e \in Nonzeros(M) : e[IF d.dim = "Column" THEN 2 ELSE 1] = x THEN d.scale ELSE 0

\* The reduction m.T.D puts, in each process's part of the vector, the scale for exactly the
\* entities that have a nonzero in their column; m.D does so for all that have one in
\* their row.
DiagonalCovers ==
  JustReduced =>
    LET d == script.lines[line - 1].diag
        wanted(x) == Reduction(matrices[d.mat], d, x)
    IN \A x \in Entity : (d.dim = "Column" \/ wanted(x) # 0) => ElementAt(dm, x) = wanted(x)
=============================================================================
