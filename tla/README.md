# Verification of CombBLAS and MAGiQ

This directory holds TLA+ models of the distributed core of this repository, the TLC
configurations that check them on small instances, and TLAPS proofs of what was found worth
having for every grid. The repository is CombBLAS 1.6.1, a library of sparse matrices and
vectors distributed over a grid of MPI processes (`src/include`, `src/src`), with MAGiQ on
top, an engine that answers queries over RDF graphs by matrix operations
(`src/magiq_include`, `src/magiq_src`). Paths below are relative to `src/`.

    tlc -config Summa.cfg MCSumma.tla          model-check one configuration
    tlapm SummaProofs.tla                      check the proofs of one module

`PROJECT.json` lists, for machines, what this file explains: components, runs, the source
lines behind each definition, the mutations each property was tried against, the hazards and
the theorems. Definitions whose names end in what they do wrong (`StageRootStaggered`,
`ReduceColumnInPlace`, ...) are such mutations; the specifications do not use them.

## 1. The system

All processes run the same program. There is no coordinator and no recovery: an MPI error
ends the job. So there are no crashes to model; what is hard is *skew* (a process may be
several calls ahead of another), *matching* (MPI pairs collectives by position and messages
by order, not by meaning), *ownership* (index arithmetic on uneven splits), and *order*
(data that must come back, or stay sorted, in the order it had).

| component | state it keeps | operations | interacts by |
|---|---|---|---|
| SUMMA multiplication (`include/ParFriends.h`, `include/mtSpGEMM.h`) | the stage, the received blocks, partial products, what is allocated | `Mult_AnXBn_Synch`, `GetSetSizes`, `BCastMatrix`, `LocalSpGEMM` | broadcasts on the row and column communicators |
| process grid and distribution (`CommGrid`, `FullyDist.h`, `SpParMat::Owner`) | none after construction | ranks, complement ranks, owner and local index | called by everything |
| parallel text input (`SpParHelper::FetchBatch`, `SpParMat::ParallelReadMM`, `FullyDistSpVec::ParallelRead`) | file position and pushed lines of each rank | fetch a batch, process it, loop | barrier, reduction, and `GetElements` when ids are permuted |
| distributed vectors (`FullyDistVec`, `FullyDistSpVec`) | each process's part of a dense array, or of a sorted list of index and value | element access, set operations, sort, permutation, inversion, filtering, text I/O; `GetElements` for queries | all-to-all exchanges, one-sided puts, reductions |
| matrix-vector products (`include/ParFriends.h`) | none of their own | exchange with P(j,i), gather in the column, multiply, send and merge in the row | point-to-point, column and row communicators |
| string dictionary (`SpParMat::ReadGeneralizedTuples`) | labels per rank, labels per hash owner, the number-to-label vector | number the labels of a file, `ReDistributeToVector` | all-to-all, scan |
| distributed matrix operations (`SpParMat`, `dcsc.cpp`) | a block per process | `Reduce`, `DimApply`, `Prune`, `Transpose`, from triples and back, selection, loops, products in two rounds, indexing, assignment, I/O | row and column communicators, exchange with P(j,i) |
| query execution (`magiqScal.h`: `parseSparql`, `parseQueryLine`) | named matrices, the graph, the vector `dm` | lines that select from the graph or restrict a matrix | matrix operations |
| gather of local tables (`send_local_indices`) | a table per process of a column, the round | a binary tree of sends of a count and a table | point-to-point messages, one tag |
| result generation (`parseResGenLine`) | a table spread over the first grid row, its labels | first join, join, filter | matrix transpose, the gather, all-to-all in the first row |
| hard-coded LUBM queries (`magiqScal.cpp`) | as query execution, but each query its own vectors | seven fixed queries, with a result generation of their own | as query execution |
| local storage and kernels (`SpDCCols`, `Dcsc`, `SpTuples`, `Friends.h`, `SpHelper.h`, `MultiwayMerge.h`, `SpImpl.cpp`) | the block of one process: nonempty columns, pointers, rows, values | build, add, prune, multiply, split, index, merge, by many kernels and threads | called by the distributed operations |
| bottom-up BFS, one-sided SpGEMM, selection and sample sort, MCL helpers, memory pool, generators | | see section 7 | |

### What makes each component correct, and what could go wrong

* **SUMMA.** The n-th calls on a communicator are the same collective with the same root on
  all its members; the two operands of a local product share the inner index, and are the
  blocks whose sizes were exchanged; no block of the caller is freed; no partial product is
  lost or added. Rows and columns are different communicators, so one process may be a stage
  ahead of its row and behind its column. `LocalSpGEMM` deletes its operands on request, but
  returns before it does when one of them is empty (`include/mtSpGEMM.h:85`).
* **Distribution.** The ranges of the processes cover each index once, on grids the length
  does not divide and on dimensions shorter than the grid, where everything belongs to the
  last process.
* **Parallel input.** A line that straddles two byte ranges, or two batches, is processed by
  one rank, once. The collectives inside the batch loop must match although the number of
  batches is each rank's own.
* **Vectors.** What any operation leaves must be what it would leave if the vector were in
  one place, wherever the parts are and whichever process has none; lists stay sorted,
  without an index twice, each index at its owner, since every operation searches, merges and
  cuts them by position. Answers come back by owner and must be put where their questions
  were. One-sided puts under shared locks must never meet.
* **Products.** Pieces are shifted by the offset of the process they came from; the pieces
  of a row are cut for their owners, who are other processes for a rectangular matrix.
* **Local storage.** Columns in increasing order and none empty, pointers that count the
  nonzeros, rows in order: every kernel walks with cursors that rely on it. All kernels for
  one job must agree, with threads and without.
* **Matrix operations.** A column of the matrix is in the blocks of a process column, the vector of
  its values in a process row: masks, bounds, lists of columns and results cross the diagonal, with
  the offset of whoever sent them. Readers fill buffers for others, and none may be overrun or
  forgotten. Indexing is two products whose inner dimension is cut differently by rows and columns.
* **Dictionary.** Equal labels get equal numbers, different labels different ones, on
  different ranks and under hash collisions; the vector of labels is the inverse.
* **Query execution.** A sequence of restrictions from either side drops no nonzero that is
  part of an answer; constants are translated when the graph is permuted; all lines and all
  runs of a query share one vector, `dm`.
* **LUBM.** The pivots and column orders of the joins are constants in the code: a wrong one
  joins other entities and still reports a table.
* **Gather.** Everything a column has reaches its first process, sorted; a row that runs
  ahead into the next gather, whose messages have the same tag, is not misunderstood.
* **Result generation.** The table is the inner join of the matrices: rows that belong
  together must be on the same process and in the order the merge expects.

## 2. The modules

| module | models | uses |
|---|---|---|
| `Collectives` | how MPI matches collectives and all-to-all exchanges (external to this code) | |
| `Ordering` | a finite set as a sequence in a given order | |
| `Distribution` | `CommGrid`, `FullyDist`, block distribution of `SpParMat` | |
| `SpGEMM` | abstract: what a parallel multiplication promises | |
| `Summa` | `Mult_AnXBn_Synch`; implements `SpGEMM` | `Collectives`, `SpGEMM` |
| `ParallelRead` | `FetchBatch` and the loops around it | `Collectives`, `Ordering` |
| `GetElements` | `FullyDistVec::GetElements`, called twice in a row as `ProcessLines` does | `Distribution`, `Collectives` |
| `Dictionary` | first pass of `ReadGeneralizedTuples` | `Distribution`, `Collectives`, `Ordering` |
| `DistMatrix` | `Reduce`, `DimApply`, `Prune`, `Transpose` in blocks, as functions | `Distribution` |
| `TreeGather` | `send_local_indices` | |
| `LocalTables` | `local_join`, `local_filter` and the sort, on the part of a table that one process has | `Ordering` |
| `ResultGen` | `parseResGenLine` and its steps | `Distribution`, `LocalTables` |
| `Magiq` | `parseSparql`, a query from its first line to its last | `DistMatrix`, `INSTANCE ResultGen` |
| `Lubm` | the seven queries of `magiqScal`, run by the same steps | `Magiq` |
| `SinglePrecision` | whole numbers and quotients in a variable of type `float` | |
| `Dcsc`, `SpTuples` | the storage of a block and the list of triples, with their operations | |
| `LocalKernels` | products and merges on blocks, each by every kernel | `SpTuples` |
| `SparseMatrix` | abstract: what a process expects of its block | |
| `SpDCCols` | the block and the operations on it; implements `SparseMatrix` | `LocalKernels` |
| `DistVectors` | `FullyDistVec` and `FullyDistSpVec`: each collective operation as a function on what all processes have | `Distribution` |
| `DistSpMV` | the products with a sparse or dense vector | `DistVectors` |
| `GlobalVectors` | abstract: what the vectors promise | |
| `FullyDistVectors` | a program that calls one operation on the vectors after another | `DistSpMV` |
| `DistSpMat` | the collective operations of `SpParMat`, as functions on what all processes have | `DistSpMV` |
| `GlobalMatrices` | abstract: what the matrices promise, beside the vectors | `GlobalVectors` |
| `SpParMats` | the program of `FullyDistVectors` with calls on matrices; implements `GlobalMatrices` | `FullyDistVectors`, `DistSpMat` |
| `MC*` | the inputs that TLC enumerates | |
| `CommonProofs` | theorems on the distribution and on the merge of two tables; lemmas on sequences, divisions, sets listed in order and recursive functions | `Distribution`, `LocalTables` |
| `SummaProofs`, `TreeGatherProofs`, `ParallelReadProofs`, `GetElementsProofs`, `DictionaryProofs` | theorems | the module of that name, `CommonProofs` |
| `MagiqProofs` | theorems | `Lubm`, `CommonProofs` |
| `VectorProofs` | theorems | `SpParMats`, `CommonProofs` |

### State and actions against the code

* **`Summa`.** `pc[p]` is the blocking MPI call process p is in. An action `Leave...` is the
  code from the return of one such call to the next call, so every interleaving the MPI
  library can produce between calls is explored. `rowLog[p]` and `colLog[p]` are the
  collectives p has called; a call returns when the members it depends on have logged the
  same position. `aRecv`, `bRecv` name the block that `*ARecv`, `*BRecv` holds; a block is its
  place in the grid, a partial product is the pair of its operands, so a wrong pairing shows in
  the result. `temps` and `own` are the allocations that `delete` may reach. Which blocks are
  empty and which products vanish is an input. `Eager` lets the root of a broadcast return
  before the others arrive, which MPI allows.
* **`ParallelRead`.** A file is its size and its newlines; one `Fetch` is a `FetchBatch` with
  the `ProcessLines` after it. The record `reader` says which caller it is: what range of the
  file is split, whether the ids are permuted, whether `lines` is cleared between batches.
* **`GetElements`, `Dictionary`.** One action per stretch between exchanges. `sent[p]` is the
  sequence of what p gave to its all-to-alls; the n-th of everybody are one exchange. The
  exchange of counts before an exchange of data is part of it in `Dictionary` (the second
  cannot return anywhere before the first did everywhere) and of its own in `GetElements`.
* **`TreeGather`.** One action per send, per receive and per round without either. `chan` is
  the FIFO of each pair. `eager` chooses between sends that return at once and sends that
  return when the message is received, as MPI may, per run.
* **`ResultGen`.** One action per line of a query; what a line does in the processes is in
  functions on the per-process tables (`Gathered`, `Redistributed`, and those of `LocalTables`), with the
  merge cursors of `local_join` as they are (`Meetings`), because its answer depends on runs of equal keys.
  A line is atomic since all its communication is collective and no process can be in
  two lines' tables at once; the one part that is point-to-point is `TreeGather`.
* **`Magiq`.** One action per line. A matrix is a function from processes to local entries, so
  that the complement exchange, the concatenation of the scaler and the local index
  arithmetic are in the model. `dm` keeps its contents between lines and between runs.
  A script line is a record of the form the parser accepts; tokenising is left out. What its
  answers are is defined from the graph and the lines alone (`Answers`), for queries that are
  `WellFormed`: a line selects by a predicate with the semiring, or restricts, without a predicate, a matrix that
  an earlier line computed, by a reduction of another, over the label it restricts or one
  that a filter equates with it; the result generation takes each of these matrices once, its first line is a
  join, no key is the second label of that line's matrix (`result_gen_first_label`), a join adds a label, and
  a filter's label has no other place in the table (`ResultWellFormed`). The queries under
  `examples/queries` and those in the code are.
* **`Lubm`.** Each query is its execution lines, in `Magiq`'s form, and the calls of its result
  generation with the constants of the code: pivots, order, whether the table is
  redistributed and by which column. In `magiq` a program is a script or one of these.
* **`SpDCCols`.** `A` is the object; an action is a call with everything under it, and the choice
  of kernel, threads and buffers is part of the call, while the abstract action is one for all of
  them. Sequences are the code's arrays, from 1 instead of from 0; the values inside them
  (columns, rows, pointers) are the code's. Threads that share work without writing the same
  place are a function of how the work is cut; where they do write one array (the
  displacements of `generic_gespmv_threaded`) `NoRacingMarks` is the property.
  What the code would do beyond an assertion or past an array is a guard of the action, with the
  reason above it.
* **`FullyDistVectors`.** `sp` and `dn` are a sparse and a dense vector, each a function from
  processes to local parts. All processes call an operation together, its steps are
  separated by collective calls and work on local data only, so an operation is one action;
  where the order of items is not determined (who puts last, the hash of a value, the order
  items arrive in, the random destinations) the action has all the outcomes, or the
  sample that is named. What the code gets wrong for some arguments is in the model too where it stays within
  the arrays: indexing by requests out of order is a call like the others, marked as not `servable`. The puts of `InvertRMA` are compared place by place (`PutsDisjoint`).
* **`SpParMats`.** A call takes one of the given matrices, dealt out in blocks, with `sp` or `dn` as
  mask, bounds, loops or list of indices, and answers with a matrix, a vector or a number. The
  blocks, `blk[r]`, are sets of entries at local indices; what a block is in memory is
  `SpDCCols`. Who reads, who sends to whom in which round and what offset is added are as in the code;
  `ReadDistribute` is by rounds of full buffers.

## 3. The abstract specifications

`SpGEMM` is the promise of any parallel multiplication: processes call it in any order,
nobody returns before all have called, each returns once, with its block of the product, and
all return. `Summa` implements it with the mapping: *called* are the processes past `start`, *ret*
the pairs of a process that is `done` and its `result`, *want* the set of partial products the
inputs call for. TLC checks the whole (`ImplementsSpGEMM`, liveness included); TLAPS proves
the safety part for every grid (`SummaRefines`).

`SparseMatrix` is a matrix as a partial function from places to values, with one action for each
thing that can be asked of it. The mapping reads the arrays of the storage (`Abs`); a list of
triples out of order, or with a place twice, maps to no matrix.

`GlobalVectors` has two vectors as functions from indices, and each operation in terms of
them. The mapping puts the parts together by the owner of each index; parts that overlap or
are out of order map to no vector. Where the code leaves a choice, so does the
abstract action: the order of a permutation, which of several puts stays. Where the code does less than it says, so
does the promise: a sparse vector indexed by another answers every index if the requests of each process are
`servable`, in order and of different local numbers; if not, all that is promised is that an answer is
zero or that of some index asked for. `GlobalMatrices` adds
matrices, as functions from places to values, with each operation on the whole of one:
the product as a sum over the inner index, indexing by rows and columns, the k-th value of
a column in its sorted list. The blocks of an answer are put together by their offsets; a place
outside its block, or twice in it, makes no matrix. `ImplementsGlobal` is for vectors and matrices
together.

## 4. The runs

Passing runs:

| run | instance | shows |
|---|---|---|
| `summa` | 2 x 2 grid, eager broadcasts, A given up and B kept; dense operands, each one block missing, each one product missing | the collectives match, operands belong together, inputs survive, only unmultiplied blocks stay allocated, the result is the product and everybody gets it |
| `read` | 3 ranks, header of 3 bytes, every placement of newlines in up to 6 bytes; the matrix reader in batches of 3, the permuted one and the vector reader in one batch | each line is processed once and in order; reading ends |
| `get_elements` | 2 x 2 grid, vectors of length 1, 2, 5, 7, strided requests, idle processes, two calls | answers are right and in place; owners are asked only for what they have |
| `dictionary` | 2 x 2 grid, five labels, hash functions that spread, reverse and collide | one numbering, its inverse in place |
| `tree_gather` | column of 4, two gathers, buffered and synchronous sends | the first process has everything, sorted; counts fit; no deadlock |
| `magiq` | 2 x 2 grid, five entities, scripts after `examples/queries` and the seven LUBM queries, sparse, full, triangular and striped graphs, with and without permutation, each program run twice | no answer is lost by the execution, the table is the inner join after each line and exactly the answers in the end |
| `kernels` | blocks of 2 x 3, 3 x 2 and 2 x 2, up to three nonzeros, every operation after every other, by every kernel, 1 to 3 threads, up to 3 buckets and splits | storage stays in order, changes and answers as the matrix would; the rows of threads are in order, piece after piece, and no two threads mark the same displacement |
| `vectors` | 2 x 2 grid, vectors of length 3, 5 and 9, square, wide and tall matrices, up to 3 threads | every operation on vectors and matrices changes and answers as the whole vector or matrix would; parts stay in place and in order; puts are disjoint |

Runs that show a disagreement between the code and what the repository says of it:

| run | what happens |
|---|---|
| `read_permuted_batches` | With `isPerm` each batch exchanges ids with all ranks (`src/SpParMat.cpp:3589`) inside a loop that ranks leave at different times: a rank is in the reduction while others are in the exchange. |
| `tree_gather_three` | With a number of rows that is no power of two the last subtree is never sent (`magiq_include/magiqScal.h:263`): with three rows, row 2 is lost. |
| `result_gen_first_label` | A join on the second label of the query's first matrix is not redistributed (`magiq_include/magiqScal.h:902`), although the table is spread by the first label: rows are missing. |
| `col_concatenate` | Of pieces cut by columns of which only one, not the first, has nonzeros, `ColConcatenate` takes the arrays and drops where they begin (`src/SpDCCols.cpp:966`). |

### Bounds, and why they are enough

* *2 x 2 grids.* The smallest grid in which rows, columns, the complement exchange and the
  root of a broadcast all differ between processes. In SUMMA two stages already allow a
  process to be in another stage than its neighbours; for larger grids there is the proof.
  The gather has its own column of four, since two rows have a single round.
* *Lengths* 1 to 7 on four processes, and three entities on two rows, give every case of the
  distribution: shorter than the grid, divisible, with a remainder in one or both splits.
* *Files* of up to 9 bytes over 3 ranks: ranges of 0 to 3 bytes, so a line may begin before a
  range, fill it, or end at its last byte. With batches of 3 bytes a rank needs a second one
  when a line that starts in its range ends past the first batch, which is the case that
  continues at `curpos`. The code demands that a batch hold a line; so do the files (`FilesAssumption`).
* *Blocks* of up to 3 columns and 3 nonzeros: columns that are empty in the front, between
  others and at the end, columns with one nonzero and with several, and sums that are zero, which stay
  entries (`ElementRange` = 2). `Threshold` = 2 makes both ways of indexing (search and scan) occur.
  The list of an operation's arguments is small because every reachable block meets it.
* *Vectors* of length 3 leave the first process with nothing, of 5 give the last one more, of 9 up
  to three each.
  `ElementRange` = 10 lets values be indices, exceed the length, and repeat. As indices, the vectors of length 3 and 5
  are servable requests, and that of length 9 asks one owner for a later element first, and two owners for the same
  local number. The matrix of 25
  rows makes a thread of the merge have several indices. A result that is not
  one of the given vectors can be asked for its place and order only and is then
  replaced by an assignment, so that each operation meets each given vector, and the
  states stay as many as there are pairs of vectors and calls.
* *Matrices* are 5 x 5, 3 x 5, 5 x 3 and 9 x 9, with blocks of unequal sizes, columns that are empty
  in one block or in all, and columns longer than k (k is 1 to 3). Triples make a matrix of 10 x 11, some for
  the same place. The reader's memory is 2, 5 or 8 entries, so that a buffer holds one line,
  is filled several times, or never; with several readers one ends rounds before the other. Products
  are kept to inner dimensions whose parts are not one wide (`Splittable`), where the code loses
  entries. A tree of two rows has one round; with another number of rows it is `TreeGather`'s question.
* *`MaxRepeat` = 2*, since the second run is the first that finds old matrices and an old `dm`.
* *`ElementRange` = 256*, `uint8_t`, as in the code. Predicates are 2, 3 and 6, so that products of
  scales can be mistaken for a predicate.
* *`MaxLabels` = 6*: what a query can have when each join adds one label.
* *Two calls* in `get_elements` and `tree_gather`: a process can be one call ahead at most in
  the first; in the second senders run ahead as far as there are calls, two being enough for
  messages of different calls to be in one channel. That is more than the program can do: between
  two gathers a column meets in an `MPI_Allgather` (`magiq_include/magiqScal.h:180`), which is left out, so that
  what holds of the gather does not depend on it.

Deadlock is checked in every run but `magiq`, where the program ends and the final
states have no step; the other modules state termination as a step of its own, or serve calls for ever.

| run | distinct states |
|---|---|
| `summa` | 30,804 |
| `read` | 9,002 |
| `get_elements` | 9,234 |
| `dictionary` | 18,468 |
| `tree_gather` | 49,923 |
| `magiq` | 69,309 |
| `kernels` | 50,375 |
| `vectors` | 4,549 |

### Fairness

`Summa` and `ParallelRead` assume weak fairness of each process's step: an MPI process that is
not inside a call that cannot return runs on. Nothing is assumed of one action against
another. `SpGEMM` assumes weak fairness of its next-state relation. The other modules have no
fairness and claim no liveness; that they do not get stuck is the deadlock check.

## 5. What is proved

Assumptions are only those of the modules: N is a positive natural number, the flags are
Booleans, an input lists a product only of nonempty blocks; for grids, that both dimensions
are positive; for the others what the inputs are (`GetElements`: indices in the range of the
vector; `Dictionary`: a finite set of labels; `TreeGather`: tables sorted by column;
`FullyDistVectors`: sparse vectors with values at indices below their lengths; `ParallelRead`: see below). Where a theorem needs more, it says so after ASSUME.

* **`SummaProofs`** (any N, inputs, `Eager`, `ClearA`, `ClearB`). The four invariants of the run,
  `TypeOK`, `CollectivesMatch`, `OperandsMatch`, `InputsSurvive`, and that every step is a step or
  a stutter of `SpGEMM`. None is inductive: that two logs agree says nothing of what the next
  call will be. The invariant `IInv` makes the logs a *function of the control point*: how many
  calls p has made on its row and on its column (`RowCalls`, `ColCalls`) and which call is at each
  position (`RowCall`, `ColCall`) depend only on `pc[p]` and `stage[p]`. Then what a
  collective delivers can be read off the root's log at the receiver's position
  (`RowDelivers`, `ColDelivers`), which gives the operands (`RecvInv`), the sizes (`SizesInv`), and by
  stages the partial products (`TermInv`); `BarrierInv` carries "nobody returns before everybody
  called". One lemma per action, one step per conjunct.
  Then `OnlyUnmultipliedLeft`, by a second invariant relative to the first:
  `TempsInv` says which received blocks are allocated at each control point. It shows both
  that nothing else leaks and that the blocks of a stage with an empty operand do.
* **`CommonProofs`** (any grid and length). The owner of an element is a process of the
  grid and its local index is within its part (`OwnerInRange`), no other process and
  index stand for that element (`OwnerUnique`), and on square grids the complement of the complement is
  the process itself (`ComplementInvolution`). Lemmas on displacements (`DisplacementsRight`,
  `SlotsRight`): they are the sums of the counts, every place of a buffer is one rank's, and lower
  ranks have lower places.
* **`VectorProofs`** (any grid, any vector). `PutsDisjoint`: the one-sided puts of all ranks into a
  receive buffer are at different places and fill it. `PutsInvert`: what they leave is what the
  all-to-all exchange brings, item by item (`PutsRight`), so that `InvertRMA` gives the vector
  `Invert` gives, which of two equal indices wins included. Both follow from the displacements
  the receivers hand back being the sums of the counts they were told. `PutsDisjoint` needs no inductive
  invariant: `Known` restricts it to states whose vectors are the given ones, and of these
  the lists have lengths (`BuiltLengths`, from `VectorsAssumption`).
  Two facts about the block of a process (any block, not only those of `SpDCCols.cfg`) have the order of
  its storage as hypothesis, which `TypeOK` of `kernels` checks. `AuxFindsEveryColumn`, for blocks of fewer than
  2^24 - 1 columns: what
  `ConstructAux` writes is, chunk by chunk, the first position from which columns are in the chunk or past it
  (`LowerBoundRight`), and a column's chunk always has an end in the array (`ChunkOf`), also where
  the chunks rounded up reach past the last column. The code computes all of this with floats
  (`src/dcsc.cpp:914`, `:915`, `:1015`), and so does the model (`SinglePrecision`). That up to that width nothing is
  lost is the lemma `FloatQuotientExact`: a quotient that is above a whole number k is above it by more
  than half of the distance between floats at k, so that rounding to a float and then up gives what
  rounding up alone would. For wider blocks the theorem says nothing. `NoRacingMarks`: a thread marks receivers after the last one
  of every piece before it, and none after its own last one while a later piece has entries (`MarksBetween`). It needs
  what the comment at `include/Friends.h:209` calls "FACT: Data is sorted", the
  invariant `DataIsSorted` of the run.
* **`TreeGatherProofs`** (any number of processes and calls, any tables, both kinds of sends).
  All the invariants of the run. First `CountFitsTable`: although all messages have one tag and a
  sender may be calls ahead, a receiver that took a count finds its table next. The property speaks
  of the head of one channel; what is inductive (`ChannelInv`) is that on *every* channel counts and
  tables alternate (`Alternates`), the parity of its length being fixed by whether the sender has
  yet to send a table (`Owes`) and the receiver to take one (`Expects`). Four lemmas say what the
  messages of a pair of sends do to a channel.
  Then `TypeOK`, `StaysSorted` and, for numbers of processes that are powers of two,
  `FirstHasAll`; the run `tree_gather_three` shows why the hypothesis is there. `GatherInv`
  says what a table holds in terms of the place of its process in the tree: after the round of
  distance h, exactly the pairs of the 2h processes from its own on (`Gathers`), each as often as they
  have it. For tables under way `LinkInv` numbers the messages of a channel over all calls, so that the
  n-th belongs to call n whatever the sender has done since. That merging two sorted tables with the
  cursors of `merge_local_vectors` gives a sorted table with each pair as often as both have it
  is a lemma about the recursive function, by induction on the number of pairs merged.
* **`GetElementsProofs`** (any grid, lengths, calls and requests). All the invariants of the run.
  `TypeOK` says that no process is more than one exchange ahead of another; its inductive form counts
  exchanges over all calls (`Exchanges`, `InStep`). `SentInv` then gives every exchange ever made as a
  function of the requests and its number, so that what p receives in its n-th exchange is what is meant
  for it although the others may have entered the next one. With `OwnerInRange` the owner
  finds each index in its part (`AskedOnlyForOwn`), and with the positions of a set in order
  (`OwnPlaces`) the answers go back to where the questions stood (`AnswersRight`).
* **`DictionaryProofs`** (any grid, labels, keys of each process and hash function). All the
  invariants of the run. `IInv` makes the three exchanges of a process, its sorted labels and its two
  results functions of the hash function and of all keys; that needs only that nobody
  passes the scan before all have counted (`CountInv`). What is left is arithmetic: displacements are
  sums of counts, so the slots of the owners cut `0..totallength-1` into
  intervals, a number is in one slot and is one label's (`NumbersRight`); this gives
  `SameNumbering` and `MapperIsInverse`. That the numbers an owner sends arrive in order, from the
  senders in order of their ranks, gives `IndicesInPlace`, which the code asserts.
* **`ParallelReadProofs`** (any number of ranks, files, ranges and batches). The three
  invariants of the run. `CollectivesMatch`, for readers that do not permute vertices: the calls of a
  rank are a function of where it is and of whether it has read its first batch (`Called`), however many batches it
  reads; with permutation the run `read_permuted_batches` violates it. `TypeOK`, for all readers. `EachLineOnce`, for
  readers that clear the lines of a batch, or whose batch is as long as the file: the
  vector reader keeps the lines and would process them again with the next batch.
  The invariant `PositionInv` says that a rank which has read is at the beginning of a line or at
  the end of the file, so that the partial line is skipped once; `LinesInv` that it has
  exactly the lines that start between the beginning of its range and its position, in
  order (`Covers`). The lemmas `WindowShape`, `BreaksRight` and `FirstLineRight` are about what one read
  delivers, with the byte before the range, the short read at the end of the file and the newline
  put there; `BatchRight` and `FetchRight` say which lines a batch gives and that it moves
  the rank forward. Assumed of a file: its header ends with a newline; every window of a batch has
  a newline (the code reads no longer lines); and for the vector reader that the header is one line
  and that there is a byte per rank. The last two are needed: with fewer bytes than ranks a
  range begins at byte 0, and the rank reads from offset -1 (`src/FullyDistSpVec.cpp:1250`,
  `src/SpParHelper.cpp:854`); and a second header line would be read as data by its rank.

* **`MagiqProofs`** (any square grid, dimension, graph, renumbering and well-formed queries, both
  programs, any number of repetitions; at least two values of an element). All the invariants of the run. First
  the execution: `NoAnswerLost` and `DiagonalCovers`. Each operation of `DistMatrix` is shown to do to the
  matrix as a whole what its blocks do across the diagonal. The scaler a process gathers, from its
  column or after the exchange with P(j,i), has at each local index the element of the vector
  for that row or column (`ScalerRight`); so an entry stays with its product
  unless that is zero (`ApplyRight`); the results of a reduction are with the owners of their
  indices (`ReduceColumnRight`, `ReduceRowRight`); `Transpose` moves entries to their mirrored place. Then
  `AnswerHolds`: every assignment in `Answers` has the triple of each line that selects and the constants of all. Then the steps.
  `NoAnswerLost` is not inductive: it asks for a nonzero, and a nonzero can be scaled to zero. `AnswersKept`
  says that it has the value 1, since the semiring gives 1 for the predicate and later products are of ones;
  with it `MatricesInBlocks` (all computed matrices in their blocks), `Progress`, `Given`
  (the query is one of the program's and the graph the one read) and `IsVectorSoFar`. The last is about `dm`,
  which all lines and runs share: a reduction over rows leaves a process whose row is
  empty with what it had, so that only the elements it does write are known, and the others can
  only keep more. Where a reduction says nothing of the label restricted, a filter equates the two.

  Then the result generation: `KeysAligned`, the whole `TypeOK`, and `ExactAnswers`, that the table is the answer. For
  one line, whatever the table: a redistribution brings each row to the process of its key and loses none
  (`RedistributedRight`); on a table that is aligned with the key the local joins and filters of all processes
  give together what one join or filter of the whole would (`JoinRight`, `FilterRight`), each pair once, by
  `MeetingsRight`. `Shape` is the inductive invariant of `KeysAligned` and `TypeOK`. For a query from a file it says that the table of
  the first matrix is aligned with its second column, which is all that makes it right not to
  redistribute it; every later table is redistributed, except for a key that is the second label
  of the first matrix, which a well-formed query does not use. For a query in the code
  it says that a table is aligned with every column its last key is in, and that columns are those of
  `LubmColumns`, which `CallsAreRight` checks against the pivots and orders of the code, call by call.
  In `l1` and `l5` an order drops a label (`Lost`): the count is still right, because the execution
  restricts that label to a constant (`OneEntityEach`).

  `ExactAnswers` has two directions. That every answer has its row follows from `FoundComplete`,
  which is what `AnswersKept` leaves. That every row is an answer is what the restrictions might spoil, since `dm` may be
  stale: an entity that a reduction did not reach can survive with the scale an earlier line put
  there. `ExecutionSound` says how a nonzero may be wrong: it has the triple and the constant that the lines
  of its matrix ask for, or its entity is in no nonzero of the matrix the line reduced. In
  the second case the join with that matrix drops it (`FoundSound`), which is why the result generation
  must take every matrix of the execution. `Content` says that the table after a line has one row for each assignment
  of the labels so far that has a nonzero in every matrix so far (`Solutions`), unless a line was dropped for
  want of a key. In the end these are the answers, read through the renumbering, which must therefore
  be onto.

`CommonProofs` also has what several of them need: induction over a bounded interval and the
existence of a function defined by recursion on the numbers, from the smallest element of a
set and not from the library's induction theorems, which need operators as parameters;
that `InOrderOf` of a finite set lists each of its elements once and in order, and what sorting, cutting and
concatenating such lists gives; quotients and remainders. Its theorem `MeetingsRight` is about the merge of
`local_join` and `local_filter`, for any two sorted tables. At two equal keys the code pairs the row of the
first table with the run of its key in the second, the row of the second with the rest of its run in the
first, and advances both: that meets each pair of a run of m and a run of n rows once is not seen from one
turn of the loop. `Merged` says which pairs are behind the cursors: those with a place before them in either
table, if their keys are equal.

Every inductive invariant above was first an invariant of the run it belongs to.

## 6. What is only model-checked

* *Liveness* (the fair part of `ImplementsSpGEMM`, `ReadingEnds`) and freedom from deadlock are out
  of the prover's reach.
* Of `SpDCCols` only the two facts above are proved, of `FullyDistVectors` with `SpParMats` only
  `PutsDisjoint`: that the storage of a block stays in order (`TypeOK` and `DataIsSorted` of `kernels`, and with them
  `AuxFindsEveryColumn` and `NoRacingMarks` as invariants of the run), that the parts of the vectors stay in place
  (`TypeOK` of `vectors`), and the refinements of `SparseMatrix`, `GlobalVectors` and
  `GlobalMatrices` are model-checked. Their state moves in large steps, each a
  function over sequences (kernels with cursors and heaps, folds over the answers of all
  processes), so that what is to be proved is what that function computes for every input: induction
  over data, for the largest part.
* `JoinComplete`, which the run `result_gen_first_label` violates, is not proved for the queries that are
  well formed; for these `Content` is the same statement within `MagiqProofs`.
* That the merges of `TreeGather` and `LocalTables` and the numbering in `Dictionary` could be proved rests on their
  being written without folds: as recursive functions on the numbers, or as sets listed in order
  (`Ordering`). `ParallelRead` defines the ends of the lines of a batch as the set of its newlines
  that close a line which starts before the end of the range, and not by the code's loop.

## 7. What the models leave out

* The arithmetic of the semirings inside SUMMA: only whether a product has nonzeros.
* The contents of lines in `ParallelRead`; narrow integers in the gather and in `getnnz`; the
  opening of files; tokenising of queries. `symmergesort` and the sort of
  `par::sampleSort`/`usort` are external: they return their input sorted.
* Of `SpParMat`: `Kselect2` with `TopKGather` (the selection for k of 10,000 and more),
  `OptimizeForGraph500`, products with dense matrices (`UpdateDense`, `EWiseScale`), binary headers, and
  the variants of a reduction that differ in types only. Of the products: the memory-efficient one and
  those that overlap.
* Allocation, copying of buffers, type tables of MPI, printing.

Not modelled, and why:

* *Bottom-up BFS* (`include/BFSFriends.h`, `include/BitMap*.h`): threads set bits of shared words
  without atomics (`include/BitMap.h:86`), so that what the build does is a data race on every level;
  no program of this repository calls it.
* *One-sided and overlapped SpGEMM* (`include/ParFriendsExt.h`): other schedules of the stages that
  `Summa` has; kept by the library for experiments and called by nothing here.
* *Selection and sample sort* (`src/SpParHelper.cpp`: `GlobalSelect`, `BipartiteSwap`, `KeyValuePSort`): their use in
  vector sort is external there.
* *MCL helpers* (`include/ParFriends.h`): for Markov clustering, which is not shipped here.
* *Memory pool, dense matrices, generators, Matrix Market headers*: sequential bookkeeping or
  pure computation without interaction. *Vendored code* under `external/`.

### Slips met on the way

Some places in the code do what no caller can want in a corner; the model has them as they are
where it has the operation, or a guard keeps away from them. No run is devoted to any of them.

Of these, some contradict a comment in the code, as the four runs of section 4 do:

* *A sparse vector indexed by another.* The comment at `src/FullyDistSpVec.cpp:556-563` gives the requests
  `ri = [4,1,5,7]`, two per process, as its example, with 1 and 4 owned by one process, and says that 5 and 7
  do not exist and are answered by 0. The
  requests that an owner gets are not sorted, but are intersected with its indices in one pass over both
  (`:636`): after 4 was found, 1 is behind the cursor, and is answered by 0 as well although it is there. Besides, the places where answers go are looked up by local index only (`:602`), so that of two
  requests for equal local numbers at different owners the second gets no answer and the first that of
  the last owner. The model has both (`IndexSparse`, `FoundInPass`), and the run `vectors` contains
  them: with the exact answer promised for all requests, and not for the `servable` ones only, it fails, at the
  vector of length 9 (asked for 4 and 0 by its first process, it returns one element and a zero).
* *Input and output of a product that are one vector.* The comment at `include/ParFriends.h:1381` says that x and
  y can be aliased, because y is not written until the algorithm is done with x. But `y.glen` is set
  first of all (`:1389`), before `TransposeVector` takes the offsets of x from `x.glen`. If the matrix is not square
  each piece is shifted as if x had as many elements as the matrix has rows: pieces overlap or end
  past the block. The model has aliased products with square matrices, where the length stays the same, and leaves
  out the others (`aliased => M.m = M.n` in `CallSpMV`): what the kernels do with lists that are out of
  order or past the block is not in `DistSpMV`.
* *The k-th value of a column.* The comment at `src/SpParMat.cpp:1088` says that a column with at most k entries gives
  its minimum entry; one with fewer gives the smallest number of the type. The promise in
  `GlobalMatrices` is what the code does.

Of the others nothing in the repository says otherwise, or no program reaches them:

* LUBM: `resgen_l1` and `resgen_l5` order columns `{0,1,1,0,1,1}` and `{0,1,1,1,0,0}`: a label comes
  twice and another is dropped; the count, which is all they report, stays right.
* Queries: `I^` on the left reads `nonisov[pos]` without a permutation (`magiq_include/magiqScal.h:722`).
  The tables of comparison functions are for three to five columns (`:456`).
* Reading: `check_newline` writes the missing last newline over the last byte (`src/SpParHelper.cpp:838`).
* Vectors: `InvertRMA` opens windows of integers with the size of a handle, `sizeof(MPI_INT)`
  (`src/FullyDistSpVec.cpp:2224`, `:2248`); `v -= v` clears the pattern; `Reduce` counts its initial value once per process; a vector
  from arrays of unequal sizes is sent from an empty array (`src/FullyDistVec.cpp:139`); `MinElement`
  reads the end of an empty part; `ParallelRead` of sparse vectors keeps the lines of all batches and takes them
  again with each later one (`src/FullyDistSpVec.cpp:1286`): `EachLineOnce` is claimed for files of one batch only there; `ParallelRead` of dense vectors appends to what was there
  (`include/FullyDistVec.h:105`); sparse `sort` labels by local position; texts are written at offsets
  counted in nonzeros (`src/FullyDistSpVec.cpp:1324`); `Concatenate` of one vector returns `vecs[1]` (`include/ParFriends.h:68`).
* Matrices: a block one column wide cannot be split, so that `Mult_AnXBn_DoubleBuff`, and indexing and
  assignment with it, drop its entries with no more than a message (`src/SpDCCols.cpp:870`), although a product is what is promised: the
  guard `Splittable` keeps the run to inner dimensions without such blocks, so that the loss is not in the model; indices are refused from the
  dimension plus one on (`src/SpParMat.cpp:1904`); `Find` without values gathers the widths of
  blocks over the column (`:4297`); `Kselect1` merges in the pattern of `TreeGather`, with its
  loss; with several readers
  the end of a row is signalled twice (`:4113`, `:3922`), which the model takes as once; matrices with
  fewer rows than the grid divide by zero there (`:4060`); text that does not end in a newline leaves its
  last value unset; `Profile` counts 1 for a column without an entry at or above the diagonal.
* SUMMA: a product without nonzeros is neither kept for the merge nor deleted (`include/ParFriends.h:870`). The model
  does not have these allocations: `OnlyUnmultipliedLeft` is about received blocks.
* Dictionary: the owner of a hash is computed in double precision (`include/SpHelper.h:111`), where the 1024 highest of
  the 64-bit hashes become 2^64 and so belong to a process that does not exist; quotients near a
  boundary may round to the next owner, but do so on all processes alike. `HashOwner` has whole numbers.
* Blocks: `ConstructAux` computes the size of chunks and their number in single precision
  (`src/dcsc.cpp:914`, `:915`), and `AuxIndex` casts a column's chunk to it (`:1015`): for blocks of more than 2^24
  columns the chunks may be one too few, and past chunk 2^24 a column is looked for in another chunk. The model
  computes as the code does, but such widths are beyond the run and excluded from the theorem;
  `PruneColumn` with a list waits for good at a column that is absent (`src/dcsc.cpp:780`); the general
  `EWiseApply` keeps empty columns (`include/Friends.h:1016`); `returnedSAID` leaves tuples unset in
  `include/mtSpGEMM.h`; the preallocated accumulator is never reset (`src/SpImpl.cpp:291`).

## 8. Plan

What would be proved next: that the storage of a block stays in order through the operations that do not
merge; that the places of the vectors' parts (`TypeOK` of `vectors`) are kept by each operation on its
own; and with them that one operation at a time of `GlobalVectors` is implemented.

What would be modelled next: the reader of a matrix process by process, as `ParallelRead` is; `BottomUp` with the carousel of bitmaps and the lost update of a shared word; the
one-sided multiplications as implementations of `SpGEMM`; `GlobalSelect`; and the second
pass of the tuple reader.
