------------------------------ MODULE MCParallelRead ------------------------------
EXTENDS ParallelRead

CONSTANTS Header,   \* length of the header
          Data,     \* largest length of what follows it
          Small,    \* a batch that a range may need several of
          Large     \* a batch as long as any range

\* Every line, its newline included, fits in the small batch.
Fits(f) == \A s \in 0 .. f.size - Small : \E i \in s .. s + Small - 1 : i \in f.nl

AllFiles ==
  {f \in UNION {{[header |-> Header, size |-> n, nl |-> {Header - 1} \cup s] : s \in SUBSET (Header .. n - 1)} :
                  n \in Header .. Header + Data} : Fits(f)}

MatrixReader(perm, batch) == [perm |-> perm, splitData |-> TRUE, clearLines |-> TRUE, batch |-> batch]
VectorReader(batch) == [perm |-> FALSE, splitData |-> FALSE, clearLines |-> FALSE, batch |-> batch]

\* The readers as they work: several batches for a plain matrix, one for the others.
WorkingReaders == {MatrixReader(FALSE, Small), MatrixReader(TRUE, Large), VectorReader(Large)}
PermutedInBatches == {MatrixReader(TRUE, Small)}
=============================================================================
