------------------------------- MODULE MCLog -------------------------------
EXTENDS Log, TLC
\* Processes, blocks and contents are interchangeable: no definition of Log
\* chooses among them.
Symmetry == Permutations(Proc) \cup Permutations(Block) \cup Permutations(Val)
=============================================================================
