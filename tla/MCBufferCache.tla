--------------------------- MODULE MCBufferCache ---------------------------
EXTENDS BufferCache
\* Processes, contents and the blocks other than Zero are interchangeable;
\* buffers are not: Init fixes their order in the list.
Symmetry == Permutations(Proc) \cup Permutations(Val)
            \cup Permutations(Block \ {Zero})
=============================================================================
