------------------------------- MODULE MCProc -------------------------------
EXTENDS Proc, TLC
\* Processors are interchangeable; slots are not (slot 1 is init).
Symmetry == Permutations(CPU)
=============================================================================
