------------------------------ MODULE MCInode ------------------------------
EXTENDS Inode, TLC

A == <<"a">>
B == <<"b">>
AB == <<"a", "b">>

\* A directory or a file at /a, a file below it, a second link /b, and a call
\* on the root itself.
MCCalls ==
  {<<"mkdir", A, <<>>>>, <<"mkdir", <<>>, <<>>>>, <<"create", A, <<>>>>,
   <<"create", AB, <<>>>>, <<"open", A, <<>>>>, <<"unlink", A, <<>>>>,
   <<"unlink", AB, <<>>>>, <<"link", A, B>>}

\* Processes are interchangeable.
Symmetry == Permutations(Proc)

\* Bound: a behaviour is followed up to its first panic().
NoPanicYet == \A p \in Proc : pc[p] \notin {"panicked", "full", "nospace"}
=============================================================================
