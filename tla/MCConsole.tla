------------------------------ MODULE MCConsole ------------------------------
\* Model checking of Console: ids of sources, tabs and calls are interchangeable.
EXTENDS Console, TLC

Symmetry == Permutations(Sources) \cup Permutations(TabIds) \cup Permutations(CallIds)
=============================================================================
