------------------------------ MODULE MCPagedKV ------------------------------
EXTENDS PagedKV, TLC

CONSTANTS b1, b2, b3, s1, s2, f1, t1, t2

\* Blocks, sequences and tokens are interchangeable: no definition tells them apart.
Symmetric == Permutations({b1, b2, b3}) \cup Permutations({s1, s2}) \cup Permutations({t1, t2})
==============================================================================
