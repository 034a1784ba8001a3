--------------------------- MODULE MCMemoryStore ---------------------------
EXTENDS MemoryStore, TLC

CONSTANTS a1, a2, m1, m2, c1, c2, t1

\* Memories and processes are only compared, never ordered.
Symmetry == Permutations(Ids) \union Permutations(Actors) \union Permutations(Contents)

=============================================================================
