---- MODULE MCAof ----
EXTENDS Aof, TLC
Symmetry == Permutations(Keys \ Big) \cup Permutations(Values \ Big)
====
