---- MODULE MCAofDurability ----
EXTENDS AofDurability, TLC
Symmetry == Permutations(Keys) \cup Permutations(Values)
====
