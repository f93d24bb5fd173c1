---- MODULE MCHashTable ----
EXTENDS HashTable, TLC
CONSTANTS k1, k2, k3, k4
\* k1 and k2 collide in a table of any size, k3 with them until it has 4
\* buckets, k4 never.
MCHash == k1 :> 0 @@ k2 :> 8 @@ k3 :> 2 @@ k4 :> 1
====
