-------------------------------- MODULE FiniteMap --------------------------------
(***************************************************************************)
(* What ht.c promises to db.c: a finite map from keys to values.  It knows *)
(* neither buckets nor sizes.  `ret` is the last call with its arguments,  *)
(* and what it returned; a set that failed shows Absent.                   *)
(***************************************************************************)
EXTENDS FiniteSets

CONSTANTS Keys, Values, Absent

VARIABLES map, ret

Init == map = [k \in {} |-> Absent] /\ ret = <<"new">>

Set(k, v) ==
  /\ map' = [x \in DOMAIN map \cup {k} |-> IF x = k THEN v ELSE map[x]]
  /\ ret' = <<"set", k, v>>

\* Out of memory: only an entry that is not there yet needs any.
SetFails(k) == k \notin DOMAIN map /\ ret' = <<"set", k, Absent>> /\ UNCHANGED map

Get(k) ==
  /\ ret' = <<"get", k, IF k \in DOMAIN map THEN map[k] ELSE Absent>>
  /\ UNCHANGED map

Without(k) == [x \in DOMAIN map \ {k} |-> map[x]]

Del(k) == ret' = <<"del", k, k \in DOMAIN map>> /\ map' = Without(k)

\* A walk over the table has listed every key, each once.
List == ret' = <<"list", DOMAIN map, Cardinality(DOMAIN map)>> /\ UNCHANGED map

\* The sweep removes keys one at a time.
Remove(k) == k \in DOMAIN map /\ map' = Without(k) /\ UNCHANGED ret

Next ==
  \/ \E k \in Keys : Get(k) \/ Del(k) \/ SetFails(k) \/ Remove(k) \/ \E v \in Values : Set(k, v)
  \/ List

Spec == Init /\ [][Next]_<<map, ret>>
==================================================================================
