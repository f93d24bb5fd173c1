-------------------------------- MODULE HashTable --------------------------------
(***************************************************************************)
(* ht.c: a table of chains, and the two loops that walk one: the iterator  *)
(* (KEYS, the rewrite child) and the sampling sweep of db_active_sweep,    *)
(* which deletes entries of the chain it is walking.  A call is one step;  *)
(* the loops take a step per entry, since their pointers into the chains   *)
(* are what could go wrong.                                                *)
(*                                                                         *)
(* A chain is the sequence of its entries, head first.  `& sizemask` is    *)
(* `% size`, which is the same while the size is a power of two.           *)
(***************************************************************************)
EXTENDS Integers, Sequences, FiniteSets

CONSTANTS
  Keys, Values, Absent,
  Hash,         \* ht_hash
  InitialSize,  \* HT_INITIAL_SIZE: 4 in the code
  Lapsed,       \* values that the sweep takes for deadlines in the past
  Sample        \* active_expire_keys_per_round

ASSUME HashTableAssumption ==
  /\ Absent \notin Values /\ Absent \notin Keys /\ Lapsed \subseteq Values
  /\ Hash \in [Keys -> Nat] /\ InitialSize \in Nat \ {0, 1} /\ Sample \in Nat \ {0}

VARIABLES
  table,  \* ht->table
  size,   \* ht->size
  used,   \* ht->used
  ret,    \* the last call with its arguments, and what it returned
  iter,   \* ht_iter_t of a walk in progress, with the keys it has returned
  sweep   \* db_active_sweep: buckets left to visit, and its pointers e and next

vars == <<table, size, used, ret, iter, sweep>>

Entry == [key : Keys, val : Values]
NULL == [key |-> Absent]

Index(k, n) == Hash[k] % n
Chain(k) == table[Index(k, size)]

NoIter  == [on |-> FALSE, index |-> -1, entry |-> NULL, next |-> NULL, seen |-> <<>>]
NoSweep == [picks |-> <<>>, e |-> NULL]

Idle == ~iter.on /\ sweep = NoSweep

ht_create ==
  /\ size = InitialSize /\ used = 0
  /\ table = [i \in 0..(InitialSize - 1) |-> <<>>]

Init == ht_create /\ ret = <<"new">> /\ iter = NoIter /\ sweep = NoSweep

-------------------------------------------------------------------------------
(* Chains                                                                  *)

At(chain, k) == {i \in DOMAIN chain : chain[i].key = k}

\* The first entry with this key, as the loops of ht_upsert, ht_find and
\* ht_del meet it.
Position(chain, k) == CHOOSE i \in At(chain, k) : \A j \in At(chain, k) : i <= j

Without(chain, i) == SubSeq(chain, 1, i - 1) \o SubSeq(chain, i + 1, Len(chain))

\* Faulty variant: the entries stay where the old mask put them.
ResizeOnlyGrows(t, old, new) == [j \in 0..(new - 1) |-> IF j < old THEN t[j] ELSE <<>>]

\* The inner loop of ht_resize: head first, each entry becomes the head of its
\* new chain.
Rehash(chain, t, new) ==
  LET put[i \in 0..Len(chain)] ==
        IF i = 0 THEN t
        ELSE [put[i - 1] EXCEPT ![Index(chain[i].key, new)] = <<chain[i]>> \o @]
  IN  put[Len(chain)]

\* The outer loop: bucket after bucket.
ht_resize(t, old, new) ==
  LET moved[i \in 0..old] ==
        IF i = 0 THEN [j \in 0..(new - 1) |-> <<>>]
        ELSE Rehash(t[i - 1], moved[i - 1], new)
  IN  moved[old]

\* Faulty variant: the size after the next entry is not looked at.
GrowsLate(n) == n > size

\* used / size > LOAD_FACTOR
NeedsResize(n) == 4 * n > 3 * size

-------------------------------------------------------------------------------
(* Calls                                                                   *)

\* ht_upsert with ht_set_str or ht_set_i64.
ht_set(k, v) ==
  LET c == Chain(k)
      i == Index(k, size)
      grown == [table EXCEPT ![i] = <<[key |-> k, val |-> v]>> \o @]
  IN  /\ Idle
      /\ \/ /\ At(c, k) # {}
            /\ table' = [table EXCEPT ![i][Position(c, k)].val = v]
            /\ ret' = <<"set", k, v>>
            /\ UNCHANGED <<size, used>>
         \/ /\ At(c, k) = {}
            /\ used' = used + 1
            /\ IF NeedsResize(used')
                 THEN size' = 2 * size /\ table' = ht_resize(grown, size, 2 * size)
                 ELSE size' = size /\ table' = grown
            /\ ret' = <<"set", k, v>>
         \/ \* malloc fails
            /\ At(c, k) = {}
            /\ ret' = <<"set", k, Absent>>
            /\ UNCHANGED <<table, size, used>>
      /\ UNCHANGED <<iter, sweep>>

ht_get(k) ==
  LET c == Chain(k)
  IN  /\ Idle
      /\ ret' = <<"get", k, IF At(c, k) = {} THEN Absent ELSE c[Position(c, k)].val>>
      /\ UNCHANGED <<table, size, used, iter, sweep>>

\* Faulty variant: the head of the chain goes, whichever entry was found.
UnlinksHead(k) ==
  /\ table' = [table EXCEPT ![Index(k, size)] = Tail(@)]
  /\ used' = used - 1

\* Faulty variant: the entry is counted out twice.
UnlinkCountsTwice(k) ==
  /\ table' = [table EXCEPT ![Index(k, size)] = Without(@, Position(@, k))]
  /\ used' = used - 2

Unlink(k) ==
  /\ table' = [table EXCEPT ![Index(k, size)] = Without(@, Position(@, k))]
  /\ used' = used - 1

ht_del(k) ==
  /\ Idle
  /\ \/ At(Chain(k), k) # {} /\ Unlink(k) /\ ret' = <<"del", k, TRUE>>
     \/ At(Chain(k), k) = {} /\ ret' = <<"del", k, FALSE>> /\ UNCHANGED <<table, used>>
  /\ UNCHANGED <<size, iter, sweep>>

-------------------------------------------------------------------------------
(* The iterator                                                            *)

ht_iter_create ==
  /\ Idle
  /\ iter' = [NoIter EXCEPT !.on = TRUE]
  /\ UNCHANGED <<table, size, used, ret, sweep>>

\* The entry behind e in its chain.
NextOf(e) ==
  LET c == Chain(e.key)
      i == Position(c, e.key)
  IN  IF i < Len(c) THEN c[i + 1] ELSE NULL

Returned(it, e) ==
  [it EXCEPT !.entry = e, !.next = NextOf(e), !.seen = Append(@, e.key)]

\* One turn of the loop of ht_iter_next; the last one ends the walk.
ht_iter_next ==
  LET i == iter.index + 1
  IN  /\ iter.on
      /\ \/ /\ iter.entry = NULL /\ i < size
            /\ iter' = IF table[i] = <<>> THEN [iter EXCEPT !.index = i]
                       ELSE Returned([iter EXCEPT !.index = i], Head(table[i]))
            /\ UNCHANGED ret
         \/ /\ iter.entry # NULL
            /\ iter' = IF iter.next = NULL THEN [iter EXCEPT !.entry = NULL]
                       ELSE Returned(iter, iter.next)
            /\ UNCHANGED ret
         \/ /\ iter.entry = NULL /\ i >= size
            /\ iter' = NoIter
            /\ ret' = <<"list", {iter.seen[n] : n \in DOMAIN iter.seen}, Len(iter.seen)>>
      /\ UNCHANGED <<table, size, used, sweep>>

-------------------------------------------------------------------------------
(* The sweep                                                               *)

HeadOf(i) == IF table[i] = <<>> THEN NULL ELSE table[i][1]

\* As many buckets that are not empty as there are keys to look at, drawn at
\* random, the same one possibly more than once.  The loop draws until it has
\* them: it needs a bucket that is not empty.
sweep_pick ==
  LET n == IF Sample > used THEN used ELSE Sample
  IN  /\ Idle /\ used > 0
      /\ \E picks \in [1..n -> {i \in 0..(size - 1) : table[i] # <<>>}] :
           sweep' = [picks |-> picks, e |-> HeadOf(picks[1])]
      /\ UNCHANGED <<table, size, used, ret, iter>>

\* Faulty variant: next is read from the entry after it was removed, which
\* here means from wherever the chain now goes on.
NextAfterRemoval(e) == IF e.val \in Lapsed THEN NULL ELSE NextOf(e)

\* Faulty variant: after a removal the walk starts over at the head it knew.
RestartsAtHead(e) == IF e.val \in Lapsed THEN HeadOf(Index(e.key, size)) ELSE NextOf(e)

\* Where the walk goes after e: next was read before e was looked at.
SweepNext(e) == NextOf(e)

\* db_expire_clean for the entry the walk is at.  A pick whose chain has been
\* emptied by an earlier visit to the same bucket is passed over.
sweep_entry ==
  LET e == sweep.e
  IN  /\ sweep.picks # <<>> /\ e # NULL
      /\ sweep' = [sweep EXCEPT !.e = SweepNext(e)]
      /\ IF e.val \in Lapsed THEN Unlink(e.key) ELSE UNCHANGED <<table, used>>
      /\ UNCHANGED <<size, ret, iter>>

sweep_bucket ==
  /\ sweep.picks # <<>> /\ sweep.e = NULL
  /\ sweep' = IF Len(sweep.picks) = 1 THEN NoSweep
              ELSE [picks |-> Tail(sweep.picks), e |-> HeadOf(sweep.picks[2])]
  /\ UNCHANGED <<table, size, used, ret, iter>>

Next ==
  \/ \E k \in Keys : (\E v \in Values : ht_set(k, v)) \/ ht_get(k) \/ ht_del(k)
  \/ ht_iter_create \/ ht_iter_next
  \/ sweep_pick \/ sweep_entry \/ sweep_bucket

Spec == Init /\ [][Next]_vars

-------------------------------------------------------------------------------
(* Properties                                                              *)

TypeOK ==
  /\ size \in Nat \ {0} /\ used \in Nat
  /\ table \in [0..(size - 1) -> Seq(Entry)]
  /\ iter \in [on : BOOLEAN, index : -1..(size - 1), entry : Entry \cup {NULL},
               next : Entry \cup {NULL}, seen : Seq(Keys)]
  /\ sweep \in [picks : Seq(0..(size - 1)), e : Entry \cup {NULL}]

Entries == UNION {{<<b, i>> : i \in DOMAIN table[b]} : b \in DOMAIN table}

\* Every entry is in the chain where a lookup will search for it, also after
\* the table has grown; no key has two entries; and the count is right (the sweep
\* draws buckets until it has `used` of them: a count that is too high would
\* make it loop for ever).
Placed ==
  /\ \A b \in DOMAIN table : \A i \in DOMAIN table[b] :
       /\ Index(table[b][i].key, size) = b
       /\ \A j \in DOMAIN table[b] : table[b][i].key = table[b][j].key => i = j
  /\ used = Cardinality(Entries)

\* "grow when used / size > 0.75", by doubling.
LoadBounded ==
  /\ 4 * used <= 3 * size
  /\ \E n \in 0..Cardinality(Keys) : size = InitialSize * 2 ^ n

\* The pointers of a walk are to entries of the table, never to one that was
\* freed, and never to an older version of one.
InTable(e) == e = NULL \/ \E i \in DOMAIN Chain(e.key) : Chain(e.key)[i] = e

NoDanglingPointer == InTable(sweep.e) /\ InTable(iter.entry) /\ InTable(iter.next)

\* A sweep that has finished with a bucket has left no lapsed entry in it.
SweptClean ==
  sweep.picks # <<>> /\ sweep.e = NULL =>
    \A i \in DOMAIN table[sweep.picks[1]] : table[sweep.picks[1]][i].val \notin Lapsed

\* Whatever the chains look like, callers see a finite map.
Contents ==
  [k \in {table[p[1]][p[2]].key : p \in Entries} |->
     LET c == Chain(k) IN c[Position(c, k)].val]

Map == INSTANCE FiniteMap WITH map <- Contents

ImplementsMap == Map!Spec
==================================================================================
