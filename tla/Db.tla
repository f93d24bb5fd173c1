---------------------------------- MODULE Db ----------------------------------
(***************************************************************************)
(* The two-table keyspace of db.c.  A database is a record of two tables:  *)
(* keyspace (key -> value) and expires (key -> deadline, wall-clock).      *)
(*                                                                         *)
(* Both hash tables are total functions here; a key that is not in the     *)
(* keyspace table maps to Absent, a key that is not in the expires table   *)
(* to NoTtl.  No stored deadline is ever 0: db_setex and db_key_expire     *)
(* store only deadlines > 0, and the AOF itself writes "no TTL" as 0.      *)
(*                                                                         *)
(* An operation that can fail returns [ok, db]: ok is EXIT_SUCCESS, db the *)
(* database it leaves behind on either outcome.                            *)
(***************************************************************************)
EXTENDS Integers

CONSTANTS
  Keys,     \* the keys clients use
  Values,   \* the values clients store
  Absent    \* "no such key": what ht_get_str reports as NULL

ASSUME AbsentAssumption == Absent \notin Keys /\ Absent \notin Values

NoTtl == 0

\* Deadlines are positive: times are milliseconds since the epoch.
Database == [keyspace : [Keys -> Values \cup {Absent}], expires : [Keys -> Nat]]

Result(ok, d) == [ok |-> ok, db |-> d]

db_create ==
  [keyspace |-> [k \in Keys |-> Absent], expires |-> [k \in Keys |-> NoTtl]]

\* ht_exists / ht_get_i64 on the two tables
Exists(d, k) == d.keyspace[k] # Absent
HasTtl(d, k) == d.expires[k] # NoTtl

\* ht_set_str on the keyspace table, ht_set_i64 on the expires table; storing
\* Absent or NoTtl is ht_del
PutVal(d, k, v) == [keyspace |-> [d.keyspace EXCEPT ![k] = v], expires |-> d.expires]
PutTtl(d, k, e) == [keyspace |-> d.keyspace, expires |-> [d.expires EXCEPT ![k] = e]]

\* Faulty variant: the deadline stays behind.
DelKeepsTtl(d, k) == Result(Exists(d, k), PutVal(d, k, Absent))

db_del(d, k) ==
  Result(Exists(d, k), PutVal(PutTtl(d, k, NoTtl), k, Absent))

\* The comparison every expiry path makes: strictly past the deadline.
Expired(d, k, now) == HasTtl(d, k) /\ now > d.expires[k]

db_expire_clean(d, k, now) == IF Expired(d, k, now) THEN db_del(d, k).db ELSE d

\* Faulty variant: a lookup does not ask for the deadline.
GetWithoutExpiry(d, k, now) == [val |-> d.keyspace[k], db |-> d]

\* Lazy expiry: a lookup first drops the key it looks up if that is past due.
db_get(d, k, now) ==
  LET c == db_expire_clean(d, k, now) IN [val |-> c.keyspace[k], db |-> c]

db_set(d, k, v) == Result(TRUE, PutVal(d, k, v))

db_setex(d, k, v, e) ==
  LET p == PutVal(d, k, v)
  IN  Result(TRUE, IF e > 0 THEN PutTtl(p, k, e) ELSE p)

db_persist(d, k) == Result(HasTtl(d, k), PutTtl(d, k, NoTtl))

db_key_expire(d, k, e) ==
  LET ok == e > 0 /\ Exists(d, k)
  IN  Result(ok, IF ok THEN PutTtl(d, k, e) ELSE d)

\* Faulty variant of the sweep below: it removes the key and not the deadline.
SweepKeepsTtl(d, visited, clobbered, now) ==
  [keyspace |-> [k \in Keys |-> IF k \in visited /\ Expired(d, k, now)
                                  THEN Absent ELSE d.keyspace[k]],
   expires  |-> d.expires]

-------------------------------------------------------------------------------
(***************************************************************************)
(* Active expiry.  A sweep walks the chains of randomly sampled buckets of *)
(* the expires table; `visited` is the set of keys on those chains.        *)
(*                                                                         *)
(* The sweep passes db_expire_clean the key string owned by the expires    *)
(* entry itself.  db_del removes that entry first, which frees the string, *)
(* and then uses the freed string to find the key in the keyspace table.   *)
(* What those bytes read as is up to the allocator: if they still spell    *)
(* the key, the key is deleted; if they do not, ht_del finds nothing and   *)
(* the key stays, now without a deadline.  `clobbered` is the set of       *)
(* visited keys of the second kind.                                        *)
(***************************************************************************)
db_active_sweep(d, visited, clobbered, now) ==
  LET due == {k \in visited : Expired(d, k, now)}
  IN  [keyspace |-> [k \in Keys |-> IF k \in due \ clobbered
                                      THEN Absent ELSE d.keyspace[k]],
       expires  |-> [k \in Keys |-> IF k \in due THEN NoTtl ELSE d.expires[k]]]

-------------------------------------------------------------------------------
(* Reading a database as a client does at time `now`.                      *)

Live(d, now) == {k \in Keys : Exists(d, k) /\ ~Expired(d, k, now)}

\* A deadline without a key is a leak that no lookup ever cleans up.
NoOrphan(d) == \A k \in Keys : HasTtl(d, k) => Exists(d, k)
===============================================================================
