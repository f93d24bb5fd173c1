-------------------------------- MODULE DbProofs --------------------------------
(***************************************************************************)
(* Lemmas about the operations of db.c: each turns a good database, two    *)
(* well-formed tables without an orphan, into a good one, whether it       *)
(* succeeds or fails.                                                      *)
(***************************************************************************)
EXTENDS Db, TLAPS

Good(d) == d \in Database /\ NoOrphan(d)

\* A new database.
LEMMA GoodCreate == Good(db_create)
BY DEF Good, Database, NoOrphan, Exists, HasTtl, db_create, NoTtl

\* Storing a value, and storing a deadline for a key that exists.
LEMMA GoodPut ==
  ASSUME NEW d, Good(d), NEW k \in Keys
  PROVE  /\ \A v \in Values : Good(PutVal(d, k, v)) /\ Exists(PutVal(d, k, v), k)
         /\ \A e \in Nat : Exists(d, k) => Good(PutTtl(d, k, e))
         /\ Good(PutTtl(d, k, NoTtl))
         /\ ~HasTtl(d, k) => Good(PutVal(d, k, Absent))
BY AbsentAssumption
   DEF Good, Database, NoOrphan, Exists, HasTtl, PutVal, PutTtl, NoTtl

\* SET
LEMMA GoodSet ==
  ASSUME NEW d, Good(d), NEW k \in Keys, NEW v \in Values
  PROVE  Good(db_set(d, k, v).db)
BY GoodPut DEF db_set, Result

\* SETEX
LEMMA GoodSetex ==
  ASSUME NEW d, Good(d), NEW k \in Keys, NEW v \in Values, NEW e \in Nat
  PROVE  Good(db_setex(d, k, v, e).db)
BY GoodPut DEF db_setex, Result

\* EXPIRE
LEMMA GoodExpire ==
  ASSUME NEW d, Good(d), NEW k \in Keys, NEW e \in Nat
  PROVE  Good(db_key_expire(d, k, e).db)
BY GoodPut DEF db_key_expire, Result

\* PERSIST
LEMMA GoodPersist ==
  ASSUME NEW d, Good(d), NEW k \in Keys
  PROVE  Good(db_persist(d, k).db)
BY GoodPut DEF db_persist, Result

\* DEL
LEMMA GoodDel ==
  ASSUME NEW d, Good(d), NEW k \in Keys
  PROVE  Good(db_del(d, k).db)
<1>1. ~HasTtl(PutTtl(d, k, NoTtl), k)
  BY DEF Good, Database, HasTtl, PutTtl, NoTtl
<1> QED
  BY <1>1, GoodPut DEF db_del, Result

\* Lazy expiry, as in GET and TTL
LEMMA GoodGet ==
  ASSUME NEW d, Good(d), NEW k \in Keys, NEW t
  PROVE  Good(db_expire_clean(d, k, t)) /\ Good(db_get(d, k, t).db)
BY GoodDel DEF db_expire_clean, db_get

\* Active expiry, with freed key strings too
LEMMA GoodSweep ==
  ASSUME NEW d, Good(d), NEW S, NEW C, NEW t
  PROVE  Good(db_active_sweep(d, S, C, t))
BY DEF Good, Database, NoOrphan, Exists, HasTtl, db_active_sweep, NoTtl
=================================================================================
