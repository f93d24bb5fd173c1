-------------------------------- MODULE Keyspace --------------------------------
(***************************************************************************)
(* The keyspace in use: the command handlers of command.c over db.c, with  *)
(* lazy expiry, the active sweep of server.c and the allocations of ht.c   *)
(* that may fail.  No persistence here: that is Aof.                       *)
(*                                                                         *)
(* told and known record what clients were told: the deadline of each key, *)
(* and the keys that a "+OK" says exist.                                   *)
(***************************************************************************)
EXTENDS Db

CONSTANTS
  Ttls,          \* seconds a client may pass to SETEX and EXPIRE
  Second,        \* clock units in a second: 1000 in the code
  Hz,            \* the tick rate, config "hz" (1..500)
  ActiveExpire,  \* config "active-expire-enabled"
  FreedKeyLost,  \* may the sweep's freed key string stop spelling the key?
  OutOfMemory,   \* may malloc fail for a new hash table entry?
  MaxClock       \* bound: last instant of the wall clock

ASSUME KeyspaceAssumption ==
  /\ Ttls \subseteq Nat \ {0}
  /\ Second \in Nat \ {0}
  /\ Hz \in 1..500
  /\ ActiveExpire \in BOOLEAN /\ FreedKeyLost \in BOOLEAN /\ OutOfMemory \in BOOLEAN
  /\ MaxClock \in Nat

VARIABLES
  clock,  \* CLOCK_REALTIME
  now,    \* server.now_realtime_ms: the clock as of the last tick
  db,     \* server.db
  reply,  \* the last command of this tick and what it was answered
  told,   \* the deadline that clients know of, per key
  known   \* keys that clients were told exist

vars == <<clock, now, db, reply, told, known>>

\* An answer is "+OK" or "-ERR", a value or Absent, or a set of keys.
NoReply == [cmd |-> "none", key |-> Absent, ans |-> {}]
Answer(c, k, a) == reply' = [cmd |-> c, key |-> k, ans |-> a]

Init ==
  /\ clock = 1 /\ now = 1 /\ db = db_create /\ reply = NoReply
  /\ told = [k \in Keys |-> NoTtl] /\ known = {}

\* Faulty variant: a deadline in the past.
DeadlineBackwards(s) == now - s * Second

\* server.now_realtime_ms + seconds * 1000
Deadline(s) == now + s * Second

PastDue(k) == told[k] # NoTtl /\ now > told[k]

-------------------------------------------------------------------------------
(* Mutating commands: each succeeds, is refused, or runs out of memory     *)

Do(c, k, res) ==
  /\ db' = res.db
  /\ Answer(c, k, IF res.ok THEN "+OK" ELSE "-ERR")
  /\ UNCHANGED <<clock, now>>

\* A handler that returned early on a failed allocation: d is what it left.
Fail(c, k, d) ==
  OutOfMemory /\ Do(c, k, Result(FALSE, d)) /\ UNCHANGED <<told, known>>

\* ht_upsert allocates an entry only for a key the table does not have.
cmd_set(k, v) ==
  \/ /\ Do("SET", k, db_set(db, k, v))
     /\ told' = IF PastDue(k) THEN [told EXCEPT ![k] = NoTtl] ELSE told
     /\ known' = known \cup {k}
  \/ ~Exists(db, k) /\ Fail("SET", k, db)

\* Faulty variant: the deadline is stored first and not taken back when the
\* key cannot be.
SetexTtlFirst(k, v, s) ==
  \/ /\ Do("SETEX", k, db_setex(db, k, v, Deadline(s)))
     /\ told' = [told EXCEPT ![k] = Deadline(s)]
     /\ known' = known \cup {k}
  \/ ~Exists(db, k) /\ Fail("SETEX", k, PutTtl(db, k, Deadline(s)))

\* When the second of its two insertions fails, db_setex deletes the key.
cmd_setex(k, v, s) ==
  \/ /\ Do("SETEX", k, db_setex(db, k, v, Deadline(s)))
     /\ told' = [told EXCEPT ![k] = Deadline(s)]
     /\ known' = known \cup {k}
  \/ ~Exists(db, k) /\ Fail("SETEX", k, db)
  \/ ~HasTtl(db, k)
       /\ Fail("SETEX", k, PutVal(db, k, Absent))

cmd_expire(k, s) ==
  \/ LET res == db_key_expire(db, k, Deadline(s))
     IN  /\ Do("EXPIRE", k, res)
         /\ told' = IF res.ok THEN [told EXCEPT ![k] = Deadline(s)] ELSE told
         /\ UNCHANGED known
  \/ Exists(db, k) /\ ~HasTtl(db, k) /\ Fail("EXPIRE", k, db)

cmd_persist(k) ==
  LET res == db_persist(db, k)
  IN  /\ Do("PERSIST", k, res)
      /\ told' = IF res.ok THEN [told EXCEPT ![k] = NoTtl] ELSE told
      /\ UNCHANGED known

cmd_del(k) ==
  /\ Do("DEL", k, db_del(db, k))
  /\ told' = [told EXCEPT ![k] = NoTtl]
  /\ known' = known \ {k}

-------------------------------------------------------------------------------
(* Reading commands                                                        *)

cmd_get(k) ==
  /\ db' = db_get(db, k, now).db
  /\ Answer("GET", k, db_get(db, k, now).val)
  /\ UNCHANGED <<clock, now, told, known>>

\* Faulty variant: the deadline is reported without asking whether it passed.
TtlWithoutExpiry(d, k) ==
  [ttl |-> IF ~Exists(d, k) THEN -2
           ELSE IF ~HasTtl(d, k) THEN -1 ELSE (d.expires[k] - now) \div Second,
   db  |-> d]

\* -2: no such key, -1: no deadline, otherwise whole seconds.  What is left
\* is never negative: a key past due has just been dropped.
db_get_ttl(d, k) ==
  LET c == db_expire_clean(d, k, now)
  IN  [ttl |-> IF ~Exists(c, k) THEN -2
               ELSE IF ~HasTtl(c, k) THEN -1 ELSE (c.expires[k] - now) \div Second,
       db  |-> c]

cmd_ttl(k) ==
  /\ db' = db_get_ttl(db, k).db
  /\ Answer("TTL", k, db_get_ttl(db, k).ttl)
  /\ UNCHANGED <<clock, now, told, known>>

cmd_keys ==
  /\ Answer("KEYS", Absent, {k \in Keys : Exists(db, k)})
  /\ UNCHANGED <<clock, now, db, told, known>>

-------------------------------------------------------------------------------
(* Time                                                                    *)

budget_ms == (1000 \div Hz) \div 4

\* The keys on the chains that db_active_sweep may sample.
Volatile == {k \in Keys : HasTtl(db, k)}

\* A sweep, when there is one, visits the keys on the chains it samples: chains
\* that are not empty, drawn at random, at least one of them.
active_expire_cron(visited) ==
  /\ IF ActiveExpire /\ budget_ms > 0 /\ Volatile # {}
     THEN visited \subseteq Volatile /\ visited # {}
     ELSE visited = {}
  /\ \E clobbered \in IF FreedKeyLost THEN SUBSET visited ELSE {{}} :
       db' = db_active_sweep(db, visited, clobbered, clock)

before_sleep(visited) ==
  /\ now' = clock
  /\ active_expire_cron(visited)
  /\ reply' = NoReply
  /\ UNCHANGED <<clock, told, known>>

ClockTick ==
  /\ clock < MaxClock
  /\ clock' = clock + 1
  /\ UNCHANGED <<now, db, reply, told, known>>

Commands(k) ==
  \/ \E v \in Values : cmd_set(k, v)
  \/ \E v \in Values, s \in Ttls : cmd_setex(k, v, s)
  \/ \E s \in Ttls : cmd_expire(k, s)
  \/ cmd_persist(k)
  \/ cmd_del(k)
  \/ cmd_get(k)
  \/ cmd_ttl(k)

Sweep(k) == \E visited \in SUBSET Keys : k \in visited /\ before_sleep(visited)

Next ==
  \/ \E k \in Keys : Commands(k)
  \/ cmd_keys
  \/ \E visited \in SUBSET Keys : before_sleep(visited)
  \/ ClockTick

Spec == Init /\ [][Next]_vars

\* el_run ticks for ever, and buckets are sampled at random: a key that stays
\* is visited sooner or later.
FairSpec ==
  /\ Spec
  /\ WF_vars(\E visited \in SUBSET Keys : before_sleep(visited))
  /\ \A k \in Keys : WF_vars(Sweep(k))

-------------------------------------------------------------------------------
(* Properties                                                              *)

TypeOK ==
  /\ clock \in Nat /\ now \in Nat
  /\ db \in Database
  /\ reply.cmd \in {"none", "SET", "SETEX", "EXPIRE", "PERSIST", "DEL",
                    "GET", "TTL", "KEYS"}
  /\ told \in [Keys -> Nat] /\ known \subseteq Keys

\* A deadline never outlives its key, also when an insertion into one of the
\* two tables fails and db_setex undoes the other: a stale deadline would
\* delete the next value stored under that key.
TablesAgree == NoOrphan(db)

\* A key whose deadline, as last told to a client, has passed is never read
\* again ("Catches keys that are read", README.md), whichever of lazy expiry
\* and the sweep finds it first and whatever commands came in between.
ReadsRespectDeadline ==
  reply.cmd = "GET" /\ reply.ans # Absent => ~PastDue(reply.key)

\* TTL tells the deadline that the last "+OK" set, to the second, also when
\* lazy expiry, sweeps, refused commands and a SET onto a lapsed key came in
\* between; a key past due is reported as missing, never as one that has no
\* deadline (a difference of less than two seconds would divide to 0 or -1).
TtlTellsDeadline ==
  reply.cmd = "TTL" /\ reply.ans # -2 =>
    LET t == told[reply.key]
    IN  IF reply.ans = -1 THEN t = NoTtl
        ELSE /\ t # NoTtl
             /\ now + reply.ans * Second <= t
             /\ t < now + (reply.ans + 1) * Second

\* A key that a "+OK" says exists is found until it is deleted or past due
\* (README.md: SET is "Set key to value").
WrittenIsFound ==
  reply.cmd = "GET" /\ reply.ans = Absent
    => reply.key \notin known \/ PastDue(reply.key)

\* Keys that nobody touches are removed too: an expired key does not stay in
\* the tables for ever.
LapsedIsRemoved == \A k \in Keys : Expired(db, k, clock) ~> ~Expired(db, k, clock)
=================================================================================
