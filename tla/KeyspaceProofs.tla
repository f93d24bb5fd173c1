----------------------------- MODULE KeyspaceProofs -----------------------------
(***************************************************************************)
(* Proofs about Keyspace, for every set of keys, values and TTLs: the two  *)
(* tables agree, and a key past its deadline is never read.                *)
(***************************************************************************)
EXTENDS Keyspace, DbProofs

\* What both proofs need of the state.
Shape ==
  /\ clock \in Nat /\ now \in Nat /\ now <= clock
  /\ Good(db)
  /\ told \in [Keys -> Nat]

\* Deadlines are natural numbers.
LEMMA DeadlineType ==
  ASSUME Shape, NEW s \in Ttls
  PROVE  Deadline(s) \in Nat /\ Deadline(s) > 0
BY KeyspaceAssumption DEF Shape, Deadline

\* Every step of the system keeps the shape, and with it the agreement of the
\* two tables: also a step that fails for want of memory, and a sweep that
\* uses freed strings.
LEMMA ShapeStep ==
  ASSUME Shape, [Next]_vars
  PROVE  Shape'
<1> USE DEF Shape
<1>1. ASSUME NEW k \in Keys, NEW v \in Values, cmd_set(k, v)
      PROVE  Shape'
  BY <1>1, GoodSet DEF cmd_set, Do, Fail, Result, NoTtl
<1>2. ASSUME NEW k \in Keys, NEW v \in Values, NEW s \in Ttls, cmd_setex(k, v, s)
      PROVE  Shape'
  <2>1. Deadline(s) \in Nat
    BY DeadlineType
  <2>2. Good(db') /\ UNCHANGED <<clock, now>>
    BY <1>2, <2>1, GoodSetex, GoodPut DEF cmd_setex, Do, Fail, Result
  <2>3. told' \in [Keys -> Nat]
    BY <1>2, <2>1 DEF cmd_setex, Fail
  <2> QED
    BY <2>2, <2>3
<1>3. ASSUME NEW k \in Keys, NEW s \in Ttls, cmd_expire(k, s)
      PROVE  Shape'
  BY <1>3, DeadlineType, GoodExpire DEF cmd_expire, Do, Fail, Result
<1>4. ASSUME NEW k \in Keys, cmd_persist(k)
      PROVE  Shape'
  BY <1>4, GoodPersist DEF cmd_persist, Do, NoTtl
<1>5. ASSUME NEW k \in Keys, cmd_del(k)
      PROVE  Shape'
  BY <1>5, GoodDel DEF cmd_del, Do, NoTtl
<1>6. ASSUME NEW k \in Keys, cmd_get(k) \/ cmd_ttl(k)
      PROVE  Shape'
  BY <1>6, GoodGet DEF cmd_get, cmd_ttl, db_get_ttl
<1>7. ASSUME NEW visited \in SUBSET Keys, before_sleep(visited)
      PROVE  Shape'
  BY <1>7, GoodSweep DEF before_sleep, active_expire_cron
<1>8. CASE cmd_keys \/ ClockTick \/ UNCHANGED vars
  BY <1>8 DEF cmd_keys, ClockTick, vars
<1> QED
  BY <1>1, <1>2, <1>3, <1>4, <1>5, <1>6, <1>7, <1>8 DEF Next, Commands

\* The initial state has the shape.
LEMMA ShapeInit == Init => Shape
BY GoodCreate DEF Init, Shape, NoTtl

\* No deadline ever outlives its key, for every number of keys and every
\* interleaving of commands, sweeps, failed allocations and freed strings.
THEOREM TablesAlwaysAgree == Spec => []TablesAgree
<1>1. Shape => TablesAgree
  BY DEF Shape, Good, TablesAgree
<1> QED
  BY <1>1, ShapeInit, ShapeStep, PTL DEF Spec

-------------------------------------------------------------------------------
(* Reads and deadlines                                                     *)

\* A deadline a client knows of is the one in the table, or it has passed and
\* the key is gone.
ToldOK ==
  \A k \in Keys : told[k] # NoTtl =>
    \/ Exists(db, k) /\ db.expires[k] = told[k]
    \/ ~Exists(db, k) /\ ~HasTtl(db, k) /\ now > told[k]

\* Every step keeps it: a deadline changes hands together with the table.
LEMMA ToldStep ==
  ASSUME ~FreedKeyLost, Shape, ToldOK, [Next]_vars
  PROVE  ToldOK'
<1> USE DEF Shape, Good
<1>1. ASSUME NEW k \in Keys, NEW v \in Values, cmd_set(k, v)
      PROVE  ToldOK'
  <2>1. v # Absent
    BY AbsentAssumption
  <2> QED
    BY <1>1, <2>1 DEF cmd_set, Do, Fail, Result, db_set, PutVal, ToldOK, PastDue, Exists,
                      HasTtl, NoTtl, Database
<1>2. ASSUME NEW k \in Keys, NEW v \in Values, NEW s \in Ttls, cmd_setex(k, v, s)
      PROVE  ToldOK'
  <2>1. v # Absent /\ Deadline(s) \in Nat /\ Deadline(s) > 0
    BY AbsentAssumption, DeadlineType
  <2>2. CASE Do("SETEX", k, db_setex(db, k, v, Deadline(s))) /\ told' = [told EXCEPT ![k] = Deadline(s)]
    BY <2>1, <2>2 DEF Do, Result, db_setex, PutVal, PutTtl, ToldOK, Exists, HasTtl, NoTtl, Database
  <2>3. CASE Fail("SETEX", k, db)
    BY <2>3 DEF Fail, Do, Result, ToldOK, Exists, HasTtl
  <2>4. CASE ~HasTtl(db, k) /\ Fail("SETEX", k, PutVal(db, k, Absent))
    BY <2>4 DEF Fail, Do, Result, PutVal, ToldOK, Exists, HasTtl, NoTtl, Database
  <2> QED
    BY <1>2, <2>2, <2>3, <2>4 DEF cmd_setex
<1>3. ASSUME NEW k \in Keys, NEW s \in Ttls, cmd_expire(k, s)
      PROVE  ToldOK'
  <2>1. Deadline(s) \in Nat /\ Deadline(s) > 0
    BY DeadlineType
  <2>2. CASE db' = PutTtl(db, k, Deadline(s)) /\ Exists(db, k)
               /\ told' = [told EXCEPT ![k] = Deadline(s)] /\ UNCHANGED now
    BY <2>1, <2>2 DEF PutTtl, ToldOK, Exists, HasTtl, NoTtl, Database
  <2>3. CASE UNCHANGED <<db, told, now>>
    BY <2>3 DEF ToldOK, Exists, HasTtl
  <2> QED
    BY <1>3, <2>1, <2>2, <2>3 DEF cmd_expire, Fail, Do, Result, db_key_expire
<1>4. ASSUME NEW k \in Keys, cmd_persist(k)
      PROVE  ToldOK'
  BY <1>4 DEF cmd_persist, Do, Result, db_persist, PutTtl, ToldOK, Exists, HasTtl, NoTtl, Database
<1>5. ASSUME NEW k \in Keys, cmd_del(k)
      PROVE  ToldOK'
  BY <1>5 DEF cmd_del, Do, Result, db_del, PutVal, PutTtl, ToldOK, Exists, HasTtl, NoTtl, Database
<1>6. ASSUME NEW k \in Keys, cmd_get(k) \/ cmd_ttl(k)
      PROVE  ToldOK'
  <2>1. db' = db_expire_clean(db, k, now) /\ UNCHANGED <<now, told>>
    BY <1>6 DEF cmd_get, cmd_ttl, db_get, db_get_ttl
  <2> QED
    BY <2>1 DEF db_expire_clean, Expired, Result, db_del, PutVal, PutTtl, ToldOK, Exists, HasTtl,
                NoTtl, Database
<1>7. ASSUME NEW visited \in SUBSET Keys, before_sleep(visited)
      PROVE  ToldOK'
  <2>1. db' = db_active_sweep(db, visited, {}, clock) /\ now' = clock /\ UNCHANGED told
    BY <1>7 DEF before_sleep, active_expire_cron
  <2> QED
    BY <2>1 DEF db_active_sweep, Expired, ToldOK, Exists, HasTtl, NoTtl, Database
<1>8. CASE cmd_keys \/ ClockTick \/ UNCHANGED vars
  BY <1>8 DEF cmd_keys, ClockTick, vars, ToldOK, Exists, HasTtl
<1> QED
  BY <1>1, <1>2, <1>3, <1>4, <1>5, <1>6, <1>7, <1>8 DEF Next, Commands

\* The answer of a GET is right when it is given and stays right until the
\* next command or tick takes its place.
LEMMA ReadStep ==
  ASSUME Shape, ToldOK, ReadsRespectDeadline, [Next]_vars
  PROVE  ReadsRespectDeadline'
<1> USE DEF Shape, Good
<1>1. ASSUME NEW k \in Keys, cmd_get(k)
      PROVE  ReadsRespectDeadline'
  <2> DEFINE c == db_expire_clean(db, k, now)
  <2>1. reply' = [cmd |-> "GET", key |-> k, ans |-> c.keyspace[k]] /\ UNCHANGED <<now, told>>
    BY <1>1 DEF cmd_get, Answer, db_get
  <2>2. c.keyspace[k] # Absent => c = db /\ ~Expired(db, k, now)
    BY DEF db_expire_clean, db_del, Result, PutVal, PutTtl, Database
  <2>3. Exists(db, k) /\ ~Expired(db, k, now) => ~PastDue(k)
    BY DEF ToldOK, Expired, HasTtl, PastDue, NoTtl
  <2>4. c.keyspace[k] # Absent => ~PastDue(k)
    BY <2>2, <2>3 DEF Exists
  <2> QED
    BY <2>1, <2>4 DEF ReadsRespectDeadline, PastDue
<1>2. ASSUME NEW k \in Keys, Commands(k), ~cmd_get(k)
      PROVE  reply'.cmd # "GET"
  <2>1. \A c, res : Do(c, k, res) => reply'.cmd = c
    BY DEF Do, Answer
  <2>2. \A c, d : Fail(c, k, d) => reply'.cmd = c
    BY <2>1 DEF Fail
  <2>3. cmd_ttl(k) => reply'.cmd = "TTL"
    BY DEF cmd_ttl, Answer
  <2>4. \A v \in Values : cmd_set(k, v) => reply'.cmd = "SET"
    BY <2>1, <2>2 DEF cmd_set
  <2>5. \A v \in Values, s \in Ttls : cmd_setex(k, v, s) => reply'.cmd = "SETEX"
    BY <2>1, <2>2 DEF cmd_setex
  <2>6. \A s \in Ttls : cmd_expire(k, s) => reply'.cmd = "EXPIRE"
    BY <2>1, <2>2 DEF cmd_expire
  <2>7. (cmd_persist(k) => reply'.cmd = "PERSIST") /\ (cmd_del(k) => reply'.cmd = "DEL")
    BY <2>1 DEF cmd_persist, cmd_del
  <2> QED
    BY <1>2, <2>3, <2>4, <2>5, <2>6, <2>7 DEF Commands
<1>3. ASSUME NEW visited \in SUBSET Keys, before_sleep(visited)
      PROVE  reply'.cmd # "GET"
  BY <1>3 DEF before_sleep, NoReply
<1>4. cmd_keys => reply'.cmd # "GET"
  BY DEF cmd_keys, Answer
<1>5. ClockTick \/ UNCHANGED vars => UNCHANGED <<reply, now, told>>
  BY DEF ClockTick, vars
<1>6. reply'.cmd # "GET" => ReadsRespectDeadline'
  BY DEF ReadsRespectDeadline
<1>7. UNCHANGED <<reply, now, told>> => ReadsRespectDeadline'
  BY DEF ReadsRespectDeadline, PastDue
<1> QED
  BY <1>1, <1>2, <1>3, <1>4, <1>5, <1>6, <1>7 DEF Next

\* If the freed string of the sweep still spells the key, no GET ever returns
\* a value whose deadline, as clients were told it, has passed.
THEOREM ExpiredNeverRead ==
  ASSUME ~FreedKeyLost
  PROVE  Spec => []ReadsRespectDeadline
<1>1. Init => ToldOK /\ ReadsRespectDeadline
  BY DEF Init, ToldOK, ReadsRespectDeadline, NoReply, NoTtl
<1>2. ~FreedKeyLost
  OBVIOUS
<1>3. Shape /\ ToldOK /\ ReadsRespectDeadline /\ [Next]_vars
        => (Shape /\ ToldOK /\ ReadsRespectDeadline)'
  BY <1>2, ShapeStep, ToldStep, ReadStep
<1> QED
  BY <1>1, <1>3, ShapeInit, PTL DEF Spec

-------------------------------------------------------------------------------
(* Types                                                                   *)

\* TypeOK is the shape and what clients were answered.
THEOREM KeyspaceTypeCorrect == Spec => []TypeOK
<1> DEFINE Answers == {"none", "SET", "SETEX", "EXPIRE", "PERSIST", "DEL", "GET", "TTL", "KEYS"}
           Rest == reply.cmd \in Answers /\ known \subseteq Keys
<1>1. Init => Rest
  BY DEF Init, NoReply
<1>2. Rest /\ [Next]_vars => Rest'
  <2> SUFFICES ASSUME Rest, [Next]_vars PROVE Rest'
    OBVIOUS
  <2>1. ASSUME NEW k \in Keys, Commands(k) PROVE Rest'
    <3>1. \A c, res : Do(c, k, res) => reply'.cmd = c
      BY DEF Do, Answer
    <3>2. \A c, d : Fail(c, k, d) => reply'.cmd = c /\ known' = known
      BY <3>1 DEF Fail
    <3>3. \A v \in Values : cmd_set(k, v) => Rest'
      BY <3>1, <3>2 DEF cmd_set
    <3>4. \A v \in Values, s \in Ttls : cmd_setex(k, v, s) => Rest'
      BY <3>1, <3>2 DEF cmd_setex
    <3>5. \A s \in Ttls : cmd_expire(k, s) => Rest'
      BY <3>1, <3>2 DEF cmd_expire
    <3>6. cmd_persist(k) \/ cmd_del(k) => Rest'
      BY <3>1 DEF cmd_persist, cmd_del
    <3>7. cmd_get(k) \/ cmd_ttl(k) => Rest'
      BY DEF cmd_get, cmd_ttl, Answer
    <3> QED
      BY <2>1, <3>3, <3>4, <3>5, <3>6, <3>7 DEF Commands
  <2>2. ASSUME NEW visited \in SUBSET Keys, before_sleep(visited) PROVE Rest'
    BY <2>2 DEF before_sleep, NoReply
  <2>3. CASE cmd_keys \/ ClockTick \/ UNCHANGED vars
    BY <2>3 DEF cmd_keys, ClockTick, vars, Answer
  <2> QED
    BY <2>1, <2>2, <2>3 DEF Next
<1>3. Shape /\ Rest => TypeOK
  BY DEF Shape, Good, TypeOK
<1> HIDE DEF Rest
<1> QED
  BY <1>1, <1>2, <1>3, ShapeInit, ShapeStep, PTL DEF Spec

-------------------------------------------------------------------------------
(* TTL                                                                     *)

\* The converse of ToldOK: a deadline in the table is the one clients know of,
\* or it has passed.  (A SET onto a key past due leaves the deadline in the
\* table, though its client takes the key for a new one.)
TableOK ==
  \A k \in Keys : HasTtl(db, k) => told[k] = db.expires[k] \/ now > db.expires[k]

\* Every step keeps it.
LEMMA TableStep ==
  ASSUME Shape, TableOK, [Next]_vars
  PROVE  TableOK'
<1> USE DEF Shape, Good
<1>1. ASSUME NEW k \in Keys, NEW v \in Values, cmd_set(k, v)
      PROVE  TableOK'
  <2>1. now' = now /\ db'.expires = db.expires
    BY <1>1 DEF cmd_set, Do, Fail, Result, db_set, PutVal
  <2>2. \A j \in Keys : told'[j] = told[j] \/ (told[j] # NoTtl /\ now > told[j])
    BY <1>1 DEF cmd_set, Fail, PastDue
  <2> QED
    BY <2>1, <2>2 DEF TableOK, HasTtl, Database
<1>2. ASSUME NEW k \in Keys, NEW v \in Values, NEW s \in Ttls, cmd_setex(k, v, s)
      PROVE  TableOK'
  <2>1. Deadline(s) \in Nat /\ Deadline(s) > 0
    BY DeadlineType
  <2>2. CASE Do("SETEX", k, db_setex(db, k, v, Deadline(s))) /\ told' = [told EXCEPT ![k] = Deadline(s)]
    BY <2>1, <2>2 DEF Do, Result, db_setex, PutVal, PutTtl, TableOK, HasTtl, NoTtl, Database
  <2>3. CASE Fail("SETEX", k, db) \/ Fail("SETEX", k, PutVal(db, k, Absent))
    BY <2>3 DEF Fail, Do, Result, PutVal, TableOK, HasTtl
  <2> QED
    BY <1>2, <2>2, <2>3 DEF cmd_setex
<1>3. ASSUME NEW k \in Keys, NEW s \in Ttls, cmd_expire(k, s)
      PROVE  TableOK'
  <2>1. Deadline(s) \in Nat /\ Deadline(s) > 0
    BY DeadlineType
  <2>2. CASE db' = PutTtl(db, k, Deadline(s)) /\ told' = [told EXCEPT ![k] = Deadline(s)] /\ UNCHANGED now
    BY <2>1, <2>2 DEF PutTtl, TableOK, HasTtl, NoTtl, Database
  <2>3. CASE UNCHANGED <<db, told, now>>
    BY <2>3 DEF TableOK, HasTtl
  <2> QED
    BY <1>3, <2>1, <2>2, <2>3 DEF cmd_expire, Fail, Do, Result, db_key_expire
<1>4. ASSUME NEW k \in Keys, cmd_persist(k)
      PROVE  TableOK'
  BY <1>4 DEF cmd_persist, Do, Result, db_persist, PutTtl, TableOK, HasTtl, NoTtl, Database
<1>5. ASSUME NEW k \in Keys, cmd_del(k)
      PROVE  TableOK'
  BY <1>5 DEF cmd_del, Do, Result, db_del, PutVal, PutTtl, TableOK, HasTtl, NoTtl, Database
<1>6. ASSUME NEW k \in Keys, cmd_get(k) \/ cmd_ttl(k)
      PROVE  TableOK'
  <2>1. db' = db_expire_clean(db, k, now) /\ UNCHANGED <<now, told>>
    BY <1>6 DEF cmd_get, cmd_ttl, db_get, db_get_ttl
  <2> QED
    BY <2>1 DEF db_expire_clean, Result, db_del, PutVal, PutTtl, TableOK, HasTtl, NoTtl, Database
<1>7. ASSUME NEW visited \in SUBSET Keys, before_sleep(visited)
      PROVE  TableOK'
  <2>1. PICK clobbered : db' = db_active_sweep(db, visited, clobbered, clock)
    BY <1>7 DEF before_sleep, active_expire_cron
  <2>2. now' = clock /\ UNCHANGED told
    BY <1>7 DEF before_sleep
  <2> QED
    BY <2>1, <2>2 DEF db_active_sweep, TableOK, HasTtl, NoTtl, Database
<1>8. CASE cmd_keys \/ ClockTick \/ UNCHANGED vars
  BY <1>8 DEF cmd_keys, ClockTick, vars, TableOK, HasTtl
<1> QED
  BY <1>1, <1>2, <1>3, <1>4, <1>5, <1>6, <1>7, <1>8 DEF Next, Commands

\* What a division by the length of a second loses is less than a second.
LEMMA WholeSeconds ==
  ASSUME NEW x \in Nat, NEW s \in Nat \ {0}
  PROVE  /\ x \div s \in Nat
         /\ (x \div s) * s <= x /\ x < (x \div s + 1) * s
OBVIOUS

\* The answer of a TTL is right when it is given and stays right until the
\* next command or tick takes its place.
LEMMA TtlStep ==
  ASSUME Shape, ToldOK, TableOK, TtlTellsDeadline, [Next]_vars
  PROVE  TtlTellsDeadline'
<1> USE DEF Shape, Good
<1>1. ASSUME NEW k \in Keys, cmd_ttl(k)
      PROVE  TtlTellsDeadline'
  <2> DEFINE c == db_expire_clean(db, k, now)
             a == db_get_ttl(db, k).ttl
  <2>1. reply' = [cmd |-> "TTL", key |-> k, ans |-> a] /\ UNCHANGED <<now, told>>
    BY <1>1 DEF cmd_ttl, Answer
  <2>2. a = IF ~Exists(c, k) THEN -2 ELSE IF ~HasTtl(c, k) THEN -1 ELSE (c.expires[k] - now) \div Second
    BY DEF db_get_ttl
  <2>3. Exists(c, k) => c = db /\ ~Expired(db, k, now)
    BY DEF db_expire_clean, db_del, Result, PutVal, PutTtl, Exists, Database
  <2>4. CASE ~Exists(c, k)
    BY <2>1, <2>2, <2>4 DEF TtlTellsDeadline
  <2>5. CASE Exists(c, k) /\ ~HasTtl(c, k)
    <3>1. a = -1 /\ told[k] = NoTtl
      BY <2>2, <2>3, <2>5 DEF ToldOK, HasTtl, NoTtl
    <3> QED
      BY <2>1, <3>1 DEF TtlTellsDeadline
  <2>6. CASE Exists(c, k) /\ HasTtl(c, k)
    <3>1. db.expires[k] \in Nat /\ db.expires[k] # NoTtl /\ now <= db.expires[k]
      BY <2>3, <2>6 DEF Expired, HasTtl, Database
    <3>2. told[k] = db.expires[k]
      BY <3>1 DEF TableOK, HasTtl
    <3>3. a = (told[k] - now) \div Second
      BY <2>2, <2>3, <2>6, <3>2
    <3> DEFINE x == told[k] - now
    <3>4. x \in Nat /\ Second \in Nat \ {0}
      BY <3>1, <3>2, KeyspaceAssumption
    <3> HIDE DEF a
    <3>5. a \in Nat /\ a * Second <= x /\ x < (a + 1) * Second
      BY <3>3, <3>4, WholeSeconds
    <3>6. now + a * Second <= told[k] /\ told[k] < now + (a + 1) * Second
      <4>1. a * Second \in Nat /\ (a + 1) * Second \in Nat
        BY <3>4, <3>5
      <4> QED
        BY <3>5, <4>1, <3>1, <3>2
    <3> QED
      BY <2>1, <3>1, <3>2, <3>5, <3>6 DEF TtlTellsDeadline
  <2> QED
    BY <2>4, <2>5, <2>6
<1>2. ASSUME NEW k \in Keys, Commands(k), ~cmd_ttl(k)
      PROVE  reply'.cmd # "TTL"
  <2>1. \A c, res : Do(c, k, res) => reply'.cmd = c
    BY DEF Do, Answer
  <2>2. \A c, d : Fail(c, k, d) => reply'.cmd = c
    BY <2>1 DEF Fail
  <2>3. cmd_get(k) => reply'.cmd = "GET"
    BY DEF cmd_get, Answer
  <2>4. \A v \in Values : cmd_set(k, v) => reply'.cmd = "SET"
    BY <2>1, <2>2 DEF cmd_set
  <2>5. \A v \in Values, s \in Ttls : cmd_setex(k, v, s) => reply'.cmd = "SETEX"
    BY <2>1, <2>2 DEF cmd_setex
  <2>6. \A s \in Ttls : cmd_expire(k, s) => reply'.cmd = "EXPIRE"
    BY <2>1, <2>2 DEF cmd_expire
  <2>7. (cmd_persist(k) => reply'.cmd = "PERSIST") /\ (cmd_del(k) => reply'.cmd = "DEL")
    BY <2>1 DEF cmd_persist, cmd_del
  <2> QED
    BY <1>2, <2>3, <2>4, <2>5, <2>6, <2>7 DEF Commands
<1>3. ASSUME NEW visited \in SUBSET Keys, before_sleep(visited)
      PROVE  reply'.cmd # "TTL"
  BY <1>3 DEF before_sleep, NoReply
<1>4. cmd_keys => reply'.cmd # "TTL"
  BY DEF cmd_keys, Answer
<1>5. ClockTick \/ UNCHANGED vars => UNCHANGED <<reply, now, told>>
  BY DEF ClockTick, vars
<1>6. reply'.cmd # "TTL" => TtlTellsDeadline'
  BY DEF TtlTellsDeadline
<1>7. UNCHANGED <<reply, now, told>> => TtlTellsDeadline'
  BY DEF TtlTellsDeadline
<1> QED
  BY <1>1, <1>2, <1>3, <1>4, <1>5, <1>6, <1>7 DEF Next

\* If the freed string of the sweep still spells the key, TTL tells the
\* deadline that the last "+OK" set, to the second, and never takes a key past
\* due for one without a deadline.
THEOREM TtlAlwaysRight ==
  ASSUME ~FreedKeyLost
  PROVE  Spec => []TtlTellsDeadline
<1> DEFINE Inv == Shape /\ ToldOK /\ TableOK /\ TtlTellsDeadline
<1>1. Init => Inv
  BY ShapeInit DEF Init, ToldOK, TableOK, TtlTellsDeadline, NoReply, NoTtl, HasTtl, db_create
<1>2. ~FreedKeyLost
  OBVIOUS
<1>3. Inv /\ [Next]_vars => Inv'
  BY <1>2, ShapeStep, ToldStep, TableStep, TtlStep
<1>4. Inv => TtlTellsDeadline
  OBVIOUS
<1> HIDE DEF Inv
<1> QED
  BY <1>1, <1>3, <1>4, PTL DEF Spec
=================================================================================
