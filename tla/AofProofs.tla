------------------------------- MODULE AofProofs -------------------------------
(***************************************************************************)
(* Proofs about Aof, for every set of keys, values and TTLs, every fsync   *)
(* policy, every buffer size and every set of faults.                      *)
(***************************************************************************)
EXTENDS Aof, DbProofs, SequenceTheorems

-------------------------------------------------------------------------------
(* Records, files and images                                               *)

\* Headers and torn bytes are not records, and only records replay.
LEMMA EntryFacts ==
  /\ HEADER \in Entry /\ TORN \in Entry
  /\ HEADER \notin Record /\ TORN \notin Record
  /\ \A r \in Record : r \in Entry /\ r.op \in Opcodes /\ r.key \in Keys /\ r.exp \in Nat
  /\ \A r \in Entry : r.op \in Opcodes => r \in Record
BY DEF HEADER, TORN, Entry, Record, Rec, Opcodes

\* One turn of the replay loop keeps the database good, and accepts records only.
LEMMA ReplayGood ==
  ASSUME NEW d, Good(d), NEW r \in Entry, NEW t
  PROVE  /\ Good(aof_replay_record(d, r, t).db)
         /\ aof_replay_record(d, r, t).ok => r \in Record
<1>1. CASE r \notin Record
  BY <1>1, EntryFacts DEF aof_replay_record, Result
<1>2. CASE r \in Record
  <2>1. r.key \in Keys /\ r.exp \in Nat /\ (r.op \in {"SET", "SETEX"} => r.val \in Values)
    BY <1>2 DEF Record
  <2>2. Good(db_del(d, r.key).db) /\ Good(db_persist(d, r.key).db)
        /\ Good(db_key_expire(d, r.key, r.exp).db)
    BY <2>1, GoodDel, GoodPersist, GoodExpire
  <2>3. r.op \in {"SET", "SETEX"}
          => Good(db_set(d, r.key, r.val).db) /\ Good(db_setex(d, r.key, r.val, r.exp).db)
    BY <2>1, GoodSet, GoodSetex
  <2> QED
    BY <1>2, <2>2, <2>3 DEF aof_replay_record, Result, Opcodes
<1> QED
  BY <1>1, <1>2

\* What a power loss leaves of a file is a file.
LEMMA ImagesType ==
  ASSUME NEW f \in Seq(Entry), NEW n \in Nat
  PROVE  Images(f, n) \subseteq Seq(Entry)
<1>1. \A m \in n..Len(f) : SubSeq(f, 1, m) \in Seq(Entry)
  BY SubSeqProperties
<1>2. \A m \in n..(Len(f) - 1) : Append(SubSeq(f, 1, m), TORN) \in Seq(Entry)
  BY <1>1, EntryFacts, AppendProperties
<1> QED
  BY <1>1, <1>2 DEF Images

-------------------------------------------------------------------------------
(* Types and tables                                                        *)

\* TypeOK and NoOrphanTtl are proved together, since a record can only be
\* typed if the database it is taken from has no orphan.  The three parts are
\* what the server, the file and the rewrite keep; SnapOK is what makes them
\* inductive: the child visits keys of its snapshot only.
ServerOK ==
  /\ clock \in Nat /\ now \in Nat
  /\ phase \in {"down", "loading", "serving"}
  /\ Good(db)
  /\ req \in {"idle", "logged", "unlogged"}
  /\ dirty \in BOOLEAN /\ pipe \in BOOLEAN /\ pos \in Nat

DiskOK ==
  /\ file \in Seq(Entry)
  /\ disk \in [synced : Nat, older : SUBSET Seq(Entry)]

SnapOK(c) ==
  /\ c \in [st : {"none", "failed", "ok"} \cup Running,
            snap : Database, todo : SUBSET Keys]
  /\ Good(c.snap)
  /\ \A k \in c.todo : Exists(c.snap, k)

RewriteOK ==
  /\ rwState \in {"IDLE", "ACTIVE", "ABORTING"}
  /\ diff \in Seq(Record)
  /\ SnapOK(child)
  /\ temp \in Seq(Entry)

Core == ServerOK /\ DiskOK /\ RewriteOK

\* No child is a child with an empty snapshot.
LEMMA NoChildOK == SnapOK(NoChild)
BY GoodCreate DEF NoChild, SnapOK, Good

\* The child's progress changes neither the snapshot nor adds keys to visit.
LEMMA ChildProgress ==
  ASSUME SnapOK(child), NEW st \in {"none", "failed", "ok"} \cup Running, NEW k
  PROVE  /\ SnapOK([child EXCEPT !.st = st])
         /\ SnapOK([child EXCEPT !.todo = @ \ {k}])
BY DEF SnapOK

\* The initial state.
LEMMA CoreInit == Init => Core
<1> SUFFICES ASSUME Init PROVE Core
  OBVIOUS
<1>1. ServerOK
  BY GoodCreate DEF Init, ServerOK
<1>2. DiskOK
  BY DEF Init, DiskOK
<1>3. RewriteOK
  BY NoChildOK DEF Init, RewriteOK
<1> QED
  BY <1>1, <1>2, <1>3 DEF Core

\* Mutating commands: the append, the diff, the abort.
LEMMA CoreMutate ==
  ASSUME Core, NEW res, Good(res.db), NEW r \in Record, Mutate(res, r)
  PROVE  Core'
<1> USE DEF Core
<1>1. ServerOK'
  <2>1. UNCHANGED <<clock, now, phase, pos>> /\ db' = res.db
    BY DEF Mutate
  <2>2. req' \in {"idle", "logged", "unlogged"}
    BY DEF Mutate, aof_append, ServerOK
  <2>3. dirty' \in BOOLEAN /\ pipe' \in BOOLEAN
    BY DEF Mutate, aof_append, aof_emit_diff, aof_abort_rewrite, ServerOK
  <2> QED
    BY <2>1, <2>2, <2>3 DEF ServerOK
<1>2. DiskOK'
  <2>1. disk' = disk
    BY DEF Mutate
  <2>2. file' = file \/ file' = Append(file, r) \/ file' = Append(file, TORN)
    BY DEF Mutate, aof_append, PartialWrites
  <2>3. file \in Seq(Entry) /\ Append(file, r) \in Seq(Entry) /\ Append(file, TORN) \in Seq(Entry)
    BY EntryFacts, AppendProperties DEF DiskOK
  <2> QED
    BY <2>1, <2>2, <2>3 DEF DiskOK
<1>3. RewriteOK'
  <2>1. UNCHANGED <<child, temp>>
    BY DEF Mutate
  <2>2. rwState' \in {"IDLE", "ACTIVE", "ABORTING"}
    BY DEF Mutate, aof_append, aof_emit_diff, aof_abort_rewrite, RewriteOK
  <2>3. diff' = diff \/ diff' = <<>> \/ diff' = Append(diff, r)
    BY DEF Mutate, aof_append, aof_emit_diff, aof_abort_rewrite
  <2>4. diff \in Seq(Record) /\ <<>> \in Seq(Record) /\ Append(diff, r) \in Seq(Record)
    BY EmptySeq, AppendProperties DEF RewriteOK
  <2>5. diff' \in Seq(Record)
    BY <2>3, <2>4
  <2> QED
    BY <2>1, <2>2, <2>5 DEF RewriteOK
<1> QED
  BY <1>1, <1>2, <1>3

\* The commands, each with the record it writes.
LEMMA CoreCommands ==
  ASSUME Core, Commands
  PROVE  Core'
<1> USE DEF Core
<1>1. ASSUME NEW k \in Keys, NEW v \in Values, cmd_set(k, v)
      PROVE  Core'
  <2>1. Rec("SET", k, v, NoTtl) \in Record
    BY DEF Rec, Record, NoTtl
  <2>2. Good(db_set(db, k, v).db)
    BY GoodSet DEF ServerOK
  <2> QED
    BY <1>1, <2>1, <2>2, CoreMutate DEF cmd_set
<1>2. ASSUME NEW k \in Keys, NEW v \in Values, NEW s \in Ttls, cmd_setex(k, v, s)
      PROVE  Core'
  <2>1. now + s \in Nat
    BY AofAssumption DEF ServerOK
  <2>2. Rec("SETEX", k, v, now + s) \in Record
    BY <2>1 DEF Rec, Record
  <2>3. Good(db_setex(db, k, v, now + s).db)
    BY <2>1, GoodSetex DEF ServerOK
  <2> QED
    BY <1>2, <2>2, <2>3, CoreMutate DEF cmd_setex
<1>3. ASSUME NEW k \in Keys, NEW s \in Ttls, cmd_expire(k, s)
      PROVE  Core'
  <2>1. now + s \in Nat
    BY AofAssumption DEF ServerOK
  <2>2. Rec("EXPIRE", k, Absent, now + s) \in Record
    BY <2>1 DEF Rec, Record
  <2>3. Good(db_key_expire(db, k, now + s).db)
    BY <2>1, GoodExpire DEF ServerOK
  <2> QED
    BY <1>3, <2>2, <2>3, CoreMutate DEF cmd_expire
<1>4. ASSUME NEW k \in Keys, cmd_persist(k)
      PROVE  Core'
  <2>1. Rec("PERSIST", k, Absent, NoTtl) \in Record
    BY DEF Rec, Record, NoTtl
  <2>2. Good(db_persist(db, k).db)
    BY GoodPersist DEF ServerOK
  <2> QED
    BY <1>4, <2>1, <2>2, CoreMutate DEF cmd_persist
<1>5. ASSUME NEW k \in Keys, cmd_del(k)
      PROVE  Core'
  <2>1. Rec("DEL", k, Absent, NoTtl) \in Record
    BY DEF Rec, Record, NoTtl
  <2>2. Good(db_del(db, k).db)
    BY GoodDel DEF ServerOK
  <2> QED
    BY <1>5, <2>1, <2>2, CoreMutate DEF cmd_del
<1>6. ASSUME NEW k \in Keys, cmd_get(k)
      PROVE  Core'
  <2>1. Good(db_get(db, k, now).db)
    BY GoodGet DEF ServerOK
  <2> QED
    BY <1>6, <2>1 DEF cmd_get, ServerOK, DiskOK, RewriteOK, diskVars, rewriteVars
<1> QED
  BY <1>1, <1>2, <1>3, <1>4, <1>5, <1>6 DEF Commands

\* The reply, with or without its fsync.
LEMMA CoreReply ==
  ASSUME Core, reply_ok
  PROVE  Core'
<1> USE DEF Core
<1>1. UNCHANGED <<clock, now, phase, db, pos, pipe, file, rewriteVars>> /\ req' = "idle"
  BY DEF reply_ok
<1>2. dirty' \in BOOLEAN /\ disk' \in {disk, Flushed}
  BY DEF reply_ok, ServerOK
<1>3. DiskOK'
  BY <1>1, <1>2 DEF DiskOK, Flushed, Unrenamed
<1> QED
  BY <1>1, <1>2, <1>3 DEF ServerOK, RewriteOK, rewriteVars

\* Starting a rewrite: the snapshot is the database, and the keys to visit are
\* the keys in it.
LEMMA CoreBgrewrite ==
  ASSUME Core, cmd_bgrewriteaof
  PROVE  Core'
<1> USE DEF Core
<1> DEFINE c == [st |-> "opening", snap |-> db, todo |-> {k \in Keys : Exists(db, k)}]
<1>1. UNCHANGED <<clock, serverVars, diskVars, temp>>
  BY DEF cmd_bgrewriteaof
<1>2. SnapOK(c)
  BY DEF SnapOK, ServerOK, Good, Running
<1>3. \/ rwState' = "ACTIVE" /\ diff' = <<>> /\ child' = c
      \/ UNCHANGED <<rwState, diff, child>>
  BY DEF cmd_bgrewriteaof
<1> HIDE DEF c
<1>4. rwState' \in {"IDLE", "ACTIVE", "ABORTING"} /\ diff' \in Seq(Record)
  BY <1>3, EmptySeq DEF RewriteOK
<1>5. SnapOK(child')
  BY <1>2, <1>3 DEF RewriteOK
<1>6. RewriteOK'
  BY <1>1, <1>4, <1>5 DEF RewriteOK
<1> QED
  BY <1>1, <1>6 DEF ServerOK, DiskOK, serverVars, diskVars

\* The child writes its temp file and nothing else.
LEMMA CoreChild ==
  ASSUME Core, Child
  PROVE  Core'
<1> USE DEF Core
<1>1. SUFFICES SnapOK(child') /\ temp' \in Seq(Entry) /\ ChildOnly
  BY DEF ChildOnly, ServerOK, DiskOK, RewriteOK, serverVars, diskVars
<1>2. SnapOK(child) /\ temp \in Seq(Entry)
  BY DEF RewriteOK
<1>3. SnapOK([child EXCEPT !.st = "failed"]) /\ SnapOK([child EXCEPT !.st = "walking"])
      /\ SnapOK([child EXCEPT !.st = "ok"])
  BY <1>2, ChildProgress DEF Running
<1>4. ASSUME NEW T, T \subseteq Seq(Entry), ChildFails(T)
      PROVE  SnapOK(child') /\ temp' \in Seq(Entry) /\ ChildOnly
  BY <1>3, <1>4 DEF ChildFails
<1>5. CASE ChildOpen
  <2>1. <<HEADER>> \in Seq(Entry) /\ {<<>>, <<TORN>>} \subseteq Seq(Entry)
    BY EntryFacts
  <2> QED
    BY <1>3, <1>4, <1>5, <2>1 DEF ChildOpen
<1>6. ASSUME NEW k \in Keys, ChildWalk(k)
      PROVE  SnapOK(child') /\ temp' \in Seq(Entry) /\ ChildOnly
  <2> DEFINE e == child.snap.expires[k]
             r == IF e # NoTtl THEN Rec("SETEX", k, child.snap.keyspace[k], e)
                               ELSE Rec("SET", k, child.snap.keyspace[k], NoTtl)
  <2>1. k \in child.todo
    BY <1>6 DEF ChildWalk
  <2>2. child.snap.keyspace[k] \in Values /\ e \in Nat
    BY <1>2, <2>1 DEF SnapOK, Database, Exists
  <2>3. r \in Record
    BY <2>2 DEF Rec, Record, NoTtl
  <2>4. Append(temp, r) \in Seq(Entry) /\ PartialWrites(temp) \subseteq Seq(Entry)
        /\ {temp} \subseteq Seq(Entry)
    BY <1>2, <2>3, EntryFacts DEF PartialWrites
  <2>5. SnapOK([child EXCEPT !.todo = @ \ {k}])
    BY <1>2, ChildProgress DEF Running
  <2>6. \/ /\ child' = [child EXCEPT !.todo = @ \ {k}]
           /\ temp' \in {temp, Append(temp, r)}
           /\ ChildOnly
        \/ ChildFails({temp}) \/ ChildFails(PartialWrites(temp))
    BY <1>6 DEF ChildWalk
  <2> HIDE DEF r
  <2> QED
    BY <1>2, <1>4, <2>4, <2>5, <2>6
<1>7. CASE ChildExit
  <2>1. {temp} \subseteq Seq(Entry)
    BY <1>2
  <2> QED
    BY <1>2, <1>3, <1>4, <1>7, <2>1 DEF ChildExit
<1> QED
  BY <1>5, <1>6, <1>7 DEF Child

\* A tick: the sweep, the flush, the reaping of the child.
LEMMA CoreTick ==
  ASSUME Core, NEW due \in BOOLEAN, before_sleep(due)
  PROVE  Core'
<1> USE DEF Core
<1>1. UNCHANGED <<clock, phase, req, pos, pipe>> /\ now' = clock
  BY DEF before_sleep
<1>2. Good(db')
  BY GoodSweep DEF before_sleep, active_expire_cron, ServerOK
<1>3. PICK d \in {disk, Flushed} : aof_cron(d) /\ aof_rewrite_cron(due, d)
  BY DEF before_sleep
<1>4. dirty' \in BOOLEAN
  BY <1>3 DEF aof_cron, ServerOK
<1>5. ServerOK'
  BY <1>1, <1>2, <1>4 DEF ServerOK
<1>6. d \in [synced : Nat, older : SUBSET Seq(Entry)]
  BY <1>3 DEF DiskOK, Flushed, Unrenamed
<1>7. Images(file, d.synced) \subseteq Seq(Entry)
  BY <1>6, ImagesType DEF DiskOK
<1>8. temp \o diff \in Seq(Entry) /\ Len(temp) \in Nat /\ Len(diff) \in Nat
  <2>1. diff \in Seq(Entry)
    BY SeqMonotonic DEF RewriteOK, Entry
  <2> QED
    BY <2>1, ConcatProperties, LenProperties DEF RewriteOK
<1>9. \/ file' = file /\ disk' = d
      \/ /\ file' = temp \o diff
         /\ disk' = [synced |-> Len(temp) + Len(diff),
                     older  |-> Unrenamed(d) \cup Images(file, d.synced)]
  BY <1>3 DEF aof_rewrite_cron, aof_rewrite_finalize
<1>10. DiskOK'
  <2>1. Unrenamed(d) \cup Images(file, d.synced) \in SUBSET Seq(Entry)
    BY <1>6, <1>7 DEF Unrenamed
  <2>2. Len(temp) + Len(diff) \in Nat
    BY <1>8
  <2>3. disk' \in [synced : Nat, older : SUBSET Seq(Entry)]
    BY <1>6, <1>9, <2>1, <2>2
  <2>4. file' \in Seq(Entry)
    BY <1>8, <1>9 DEF DiskOK
  <2> QED
    BY <2>3, <2>4 DEF DiskOK
<1>11. aof_rewrite_cleanup \/ UNCHANGED rewriteVars
  BY <1>3 DEF aof_rewrite_cron, aof_rewrite_finalize
<1>12. RewriteOK'
  <2>1. CASE aof_rewrite_cleanup
    BY <2>1, NoChildOK, EmptySeq DEF aof_rewrite_cleanup, RewriteOK
  <2>2. CASE UNCHANGED rewriteVars
    BY <2>2 DEF rewriteVars, RewriteOK
  <2> QED
    BY <1>11, <2>1, <2>2
<1> QED
  BY <1>5, <1>10, <1>12

\* Start-up.
LEMMA CoreStart ==
  ASSUME Core, Start
  PROVE  Core'
<1> USE DEF Core
<1>1. RewriteOK'
  BY DEF Start, StartFresh, StartLoad, StartRefused, LoadRecord, LoadStop, RewriteOK,
         rewriteVars, vars
<1>2. CASE StartFresh
  <2>1. <<HEADER>> \in Seq(Entry) /\ PartialWrites(file) \subseteq Seq(Entry)
    BY EntryFacts DEF PartialWrites, DiskOK
  <2>2. DiskOK'
    BY <1>2, <2>1 DEF StartFresh, DiskOK
  <2>3. ServerOK'
    BY <1>2 DEF StartFresh, ServerOK
  <2> QED
    BY <1>1, <2>2, <2>3
<1>3. CASE StartLoad
  BY <1>1, <1>3 DEF StartLoad, ServerOK, DiskOK, diskVars
<1>4. CASE StartRefused
  BY <1>1, <1>4 DEF StartRefused, ServerOK, DiskOK, vars, serverVars, diskVars
<1>5. phase = "loading" /\ pos < Len(file) => Good(Replay(pos + 1).db)
  <2> SUFFICES ASSUME pos < Len(file) PROVE Good(Replay(pos + 1).db)
    OBVIOUS
  <2>1. file[pos + 1] \in Entry
    BY DEF ServerOK, DiskOK
  <2> QED
    BY <2>1, ReplayGood DEF Replay, ServerOK
<1>6. CASE LoadRecord
  BY <1>1, <1>5, <1>6 DEF LoadRecord, ServerOK, DiskOK, diskVars
<1>7. CASE LoadStop
  <2>1. Good(db')
    BY <1>5, <1>7 DEF LoadStop, ServerOK
  <2>2. pos <= Len(file)  => SubSeq(file, 1, pos) \in Seq(Entry)
    BY SubSeqProperties DEF ServerOK, DiskOK
  <2>3. pos <= Len(file)
    BY <1>7 DEF LoadStop, ServerOK, DiskOK
  <2>4. disk' \in [synced : Nat, older : SUBSET Seq(Entry)]
    <3>1. Images(file, disk.synced) \subseteq Seq(Entry)
      BY ImagesType DEF DiskOK
    <3>2. Uncut \subseteq Seq(Entry)
      BY <3>1 DEF Uncut
    <3> QED
      BY <1>7, <3>2 DEF LoadStop, ServerOK, DiskOK, diskVars
  <2>5. file' \in Seq(Entry)
    BY <1>7, <2>2, <2>3 DEF LoadStop, DiskOK, diskVars
  <2> QED
    BY <1>1, <1>7, <2>1, <2>4, <2>5 DEF LoadStop, ServerOK, DiskOK
<1> QED
  BY <1>2, <1>3, <1>4, <1>6, <1>7 DEF Start

\* Crashes.
LEMMA CoreCrash ==
  ASSUME Core, on_shutdown \/ Kill \/ PowerLoss
  PROVE  Core'
<1> USE DEF Core
<1>1. Forget
  BY DEF on_shutdown, Kill, PowerLoss
<1>2. ServerOK'
  BY <1>1, GoodCreate DEF Forget, ServerOK
<1>3. RewriteOK'
  BY <1>1, NoChildOK, EmptySeq DEF Forget, RewriteOK
<1>4. CASE on_shutdown \/ Kill
  <2>1. Append(file, TORN) \in Seq(Entry)
    BY EntryFacts DEF DiskOK
  <2>2. DiskOK'
    BY <1>4, <2>1 DEF on_shutdown, Kill, DiskOK, diskVars
  <2> QED
    BY <1>2, <1>3, <2>2
<1>5. CASE PowerLoss
  <2>1. Images(file, disk.synced) \cup disk.older \subseteq Seq(Entry)
    BY ImagesType DEF DiskOK
  <2>2. file' \in Seq(Entry) /\ disk' = [synced |-> Len(file'), older |-> {}]
    BY <1>5, <2>1 DEF PowerLoss
  <2>3. DiskOK'
    BY <2>2, LenProperties DEF DiskOK
  <2> QED
    BY <1>2, <1>3, <2>3
<1> QED
  BY <1>4, <1>5

\* Every step keeps Core.
LEMMA CoreStep ==
  ASSUME Core, [Next]_vars
  PROVE  Core'
<1>1. CASE ClockTick \/ UNCHANGED vars
  BY <1>1 DEF ClockTick, vars, serverVars, diskVars, rewriteVars, Core, ServerOK, DiskOK,
              RewriteOK
<1> QED
  BY <1>1, CoreCommands, CoreReply, CoreBgrewrite, CoreTick, CoreChild, CoreStart, CoreCrash
     DEF Next, Alive

\* Core is an invariant.
LEMMA CoreInvariant == Spec => []Core
BY CoreInit, CoreStep, PTL DEF Spec

\* Whatever the policy, the buffer size, the faults and the crashes, every
\* variable keeps its type: in particular every record the child or a command
\* writes is a well-formed one.
THEOREM TypeCorrect == Spec => []TypeOK
<1>1. Core => TypeOK
  BY DEF Core, ServerOK, DiskOK, RewriteOK, SnapOK, Good, TypeOK
<1> QED
  BY <1>1, CoreInvariant, PTL

\* No deadline without a key: in the running server, in the snapshot of the
\* rewrite child, and at every point of a replay of a file that was cut
\* anywhere by a crash.
THEOREM NoOrphanEver == Spec => []NoOrphanTtl
<1>1. Core => NoOrphanTtl
  BY DEF Core, ServerOK, RewriteOK, SnapOK, Good, NoOrphanTtl
<1> QED
  BY <1>1, CoreInvariant, PTL

-------------------------------------------------------------------------------
(* The rewrite state machine                                               *)

\* A mutating command leaves the child alone and aborts only an ACTIVE rewrite.
LEMMA RewriteMutate ==
  ASSUME Core, RewriteStateOK, NEW res, NEW r, Mutate(res, r)
  PROVE  RewriteStateOK'
<1>1. UNCHANGED child /\ diff \in Seq(Record)
  BY DEF Mutate, Core, RewriteOK
<1>2. CASE UNCHANGED <<rwState, diff>>
  BY <1>1, <1>2 DEF RewriteStateOK
<1>3. CASE rwState = "ACTIVE" /\ aof_abort_rewrite
  <2>1. diff' = <<>> /\ Len(diff') = 0 /\ rwState' = "ABORTING"
    BY <1>3, EmptySeq DEF aof_abort_rewrite
  <2> QED
    BY <1>1, <1>3, <2>1, AofAssumption DEF RewriteStateOK
<1>4. CASE rwState = "ACTIVE" /\ Len(diff) < BufMax /\ diff' = Append(diff, r) /\ UNCHANGED rwState
  <2>1. Len(diff') = Len(diff) + 1 /\ Len(diff) \in Nat
    BY <1>1, <1>4
  <2> QED
    BY <1>1, <1>4, <2>1, AofAssumption DEF RewriteStateOK
<1> QED
  BY <1>2, <1>3, <1>4 DEF Mutate, aof_append, aof_emit_diff

\* A child that starts, works and exits is a child, and only a reaped one is not.
LEMMA RewriteStep ==
  ASSUME Core, RewriteStateOK, [Next]_vars
  PROVE  RewriteStateOK'
<1>1. CASE Commands
  <2>1. ASSUME NEW k \in Keys, cmd_get(k)
        PROVE  RewriteStateOK'
    BY <2>1 DEF cmd_get, rewriteVars, RewriteStateOK
  <2> QED
    BY <1>1, <2>1, RewriteMutate
       DEF Commands, cmd_set, cmd_setex, cmd_expire, cmd_persist, cmd_del
<1>2. CASE reply_ok \/ Start \/ ClockTick \/ UNCHANGED vars
  <2>1. UNCHANGED <<rwState, diff, child>>
    BY <1>2 DEF reply_ok, Start, StartFresh, StartLoad, StartRefused, LoadRecord, LoadStop,
                ClockTick, vars, rewriteVars
  <2> QED
    BY <2>1 DEF RewriteStateOK
<1>3. CASE cmd_bgrewriteaof
  <2>1. CASE rwState' = "ACTIVE" /\ diff' = <<>> /\ child'.st = "opening"
    BY <2>1, EmptySeq, AofAssumption DEF RewriteStateOK
  <2>2. CASE UNCHANGED <<rwState, diff, child>>
    BY <2>2 DEF RewriteStateOK
  <2> QED
    BY <1>3, <2>1, <2>2 DEF cmd_bgrewriteaof
<1>4. CASE Child
  <2>1. UNCHANGED <<rwState, diff>>
    BY <1>4 DEF Child, ChildOpen, ChildWalk, ChildExit, ChildFails, ChildOnly
  <2>2. child.st # "none" /\ child'.st # "none"
    BY <1>4 DEF Child, ChildOpen, ChildWalk, ChildExit, ChildFails, Core, RewriteOK, SnapOK
  <2> QED
    BY <2>1, <2>2 DEF RewriteStateOK
<1>5. ASSUME rwState' = "IDLE", diff' = <<>>, child' = NoChild
      PROVE  RewriteStateOK'
  BY <1>5, EmptySeq, AofAssumption DEF RewriteStateOK, NoChild
<1>6. ASSUME NEW due \in BOOLEAN, before_sleep(due)
      PROVE  RewriteStateOK'
  <2>1. PICK d \in {disk, Flushed} : aof_cron(d) /\ aof_rewrite_cron(due, d)
    BY <1>6 DEF before_sleep
  <2>2. aof_rewrite_cleanup \/ UNCHANGED rewriteVars
    BY <2>1 DEF aof_rewrite_cron, aof_rewrite_finalize
  <2>3. CASE UNCHANGED rewriteVars
    BY <2>3 DEF rewriteVars, RewriteStateOK
  <2> QED
    BY <1>5, <2>2, <2>3 DEF aof_rewrite_cleanup
<1>7. CASE on_shutdown \/ Kill \/ PowerLoss
  BY <1>5, <1>7 DEF on_shutdown, Kill, PowerLoss, Forget
<1> QED
  BY <1>1, <1>2, <1>3, <1>4, <1>6, <1>7 DEF Next, Alive

\* The rewrite state machine agrees with the world, for every buffer size and
\* whatever fails: a child exists exactly while the state is not IDLE, only an
\* ACTIVE rewrite holds a diff, and the diff never exceeds its limit.
THEOREM RewriteStateCorrect == Spec => []RewriteStateOK
<1>1. Init => RewriteStateOK
  BY EmptySeq, AofAssumption DEF Init, RewriteStateOK, NoChild
<1> QED
  BY <1>1, RewriteStep, CoreInvariant, PTL DEF Spec

-------------------------------------------------------------------------------
(* The file                                                                *)

\* Sound files grow into sound files.
LEMMA SoundFacts ==
  /\ Sound(<<HEADER>>)
  /\ \A f \in Seq(Entry), r \in Record : Sound(f) => Sound(Append(f, r))
  /\ \A f \in Seq(Entry), g \in Seq(Record) : Sound(f) => Sound(f \o g)
<1>1. Sound(<<HEADER>>)
  BY DEF Sound
<1>2. ASSUME NEW f \in Seq(Entry), NEW r \in Record, Sound(f)
      PROVE  Sound(Append(f, r))
  BY <1>2, EntryFacts DEF Sound
<1>3. ASSUME NEW f \in Seq(Entry), NEW g \in Seq(Record), Sound(f)
      PROVE  Sound(f \o g)
  <2>1. g \in Seq(Entry)
    BY SeqMonotonic DEF Entry
  <2>2. Len(f) \in Nat \ {0} /\ Len(g) \in Nat
    BY <1>3, EmptySeq, LenProperties DEF Sound
  <2>3. \A i \in 1..Len(g) : g[i] \in Record
    BY ElementOfSeq
  <2>4. Len(f \o g) = Len(f) + Len(g) /\ \A i \in 1..(Len(f) + Len(g)) :
          (f \o g)[i] = IF i <= Len(f) THEN f[i] ELSE g[i - Len(f)]
    BY <2>1, ConcatProperties
  <2>5. f \o g # <<>> /\ (f \o g)[1] = HEADER
    BY <1>3, <2>1, <2>2, <2>4, ConcatEqualIffEmpty DEF Sound
  <2>6. \A i \in 2..(Len(f) + Len(g)) : (f \o g)[i] \in Record
    BY <1>3, <2>2, <2>3, <2>4 DEF Sound
  <2> QED
    BY <2>4, <2>5, <2>6 DEF Sound
<1> QED
  BY <1>1, <1>2, <1>3
\* What makes ServingFileSound inductive: the part of the file that a replay
\* has accepted is sound already, and so is the temp file that a finished
\* child hands over.
SoundInv ==
  /\ phase = "serving" => Sound(file)
  /\ phase = "loading" => /\ pos \in 1..Len(file)
                          /\ file[1] = HEADER
                          /\ \A i \in 2..pos : file[i] \in Record
  /\ child.st \in {"walking", "ok"} => Sound(temp)

NoLostWrites == Faults \cap {"write", "truncate"} = {}

\* A mutating command appends a whole record or nothing.
LEMMA SoundMutate ==
  ASSUME NoLostWrites, Core, SoundInv, NEW res, NEW r \in Record, Mutate(res, r)
  PROVE  SoundInv'
<1>1. UNCHANGED <<phase, pos, child, temp>> /\ phase = "serving"
  BY DEF Mutate, Idle
<1>2. file' = file \/ file' = Append(file, r)
  BY DEF Mutate, aof_append, NoLostWrites
<1>3. Sound(file')
  BY <1>1, <1>2, SoundFacts DEF SoundInv, Core, DiskOK
<1> QED
  BY <1>1, <1>3 DEF SoundInv

\* The commands.
LEMMA SoundCommands ==
  ASSUME NoLostWrites, Core, SoundInv, Commands
  PROVE  SoundInv'
<1>1. now \in Nat
  BY DEF Core, ServerOK
<1>2. ASSUME NEW k \in Keys, NEW v \in Values, cmd_set(k, v)
      PROVE  SoundInv'
  <2>1. Rec("SET", k, v, NoTtl) \in Record
    BY DEF Rec, Record, NoTtl
  <2> QED
    BY <1>2, <2>1, SoundMutate DEF cmd_set
<1>3. ASSUME NEW k \in Keys, NEW v \in Values, NEW s \in Ttls, cmd_setex(k, v, s)
      PROVE  SoundInv'
  <2>1. Rec("SETEX", k, v, now + s) \in Record
    BY <1>1, AofAssumption DEF Rec, Record
  <2> QED
    BY <1>3, <2>1, SoundMutate DEF cmd_setex
<1>4. ASSUME NEW k \in Keys, NEW s \in Ttls, cmd_expire(k, s)
      PROVE  SoundInv'
  <2>1. Rec("EXPIRE", k, Absent, now + s) \in Record
    BY <1>1, AofAssumption DEF Rec, Record
  <2> QED
    BY <1>4, <2>1, SoundMutate DEF cmd_expire
<1>5. ASSUME NEW k \in Keys, cmd_persist(k) \/ cmd_del(k)
      PROVE  SoundInv'
  <2>1. Rec("PERSIST", k, Absent, NoTtl) \in Record /\ Rec("DEL", k, Absent, NoTtl) \in Record
    BY DEF Rec, Record, NoTtl
  <2> QED
    BY <1>5, <2>1, SoundMutate DEF cmd_persist, cmd_del
<1>6. ASSUME NEW k \in Keys, cmd_get(k)
      PROVE  SoundInv'
  BY <1>6 DEF cmd_get, diskVars, rewriteVars, SoundInv
<1> QED
  BY <1>2, <1>3, <1>4, <1>5, <1>6 DEF Commands

\* The child's file is sound for as long as the child has not failed.
LEMMA SoundChild ==
  ASSUME Core, SoundInv, Child
  PROVE  SoundInv'
<1>1. UNCHANGED <<phase, pos, file>>
  BY DEF Child, ChildOpen, ChildWalk, ChildExit, ChildFails, ChildOnly, serverVars, diskVars
<1>2. SUFFICES child'.st \in {"walking", "ok"} => Sound(temp')
  BY <1>1 DEF SoundInv
<1>3. SnapOK(child) /\ temp \in Seq(Entry)
  BY DEF Core, RewriteOK
<1>4. ASSUME NEW T, ChildFails(T)
      PROVE  child'.st = "failed"
  BY <1>3, <1>4 DEF ChildFails, SnapOK
<1>5. CASE ChildOpen
  BY <1>4, <1>5, SoundFacts DEF ChildOpen
<1>6. ASSUME NEW k \in Keys, ChildWalk(k)
      PROVE  child'.st \in {"walking", "ok"} => Sound(temp')
  <2> DEFINE e == child.snap.expires[k]
             r == IF e # NoTtl THEN Rec("SETEX", k, child.snap.keyspace[k], e)
                               ELSE Rec("SET", k, child.snap.keyspace[k], NoTtl)
  <2>1. k \in child.todo /\ child.st = "walking"
    BY <1>6 DEF ChildWalk
  <2>2. child.snap.keyspace[k] \in Values /\ e \in Nat
    BY <1>3, <2>1 DEF SnapOK, Database, Exists
  <2>3. r \in Record
    BY <2>2 DEF Rec, Record, NoTtl
  <2>4. temp' \in {temp, Append(temp, r)} \/ (\E T : ChildFails(T))
    BY <1>6 DEF ChildWalk
  <2>5. Sound(temp)
    BY <2>1 DEF SoundInv
  <2> HIDE DEF r
  <2> QED
    BY <1>3, <1>4, <2>3, <2>4, <2>5, SoundFacts
<1>7. CASE ChildExit
  BY <1>4, <1>7 DEF ChildExit, SoundInv
<1> QED
  BY <1>5, <1>6, <1>7 DEF Child

\* The rename puts a sound file, with the diff behind it, in the place of a
\* sound file.
LEMMA SoundTick ==
  ASSUME Core, SoundInv, NEW due \in BOOLEAN, before_sleep(due)
  PROVE  SoundInv'
<1>1. phase = "serving" /\ phase' = "serving"
  BY DEF before_sleep, Idle
<1>2. PICK d \in {disk, Flushed} : aof_rewrite_cron(due, d)
  BY DEF before_sleep
<1>3. file' = file \/ (child.st = "ok" /\ file' = temp \o diff)
  BY <1>2 DEF aof_rewrite_cron, aof_rewrite_finalize
<1>4. Sound(file')
  BY <1>1, <1>3, SoundFacts DEF SoundInv, Core, RewriteOK
<1>5. aof_rewrite_cleanup \/ UNCHANGED rewriteVars
  BY <1>2 DEF aof_rewrite_cron, aof_rewrite_finalize
<1>6. child'.st \in {"walking", "ok"} => Sound(temp')
  BY <1>5 DEF aof_rewrite_cleanup, rewriteVars, NoChild, SoundInv
<1> QED
  BY <1>1, <1>4, <1>6 DEF SoundInv

\* A start-up serves what it wrote itself or what it has accepted.
LEMMA SoundStart ==
  ASSUME NoLostWrites, Core, SoundInv, Start
  PROVE  SoundInv'
<1>1. UNCHANGED <<child, temp>>
  BY DEF Start, StartFresh, StartLoad, StartRefused, LoadRecord, LoadStop, rewriteVars, vars
<1>2. file \in Seq(Entry) /\ pos \in Nat
  BY DEF Core, DiskOK, ServerOK
<1>3. CASE StartFresh
  BY <1>1, <1>3, SoundFacts DEF StartFresh, SoundInv, NoLostWrites
<1>4. CASE StartLoad
  <2>1. pos' = 1 /\ file' = file /\ file[1] = HEADER /\ phase' = "loading" /\ file # <<>>
    BY <1>4 DEF StartLoad, diskVars
  <2>2. pos' \in 1..Len(file')
    BY <1>2, <2>1, EmptySeq, LenProperties
  <2> QED
    BY <1>1, <2>1, <2>2 DEF SoundInv
<1>5. CASE StartRefused
  BY <1>5 DEF StartRefused, SoundInv, vars, serverVars, diskVars, rewriteVars
<1>6. CASE LoadRecord
  <2>1. pos < Len(file) /\ pos' = pos + 1 /\ file' = file /\ phase = "loading"
        /\ phase' = "loading"
    BY <1>6 DEF LoadRecord, diskVars
  <2>2. file[pos + 1] \in Entry
    BY <1>2, <2>1
  <2>3. file[pos + 1] \in Record
    BY <1>6, <2>2, ReplayGood DEF LoadRecord, Replay, Core, ServerOK
  <2> QED
    BY <1>1, <1>2, <2>1, <2>3 DEF SoundInv
<1>7. CASE LoadStop
  <2>1. phase = "loading" /\ phase' = "serving" /\ file' = SubSeq(file, 1, pos)
    BY <1>7 DEF LoadStop, NoLostWrites
  <2>2. pos \in 1..Len(file) /\ file[1] = HEADER /\ \A i \in 2..pos : file[i] \in Record
    BY <2>1 DEF SoundInv
  <2>3. Len(file') = pos /\ \A i \in 1..pos : file'[i] = file[i]
    BY <1>2, <2>1, <2>2
  <2>4. file' # <<>>
    BY <2>2, <2>3, EmptySeq
  <2>5. Sound(file')
    BY <2>2, <2>3, <2>4 DEF Sound
  <2> QED
    BY <1>1, <2>1, <2>5 DEF SoundInv
<1> QED
  BY <1>3, <1>4, <1>5, <1>6, <1>7 DEF Start

\* Every step keeps SoundInv.
LEMMA SoundStep ==
  ASSUME NoLostWrites, Core, SoundInv, [Next]_vars
  PROVE  SoundInv'
<1>1. CASE reply_ok \/ ClockTick \/ UNCHANGED vars
  BY <1>1 DEF reply_ok, ClockTick, vars, serverVars, diskVars, rewriteVars, SoundInv
<1>2. CASE cmd_bgrewriteaof
  BY <1>2 DEF cmd_bgrewriteaof, serverVars, diskVars, SoundInv
<1>3. CASE on_shutdown \/ Kill \/ PowerLoss
  BY <1>3 DEF on_shutdown, Kill, PowerLoss, Forget, NoChild, SoundInv
<1> QED
  BY <1>1, <1>2, <1>3, SoundCommands, SoundTick, SoundChild, SoundStart DEF Next, Alive

\* Whatever the policy, the buffer size, the crashes and the ways a rewrite
\* can fail, a serving process appends to a header followed by whole records,
\* provided no write to the file and no truncation of it fails.
THEOREM ServingFileAlwaysSound == Spec => []ServingFileSound
<1>1. CASE ~NoLostWrites
  <2>1. ServingFileSound
    BY <1>1 DEF ServingFileSound, NoLostWrites
  <2> QED
    BY <2>1, PTL
<1>2. CASE NoLostWrites
  <2>1. Init => SoundInv
    BY DEF Init, SoundInv, NoChild
  <2>2. Core /\ SoundInv /\ [Next]_vars => SoundInv'
    BY <1>2, SoundStep
  <2>3. SoundInv => ServingFileSound
    BY DEF SoundInv, ServingFileSound
  <2> QED
    BY <2>1, <2>2, <2>3, CoreInvariant, PTL DEF Spec
<1> QED
  BY <1>1, <1>2
===============================================================================
