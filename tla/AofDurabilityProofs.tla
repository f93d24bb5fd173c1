-------------------------- MODULE AofDurabilityProofs --------------------------
(***************************************************************************)
(* Proofs about AofDurability: what a server finds when it starts again,   *)
(* for every set of keys, values and TTLs and any number of crashes.       *)
(***************************************************************************)
EXTENDS AofDurability, AofProofs, SharedLemmas

-------------------------------------------------------------------------------
(* The history does not disturb the server                                 *)

\* A step with its history is a step.
LEMMA HStepIsStep == [HNext]_<<vars, history>> => [Next]_vars
BY DEF HNext, Crash, Next

\* So the server keeps its types.
LEMMA HCore == HSpec => []Core
<1>1. HInit => Init
  BY DEF HInit
<1> QED
  BY <1>1, HStepIsStep, CoreInit, CoreStep, PTL DEF HSpec

-------------------------------------------------------------------------------
(* The header                                                              *)

Headed(f) == f # <<>> /\ f[1] = HEADER

\* A file keeps its header when something is added to it or cut off behind
\* the header, and when the power fails while the header is on the device.
LEMMA HeadedFacts ==
  ASSUME NEW f \in Seq(Entry), Headed(f)
  PROVE  /\ Len(f) >= 1
         /\ \A e \in Entry : Headed(Append(f, e))
         /\ \A g \in Seq(Entry) : Headed(f \o g)
         /\ \A m \in 1..Len(f) : Headed(SubSeq(f, 1, m))
         /\ \A n \in Nat : n >= 1 => \A g \in Images(f, n) : Headed(g)
<1>1. Len(f) \in Nat /\ Len(f) >= 1 /\ f[1] = HEADER
  BY DEF Headed
<1>2. ASSUME NEW h \in Seq(Entry), Headed(h), NEW e \in Entry
      PROVE  Headed(Append(h, e))
  <2>1. Len(h) \in Nat /\ Len(h) >= 1 /\ h[1] = HEADER
    BY <1>2 DEF Headed
  <2>2. Len(Append(h, e)) = Len(h) + 1 /\ Append(h, e)[1] = h[1]
    BY <2>1, AppendProperties
  <2> QED
    BY <2>1, <2>2 DEF Headed
<1>3. ASSUME NEW g \in Seq(Entry)
      PROVE  Headed(f \o g)
  <2>1. Len(f \o g) = Len(f) + Len(g) /\ (f \o g)[1] = f[1]
    BY <1>1, ConcatProperties
  <2> QED
    BY <1>1, <2>1 DEF Headed
<1>4. ASSUME NEW m \in 1..Len(f)
      PROVE  SubSeq(f, 1, m) \in Seq(Entry) /\ Headed(SubSeq(f, 1, m))
  <2>1. SubSeq(f, 1, m) \in Seq(Entry) /\ Len(SubSeq(f, 1, m)) = m /\ SubSeq(f, 1, m)[1] = f[1]
    BY <1>1, SubSeqProperties
  <2> QED
    BY <1>1, <2>1 DEF Headed
<1>5. ASSUME NEW n \in Nat, n >= 1, NEW g \in Images(f, n)
      PROVE  Headed(g)
  <2>1. CASE \E m \in n..Len(f) : g = SubSeq(f, 1, m)
    BY <1>1, <1>4, <1>5, <2>1
  <2>2. CASE \E m \in n..(Len(f) - 1) : g = Append(SubSeq(f, 1, m), TORN)
    <3>1. PICK m \in n..(Len(f) - 1) : g = Append(SubSeq(f, 1, m), TORN)
      BY <2>2
    <3>2. m \in 1..Len(f)
      BY <1>1, <1>5
    <3> QED
      BY <1>2, <1>4, <3>1, <3>2, EntryFacts
  <2> QED
    BY <1>5, <2>1, <2>2 DEF Images
<1> QED
  BY <1>1, <1>2, <1>3, <1>4, <1>5

\* A process that loads or serves has a file with a header, and so has a
\* child that has opened its file; a process that is not there has nothing in
\* memory.
BootInv ==
  /\ phase = "down" => db = db_create
  /\ phase # "down" => Headed(file)
  /\ phase = "loading" => pos \in 1..Len(file)
  /\ child.st \in {"walking", "ok"} => Headed(temp)

\* A command is a read or a mutation with a record of its own.
LEMMA CommandIs ==
  ASSUME Core, Commands
  PROVE  (\E k \in Keys : cmd_get(k)) \/ (\E res, r : r \in Record /\ Mutate(res, r))
<1>1. now \in Nat
  BY DEF Core, ServerOK
<1>2. ASSUME NEW k \in Keys, NEW v \in Values
      PROVE  /\ Rec("SET", k, v, NoTtl) \in Record
             /\ \A s \in Ttls : Rec("SETEX", k, v, now + s) \in Record
  BY <1>1, AofAssumption DEF Rec, Record, NoTtl
<1>3. ASSUME NEW k \in Keys
      PROVE  /\ Rec("PERSIST", k, Absent, NoTtl) \in Record /\ Rec("DEL", k, Absent, NoTtl) \in Record
             /\ \A s \in Ttls : Rec("EXPIRE", k, Absent, now + s) \in Record
  BY <1>1, AofAssumption DEF Rec, Record, NoTtl
<1>4. ASSUME NEW k \in Keys, \E v \in Values : cmd_set(k, v)
      PROVE  \E res, r : r \in Record /\ Mutate(res, r)
  BY <1>2, <1>4, Zenon DEF cmd_set
<1>5. ASSUME NEW k \in Keys, \E v \in Values, s \in Ttls : cmd_setex(k, v, s)
      PROVE  \E res, r : r \in Record /\ Mutate(res, r)
  BY <1>2, <1>5, Zenon DEF cmd_setex
<1>6. ASSUME NEW k \in Keys, \E s \in Ttls : cmd_expire(k, s)
      PROVE  \E res, r : r \in Record /\ Mutate(res, r)
  BY <1>3, <1>6, Zenon DEF cmd_expire
<1>7. ASSUME NEW k \in Keys, cmd_persist(k) \/ cmd_del(k)
      PROVE  \E res, r : r \in Record /\ Mutate(res, r)
  BY <1>3, <1>7, Zenon DEF cmd_persist, cmd_del
<1> QED
  BY <1>4, <1>5, <1>6, <1>7, Zenon DEF Commands

\* What a command does to the file.
LEMMA CommandFile ==
  ASSUME Core, Commands
  PROVE  /\ Idle /\ phase' = phase /\ UNCHANGED <<disk, child, temp>>
         /\ file' = file \/ \E e \in Entry : file' = Append(file, e)
<1>1. CASE \E k \in Keys : cmd_get(k)
  BY <1>1 DEF cmd_get, diskVars, rewriteVars
<1>2. ASSUME NEW res, NEW r, r \in Record, Mutate(res, r)
      PROVE  /\ Idle /\ phase' = phase /\ UNCHANGED <<disk, child, temp>>
             /\ file' = file \/ \E e \in Entry : file' = Append(file, e)
  <2>1. r \in Entry /\ TORN \in Entry
    BY <1>2, EntryFacts
  <2>2. Idle /\ phase' = phase /\ UNCHANGED <<disk, child, temp>>
    BY <1>2 DEF Mutate
  <2>3. file' = file \/ file' = Append(file, r) \/ file' = Append(file, TORN)
    BY <1>2 DEF Mutate, aof_append, PartialWrites
  <2> QED
    BY <2>1, <2>2, <2>3
<1> QED
  BY <1>1, <1>2, CommandIs

\* What the child writes starts with a header, until it fails.
LEMMA BootChild ==
  ASSUME Core, BootInv, Child
  PROVE  BootInv' /\ UNCHANGED <<phase, db, req, pos, diskVars>>
<1>1. UNCHANGED <<phase, db, req, pos, diskVars>>
  BY DEF Child, ChildOpen, ChildWalk, ChildExit, ChildFails, ChildOnly, serverVars
<1>2. SUFFICES child'.st \in {"walking", "ok"} => Headed(temp')
  BY <1>1 DEF BootInv, diskVars
<1>3. temp \in Seq(Entry)
        /\ child \in [st : {"none", "failed", "ok"} \cup Running, snap : Database, todo : SUBSET Keys]
  BY DEF Core, RewriteOK, SnapOK
<1>4. ASSUME NEW t, ChildFails(t) PROVE child'.st = "failed"
  BY <1>3, <1>4 DEF ChildFails
<1>5. CASE ChildOpen
  <2>1. Headed(<<HEADER>>)
    BY DEF Headed
  <2> QED
    BY <1>4, <1>5, <2>1 DEF ChildOpen
<1>6. ASSUME NEW k \in Keys, ChildWalk(k)
      PROVE  child'.st \in {"walking", "ok"} => Headed(temp')
  <2>1. child.st = "walking" /\ Headed(temp) /\ k \in child.todo
    BY <1>6 DEF ChildWalk, BootInv
  <2>2. temp' = temp \/ (\E e \in Entry : temp' = Append(temp, e)) \/ child'.st = "failed"
    <3>1. child.snap.keyspace[k] \in Values /\ child.snap.expires[k] \in Nat
      BY <2>1 DEF Core, RewriteOK, SnapOK, Exists, Good, Database
    <3>2. /\ Rec("SET", k, child.snap.keyspace[k], NoTtl) \in Entry
          /\ Rec("SETEX", k, child.snap.keyspace[k], child.snap.expires[k]) \in Entry
      BY <3>1 DEF Rec, Record, Entry, NoTtl
    <3> QED
      BY <1>4, <1>6, <3>2 DEF ChildWalk
  <2> QED
    BY <1>3, <2>1, <2>2, HeadedFacts
<1>7. CASE ChildExit
  BY <1>4, <1>7 DEF ChildExit, BootInv
<1> QED
  BY <1>5, <1>6, <1>7 DEF Child

\* The device of a tick, before and after the reaping of a child.
LEMMA TickFiles ==
  ASSUME Core, BootInv, NEW due \in BOOLEAN, before_sleep(due)
  PROVE  /\ phase = "serving" /\ phase' = "serving" /\ UNCHANGED req
         /\ \E d \in {disk, Flushed} :
              \/ file' = file /\ disk' = d
              \/ /\ file' = temp \o diff /\ Headed(temp)
                 /\ disk' = [synced |-> Len(temp) + Len(diff),
                             older  |-> Unrenamed(d) \cup Images(file, d.synced)]
         /\ child' = NoChild \/ UNCHANGED <<child, temp>>
<1>1. PICK d \in {disk, Flushed} : aof_rewrite_cron(due, d)
  BY DEF before_sleep
<1>2. phase = "serving" /\ phase' = "serving" /\ UNCHANGED req
  BY DEF before_sleep, Idle
<1>3. \/ file' = file /\ disk' = d
      \/ /\ file' = temp \o diff /\ Headed(temp)
         /\ disk' = [synced |-> Len(temp) + Len(diff),
                     older  |-> Unrenamed(d) \cup Images(file, d.synced)]
  BY <1>1 DEF aof_rewrite_cron, aof_rewrite_finalize, BootInv
<1>4. child' = NoChild \/ UNCHANGED <<child, temp>>
  BY <1>1 DEF aof_rewrite_cron, aof_rewrite_finalize, aof_rewrite_cleanup, rewriteVars
<1> QED
  BY <1>2, <1>3, <1>4

\* Every step keeps BootInv.
LEMMA BootStep ==
  ASSUME Core, BootInv, [Next]_vars
  PROVE  BootInv'
<1>1. file \in Seq(Entry) /\ pos \in Nat /\ TORN \in Entry /\ diff \in Seq(Record) /\ temp \in Seq(Entry)
  BY EntryFacts DEF Core, DiskOK, ServerOK, RewriteOK
<1>2. CASE Commands
  <2>1. Idle /\ phase' = phase /\ UNCHANGED <<disk, child, temp>>
    BY <1>2, CommandFile
  <2>2. Headed(file')
    BY <1>1, <1>2, <2>1, CommandFile, HeadedFacts DEF BootInv, Idle
  <2> QED
    BY <2>1, <2>2 DEF BootInv, Idle
<1>3. CASE reply_ok \/ ClockTick \/ UNCHANGED vars
  BY <1>3 DEF reply_ok, ClockTick, vars, serverVars, diskVars, rewriteVars, BootInv
<1>4. CASE cmd_bgrewriteaof
  <2>1. child' = child \/ child'.st = "opening"
    BY <1>4 DEF cmd_bgrewriteaof
  <2> QED
    BY <1>4, <2>1 DEF cmd_bgrewriteaof, serverVars, diskVars, BootInv
<1>5. ASSUME NEW due \in BOOLEAN, before_sleep(due) PROVE BootInv'
  <2>1. phase = "serving" /\ phase' = "serving" /\ (child' = NoChild \/ UNCHANGED <<child, temp>>)
    BY <1>5, TickFiles
  <2>2. file' = file \/ (file' = temp \o diff /\ Headed(temp))
    BY <1>5, TickFiles
  <2>3. diff \in Seq(Entry)
    BY <1>1 DEF Entry
  <2>4. Headed(file')
    BY <1>1, <2>1, <2>2, <2>3, HeadedFacts DEF BootInv
  <2> QED
    BY <2>1, <2>4 DEF BootInv, NoChild
<1>6. CASE Child
  BY <1>6, BootChild
<1>7. CASE Start
  <2>1. UNCHANGED <<child, temp>>
    BY <1>7 DEF Start, StartFresh, StartLoad, StartRefused, LoadRecord, LoadStop, rewriteVars, vars
  <2>2. CASE StartFresh
    <3>1. Headed(<<HEADER>>)
      BY DEF Headed
    <3> QED
      BY <2>1, <2>2, <3>1 DEF StartFresh, BootInv
  <2>3. CASE StartLoad
    <3>1. Headed(file) /\ pos' = 1 /\ phase' = "loading" /\ file' = file
      BY <2>3 DEF StartLoad, Headed, diskVars
    <3>2. Len(file) \in Nat /\ Len(file) >= 1
      BY <1>1, <3>1, HeadedFacts
    <3> QED
      BY <2>1, <3>1, <3>2 DEF BootInv
  <2>4. CASE StartRefused
    BY <2>1, <2>4 DEF StartRefused, BootInv, vars, serverVars, diskVars
  <2>5. CASE LoadRecord
    <3>1. phase = "loading" /\ phase' = "loading" /\ file' = file /\ pos' = pos + 1 /\ pos < Len(file)
      BY <2>5 DEF LoadRecord, diskVars
    <3>2. Len(file) \in Nat
      BY <1>1
    <3> QED
      BY <1>1, <2>1, <3>1, <3>2 DEF BootInv
  <2>6. CASE LoadStop
    <3>1. phase = "loading" /\ phase' = "serving" /\ (file' = file \/ file' = SubSeq(file, 1, pos))
      BY <2>6 DEF LoadStop, diskVars
    <3>2. Headed(file')
      BY <1>1, <3>1, HeadedFacts DEF BootInv
    <3> QED
      BY <2>1, <3>1, <3>2 DEF BootInv
  <2> QED
    BY <1>7, <2>2, <2>3, <2>4, <2>5, <2>6 DEF Start
<1>8. CASE on_shutdown \/ Kill \/ PowerLoss
  BY <1>8 DEF on_shutdown, Kill, PowerLoss, Forget, NoChild, BootInv
<1> QED
  BY <1>2, <1>3, <1>4, <1>5, <1>6, <1>7, <1>8 DEF Next, Alive

-------------------------------------------------------------------------------
(* A restart finds a file                                                  *)

\* The device cannot come back without a header.
Kept == disk.synced >= 1 /\ \A g \in disk.older : Headed(g)

\* Nobody is told "+OK" under "always" for a command whose record is not on
\* the device: every write and fsync succeeds, records fit, and an fsync
\* commits an earlier rename.
AckMeansSynced ==
  Policy = "always" => RenameDurable /\ Faults \cap {"write", "fsync"} = {} /\ Big = {}

\* Whatever else than nothing a power loss must bring back is behind a header
\* on the device.
OwedInv ==
  /\ db_create \notin owed => Kept
  /\ Policy = "always" => req # "unlogged"

\* A live server never takes the header off the device.
LEMMA KeptStep ==
  ASSUME Core, BootInv, Alive, Kept
  PROVE  Kept'
<1>1. file \in Seq(Entry) /\ disk \in [synced : Nat, older : SUBSET Seq(Entry)]
      /\ temp \in Seq(Entry) /\ diff \in Seq(Record)
  BY DEF Core, DiskOK, RewriteOK
<1>2. CASE disk' = disk
  BY <1>2 DEF Kept
<1>3. phase = "serving" => Len(file) \in Nat /\ Len(file) >= 1
  BY <1>1, HeadedFacts DEF BootInv
<1>4. ASSUME NEW d \in {disk, Flushed}, phase = "serving"
      PROVE  d.synced \in Nat /\ d.synced >= 1 /\ \A g \in d.older : Headed(g)
  BY <1>1, <1>3, <1>4 DEF Flushed, Unrenamed, Kept
<1>5. CASE reply_ok
  <2>1. phase = "serving" /\ disk' \in {disk, Flushed}
    BY <1>5 DEF reply_ok
  <2> QED
    BY <1>4, <2>1 DEF Kept
<1>6. ASSUME NEW due \in BOOLEAN, before_sleep(due) PROVE Kept'
  <2>1. phase = "serving"
    BY <1>6, TickFiles
  <2>2. PICK d \in {disk, Flushed} :
          \/ disk' = d
          \/ /\ Headed(temp)
             /\ disk' = [synced |-> Len(temp) + Len(diff),
                         older  |-> Unrenamed(d) \cup Images(file, d.synced)]
    BY <1>6, TickFiles
  <2>3. d.synced \in Nat /\ d.synced >= 1 /\ \A g \in d.older : Headed(g)
    BY <1>4, <2>1
  <2>4. \A g \in Unrenamed(d) \cup Images(file, d.synced) : Headed(g)
    BY <1>1, <2>1, <2>3, HeadedFacts DEF Unrenamed, BootInv
  <2>5. Headed(temp) => Len(temp) + Len(diff) >= 1
    <3>1. Len(temp) \in Nat /\ Len(diff) \in Nat
      BY <1>1
    <3> QED
      BY <1>1, <3>1, HeadedFacts
  <2> QED
    BY <2>2, <2>3, <2>4, <2>5 DEF Kept
<1>7. CASE LoadStop
  <2>1. pos \in 1..Len(file) /\ Len(file) \in Nat
    BY <1>1, <1>7 DEF LoadStop, BootInv
  <2>2. disk'.older \subseteq disk.older \cup Images(file, disk.synced)
        /\ (disk'.synced = disk.synced \/ disk'.synced = pos)
    BY <1>1, <1>7 DEF LoadStop, Uncut, diskVars
  <2>3. \A g \in Images(file, disk.synced) : Headed(g)
    BY <1>1, <1>7, HeadedFacts DEF LoadStop, BootInv, Kept
  <2> QED
    BY <2>1, <2>2, <2>3 DEF Kept
<1>8. CASE Commands
  BY <1>2, <1>8, CommandFile
<1>9. CASE cmd_bgrewriteaof \/ Child \/ ClockTick \/ StartFresh \/ StartLoad \/ StartRefused \/ LoadRecord
  <2>1. disk' = disk
    BY <1>9, BootChild DEF cmd_bgrewriteaof, ClockTick, StartFresh, StartLoad, StartRefused, LoadRecord,
       diskVars, vars
  <2> QED
    BY <1>2, <2>1
<1> QED
  BY <1>5, <1>6, <1>7, <1>8, <1>9 DEF Alive, Start

\* "+OK" comes from reply_ok only, and a live server stays down only as long
\* as it does not start.
LEMMA AliveFacts ==
  ASSUME Core, BootInv, Alive
  PROVE  /\ req # "idle" /\ req' = "idle" => reply_ok
         /\ phase' = "down" => phase = "down"
         /\ phase # "serving" /\ phase' = "serving" => StartFresh \/ LoadStop
         /\ phase = "down" /\ phase' = "down" => file' = file \/ file = <<>>
<1>1. CASE Commands
  BY <1>1, CommandFile DEF Idle
<1>2. CASE reply_ok
  BY <1>2 DEF reply_ok
<1>3. CASE cmd_bgrewriteaof \/ ClockTick \/ StartRefused
  BY <1>3 DEF cmd_bgrewriteaof, ClockTick, StartRefused, vars, serverVars, diskVars
<1>4. ASSUME NEW due \in BOOLEAN, before_sleep(due)
      PROVE  UNCHANGED req /\ phase = "serving" /\ phase' = "serving"
  BY <1>4, TickFiles
<1>5. CASE Child
  BY <1>5, BootChild DEF diskVars
<1>6. CASE StartFresh \/ StartLoad \/ LoadRecord \/ LoadStop
  BY <1>6 DEF StartFresh, StartLoad, LoadRecord, LoadStop
<1> QED
  BY <1>1, <1>2, <1>3, <1>4, <1>5, <1>6 DEF Alive, Start

\* Under "always" every record is written whole.
LEMMA AckStep ==
  ASSUME AckMeansSynced, Core, BootInv, OwedInv, [Next]_vars
  PROVE  Policy = "always" => req' # "unlogged"
<1> SUFFICES ASSUME Policy = "always" PROVE req' # "unlogged"
  OBVIOUS
<1>1. req # "unlogged" /\ Big = {} /\ "write" \notin Faults
  BY DEF AckMeansSynced, OwedInv
<1>2. CASE Commands
  <2>1. ASSUME NEW res, NEW r, Mutate(res, r) PROVE req' # "unlogged"
    BY <1>1, <2>1 DEF Mutate, aof_append, Oversize
  <2>2. ASSUME NEW k \in Keys, cmd_get(k) PROVE req' # "unlogged"
    BY <1>1, <2>2 DEF cmd_get
  <2> QED
    BY <1>2, <2>1, <2>2, CommandIs
<1>3. CASE Start \/ cmd_bgrewriteaof \/ ClockTick \/ UNCHANGED vars \/ reply_ok
  BY <1>1, <1>3 DEF Start, StartFresh, StartLoad, StartRefused, LoadRecord, LoadStop,
     cmd_bgrewriteaof, ClockTick, reply_ok, vars, serverVars
<1>4. ASSUME NEW due \in BOOLEAN, before_sleep(due) PROVE req' # "unlogged"
  BY <1>1, <1>4 DEF before_sleep
<1>5. CASE Child
  BY <1>1, <1>5, BootChild
<1>6. CASE on_shutdown \/ Kill \/ PowerLoss
  BY <1>6 DEF on_shutdown, Kill, PowerLoss, Forget
<1> QED
  BY <1>2, <1>3, <1>4, <1>5, <1>6 DEF Next, Alive

\* What is owed stays behind a header.
LEMMA OwedStep ==
  ASSUME AckMeansSynced, Core, BootInv, BootInv', Core', OwedInv, [HNext]_<<vars, history>>
  PROVE  OwedInv'
<1>1. Policy = "always" => req' # "unlogged"
  BY AckStep, HStepIsStep
<1>2. SUFFICES ASSUME db_create \notin owed' PROVE Kept'
  BY <1>1 DEF OwedInv
<1>3. file \in Seq(Entry) /\ file' \in Seq(Entry)
      /\ disk \in [synced : Nat, older : SUBSET Seq(Entry)]
  BY DEF Core, DiskOK
<1>4. CASE Alive /\ Observe
  <2>1. CASE phase' # "serving" \/ ~Settles
    <3>1. owed \subseteq owed'
      BY <1>4, <2>1 DEF Observe
    <3> QED
      BY <1>2, <1>4, <3>1, KeptStep DEF OwedInv
  <2>2. CASE phase' = "serving" /\ Settles
    <3>1. owed' = {db'}
      BY <1>4, <2>2 DEF Observe
    <3>2. CASE Policy = "always" /\ req # "idle" /\ req' = "idle"
      <4>1. reply_ok /\ phase = "serving"
        BY <1>4, <3>2, AliveFacts DEF reply_ok
      <4>2. req # "unlogged" /\ RenameDurable /\ "fsync" \notin Faults
        BY <3>2 DEF AckMeansSynced, OwedInv
      <4>3. disk' = Flushed
        BY <3>2, <4>1, <4>2 DEF reply_ok
      <4>4. Len(file) >= 1
        BY <1>3, <4>1, HeadedFacts DEF BootInv
      <4> QED
        BY <4>2, <4>3, <4>4 DEF Flushed, Unrenamed, Kept
    <3>3. CASE OnDevice'
      <4>1. Len(file') >= 1
        BY <1>3, <2>2, HeadedFacts DEF BootInv
      <4> QED
        BY <3>3, <4>1 DEF OnDevice, Kept
    <3>4. CASE phase # "serving" /\ OnDevice
      <4>1. CASE StartFresh
        BY <1>2, <3>1, <4>1 DEF StartFresh, BootInv
      <4>2. CASE LoadStop
        <5>1. phase = "loading"
          BY <4>2 DEF LoadStop
        <5>2. Kept
          BY <1>3, <3>4, <5>1, HeadedFacts DEF OnDevice, Kept, BootInv
        <5> QED
          BY <1>4, <5>2, KeptStep
      <4> QED
        BY <1>4, <2>2, <3>4, <4>1, <4>2, AliveFacts
    <3> QED
      BY <2>2, <3>2, <3>3, <3>4 DEF Settles
  <2> QED
    BY <2>1, <2>2
<1>5. CASE Crash
  <2>1. owed' = owed /\ Kept
    BY <1>2, <1>5 DEF Crash, OwedInv
  <2>2. CASE on_shutdown \/ Kill
    BY <2>1, <2>2 DEF on_shutdown, Kill, diskVars, Kept
  <2>3. CASE PowerLoss
    <3>1. Headed(file)
      BY <2>3 DEF PowerLoss, Forget, BootInv
    <3>2. disk' = [synced |-> Len(file'), older |-> {}]
          /\ file' \in Images(file, disk.synced) \cup disk.older
      BY <2>3 DEF PowerLoss
    <3>3. Headed(file')
      BY <1>3, <2>1, <3>1, <3>2, HeadedFacts DEF Kept
    <3>4. Len(file') >= 1
      BY <1>3, <3>3, HeadedFacts
    <3> QED
      BY <3>2, <3>4 DEF Kept
  <2> QED
    BY <1>5, <2>2, <2>3 DEF Crash
<1>6. CASE UNCHANGED <<vars, history>>
  BY <1>2, <1>6 DEF vars, history, diskVars, OwedInv, Kept
<1> QED
  BY <1>4, <1>5, <1>6 DEF HNext

\* The file a crash leaves has a header if the crash may not lose everything.
LEMMA RestartStep ==
  ASSUME Core, BootInv, OwedInv, RestartsWithData, [HNext]_<<vars, history>>
  PROVE  RestartsWithData'
<1> SUFFICES ASSUME phase' = "down", db_create \notin Options' PROVE Headed(file')
  BY DEF RestartsWithData, Headed
<1>1. file \in Seq(Entry) /\ TORN \in Entry /\ disk \in [synced : Nat, older : SUBSET Seq(Entry)]
  BY EntryFacts DEF Core, DiskOK
<1>2. CASE Alive /\ Observe
  <2>1. phase = "down" /\ (file' = file \/ file = <<>>)
    BY <1>2, AliveFacts
  <2>2. Options' = Options
    BY <1>2 DEF Observe, Options
  <2> QED
    BY <2>1, <2>2 DEF RestartsWithData, Headed
<1>3. CASE Crash
  <2>1. Headed(file)
    BY <1>3 DEF Crash, on_shutdown, Kill, PowerLoss, Forget, BootInv
  <2>2. CASE on_shutdown \/ Kill
    <3>1. file' = file \/ file' = Append(file, TORN)
      BY <2>2 DEF on_shutdown, Kill, diskVars
    <3> QED
      BY <1>1, <2>1, <3>1, HeadedFacts
  <2>3. CASE PowerLoss /\ lost' = TRUE
    <3>1. db_create \notin owed
      BY <1>3, <2>3 DEF Crash, Options
    <3>2. Kept /\ file' \in Images(file, disk.synced) \cup disk.older
      BY <2>3, <3>1 DEF PowerLoss, OwedInv
    <3> QED
      BY <1>1, <2>1, <3>2, HeadedFacts DEF Kept
  <2> QED
    BY <1>3, <2>2, <2>3 DEF Crash
<1>4. CASE UNCHANGED <<vars, history>>
  BY <1>4 DEF vars, history, serverVars, diskVars, RestartsWithData, Options, Headed
<1> QED
  BY <1>2, <1>3, <1>4 DEF HNext

\* A server that owes its clients data finds a file with a header, after any
\* number of kills and power losses, also in the middle of a recovery or
\* around the rename of a rewrite: aof_load neither refuses the file nor
\* starts afresh.  Under "pertick" and "no" this holds whatever fails; under
\* "always" for the records that "+OK" was right about.
THEOREM AlwaysRestartsWithData ==
  ASSUME AckMeansSynced
  PROVE  HSpec => []RestartsWithData
<1> DEFINE Inv == BootInv /\ OwedInv /\ RestartsWithData
<1>1. HInit => Inv
  BY DEF HInit, Init, NoChild, BootInv, OwedInv, RestartsWithData, Options
<1>2. Core /\ Core' /\ Inv /\ [HNext]_<<vars, history>> => Inv'
  BY BootStep, OwedStep, RestartStep, HStepIsStep
<1> QED
  BY <1>1, <1>2, HCore, PTL DEF HSpec

-------------------------------------------------------------------------------
(* Replay                                                                  *)

\* The server is not up for longer than the shortest TTL, so that no deadline
\* lapses: a replay skips nothing, whenever it happens.
NothingLapses == \A s \in Ttls : s >= MaxClock

\* Every record that a command asks for is written whole, and what start-up
\* cuts off is cut off.
NoLostRecords == Faults \cap {"write", "truncate"} = {} /\ Big = {}

\* Records and databases whose deadlines do not lapse.
Lasting(r) == r \in Record /\ (r.exp = 0 \/ r.exp >= MaxClock)

Ageless ==
  {d \in Database : NoOrphan(d) /\ \A k \in Keys : d.expires[k] = 0 \/ d.expires[k] >= MaxClock}

\* What a lasting record does at any time.
Play(d, r) == aof_replay_record(d, r, 0)

LEMMA PlayAnyTime ==
  ASSUME NEW d, NEW r, Lasting(r), NEW t \in Nat, t <= MaxClock
  PROVE  aof_replay_record(d, r, t) = Play(d, r)
<1>1. r.exp \in Nat /\ (r.exp = 0 \/ r.exp >= MaxClock) /\ MaxClock \in Nat
  BY AofAssumption DEF Lasting, Record
<1>2. ~(r.exp > 0 /\ r.exp < t) /\ ~(r.exp > 0 /\ r.exp < 0)
  BY <1>1
<1>3. r.op \in Opcodes
  BY EntryFacts DEF Lasting
<1> QED
  BY <1>2, <1>3 DEF Play, aof_replay_record, Opcodes

\* Torn bytes are rejected and change nothing.
LEMMA TornStops ==
  ASSUME NEW d, NEW t
  PROVE  aof_replay_record(d, TORN, t) = Result(FALSE, d)
BY DEF aof_replay_record, TORN, Rec, Opcodes

\* A deadline that is set does not lapse either.
LEMMA PlayAgeless ==
  ASSUME NEW d \in Ageless, NEW r, Lasting(r)
  PROVE  Play(d, r).db \in Ageless
<1>1. Good(d) /\ r \in Record /\ r \in Entry /\ r.key \in Keys /\ r.exp \in Nat /\ r.op \in Opcodes
  BY EntryFacts DEF Ageless, Lasting, Good
<1>2. Good(Play(d, r).db)
  BY <1>1, ReplayGood DEF Play
<1>3. r.exp = 0 \/ r.exp >= MaxClock
  BY DEF Lasting
<1>4. d \in Database /\ \A k \in Keys : d.expires[k] = 0 \/ d.expires[k] >= MaxClock
  BY DEF Ageless
<1>5. Play(d, r).db.expires \in {d.expires, [d.expires EXCEPT ![r.key] = NoTtl], [d.expires EXCEPT ![r.key] = r.exp]}
  <2>1. ~(r.exp > 0 /\ r.exp < 0)
    BY <1>1
  <2>2. Play(d, r) \in {db_set(d, r.key, r.val), db_setex(d, r.key, r.val, r.exp), db_del(d, r.key),
                        db_key_expire(d, r.key, r.exp), db_persist(d, r.key)}
    BY <1>1, <2>1 DEF Play, aof_replay_record, Opcodes
  <2> QED
    BY <2>2 DEF db_set, db_setex, db_del, db_key_expire, db_persist, Result, PutVal, PutTtl
<1>6. \A k \in Keys : Play(d, r).db.expires[k] = 0 \/ Play(d, r).db.expires[k] >= MaxClock
  <2>1. d.expires \in [Keys -> Nat]
    BY <1>4 DEF Database
  <2> QED
    BY <1>1, <1>3, <1>4, <1>5, <2>1 DEF NoTtl
<1> QED
  BY <1>2, <1>6 DEF Good, Ageless

\* The record r can be replayed and takes d to e.
Takes(d, r, e) == Play(d, r) = Result(TRUE, e)

\* s[i] is the database that the first i entries of the file f replay to: the
\* file is a log, of which every record can be replayed.
Traced(f, s) ==
  /\ f \in Seq(Entry) /\ Headed(f)
  /\ s \in [1..Len(f) -> Ageless] /\ s[1] = db_create
  /\ \A i \in 2..Len(f) : Lasting(f[i]) /\ Play(s[i - 1], f[i]) = Result(TRUE, s[i])

\* A new file.
LEMMA TracedHeader == Traced(<<HEADER>>, [i \in 1..1 |-> db_create])
<1>1. <<HEADER>> \in Seq(Entry) /\ Len(<<HEADER>>) = 1 /\ Headed(<<HEADER>>)
  BY EntryFacts DEF Headed
<1>2. db_create \in Ageless
  BY GoodCreate DEF Good, Ageless, db_create, NoTtl
<1> QED
  BY <1>1, <1>2 DEF Traced

\* u and s agree on the first n entries.
Agree(u, s, n) == \A i \in 1..n : u[i] = s[i]

\* One more record.
LEMMA TracedAppend ==
  ASSUME NEW f, NEW s, Traced(f, s), NEW r, Lasting(r), NEW d,
         Takes(s[Len(f)], r, d)
  PROVE  \E u : Traced(Append(f, r), u) /\ u[Len(f) + 1] = d /\ Agree(u, s, Len(f))
<1>1. f \in Seq(Entry) /\ Headed(f) /\ r \in Entry
  BY EntryFacts DEF Traced, Lasting
<1>2. PICK n : n = Len(f)
  OBVIOUS
<1>3. n \in Nat /\ n >= 1
  BY <1>1, <1>2, HeadedFacts
<1>4. PICK g : g = Append(f, r)
  OBVIOUS
<1>5. /\ g \in Seq(Entry) /\ Len(g) = n + 1 /\ g[n + 1] = r /\ \A i \in 1..n : g[i] = f[i]
      /\ Headed(g)
  BY <1>1, <1>2, <1>4, AppendProperties, HeadedFacts
<1>6. s \in [1..n -> Ageless] /\ s[1] = db_create
      /\ \A i \in 2..n : Lasting(f[i]) /\ Play(s[i - 1], f[i]) = Result(TRUE, s[i])
  BY <1>2 DEF Traced
<1>7. d \in Ageless
  <2>1. s[n] \in Ageless
    BY <1>3, <1>6
  <2> QED
    BY <1>2, <2>1, PlayAgeless DEF Result, Takes
<1>8. PICK u : u = [i \in 1..(n + 1) |-> IF i = n + 1 THEN d ELSE s[i]]
  OBVIOUS
<1>9. u \in [1..(n + 1) -> Ageless] /\ u[n + 1] = d /\ \A i \in 1..n : u[i] = s[i]
  BY <1>3, <1>6, <1>7, <1>8
<1>10. ASSUME NEW i \in 2..(n + 1)
       PROVE  Lasting(g[i]) /\ Play(u[i - 1], g[i]) = Result(TRUE, u[i])
  <2>1. CASE i = n + 1
    <3>1. i - 1 = n /\ n \in 1..n
      BY <1>3, <2>1
    <3>2. u[i - 1] = s[Len(f)] /\ g[i] = r /\ u[i] = d
      BY <1>2, <1>5, <1>9, <2>1, <3>1
    <3> QED
      BY <3>2 DEF Takes
  <2>2. CASE i # n + 1
    <3>1. i \in 2..n /\ i - 1 \in 1..n /\ i \in 1..n
      BY <1>3, <2>2
    <3> QED
      BY <1>5, <1>6, <1>9, <3>1
  <2> QED
    BY <2>1, <2>2
<1>11. u[1] = db_create
  BY <1>3, <1>6, <1>9
<1>12. Traced(g, u)
  BY <1>5, <1>9, <1>10, <1>11 DEF Traced
<1> QED
  BY <1>2, <1>4, <1>9, <1>12 DEF Agree

\* A shorter file.
LEMMA TracedPrefix ==
  ASSUME NEW f, NEW s, Traced(f, s), NEW m \in 1..Len(f)
  PROVE  \E u : /\ Traced(SubSeq(f, 1, m), u) /\ u[m] = s[m] /\ Len(SubSeq(f, 1, m)) = m
<1>1. f \in Seq(Entry) /\ Headed(f) /\ Len(f) \in Nat
  BY DEF Traced
<1>2. PICK g : g = SubSeq(f, 1, m)
  OBVIOUS
<1>3. g \in Seq(Entry) /\ Len(g) = m /\ (\A i \in 1..m : g[i] = f[i]) /\ Headed(g)
  BY <1>1, <1>2, SubSeqProperties, HeadedFacts
<1>4. PICK u : u = [i \in 1..m |-> s[i]]
  OBVIOUS
<1>5. s \in [1..Len(f) -> Ageless] /\ s[1] = db_create
      /\ \A i \in 2..Len(f) : Lasting(f[i]) /\ Play(s[i - 1], f[i]) = Result(TRUE, s[i])
  BY DEF Traced
<1>6. u \in [1..m -> Ageless] /\ \A i \in 1..m : u[i] = s[i]
  BY <1>1, <1>4, <1>5
<1>7. ASSUME NEW i \in 2..m
      PROVE  Lasting(g[i]) /\ Play(u[i - 1], g[i]) = Result(TRUE, u[i])
  <2>1. i \in 2..Len(f) /\ i - 1 \in 1..m /\ i \in 1..m
    BY <1>1
  <2> QED
    BY <1>3, <1>5, <1>6, <2>1
<1>8. u[1] = db_create /\ m \in 1..m
  BY <1>1, <1>5, <1>6
<1>9. Traced(g, u)
  BY <1>3, <1>6, <1>7, <1>8 DEF Traced
<1> QED
  BY <1>2, <1>3, <1>6, <1>8, <1>9

\* t[i] is the database that the first i records of the diff make of d.
Diffed(g, t, d) ==
  /\ g \in Seq(Record)
  /\ t \in [0..Len(g) -> Ageless] /\ t[0] = d
  /\ \A i \in 1..Len(g) : Lasting(g[i]) /\ Play(t[i - 1], g[i]) = Result(TRUE, t[i])

LEMMA DiffedAppend ==
  ASSUME NEW g, NEW t, NEW d0, Diffed(g, t, d0), NEW r, Lasting(r), NEW d,
         Takes(t[Len(g)], r, d)
  PROVE  \E u : Diffed(Append(g, r), u, d0) /\ u[Len(g) + 1] = d
<1>1. g \in Seq(Record) /\ r \in Record
  BY DEF Diffed, Lasting
<1>2. PICK n : n = Len(g)
  OBVIOUS
<1>3. n \in Nat
  BY <1>1, <1>2
<1>4. PICK h : h = Append(g, r)
  OBVIOUS
<1>5. h \in Seq(Record) /\ Len(h) = n + 1 /\ h[n + 1] = r /\ \A i \in 1..n : h[i] = g[i]
  BY <1>1, <1>2, <1>4, AppendProperties
<1>6. t \in [0..n -> Ageless] /\ t[0] = d0
      /\ \A i \in 1..n : Lasting(g[i]) /\ Play(t[i - 1], g[i]) = Result(TRUE, t[i])
  BY <1>2 DEF Diffed
<1>7. d \in Ageless
  <2>1. t[n] \in Ageless
    BY <1>3, <1>6
  <2> QED
    BY <1>2, <2>1, PlayAgeless DEF Result, Takes
<1>8. PICK u : u = [i \in 0..(n + 1) |-> IF i = n + 1 THEN d ELSE t[i]]
  OBVIOUS
<1>9. u \in [0..(n + 1) -> Ageless] /\ u[n + 1] = d /\ \A i \in 0..n : u[i] = t[i]
  BY <1>3, <1>6, <1>7, <1>8
<1>10. ASSUME NEW i \in 1..(n + 1)
       PROVE  Lasting(h[i]) /\ Play(u[i - 1], h[i]) = Result(TRUE, u[i])
  <2>1. CASE i = n + 1
    <3>1. i - 1 = n /\ n \in 0..n
      BY <1>3, <2>1
    <3>2. u[i - 1] = t[Len(g)] /\ h[i] = r /\ u[i] = d
      BY <1>2, <1>5, <1>9, <2>1, <3>1
    <3> QED
      BY <3>2 DEF Takes
  <2>2. CASE i # n + 1
    <3>1. i \in 1..n /\ i - 1 \in 0..n /\ i \in 0..n
      BY <1>3, <2>2
    <3> QED
      BY <1>5, <1>6, <1>9, <3>1
  <2> QED
    BY <2>1, <2>2
<1>11. Diffed(h, u, d0)
  BY <1>3, <1>5, <1>6, <1>9, <1>10 DEF Diffed
<1> QED
  BY <1>2, <1>4, <1>9, <1>11

\* The snapshot and then the diff.
LEMMA TracedConcat ==
  ASSUME NEW f, NEW s, Traced(f, s), NEW g, NEW t, Diffed(g, t, s[Len(f)])
  PROVE  \E u : /\ Traced(f \o g, u) /\ u[Len(f) + Len(g)] = t[Len(g)]
                /\ Len(f \o g) = Len(f) + Len(g)
<1>1. f \in Seq(Entry) /\ Headed(f) /\ g \in Seq(Record) /\ g \in Seq(Entry)
  BY DEF Traced, Diffed, Entry
<1>2. PICK n, m : n = Len(f) /\ m = Len(g)
  OBVIOUS
<1>3. n \in Nat /\ n >= 1 /\ m \in Nat
  BY <1>1, <1>2, HeadedFacts
<1>4. PICK h : h = f \o g
  OBVIOUS
<1>5. /\ h \in Seq(Entry) /\ Len(h) = n + m /\ Headed(h)
      /\ \A i \in 1..(n + m) : h[i] = IF i <= n THEN f[i] ELSE g[i - n]
  BY <1>1, <1>2, <1>4, ConcatProperties, HeadedFacts
<1>6. s \in [1..n -> Ageless] /\ s[1] = db_create
      /\ \A i \in 2..n : Lasting(f[i]) /\ Play(s[i - 1], f[i]) = Result(TRUE, s[i])
  BY <1>2 DEF Traced
<1>7. t \in [0..m -> Ageless] /\ t[0] = s[n]
      /\ \A i \in 1..m : Lasting(g[i]) /\ Play(t[i - 1], g[i]) = Result(TRUE, t[i])
  BY <1>2 DEF Diffed
<1>8. PICK u : u = [i \in 1..(n + m) |-> IF i <= n THEN s[i] ELSE t[i - n]]
  OBVIOUS
<1>9. u \in [1..(n + m) -> Ageless]
  <2>1. ASSUME NEW i \in 1..(n + m) PROVE (IF i <= n THEN s[i] ELSE t[i - n]) \in Ageless
    <3>1. i <= n => i \in 1..n
      BY <1>3
    <3>2. ~(i <= n) => i - n \in 0..m
      BY <1>3
    <3> QED
      BY <1>6, <1>7, <3>1, <3>2
  <2> QED
    BY <1>8, <2>1
<1>10. (\A i \in 1..n : u[i] = s[i]) /\ (\A i \in 0..m : u[n + i] = t[i])
  <2>1. ASSUME NEW i \in 1..n PROVE u[i] = s[i]
    <3>1. i \in 1..(n + m) /\ i <= n
      BY <1>3
    <3> QED
      BY <1>8, <3>1
  <2>2. ASSUME NEW i \in 1..m PROVE u[n + i] = t[i]
    <3>1. n + i \in 1..(n + m) /\ ~(n + i <= n) /\ (n + i) - n = i
      BY <1>3
    <3> QED
      BY <1>8, <3>1
  <2>3. u[n + 0] = t[0]
    BY <1>3, <1>7, <2>1
  <2>4. \A i \in 0..m : i = 0 \/ i \in 1..m
    BY <1>3
  <2> QED
    BY <2>1, <2>2, <2>3, <2>4
<1>11. ASSUME NEW i \in 2..(n + m)
       PROVE  Lasting(h[i]) /\ Play(u[i - 1], h[i]) = Result(TRUE, u[i])
  <2>1. CASE i <= n
    <3>1. i \in 2..n /\ i - 1 \in 1..n /\ i \in 1..n /\ i \in 1..(n + m)
      BY <1>3, <2>1
    <3> QED
      BY <1>5, <1>6, <1>10, <2>1, <3>1
  <2>2. CASE ~(i <= n)
    <3>1. PICK j : j = i - n
      OBVIOUS
    <3>2. j \in 1..m /\ j - 1 \in 0..m /\ j \in 0..m /\ i = n + j /\ i - 1 = n + (j - 1) /\ i \in 1..(n + m)
      BY <1>3, <2>2, <3>1
    <3>3. h[i] = g[j] /\ u[i] = t[j] /\ u[i - 1] = t[j - 1]
      BY <1>5, <1>10, <2>2, <3>1, <3>2
    <3> QED
      BY <1>7, <3>2, <3>3
  <2> QED
    BY <2>1, <2>2
<1>12. u[1] = db_create
  BY <1>3, <1>6, <1>10
<1>13. Traced(h, u)
  BY <1>3, <1>5, <1>9, <1>11, <1>12 DEF Traced
<1>14. u[n + m] = t[m]
  BY <1>3, <1>10
<1> QED
  BY <1>2, <1>4, <1>5, <1>13, <1>14

-------------------------------------------------------------------------------
(* Files that come back                                                    *)

\* d is one of the databases O, if "+OK" means what it says.
Granted(d, O) == AckMeansSynced => d \in O

\* With n entries on the device, whatever is left of the log f is one of O.
Durable(f, s, n, O) ==
  AckMeansSynced =>
    /\ s[Len(f)] \in O
    /\ n = 0 => db_create \in O
    /\ \A m \in 1..Len(f) : m >= n => s[m] \in O

\* The file g holds one of O, possibly with torn bytes behind it.
Came(g, O) ==
  \/ g \in {<<>>, <<TORN>>} /\ Granted(db_create, O)
  \/ \E f, s : Traced(f, s) /\ g \in {f, Append(f, TORN)} /\ Granted(s[Len(f)], O)

LEMMA CameMore ==
  ASSUME NEW g, NEW O, NEW P, Came(g, O), AckMeansSynced => O \subseteq P
  PROVE  Came(g, P)
BY DEF Came, Granted

\* A log that is cut, at an entry or inside the next one.
LEMMA CutCame ==
  ASSUME NEW f, NEW s, Traced(f, s), NEW m \in 0..Len(f), NEW O,
         Granted(IF m = 0 THEN db_create ELSE s[m], O),
         NEW g, g \in {SubSeq(f, 1, m), Append(SubSeq(f, 1, m), TORN)}
  PROVE  Came(g, O)
<1>1. f \in Seq(Entry) /\ Len(f) \in Nat
  BY DEF Traced
<1>2. CASE m = 0
  <2>1. SubSeq(f, 1, m) = <<>>
    BY <1>1, <1>2, SubSeqProperties, EmptySeq
  <2>2. Append(<<>>, TORN) = <<TORN>>
    BY EmptySeq
  <2> QED
    BY <1>2, <2>1, <2>2 DEF Came
<1>3. CASE m # 0
  <2>1. m \in 1..Len(f)
    BY <1>1, <1>3
  <2>2. PICK u : Traced(SubSeq(f, 1, m), u) /\ u[m] = s[m] /\ Len(SubSeq(f, 1, m)) = m
    BY <2>1, TracedPrefix
  <2> QED
    BY <1>3, <2>2 DEF Came
<1> QED
  BY <1>2, <1>3

\* What a power loss leaves of a log, torn at its end or not.
LEMMA ImagesCame ==
  ASSUME NEW f, NEW s, Traced(f, s), NEW n \in Nat, NEW O, Durable(f, s, n, O),
         NEW h, h \in {f, Append(f, TORN)}, NEW g \in Images(h, n)
  PROVE  Came(g, O)
<1>1. f \in Seq(Entry) /\ Len(f) \in Nat /\ Len(f) >= 1 /\ TORN \in Entry
  BY HeadedFacts, EntryFacts DEF Traced
<1>2. h \in Seq(Entry) /\ Len(h) \in {Len(f), Len(f) + 1} /\ (Len(h) = Len(f) + 1 => h = Append(f, TORN))
      /\ \A i \in 1..Len(f) : h[i] = f[i]
  BY <1>1, AppendProperties
<1>3. ASSUME NEW m \in 0..Len(f) PROVE SubSeq(h, 1, m) = SubSeq(f, 1, m)
  <2>1. m \in 0..Len(h)
    BY <1>1, <1>2
  <2>2. /\ SubSeq(h, 1, m) \in Seq(Entry) /\ Len(SubSeq(h, 1, m)) = m
        /\ \A i \in 1..m : SubSeq(h, 1, m)[i] = h[i]
    BY <1>2, <2>1, SubSeqProperties
  <2>3. /\ SubSeq(f, 1, m) \in Seq(Entry) /\ Len(SubSeq(f, 1, m)) = m
        /\ \A i \in 1..m : SubSeq(f, 1, m)[i] = f[i]
    BY <1>1, SubSeqProperties
  <2>4. \A i \in 1..m : h[i] = f[i]
    BY <1>1, <1>2
  <2>5. \A i \in 1..m : SubSeq(h, 1, m)[i] = SubSeq(f, 1, m)[i]
    BY <2>2, <2>3, <2>4
  <2> QED
    BY <2>2, <2>3, <2>5, SeqEqual
<1>4. ASSUME NEW m \in 0..Len(f), m >= n PROVE Granted(IF m = 0 THEN db_create ELSE s[m], O)
  <2>1. m = 0 => n = 0
    BY <1>4
  <2>2. m # 0 => m \in 1..Len(f)
    BY <1>1
  <2> QED
    BY <1>4, <2>1, <2>2 DEF Durable, Granted
<1>5. ASSUME NEW m \in n..Len(h), g = SubSeq(h, 1, m) PROVE Came(g, O)
  <2>1. CASE m \in 0..Len(f)
    <3>1. m >= n
      BY <1>2
    <3>2. g \in {SubSeq(f, 1, m), Append(SubSeq(f, 1, m), TORN)}
      BY <1>3, <1>5, <2>1
    <3> QED
      BY <1>4, <2>1, <3>1, <3>2, CutCame
  <2>2. CASE m \notin 0..Len(f)
    <3>1. m = Len(h) /\ h = Append(f, TORN)
      BY <1>1, <1>2, <2>2
    <3>2. g = h
      <4>1. g \in Seq(Entry) /\ Len(g) = Len(h) /\ \A i \in 1..Len(h) : g[i] = h[i]
        BY <1>1, <1>2, <1>5, <3>1, SubSeqProperties
      <4> QED
        BY <1>2, <4>1, SeqEqual
    <3>3. Granted(s[Len(f)], O)
      BY DEF Durable, Granted
    <3> QED
      BY <3>1, <3>2, <3>3 DEF Came
  <2> QED
    BY <2>1, <2>2
<1>6. ASSUME NEW m \in n..(Len(h) - 1), g = Append(SubSeq(h, 1, m), TORN) PROVE Came(g, O)
  <2>1. m \in 0..Len(f) /\ m >= n
    BY <1>1, <1>2
  <2>2. g \in {SubSeq(f, 1, m), Append(SubSeq(f, 1, m), TORN)}
    BY <1>3, <1>6, <2>1
  <2> QED
    BY <1>4, <2>1, <2>2, CutCame
<1> QED
  BY <1>5, <1>6 DEF Images

\* When the whole log is on the device, or what is not is granted.
LEMMA DurableNext ==
  ASSUME NEW f, NEW u, Traced(f, u), NEW n \in Nat, NEW O, NEW P,
         AckMeansSynced =>
           /\ u[Len(f)] \in P
           /\ \/ n = Len(f)
              \/ /\ O \subseteq P /\ (n = 0 => db_create \in O)
                 /\ \A m \in 1..(Len(f) - 1) : m >= n => u[m] \in O
  PROVE  Durable(f, u, n, P)
<1> SUFFICES ASSUME AckMeansSynced PROVE Durable(f, u, n, P)
  BY DEF Durable
<1>1. Len(f) \in Nat /\ Len(f) >= 1
  BY HeadedFacts DEF Traced
<1>2. n = 0 => db_create \in P
  BY <1>1
<1>3. ASSUME NEW m \in 1..Len(f), m >= n PROVE u[m] \in P
  <2>1. m = Len(f) \/ (m \in 1..(Len(f) - 1) /\ n # Len(f))
    BY <1>1, <1>3
  <2> QED
    BY <1>3, <2>1
<1> QED
  BY <1>2, <1>3 DEF Durable

-------------------------------------------------------------------------------
(* What commands and ticks do when nothing lapses                          *)

\* A replay, and so a command, succeeds or changes nothing.
LEMMA PlayFails ==
  ASSUME NEW d \in Ageless, NEW r, Lasting(r)
  PROVE  Play(d, r) \in {Result(TRUE, Play(d, r).db), Result(FALSE, d)}
<1>1. r \in Record /\ r.key \in Keys /\ r.exp \in Nat /\ r.op \in Opcodes
  BY EntryFacts DEF Lasting
<1>2. d \in Database /\ NoOrphan(d)
  BY DEF Ageless
<1>3. ~(r.exp > 0 /\ r.exp < 0)
  BY <1>1
<1>4. d = [keyspace |-> d.keyspace, expires |-> d.expires]
      /\ d.keyspace \in [Keys -> Values \cup {Absent}] /\ d.expires \in [Keys -> Nat]
  BY <1>2 DEF Database
<1>5. ~HasTtl(d, r.key) => PutTtl(d, r.key, NoTtl) = d
  <2>1. ~HasTtl(d, r.key) => [d.expires EXCEPT ![r.key] = NoTtl] = d.expires
    BY <1>1, <1>4 DEF HasTtl
  <2> QED
    BY <1>4, <2>1 DEF PutTtl
<1>6. ~Exists(d, r.key) => PutVal(PutTtl(d, r.key, NoTtl), r.key, Absent) = d
  <2>1. ~Exists(d, r.key) => PutTtl(d, r.key, NoTtl) = d
    BY <1>1, <1>2, <1>5 DEF NoOrphan
  <2>2. ~Exists(d, r.key) => [d.keyspace EXCEPT ![r.key] = Absent] = d.keyspace
    BY <1>1, <1>4 DEF Exists
  <2>3. ~Exists(d, r.key) => PutVal(d, r.key, Absent) = d
    BY <1>4, <2>2 DEF PutVal
  <2> QED
    BY <2>1, <2>3
<1>7. Exists(d, r.key) \in BOOLEAN /\ HasTtl(d, r.key) \in BOOLEAN
  BY DEF Exists, HasTtl
<1>8. CASE r.op \in {"SET", "SETEX"}
  BY <1>3, <1>8 DEF Play, aof_replay_record, db_set, db_setex, Result, Opcodes
<1>9. CASE r.op = "DEL"
  BY <1>3, <1>6, <1>7, <1>9 DEF Play, aof_replay_record, db_del, Result, Opcodes
<1>10. CASE r.op = "EXPIRE"
  BY <1>3, <1>7, <1>10 DEF Play, aof_replay_record, db_key_expire, Result, Opcodes
<1>11. CASE r.op = "PERSIST"
  BY <1>3, <1>5, <1>7, <1>11 DEF Play, aof_replay_record, db_persist, Result, Opcodes
<1> QED
  BY <1>1, <1>8, <1>9, <1>10, <1>11 DEF Opcodes

\* No key of an ageless database is past due, so lookups and sweeps leave it
\* alone.
LEMMA NothingExpired ==
  ASSUME NEW d \in Ageless, NEW t \in Nat, t <= MaxClock
  PROVE  /\ \A k \in Keys : ~Expired(d, k, t)
         /\ \A k \in Keys : db_get(d, k, t).db = d
         /\ \A C : db_active_sweep(d, {}, C, t) = d
<1>1. d \in Database /\ MaxClock \in Nat /\ \A k \in Keys : d.expires[k] = 0 \/ d.expires[k] >= MaxClock
  BY AofAssumption DEF Ageless
<1>2. d = [keyspace |-> d.keyspace, expires |-> d.expires]
      /\ d.keyspace \in [Keys -> Values \cup {Absent}] /\ d.expires \in [Keys -> Nat]
  BY <1>1 DEF Database
<1>3. ASSUME NEW k \in Keys PROVE ~Expired(d, k, t)
  <2>1. d.expires[k] \in Nat /\ (d.expires[k] = 0 \/ d.expires[k] >= MaxClock)
    BY <1>1, <1>2
  <2> QED
    BY <1>1, <2>1 DEF Expired, HasTtl, NoTtl
<1>4. \A k \in Keys : db_get(d, k, t).db = d
  BY <1>3 DEF db_get, db_expire_clean
<1>5. [k \in Keys |-> d.keyspace[k]] = d.keyspace /\ [k \in Keys |-> d.expires[k]] = d.expires
  BY <1>2
<1>6. ASSUME NEW C PROVE db_active_sweep(d, {}, C, t) = d
  BY <1>2, <1>5 DEF db_active_sweep
<1> QED
  BY <1>3, <1>4, <1>6

\* The clock starts at 1 and does not pass its bound.
ClockOK == clock \in 1..MaxClock /\ now \in 0..MaxClock

\* The deadlines a command may set, and the record with one.
Due == {t + s : t \in 0..MaxClock, s \in Ttls}

LEMMA DueLasts ==
  ASSUME NothingLapses, ClockOK, NEW s \in Ttls
  PROVE  now + s \in Due /\ now + s \in Nat \ {0} /\ now + s >= MaxClock
<1>1. s \in Nat \ {0} /\ s >= MaxClock /\ now \in 0..MaxClock /\ MaxClock \in Nat
  BY AofAssumption DEF NothingLapses, ClockOK
<1>2. now + s \in Due
  BY <1>1 DEF Due
<1> QED
  BY <1>1, <1>2

\* A mutating command does to the database what its record does in a replay.
LEMMA CommandPlays ==
  ASSUME NothingLapses, ClockOK, Commands
  PROVE  \/ \E k \in Keys : cmd_get(k)
         \/ \E r : /\ Lasting(r) /\ Mutate(Play(db, r), r)
                   /\ r.op \in {"SETEX", "EXPIRE"} => r.exp \in Due
<1> DEFINE Plays == \E r : /\ Lasting(r) /\ Mutate(Play(db, r), r)
                           /\ r.op \in {"SETEX", "EXPIRE"} => r.exp \in Due
<1>1. ASSUME NEW k \in Keys, NEW v \in Values, cmd_set(k, v) PROVE Plays
  <2>1. PICK r : r = Rec("SET", k, v, NoTtl)
    OBVIOUS
  <2>2. Lasting(r) /\ r.op = "SET"
    BY <2>1 DEF Rec, Lasting, Record, NoTtl
  <2>3. Play(db, r) = db_set(db, k, v)
    BY <2>1 DEF Play, aof_replay_record, Rec, Opcodes, NoTtl
  <2> QED
    BY <1>1, <2>1, <2>2, <2>3 DEF cmd_set
<1>2. ASSUME NEW k \in Keys, NEW v \in Values, NEW s \in Ttls, cmd_setex(k, v, s) PROVE Plays
  <2>1. PICK e : e = now + s
    OBVIOUS
  <2>2. e \in Due /\ e \in Nat \ {0} /\ e >= MaxClock
    BY <2>1, DueLasts
  <2>3. PICK r : r = Rec("SETEX", k, v, e)
    OBVIOUS
  <2>4. Lasting(r) /\ r.exp = e
    BY <2>2, <2>3 DEF Rec, Lasting, Record
  <2>5. Play(db, r) = db_setex(db, k, v, e)
    <3>1. ~(e > 0 /\ e < 0)
      BY <2>2
    <3> QED
      BY <2>3, <3>1 DEF Play, aof_replay_record, Rec, Opcodes
  <2> QED
    BY <1>2, <2>1, <2>2, <2>3, <2>4, <2>5 DEF cmd_setex
<1>3. ASSUME NEW k \in Keys, NEW s \in Ttls, cmd_expire(k, s) PROVE Plays
  <2>1. PICK e : e = now + s
    OBVIOUS
  <2>2. e \in Due /\ e \in Nat \ {0} /\ e >= MaxClock
    BY <2>1, DueLasts
  <2>3. PICK r : r = Rec("EXPIRE", k, Absent, e)
    OBVIOUS
  <2>4. Lasting(r) /\ r.exp = e
    BY <2>2, <2>3 DEF Rec, Lasting, Record
  <2>5. Play(db, r) = db_key_expire(db, k, e)
    <3>1. ~(e > 0 /\ e < 0)
      BY <2>2
    <3> QED
      BY <2>3, <3>1 DEF Play, aof_replay_record, Rec, Opcodes
  <2> QED
    BY <1>3, <2>1, <2>2, <2>3, <2>4, <2>5 DEF cmd_expire
<1>4. ASSUME NEW k \in Keys, cmd_persist(k) PROVE Plays
  <2>1. PICK r : r = Rec("PERSIST", k, Absent, NoTtl)
    OBVIOUS
  <2>2. Lasting(r) /\ r.op = "PERSIST"
    BY <2>1 DEF Rec, Lasting, Record, NoTtl
  <2>3. Play(db, r) = db_persist(db, k)
    BY <2>1 DEF Play, aof_replay_record, Rec, Opcodes, NoTtl
  <2> QED
    BY <1>4, <2>1, <2>2, <2>3 DEF cmd_persist
<1>5. ASSUME NEW k \in Keys, cmd_del(k) PROVE Plays
  <2>1. PICK r : r = Rec("DEL", k, Absent, NoTtl)
    OBVIOUS
  <2>2. Lasting(r) /\ r.op = "DEL"
    BY <2>1 DEF Rec, Lasting, Record, NoTtl
  <2>3. Play(db, r) = db_del(db, k)
    BY <2>1 DEF Play, aof_replay_record, Rec, Opcodes, NoTtl
  <2> QED
    BY <1>5, <2>1, <2>2, <2>3 DEF cmd_del
<1> QED
  BY <1>1, <1>2, <1>3, <1>4, <1>5 DEF Commands

\* The record r of a command that succeeded, in the file and in the diff of a
\* rewrite that goes on.
Logs(r) ==
  /\ Lasting(r) /\ Play(db, r) = Result(TRUE, db')
  /\ r.op \in {"SETEX", "EXPIRE"} => r.exp \in Due
  /\ file' = Append(file, r) /\ req' = "logged"
  /\ rwState' = "ACTIVE" => rwState = "ACTIVE" /\ diff' = Append(diff, r)

\* A command is logged or changes nothing.
LEMMA CommandLogs ==
  ASSUME NothingLapses, NoLostRecords, ClockOK, db \in Ageless, Commands
  PROVE  /\ Idle /\ UNCHANGED <<clock, now, phase, pos, disk, child, temp>>
         /\ UNCHANGED <<db, file, req, rwState, diff>> \/ \E r : Logs(r)
<1>1. ASSUME NEW k \in Keys, cmd_get(k)
      PROVE  Idle /\ UNCHANGED <<clock, now, phase, pos, disk, child, temp, db, file, req, rwState, diff>>
  <2>1. now \in Nat /\ now <= MaxClock
    BY AofAssumption DEF ClockOK
  <2>2. db' = db
    BY <1>1, <2>1, NothingExpired DEF cmd_get
  <2> QED
    BY <1>1, <2>2 DEF cmd_get, diskVars, rewriteVars
<1>2. ASSUME NEW r, Lasting(r), Mutate(Play(db, r), r), r.op \in {"SETEX", "EXPIRE"} => r.exp \in Due
      PROVE  /\ Idle /\ UNCHANGED <<clock, now, phase, pos, disk, child, temp>>
             /\ UNCHANGED <<db, file, req, rwState, diff>> \/ Logs(r)
  <2>1. Idle /\ UNCHANGED <<clock, now, phase, pos, disk, child, temp>> /\ db' = Play(db, r).db
    BY <1>2 DEF Mutate
  <2>2. CASE Play(db, r) = Result(FALSE, db)
    <3>1. ~Play(db, r).ok /\ db' = db
      BY <2>1, <2>2 DEF Result
    <3>2. UNCHANGED <<file, req, rwState, diff>>
      BY <1>2, <3>1 DEF Mutate
    <3> QED
      BY <2>1, <3>1, <3>2
  <2>3. CASE Play(db, r) = Result(TRUE, Play(db, r).db)
    <3>1. Play(db, r).ok /\ Play(db, r) = Result(TRUE, db')
      BY <2>1, <2>3 DEF Result
    <3>2. aof_append(r)
      BY <1>2, <3>1 DEF Mutate
    <3>3. /\ file' = Append(file, r) /\ req' = "logged"
          /\ \/ rwState = "ACTIVE" /\ aof_emit_diff(r)
             \/ rwState # "ACTIVE" /\ UNCHANGED <<rwState, diff, pipe>>
      BY <3>2 DEF aof_append, NoLostRecords, Oversize
    <3>4. rwState' = "ACTIVE" => rwState = "ACTIVE" /\ diff' = Append(diff, r)
      BY <3>3 DEF aof_emit_diff, aof_abort_rewrite
    <3> QED
      BY <1>2, <2>1, <3>1, <3>3, <3>4 DEF Logs
  <2> QED
    BY <1>2, <2>2, <2>3, PlayFails
<1> QED
  BY <1>1, <1>2, CommandPlays

\* A tick changes the file by a rename only.
LEMMA TickKeeps ==
  ASSUME ClockOK, db \in Ageless, NEW due \in BOOLEAN, before_sleep(due)
  PROVE  UNCHANGED <<db, clock>> /\ now' = clock
<1>1. clock \in Nat /\ clock <= MaxClock /\ UNCHANGED clock /\ now' = clock
  BY AofAssumption DEF ClockOK, before_sleep
<1>2. {k \in Keys : Expired(db, k, clock)} = {}
  BY <1>1, NothingExpired
<1>3. PICK C : db' = db_active_sweep(db, {}, C, clock)
  BY <1>2 DEF before_sleep, active_expire_cron
<1> QED
  BY <1>1, <1>3, NothingExpired

-------------------------------------------------------------------------------
(* The inductive invariant                                                 *)

\* The file is the log f, torn behind it or not; whatever is left of it, and
\* the whole of it, is what the server owes.
FileIs(f, s) ==
  /\ Traced(f, s) /\ file \in {f, Append(f, TORN)}
  /\ Durable(f, s, disk.synced, owed) /\ Granted(s[Len(f)], Options)

\* A serving process has in memory what its file replays to.
ServesLog ==
  phase = "serving" =>
    \E s : Traced(file, s) /\ s[Len(file)] = db /\ Durable(file, s, disk.synced, owed)

\* A start-up is somewhere in its file.
LoadsLog ==
  phase = "loading" => \E f, s : FileIs(f, s) /\ pos \in 1..Len(f) /\ db = s[pos]

\* A process that is gone has left a file.
LeavesLog ==
  phase = "down" =>
    \/ file \in {<<>>, <<TORN>>} /\ Granted(db_create, Options)
    \/ \E f, s : FileIs(f, s)

\* So are the files that a rename replaced, and those that a start-up cut.
OlderLog == \A g \in disk.older : Came(g, owed)

\* The history of a serving process.
ToldOK ==
  /\ phase = "serving" => ~lost /\ inflight = db /\ (req = "idle" => acked = db)
  /\ req \in {"idle", "logged"}

\* The database of which the child has yet to visit the keys T.
Visited(d, T) ==
  [keyspace |-> [k \in Keys |-> IF k \in T THEN Absent ELSE d.keyspace[k]],
   expires  |-> [k \in Keys |-> IF k \in T THEN NoTtl ELSE d.expires[k]]]

\* The child's file replays to what it has visited of the snapshot, and the
\* diff takes the snapshot to the database in memory.
DiffLog == \E t : Diffed(diff, t, child.snap) /\ t[Len(diff)] = db

TempLog ==
  /\ child.st = "opening" => child.todo = {k \in Keys : Exists(child.snap, k)}
  /\ child.st = "walking" => \E s : Traced(temp, s) /\ s[Len(temp)] = Visited(child.snap, child.todo)
  /\ child.st = "ok" => \E s : Traced(temp, s) /\ s[Len(temp)] = child.snap

RewriteLog == rwState = "ACTIVE" => phase = "serving" /\ DiffLog /\ TempLog

FileLog == ServesLog /\ LoadsLog /\ LeavesLog /\ OlderLog

LogInv == ClockOK /\ FileLog /\ ToldOK /\ RewriteLog

\* What a serving process has in memory does not lapse.
LEMMA ServesAgeless ==
  ASSUME ServesLog, phase = "serving"
  PROVE  db \in Ageless
<1>1. PICK s : Traced(file, s) /\ s[Len(file)] = db
  BY DEF ServesLog
<1>2. Len(file) \in Nat /\ Len(file) >= 1
  BY <1>1, HeadedFacts DEF Traced
<1> QED
  BY <1>1, <1>2 DEF Traced

\* The history of a step.
LEMMA Observed ==
  ASSUME Observe
  PROVE  /\ phase' = "serving" => /\ ~lost' /\ inflight' = db' /\ (req' = "idle" => acked' = db')
                                  /\ db' \in owed'
         /\ phase' # "serving" => owed' = owed /\ Options' = Options
BY DEF Observe, Options

\* What a serving process owes: all that it owed before, or only the database
\* that is on the device.
LEMMA OwedGrows ==
  ASSUME AckMeansSynced, Core, BootInv, ToldOK, phase = "serving", phase' = "serving", Alive, Observe
  PROVE  (OnDevice' /\ owed' = {db'}) \/ owed' = owed \cup {db'}
<1>1. CASE ~Settles
  BY <1>1 DEF Observe
<1>2. CASE Settles
  <2>1. owed' = {db'}
    BY <1>2 DEF Observe
  <2>2. CASE Policy = "always" /\ req # "idle" /\ req' = "idle"
    <3>1. reply_ok
      BY <2>2, AliveFacts
    <3>2. req = "logged" /\ RenameDurable /\ "fsync" \notin Faults
      BY <2>2 DEF AckMeansSynced, ToldOK
    <3>3. disk' = Flushed /\ file' = file
      BY <2>2, <3>1, <3>2 DEF reply_ok
    <3> QED
      BY <2>1, <3>2, <3>3 DEF OnDevice, Flushed, Unrenamed
  <2> QED
    BY <1>2, <2>1, <2>2 DEF Settles
<1> QED
  BY <1>1, <1>2

\* A serving process goes on, with the file it had, one record more, or a file
\* that is all on the device.
LEMMA ServeNext ==
  ASSUME Core', phase' = "serving",
         AckMeansSynced => (OnDevice' /\ owed' = {db'}) \/ owed' = owed \cup {db'},
         NEW s, Traced(file, s), Durable(file, s, disk.synced, owed),
         NEW u, Traced(file', u), u[Len(file')] = db',
         \/ disk'.synced = Len(file')
         \/ /\ disk'.synced = disk.synced /\ Len(file') \in {Len(file), Len(file) + 1}
            /\ \A i \in 1..(Len(file') - 1) : u[i] = s[i]
  PROVE  ServesLog'
<1>1. disk'.synced \in Nat
  BY DEF Core, DiskOK
<1>2. Len(file) \in Nat /\ Len(file') \in Nat
  BY DEF Traced
<1>3. ASSUME AckMeansSynced
      PROVE  /\ u[Len(file')] \in owed'
             /\ \/ disk'.synced = Len(file')
                \/ /\ owed \subseteq owed' /\ (disk'.synced = 0 => db_create \in owed)
                   /\ \A m \in 1..(Len(file') - 1) : m >= disk'.synced => u[m] \in owed
  <2>1. u[Len(file')] \in owed'
    BY <1>3
  <2>2. CASE disk'.synced # Len(file')
    <3>1. owed \subseteq owed' /\ disk'.synced = disk.synced
      BY <1>3, <2>2 DEF OnDevice
    <3>2. ASSUME NEW m \in 1..(Len(file') - 1), m >= disk'.synced PROVE u[m] \in owed
      <4>1. m \in 1..Len(file) /\ u[m] = s[m]
        BY <1>2, <2>2
      <4> QED
        BY <1>3, <3>1, <3>2, <4>1 DEF Durable
    <3>3. disk'.synced = 0 => db_create \in owed
      BY <1>3, <3>1 DEF Durable
    <3> QED
      BY <2>1, <3>1, <3>2, <3>3
  <2> QED
    BY <2>1, <2>2
<1>4. Durable(file', u, disk'.synced, owed')
  BY <1>1, <1>3, DurableNext
<1> QED
  BY <1>4 DEF ServesLog

\* Replaced files stay what they are.
LEMMA OlderNext ==
  ASSUME OlderLog, AckMeansSynced => (OnDevice' /\ owed' = {db'}) \/ owed \subseteq owed',
         \A g \in disk'.older : g \in disk.older \/ Came(g, owed)
  PROVE  OlderLog'
<1> SUFFICES ASSUME NEW g \in disk'.older PROVE Came(g, owed')
  BY DEF OlderLog
<1>1. Came(g, owed)
  BY DEF OlderLog
<1>2. AckMeansSynced => owed \subseteq owed'
  BY DEF OnDevice
<1> QED
  BY <1>1, <1>2, CameMore

\* A step that leaves the server's database and its files alone.
LEMMA StillStep ==
  ASSUME Core, Core', BootInv, FileLog, ToldOK, Alive, Observe,
         UNCHANGED <<phase, db, file, disk, pos, req>>
  PROVE  FileLog' /\ ToldOK'
<1>1. ToldOK'
  BY Observed DEF ToldOK
<1>2. CASE phase = "serving"
  <2>1. PICK s : Traced(file, s) /\ s[Len(file)] = db /\ Durable(file, s, disk.synced, owed)
    BY <1>2 DEF FileLog, ServesLog
  <2>2. AckMeansSynced => (OnDevice' /\ owed' = {db'}) \/ owed' = owed \cup {db'}
    BY <1>2, OwedGrows
  <2>3. Len(file') \in {Len(file), Len(file) + 1} /\ (\A i \in 1..(Len(file') - 1) : s[i] = s[i])
        /\ disk'.synced = disk.synced
    OBVIOUS
  <2>4. Traced(file', s) /\ s[Len(file')] = db' /\ phase' = "serving"
    BY <1>2, <2>1
  <2>5. ServesLog'
    BY <2>1, <2>2, <2>3, <2>4, ServeNext
  <2>6. OlderLog'
    BY <2>2, OlderNext DEF FileLog
  <2> QED
    BY <1>1, <2>4, <2>5, <2>6 DEF FileLog, LoadsLog, LeavesLog
<1>3. CASE phase # "serving"
  <2>1. owed' = owed /\ Options' = Options
    BY <1>3, Observed
  <2>2. ServesLog' /\ OlderLog'
    BY <1>3, <2>1 DEF FileLog, ServesLog, OlderLog
  <2>3. ASSUME NEW f, NEW s, FileIs(f, s) PROVE FileIs(f, s)'
    BY <2>1, <2>3 DEF FileIs
  <2>4. LoadsLog'
    BY <2>3 DEF FileLog, LoadsLog
  <2>5. LeavesLog'
    BY <2>1, <2>3 DEF FileLog, LeavesLog
  <2> QED
    BY <1>1, <2>2, <2>4, <2>5 DEF FileLog
<1> QED
  BY <1>2, <1>3

\* A command: the record at the end of the file, and of the diff.
LEMMA CommandStep ==
  ASSUME NothingLapses, NoLostRecords, Core, Core', BootInv, LogInv, Commands, Observe
  PROVE  LogInv'
<1>0. Alive /\ ClockOK /\ ServesLog
  BY DEF Alive, LogInv, FileLog
<1>1. phase = "serving" /\ req = "idle"
  BY CommandFile DEF Idle
<1>2. db \in Ageless
  BY <1>0, <1>1, ServesAgeless
<1>3. /\ UNCHANGED <<clock, now, phase, pos, disk, child, temp>>
      /\ UNCHANGED <<db, file, req, rwState, diff>> \/ \E r : Logs(r)
  BY <1>0, <1>2, CommandLogs
<1>4. CASE UNCHANGED <<db, file, req, rwState, diff>>
  <2>1. FileLog' /\ ToldOK'
    BY <1>0, <1>3, <1>4, StillStep DEF LogInv
  <2> QED
    BY <1>3, <1>4, <2>1 DEF LogInv, ClockOK, RewriteLog, DiffLog, TempLog
<1>5. ASSUME NEW r, Logs(r) PROVE LogInv'
  <2>1. PICK s : Traced(file, s) /\ s[Len(file)] = db /\ Durable(file, s, disk.synced, owed)
    BY <1>1 DEF LogInv, FileLog, ServesLog
  <2>2. Lasting(r) /\ Play(db, r) = Result(TRUE, db') /\ file' = Append(file, r) /\ req' = "logged"
    BY <1>5 DEF Logs
  <2>3. PICK u : Traced(Append(file, r), u) /\ u[Len(file) + 1] = db' /\ Agree(u, s, Len(file))
    <3>1. PICK f, d : f = file /\ d = db'
      OBVIOUS
    <3>2. Traced(f, s) /\ Lasting(r) /\ Takes(s[Len(f)], r, d)
      BY <2>1, <2>2, <3>1 DEF Takes
    <3>3. \E u : Traced(Append(f, r), u) /\ u[Len(f) + 1] = d /\ Agree(u, s, Len(f))
      BY <3>2, TracedAppend
    <3> QED
      BY <3>1, <3>3
  <2>4. Len(file) \in Nat /\ Len(file') = Len(file) + 1
    <3>1. file \in Seq(Entry) /\ r \in Entry
      BY <2>1, <2>2, EntryFacts DEF Traced, Lasting
    <3> QED
      BY <2>2, <3>1, AppendProperties
  <2>5. Traced(file', u) /\ u[Len(file')] = db' /\ (\A i \in 1..(Len(file') - 1) : u[i] = s[i])
    BY <2>2, <2>3, <2>4 DEF Agree
  <2>6. AckMeansSynced => (OnDevice' /\ owed' = {db'}) \/ owed' = owed \cup {db'}
    BY <1>0, <1>1, <1>3, OwedGrows DEF LogInv
  <2>7. phase' = "serving" /\ disk'.synced = disk.synced /\ disk' = disk
        /\ Len(file') \in {Len(file), Len(file) + 1}
    BY <1>1, <1>3, <2>4
  <2>8. ServesLog'
    BY <2>1, <2>5, <2>6, <2>7, ServeNext
  <2>9. OlderLog'
    BY <2>6, <2>7, OlderNext DEF LogInv, FileLog
  <2>10. ToldOK'
    BY <2>2, <2>7, Observed DEF ToldOK
  <2>11. RewriteLog'
    <3> SUFFICES ASSUME rwState' = "ACTIVE" PROVE RewriteLog'
      BY DEF RewriteLog
    <3>1. rwState = "ACTIVE" /\ diff' = Append(diff, r)
      BY <1>5 DEF Logs
    <3>2. PICK t : Diffed(diff, t, child.snap) /\ t[Len(diff)] = db
      BY <3>1 DEF LogInv, RewriteLog, DiffLog
    <3>3. PICK w : Diffed(Append(diff, r), w, child.snap) /\ w[Len(diff) + 1] = db'
      <4>1. PICK g, c, d : g = diff /\ c = child.snap /\ d = db'
        OBVIOUS
      <4>2. Diffed(g, t, c) /\ Lasting(r) /\ Takes(t[Len(g)], r, d)
        BY <2>2, <3>2, <4>1 DEF Takes
      <4>3. \E w : Diffed(Append(g, r), w, c) /\ w[Len(g) + 1] = d
        BY <4>2, DiffedAppend
      <4> QED
        BY <4>1, <4>3
    <3>4. Len(diff') = Len(diff) + 1
      <4>1. diff \in Seq(Record) /\ r \in Record
        BY <2>2, <3>2 DEF Diffed, Lasting
      <4> QED
        BY <3>1, <4>1, AppendProperties
    <3>5. DiffLog'
      BY <1>3, <3>1, <3>3, <3>4 DEF DiffLog
    <3>6. TempLog'
      BY <1>3, <3>1 DEF LogInv, RewriteLog, TempLog
    <3> QED
      BY <2>7, <3>5, <3>6 DEF RewriteLog
  <2> QED
    BY <1>0, <1>3, <2>7, <2>8, <2>9, <2>10, <2>11 DEF LogInv, FileLog, LoadsLog, LeavesLog, ClockOK
<1> QED
  BY <1>3, <1>4, <1>5

\* The reply.
LEMMA ReplyStep ==
  ASSUME Core, Core', BootInv, LogInv, reply_ok, Observe
  PROVE  LogInv'
<1>1. Alive /\ phase = "serving" /\ phase' = "serving" /\ UNCHANGED <<clock, now, db, file, rewriteVars>>
      /\ req' = "idle" /\ disk' \in {disk, Flushed}
  BY DEF Alive, reply_ok
<1>2. PICK s : Traced(file, s) /\ s[Len(file)] = db /\ Durable(file, s, disk.synced, owed)
  BY <1>1 DEF LogInv, FileLog, ServesLog
<1>3. AckMeansSynced => (OnDevice' /\ owed' = {db'}) \/ owed' = owed \cup {db'}
  BY <1>1, OwedGrows DEF LogInv
<1>4. disk'.synced = Len(file') \/ disk'.synced = disk.synced
  BY <1>1 DEF Flushed
<1>5. \A g \in disk'.older : g \in disk.older
  BY <1>1 DEF Flushed, Unrenamed
<1>6. Traced(file', s) /\ s[Len(file')] = db' /\ Len(file') \in {Len(file), Len(file) + 1}
      /\ \A i \in 1..(Len(file') - 1) : s[i] = s[i]
  BY <1>1, <1>2
<1>7. ServesLog'
  BY <1>1, <1>2, <1>3, <1>4, <1>6, ServeNext
<1>8. OlderLog'
  BY <1>3, <1>5, OlderNext DEF LogInv, FileLog
<1>9. ToldOK'
  BY <1>1, Observed DEF ToldOK
<1>10. RewriteLog'
  BY <1>1 DEF LogInv, RewriteLog, DiffLog, TempLog, rewriteVars
<1> QED
  BY <1>1, <1>7, <1>8, <1>9, <1>10 DEF LogInv, FileLog, LoadsLog, LeavesLog, ClockOK

\* The tick: a flush, and the rename of a finished rewrite.
LEMMA TickStep ==
  ASSUME Core, Core', BootInv, LogInv, NEW due \in BOOLEAN, before_sleep(due), Observe
  PROVE  LogInv'
<1>1. Alive /\ phase = "serving" /\ phase' = "serving" /\ req = "idle" /\ req' = req
  BY DEF Alive, before_sleep, Idle
<1>2. db \in Ageless /\ ClockOK
  BY <1>1, ServesAgeless DEF LogInv, FileLog
<1>3. UNCHANGED <<db, clock>> /\ now' = clock
  BY <1>2, TickKeeps
<1>4. ClockOK'
  BY <1>2, <1>3 DEF ClockOK
<1>5. PICK s : Traced(file, s) /\ s[Len(file)] = db /\ Durable(file, s, disk.synced, owed)
  BY <1>1 DEF LogInv, FileLog, ServesLog
<1>6. AckMeansSynced => (OnDevice' /\ owed' = {db'}) \/ owed' = owed \cup {db'}
  BY <1>1, OwedGrows DEF LogInv
<1>7. ToldOK'
  BY <1>1, Observed DEF LogInv, ToldOK
<1>8. PICK d \in {disk, Flushed} : aof_rewrite_cron(due, d)
  BY DEF before_sleep
<1>9. (d.synced = Len(file) \/ d.synced = disk.synced) /\ d.older \subseteq disk.older
  BY <1>8 DEF Flushed, Unrenamed
<1>10. disk.synced \in Nat /\ Len(file) \in Nat /\ Len(file) >= 1
  BY <1>5, HeadedFacts DEF Core, DiskOK, Traced
<1>11. Durable(file, s, d.synced, owed)
  <2>1. d.synced \in Nat
    BY <1>9, <1>10
  <2>2. ASSUME AckMeansSynced
        PROVE  /\ s[Len(file)] \in owed
               /\ \/ d.synced = Len(file)
                  \/ /\ owed \subseteq owed /\ (d.synced = 0 => db_create \in owed)
                     /\ \A m \in 1..(Len(file) - 1) : m >= d.synced => s[m] \in owed
    <3>1. \A m \in 1..(Len(file) - 1) : m \in 1..Len(file)
      BY <1>10
    <3> QED
      BY <1>5, <1>9, <2>2, <3>1 DEF Durable
  <2> QED
    BY <1>5, <2>1, <2>2, DurableNext
<1>12. CASE disk' = d /\ file' = file /\ (rwState' = "IDLE" \/ UNCHANGED rewriteVars)
  <2>1. Traced(file', s) /\ s[Len(file')] = db' /\ Len(file') \in {Len(file), Len(file) + 1}
        /\ (disk'.synced = Len(file') \/ disk'.synced = disk.synced)
        /\ \A i \in 1..(Len(file') - 1) : s[i] = s[i]
    BY <1>3, <1>5, <1>9, <1>12
  <2>2. ServesLog'
    BY <1>1, <1>5, <1>6, <2>1, ServeNext
  <2>3. OlderLog'
    BY <1>6, <1>9, <1>12, OlderNext DEF LogInv, FileLog
  <2>4. RewriteLog'
    BY <1>1, <1>3, <1>12 DEF LogInv, RewriteLog, DiffLog, TempLog, rewriteVars
  <2> QED
    BY <1>1, <1>4, <1>7, <2>2, <2>3, <2>4 DEF LogInv, FileLog, LoadsLog, LeavesLog
<1>13. CASE /\ rwState = "ACTIVE" /\ child.st = "ok" /\ rwState' = "IDLE" /\ file' = temp \o diff
            /\ disk' = [synced |-> Len(temp) + Len(diff),
                        older  |-> Unrenamed(d) \cup Images(file, d.synced)]
  <2>1. PICK t : Diffed(diff, t, child.snap) /\ t[Len(diff)] = db
    BY <1>13 DEF LogInv, RewriteLog, DiffLog
  <2>2. PICK w : Traced(temp, w) /\ w[Len(temp)] = child.snap
    BY <1>13 DEF LogInv, RewriteLog, TempLog
  <2>3. PICK u : /\ Traced(temp \o diff, u) /\ u[Len(temp) + Len(diff)] = t[Len(diff)]
                 /\ Len(temp \o diff) = Len(temp) + Len(diff)
    BY <2>1, <2>2, TracedConcat
  <2>4. Traced(file', u) /\ u[Len(file')] = db' /\ disk'.synced = Len(file')
    BY <1>3, <1>13, <2>1, <2>3
  <2>5. ServesLog'
    BY <1>1, <1>5, <1>6, <2>4, ServeNext
  <2>6. \A g \in disk'.older : g \in disk.older \/ Came(g, owed)
    <3>1. d.synced \in Nat
      BY <1>9, <1>10
    <3>2. \A g \in Images(file, d.synced) : Came(g, owed)
      BY <1>5, <1>11, <3>1, ImagesCame
    <3>3. Unrenamed(d) \subseteq disk.older
      BY <1>9 DEF Unrenamed
    <3> QED
      BY <1>13, <3>2, <3>3
  <2>7. OlderLog'
    BY <1>6, <2>6, OlderNext DEF LogInv, FileLog
  <2>8. RewriteLog'
    BY <1>13 DEF RewriteLog
  <2> QED
    BY <1>1, <1>4, <1>7, <2>5, <2>7, <2>8 DEF LogInv, FileLog, LoadsLog, LeavesLog
<1> QED
  BY <1>8, <1>12, <1>13 DEF aof_rewrite_cron, aof_rewrite_finalize, aof_rewrite_cleanup, rewriteVars

\* The child's walk: nothing visited, everything visited, one key more.
LEMMA VisitEnds ==
  ASSUME NEW d \in Ageless
  PROVE  Visited(d, {k \in Keys : Exists(d, k)}) = db_create /\ Visited(d, {}) = d
<1>1. d \in Database /\ NoOrphan(d)
  BY DEF Ageless
<1>2. d = [keyspace |-> d.keyspace, expires |-> d.expires]
      /\ d.keyspace \in [Keys -> Values \cup {Absent}] /\ d.expires \in [Keys -> Nat]
  BY <1>1 DEF Database
<1>3. [k \in Keys |-> d.keyspace[k]] = d.keyspace /\ [k \in Keys |-> d.expires[k]] = d.expires
  BY <1>2
<1>4. Visited(d, {}) = d
  BY <1>2, <1>3 DEF Visited
<1>5. PICK T : T = {k \in Keys : Exists(d, k)}
  OBVIOUS
<1>6. \A k \in Keys : k \notin T => d.keyspace[k] = Absent /\ d.expires[k] = NoTtl
  BY <1>1, <1>5 DEF NoOrphan, HasTtl, Exists
<1>7. /\ [k \in Keys |-> IF k \in T THEN Absent ELSE d.keyspace[k]] = [k \in Keys |-> Absent]
      /\ [k \in Keys |-> IF k \in T THEN NoTtl ELSE d.expires[k]] = [k \in Keys |-> NoTtl]
  BY <1>6
<1>8. Visited(d, T) = db_create
  BY <1>7 DEF Visited, db_create
<1> QED
  BY <1>4, <1>5, <1>8

LEMMA VisitOne ==
  ASSUME NEW d \in Ageless, NEW T \in SUBSET Keys, NEW k \in T, Exists(d, k),
         NEW r, r = IF d.expires[k] # NoTtl THEN Rec("SETEX", k, d.keyspace[k], d.expires[k])
                                            ELSE Rec("SET", k, d.keyspace[k], NoTtl)
  PROVE  Lasting(r) /\ Takes(Visited(d, T), r, Visited(d, T \ {k}))
<1>1. d \in Database /\ (\A j \in Keys : d.expires[j] = 0 \/ d.expires[j] >= MaxClock) /\ k \in Keys
  BY DEF Ageless
<1>2. d.keyspace \in [Keys -> Values \cup {Absent}] /\ d.expires \in [Keys -> Nat]
  BY <1>1 DEF Database
<1>3. PICK v, e : v = d.keyspace[k] /\ e = d.expires[k]
  OBVIOUS
<1>4. v \in Values /\ e \in Nat /\ (e = 0 \/ e >= MaxClock)
  BY <1>1, <1>2, <1>3 DEF Exists
<1>5. PICK x, y, K, E : /\ x = Visited(d, T) /\ y = Visited(d, T \ {k})
                        /\ K = [j \in Keys |-> IF j \in T THEN Absent ELSE d.keyspace[j]]
                        /\ E = [j \in Keys |-> IF j \in T THEN NoTtl ELSE d.expires[j]]
  OBVIOUS
<1>6. x = [keyspace |-> K, expires |-> E]
  BY <1>5 DEF Visited
<1>7. [K EXCEPT ![k] = v] = [j \in Keys |-> IF j \in T \ {k} THEN Absent ELSE d.keyspace[j]]
  BY <1>1, <1>3, <1>5
<1>8. [E EXCEPT ![k] = e] = [j \in Keys |-> IF j \in T \ {k} THEN NoTtl ELSE d.expires[j]]
  BY <1>1, <1>3, <1>5
<1>9. e = NoTtl => [E EXCEPT ![k] = e] = E
  BY <1>1, <1>5
<1>10. PICK L, F : L = [K EXCEPT ![k] = v] /\ F = [E EXCEPT ![k] = e]
  OBVIOUS
<1>11. y = [keyspace |-> L, expires |-> F]
  BY <1>5, <1>7, <1>8, <1>10 DEF Visited
<1>12. CASE e # NoTtl
  <2>1. r = Rec("SETEX", k, v, e) /\ e > 0 /\ ~(e < 0)
    BY <1>3, <1>4, <1>12 DEF NoTtl
  <2>2. Lasting(r)
    BY <1>1, <1>4, <2>1 DEF Lasting, Record, Rec
  <2>3. r.op = "SETEX" /\ r.key = k /\ r.val = v /\ r.exp = e
    BY <2>1 DEF Rec
  <2>4. Play(x, r) = db_setex(x, k, v, e)
    BY <2>1, <2>3 DEF Play, aof_replay_record, Opcodes
  <2>5. PutTtl(PutVal(x, k, v), k, e) = y
    <3>1. PutVal(x, k, v) = [keyspace |-> L, expires |-> E]
      BY <1>6, <1>10 DEF PutVal
    <3> QED
      BY <1>10, <1>11, <3>1 DEF PutTtl
  <2>6. db_setex(x, k, v, e) = Result(TRUE, y)
    BY <2>1, <2>5 DEF db_setex
  <2> QED
    BY <1>5, <2>2, <2>4, <2>6 DEF Takes
<1>13. CASE e = NoTtl
  <2>1. r = Rec("SET", k, v, NoTtl)
    BY <1>3, <1>13
  <2>2. Lasting(r)
    BY <1>1, <1>4, <2>1 DEF Lasting, Record, Rec, NoTtl
  <2>3. r.op = "SET" /\ r.key = k /\ r.val = v /\ r.exp = 0 /\ ~(r.exp > 0)
    BY <2>1 DEF Rec, NoTtl
  <2>4. Play(x, r) = db_set(x, k, v)
    BY <2>3 DEF Play, aof_replay_record, Opcodes
  <2>5. PutVal(x, k, v) = y
    BY <1>6, <1>9, <1>10, <1>11, <1>13 DEF PutVal
  <2> QED
    BY <1>5, <2>2, <2>4, <2>5 DEF Takes, db_set
<1> QED
  BY <1>12, <1>13

\* The child of a rewrite that may still succeed writes what it visits.
LEMMA TempStep ==
  ASSUME NoLostRecords, Core, ClockOK, rwState = "ACTIVE", DiffLog, TempLog, Child
  PROVE  TempLog'
<1>1. child \in [st : {"none", "failed", "ok"} \cup Running, snap : Database, todo : SUBSET Keys]
      /\ (\A k \in child.todo : Exists(child.snap, k))
  BY DEF Core, RewriteOK, SnapOK
<1>2. child.snap \in Ageless
  <2>1. PICK t : Diffed(diff, t, child.snap)
    BY DEF DiffLog
  <2>2. Len(diff) \in Nat
    BY <2>1 DEF Diffed
  <2> QED
    BY <2>1, <2>2 DEF Diffed
<1>3. ASSUME NEW t, ChildFails(t) PROVE TempLog'
  <2>1. child'.st = "failed"
    BY <1>1, <1>3 DEF ChildFails
  <2> QED
    BY <2>1 DEF TempLog
<1>4. CASE child' = [child EXCEPT !.st = "walking"] /\ temp' = <<HEADER>> /\ child.st = "opening"
  <2>1. child'.st = "walking" /\ child'.snap = child.snap /\ child'.todo = {k \in Keys : Exists(child.snap, k)}
    BY <1>1, <1>4 DEF TempLog
  <2>2. Visited(child'.snap, child'.todo) = db_create
    BY <1>2, <2>1, VisitEnds
  <2>3. PICK s : s = [i \in 1..1 |-> db_create]
    OBVIOUS
  <2>4. Traced(temp', s) /\ s[Len(temp')] = db_create
    BY <1>4, <2>3, TracedHeader
  <2> QED
    BY <2>1, <2>2, <2>4 DEF TempLog
<1>5. ASSUME NEW k \in Keys, ChildWalk(k), child.st = "walking" PROVE TempLog'
  <2>1. k \in child.todo
    BY <1>5 DEF ChildWalk
  <2>2. PICK e, c, T : e = child.snap.expires[k] /\ c = child.snap /\ T = child.todo
    OBVIOUS
  <2>3. PICK r : r = IF c.expires[k] # NoTtl THEN Rec("SETEX", k, c.keyspace[k], c.expires[k])
                                             ELSE Rec("SET", k, c.keyspace[k], NoTtl)
    OBVIOUS
  <2>4. Lasting(r) /\ Takes(Visited(c, T), r, Visited(c, T \ {k}))
    BY <1>1, <1>2, <2>1, <2>2, <2>3, VisitOne
  <2>5. ~(e # NoTtl /\ e < clock)
    <3>1. e \in Nat /\ (e = 0 \/ e >= MaxClock) /\ MaxClock \in Nat /\ clock \in 1..MaxClock
      BY <1>2, <2>2, AofAssumption DEF Ageless, Database, ClockOK
    <3> QED
      BY <3>1 DEF NoTtl
  <2>6. ~Oversize(r)
    BY DEF NoLostRecords, Oversize
  <2>7. \/ child' = [child EXCEPT !.todo = @ \ {k}] /\ temp' = Append(temp, r)
        \/ \E t : ChildFails(t)
    BY <1>5, <2>2, <2>3, <2>5, <2>6 DEF ChildWalk
  <2>8. CASE child' = [child EXCEPT !.todo = @ \ {k}] /\ temp' = Append(temp, r)
    <3>1. child'.st = "walking" /\ child'.snap = c /\ child'.todo = T \ {k}
      BY <1>1, <1>5, <2>2, <2>8
    <3>2. PICK s : Traced(temp, s) /\ s[Len(temp)] = Visited(c, T)
      BY <1>5, <2>2 DEF TempLog
    <3>3. PICK x : x = Visited(c, T \ {k})
      OBVIOUS
    <3>4. Traced(temp, s) /\ Lasting(r) /\ Takes(s[Len(temp)], r, x)
      BY <2>4, <3>2, <3>3
    <3>5. PICK u : Traced(Append(temp, r), u) /\ u[Len(temp) + 1] = x /\ Agree(u, s, Len(temp))
      BY <3>4, TracedAppend
    <3>6. Len(Append(temp, r)) = Len(temp) + 1
      <4>1. temp \in Seq(Entry) /\ r \in Entry
        BY <2>4, <3>2, EntryFacts DEF Traced, Lasting
      <4> QED
        BY <4>1, AppendProperties
    <3> QED
      BY <2>8, <3>1, <3>3, <3>5, <3>6 DEF TempLog
  <2> QED
    BY <1>3, <2>7, <2>8
<1>6. CASE child' = [child EXCEPT !.st = "ok"] /\ temp' = temp /\ child.st = "walking" /\ child.todo = {}
  <2>1. child'.st = "ok" /\ child'.snap = child.snap
    BY <1>1, <1>6
  <2>2. Visited(child.snap, child.todo) = child.snap
    BY <1>2, <1>6, VisitEnds
  <2> QED
    BY <1>6, <2>1, <2>2 DEF TempLog
<1> QED
  BY <1>3, <1>4, <1>5, <1>6 DEF Child, ChildOpen, ChildWalk, ChildExit

\* Steps that touch neither the database nor the live file.
LEMMA QuietStep ==
  ASSUME NoLostRecords, Core, Core', BootInv, LogInv, cmd_bgrewriteaof \/ Child \/ ClockTick, Observe
  PROVE  LogInv'
<1>1. Alive /\ UNCHANGED <<phase, db, file, disk, pos, req, now>>
  BY DEF Alive, cmd_bgrewriteaof, ClockTick, Child, ChildOpen, ChildWalk, ChildExit, ChildFails,
         ChildOnly, serverVars, diskVars
<1>2. FileLog' /\ ToldOK'
  BY <1>1, StillStep DEF LogInv
<1>3. CASE cmd_bgrewriteaof
  <2>1. phase = "serving" /\ UNCHANGED clock
    BY <1>3 DEF cmd_bgrewriteaof, Idle
  <2>2. CASE UNCHANGED <<rwState, diff, child>>
    BY <1>1, <1>2, <1>3, <2>1, <2>2 DEF LogInv, ClockOK, RewriteLog, DiffLog, TempLog, cmd_bgrewriteaof
  <2>3. CASE diff' = <<>> /\ child' = [st |-> "opening", snap |-> db, todo |-> {k \in Keys : Exists(db, k)}]
    <3>1. db \in Ageless
      BY <2>1, ServesAgeless DEF LogInv, FileLog
    <3>2. PICK t : t = [i \in 0..0 |-> db]
      OBVIOUS
    <3>3. Len(diff') = 0 /\ diff' \in Seq(Record)
      BY <2>3
    <3>4. Diffed(diff', t, db) /\ t[Len(diff')] = db
      BY <3>1, <3>2, <3>3 DEF Diffed
    <3>5. child'.st = "opening" /\ child'.snap = db /\ child'.todo = {k \in Keys : Exists(db, k)}
      BY <2>3
    <3>6. DiffLog' /\ TempLog'
      BY <1>1, <3>4, <3>5 DEF DiffLog, TempLog
    <3> QED
      BY <1>1, <1>2, <2>1, <3>6 DEF LogInv, ClockOK, RewriteLog
  <2> QED
    BY <1>3, <2>2, <2>3 DEF cmd_bgrewriteaof
<1>4. CASE Child
  <2>1. UNCHANGED <<rwState, diff, clock>> /\ (child' = [child EXCEPT !.st = child'.st, !.todo = child'.todo])
    BY <1>4 DEF Child, ChildOpen, ChildWalk, ChildExit, ChildFails, ChildOnly, Core, RewriteOK, SnapOK
  <2>2. child'.snap = child.snap
    BY <2>1 DEF Core, RewriteOK, SnapOK
  <2>3. rwState = "ACTIVE" => TempLog'
    BY <1>4, TempStep DEF LogInv, RewriteLog
  <2>4. rwState = "ACTIVE" => phase' = "serving" /\ DiffLog'
    BY <1>1, <2>1, <2>2 DEF LogInv, RewriteLog, DiffLog
  <2> QED
    BY <1>1, <1>2, <2>1, <2>3, <2>4 DEF LogInv, ClockOK, RewriteLog
<1>5. CASE ClockTick
  <2>1. clock' \in 1..MaxClock
    BY <1>5, AofAssumption DEF ClockTick, LogInv, ClockOK
  <2>2. UNCHANGED <<rwState, diff, child, temp>>
    BY <1>5 DEF ClockTick, rewriteVars
  <2> QED
    BY <1>1, <1>2, <2>1, <2>2 DEF LogInv, ClockOK, RewriteLog, DiffLog, TempLog
<1> QED
  BY <1>3, <1>4, <1>5

\* A start-up replays the whole log, and stops at torn bytes only.
LEMMA LoadFacts ==
  ASSUME ClockOK, NEW f, NEW s, Traced(f, s), file \in {f, Append(f, TORN)}, pos \in 1..Len(f), db = s[pos]
  PROVE  /\ pos < Len(f) => pos < Len(file) /\ Replay(pos + 1) = Result(TRUE, s[pos + 1])
         /\ pos = Len(f) => \/ pos = Len(file) /\ file = f
                            \/ /\ pos < Len(file) /\ file[pos + 1] = TORN /\ file = Append(f, TORN)
                               /\ Replay(pos + 1) = Result(FALSE, db)
<1>1. f \in Seq(Entry) /\ Len(f) \in Nat /\ TORN \in Entry
  BY EntryFacts DEF Traced
<1>2. /\ file \in Seq(Entry) /\ Len(file) \in {Len(f), Len(f) + 1}
      /\ \A i \in 1..Len(f) : file[i] = f[i]
      /\ file = f \/ (file = Append(f, TORN) /\ Len(file) = Len(f) + 1 /\ file[Len(f) + 1] = TORN)
  BY <1>1, AppendProperties
<1>3. ASSUME pos < Len(f) PROVE pos < Len(file) /\ Replay(pos + 1) = Result(TRUE, s[pos + 1])
  <2>1. pos + 1 \in 2..Len(f) /\ pos + 1 \in 1..Len(f) /\ (pos + 1) - 1 = pos /\ pos < Len(file)
    BY <1>1, <1>2, <1>3
  <2>2. PICK i, r : i = pos + 1 /\ r = f[i]
    OBVIOUS
  <2>3. Lasting(r) /\ Play(s[pos], r) = Result(TRUE, s[i])
    BY <2>1, <2>2 DEF Traced
  <2>4. clock \in Nat /\ clock <= MaxClock
    BY AofAssumption DEF ClockOK
  <2>5. aof_replay_record(db, r, clock) = Play(db, r)
    BY <2>3, <2>4, PlayAnyTime
  <2>6. file[pos + 1] = r
    BY <1>2, <2>1, <2>2
  <2> QED
    BY <2>1, <2>2, <2>3, <2>5, <2>6 DEF Replay
<1>4. ASSUME pos = Len(f)
      PROVE  \/ pos = Len(file) /\ file = f
             \/ /\ pos < Len(file) /\ file[pos + 1] = TORN /\ file = Append(f, TORN)
                /\ Replay(pos + 1) = Result(FALSE, db)
  <2>1. CASE file = f
    BY <1>4, <2>1
  <2>2. CASE file = Append(f, TORN) /\ Len(file) = Len(f) + 1 /\ file[Len(f) + 1] = TORN
    <3>1. file[pos + 1] = TORN /\ pos < Len(file)
      BY <1>1, <1>4, <2>2
    <3>2. Replay(pos + 1) = Result(FALSE, db)
      BY <3>1, TornStops DEF Replay
    <3> QED
      BY <2>2, <3>1, <3>2
  <2> QED
    BY <1>2, <2>1, <2>2
<1> QED
  BY <1>3, <1>4

\* What a start-up owes when it begins to serve.
LEMMA OwedServes ==
  ASSUME phase # "serving", phase' = "serving", req' = req, Observe
  PROVE  \/ OnDevice' /\ owed' = {db'}
         \/ OnDevice /\ owed' = {db'}
         \/ owed' = owed \cup {db'}
BY DEF Observe, Settles

\* A start-up.
LEMMA StartStep ==
  ASSUME NoLostRecords, Core, Core', BootInv, LogInv, Start, Observe
  PROVE  LogInv'
<1>1. Alive /\ phase # "serving" /\ UNCHANGED <<clock, req, rwState>> /\ now' \in {now, clock}
  BY DEF Alive, Start, StartFresh, StartLoad, StartRefused, LoadRecord, LoadStop, rewriteVars, vars, serverVars
<1>2. ClockOK' /\ RewriteLog'
  BY <1>1, AofAssumption DEF LogInv, ClockOK, RewriteLog
<1>3. ToldOK'
  BY <1>1, Observed DEF LogInv, ToldOK
<1>4. disk \in [synced : Nat, older : SUBSET Seq(Entry)]
  BY DEF Core, DiskOK
<1>5. CASE StartFresh
  <2>1. phase' = "serving" /\ file' = <<HEADER>> /\ disk' = disk /\ db' = db_create
    BY <1>5 DEF StartFresh, NoLostRecords, BootInv
  <2>2. PICK s : s = [i \in 1..1 |-> db_create]
    OBVIOUS
  <2>3. Traced(file', s) /\ Len(file') = 1 /\ s[1] = db_create
    BY <2>1, <2>2, TracedHeader
  <2>4. db_create \in owed'
    BY <2>1, Observed
  <2>5. Durable(file', s, disk'.synced, owed')
    BY <2>3, <2>4 DEF Durable
  <2>6. OlderLog'
    <3>1. disk.older = {} \/ owed \subseteq owed'
      BY <1>1, <2>1, OwedServes DEF OnDevice
    <3> QED
      BY <2>1, <3>1, CameMore DEF LogInv, FileLog, OlderLog
  <2> QED
    BY <1>2, <1>3, <2>1, <2>3, <2>5, <2>6 DEF LogInv, FileLog, ServesLog, LoadsLog, LeavesLog
<1>6. CASE StartLoad
  <2>1. phase = "down" /\ phase' = "loading" /\ Headed(file) /\ pos' = 1 /\ UNCHANGED <<db, file, disk>>
    BY <1>6 DEF StartLoad, Headed, diskVars
  <2>2. file \notin {<<>>, <<TORN>>}
    BY <2>1 DEF Headed, HEADER, TORN, Rec
  <2>3. PICK f, s : FileIs(f, s)
    BY <2>1, <2>2 DEF LogInv, FileLog, LeavesLog
  <2>4. owed' = owed /\ Options' = Options
    BY <2>1, Observed
  <2>5. FileIs(f, s)'
    BY <2>1, <2>3, <2>4 DEF FileIs
  <2>6. db = db_create /\ s[1] = db_create /\ 1 \in 1..Len(f)
    BY <2>1, <2>3, HeadedFacts DEF BootInv, FileIs, Traced
  <2> QED
    BY <1>2, <1>3, <2>1, <2>4, <2>5, <2>6 DEF LogInv, FileLog, ServesLog, LoadsLog, LeavesLog, OlderLog
<1>7. CASE StartRefused
  <2>1. UNCHANGED <<phase, db, file, disk, pos, req>>
    BY <1>7 DEF StartRefused, vars, serverVars, diskVars
  <2> QED
    BY <1>1, <1>2, <2>1, StillStep DEF LogInv
<1>8. CASE phase = "loading" /\ (LoadRecord \/ LoadStop)
  <2>1. PICK f, s : FileIs(f, s) /\ pos \in 1..Len(f) /\ db = s[pos]
    BY <1>8 DEF LogInv, FileLog, LoadsLog
  <2>2. Traced(f, s) /\ file \in {f, Append(f, TORN)} /\ Durable(f, s, disk.synced, owed) /\ ClockOK
    BY <2>1 DEF FileIs, LogInv
  <2>3. f \in Seq(Entry) /\ Len(f) \in Nat
    BY <2>2 DEF Traced
  <2>4. \/ pos < Len(f) /\ pos < Len(file) /\ Replay(pos + 1) = Result(TRUE, s[pos + 1])
        \/ pos = Len(f) /\ pos = Len(file) /\ file = f
        \/ /\ pos = Len(f) /\ pos < Len(file) /\ file = Append(f, TORN)
           /\ Replay(pos + 1) = Result(FALSE, db)
    <3>1. pos < Len(f) \/ pos = Len(f)
      BY <2>1, <2>3
    <3> QED
      BY <2>1, <2>2, <3>1, LoadFacts
  <2>5. CASE LoadRecord
    <3>1. phase' = "loading" /\ pos < Len(file) /\ Replay(pos + 1).ok /\ db' = Replay(pos + 1).db
          /\ pos' = pos + 1 /\ UNCHANGED <<file, disk>>
      BY <2>5 DEF LoadRecord, diskVars
    <3>2. pos < Len(f) /\ Replay(pos + 1) = Result(TRUE, s[pos + 1])
      <4>1. pos \in Nat /\ Len(file) \in Nat
        BY <2>1 DEF Core, ServerOK, DiskOK
      <4> QED
        BY <2>4, <3>1, <4>1 DEF Result
    <3>3. owed' = owed /\ Options' = Options
      BY <3>1, Observed
    <3>4. FileIs(f, s)'
      BY <2>1, <3>1, <3>3 DEF FileIs
    <3>5. pos' \in 1..Len(f) /\ db' = s[pos']
      <4>1. db' = s[pos + 1]
        BY <3>1, <3>2 DEF Result
      <4> QED
        BY <2>1, <2>3, <3>1, <3>2, <4>1
    <3> QED
      BY <1>2, <1>3, <3>1, <3>3, <3>4, <3>5 DEF LogInv, FileLog, ServesLog, LoadsLog, LeavesLog, OlderLog
  <2>6. CASE LoadStop
    <3>1. /\ phase' = "serving" /\ file' = SubSeq(file, 1, pos)
          /\ disk' = [synced |-> IF disk.synced < pos THEN disk.synced ELSE pos,
                      older  |-> disk.older \cup Uncut]
          /\ \/ pos = Len(file) /\ db' = db
             \/ pos < Len(file) /\ ~Replay(pos + 1).ok /\ db' = Replay(pos + 1).db
      BY <2>6 DEF LoadStop, NoLostRecords
    <3>2. pos = Len(f) /\ db' = s[Len(f)]
      <4>1. pos \in Nat /\ Len(file) \in Nat
        BY <2>1 DEF Core, ServerOK, DiskOK
      <4> QED
        BY <2>1, <2>4, <3>1, <4>1 DEF Result
    <3>3. file' = f
      <4>1. file \in Seq(Entry) /\ Len(f) <= Len(file) /\ (\A i \in 1..Len(f) : file[i] = f[i]) /\ Len(file) \in Nat
        BY <2>2, <2>3, EntryFacts, AppendProperties
      <4>2. Len(f) \in 0..Len(file)
        BY <2>3, <4>1
      <4>3. SubSeq(file, 1, Len(f)) \in Seq(Entry) /\ Len(SubSeq(file, 1, Len(f))) = Len(f)
            /\ \A i \in 1..Len(f) : SubSeq(file, 1, Len(f))[i] = file[i]
        BY <4>1, <4>2, SubSeqProperties
      <4>4. \A i \in 1..Len(f) : SubSeq(file, 1, Len(f))[i] = f[i]
        BY <4>1, <4>3
      <4> QED
        BY <2>3, <3>1, <3>2, <4>3, <4>4, SeqEqual
    <3>4. disk'.older = disk.older \cup Uncut /\ disk'.synced = (IF disk.synced < pos THEN disk.synced ELSE pos)
          /\ disk'.synced \in Nat /\ disk.synced \in Nat
      BY <1>4, <2>1, <3>1
    <3>5. \/ OnDevice' /\ owed' = {db'}
          \/ OnDevice /\ owed' = {db'}
          \/ owed' = owed \cup {db'}
      BY <1>1, <3>1, OwedServes
    <3>6. ASSUME ~(OnDevice' /\ owed' = {db'})
          PROVE  Durable(f, s, disk.synced, owed') /\ (disk.older = {} \/ owed \subseteq owed')
      <4>1. CASE OnDevice /\ owed' = {db'}
        <5>1. disk.synced = Len(file) /\ disk.older = {}
          BY <4>1 DEF OnDevice
        <5>2. Len(file) \in Nat /\ Len(file) >= Len(f) /\ Len(f) >= 1
          BY <2>1, <2>2, <2>3, EntryFacts, AppendProperties
        <5>3. s[Len(f)] \in owed' /\ disk.synced # 0 /\ \A m \in 1..Len(f) : m >= disk.synced => m = Len(f)
          BY <2>3, <3>2, <4>1, <5>1, <5>2
        <5> QED
          BY <5>1, <5>3 DEF Durable
      <4>2. CASE owed' = owed \cup {db'}
        BY <2>2, <4>2 DEF Durable
      <4> QED
        BY <3>5, <3>6, <4>1, <4>2
    <3>7. Durable(f, s, disk'.synced, owed')
      <4>1. s[Len(f)] \in owed'
        BY <3>2, <3>5
      <4>2. CASE disk'.synced = Len(f)
        <5>1. Len(f) # 0 /\ \A m \in 1..Len(f) : m >= Len(f) => m = Len(f)
          BY <2>1, <2>3
        <5> QED
          BY <4>1, <4>2, <5>1 DEF Durable
      <4>3. CASE disk'.synced # Len(f)
        <5>1. disk'.synced = disk.synced
          BY <3>2, <3>4, <4>3
        <5>2. ~OnDevice'
          BY <3>3, <4>3 DEF OnDevice
        <5> QED
          BY <3>6, <5>1, <5>2
      <4> QED
        BY <4>2, <4>3
    <3>8. OlderLog'
      <4>1. CASE OnDevice' /\ owed' = {db'}
        BY <4>1 DEF OnDevice, OlderLog
      <4>2. CASE ~(OnDevice' /\ owed' = {db'})
        <5>1. Durable(f, s, disk.synced, owed') /\ (disk.older = {} \/ owed \subseteq owed')
          BY <3>6, <4>2
        <5>2. ASSUME NEW g \in Images(file, disk.synced) PROVE Came(g, owed')
          BY <2>2, <3>4, <5>1, ImagesCame
        <5>3. ASSUME NEW g \in disk.older PROVE Came(g, owed')
          BY <5>1, CameMore DEF LogInv, FileLog, OlderLog
        <5>4. Uncut \subseteq Images(file, disk.synced)
          BY DEF Uncut
        <5> QED
          BY <3>4, <5>2, <5>3, <5>4 DEF OlderLog
      <4> QED
        BY <4>1, <4>2
    <3>9. ServesLog'
      BY <2>2, <3>2, <3>3, <3>7 DEF ServesLog
    <3> QED
      BY <1>2, <1>3, <3>1, <3>8, <3>9 DEF LogInv, FileLog, LoadsLog, LeavesLog
  <2> QED
    BY <1>8, <2>5, <2>6
<1> QED
  BY <1>5, <1>6, <1>7, <1>8 DEF Start, LoadRecord, LoadStop

\* A file that came back is the file of a process that is gone.
LEMMA CrashStep ==
  ASSUME Core, Core', BootInv, LogInv, Crash
  PROVE  LogInv'
<1>1. /\ phase # "down" /\ phase' = "down" /\ req' = "idle" /\ now' = 0 /\ clock' = clock /\ rwState' = "IDLE"
      /\ UNCHANGED <<acked, inflight, owed>>
  BY DEF Crash, on_shutdown, Kill, PowerLoss, Forget
<1>2. ClockOK' /\ ToldOK' /\ RewriteLog'
  BY <1>1, AofAssumption DEF LogInv, ClockOK, ToldOK, RewriteLog
<1>3. disk.synced \in Nat /\ phase \in {"loading", "serving"}
  BY <1>1 DEF Core, DiskOK, ServerOK
<1>4. PICK f, s : FileIs(f, s) /\ (Idle => file = f)
  <2>1. CASE phase = "serving"
    <3>1. PICK s : Traced(file, s) /\ s[Len(file)] = db /\ Durable(file, s, disk.synced, owed)
      BY <2>1 DEF LogInv, FileLog, ServesLog
    <3>2. db \in Options
      BY <2>1 DEF LogInv, ToldOK, Options
    <3> QED
      BY <3>1, <3>2 DEF FileIs, Granted
  <2>2. CASE phase = "loading"
    BY <2>2 DEF LogInv, FileLog, LoadsLog, Idle
  <2> QED
    BY <1>3, <2>1, <2>2
<1>5. CASE (on_shutdown \/ Kill) /\ UNCHANGED lost
  <2>1. disk' = disk /\ (file' = file \/ (Idle /\ file' = Append(file, TORN)))
    BY <1>5 DEF on_shutdown, Kill, diskVars
  <2>2. Options' = Options
    BY <1>1, <1>5 DEF Options
  <2>3. FileIs(f, s)'
    BY <1>1, <1>4, <2>1, <2>2 DEF FileIs
  <2>4. OlderLog'
    BY <1>1, <2>1 DEF LogInv, FileLog, OlderLog
  <2> QED
    BY <1>1, <1>2, <2>3, <2>4 DEF LogInv, FileLog, ServesLog, LoadsLog, LeavesLog
<1>6. CASE PowerLoss /\ lost' = TRUE
  <2>1. file' \in Images(file, disk.synced) \cup disk.older
        /\ disk' = [synced |-> Len(file'), older |-> {}]
    BY <1>6 DEF PowerLoss
  <2>2. Options' = owed
    BY <1>1, <1>6 DEF Options
  <2>3. Came(file', owed)
    <3>1. Traced(f, s) /\ Durable(f, s, disk.synced, owed) /\ file \in {f, Append(f, TORN)}
      BY <1>4 DEF FileIs
    <3>2. file' \in Images(file, disk.synced) => Came(file', owed)
      BY <1>3, <3>1, ImagesCame
    <3>3. file' \in disk.older => Came(file', owed)
      BY DEF LogInv, FileLog, OlderLog
    <3> QED
      BY <2>1, <3>2, <3>3
  <2>4. ASSUME NEW g, NEW t, Traced(g, t), file' \in {g, Append(g, TORN)}, Granted(t[Len(g)], owed)
        PROVE  FileIs(g, t)'
    <3>1. Len(g) \in Nat /\ Len(g) >= 1 /\ g \in Seq(Entry)
      BY <2>4, HeadedFacts DEF Traced
    <3>2. Len(file') \in Nat /\ Len(file') >= Len(g)
      BY <2>4, <3>1, EntryFacts, AppendProperties
    <3>3. disk'.synced = Len(file') /\ owed' = owed
      BY <1>1, <2>1
    <3>4. \A m \in 1..Len(g) : m >= disk'.synced => m = Len(g)
      BY <3>1, <3>2, <3>3
    <3>5. disk'.synced # 0
      BY <3>1, <3>2, <3>3
    <3>6. Durable(g, t, disk'.synced, owed')
      BY <2>4, <3>3, <3>4, <3>5 DEF Durable, Granted
    <3> QED
      BY <2>2, <2>4, <3>3, <3>6 DEF FileIs
  <2>5. LeavesLog'
    BY <2>2, <2>3, <2>4 DEF LeavesLog, Came
  <2>6. OlderLog'
    BY <2>1 DEF OlderLog
  <2> QED
    BY <1>1, <1>2, <2>5, <2>6 DEF LogInv, FileLog, ServesLog, LoadsLog
<1> QED
  BY <1>5, <1>6 DEF Crash

\* Every step.
LEMMA LogStep ==
  ASSUME NothingLapses, NoLostRecords, Core, Core', BootInv, LogInv, [HNext]_<<vars, history>>
  PROVE  LogInv'
<1>1. CASE Alive /\ Observe
  BY <1>1, CommandStep, ReplyStep, QuietStep, TickStep, StartStep DEF Alive
<1>2. CASE Crash
  BY <1>2, CrashStep
<1>3. CASE UNCHANGED <<vars, history>>
  <2>1. /\ UNCHANGED <<clock, now, phase, db, req, pos, file, disk, rwState, diff, child, temp>>
        /\ UNCHANGED <<acked, inflight, owed, lost>>
    BY <1>3 DEF vars, history, serverVars, diskVars, rewriteVars
  <2>2. Options' = Options
    BY <2>1 DEF Options
  <2>3. ASSUME NEW f, NEW s, FileIs(f, s) PROVE FileIs(f, s)'
    BY <2>1, <2>2, <2>3 DEF FileIs
  <2>4. FileLog'
    BY <2>1, <2>2, <2>3 DEF LogInv, FileLog, ServesLog, LoadsLog, LeavesLog, OlderLog
  <2> QED
    BY <2>1, <2>4 DEF LogInv, ClockOK, ToldOK, RewriteLog, DiffLog, TempLog
<1> QED
  BY <1>1, <1>2, <1>3 DEF HNext

LEMMA LogInit == HInit => LogInv
<1> SUFFICES ASSUME HInit PROVE LogInv
  OBVIOUS
<1>1. ClockOK /\ OlderLog /\ ToldOK /\ RewriteLog /\ ServesLog /\ LoadsLog
  BY AofAssumption DEF HInit, Init, ClockOK, OlderLog, ToldOK, RewriteLog, ServesLog, LoadsLog
<1>2. LeavesLog
  BY DEF HInit, Init, LeavesLog, Granted, Options
<1> QED
  BY <1>1, <1>2 DEF LogInv, FileLog

LEMMA LogAlways ==
  ASSUME NothingLapses, NoLostRecords
  PROVE  HSpec => [](Core /\ BootInv /\ LogInv)
<1>1. HInit => BootInv /\ LogInv
  BY LogInit DEF HInit, Init, NoChild, BootInv
<1>2. Core /\ Core' /\ BootInv /\ LogInv /\ [HNext]_<<vars, history>> => BootInv' /\ LogInv'
  BY BootStep, LogStep, HStepIsStep
<1> QED
  BY <1>1, <1>2, HCore, PTL DEF HSpec

-------------------------------------------------------------------------------
(* What start-up and compaction may do                                     *)

\* Start-up cuts off damage only: under every policy, with any interleaving of
\* commands, rewrites, kills and power losses, aof_load never stops at a
\* record that was written whole.  The hypotheses are what the code needs: a
\* deadline that lapses between a write and its replay breaks it
\* (MCAofExpiredTruncate.cfg), and so does a record that was never written.
THEOREM OnlyDamageTruncated ==
  ASSUME NothingLapses, NoLostRecords
  PROVE  HSpec => []TruncatesOnlyCorrupt
<1>1. ASSUME Core, LogInv PROVE TruncatesOnlyCorrupt
  <2> SUFFICES ASSUME LoadDone, pos < Len(file) PROVE file[pos + 1] = TORN
    BY DEF TruncatesOnlyCorrupt
  <2>1. phase = "loading" /\ ~Replay(pos + 1).ok
    BY DEF LoadDone
  <2>2. PICK f, s : FileIs(f, s) /\ pos \in 1..Len(f) /\ db = s[pos]
    BY <1>1, <2>1 DEF LogInv, FileLog, LoadsLog
  <2>3. Traced(f, s) /\ file \in {f, Append(f, TORN)} /\ ClockOK
    BY <1>1, <2>2 DEF FileIs, LogInv
  <2>4. pos < Len(f) \/ pos = Len(f)
    BY <2>2, <2>3 DEF Traced
  <2>5. Len(file) \in Nat
    BY <1>1 DEF Core, DiskOK
  <2>6. ~(pos = Len(file))
    BY <2>5
  <2>7. ~(pos < Len(f))
    <3>1. pos < Len(f) => Replay(pos + 1) = Result(TRUE, s[pos + 1])
      BY <2>2, <2>3, LoadFacts
    <3> QED
      BY <2>1, <3>1 DEF Result
  <2>8. pos = Len(f) => pos = Len(file) \/ file[pos + 1] = TORN
    BY <2>2, <2>3, LoadFacts
  <2> QED
    BY <2>4, <2>6, <2>7, <2>8
<1> QED
  BY <1>1, LogAlways, PTL

\* A start-up ends with a database that the crash entitles it to.  After a
\* kill that is every acknowledged command and at most the one in progress;
\* after a power loss, under "always", the same; under "pertick" and "no", one
\* of the databases since everything was last on the device.
THEOREM AlwaysRecoversOwed ==
  ASSUME NothingLapses, NoLostRecords, AckMeansSynced
  PROVE  HSpec => []RecoveredOwed
<1>1. ASSUME Core, LogInv PROVE RecoveredOwed
  <2> SUFFICES ASSUME LoadDone PROVE db \in Options
    BY DEF RecoveredOwed
  <2>1. phase = "loading" /\ (pos < Len(file) => ~Replay(pos + 1).ok)
    BY DEF LoadDone
  <2>2. PICK f, s : FileIs(f, s) /\ pos \in 1..Len(f) /\ db = s[pos]
    BY <1>1, <2>1 DEF LogInv, FileLog, LoadsLog
  <2>3. Traced(f, s) /\ file \in {f, Append(f, TORN)} /\ ClockOK /\ s[Len(f)] \in Options
    BY <1>1, <2>2 DEF FileIs, LogInv, Granted
  <2>4. pos < Len(f) \/ pos = Len(f)
    BY <2>2, <2>3 DEF Traced
  <2>5. pos = Len(f)
    <3>1. pos < Len(f) => pos < Len(file) /\ Replay(pos + 1) = Result(TRUE, s[pos + 1])
      BY <2>2, <2>3, LoadFacts
    <3> QED
      BY <2>1, <2>4, <3>1 DEF Result
  <2> QED
    BY <2>2, <2>3, <2>5
<1> QED
  BY <1>1, LogAlways, PTL

\* The function that ReplayAll defines for the file f.
Replayed(a, f) ==
  a = [i \in 1..Len(f) |->
         IF i = 1 THEN Result(TRUE, db_create)
         ELSE IF a[i - 1].ok THEN aof_replay_record(a[i - 1].db, f[i], clock)
         ELSE a[i - 1]]

\* The whole replay of a log ends where its trace does.
LEMMA ReplayTraced ==
  ASSUME ClockOK, NEW f, NEW s, Traced(f, s)
  PROVE  ReplayAll(f) = Result(TRUE, s[Len(f)])
<1>1. PICK n : n = Len(f)
  OBVIOUS
<1>2. /\ n \in Nat /\ n >= 1 /\ s[1] = db_create
      /\ \A i \in 2..n : Lasting(f[i]) /\ Play(s[i - 1], f[i]) = Result(TRUE, s[i])
  <2>1. f \in Seq(Entry) /\ Headed(f)
    BY DEF Traced
  <2>2. n \in Nat /\ n >= 1
    BY <1>1, <2>1, HeadedFacts
  <2> QED
    BY <1>1, <2>2 DEF Traced
<1>3. clock \in Nat /\ clock <= MaxClock
  BY AofAssumption DEF ClockOK
<1>4. \A i \in 2..n : aof_replay_record(s[i - 1], f[i], clock) = Result(TRUE, s[i])
  BY <1>2, <1>3, PlayAnyTime
<1>5. \A d : Result(TRUE, d).ok /\ Result(TRUE, d).db = d
  BY DEF Result
<1> DEFINE after == CHOOSE a : Replayed(a, f)
<1>6. ReplayAll(f) = after[n]
  BY <1>1 DEF ReplayAll, Replayed
<1>7. Replayed(after, f)
  <2>1. PICK b : b = [i \in 1..n |-> Result(TRUE, s[i])]
    OBVIOUS
  <2>2. ASSUME NEW i \in 1..n
        PROVE  b[i] = IF i = 1 THEN Result(TRUE, db_create)
                      ELSE IF b[i - 1].ok THEN aof_replay_record(b[i - 1].db, f[i], clock)
                      ELSE b[i - 1]
    <3>1. CASE i = 1
      BY <1>2, <2>1, <3>1
    <3>2. CASE i # 1
      <4>1. i \in 2..n /\ i - 1 \in 1..n
        BY <1>2, <3>2
      <4>2. b[i] = Result(TRUE, s[i]) /\ b[i - 1] = Result(TRUE, s[i - 1])
        BY <2>1, <4>1
      <4>3. b[i - 1].ok /\ b[i - 1].db = s[i - 1]
        BY <1>5, <4>2
      <4> QED
        BY <1>4, <3>2, <4>1, <4>2, <4>3
    <3> QED
      BY <3>1, <3>2
  <2>3. Replayed(b, f)
    BY <1>1, <2>1, <2>2 DEF Replayed
  <2> QED
    BY <2>3
<1> HIDE DEF after
<1> DEFINE At(k) == after[k] = Result(TRUE, s[k])
           P == {k \in Nat : k \in 1..n => At(k)}
<1>8. ASSUME NEW i \in 1..n, i # 1 => At(i - 1) PROVE At(i)
  <2>1. after[i] = IF i = 1 THEN Result(TRUE, db_create)
                   ELSE IF after[i - 1].ok THEN aof_replay_record(after[i - 1].db, f[i], clock)
                   ELSE after[i - 1]
    BY <1>1, <1>7 DEF Replayed
  <2>2. CASE i = 1
    BY <1>2, <2>1, <2>2
  <2>3. CASE i # 1
    <3>1. i \in 2..n
      BY <1>2, <2>3
    <3>2. after[i - 1].ok /\ after[i - 1].db = s[i - 1]
      BY <1>5, <1>8, <2>3
    <3> QED
      BY <1>4, <2>1, <2>3, <3>1, <3>2
  <2> QED
    BY <2>2, <2>3
<1> HIDE DEF At
<1>9. ASSUME NEW k \in Nat, k \in P PROVE k + 1 \in P
  <2>1. ASSUME k + 1 \in 1..n PROVE At(k + 1)
    <3>1. (k + 1) - 1 = k /\ (k + 1 # 1 => k \in 1..n)
      BY <1>2, <2>1
    <3>2. k + 1 # 1 => At((k + 1) - 1)
      BY <1>9, <3>1
    <3> QED
      BY <1>8, <2>1, <3>2
  <2> QED
    BY <2>1
<1>10. 0 \in P
  BY <1>2
<1> HIDE DEF P
<1>11. n \in P
  BY <1>2, <1>9, <1>10, NatInductionSet
<1>12. At(n)
  <2>1. n \in 1..n
    BY <1>2
  <2> QED
    BY <1>11, <2>1 DEF P
<1> QED
  BY <1>1, <1>6, <1>12 DEF At

\* A finished rewrite is interchangeable with the file it will replace,
\* whatever was written while the child was at work: the snapshot and the
\* diff, and the live file, replay to the database in memory.
THEOREM CompactionAlwaysFaithful ==
  ASSUME NothingLapses, NoLostRecords
  PROVE  HSpec => []CompactionFaithful
<1>1. ASSUME LogInv PROVE CompactionFaithful
  <2> SUFFICES ASSUME rwState = "ACTIVE", child.st = "ok"
               PROVE  ReplayAll(temp \o diff) = Result(TRUE, db) /\ ReplayAll(file) = Result(TRUE, db)
    BY DEF CompactionFaithful
  <2>1. ClockOK /\ phase = "serving"
    BY <1>1 DEF LogInv, RewriteLog
  <2>2. PICK s : Traced(file, s) /\ s[Len(file)] = db
    BY <1>1, <2>1 DEF LogInv, FileLog, ServesLog
  <2>3. PICK t : Diffed(diff, t, child.snap) /\ t[Len(diff)] = db
    BY <1>1 DEF LogInv, RewriteLog, DiffLog
  <2>4. PICK w : Traced(temp, w) /\ w[Len(temp)] = child.snap
    BY <1>1 DEF LogInv, RewriteLog, TempLog
  <2>5. PICK u : /\ Traced(temp \o diff, u) /\ u[Len(temp) + Len(diff)] = t[Len(diff)]
                 /\ Len(temp \o diff) = Len(temp) + Len(diff)
    BY <2>3, <2>4, TracedConcat
  <2>6. ReplayAll(file) = Result(TRUE, db)
    BY <2>1, <2>2, ReplayTraced
  <2>7. ReplayAll(temp \o diff) = Result(TRUE, db)
    BY <2>1, <2>3, <2>5, ReplayTraced
  <2> QED
    BY <2>6, <2>7
<1> QED
  BY <1>1, LogAlways, PTL

-------------------------------------------------------------------------------
(* The refinement                                                          *)

\* What relates the history to the device: a logged command is not on it yet,
\* and a server all of whose file is on it owes nothing else.
HistoryOK ==
  /\ lost \in BOOLEAN
  /\ phase # "serving" => req = "idle"
  /\ disk.synced <= Len(file)
  /\ req = "logged" => disk.synced < Len(file)
  /\ phase = "serving" /\ OnDevice => owed = {db}

\* The part of it that does not follow from Observe.
DeviceOK ==
  /\ phase # "serving" => req = "idle"
  /\ disk.synced <= Len(file)
  /\ req = "logged" => disk.synced < Len(file)

LEMMA DeviceAlive ==
  ASSUME NothingLapses, NoLostRecords, Core, BootInv, LogInv, DeviceOK, Alive
  PROVE  DeviceOK'
<1>1. file \in Seq(Entry) /\ Len(file) \in Nat /\ disk \in [synced : Nat, older : SUBSET Seq(Entry)]
      /\ temp \in Seq(Entry) /\ diff \in Seq(Record) /\ pos \in Nat
  BY DEF Core, ServerOK, DiskOK, RewriteOK
<1>2. CASE Commands
  <2>1. phase = "serving"
    BY <1>2, CommandFile DEF Idle
  <2>2. db \in Ageless /\ ClockOK
    BY <2>1, ServesAgeless DEF LogInv, FileLog
  <2>3. /\ UNCHANGED <<phase, disk>>
        /\ UNCHANGED <<file, req>> \/ \E r : Logs(r)
    BY <1>2, <2>2, CommandLogs
  <2>4. CASE UNCHANGED <<file, req>>
    BY <2>3, <2>4 DEF DeviceOK
  <2>5. ASSUME NEW r, Logs(r) PROVE DeviceOK'
    <3>1. file' = Append(file, r) /\ r \in Entry
      BY <2>5, EntryFacts DEF Logs, Lasting
    <3>2. Len(file') = Len(file) + 1
      BY <1>1, <3>1, AppendProperties
    <3>3. disk'.synced = disk.synced /\ disk.synced \in Nat /\ phase' = "serving"
      BY <1>1, <2>1, <2>3
    <3> QED
      BY <1>1, <3>2, <3>3 DEF DeviceOK
  <2> QED
    BY <2>3, <2>4, <2>5
<1>3. CASE reply_ok
  <2>1. req' = "idle" /\ file' = file /\ disk' \in {disk, Flushed}
    BY <1>3 DEF reply_ok
  <2>2. disk'.synced <= Len(file)
    BY <1>1, <2>1 DEF Flushed, DeviceOK
  <2> QED
    BY <2>1, <2>2 DEF DeviceOK
<1>4. CASE cmd_bgrewriteaof \/ Child \/ ClockTick
  BY <1>4 DEF cmd_bgrewriteaof, ClockTick, Child, ChildOpen, ChildWalk, ChildExit, ChildFails,
              ChildOnly, serverVars, diskVars, DeviceOK
<1>5. ASSUME NEW due \in BOOLEAN, before_sleep(due) PROVE DeviceOK'
  <2>1. phase' = "serving" /\ req = "idle" /\ req' = req
    BY <1>5 DEF before_sleep, Idle
  <2>2. PICK d \in {disk, Flushed} :
          \/ file' = file /\ disk' = d
          \/ /\ file' = temp \o diff
             /\ disk' = [synced |-> Len(temp) + Len(diff),
                         older  |-> Unrenamed(d) \cup Images(file, d.synced)]
    BY <1>5, TickFiles
  <2>3. CASE file' = file /\ disk' = d
    BY <1>1, <2>1, <2>2, <2>3 DEF Flushed, DeviceOK
  <2>4. CASE /\ file' = temp \o diff
             /\ disk' = [synced |-> Len(temp) + Len(diff),
                         older  |-> Unrenamed(d) \cup Images(file, d.synced)]
    <3>1. diff \in Seq(Entry)
      BY <1>1 DEF Entry
    <3>2. Len(file') = Len(temp) + Len(diff) /\ Len(temp) \in Nat /\ Len(diff) \in Nat
      BY <1>1, <2>4, <3>1, ConcatProperties
    <3>3. disk'.synced = Len(file')
      BY <2>4, <3>2
    <3>4. disk'.synced <= Len(file')
      BY <3>2, <3>3
    <3> QED
      BY <2>1, <3>4 DEF DeviceOK
  <2> QED
    BY <2>2, <2>3, <2>4
<1>6. CASE Start
  <2>1. phase # "serving" /\ req = "idle" /\ req' = req
    BY <1>6 DEF Start, StartFresh, StartLoad, StartRefused, LoadRecord, LoadStop, vars, serverVars, DeviceOK
  <2>2. CASE StartFresh
    <3>1. file = <<>> /\ file' = <<HEADER>> /\ disk' = disk
      BY <2>2 DEF StartFresh, NoLostRecords
    <3>2. Len(file) = 0 /\ Len(file') = 1 /\ disk.synced \in Nat
      BY <1>1, <3>1
    <3>3. disk'.synced <= Len(file')
      BY <3>1, <3>2 DEF DeviceOK
    <3> QED
      BY <2>1, <3>3 DEF DeviceOK
  <2>3. CASE StartLoad \/ StartRefused \/ LoadRecord
    BY <2>1, <2>3 DEF StartLoad, StartRefused, LoadRecord, diskVars, vars, DeviceOK
  <2>4. CASE LoadStop
    <3>1. file' = SubSeq(file, 1, pos) /\ pos \in 1..Len(file)
          /\ disk' = [synced |-> IF disk.synced < pos THEN disk.synced ELSE pos,
                      older  |-> disk.older \cup Uncut]
      BY <2>4 DEF LoadStop, NoLostRecords, BootInv
    <3>2. Len(file') = pos
      BY <1>1, <3>1, SubSeqProperties
    <3>3. disk'.synced <= pos
      BY <1>1, <3>1
    <3> QED
      BY <2>1, <3>2, <3>3 DEF DeviceOK
  <2> QED
    BY <1>6, <2>2, <2>3, <2>4 DEF Start
<1> QED
  BY <1>2, <1>3, <1>4, <1>5, <1>6 DEF Alive

LEMMA HistoryStep ==
  ASSUME NothingLapses, NoLostRecords, Core, Core', BootInv, LogInv, HistoryOK, [HNext]_<<vars, history>>
  PROVE  HistoryOK'
<1>0. DeviceOK /\ lost \in BOOLEAN
  BY DEF HistoryOK, DeviceOK
<1>1. CASE Alive /\ Observe
  <2>1. DeviceOK'
    BY <1>0, <1>1, DeviceAlive
  <2>2. lost' \in BOOLEAN
    BY <1>1 DEF Observe
  <2>3. phase' = "serving" /\ OnDevice' => owed' = {db'}
    BY <1>1 DEF Observe, Settles
  <2> QED
    BY <2>1, <2>2, <2>3 DEF HistoryOK, DeviceOK
<1>2. CASE Crash
  <2>1. phase' = "down" /\ req' = "idle" /\ lost' \in BOOLEAN
    BY <1>0, <1>2 DEF Crash, on_shutdown, Kill, PowerLoss, Forget
  <2>2. file \in Seq(Entry) /\ Len(file) \in Nat /\ Len(file') \in Nat /\ TORN \in Entry /\ disk.synced \in Nat
    BY EntryFacts DEF Core, DiskOK
  <2>3. Len(Append(file, TORN)) = Len(file) + 1
    BY <2>2, AppendProperties
  <2>4. CASE disk' = disk /\ (file' = file \/ file' = Append(file, TORN))
    <3>1. disk'.synced <= Len(file')
      BY <1>0, <2>2, <2>3, <2>4 DEF DeviceOK
    <3> QED
      BY <2>1, <3>1 DEF HistoryOK
  <2>5. CASE disk' = [synced |-> Len(file'), older |-> {}]
    <3>1. disk'.synced <= Len(file')
      BY <2>2, <2>5
    <3> QED
      BY <2>1, <3>1 DEF HistoryOK
  <2> QED
    BY <1>2, <2>4, <2>5 DEF Crash, on_shutdown, Kill, PowerLoss, diskVars
<1>3. CASE UNCHANGED <<vars, history>>
  BY <1>3 DEF vars, history, serverVars, diskVars, HistoryOK, OnDevice
<1> QED
  BY <1>1, <1>2, <1>3 DEF HNext

\* Nothing is told, and nothing more is owed, by a step that leaves the
\* database, the file and the request alone.
LEMMA NothingTold ==
  ASSUME AckMeansSynced, LogInv, HistoryOK, Observe, UNCHANGED <<phase, db, req, file, disk>>
  PROVE  UNCHANGED <<acked, inflight, owed, lost>>
<1>1. CASE phase # "serving"
  BY <1>1 DEF Observe, HistoryOK
<1>2. CASE phase = "serving"
  <2>1. inflight = db /\ (req = "idle" => acked = db) /\ lost = FALSE
    BY <1>2 DEF LogInv, ToldOK, HistoryOK
  <2>2. db \in owed
    BY <1>2 DEF LogInv, FileLog, ServesLog, Durable
  <2>3. Settles => owed = {db}
    BY <1>2 DEF Settles, OnDevice, HistoryOK
  <2>4. owed' = owed
    BY <1>2, <2>2, <2>3 DEF Observe
  <2> QED
    BY <1>2, <2>1, <2>4 DEF Observe
<1> QED
  BY <1>1, <1>2

\* A database is one of the things it may have become by expiry.
LEMMA RemainsSelf ==
  ASSUME NEW d \in Ageless
  PROVE  d \in Promise!Remains(d)
<1>1. d \in Database
  BY DEF Ageless
<1>2. d = [keyspace |-> d.keyspace, expires |-> d.expires]
      /\ d.keyspace \in [Keys -> Values \cup {Absent}] /\ d.expires \in [Keys -> Nat]
  BY <1>1 DEF Database
<1>3. [k \in Keys |-> d.keyspace[k]] = d.keyspace /\ [k \in Keys |-> d.expires[k]] = d.expires
  BY <1>2
<1>4. Promise!Without(d, {}) = d
  BY <1>2, <1>3 DEF Promise!Without
<1> QED
  BY <1>4 DEF Promise!Remains

\* What a logged record does is an outcome that the promise knows.
LEMMA OutcomeOf ==
  ASSUME NEW d, NEW r, Lasting(r), r.op \in {"SETEX", "EXPIRE"} => r.exp \in Due,
         NEW x, Takes(d, r, x)
  PROVE  x \in Promise!Outcomes(d)
<1>1. r \in Record /\ r.key \in Keys /\ r.exp \in Nat /\ r.op \in Opcodes
      /\ (r.op \in {"SET", "SETEX"} => r.val \in Values)
  BY EntryFacts DEF Lasting, Record
<1>2. ~(r.exp > 0 /\ r.exp < 0)
  BY <1>1
<1>3. PICK k, v, e : k = r.key /\ v = r.val /\ e = r.exp
  OBVIOUS
<1> DEFINE Q == {Promise!db_set(d, k, w) : w \in Values}
                  \cup {Promise!db_setex(d, k, w, a) : w \in Values, a \in Due}
                  \cup {Promise!db_key_expire(d, k, a) : a \in Due}
                  \cup {Promise!db_persist(d, k), Promise!db_del(d, k)}
<1>4. Play(d, r) \in Q
  <2>1. Play(d, r) = CASE r.op = "SET"     -> db_set(d, k, v)
                       [] r.op = "SETEX"   -> db_setex(d, k, v, e)
                       [] r.op = "DEL"     -> db_del(d, k)
                       [] r.op = "EXPIRE"  -> db_key_expire(d, k, e)
                       [] r.op = "PERSIST" -> db_persist(d, k)
    BY <1>1, <1>2, <1>3 DEF Play, aof_replay_record
  <2>2. /\ Promise!db_set(d, k, v) = db_set(d, k, v)
        /\ Promise!db_setex(d, k, v, e) = db_setex(d, k, v, e)
        /\ Promise!db_del(d, k) = db_del(d, k)
        /\ Promise!db_key_expire(d, k, e) = db_key_expire(d, k, e)
        /\ Promise!db_persist(d, k) = db_persist(d, k)
    BY DEF Promise!db_set, Promise!db_setex, Promise!db_del, Promise!db_key_expire, Promise!db_persist,
           Promise!Result, Promise!PutVal, Promise!PutTtl, Promise!Exists, Promise!HasTtl, Promise!NoTtl,
           db_set, db_setex, db_del, db_key_expire, db_persist, Result, PutVal, PutTtl, Exists, HasTtl, NoTtl
  <2> QED
    BY <1>1, <1>3, <2>1, <2>2 DEF Opcodes
<1>5. Play(d, r).ok /\ Play(d, r).db = x
  BY DEF Takes, Result
<1>6. x \in {q.db : q \in {p \in Q : p.ok}}
  BY <1>4, <1>5
<1> QED
  BY <1>1, <1>3, <1>6 DEF Promise!Outcomes, Due

\* Every step of the server is a step of the promise, or none.
LEMMA PromiseStep ==
  ASSUME NothingLapses, NoLostRecords, AckMeansSynced, Core, Core', BootInv, LogInv, HistoryOK,
         [HNext]_<<vars, history>>
  PROVE  [Promise!Next]_(Promise!vars)
<1>1. phase = "serving" => /\ inflight = db /\ (req = "idle" => acked = db) /\ lost = FALSE
                           /\ db \in owed /\ db \in Ageless
  <2>1. phase = "serving" => db \in owed
    BY DEF LogInv, FileLog, ServesLog, Durable
  <2>2. phase = "serving" => db \in Ageless
    BY ServesAgeless DEF LogInv, FileLog
  <2> QED
    BY <2>1, <2>2 DEF LogInv, ToldOK, HistoryOK
<1>2. ASSUME Observe, UNCHANGED <<clock, phase, db, req, file, disk>>
      PROVE  UNCHANGED Promise!vars
  BY <1>2, NothingTold DEF Promise!vars
<1>3. ASSUME Idle, phase' = "serving", db' = db, req' = req, clock' = clock, Observe
      PROVE  Promise!Tidy
  <2>1. phase = "serving" /\ inflight = db /\ acked = db /\ lost = FALSE /\ db \in Ageless /\ req' = "idle"
    BY <1>1, <1>3 DEF Idle
  <2>2. acked' = db /\ inflight' = db /\ lost' = lost /\ owed' \in {owed \cup {db}, {db}}
    BY <1>3, <2>1 DEF Observe
  <2> QED
    BY <1>3, <2>1, <2>2, RemainsSelf DEF Promise!Tidy
<1>4. CASE Commands /\ Observe
  <2>1. Idle /\ phase = "serving" /\ req = "idle"
    BY <1>4, CommandFile DEF Idle
  <2>2. /\ UNCHANGED <<clock, phase, disk>>
        /\ UNCHANGED <<db, file, req>> \/ \E r : Logs(r)
    BY <1>1, <1>4, <2>1, CommandLogs DEF LogInv
  <2>3. CASE UNCHANGED <<db, file, req>>
    BY <1>3, <1>4, <2>1, <2>2, <2>3 DEF Promise!Next
  <2>4. ASSUME NEW r, Logs(r) PROVE Promise!Submit
    <3>1. Lasting(r) /\ Takes(db, r, db') /\ (r.op \in {"SETEX", "EXPIRE"} => r.exp \in Due)
          /\ file' = Append(file, r) /\ req' = "logged"
      BY <2>4 DEF Logs, Takes
    <3>2. PICK x : x = db'
      OBVIOUS
    <3>3. x \in Promise!Outcomes(db)
      BY <3>1, <3>2, OutcomeOf
    <3>4. ~OnDevice'
      <4>1. file \in Seq(Entry) /\ r \in Entry /\ Len(file) \in Nat /\ disk.synced \in Nat
        BY <3>1, EntryFacts DEF Core, DiskOK, Lasting
      <4>2. Len(file') = Len(file) + 1
        BY <3>1, <4>1, AppendProperties
      <4>3. disk'.synced # Len(file')
        BY <2>2, <4>1, <4>2 DEF HistoryOK
      <4> QED
        BY <4>3 DEF OnDevice
    <3>5. ~Settles
      BY <2>1, <3>4 DEF Settles
    <3>6. inflight' = x /\ acked' = acked /\ owed' = owed \cup {x} /\ lost' = lost
      BY <1>1, <1>4, <2>1, <2>2, <3>1, <3>2, <3>5 DEF Observe
    <3> QED
      BY <1>1, <2>1, <2>2, <3>3, <3>6 DEF Promise!Submit
  <2> QED
    BY <2>2, <2>3, <2>4 DEF Promise!Next
<1>5. CASE reply_ok /\ Observe
  <2>1. phase = "serving" /\ phase' = "serving" /\ req # "idle" /\ req' = "idle" /\ UNCHANGED <<clock, db, file>>
    BY <1>5 DEF reply_ok
  <2>2. acked' = db /\ inflight' = db /\ lost' = lost
    BY <1>1, <1>5, <2>1 DEF Observe
  <2>3. owed' = IF Policy = "always" THEN {db} ELSE owed
    <3>1. CASE Policy = "always"
      BY <1>5, <2>1, <3>1 DEF Observe, Settles
    <3>2. CASE Policy # "always"
      <4>1. disk' = disk /\ req = "logged"
        BY <1>5, <2>1, <3>2 DEF reply_ok, LogInv, ToldOK
      <4>2. Len(file) \in Nat /\ disk.synced \in Nat
        BY DEF Core, DiskOK
      <4>3. ~OnDevice'
        BY <2>1, <4>1, <4>2 DEF OnDevice, HistoryOK
      <4>4. ~Settles
        BY <2>1, <3>2, <4>3 DEF Settles
      <4> QED
        BY <1>1, <1>5, <2>1, <3>2, <4>4 DEF Observe
    <3> QED
      BY <3>1, <3>2
  <2>4. Promise!Ack
    BY <1>1, <2>1, <2>2, <2>3 DEF Promise!Ack
  <2> QED
    BY <2>4 DEF Promise!Next
<1>6. CASE (cmd_bgrewriteaof \/ Child) /\ Observe
  <2>1. UNCHANGED <<clock, phase, db, req, file, disk>>
    BY <1>6 DEF cmd_bgrewriteaof, Child, ChildOpen, ChildWalk, ChildExit, ChildFails, ChildOnly,
                serverVars, diskVars
  <2> QED
    BY <1>2, <1>6, <2>1
<1>7. CASE ClockTick /\ Observe
  <2>1. UNCHANGED <<phase, db, req, file, disk>> /\ clock' = clock + 1
    BY <1>7 DEF ClockTick, serverVars, diskVars
  <2>2. Promise!Tick
    BY <1>7, <2>1, NothingTold DEF Promise!Tick
  <2> QED
    BY <2>2 DEF Promise!Next
<1>8. ASSUME NEW due \in BOOLEAN, before_sleep(due), Observe PROVE Promise!Tidy
  <2>1. Idle /\ phase' = "serving" /\ req' = req
    BY <1>8 DEF before_sleep, Idle
  <2>2. UNCHANGED <<db, clock>>
    BY <1>1, <1>8, <2>1, TickKeeps DEF Idle, LogInv
  <2> QED
    BY <1>3, <1>8, <2>1, <2>2
<1>9. CASE Start /\ Observe
  <2>1. phase # "serving" /\ req = "idle" /\ UNCHANGED <<clock, req>>
    BY <1>9 DEF Start, StartFresh, StartLoad, StartRefused, LoadRecord, LoadStop, vars, serverVars, HistoryOK
  <2>2. ASSUME phase' = "serving", db' \in Options, db' \in Ageless PROVE Promise!Recover
    <3>1. acked' = db' /\ inflight' = db' /\ lost' = FALSE /\ owed' \in {owed \cup {db'}, {db'}}
      BY <1>9, <2>1, <2>2 DEF Observe, HistoryOK
    <3>2. PICK x : x = db'
      OBVIOUS
    <3>3. x \in Promise!Remains(x) /\ x \in Promise!Options
      BY <2>2, <3>2, RemainsSelf DEF Promise!Options, Options
    <3> QED
      BY <2>1, <2>2, <3>1, <3>2, <3>3 DEF Promise!Recover
  <2>3. CASE phase' # "serving"
    BY <1>9, <2>1, <2>3 DEF Observe, HistoryOK, Promise!vars
  <2>4. CASE StartFresh /\ phase' = "serving"
    <3>1. phase = "down" /\ file = <<>> /\ db' = db_create
      BY <2>4 DEF StartFresh, BootInv
    <3>2. db_create \in Ageless
      BY GoodCreate DEF Good, Ageless, db_create, NoTtl
    <3>3. ASSUME NEW f, NEW s, FileIs(f, s) PROVE FALSE
      <4>1. f \in Seq(Entry) /\ Len(f) \in Nat /\ Len(f) >= 1 /\ file \in {f, Append(f, TORN)} /\ TORN \in Entry
        BY <3>3, HeadedFacts, EntryFacts DEF FileIs, Traced
      <4>2. Len(file) >= 1
        BY <4>1, AppendProperties
      <4> QED
        BY <3>1, <4>2
    <3>4. db_create \in Options
      BY <3>1, <3>3 DEF LogInv, FileLog, LeavesLog, Granted
    <3> QED
      BY <2>2, <2>4, <3>1, <3>2, <3>4 DEF Promise!Next
  <2>5. CASE LoadStop
    <3>1. phase = "loading" /\ phase' = "serving"
          /\ \/ pos = Len(file) /\ db' = db
             \/ pos < Len(file) /\ ~Replay(pos + 1).ok /\ db' = Replay(pos + 1).db
      BY <2>5 DEF LoadStop
    <3>2. PICK f, s : FileIs(f, s) /\ pos \in 1..Len(f) /\ db = s[pos]
      BY <3>1 DEF LogInv, FileLog, LoadsLog
    <3>3. Traced(f, s) /\ file \in {f, Append(f, TORN)} /\ s[Len(f)] \in Options /\ ClockOK
      BY <3>2 DEF FileIs, LogInv, Granted
    <3>4. pos = Len(f) /\ db' = db
      <4>1. (pos < Len(f) \/ pos = Len(f)) /\ pos \in Nat /\ Len(file) \in Nat
        BY <3>2, <3>3 DEF Traced, Core, DiskOK
      <4>2. pos < Len(f) => pos < Len(file) /\ Replay(pos + 1) = Result(TRUE, s[pos + 1])
        BY <3>2, <3>3, LoadFacts
      <4>3. pos = Len(f) => pos = Len(file) \/ Replay(pos + 1) = Result(FALSE, db)
        BY <3>2, <3>3, LoadFacts
      <4>4. pos < Len(file) => pos # Len(file)
        BY <4>1
      <4> QED
        BY <3>1, <4>1, <4>2, <4>3, <4>4 DEF Result
    <3>5. db' \in Options /\ db' \in Ageless
      BY <3>2, <3>3, <3>4 DEF Traced
    <3> QED
      BY <2>2, <3>1, <3>5 DEF Promise!Next
  <2> QED
    BY <1>9, <2>3, <2>4, <2>5 DEF Start, StartLoad, StartRefused, LoadRecord, vars, serverVars
<1>10. CASE Crash
  <2>1. phase' = "down" /\ clock' = clock /\ UNCHANGED <<acked, inflight, owed>>
    BY <1>10 DEF Crash, on_shutdown, Kill, PowerLoss, Forget
  <2>2. lost' = lost \/ lost' = TRUE
    BY <1>10 DEF Crash
  <2> QED
    BY <2>1, <2>2 DEF Promise!Next, Promise!Killed, Promise!PowerFails
<1>11. CASE UNCHANGED <<vars, history>>
  BY <1>11 DEF vars, history, serverVars, Promise!vars
<1> QED
  BY <1>4, <1>5, <1>6, <1>7, <1>8, <1>9, <1>10, <1>11 DEF HNext, Alive, Promise!Next

\* aof.c with the history of its clients implements DurableStore: every
\* behaviour of the server, its rewrite child and the device, with any number
\* of kills and power losses, is one of a store that loses nothing it must
\* keep, under each of the three fsync policies.
THEOREM KeepsPromise ==
  ASSUME NothingLapses, NoLostRecords, AckMeansSynced
  PROVE  HSpec => ImplementsPromise
<1>1. HInit => HistoryOK
  <2> SUFFICES ASSUME HInit PROVE HistoryOK
    OBVIOUS
  <2>1. file = <<>> /\ disk.synced = 0 /\ phase = "down" /\ req = "idle" /\ lost = FALSE
    BY DEF HInit, Init
  <2>2. disk.synced <= Len(file)
    BY <2>1
  <2> QED
    BY <2>1, <2>2 DEF HistoryOK
<1>2. HInit => Promise!Init
  BY DEF HInit, Init, Promise!Init, Promise!db_create, db_create, Promise!NoTtl, NoTtl
<1>3. Core /\ Core' /\ BootInv /\ LogInv /\ HistoryOK /\ [HNext]_<<vars, history>>
        => HistoryOK' /\ [Promise!Next]_(Promise!vars)
  BY HistoryStep, PromiseStep
<1> QED
  BY <1>1, <1>2, <1>3, LogAlways, PTL DEF HSpec, ImplementsPromise, Promise!Spec
===============================================================================
