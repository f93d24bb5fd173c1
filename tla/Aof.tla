---------------------------------- MODULE Aof ----------------------------------
(***************************************************************************)
(* Persistence: aof.c, with the command handlers of command.c that write   *)
(* to the AOF and the parts of server.c that run it (init_server,          *)
(* before_sleep).  aof_enabled is yes.                                     *)
(*                                                                         *)
(* Three actors: the server process (one thread, so a handler runs to its  *)
(* reply before anything else of the server happens), the rewrite child    *)
(* (a forked copy with its own snapshot), and the world (the wall clock,   *)
(* kill, power loss).                                                      *)
(*                                                                         *)
(* A file is the sequence of things written to it: the 32-byte header,     *)
(* then records.  TORN stands for bytes that are not a whole header or     *)
(* record with a matching CRC.  Unsynced entries sit in the page cache.    *)
(***************************************************************************)
EXTENDS Db, Sequences

CONSTANTS
  Ttls,          \* TTLs a client may ask for, in clock units (seconds * 1000)
  Policy,        \* appendfsync: "no", "pertick" or "always"
  BufMax,        \* aof_rewrite_buf_max_size, the limit of the diff buffer, in records
  Big,           \* keys and values that make a record exceed AOF_RECORD_MAX
  Faults,        \* system calls that may fail in this instance
  RenameDurable, \* does a later fsync also make earlier renames and truncations durable?
  FreedKeyLost,  \* may the sweep's freed key string stop spelling the key?
  MaxClock,      \* bound: last instant of the wall clock
  MaxFile        \* bound: commands stop when the file has this many entries

FaultKinds == {"write", "fsync", "realloc", "fork", "child", "finalize", "truncate"}

ASSUME AofAssumption ==
  /\ Ttls \subseteq Nat \ {0}
  /\ Policy \in {"no", "pertick", "always"}
  /\ BufMax \in Nat
  /\ Faults \subseteq FaultKinds
  /\ RenameDurable \in BOOLEAN
  /\ FreedKeyLost \in BOOLEAN
  /\ MaxClock \in Nat \ {0}
  /\ MaxFile \in Nat

VARIABLES
  clock,    \* CLOCK_REALTIME
  now,      \* server.now_realtime_ms: the clock as of the last tick
  phase,    \* "down", "loading" (aof_load) or "serving" (el_run)
  db,       \* server.db
  req,      \* the mutating command being handled: "idle" if there is none,
            \* "logged" or "unlogged" once aof_append has tried to write it
  file,     \* the file named aof_filename, as the page cache has it
  disk,     \* what the device holds: see Images below
  dirty,    \* server.aof_buf_dirty
  pos,      \* aof_load: entries accepted so far (valid_end)
  pipe,     \* is there a byte in the shutdown self-pipe?
  rwState,  \* server.aof_rewrite_state
  diff,     \* server.aof_rewrite_buf, as records
  child,    \* the rewrite child: its progress, snapshot and keys still to visit
  temp      \* server.aof_temp_filename, as the page cache has it

serverVars  == <<now, phase, db, req, dirty, pos, pipe>>
diskVars    == <<file, disk>>
rewriteVars == <<rwState, diff, child, temp>>
vars == <<clock, serverVars, diskVars, rewriteVars>>

-------------------------------------------------------------------------------
(* Records and files                                                       *)

Opcodes == {"SET", "SETEX", "DEL", "EXPIRE", "PERSIST"}

Rec(op, k, v, e) == [op |-> op, key |-> k, val |-> v, exp |-> e]

Record ==
  [op : {"SET", "SETEX"}, key : Keys, val : Values, exp : Nat]
    \cup [op : {"DEL", "EXPIRE", "PERSIST"}, key : Keys, val : {Absent}, exp : Nat]

HEADER == Rec("HEADER", Absent, Absent, NoTtl)
TORN   == Rec("TORN", Absent, Absent, NoTtl)
Entry  == Record \cup {HEADER, TORN}

\* aof_serialize refuses a record longer than AOF_RECORD_MAX.
Oversize(r) == r.key \in Big \/ r.val \in Big

\* A write_all that fails may have written part of the record.
PartialWrites(f) == {f, Append(f, TORN)}

\* What a power loss may leave of file f when its first n entries are synced:
\* those and a prefix of the others, cut at an entry or inside one.
Images(f, n) ==
  {SubSeq(f, 1, m) : m \in n..Len(f)}
    \cup {Append(SubSeq(f, 1, m), TORN) : m \in n..(Len(f) - 1)}

\* disk.synced is how many entries of the file are known to be on the device;
\* disk.older is what a power loss may bring back in its place, because the
\* rename that replaced it, or the truncation that cut it, has not reached the
\* device.  Where RenameDurable holds, any later fsync commits those too.
Unrenamed(d) == IF RenameDurable THEN {} ELSE d.older

Flushed == [synced |-> Len(file), older |-> Unrenamed(disk)]

\* Faulty variant: a SETEX record is replayed without its deadline.
ReplayForgetsDeadline(d, r, t) ==
  IF r.op \notin Opcodes THEN Result(FALSE, d)
  ELSE CASE r.op \in {"SET", "SETEX"} -> db_set(d, r.key, r.val)
         [] r.op = "DEL"     -> db_del(d, r.key)
         [] r.op = "EXPIRE"  -> db_key_expire(d, r.key, r.exp)
         [] r.op = "PERSIST" -> db_persist(d, r.key)

\* A record whose deadline has passed is skipped; any other one is executed
\* and fails if the database operation fails.  Torn bytes never get this far:
\* their CRC does not match.
aof_replay_record(d, r, t) ==
  IF r.op \notin Opcodes THEN Result(FALSE, d)
  ELSE IF r.exp > 0 /\ r.exp < t THEN Result(TRUE, d)
  ELSE CASE r.op = "SET"     -> db_set(d, r.key, r.val)
         [] r.op = "SETEX"   -> db_setex(d, r.key, r.val, r.exp)
         [] r.op = "DEL"     -> db_del(d, r.key)
         [] r.op = "EXPIRE"  -> db_key_expire(d, r.key, r.exp)
         [] r.op = "PERSIST" -> db_persist(d, r.key)

-------------------------------------------------------------------------------
(* Initial state: no process, no file.                                     *)

NoChild == [st |-> "none", snap |-> db_create, todo |-> {}]

Init ==
  /\ clock = 1
  /\ now = 0 /\ phase = "down" /\ db = db_create /\ req = "idle"
  /\ dirty = FALSE /\ pos = 0 /\ pipe = FALSE
  /\ file = <<>> /\ disk = [synced |-> 0, older |-> {}]
  /\ rwState = "IDLE" /\ diff = <<>> /\ child = NoChild /\ temp = <<>>

-------------------------------------------------------------------------------
(* Writing                                                                 *)

Idle == phase = "serving" /\ req = "idle"

Running == {"opening", "walking"}

\* The diff buffer is freed and the child sent SIGTERM.  A child that is still
\* running inherited sig_shutdown_handler and the self-pipe: the signal does
\* not end it, its handler writes the shutdown byte that the server reads.
aof_abort_rewrite ==
  /\ rwState' = "ABORTING"
  /\ diff' = <<>>
  /\ pipe' = (pipe \/ child.st \in Running)

\* Faulty variant: a record is not copied to the diff of a running rewrite.
DiffForgets(r) == UNCHANGED <<rwState, diff, pipe>>

\* Faulty variant: the limit of the diff buffer is one record too high.
DiffOverLimit(r) ==
  \/ Len(diff) <= BufMax /\ diff' = Append(diff, r) /\ UNCHANGED <<rwState, pipe>>
  \/ Len(diff) > BufMax /\ aof_abort_rewrite
  \/ "realloc" \in Faults /\ Len(diff) <= BufMax /\ aof_abort_rewrite

aof_emit_diff(r) ==
  \/ /\ Len(diff) < BufMax
     /\ diff' = Append(diff, r)
     /\ UNCHANGED <<rwState, pipe>>
  \/ Len(diff) >= BufMax /\ aof_abort_rewrite
  \/ "realloc" \in Faults /\ Len(diff) < BufMax /\ aof_abort_rewrite

\* aof_append up to the fsync.  No caller looks at its result.
aof_append(r) ==
  \/ /\ ~Oversize(r)
     /\ file' = Append(file, r)
     /\ dirty' = TRUE
     /\ req' = "logged"
     /\ \/ rwState = "ACTIVE" /\ aof_emit_diff(r)
        \/ rwState # "ACTIVE" /\ UNCHANGED <<rwState, diff, pipe>>
  \/ /\ \/ Oversize(r) /\ UNCHANGED file
        \/ ~Oversize(r) /\ "write" \in Faults /\ file' \in PartialWrites(file)
     /\ req' = "unlogged"
     /\ UNCHANGED <<dirty, rwState, diff, pipe>>

\* A mutating command: the database operation, then, if it succeeded, the
\* append.  A command that fails replies -ERR and logs nothing.
Mutate(res, r) ==
  /\ Idle
  /\ Len(file) < MaxFile
  /\ db' = res.db
  /\ \/ res.ok /\ aof_append(r)
     \/ ~res.ok /\ UNCHANGED <<file, dirty, req, rwState, diff, pipe>>
  /\ UNCHANGED <<clock, now, phase, disk, pos, child, temp>>

cmd_set(k, v) == Mutate(db_set(db, k, v), Rec("SET", k, v, NoTtl))

cmd_setex(k, v, s) ==
  Mutate(db_setex(db, k, v, now + s), Rec("SETEX", k, v, now + s))

cmd_expire(k, s) ==
  Mutate(db_key_expire(db, k, now + s), Rec("EXPIRE", k, Absent, now + s))

\* Faulty variant: PERSIST changes the database and logs nothing.
PersistUnlogged(k) ==
  Mutate(Result(FALSE, db_persist(db, k).db), Rec("PERSIST", k, Absent, NoTtl))

cmd_persist(k) == Mutate(db_persist(db, k), Rec("PERSIST", k, Absent, NoTtl))

\* Faulty variant: DEL of a key that does not exist is logged too.
DelLogsMiss(k) ==
  Mutate(Result(TRUE, db_del(db, k).db), Rec("DEL", k, Absent, NoTtl))

cmd_del(k) == Mutate(db_del(db, k), Rec("DEL", k, Absent, NoTtl))

\* Faulty variant: "+OK" is sent and the fsync left for later.
ReplyBeforeFsync ==
  /\ phase = "serving" /\ req # "idle" /\ req' = "idle"
  /\ UNCHANGED <<clock, now, phase, db, dirty, disk, pos, pipe, file, rewriteVars>>

\* The end of a logged command: the fsync of the "always" policy, then "+OK",
\* which is sent whatever aof_append returned.
reply_ok ==
  /\ phase = "serving" /\ req # "idle"
  /\ \/ /\ req = "logged" /\ Policy = "always"
        /\ \/ disk' = Flushed /\ dirty' = FALSE
           \/ "fsync" \in Faults /\ UNCHANGED <<disk, dirty>>
     \/ /\ req = "unlogged" \/ Policy # "always"
        /\ UNCHANGED <<disk, dirty>>
  /\ req' = "idle"
  /\ UNCHANGED <<clock, now, phase, db, pos, pipe, file, rewriteVars>>

\* GET and TTL change nothing but an expired key they look up.
cmd_get(k) ==
  /\ Idle
  /\ db' = db_get(db, k, now).db
  /\ UNCHANGED <<clock, now, phase, req, dirty, pos, pipe, diskVars, rewriteVars>>

-------------------------------------------------------------------------------
(* The rewrite: fork, child, reap                                          *)

\* Faulty variant: the child visits keys that the snapshot does not have.
RewriteVisitsAll ==
  /\ Idle /\ rwState = "IDLE" /\ rwState' = "ACTIVE" /\ diff' = <<>>
  /\ child' = [st |-> "opening", snap |-> db, todo |-> Keys]
  /\ UNCHANGED <<clock, serverVars, diskVars, temp>>

\* BGREWRITEAOF: refused unless IDLE; a failed malloc or fork changes nothing.
cmd_bgrewriteaof ==
  /\ Idle
  /\ \/ /\ rwState = "IDLE"
        /\ rwState' = "ACTIVE"
        /\ diff' = <<>>
        /\ child' = [st |-> "opening", snap |-> db,
                     todo |-> {k \in Keys : Exists(db, k)}]
     \/ /\ rwState # "IDLE" \/ "fork" \in Faults
        /\ UNCHANGED <<rwState, diff, child>>
  /\ UNCHANGED <<clock, serverVars, diskVars, temp>>

ChildOnly == UNCHANGED <<clock, serverVars, diskVars, rwState, diff>>

ChildFails(t) ==
  /\ child' = [child EXCEPT !.st = "failed"]
  /\ temp' \in t
  /\ ChildOnly

\* Faulty variant: the rewritten file starts with its first record.
OpenWithoutHeader ==
  /\ child.st = "opening"
  /\ child' = [child EXCEPT !.st = "walking"]
  /\ temp' = <<>>
  /\ ChildOnly

\* open(O_TRUNC) and the file header
ChildOpen ==
  /\ child.st = "opening"
  /\ \/ /\ child' = [child EXCEPT !.st = "walking"]
        /\ temp' = <<HEADER>>
        /\ ChildOnly
     \/ "child" \in Faults /\ ChildFails({<<>>, <<TORN>>})

\* One turn of the keyspace walk.  The child asks the clock itself.
ChildWalk(k) ==
  LET e == child.snap.expires[k]
      r == IF e # NoTtl THEN Rec("SETEX", k, child.snap.keyspace[k], e)
                        ELSE Rec("SET", k, child.snap.keyspace[k], NoTtl)
      skip == e # NoTtl /\ e < clock
  IN  /\ child.st = "walking" /\ k \in child.todo
      /\ \/ /\ skip \/ ~Oversize(r)
            /\ child' = [child EXCEPT !.todo = @ \ {k}]
            /\ temp' = IF skip THEN temp ELSE Append(temp, r)
            /\ ChildOnly
         \/ ~skip /\ Oversize(r) /\ ChildFails({temp})
         \/ ~skip /\ ~Oversize(r) /\ "child" \in Faults /\ ChildFails(PartialWrites(temp))

\* All keys visited: flush and exit.
ChildExit ==
  /\ child.st = "walking" /\ child.todo = {}
  /\ \/ /\ child' = [child EXCEPT !.st = "ok"]
        /\ UNCHANGED temp
        /\ ChildOnly
     \/ "child" \in Faults /\ ChildFails({temp})

aof_rewrite_cleanup ==
  rwState' = "IDLE" /\ diff' = <<>> /\ child' = NoChild /\ temp' = <<>>

\* Faulty variant: the temp file is renamed without the diff.
FinalizeWithoutDiff(d) ==
  /\ file' = temp
  /\ disk' = [synced |-> Len(temp),
              older  |-> Unrenamed(d) \cup Images(file, d.synced)]
  /\ aof_rewrite_cleanup

\* The temp file, with the diff appended and flushed, takes the live file's
\* name; d is what aof_cron left on the device.  The rename is not followed
\* by a flush of the directory: until something makes it durable, a power
\* loss may bring back the file it replaced.
aof_rewrite_finalize(d) ==
  \/ /\ file' = temp \o diff
     /\ disk' = [synced |-> Len(temp) + Len(diff),
                 older  |-> Unrenamed(d) \cup Images(file, d.synced)]
     /\ aof_rewrite_cleanup
  \/ /\ "finalize" \in Faults
     /\ disk' = d
     /\ UNCHANGED file
     /\ aof_rewrite_cleanup

\* Faulty variant: only an ACTIVE rewrite has its child reaped.
CronIgnoresAborted(due, d) ==
  \/ due /\ rwState = "ACTIVE" /\ child.st = "ok" /\ aof_rewrite_finalize(d)
  \/ /\ due /\ rwState = "ACTIVE" /\ child.st = "failed"
     /\ disk' = d
     /\ UNCHANGED file
     /\ aof_rewrite_cleanup
  \/ /\ ~due \/ rwState # "ACTIVE" \/ child.st \in Running
     /\ disk' = d
     /\ UNCHANGED <<file, rewriteVars>>

\* The reaping half of aof_rewrite_cron; `due` is its once-a-second check.
aof_rewrite_cron(due, d) ==
  \/ /\ due /\ rwState = "ACTIVE" /\ child.st = "ok"
     /\ aof_rewrite_finalize(d)
  \/ /\ due
     /\ \/ rwState = "ABORTING" /\ child.st \in {"ok", "failed"}
        \/ rwState = "ACTIVE" /\ child.st = "failed"
     /\ disk' = d
     /\ UNCHANGED file
     /\ aof_rewrite_cleanup
  \/ /\ ~due \/ rwState = "IDLE" \/ child.st \in Running
     /\ disk' = d
     /\ UNCHANGED <<file, rewriteVars>>

\* Faulty variant: a failed fsync clears the dirty flag too.
CronForgetsFailure(d) == d \in {disk, Flushed} /\ dirty' = FALSE

\* aof_cron: under "pertick" a dirty file is flushed if the interval is up
\* and the fsync succeeds.  d is the device afterwards.
aof_cron(d) ==
  \/ Policy = "pertick" /\ dirty /\ d = Flushed /\ dirty' = FALSE
  \/ d = disk /\ UNCHANGED dirty

\* For either value of active-expire-enabled: with "no" nothing is swept.
active_expire_cron ==
  \E swept \in SUBSET {k \in Keys : Expired(db, k, clock)} :
    \E clobbered \in IF FreedKeyLost THEN SUBSET swept ELSE {{}} :
      db' = db_active_sweep(db, swept, clobbered, clock)

before_sleep(due) ==
  /\ Idle
  /\ now' = clock
  /\ active_expire_cron
  /\ \E d \in {disk, Flushed} : aof_cron(d) /\ aof_rewrite_cron(due, d)
  /\ UNCHANGED <<clock, phase, req, pos, pipe>>

-------------------------------------------------------------------------------
(* Start-up: init_server and aof_load                                      *)

\* No file, or an empty one: start empty and write the header.
StartFresh ==
  /\ phase = "down" /\ file = <<>>
  /\ \/ phase' = "serving" /\ file' = <<HEADER>> /\ now' = clock
     \/ "write" \in Faults /\ file' \in PartialWrites(file) /\ UNCHANGED <<phase, now>>
  /\ UNCHANGED <<clock, db, req, dirty, pos, pipe, disk, rewriteVars>>

\* A file with a good header is replayed from an empty database.
StartLoad ==
  /\ phase = "down" /\ file # <<>> /\ file[1] = HEADER
  /\ phase' = "loading" /\ pos' = 1 /\ now' = clock
  /\ UNCHANGED <<clock, db, req, dirty, pipe, diskVars, rewriteVars>>

\* A short or damaged header: the server refuses to start and exits.
StartRefused ==
  /\ phase = "down" /\ file # <<>> /\ file[1] # HEADER
  /\ UNCHANGED vars

Replay(n) == aof_replay_record(db, file[n], clock)

LoadRecord ==
  /\ phase = "loading" /\ pos < Len(file)
  /\ Replay(pos + 1).ok
  /\ db' = Replay(pos + 1).db
  /\ pos' = pos + 1
  /\ UNCHANGED <<clock, now, phase, req, dirty, pipe, diskVars, rewriteVars>>

\* Faulty variant: the tail that did not replay stays in the file.
LoadKeepsTail ==
  /\ phase = "loading"
  /\ \/ pos = Len(file) /\ UNCHANGED db
     \/ pos < Len(file) /\ ~Replay(pos + 1).ok /\ db' = Replay(pos + 1).db
  /\ phase' = "serving" /\ pos' = 0
  /\ UNCHANGED <<clock, now, req, dirty, pipe, diskVars, rewriteVars>>

\* What a power loss may bring back of a tail that is cut off: ftruncate is
\* not followed by a flush.
Uncut == IF pos < Len(file) THEN Images(file, disk.synced) ELSE {}

\* End of file, a torn record or a record that does not replay: everything
\* from here on is cut off and the server starts serving.
LoadStop ==
  /\ phase = "loading"
  /\ \/ pos = Len(file) /\ UNCHANGED db
     \/ pos < Len(file) /\ ~Replay(pos + 1).ok /\ db' = Replay(pos + 1).db
  /\ \/ /\ file' = SubSeq(file, 1, pos)
        /\ disk' = [synced |-> IF disk.synced < pos THEN disk.synced ELSE pos,
                    older  |-> disk.older \cup Uncut]
     \/ "truncate" \in Faults /\ UNCHANGED diskVars
  /\ phase' = "serving" /\ pos' = 0
  /\ UNCHANGED <<clock, now, req, dirty, pipe, rewriteVars>>

-------------------------------------------------------------------------------
(* The world                                                               *)

ClockTick ==
  /\ clock < MaxClock
  /\ clock' = clock + 1
  /\ UNCHANGED <<serverVars, diskVars, rewriteVars>>

\* The process is gone; the child, if any, no longer matters: its temp file
\* has the dead process's pid in its name and nobody opens it again.
Forget ==
  /\ phase # "down" /\ phase' = "down"
  /\ now' = 0 /\ db' = db_create /\ req' = "idle" /\ dirty' = FALSE
  /\ pos' = 0 /\ pipe' = FALSE
  /\ rwState' = "IDLE" /\ diff' = <<>> /\ child' = NoChild /\ temp' = <<>>
  /\ UNCHANGED clock

\* The event loop reads the self-pipe and stops: shutdown_server flushes and
\* reaps nothing.
on_shutdown == Idle /\ pipe /\ Forget /\ UNCHANGED diskVars

\* The process dies of a signal; the page cache survives.  A write it was in
\* may be cut short.
Kill ==
  /\ Forget
  /\ \/ UNCHANGED file
     \/ Idle /\ Len(file) < MaxFile /\ file' = Append(file, TORN)
  /\ UNCHANGED disk

\* Power loss: the device's view of the file becomes the file.
PowerLoss ==
  /\ Forget
  /\ file' \in Images(file, disk.synced) \cup disk.older
  /\ disk' = [synced |-> Len(file'), older |-> {}]

-------------------------------------------------------------------------------
Commands ==
  \E k \in Keys :
    \/ \E v \in Values : cmd_set(k, v)
    \/ \E v \in Values, s \in Ttls : cmd_setex(k, v, s)
    \/ \E s \in Ttls : cmd_expire(k, s)
    \/ cmd_persist(k)
    \/ cmd_del(k)
    \/ cmd_get(k)

Child == ChildOpen \/ (\E k \in Keys : ChildWalk(k)) \/ ChildExit

Start == StartFresh \/ StartLoad \/ StartRefused \/ LoadRecord \/ LoadStop

Alive ==
  \/ Commands
  \/ reply_ok
  \/ cmd_bgrewriteaof
  \/ \E due \in BOOLEAN : before_sleep(due)
  \/ Child
  \/ Start
  \/ ClockTick

Next == Alive \/ on_shutdown \/ Kill \/ PowerLoss

Spec == Init /\ [][Next]_vars

(***************************************************************************)
(* Fairness.  The child is a process of its own and is never blocked.  A   *)
(* handler and the load loop run to their end.  el_run calls before_sleep  *)
(* once per iteration, an iteration handles finitely many events, and the  *)
(* time its checks wait for passes: both hold again and again, not         *)
(* continuously, because commands are handled in between.                  *)
(***************************************************************************)
ChildFairness ==
  /\ WF_vars(ChildOpen)
  /\ \A k \in Keys : WF_vars(ChildWalk(k))
  /\ WF_vars(ChildExit)

ServerFairness ==
  /\ WF_vars(reply_ok)
  /\ WF_vars(LoadRecord)
  /\ WF_vars(LoadStop)
  /\ SF_vars(before_sleep(TRUE))

\* An fsync does not fail for ever.
FlushFairness == SF_vars(\E due \in BOOLEAN : before_sleep(due) /\ dirty /\ ~dirty')

-------------------------------------------------------------------------------
(* Properties                                                              *)

TypeOK ==
  /\ clock \in Nat /\ now \in Nat
  /\ phase \in {"down", "loading", "serving"}
  /\ db \in Database
  /\ req \in {"idle", "logged", "unlogged"}
  /\ dirty \in BOOLEAN /\ pipe \in BOOLEAN /\ pos \in Nat
  /\ file \in Seq(Entry)
  /\ disk \in [synced : Nat, older : SUBSET Seq(Entry)]
  /\ rwState \in {"IDLE", "ACTIVE", "ABORTING"}
  /\ diff \in Seq(Record)
  /\ child \in [st : {"none", "failed", "ok"} \cup Running,
               snap : Database, todo : SUBSET Keys]
  /\ temp \in Seq(Entry)

\* The two tables never disagree: no deadline without a key, in the server,
\* in the forked snapshot, and at every point of a replay.  (A deadline left
\* behind would be given to the next value stored under that key.)
NoOrphanTtl == NoOrphan(db) /\ NoOrphan(child.snap)

\* The rewrite state machine agrees with the world: a child exists exactly
\* while the state is not IDLE, an aborted rewrite keeps no diff, the diff
\* buffer stays within its limit.
RewriteStateOK ==
  /\ rwState = "IDLE" <=> child.st = "none"
  /\ rwState # "ACTIVE" => diff = <<>>
  /\ Len(diff) <= BufMax

Sound(f) == f # <<>> /\ f[1] = HEADER /\ \A i \in 2..Len(f) : f[i] \in Record

\* While commands are served, the file is a header followed by whole records,
\* whatever crashes, failed children, aborted or half-finished rewrites came
\* before: nothing acknowledged is ever written behind bytes that a replay
\* would stop at.  (If no write to the file and no truncation ever failed.)
ServingFileSound ==
  phase = "serving" /\ Faults \cap {"write", "truncate"} = {} => Sound(file)

\* A rewrite, however it goes, ends in IDLE, so that the next one can start.
RewriteEnds == rwState # "IDLE" ~> rwState = "IDLE"

\* Under "pertick", what was appended reaches the device or the server stops.
AppendedBecomesDurable ==
  Policy = "pertick" /\ dirty ~> disk.synced = Len(file) \/ phase # "serving"

\* An overflowing diff buffer gives up the rewrite, not the server.
AbortKeepsServing == rwState = "ABORTING" => ~pipe
===============================================================================
