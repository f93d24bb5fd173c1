----------------------------- MODULE AofDurability -----------------------------
(***************************************************************************)
(* What aof.c makes durable, stated with history variables over Aof and as *)
(* a refinement of DurableStore.                                           *)
(***************************************************************************)
EXTENDS Aof

CONSTANT MaxCrashes  \* bound: how often the server may go down

ASSUME CrashAssumption == MaxCrashes \in Nat

VARIABLES
  acked,     \* the database as of the last "+OK" (or recovery)
  inflight,  \* the database with the command being handled
  owed,      \* what a power loss now may take the server back to
  lost,      \* has the power failed since the server last served?
  crashes    \* how often it went down

history == <<acked, inflight, owed, lost, crashes>>

\* What a crash entitles the server to come back with.
Options == IF lost THEN owed ELSE {acked, inflight}

HInit ==
  /\ Init
  /\ acked = db_create /\ inflight = db_create
  /\ owed = {db_create} /\ lost = FALSE /\ crashes = 0

OnDevice == disk.synced = Len(file) /\ disk.older = {}

\* Nothing older is owed any more once "+OK" was sent under "always", and
\* once a flush (or, for a recovery, the crash) left nothing to write.
Settles ==
  \/ Policy = "always" /\ req # "idle" /\ req' = "idle"
  \/ OnDevice'
  \/ phase # "serving" /\ OnDevice

\* The history of a step of a live server: what clients see is what is in
\* memory once the server serves.
Observe ==
  /\ acked' = IF phase' = "serving" /\ req' = "idle" THEN db' ELSE acked
  /\ inflight' = IF phase' = "serving" THEN db' ELSE inflight
  /\ owed' = IF phase' # "serving" THEN owed
             ELSE IF Settles THEN {db'} ELSE owed \cup {db'}
  /\ lost' = (lost /\ phase' # "serving")
  /\ UNCHANGED crashes

Crash ==
  /\ crashes < MaxCrashes
  /\ \/ (on_shutdown \/ Kill) /\ UNCHANGED lost
     \/ PowerLoss /\ lost' = TRUE
  /\ crashes' = crashes + 1
  /\ UNCHANGED <<acked, inflight, owed>>

HNext == (Alive /\ Observe) \/ Crash

HSpec == HInit /\ [][HNext]_<<vars, history>>

HFairSpec == HSpec /\ ChildFairness /\ ServerFairness /\ FlushFairness

-------------------------------------------------------------------------------
(* Properties                                                              *)

Visible(d) ==
  [k \in Live(d, clock) |-> [val |-> d.keyspace[k], exp |-> d.expires[k]]]

LoadDone == phase = "loading" /\ (pos < Len(file) => ~Replay(pos + 1).ok)

\* A start-up ends with a database the crash entitles it to: after a killed
\* process, every acknowledged command and at most the one in progress; after
\* a power loss, no less than what had reached the device, and in the order
\* the commands were executed.  ("every command that returned `+OK` is on
\* disk and survives a power loss", README.md, for appendfsync always.)
RecoveredOwed == LoadDone => Visible(db) \in {Visible(d) : d \in Options}

\* The whole replay of a file, as aof_load would do it now.
ReplayAll(f) ==
  LET after[i \in 1..Len(f)] ==
        IF i = 1 THEN Result(TRUE, db_create)
        ELSE IF after[i - 1].ok THEN aof_replay_record(after[i - 1].db, f[i], clock)
        ELSE after[i - 1]
  IN  after[Len(f)]

\* A finished rewrite is interchangeable with the file it will replace: the
\* snapshot the child wrote, then the diff, replays without an error to the
\* database that the live file replays to, which is the one in memory.
CompactionFaithful ==
  rwState = "ACTIVE" /\ child.st = "ok"
    => /\ ReplayAll(temp \o diff) = Result(TRUE, db)
       /\ ReplayAll(file) = Result(TRUE, db)

\* A server that owes its clients data after a crash finds a file that it can
\* start from: it neither refuses a damaged header nor starts afresh.
RestartsWithData ==
  phase = "down" /\ db_create \notin Options => file # <<>> /\ file[1] = HEADER

\* Start-up truncates the file at damage only ("truncates at first corrupt
\* record", aof.h), never at a record that was written whole.
TruncatesOnlyCorrupt ==
  LoadDone /\ pos < Len(file) => file[pos + 1] = TORN

\* aof.c, under the faults of the instance, implements DurableStore.
Promise == INSTANCE DurableStore WITH
  SyncOnAck <- Policy = "always",
  Deadlines <- {t + s : t \in 0..MaxClock, s \in Ttls},
  up        <- phase = "serving"

ImplementsPromise == Promise!Spec
===============================================================================
