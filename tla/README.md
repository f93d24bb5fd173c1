# bytekv: a TLA+ verification project

bytekv (`src/`) is a single-threaded key-value server in C. It keeps two hash
tables (values and deadlines), expires keys lazily and by a background sweep,
and makes mutating commands durable in an append-only file (AOF) that a forked
child compacts while the server goes on serving. Clients talk to it in
length-prefixed frames over a kqueue event loop. This directory holds TLA+
models of the parts that carry its correctness, the TLC runs that check them
on small instances, and TLAPS proofs for every instance.

Paths like `aof.c` are under `src/src/`; `README.md:NNN` in a quotation is the
repository's own `src/README.md`.

## Inventory

| Component | State | Operations | Interacts with | What is hard | What makes it correct |
|---|---|---|---|---|---|
| hash table, `ht.c` | buckets, chains, `used`, `size` | upsert, find, delete, resize, iterate | called by `db.c` | resize between two uses of an entry, failed `malloc`, freed key strings | behaves as a finite map |
| database, `db.c` | `keyspace`, `expires` | set, setex, del, persist, expire, get, ttl, sweep | commands, replay, sweep, rewrite child | two tables changed one after the other; keys past due that are still there; the sweep's freed key | tables agree; a lapsed key is never read |
| commands, `command.c` | none of its own | tokenizer, 10 handlers, replies | `db.c`, `aof_append` | results of `aof_append` are ignored; overflow of `seconds * 1000` | `+OK` means done and durable |
| AOF, `aof.c` | file, dirty flag | append, flush, cron, load, truncate | file system, page cache, power | crash at any point, torn writes, failing system calls | what was acknowledged is recovered, in order |
| rewrite, `aof.c` | state, child pid, diff buffer, temp file, backoff | start, child, diff, abort, reap, finalize, cron | `fork`, signals, `rename` | child and parent interleave; abort races the child; crash around the rename | the new file is equivalent to the old one; the machine always returns to IDLE |
| server, `server.c` | clock snapshot, self-pipe, cron | start-up, `before_sleep`, shutdown | everything | signals during start-up, the child inherits the handler | serves only after a complete recovery |
| networking, `networking.c` | per-client buffers, timers | accept, read, frame, write, time-out | event loop, commands | full buffers, partial writes, descriptor reuse | each frame executed once, answers in order |
| event loop, `event_loop.c` | handlers per descriptor | add, remove, run | kqueue | stale events for a closed descriptor | every ready handler runs; one tick per iteration |
| config, util, CRC64 | – | parsing, clocks, I/O loops, checksum | all | ranges and boundaries | – |

`PROJECT.json` lists the components with what is modelled of each, and the
hazards, each at its line.

## Modules

| Module | Models | Role |
|---|---|---|
| `Db` | `db.c` over `ht.c` as maps | operators on `[keyspace, expires]`; each returns the result and the database it leaves |
| `Keyspace` | the handlers of `command.c` over `Db`, `active_expire_cron`, failed allocations | actions on a running server without persistence |
| `Aof` | `aof.c`, the mutating handlers, `init_server`, `before_sleep`, the rewrite child, crashes | the core: server, child, page cache, device, clock |
| `DurableStore` | – | abstract: what the AOF promises, without files |
| `AofDurability` | – | history variables over `Aof`, durability properties, the refinement of `DurableStore` |
| `HashTable` | `ht.c`, the chain walk of `db_active_sweep` | chains, growth, iterator, sweep |
| `FiniteMap` | – | abstract: what `ht.c` promises its callers, and what `Db` assumes of it |
| `Networking` | `networking.c`, `event_loop.c`, `client_timeouts_cron` | server, kernel and clients of several connections |
| `Config` | `config.c`, `config.h` | operators: the settings, and what a line of a file does to them |
| `Lifecycle` | `server.c`, `load_config`, `el_run`, the cron and backoff of `aof.c` | one process after another, from start-up to exit |
| `DbProofs`, `KeyspaceProofs`, `AofProofs`, `AofDurabilityProofs`, `HashTableProofs`, `NetworkingProofs`, `LifecycleProofs` | – | theorems about the module of the same name |
| `SharedLemmas` | – | induction, powers of two, loops, sequences: what several proofs use |
| `MCAof`, `MCAofDurability`, `MCKeyspace`, `MCHashTable`, `MCNetworking`, `MCLifecycle` | – | instances for TLC |

`Aof` and `Keyspace` extend `Db`; `AofDurability` extends `Aof` and instantiates
`DurableStore` with `up <- phase = "serving"`; `HashTable` instantiates
`FiniteMap` with `map <- Contents`; `Lifecycle` extends `Config`.

The modules meet where one leaves out what another has. `Db` takes the hash
table for a map, which `HashTable` justifies. `Aof` has the contents of files
and a rewrite that may start at any time; `Lifecycle` has their sizes and the
conditions under which the cron starts one. `Aof` takes a command for one
request that is answered; `Networking` says which requests reach
`command_execute`, how often, and whether the answer arrives.

A few definitions carry the comment *Faulty variant*. No specification uses
them. Each is a plausible mistake in the definition that follows it; putting
it in that definition's place makes the property named in `PROJECT.json` fail,
which shows that the property does look at that piece of code.

### How `Aof` corresponds to the code

*State.* `db`, `now`, `dirty`, `rwState`, `diff` are the fields of `server`.
`file` and `temp` are what the page cache holds of the two files, as sequences
of a header and whole records; `TORN` stands for any bytes that a replay
rejects (short read, wrong CRC). `disk.synced` is how much of `file` is known to
be on the device, `disk.older` the files that a power loss may bring back
because a rename, or the truncation of a start-up, has not reached the device;
where `RenameDurable` holds the next `fsync` of the file commits both. `child` is the forked process with
its snapshot and the keys it has not visited yet. `pipe` says whether the
shutdown self-pipe holds a byte. `phase` and `pos` are the program counter of
start-up.

*Atomicity.* The server is one thread, so a handler is one step, except that a
mutating command is two, because a crash may fall between its `write` and its
`fsync` and reply: `cmd_*` (database operation, `write`, diff) and `reply_ok`
(`fsync` under `always`, then `+OK`). A write cut short by a crash is part of
`Kill` and of `Images`. `before_sleep` is one step: sweep, `aof_cron`,
`aof_rewrite_cron`. Inside it a crash during finalize equals a crash before or
after its rename, since the temp file has the process id in its name and no
other process opens it. Replay is one step per record. The child is a process
of its own: open, one step per key, exit.

*Errors.* `Faults` names the system calls that may fail: `write` to the live
file (nothing or part of the record is written), `fsync`, `realloc` of the
diff buffer, `fork`/`malloc` of a rewrite, anything in the `child`, anything in
`finalize`, and `truncate` at start-up. `Big` are keys and values that make a
record longer than `AOF_RECORD_MAX`.

*Left out of `Aof`:* `aof-enabled no`, the thresholds and the backoff with
which the cron starts a rewrite (they are in `Lifecycle`; in `Aof` BGREWRITEAOF
may start one whenever the state is IDLE, which includes every time the cron
could); allocation failures of the database (they are in `Keyspace`);
`waitpid` failing (the child is the
server's own and reaped once); the quarantine copy of a truncated tail; wall
clock going backwards; damage that the CRC misses. Timers (`run_every_ms`) are
nondeterministic choices. A shutdown by an external SIGTERM or SIGINT flushes
nothing and reaps nothing, so for the file it is a `Kill`. The sweep may remove
any lapsed keys, or none, which covers either value of `active-expire-enabled`.

*The sweep.* In `Keyspace` it is as in the code: if it is enabled (`ActiveExpire`)
and has a budget, it visits the keys on chains drawn at random among those that
are not empty, so a key that alone has a TTL is visited at every tick.

*Time.* One clock for all; `now` is the snapshot of the last tick, replay and
the child ask the clock itself, as in the code. `Ttls` are in clock units in
`Aof`; `Keyspace` has `Second` units per second, so that the division of `TTL`
is visible.

*Undefined behaviour.* `db_active_sweep` passes the key string owned by the
entry that `db_del` frees first (`db.c:104`). What the freed bytes read as is up
to the allocator, so the sweep chooses a set of keys for which they no longer
spell the key (`clobbered`); `FreedKeyLost = FALSE` restricts this to the
allocators that leave the bytes alone.

### How `HashTable` corresponds to the code

`table` is `ht->table`, each chain the sequence of its entries from the head;
`size` and `used` are the fields. `& sizemask` is written `% size`, which is the
same for the powers of two that `LoadBounded` says the size always is.
`ht_upsert` puts a new entry at the head and then grows the table if the load
exceeds 3/4; `ht_resize` moves bucket after bucket and entry after entry to the
head of its new chain (`Rehash`), so chains come out reversed. A call is one step. The iterator and the sweep take one step per
entry, because what can go wrong in them is the pointer kept from one turn to
the next; `seen` and the iterator's answer `<<"list", ...>>` record what a walk
returned. No call comes between the steps of a walk: KEYS and the sweep run in
one handler, and the rewrite child has a copy of its own (`Idle`).

### How `Networking` corresponds to the code

*State.* `clients` and `clients_count` are the fields of `server`; `readers`
and `writers` are the handlers of `event_loop_t`, which come and go together
with their registration in the kernel. `conn` is the connection a descriptor
stands for, which the server cannot see: descriptors are given out again from
the lowest, so a collected event may belong to an earlier owner. `sock`,
`backlog`, `inbox` and `unread` are the kernel's side of each connection.

*Data.* Bytes are counted in cells. A request is a frame of one or more cells,
known by its connection and number, the read buffer holds `ReadCap` cells, the
longest legal frame; a response is one cell, of which the write buffer holds
`WCap`. A response is always taken to be as long as it can be. A response of
which the fast path sends a part waits in the buffer like one of which nothing
was sent (`WriteShort`): the rest is sent by `on_write` and the client counts the
response when it is whole.

*Atomicity.* The loop is `before_sleep`, `el_poll`, one step per event of the
batch, `el_run`. A handler is one step up to `process_buffer`, whose turns are
steps of their own (`busy` is the descriptor it works for): between two of them
the kernel and the clients move, so a later `write` meets another socket than
an earlier one. The order of events in a batch is open.

*Failures.* Clients close or reset at any time, also in the backlog; `accept`,
`fcntl` and registration may fail; `write` to a reset connection fails or, as
the server never sets the disposition of SIGPIPE, kills the process (`Killed`).
Registering a write handler may fail too: its result is ignored at
`networking.c:68`, so the response waits with no event to send it until the
client's next request tries again. `refused` holds those descriptors.
`NoLostWakeup` counts such a handler as asked for, and `Answered` leaves its client
out; all other properties hold with refusals.

### How `Lifecycle` and `Config` correspond to the code

`pc` is the step of `server_main` and `init_server` that comes next. What a
signal does depends on it: before the handlers exist it kills (`Deaf`),
before the self-pipe exists the handler writes to descriptor 0 (`PipeLess`),
later to the pipe. `before_sleep` is two steps, the clock and the cron, since
signals fall between them; all other handlers are one. `load_config` is a step
per line, on `Config`'s table with the ranges and defaults of the source.

Time is relative: `wait` is what is left until `aof_rewrite_next_attempt_ms`,
and a tick advances it by 0 or by `CheckMs`, after which the cron's interval is
over. Files are sizes in bytes, records all of `RecordSize`; what the child
writes is some number of records not above what the file has. Failures of a
rewrite (`fork`, child, abort, finalize) share the bound `MaxStreak` in a row
(`MayFail`). `End` is every way out of the process: exit, second SIGINT, kill by
an early signal; a running child goes on as `orphan` with the listening socket.
`fopen` may fail; a server started without a file runs as with an empty one. A
`stat` may fail wherever one is made: at the opening of the AOF the size taken is
then 0, and a new file gets no header, which the next start refuses (`headed`);
after a rename the size is that of the old file. `stale` says that
`aof_rewrite_last_size` is not the size of the file, because of that or because
it was appended to. `headed`, `stale` and `since` are history variables. A `strdup`
that fails in `apply_config` is not modelled.

## Runs

| Run | Question | Result |
|---|---|---|
| `aof_always` | `appendfsync always`, two crashes (kill or power loss) anywhere, rewrites, diff overflow: is every acknowledged command recovered? Is a finished rewrite equivalent to the live file? Does `aof.c` implement `DurableStore`? | holds |
| `aof_pertick` | the same for `pertick`, with failing children, `fsync`s and finalizes: nothing lost to a kill; a power loss goes back to a database that really existed since the last flush; a serving process has a replayable file, also when a power loss undoes the truncation; a rewrite that overflows its diff is given up and leaves nothing behind; every rewrite ends; everything appended becomes durable | holds |
| `aof_faults` | all faults but a failing `fsync`, oversize records, lapsing deadlines, freed strings: types, table agreement | holds |
| `keyspace` | commands, lazy and active expiry, failed allocations in any order: deadlines, TTL answers, removal | holds |
| `hash_table` | growth, collisions, deletions, iterator and sweep: is every entry where lookups search, is the count right, is no pointer to a freed entry followed, does the sweep leave nothing lapsed in a bucket it visited, do callers see a map? | holds |
| `networking` | full buffers, partial writes, early closes, resets, descriptor reuse within a batch, bad frames, idle clients: do answers arrive in order, once, to their client; is each request of a client that waits for answers executed once; are all answered, no wake-up lost, the four records of who is connected in agreement, well-behaved clients kept and silent ones dropped? | holds |
| `lifecycle` | good and bad configuration files, signals at every step, rewrites by cron and by command, failures with backoff, failing `stat`s, restarts: was every line legal and does the server run with what the file says, does a signal that finds the pipe end it, is the backoff the documented one and does the cron wait for it, does every rewrite end and every outgrown file get compacted, and an idle one not? | holds |
| `aof_expired_truncate` | "truncates at first corrupt record" (`aof.h:72`) | violated |
| `aof_oversize` | "every command that returned `+OK` is on disk" (`README.md:220`) | violated |
| `aof_abort` | "the rewrite aborts rather than blocking the foreground" (`README.md:347`) | violated |
| `keyspace_set_lapsed` | SET: "Set key to value" (`README.md:143`) | violated |
| `keyspace_freed_key` | sweep: "walk chains, delete expired entries" (`README.md:202`) | violated |

The five violations are described under "findings" in `PROJECT.json`.
`aof_expired_truncate` and the two of `keyspace` have one theme: a key that is past its deadline is sometimes gone
and sometimes not, and several paths mix the two views.

### Bounds

* `aof_always`: 2 keys, 1 value, files of up to 4 records, diff of 1 record,
  2 crashes. Two keys make the order of records of different keys matter and
  let a rewrite have something left to walk while the other key changes; a diff
  of 1 overflows; the second crash hits the recovery from the first.
* `aof_pertick`: 1 key, 1 value and one TTL, header and 2 records, diff of 1
  record, 2 crashes. SET, SETEX, PERSIST and DEL on the one key do not commute,
  so a wrong order of records shows; two records may be appended during a
  rewrite, the second of which overflows the diff; a failing `fsync`, child and
  finalize happen, and happen around a crash. (A failing `realloc` ends a rewrite
  as an overflow does, and a failing `fork` starts none: both are in `aof_faults`.)
* In both, the TTL (3) exceeds the clock's last instant (1): deadlines are
  set, logged, replayed and compacted, but none lapses. This is the condition
  under which the promise holds; `aof_expired_truncate` shows what happens
  without it.
* `aof_faults`: 1 key, one ordinary and one oversize value, TTL 1, clock up to
  3, so deadlines lapse in every phase; header and one record, which every
  fault can hit. (A failing `fsync` is in `aof_pertick`.)
* `keyspace`: 2 keys, TTLs of 1 and 2 seconds of 2 clock units, clock up to 5.
  The sweep is enabled; with two keys it may draw one and leave the other.
* `hash_table`: 4 keys, two of which share a bucket at every size, one shares
  theirs until the table has 4 buckets, one has its own. The table starts with 2
  buckets, not 4, so that 4 keys make it grow twice. Two buckets per sweep, the
  same one possibly twice.
* `networking`: 3 connections for 2 descriptors, so one is refused or takes over
  a descriptor; buffers of 2 cells and a socket of 1, all of which fill;
  `MaxEvents` above the number of events there can be. Five workloads: a client
  that sends 5 requests without waiting, one that waits and sends a frame of the
  largest size, one with an illegal frame, two at once, three silent ones.
* `lifecycle`: the sizes are those of the code where they are compared with
  settings (header 32 bytes); records of 32 bytes up to a file of 96, with
  `aof-rewrite-min-size` 64, cross both thresholds and fall below them again;
  3 failures in a row give delays of 1000, 2000 and, clamped, 3000 ms; 2 signals
  per process, 2 processes. Seven configuration files: two legal (one without
  AOF, at the ends of the ranges), five with out-of-range values, unknown words,
  unknown keys or malformed lines, some followed by a legal line.

Permuting keys (values) changes no behaviour of these modules, so symmetry is
used where no liveness property is checked. `ImplementsPromise` is a safety
property and its formula treats keys and values alike.

### What an instance outside these bounds shows

These settings of the same modules are not kept as runs; each makes the named
property fail, for a reason worth knowing:

* `aof_always` with `Faults = {"write"}`: `RecoveredOwed`. The handlers ignore
  the result of `aof_append`, so `+OK` is sent for a record that is not in the
  file, and later records are written behind a torn one.
* `aof_always` with `Faults = {"fsync"}`: `RecoveredOwed`. `+OK` is sent although the
  record is in the page cache only; a power loss takes it away.
* `aof_always` with `Faults = {"truncate"}`: `RecoveredOwed`. The torn tail stays in
  the file, a command is acknowledged behind it, and the next replay stops
  before it.
* `aof_always` with `RenameDurable = FALSE`: `RecoveredOwed`. Where an `fsync`
  of the new file does not commit the directory entry, a power loss after a
  rewrite brings the old file back, without anything acknowledged since.
* `aof_always` with TTL 1 and a clock up to 3: `RecoveredOwed`. SET, EXPIRE, the
  deadline lapses, restart: the EXPIRE record is skipped and the key is back
  without a deadline.
* `keyspace` with `Hz = 500`: `LapsedIsRemoved`. The sweep's budget
  `(1000 / hz) / 4` is 0 for `hz` above 250 (the configuration accepts 1..500).
* Under `pertick`, after a restart the recovered records may be unflushed while
  `aof_buf_dirty` is false: no tick flushes them before the next write.
* `networking` with `ExecutedOnce` or `WellBehavedKept` stated for greedy clients
  too: both fail. If the write buffer has no room for the response the command
  has already run; the frame stays in the read buffer and runs again
  (`networking.c:99`). The read buffer can then be full when a read event comes;
  `read` into no space returns 0, which is taken for the end of the connection
  (`networking.c:137`).
* The idle check stops once it has seen `clients_count` clients, which its own
  removals lower (`networking.c:186`): the client with the highest descriptor may
  be left to the next check, and for as long as lower ones keep timing out.
  `SilentAreDropped` holds because workloads are finite.
* `client-timeout 0`: "0 = disabled" (`bytekv.conf:16`), but the check has no such
  case and drops every client it meets (`networking.c:191`).
* `lifecycle` with a signal that comes while the AOF is replayed: its byte goes to
  descriptor 0 and the signal is lost ("no race", `README.md:108-112`); a SIGINT
  after it counts as the second and exits at once. `SignalEndsServer` is
  therefore stated for signals that find the pipe.
* `lifecycle` with a backoff base above the maximum, which `config.c` accepts: the
  first delay is not clamped (`aof.c:550` says "clamped at the configured
  ceiling"). `AutoRewriteHonoursBackoff` holds all the same.
* `lifecycle` with `NoQuietRewrite` stated for files whose `stat` failed too: after a
  failing `stat` at start-up or after a rewrite the threshold is measured from 0
  or from the old size, and an idle file may be rewritten.
* `networking` with `Answered` stated for refused registrations too: a client that
  waits for that answer waits for ever, or until its time-out.
* `lifecycle` without AOF: BGREWRITEAOF starts a child, but the cron returns early
  and never reaps it; the state stays ACTIVE. `RewriteSettles` says so.
* A configuration file with `fsync-mode full`, as in `README.md:393`, is refused:
  the key is `aof-fsync-mode`. It is one of the files of `lifecycle`.
* After `shutdown_server` an orphaned rewrite child keeps the listening socket;
  a restart cannot bind until it has ended (`create_listener`). A restart also
  takes the size of the file, compacted or not, as the base of its growth. An
  error of `kevent` ends the process with exit status 0 (`server.c:230`).
* A SETEX whose second insertion fails answers `-ERR` and has removed the value
  the key had before (`db.c:52`): its roll-back deletes the key.
* `KEYS` lists lapsed keys (`README.md:149`: "List all live keys"): the handler
  walks the keyspace table without asking for deadlines.

### Fairness

`AofDurability!HFairSpec`: the child is never blocked (weak fairness of its steps);
handlers and the load loop run to their end (weak). `before_sleep` with the
once-a-second check due is strongly fair: `el_run` calls it once per iteration,
an iteration handles finitely many events and time passes, but between two
ticks commands disable it again and again. `FlushFairness` says that `fsync`
does not fail for ever. Crashes, faults, commands and rewrites have none.
`Keyspace!FairSpec`: ticks go on, and since buckets are drawn at random, a key
that stays in the table is visited sooner or later.
`Networking!FairSpec`: the server's thread goes on, and clients read what was
sent to them; nothing is assumed of connecting, sending or leaving.
`SilentAreDropped` adds `TimePasses`, a tick that finds the time-out over and the
check due, which each iteration of the loop may be.
`Lifecycle!FairSpec`: the thread goes on, ticks with a second passed recur
(strong, since signals and clients keep the loop between them), a child ends.
`OutgrownIsCompacted` adds that attempts to rewrite do not fail for ever.

## Proofs

All for arbitrary sets of keys, values, TTLs and connections, every policy,
buffer size, hash function, configuration file and set of faults, from the
assumptions named in the modules only: `Absent` is no key and no value, TTLs are
positive, buffers hold something, a line of a configuration file is malformed,
skipped or a setting, the clock may reach its first instant, and the constants
have their types. Where a theorem needs more, it says so: `~FreedKeyLost` (the
allocator leaves freed bytes alone) for two theorems of `KeyspaceProofs`, no
failing `write` or `truncate` for `ServingFileAlwaysSound`, finitely many keys for
`LoadAlwaysBounded`, whose bound counts them, and three conditions of the
durability theorems, listed with them.

**Database.** `DbProofs`: every operation of `db.c`, on success and on failure,
turns a good database (typed, no deadline without a key) into a good one, also
the sweep for every set of clobbered strings. On it rest, in `KeyspaceProofs`,
`KeyspaceTypeCorrect`, `TablesAlwaysAgree`, and

* `ExpiredNeverRead`. The inductive invariant `ToldOK` relates the table to what
  clients were told: a deadline known to clients is the one in the table, or it
  has passed and the key is gone. It is needed because `PastDue` is about the
  last `+OK`, while a lookup only sees the table.
* `TtlAlwaysRight`. TTL also says that there is *no* deadline, so it needs the
  converse, `TableOK`: a deadline in the table is the one clients know of, or it
  has passed (a SET onto a lapsed key leaves the old deadline behind).

**AOF.** `AofProofs`:

* `TypeCorrect`, `NoOrphanEver`: the invariant `Core` joins types with "every
  database has no orphan" and "the child still visits keys of its snapshot
  only": a record can only be typed if the key it is made from exists.
* `RewriteStateCorrect`: inductive relative to `Core`.
* `ServingFileAlwaysSound`: a serving process appends to a header followed by
  whole records. `SoundInv` adds that the part of the file a replay has accepted
  is sound, and that the temp file of a child that has not failed is; then
  truncation, the append of the diff and the rename all produce sound files.
  Crashes need nothing: they leave any file, but not a serving process.

**Durability.** `AofDurabilityProofs`, about `Aof` with the history of its clients.
Three conditions appear as hypotheses. Each is what the code really needs:
dropping any part of one breaks `RecoveredOwed`, as the run `aof_oversize` and the
instances with `write`, `fsync`, `truncate`, `RenameDurable` and the TTL under "Runs"
show.

* `AckMeansSynced`: under `always`, `+OK` is right. No `write` or `fsync` fails, no
  record is oversize, and an `fsync` commits earlier renames and truncations. It says nothing
  of the other two policies.
* `NoLostRecords`: no `write` or `truncate` fails and no record is oversize. All
  other faults (`fsync`, `realloc`, `fork`, `child`, `finalize`) may happen.
* `NothingLapses`: the clock does not pass the shortest TTL. Deadlines are set,
  logged, replayed and compacted, but a replay skips none.

The theorems:

* `AlwaysRestartsWithData` needs only the first. `BootInv` says which files have a
  header (the one of a live process, the temp file of a child that has opened it)
  and `OwedInv` that, once anything but the empty database is owed, the header is on
  the device and in every file that a lost rename or truncation may bring back.
* The other four rest on `LogInv`. A file is a log, `Traced(f, s)`, if there is a
  sequence `s` of databases, one for each entry, such that every record can be
  replayed on the database before it and gives the one at it. `LogInv` says: a
  serving process has in memory the last database of its file (`ServesLog`); a
  start-up is at one of them (`LoadsLog`); a process that is gone has left a log,
  possibly with torn bytes behind it, of what it owes (`LeavesLog`); so are the
  files that a rename replaced and those that a start-up cut (`OlderLog`); what is behind the synced part of the
  file is owed (`Durable`), so that whatever prefix a power loss leaves is. For a
  rewrite, the temp file is a log of the part of the snapshot that the child has
  visited (`Visited`: each key is written once, so the order does not matter), and
  the diff leads from the snapshot to the database in memory (`Diffed`). A rename
  is then the concatenation of two traces (`TracedConcat`).
* `OnlyDamageTruncated`: a load that stops before the end stops at `TORN`.
  `CompactionAlwaysFaithful`: `ReplayAll`, a recursive function, ends where the trace
  does (`ReplayTraced`, by induction over the length). `AlwaysRecoversOwed`: the end
  of the trace is one of the databases owed.
* `KeepsPromise` is the refinement of `DurableStore`, step by step: a logged command
  is `Submit`, the reply `Ack`, a tick `Tidy`, the end of a start-up `Recover`. It
  needs one more invariant, `HistoryOK`: a logged command is not on the device
  before its reply, and a server whose file is all on the device owes one
  database only. Without it a reply under `pertick` could silently shorten what
  is owed, which `Ack` may not.

**Hash table.** `HashTableProofs` looks at a table as the set of its entries
(`Member`). Its lemmas say what pushing, replacing and unlinking an entry and
`ht_resize` do to that set, and that they keep `TableOK`: every entry in the chain
of its hash, no key twice. The invariant `HtOK` has three parts:

* `StoreOK`: `TableOK`, `used` counts the keys held, the load bound, and the size
  as the first one doubled. It gives `AlwaysPlaced` and `LoadAlwaysBounded`; the
  latter because a table only doubles when the keys it holds need it.
* `IterOK`: the iterator is at an entry of the table, its saved pointer is that
  entry's successor, and what it has returned is each key of the buckets before
  and of the chain down to there, once. `NoDanglingPointer` alone is not inductive:
  that the next step finds an entry of the table follows from where the
  saved pointer was taken.
* `SweepOK`: the sweep is at an entry of the bucket it picked and has left nothing
  lapsed above it: `NeverDangling`, `AlwaysSweptClean`.

`ImplementsFiniteMap` is the refinement of `FiniteMap`, step by step: by the
lemmas above, the set of entries before and after a call is the map before and
after (`MapOf`), and by `IterOK` a finished walk has listed every key once.

**Networking.** `NetworkingProofs` has three invariants, each relative to the one
before.

* `Core`: types, which connection has which state in the kernel, no connection
  twice in the backlog or both there and accepted, and `BookkeepingAgrees`. It gives
  `NetworkingTypeCorrect` and `BookkeepingAlwaysAgrees`.
* `WakeOK`: `NoLostWakeup`, with refused registrations included, and that an empty write buffer has offset 0, without
  which the next response would be sent from the wrong place (`NoWakeupEverLost`).
* `FlowOK`: for each client there is a number m such that the answers sent are
  those of the first requests, the unsent part of the write buffer those that
  follow, up to m - 1, and the read buffer and the socket hold, one after the
  other, the frames from m on, the last one possibly in part (`Frames` gives each
  frame its place). A client that is not greedy has at most `WCap` requests
  without an answer (`Paced`). From it follow `AnswersAlwaysInOrder`,
  `ExecutedOnlyOnce` (there is room for every response, so no frame stays after its
  command has run) and `WellBehavedAlwaysKept` (a read buffer with a legal frame in
  part has room, so `read` never returns 0 for want of it).

**Lifecycle and configuration.** `LifecycleProofs` has `AllOK`, the conjunction of

* `BootOK`: types, and past `load_config` every line was read and none refused;
* `CfgOK`: every integer setting within the limits of `config_table`;
* `ReadOK`: while no line was refused, each line read so far was legal and each
  setting has the value of the last of them that sets it, or its default
  (`ConfigAlwaysAsWritten`);
* `RestOK`: what is left of the delay and what is over add up to the delay, which
  the code reaches by doubling and clamping at each failure. For a base within
  the ceiling that is the documented one (`BackoffAlwaysAsDocumented`); for any
  base it is at least the smaller of the doubled base and the ceiling, and the
  cron starts nothing before it is over (`AutoRewriteAlwaysHonoursBackoff`, a
  property of steps; `CronStep` says that where the cron runs nothing else starts
  a rewrite). Last, a file that is not `stale` has its header and the size that was last
  taken, so that the threshold exceeds it for a growth of at least 10 %
  (`NoQuietRewriteEver`, also a property of steps).

**How induction over data is done.** The library's induction theorems take an
operator as a parameter, which the provers at hand cannot instantiate.
`SharedLemmas` has induction over *sets* of numbers instead (`NatInductionSet`),
from the well-foundedness of `<`: a property P becomes the set `{n \in Nat : P}`,
an ordinary term. With it `LoopRuns` shows that a loop of n rounds, written as a
recursive function, has a result and that what each round keeps holds of it; this
is how `Rehash` and `ht_resize` are reasoned about. Powers of two (`Doubling`) come
from the cardinality of sets of subsets.

Strengthened invariants that TLC can evaluate (`IterOK`, `SweepOK`, `BootInv`,
`OwedInv`, `HistoryOK`) were also checked on the instances of the runs; those that
say that a trace or a split of a buffer exists (`LogInv`, `FlowOK`) are beyond it.

**Only model-checked:** the liveness properties (`RewriteEnds`,
`AppendedBecomesDurable`, `LapsedIsRemoved`, `Answered`, `SilentAreDropped`,
`SignalEndsServer`, `OutgrownIsCompacted`, `RewriteSettles`), which are out of the
prover's reach. Every invariant, step property and refinement that a passing run
checks is proved.

## Not modelled

* CRC64 (`crc64.c`): 64-bit arithmetic over tables, beyond TLC; `Aof` uses what it
  is for, that a torn record is not taken for a whole one.
* Of `command.c` the tokenizer, the arity table, `strtoll` and the response
  buffer, which keep no state. `seconds * 1000` at `command.c:127` can overflow
  `int64_t`; TTLs here are small positive numbers.
* Of `util.c` the loops around `read` and `write` appear as their outcomes.
* The quarantine copy of a truncated tail, INFO's counters, logging, and
  allocations whose result the code does not look at (`strdup`, `calloc`): the
  process ends there.

## Plan

Modelled: every component but those under "Not modelled". Proved: every
invariant, step property and refinement of the passing runs. What is left:

1. What the durability theorems become when deadlines lapse: a weaker statement
   about `Visible` that survives skipped records, if the code has one
   (`aof_expired_truncate` and the instance with a lapsing TTL limit it).
2. `AlwaysRecoversOwed` for a `truncate` that fails: the torn tail stays, and with it
   the guarantee holds only until the next append.
3. The boundary between `Aof` and `Lifecycle`: that the rewrites which the cron
   starts are among those of `cmd_bgrewriteaof`, as a refinement.
