------------------------------ MODULE DurableStore ------------------------------
(***************************************************************************)
(* What the AOF promises, without the AOF.                                 *)
(*                                                                         *)
(* A store takes one command at a time.  It answers from inflight; what it *)
(* has acknowledged is acked.  After a crash it comes back as one of the   *)
(* databases in Options:                                                   *)
(*   - the process was killed: what was acknowledged, with or without the  *)
(*     command that was being handled;                                     *)
(*   - the power failed: one of owed, the databases since the last time    *)
(*     everything was on the device.  With SyncOnAck (appendfsync always)  *)
(*     that is no more than a killed process may come back as.             *)
(* Keys past their deadline may be missing, at any time; nothing else may  *)
(* be, and nothing may appear.                                             *)
(***************************************************************************)
EXTENDS Db

CONSTANTS
  SyncOnAck,   \* is everything on the device before "+OK" is sent?
  Deadlines    \* deadlines that commands may set

VARIABLES clock, up, acked, inflight, owed, lost

vars == <<clock, up, acked, inflight, owed, lost>>

Options == IF lost THEN owed ELSE {acked, inflight}

Lapsed(d) == {k \in Keys : Expired(d, k, clock)}

\* d without the keys of L, and everything d may have become by expiry
Without(d, L) ==
  [keyspace |-> [k \in Keys |-> IF k \in L THEN Absent ELSE d.keyspace[k]],
   expires  |-> [k \in Keys |-> IF k \in L THEN NoTtl ELSE d.expires[k]]]

Remains(d) == {Without(d, L) : L \in SUBSET Lapsed(d)}

Outcomes(d) ==
  UNION {{r.db : r \in {q \in {db_set(d, k, v) : v \in Values}
                          \cup {db_setex(d, k, v, e) : v \in Values, e \in Deadlines}
                          \cup {db_key_expire(d, k, e) : e \in Deadlines}
                          \cup {db_persist(d, k), db_del(d, k)} : q.ok}} : k \in Keys}

Init ==
  /\ clock = 1 /\ up = FALSE
  /\ acked = db_create /\ inflight = db_create
  /\ owed = {db_create} /\ lost = FALSE

Submit ==
  /\ up /\ inflight = acked
  /\ inflight' \in Outcomes(inflight)
  /\ owed' = owed \cup {inflight'}
  /\ UNCHANGED <<clock, up, acked, lost>>

Ack ==
  /\ up
  /\ acked' = inflight
  /\ owed' = IF SyncOnAck THEN {inflight} ELSE owed
  /\ UNCHANGED <<clock, up, inflight, lost>>

\* Between commands: expiry, and everything so far may reach the device.
Tidy ==
  /\ up /\ inflight = acked
  /\ acked' \in Remains(acked) /\ inflight' = acked'
  /\ owed' \in {owed \cup {acked'}, {acked'}}
  /\ UNCHANGED <<clock, up, lost>>

Killed ==
  /\ up' = FALSE
  /\ UNCHANGED <<clock, acked, inflight, owed, lost>>

PowerFails ==
  /\ up' = FALSE
  /\ lost' = TRUE
  /\ UNCHANGED <<clock, acked, inflight, owed>>

Recover ==
  /\ ~up /\ up' = TRUE /\ lost' = FALSE
  /\ acked' \in UNION {Remains(d) : d \in Options} /\ inflight' = acked'
  /\ owed' \in {owed \cup {acked'}, {acked'}}
  /\ UNCHANGED clock

Tick == clock' = clock + 1 /\ UNCHANGED <<up, acked, inflight, owed, lost>>

Next == Submit \/ Ack \/ Tidy \/ Killed \/ PowerFails \/ Recover \/ Tick

Spec == Init /\ [][Next]_vars
=================================================================================
