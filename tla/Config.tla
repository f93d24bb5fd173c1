--------------------------------- MODULE Config ---------------------------------
(***************************************************************************)
(* config.c: the table of settings, their defaults, and what a line of a   *)
(* configuration file does to them.  Settings carry the names of the       *)
(* fields of server_config_t, which the file spells with dashes.           *)
(*                                                                         *)
(* A line is malformed (less than two words), to be skipped (empty, or a   *)
(* comment), or a key with a value.  A value is what strtol makes of the   *)
(* whole word, if it is a number, or just the word.                        *)
(***************************************************************************)
EXTENDS Integers, Sequences

Num(n)  == [number |-> TRUE, n |-> n]
Word(w) == [number |-> FALSE, w |-> w]

Malformed == [kind |-> "malformed"]
Skipped   == [kind |-> "skip"]
Setting(key, value) == [kind |-> "set", key |-> key, value |-> value]

\* What a value and a line of a file may be.
Value == [number : {TRUE}, n : Int] \cup [number : {FALSE}, w : STRING]
Line  == {Malformed, Skipped} \cup [kind : {"set"}, key : STRING, value : Value]

Limits(min, max) == [type |-> "INT", min |-> min, max |-> max]
Bool             == [type |-> "BOOL"]
String           == [type |-> "STRING"]
Enum(words)      == [type |-> "ENUM", words |-> words]

aof_policy_values     == <<"no", "pertick", "always">>
aof_fsync_mode_values == <<"data", "meta", "full">>

config_table == [
  port                         |-> Limits(1, 65535),
  tcp_backlog                  |-> Limits(1, 65535),
  hz                           |-> Limits(1, 500),
  active_expire_enabled        |-> Bool,
  active_expire_percent        |-> Limits(1, 100),
  active_expire_keys_per_round |-> Limits(1, 1000),
  client_timeout_s             |-> Limits(0, 86400),
  client_timeout_check_hz      |-> Limits(1, 100),
  aof_enabled                  |-> Bool,
  aof_check_hz                 |-> Limits(1, 100),
  aof_filename                 |-> String,
  aof_rewrite_min_size         |-> Limits(0, 2000000000),
  aof_rewrite_growth           |-> Limits(10, 1000),
  aof_rewrite_buf_max_size     |-> Limits(1048576, 2000000000),
  aof_rewrite_backoff_base_ms  |-> Limits(100, 600000),
  aof_rewrite_backoff_max_ms   |-> Limits(1000, 3600000),
  aof_policy                   |-> Enum(aof_policy_values),
  aof_fsync_mode               |-> Enum(aof_fsync_mode_values)]

init_server_config == [
  port |-> 9999, tcp_backlog |-> 511, hz |-> 10,
  active_expire_enabled |-> TRUE, active_expire_percent |-> 25,
  active_expire_keys_per_round |-> 20,
  client_timeout_s |-> 300, client_timeout_check_hz |-> 10, aof_check_hz |-> 10,
  aof_enabled |-> TRUE, aof_policy |-> 2, aof_fsync_mode |-> 2,
  aof_filename |-> Word("bytekv.aof"),
  aof_rewrite_min_size |-> 1048576, aof_rewrite_growth |-> 100,
  aof_rewrite_buf_max_size |-> 134217728,
  aof_rewrite_backoff_base_ms |-> 10000, aof_rewrite_backoff_max_ms |-> 600000]

find_config(key) == key \in DOMAIN config_table

\* Faulty variant: the upper end of the range is not looked at.
AcceptsAboveMax(entry, v) ==
  CASE entry.type = "INT"    -> v.number /\ v.n >= entry.min
    [] entry.type = "BOOL"   -> ~v.number /\ v.w \in {"yes", "no"}
    [] entry.type = "STRING" -> TRUE
    [] entry.type = "ENUM"   -> ~v.number /\ \E i \in DOMAIN entry.words : entry.words[i] = v.w

\* What apply_config accepts, and what it stores: an enumerated word as its place
\* in the list.
Accepts(entry, v) ==
  CASE entry.type = "INT"    -> v.number /\ v.n >= entry.min /\ v.n <= entry.max
    [] entry.type = "BOOL"   -> ~v.number /\ v.w \in {"yes", "no"}
    [] entry.type = "STRING" -> TRUE
    [] entry.type = "ENUM"   -> ~v.number /\ \E i \in DOMAIN entry.words : entry.words[i] = v.w

Stored(entry, v) ==
  CASE entry.type = "INT"    -> v.n
    [] entry.type = "BOOL"   -> v.w = "yes"
    [] entry.type = "STRING" -> v
    [] entry.type = "ENUM"   -> (CHOOSE i \in DOMAIN entry.words : entry.words[i] = v.w) - 1

apply_config(cfg, key, v) ==
  LET entry == config_table[key]
  IN  IF Accepts(entry, v) THEN [ok |-> TRUE, cfg |-> [cfg EXCEPT ![key] = Stored(entry, v)]]
                           ELSE [ok |-> FALSE, cfg |-> cfg]

\* Faulty variant: a setting out of its range is left alone without an error.
LineNeverFails(cfg, line) ==
  IF line.kind = "set" /\ find_config(line.key)
    THEN [ok |-> TRUE, cfg |-> apply_config(cfg, line.key, line.value).cfg]
    ELSE [ok |-> TRUE, cfg |-> cfg]

\* One turn of the loop of load_config.  A bad line is reported and counted,
\* and the loop goes on.
load_line(cfg, line) ==
  IF line.kind = "skip" THEN [ok |-> TRUE, cfg |-> cfg]
  ELSE IF line.kind = "malformed" \/ ~find_config(line.key) THEN [ok |-> FALSE, cfg |-> cfg]
  ELSE apply_config(cfg, line.key, line.value)
=================================================================================
