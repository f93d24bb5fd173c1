---------------------------- MODULE LifecycleProofs ----------------------------
(***************************************************************************)
(* Proofs about Lifecycle, for every set of configuration files, of lines  *)
(* of any number, legal or not, and every size of records and files.       *)
(***************************************************************************)
EXTENDS Lifecycle, SharedLemmas

-------------------------------------------------------------------------------
(* The delay                                                               *)

\* What the loop of aof_rewrite_record_failure computes in i rounds.
Delays(d, n, base, ceiling) ==
  d = [i \in 1..n |-> IF i = 1 THEN base ELSE Lesser(2 * d[i - 1], ceiling)]

\* The loop has a result for every number of rounds.
LEMMA DelaysExist ==
  ASSUME NEW base \in Nat, NEW ceiling \in Nat, NEW n \in Nat
  PROVE  \E d \in [1..n -> Nat] : Delays(d, n, base, ceiling)
<1> DEFINE P == {k \in Nat : \E d \in [1..k -> Nat] : Delays(d, k, base, ceiling)}
<1>1. 0 \in P
  <2> DEFINE e == [i \in 1..0 |-> base]
  <2>1. e \in [1..0 -> Nat] /\ Delays(e, 0, base, ceiling)
    BY DEF Delays
  <2> QED
    BY <2>1
<1>2. ASSUME NEW k \in Nat, k \in P PROVE k + 1 \in P
  <2>1. PICK d \in [1..k -> Nat] : Delays(d, k, base, ceiling)
    BY <1>2
  <2>2. \A i \in 1..k : d[i] = IF i = 1 THEN base ELSE Lesser(2 * d[i - 1], ceiling)
    BY <2>1 DEF Delays
  <2> DEFINE top == IF k = 0 THEN base ELSE Lesser(2 * d[k], ceiling)
             e == [i \in 1..(k + 1) |-> IF i = k + 1 THEN top ELSE d[i]]
  <2>3. top \in Nat
    BY DEF Lesser
  <2> HIDE DEF top
  <2>4. e \in [1..(k + 1) -> Nat]
    <3>1. \A i \in 1..(k + 1) : i = k + 1 \/ i \in 1..k
      OBVIOUS
    <3> QED
      BY <2>3, <3>1
  <2>5. ASSUME NEW i \in 1..(k + 1)
        PROVE  e[i] = IF i = 1 THEN base ELSE Lesser(2 * e[i - 1], ceiling)
    <3>1. CASE i = k + 1
      <4>1. e[i] = top /\ (k # 0 => i # 1 /\ i - 1 = k /\ k \in 1..(k + 1) /\ k # k + 1) /\ (k = 0 => i = 1)
        BY <3>1
      <4>2. k # 0 => e[i - 1] = d[k]
        BY <4>1
      <4> QED
        BY <4>1, <4>2 DEF top
    <3>2. CASE i \in 1..k
      <4>1. e[i] = d[i] /\ (i # 1 => i - 1 \in 1..k)
        BY <3>2
      <4>2. i # 1 => e[i - 1] = d[i - 1]
        BY <4>1
      <4> QED
        BY <2>2, <3>2, <4>1, <4>2
    <3> QED
      BY <3>1, <3>2
  <2>6. Delays(e, k + 1, base, ceiling)
    BY <2>5 DEF Delays
  <2> HIDE DEF e
  <2> QED
    BY <2>4, <2>6
<1> HIDE DEF P
<1>3. n \in P
  BY <1>1, <1>2, NatInductionSet
<1> QED
  BY <1>3 DEF P

Doubled(x, i, base, ceiling) ==
  /\ x \in Nat /\ x >= Lesser(base * 2 ^ (i - 1), ceiling)
  /\ base <= ceiling => x = Lesser(base * 2 ^ (i - 1), ceiling)

\* After i rounds the delay is the base doubled i - 1 times, or the ceiling; it
\* is not shorter than that if the base exceeds the ceiling.
LEMMA DelaysDouble ==
  ASSUME NEW base \in Nat, NEW ceiling \in Nat, NEW n \in Nat, NEW d, Delays(d, n, base, ceiling)
  PROVE  \A i \in 1..n : Doubled(d[i], i, base, ceiling)
<1> DEFINE Good(i) == /\ d[i] \in Nat /\ d[i] >= Lesser(base * 2 ^ (i - 1), ceiling)
                      /\ base <= ceiling => d[i] = Lesser(base * 2 ^ (i - 1), ceiling)
           P == {k \in Nat : k + 1 \in 1..n => Good(k + 1)}
<1>0. \A i \in 1..n : d[i] = IF i = 1 THEN base ELSE Lesser(2 * d[i - 1], ceiling)
  BY DEF Delays
<1>1. 0 \in P
  <2> SUFFICES ASSUME 1 \in 1..n PROVE Good(1)
    OBVIOUS
  <2>1. d[1] = base
    BY <1>0
  <2>2. base * 2 ^ (1 - 1) = base
    OBVIOUS
  <2> QED
    BY <2>1, <2>2 DEF Lesser
<1>2. ASSUME NEW k \in Nat, k \in P PROVE k + 1 \in P
  <2> SUFFICES ASSUME k + 1 + 1 \in 1..n PROVE Good(k + 1 + 1)
    OBVIOUS
  <2>1. k + 1 \in 1..n /\ k + 1 + 1 # 1 /\ k + 1 + 1 - 1 = k + 1 /\ k + 1 - 1 = k
    OBVIOUS
  <2>2. Good(k + 1)
    BY <1>2, <2>1
  <2>3. PICK a, b : a = d[k + 1] /\ b = d[k + 1 + 1]
    OBVIOUS
  <2>4. b = Lesser(2 * a, ceiling) /\ a \in Nat
    BY <1>0, <2>1, <2>2, <2>3
  <2>5. PICK p : p = 2 ^ k
    OBVIOUS
  <2>6. p \in Nat /\ 2 ^ (k + 1) = 2 * p
    BY <2>5, Doubling
  <2>7. b \in Nat
    BY <2>4 DEF Lesser
  <2>8. ASSUME base <= ceiling PROVE b = Lesser(base * 2 ^ (k + 1), ceiling)
    <3>1. a = Lesser(base * p, ceiling)
      BY <2>1, <2>2, <2>3, <2>5, <2>8
    <3>2. PICK q : q = base * p
      OBVIOUS
    <3>3. q \in Nat /\ base * (2 * p) = 2 * q
      BY <2>6, <3>2
    <3>4. b = Lesser(2 * q, ceiling)
      BY <2>4, <3>1, <3>2, <3>3 DEF Lesser
    <3> QED
      BY <2>6, <3>3, <3>4
  <2>9. b >= Lesser(base * 2 ^ (k + 1), ceiling)
    <3>1. a >= Lesser(base * p, ceiling)
      BY <2>1, <2>2, <2>3, <2>5
    <3>2. PICK q : q = base * p
      OBVIOUS
    <3>3. q \in Nat /\ base * (2 * p) = 2 * q
      BY <2>6, <3>2
    <3>4. b >= Lesser(2 * q, ceiling)
      BY <2>4, <3>1, <3>2, <3>3 DEF Lesser
    <3> QED
      BY <2>6, <3>3, <3>4
  <2> QED
    BY <2>1, <2>3, <2>7, <2>8, <2>9
<1> HIDE DEF P
<1>3. ASSUME NEW i \in 1..n PROVE Good(i)
  <2>1. i - 1 \in Nat /\ i - 1 + 1 = i
    OBVIOUS
  <2>2. i - 1 \in P
    BY <1>1, <1>2, <2>1, NatInductionSet
  <2> QED
    BY <2>1, <2>2 DEF P
<1> QED
  BY <1>3 DEF Doubled

\* The delay after n failures: doubled with each, clamped at the ceiling.
LEMMA DelayDoubles ==
  ASSUME NEW n \in Nat \ {0},
         cfg.aof_rewrite_backoff_base_ms \in Nat, cfg.aof_rewrite_backoff_max_ms \in Nat
  PROVE  /\ Delay(n) \in Nat
         /\ Delay(n) >= Lesser(cfg.aof_rewrite_backoff_base_ms * 2 ^ (n - 1), cfg.aof_rewrite_backoff_max_ms)
         /\ cfg.aof_rewrite_backoff_base_ms <= cfg.aof_rewrite_backoff_max_ms =>
              Delay(n) = Lesser(cfg.aof_rewrite_backoff_base_ms * 2 ^ (n - 1), cfg.aof_rewrite_backoff_max_ms)
<1>0. PICK base, ceiling : base = cfg.aof_rewrite_backoff_base_ms /\ ceiling = cfg.aof_rewrite_backoff_max_ms
  OBVIOUS
<1> DEFINE d == CHOOSE e : Delays(e, n, base, ceiling)
<1>1. Delay(n) = d[n]
  BY <1>0 DEF Delay, Delays
<1>2. Delays(d, n, base, ceiling)
  BY <1>0, DelaysExist
<1> HIDE DEF d
<1>3. n \in 1..n /\ n \in Nat
  OBVIOUS
<1>4. \A i \in 1..n : Doubled(d[i], i, base, ceiling)
  BY <1>0, <1>2, <1>3, DelaysDouble
<1>5. Doubled(d[n], n, base, ceiling)
  BY <1>3, <1>4
<1> QED
  BY <1>0, <1>1, <1>5 DEF Doubled

-------------------------------------------------------------------------------
(* The configuration                                                       *)

IntKeys == {"port", "tcp_backlog", "hz", "active_expire_percent", "active_expire_keys_per_round",
            "client_timeout_s", "client_timeout_check_hz", "aof_check_hz",
            "aof_rewrite_min_size", "aof_rewrite_growth", "aof_rewrite_buf_max_size",
            "aof_rewrite_backoff_base_ms", "aof_rewrite_backoff_max_ms"}
Keys == IntKeys \cup {"active_expire_enabled", "aof_enabled", "aof_filename", "aof_policy", "aof_fsync_mode"}

\* The table names every setting once, and the defaults are within its limits.
LEMMA TableFacts ==
  /\ DOMAIN config_table = Keys /\ DOMAIN init_server_config = Keys
  /\ \A key \in Keys : config_table[key].type = "INT" <=> key \in IntKeys
  /\ \A key \in IntKeys : init_server_config[key] \in config_table[key].min..config_table[key].max
<1>1. DOMAIN config_table = Keys
  BY DEF config_table, Keys, IntKeys
<1>2. DOMAIN init_server_config = Keys
  BY DEF init_server_config, Keys, IntKeys
<1>3. \A key \in Keys : config_table[key].type = "INT" <=> key \in IntKeys
  BY DEF config_table, IntKeys, Keys, Limits, Bool, String, Enum
<1>4. \A key \in IntKeys : init_server_config[key] \in config_table[key].min..config_table[key].max
  BY DEF init_server_config, config_table, IntKeys, Limits
<1> QED
  BY <1>1, <1>2, <1>3, <1>4

\* A value that apply_config accepts is legal, and stored as what it means.
LEMMA StoredMeans ==
  ASSUME NEW key \in Keys, NEW v \in Value, Accepts(config_table[key], v)
  PROVE  /\ Means(key, v, Stored(config_table[key], v)) /\ LegalValue(key, v)
         /\ key \in IntKeys => Stored(config_table[key], v) \in config_table[key].min..config_table[key].max
<1>0. PICK entry : entry = config_table[key]
  OBVIOUS
<1>1. CASE key \in IntKeys
  <2>1. entry.type = "INT" /\ entry.min \in Int /\ entry.max \in Int
    BY <1>0, <1>1 DEF config_table, IntKeys, Limits
  <2>2. v.number /\ v.n >= entry.min /\ v.n <= entry.max /\ Stored(entry, v) = v.n
    BY <1>0, <2>1 DEF Accepts, Stored
  <2>3. v.n \in Int
    BY <2>2 DEF Value
  <2>4. key \notin {"aof_policy", "aof_fsync_mode", "aof_enabled", "active_expire_enabled", "aof_filename"}
    BY <1>1 DEF IntKeys
  <2> QED
    BY <1>0, <2>1, <2>2, <2>3, <2>4 DEF Means, LegalValue
<1>2. CASE key \in {"aof_enabled", "active_expire_enabled"}
  <2>1. entry.type = "BOOL"
    BY <1>0, <1>2 DEF config_table, Bool
  <2> QED
    BY <1>0, <1>2, <2>1 DEF Accepts, Stored, Means, LegalValue, IntKeys
<1>3. CASE key = "aof_filename"
  <2>1. entry.type = "STRING"
    BY <1>0, <1>3 DEF config_table, String
  <2> QED
    BY <1>0, <1>3, <2>1 DEF Accepts, Stored, Means, LegalValue, IntKeys
<1>4. CASE key = "aof_policy"
  <2>1. entry.type = "ENUM" /\ entry.words = <<"no", "pertick", "always">>
    BY <1>0, <1>4 DEF config_table, Enum, aof_policy_values
  <2>2. ~v.number /\ v.w \in {"no", "pertick", "always"}
    BY <1>0, <2>1 DEF Accepts
  <2>3. Stored(entry, v) = AOF_POLICY[v.w]
    BY <2>1, <2>2 DEF Stored, AOF_POLICY
  <2> QED
    BY <1>0, <1>4, <2>2, <2>3 DEF Means, LegalValue, IntKeys, AOF_POLICY
<1>5. CASE key = "aof_fsync_mode"
  <2>1. entry.type = "ENUM" /\ entry.words = <<"data", "meta", "full">>
    BY <1>0, <1>5 DEF config_table, Enum, aof_fsync_mode_values
  <2>2. ~v.number /\ v.w \in {"data", "meta", "full"}
    BY <1>0, <2>1 DEF Accepts
  <2>3. Stored(entry, v) = AOF_FSYNC_MODE[v.w]
    BY <2>1, <2>2 DEF Stored, AOF_FSYNC_MODE
  <2> QED
    BY <1>0, <1>5, <2>2, <2>3 DEF Means, LegalValue, IntKeys, AOF_FSYNC_MODE
<1> QED
  BY <1>1, <1>2, <1>3, <1>4, <1>5 DEF Keys

\* What load_line reports, and what it stores.
Sets(l, key) == l.kind = "set" /\ l.key = key
Legal(l) == l.kind = "skip" \/ (l.kind = "set" /\ l.key \in Keys /\ Accepts(config_table[l.key], l.value))

LEMMA LineLoads ==
  ASSUME NEW l \in Line, NEW c, DOMAIN c = Keys
  PROVE  LET r == load_line(c, l)
         IN  /\ r.ok <=> Legal(l)
             /\ DOMAIN r.cfg = Keys
             /\ \A key \in Keys : ~(Legal(l) /\ Sets(l, key)) => r.cfg[key] = c[key]
             /\ \A key \in Keys : Legal(l) /\ Sets(l, key) => r.cfg[key] = Stored(config_table[key], l.value)
<1>1. CASE l.kind = "skip"
  <2>1. load_line(c, l) = [ok |-> TRUE, cfg |-> c]
    BY <1>1 DEF load_line
  <2> QED
    BY <1>1, <2>1 DEF Legal, Sets
<1>2. CASE l.kind = "malformed"
  <2>1. load_line(c, l) = [ok |-> FALSE, cfg |-> c]
    BY <1>2 DEF load_line
  <2> QED
    BY <1>2, <2>1 DEF Legal, Sets
<1>3. CASE l.kind = "set" /\ l.key \notin Keys
  <2>1. load_line(c, l) = [ok |-> FALSE, cfg |-> c]
    BY <1>3, TableFacts DEF load_line, find_config
  <2> QED
    BY <1>3, <2>1 DEF Legal, Sets
<1>4. CASE l.kind = "set" /\ l.key \in Keys
  <2>1. load_line(c, l) = apply_config(c, l.key, l.value)
    BY <1>4, TableFacts DEF load_line, find_config
  <2>2. CASE Accepts(config_table[l.key], l.value)
    <3> DEFINE w == Stored(config_table[l.key], l.value)
               d == [c EXCEPT ![l.key] = w]
    <3>1. load_line(c, l) = [ok |-> TRUE, cfg |-> d]
      BY <2>1, <2>2 DEF apply_config
    <3> HIDE DEF w
    <3>2. DOMAIN d = Keys /\ d[l.key] = w /\ \A key \in Keys : key # l.key => d[key] = c[key]
      BY <1>4
    <3> HIDE DEF d
    <3>3. Legal(l)
      BY <1>4, <2>2 DEF Legal
    <3>4. load_line(c, l).ok /\ load_line(c, l).cfg = d
      BY <3>1
    <3> QED
      BY <1>4, <3>2, <3>3, <3>4 DEF Sets, w
  <2>3. CASE ~Accepts(config_table[l.key], l.value)
    <3>1. load_line(c, l) = [ok |-> FALSE, cfg |-> c]
      BY <2>1, <2>3 DEF apply_config
    <3> QED
      BY <1>4, <2>3, <3>1 DEF Legal, Sets
  <2> QED
    BY <2>2, <2>3
<1>5. l.kind \in {"skip", "malformed", "set"}
  BY DEF Line, Skipped, Malformed
<1> QED
  BY <1>1, <1>2, <1>3, <1>4, <1>5

-------------------------------------------------------------------------------
(* The inductive invariant                                                 *)

\* Past load_config, every line was read and none refused.
Loaded == (Starting \ {"config"}) \cup Running \cup {"stop"}

BootOK ==
  /\ pc \in Starting \cup Running \cup Ended \cup {"stop"}
  /\ conf \in ConfigFiles /\ line \in 0..Len(conf) /\ errors \in 0..line
  /\ starts \in 1..MaxStarts
  /\ signaled \in BOOLEAN /\ pipe \in Nat /\ signals \in 0..MaxSignals
  /\ events \subseteq {"pipe", "client"} /\ stop \in BOOLEAN
  /\ pc \in Loaded => line = Len(conf) /\ errors = 0

CfgOK ==
  /\ DOMAIN cfg = Keys
  /\ \A key \in IntKeys : cfg[key] \in config_table[key].min..config_table[key].max

\* If no line was refused so far, the lines read are legal, and each setting
\* has the value of the last line for it, or its default.
Written(n) ==
  /\ \A i \in 1..n : Legal(conf[i])
  /\ \A key \in Keys :
       /\ (\A i \in 1..n : ~Sets(conf[i], key)) => cfg[key] = init_server_config[key]
       /\ \A i \in 1..n : Sets(conf[i], key) /\ (\A j \in (i + 1)..n : ~Sets(conf[j], key))
                            => cfg[key] = Stored(config_table[key], conf[i].value)

ReadOK == errors = 0 => Written(line)

\* The process ends in one of three ways.
LEMMA Ways == "exit 0" \in Ended /\ "exit 1" \in Ended /\ "killed" \in Ended
BY DEF Ended

LEMMA ConfSeq ==
  ASSUME BootOK
  PROVE  conf \in Seq(Line) /\ Len(conf) \in Nat
BY LifecycleAssumption DEF BootOK

LEMMA BootInit == Init => BootOK /\ CfgOK /\ ReadOK
<1> SUFFICES ASSUME Init PROVE BootOK /\ CfgOK /\ ReadOK
  OBVIOUS
<1>1. conf \in Seq(Line) /\ Len(conf) \in Nat
  BY LifecycleAssumption DEF Init
<1>2. BootOK
  <2>1. "config" \in Starting /\ "config" \notin Loaded
    BY DEF Starting, Deaf, Loaded, Running
  <2>2. 1 \in 1..MaxStarts /\ 0 \in 0..MaxSignals
    BY LifecycleAssumption
  <2>3. line \in 0..Len(conf) /\ errors \in 0..line /\ pipe \in Nat
    BY <1>1 DEF Init
  <2>4. signaled \in BOOLEAN /\ stop \in BOOLEAN /\ events \subseteq {"pipe", "client"}
    BY DEF Init
  <2>5. pc = "config" /\ conf \in ConfigFiles /\ starts = 1 /\ signals = 0
    BY DEF Init
  <2> QED
    BY <2>1, <2>2, <2>3, <2>4, <2>5 DEF BootOK
<1>3. CfgOK
  BY TableFacts DEF Init, CfgOK
<1>4. Written(0)
  BY DEF Init, Written
<1> QED
  BY <1>2, <1>3, <1>4 DEF Init, ReadOK

\* One line is read.
LEMMA LineStep ==
  ASSUME BootOK, CfgOK, ReadOK, line < Len(conf), NEW r, r = load_line(cfg, conf[line + 1]),
         cfg' = r.cfg, errors' = IF r.ok THEN errors ELSE errors + 1, line' = line + 1, conf' = conf
  PROVE  CfgOK' /\ ReadOK' /\ line' \in 0..Len(conf') /\ errors' \in 0..line'
<1>0. PICK l, n : l = conf[line + 1] /\ n = line
  OBVIOUS
<1>1. conf \in Seq(Line) /\ Len(conf) \in Nat /\ n \in Nat /\ errors \in Nat /\ errors <= n /\ n < Len(conf)
  BY <1>0, ConfSeq DEF BootOK
<1>2. l \in Line
  BY <1>0, <1>1, ElementOfSeq
<1>3. /\ r.ok <=> Legal(l)
      /\ DOMAIN r.cfg = Keys
      /\ \A key \in Keys : ~(Legal(l) /\ Sets(l, key)) => r.cfg[key] = cfg[key]
      /\ \A key \in Keys : Legal(l) /\ Sets(l, key) => r.cfg[key] = Stored(config_table[key], l.value)
  BY <1>0, <1>2, LineLoads DEF CfgOK
<1>4. CfgOK'
  <2> SUFFICES ASSUME NEW key \in IntKeys
               PROVE  r.cfg[key] \in config_table[key].min..config_table[key].max
    BY <1>3 DEF CfgOK
  <2>1. key \in Keys
    BY DEF Keys
  <2>2. ASSUME Legal(l), Sets(l, key) PROVE l.value \in Value /\ Accepts(config_table[key], l.value)
    BY <1>2, <2>2 DEF Legal, Sets, Line, Skipped, Malformed
  <2>3. CASE Legal(l) /\ Sets(l, key)
    BY <1>3, <2>1, <2>2, <2>3, StoredMeans
  <2>4. CASE ~(Legal(l) /\ Sets(l, key))
    BY <1>3, <2>1, <2>4 DEF CfgOK
  <2> QED
    BY <2>3, <2>4
<1>5. ASSUME errors' = 0 PROVE Written(n + 1)'
  <2>1. Legal(l) /\ errors = 0 /\ Written(n)
    BY <1>0, <1>1, <1>3, <1>5 DEF ReadOK
  <2>2. \A i \in 1..(n + 1) : i \in 1..n \/ (i = n + 1 /\ conf[i] = l)
    BY <1>0, <1>1
  <2>3. \A i \in 1..(n + 1) : Legal(conf[i])
    BY <2>1, <2>2 DEF Written
  <2>4. ASSUME NEW key \in Keys, \A i \in 1..(n + 1) : ~Sets(conf[i], key)
        PROVE  r.cfg[key] = init_server_config[key]
    <3>1. ~Sets(l, key) /\ \A i \in 1..n : ~Sets(conf[i], key)
      BY <1>0, <1>1, <2>4
    <3> QED
      BY <1>3, <2>1, <3>1 DEF Written
  <2>5. ASSUME NEW key \in Keys, NEW i \in 1..(n + 1), Sets(conf[i], key),
               \A j \in (i + 1)..(n + 1) : ~Sets(conf[j], key)
        PROVE  r.cfg[key] = Stored(config_table[key], conf[i].value)
    <3>1. CASE i = n + 1
      BY <1>0, <1>3, <2>1, <2>5, <3>1
    <3>2. CASE i \in 1..n
      <4>1. n + 1 \in (i + 1)..(n + 1) /\ \A j \in (i + 1)..n : j \in (i + 1)..(n + 1)
        BY <1>1, <3>2
      <4>2. ~Sets(l, key) /\ \A j \in (i + 1)..n : ~Sets(conf[j], key)
        BY <1>0, <2>5, <4>1
      <4> QED
        BY <1>3, <2>1, <2>5, <3>2, <4>2 DEF Written
    <3> QED
      BY <2>2, <3>1, <3>2
  <2> QED
    BY <2>3, <2>4, <2>5 DEF Written
<1>6. line' = n + 1
  BY <1>0
<1> QED
  BY <1>0, <1>1, <1>3, <1>4, <1>5, <1>6 DEF ReadOK

LEMMA BootStep ==
  ASSUME BootOK, CfgOK, ReadOK, [Next]_vars
  PROVE  BootOK' /\ CfgOK' /\ ReadOK'
<1>0. conf \in Seq(Line) /\ Len(conf) \in Nat
  BY ConfSeq
<1>1. UNCHANGED <<cfg, conf, line, errors>> => CfgOK' /\ ReadOK'
  BY DEF CfgOK, ReadOK, Written
<1>2. ASSUME NEW how \in Ended, End(how), UNCHANGED <<bootVars, signals>> \/ (UNCHANGED bootVars /\ signals' \in 0..MaxSignals)
      PROVE  BootOK' /\ CfgOK' /\ ReadOK'
  <2>1. how \notin Loaded
    BY DEF Ended, Loaded, Starting, Deaf, PipeLess, Running
  <2>2. BootOK'
    BY <1>2, <2>1 DEF BootOK, End, bootVars
  <2> QED
    BY <1>1, <1>2, <2>2 DEF bootVars
<1>3. ASSUME load_config PROVE BootOK' /\ CfgOK' /\ ReadOK'
  <2>1. ASSUME line < Len(conf), NEW r, r = load_line(cfg, conf[line + 1]),
               cfg' = r.cfg, errors' = IF r.ok THEN errors ELSE errors + 1, line' = line + 1,
               UNCHANGED <<pc, conf, starts, signalVars, loopVars>>
        PROVE  BootOK' /\ CfgOK' /\ ReadOK'
    <3>1. CfgOK' /\ ReadOK' /\ line' \in 0..Len(conf') /\ errors' \in 0..line'
      BY <2>1, LineStep
    <3>2. pc \notin Loaded
      BY <1>3 DEF load_config, Loaded, Running, Starting
    <3>3. BootOK'
      BY <2>1, <3>1, <3>2 DEF BootOK, signalVars, loopVars
    <3> QED
      BY <3>1, <3>3
  <2>2. ASSUME line = Len(conf), errors = 0, pc' = "init", UNCHANGED <<bootVars, signalVars, loopVars>>
        PROVE  BootOK' /\ CfgOK' /\ ReadOK'
    BY <1>1, <2>2 DEF BootOK, bootVars, signalVars, loopVars, Starting, Deaf
  <2>3. ASSUME Fail PROVE BootOK' /\ CfgOK' /\ ReadOK'
    BY <1>2, <2>3, Ways DEF Fail
  <2> QED
    BY <1>3, <2>1, <2>2, <2>3 DEF load_config
<1>4. ASSUME init_server PROVE BootOK' /\ CfgOK' /\ ReadOK'
  <2>1. ASSUME NEW from, NEW to, Step(from, to), from \in Starting \ {"config"}, to \in Starting \cup Running
        PROVE  BootOK' /\ CfgOK' /\ ReadOK'
    BY <1>1, <2>1 DEF Step, BootOK, bootVars, signalVars, loopVars, Loaded
  <2>2. ASSUME Fail PROVE BootOK' /\ CfgOK' /\ ReadOK'
    BY <1>2, <2>2, Ways DEF Fail
  <2>3. {"init", "load", "listen", "open", "kqueue", "pipe", "watch"} \subseteq Starting \ {"config"}
        /\ "tick" \in Running
    BY DEF Starting, Deaf, PipeLess, Running
  <2> QED
    BY <1>4, <2>1, <2>2, <2>3 DEF init_server, setup_signal_handlers, aof_load, create_listener,
       open_aof, el_init, shutdown_pipe_setup, el_add_all
<1>5. ASSUME Restart PROVE BootOK' /\ CfgOK' /\ ReadOK'
  <2>1. BootOK'
    BY <1>0, <1>5, LifecycleAssumption
    DEF Restart, BootOK, Starting, Deaf, Loaded, Running, loopVars
  <2>2. CfgOK'
    BY <1>5, TableFacts DEF Restart, CfgOK
  <2>3. Written(0)'
    BY <1>5 DEF Restart, Written
  <2> QED
    BY <1>5, <2>1, <2>2, <2>3 DEF Restart, ReadOK
<1>6. ASSUME NEW sig, sig_shutdown_handler(sig) PROVE BootOK' /\ CfgOK' /\ ReadOK'
  <2>1. UNCHANGED bootVars /\ signals' \in 0..MaxSignals
    <3>1. UNCHANGED bootVars /\ signals < MaxSignals /\ signals' = signals + 1
      BY <1>6 DEF sig_shutdown_handler
    <3> QED
      BY <3>1, LifecycleAssumption DEF BootOK
  <2>2. ASSUME pc \notin Deaf, signaled' = TRUE, pipe' = IF pc \in PipeLess THEN pipe ELSE pipe + 1,
               pc' \in IF pc = "poll" THEN {"poll", "tick"} ELSE {pc}, UNCHANGED loopVars
        PROVE  BootOK'
    <3>1. pc \in Loaded /\ pc' \in Loaded /\ pc' \in Starting \cup Running \cup Ended \cup {"stop"}
      BY <1>6, <2>2 DEF sig_shutdown_handler, Loaded, Running, Starting, Deaf
    <3> QED
      BY <2>1, <2>2, <3>1 DEF BootOK, bootVars, loopVars
  <2> QED
    BY <1>1, <1>2, <1>6, <2>1, <2>2, Ways DEF sig_shutdown_handler, bootVars
<1>7. ASSUME Loop PROVE BootOK' /\ CfgOK' /\ ReadOK'
  <2>1. ASSUME pc \in Running, pc' \in Running \cup {"stop"},
               UNCHANGED bootVars, signaled' \in BOOLEAN, pipe' \in Nat, signals' = signals,
               events' \subseteq {"pipe", "client"}, stop' \in BOOLEAN
        PROVE  BootOK' /\ CfgOK' /\ ReadOK'
    BY <1>1, <2>1 DEF BootOK, bootVars, Loaded
  <2>2. {"tick", "cron", "poll", "events"} = Running
    BY DEF Running
  <2>3. ASSUME NEW dt, before_sleep(dt) PROVE BootOK' /\ CfgOK' /\ ReadOK'
    BY <2>1, <2>2, <2>3 DEF before_sleep, BootOK, signalVars, loopVars
  <2>4. ASSUME aof_rewrite_cron \/ el_run PROVE BootOK' /\ CfgOK' /\ ReadOK'
    BY <2>1, <2>2, <2>4 DEF aof_rewrite_cron, el_run, BootOK, signalVars, loopVars
  <2>5. ASSUME el_poll PROVE BootOK' /\ CfgOK' /\ ReadOK'
    BY <2>1, <2>2, <2>5 DEF el_poll, BootOK, signalVars
  <2>6. ASSUME on_shutdown PROVE BootOK' /\ CfgOK' /\ ReadOK'
    BY <2>1, <2>2, <2>6 DEF on_shutdown, BootOK
  <2>7. ASSUME on_command PROVE BootOK' /\ CfgOK' /\ ReadOK'
    <3>1. pipe' \in Nat
      BY <2>7 DEF on_command, aof_emit_diff, BootOK
    <3> QED
      BY <2>1, <2>2, <2>7, <3>1 DEF on_command, BootOK
  <2>8. ASSUME shutdown_server PROVE BootOK' /\ CfgOK' /\ ReadOK'
    BY <1>2, <2>8, Ways DEF shutdown_server
  <2> QED
    BY <1>7, <2>3, <2>4, <2>5, <2>6, <2>7, <2>8 DEF Loop
<1>8. ASSUME Child \/ OrphanEnds \/ Rest \/ UNCHANGED vars PROVE BootOK' /\ CfgOK' /\ ReadOK'
  <2>1. UNCHANGED <<pc, bootVars, signalVars, loopVars>>
    BY <1>8 DEF Child, aof_rewrite_child, OrphanEnds, Rest, vars
  <2> QED
    BY <1>1, <2>1 DEF BootOK, bootVars, signalVars, loopVars
<1> QED
  BY <1>3, <1>4, <1>5, <1>6, <1>7, <1>8 DEF Next

\* Rewriting.  A failure that is still to be recorded leaves room for itself.
RewriteOK ==
  /\ rwState \in {"IDLE", "ACTIVE", "ABORTING"}
  /\ child \in {"none", "running", "ok", "failed"}
  /\ temp \in Nat /\ orphan \in BOOLEAN
  /\ streak \in 0..MaxStreak /\ wait \in Nat /\ since \in Nat
  /\ rwState = "IDLE" => child = "none"
  /\ rwState = "ABORTING" \/ child = "failed" => streak < MaxStreak
  /\ rwState = "ACTIVE" => temp >= HeaderSize
  /\ pc \in Starting \cup Ended => rwState = "IDLE" /\ streak = 0

\* The delay that the documentation promises after the last failure, and how
\* much of it is over.
Due == Lesser(cfg.aof_rewrite_backoff_base_ms * 2 ^ (streak - 1), cfg.aof_rewrite_backoff_max_ms)

BackoffOK ==
  streak > 0 =>
    /\ since + wait >= Due
    /\ cfg.aof_rewrite_backoff_base_ms <= cfg.aof_rewrite_backoff_max_ms =>
         (wait > 0 => since + wait = Due) /\ (wait = 0 => since <= Due + CheckMs)

\* The file: it has its header when the server opens it, or is new, and without
\* a write since its size was taken it still has that size.
Replayed == {"listen", "open"}
Open == {"kqueue", "pipe", "watch"} \cup Running

SizeOK ==
  /\ size \in Nat /\ last_size \in Nat /\ headed \in BOOLEAN /\ stale \in BOOLEAN
  /\ headed => size >= HeaderSize
  /\ pc \in Replayed /\ cfg.aof_enabled => headed \/ size = 0
  /\ pc \in Open /\ cfg.aof_enabled /\ ~stale => size = last_size /\ last_size >= HeaderSize
  /\ pc = "cron" => cfg.aof_enabled

RestOK == RewriteOK /\ BackoffOK /\ SizeOK

\* The settings of the backoff, and the delay, are numbers.
LEMMA DelayType ==
  ASSUME CfgOK, RewriteOK
  PROVE  /\ cfg.aof_rewrite_backoff_base_ms \in Nat /\ cfg.aof_rewrite_backoff_max_ms \in Nat
         /\ streak > 0 => Due \in Nat
<1>1. cfg.aof_rewrite_backoff_base_ms \in Nat /\ cfg.aof_rewrite_backoff_max_ms \in Nat
  <2>1. "aof_rewrite_backoff_base_ms" \in IntKeys /\ "aof_rewrite_backoff_max_ms" \in IntKeys
    BY DEF IntKeys
  <2>2. config_table["aof_rewrite_backoff_base_ms"] = Limits(100, 600000)
        /\ config_table["aof_rewrite_backoff_max_ms"] = Limits(1000, 3600000)
    BY DEF config_table
  <2> QED
    BY <2>1, <2>2 DEF CfgOK, Limits
<1>2. ASSUME streak > 0 PROVE Due \in Nat
  <2>1. streak - 1 \in Nat
    BY <1>2 DEF RewriteOK
  <2>2. PICK p, base, ceiling : /\ p = 2 ^ (streak - 1) /\ base = cfg.aof_rewrite_backoff_base_ms
                                /\ ceiling = cfg.aof_rewrite_backoff_max_ms
    OBVIOUS
  <2>3. p \in Nat /\ base \in Nat /\ ceiling \in Nat
    BY <1>1, <2>1, <2>2, Doubling
  <2>4. base * p \in Nat
    BY <2>3
  <2> QED
    BY <2>2, <2>3, <2>4 DEF Due, Lesser
<1> QED
  BY <1>1, <1>2

\* A failure is recorded: the whole delay lies ahead.
LEMMA FailureOK ==
  ASSUME CfgOK, RewriteOK, streak < MaxStreak, aof_rewrite_record_failure, cfg' = cfg
  PROVE  streak' \in 1..MaxStreak /\ wait' \in Nat /\ since' = 0 /\ BackoffOK'
<1>1. cfg.aof_rewrite_backoff_base_ms \in Nat /\ cfg.aof_rewrite_backoff_max_ms \in Nat /\ streak \in Nat
  BY DelayType DEF RewriteOK
<1>2. streak' = streak + 1 /\ wait' = Delay(streak + 1) /\ since' = 0
  BY DEF aof_rewrite_record_failure
<1>3. PICK n : n = streak + 1
  OBVIOUS
<1>4. n \in Nat \ {0}
  BY <1>1, <1>3
<1>5. /\ Delay(n) \in Nat
      /\ Delay(n) >= Lesser(cfg.aof_rewrite_backoff_base_ms * 2 ^ (n - 1), cfg.aof_rewrite_backoff_max_ms)
      /\ cfg.aof_rewrite_backoff_base_ms <= cfg.aof_rewrite_backoff_max_ms =>
           Delay(n) = Lesser(cfg.aof_rewrite_backoff_base_ms * 2 ^ (n - 1), cfg.aof_rewrite_backoff_max_ms)
  BY <1>1, <1>4, DelayDoubles
<1>6. streak' \in 1..MaxStreak /\ wait' \in Nat
  BY <1>1, <1>2, <1>3, <1>5, LifecycleAssumption DEF RewriteOK
<1>7. /\ wait' >= Due'
      /\ cfg.aof_rewrite_backoff_base_ms <= cfg.aof_rewrite_backoff_max_ms => wait' = Due'
  BY <1>2, <1>3, <1>5 DEF Due
<1>8. BackoffOK'
  <2>1. since' + wait' = wait'
    BY <1>2, <1>6
  <2>2. ASSUME cfg.aof_rewrite_backoff_base_ms <= cfg.aof_rewrite_backoff_max_ms, wait' = 0
        PROVE  since' <= Due' + CheckMs
    <3>1. Due' = 0 /\ since' = 0
      BY <1>2, <1>7, <2>2
    <3> QED
      BY <3>1 DEF CheckMs
  <2> QED
    BY <1>7, <2>1, <2>2 DEF BackoffOK
<1> QED
  BY <1>2, <1>6, <1>8

\* A file with its header and some records.
LEMMA HeadedSizes ==
  ASSUME SizeOK, NEW s \in HeadedSize
  PROVE  s \in Nat /\ s >= HeaderSize
<1>1. PICK r : r = Records
  OBVIOUS
<1>2. PICK n \in 0..r : s = HeaderSize + n * RecordSize
  BY <1>1 DEF HeadedSize
<1>4. n \in Nat
  BY <1>2
<1>5. PICK m : m = n * RecordSize
  OBVIOUS
<1>6. m \in Nat
  BY <1>4, <1>5, LifecycleAssumption
<1> QED
  BY <1>2, <1>5, <1>6 DEF HeaderSize

\* A rewrite starts, or fails to.
LEMMA StartOK ==
  ASSUME CfgOK, RewriteOK, BackoffOK, SizeOK, rwState = "IDLE", aof_rewrite_start,
         pc \notin Starting \cup Ended, pc' \notin Starting \cup Ended, UNCHANGED <<cfg, orphan>>
  PROVE  RewriteOK' /\ BackoffOK'
<1>1. ASSUME rwState' = "ACTIVE", child' = "running",
             temp' \in HeadedSize,
             UNCHANGED <<streak, wait, since>>
      PROVE  RewriteOK' /\ BackoffOK'
  <2>2. temp' \in Nat /\ temp' >= HeaderSize
    BY <1>1, HeadedSizes
  <2>3. BackoffOK'
    BY <1>1 DEF BackoffOK, Due
  <2> QED
    BY <1>1, <2>2, <2>3 DEF RewriteOK
<1>2. ASSUME MayFail, aof_rewrite_record_failure, UNCHANGED <<rwState, child, temp>>
      PROVE  RewriteOK' /\ BackoffOK'
  <2>1. streak' \in 1..MaxStreak /\ wait' \in Nat /\ since' = 0 /\ BackoffOK'
    BY <1>2, FailureOK DEF MayFail
  <2> QED
    BY <1>2, <2>1 DEF RewriteOK
<1> QED
  BY <1>1, <1>2 DEF aof_rewrite_start

\* A rewrite is over, without success.
LEMMA FailedOK ==
  ASSUME CfgOK, RewriteOK, streak < MaxStreak, aof_rewrite_record_failure, aof_rewrite_cleanup,
         pc' \notin Starting \cup Ended, UNCHANGED <<cfg, orphan>>
  PROVE  RewriteOK' /\ BackoffOK'
<1>1. streak' \in 1..MaxStreak /\ wait' \in Nat /\ since' = 0 /\ BackoffOK'
  BY FailureOK
<1> QED
  BY <1>1 DEF RewriteOK, aof_rewrite_cleanup

\* The process ends.
LEMMA EndOK ==
  ASSUME RestOK, NEW how \in Ended, End(how), UNCHANGED <<bootVars, fileVars>>
  PROVE  RestOK'
<1>1. how \notin Open /\ how \notin Replayed /\ how # "cron"
  BY DEF Ended, Open, Replayed, Running
<1>2. RewriteOK'
  <2>1. orphan' \in BOOLEAN
    BY DEF End
  <2> QED
    BY <2>1, LifecycleAssumption DEF RewriteOK, RestOK, End
<1>3. BackoffOK'
  BY DEF BackoffOK, End
<1>4. SizeOK'
  BY <1>1 DEF SizeOK, RestOK, End, fileVars
<1> QED
  BY <1>2, <1>3, <1>4 DEF RestOK

\* What leaves rewriting alone.
LEMMA SameRewrite ==
  ASSUME RewriteOK, BackoffOK, UNCHANGED <<cfg, orphan, rewriteVars>>,
         pc' \in Starting \cup Ended => pc \in Starting \cup Ended
  PROVE  RewriteOK' /\ BackoffOK'
<1>1. RewriteOK'
  BY DEF RewriteOK, rewriteVars
<1>2. BackoffOK'
  BY DEF BackoffOK, Due, rewriteVars
<1> QED
  BY <1>1, <1>2

LEMMA RestInit == Init => RestOK
<1> SUFFICES ASSUME Init PROVE RestOK
  OBVIOUS
<1>1. RewriteOK
  <2>1. 0 \in 0..MaxStreak
    BY LifecycleAssumption
  <2>2. orphan \in BOOLEAN /\ temp \in Nat /\ wait \in Nat /\ since \in Nat
    BY DEF Init
  <2> QED
    BY <2>1, <2>2 DEF Init, RewriteOK
<1>2. BackoffOK
  BY DEF Init, BackoffOK
<1>3. SizeOK
  <2>1. "config" \notin Open /\ "config" \notin Replayed /\ "config" # "cron"
    BY DEF Open, Replayed, Running
  <2>2. stale \in BOOLEAN /\ headed \in BOOLEAN
    BY DEF Init
  <2> QED
    BY <2>1, <2>2 DEF Init, SizeOK
<1> QED
  BY <1>1, <1>2, <1>3 DEF RestOK

\* Starting up.
LEMMA StartupOK ==
  ASSUME BootOK, CfgOK, RestOK, load_config \/ init_server \/ Restart
  PROVE  RestOK'
<1>0. RewriteOK /\ BackoffOK /\ SizeOK
  BY DEF RestOK
<1>1. ASSUME Fail PROVE RestOK'
  BY <1>1, EndOK, Ways DEF Fail
<1>2. ASSUME NEW from \in Starting, NEW to, Step(from, to)
      PROVE  RewriteOK' /\ BackoffOK' /\ cfg' = cfg
  BY <1>0, <1>2, SameRewrite DEF Step, bootVars
<1>3. ASSUME load_config PROVE RestOK'
  <2>1. ASSUME pc' = pc, UNCHANGED <<fileVars, rewriteVars, orphan>>, pc = "config"
        PROVE  RestOK'
    <3>1. streak = 0 /\ streak' = 0
      BY <1>0, <2>1 DEF RewriteOK, Starting, Deaf, rewriteVars
    <3>2. RewriteOK'
      BY <1>0, <2>1 DEF RewriteOK, rewriteVars
    <3>3. BackoffOK'
      BY <3>1 DEF BackoffOK
    <3>4. SizeOK'
      BY <1>0, <2>1 DEF SizeOK, Open, Replayed, Running, fileVars
    <3> QED
      BY <3>2, <3>3, <3>4 DEF RestOK
  <2>2. ASSUME pc = "config", pc' = "init", UNCHANGED <<bootVars, fileVars, rewriteVars, orphan>> PROVE RestOK'
    <3>1. RewriteOK' /\ BackoffOK'
      BY <1>0, <2>2, SameRewrite DEF bootVars, Starting, Deaf
    <3>2. SizeOK'
      BY <1>0, <2>2 DEF SizeOK, Open, Replayed, Running, fileVars
    <3> QED
      BY <3>1, <3>2 DEF RestOK
  <2> QED
    BY <1>1, <1>3, <2>1, <2>2 DEF load_config
<1>4. ASSUME Restart PROVE RestOK'
  <2>1. pc \in Ended /\ pc' = "config" /\ UNCHANGED <<size, headed, stale, rewriteVars, orphan>> /\ last_size' = 0
    BY <1>4 DEF Restart
  <2>2. streak = 0 /\ streak' = 0
    BY <1>0, <2>1 DEF RewriteOK, rewriteVars
  <2>3. RewriteOK'
    BY <1>0, <2>1 DEF RewriteOK, rewriteVars
  <2>4. BackoffOK'
    BY <2>2 DEF BackoffOK
  <2>5. SizeOK'
    BY <1>0, <2>1 DEF SizeOK, Open, Replayed, Running
  <2> QED
    BY <2>3, <2>4, <2>5 DEF RestOK
<1>5. ASSUME init_server PROVE RestOK'
  <2>1. {"init", "load", "listen", "open", "kqueue", "pipe", "watch"} \subseteq Starting
    BY DEF Starting, Deaf, PipeLess
  <2>2. ASSUME setup_signal_handlers \/ create_listener \/ el_init \/ shutdown_pipe_setup \/ el_add_all
        PROVE  RestOK'
    <3>1. PICK from, to : /\ from \in Starting /\ Step(from, to)
                          /\ to \notin {"cron"} /\ (to \in Open => from \in Open)
                          /\ (to \in Replayed => from \in Replayed)
      BY <2>1, <2>2 DEF setup_signal_handlers, create_listener, el_init, shutdown_pipe_setup, el_add_all,
         Open, Replayed, Running
    <3>2. RewriteOK' /\ BackoffOK' /\ cfg' = cfg
      BY <1>2, <3>1
    <3>3. UNCHANGED fileVars /\ pc = from /\ pc' = to
      BY <2>2, <3>1 DEF setup_signal_handlers, create_listener, el_init, shutdown_pipe_setup, el_add_all, Step
    <3>4. SizeOK'
      BY <1>0, <3>1, <3>2, <3>3 DEF SizeOK, fileVars
    <3> QED
      BY <3>2, <3>4 DEF RestOK
  <2>3. ASSUME aof_load PROVE RestOK'
    <3>1. RewriteOK' /\ BackoffOK' /\ cfg' = cfg
      BY <1>2, <2>1, <2>3 DEF aof_load
    <3>2. pc' = "listen" /\ UNCHANGED <<last_size, headed, stale>>
      BY <2>3 DEF aof_load, Step
    <3>3. CASE cfg.aof_enabled /\ size > 0
      <4>1. headed /\ size' \in HeadedSize
        BY <2>3, <3>3 DEF aof_load
      <4>2. size' \in Nat /\ size' >= HeaderSize
        BY <1>0, <4>1, HeadedSizes
      <4>3. SizeOK'
        BY <1>0, <3>2, <4>1, <4>2 DEF SizeOK, Open, Running
      <4> QED
        BY <3>1, <4>3 DEF RestOK
    <3>4. CASE ~(cfg.aof_enabled /\ size > 0)
      <4>1. size' = size
        BY <2>3, <3>4 DEF aof_load
      <4>2. ~cfg.aof_enabled \/ size = 0
        BY <1>0, <3>4 DEF SizeOK
      <4>3. SizeOK'
        BY <1>0, <3>1, <3>2, <4>1, <4>2 DEF SizeOK, Open, Running
      <4> QED
        BY <3>1, <4>3 DEF RestOK
    <3> QED
      BY <3>3, <3>4
  <2>4. ASSUME open_aof PROVE RestOK'
    <3>1. RewriteOK' /\ BackoffOK' /\ cfg' = cfg
      BY <1>2, <2>1, <2>4 DEF open_aof
    <3>2. pc' = "kqueue"
      BY <2>4 DEF open_aof, Step
    <3>3. CASE cfg.aof_enabled
      <4>0. "open" \in Replayed /\ "kqueue" \notin Replayed /\ pc = "open"
        BY <2>4 DEF Replayed, open_aof, Step
      <4>1. headed \/ size = 0
        BY <1>0, <3>3, <4>0 DEF SizeOK
      <4>2. ASSUME size' = (IF size = 0 THEN HeaderSize ELSE size), headed' = (headed \/ size = 0),
                   stale' \in BOOLEAN, last_size' \in Nat, ~stale' => last_size' = size'
            PROVE  RestOK'
        <5>1. size' \in Nat /\ size' >= HeaderSize
          BY <1>0, <4>1, <4>2 DEF SizeOK, HeaderSize
        <5>2. headed' \in BOOLEAN
          BY <4>2
        <5>3. SizeOK'
          BY <3>2, <4>0, <4>2, <5>1, <5>2 DEF SizeOK
        <5> QED
          BY <3>1, <5>3 DEF RestOK
      <4>3. ASSUME UNCHANGED <<size, last_size, headed>>, stale' = TRUE PROVE RestOK'
        <5>1. SizeOK'
          BY <1>0, <3>2, <4>0, <4>3 DEF SizeOK
        <5> QED
          BY <3>1, <5>1 DEF RestOK
      <4>4. \/ /\ size' = (IF size = 0 THEN HeaderSize ELSE size) /\ headed' = (headed \/ size = 0)
               /\ \/ last_size' = size' /\ stale' = FALSE
                  \/ UNCHANGED last_size /\ stale' = TRUE
            \/ UNCHANGED <<size, last_size, headed>> /\ stale' = TRUE
        BY <2>4, <3>3 DEF open_aof
      <4>5. last_size \in Nat /\ (size' = (IF size = 0 THEN HeaderSize ELSE size) => size' \in Nat)
        BY <1>0 DEF SizeOK, HeaderSize
      <4> QED
        BY <4>2, <4>3, <4>4, <4>5
    <3>4. CASE ~cfg.aof_enabled
      <4>1. UNCHANGED <<size, last_size, headed, stale>>
        BY <2>4, <3>4 DEF open_aof, fileVars
      <4> QED
        BY <1>0, <3>1, <3>2, <3>4, <4>1 DEF RestOK, SizeOK
    <3> QED
      BY <3>3, <3>4
  <2> QED
    BY <1>1, <1>5, <2>2, <2>3, <2>4 DEF init_server
<1> QED
  BY <1>3, <1>4, <1>5

LEMMA SignalOK ==
  ASSUME BootOK, CfgOK, RestOK, NEW sig, sig_shutdown_handler(sig)
  PROVE  RestOK'
<1>0. RewriteOK /\ BackoffOK /\ SizeOK /\ UNCHANGED <<bootVars, fileVars>>
  BY DEF RestOK, sig_shutdown_handler
<1>1. ASSUME NEW how \in Ended, End(how) PROVE RestOK'
  BY <1>0, <1>1, EndOK
<1>2. ASSUME pc' \in IF pc = "poll" THEN {"poll", "tick"} ELSE {pc}, UNCHANGED <<rewriteVars, orphan>>
      PROVE  RestOK'
  <2>1. pc' = pc \/ (pc = "poll" /\ pc' = "tick")
    BY <1>2
  <2>2. /\ pc' \in Starting \cup Ended => pc \in Starting \cup Ended
        /\ pc' \in Open => pc \in Open
        /\ pc' \in Replayed => pc \in Replayed
        /\ pc' = "cron" => pc = "cron"
    BY <2>1 DEF Starting, Deaf, PipeLess, Ended, Open, Replayed, Running
  <2>3. RewriteOK' /\ BackoffOK'
    BY <1>0, <1>2, <2>2, SameRewrite DEF bootVars
  <2>4. SizeOK'
    BY <1>0, <2>2 DEF SizeOK, fileVars, bootVars
  <2> QED
    BY <2>3, <2>4 DEF RestOK
<1> QED
  BY <1>1, <1>2, Ways DEF sig_shutdown_handler

\* Time passes.
LEMMA TickOK ==
  ASSUME BootOK, CfgOK, RestOK, NEW dt \in {0, CheckMs}, before_sleep(dt)
  PROVE  RestOK'
<1>0. /\ RewriteOK /\ BackoffOK /\ SizeOK /\ UNCHANGED <<cfg, size, last_size, headed, stale, rwState, child, temp, streak, orphan>>
      /\ wait' = Greater(wait - dt, 0) /\ since' = IF wait > 0 THEN since + dt ELSE since
  BY DEF RestOK, before_sleep, bootVars, fileVars
<1>1. pc = "tick" /\ pc' \in {"cron", "poll"} /\ (pc' = "cron" => cfg.aof_enabled)
  BY DEF before_sleep
<1>2. wait \in Nat /\ since \in Nat /\ dt \in 0..1000 /\ wait' \in Nat /\ since' \in Nat
  BY <1>0 DEF RewriteOK, CheckMs, Greater
<1>3. pc' \notin Starting \cup Ended /\ pc' \in Open /\ pc \in Open /\ pc' \notin Replayed
  BY <1>1 DEF Starting, Deaf, PipeLess, Ended, Open, Replayed, Running
<1>4. RewriteOK'
  BY <1>0, <1>2, <1>3 DEF RewriteOK
<1>5. BackoffOK'
  <2> DEFINE ordered == cfg.aof_rewrite_backoff_base_ms <= cfg.aof_rewrite_backoff_max_ms
  <2> SUFFICES ASSUME streak > 0
               PROVE  /\ since' + wait' >= Due
                      /\ ordered => (wait' > 0 => since' + wait' = Due) /\ (wait' = 0 => since' <= Due + CheckMs)
    BY <1>0 DEF BackoffOK, Due
  <2>1. PICK d : d = Due
    OBVIOUS
  <2>2. d \in Nat
    BY <1>0, <2>1, DelayType
  <2>3. /\ since + wait >= d
        /\ ordered => (wait > 0 => since + wait = d) /\ (wait = 0 => since <= d + 1000)
    BY <1>0, <2>1 DEF BackoffOK, CheckMs
  <2> HIDE DEF ordered
  <2>4. /\ since' + wait' >= d
        /\ ordered => (wait' > 0 => since' + wait' = d) /\ (wait' = 0 => since' <= d + 1000)
    BY <1>0, <1>2, <2>2, <2>3 DEF Greater
  <2> QED
    BY <2>1, <2>4 DEF CheckMs
<1>6. SizeOK'
  BY <1>0, <1>1, <1>3 DEF SizeOK
<1> QED
  BY <1>4, <1>5, <1>6 DEF RestOK

LEMMA CronOK ==
  ASSUME BootOK, CfgOK, RestOK, aof_rewrite_cron
  PROVE  RestOK'
<1>0. /\ RewriteOK /\ BackoffOK /\ SizeOK /\ UNCHANGED <<cfg, orphan>> /\ pc = "cron" /\ pc' = "poll"
      /\ aof_rewrite_check
  BY DEF RestOK, aof_rewrite_cron, bootVars
<1>1. /\ pc \notin Starting \cup Ended /\ pc' \notin Starting \cup Ended
      /\ pc \in Open /\ pc' \in Open /\ pc' \notin Replayed
  BY <1>0 DEF Starting, Deaf, PipeLess, Ended, Open, Replayed, Running
<1>2. ASSUME UNCHANGED fileVars PROVE SizeOK'
  BY <1>0, <1>1, <1>2 DEF SizeOK, fileVars
<1>3. ASSUME rwState = "IDLE", aof_rewrite_start, UNCHANGED fileVars PROVE RestOK'
  BY <1>0, <1>1, <1>2, <1>3, StartOK DEF RestOK
<1>4. ASSUME streak < MaxStreak, aof_rewrite_record_failure, aof_rewrite_cleanup, UNCHANGED fileVars PROVE RestOK'
  BY <1>0, <1>1, <1>2, <1>4, FailedOK DEF RestOK
<1>5. ASSUME rwState = "ACTIVE", aof_rewrite_finalize PROVE RestOK'
  <2>1. ASSUME size' = temp, headed' = TRUE, streak' = 0, wait' = 0, since' = 0, aof_rewrite_cleanup,
               \/ last_size' = temp /\ stale' = FALSE
               \/ UNCHANGED last_size /\ stale' = TRUE
        PROVE  RestOK'
    <3>1. temp \in Nat /\ temp >= HeaderSize
      BY <1>0, <1>5 DEF RewriteOK
    <3>2. stale' \in BOOLEAN /\ headed' \in BOOLEAN /\ last_size' \in Nat
      BY <1>0, <2>1, <3>1 DEF SizeOK
    <3>3. SizeOK'
      BY <1>0, <1>1, <2>1, <3>1, <3>2 DEF SizeOK
    <3>4. RewriteOK'
      <4>1. 0 \in 0..MaxStreak
        BY LifecycleAssumption
      <4> QED
        BY <1>0, <1>1, <2>1, <4>1 DEF RewriteOK, aof_rewrite_cleanup
    <3>5. BackoffOK'
      BY <2>1 DEF BackoffOK
    <3> QED
      BY <3>3, <3>4, <3>5 DEF RestOK
  <2>2. ASSUME MayFail, aof_rewrite_record_failure, aof_rewrite_cleanup, UNCHANGED fileVars PROVE RestOK'
    BY <1>4, <2>2 DEF MayFail
  <2> QED
    BY <1>5, <2>1, <2>2 DEF aof_rewrite_finalize
<1>6. ASSUME UNCHANGED <<fileVars, rewriteVars>> PROVE RestOK'
  BY <1>0, <1>1, <1>2, <1>6, SameRewrite DEF RestOK
<1>7. \/ rwState = "ABORTING" /\ child \in {"ok", "failed"}
      \/ rwState = "ACTIVE" /\ child = "failed" => streak < MaxStreak
  BY <1>0 DEF RewriteOK
<1>8. rwState = "ABORTING" => streak < MaxStreak
  BY <1>0 DEF RewriteOK
<1> QED
  BY <1>0, <1>3, <1>4, <1>5, <1>6, <1>7, <1>8 DEF aof_rewrite_check

LEMMA CommandOK ==
  ASSUME BootOK, CfgOK, RestOK, on_command
  PROVE  RestOK'
<1>0. /\ RewriteOK /\ BackoffOK /\ SizeOK /\ UNCHANGED <<cfg, orphan, pc>> /\ pc = "events"
  BY DEF RestOK, on_command, bootVars
<1>1. pc \notin Starting \cup Ended /\ pc \in Open /\ pc \notin Replayed
  BY <1>0 DEF Starting, Deaf, PipeLess, Ended, Open, Replayed, Running
<1>2. ASSUME UNCHANGED fileVars PROVE SizeOK'
  BY <1>0, <1>1, <1>2 DEF SizeOK, fileVars
<1>3. ASSUME rwState = "IDLE", aof_rewrite_start, UNCHANGED fileVars PROVE RestOK'
  BY <1>0, <1>1, <1>2, <1>3, StartOK DEF RestOK
<1>4. ASSUME UNCHANGED <<fileVars, rewriteVars>> PROVE RestOK'
  BY <1>0, <1>1, <1>2, <1>4, SameRewrite DEF RestOK
<1>5. ASSUME cfg.aof_enabled, size' = size + RecordSize, stale' = TRUE, aof_emit_diff,
             UNCHANGED <<last_size, headed, child, streak, wait, since>>
      PROVE  RestOK'
  <2>1. size' \in Nat /\ (headed => size' >= HeaderSize)
    BY <1>0, <1>1, <1>5, LifecycleAssumption DEF SizeOK, HeaderSize
  <2>2. stale' \in BOOLEAN
    BY <1>5
  <2>3. SizeOK'
    BY <1>0, <1>1, <1>5, <2>1, <2>2 DEF SizeOK
  <2>4. BackoffOK'
    BY <1>0, <1>5 DEF BackoffOK, Due
  <2>5. RewriteOK'
    <3>1. ASSUME UNCHANGED <<rwState, temp>> PROVE RewriteOK'
      BY <1>0, <1>1, <1>5, <3>1 DEF RewriteOK
    <3>2. ASSUME rwState = "ACTIVE", rwState' = rwState, temp' = temp + RecordSize PROVE RewriteOK'
      <4>1. temp' \in Nat /\ temp' >= HeaderSize
        BY <1>0, <3>2, LifecycleAssumption DEF RewriteOK, HeaderSize
      <4> QED
        BY <1>0, <1>1, <1>5, <3>2, <4>1 DEF RewriteOK
    <3>3. ASSUME MayFail, rwState' = "ABORTING", temp' = 0 PROVE RewriteOK'
      BY <1>0, <1>1, <1>5, <3>3 DEF RewriteOK, MayFail
    <3> QED
      BY <1>5, <3>1, <3>2, <3>3 DEF aof_emit_diff
  <2> QED
    BY <2>3, <2>4, <2>5 DEF RestOK
<1> QED
  BY <1>3, <1>4, <1>5 DEF on_command

LEMMA RestStep ==
  ASSUME BootOK, CfgOK, RestOK, [Next]_vars
  PROVE  RestOK'
<1>0. RewriteOK /\ BackoffOK /\ SizeOK
  BY DEF RestOK
<1>1. ASSUME UNCHANGED <<bootVars, fileVars, rewriteVars, orphan>>, pc' = pc \/ (pc \in Running /\ pc' \in (Running \ {"cron"}) \cup {"stop"})
      PROVE  RestOK'
  <2>1. /\ pc' \in Starting \cup Ended => pc \in Starting \cup Ended
        /\ pc' \in Open => pc \in Open
        /\ pc' \in Replayed => pc \in Replayed
        /\ pc' = "cron" => pc = "cron"
    BY <1>1 DEF Starting, Deaf, PipeLess, Ended, Open, Replayed, Running
  <2>2. RewriteOK' /\ BackoffOK'
    BY <1>0, <1>1, <2>1, SameRewrite DEF bootVars
  <2>3. SizeOK'
    BY <1>0, <1>1, <2>1 DEF SizeOK, fileVars, bootVars
  <2> QED
    BY <2>2, <2>3 DEF RestOK
<1>2. ASSUME el_poll \/ on_shutdown \/ el_run PROVE RestOK'
  BY <1>1, <1>2 DEF el_poll, on_shutdown, el_run, Running
<1>3. ASSUME shutdown_server PROVE RestOK'
  BY <1>3, EndOK, Ways DEF shutdown_server
<1>4. ASSUME NEW how \in {"ok", "failed"}, aof_rewrite_child(how) PROVE RestOK'
  <2>1. /\ child = "running" /\ child' = how /\ (how = "failed" => streak < MaxStreak)
        /\ UNCHANGED <<pc, cfg, size, last_size, headed, stale, orphan, rwState, temp, streak, wait, since>>
    BY <1>4 DEF aof_rewrite_child, MayFail, bootVars, fileVars
  <2>2. RewriteOK'
    BY <1>0, <2>1 DEF RewriteOK
  <2>3. BackoffOK' /\ SizeOK'
    BY <1>0, <2>1 DEF BackoffOK, Due, SizeOK
  <2> QED
    BY <2>2, <2>3 DEF RestOK
<1>5. ASSUME OrphanEnds PROVE RestOK'
  <2>1. orphan' = FALSE /\ UNCHANGED <<pc, cfg, size, last_size, headed, stale, rwState, child, temp, streak, wait, since>>
    BY <1>5 DEF OrphanEnds, bootVars, fileVars, rewriteVars
  <2>2. RewriteOK'
    BY <1>0, <2>1 DEF RewriteOK
  <2>3. BackoffOK' /\ SizeOK'
    BY <1>0, <2>1 DEF BackoffOK, Due, SizeOK
  <2> QED
    BY <2>2, <2>3 DEF RestOK
<1>6. ASSUME Rest \/ UNCHANGED vars PROVE RestOK'
  BY <1>1, <1>6 DEF Rest, vars
<1> QED
  BY <1>2, <1>3, <1>4, <1>5, <1>6, StartupOK, SignalOK, TickOK, CronOK, CommandOK DEF Next, Loop, Child

-------------------------------------------------------------------------------
(* The theorems                                                            *)

AllOK == BootOK /\ CfgOK /\ ReadOK /\ RestOK

LEMMA AlwaysAllOK == Spec => []AllOK
<1>1. Init => AllOK
  BY BootInit, RestInit DEF AllOK
<1>2. AllOK /\ [Next]_vars => AllOK'
  BY BootStep, RestStep DEF AllOK
<1> QED
  BY <1>1, <1>2, PTL DEF Spec

\* The state of the server has its type: no configuration file, of whatever
\* lines, leaves a setting outside the limits of config_table, and the streak
\* of failures, the time to the next attempt and the sizes stay numbers.
THEOREM LifecycleTypeCorrect == Spec => []TypeOK
<1>1. AllOK => TypeOK
  <2> SUFFICES ASSUME AllOK PROVE TypeOK
    OBVIOUS
  <2>1. /\ DOMAIN cfg = DOMAIN config_table
        /\ \A key \in DOMAIN cfg : config_table[key].type = "INT" =>
             cfg[key] \in config_table[key].min..config_table[key].max
    BY TableFacts DEF AllOK, CfgOK
  <2>2. /\ pc \in Starting \cup Running \cup Ended \cup {"stop"}
        /\ conf \in ConfigFiles /\ line \in 0..Len(conf) /\ errors \in 0..line
        /\ signaled \in BOOLEAN /\ pipe \in Nat /\ signals \in 0..MaxSignals
        /\ starts \in 1..MaxStarts
        /\ events \subseteq {"pipe", "client"} /\ stop \in BOOLEAN
    BY DEF AllOK, BootOK
  <2>3. size \in Nat /\ last_size \in Nat /\ headed \in BOOLEAN /\ stale \in BOOLEAN
    BY DEF AllOK, RestOK, SizeOK
  <2>4. /\ rwState \in {"IDLE", "ACTIVE", "ABORTING"}
        /\ child \in {"none", "running", "ok", "failed"}
        /\ temp \in Nat /\ orphan \in BOOLEAN
        /\ streak \in 0..MaxStreak /\ wait \in Nat /\ since \in Nat
    BY DEF AllOK, RestOK, RewriteOK
  <2> QED
    BY <2>1, <2>2, <2>3, <2>4 DEF TypeOK
<1> QED
  BY <1>1, AlwaysAllOK, PTL

\* A set of line numbers that is not empty has a last one, which CHOOSE finds.
LEMMA LastOf ==
  ASSUME NEW n \in Nat, NEW S \in SUBSET (1..n), S # {}
  PROVE  LET last == CHOOSE i \in S : \A j \in S : j <= i
         IN  last \in S /\ \A j \in S : j <= last
<1> DEFINE T == {k \in Nat : n - k \in S}
<1>1. PICK i \in S : TRUE
  OBVIOUS
<1>2. n - i \in Nat /\ n - (n - i) = i
  OBVIOUS
<1>3. n - i \in T
  BY <1>1, <1>2
<1>4. T \in SUBSET Nat /\ T # {}
  BY <1>3
<1>5. PICK k \in T : \A m \in T : k <= m
  <2> HIDE DEF T
  <2> QED
    BY <1>4, LeastNat
<1>6. ASSUME NEW j \in S PROVE j <= n - k
  <2>1. n - j \in Nat /\ n - (n - j) = j
    OBVIOUS
  <2>2. k <= n - j /\ k \in Nat
    BY <1>5, <2>1
  <2> QED
    BY <2>2
<1> QED
  BY <1>5, <1>6

\* A server that has left load_config runs with what the file says, for every
\* file: each line was legal, those that a later line overrides included, the
\* last line for a setting decides, and one without a line has its default.
THEOREM ConfigAlwaysAsWritten == Spec => []ConfigAsWritten
<1>1. AllOK => ConfigAsWritten
  <2> SUFFICES ASSUME AllOK, pc \in (Starting \ {"config"}) \cup Running PROVE ConfigAsWritten
    BY DEF ConfigAsWritten
  <2> DEFINE of(key) == {i \in DOMAIN conf : conf[i].kind = "set" /\ conf[i].key = key}
             n == Len(conf)
  <2>1. line = n /\ errors = 0
    BY DEF AllOK, BootOK, Loaded
  <2>2. Written(n)
    BY <2>1 DEF AllOK, ReadOK
  <2>3. conf \in Seq(Line) /\ n \in Nat /\ DOMAIN conf = 1..n
    BY ConfSeq DEF AllOK
  <2>4. DOMAIN cfg = Keys
    BY DEF AllOK, CfgOK
  <2> HIDE DEF n
  <2>5. ASSUME NEW i \in 1..n, conf[i].kind = "set"
        PROVE  /\ conf[i].key \in Keys /\ LegalValue(conf[i].key, conf[i].value)
               /\ Means(conf[i].key, conf[i].value, Stored(config_table[conf[i].key], conf[i].value))
    <3>1. PICK l : l = conf[i]
      OBVIOUS
    <3>2. l \in Line
      BY <2>3, <3>1, ElementOfSeq DEF n
    <3>3. l.value \in Value
      BY <2>5, <3>1, <3>2 DEF Line, Malformed, Skipped
    <3>4. l.key \in Keys /\ Accepts(config_table[l.key], l.value)
      BY <2>2, <2>5, <3>1 DEF Written, Legal
    <3> QED
      BY <3>1, <3>3, <3>4, StoredMeans
  <2>6. ASSUME NEW i \in DOMAIN conf
        PROVE  conf[i].kind = "skip" \/
                 /\ conf[i].kind = "set" /\ conf[i].key \in DOMAIN cfg
                 /\ LegalValue(conf[i].key, conf[i].value)
    <3>1. i \in 1..n
      BY <2>3
    <3>2. conf[i].kind = "skip" \/ conf[i].kind = "set"
      BY <2>2, <3>1 DEF Written, Legal
    <3> QED
      BY <2>4, <2>5, <3>1, <3>2
  <2>7. ASSUME NEW key \in Keys, of(key) = {} PROVE cfg[key] = init_server_config[key]
    <3>1. \A i \in 1..n : ~Sets(conf[i], key)
      BY <2>3, <2>7 DEF Sets
    <3> QED
      BY <2>2, <3>1 DEF Written
  <2>8. ASSUME NEW key \in Keys, of(key) # {}
        PROVE  LET last == CHOOSE i \in of(key) : \A j \in of(key) : j <= i
               IN  Means(key, conf[last].value, cfg[key])
    <3> DEFINE last == CHOOSE i \in of(key) : \A j \in of(key) : j <= i
    <3>1. of(key) \in SUBSET (1..n)
      BY <2>3
    <3>2. last \in of(key) /\ \A j \in of(key) : j <= last
      <4> HIDE DEF of
      <4> QED
        BY <2>3, <2>8, <3>1, LastOf
    <3> HIDE DEF last
    <3>3. last \in 1..n /\ Sets(conf[last], key) /\ conf[last].kind = "set" /\ conf[last].key = key
      BY <2>3, <3>2 DEF Sets
    <3>4. ASSUME NEW j \in (last + 1)..n PROVE ~Sets(conf[j], key)
      <4>1. j \in 1..n /\ ~(j <= last)
        BY <2>3, <3>3
      <4>2. j \notin of(key)
        BY <3>2, <4>1
      <4> QED
        BY <2>3, <4>1, <4>2 DEF Sets
    <3>5. cfg[key] = Stored(config_table[key], conf[last].value)
      BY <2>2, <3>3, <3>4 DEF Written
    <3>6. Means(key, conf[last].value, cfg[key])
      BY <2>5, <3>3, <3>5
    <3> QED
      BY <3>6 DEF last
  <2> HIDE DEF of
  <2>9. \A key \in DOMAIN cfg :
          IF of(key) = {} THEN cfg[key] = init_server_config[key]
          ELSE LET last == CHOOSE i \in of(key) : \A j \in of(key) : j <= i
               IN  Means(key, conf[last].value, cfg[key])
    BY <2>4, <2>7, <2>8
  <2> QED
    BY <2>6, <2>9 DEF ConfigAsWritten, of
<1> QED
  BY <1>1, AlwaysAllOK, PTL

\* For every base and ceiling in that order and every number of failures in a
\* row, aof_rewrite_cron makes its next attempt when the delay that aof.h
\* documents is over: not before, and at most one check later.
THEOREM BackoffAlwaysAsDocumented == Spec => []BackoffAsDocumented
<1>1. AllOK => BackoffAsDocumented
  <2> SUFFICES ASSUME AllOK, streak > 0, cfg.aof_rewrite_backoff_base_ms <= cfg.aof_rewrite_backoff_max_ms
               PROVE  wait <= Due /\ since + wait >= Due /\ since <= Due + CheckMs
    BY DEF BackoffAsDocumented, Due
  <2>1. Due \in Nat /\ wait \in Nat /\ since \in Nat
    BY DelayType DEF AllOK, RestOK, RewriteOK
  <2>2. /\ since + wait >= Due
        /\ wait > 0 => since + wait = Due
        /\ wait = 0 => since <= Due + CheckMs
    BY DEF AllOK, RestOK, BackoffOK
  <2> QED
    BY <2>1, <2>2 DEF CheckMs
<1> QED
  BY <1>1, AlwaysAllOK, PTL

\* Only the cron itself starts a rewrite, or fails to, where the cron runs.
LEMMA CronStep ==
  ASSUME Next, pc = "cron", rwState = "IDLE", RewriteOK, rwState' = "ACTIVE" \/ streak' > streak
  PROVE  aof_rewrite_cron
<1>1. /\ pc \notin Starting /\ pc \notin Ended
      /\ pc \notin {"config", "init", "load", "listen", "open", "kqueue", "pipe", "watch",
                    "tick", "poll", "events", "stop"}
  BY DEF Starting, Deaf, PipeLess, Ended
<1>2. rwState' # rwState \/ streak' > streak
  OBVIOUS
<1>3. ~load_config /\ ~Restart /\ ~Rest
  BY <1>1 DEF load_config, Restart, Rest
<1>4. ~init_server
  BY <1>1 DEF init_server, Step, setup_signal_handlers, aof_load, create_listener, open_aof,
              el_init, shutdown_pipe_setup, el_add_all
<1>5. streak \in Nat /\ ~(0 > streak) /\ ~(streak > streak)
  BY DEF RewriteOK
<1>6. ~(\E sig \in {"INT", "TERM"} : sig_shutdown_handler(sig))
  BY <1>2, <1>5 DEF sig_shutdown_handler, End, rewriteVars
<1>7. ~Child /\ ~OrphanEnds
  BY <1>2, <1>5 DEF Child, aof_rewrite_child, OrphanEnds, rewriteVars
<1>8. /\ ~(\E dt \in {0, CheckMs} : before_sleep(dt))
      /\ ~el_poll /\ ~on_shutdown /\ ~on_command /\ ~el_run /\ ~shutdown_server
  BY <1>1 DEF before_sleep, el_poll, on_shutdown, on_command, el_run, shutdown_server
<1> QED
  BY <1>3, <1>4, <1>6, <1>7, <1>8 DEF Next, Loop

\* The cron never makes an attempt before the delay after the last failure is
\* over, for every base and ceiling, in whatever order, and every number of
\* failures in a row.
THEOREM AutoRewriteAlwaysHonoursBackoff == Spec => AutoRewriteHonoursBackoff
<1>1. AllOK /\ [Next]_vars =>
        [pc = "cron" /\ rwState = "IDLE" /\ (rwState' = "ACTIVE" \/ streak' > streak) /\ streak > 0
           => since >= Lesser(cfg.aof_rewrite_backoff_base_ms * 2 ^ (streak - 1),
                              cfg.aof_rewrite_backoff_max_ms)]_vars
  <2> SUFFICES ASSUME AllOK, Next, pc = "cron", rwState = "IDLE",
                      rwState' = "ACTIVE" \/ streak' > streak, streak > 0
               PROVE  since >= Due
    BY DEF Due
  <2>1. aof_rewrite_cron
    BY CronStep DEF AllOK, RestOK
  <2>2. streak \in Nat /\ ~(streak > streak) /\ since \in Nat
    BY DEF AllOK, RestOK, RewriteOK
  <2>3. wait = 0
    BY <2>1, <2>2 DEF aof_rewrite_cron, aof_rewrite_check, rewriteVars
  <2>4. since + wait >= Due
    BY DEF AllOK, RestOK, BackoffOK
  <2>5. Due \in Nat
    BY DelayType DEF AllOK, RestOK
  <2> QED
    BY <2>2, <2>3, <2>4, <2>5
<1> QED
  BY <1>1, AlwaysAllOK, PTL DEF Spec, AutoRewriteHonoursBackoff

\* The cron never rewrites a file that nobody has written to since its size
\* was taken: the growth is at least ten percent of a size that is never zero, so that the threshold exceeds the last size.
THEOREM NoQuietRewriteEver == Spec => NoQuietRewrite
<1>1. AllOK /\ [Next]_vars =>
        [pc = "cron" /\ rwState = "IDLE" /\ rwState' = "ACTIVE" => stale]_vars
  <2> SUFFICES ASSUME AllOK, Next, pc = "cron", rwState = "IDLE", rwState' = "ACTIVE", ~stale
               PROVE  FALSE
    OBVIOUS
  <2>1. aof_rewrite_cron
    BY CronStep DEF AllOK, RestOK
  <2>2. TooLarge
    BY <2>1 DEF aof_rewrite_cron, aof_rewrite_check, rewriteVars
  <2>3. "cron" \in Open
    BY DEF Open, Running
  <2>4. size = last_size /\ last_size \in Nat /\ last_size >= 32
    BY <2>3 DEF AllOK, RestOK, SizeOK, HeaderSize
  <2>5. cfg.aof_rewrite_growth \in 10..1000
    <3>1. "aof_rewrite_growth" \in IntKeys
      BY DEF IntKeys
    <3>2. config_table["aof_rewrite_growth"] = Limits(10, 1000)
      BY DEF config_table
    <3> QED
      BY <3>1, <3>2 DEF AllOK, CfgOK, Limits
  <2>6. ASSUME NEW l \in Nat, l >= 32, NEW g \in 10..1000 PROVE ~(l >= l + (l * g) \div 100)
    BY <2>6
  <2> QED
    BY <2>2, <2>4, <2>5, <2>6 DEF TooLarge, Threshold
<1> QED
  BY <1>1, AlwaysAllOK, PTL DEF Spec, NoQuietRewrite
================================================================================
