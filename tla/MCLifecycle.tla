---- MODULE MCLifecycle ----
EXTENDS Lifecycle
\* A short backoff and thresholds that a few records reach.
Rewriting == <<Setting("aof_rewrite_backoff_base_ms", Num(1000)),
               Setting("aof_rewrite_backoff_max_ms", Num(3000)),
               Setting("aof_rewrite_min_size", Num(64))>>
\* No AOF; settings at the ends of their ranges, one of them set twice.
Disabled == <<Setting("aof_enabled", Word("no")), Skipped,
              Setting("hz", Num(1)), Setting("hz", Num(500)),
              Setting("client_timeout_check_hz", Num(1)), Setting("aof_check_hz", Num(1)),
              Setting("aof_policy", Word("pertick")), Setting("aof_fsync_mode", Word("data"))>>
\* The others must be refused.  fsync-mode is what the repository's README
\* calls aof-fsync-mode.
MCConfigFiles == {
  Rewriting,
  Disabled,
  <<Setting("hz", Num(501)), Setting("hz", Num(500))>>,
  <<Setting("hz", Num(5000)), Setting("aof_policy", Word("always"))>>,
  <<Setting("aof_policy", Word("pertick")), Setting("aof_fsync_mode", Word("sync"))>>,
  <<Setting("fsync_mode", Word("full")), Setting("port", Word("any"))>>,
  <<Malformed>>}
====
