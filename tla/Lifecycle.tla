------------------------------- MODULE Lifecycle -------------------------------
(***************************************************************************)
(* The life of the server process: server.c (start-up, signals, the tick,  *)
(* shutdown), load_config, el_run, and aof_rewrite_cron with the backoff   *)
(* of aof.c, which decides when a rewrite starts and how it ends.          *)
(*                                                                         *)
(* What clients do is reduced to writes that make the AOF grow and to      *)
(* BGREWRITEAOF; files are reduced to their sizes in bytes (Aof has their  *)
(* contents), the rewrite child to whether it runs and how it ended.  The  *)
(* child is a fork of the server: it shares the self-pipe and holds the    *)
(* listening socket for as long as it lives.                               *)
(***************************************************************************)
EXTENDS Config

CONSTANTS
  ConfigFiles,  \* configuration files the server may be started with
  RecordSize,   \* bytes of an AOF record
  MaxSize,      \* bound: writes stop when the file has this size
  MaxStreak,    \* bound: rewrites fail at most so often in a row
  MaxSignals,   \* bound: signals sent to one process
  MaxStarts     \* bound: starts of the server

HeaderSize == 32     \* AOF_FILE_HEADER_SIZE
CheckMs    == 1000   \* the interval of aof_rewrite_cron

ASSUME LifecycleAssumption ==
  /\ RecordSize \in Nat \ {0} /\ MaxSize \in Nat /\ MaxStreak \in Nat
  /\ MaxSignals \in Nat /\ MaxStarts \in Nat \ {0}
  /\ ConfigFiles \subseteq Seq(Line)

VARIABLES
  pc,         \* where server_main is, see Starting and Running below
  conf,       \* the configuration file, as lines
  line,       \* load_config: lines read
  errors,     \* load_config: lines refused
  cfg,        \* server.config
  signaled,   \* shutdown_signaled
  pipe,       \* bytes in the self-pipe
  signals,    \* signals sent to this process
  starts,     \* starts so far
  events,     \* what kevent has returned and is not handled yet
  stop,       \* el->stop
  size,       \* the size of the AOF
  last_size,  \* server.aof_rewrite_last_size
  rwState,    \* server.aof_rewrite_state
  child,      \* the rewrite child: "none", "running", "ok" or "failed"
  temp,       \* the size of its file once the diff is appended to it
  orphan,     \* does the child of an earlier process still run?
  streak,     \* server.aof_rewrite_failed_streak
  wait,       \* server.aof_rewrite_next_attempt_ms, as the time until then
  headed,     \* history: the AOF starts with its header
  stale,      \* history: last_size is not what the AOF had when last written
  since       \* history: time since the last failure, while wait is not over

bootVars    == <<conf, line, errors, cfg, starts>>
signalVars  == <<signaled, pipe, signals>>
loopVars    == <<events, stop>>
fileVars    == <<size, last_size, headed, stale>>
rewriteVars == <<rwState, child, temp, streak, wait, since>>
vars == <<pc, bootVars, signalVars, loopVars, fileVars, rewriteVars, orphan>>

Deaf     == {"config", "init"}            \* no handler, no pipe
PipeLess == {"load", "listen", "open", "kqueue", "pipe"}  \* a handler, but no pipe yet
Running  == {"tick", "cron", "poll", "events"}  \* el_run
Ended    == {"exit 0", "exit 1", "killed"}
Starting == Deaf \cup PipeLess \cup {"watch"}

Lesser(a, b)  == IF a < b THEN a ELSE b
Greater(a, b) == IF a < b THEN b ELSE a

-------------------------------------------------------------------------------
(* Leaving                                                                 *)

\* The process ends, in whatever way.  A child that runs goes on without it.
End(how) ==
  /\ pc' = how
  /\ orphan' = (orphan \/ child = "running")
  /\ rwState' = "IDLE" /\ child' = "none" /\ temp' = 0
  /\ streak' = 0 /\ wait' = 0 /\ since' = 0
  /\ events' = {} /\ stop' = FALSE
  /\ signaled' = FALSE /\ pipe' = 0

\* A system call of the start-up fails, or a check does.
Fail == End("exit 1") /\ UNCHANGED <<bootVars, signals, fileVars>>

-------------------------------------------------------------------------------
(* Starting                                                                *)

Init ==
  /\ pc = "config" /\ conf \in ConfigFiles /\ line = 0 /\ errors = 0
  /\ cfg = init_server_config /\ starts = 1
  /\ signaled = FALSE /\ pipe = 0 /\ signals = 0 /\ events = {} /\ stop = FALSE
  /\ size = 0 /\ last_size = 0 /\ headed = FALSE /\ stale = FALSE
  /\ rwState = "IDLE" /\ child = "none" /\ temp = 0 /\ orphan = FALSE
  /\ streak = 0 /\ wait = 0 /\ since = 0

load_config ==
  /\ pc = "config"
  /\ \/ /\ line < Len(conf)
        /\ LET r == load_line(cfg, conf[line + 1])
           IN  cfg' = r.cfg /\ errors' = IF r.ok THEN errors ELSE errors + 1
        /\ line' = line + 1
        /\ UNCHANGED <<pc, conf, starts, signalVars, loopVars, fileVars, rewriteVars, orphan>>
     \/ /\ line = Len(conf) /\ errors = 0
        /\ pc' = "init"
        /\ UNCHANGED <<bootVars, signalVars, loopVars, fileVars, rewriteVars, orphan>>
     \/ line = Len(conf) /\ errors > 0 /\ Fail
     \/ line = 0 /\ Fail   \* fopen fails

\* init_server goes from one of its steps to the next.
Step(from, to) ==
  /\ pc = from /\ pc' = to
  /\ UNCHANGED <<bootVars, signalVars, loopVars, rewriteVars, orphan>>

setup_signal_handlers == Step("init", "load") /\ UNCHANGED fileVars

\* Sizes of a file that has its header and some of the AOF's records.
Records    == (size - (IF headed THEN HeaderSize ELSE 0)) \div RecordSize
HeadedSize == {HeaderSize + n * RecordSize : n \in 0..Records}

\* The replay may cut the file, but never its header; a file without one is
\* refused.
aof_load ==
  /\ Step("load", "listen")
  /\ IF cfg.aof_enabled /\ size > 0 THEN headed /\ size' \in HeadedSize ELSE size' = size
  /\ UNCHANGED <<last_size, headed, stale>>

\* bind() fails while some process still has the socket.
create_listener == ~orphan /\ Step("listen", "open") /\ UNCHANGED fileVars

\* A new file gets its header, and the size is taken.  If the first stat fails
\* neither happens, if the second does the size stays unknown.
open_aof ==
  /\ Step("open", "kqueue")
  /\ IF cfg.aof_enabled
       THEN \/ /\ size' = (IF size = 0 THEN HeaderSize ELSE size) /\ headed' = (headed \/ size = 0)
               /\ \/ last_size' = size' /\ stale' = FALSE
                  \/ UNCHANGED last_size /\ stale' = TRUE
            \/ UNCHANGED <<size, last_size, headed>> /\ stale' = TRUE
       ELSE UNCHANGED fileVars

el_init == Step("kqueue", "pipe") /\ UNCHANGED fileVars

shutdown_pipe_setup == Step("pipe", "watch") /\ UNCHANGED fileVars

el_add_all == Step("watch", "tick") /\ UNCHANGED fileVars

init_server ==
  \/ setup_signal_handlers \/ aof_load \/ create_listener \/ open_aof
  \/ el_init \/ shutdown_pipe_setup \/ el_add_all
  \/ pc \in Starting \ {"config"} /\ Fail

\* Started again after it ended, with the same configuration.
Restart ==
  /\ pc \in Ended /\ starts < MaxStarts
  /\ pc' = "config" /\ starts' = starts + 1
  /\ line' = 0 /\ errors' = 0 /\ cfg' = init_server_config
  /\ signals' = 0 /\ last_size' = 0
  /\ UNCHANGED <<conf, signaled, pipe, loopVars, size, headed, stale, rewriteVars, orphan>>

-------------------------------------------------------------------------------
(* Signals                                                                 *)

\* Before the handlers are installed a signal kills.  A second SIGINT ends the
\* process at once.  The handler writes to server.pipe[1], which is descriptor
\* 0 until the pipe exists: the byte is lost.  In kevent the handler makes the
\* call fail with EINTR, and the loop goes on with the next tick.
sig_shutdown_handler(sig) ==
  /\ pc \in Starting \cup Running \cup {"stop"} /\ signals < MaxSignals
  /\ signals' = signals + 1
  /\ \/ pc \in Deaf /\ End("killed")
     \/ pc \notin Deaf /\ signaled /\ sig = "INT" /\ End("exit 1")
     \/ /\ pc \notin Deaf /\ ~(signaled /\ sig = "INT")
        /\ signaled' = TRUE
        /\ pipe' = IF pc \in PipeLess THEN pipe ELSE pipe + 1
        /\ pc' \in IF pc = "poll" THEN {"poll", "tick"} ELSE {pc}
        /\ UNCHANGED <<loopVars, rewriteVars, orphan>>
  /\ UNCHANGED <<bootVars, fileVars>>

\* Faulty variant: the pipe is drained, and that is all.
ShutdownOnlyDrains ==
  /\ pc = "events" /\ "pipe" \in events
  /\ pipe' = 0 /\ events' = events \ {"pipe"}
  /\ UNCHANGED <<pc, bootVars, signaled, signals, stop, fileVars, rewriteVars, orphan>>

on_shutdown ==
  /\ pc = "events" /\ "pipe" \in events
  /\ pipe' = 0 /\ stop' = TRUE /\ events' = events \ {"pipe"}
  /\ UNCHANGED <<pc, bootVars, signaled, signals, fileVars, rewriteVars, orphan>>

-------------------------------------------------------------------------------
(* Rewriting                                                               *)

MayFail == streak < MaxStreak

\* Faulty variant: the delay grows without a ceiling.
DelayUnclamped(n) ==
  LET delay[i \in 1..n] == IF i = 1 THEN cfg.aof_rewrite_backoff_base_ms ELSE 2 * delay[i - 1]
  IN  delay[n]

\* The loop of aof_rewrite_record_failure after n failures in a row: the first
\* delay is the base as it is, each later one is doubled and clamped.
Delay(n) ==
  LET delay[i \in 1..n] ==
        IF i = 1 THEN cfg.aof_rewrite_backoff_base_ms
                 ELSE Lesser(2 * delay[i - 1], cfg.aof_rewrite_backoff_max_ms)
  IN  delay[n]

aof_rewrite_record_failure ==
  /\ streak' = streak + 1
  /\ wait' = Delay(streak + 1) /\ since' = 0

aof_rewrite_cleanup == rwState' = "IDLE" /\ child' = "none" /\ temp' = 0

\* The child writes what is alive in the database: at most what the file has.
aof_rewrite_start ==
  \/ /\ rwState' = "ACTIVE" /\ child' = "running"
     /\ temp' \in HeadedSize
     /\ UNCHANGED <<streak, wait, since>>
  \/ \* malloc or fork fails
     MayFail /\ aof_rewrite_record_failure /\ UNCHANGED <<rwState, child, temp>>

\* Faulty variant: the next automatic rewrite is measured from the old size.
FinalizeKeepsLastSize ==
  \/ /\ size' = temp /\ headed' = TRUE
     /\ stale' = FALSE /\ streak' = 0 /\ wait' = 0 /\ since' = 0
     /\ aof_rewrite_cleanup /\ UNCHANGED last_size
  \/ MayFail /\ aof_rewrite_record_failure /\ aof_rewrite_cleanup /\ UNCHANGED fileVars

\* The rename is a success even if the size of the new file cannot be taken.
aof_rewrite_finalize ==
  \/ /\ size' = temp /\ headed' = TRUE
     /\ \/ last_size' = temp /\ stale' = FALSE
        \/ UNCHANGED last_size /\ stale' = TRUE
     /\ streak' = 0 /\ wait' = 0 /\ since' = 0
     /\ aof_rewrite_cleanup
  \/ MayFail /\ aof_rewrite_record_failure /\ aof_rewrite_cleanup /\ UNCHANGED fileVars

Threshold(last, growth) == last + (last * growth) \div 100

\* Faulty variant: a file that has reached its threshold is not too large yet.
TooLargeStrict ==
  /\ size >= cfg.aof_rewrite_min_size
  /\ size > Threshold(last_size, cfg.aof_rewrite_growth)

TooLarge ==
  /\ size >= cfg.aof_rewrite_min_size
  /\ size >= Threshold(last_size, cfg.aof_rewrite_growth)

\* Faulty variant: the state ABORTING is forgotten.
CronIgnoresAborting ==
  \/ /\ rwState = "IDLE" /\ wait = 0 /\ TooLarge
     /\ aof_rewrite_start /\ UNCHANGED fileVars
  \/ rwState = "ACTIVE" /\ child = "ok" /\ aof_rewrite_finalize
  \/ /\ rwState = "ACTIVE" /\ child = "failed"
     /\ aof_rewrite_record_failure /\ aof_rewrite_cleanup /\ UNCHANGED fileVars
  \/ /\ rwState \in {"IDLE", "ABORTING"} \/ child = "running"
     /\ UNCHANGED <<fileVars, rewriteVars>>

\* Faulty variant: the delay after a failure is not waited for.
CronIgnoresBackoff ==
  \/ /\ rwState = "IDLE" /\ TooLarge
     /\ aof_rewrite_start /\ UNCHANGED fileVars
  \/ rwState = "ACTIVE" /\ child = "ok" /\ aof_rewrite_finalize
  \/ /\ \/ rwState = "ABORTING" /\ child \in {"ok", "failed"}
        \/ rwState = "ACTIVE" /\ child = "failed"
     /\ aof_rewrite_record_failure /\ aof_rewrite_cleanup /\ UNCHANGED fileVars
  \/ /\ rwState = "IDLE" \/ child = "running"
     /\ UNCHANGED <<fileVars, rewriteVars>>

\* aof_rewrite_cron once its interval is over.  (waitpid cannot fail: the
\* child is the server's own and is reaped here only.)
aof_rewrite_check ==
  \/ /\ rwState = "IDLE" /\ wait = 0 /\ TooLarge
     /\ aof_rewrite_start /\ UNCHANGED fileVars
  \/ rwState = "ACTIVE" /\ child = "ok" /\ aof_rewrite_finalize
  \/ /\ \/ rwState = "ABORTING" /\ child \in {"ok", "failed"}
        \/ rwState = "ACTIVE" /\ child = "failed"
     /\ aof_rewrite_record_failure /\ aof_rewrite_cleanup /\ UNCHANGED fileVars
  \/ \* put off, not too large, or stat fails; or the child is still working
     /\ rwState = "IDLE" \/ child = "running"
     /\ UNCHANGED <<fileVars, rewriteVars>>

\* aof_append while a rewrite runs: the diff grows by a record, or the rewrite
\* is aborted (the buffer's limit, or realloc).  The SIGTERM is handled in the
\* child by the inherited handler, which writes to the shared pipe.
aof_emit_diff ==
  \/ rwState # "ACTIVE" /\ UNCHANGED <<rwState, temp, pipe>>
  \/ rwState = "ACTIVE" /\ temp' = temp + RecordSize /\ UNCHANGED <<rwState, pipe>>
  \/ /\ rwState = "ACTIVE" /\ MayFail /\ rwState' = "ABORTING" /\ temp' = 0
     /\ pipe' = IF child = "running" THEN pipe + 1 ELSE pipe

-------------------------------------------------------------------------------
(* The loop                                                                *)

\* The clock is read: dt milliseconds have passed.
before_sleep(dt) ==
  /\ pc = "tick"
  /\ pc' = IF cfg.aof_enabled /\ dt >= CheckMs THEN "cron" ELSE "poll"
  /\ wait' = Greater(wait - dt, 0)
  /\ since' = IF wait > 0 THEN since + dt ELSE since
  /\ UNCHANGED <<bootVars, signalVars, loopVars, fileVars, rwState, child, temp, streak, orphan>>

aof_rewrite_cron ==
  /\ pc = "cron" /\ pc' = "poll"
  /\ aof_rewrite_check
  /\ UNCHANGED <<bootVars, signalVars, loopVars, orphan>>

\* kevent: the pipe is readable as long as it has bytes; clients may have
\* sent something.  An error ends the loop, and server_main ignores it.
el_poll ==
  /\ pc = "poll"
  /\ \/ /\ pc' = "events"
        /\ \E clients \in SUBSET {"client"} :
             events' = clients \cup (IF pipe > 0 THEN {"pipe"} ELSE {})
     \/ pc' = "stop" /\ UNCHANGED events
  /\ UNCHANGED <<bootVars, signalVars, stop, fileVars, rewriteVars, orphan>>

\* A client's event: a write, BGREWRITEAOF, or a command that does neither.
on_command ==
  /\ pc = "events" /\ "client" \in events
  /\ events' = events \ {"client"}
  /\ \/ /\ cfg.aof_enabled /\ size + RecordSize <= MaxSize
        /\ size' = size + RecordSize /\ stale' = TRUE
        /\ aof_emit_diff
        /\ UNCHANGED <<last_size, headed, child, streak, wait, since>>
     \/ /\ rwState = "IDLE" /\ aof_rewrite_start
        /\ UNCHANGED <<fileVars, pipe>>
     \/ UNCHANGED <<fileVars, rewriteVars, pipe>>
  /\ UNCHANGED <<pc, bootVars, signaled, signals, stop, orphan>>

el_run ==
  /\ pc = "events" /\ events = {}
  /\ pc' = IF stop THEN "stop" ELSE "tick"
  /\ UNCHANGED <<bootVars, signalVars, loopVars, fileVars, rewriteVars, orphan>>

\* Everything is closed; nothing is flushed, and no child waited for.
shutdown_server == pc = "stop" /\ End("exit 0") /\ UNCHANGED <<bootVars, signals, fileVars>>

-------------------------------------------------------------------------------
(* The child                                                               *)

aof_rewrite_child(how) ==
  /\ child = "running" /\ child' = how /\ (how = "failed" => MayFail)
  /\ UNCHANGED <<pc, bootVars, signalVars, loopVars, fileVars, orphan,
                 rwState, temp, streak, wait, since>>

OrphanEnds ==
  /\ orphan /\ orphan' = FALSE
  /\ UNCHANGED <<pc, bootVars, signalVars, loopVars, fileVars, rewriteVars>>

-------------------------------------------------------------------------------
Loop ==
  \/ \E dt \in {0, CheckMs} : before_sleep(dt)
  \/ aof_rewrite_cron \/ el_poll \/ on_shutdown \/ on_command \/ el_run
  \/ shutdown_server

Child == \E how \in {"ok", "failed"} : aof_rewrite_child(how)

Rest == pc \in Ended /\ starts = MaxStarts /\ ~orphan /\ UNCHANGED vars

Next ==
  \/ load_config \/ init_server \/ Restart
  \/ \E sig \in {"INT", "TERM"} : sig_shutdown_handler(sig)
  \/ Loop \/ Child \/ OrphanEnds \/ Rest

Spec == Init /\ [][Next]_vars

(***************************************************************************)
(* Fairness.  The thread of the server goes on, time passes, the child is  *)
(* a process of its own.                                                   *)
(***************************************************************************)
FairSpec ==
  /\ Spec
  /\ WF_vars(load_config \/ init_server) /\ WF_vars(Loop)
  /\ SF_vars(before_sleep(CheckMs))
  /\ WF_vars(Child) /\ WF_vars(OrphanEnds)

\* Not every attempt to rewrite fails, nor every stat.
RewritesSucceed ==
  /\ SF_vars(aof_rewrite_cron /\ rwState = "IDLE" /\ rwState' = "ACTIVE")
  /\ SF_vars(aof_rewrite_child("ok"))
  /\ SF_vars(aof_rewrite_cron /\ rwState = "ACTIVE" /\ rwState' = "IDLE" /\ streak' = 0 /\ ~stale')

-------------------------------------------------------------------------------
(* Properties                                                              *)

TypeOK ==
  /\ pc \in Starting \cup Running \cup Ended \cup {"stop"}
  /\ conf \in ConfigFiles /\ line \in 0..Len(conf) /\ errors \in 0..line
  /\ DOMAIN cfg = DOMAIN config_table
  /\ \A key \in DOMAIN cfg : config_table[key].type = "INT" =>
       cfg[key] \in config_table[key].min..config_table[key].max
  /\ signaled \in BOOLEAN /\ pipe \in Nat /\ signals \in 0..MaxSignals
  /\ starts \in 1..MaxStarts
  /\ events \subseteq {"pipe", "client"} /\ stop \in BOOLEAN
  /\ size \in Nat /\ last_size \in Nat /\ headed \in BOOLEAN /\ stale \in BOOLEAN
  /\ rwState \in {"IDLE", "ACTIVE", "ABORTING"}
  /\ child \in {"none", "running", "ok", "failed"}
  /\ temp \in Nat /\ orphan \in BOOLEAN
  /\ streak \in 0..MaxStreak /\ wait \in Nat /\ since \in Nat

\* The values of the enumerated settings as config.h numbers them.
AOF_POLICY     == [no |-> 0, pertick |-> 1, always |-> 2]
AOF_FSYNC_MODE == [data |-> 0, meta |-> 1, full |-> 2]

\* What a value means to the rest of the server.
Means(key, v, got) ==
  CASE key = "aof_policy"     -> got = AOF_POLICY[v.w]
    [] key = "aof_fsync_mode" -> got = AOF_FSYNC_MODE[v.w]
    [] key \in {"aof_enabled", "active_expire_enabled"} -> got = (v.w = "yes")
    [] key = "aof_filename"   -> got = v
    [] OTHER                  -> got = v.n

\* The values a setting may have: a number within its limits, one of its words,
\* any file name.
LegalValue(key, v) ==
  CASE key = "aof_policy"     -> ~v.number /\ v.w \in DOMAIN AOF_POLICY
    [] key = "aof_fsync_mode" -> ~v.number /\ v.w \in DOMAIN AOF_FSYNC_MODE
    [] key \in {"aof_enabled", "active_expire_enabled"} -> ~v.number /\ v.w \in {"yes", "no"}
    [] key = "aof_filename"   -> TRUE
    [] OTHER                  -> v.number /\ v.n \in config_table[key].min..config_table[key].max

\* A server that has left load_config runs with what the file says: every
\* line was legal, also one that a later line overrides, the last line for a
\* setting decides, a setting without a line has its default, and the
\* enumerated words have the numbers that the code compares with.
ConfigAsWritten ==
  pc \in (Starting \ {"config"}) \cup Running =>
    LET of(key) == {i \in DOMAIN conf : conf[i].kind = "set" /\ conf[i].key = key}
    IN  /\ \A i \in DOMAIN conf : conf[i].kind = "skip" \/
              /\ conf[i].kind = "set" /\ conf[i].key \in DOMAIN cfg
              /\ LegalValue(conf[i].key, conf[i].value)
        /\ \A key \in DOMAIN cfg :
             IF of(key) = {} THEN cfg[key] = init_server_config[key]
             ELSE LET last == CHOOSE i \in of(key) : \A j \in of(key) : j <= i
                  IN  Means(key, conf[last].value, cfg[key])

\* A signal that finds the self-pipe in place ends the server, wherever it
\* interrupts the loop: the byte is never drained without stopping.
SignalEndsServer == pipe > 0 ~> pc \in Ended

\* A rewrite that the cron starts has something to compact: a file nobody has
\* written to since its size was taken is never rewritten, so that an idle
\* server does not rewrite its file again and again.  (Unless stat failed when
\* the size should have been taken: then it does.)
NoQuietRewrite ==
  [][pc = "cron" /\ rwState = "IDLE" /\ rwState' = "ACTIVE" => stale]_vars

\* "Doubles the delay per consecutive failure, clamped at the configured
\* ceiling": counted from the last failure, whoever started that rewrite.
\* (If the base does not exceed the ceiling, which config.c does not check.)
BackoffAsDocumented ==
  LET base == cfg.aof_rewrite_backoff_base_ms
      ceiling == cfg.aof_rewrite_backoff_max_ms
  IN  streak > 0 /\ base <= ceiling =>
        LET due == Lesser(base * 2 ^ (streak - 1), ceiling)
        IN  wait <= due /\ since + wait >= due /\ since <= due + CheckMs

\* The cron makes no attempt while the delay after the last failure runs,
\* whether that rewrite was its own or a BGREWRITEAOF and whatever has been
\* written since; for every base and ceiling, in any order.
AutoRewriteHonoursBackoff ==
  [][pc = "cron" /\ rwState = "IDLE" /\ (rwState' = "ACTIVE" \/ streak' > streak) /\ streak > 0
       => since >= Lesser(cfg.aof_rewrite_backoff_base_ms * 2 ^ (streak - 1),
                          cfg.aof_rewrite_backoff_max_ms)]_vars

\* If rewrites do not fail for ever, a file that has outgrown its thresholds
\* is compacted or the server ends, though attempts fail, are put off, or are
\* made by BGREWRITEAOF in between.  (Writes come to an end here.)
Outgrown ==
  /\ pc \in Running /\ cfg.aof_enabled
  /\ size >= cfg.aof_rewrite_min_size
  /\ 100 * size >= last_size * (100 + cfg.aof_rewrite_growth)

OutgrownIsCompacted == RewritesSucceed => (Outgrown ~> ~Outgrown)

\* Every rewrite ends, whether it succeeds, fails or is aborted.  (With the
\* AOF disabled BGREWRITEAOF still starts one, which nothing ever reaps.)
RewriteSettles == rwState # "IDLE" /\ cfg.aof_enabled ~> rwState = "IDLE"
================================================================================
