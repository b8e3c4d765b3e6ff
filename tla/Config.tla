---- MODULE Config ----
(***************************************************************************)
(* The configuration (config.py): what load_config makes of the            *)
(* environment, and which environments it refuses.  Times and frequencies  *)
(* are in twentieths, the finest minimum there is.  A raw value is a kind, *)
(* and the number it stands for.                                           *)
(***************************************************************************)
EXTENDS Integers

Unit == 20

\* "decimal" is a number that int() refuses, "nan" one that compares with nothing,
\* "yes" and "no" the words that _bool knows, "text" all the rest.
Kind == {"absent", "empty", "integer", "decimal", "nan", "yes", "no", "text"}
Raw == [kind : Kind, n : Int]

Required == {"DB_HOST", "DB_NAME", "DB_USER", "DB_PASSWORD", "DB_SCHEMA", "EDU_PATH"}
Whole == {"DB_PORT", "REDIS_MAXLEN", "REDIS_BLOCK_MS", "PUBLISH_BUFFER_SIZE", "MONITOR_PORT",
          "MONITOR_QUEUE_SIZE", "BATCH_MAX_EVENTS"}
Real == {"POLL_SECONDS", "REASSERT_SECONDS", "HEARTBEAT_SECONDS", "STATUS_GRACE_SECONDS",
         "NORIA_CONV", "SPEED_DEADBAND_HZ", "SPEED_MAX_INTERVAL_SECONDS", "LIVE_SPEED_SECONDS",
         "LIVE_TTL_SECONDS", "LIVE_TIMEOUT_SECONDS", "LIVE_RETRY_SECONDS",
         "MONITOR_REFRESH_SECONDS", "MONITOR_HEARTBEAT_SECONDS", "MONITOR_STALE_SECONDS",
         "STOPFILE_POLL_SECONDS", "BACKOFF_INITIAL_SECONDS", "BACKOFF_MAX_SECONDS",
         "SHUTDOWN_GRACE_SECONDS"}
Bool == {"LIVE_ENABLED", "PERSIST_LIVE_SPEED"}

\* _LEGACY_NAMES: DB_USER is not among them.
Legacy == [DB_HOST |-> "HOST", DB_NAME |-> "DBNAME", DB_PASSWORD |-> "PASSWORD",
           DB_SCHEMA |-> "SCHEMA"]

Name == Required \cup Whole \cup Real \cup Bool \cup {"HOST", "DBNAME", "PASSWORD", "SCHEMA"}
Environment == [Name -> Raw]

\* What has another minimum than one, one second or one hertz.
Least == [DB_PORT |-> 1, REDIS_MAXLEN |-> 1000, REDIS_BLOCK_MS |-> 10, PUBLISH_BUFFER_SIZE |-> 10,
          MONITOR_PORT |-> 1, MONITOR_QUEUE_SIZE |-> 1, BATCH_MAX_EVENTS |-> 1,
          POLL_SECONDS |-> 1, STATUS_GRACE_SECONDS |-> 0, SPEED_DEADBAND_HZ |-> 0,
          LIVE_SPEED_SECONDS |-> 0, LIVE_TIMEOUT_SECONDS |-> 1, LIVE_RETRY_SECONDS |-> 0,
          BACKOFF_INITIAL_SECONDS |-> 2]
Minimum(name) == IF name \in DOMAIN Least THEN Least[name] ELSE Unit

\* _raw: the old name counts only where the new one is not set at all.
Given(env, name) ==
  IF env[name].kind = "absent" /\ name \in DOMAIN Legacy THEN env[Legacy[name]] ELSE env[name]
Missing(env, name) == Given(env, name).kind \in {"absent", "empty"}

\* _require
Present(env, name) == ~Missing(env, name)

\* _int, _float: a minimum refuses what is less, and nan is not less than anything.
WholeOK(env, name) ==
  Missing(env, name) \/ (Given(env, name).kind = "integer" /\ Given(env, name).n >= Minimum(name))
RealOK(env, name) ==
  \/ Missing(env, name)
  \/ Given(env, name).kind = "nan"
  \/ /\ Given(env, name).kind \in {"integer", "decimal"}
     /\ name # "NORIA_CONV" => Given(env, name).n >= Minimum(name)
NaN(env, name) == Given(env, name).kind = "nan"

\* _bool: the numbers one and zero are words too.
Says(env, name, word) ==
  LET r == Given(env, name)
  IN r.kind = word \/ (r.kind = "integer" /\ r.n = (IF word = "yes" THEN 1 ELSE 0))
BoolOK(env, name) == Missing(env, name) \/ Says(env, name, "yes") \/ Says(env, name, "no")

\* The defaults that the checks below, and the rest of the daemon, depend on.
Number(env, name, default) == IF Missing(env, name) THEN default ELSE Given(env, name).n
Poll(env) == Number(env, "POLL_SECONDS", 10)
Reassert(env) == Number(env, "REASSERT_SECONDS", 60 * Unit)
Larger(a, b) == IF a >= b THEN a ELSE b
Ttl(env) == Number(env, "LIVE_TTL_SECONDS", Larger(5 * Unit, 3 * Poll(env)))
LiveEnabled(env) == Missing(env, "LIVE_ENABLED") \/ Says(env, "LIVE_ENABLED", "yes")

Parses(env) ==
  /\ \A name \in Required : Present(env, name)
  /\ \A name \in Whole : WholeOK(env, name)
  /\ \A name \in Real : RealOK(env, name)
  /\ \A name \in Bool : BoolOK(env, name)

ReassertTooShort(env) ==
  /\ ~NaN(env, "REASSERT_SECONDS") /\ ~NaN(env, "POLL_SECONDS")
  /\ Reassert(env) <= Poll(env)
TtlTooShort(env) ==
  /\ LiveEnabled(env) /\ ~NaN(env, "LIVE_TTL_SECONDS") /\ ~NaN(env, "POLL_SECONDS")
  /\ Ttl(env) < 2 * Poll(env)

\* load_config raises no ConfigError.
Accepts(env) == Parses(env) /\ ~ReassertTooShort(env) /\ ~TtlTooShort(env)

----
\* Config.max_segment, and the longest live segment there can be: the re-assert, rounded
\* up to the next poll.
MaxSegment(env) == Reassert(env) + Poll(env) + Unit
LiveSegment(env, polls) == polls * Poll(env)
Rounds(env, polls) == polls >= 1 /\ (polls - 1) * Poll(env) < Reassert(env)

\* No value of the environment is "nan".
Numbers(env) == \A name \in Name : ~NaN(env, name)
====
