---- MODULE MCSupervisor ----
(* Instances of Supervisor for TLC: environments are a plain one with changes. *)
EXTENDS Supervisor, TLC

CONSTANTS w1, w2

Unset == [kind |-> "absent", n |-> 0]
Text == [kind |-> "text", n |-> 0]
Twentieths(n) == [kind |-> "decimal", n |-> n]
One == [kind |-> "integer", n |-> 1]
Zero == [kind |-> "integer", n |-> 0]
NotANumber == [kind |-> "nan", n |-> 0]

Plain == [name \in Name |-> IF name \in Required THEN Text ELSE Unset]
\* The old name of a setting; a poll of two seconds, with intervals around its bounds.
Slow(reassert, ttl, enabled) ==
  "HOST" :> Text @@ "DB_HOST" :> Unset @@ "POLL_SECONDS" :> Twentieths(40)
    @@ "REASSERT_SECONDS" :> Twentieths(reassert) @@ "LIVE_TTL_SECONDS" :> Twentieths(ttl)
    @@ "LIVE_ENABLED" :> enabled @@ Plain

Environs == {
  Plain,
  Slow(41, 80, One), Slow(40, 80, One), Slow(41, 79, One), Slow(41, 79, Zero),
  "POLL_SECONDS" :> NotANumber @@ Plain,
  "DB_USER" :> Unset @@ Plain,
  "DB_PORT" :> Twentieths(5432) @@ Plain,
  "BATCH_MAX_EVENTS" :> Zero @@ Plain,
  "LIVE_ENABLED" :> Text @@ Plain }

AllTables == {{}, {w1}, {w1, w2}}
====
