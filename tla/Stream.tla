---- MODULE Stream ----
(***************************************************************************)
(* The Redis stream between the PLC readers and the database writer, and   *)
(* the calls that stream.py makes on it.  One consumer group with one      *)
(* consumer reads it: an entry is undelivered, then pending (delivered and *)
(* not acknowledged), then acknowledged.                                   *)
(*                                                                         *)
(* An entry is its position in `stream`, the sequence of every event that  *)
(* was ever appended; Redis forgets the positions up to `trimmed` when     *)
(* MAXLEN is reached, read or not.                                         *)
(***************************************************************************)
EXTENDS Naturals, Sequences, FiniteSets

CONSTANTS
  Event,    \* events a reader can publish, told apart by their event_uid or natural key
  MaxLen    \* REDIS_MAXLEN: the length below which XADD never trims

ASSUME StreamAssumption == MaxLen \in Nat \ {0}

VARIABLES
  stream,     \* every event appended so far, in order
  trimmed,    \* entries 1..trimmed were evicted by MAXLEN
  delivered,  \* the group's last-delivered id
  pel,        \* the group's pending entries list
  parked      \* events on the rejected stream

streamVars == <<stream, trimmed, delivered, pel, parked>>

StreamTypeOK ==
  /\ stream \in Seq(Event)
  /\ trimmed \in 0..Len(stream)
  /\ delivered \in 0..Len(stream)
  /\ pel \subseteq 1..delivered
  /\ parked \subseteq Event

StreamInit ==
  /\ stream = << >>
  /\ trimmed = 0
  /\ delivered = 0
  /\ pel = {}
  /\ parked = {}

Entries == 1..Len(stream)

\* The first n of a set of entries: what COUNT n returns.
Oldest(S, n) == {i \in S : Cardinality({j \in S : j < i}) < n}

\* XADD with an approximate MAXLEN: whole nodes are evicted, so anything
\* between nothing and the excess over MaxLen may go.
Trimmable == {k \in trimmed..(Len(stream) + 1) : k = trimmed \/ k + MaxLen <= Len(stream) + 1}

xadd(e) ==
  /\ stream' = Append(stream, e)
  /\ trimmed' \in Trimmable
  /\ UNCHANGED <<delivered, pel, parked>>

\* XREADGROUP with cursor 0 re-reads the pending list, with cursor > it takes
\* what the group has not delivered yet.
PendingWindow(count) == Oldest(pel, count)
NewWindow(count) == Oldest({i \in Entries : i > delivered /\ i > trimmed}, count)

\* A new window is handed over: it becomes pending, except for `acked`,
\* the unreadable entries that _read acknowledges at once.
Deliver(window, acked) ==
  /\ pel' = (pel \cup window) \ acked
  /\ delivered' \in window
  /\ \A i \in window : i <= delivered'
  /\ UNCHANGED <<stream, trimmed, parked>>

ack(ids) ==
  /\ pel' = pel \ ids
  /\ UNCHANGED <<stream, trimmed, delivered, parked>>

park(e) ==
  /\ parked' = parked \cup {e}
  /\ UNCHANGED <<stream, trimmed, delivered, pel>>
====
