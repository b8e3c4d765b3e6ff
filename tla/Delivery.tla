---- MODULE Delivery ----
(***************************************************************************)
(* What the stream and the writer promise together: at-least-once delivery *)
(* into a store that keeps every event once.  An accepted entry is owed    *)
(* until its event is stored, or parked because the database refuses it,   *)
(* or known to be nothing to store; eviction by MAXLEN is the only excuse. *)
(***************************************************************************)
EXTENDS Naturals, Sequences

CONSTANTS Event, Bad, Storable

VARIABLES
  accepted,  \* the events accepted for delivery, in order
  owed,      \* positions of accepted that are still owed
  evicted,   \* positions 1..evicted may be lost
  rows,      \* rows of the database, by event
  parked     \* refused events kept aside

vars == <<accepted, owed, evicted, rows, parked>>

Init ==
  /\ accepted = << >>
  /\ owed = {}
  /\ evicted = 0
  /\ rows = [e \in Event |-> 0]
  /\ parked = {}

Accept ==
  /\ \E e \in Event : accepted' = Append(accepted, e)
  /\ owed' = owed \cup {Len(accepted) + 1}
  /\ evicted' \in evicted..(Len(accepted) + 1)
  /\ UNCHANGED <<rows, parked>>

\* A transaction stores events that are owed and not stored yet, once each.
Store ==
  /\ \E new \in SUBSET {e \in Storable : rows[e] = 0 /\ \E i \in owed : accepted[i] = e} :
       rows' = [e \in Event |-> IF e \in new THEN 1 ELSE rows[e]]
  /\ UNCHANGED <<accepted, owed, evicted, parked>>

Park ==
  /\ \E i \in owed : accepted[i] \in Bad /\ parked' = parked \cup {accepted[i]}
  /\ UNCHANGED <<accepted, owed, evicted, rows>>

Settled(i) ==
  \/ i <= evicted
  \/ accepted[i] \in Storable /\ rows[accepted[i]] = 1
  \/ accepted[i] \in Bad /\ accepted[i] \in parked
  \/ accepted[i] \notin Storable \cup Bad

Release ==
  /\ owed' \in SUBSET owed
  /\ \A i \in owed \ owed' : Settled(i)
  /\ UNCHANGED <<accepted, evicted, rows, parked>>

Next == Accept \/ Store \/ Park \/ Release

Spec == Init /\ [][Next]_vars
====
