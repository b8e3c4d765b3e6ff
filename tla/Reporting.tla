---- MODULE Reporting ----
(***************************************************************************)
(* How input_status and noria_status come to hold their rows, seen from    *)
(* the reporting layer: what the trackers write while their PLC is polled, *)
(* nothing while it is not, and a row for every tag when it answers again. *)
(* The rows are taken to reach the table (Supervisor and Writer say when   *)
(* they do not); a tag is never rewired, so it has one version.            *)
(***************************************************************************)
EXTENDS Views

CONSTANTS
  Stations,    \* the relays of the stations
  Line,        \* the status of the line
  Reassert,    \* reassert_seconds
  MaxTime,     \* bound: the instants looked at
  MaxRows,     \* bound: rows, per source
  MaxLosses,   \* bound: how many times it is lost, per source
  Casts        \* bound: the sets of sources that ever answer together

ASSUME ReportingAssumption ==
  /\ Line \notin Stations /\ IsFiniteSet(Stations)
  /\ Reassert \in 1..MaxSegment
  /\ MaxTime \in Nat
  /\ {MaxRows, MaxLosses} \subseteq [Stations \cup {Line} -> Nat]
  /\ Casts \subseteq SUBSET (Stations \cup {Line})

VARIABLES
  now,     \* the instant
  rows,    \* the table: per source, a value at each instant that has a row
  polled,  \* whether the source's PLC answers
  seen,    \* history: per source, what it read in every unit of time it was polled through
  starts,  \* history: the instants at which it was first seen on, after having been off
  losses,  \* history: how many times its PLC stopped answering
  cast     \* the sources that answer in this behaviour

vars == <<now, rows, polled, seen, starts, losses, cast>>

Sources == Stations \cup {Line}

TypeOK ==
  /\ now \in 0..MaxTime
  /\ polled \in [Sources -> BOOLEAN] /\ cast \in Casts
  /\ \A s \in Sources :
       /\ DOMAIN rows[s] \subseteq 0..now /\ DOMAIN seen[s] \subseteq 0..(now - 1)
       /\ starts[s] \subseteq Held(rows[s])
       /\ losses[s] \in 0..MaxLosses[s]

Empty == [t \in {} |-> FALSE]
Last(s) == Max(DOMAIN rows[s])
Value(s) == rows[s][Last(s)]
WasOn(s) == DOMAIN rows[s] # {} /\ Value(s)

Init ==
  /\ now = 0
  /\ rows = [s \in Sources |-> Empty]
  /\ polled = [s \in Sources |-> FALSE]
  /\ seen = [s \in Sources |-> Empty]
  /\ starts = [s \in Sources |-> {}]
  /\ losses = [s \in Sources |-> 0]
  /\ cast \in Casts

\* A row of s at this instant: input_status and noria_status have one per instant.
Write(s, v) ==
  /\ now \notin DOMAIN rows[s]
  /\ Cardinality(DOMAIN rows[s]) < MaxRows[s]
  /\ rows' = [rows EXCEPT ![s] = [t \in DOMAIN @ \cup {now} |-> IF t = now THEN v ELSE @[t]]]
  /\ starts' = IF v /\ ~WasOn(s) THEN [starts EXCEPT ![s] = @ \cup {now}] ELSE starts
  /\ UNCHANGED <<now, seen, losses, cast>>

\* The PLC answers, for the first time or again: its trackers have been reset, and the first
\* reading is written whatever it is.
Return(s) ==
  /\ s \in cast /\ ~polled[s]
  /\ polled' = [polled EXCEPT ![s] = TRUE]
  /\ \E v \in BOOLEAN : Write(s, v)

Flip(s) ==
  /\ polled[s] /\ DOMAIN rows[s] # {}
  /\ Write(s, ~Value(s))
  /\ UNCHANGED polled

\* Only a relay that reads true is written again: noria_status has edges alone.
Repeat(p) ==
  /\ polled[p] /\ WasOn(p) /\ now - Last(p) >= Reassert
  /\ Write(p, TRUE)
  /\ UNCHANGED polled

Lose(s) ==
  /\ polled[s] /\ losses[s] < MaxLosses[s]
  /\ polled' = [polled EXCEPT ![s] = FALSE]
  /\ losses' = [losses EXCEPT ![s] = @ + 1]
  /\ UNCHANGED <<now, rows, seen, starts, cast>>

\* The worker writes a held relay again before the cap runs out, as long as it polls
\* (PlcWorkerProofs, SegmentsUnderCap).
Due(p) == polled[p] /\ WasOn(p) /\ now + 1 - Last(p) > MaxSegment

Pass ==
  /\ now < MaxTime /\ ~\E p \in Stations : Due(p)
  /\ now' = now + 1
  /\ seen' = [s \in Sources |->
                IF polled[s] THEN [u \in DOMAIN seen[s] \cup {now} |-> IF u = now THEN Value(s) ELSE seen[s][u]]
                             ELSE seen[s]]
  /\ UNCHANGED <<rows, polled, starts, losses, cast>>

Next ==
  \/ \E s \in Sources : Return(s) \/ Flip(s) \/ Lose(s)
  \/ \E p \in Stations : Repeat(p)
  \/ Pass

Spec == Init /\ [][Next]_vars

----
Units(segments) == UNION {s.a..(s.b - 1) : s \in segments}
Segments(p) == Segment(rows[p], now)

\* What v_input_segmento charges to a station is what its relay was seen held, all of it and
\* nothing it was seen not to hold; beyond that at most a capped segment for each time its
\* PLC was lost, and a segment is flagged as a gap only if it was (30_input_segmento.sql:8-12).
ReportedIsHeld ==
  \A p \in Stations :
    LET charged == Units(Segments(p))
    IN /\ charged \cap DOMAIN seen[p] = Held(seen[p])
       /\ Retention(rows[p], now) <= Cardinality(Held(seen[p])) + MaxSegment * losses[p]
       /\ losses[p] = 0 => ~\E t \in Held(rows[p]) : IsGap(rows[p], t, now)

\* v_parada has a stop for each time the relay was first seen held and for no other: neither
\* a re-assert nor a PLC lost in the middle of a stop begins one.  Its stops add up to the
\* segments (31_parada.sql:3-4, verificacion.sql:26).
StopsAreSeen ==
  \A p \in Stations :
    LET stops == Stops(rows[p], now)
    IN /\ {s.inicio : s \in stops} = starts[p]
       /\ Total(stops, LAMBDA s : s.duracion) = Retention(rows[p], now)

\* The stretches of v_retencion_fusionada never touch and cover exactly the instants at
\* which some station is charged, day by day (33_retencion_fusionada.sql:12-17).
FusedIsUnion ==
  \A d \in 0..DayOf(now) :
    LET ofDay == {s \in UNION {Segments(p) : p \in Stations} : DayOf(s.a) = d}
        fused == Fused(ofDay)
    IN /\ Units(fused) = Units(ofDay)
       /\ \A x, y \in fused : x.a < y.a => x.b < y.a

\* A slot of v_parada_franja holds what is charged to the station within it: cutting neither
\* loses time nor moves it to another slot (32_parada_franja.sql:3-6, verificacion.sql:16).
SlotsHoldTheirTime ==
  \A p \in Stations : \A f \in {x \in 0..(now + MaxSegment) : x % Slot = 0} :
    InSlot(Segments(p), f) = Cardinality(Units(Segments(p)) \cap (f..(f + Slot - 1)))

\* No row from the start of the scan to the start of the shift, and held before: only then
\* does v_monitor_hoy begin a stop that v_parada continues.
Silent(p) ==
  LET before == {t \in DOMAIN rows[p] : t < Shift(now)}
  IN before # {} /\ rows[p][Max(before)] /\ Max(before) < Shift(now) - Day

\* v_monitor_hoy counts the stops v_parada has in the shift, with the same durations, and
\* a stop that comes from before the shift is not of it; except for a station that is held
\* and not polled for a day but the cap (60_monitor_hoy.sql:27-28, verificacion.sql:109).
MonitorAgrees ==
  \A p \in Stations :
    \/ StopsToday(rows[p], now) = OfShift(Stops(rows[p], now), now)
    \/ /\ Silent(p)
       /\ losses[p] > 0
       /\ DOMAIN seen[p] \cap ((Shift(now) - Day + MaxSegment)..(Shift(now) - 1)) = {}

\* In every window that ends now tiempo_parada_por_puesto has all the time the relay was
\* seen held inside, one that was held before the window opened included, and beyond it a
\* capped segment for each loss (tiempo_parada_por_puesto.sql:9-12, 31).
QueryCountsWindow ==
  \A p \in Stations : \A desde \in 0..(now - 1) :
    LET held == {u \in Held(seen[p]) : u >= desde}
        time == TimeHeld(rows[p], desde, now)
    IN Cardinality(held) <= time /\ time <= Cardinality(held) + MaxSegment * losses[p]

\* v_noria_parada has the line still whenever it was seen still, however long before the
\* session the edge was, and never when it was seen running (35_noria_parada.sql:13-16).
LineStopsAreTrue ==
  \A ini \in 0..now :
    Units(StoppedOver(rows[Line], ini, now, now)) \cap DOMAIN seen[Line]
      = {u \in DOMAIN seen[Line] \ Held(seen[Line]) : u >= ini}

\* "Stop time per workstation, counting only time the line was actually running"
\* (tiempo_parada_noria_en_marcha.sql:1): all of the time that the relay was seen held and
\* the line seen running.
RunningTimeIsCounted ==
  \A p \in Stations : \A desde \in 0..(now - 1) :
    Cardinality({u \in Held(seen[p]) \cap Held(seen[Line]) : u >= desde})
      <= TimeHeldRunning(rows[p], rows[Line], desde, now)
====
