---- MODULE Views ----
(***************************************************************************)
(* The reporting views (reporting/*.sql) and the parameterised queries     *)
(* (queries/*.sql).  The rows of one relay, or of the line, are a function *)
(* from the instants that have a row to the value: a key of input_status,  *)
(* and of noria_status, has one row per instant.  Time is an integer.      *)
(***************************************************************************)
EXTENDS Integers, FiniteSets, FiniteSetsExt

CONSTANTS
  MaxSegment,  \* max_segment
  Day,         \* a day
  Slot,        \* franja_minutos
  ShiftStart,  \* monitor_hora_inicio
  Reach        \* how far the queries look back before their window: one hour

ASSUME ViewsAssumption ==
  /\ MaxSegment \in Nat \ {0} /\ Slot \in Nat \ {0} /\ Day \in Nat \ {0}
  /\ Day % Slot = 0
  /\ ShiftStart \in 0..(Day - 1)
  /\ Reach \in MaxSegment..Day

Least(a, b) == IF a <= b THEN a ELSE b
Greatest(a, b) == IF a >= b THEN a ELSE b

\* A sum of lengths, none of them negative: the units of time they are made of.
Total(S, size(_)) == Cardinality(UNION {{s} \X (1..size(s)) : s \in S})

DayOf(t) == t \div Day

From(rows, first) == [t \in {u \in DOMAIN rows : u >= first} |-> rows[t]]
Before(rows, last) == [t \in {u \in DOMAIN rows : u < last} |-> rows[t]]

----
\* lead(ts), and what stands for it in the last row.
Lead(rows, t, end) ==
  LET later == {u \in DOMAIN rows : u > t} IN IF later = {} THEN end ELSE Min(later)

\* lag(value)
Lag(rows, t) ==
  LET earlier == {u \in DOMAIN rows : u < t} IN earlier # {} /\ rows[Max(earlier)]

\* Faulty variant: no cap.
DurationRaw(rows, t, end) == Lead(rows, t, end) - t

Duration(rows, t, end) == Least(Lead(rows, t, end) - t, MaxSegment)
IsGap(rows, t, end) == Lead(rows, t, end) - t > MaxSegment

\* v_input_segmento
Held(rows) == {t \in DOMAIN rows : rows[t]}
Retention(rows, now) == Total(Held(rows), LAMBDA t : Duration(rows, t, now))

----
\* Faulty variant: every row that reads true starts a stop.
IsStartEach(rows, t) == rows[t]

\* v_parada: a stop starts where a true row does not follow another one ...
IsStart(rows, t) == ~(rows[t] /\ Lag(rows, t))
Grp(rows, t) == Cardinality({u \in DOMAIN rows : u <= t /\ IsStart(rows, u)})

\* ... and its rows are one stop.
Stop(rows, g, now) ==
  LET island == {t \in Held(rows) : Grp(rows, t) = g}
  IN [inicio |-> Min(island),
      duracion |-> Total(island, LAMBDA t : Duration(rows, t, now)),
      tuvo_hueco |-> \E t \in island : IsGap(rows, t, now)]
Stops(rows, now) == {Stop(rows, g, now) : g \in {Grp(rows, t) : t \in Held(rows)}}

----
\* v_retencion_fusionada: the segments of all stations, by the day they start in.
Segment(rows, now) ==
  {[a |-> t, b |-> t + Duration(rows, t, now)] : t \in {u \in Held(rows) : Duration(rows, u, now) > 0}}

\* Faulty variant: compares with the end of the previous segment, not with the latest end.
OpensAfterPrevious(segments, s) ==
  LET earlier == {o \in segments : o.a < s.a}
      latest == {o \in earlier : \A e \in earlier : e.a <= o.a}
  IN \A o \in latest : s.a > o.b

\* A segment that starts after the end of all before it opens a stretch.  Of several that
\* start together only the first can, in whatever order they come.
Opens(segments, s) == \A o \in segments : o.a < s.a => s.a > o.b
Stretch(segments, s) ==
  Cardinality({o.a : o \in {x \in segments : x.a <= s.a /\ Opens(segments, x)}})
Fused(segments) ==
  {LET members == {s \in segments : Stretch(segments, s) = n}
   IN [a |-> Min({s.a : s \in members}), b |-> Max({s.b : s \in members})] :
     n \in {Stretch(segments, s) : s \in segments}}

----
\* Faulty variant: the slots are counted from the segment's start.
SlotsUnaligned(s) == {f \in s.a..s.b : (f - s.a) % Slot = 0}

\* v_parada_franja: generate_series from the slot that holds the start, up to the end.
Slots(s) == {f \in ((s.a \div Slot) * Slot)..s.b : f % Slot = 0}
Part(s, f) == [a |-> Greatest(s.a, f), b |-> Least(s.b, f + Slot)]
InSlot(segments, f) ==
  Total({s \in segments : f \in Slots(s) /\ Part(s, f).b > Part(s, f).a},
        LAMBDA s : Part(s, f).b - Part(s, f).a)

----
\* v_monitor_hoy: the stops that began in today's shift, from the rows since a day before.
Shift(now) == DayOf(now) * Day + ShiftStart

\* Faulty variant: the rows of the shift only.
ScanFromShift(now) == Shift(now)

ScanFrom(now) == Shift(now) - Day
OfShift(stops, now) == {s \in stops : s.inicio >= Shift(now)}
StopsToday(rows, now) == OfShift(Stops(From(rows, ScanFrom(now)), now), now)

----
\* Faulty variant: looks only at the rows of the window.
StillOfWindow(line, ini, fin, now) ==
  {s \in {[a |-> t, b |-> Least(Lead(line, t, now), fin)] :
             t \in {u \in DOMAIN line \ Held(line) : u >= ini}} : s.b > s.a}

\* v_noria_parada: where the line stood still in a window.  Its rows are edges only, so the
\* row that says what held when the window opens may be any distance before it.
Still(line, ini, fin, now) ==
  {s \in {[a |-> Greatest(t, ini), b |-> Least(Lead(line, t, now), fin)] : t \in DOMAIN line \ Held(line)} :
     s.b > s.a}

\* StoppedOver: the stretches of Still, united and within the day's session.
StoppedOver(line, ini, fin, now) == Fused(Still(line, ini, fin, now))

----
\* tiempo_parada_por_puesto, tiempo_parada_noria_en_marcha: the rows of the window and of
\* Reach before it, cut at its bounds.  Faulty variant: the rows of the window only.
CutOfWindow(rows, desde, hasta) ==
  LET seen == Before(From(rows, desde), hasta)
  IN {[a |-> t, b |-> Lead(seen, t, hasta)] : t \in Held(seen)}

Cut(rows, desde, hasta) ==
  LET seen == Before(From(rows, desde - Reach), hasta)
  IN {s \in {[a |-> Greatest(t, desde), b |-> Least(Lead(seen, t, hasta), hasta)] : t \in Held(seen)} :
        s.b > s.a}

TimeHeld(rows, desde, hasta) ==
  Total(Cut(rows, desde, hasta), LAMBDA s : Least(s.b - s.a, MaxSegment))

TimeHeldRunning(rows, line, desde, hasta) ==
  LET meets == {m \in Cut(rows, desde, hasta) \X Cut(line, desde, hasta) :
                  m[2].a < m[1].b /\ m[2].b > m[1].a}
  IN Total(meets, LAMBDA m : Least(Least(m[1].b, m[2].b) - Greatest(m[1].a, m[2].a), MaxSegment))
====
