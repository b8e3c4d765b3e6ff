---- MODULE PlcWorker ----
(***************************************************************************)
(* One PLC worker and its trackers (plc/worker.py, plc/trackers.py): when  *)
(* it reads the PLC, which events it makes of what it read, and what has   *)
(* reached the stream when a tick fails half way.  Time is an integer in   *)
(* units as fine as one likes; a counter or relay of the PLC may move at   *)
(* any moment, and the worker sees it only at its next read.               *)
(***************************************************************************)
EXTENDS Integers, FiniteSets

CONSTANTS
  N,               \* stations of this PLC, in the order the trackers go through them
  Variador,        \* this PLC drives the line: it has status and speed trackers
  Frec,            \* frequencies the converter can report
  Poll,            \* POLL_SECONDS
  Reassert,        \* REASSERT_SECONDS
  SpeedInterval,   \* SPEED_MAX_INTERVAL_SECONDS
  Deadband,        \* SPEED_DEADBAND_HZ
  HeartbeatEvery,  \* HEARTBEAT_SECONDS
  Slack,           \* the second that max_segment allows for jitter
  Jitter,          \* how late a tick's read can end
  Stalls,          \* how long publishing can hold up a tick
  MaxTime,         \* bound: length of a behaviour
  MaxCount         \* bound: value of a PLC counter, and stops in one connection

Puesto == 1..N

ASSUME WorkerAssumption ==
  /\ N \in Nat
  /\ Variador \in BOOLEAN
  /\ Frec \subseteq Nat /\ Frec # {}
  /\ Poll \in Nat \ {0}
  /\ Reassert \in Nat /\ Reassert > Poll
  /\ SpeedInterval \in Nat \ {0}
  /\ Deadband \in Nat \ {0}
  /\ HeartbeatEvery \in Nat \ {0}
  /\ Slack \in Nat /\ Jitter \in Nat
  /\ Stalls \subseteq Nat
  /\ MaxTime \in Nat /\ MaxCount \in Nat

VARIABLES
  now,
  held,          \* the PLC: the station asks for a stop (the relay opened)
  counter,       \* the PLC: stops counted by its own register
  running,       \* the PLC: the line moves
  frec,          \* the PLC: frequency of the converter
  polling,       \* the worker is connected, in _poll_loop
  next_tick,     \* when the coming tick is due
  free_at,       \* when the previous tick ends
  unset,         \* trackers that have observed nothing since their reset
  last_value, last_written,  \* InputTracker
  last_count,                \* CounterTracker
  last_running,              \* NoriaStatusTracker
  last_frec, last_ts,        \* SpeedTracker
  last_beat,                 \* HeartbeatTracker
  sent,      \* the latest published edge, status, sample and beat
  sampled,   \* history: relays, status and frequency at the last complete tick
  counted,   \* history: stops published in this connection
  pulses     \* history: stops since its first reading

clockVars == <<now, next_tick, free_at>>
plcVars == <<held, counter, running, frec>>
trackerVars == <<unset, last_value, last_written, last_count, last_running,
                 last_frec, last_ts, last_beat>>
historyVars == <<sent, sampled, counted, pulses>>
vars == <<clockVars, plcVars, polling, trackerVars, historyVars>>

\* The trackers, in the order of _tick.
Status == 1
Speed == 2
Counters == 3
Inputs == 4
Beat == 5
Tracker == IF Variador THEN Status..Beat ELSE Counters..Beat

Reading == [held : [Puesto -> BOOLEAN], running : BOOLEAN, frec : Frec]

Sent == [value : [Puesto -> BOOLEAN], at : [Puesto -> Nat], running : BOOLEAN,
         frec : Frec, frec_at : Nat, beat : Nat]

TypeOK ==
  /\ now \in Nat /\ next_tick \in Nat /\ free_at \in Nat
  /\ held \in [Puesto -> BOOLEAN]
  /\ counter \in [Puesto -> Nat]
  /\ running \in BOOLEAN
  /\ frec \in Frec
  /\ polling \in BOOLEAN
  /\ unset \subseteq Tracker
  /\ last_value \in [Puesto -> BOOLEAN]
  /\ last_written \in [Puesto -> Nat]
  /\ last_count \in [Puesto -> Nat]
  /\ last_running \in BOOLEAN
  /\ last_frec \in Frec
  /\ last_ts \in Nat
  /\ last_beat \in Nat
  /\ sent \in Sent
  /\ sampled \in Reading
  /\ counted \in [Puesto -> Nat]
  /\ pulses \in [Puesto -> Nat]

Init ==
  /\ now = 0 /\ next_tick = 0 /\ free_at = 0
  /\ held = [p \in Puesto |-> FALSE]
  /\ counter = [p \in Puesto |-> 0]
  /\ running = FALSE
  /\ frec \in Frec
  /\ polling = FALSE
  /\ unset = Tracker
  /\ last_value = held
  /\ last_written = counter
  /\ last_count = counter
  /\ last_running = FALSE
  /\ last_frec = frec
  /\ last_ts = 0
  /\ last_beat = 0
  /\ sent = [value |-> held, at |-> counter, running |-> FALSE,
             frec |-> frec, frec_at |-> 0, beat |-> 0]
  /\ sampled = [held |-> held, running |-> FALSE, frec |-> frec]
  /\ counted = counter
  /\ pulses = counter

\* The worker is connected and has completed a tick of this connection.
Live(tracker) == polling /\ tracker \in Tracker \ unset

Later(a, b) == IF a >= b THEN a ELSE b

\* When the next tick starts: at its deadline, or as soon as the last one ends.
Start == Later(next_tick, free_at)

----
(* The PLC and the clock. *)

Relay(p) ==
  /\ held' = [held EXCEPT ![p] = ~@]
  /\ UNCHANGED <<clockVars, counter, running, frec, polling, trackerVars, historyVars>>

\* A stop, counted by the PLC; the history counts those the worker must see.
Pulse(p) ==
  /\ counter[p] < MaxCount /\ pulses[p] < MaxCount
  /\ counter' = [counter EXCEPT ![p] = @ + 1]
  /\ pulses' = IF Live(Counters)
               THEN [pulses EXCEPT ![p] = @ + 1] ELSE pulses
  /\ UNCHANGED <<clockVars, held, running, frec, polling, trackerVars, sent, sampled, counted>>

\* A PLC that is reset, or whose program is loaded again, counts from zero.
Wipe(p) ==
  /\ counter' = [counter EXCEPT ![p] = 0]
  /\ UNCHANGED <<clockVars, held, running, frec, polling, trackerVars, historyVars>>

\* The converter that drives the line, from one instant to the next.
Line ==
  IF Variador THEN running' \in BOOLEAN /\ frec' \in Frec
              ELSE UNCHANGED <<running, frec>>

\* A tick that is due is read within Jitter.
Pass ==
  /\ now < MaxTime
  /\ polling => now < Start + Jitter
  /\ now' = now + 1
  /\ Line
  /\ UNCHANGED <<next_tick, free_at, held, counter, polling, trackerVars, historyVars>>

----
(* The connection. *)

\* Faulty variants: one tracker is left out of _resync.
ResyncAllBut(tracker) ==
  /\ unset' = Tracker \ {tracker}
  /\ counted' = [p \in Puesto |-> 0]
  /\ pulses' = [p \in Puesto |-> 0]

ResyncNotInputs == ResyncAllBut(Inputs)
ResyncNotBeat == ResyncAllBut(Beat)

\* _resync: what was read before the gap is forgotten, so nothing is compared
\* across it.  The histories of the connection start with it.
Resync ==
  /\ unset' = Tracker
  /\ counted' = [p \in Puesto |-> 0]
  /\ pulses' = [p \in Puesto |-> 0]

Connect ==
  /\ ~polling
  /\ polling' = TRUE
  /\ next_tick' = now
  /\ free_at' = now
  /\ Resync
  /\ UNCHANGED <<now, plcVars, last_value, last_written, last_count, last_running,
                 last_frec, last_ts, last_beat, sent, sampled>>

\* A read fails, or the process ends; the trackers keep what they hold.
Disconnect ==
  /\ polling
  /\ polling' = FALSE
  /\ UNCHANGED <<clockVars, plcVars, trackerVars, historyVars>>

----
(* A tick. *)

\* The tick after this one: an absolute deadline, given up only when the tick
\* ended more than an interval late.
Reschedule(end) ==
  /\ free_at' = end
  /\ next_tick' = IF end > next_tick + 2 * Poll THEN end ELSE next_tick + Poll

\* Faulty variant: the re-assert is timed from the last flip.
EdgeOnce(p) == Inputs \in unset \/ held[p] # last_value[p]

\* InputTracker.observe: after a resync, on a flip, and again while held.
Edge(p) ==
  \/ Inputs \in unset
  \/ held[p] # last_value[p]
  \/ held[p] /\ now - last_written[p] >= Reassert

\* Faulty variant: the distance between two readings, whichever is larger.
DeltaAbsolute(p) ==
  IF Counters \in unset THEN 0
  ELSE IF counter[p] > last_count[p] THEN counter[p] - last_count[p]
  ELSE last_count[p] - counter[p]

\* CounterTracker.observe: a first reading and a smaller one only seed.
Delta(p) ==
  IF Counters \notin unset /\ counter[p] > last_count[p]
  THEN counter[p] - last_count[p] ELSE 0

StatusDue == Variador /\ (Status \in unset \/ running # last_running)

Distance(a, b) == IF a >= b THEN a - b ELSE b - a

\* Faulty variant: no refresh of a steady speed.
SpeedDueOnChange ==
  Variador /\ (Speed \in unset \/ Distance(frec, last_frec) >= Deadband)

\* SpeedTracker.observe: outside the deadband, or steady for too long.
SpeedDue ==
  /\ Variador
  /\ \/ Speed \in unset
     \/ Distance(frec, last_frec) >= Deadband
     \/ now - last_ts >= SpeedInterval

BeatDue == Beat \in unset \/ now - last_beat >= HeartbeatEvery

\* The trackers up to `stage` have observed the reading.
Observe(stage) ==
  /\ unset' = {t \in unset : t > stage}
  /\ IF StatusDue THEN last_running' = running ELSE UNCHANGED last_running
  /\ IF stage >= Speed /\ SpeedDue
     THEN last_frec' = frec /\ last_ts' = now ELSE UNCHANGED <<last_frec, last_ts>>
  /\ IF stage >= Counters THEN last_count' = counter ELSE UNCHANGED last_count
  /\ IF stage >= Inputs
     THEN /\ last_value' = [p \in Puesto |-> IF Edge(p) THEN held[p] ELSE last_value[p]]
          /\ last_written' = [p \in Puesto |-> IF Edge(p) THEN now ELSE last_written[p]]
     ELSE UNCHANGED <<last_value, last_written>>
  /\ IF stage >= Beat /\ BeatDue THEN last_beat' = now ELSE UNCHANGED last_beat

\* The events of the trackers before `stage` have been published, and the
\* first k of those of `stage` itself.
Publish(stage, k) ==
  LET out(t, p) == t < stage \/ (t = stage /\ p <= k)
      edge(p) == out(Inputs, p) /\ Edge(p)
      speed == out(Speed, 1) /\ SpeedDue
  IN /\ sent' = [value |-> [p \in Puesto |-> IF edge(p) THEN held[p] ELSE sent.value[p]],
                 at |-> [p \in Puesto |-> IF edge(p) THEN now ELSE sent.at[p]],
                 running |-> IF out(Status, 1) /\ StatusDue THEN running ELSE sent.running,
                 frec |-> IF speed THEN frec ELSE sent.frec,
                 frec_at |-> IF speed THEN now ELSE sent.frec_at,
                 beat |-> IF out(Beat, 1) /\ BeatDue THEN now ELSE sent.beat]
     /\ counted' = [p \in Puesto |-> IF out(Counters, p) THEN counted[p] + Delta(p) ELSE counted[p]]

Tick ==
  /\ polling
  /\ now >= Start
  /\ Observe(Beat)
  /\ Publish(Beat + 1, 0)
  /\ sampled' = [held |-> held, running |-> running, frec |-> frec]
  /\ \E stall \in Stalls : Reschedule(now + stall)
  /\ UNCHANGED <<now, plcVars, polling, pulses>>

\* Publishing raises in the middle of a tick: that tracker and those before it
\* have moved on, the rest of the events is lost, and run takes it for a
\* disconnection.
TickFailsAt(stage, k) ==
  /\ polling
  /\ now >= Start
  /\ Observe(stage) /\ Publish(stage, k)
  /\ polling' = FALSE
  /\ UNCHANGED <<clockVars, plcVars, sampled, pulses>>

TickFails == \E stage \in Tracker, k \in 0..Later(N, 1) : TickFailsAt(stage, k)

Next ==
  \/ \E p \in Puesto : Relay(p) \/ Pulse(p) \/ Wipe(p)
  \/ Pass
  \/ Connect
  \/ Disconnect
  \/ Tick
  \/ TickFails

Spec == Init /\ [][Next]_vars

----
(* What the recorded timeline promises. *)

\* After every complete tick the stream's latest edges are the relays and the
\* status as they were read, and the latest sample is within the deadband:
\* also when an earlier tick failed after a tracker had moved on.
RecordIsSampled ==
  /\ Live(Inputs) => sent.value = sampled.held
  /\ Live(Status) => sent.running = sampled.running
  /\ Live(Speed) => Distance(sent.frec, sampled.frec) < Deadband

\* The cap of the duration queries never cuts a live segment: while the
\* worker polls and the latest edge says held, that edge is younger than
\* REASSERT_SECONDS + POLL_SECONDS and the second of Config.max_segment.
SegmentUnderCap ==
  Live(Inputs) =>
    \A p \in Puesto : sent.value[p] => now - sent.at[p] <= Reassert + Poll + Slack

\* The same for the speed samples, which v_velocidad_franja weighs by time.
SpeedUnderCap == Live(Speed) => now - sent.frec_at <= SpeedInterval + Poll + Slack

\* A worker that polls beats: a longer silence is an outage.
BeatUnderCap == Live(Beat) => now - sent.beat <= HeartbeatEvery + Poll + Slack

\* What is published in a connection never exceeds the stops there were since
\* its first reading, whatever the PLC's register does.
NeverOvercounts ==
  Live(Counters) => \A p \in Puesto : counted[p] <= pulses[p]

\* Assumption of the caps: reads end within Jitter, and publishing does not
\* hold up a tick for longer than the second of slack makes good.
Timely ==
  /\ Jitter <= Slack
  /\ \A stall \in Stalls : stall + Jitter <= Poll + Slack
====
