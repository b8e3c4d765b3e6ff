---- MODULE PlcWorkerProofs ----
(***************************************************************************)
(* Proofs about PlcWorker: the recorded timeline is the sampled one, live  *)
(* segments stay under the cap of the duration queries, and stops are      *)
(* never counted twice, for every period, deadband, number of stations and *)
(* length of a behaviour.                                                  *)
(***************************************************************************)
EXTENDS PlcWorker, TLAPS

----
(* Type correctness. *)

LEMMA TrackerNumbers ==
  /\ Tracker \subseteq 1..5
  /\ Counters \in Tracker /\ Inputs \in Tracker /\ Beat \in Tracker
  /\ Variador => Status \in Tracker /\ Speed \in Tracker
  /\ ~Variador => Status \notin Tracker /\ Speed \notin Tracker
  BY DEF Tracker, Status, Speed, Counters, Inputs, Beat

LEMMA DeltaType ==
  ASSUME TypeOK, NEW p \in Puesto
  PROVE  Delta(p) \in Nat
  BY DEF TypeOK, Delta

LEMMA TypeInit == Init => TypeOK
<1> SUFFICES ASSUME Init PROVE TypeOK
  OBVIOUS
<1>1. /\ held \in [Puesto -> BOOLEAN] /\ counter \in [Puesto -> Nat]
      /\ frec \in Frec /\ running \in BOOLEAN /\ polling \in BOOLEAN
  BY DEF Init
<1>2. sent \in Sent /\ sampled \in Reading
  BY <1>1 DEF Init, Sent, Reading
<1> QED BY <1>1, <1>2 DEF Init, TypeOK

LEMMA ObserveType ==
  ASSUME TypeOK, NEW stage \in 1..5, Observe(stage)
  PROVE  /\ unset' \subseteq Tracker
         /\ last_value' \in [Puesto -> BOOLEAN]
         /\ last_written' \in [Puesto -> Nat]
         /\ last_count' \in [Puesto -> Nat]
         /\ last_running' \in BOOLEAN
         /\ last_frec' \in Frec
         /\ last_ts' \in Nat
         /\ last_beat' \in Nat
<1>1. unset' \subseteq Tracker
  BY DEF Observe, TypeOK
<1>2. last_value' \in [Puesto -> BOOLEAN] /\ last_written' \in [Puesto -> Nat]
  BY DEF Observe, TypeOK
<1>3. last_count' \in [Puesto -> Nat] /\ last_running' \in BOOLEAN
  BY DEF Observe, TypeOK
<1>4. last_frec' \in Frec /\ last_ts' \in Nat /\ last_beat' \in Nat
  BY DEF Observe, TypeOK
<1> QED BY <1>1, <1>2, <1>3, <1>4

LEMMA PublishType ==
  ASSUME TypeOK, NEW stage \in Nat, NEW k \in Nat, Publish(stage, k)
  PROVE  sent' \in Sent /\ counted' \in [Puesto -> Nat]
<1>1. sent' \in Sent
  BY DEF Publish, TypeOK, Sent
<1>2. counted' \in [Puesto -> Nat]
  BY DeltaType DEF Publish, TypeOK
<1> QED BY <1>1, <1>2

LEMMA TypeStep == TypeOK /\ [Next]_vars => TypeOK'
<1> SUFFICES ASSUME TypeOK, [Next]_vars PROVE TypeOK'
  OBVIOUS
<1>1. CASE UNCHANGED vars
  BY <1>1 DEF TypeOK, vars, clockVars, plcVars, trackerVars, historyVars
<1>2. ASSUME NEW p \in Puesto, Relay(p) PROVE TypeOK'
  BY <1>2 DEF TypeOK, Relay, clockVars, trackerVars, historyVars
<1>3. ASSUME NEW p \in Puesto, Pulse(p) PROVE TypeOK'
  BY <1>3 DEF TypeOK, Pulse, clockVars, trackerVars
<1>4. ASSUME NEW p \in Puesto, Wipe(p) PROVE TypeOK'
  BY <1>4 DEF TypeOK, Wipe, clockVars, trackerVars, historyVars
<1>5. CASE Pass
  BY <1>5 DEF TypeOK, Pass, Line, trackerVars, historyVars
<1>6. CASE Connect
  BY <1>6 DEF TypeOK, Connect, Resync, plcVars
<1>7. CASE Disconnect
  BY <1>7 DEF TypeOK, Disconnect, clockVars, plcVars, trackerVars, historyVars
<1>8. CASE Tick
  <2> USE <1>8
  <2>1. PICK stall \in Stalls : Reschedule(now + stall)
    BY DEF Tick
  <2>2. next_tick' \in Nat /\ free_at' \in Nat
    BY <2>1, WorkerAssumption DEF Reschedule, TypeOK
  <2>3. sent' \in Sent /\ counted' \in [Puesto -> Nat]
    BY PublishType DEF Tick, Beat
  <2>4. Observe(Beat)
    BY DEF Tick
  <2>5. /\ unset' \subseteq Tracker
        /\ last_value' \in [Puesto -> BOOLEAN] /\ last_written' \in [Puesto -> Nat]
        /\ last_count' \in [Puesto -> Nat] /\ last_running' \in BOOLEAN
        /\ last_frec' \in Frec /\ last_ts' \in Nat /\ last_beat' \in Nat
    BY <2>4, ObserveType DEF Beat
  <2>6. sampled' \in Reading
    BY DEF Tick, TypeOK, Reading
  <2> QED BY <2>2, <2>3, <2>5, <2>6 DEF Tick, TypeOK, plcVars
<1>9. CASE TickFails
  <2> USE <1>9
  <2>1. PICK stage \in Tracker, k \in 0..Later(N, 1) : Observe(stage) /\ Publish(stage, k)
    BY DEF TickFails, TickFailsAt
  <2>2. stage \in 1..5 /\ k \in Nat
    BY TrackerNumbers, WorkerAssumption DEF Later
  <2>3. sent' \in Sent /\ counted' \in [Puesto -> Nat]
    BY <2>1, <2>2, PublishType
  <2>4. /\ unset' \subseteq Tracker
        /\ last_value' \in [Puesto -> BOOLEAN] /\ last_written' \in [Puesto -> Nat]
        /\ last_count' \in [Puesto -> Nat] /\ last_running' \in BOOLEAN
        /\ last_frec' \in Frec /\ last_ts' \in Nat /\ last_beat' \in Nat
    BY <2>1, <2>2, ObserveType
  <2> QED BY <2>3, <2>4 DEF TickFails, TickFailsAt, TypeOK, clockVars, plcVars
<1> QED BY <1>1, <1>2, <1>3, <1>4, <1>5, <1>6, <1>7, <1>8, <1>9 DEF Next

\* Type correctness of the worker, its trackers and what it has published.
THEOREM TypeCorrect == Spec => []TypeOK
  BY TypeInit, TypeStep, PTL DEF Spec

----
(* The record is what was sampled. *)

\* Between ticks the trackers hold what they last published: in a connection
\* they have all observed the same readings, or none has yet.
Remembered ==
  polling =>
    \/ unset = Tracker
    \/ /\ unset = {}
       /\ sent.value = last_value /\ sent.at = last_written
       /\ last_value = sampled.held
       /\ sent.beat = last_beat
       /\ Variador => /\ sent.running = sampled.running /\ last_running = sampled.running
                      /\ sent.frec = last_frec /\ sent.frec_at = last_ts
                      /\ Distance(last_frec, sampled.frec) < Deadband

LEMMA CompleteTick ==
  ASSUME TypeOK, Remembered, Tick
  PROVE  /\ unset' = {}
         /\ sent'.value = last_value' /\ sent'.at = last_written'
         /\ last_value' = held
         /\ sent'.beat = last_beat'
         /\ Variador => /\ sent'.running = running /\ last_running' = running
                        /\ sent'.frec = last_frec' /\ sent'.frec_at = last_ts'
                        /\ Distance(last_frec', frec) < Deadband
<1> DEFINE fresh == unset = Tracker
<1>1. polling /\ Observe(Beat) /\ Publish(Beat + 1, 0)
  BY DEF Tick
<1>2. unset' = {}
  <2>1. unset' = {t \in unset : t > 5}
    BY <1>1 DEF Observe, Beat
  <2>2. \A t \in unset : t \in 1..5
    BY TrackerNumbers DEF TypeOK
  <2> QED BY <2>1, <2>2
<1>3. fresh \/ (/\ unset = {} /\ sent.value = last_value /\ sent.at = last_written
                /\ sent.beat = last_beat
                /\ Variador => /\ sent.running = last_running
                               /\ sent.frec = last_frec /\ sent.frec_at = last_ts)
  BY <1>1 DEF Remembered
<1>4. sent'.value = last_value' /\ sent'.at = last_written'
  <2>1. /\ sent'.value = [p \in Puesto |-> IF Edge(p) THEN held[p] ELSE sent.value[p]]
        /\ sent'.at = [p \in Puesto |-> IF Edge(p) THEN now ELSE sent.at[p]]
    BY <1>1 DEF Publish, Beat, Inputs
  <2>2. /\ last_value' = [p \in Puesto |-> IF Edge(p) THEN held[p] ELSE last_value[p]]
        /\ last_written' = [p \in Puesto |-> IF Edge(p) THEN now ELSE last_written[p]]
    BY <1>1 DEF Observe, Beat, Inputs
  <2>3. fresh => \A p \in Puesto : Edge(p)
    BY TrackerNumbers DEF Edge
  <2> QED BY <1>3, <2>1, <2>2, <2>3
<1>5. last_value' = held
  <2>1. last_value' = [p \in Puesto |-> IF Edge(p) THEN held[p] ELSE last_value[p]]
    BY <1>1 DEF Observe, Beat, Inputs
  <2>2. \A p \in Puesto : ~Edge(p) => last_value[p] = held[p]
    BY DEF Edge
  <2>3. \A p \in Puesto : last_value'[p] = held[p]
    BY <2>1, <2>2
  <2> QED BY <2>1, <2>3 DEF TypeOK
<1>6. sent'.beat = last_beat'
  <2>1. fresh => BeatDue
    BY TrackerNumbers DEF BeatDue
  <2> QED BY <1>1, <1>3, <2>1 DEF Observe, Publish, Beat
<1>7. ASSUME Variador
      PROVE  /\ sent'.running = running /\ last_running' = running
             /\ sent'.frec = last_frec' /\ sent'.frec_at = last_ts'
             /\ Distance(last_frec', frec) < Deadband
  <2>1. fresh => StatusDue /\ SpeedDue
    BY <1>7, TrackerNumbers DEF StatusDue, SpeedDue
  <2>2. sent'.running = last_running' /\ sent'.frec = last_frec' /\ sent'.frec_at = last_ts'
    BY <1>1, <1>3, <1>7, <2>1 DEF Observe, Publish, Beat, Status, Speed
  <2>3. last_running' = running
    BY <1>1, <1>7 DEF Observe, StatusDue
  <2>4. Distance(last_frec', frec) < Deadband
    <3>1. frec \in Nat /\ last_frec \in Nat
      BY WorkerAssumption DEF TypeOK
    <3>2. CASE SpeedDue
      BY <1>1, <3>1, <3>2, WorkerAssumption DEF Observe, Beat, Speed, Distance
    <3>3. CASE ~SpeedDue
      BY <1>1, <1>7, <3>1, <3>3, WorkerAssumption DEF Observe, SpeedDue, Distance
    <3> QED BY <3>2, <3>3
  <2> QED BY <2>2, <2>3, <2>4
<1> QED BY <1>2, <1>4, <1>5, <1>6, <1>7

LEMMA RememberedStep == TypeOK /\ Remembered /\ [Next]_vars => Remembered'
<1> SUFFICES ASSUME TypeOK, Remembered, [Next]_vars PROVE Remembered'
  OBVIOUS
<1> DEFINE kept == UNCHANGED <<polling, trackerVars, sent, sampled>>
<1>1. CASE kept
  BY <1>1 DEF Remembered, trackerVars
<1>2. CASE UNCHANGED vars
  BY <1>1, <1>2 DEF vars, historyVars
<1>3. ASSUME NEW p \in Puesto, Relay(p) \/ Pulse(p) \/ Wipe(p) PROVE kept
  BY <1>3 DEF Relay, Pulse, Wipe, historyVars
<1>4. CASE Pass
  BY <1>1, <1>4 DEF Pass, historyVars
<1>5. CASE Connect
  BY <1>5 DEF Connect, Resync, Remembered
<1>6. CASE Disconnect \/ TickFails
  BY <1>6 DEF Disconnect, TickFails, TickFailsAt, Remembered
<1>7. CASE Tick
  <2>1. /\ sampled'.held = held /\ sampled'.running = running /\ sampled'.frec = frec
    BY <1>7 DEF Tick
  <2> QED BY <1>7, <2>1, CompleteTick DEF Remembered
<1> QED BY <1>1, <1>2, <1>3, <1>4, <1>5, <1>6, <1>7 DEF Next

LEMMA RememberedHolds == Spec => []Remembered
<1>1. Init => Remembered
  BY DEF Init, Remembered
<1> QED BY <1>1, RememberedStep, TypeCorrect, PTL DEF Spec

\* After every complete tick the latest edges on the stream are the relays and
\* the status as they were read and the latest speed is within the deadband,
\* whatever ticks failed before.
THEOREM RecordSampled == Spec => []RecordIsSampled
<1>1. TypeOK /\ Remembered => RecordIsSampled
  BY TrackerNumbers DEF RecordIsSampled, Remembered, Live
<1> QED BY <1>1, TypeCorrect, RememberedHolds, PTL

----
(* Live segments stay under the cap. *)

\* How far ahead a tick can put the start of the next one.
Ahead == Poll + Slack - Jitter

LEMMA AheadBound ==
  ASSUME Timely
  PROVE  /\ Ahead \in Nat /\ Poll <= Ahead
         /\ \A stall \in Stalls : stall \in Nat /\ stall <= Ahead
  BY WorkerAssumption DEF Timely, Ahead

\* The coming tick is read in time, and its start is bounded by what each
\* tracker last wrote: so are the time of that tick, and the time now.
OnTime ==
  polling =>
    /\ now <= Start + Jitter
    /\ unset = {} =>
         /\ \A p \in Puesto : last_value[p] => Start <= last_written[p] + Reassert - 1 + Ahead
         /\ Variador => Start <= last_ts + SpeedInterval - 1 + Ahead
         /\ Start <= last_beat + HeartbeatEvery - 1 + Ahead

LEMMA StartType == ASSUME TypeOK PROVE Start \in Nat
  BY DEF TypeOK, Start, Later

LEMMA TickOnTime ==
  ASSUME TypeOK, Remembered, Timely, Tick
  PROVE  /\ now <= Start' + Jitter
         /\ Start' <= now + Ahead
         /\ \A p \in Puesto : last_value'[p] => now <= last_written'[p] + Reassert - 1
         /\ Variador => now <= last_ts' + SpeedInterval - 1
         /\ now <= last_beat' + HeartbeatEvery - 1
<1>1. PICK stall \in Stalls : Reschedule(now + stall)
  BY DEF Tick
<1>2. stall \in Nat /\ stall <= Ahead /\ Poll <= Ahead /\ Ahead \in Nat
  BY AheadBound
<1>3. polling /\ now >= Start /\ Observe(Beat)
  BY DEF Tick
<1>4. now \in Nat /\ next_tick \in Nat /\ free_at \in Nat
  BY DEF TypeOK
<1>5. next_tick <= now
  BY <1>3, <1>4 DEF Start, Later
<1>6. Start' <= now + Ahead /\ now <= Start' + Jitter
  <2>1. next_tick' <= now + Ahead /\ next_tick' \in Nat
    BY <1>1, <1>2, <1>4, <1>5, WorkerAssumption DEF Reschedule
  <2>2. free_at' = now + stall
    BY <1>1 DEF Reschedule
  <2>3. Start' = next_tick' \/ Start' = free_at'
    BY DEF Start, Later
  <2>4. Start' >= free_at'
    BY <1>2, <1>4, <2>1, <2>2 DEF Start, Later
  <2>5. Start' <= now + Ahead
    BY <1>2, <1>4, <2>1, <2>2, <2>3
  <2>6. now <= Start' + Jitter
    BY <1>2, <1>4, <2>1, <2>2, <2>3, <2>4, WorkerAssumption
  <2> QED BY <2>5, <2>6
<1>7. ASSUME NEW p \in Puesto, last_value'[p] PROVE now <= last_written'[p] + Reassert - 1
  <2>1. last_value'[p] = (IF Edge(p) THEN held[p] ELSE last_value[p])
    BY <1>3 DEF Observe, Beat, Inputs
  <2>2. last_written'[p] = (IF Edge(p) THEN now ELSE last_written[p])
    BY <1>3 DEF Observe, Beat, Inputs
  <2>3. CASE Edge(p)
    BY <1>4, <2>2, <2>3, WorkerAssumption
  <2>4. CASE ~Edge(p)
    <3>1. held[p] /\ ~(now - last_written[p] >= Reassert)
      BY <1>7, <2>1, <2>4 DEF Edge, TypeOK
    <3>2. last_written[p] \in Nat
      BY DEF TypeOK
    <3> QED BY <1>4, <2>2, <2>4, <3>1, <3>2, WorkerAssumption
  <2> QED BY <2>3, <2>4
<1>8. ASSUME Variador PROVE now <= last_ts' + SpeedInterval - 1
  <2>1. last_ts' = IF SpeedDue THEN now ELSE last_ts
    BY <1>3 DEF Observe, Beat, Speed
  <2>2. ~SpeedDue => ~(now - last_ts >= SpeedInterval)
    BY <1>8 DEF SpeedDue
  <2>3. last_ts \in Nat
    BY DEF TypeOK
  <2> QED BY <1>4, <2>1, <2>2, <2>3, WorkerAssumption
<1>9. now <= last_beat' + HeartbeatEvery - 1
  <2>1. last_beat' = IF BeatDue THEN now ELSE last_beat
    BY <1>3 DEF Observe, Beat
  <2>2. ~BeatDue => ~(now - last_beat >= HeartbeatEvery)
    BY DEF BeatDue
  <2>3. last_beat \in Nat
    BY DEF TypeOK
  <2> QED BY <1>4, <2>1, <2>2, <2>3, WorkerAssumption
<1> QED BY <1>6, <1>7, <1>8, <1>9

LEMMA AddAhead ==
  \A start, t, ahead, x, d \in Nat :
    start <= t + ahead /\ t <= x + d - 1 => start <= x + d - 1 + ahead
  OBVIOUS

LEMMA OnTimeStep ==
  ASSUME Timely
  PROVE  TypeOK /\ TypeOK' /\ Remembered /\ OnTime /\ [Next]_vars => OnTime'
<1> SUFFICES ASSUME TypeOK, TypeOK', Remembered, OnTime, [Next]_vars PROVE OnTime'
  OBVIOUS
<1> DEFINE kept == UNCHANGED <<clockVars, polling, trackerVars>>
<1>1. CASE kept
  BY <1>1 DEF OnTime, Start, clockVars, trackerVars
<1>2. CASE UNCHANGED vars
  BY <1>1, <1>2 DEF vars
<1>3. ASSUME NEW p \in Puesto, Relay(p) \/ Pulse(p) \/ Wipe(p) PROVE kept
  BY <1>3 DEF Relay, Pulse, Wipe
<1>4. CASE Pass
  <2>1. UNCHANGED <<next_tick, free_at, polling, trackerVars>>
    BY <1>4 DEF Pass
  <2>2. Start' = Start
    BY <2>1 DEF Start
  <2>3. polling => now' <= Start + Jitter
    BY <1>4, StartType, WorkerAssumption DEF Pass, TypeOK
  <2> QED BY <2>1, <2>2, <2>3 DEF OnTime, trackerVars
<1>5. CASE Connect
  <2>1. now' = now /\ Start' = now /\ unset' = Tracker
    BY <1>5 DEF Connect, Resync, Start, Later
  <2> QED BY <2>1, TrackerNumbers, WorkerAssumption DEF OnTime, TypeOK
<1>6. CASE Disconnect \/ TickFails
  BY <1>6 DEF Disconnect, TickFails, TickFailsAt, OnTime
<1>7. CASE Tick
  <2>1. now' = now /\ now \in Nat /\ Ahead \in Nat /\ Start' \in Nat
    BY <1>7, AheadBound, StartType DEF Tick, TypeOK, Start, Later
  <2>2. last_written' \in [Puesto -> Nat] /\ last_ts' \in Nat /\ last_beat' \in Nat
    BY DEF TypeOK
  <2>3. \A p \in Puesto : last_value'[p] => Start' <= last_written'[p] + Reassert - 1 + Ahead
    BY <1>7, <2>1, <2>2, TickOnTime, WorkerAssumption
  <2>4. Variador => Start' <= last_ts' + SpeedInterval - 1 + Ahead
    <3>1. Start' <= now + Ahead /\ (Variador => now <= last_ts' + SpeedInterval - 1)
      BY <1>7, TickOnTime
    <3>2. SpeedInterval \in Nat
      BY WorkerAssumption
    <3> QED BY <2>1, <2>2, <3>1, <3>2, AddAhead
  <2>5. Start' <= last_beat' + HeartbeatEvery - 1 + Ahead
    <3>1. Start' <= now + Ahead /\ now <= last_beat' + HeartbeatEvery - 1
      BY <1>7, TickOnTime
    <3>2. HeartbeatEvery \in Nat
      BY WorkerAssumption
    <3> QED BY <2>1, <2>2, <3>1, <3>2, AddAhead
  <2>6. now' <= Start' + Jitter
    BY <1>7, <2>1, TickOnTime
  <2> QED BY <2>3, <2>4, <2>5, <2>6 DEF OnTime
<1> QED BY <1>1, <1>2, <1>3, <1>4, <1>5, <1>6, <1>7 DEF Next

LEMMA OnTimeHolds == ASSUME Timely PROVE Spec => []OnTime
<1>1. Init => OnTime
  BY DEF Init, OnTime
<1>2. TypeOK /\ TypeOK' /\ Remembered /\ OnTime /\ [Next]_vars => OnTime'
  BY OnTimeStep
<1> QED BY <1>1, <1>2, TypeCorrect, RememberedHolds, PTL DEF Spec

LEMMA UnderCaps ==
  ASSUME Timely, TypeOK, Remembered, OnTime
  PROVE  SegmentUnderCap /\ SpeedUnderCap /\ BeatUnderCap
<1>1. now \in Nat /\ Start \in Nat /\ Ahead \in Nat
  BY StartType, AheadBound DEF TypeOK
<1>2. \A x \in Nat, d \in Nat :
        now <= Start + Jitter /\ Start <= x + d - 1 + Ahead => now - x <= d + Poll + Slack
  BY <1>1, WorkerAssumption DEF Ahead
<1>3. polling /\ unset # Tracker => unset = {}
  BY DEF Remembered
<1>4. SegmentUnderCap
  <2> SUFFICES ASSUME Live(Inputs), NEW p \in Puesto, sent.value[p]
               PROVE  now - sent.at[p] <= Reassert + Poll + Slack
    BY DEF SegmentUnderCap
  <2>1. polling /\ unset = {}
    BY <1>3, TrackerNumbers DEF Live
  <2>2. last_value[p] /\ sent.at[p] = last_written[p] /\ last_written[p] \in Nat
    BY <2>1, TrackerNumbers DEF Remembered, TypeOK
  <2>3. now <= Start + Jitter /\ Start <= last_written[p] + Reassert - 1 + Ahead
    BY <2>1, <2>2 DEF OnTime
  <2> QED BY <1>2, <2>2, <2>3, WorkerAssumption
<1>5. SpeedUnderCap
  <2> SUFFICES ASSUME Live(Speed) PROVE now - sent.frec_at <= SpeedInterval + Poll + Slack
    BY DEF SpeedUnderCap
  <2>1. polling /\ unset = {} /\ Variador
    BY <1>3, TrackerNumbers DEF Live
  <2>2. sent.frec_at = last_ts /\ last_ts \in Nat
    BY <2>1, TrackerNumbers DEF Remembered, TypeOK
  <2>3. now <= Start + Jitter /\ Start <= last_ts + SpeedInterval - 1 + Ahead
    BY <2>1 DEF OnTime
  <2> QED BY <1>2, <2>2, <2>3, WorkerAssumption
<1>6. BeatUnderCap
  <2> SUFFICES ASSUME Live(Beat) PROVE now - sent.beat <= HeartbeatEvery + Poll + Slack
    BY DEF BeatUnderCap
  <2>1. polling /\ unset = {}
    BY <1>3, TrackerNumbers DEF Live
  <2>2. sent.beat = last_beat /\ last_beat \in Nat
    BY <2>1, TrackerNumbers DEF Remembered, TypeOK
  <2>3. now <= Start + Jitter /\ Start <= last_beat + HeartbeatEvery - 1 + Ahead
    BY <2>1 DEF OnTime
  <2> QED BY <1>2, <2>2, <2>3, WorkerAssumption
<1> QED BY <1>4, <1>5, <1>6

\* The cap of the duration queries cuts no live segment, for every period, as
\* long as reads and publishing keep within the slack.
THEOREM SegmentsUnderCap == ASSUME Timely PROVE Spec => []SegmentUnderCap
<1>1. TypeOK /\ Remembered /\ OnTime => SegmentUnderCap
  BY UnderCaps
<1> QED BY <1>1, TypeCorrect, RememberedHolds, OnTimeHolds, PTL

\* The same for the samples of the speed.
THEOREM SpeedsUnderCap == ASSUME Timely PROVE Spec => []SpeedUnderCap
<1>1. TypeOK /\ Remembered /\ OnTime => SpeedUnderCap
  BY UnderCaps
<1> QED BY <1>1, TypeCorrect, RememberedHolds, OnTimeHolds, PTL

\* And for the proof of life: a worker that polls beats.
THEOREM BeatsUnderCap == ASSUME Timely PROVE Spec => []BeatUnderCap
<1>1. TypeOK /\ Remembered /\ OnTime => BeatUnderCap
  BY UnderCaps
<1> QED BY <1>1, TypeCorrect, RememberedHolds, OnTimeHolds, PTL

----
(* Stops are not counted twice. *)

\* What was published and what the next reading would add do not exceed the
\* stops since the first reading; a wiped register only makes it less.
Pending(p) == IF counter[p] > last_count[p] THEN counter[p] - last_count[p] ELSE 0

CountsWithin ==
  /\ \A p \in Puesto : counted[p] <= pulses[p]
  /\ Live(Counters) => \A p \in Puesto : counted[p] + Pending(p) <= pulses[p]

LEMMA PublishWithin ==
  ASSUME TypeOK, CountsWithin, polling, UNCHANGED pulses,
         NEW stage \in Nat, NEW k \in Nat, Publish(stage, k)
  PROVE  \A p \in Puesto : counted'[p] <= pulses'[p]
<1> SUFFICES ASSUME NEW p \in Puesto PROVE counted'[p] <= pulses[p]
  OBVIOUS
<1>1. counted[p] \in Nat /\ pulses[p] \in Nat /\ Delta(p) \in Nat
  BY DeltaType DEF TypeOK
<1>2. counted'[p] = counted[p] \/ counted'[p] = counted[p] + Delta(p)
  BY DEF Publish
<1>3. counted[p] + Delta(p) <= pulses[p]
  <2>1. CASE Counters \in unset
    BY <1>1, <2>1 DEF CountsWithin, Delta
  <2>2. CASE Counters \notin unset
    <3>1. Live(Counters)
      BY <2>2, TrackerNumbers DEF Live
    <3> QED BY <2>2, <3>1 DEF CountsWithin, Delta, Pending
  <2> QED BY <2>1, <2>2
<1> QED BY <1>1, <1>2, <1>3 DEF CountsWithin

LEMMA CountsStep == TypeOK /\ TypeOK' /\ CountsWithin /\ [Next]_vars => CountsWithin'
<1> SUFFICES ASSUME TypeOK, TypeOK', CountsWithin, [Next]_vars PROVE CountsWithin'
  OBVIOUS
<1> DEFINE kept == UNCHANGED <<counter, polling, trackerVars, counted, pulses>>
<1>1. CASE kept
  BY <1>1 DEF CountsWithin, Live, Pending, trackerVars
<1>2. CASE UNCHANGED vars
  BY <1>1, <1>2 DEF vars, plcVars, historyVars
<1>3. ASSUME NEW q \in Puesto, Relay(q) PROVE CountsWithin'
  BY <1>1, <1>3 DEF Relay, historyVars
<1>4. ASSUME NEW q \in Puesto, Pulse(q) PROVE CountsWithin'
  <2>1. UNCHANGED <<polling, unset, last_count, counted>>
    BY <1>4 DEF Pulse, trackerVars
  <2>2. Live(Counters)' = Live(Counters)
    BY <2>1 DEF Live
  <2>3. CASE Live(Counters)
    <3>1. \A p \in Puesto : counted[p] + Pending(p)' <= pulses'[p]
      BY <1>4, <2>1, <2>3 DEF Pulse, CountsWithin, Pending, TypeOK
    <3>2. \A p \in Puesto : Pending(p)' \in Nat /\ counted[p] \in Nat /\ pulses'[p] \in Nat
      BY DEF Pending, TypeOK
    <3> QED BY <2>1, <3>1, <3>2 DEF CountsWithin
  <2>4. CASE ~Live(Counters)
    BY <1>4, <2>1, <2>2, <2>4 DEF Pulse, CountsWithin
  <2> QED BY <2>3, <2>4
<1>5. ASSUME NEW q \in Puesto, Wipe(q) PROVE CountsWithin'
  <2>1. UNCHANGED <<polling, unset, last_count, counted, pulses>>
    BY <1>5 DEF Wipe, trackerVars, historyVars
  <2>2. \A p \in Puesto : Pending(p)' = Pending(p) \/ Pending(p)' = 0
    BY <1>5, <2>1 DEF Wipe, Pending, TypeOK
  <2>3. \A p \in Puesto : counted[p] \in Nat
    BY DEF TypeOK
  <2> QED BY <2>1, <2>2, <2>3 DEF CountsWithin, Live
<1>6. CASE Pass
  BY <1>1, <1>6 DEF Pass, historyVars
<1>7. CASE Connect
  BY <1>7, TrackerNumbers DEF Connect, Resync, CountsWithin, Live
<1>8. CASE Disconnect
  BY <1>8 DEF Disconnect, CountsWithin, Live, historyVars
<1>9. CASE Tick
  <2>1. polling /\ UNCHANGED <<counter, pulses>> /\ Publish(Beat + 1, 0) /\ Observe(Beat)
    BY <1>9 DEF Tick, plcVars
  <2>2. \A p \in Puesto : counted'[p] <= pulses'[p]
    BY <2>1, PublishWithin DEF Beat
  <2>3. last_count' = counter'
    BY <2>1 DEF Observe, Beat, Counters
  <2>4. \A p \in Puesto : Pending(p)' = 0 /\ counted'[p] \in Nat
    BY <2>3 DEF Pending, TypeOK
  <2> QED BY <2>2, <2>4 DEF CountsWithin
<1>10. CASE TickFails
  <2>1. polling /\ ~polling' /\ UNCHANGED pulses
    BY <1>10 DEF TickFails, TickFailsAt
  <2>2. PICK stage \in Tracker, k \in 0..Later(N, 1) : Publish(stage, k)
    BY <1>10 DEF TickFails, TickFailsAt
  <2>3. stage \in Nat /\ k \in Nat
    BY TrackerNumbers, WorkerAssumption DEF Later
  <2> QED BY <2>1, <2>2, <2>3, PublishWithin DEF CountsWithin, Live
<1> QED BY <1>1, <1>2, <1>3, <1>4, <1>5, <1>6, <1>7, <1>8, <1>9, <1>10 DEF Next

\* In a connection no more stops are published than there were, whatever
\* resets, lost connections and ticks cut short do to the counters.
THEOREM CountsAreTrue == Spec => []NeverOvercounts
<1>1. Init => CountsWithin
  BY DEF Init, CountsWithin, Live
<1>2. CountsWithin => NeverOvercounts
  BY DEF CountsWithin, NeverOvercounts
<1> QED BY <1>1, <1>2, CountsStep, TypeCorrect, PTL DEF Spec
====
