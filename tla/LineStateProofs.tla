---- MODULE LineStateProofs ----
(***************************************************************************)
(* Proofs about LineState: with the line state, the worker is PlcWorker's; *)
(* stamps are fresh, and known while the PLC that drives the line answers. *)
(***************************************************************************)
EXTENDS LineState, PlcWorkerProofs

----
(* The worker is PlcWorker's. *)

LEMMA LineStepIsStep == [LineNext]_allVars => [Next]_vars
BY DEF LineNext, allVars, Next, LinePass, LineTick, LineTickFails, TickFails, WriteVelocity,
       LineConnect, LineDisconnect, OnDisconnect

\* The composition implements PlcWorker: all that is proved of the worker holds in it.
THEOREM LineImplementsWorker == LineSpec => Spec
<1>1. LineInit => Init
  BY DEF LineInit
<1>2. QED
  BY <1>1, LineStepIsStep, PTL DEF LineSpec, Spec

----
(* Type correctness. *)

LEMMA SetType ==
  ASSUME TypeOK, NEW s \in Parts, read \in Parts
  PROVE  SetRunning(s) \in Parts /\ SetVelocity(s) \in Parts /\ Values \in Parts
BY DEF TypeOK, SetRunning, SetVelocity, Values, Parts

LEMMA UnknownType == Unknown \in Parts
BY DEF Unknown, Parts

\* What the two kinds of tick do to the line state.
LEMMA Begins ==
  ASSUME LineTypeOK, LineTick \/ LineTickFails
  PROVE  /\ polling /\ ~handling /\ ~failing
         /\ line' = SetRunning(line) /\ read' = Values /\ before' = read
         /\ handling' \in BOOLEAN /\ failing' \in BOOLEAN
         /\ (polling' /\ ~failing' /\ handling') \/ (failing' /\ ~polling')
<1>1. CASE LineTick
  BY <1>1 DEF LineTick, Tick, Begin, LineTypeOK
<1>2. CASE LineTickFails
  BY <1>2 DEF LineTickFails, TickFailsAt, Begin, LineTypeOK
<1>3. QED
  BY <1>1, <1>2

LEMMA LineTypeStep == TypeOK /\ LineTypeOK /\ [LineNext]_allVars => LineTypeOK'
<1> SUFFICES ASSUME TypeOK, LineTypeOK, [LineNext]_allVars PROVE LineTypeOK'
  OBVIOUS
<1>1. CASE UNCHANGED lineVars /\ polling' = polling
  BY <1>1 DEF lineVars, LineTypeOK
<1>2. CASE UNCHANGED allVars \/ LinePass
  BY <1>1, <1>2 DEF allVars, vars, LinePass, Pass
<1>3. CASE LineConnect
  BY <1>3 DEF LineConnect, Connect, lineVars, LineTypeOK
<1>4. CASE LineTick \/ LineTickFails
  BY <1>4, Begins, SetType DEF LineTypeOK
<1>5. CASE WriteVelocity
  <2>1. line' = SetVelocity(line) /\ handling' = FALSE
        /\ UNCHANGED <<failing, read, before, polling>>
    BY <1>5 DEF WriteVelocity, vars
  <2>2. QED
    BY <2>1, SetType DEF LineTypeOK
<1>6. CASE LineDisconnect
  BY <1>6 DEF LineDisconnect, Disconnect, LineTypeOK
<1>7. CASE OnDisconnect
  BY <1>7, UnknownType DEF OnDisconnect, LineTypeOK, vars
<1>8. QED
  BY <1>2, <1>3, <1>4, <1>5, <1>6, <1>7 DEF LineNext

\* Type correctness of the line state and its histories.
THEOREM LineTypeCorrect == LineSpec => []LineTypeOK
<1>1. LineInit => LineTypeOK
  BY UnknownType DEF LineInit, LineTypeOK
<1>2. QED
  BY <1>1, LineTypeStep, LineImplementsWorker, TypeCorrect, PTL DEF LineSpec

----
(* Stamps are fresh. *)

\* A reading has one time; what the line state holds is the latest reading, or, until a
\* tick has written the speed and after one that never did, the speed of the one before.
FromReads ==
  /\ read.running_at = read.frec_at /\ before.running_at = before.frec_at
  /\ line.running # {} => line.running = read.running /\ line.running_at = read.running_at
  /\ line.frec # {} => \/ line.frec = read.frec /\ line.frec_at = read.frec_at
                       \/ /\ handling \/ failing
                          /\ line.frec = before.frec /\ line.frec_at = before.frec_at

LEMMA FromReadsStep ==
  TypeOK /\ LineTypeOK /\ FromReads /\ [LineNext]_allVars => FromReads'
<1> SUFFICES ASSUME TypeOK, LineTypeOK, FromReads, [LineNext]_allVars PROVE FromReads'
  OBVIOUS
<1>1. CASE UNCHANGED lineVars
  BY <1>1 DEF lineVars, FromReads
<1>2. CASE LineTick \/ LineTickFails
  <2>1. ~handling /\ ~failing /\ line' = SetRunning(line) /\ read' = Values /\ before' = read
        /\ (handling' \/ failing')
    BY <1>2, Begins
  <2>2. QED
    BY <2>1 DEF SetRunning, Values, LineTypeOK, Parts, FromReads
<1>3. CASE WriteVelocity
  BY <1>3 DEF WriteVelocity, SetVelocity, LineTypeOK, Parts, FromReads
<1>4. CASE LineDisconnect
  BY <1>4 DEF LineDisconnect, FromReads
<1>5. CASE OnDisconnect
  BY <1>5 DEF OnDisconnect, Unknown, FromReads
<1>6. QED
  BY <1>1, <1>2, <1>3, <1>4, <1>5 DEF LineNext, LinePass, LineConnect, allVars

LEMMA FromReadsFresh == LineTypeOK /\ FromReads => StampIsFresh
<1> SUFFICES ASSUME LineTypeOK, FromReads, NEW ts \in Clock
             PROVE  LET stamp == Snapshot(line, ts)
                        recent == {r \in {read, before} : ts - r.frec_at <= Grace}
                    IN /\ stamp.running \subseteq UNION {r.running : r \in recent}
                       /\ stamp.frec \subseteq UNION {r.frec : r \in recent}
  BY DEF StampIsFresh
<1> DEFINE stamp == Snapshot(line, ts)
           recent == {r \in {read, before} : ts - r.frec_at <= Grace}
<1>1. ASSUME NEW f \in stamp.frec PROVE \E r \in recent : f \in r.frec
  <2>1. f \in line.frec /\ ts - line.frec_at <= Grace
    BY <1>1 DEF Snapshot, Fresh
  <2>2. QED
    BY <2>1 DEF FromReads
<1>2. ASSUME NEW b \in stamp.running PROVE \E r \in recent : b \in r.running
  <2>1. b \in line.running /\ ts - line.running_at <= Grace
    BY <1>2 DEF Snapshot, Fresh
  <2>2. QED
    BY <2>1 DEF FromReads
<1>3. QED
  BY <1>1, <1>2

\* No stop is stamped with what was read before a gap, or longer ago than the grace
\* period, for every grace period and however late the threads are.
THEOREM StampsAreFresh == LineSpec => []StampIsFresh
<1>1. LineInit => FromReads
  BY DEF LineInit, Unknown, FromReads
<1>2. QED
  BY <1>1, FromReadsStep, FromReadsFresh, LineTypeCorrect, LineImplementsWorker, TypeCorrect,
     PTL DEF LineSpec

----
(* Stamps are known. *)

\* A tick that has begun has a speed to write, does not outlive its own end, and found a
\* speed at most the longest wait older than its status, if there was a tick before it.
Handled ==
  /\ now <= free_at
  /\ read.frec # {} /\ read.frec_at = line.running_at
  /\ before.frec # {} =>
       line.frec # {} /\ line.running_at <= line.frec_at + Poll + Slack

\* The line state of a polled PLC.
Seen ==
  /\ line.running # {} /\ Start <= line.running_at + Ahead
  /\ handling => Handled
  /\ ~handling => line.frec # {} /\ line.frec_at = line.running_at

\* A connection begins with no reading; once its trackers have observed, the status is
\* that of the latest tick, which is not longer ago than the coming one allows.
Known ==
  /\ ~failing /\ (~polling \/ unset = Tracker) => read.frec = {}
  /\ ~failing /\ ~polling => ~handling
  /\ polling /\ unset = Tracker => ~handling
  /\ polling /\ unset # Tracker => Seen

LEMMA KnownTick ==
  ASSUME Timely, TypeOK, LineTypeOK, Remembered, OnTime, Known, LineTick
  PROVE  Known'
<1>0. read' = Values
  BY Begins
<1>1. /\ Tick /\ polling /\ polling' /\ ~handling /\ handling' /\ ~failing
      /\ line' = SetRunning(line) /\ before' = read
  BY Begins DEF LineTick, Tick
<1>2. /\ line'.running = {running} /\ line'.running_at = now
      /\ line'.frec = line.frec /\ line'.frec_at = line.frec_at
  BY <1>1 DEF SetRunning, LineTypeOK, Parts
<1>3. Start' <= now + Ahead
  BY <1>1, TickOnTime
<1>4. PICK stall \in Stalls : free_at' = now + stall /\ now' = now
  BY <1>1 DEF Tick, Reschedule
<1>5. /\ now \in Nat /\ Start \in Nat /\ line.running_at \in Nat /\ line.frec_at \in Nat
      /\ stall \in Nat
  BY StartType, AheadBound DEF TypeOK, LineTypeOK, Parts
<1>6. Handled'
  <2>1. now' <= free_at'
    BY <1>4, <1>5
  <2>3. read'.frec # {} /\ read'.frec_at = now
    BY <1>0 DEF Values
  <2>2. ASSUME before'.frec # {}
        PROVE  line'.frec # {} /\ line'.running_at <= line'.frec_at + Poll + Slack
    <3>1. unset # Tracker
      BY <1>1, <2>2 DEF Known
    <3>2. line.frec # {} /\ line.frec_at = line.running_at /\ Start <= line.running_at + Ahead
      BY <1>1, <3>1 DEF Known, Seen
    <3>3. now <= Start + Jitter
      BY <1>1 DEF OnTime
    <3>4. QED
      BY <1>2, <1>5, <3>2, <3>3, WorkerAssumption DEF Ahead
  <2>4. QED
    BY <1>2, <2>1, <2>2, <2>3 DEF Handled
<1>7. Seen'
  BY <1>1, <1>2, <1>3, <1>6 DEF Seen
<1>8. unset' = {} /\ Tracker # {}
  <2>1. unset' = {t \in unset : t > Beat}
    BY <1>1 DEF Tick, Observe
  <2>2. \A t \in unset : ~(t > Beat)
    BY DEF TypeOK, Tracker, Status, Counters, Beat
  <2>3. Beat \in Tracker
    BY DEF Tracker, Status, Counters, Beat
  <2>4. QED
    BY <2>1, <2>2, <2>3
<1>9. QED
  BY <1>1, <1>7, <1>8 DEF Known

LEMMA KnownStep ==
  ASSUME Timely
  PROVE  /\ TypeOK /\ LineTypeOK /\ Remembered /\ OnTime /\ Known /\ [LineNext]_allVars
         => Known'
<1> SUFFICES ASSUME TypeOK, LineTypeOK, Remembered, OnTime, Known, [LineNext]_allVars
             PROVE  Known'
  OBVIOUS
<1>1. CASE UNCHANGED allVars
  BY <1>1 DEF allVars, vars, lineVars, clockVars, trackerVars, Known, Seen, Handled, Start
<1>2. CASE LinePass
  <2>1. UNCHANGED <<line, handling, failing, read, before, polling, unset, next_tick, free_at>>
    BY <1>2 DEF LinePass, Pass, lineVars, trackerVars
  <2>2. handling /\ polling => now' <= free_at'
    <3>1. now \in Nat /\ free_at \in Nat /\ now' = now + 1
      BY <1>2 DEF LinePass, Pass, TypeOK
    <3>2. QED
      BY <1>2, <2>1, <3>1 DEF LinePass
  <2>3. QED
    BY <2>1, <2>2 DEF Known, Seen, Handled, Start
<1>3. CASE LineConnect
  BY <1>3 DEF LineConnect, Connect, Resync, lineVars, Known
<1>4. CASE LineTick
  BY <1>4, KnownTick
<1>5. CASE LineTickFails
  BY <1>5, Begins DEF LineTickFails, TickFailsAt, Known
<1>6. CASE WriteVelocity
  <2>1. /\ handling /\ ~handling' /\ line' = SetVelocity(line)
        /\ UNCHANGED <<failing, read, before, polling, unset, next_tick, free_at>>
    BY <1>6 DEF WriteVelocity, vars, trackerVars, clockVars
  <2>2. QED
    BY <2>1 DEF SetVelocity, LineTypeOK, Parts, Known, Seen, Handled, Start
<1>7. CASE LineDisconnect
  BY <1>7 DEF LineDisconnect, Disconnect, Known
<1>8. CASE OnDisconnect
  BY <1>8 DEF OnDisconnect, LineTypeOK, Unknown, vars, Known
<1>9. QED
  BY <1>1, <1>2, <1>3, <1>4, <1>5, <1>6, <1>7, <1>8 DEF LineNext

LEMMA KnownIsKnown ==
  TypeOK /\ LineTypeOK /\ OnTime /\ Known => StampIsKnown
<1> SUFFICES ASSUME TypeOK, LineTypeOK, OnTime, Known, Timely, Live(Speed), NEW ts \in Clock
             PROVE  LET stamp == Snapshot(line, ts)
                    IN /\ Grace >= Poll + Slack => stamp.running # {}
                       /\ Grace >= 2 * (Poll + Slack) /\ ~FirstTick => stamp.frec # {}
  BY DEF StampIsKnown
<1>1. polling /\ unset # Tracker /\ Seen /\ now <= Start + Jitter
  BY DEF Live, OnTime, Known
<1>2. /\ now \in Nat /\ Start \in Nat /\ line.running_at \in Nat /\ line.frec_at \in Nat
      /\ free_at \in Nat
  BY StartType DEF TypeOK, LineTypeOK, Parts
<1>3. ts \in Int /\ ts <= now
  BY <1>2, LineAssumption DEF Clock, Later
<1>4. now - line.running_at <= Poll + Slack
  BY <1>1, <1>2, WorkerAssumption DEF Seen, Ahead
<1>5. ASSUME Grace >= Poll + Slack PROVE Snapshot(line, ts).running # {}
  BY <1>1, <1>2, <1>3, <1>4, <1>5, WorkerAssumption, LineAssumption DEF Seen, Snapshot, Fresh
<1>6. ASSUME Grace >= 2 * (Poll + Slack), ~FirstTick PROVE Snapshot(line, ts).frec # {}
  <2>1. line.frec # {} /\ now - line.frec_at <= 2 * (Poll + Slack)
    BY <1>1, <1>2, <1>4, <1>6, WorkerAssumption DEF Seen, Handled, FirstTick
  <2>2. ts - line.frec_at <= Grace
    BY <1>2, <1>3, <1>6, <2>1, WorkerAssumption, LineAssumption
  <2>3. QED
    BY <2>1, <2>2 DEF Snapshot, Fresh
<1>7. QED
  BY <1>5, <1>6

\* When reads and publishing are timely, a grace period as long as the longest wait between
\* two reads leaves no stop without status while the PLC that drives the line answers, and
\* one twice as long none without speed.
THEOREM StampsAreKnown == LineSpec => []StampIsKnown
<1>1. CASE Timely
  <2>1. LineInit => Known
    BY DEF LineInit, Init, Unknown, Known
  <2>2. TypeOK /\ LineTypeOK /\ Remembered /\ OnTime /\ Known /\ [LineNext]_allVars => Known'
    BY <1>1, KnownStep
  <2>3. Spec => []OnTime
    BY <1>1, OnTimeHolds
  <2>4. QED
    BY <2>1, <2>2, <2>3, KnownIsKnown, RememberedHolds, LineTypeCorrect,
       LineImplementsWorker, TypeCorrect, PTL DEF LineSpec
<1>2. CASE ~Timely
  <2>1. StampIsKnown
    BY <1>2 DEF StampIsKnown
  <2>2. QED
    BY <2>1, PTL
<1>3. QED
  BY <1>1, <1>2
====
