---- MODULE SupervisorProofs ----
(***************************************************************************)
(* Proofs about Config and Supervisor: the cap of the duration queries     *)
(* clears every live segment, and nothing is lost while Redis answers; for *)
(* every environment, table, buffer size and number of failures.           *)
(***************************************************************************)
EXTENDS Supervisor, TLAPS

----
(* The configuration. *)

\* config.py:218: the cap clears a live segment, which is the re-assert rounded up to a
\* whole number of polls; for all accepted intervals.
THEOREM CapClearsSegment ==
  ASSUME NEW e \in Environment, Accepts(e), Numbers(e), NEW polls \in Nat, Rounds(e, polls)
  PROVE  LiveSegment(e, polls) < MaxSegment(e)
<1>1. Poll(e) \in Int /\ Reassert(e) \in Int
  <2>1. \A name \in Name : Given(e, name).n \in Int
    BY DEF Environment, Raw, Given, Name, Legacy
  <2>2. QED
    BY <2>1 DEF Poll, Reassert, Number, Name, Real, Unit
<1>2. polls * Poll(e) = (polls - 1) * Poll(e) + Poll(e)
  BY <1>1
<1>3. (polls - 1) * Poll(e) \in Int
  BY <1>1
<1>4. QED
  BY <1>1, <1>2, <1>3 DEF Rounds, LiveSegment, MaxSegment, Unit

----
(* Type correctness. *)

LEMMA ExitType ==
  ASSUME TypeOK, NEW why \in {"0", "3", "killed"}, Exit(why), faults' \in 0..MaxFaults
  PROVE  TypeOK'
<1>1. worker' \in [Plc -> {"none", "reading", "hung", "done"}]
  BY DEF Exit, Idle
<1>2. lost' \in Nat /\ buffer' \in 0..MaxBuffer
  BY SupervisorAssumption DEF Exit, TypeOK
<1>3. QED
  BY <1>1, <1>2 DEF Exit, TypeOK, hostVars

LEMMA TypeStep == TypeOK /\ [Next]_vars => TypeOK'
<1> SUFFICES ASSUME TypeOK, [Next]_vars PROVE TypeOK'
  OBVIOUS
<1> USE SupervisorAssumption
<1> USE DEF hostVars, mainVars, threadVars, eventVars, faultVars
<1>1. CASE UNCHANGED vars
  BY <1>1 DEF TypeOK, vars
<1>2. CASE Start \/ BuildStream \/ Close \/ JoinWorkers
  <2>1. CASE Start
    BY <2>1 DEF TypeOK, Start
  <2>2. CASE BuildStream
    BY <2>2 DEF TypeOK, BuildStream
  <2>3. CASE Close \/ JoinWorkers
    BY <2>3 DEF TypeOK, Close, JoinWorkers
  <2>4. QED
    BY <1>2, <2>1, <2>2, <2>3
<1>3. CASE GiveUp
  BY <1>3, ExitType DEF GiveUp, TypeOK
<1>4. CASE LoadTopology
  <2>1. CASE Spawn
    BY <1>4, <2>1 DEF TypeOK, Spawn
  <2>2. CASE \E why \in {"0", "3"} : Exit(why) /\ UNCHANGED faults
    BY <2>2, ExitType DEF TypeOK
  <2>3. QED
    BY <1>4, <2>1, <2>2 DEF LoadTopology
<1>5. ASSUME NEW w \in Plc, Publish(w) \/ PublishThrottled(w) PROVE TypeOK'
  BY <1>5 DEF TypeOK, Publish, PublishThrottled, Hold
<1>6. ASSUME NEW w \in Plc, WorkerEnds(w) \/ WorkerReturns(w) PROVE TypeOK'
  BY <1>6 DEF TypeOK, WorkerEnds, WorkerReturns
<1>7. ASSUME NEW w \in Plc, WorkerHangs(w) PROVE TypeOK'
  BY <1>7 DEF TypeOK, WorkerHangs, Fails
<1>8. CASE WriterStores
  BY <1>8 DEF TypeOK, WriterStores
<1>9. CASE WriterLeaves
  BY <1>9 DEF TypeOK, WriterLeaves
<1>10. CASE WriterDies
  BY <1>10 DEF TypeOK, WriterDies, Fails
<1>11. CASE Supervise \/ Stop
  <2>1. shutdown' \in BOOLEAN
    BY <1>11 DEF TypeOK, Supervise, Stop
  <2>2. ordered' \in BOOLEAN
    BY <1>11 DEF TypeOK, Supervise, Stop
  <2>3. UNCHANGED <<env, table, redis_up, db_up, phase, code, threadVars, eventVars, faultVars>>
    BY <1>11 DEF Supervise, Stop
  <2>4. QED
    BY <2>1, <2>2, <2>3 DEF TypeOK
<1>12. CASE JoinWriter
  BY <1>12, ExitType DEF JoinWriter, TypeOK
<1>13. CASE Kill
  <2>1. faults' \in 0..MaxFaults
    BY <1>13 DEF Kill, Fails, TypeOK
  <2>2. QED
    BY <1>13, <2>1, ExitType DEF Kill
<1>14. CASE Redis \/ Db
  <2>1. redis_up' \in BOOLEAN /\ db_up' \in BOOLEAN /\ outage' \in BOOLEAN
    BY <1>14 DEF TypeOK, Redis, Db
  <2>2. faults' \in 0..MaxFaults
    BY <1>14 DEF TypeOK, Redis, Db, Fails
  <2>3. UNCHANGED <<env, table, ordered, mainVars, threadVars, eventVars>>
    BY <1>14 DEF Redis, Db
  <2>4. QED
    BY <2>1, <2>2, <2>3 DEF TypeOK
<1>15. QED
  BY <1>1, <1>2, <1>3, <1>4, <1>5, <1>6, <1>7, <1>8, <1>9, <1>10, <1>11, <1>12, <1>13, <1>14
     DEF Next

\* Type correctness of the process, its threads and the events.
THEOREM TypeCorrect == Spec => []TypeOK
<1>1. ASSUME Init PROVE TypeOK
  <2>1. worker \in [Plc -> {"none", "reading", "hung", "done"}]
    BY <1>1 DEF Init, Idle
  <2>2. buffer \in 0..MaxBuffer /\ published \in 0..MaxPublished /\ faults \in 0..MaxFaults
    BY <1>1, SupervisorAssumption DEF Init
  <2>3. QED
    BY <1>1, <2>1, <2>2 DEF Init, TypeOK
<1>2. QED
  BY <1>1, TypeStep, PTL DEF Spec

----
(* The inductive invariant. *)

\* Every event is somewhere, and before an outage nothing is buffered.
Accounted ==
  /\ published = stored + stream + buffer + lost
  /\ ~outage => redis_up /\ buffer = 0 /\ lost = 0

LEMMA ExitKeeps ==
  ASSUME TypeOK, Accounted, NEW why, Exit(why)
  PROVE  Accounted'
BY DEF Exit, hostVars, Accounted, TypeOK

LEMMA InvStep == TypeOK /\ Accounted /\ [Next]_vars => Accounted'
<1> SUFFICES ASSUME TypeOK, Accounted, [Next]_vars PROVE Accounted'
  OBVIOUS
<1> USE DEF hostVars, mainVars, threadVars, eventVars, faultVars
<1>1. CASE UNCHANGED vars
  BY <1>1 DEF Accounted, vars
<1>2. CASE Start \/ BuildStream \/ Close \/ JoinWorkers
  BY <1>2 DEF Accounted, Start, BuildStream, Close, JoinWorkers
<1>3. CASE GiveUp \/ JoinWriter \/ Kill
  BY <1>3, ExitKeeps DEF GiveUp, JoinWriter, Kill
<1>4. CASE LoadTopology
  <2>1. CASE Spawn
    BY <2>1 DEF Spawn, Accounted
  <2>2. CASE \E why \in {"0", "3"} : Exit(why)
    BY <2>2, ExitKeeps
  <2>3. QED
    BY <1>4, <2>1, <2>2 DEF LoadTopology
<1>5. ASSUME NEW w \in Plc, Publish(w) \/ PublishThrottled(w) PROVE Accounted'
  <2>1. UNCHANGED <<redis_up, outage, stored>> /\ published' = published + 1
    BY <1>5 DEF Publish, PublishThrottled
  <2>2. \/ redis_up /\ stream' = stream + buffer + 1 /\ buffer' = 0 /\ lost' = lost
        \/ ~redis_up /\ Hold /\ stream' = stream
        \/ buffer > 0 /\ Hold /\ stream' = stream
    BY <1>5 DEF Publish, PublishThrottled
  <2>3. QED
    BY <2>1, <2>2 DEF Hold, Accounted, TypeOK
<1>6. ASSUME NEW w \in Plc, WorkerEnds(w) \/ WorkerReturns(w) \/ WorkerHangs(w)
      PROVE Accounted'
  BY <1>6 DEF Accounted, WorkerEnds, WorkerReturns, WorkerHangs
<1>7. CASE WriterStores
  <2>1. PICK n \in 1..stream : stream' = stream - n /\ stored' = stored + n
    BY <1>7 DEF WriterStores
  <2>2. QED
    BY <1>7, <2>1 DEF WriterStores, Accounted, TypeOK
<1>8. CASE WriterLeaves \/ WriterDies \/ Supervise \/ Stop
  BY <1>8 DEF WriterLeaves, WriterDies, Supervise, Stop, Accounted
<1>9. CASE Redis \/ Db
  BY <1>9 DEF Redis, Db, Accounted
<1>10. QED
  BY <1>1, <1>2, <1>3, <1>4, <1>5, <1>6, <1>7, <1>8, <1>9 DEF Next

LEMMA InvHolds == Spec => []Accounted
<1>1. Init => Accounted
  BY DEF Init, Accounted
<1>2. QED
  BY <1>1, InvStep, TypeCorrect, PTL DEF Spec

----
(* What follows. *)

\* No stop, death or kill loses an event while Redis answers, and every event is
\* accounted for.
THEOREM OnlyOutagesLose == Spec => []LostOnlyInOutage
<1>1. Accounted => LostOnlyInOutage
  BY DEF Accounted, LostOnlyInOutage
<1>2. QED
  BY <1>1, InvHolds, PTL
====
