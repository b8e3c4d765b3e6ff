---- MODULE LiveMirrorProofs ----
(***************************************************************************)
(* Proofs about LiveMirror: what the mirror shows is shown in time, and an *)
(* exact start is true, for every set of PLCs and stations, every delay    *)
(* and every number of failures and flips.                                 *)
(***************************************************************************)
EXTENDS LiveMirror, FiniteSetTheorems, TLAPS

----
(* Type correctness. *)

LEMMA Bounds ==
  /\ Larger(Ttl, Stale) = Away /\ Away \in Nat /\ Away >= Ttl /\ Away >= Stale
  /\ Long \in Nat /\ Long > Retry + Reassert
  /\ Long > Retry + LiveEvery /\ Long > Retry + MainEvery
BY MirrorAssumption DEF Away, Long, Larger

LEMMA ExecuteType ==
  ASSUME TypeOK, NEW n, NEW k, Execute(n, k)
  PROVE  blocked' \in 0..Retry /\ calm' \in 0..Long /\ faults' \in 0..MaxFaults
BY MirrorAssumption, Bounds DEF TypeOK, Execute, Fails

LEMMA FlushType ==
  ASSUME TypeOK, NEW n, NEW k, Flush(n, k)
  PROVE  blocked' \in 0..Retry /\ calm' \in 0..Long /\ faults' \in 0..MaxFaults
BY ExecuteType DEF TypeOK, Flush, breakerVars

LEMMA TypeInit == Init => TypeOK
<1> SUFFICES ASSUME Init PROVE TypeOK
  OBVIOUS
<1>1. Absent \in Entry /\ NoKey \in Key
  BY MirrorAssumption DEF Absent, Entry, NoKey, Key
<1>2. /\ held \in [Puesto -> BOOLEAN] /\ flips \in [Puesto -> Nat] /\ moving \in BOOLEAN
      /\ last_value \in [Puesto -> BOOLEAN] /\ due \in [Puesto -> 0..Reassert]
      /\ last_moving \in [Variador -> BOOLEAN] /\ live_due \in [Variador -> 0..LiveEvery]
      /\ main_due \in 0..MainEvery /\ blocked \in 0..Retry /\ faults \in 0..MaxFaults
  <2>1. /\ held \in [Puesto -> BOOLEAN] /\ flips \in [Puesto -> Nat] /\ moving \in BOOLEAN
    BY DEF Init
  <2>2. last_value \in [Puesto -> BOOLEAN]
    BY DEF Init
  <2>3. due \in [Puesto -> 0..Reassert] /\ live_due \in [Variador -> 0..LiveEvery]
    BY MirrorAssumption DEF Init
  <2>4. last_moving \in [Variador -> BOOLEAN]
    BY DEF Init
  <2>5. main_due \in 0..MainEvery /\ blocked \in 0..Retry /\ faults \in 0..MaxFaults
    BY MirrorAssumption DEF Init
  <2>6. QED
    BY <2>1, <2>2, <2>3, <2>4, <2>5
<1>3. /\ puestos \in [Puesto -> Entry] /\ puestos_key \in [Puesto -> Entry]
      /\ plc_key \in [Plc -> Key] /\ daemon_key \in Key
      /\ noria_key \in [line : Lines, age : 0..Stale]
  BY <1>1, MirrorAssumption DEF Init, Lines
<1>4. /\ calm \in 0..Long /\ gone \in [Plc -> 0..Away] /\ turned \in BOOLEAN
      /\ seen \in [Puesto -> Nat] /\ seen_moving \in [Variador -> BOOLEAN]
      /\ deceived \subseteq Puesto
  <2>1. calm \in 0..Long /\ gone \in [Plc -> 0..Away]
    BY Bounds DEF Init
  <2>2. turned \in BOOLEAN /\ seen \in [Puesto -> Nat]
    BY DEF Init
  <2>3. seen_moving \in [Variador -> BOOLEAN]
    BY DEF Init
  <2>4. QED
    BY <2>1, <2>2, <2>3 DEF Init
<1>5. QED
  BY <1>2, <1>3, <1>4 DEF Init, TypeOK

LEMMA ElapseType == \A key \in Key : Elapse(key) \in Key
BY MirrorAssumption DEF Elapse, Key, NoKey

LEMMA PassType == TypeOK /\ Pass => TypeOK'
<1> SUFFICES ASSUME TypeOK, Pass PROVE TypeOK'
  OBVIOUS
<1>1. moving' \in BOOLEAN
  BY DEF TypeOK, Pass, Line
<1>2. /\ main_due' \in 0..MainEvery /\ blocked' \in 0..Retry
      /\ due' \in [Puesto -> 0..Reassert] /\ live_due' \in [Variador -> 0..LiveEvery]
  <2>1. \A most \in Nat : \A i \in 0..most : Dec(i) \in 0..most
    BY DEF Dec
  <2>2. main_due' \in 0..MainEvery /\ blocked' \in 0..Retry
    BY <2>1, MirrorAssumption DEF TypeOK, Pass
  <2>3. due' \in [Puesto -> 0..Reassert]
    BY <2>1, MirrorAssumption DEF TypeOK, Pass
  <2>4. live_due' \in [Variador -> 0..LiveEvery]
    BY <2>1, MirrorAssumption DEF TypeOK, Pass
  <2>5. QED
    BY <2>2, <2>3, <2>4
<1>3. plc_key' \in [Plc -> Key] /\ daemon_key' \in Key
  BY ElapseType DEF TypeOK, Pass
<1>4. noria_key' \in [line : Lines, age : 0..Stale]
  <2>1. Inc(noria_key.age, Stale) \in 0..Stale
    BY MirrorAssumption DEF TypeOK, Inc
  <2>2. noria_key' = [noria_key EXCEPT !.age = Inc(noria_key.age, Stale)]
    BY DEF Pass
  <2>3. QED
    BY <2>1, <2>2 DEF TypeOK
<1>5. calm' \in 0..Long /\ gone' \in [Plc -> 0..Away]
  BY Bounds DEF TypeOK, Pass, Inc
<1>6. QED
  BY <1>1, <1>2, <1>3, <1>4, <1>5 DEF TypeOK, Pass

LEMMA SayDownType ==
  ASSUME TypeOK, NEW w \in Plc, SayDown(w)
  PROVE  /\ blocked' \in 0..Retry /\ calm' \in 0..Long /\ faults' \in 0..MaxFaults
         /\ plc_key' \in [Plc -> Key] /\ noria_key' \in [line : Lines, age : 0..Stale]
<1>1. /\ plc_key' = plc_key \/ plc_key' = [plc_key EXCEPT ![w] = [up |-> FALSE, left |-> Ttl]]
      /\ noria_key' = noria_key \/ noria_key' = [line |-> "unknown", age |-> 0]
  BY DEF SayDown
<1>2. plc_key' \in [Plc -> Key] /\ noria_key' \in [line : Lines, age : 0..Stale]
  <2>1. [up |-> FALSE, left |-> Ttl] \in Key
    BY MirrorAssumption DEF Key
  <2>2. [line |-> "unknown", age |-> 0] \in [line : Lines, age : 0..Stale]
    BY MirrorAssumption DEF Lines
  <2>3. QED
    BY <1>1, <2>1, <2>2 DEF TypeOK
<1>3. blocked' \in 0..Retry /\ calm' \in 0..Long /\ faults' \in 0..MaxFaults
  BY FlushType DEF SayDown
<1>4. QED
  BY <1>2, <1>3

LEMMA AdvanceType == ASSUME TypeOK, NEW p \in Puesto PROVE Advance(p) \in Entry
<1>1. 2 * flips[p] \in Nat /\ 2 * flips[p] + 1 \in Nat
  BY DEF TypeOK
<1>2. Instant(p) \in Nat
  BY <1>1 DEF Instant
<1>3. (Ip[p] \notin unset /\ held[p] # last_value[p]) \in BOOLEAN
  OBVIOUS
<1>4. held[p] \in BOOLEAN /\ puestos[p] \in Entry
  BY DEF TypeOK
<1>5. QED
  BY <1>2, <1>3, <1>4 DEF Advance, Entry

LEMMA TickType == ASSUME TypeOK, NEW w \in Plc, Tick(w) PROVE TypeOK'
<1>1. /\ ticked' \subseteq connected' /\ unset' \subseteq Plc
      /\ connected' \subseteq Plc /\ (~alive' => connected' = {})
  BY DEF Tick, TypeOK
<1>2. last_value' \in [Puesto -> BOOLEAN] /\ due' \in [Puesto -> 0..Reassert]
  BY MirrorAssumption DEF Tick, TypeOK
<1>3. last_moving' \in [Variador -> BOOLEAN] /\ live_due' \in [Variador -> 0..LiveEvery]
  BY MirrorAssumption DEF Tick, TypeOK
<1>4. puestos' \in [Puesto -> Entry] /\ puestos_key' \in [Puesto -> Entry]
  BY AdvanceType DEF Tick, TypeOK
<1>5. plc_key' \in [Plc -> Key] /\ noria_key' \in [line : Lines, age : 0..Stale]
  <2>1. /\ plc_key' = plc_key \/ plc_key' = [plc_key EXCEPT ![w] = [up |-> TRUE, left |-> Ttl]]
        /\ \/ noria_key' = noria_key
           \/ noria_key' = [line |-> "running", age |-> 0]
           \/ noria_key' = [line |-> "stopped", age |-> 0]
    BY DEF Tick
  <2>2. [up |-> TRUE, left |-> Ttl] \in Key
    BY MirrorAssumption DEF Key
  <2>3. \A l \in {"running", "stopped"} :
          [line |-> l, age |-> 0] \in [line : Lines, age : 0..Stale]
    BY MirrorAssumption DEF Lines
  <2>4. QED
    BY <2>1, <2>2, <2>3 DEF TypeOK
<1>6. blocked' \in 0..Retry /\ calm' \in 0..Long /\ faults' \in 0..MaxFaults
  BY FlushType DEF Tick
<1>7. gone' \in [Plc -> 0..Away] /\ seen' \in [Puesto -> Nat] /\ deceived' \subseteq Puesto
  BY Bounds DEF Tick, TypeOK
<1>8. seen_moving' \in [Variador -> BOOLEAN]
  BY DEF Tick, TypeOK
<1>9. /\ held' \in [Puesto -> BOOLEAN] /\ flips' \in [Puesto -> Nat] /\ moving' \in BOOLEAN
      /\ alive' \in BOOLEAN /\ known' \subseteq Puesto /\ main_due' \in 0..MainEvery
      /\ daemon_key' \in Key /\ turned' \in BOOLEAN
  BY DEF Tick, TypeOK, plantVars
<1>10. QED
  BY <1>1, <1>2, <1>3, <1>4, <1>5, <1>6, <1>7, <1>8, <1>9 DEF TypeOK

LEMMA SayDaemonType ==
  ASSUME TypeOK, NEW up \in BOOLEAN, SayDaemon(up)
  PROVE  /\ blocked' \in 0..Retry /\ calm' \in 0..Long /\ faults' \in 0..MaxFaults
         /\ daemon_key' \in Key
BY FlushType, MirrorAssumption DEF SayDaemon, TypeOK, Key

\* What a process that ends leaves has its type.
LEMMA EndsType ==
  ASSUME TypeOK, Ends,
         blocked' \in 0..Retry, calm' \in 0..Long, faults' \in 0..MaxFaults, daemon_key' \in Key
  PROVE  TypeOK'
<1>1. Absent \in Entry
  BY DEF Absent, Entry
<1>2. /\ last_value' \in [Puesto -> BOOLEAN] /\ due' \in [Puesto -> 0..Reassert]
      /\ last_moving' \in [Variador -> BOOLEAN] /\ live_due' \in [Variador -> 0..LiveEvery]
      /\ main_due' \in 0..MainEvery /\ puestos' \in [Puesto -> Entry]
  BY <1>1, MirrorAssumption DEF Ends, ForgetAll
<1>3. /\ known' \subseteq Puesto /\ unset' \subseteq Plc /\ deceived' \subseteq Puesto
      /\ alive' = FALSE /\ connected' = {} /\ ticked' = {} /\ turned' = FALSE
  BY DEF Ends, ForgetAll, TypeOK
<1>4. QED
  BY <1>2, <1>3 DEF Ends, ForgetAll, TypeOK, plantVars

LEMMA SeededType ==
  ASSUME TypeOK, NEW stations PROVE Seeded(stations) \in [Puesto -> Entry]
BY DEF Seeded, TypeOK, Absent, Entry

LEMMA StartType == TypeOK /\ Start => TypeOK'
<1> SUFFICES ASSUME TypeOK, Start PROVE TypeOK'
  OBVIOUS
<1>1. known' \subseteq Puesto
  BY MirrorAssumption DEF Start
<1>2. puestos' \in [Puesto -> Entry] /\ puestos_key' \in [Puesto -> Entry]
  BY SeededType DEF Start, TypeOK
<1>3. blocked' \in 0..Retry /\ calm' \in 0..Long /\ faults' \in 0..MaxFaults
  <2>1. ASSUME NEW n, NEW k, Execute(n, k)
        PROVE  blocked' \in 0..Retry /\ calm' \in 0..Long /\ faults' \in 0..MaxFaults
    BY <2>1, ExecuteType
  <2>2. CASE Fails("redis") /\ blocked' = 0 /\ UNCHANGED calm
    BY <2>2, MirrorAssumption DEF Fails, TypeOK
  <2>3. QED
    BY <2>1, <2>2 DEF Start
<1>4. QED
  BY <1>1, <1>2, <1>3, MirrorAssumption DEF Start, TypeOK, plantVars, workerVars

LEMMA TypeStep == TypeOK /\ [Next]_vars => TypeOK'
<1> SUFFICES ASSUME TypeOK, [Next]_vars PROVE TypeOK'
  OBVIOUS
<1>1. CASE UNCHANGED vars
  BY <1>1 DEF TypeOK, vars, plantVars, workerVars, redisVars, breakerVars
<1>2. ASSUME NEW p \in Puesto, Relay(p) PROVE TypeOK'
  BY <1>2 DEF Relay, TypeOK, workerVars, redisVars, breakerVars
<1>3. CASE Pass
  BY <1>3, PassType
<1>4. ASSUME NEW w \in Plc, Connect(w) PROVE TypeOK'
  BY <1>4 DEF Connect, TypeOK, plantVars, redisVars, breakerVars
<1>5. ASSUME NEW w \in Plc, Disconnect(w) PROVE TypeOK'
  <2>1. SayDown(w)
    BY <1>5 DEF Disconnect
  <2>2. QED
    BY <1>5, <2>1, SayDownType DEF Disconnect, TypeOK, plantVars
<1>6. ASSUME NEW w \in Plc, Tick(w) PROVE TypeOK'
  BY <1>6, TickType
<1>7. CASE DaemonAlive
  <2>1. /\ blocked' \in 0..Retry /\ calm' \in 0..Long /\ faults' \in 0..MaxFaults
        /\ daemon_key' \in Key
    BY <1>7, SayDaemonType DEF DaemonAlive
  <2>2. QED
    BY <1>7, <2>1, MirrorAssumption DEF DaemonAlive, TypeOK, plantVars, workerVars
<1>8. CASE Crash
  BY <1>8, EndsType, MirrorAssumption DEF Crash, Fails, TypeOK
<1>9. CASE Shutdown
  BY <1>9, EndsType, SayDaemonType DEF Shutdown
<1>10. CASE Start
  BY <1>10, StartType
<1>11. QED
  BY <1>1, <1>2, <1>3, <1>4, <1>5, <1>6, <1>7, <1>8, <1>9, <1>10 DEF Next

\* Every variable has its type: nobody polls without a process, and a worker that has
\* ticked is connected.
THEOREM TypeCorrect == Spec => []TypeOK
BY TypeInit, TypeStep, PTL DEF Spec

----
(* The breaker: while it is open, a write failed less than Retry ago. *)

Breaker == blocked = 0 \/ calm + blocked <= Retry

LEMMA ExecuteOutcome ==
  ASSUME TypeOK, NEW n, NEW k, Execute(n, k)
  PROVE  Breaker' /\ ((calm' = calm /\ k = n) \/ calm' < Retry)
BY MirrorAssumption, TimingAssumption DEF TypeOK, Execute, Fails, Breaker

\* A write goes through whole, or one failed within the last Retry.
LEMMA FlushOutcome ==
  ASSUME TypeOK, Breaker, NEW n, NEW k, Flush(n, k)
  PROVE  Breaker' /\ ((calm' = calm /\ k = n) \/ calm' < Retry)
<1>1. CASE blocked > 0 /\ UNCHANGED breakerVars
  BY <1>1, MirrorAssumption DEF TypeOK, Breaker, breakerVars
<1>2. CASE blocked = 0 /\ Execute(n, k)
  BY <1>2, ExecuteOutcome
<1>3. QED
  BY <1>1, <1>2 DEF Flush

LEMMA PassCalm ==
  ASSUME TypeOK, Pass
  PROVE  calm' = calm + 1 \/ (calm = Long /\ calm' = calm)
BY Bounds DEF TypeOK, Pass, Inc

\* What each operation does to the breaker and to the time since a failure.
LEMMA CalmStep ==
  ASSUME TypeOK, Breaker, [Next]_vars, ~Pass
  PROVE  Breaker' /\ (calm' = calm \/ calm' < Retry)
<1>1. CASE UNCHANGED breakerVars
  BY <1>1 DEF breakerVars, Breaker
<1>2. CASE UNCHANGED vars \/ (\E p \in Puesto : Relay(p)) \/ (\E w \in Plc : Connect(w))
  BY <1>1, <1>2 DEF vars, Relay, Connect
<1>3. ASSUME NEW w \in Plc, Disconnect(w) PROVE Breaker' /\ (calm' = calm \/ calm' < Retry)
  BY <1>3, FlushOutcome DEF Disconnect, SayDown
<1>4. ASSUME NEW w \in Plc, Tick(w) PROVE Breaker' /\ (calm' = calm \/ calm' < Retry)
  BY <1>4, FlushOutcome DEF Tick
<1>5. CASE DaemonAlive \/ Shutdown
  BY <1>5, FlushOutcome DEF DaemonAlive, Shutdown, SayDaemon
<1>6. CASE Crash
  BY <1>6 DEF Crash, Breaker
<1>7. CASE Start
  BY <1>7, ExecuteOutcome DEF Start, Breaker
<1>8. QED
  BY <1>2, <1>3, <1>4, <1>5, <1>6, <1>7 DEF Next

LEMMA BreakerInit == Init => Breaker
BY DEF Init, Breaker

LEMMA BreakerStep == TypeOK /\ Breaker /\ [Next]_vars => Breaker'
<1> SUFFICES ASSUME TypeOK, Breaker, [Next]_vars PROVE Breaker'
  OBVIOUS
<1>1. CASE Pass
  <2>1. blocked' = IF blocked = 0 THEN 0 ELSE blocked - 1
    BY <1>1 DEF Pass, Dec
  <2>2. QED
    BY <1>1, <2>1, PassCalm, MirrorAssumption, Bounds DEF Breaker, TypeOK
<1>2. QED
  BY <1>1, CalmStep

\* Only the processes of a running daemon tick and turn; a tick sets the trackers.
Order ==
  /\ ticked \cap unset = {}
  /\ turned => alive

LEMMA OrderInit == Init => Order
BY DEF Init, Order

LEMMA OrderStep == TypeOK /\ Order /\ [Next]_vars => Order'
<1> SUFFICES ASSUME TypeOK, Order, [Next]_vars PROVE Order'
  OBVIOUS
<1>1. CASE UNCHANGED vars
  BY <1>1 DEF Order, vars, workerVars
<1>2. ASSUME NEW p \in Puesto, Relay(p) PROVE Order'
  BY <1>2 DEF Relay, Order, workerVars
<1>3. CASE Pass
  BY <1>3 DEF Pass, Order
<1>4. ASSUME NEW w \in Plc, Connect(w) PROVE Order'
  BY <1>4 DEF Connect, Order, TypeOK
<1>5. ASSUME NEW w \in Plc, Disconnect(w) PROVE Order'
  BY <1>5 DEF Disconnect, Order
<1>6. ASSUME NEW w \in Plc, Tick(w) PROVE Order'
  BY <1>6 DEF Tick, Order
<1>7. CASE DaemonAlive
  BY <1>7 DEF DaemonAlive, Order, workerVars
<1>8. CASE Ends
  BY <1>8 DEF Ends, ForgetAll, Order
<1>9. CASE Start
  BY <1>9 DEF Start, Order, workerVars
<1>10. QED
  BY <1>1, <1>2, <1>3, <1>4, <1>5, <1>6, <1>7, <1>8, <1>9 DEF Next, Crash, Shutdown

----
(* What a tick writes. *)

\* The commands of a tick's pipeline: the worker's key, the line if it is due, the edges.
Edges(w) == {p \in Mine(w) : Edge(p)}
Lined(w) == IF LiveDue(w) THEN 1 ELSE 0
Commands(w) == 1 + Lined(w) + Cardinality(Edges(w))
Place(w, p) == 1 + Lined(w) + Cardinality({q \in Edges(w) : q <= p})

LEMMA Counted ==
  ASSUME TypeOK, NEW w \in Plc
  PROVE  /\ Commands(w) \in Nat /\ Commands(w) >= 1 + Lined(w)
         /\ \A p \in Puesto : Place(w, p) \in Nat /\ Place(w, p) <= Commands(w)
<1>1. IsFiniteSet(Edges(w))
  <2>1. Edges(w) \subseteq Puesto
    BY DEF Edges, Mine, TypeOK
  <2>2. QED
    BY <2>1, FS_Subset, MirrorAssumption
<1>2. Cardinality(Edges(w)) \in Nat
  BY <1>1, FS_CardinalityType
<1>3. ASSUME NEW p \in Puesto
      PROVE  /\ Cardinality({q \in Edges(w) : q <= p}) \in Nat
             /\ Cardinality({q \in Edges(w) : q <= p}) <= Cardinality(Edges(w))
  <2>1. {q \in Edges(w) : q <= p} \subseteq Edges(w)
    OBVIOUS
  <2>2. QED
    BY <1>1, <2>1, FS_Subset, FS_CardinalityType
<1>4. QED
  BY <1>2, <1>3 DEF Commands, Place, Lined

\* A tick writes the pipeline whole, or a write failed within the last Retry.
LEMMA TickWrites ==
  ASSUME TypeOK, Breaker, NEW w \in Plc, Tick(w)
  PROVE  \/ calm' < Retry
         \/ /\ calm' = calm
            /\ plc_key' = [plc_key EXCEPT ![w] = [up |-> TRUE, left |-> Ttl]]
            /\ noria_key' = IF LiveDue(w)
                            THEN [line |-> IF moving THEN "running" ELSE "stopped", age |-> 0]
                            ELSE noria_key
            /\ puestos_key' = [p \in Puesto |->
                                 IF p \in Edges(w) THEN Advance(p) ELSE puestos_key[p]]
<1>1. PICK k \in 0..Commands(w) :
        /\ Flush(Commands(w), k)
        /\ plc_key' = IF k >= 1 THEN [plc_key EXCEPT ![w] = [up |-> TRUE, left |-> Ttl]]
                      ELSE plc_key
        /\ noria_key' = IF Lined(w) = 1 /\ k >= 2
                        THEN [line |-> IF moving THEN "running" ELSE "stopped", age |-> 0]
                        ELSE noria_key
        /\ puestos_key' = [p \in Puesto |->
             IF p \in Edges(w) /\ Place(w, p) <= k THEN Advance(p) ELSE puestos_key[p]]
  BY DEF Tick, Commands, Lined, Edges, Place
<1>2. CASE calm' = calm /\ k = Commands(w)
  <2>1. plc_key' = [plc_key EXCEPT ![w] = [up |-> TRUE, left |-> Ttl]]
    BY <1>1, <1>2, Counted DEF Lined
  <2>2. noria_key' = IF LiveDue(w)
                     THEN [line |-> IF moving THEN "running" ELSE "stopped", age |-> 0]
                     ELSE noria_key
    BY <1>1, <1>2, Counted DEF Lined
  <2>3. puestos_key' = [p \in Puesto |->
                          IF p \in Edges(w) THEN Advance(p) ELSE puestos_key[p]]
    BY <1>1, <1>2, Counted
  <2>4. QED
    BY <1>2, <2>1, <2>2, <2>3
<1>3. QED
  BY <1>1, <1>2, FlushOutcome

----
(* The liveness keys. *)

LEMMA Elapsed ==
  ASSUME NEW key \in Key
  PROVE  /\ Up(Elapse(key)) => Up(key) /\ Elapse(key).left = key.left - 1
         /\ key.left > 1 => Elapse(key).up = key.up /\ Elapse(key).left = key.left - 1
<1>1. key = [up |-> key.up, left |-> key.left] /\ key.left \in Nat
  BY MirrorAssumption DEF Key
<1>2. CASE key.left <= 1
  <2>1. Elapse(key) = NoKey
    BY <1>2 DEF Elapse
  <2>2. ~Up(NoKey)
    BY DEF NoKey, Up
  <2>3. QED
    BY <1>1, <1>2, <2>1, <2>2
<1>3. CASE ~(key.left <= 1)
  <2>1. Elapse(key) = [up |-> key.up, left |-> key.left - 1]
    BY <1>1, <1>3 DEF Elapse
  <2>2. Elapse(key).up = key.up /\ Elapse(key).left = key.left - 1
    BY <2>1
  <2>3. QED
    BY <1>1, <1>3, <2>2 DEF Up
<1>4. QED
  BY <1>2, <1>3

\* A worker whose tick of this poll found the breaker closed has just renewed its key, and
\* one that has yet to tick renewed it in the poll before.
Renewed(w) ==
  Live(w) =>
    /\ w \in ticked /\ calm >= Retry => plc_key[w] = [up |-> TRUE, left |-> Ttl]
    /\ w \notin ticked /\ calm > Retry => plc_key[w].up /\ plc_key[w].left >= Ttl - 1

LEMMA RenewedSame ==
  ASSUME TypeOK, TypeOK', NEW v \in Plc, Renewed(v), Live(v)' => Live(v), v \in ticked' <=> v \in ticked,
         plc_key'[v] = plc_key[v], calm' = calm \/ calm' < Retry
  PROVE  Renewed(v)'
BY MirrorAssumption DEF Renewed, TypeOK, Live

LEMMA RenewedStep ==
  ASSUME TypeOK, Breaker, Order, [Next]_vars, NEW v \in Plc, Renewed(v)
  PROVE  Renewed(v)'
<1> TypeOK'
  BY TypeStep
<1>1. CASE Pass
  <2>1. /\ ticked' = {} /\ plc_key'[v] = Elapse(plc_key[v])
        /\ Live(v)' => Live(v) /\ v \in ticked
    BY <1>1 DEF Pass, Live, TypeOK
  <2>2. calm' > Retry => calm >= Retry
    <3>1. calm' = calm + 1 \/ calm' = calm
      BY <1>1, PassCalm
    <3>2. QED
      BY <3>1, MirrorAssumption DEF TypeOK
  <2>3. ASSUME plc_key[v] = [up |-> TRUE, left |-> Ttl]
        PROVE  plc_key'[v].up /\ plc_key'[v].left >= Ttl - 1
    BY <2>1, <2>3, MirrorAssumption, TimingAssumption DEF Elapse
  <2>4. QED
    BY <2>1, <2>2, <2>3 DEF Renewed
<1>2. ASSUME NEW w \in Plc, Connect(w) PROVE Renewed(v)'
  BY <1>2, RenewedSame DEF Connect, Live, redisVars, breakerVars, Order
<1>3. ASSUME NEW w \in Plc, Disconnect(w) PROVE Renewed(v)'
  <2>1. CASE v = w
    BY <1>3, <2>1 DEF Disconnect, Renewed, Live
  <2>2. CASE v # w
    <3>1. /\ (Live(v)' => Live(v)) /\ (v \in ticked' <=> v \in ticked)
          /\ plc_key'[v] = plc_key[v]
      BY <1>3, <2>2 DEF Disconnect, SayDown, Live, TypeOK
    <3>2. calm' = calm \/ calm' < Retry
      BY <1>3, FlushOutcome DEF Disconnect, SayDown
    <3>3. QED
      BY <3>1, <3>2, RenewedSame
  <2>3. QED
    BY <2>1, <2>2
<1>4. ASSUME NEW w \in Plc, Tick(w) PROVE Renewed(v)'
  <2>1. CASE v = w
    <3>1. v \in ticked'
      BY <1>4, <2>1 DEF Tick
    <3>2. calm' < Retry \/ plc_key'[v] = [up |-> TRUE, left |-> Ttl]
      BY <1>4, <2>1, TickWrites DEF TypeOK
    <3>3. QED
      BY <3>1, <3>2, MirrorAssumption DEF Renewed, TypeOK
  <2>2. CASE v # w
    <3>1. /\ (Live(v)' => Live(v)) /\ (v \in ticked' <=> v \in ticked)
          /\ plc_key'[v] = plc_key[v]
      BY <1>4, <2>2 DEF Tick, Live, TypeOK
    <3>2. calm' = calm \/ calm' < Retry
      BY <1>4, TickWrites
    <3>3. QED
      BY <3>1, <3>2, RenewedSame
  <2>3. QED
    BY <2>1, <2>2
<1>5. CASE Ends
  BY <1>5 DEF Ends, Renewed, Live
<1>6. CASE ~Pass /\ (UNCHANGED vars \/ (\E p \in Puesto : Relay(p)) \/ DaemonAlive \/ Start)
  <2>1. /\ (Live(v)' => Live(v)) /\ (v \in ticked' <=> v \in ticked)
        /\ plc_key'[v] = plc_key[v]
    BY <1>6 DEF vars, redisVars, workerVars, Relay, DaemonAlive, Start, Live
  <2>3. calm' = calm \/ calm' < Retry
    BY <1>6, CalmStep
  <2>4. QED
    BY <2>1, <2>3, RenewedSame
<1>7. QED
  BY <1>1, <1>2, <1>3, <1>4, <1>5, <1>6 DEF Next, Crash, Shutdown

\* A key that reads as up outlives its worker's last tick by no more than its time to live.
Expiring(w) == Up(plc_key[w]) => plc_key[w].left + gone[w] <= Ttl

LEMMA ExpiringStep ==
  ASSUME TypeOK, [Next]_vars, NEW v \in Plc, Expiring(v)
  PROVE  Expiring(v)'
<1>1. CASE plc_key'[v] = plc_key[v] /\ gone'[v] = gone[v]
  BY <1>1 DEF Expiring, Up
<1>2. CASE Pass
  <2>1. /\ plc_key'[v] = Elapse(plc_key[v])
        /\ gone'[v] \in Nat /\ gone'[v] <= gone[v] + 1
    BY <1>2, Bounds DEF Pass, Inc, TypeOK
  <2>2. plc_key[v] \in Key /\ gone[v] \in Nat
    BY DEF TypeOK
  <2>3. QED
    BY <2>1, <2>2, Elapsed, MirrorAssumption DEF Expiring, Key
<1>3. ASSUME NEW w \in Plc, Disconnect(w) PROVE Expiring(v)'
  <2>1. gone' = gone
    BY <1>3 DEF Disconnect
  <2>2. plc_key'[v] = plc_key[v] \/ plc_key'[v] = [up |-> FALSE, left |-> Ttl]
    BY <1>3 DEF Disconnect, SayDown, TypeOK
  <2>3. QED
    BY <2>1, <2>2 DEF Expiring, Up
<1>4. ASSUME NEW w \in Plc, Tick(w) PROVE Expiring(v)'
  <2>1. CASE v = w
    <3>1. gone'[v] = 0
      BY <1>4, <2>1 DEF Tick, TypeOK
    <3>2. plc_key'[v] \in Key
      BY <1>4, TickType DEF TypeOK
    <3>3. QED
      BY <3>1, <3>2, MirrorAssumption DEF Expiring, Key
  <2>2. CASE v # w
    BY <1>1, <1>4, <2>2 DEF Tick, TypeOK
  <2>3. QED
    BY <2>1, <2>2
<1>5. CASE Ends
  BY <1>1, <1>5 DEF Ends, ForgetAll
<1>6. CASE \/ UNCHANGED vars \/ DaemonAlive \/ Start
           \/ (\E p \in Puesto : Relay(p)) \/ (\E w \in Plc : Connect(w))
  BY <1>1, <1>6 DEF vars, redisVars, Relay, Connect, DaemonAlive, Start
<1>7. QED
  BY <1>2, <1>3, <1>4, <1>5, <1>6 DEF Next, Crash, Shutdown

\* The daemon's key was renewed at the last turn of the supervisor, if the breaker was
\* closed then.
TurnShown ==
  turned /\ calm >= Retry + (MainEvery - main_due) =>
    daemon_key.up /\ daemon_key.left >= Ttl - (MainEvery - main_due)

LEMMA TurnShownStep ==
  ASSUME TypeOK, Breaker, Order, [Next]_vars, TurnShown
  PROVE  TurnShown'
<1> TypeOK'
  BY TypeStep
<1>1. CASE Pass
  <2>1. /\ turned' = turned /\ daemon_key' = Elapse(daemon_key)
        /\ turned => main_due > 0 /\ main_due' = main_due - 1
    BY <1>1 DEF Pass, Order, Dec, TypeOK
  <2>2. calm' >= Retry + (MainEvery - main_due') /\ turned
          => calm >= Retry + (MainEvery - main_due)
    <3>1. calm' = calm + 1 \/ (calm' = calm /\ calm > Retry + MainEvery)
      BY <1>1, PassCalm, Bounds
    <3>2. QED
      BY <2>1, <3>1, MirrorAssumption DEF TypeOK
  <2>3. ASSUME turned, daemon_key.up, daemon_key.left >= Ttl - (MainEvery - main_due)
        PROVE  daemon_key'.up /\ daemon_key'.left >= Ttl - (MainEvery - main_due')
    <3>1. daemon_key.left > 1 /\ daemon_key.left \in Nat
      BY <2>1, <2>3, MirrorAssumption, TimingAssumption DEF TypeOK, Key
    <3>2. daemon_key'.up = daemon_key.up /\ daemon_key'.left = daemon_key.left - 1
      BY <2>1, <3>1, Elapsed DEF TypeOK
    <3>3. QED
      BY <2>1, <2>3, <3>1, <3>2, MirrorAssumption DEF TypeOK, Key
  <2>4. QED
    BY <2>1, <2>2, <2>3 DEF TurnShown
<1>2. CASE DaemonAlive
  <2>1. main_due' = MainEvery
    BY <1>2 DEF DaemonAlive
  <2>2. calm' < Retry \/ daemon_key' = [up |-> TRUE, left |-> Ttl]
    BY <1>2, FlushOutcome DEF DaemonAlive, SayDaemon
  <2>3. QED
    BY <2>1, <2>2, MirrorAssumption DEF TurnShown, TypeOK
<1>3. CASE Ends
  BY <1>3 DEF Ends, ForgetAll, TurnShown
<1>4. CASE Start
  <2>1. ~turned'
    BY <1>4 DEF Start, Order
  <2>2. QED
    BY <2>1 DEF TurnShown
<1>5. CASE /\ ~Pass
           /\ \/ UNCHANGED vars \/ (\E p \in Puesto : Relay(p))
              \/ (\E w \in Plc : Connect(w) \/ Disconnect(w) \/ Tick(w))
  <2>1. UNCHANGED <<turned, main_due, daemon_key>>
    BY <1>5 DEF vars, redisVars, Relay, Connect, Disconnect, Tick
  <2>2. calm' = calm \/ calm' < Retry
    BY <1>5, CalmStep
  <2>3. QED
    BY <2>1, <2>2, MirrorAssumption DEF TurnShown, TypeOK
<1>6. QED
  BY <1>1, <1>2, <1>3, <1>4, <1>5 DEF Next, Crash, Shutdown

KeysInv ==
  /\ TypeOK /\ Breaker /\ Order
  /\ \A w \in Plc : Renewed(w) /\ Expiring(w)
  /\ TurnShown

LEMMA KeysInit == Init => KeysInv
<1> SUFFICES ASSUME Init PROVE KeysInv
  OBVIOUS
<1>1. TypeOK /\ Breaker /\ Order
  BY TypeInit, BreakerInit, OrderInit
<1>2. ~turned /\ connected = {}
  BY DEF Init
<1>3. \A w \in Plc : plc_key[w] = NoKey
  BY DEF Init
<1>4. \A w \in Plc : Renewed(w) /\ Expiring(w)
  BY <1>2, <1>3 DEF Renewed, Live, Expiring, Up, NoKey
<1>5. QED
  BY <1>1, <1>2, <1>4 DEF KeysInv, TurnShown

LEMMA KeysStep == KeysInv /\ [Next]_vars => KeysInv'
<1> SUFFICES ASSUME KeysInv, [Next]_vars PROVE KeysInv'
  OBVIOUS
<1>1. TypeOK' /\ Breaker' /\ Order'
  BY TypeStep, BreakerStep, OrderStep DEF KeysInv
<1>2. \A w \in Plc : Renewed(w)' /\ Expiring(w)'
  BY RenewedStep, ExpiringStep DEF KeysInv
<1>3. TurnShown'
  BY TurnShownStep DEF KeysInv
<1>4. QED
  BY <1>1, <1>2, <1>3 DEF KeysInv

LEMMA KeysImply == KeysInv => KeysTellTheTruth
<1> SUFFICES ASSUME KeysInv PROVE KeysTellTheTruth
  OBVIOUS
<1>1. ASSUME turned, calm > Retry + MainEvery PROVE Up(daemon_key)
  BY <1>1, MirrorAssumption, TimingAssumption DEF KeysInv, TypeOK, TurnShown, Up, Key
<1>2. ASSUME NEW w \in Plc, Live(w), calm > Retry PROVE Up(plc_key[w])
  BY <1>2, MirrorAssumption, TimingAssumption DEF KeysInv, TypeOK, Renewed, Up, Key
<1>3. ASSUME NEW w \in Plc, gone[w] >= Ttl PROVE ~Up(plc_key[w])
  BY <1>3, MirrorAssumption, Bounds DEF KeysInv, TypeOK, Expiring, Up, Key
<1>4. QED
  BY <1>1, <1>2, <1>3 DEF KeysTellTheTruth

\* A worker that polls, and a daemon whose supervisor turns, read as alive as soon as no
\* write has failed for the breaker and one renewal; the key of a worker that is gone
\* expires, whatever plc_down managed to say.
THEOREM KeysAreTrue == Spec => []KeysTellTheTruth
<1>1. Spec => []KeysInv
  BY KeysInit, KeysStep, PTL DEF Spec
<1>2. QED
  BY <1>1, KeysImply, PTL

----
(* Held relays. *)

\* What a tick does to the tracker and the copies of one station.
LEMMA TickStation ==
  ASSUME TypeOK, NEW w \in Plc, Tick(w), NEW p \in Puesto
  PROVE  /\ p \in Edges(w) =>
              last_value'[p] = held[p] /\ due'[p] = Reassert /\ puestos'[p] = Advance(p)
         /\ p \notin Edges(w) =>
              /\ last_value'[p] = last_value[p] /\ due'[p] = due[p]
              /\ puestos'[p] = puestos[p] /\ puestos_key'[p] = puestos_key[p]
BY DEF Tick, Edges

LEMMA Advanced ==
  ASSUME NEW p \in Puesto PROVE Advance(p).present /\ (Advance(p).value <=> held[p])
BY DEF Advance, Restates

\* While a relay is held, a write of it succeeded since the last (re)assertion that found
\* the breaker closed; the next is due before the worker's next poll is over.
Asserted(p) ==
  Live(Ip[p]) /\ p \in known /\ last_value[p] =>
    /\ Ip[p] \in ticked => due[p] > 0
    /\ calm >= Retry + (Reassert - due[p]) => puestos_key[p].present /\ puestos_key[p].value

LEMMA DueBound == TypeOK => \A p \in Puesto : due[p] \in Nat /\ due[p] <= Reassert
BY MirrorAssumption DEF TypeOK

LEMMA AssertedSame ==
  ASSUME TypeOK, TypeOK', NEW p \in Puesto, Asserted(p),
         Live(Ip[p])' => Live(Ip[p]),
         Ip[p] \in ticked' /\ last_value[p] => Ip[p] \in ticked \/ due[p] > 0,
         p \in known' => p \in known, last_value'[p] = last_value[p], due'[p] = due[p],
         puestos_key'[p] = puestos_key[p], calm' = calm \/ calm' < Retry
  PROVE  Asserted(p)'
<1>1. due[p] \in Nat /\ calm \in Nat /\ calm' \in Nat
  BY DEF TypeOK
<1> SUFFICES ASSUME Live(Ip[p])', p \in known', last_value'[p]
             PROVE  /\ Ip[p] \in ticked' => due'[p] > 0
                    /\ calm' >= Retry + (Reassert - due'[p]) =>
                         puestos_key'[p].present /\ puestos_key'[p].value
  BY DEF Asserted
<1>2. Live(Ip[p]) /\ p \in known /\ last_value[p]
  OBVIOUS
<1>3. Ip[p] \in ticked' => due'[p] > 0
  BY <1>2 DEF Asserted
<1>4. calm' >= Retry + (Reassert - due'[p]) => calm >= Retry + (Reassert - due[p])
  <2>1. CASE calm' = calm
    BY <2>1
  <2>2. CASE calm' < Retry
    BY <1>1, <2>2, MirrorAssumption, DueBound
  <2>3. QED
    BY <2>1, <2>2
<1>5. QED
  BY <1>2, <1>3, <1>4 DEF Asserted

LEMMA AssertedStep ==
  ASSUME TypeOK, Breaker, Order, [Next]_vars, NEW p \in Puesto, Asserted(p)
  PROVE  Asserted(p)'
<1> TypeOK'
  BY TypeStep
<1> Ip[p] \in Plc
  BY MirrorAssumption
<1>1. CASE Pass
  <2>1. /\ ticked' = {} /\ due'[p] = Dec(due[p])
        /\ last_value' = last_value /\ puestos_key' = puestos_key /\ known' = known
        /\ Live(Ip[p])' => Live(Ip[p]) /\ Ip[p] \in ticked
    BY <1>1 DEF Pass, Live, TypeOK
  <2>2. calm' = calm + 1 \/ (calm' = calm /\ calm > Retry + Reassert)
    BY <1>1, PassCalm, Bounds
  <2>3. ASSUME due[p] > 0, calm' >= Retry + (Reassert - due'[p])
        PROVE  calm >= Retry + (Reassert - due[p])
    <3>1. due'[p] = due[p] - 1
      BY <2>1, <2>3 DEF Dec, TypeOK
    <3>2. calm \in Nat /\ due[p] \in Nat /\ due[p] <= Reassert
      BY DueBound DEF TypeOK
    <3>3. QED
      BY <2>2, <2>3, <3>1, <3>2, MirrorAssumption
  <2>4. QED
    BY <2>1, <2>3 DEF Asserted, Live
<1>2. ASSUME NEW w \in Plc, Tick(w) PROVE Asserted(p)'
  <2>1. calm' = calm \/ calm' < Retry
    BY <1>2, TickWrites
  <2>2. known' = known
    BY <1>2 DEF Tick
  <2>3. CASE p \in Edges(w)
    <3>1. last_value'[p] = held[p] /\ due'[p] = Reassert
      BY <1>2, <2>3, TickStation
    <3>2. calm' < Retry \/ puestos_key'[p] = Advance(p)
      BY <1>2, <2>3, TickWrites
    <3>3. held[p] => calm' < Retry \/ (puestos_key'[p].present /\ puestos_key'[p].value)
      BY <3>2, Advanced
    <3>4. calm' \in Nat
      BY DEF TypeOK
    <3>5. QED
      BY <3>1, <3>3, <3>4, MirrorAssumption DEF Asserted
  <2>4. CASE p \notin Edges(w) /\ Ip[p] = w /\ p \in known
    <3>1. w \notin unset /\ (held[p] => due[p] # 0) /\ (held[p] <=> last_value[p])
      BY <2>4 DEF Edges, Edge, Mine, TypeOK
    <3>2. Live(w)
      BY <1>2, <3>1 DEF Tick, Live
    <3>3. /\ last_value'[p] = last_value[p] /\ due'[p] = due[p]
          /\ puestos_key'[p] = puestos_key[p]
      BY <1>2, <2>4, TickStation
    <3>4. last_value[p] => due[p] > 0
      BY <3>1, DueBound
    <3>5. QED
      BY <2>1, <2>2, <2>4, <3>2, <3>3, <3>4, AssertedSame
  <2>5. CASE p \notin Edges(w) /\ Ip[p] # w
    <3>1. (Live(Ip[p])' => Live(Ip[p])) /\ (Ip[p] \in ticked' => Ip[p] \in ticked)
      BY <1>2, <2>5 DEF Tick, Live
    <3>2. /\ last_value'[p] = last_value[p] /\ due'[p] = due[p]
          /\ puestos_key'[p] = puestos_key[p]
      BY <1>2, <2>5, TickStation
    <3>3. QED
      BY <2>1, <2>2, <3>1, <3>2, AssertedSame
  <2>6. CASE p \notin known
    BY <2>2, <2>6 DEF Asserted
  <2>7. QED
    BY <2>3, <2>4, <2>5, <2>6
<1>3. CASE connected' = {}
  BY <1>3 DEF Asserted, Live
<1>4. CASE Ends
  BY <1>3, <1>4 DEF Ends
<1>5. CASE Start
  BY <1>3, <1>5 DEF Start, workerVars, TypeOK
<1>6. CASE /\ ~Pass
           /\ \/ UNCHANGED vars \/ DaemonAlive \/ (\E q \in Puesto : Relay(q))
              \/ (\E w \in Plc : Connect(w) \/ Disconnect(w))
  <2>1. /\ UNCHANGED <<known, last_value, due, puestos_key>>
        /\ ticked' \subseteq ticked
        /\ Live(Ip[p])' => Live(Ip[p])
    BY <1>6 DEF vars, redisVars, workerVars, Relay, Connect, Disconnect, DaemonAlive, Live
  <2>2. calm' = calm \/ calm' < Retry
    BY <1>6, CalmStep
  <2>3. QED
    BY <2>1, <2>2, AssertedSame
<1>7. QED
  BY <1>1, <1>2, <1>4, <1>5, <1>6 DEF Next, Crash, Shutdown

HeldInv ==
  /\ TypeOK /\ Breaker /\ Order
  /\ \A p \in Puesto : Asserted(p)

LEMMA HeldInit == Init => HeldInv
<1> SUFFICES ASSUME Init PROVE HeldInv
  OBVIOUS
<1>1. TypeOK /\ Breaker /\ Order
  BY TypeInit, BreakerInit, OrderInit
<1>2. \A p \in Puesto : Asserted(p)
  BY DEF Init, Asserted, Live
<1>3. QED
  BY <1>1, <1>2 DEF HeldInv

LEMMA HeldStep == HeldInv /\ [Next]_vars => HeldInv'
<1> SUFFICES ASSUME HeldInv, [Next]_vars PROVE HeldInv'
  OBVIOUS
<1>1. TypeOK' /\ Breaker' /\ Order'
  BY TypeStep, BreakerStep, OrderStep DEF HeldInv
<1>2. \A p \in Puesto : Asserted(p)'
  BY AssertedStep DEF HeldInv
<1>3. QED
  BY <1>1, <1>2 DEF HeldInv

LEMMA HeldImplies == HeldInv => HeldIsShown
<1> SUFFICES ASSUME HeldInv, NEW w \in Plc, Live(w), calm > Retry + Reassert,
                    NEW p \in Mine(w), last_value[p]
             PROVE  puestos_key[p].present /\ puestos_key[p].value
  BY DEF HeldIsShown
<1>1. p \in Puesto /\ p \in known /\ Ip[p] = w
  BY DEF Mine, HeldInv, TypeOK
<1>2. calm >= Retry + (Reassert - due[p])
  BY <1>1, MirrorAssumption DEF HeldInv, TypeOK
<1>3. QED
  BY <1>1, <1>2 DEF HeldInv, Asserted

\* A relay the worker saw held reads as held once no write has failed for the breaker and
\* one re-assert, although the mirror repeats nothing that it skipped.
THEOREM HeldShown == Spec => []HeldIsShown
<1>1. Spec => []HeldInv
  BY HeldInit, HeldStep, PTL DEF Spec
<1>2. QED
  BY <1>1, HeldImplies, PTL

----
(* Exact starts. *)

Odd(n) == n % 2 = 1

LEMMA Parity == \A n \in Nat : Odd(n + 1) <=> ~Odd(n)
BY DEF Odd

\* The relay is free before its first flip; a tracker that is set holds what its worker
\* saw at its last tick.
Seen(p) ==
  /\ held[p] <=> Odd(flips[p])
  /\ Live(Ip[p]) /\ p \in known => (last_value[p] <=> Odd(seen[p]))

\* Of a station that nothing deceived, at most one flip went unseen.
Candid(p) == p \notin deceived => flips[p] = seen[p] \/ flips[p] = seen[p] + 1

\* An entry tells no lie about the last tick.
True(entry, p) ==
  entry.exact /\ p \notin deceived =>
    entry.since = 2 * seen[p] /\ (entry.value <=> Odd(seen[p]))

\* The copy in Redis matters once the process that wrote it has ended.
ExactInv ==
  /\ TypeOK
  /\ \A p \in Puesto :
       /\ Seen(p) /\ Candid(p)
       /\ True(puestos[p], p)
       /\ ~alive => True(puestos_key[p], p)

\* Of a station with an edge, the flips and what the mirror makes of them.
LEMMA EdgeIsTrue ==
  ASSUME ExactInv, NEW w \in Plc, Tick(w), NEW p \in Puesto, p \in Edges(w)
  PROVE  True(puestos[p], p)'
<1>1. /\ puestos'[p] = Advance(p) /\ seen'[p] = flips[p]
      /\ p \in known /\ Ip[p] = w /\ w \in connected
  BY TickStation DEF ExactInv, Tick, TypeOK, Edges, Mine
<1>2. p \in deceived' <=> p \in deceived /\ Restates(p)
  BY DEF Tick, Edges
<1>3. flips[p] \in Nat /\ seen[p] \in Nat
  BY DEF ExactInv, TypeOK
<1>4. CASE Restates(p)
  <2>1. SUFFICES ASSUME puestos[p].exact, p \notin deceived
                 PROVE  puestos[p].since = 2 * flips[p] /\ (puestos[p].value <=> Odd(flips[p]))
    BY <1>1, <1>2, <1>4 DEF True, Advance
  <2>2. puestos[p].since = 2 * seen[p] /\ (puestos[p].value <=> Odd(seen[p]))
    BY <2>1 DEF ExactInv, True
  <2>3. puestos[p].value <=> Odd(flips[p])
    BY <1>4 DEF Restates, ExactInv, Seen
  <2>4. flips[p] = seen[p]
    BY <1>3, <2>1, <2>2, <2>3, Parity DEF ExactInv, Candid
  <2>5. QED
    BY <2>2, <2>3, <2>4
<1>5. CASE ~Restates(p) /\ w \notin unset /\ held[p] # last_value[p]
  <2>1. Live(w)
    BY <1>1, <1>5 DEF Live
  <2>2. flips[p] # seen[p]
    BY <1>1, <1>5, <2>1 DEF ExactInv, Seen, TypeOK
  <2>3. Advance(p).since = 2 * flips[p] /\ (Advance(p).value <=> held[p])
    BY <1>1, <1>5, <2>1, <2>2, Advanced DEF Advance, Instant
  <2>4. held[p] <=> Odd(flips[p])
    BY DEF ExactInv, Seen
  <2>5. QED
    BY <1>1, <2>3, <2>4 DEF True
<1>6. CASE ~Restates(p) /\ ~(w \notin unset /\ held[p] # last_value[p])
  <2>1. Advance(p).exact = FALSE
    BY <1>1, <1>6 DEF Advance
  <2>2. QED
    BY <1>1, <2>1 DEF True
<1>7. QED
  BY <1>4, <1>5, <1>6

\* A station of the worker without an edge did not flip.
LEMMA NoEdgeNoFlip ==
  ASSUME ExactInv, NEW w \in Plc, Tick(w), NEW p \in Mine(w), p \notin Edges(w)
  PROVE  /\ p \in Puesto /\ Live(w) /\ (held[p] <=> last_value[p])
         /\ p \notin deceived => flips[p] = seen[p]
<1>1. p \in Puesto /\ p \in known /\ Ip[p] = w /\ w \in connected
  BY DEF Mine, Tick, ExactInv, TypeOK
<1>2. w \notin unset /\ held[p] = last_value[p]
  BY <1>1 DEF Edges, Edge
<1>3. Live(w)
  BY <1>1, <1>2 DEF Live
<1>4. Odd(flips[p]) <=> Odd(seen[p])
  BY <1>1, <1>2, <1>3 DEF ExactInv, Seen
<1>5. flips[p] \in Nat /\ seen[p] \in Nat
  BY <1>1 DEF ExactInv, TypeOK
<1>6. p \notin deceived => flips[p] = seen[p]
  BY <1>1, <1>4, <1>5, Parity DEF ExactInv, Candid
<1>7. QED
  BY <1>1, <1>2, <1>3, <1>6

LEMMA ExactTick ==
  ASSUME ExactInv, NEW w \in Plc, Tick(w), NEW p \in Puesto
  PROVE  /\ Seen(p)' /\ Candid(p)'
         /\ True(puestos[p], p)'
         /\ ~alive' => True(puestos_key[p], p)'
<1>1. /\ flips' = flips /\ held' = held /\ known' = known
      /\ seen'[p] = IF p \in Mine(w) THEN flips[p] ELSE seen[p]
  BY DEF Tick, plantVars
<1>2. alive'
  BY DEF Tick, ExactInv, TypeOK
<1>3. CASE p \in Edges(w)
  <2>1. p \in Mine(w)
    BY <1>3 DEF Edges
  <2>2. Candid(p)'
    BY <1>1, <2>1 DEF Candid
  <2>3. Seen(p)'
    BY <1>1, <1>3, <2>1, TickStation DEF Seen, ExactInv
  <2>4. QED
    BY <1>2, <1>3, <2>2, <2>3, EdgeIsTrue
<1>4. CASE p \notin Edges(w)
  <2>1. /\ last_value'[p] = last_value[p] /\ puestos'[p] = puestos[p]
        /\ p \in deceived' <=> p \in deceived
    BY <1>4, TickStation DEF Tick, Edges, ExactInv
  <2>2. CASE p \in Mine(w)
    <3>1. /\ held[p] <=> last_value[p]
          /\ p \notin deceived => flips[p] = seen[p]
      BY <1>4, <2>2, NoEdgeNoFlip
    <3>2. Candid(p)'
      BY <1>1, <2>2 DEF Candid
    <3>3. Seen(p)'
      BY <1>1, <2>1, <2>2, <3>1 DEF Seen, ExactInv
    <3>4. True(puestos[p], p)'
      BY <1>1, <2>1, <2>2, <3>1 DEF True, ExactInv
    <3>5. QED
      BY <1>2, <3>2, <3>3, <3>4
  <2>3. CASE p \notin Mine(w)
    <3>1. Live(Ip[p])' /\ p \in known => Live(Ip[p])
      BY <2>3 DEF Tick, Live, Mine
    <3>2. Candid(p)' /\ Seen(p)'
      BY <1>1, <2>1, <2>3, <3>1 DEF Candid, Seen, ExactInv
    <3>3. True(puestos[p], p)'
      BY <1>1, <2>1, <2>3 DEF True, ExactInv
    <3>4. QED
      BY <1>2, <3>2, <3>3
  <2>4. QED
    BY <2>2, <2>3
<1>5. QED
  BY <1>3, <1>4

LEMMA ExactInit == Init => ExactInv
<1> SUFFICES ASSUME Init PROVE ExactInv
  OBVIOUS
<1>1. TypeOK
  BY TypeInit
<1>2. \A p \in Puesto : puestos[p] = Absent /\ puestos_key[p] = Absent
  BY DEF Init
<1>3. \A p \in Puesto : Seen(p) /\ Candid(p)
  BY DEF Init, Seen, Candid, Live, Odd
<1>4. \A p \in Puesto : True(puestos[p], p) /\ True(puestos_key[p], p)
  BY <1>2 DEF True, Absent
<1>5. QED
  BY <1>1, <1>3, <1>4 DEF ExactInv

\* An operation that neither ticks nor forgets.
LEMMA ExactSame ==
  ASSUME ExactInv, TypeOK', UNCHANGED <<held, flips, seen, deceived, puestos>>,
         NEW p \in Puesto,
         Live(Ip[p])' /\ p \in known' =>
           Live(Ip[p]) /\ p \in known /\ last_value'[p] = last_value[p],
         ~alive' => ~alive /\ puestos_key' = puestos_key
  PROVE  /\ Seen(p)' /\ Candid(p)'
         /\ True(puestos[p], p)'
         /\ ~alive' => True(puestos_key[p], p)'
<1>1. Seen(p)'
  BY DEF ExactInv, Seen
<1>2. Candid(p)'
  BY DEF ExactInv, Candid
<1>3. True(puestos[p], p)'
  BY DEF ExactInv, True
<1>4. ~alive' => True(puestos_key[p], p)'
  BY DEF ExactInv, True
<1>5. QED
  BY <1>1, <1>2, <1>3, <1>4

LEMMA ExactStep == ExactInv /\ [Next]_vars => ExactInv'
<1> SUFFICES ASSUME ExactInv, [Next]_vars, NEW p \in Puesto
             PROVE  /\ Seen(p)' /\ Candid(p)'
                    /\ True(puestos[p], p)'
                    /\ ~alive' => True(puestos_key[p], p)'
  BY TypeStep DEF ExactInv
<1> TypeOK'
  BY TypeStep DEF ExactInv
<1>1. CASE UNCHANGED vars \/ Pass \/ DaemonAlive
  <2>1. /\ UNCHANGED <<held, flips, seen, deceived, puestos, puestos_key, alive, known>>
        /\ UNCHANGED <<connected, unset, last_value>>
    BY <1>1 DEF vars, plantVars, workerVars, redisVars, Pass, DaemonAlive
  <2>2. Live(Ip[p])' => Live(Ip[p])
    BY <2>1 DEF Live
  <2>3. QED
    BY <2>1, <2>2, ExactSame
<1>2. ASSUME NEW w \in Plc, Connect(w) \/ Disconnect(w)
      PROVE  /\ Seen(p)' /\ Candid(p)'
             /\ True(puestos[p], p)'
             /\ ~alive' => True(puestos_key[p], p)'
  BY <1>2, ExactSame DEF Connect, Disconnect, plantVars, redisVars, Live
<1>3. ASSUME NEW q \in Puesto, Relay(q)
      PROVE  /\ Seen(p)' /\ Candid(p)'
             /\ True(puestos[p], p)'
             /\ ~alive' => True(puestos_key[p], p)'
  <2>1. /\ UNCHANGED <<seen, puestos, puestos_key, known, alive, last_value>>
        /\ deceived \subseteq deceived' /\ (Live(Ip[p])' => Live(Ip[p]))
    BY <1>3 DEF Relay, workerVars, redisVars, Live
  <2>2. CASE p = q
    <3>1. held'[p] = ~held[p] /\ flips'[p] = flips[p] + 1 /\ flips[p] \in Nat
      BY <1>3, <2>2 DEF Relay, ExactInv, TypeOK
    <3>2. p \notin deceived' => flips[p] = seen[p]
      BY <1>3, <2>2 DEF Relay
    <3>3. Seen(p)'
      BY <2>1, <3>1, Parity DEF Seen, ExactInv
    <3>4. Candid(p)'
      BY <2>1, <3>1, <3>2 DEF Candid
    <3>5. QED
      BY <2>1, <3>3, <3>4 DEF True, ExactInv
  <2>3. CASE p # q
    <3>1. held'[p] = held[p] /\ flips'[p] = flips[p]
      BY <1>3, <2>3 DEF Relay, ExactInv, TypeOK
    <3>2. Seen(p)' /\ Candid(p)'
      BY <2>1, <3>1 DEF Seen, Candid, ExactInv
    <3>3. QED
      BY <2>1, <3>2 DEF True, ExactInv
  <2>4. QED
    BY <2>2, <2>3
<1>4. ASSUME NEW w \in Plc, Tick(w)
      PROVE  /\ Seen(p)' /\ Candid(p)'
             /\ True(puestos[p], p)'
             /\ ~alive' => True(puestos_key[p], p)'
  BY <1>4, ExactTick
<1>5. CASE Ends
  <2>1. /\ UNCHANGED <<held, flips, seen, puestos_key>> /\ connected' = {}
        /\ puestos'[p] = Absent
        /\ p \notin deceived' => p \notin deceived /\ puestos_key[p] = puestos[p]
    BY <1>5 DEF Ends, ForgetAll, plantVars
  <2>2. Seen(p)' /\ Candid(p)'
    BY <2>1 DEF Seen, Candid, Live, ExactInv
  <2>3. True(puestos[p], p)'
    BY <2>1 DEF True, Absent
  <2>4. True(puestos_key[p], p)'
    BY <2>1 DEF True, ExactInv
  <2>5. QED
    BY <2>2, <2>3, <2>4
<1>6. CASE Start
  <2>1. /\ UNCHANGED <<held, flips, seen, deceived, connected>> /\ connected = {}
        /\ ~alive /\ alive'
        /\ puestos'[p] \in {puestos[p], puestos_key[p], Absent}
    BY <1>6 DEF Start, plantVars, workerVars, Seeded, ExactInv, TypeOK
  <2>2. Seen(p)' /\ Candid(p)'
    BY <2>1 DEF Seen, Candid, Live, ExactInv
  <2>3. True(puestos[p], p)'
    BY <2>1 DEF True, Absent, ExactInv
  <2>4. QED
    BY <2>1, <2>2, <2>3
<1>7. QED
  BY <1>1, <1>2, <1>3, <1>4, <1>5, <1>6 DEF Next, Crash, Shutdown

LEMMA ExactImplies == ExactInv => ExactIsTrue
BY DEF ExactInv, ExactIsTrue, True, Mine, TypeOK

\* An exact start is the flip that led to the current state, however often the PLC, Redis
\* and the process failed, unless the relay flipped there and back unseen or a process ended
\* before Redis had its copy.
THEOREM ExactStartsAreTrue == Spec => []ExactIsTrue
<1>1. Spec => []ExactInv
  BY ExactInit, ExactStep, PTL DEF Spec
<1>2. QED
  BY <1>1, ExactImplies, PTL

----
(* The line. *)

\* One PLC at most drives the line.
OneVariador == \A v, w \in Variador : v = w

Moves(b) == IF b THEN "running" ELSE "stopped"

\* A sample of the line was written since the last one that found the breaker closed.
Sampled(w) ==
  Live(w) =>
    /\ seen_moving[w] = last_moving[w]
    /\ w \in ticked => live_due[w] > 0
    /\ calm >= Retry + (LiveEvery - live_due[w]) => noria_key.line = Moves(last_moving[w])

\* A reading of the line is as old as its worker's last tick.
Aged(w) ==
  noria_key.line \in {"running", "stopped"} => noria_key.age >= gone[w] \/ noria_key.age = Stale

LineInv ==
  /\ TypeOK /\ Breaker /\ Order
  /\ \A w \in Variador : Sampled(w) /\ Aged(w)

LEMMA LiveDueBound ==
  ASSUME TypeOK, NEW w \in Variador
  PROVE  /\ w \in Plc /\ live_due[w] \in Nat /\ live_due[w] <= LiveEvery
         /\ calm \in Nat /\ gone[w] \in Nat /\ noria_key.age \in Nat /\ noria_key.age <= Stale
BY MirrorAssumption, Bounds DEF TypeOK

LEMMA SampledSame ==
  ASSUME TypeOK, TypeOK', NEW v \in Variador, Sampled(v), Live(v)' => Live(v),
         v \in ticked' => v \in ticked \/ live_due[v] > 0,
         seen_moving'[v] = last_moving'[v], last_moving'[v] = last_moving[v],
         live_due'[v] = live_due[v],
         calm' < Retry \/ (calm' = calm /\ noria_key' = noria_key)
  PROVE  Sampled(v)'
<1>1. calm' \in Nat
  BY DEF TypeOK
<1>2. calm' >= Retry + (LiveEvery - live_due'[v]) =>
        noria_key' = noria_key /\ calm >= Retry + (LiveEvery - live_due[v])
  <2>1. CASE calm' < Retry
    BY <1>1, <2>1, LiveDueBound, MirrorAssumption
  <2>2. CASE calm' = calm /\ noria_key' = noria_key
    BY <2>2
  <2>3. QED
    BY <2>1, <2>2
<1>3. ASSUME Live(v)'
      PROVE  /\ v \in ticked' => live_due'[v] > 0
             /\ calm' >= Retry + (LiveEvery - live_due'[v]) =>
                  noria_key'.line = Moves(last_moving'[v])
  BY <1>2, <1>3 DEF Sampled
<1>4. QED
  BY <1>3 DEF Sampled

LEMMA SampledStep ==
  ASSUME OneVariador, LineInv, [Next]_vars, NEW v \in Variador
  PROVE  Sampled(v)'
<1> TypeOK /\ TypeOK' /\ Breaker /\ Order /\ Sampled(v) /\ v \in Plc
  BY TypeStep, LiveDueBound DEF LineInv
<1>1. CASE Pass
  <2>1. /\ ticked' = {} /\ live_due'[v] = Dec(live_due[v])
        /\ last_moving' = last_moving /\ seen_moving' = seen_moving
        /\ noria_key'.line = noria_key.line
        /\ Live(v)' => Live(v) /\ v \in ticked
    BY <1>1 DEF Pass, Live, TypeOK
  <2>2. calm' = calm + 1 \/ (calm' = calm /\ calm > Retry + LiveEvery)
    BY <1>1, PassCalm, Bounds
  <2>3. ASSUME live_due[v] > 0, calm' >= Retry + (LiveEvery - live_due'[v])
        PROVE  calm >= Retry + (LiveEvery - live_due[v])
    <3>1. live_due'[v] = live_due[v] - 1
      BY <2>1, <2>3, LiveDueBound DEF Dec
    <3>2. QED
      BY <2>2, <2>3, <3>1, LiveDueBound, MirrorAssumption
  <2>4. QED
    BY <2>1, <2>3 DEF Sampled, Live
<1>2. ASSUME NEW w \in Plc, Tick(w) PROVE Sampled(v)'
  <2>1. CASE v = w /\ LiveDue(w)
    <3>1. seen_moving'[v] = moving /\ last_moving'[v] = moving /\ live_due'[v] = LiveEvery
      BY <1>2, <2>1 DEF Tick
    <3>2. calm' < Retry \/ noria_key'.line = Moves(moving)
      BY <1>2, <2>1, TickWrites DEF Moves
    <3>3. calm' \in Nat
      BY DEF TypeOK
    <3>4. QED
      BY <3>1, <3>2, <3>3, MirrorAssumption, TimingAssumption DEF Sampled
  <2>2. CASE v = w /\ ~LiveDue(w)
    <3>1. /\ last_moving'[v] = last_moving[v] /\ live_due'[v] = live_due[v]
          /\ seen_moving'[v] = moving
      BY <1>2, <2>2 DEF Tick
    <3>2. v \notin unset /\ moving = last_moving[v] /\ live_due[v] > 0
      BY <2>2, LiveDueBound DEF LiveDue
    <3>3. Live(v)
      BY <1>2, <2>2, <3>2 DEF Tick, Live
    <3>4. calm' < Retry \/ (calm' = calm /\ noria_key' = noria_key)
      BY <1>2, <2>2, TickWrites
    <3>5. QED
      BY <3>1, <3>2, <3>3, <3>4, SampledSame
  <2>3. CASE v # w
    <3>1. w \notin Variador
      BY <2>3 DEF OneVariador
    <3>2. /\ last_moving'[v] = last_moving[v] /\ live_due'[v] = live_due[v]
          /\ seen_moving'[v] = seen_moving[v]
          /\ Live(v)' => Live(v)
          /\ v \in ticked' => v \in ticked
      BY <1>2, <2>3 DEF Tick, Live
    <3>3. ~LiveDue(w)
      BY <3>1 DEF LiveDue
    <3>4. calm' < Retry \/ (calm' = calm /\ noria_key' = noria_key)
      BY <1>2, <3>3, TickWrites
    <3>5. CASE Live(v)'
      BY <3>2, <3>4, <3>5, SampledSame DEF Sampled
    <3>6. CASE ~Live(v)'
      BY <3>6 DEF Sampled
    <3>7. QED
      BY <3>5, <3>6
  <2>4. QED
    BY <2>1, <2>2, <2>3
<1>3. CASE ~Live(v)'
  BY <1>3 DEF Sampled
<1>4. ASSUME NEW w \in Plc, Disconnect(w) PROVE Sampled(v)'
  <2>1. CASE v = w
    BY <1>3, <1>4, <2>1 DEF Disconnect, Live
  <2>2. CASE v # w
    <3>1. w \notin Variador
      BY <2>2 DEF OneVariador
    <3>2. /\ UNCHANGED <<last_moving, live_due, seen_moving>>
          /\ Live(v)' => Live(v)
          /\ v \in ticked' => v \in ticked
      BY <1>4 DEF Disconnect, Live
    <3>3. noria_key' = noria_key
      BY <1>4, <3>1 DEF Disconnect, SayDown
    <3>4. calm' < Retry \/ calm' = calm
      BY <1>4, FlushOutcome DEF Disconnect, SayDown
    <3>5. CASE Live(v)'
      BY <3>2, <3>3, <3>4, <3>5, SampledSame DEF Sampled
    <3>6. QED
      BY <1>3, <3>5
  <2>3. QED
    BY <2>1, <2>2
<1>5. CASE Ends
  BY <1>3, <1>5 DEF Ends, Live
<1>6. CASE Start
  BY <1>3, <1>6 DEF Start, workerVars, TypeOK, Live
<1>7. CASE /\ ~Pass
           /\ \/ UNCHANGED vars \/ DaemonAlive \/ (\E q \in Puesto : Relay(q))
              \/ (\E w \in Plc : Connect(w))
  <2>1. /\ UNCHANGED <<last_moving, live_due, seen_moving, noria_key, ticked>>
        /\ Live(v)' => Live(v)
    BY <1>7 DEF vars, redisVars, workerVars, Relay, Connect, DaemonAlive, Live
  <2>2. calm' = calm \/ calm' < Retry
    BY <1>7, CalmStep
  <2>3. CASE Live(v)'
    BY <2>1, <2>2, <2>3, SampledSame DEF Sampled
  <2>4. QED
    BY <1>3, <2>3
<1>8. QED
  BY <1>1, <1>2, <1>4, <1>5, <1>6, <1>7 DEF Next, Crash, Shutdown

LEMMA AgedStep ==
  ASSUME OneVariador, LineInv, [Next]_vars, NEW v \in Variador
  PROVE  Aged(v)'
<1> TypeOK /\ TypeOK' /\ Aged(v) /\ v \in Plc
  BY TypeStep, LiveDueBound DEF LineInv
<1>1. CASE noria_key' = noria_key /\ gone'[v] = gone[v]
  BY <1>1 DEF Aged
<1>2. CASE noria_key'.line \notin {"running", "stopped"} \/ gone'[v] = 0
  BY <1>2, LiveDueBound DEF Aged, TypeOK
<1>3. CASE Pass
  <2>1. /\ noria_key'.line = noria_key.line /\ noria_key'.age = Inc(noria_key.age, Stale)
        /\ gone'[v] = Inc(gone[v], Away)
    BY <1>3 DEF Pass, TypeOK
  <2>2. QED
    BY <2>1, LiveDueBound, Bounds, MirrorAssumption DEF Aged, Inc
<1>4. ASSUME NEW w \in Plc, Disconnect(w) PROVE Aged(v)'
  <2>1. gone' = gone /\ (noria_key' = noria_key \/ noria_key'.line = "unknown")
    BY <1>4 DEF Disconnect, SayDown
  <2>2. QED
    BY <1>1, <1>2, <2>1
<1>5. ASSUME NEW w \in Plc, Tick(w) PROVE Aged(v)'
  <2>1. CASE v = w
    BY <1>2, <1>5, <2>1 DEF Tick, TypeOK
  <2>2. CASE v # w
    <3>1. ~LiveDue(w)
      BY <2>2 DEF OneVariador, LiveDue
    <3>2. noria_key' = noria_key /\ gone'[v] = gone[v]
      BY <1>5, <2>2, <3>1 DEF Tick, TypeOK
    <3>3. QED
      BY <1>1, <3>2
  <2>3. QED
    BY <2>1, <2>2
<1>6. CASE Ends
  BY <1>1, <1>6 DEF Ends, ForgetAll
<1>7. CASE \/ UNCHANGED vars \/ DaemonAlive \/ Start
           \/ (\E p \in Puesto : Relay(p)) \/ (\E w \in Plc : Connect(w))
  BY <1>1, <1>7 DEF vars, redisVars, Relay, Connect, DaemonAlive, Start
<1>8. QED
  BY <1>3, <1>4, <1>5, <1>6, <1>7 DEF Next, Crash, Shutdown

LEMMA LineInit == Init => LineInv
<1> SUFFICES ASSUME Init PROVE LineInv
  OBVIOUS
<1>1. TypeOK /\ Breaker /\ Order
  BY TypeInit, BreakerInit, OrderInit
<1>2. \A w \in Variador : Sampled(w) /\ Aged(w)
  BY DEF Init, Sampled, Aged, Live
<1>3. QED
  BY <1>1, <1>2 DEF LineInv

LEMMA LineStep ==
  ASSUME OneVariador PROVE LineInv /\ [Next]_vars => LineInv'
<1> SUFFICES ASSUME LineInv, [Next]_vars PROVE LineInv'
  OBVIOUS
<1>1. TypeOK' /\ Breaker' /\ Order'
  BY TypeStep, BreakerStep, OrderStep DEF LineInv
<1>2. \A w \in Variador : Sampled(w)' /\ Aged(w)'
  BY SampledStep, AgedStep
<1>3. QED
  BY <1>1, <1>2 DEF LineInv

LEMMA LineImplies == LineInv => LineIsShown
<1> SUFFICES ASSUME LineInv, NEW w \in Variador
             PROVE  /\ Live(w) /\ calm > Retry + LiveEvery =>
                         noria_key.line = IF seen_moving[w] THEN "running" ELSE "stopped"
                    /\ gone[w] >= Stale =>
                         noria_key.line \in {"unknown", "absent"} \/ noria_key.age = Stale
  BY DEF LineIsShown
<1>1. ASSUME Live(w), calm > Retry + LiveEvery
      PROVE  noria_key.line = IF seen_moving[w] THEN "running" ELSE "stopped"
  <2>1. calm >= Retry + (LiveEvery - live_due[w])
    BY <1>1, LiveDueBound, MirrorAssumption DEF LineInv
  <2>2. QED
    BY <1>1, <2>1 DEF LineInv, Sampled, Moves
<1>2. ASSUME gone[w] >= Stale
      PROVE  noria_key.line \in {"unknown", "absent"} \/ noria_key.age = Stale
  <2>1. noria_key.line \in Lines
    BY DEF LineInv, TypeOK
  <2>2. QED
    BY <1>2, <2>1, LiveDueBound, MirrorAssumption DEF LineInv, Aged, Lines
<1>3. QED
  BY <1>1, <1>2

\* Where one PLC at most drives the line, the line on screen is the line its worker saw,
\* the breaker and a sample later at most, and a reading of a worker that is gone is
\* unknown or stale.
THEOREM LineShown == ASSUME OneVariador PROVE Spec => []LineIsShown
<1>1. Spec => []LineInv
  BY LineInit, LineStep, PTL DEF Spec
<1>2. QED
  BY <1>1, LineImplies, PTL
====
