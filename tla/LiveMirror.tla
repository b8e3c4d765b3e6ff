---- MODULE LiveMirror ----
(***************************************************************************)
(* The live mirror (live.py): the last known state of the line in Redis,   *)
(* written by every PLC worker and by the main thread, never retried.      *)
(* Time passes in units of one poll: a connected worker ticks once in each.*)
(* Instants are abstract: `since` says which flip of the relay an instant  *)
(* follows, and whether to within a poll or at some later time.            *)
(***************************************************************************)
EXTENDS Integers, FiniteSets

CONSTANTS
  Plc,         \* PLCs, each with its worker
  Puesto,      \* stations, numbered in the order of a pipeline
  Ip,          \* the PLC of a station
  Variador,    \* the PLCs that drive the line
  Topologies,  \* the sets of stations a start of the daemon may find configured
  Reassert,    \* REASSERT_SECONDS
  Ttl,         \* LIVE_TTL_SECONDS
  Retry,       \* LIVE_RETRY_SECONDS
  LiveEvery,   \* LIVE_SPEED_SECONDS
  MainEvery,   \* the wait of the supervisor's loop
  Stale,       \* MONITOR_STALE_SECONDS, in the reader
  Faults,      \* kinds of failure that happen: subset of FaultKinds
  MaxFaults,   \* bound: failures in a behaviour
  MaxFlips     \* bound: flips of one relay

FaultKinds == {"redis", "plc", "crash"}

ASSUME MirrorAssumption ==
  /\ IsFiniteSet(Puesto) /\ Puesto = 1..Cardinality(Puesto)
  /\ IsFiniteSet(Plc) /\ Variador \subseteq Plc
  /\ Ip \in [Puesto -> Plc]
  /\ Topologies \subseteq SUBSET Puesto /\ Topologies # {}
  /\ Reassert \in Nat \ {0} /\ Ttl \in Nat \ {0} /\ Retry \in Nat
  /\ LiveEvery \in Nat /\ MainEvery \in Nat \ {0} /\ Stale \in Nat \ {0}
  /\ Faults \subseteq FaultKinds
  /\ MaxFaults \in Nat /\ MaxFlips \in Nat

\* A retry or a sampling interval of 0, which the configuration accepts, is left out.  It
\* demands a time to live of two polls; that the supervisor's wait is shorter is left to
\* whoever sets it.
ASSUME TimingAssumption ==
  /\ Retry > 0 /\ LiveEvery > 0
  /\ Ttl > 1 /\ Ttl > MainEvery

VARIABLES
  held, flips, moving,     \* the plant: relays, their flips so far, the line
  alive, known,            \* the process, and the stations it was configured with
  connected, unset,        \* workers that poll; those whose trackers were reset
  ticked,                  \* workers that have ticked in this unit of time
  last_value, due,         \* InputTracker: last value, time to the next re-assert
  last_moving, live_due,   \* LiveSpeedTracker: last state, time to the next sample
  main_due,                \* time to the supervisor's next turn
  puestos,                 \* LiveMirror._puestos, the authoritative copy
  blocked,                 \* time to the end of the breaker
  plc_key, daemon_key, noria_key, puestos_key,  \* Redis
  faults,      \* failures so far
  calm,        \* history: time since a write failed, up to Long
  gone,        \* history: time since a worker's last tick, up to Away
  turned,      \* history: the supervisor of this process has had a turn
  seen, seen_moving,  \* history: flips of the relay, and the line, at the last tick
  deceived     \* history: stations whose mirrored start nothing could have got right

plantVars == <<held, flips, moving>>
workerVars == <<connected, unset, ticked, last_value, due, last_moving, live_due>>
redisVars == <<plc_key, daemon_key, noria_key, puestos_key>>
breakerVars == <<blocked, calm, faults>>
vars == <<plantVars, alive, known, workerVars, main_due, puestos, redisVars,
          breakerVars, gone, turned, seen, seen_moving, deceived>>

Absent == [value |-> FALSE, since |-> 0, exact |-> FALSE, present |-> FALSE]
Entry == [value : BOOLEAN, since : Nat, exact : BOOLEAN, present : BOOLEAN]
Key == [up : BOOLEAN, left : 0..Ttl]
NoKey == [up |-> FALSE, left |-> 0]
Lines == {"running", "stopped", "unknown", "absent"}

Larger(a, b) == IF a >= b THEN a ELSE b

\* As far as any property looks back: to a failed write, and to a worker's last tick.
Long == Retry + Larger(Reassert, Larger(LiveEvery, MainEvery)) + 1
Away == Larger(Ttl, Stale)

Mine(w) == {p \in known : Ip[p] = w}

\* The worker has completed a tick of this connection.
Live(w) == w \in connected \ unset

\* What espejo/redis.py makes of a key.
Up(key) == key.left > 0 /\ key.up

TypeOK ==
  /\ held \in [Puesto -> BOOLEAN] /\ flips \in [Puesto -> Nat] /\ moving \in BOOLEAN
  /\ alive \in BOOLEAN /\ known \subseteq Puesto
  /\ connected \subseteq Plc /\ unset \subseteq Plc /\ ticked \subseteq connected
  /\ last_value \in [Puesto -> BOOLEAN] /\ due \in [Puesto -> 0..Reassert]
  /\ last_moving \in [Variador -> BOOLEAN] /\ live_due \in [Variador -> 0..LiveEvery]
  /\ main_due \in 0..MainEvery
  /\ puestos \in [Puesto -> Entry] /\ puestos_key \in [Puesto -> Entry]
  /\ blocked \in 0..Retry
  /\ plc_key \in [Plc -> Key] /\ daemon_key \in Key
  /\ noria_key \in [line : Lines, age : 0..Stale]
  /\ faults \in 0..MaxFaults
  /\ calm \in 0..Long /\ gone \in [Plc -> 0..Away] /\ turned \in BOOLEAN
  /\ seen \in [Puesto -> Nat] /\ seen_moving \in [Variador -> BOOLEAN]
  /\ deceived \subseteq Puesto
  /\ ~alive => connected = {}

Init ==
  /\ held = [p \in Puesto |-> FALSE] /\ flips = [p \in Puesto |-> 0] /\ moving = FALSE
  /\ alive = FALSE /\ known = {}
  /\ connected = {} /\ unset = Plc /\ ticked = {}
  /\ last_value = held /\ due = flips
  /\ last_moving = [w \in Variador |-> FALSE] /\ live_due = [w \in Variador |-> 0]
  /\ main_due = 0
  /\ puestos = [p \in Puesto |-> Absent] /\ puestos_key = puestos
  /\ blocked = 0
  /\ plc_key = [w \in Plc |-> NoKey] /\ daemon_key = NoKey
  /\ noria_key = [line |-> "absent", age |-> Stale]
  /\ faults = 0
  /\ calm = Long /\ gone = [w \in Plc |-> Away] /\ turned = FALSE
  /\ seen = flips /\ seen_moving = last_moving /\ deceived = {}

----
(* The plant and the clock. *)

\* A blip shorter than a poll is invisible; one inside a gap leaves the old value.
Relay(p) ==
  /\ flips[p] < MaxFlips
  /\ Live(Ip[p]) => flips[p] = seen[p]
  /\ held' = [held EXCEPT ![p] = ~@]
  /\ flips' = [flips EXCEPT ![p] = @ + 1]
  /\ deceived' = IF flips[p] # seen[p] THEN deceived \cup {p} ELSE deceived
  /\ UNCHANGED <<moving, alive, known, workerVars, main_due, puestos, redisVars,
                 breakerVars, gone, turned, seen, seen_moving>>

\* The line, from one poll to the next.
Line == IF Variador = {} THEN UNCHANGED moving ELSE moving' \in BOOLEAN

Dec(n) == IF n = 0 THEN 0 ELSE n - 1
Inc(n, most) == IF n >= most THEN most ELSE n + 1

Elapse(key) == IF key.left <= 1 THEN NoKey ELSE [key EXCEPT !.left = @ - 1]

\* One poll later: every connected worker has ticked, the supervisor had its turn.
Pass ==
  /\ ticked = connected
  /\ alive => main_due > 0
  /\ ticked' = {}
  /\ Line
  /\ main_due' = Dec(main_due)
  /\ due' = [p \in Puesto |-> Dec(due[p])]
  /\ live_due' = [w \in Variador |-> Dec(live_due[w])]
  /\ blocked' = Dec(blocked)
  /\ plc_key' = [w \in Plc |-> Elapse(plc_key[w])]
  /\ daemon_key' = Elapse(daemon_key)
  /\ noria_key' = [noria_key EXCEPT !.age = Inc(@, Stale)]
  /\ calm' = Inc(calm, Long)
  /\ gone' = [w \in Plc |-> Inc(gone[w], Away)]
  /\ UNCHANGED <<held, flips, alive, known, connected, unset, last_value, last_moving,
                 puestos, puestos_key, faults, turned, seen, seen_moving, deceived>>

----
(* Writing to Redis. *)

Fails(kind) ==
  /\ kind \in Faults /\ faults < MaxFaults
  /\ faults' = faults + 1

\* Of a pipeline of n commands, the first k reach Redis.  A failure, with any part of
\* the pipeline applied, opens the breaker.
Execute(n, k) ==
  \/ k = n /\ blocked' = 0 /\ UNCHANGED <<calm, faults>>
  \/ n > 0 /\ Fails("redis") /\ blocked' = Retry /\ calm' = 0

\* Faulty variant: a write that is skipped opens the breaker again.
FlushReopens(n, k) ==
  \/ blocked > 0 /\ k = 0 /\ blocked' = Retry /\ UNCHANGED <<calm, faults>>
  \/ blocked = 0 /\ Execute(n, k)

\* _flush: skipped while the breaker is open.
Flush(n, k) ==
  \/ blocked > 0 /\ k = 0 /\ UNCHANGED breakerVars
  \/ blocked = 0 /\ Execute(n, k)

----
(* A worker. *)

Connect(w) ==
  /\ alive /\ w \notin connected
  /\ connected' = connected \cup {w}
  /\ unset' = unset \cup {w}
  /\ UNCHANGED <<plantVars, alive, known, ticked, last_value, due, last_moving, live_due,
                 main_due, puestos, redisVars, breakerVars, gone, turned, seen, seen_moving, deceived>>

\* plc_down: the first k commands of the pipeline arrive.
SayDown(w) ==
  LET n == IF w \in Variador THEN 2 ELSE 1
  IN \E k \in 0..n :
       /\ Flush(n, k)
       /\ plc_key' = IF k >= 1 THEN [plc_key EXCEPT ![w] = [up |-> FALSE, left |-> Ttl]]
                     ELSE plc_key
       /\ noria_key' = IF k >= 2 THEN [line |-> "unknown", age |-> 0] ELSE noria_key

\* A poll or an attempt to connect fails.
Disconnect(w) ==
  /\ alive /\ "plc" \in Faults
  /\ connected' = connected \ {w}
  /\ ticked' = ticked \ {w}
  /\ SayDown(w)
  /\ UNCHANGED <<plantVars, alive, known, unset, last_value, due, last_moving, live_due,
                 main_due, puestos, daemon_key, puestos_key, gone, turned, seen, seen_moving, deceived>>

\* Faulty variant: held relays are not asserted again.
EdgeOnce(p) == Ip[p] \in unset \/ held[p] # last_value[p]

\* InputTracker.observe emits an edge.
Edge(p) ==
  \/ Ip[p] \in unset
  \/ held[p] # last_value[p]
  \/ held[p] /\ due[p] = 0

\* The instant of this tick: twice the number of flips so far, and one more unless
\* the last flip came after the previous tick of the same connection.
Instant(p) ==
  IF Live(Ip[p]) /\ flips[p] # seen[p] THEN 2 * flips[p] ELSE 2 * flips[p] + 1

\* A re-assert or a resync of the value the mirror has.
Restates(p) ==
  /\ puestos[p].present /\ puestos[p].value = held[p]
  /\ Ip[p] \in unset \/ held[p] = last_value[p]

\* Faulty variant: a resync is believed like a change.
AdvanceTrusting(p) ==
  IF Restates(p) THEN puestos[p]
  ELSE [value |-> held[p], since |-> Instant(p), exact |-> TRUE, present |-> TRUE]

\* _advance: where the current state began, and whether that is trustworthy: it is
\* when the tracker saw the change.
Advance(p) ==
  IF Restates(p) THEN puestos[p]
  ELSE [value |-> held[p], since |-> Instant(p), present |-> TRUE,
        exact |-> Ip[p] \notin unset /\ held[p] # last_value[p]]

\* Faulty variant: a change of state waits for the throttle.
LiveDueThrottled(w) == w \in Variador /\ (w \in unset \/ live_due[w] = 0)

\* LiveSpeedTracker.observe: a change of the line's state is never held back.
LiveDue(w) ==
  w \in Variador /\ (w \in unset \/ moving # last_moving[w] \/ live_due[w] = 0)

\* A tick: the trackers observe, then LiveMirror.tick sends one pipeline, of which
\* the first k commands arrive: the worker's key, the line, the edges in order.
Tick(w) ==
  LET edges == {p \in Mine(w) : Edge(p)}
      lines == IF LiveDue(w) THEN 1 ELSE 0
      n == 1 + lines + Cardinality(edges)
      place(p) == 1 + lines + Cardinality({q \in edges : q <= p})
  IN /\ w \in connected \ ticked
     /\ ticked' = ticked \cup {w}
     /\ unset' = unset \ {w}
     /\ last_value' = [p \in Puesto |-> IF p \in edges THEN held[p] ELSE last_value[p]]
     /\ due' = [p \in Puesto |-> IF p \in edges THEN Reassert ELSE due[p]]
     /\ last_moving' = [v \in Variador |-> IF v = w /\ LiveDue(w) THEN moving ELSE last_moving[v]]
     /\ live_due' = [v \in Variador |-> IF v = w /\ LiveDue(w) THEN LiveEvery ELSE live_due[v]]
     /\ puestos' = [p \in Puesto |-> IF p \in edges THEN Advance(p) ELSE puestos[p]]
     /\ \E k \in 0..n :
          /\ Flush(n, k)
          /\ plc_key' = IF k >= 1 THEN [plc_key EXCEPT ![w] = [up |-> TRUE, left |-> Ttl]]
                        ELSE plc_key
          /\ noria_key' = IF lines = 1 /\ k >= 2
                          THEN [line |-> IF moving THEN "running" ELSE "stopped", age |-> 0]
                          ELSE noria_key
          /\ puestos_key' = [p \in Puesto |->
                               IF p \in edges /\ place(p) <= k THEN Advance(p) ELSE puestos_key[p]]
     /\ gone' = [gone EXCEPT ![w] = 0]
     /\ seen' = [p \in Puesto |-> IF p \in Mine(w) THEN flips[p] ELSE seen[p]]
     /\ deceived' = {p \in deceived : p \notin edges \/ Restates(p)}
     /\ seen_moving' = [v \in Variador |-> IF v = w THEN moving ELSE seen_moving[v]]
     /\ UNCHANGED <<plantVars, alive, known, connected, main_due, daemon_key, turned>>

----
(* The process. *)

SayDaemon(up) ==
  \E k \in 0..1 :
    /\ Flush(1, k)
    /\ daemon_key' = IF k = 1 THEN [up |-> up, left |-> Ttl] ELSE daemon_key

\* daemon_alive, once in every turn of the supervisor's loop.
DaemonAlive ==
  /\ alive /\ main_due = 0
  /\ main_due' = MainEvery
  /\ SayDaemon(TRUE)
  /\ turned' = TRUE
  /\ UNCHANGED <<plantVars, alive, known, workerVars, puestos, plc_key, noria_key,
                 puestos_key, gone, seen, seen_moving, deceived>>

ForgetAll ==
  /\ known' = {}
  /\ unset' = Plc
  /\ last_value' = [p \in Puesto |-> FALSE] /\ due' = [p \in Puesto |-> 0]
  /\ last_moving' = [w \in Variador |-> FALSE] /\ live_due' = [w \in Variador |-> 0]
  /\ main_due' = 0
  /\ puestos' = [p \in Puesto |-> Absent]
  /\ turned' = FALSE
  /\ deceived' = deceived \cup {p \in Puesto : puestos_key[p] # puestos[p]}
  /\ UNCHANGED <<plantVars, plc_key, noria_key, puestos_key, gone, seen, seen_moving>>

\* The process ends: nothing of it is left but Redis.
Ends == alive /\ alive' = FALSE /\ ForgetAll /\ connected' = {} /\ ticked' = {}

Crash ==
  /\ Fails("crash")
  /\ Ends
  /\ blocked' = 0
  /\ UNCHANGED <<calm, daemon_key>>

\* SIGTERM: the workers leave their loops without a word, the main thread says goodbye.
Shutdown ==
  /\ "crash" \in Faults
  /\ Ends
  /\ SayDaemon(FALSE)

\* A new process: the breaker closed, the state of the previous one adopted.
Seeded(stations) == [p \in Puesto |-> IF p \in stations THEN puestos_key[p] ELSE Absent]

\* seed reads the hash and removes the stations that are no longer configured.
Start ==
  /\ ~alive /\ alive' = TRUE
  /\ known' \in Topologies
  /\ \/ /\ puestos' = Seeded(known')
        /\ LET ghosts == {p \in Puesto \ known' : puestos_key[p].present}
               n == IF ghosts = {} THEN 0 ELSE 1
           IN \E k \in 0..n :
                /\ Execute(n, k)
                /\ puestos_key' = IF k = 1 THEN Seeded(known') ELSE puestos_key
     \/ /\ Fails("redis")
        /\ blocked' = 0
        /\ UNCHANGED <<puestos, puestos_key, calm>>
  /\ main_due' = MainEvery
  /\ UNCHANGED <<plantVars, workerVars, plc_key, daemon_key, noria_key, gone, turned,
                 seen, seen_moving, deceived>>

Next ==
  \/ \E p \in Puesto : Relay(p)
  \/ Pass
  \/ \E w \in Plc : Connect(w) \/ Disconnect(w) \/ Tick(w)
  \/ DaemonAlive
  \/ Crash \/ Shutdown \/ Start

Spec == Init /\ [][Next]_vars

----
(* What the mirror promises. *)

\* A skipped write of a held relay is made good: once no write has failed for the
\* breaker and a re-assert, every relay the worker saw held reads as held.
HeldIsShown ==
  \A w \in Plc : Live(w) /\ calm > Retry + Reassert =>
    \A p \in Mine(w) : last_value[p] => puestos_key[p].present /\ puestos_key[p].value

\* An exact `since` is the flip that led to the current state, to within a poll: through
\* lost PLCs, restarts and skipped writes, but for two cases: the relay flipped there and
\* back while nobody looked, or the previous process ended before Redis had its copy.
ExactIsTrue ==
  \A w \in Plc : Live(w) =>
    \A p \in Mine(w) \ deceived : puestos[p].exact => puestos[p].since = 2 * seen[p]

\* A worker that polls is shown alive, and so is a running daemon between two turns of its
\* supervisor; a worker that is gone is found out by the expiry of its key even when
\* plc_down was skipped.
KeysTellTheTruth ==
  /\ turned /\ calm > Retry + MainEvery => Up(daemon_key)
  /\ \A w \in Plc :
       /\ Live(w) /\ calm > Retry => Up(plc_key[w])
       /\ gone[w] >= Ttl => ~Up(plc_key[w])

\* The line on screen is the line: a skipped sample is made good by the next one, and
\* of a worker that is gone nothing is left but an unknown or a stale reading.
LineIsShown ==
  \A w \in Variador :
    /\ Live(w) /\ calm > Retry + LiveEvery =>
         noria_key.line = IF seen_moving[w] THEN "running" ELSE "stopped"
    /\ gone[w] >= Stale =>
         noria_key.line \in {"unknown", "absent"} \/ noria_key.age = Stale
====
