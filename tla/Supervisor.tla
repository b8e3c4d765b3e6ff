---- MODULE Supervisor ----
(***************************************************************************)
(* The process (__main__.py, runner.py, backoff.py) and its container: the *)
(* start, the threads and their supervision, the order of the stop, and    *)
(* what becomes of the events.  A worker is what PlcWorker models, the     *)
(* writer what Writer does; here they only publish, store and end.  Events *)
(* are counted: the stream and the table are first in, first out.  Redis   *)
(* keeps what it accepted: MAXLEN belongs to Stream and Writer.            *)
(***************************************************************************)
EXTENDS Config, FiniteSets

CONSTANTS
  Environments,  \* environments that the container may be given
  Plc,           \* PLCs that may be in the table
  Mute,          \* those of them with nothing to read
  Tables,        \* contents of the table plcs
  MaxBuffer,     \* PUBLISH_BUFFER_SIZE, in the instance
  MaxPublished,  \* bound: events published
  Faults,        \* kinds of failure that happen: subset of FaultKinds
  MaxFaults      \* bound: failures in a behaviour

FaultKinds == {"redis", "db", "hang", "writer", "kill"}

ASSUME SupervisorAssumption ==
  /\ Environments \subseteq Environment
  /\ Mute \subseteq Plc /\ Tables \subseteq SUBSET Plc
  /\ MaxBuffer \in Nat \ {0} /\ MaxPublished \in Nat /\ MaxFaults \in Nat
  /\ Faults \subseteq FaultKinds

VARIABLES
  env, table,          \* what the container is started with; the rows of plcs
  redis_up, db_up,
  ordered,             \* docker stop: a signal, and no restart after it
  phase, code,         \* where main is, and what it returned
  shutdown,            \* the event shared by all threads
  worker, writer,      \* the threads
  buffer,              \* events in the publish buffer
  stream, stored,      \* events in Redis and not acknowledged; in the database
  published, lost,     \* history: all events, and those no one holds any more
  faults, outage       \* failures so far; history: Redis has been down

hostVars == <<env, table, redis_up, db_up, ordered>>
mainVars == <<phase, code, shutdown>>
threadVars == <<worker, writer>>
eventVars == <<buffer, stream, stored, published, lost>>
faultVars == <<faults, outage>>
vars == <<hostVars, mainVars, threadVars, eventVars, faultVars>>

Idle == [w \in Plc |-> "none"]

TypeOK ==
  /\ env \in Environments /\ table \in Tables
  /\ redis_up \in BOOLEAN /\ db_up \in BOOLEAN /\ ordered \in BOOLEAN
  /\ phase \in {"down", "redis", "topology", "running", "joining", "draining"}
  /\ code \in {"none", "0", "2", "3", "killed"}
  /\ shutdown \in BOOLEAN
  /\ worker \in [Plc -> {"none", "reading", "hung", "done"}]
  /\ writer \in {"none", "loop", "done"}
  /\ buffer \in 0..MaxBuffer /\ stream \in Nat /\ stored \in Nat
  /\ published \in 0..MaxPublished /\ lost \in Nat
  /\ faults \in 0..MaxFaults /\ outage \in BOOLEAN

Init ==
  /\ env \in Environments /\ table \in Tables
  /\ redis_up = TRUE /\ db_up = TRUE /\ ordered = FALSE
  /\ phase = "down" /\ code = "none" /\ shutdown = FALSE
  /\ worker = Idle /\ writer = "none"
  /\ buffer = 0 /\ stream = 0 /\ stored = 0 /\ published = 0 /\ lost = 0
  /\ faults = 0 /\ outage = FALSE

Fails(kind) == kind \in Faults /\ faults < MaxFaults /\ faults' = faults + 1

\* main returns or the process is killed: its threads are daemon threads, its memory goes.
Exit(why) ==
  /\ phase' = "down" /\ code' = why
  /\ worker' = Idle /\ writer' = "none"
  /\ lost' = lost + buffer /\ buffer' = 0
  /\ UNCHANGED <<hostVars, shutdown, stream, stored, published, outage>>

----
(* The start. *)

\* The container is started, by hand or by `restart: unless-stopped`.
Start ==
  /\ phase = "down" /\ ~ordered
  /\ IF Accepts(env) THEN phase' = "redis" /\ code' = "none"
                     ELSE phase' = "down" /\ code' = "2"
  /\ shutdown' = FALSE
  /\ UNCHANGED <<hostVars, worker, writer, eventVars, faultVars>>

\* build_stream, once Redis answers; a refused connection only waits.
BuildStream ==
  /\ phase = "redis" /\ redis_up
  /\ phase' = "topology"
  /\ UNCHANGED <<hostVars, code, shutdown, threadVars, eventVars, faultVars>>

\* The loop of build_stream or of load_topology sees the shutdown event.
GiveUp ==
  /\ phase \in {"redis", "topology"} /\ shutdown
  /\ Exit("0") /\ UNCHANGED faults

Spawn ==
  /\ phase' = "running"
  /\ writer' = "loop"
  /\ worker' = [w \in Plc |-> IF w \in table THEN "reading" ELSE "none"]
  /\ UNCHANGED <<hostVars, code, shutdown, eventVars, faultVars>>

\* load_topology has read the tables, once the database answers.
LoadTopology ==
  /\ phase = "topology" /\ db_up
  /\ \/ shutdown /\ Exit("0") /\ UNCHANGED faults
     \/ ~shutdown /\ table = {} /\ Exit("3") /\ UNCHANGED faults
     \/ ~shutdown /\ table # {} /\ Spawn

----
(* The threads. *)

Hold ==
  IF buffer < MaxBuffer THEN buffer' = buffer + 1 /\ UNCHANGED lost
                        ELSE lost' = lost + 1 /\ UNCHANGED buffer

\* Faulty variant: the event that finds Redis answering waits for the next one.
PublishLate(w) ==
  /\ worker[w] = "reading" /\ w \notin Mute
  /\ published < MaxPublished /\ published' = published + 1
  /\ IF redis_up THEN stream' = stream + buffer /\ buffer' = 1 /\ UNCHANGED lost
                 ELSE Hold /\ UNCHANGED stream
  /\ UNCHANGED <<hostVars, mainVars, threadVars, stored, faultVars>>

\* publish: while Redis answers the buffer is sent, oldest first, and then the event.
Publish(w) ==
  /\ worker[w] = "reading" /\ w \notin Mute
  /\ published < MaxPublished /\ published' = published + 1
  /\ IF redis_up THEN stream' = stream + buffer + 1 /\ buffer' = 0 /\ UNCHANGED lost
                 ELSE Hold /\ UNCHANGED stream
  /\ UNCHANGED <<hostVars, mainVars, threadVars, stored, faultVars>>

\* With a buffer, publish only appends until the next retry is due.
PublishThrottled(w) ==
  /\ worker[w] = "reading" /\ w \notin Mute /\ buffer > 0
  /\ published < MaxPublished /\ published' = published + 1
  /\ Hold
  /\ UNCHANGED <<hostVars, mainVars, threadVars, stream, stored, faultVars>>

\* A worker leaves at the shutdown event, and at once if its PLC has nothing to read.
WorkerEnds(w) ==
  /\ worker[w] = "reading"
  /\ shutdown \/ w \in Mute
  /\ worker' = [worker EXCEPT ![w] = "done"]
  /\ UNCHANGED <<hostVars, mainVars, writer, eventVars, faultVars>>

\* A read of the PLC does not return; it may later.
WorkerHangs(w) ==
  /\ worker[w] = "reading" /\ Fails("hang")
  /\ worker' = [worker EXCEPT ![w] = "hung"]
  /\ UNCHANGED <<hostVars, mainVars, writer, eventVars, outage>>

WorkerReturns(w) ==
  /\ worker[w] = "hung"
  /\ worker' = [worker EXCEPT ![w] = "reading"]
  /\ UNCHANGED <<hostVars, mainVars, writer, eventVars, faultVars>>

\* A batch is stored and acknowledged.
WriterStores ==
  /\ writer = "loop" /\ redis_up /\ db_up /\ stream > 0
  /\ \E n \in 1..stream : stream' = stream - n /\ stored' = stored + n
  /\ UNCHANGED <<hostVars, mainVars, threadVars, buffer, published, lost, faultVars>>

\* After the shutdown event the writer leaves at the first read that returns nothing, or
\* at its deadline; what it leaves in Redis (DrainLeavesNothing in Writer) is for the
\* next process.
WriterLeaves ==
  /\ writer = "loop" /\ shutdown
  /\ writer' = "done"
  /\ UNCHANGED <<hostVars, mainVars, worker, eventVars, faultVars>>

\* An exception that run does not catch, as from the acknowledgement.
WriterDies ==
  /\ writer = "loop" /\ Fails("writer")
  /\ writer' = "done"
  /\ UNCHANGED <<hostVars, mainVars, worker, eventVars, outage>>

----
(* The supervisor. *)

\* Faulty variant: only the workers are watched.
SuperviseWorkers ==
  /\ phase = "running" /\ ~shutdown
  /\ \E w \in Plc : worker[w] = "done"
  /\ shutdown' = TRUE
  /\ UNCHANGED <<hostVars, phase, code, threadVars, eventVars, faultVars>>

\* The loop of main finds a thread that is not alive.
Supervise ==
  /\ phase = "running" /\ ~shutdown
  /\ writer = "done" \/ \E w \in Plc : worker[w] = "done"
  /\ shutdown' = TRUE
  /\ UNCHANGED <<hostVars, phase, code, threadVars, eventVars, faultVars>>

\* The loop ends with the event.
Close ==
  /\ phase = "running" /\ shutdown
  /\ phase' = "joining"
  /\ UNCHANGED <<hostVars, code, shutdown, threadVars, eventVars, faultVars>>

\* Faulty variant: join without a timeout.
JoinWorkersForever ==
  /\ phase = "joining" /\ \A w \in Plc : worker[w] \in {"none", "done"}
  /\ phase' = "draining"
  /\ UNCHANGED <<hostVars, code, shutdown, threadVars, eventVars, faultVars>>

\* The workers have ended, or their common deadline has passed.
JoinWorkers ==
  /\ phase = "joining"
  /\ phase' = "draining"
  /\ UNCHANGED <<hostVars, code, shutdown, threadVars, eventVars, faultVars>>

\* The writer has ended, or its deadline has passed.
JoinWriter ==
  /\ phase = "draining"
  /\ Exit("0") /\ UNCHANGED faults

----
(* The host. *)

\* docker stop: the signal sets the event, and the container stays down.
Stop ==
  /\ ~ordered
  /\ ordered' = TRUE
  /\ shutdown' = (shutdown \/ phase # "down")
  /\ UNCHANGED <<env, table, redis_up, db_up, phase, code, threadVars, eventVars, faultVars>>

\* SIGKILL, from outside or at the end of stop_grace_period.
Kill ==
  /\ phase # "down" /\ Fails("kill")
  /\ Exit("killed")

Redis ==
  /\ \/ redis_up /\ Fails("redis") /\ outage' = TRUE
     \/ ~redis_up /\ UNCHANGED faultVars
  /\ redis_up' = ~redis_up
  /\ UNCHANGED <<env, table, db_up, ordered, mainVars, threadVars, eventVars>>

Db ==
  /\ \/ db_up /\ Fails("db")
     \/ ~db_up /\ UNCHANGED faults
  /\ db_up' = ~db_up
  /\ UNCHANGED <<env, table, redis_up, ordered, mainVars, threadVars, eventVars, outage>>

Next ==
  \/ Start \/ BuildStream \/ GiveUp \/ LoadTopology
  \/ \E w \in Plc : \/ Publish(w) \/ PublishThrottled(w) \/ WorkerEnds(w)
                    \/ WorkerHangs(w) \/ WorkerReturns(w)
  \/ WriterStores \/ WriterLeaves \/ WriterDies
  \/ Supervise \/ Close \/ JoinWorkers \/ JoinWriter
  \/ Stop \/ Kill \/ Redis \/ Db

Spec == Init /\ [][Next]_vars

\* The container is restarted, and main and its threads run; nothing is said of a hung
\* read, nor of Redis and the database.
FairSpec ==
  /\ Spec
  /\ WF_vars(Start) /\ WF_vars(BuildStream) /\ WF_vars(GiveUp) /\ WF_vars(LoadTopology)
  /\ WF_vars(Supervise) /\ WF_vars(Close) /\ WF_vars(JoinWorkers) /\ WF_vars(JoinWriter)

----
(* Properties. *)

\* While Redis answers, no stop, death or kill at any moment loses an event: what is
\* published is in Redis, and leaves it only for the database.  What an outage puts at
\* risk is what the buffer holds, and no counter records it when the process ends.
LostOnlyInOutage ==
  /\ published = stored + stream + buffer + lost
  /\ ~outage => buffer = 0 /\ lost = 0

\* Whatever hangs, a stop that was ordered ends with the container down.
StopEnds == ordered ~> (ordered /\ phase = "down")

\* A dead thread does not leave the process half alive: while Redis and the database
\* answer, all threads run again, if every PLC of the table has something to read.
Threads == phase = "running" /\ writer = "loop" /\ \A w \in table : worker[w] # "done"
Recovers ==
  <>[](redis_up /\ db_up /\ ~ordered) =>
    \/ ~Accepts(env) \/ table = {} \/ table \cap Mute # {}
    \/ <>[]Threads
====
