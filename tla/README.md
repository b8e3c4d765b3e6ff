# Paradas de faena: TLA+ models, model checks and proofs

This directory is the formal companion of the program in `src/`: the daemon
(`src/src/paradas_faena`) that polls the PLCs of a slaughter line and records who
stopped it and for how long, and the web monitor (`src/web`) that shows it live.
Paths below are relative to `src/`.

## 1. The system

| part | state it keeps | operations | talks to |
|---|---|---|---|
| PLC worker, one thread per PLC (`src/paradas_faena/plc/worker.py`) | trackers, connection, tick deadline | connect, resync, tick, disconnect | trackers, line state, event stream, mirror |
| Trackers (`plc/trackers.py`, `live.py:52`) | last counter values, last relay values and write times, last speed, last beat | reset, observe | none: they return events |
| Line state (`state.py`) | running flag and speed with their times | set, invalidate, snapshot with a grace period | shared by all workers, one lock |
| Event stream (`stream.py`) | in-memory buffer, drop counter, retry time | publish, flush_buffer, read_pending, read_new, ack, reject | Redis; shared by all workers and the writer, no lock |
| Writer, one thread (`writer.py`, `db/repository.py`) | connection, `_maybe_pending`, batch | connect, next batch, flush, isolate, ack, drain | event stream, PostgreSQL |
| Live mirror (`live.py`) | authoritative relay states, breaker | seed, tick, plc_down, daemon_alive, daemon_down | Redis keys with a TTL; shared by all workers and the main thread |
| Configuration (`config.py`) | the settings, frozen | read, parse, refuse | the environment; all other parts are built from it |
| Supervisor (`__main__.py`, `runner.py`, `backoff.py`) | shutdown event, threads | start-up, watch, stop in order | everything above; the container restarts the process |
| Stop file watcher (`session.py`) | days processed, last sizes | check, parse, publish | event stream (its thread is commented out) |
| Feed and mirror reader (`web/espejo`) | cursor, client queues | read loop, broadcast, subscribe, read mirror | Redis, browsers |
| Monitor services (`web/monitor`) | cached totals | snapshot, poller, heartbeat, translate | feed, mirror reader, PostgreSQL |
| Monitor page (`web/static/js/monitor.js`) | what the screen shows | apply snapshot, delta, heartbeat | server-sent events |
| Reporting (`reporting/*.sql`, `queries/*.sql`) | none: views and queries | segments, stops, merged stops, slots, the shift, the line's stops | the tables the writer fills |

Three flows carry the meaning. *Durable*: a worker publishes an event on a Redis
stream (or buffers it in memory while Redis is down), the writer reads it through a
consumer group and stores it, at least once, and unique keys make that exactly once.
*Live*: the same worker mirrors the last state into Redis keys, with no retry, for the
monitor. *Report*: views turn the stored timeline of relay edges into stops.

### What is hard here

* Many threads share the publish side of the stream without a lock.
* Redis, PostgreSQL and the PLCs fail independently; a call may succeed and its
  answer be lost; the process may be killed between COMMIT and XACK.
* One bad event must not block, nor be blamed on, its neighbours in a batch.
* Entries can be evicted by MAXLEN while they are pending.
* The live path skips failed writes, so what is shown may be stale, and how stale is
  bounded only by what is written again.
* Relay durations are reconstructed from sparse rows: re-asserts bound a live segment
  and anything longer is taken for a gap; windows must see rows from before they open.
* What a browser shows comes by four ways at once (snapshot on connect, deltas,
  heartbeats, fetched snapshots), and none of them carries a version.
* A stop must end whatever hangs, and leave no batch half done.

### What makes each part correct

| part | promise |
|---|---|
| event stream, publish side | an event is lost only by a counted eviction; one worker's order is kept; publish does not stall the poll loop; the buffer drains |
| event stream and writer | nothing storable is acknowledged unstored; no second row; only refused events are parked, and they are parked; every entry settles; a stop leaves no batch half done |
| trackers | a gap never turns into stop counts; the recorded relay timeline is the sampled one; a live segment stays under the cap |
| line state | a stop is never stamped with a reading older than the grace period, and never without one while the PLC is polled and the grace is long enough |
| live mirror | the mirror equals the authoritative copy, or is stale for a bounded time; `since` is exact only when the flip was seen |
| configuration | what is refused; the cap of the reports clears the longest live segment |
| supervisor | a stop ends; nothing is lost unless Redis was out; a dead thread leads to a restart |
| monitor | the screen, once quiet, equals the mirror, or what the daemon told last, outside named gaps; a stopwatch shown as exact is; the expiry of a key reaches the screen |
| reporting | durations equal the measure of the time the relay was held, outside gaps; cutting at midnight, slots and windows loses nothing |

## 2. Plan

In the order of what the system cannot afford to get wrong; all of it is done, except
where it says otherwise:

1. **`Stream`, `Writer`, `Delivery`**: the durable path from Redis to the rows, and the
   abstract specification it implements. Proofs: `WriterProofs`.
2. **`PublishBuffer`**: the other end of the stream, with many threads. Proofs:
   `PublishBufferProofs`.
3. **`PlcWorker`**: one worker and its trackers over integer time, against a PLC that
   moves on its own and ticks that fail half way. Proofs: `PlcWorkerProofs`.
4. **`LiveMirror`**: workers, the breaker, restarts and `seed`. Proofs:
   `LiveMirrorProofs`. Left: an abstract specification of a mirror that is stale for a
   bounded time.
5. **`LineState`**, which composes with `PlcWorker` and refines it. Proofs:
   `LineStateProofs`.
6. **`Config`** and **`Supervisor`**, which uses it: start, supervision, order of the
   stop, restart. Proofs: `SupervisorProofs`.
7. **`Screen`** and **`Monitor`**, which uses it: the feed, the poller, the heartbeat
   and a page. Proofs: `MonitorProofs`.
8. **`Views`** and **`Reporting`**, which uses it: views and queries as pure operators
   over rows that a state machine writes. Proofs: `ReportingProofs`. Left: rewired inputs
   (versions).

Modules are used like this (an arrow is EXTENDS or a refinement):

    Stream <- Writer -> Delivery      Stream <- PublishBuffer
    PlcWorker <- LineState            Config <- Supervisor
    Screen <- Monitor                 Views <- Reporting

The parts that are modelled apart meet at promises: what `PublishBuffer` hands to Redis
is what `Writer` reads; `Supervisor` takes a worker and the writer for what their own
modules say; `Monitor` sees of the daemon what `LiveMirror` writes; `Reporting` lets a
held relay wait for its next row no longer than `SegmentUnderCap` of `PlcWorker` allows,
which is a theorem.

## 3. The modules

### Stream

The Redis stream with one consumer group and one consumer, as `stream.py` drives it.
An entry is its position in the sequence `stream`; `delivered` is the group's last
delivered id, `pel` its pending list, `trimmed` how far MAXLEN has evicted, `parked`
the rejected stream. Redis itself is external: its operators are modelled from the
arguments of the calls in `stream.py`. XADD trims approximately, so any amount up to
the excess may go; pending entries that were evicted come back without fields and are
acknowledged as unreadable.

### Writer

One action per stretch of `writer.py` between two calls to Redis or PostgreSQL, with
the outcomes the call can have.

| action | code |
|---|---|
| `Connect` | `_connect` |
| `ReadPending`, `ReadNew`, `ReadNothing` | `_next_batch`, and the acknowledgement of unreadable entries in `_read` |
| `ReadReplyLost` | the `RedisError` branch of `run`, or the client library's own retry |
| `Flush`, `FlushFails` | `_process_batch`, `_flush`: one transaction, refused as a whole or committed; a lost connection leaves open whether it was committed |
| `IsolateCommit`, `IsolateSplit`, `IsolateReject`, `IsolateRejectFails`, `IsolateFails` | one turn of the loop in `_isolate`, by outcome |
| `Ack`, `AckFails` | the acknowledgement at the end of `_process_batch` |
| `Shutdown`, `ReadNothing`, `GraceExpires`, `Crash`, `Restart` | the signal, the first empty read after it, the deadline in `run`, the end of the process, a new process |
| `Publish` | any reader |

Every failure is an action that consumes one unit of a budget, `MaxFaults`, and
belongs to a kind; `Faults` names the kinds a run allows, so a property can be stated
for exactly the failures it survives. Rows are counted per event: `Insert` is every
`insert ... on conflict do nothing` of the repository. `Bad` events are those the
database refuses, `Poison` entries those `from_json` cannot read, `Ephemeral` the live
speed samples the writer throws away.

### Delivery

What the path promises, in four steps: events are accepted, stored once or parked, and
only what was settled (or was never to be stored, or was evicted) is released.
`Writer!DeliversOnce` is its specification under the mapping accepted = stream,
owed = entries not acknowledged, evicted = trimmed.

### PublishBuffer

`publish`, `publish_many`, `_append_to_buffer` and `flush_buffer` by any number of
threads, with a program counter per thread. Python threads switch between bytecodes
of these functions, so the buffer test, the full test, the append, the read of
`buffer[0]`, the XADD, and the `popleft` are steps of their own. An XADD succeeds,
fails, or is applied with its answer lost. `Publish` begins the call (the
event is numbered by its worker), `CheckRetry` looks at the throttle, `RetryElapses`
is the clock reaching it.

### PlcWorker

One worker, its PLC and its trackers. Time is an integer, as fine as one likes; relays and
registers move at any moment (`Relay`, `Pulse`, `Wipe`), the converter from one instant to
the next (`Line`), and the worker sees them at its ticks.

| action | code |
|---|---|
| `Connect`, `Resync` | `run` up to the poll loop, `_resync` |
| `Tick` | a complete turn of `_poll_loop`: `_tick`, then the next deadline (`Reschedule`) |
| `TickFails` | an exception after the tracker `stage` has observed and `k` of its events went out (`TickFailsAt`) |
| `Disconnect` | a failed read, or the end of the process |
| `Pass` | the clock; a due tick is read within `Jitter` |

`Edge`, `Delta`, `StatusDue`, `SpeedDue` and `BeatDue` say what each tracker emits,
`Observe` how they move, `Publish` what of it reached the stream. `unset` names the
trackers that have observed nothing since their reset. A missing input (the warning in
`InputTracker.observe`) cannot occur: `PlcClient.read` returns all names or raises. The
tolerance of the speed deadband is exact here, because frequencies are integers.

### LiveMirror

All workers, the main thread and Redis as the mirror sees it. Time passes in units of a
poll (`Pass`), in which each connected worker ticks once. A pipeline is not a
transaction: `Flush(n, k)` says that of its `n` commands the first `k` arrived, all of
them, none while the breaker is open, any number when it fails. Instants are abstract:
`Instant(p)` says which flip of the relay a tick follows and whether to within a poll,
which is what `since` and `exact` are about. `Relay` leaves out what no poll can see, a
blip between two ticks of one connection. `deceived` collects the stations about which
the mirror had no chance: see section 7. `Seeded` and `Start` are `seed`; the configuration
may have changed. Flushes are atomic and take no time; the worst a real one does, half
a second each for two threads at once, does not move the breaker's end.

### LineState

`state.py` beside the worker of the PLC that drives the line: every action is one of
`PlcWorker`, taken whole, that also writes the line state. A tick writes the status as it
begins (`LineTick`), then publishes the status edge, and only then writes the speed
(`WriteVelocity`): `handling` says that it is between the two, where a Redis that does not
answer holds it up for as long as `Stalls` allows. `LineTickFails` ends in either part, and
`OnDisconnect` comes some time after the failed read. Another worker stamps its stops with
`Snapshot` at any moment, the one between the two writes included, by its own clock: `Clock`
is what that may say (`Lag` behind).

### Config

`load_config` as operators on an environment: a raw value is a kind and a number. `Given`
is the fallback to the old names, `WholeOK`, `RealOK` and `BoolOK` what a value must be,
`ReassertTooShort` and `TtlTooShort` the checks between settings, `Accepts` all of it,
`MaxSegment` the cap of the reports. Times are in twentieths of a second, the finest
minimum in the code.

### Supervisor

`main` from its start to its return, its threads, and the container around it. Events are
only counted, because the stream and the table are first in, first out.

| action | code |
|---|---|
| `Start`, `BuildStream`, `LoadTopology`, `GiveUp` | `main` up to the threads, with the retries of `build_stream` and `load_topology`; exit codes 2, 3, 0 |
| `Publish`, `PublishThrottled` | a worker publishes with Redis up, or down, or before the next retry |
| `WorkerEnds`, `WorkerHangs`, `WorkerReturns` | the end of a worker (at once if its PLC has nothing to read), a read that does not return |
| `WriterStores`, `WriterLeaves`, `WriterDies` | the writer's loop, its end after the shutdown event, an exception |
| `Supervise`, `Close`, `JoinWorkers`, `JoinWriter` | the loop of `main` and the joins with their deadlines |
| `Stop`, `Kill`, `Redis`, `Db` | the host |

A join may end before its thread does (its deadline), so `JoinWorkers` has no guard on the
threads. Nor has `WriterLeaves` a guard on the stream: the writer leaves at the first read that
returns nothing, which is no proof that Redis is empty. What it does leave is a question for
`Writer`, whose `DrainLeavesNothing` answers it.

### Screen and Monitor

`Screen` is the state of `monitor.js` and what a snapshot, a delta, a heartbeat and a broken
connection make of it. `Monitor` is the rest of the way: XADD and the feed's XREAD with its
cursor, the translation that drops what the cache does not know, the bounded queue of one
browser, the poller, the heartbeat, the snapshot at the start of the stream and the one
fetched on `resync`, the reload of the page, the start and the crash of the web process. Of
the daemon it keeps what can be seen from outside.

| action | code |
|---|---|
| `Change`, `Reassert`, `ResyncOne` | what a tick publishes; `owed` is what it has yet to mirror |
| `Mirror`, `MirrorSkips` | `LiveMirror.tick` at the end of the same tick: its pipeline goes through; or it is skipped, because the breaker is open, or fails with any part of the edges written. `kept` is `_puestos`, which advances either way |
| `PlcDown`, `PlcStillDown` | `plc_down` after each attempt that fails, written, cut or skipped |
| `KeyExpires`, `PlcBack` | the end of a TTL, also under a worker whose writes are skipped; the reconnection |
| `Deliver`, `ReadFails`, `Refresh` | the read loop of the feed, the poller |
| `Heartbeat`, `Pulse` | the read of the mirror, and the broadcast of what was read |
| `Subscribe`, `SendSnapshot`, `SendFrame`, `Answer` | the stream view and the snapshot view |
| `Receive`, `ApplyAnswer`, `FetchFails`, `Drop`, `Reload` | the page |

`wrong` is the history that makes the promise precise. The page has no versions, so there
are moments at which an item may be left false on a screen with nothing on its way to
correct it; each action that opens such a gap adds to `wrong` (`Spoil`), and the frame or
snapshot that closes it takes away (`Left`). What a screen is held to is the mirror, or
`Posted`, what the daemon told last: where the write of the mirror was skipped, a browser that
saw the edge and one that read the mirror show different things, and neither is corrected
until the relay moves again. `Stale` is the mirror that is behind in this way: whoever reads it
may date the next re-assert as a start, so the start of that stop is not to be trusted.
`QuietScreenIsTrue` and `ChronoIsHonest` say that there are no other gaps. Section 7 lists them.

### Views

The views and queries, CTE by CTE, on the rows of one source: a function from instants to
values. `Lead` and `Lag` are the window functions, `Retention` is `v_input_segmento` in sum,
`Stops` is `v_parada`, `Fused` `v_retencion_fusionada`, `InSlot` `v_parada_franja`,
`StopsToday` `v_monitor_hoy`, `StoppedOver` `v_noria_parada`; `TimeHeld` and
`TimeHeldRunning` are the two parameterised queries of stop time.

### Reporting

How the tables come to hold their rows: `Return` is a PLC that answers (a row for every
source, whatever it reads), `Flip` an edge, `Repeat` a re-assert, `Lose` a PLC that does not
answer any more, `Pass` the clock, which does not run past a re-assert that is due. `seen`
records what was really read in every unit of time, and `starts` when a stop was first seen:
the properties compare the views with these two, at every instant of every timeline.

## 4. The runs

| run | instance | what it shows |
|---|---|---|
| `writer_safety` | three entries of five kinds of event, batches of 2, MAXLEN 2, all six kinds of failure, three of them | the safety properties under everything at once |
| `writer_isolate` | batches of up to four entries, connection failures, failed acknowledgements, crashes, stops | the pending list is exactly the batch in hand; refused events end up parked; a writer that leaves at an empty read has acknowledged all it was given; the refinement of `Delivery`; every entry settles |
| `writer_stranded` | one lost answer | disagreement 1 of section 7 |
| `buffer_single` | one thread, buffer of 3, four events, three failures | loss is counted, order kept, one failed call per retry interval; the buffer drains when Redis is back |
| `buffer_race` | two threads, buffer of 4 | disagreement 2 |
| `worker_stations` | one station, poll 1, re-assert 3, slack 2, ticks late by 1 and held up by 2, a register up to 1, eight units | the record is what was read, live segments and beats stay under the caps, published stops never exceed the real ones |
| `worker_line` | the PLC that drives the line, three frequencies, no slack, a clock that lags by 1 | speed samples stay under the cap; a stop is stamped with the last two readings of this connection, or with nothing; with a status, and a speed if the grace is twice the longest wait, while the PLC is polled, also when a tick is held up between the two writes |
| `mirror_relay` | one worker with the line and one station or none, one failure of PLC, Redis or process, two flips | held relays, the line and liveness keys recover in bounded time, an exact `since` is the flip, a daemon that runs is shown running |
| `supervisor_stop` | ten environments, three tables of two PLCs (one with nothing to read), three failures of five kinds, three events, a buffer of two | without an outage nothing is lost; a stop ends; a dead thread leads to a full restart |
| `monitor_screen` | a station and the line on two PLCs, one browser with a queue of one, two flips or re-asserts, one failure of seven kinds: a read, the database, a PLC, a key that expires under a worker that polls, a mirror write, the connection, the process | a quiet screen agrees with the mirror or with what was told last, outside the named gaps; a stopwatch shown exact is; the expiry and the return of a key reach the screen |
| `report_views` | two stations or the line, eight units over a day of six, slots of three, cap 4 | the seven properties of the views |
| `report_running` | a station and the line, cap 2, one hour = 3 units | disagreement 3 |

**Bounds.** A batch of four is the smallest that `_isolate` splits twice, with a refused
event in either half and two refused in the same one; three entries with MAXLEN 2 is
the smallest stream from which an entry is evicted while undelivered and while
pending. Three failures allow a failure in the retry of the retry of a batch; the
states after that repeat those before (the budget apart). A buffer of three has a head
in flight, a middle, a tail, and an eviction that hits any of them; two threads are enough for every
pairwise race on `buffer[0]`, and the code has no step that counts threads.
In `PlcWorker` the unit is half a second: the slack of one second is two units, a
publish on a dead Redis (two seconds) is four, and eight units hold a connection, a
re-assert, a late tick that moves the deadlines, and the re-assert after it. The theorems
of section 5 lift every one of these bounds, as they do those of `LineState` and of
`Supervisor`. In `LiveMirror` all timers are countdowns, so time itself has no bound; one
failure and two flips are bounded, and the periods are short (breaker 2, re-assert 2, TTL 3)
but distinct where the code compares them. Two flips are what it takes to deceive `since`.

In `Supervisor` the two PLCs are one that publishes and one that cannot; a buffer of two
overflows with the third event. In `Monitor` every buffer holds one frame, so that each
overflows at once, and two items on two PLCs tell a station whose PLC is gone from the line
that goes on. `MaxSaid` bounds flips and re-asserts, `MaxFetch` the snapshots a page waits for.
One failure is enough to open every gap that the model names. To keep the states of all seven
kinds within one run, `Cost` says how many flips or re-asserts a failure takes the place of:
none for a skipped mirror write, whose harm is in the flips around it; two for a PLC that goes
away, because it says everything again when it returns; one for the others. The station may be
held at the start, so that one flip ends a stop and a re-assert alone can be seen. Two failures
in a row, as a skipped write before a reconnection, and more flips beside a failure, are the
theorems' business. In `Reporting` a
timeline of eight units crosses a midnight (day of six), three slots and the start of a
shift, a capped segment ends before, at and after each of them, and the window of a query
opens everywhere. `MaxRows` and `MaxLosses` are per source: three rows and a loss are a
stop, a gap and what follows it; one row on the other station is enough to overlap, touch
or contain. `Casts` says which sources answer together, because a property of the line looks
at no station.

**Fairness.** `Writer!FairSpec` is weak fairness of the writer thread's step, which the
interpreter gives a runnable thread, and of `Restart`, which the container's
`restart: unless-stopped` gives. The fault budget is the assumption that failures end:
without it the code rightly retries for ever. `PublishBuffer` assumes the same of each
worker's steps and of the clock. `Supervisor` is fair to `main` (whose waits all have a
timeout) and to the restart, and to no worker: `StopEnds` holds with a read that never
returns. `Recovers` assumes in its statement that Redis and the database are up in the end.
`Monitor` is fair to the web process (its start, and its heartbeat, which nothing disables for
long) and to the browser's side of the event loop (stream, answers, the page, the EventSource
that reconnects by itself); not to the poller nor the daemon, on which `KeysReachTheScreen`
does not depend.

## 5. What is proved

The TLA+ proof system checks these for all values of the constants; the only assumptions
are the named ones in the modules, which say that the constants have their types and what
the configuration validates, and those given with each theorem. Type invariants that are
proved are not repeated in the runs, the monitor's apart.

* `WriterProofs` proves `WriterInv` inductive, and from it `TypeOK`, `AckedIsStored`,
  `NoDoubleRow` and `OnlyRefusedAreParked`; and `AckedRefusedIsParked` when writes to
  the rejected stream do not fail.
  *Why an invariant is needed*: that acknowledged entries are stored says nothing of a
  batch in the middle of an isolation. `BatchCovered` does: each entry of the batch is
  settled, or is in some part still on the stack; so when the stack is empty, all are
  settled, and the acknowledgement preserves `AckedIsDone`. `BatchShape` ties the batch
  to the pending list, so that a failure that empties the batch forgets nothing.
* It proves `PendingIsTheBatch` when no answer to a read is lost: the
  invariant adds that the flag is set whenever something is pending between batches,
  and that a pending list fits in one batch; this is what makes it safe to clear the
  flag after a window in which nothing was readable.
* Under the same assumption it proves `DrainLeavesNothing`: with nothing undelivered
  (`NothingNew`) or nothing readable behind the batch, a pending list that is the batch is
  empty when the batch is.
* It proves the refinement `Spec => DeliversOnce` when writes to the
  rejected stream do not fail: `AckedIsDone` before the step gives each release its
  justification in the abstract specification.

* `PlcWorkerProofs` proves, for all periods, deadbands, frequencies and numbers of
  stations and from `WorkerAssumption` alone, `TypeOK`, `RecordIsSampled` and
  `NeverOvercounts`; and the three caps from the further assumption `Timely`, that a
  read ends within the slack and that publishing never holds up a tick for longer than
  a poll and the slack together.
  *The argument*: `Remembered` says that between ticks the trackers are either all
  fresh or all hold what was last published, which is why a half-done tick does no
  harm: it always ends the connection. `OnTime` bounds the next tick by the last write
  of each tracker; the caps follow by arithmetic. `CountsWithin` strengthens
  `NeverOvercounts` with the distance between the register now and the register read.

* `PublishBufferProofs` proves `TypeOK` for any number of threads: the buffer never outgrows
  its bound and nothing but events gets into it, race or no race. For a single thread, any
  buffer and any number of events and failures, it proves `OneFailurePerInterval`,
  `LossAccounted` and `InOrder`.
  *The argument*: `Alone` says, point by point of the code, what a thread that nobody
  disturbs may rely on (the event it popped is `buffer[0]`, the retry was due). `Sent` adds
  that an event is popped only when it is in the stream; so a step loses nothing but what a
  full deque evicts (`Kept`), and `Counted` says that the counter is ahead of the loss by one
  while an eviction is about to happen. `Ordered` extends `InOrder` to what is yet to be sent:
  the stream, the buffer and the event in hand, in this line, are in the order of publishing,
  because a thread that finds its buffer not empty never sends past it. With two threads `Alone` is what breaks
  (`buffer_race`).
* `LineStateProofs` proves that the worker with the line state implements `PlcWorker`, so
  that every theorem about the worker holds of it too, and then `StampIsFresh`
  and, from `Timely`, `StampIsKnown`. `FromReads` ties the line state to the last two readings,
  by their instants; `Known` says how old each part may be at each point of a tick: between its
  two writes the status is of this tick and the speed of the one before, which is why the
  speed takes twice the grace. `OnTime` of `PlcWorkerProofs` bounds the wait between two ticks.
* `SupervisorProofs` proves `CapClearsSegment` (for every accepted environment but one with a
  "nan", `max_segment` exceeds the longest live segment, rounded up to a poll), and then
  `TypeOK` and `LostOnlyInOutage`, for any environments, tables, buffer and number of failures.
  `Accounted` balances the events over buffer, stream, table and loss through every stop and
  death.

* `LiveMirrorProofs` proves `TypeOK`, `KeysTellTheTruth`, `HeldIsShown` and `ExactIsTrue` for
  any PLCs and stations, all delays and any number of failures and flips, and `LineIsShown`
  where one PLC at most drives the line: of two, which `main` warns about and runs, each
  overwrites what the other says. The delays must satisfy `TimingAssumption`: that the time to
  live outlasts the supervisor's wait is not validated, and without it the daemon's key
  flickers.
  *The argument*: an open breaker means that a write failed less than `Retry` ago (`Breaker`),
  so a write either goes through whole or spoils `calm` (`FlushOutcome`). Each promise then
  becomes one about the countdown of what repeats it: `Renewed`, `TurnShown`, `Asserted` and
  `Sampled` say that once `calm` covers the breaker and what has gone by of the countdown, the
  key is right. For the starts, `Candid` bounds the flips nobody saw by one, so that the parity
  of the flips, which is the relay's value (`Seen`), tells whether one was missed; `True` holds
  of the copy in the process and, once that has ended, of the one in Redis.

* `MonitorProofs` proves `TypeOK`, `QuietScreenIsTrue` and `ChronoIsHonest` for any stations
  and PLCs, any sizes of the feed, the queue and the wire and any number of failures.
  *Why an invariant is needed*: that a quiet screen is right says nothing while frames are on
  their way, and the frames pass through three queues, may overtake a snapshot that is fetched
  apart, and may be replaced by one resync. So the invariant says what a screen may show
  *before* each of them (`Before`): what comes later absolves it. A snapshot
  absolves all that was shown before it, so does a resync, which makes the page fetch one, and
  an edge what was shown of its item. `Honest` is that what each frame on its way leaves on the
  screen is what the frames behind it may find there, `ScreenIsHonest` that the screen is right for its place before them, and
  `AnswerIsHonest` that a fetched snapshot which nothing has overtaken would be right if it were
  applied now. Of the start of a stop the claims are strict: an edge that only repeats the value
  absolves nothing. Empty queues leave the first frame's claim alone, and that is the property.
  At the end of the queues stands what is true now (`End`): for a value, the mirror or what the
  daemon told last, which a skipped write leaves apart (`Widening`: it only makes the claim
  weaker); for a start, neither may have been read from a mirror that is behind.
  *What it found*: the history variable that notes which answers were overtaken was not set when
  a reconnection sent a newer snapshot, so that an answer from before it, applied after it,
  closed a gap that was still open. The program does that; the model now records it.

* `ReportingProofs` proves `TypeOK` and all seven properties of `report_views`:
  `ReportedIsHeld`, `StopsAreSeen`, `FusedIsUnion`, `SlotsHoldTheirTime`, `MonitorAgrees`,
  `QueryCountsWindow` and `LineStopsAreTrue`, for any stations, cap, slot, shift, number of rows
  and of losses. It assumes that the hour the queries look back is not shorter than the cap
  and not longer than a day (`ViewsAssumption`).
  *The argument* has two halves. `Tracks` is the inductive one, and speaks of rows
  alone: every unit of time that was seen is told by the latest row before it, and by
  one no older than the cap if a station was seen held; and the rows that are the latest
  at some unit nobody saw, or now that nobody is looking (`Broken`), are at most as many
  as the losses, because a source that answers again writes a row. The other half is
  about the views, for any rows whatever, and needs no induction over them: a sum of
  durations is a number of units of time (`Total`, `Partition`), so "nothing is lost or
  counted twice" says that sets of instants are equal; the charge of a row is the
  instants at which it is the latest, up to the cap (`ChargeIs`). A stop is known by
  where it begins and the run of rows that follows (`StopsAre`), whatever number `Grp`
  gives it. That a stretch of `Fused` covers all between its ends follows from the least
  segment that would open another one within it (`FirstOpens`, `StretchCovers`). What
  goes beyond what was seen is covered by a capped interval for each broken row
  (`BeyondSeen`), which bounds the report and the query alike. For the monitor, leaving
  rows out changes a stop of the shift only if it changes what precedes one of its rows
  (`SameStops`); that row was then held, lost, and silent for a day but the cap.

Model-checked only: liveness (`EveryEntrySettles`, `BufferDrains`, `StopEnds`, `Recovers`,
`KeysReachTheScreen`), which this prover does not reach under fairness. Every invariant, action
property and refinement that a run expects to hold is proved, from the assumptions named above.

## 6. Not modelled, and why

* The writer's rows are keyed by event; the content of a row and the conversion to and
  from JSON are abstract. The update of `generales` (last write wins) belongs to the
  stop file, whose thread is commented out.
* `_rollback` and `_drop_connection` are taken not to raise: the repository's methods
  swallow the driver's errors.
* Redis keeps what it accepted. With `appendfsync everysec` a crash of the Redis host
  can lose the last second; nothing in the code handles that, so nothing is claimed.
* Time in the backoff, the statistics line and `pending_count` only feed waiting and
  logging.
* The wall clock, which stamps events, and the monotonic clock, which times polls, are
  one clock in `PlcWorker`: a step of the wall clock is not modelled.
* What an event carries besides its meaning (versions, stamps of the line state,
  velocities) is abstract.
* The stop file watcher (`session.py`): its thread is commented out (`__main__.py:179`), and
  with it the update of `generales`.
* In `Supervisor`, time: the joins and the backoff end at some moment. "inf" as a value of
  the environment, free texts (URLs, names of keys), the log.
* In the monitor, what is drawn, the offset of the clocks, the contents of the totals of the
  day, `healthz`, the rendered page and several browsers (they share nothing but the feed).
* In the reports, joins with production, sessions and the catalogue, counts of requests,
  speed and coverage, which are sums and joins over rows; rewired inputs (`v_input_segmento`
  partitions by address and tag, so a new version goes on where the old one ended); and the
  loss of rows on their way to the table, which is the
  subject of `Writer` and `Supervisor`.
* In the monitor, a mirror write that lands after its client has given up on it; and a tick
  that fails half-way after publishing, which is in `PlcWorker`: here its PLC has answered and
  the tick goes on to the mirror.
* Schema and migrations (their keys are `Insert` and `Bad` in `Writer`), Django models and
  settings, command-line tools and the legacy program hold no behaviour of their own.

## 7. Where the code and its word differ

With a run that shows it:

1. After an XREADGROUP whose answer is lost, the entries are pending and the writer
   does not know; nothing reads them until a connection fails or the process restarts
   (`writer_stranded`).
2. `flush_buffer` sends `buffer[0]` and pops whatever is first afterwards. Two threads
   that flush at once send one event and remove two (`buffer_race`). With
   `InOrder` in place of `LossAccounted` the same configuration shows that an event in
   flight is overtaken by one that another thread sends; and a thread that finds the deque
   emptied by another has its `popleft` raise out of `publish` into the poll loop.
3. `tiempo_parada_noria_en_marcha.sql` filters the edges of the line to one hour before the
   window and only then applies `lead()`: a line that has run for longer than that counts as
   stopped until its next edge (`report_running`). `validacion_rele_vs_noria.sql:53` has the
   same order.
Met while modelling, each a precondition or an exception in the models, without a run:

* *Worker.* While Redis does not answer, publishing holds up a tick for two seconds; the next
  re-assert comes later than `max_segment` (`config.py:221-241`) allows, and the cap cuts a
  live segment. This is the assumption `Timely`.
* *Writer.* `writer.py:208-209` says that what cannot be stored is parked; a failure of Redis
  inside `reject` is swallowed (`stream.py:164`) and the batch acknowledged, so the refused
  event is nowhere. `AckedRefusedIsParked` excludes that failure. A failure of Redis at the
  acknowledgement (`AckFails`) ends the writer thread, and through the supervisor the
  process.
* *Mirror.* `live.py:6-7` says of the writes that it skips that `REASSERT_SECONDS` bounds the
  error. Only held relays are re-asserted (`trackers.py:141-152`): one that goes free while
  the breaker is open reads as held until it moves again, its PLC reconnects or the daemon
  starts anew, which is why `HeldIsShown` is about held relays. `ExactIsTrue` leaves out
  `deceived` stations: a relay that flips there and back while its PLC is away keeps its
  old start, marked exact (`live.py:195-196`); and after a skipped write and a restart,
  `seed` adopts a state that had ended. A TTL of one second would make the daemon's key blink,
  which is renewed once a second and only compared with the poll (`config.py:288`).
* *Line state.* Nothing validates `STATUS_GRACE_SECONDS` (minimum 0) against `POLL_SECONDS`:
  `StampIsKnown` has it as a precondition. The status edge is published between the two writes
  of a tick (`worker.py:171`): while Redis does not answer, status and speed are of different
  readings and the speed is older than the tick; the first tick of a connection has none.
* *Configuration.* `float("nan")` passes every minimum (`config.py:57`), an initial backoff
  above the maximum is accepted, a deadband of 0 too (`WorkerAssumption` wants 1), and an
  empty `DB_HOST` hides the old `HOST`.
* *Supervisor.* The writer leaves at the first empty read, which may be before the readers
  have stopped, although `__main__.py:200` stops the readers first: what they publish then
  waits in Redis for the next run. The in-memory buffer dies with the process, uncounted. A
  PLC with nothing to read ends its thread, and the process restarts for ever. The joins add
  up to more than the compose file's `stop_grace_period`.
* *Feed.* After a failed XREAD the cursor goes back to `$`, and the gap is never told to the
  browsers that stayed connected (`redis.py:205-207`); between two blocks, before the first
  entry, `$` misses entries as well. A snapshot read between XADD and the write of the mirror
  is older than the edge that went before it; one queued before it is applied after it.
* *Mirror and screen.* A relay that goes free while the breaker is open is shown free by the
  browsers that saw the edge, and held by the mirror and by those that connect later, until it
  moves. A browser that reads a mirror which missed a flip dates the next re-assert as a start
  and marks it exact (`monitor.js:234-236`); and where the mirror missed two, it keeps an
  earlier start. `Stale` and `Posted` name these cases.
* *Heartbeat.* What it says was read before its broadcast (`services.py:209-211`), and may be
  older than the edges and snapshots it follows. A key that blinks, or a mirror that cannot be read once, greys all stations of
  that PLC; the ones that are held come back with the next re-assert, as a stop that begins
  now and is marked exact (`monitor.js:236`), the free ones not before they move. An edge of
  a dead PLC that arrives after the heartbeat shows it again. The heartbeat never touches the
  line (`services.py:117`).
* *Page.* The snapshot fetched on `resync` races the deltas that follow it; a rejected fetch
  is not repeated (`monitor.js:259`). A browser that connects before the first totals has no
  stations, and a catalogue that could not be read at the start is not read again, whatever
  the comment in `asgi.py:23` says.
* *Reports.* Check 4 of `verificacion.sql` can fail, because `v_parada` and
  `v_retencion_fusionada` decide by different starts what belongs to the working day; check 11
  fails after a held station was not polled for a day (`Silent` in `MonitorAgrees`).
  `tiempo_parada_por_puesto.sql` clips to the window before it caps, so a gap that straddles
  two windows is charged a cap in each. The hour it looks back is not validated against
  `REASSERT_SECONDS` (`ViewsAssumption`).
