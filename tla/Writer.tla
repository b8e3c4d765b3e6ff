---- MODULE Writer ----
(***************************************************************************)
(* The database writer: writer.py and the insert statements of             *)
(* db/repository.py, reading the stream of module Stream.  One thread:     *)
(* each action is the stretch between two calls to Redis or PostgreSQL,    *)
(* with the outcomes the call can have.  The readers are the action        *)
(* Publish; module PublishBuffer has their side.                           *)
(***************************************************************************)
EXTENDS Stream

CONSTANTS
  Bad,         \* events PostgreSQL refuses (a foreign key, a value out of range)
  Poison,      \* entries that from_json cannot read
  Ephemeral,   \* LiveSpeed while PERSIST_LIVE_SPEED is off: discarded, never stored
  BatchMax,    \* batch_max_events
  MaxStream,   \* bound: entries appended in a behaviour
  Faults,      \* the kinds of failure a behaviour may meet
  MaxFaults    \* bound: failures in a behaviour

FaultKinds == {"read", "db", "ack", "reject", "crash", "stop"}

ASSUME WriterAssumption ==
  /\ Bad \subseteq Event
  /\ Poison \subseteq Event
  /\ Ephemeral \subseteq Event
  /\ Bad \cap Poison = {} /\ Bad \cap Ephemeral = {}
  /\ BatchMax \in Nat \ {0}
  /\ MaxStream \in Nat
  /\ Faults \subseteq FaultKinds
  /\ MaxFaults \in Nat

VARIABLES
  pc,             \* where the writer thread is
  conn,           \* self._repo is not None
  maybe_pending,  \* self._maybe_pending
  batch,          \* entries of the batch being processed
  parts,          \* _isolate's stack of sub-batches, top first
  rows,           \* how many rows the database holds for each event
  draining,       \* the shutdown event is set
  faults          \* failures so far

writerVars == <<pc, conn, maybe_pending, batch, parts, rows, draining>>
vars == <<streamVars, writerVars, faults>>

Storable == Event \ (Bad \cup Poison \cup Ephemeral)

TypeOK ==
  /\ StreamTypeOK
  /\ pc \in {"loop", "flush", "isolate", "ack", "dead", "exited", "expired"}
  /\ conn \in BOOLEAN
  /\ maybe_pending \in BOOLEAN
  /\ batch \subseteq 1..delivered
  /\ parts \in Seq(SUBSET batch)
  /\ rows \in [Event -> Nat]
  /\ draining \in BOOLEAN
  /\ faults \in Nat

Init ==
  /\ StreamInit
  /\ pc = "loop"
  /\ conn = FALSE
  /\ maybe_pending = TRUE
  /\ batch = {}
  /\ parts = << >>
  /\ rows = [e \in Event |-> 0]
  /\ draining = FALSE
  /\ faults = 0

Fault(kind) ==
  /\ kind \in Faults
  /\ faults < MaxFaults
  /\ faults' = faults + 1

NoFault == UNCHANGED faults

\* An entry decodes unless its payload is unreadable or MAXLEN took it while
\* it was pending, in which case Redis answers with no fields at all.
Readable(i) == i > trimmed /\ stream[i] \notin Poison

----
(* Reading a batch: run and _next_batch. *)

Idle == pc = "loop" /\ conn

BeginBatch(entries) ==
  /\ batch' = entries
  /\ pc' = "flush"
  /\ UNCHANGED <<conn, parts, rows, draining>>

NoBatch(next) ==
  /\ pc' = next
  /\ UNCHANGED <<conn, batch, parts, rows, draining>>

\* _connect; a refused connection leaves everything as it is.
Connect ==
  /\ pc = "loop"
  /\ ~conn
  /\ conn' = TRUE
  /\ UNCHANGED <<streamVars, pc, maybe_pending, batch, parts, rows, draining>>
  /\ NoFault

\* Faulty variant: acknowledges the whole window before it is written.
ReadPendingAcksAll ==
  /\ Idle
  /\ maybe_pending
  /\ LET window == PendingWindow(BatchMax)
         readable == {i \in window : Readable(i)}
     IN /\ ack(window)
        /\ maybe_pending' = (readable # {})
        /\ IF readable = {} THEN NoBatch("loop") ELSE BeginBatch(readable)
  /\ NoFault

\* Faulty variant: _next_batch returns what the pending list gave, readable or not, and
\* a draining writer takes that for an empty stream.
ReadPendingReturns ==
  /\ Idle
  /\ maybe_pending
  /\ LET window == PendingWindow(BatchMax)
         readable == {i \in window : Readable(i)}
     IN /\ ack(window \ readable)
        /\ maybe_pending' = (readable # {})
        /\ IF readable = {} THEN NoBatch(IF draining THEN "exited" ELSE "loop")
                            ELSE BeginBatch(readable)
  /\ NoFault

\* With nothing readable in the window the flag is cleared and _next_batch
\* goes on to read_new, the step the loop takes next.
ReadPending ==
  /\ Idle
  /\ maybe_pending
  /\ LET window == PendingWindow(BatchMax)
         readable == {i \in window : Readable(i)}
     IN /\ ack(window \ readable)
        /\ maybe_pending' = (readable # {})
        /\ IF readable = {} THEN NoBatch("loop") ELSE BeginBatch(readable)
  /\ NoFault

ReadNew ==
  /\ Idle
  /\ ~maybe_pending
  /\ LET window == NewWindow(BatchMax)
         readable == {i \in window : Readable(i)}
     IN /\ window # {}
        /\ Deliver(window, window \ readable)
        /\ IF readable # {} THEN BeginBatch(readable)
           ELSE NoBatch(IF draining THEN "exited" ELSE "loop")
  /\ UNCHANGED maybe_pending
  /\ NoFault

\* The block time passes with nothing new; a draining writer is done then.
ReadNothing ==
  /\ Idle
  /\ ~maybe_pending
  /\ NewWindow(BatchMax) = {}
  /\ NoBatch(IF draining THEN "exited" ELSE "loop")
  /\ UNCHANGED <<streamVars, maybe_pending>>
  /\ NoFault

\* Redis did what it was asked, and the answer (or the answer to the ack of
\* the unreadable entries) never arrived: run sees a RedisError, or the client
\* library retries by itself, and reads again with maybe_pending as it was.
ReadReplyLost ==
  /\ Idle
  /\ IF maybe_pending
     THEN ack({i \in PendingWindow(BatchMax) : ~Readable(i)})
     ELSE LET window == NewWindow(BatchMax)
          IN /\ window # {}
             /\ \E acked \in {{}, {i \in window : ~Readable(i)}} : Deliver(window, acked)
  /\ NoBatch("loop")
  /\ UNCHANGED maybe_pending
  /\ Fault("read")

----
(* Writing a batch: _process_batch, _flush, _isolate. *)

\* Faulty variant: plain inserts, with no ON CONFLICT clause.
InsertAgain(entries) ==
  [e \in Event |->
     IF e \in Storable THEN rows[e] + Cardinality({i \in entries : stream[i] = e}) ELSE 0]

\* One transaction with every insert of the batch; ON CONFLICT DO NOTHING.
Insert(entries) ==
  [e \in Event |->
     IF rows[e] = 0 /\ e \in Storable /\ \E i \in entries : stream[i] = e
     THEN 1 ELSE rows[e]]

Accepts(entries) == \A i \in entries : stream[i] \notin Bad

\* Faulty variants: no return after the failure, so that the batch is
\* acknowledged; maybe_pending left as it was.
ConnectionLostThenAck(entries) ==
  /\ conn' = FALSE
  /\ maybe_pending' = TRUE
  /\ parts' = << >>
  /\ pc' = "ack"
  /\ UNCHANGED <<streamVars, batch, rows, draining>>
  /\ Fault("db")

ConnectionLostForgets(entries) ==
  /\ conn' = FALSE
  /\ batch' = {}
  /\ parts' = << >>
  /\ pc' = "loop"
  /\ UNCHANGED <<streamVars, maybe_pending, rows, draining>>
  /\ Fault("db")

\* The connection drops before the commit, or during it, when the transaction
\* may have gone through.  Nothing is acknowledged: the pending read that
\* follows the reconnection returns the batch.
ConnectionLost(entries) ==
  /\ \/ rows' = rows
     \/ Accepts(entries) /\ rows' = Insert(entries)
  /\ conn' = FALSE
  /\ maybe_pending' = TRUE
  /\ batch' = {}
  /\ parts' = << >>
  /\ pc' = "loop"
  /\ UNCHANGED <<streamVars, draining>>
  /\ Fault("db")

Flush ==
  /\ pc = "flush"
  /\ \/ /\ Accepts(batch)
        /\ rows' = Insert(batch)
        /\ pc' = "ack"
        /\ UNCHANGED parts
     \/ /\ ~Accepts(batch)
        /\ parts' = <<batch>>
        /\ pc' = "isolate"
        /\ UNCHANGED rows
  /\ UNCHANGED <<streamVars, conn, maybe_pending, batch, draining>>
  /\ NoFault

FlushFails == pc = "flush" /\ ConnectionLost(batch)

\* current[:mid] with mid = len(current) // 2.
LowerHalf(S) == {i \in S : Cardinality({j \in S : j < i}) < Cardinality(S) \div 2}

\* The stack shrinks or splits; once it is empty the whole batch is acknowledged.
Continue(stack) ==
  /\ parts' = stack
  /\ pc' = IF stack = << >> THEN "ack" ELSE "isolate"
  /\ UNCHANGED <<conn, maybe_pending, batch, draining>>

IsolateCommit ==
  /\ pc = "isolate"
  /\ Accepts(Head(parts))
  /\ rows' = Insert(Head(parts))
  /\ Continue(Tail(parts))
  /\ UNCHANGED streamVars
  /\ NoFault

Halve(S) == <<LowerHalf(S), S \ LowerHalf(S)>>

IsolateSplit ==
  /\ pc = "isolate"
  /\ ~Accepts(Head(parts))
  /\ Cardinality(Head(parts)) > 1
  /\ Continue(Halve(Head(parts)) \o Tail(parts))
  /\ UNCHANGED <<streamVars, rows>>
  /\ NoFault

\* Faulty variants: blames any entry of a part that was refused; drops the
\* refused entry instead of parking it.
IsolateRejectAny ==
  /\ pc = "isolate"
  /\ ~Accepts(Head(parts))
  /\ \E i \in Head(parts) : park(stream[i])
  /\ Continue(Tail(parts))
  /\ UNCHANGED rows
  /\ NoFault

IsolateDrop ==
  /\ pc = "isolate"
  /\ ~Accepts(Head(parts))
  /\ Cardinality(Head(parts)) = 1
  /\ Continue(Tail(parts))
  /\ UNCHANGED <<streamVars, rows>>
  /\ NoFault

\* The entry that cannot be stored is parked on the rejected stream.
IsolateReject ==
  /\ pc = "isolate"
  /\ \E i \in Head(parts) :
       /\ Head(parts) = {i}
       /\ ~Accepts({i})
       /\ park(stream[i])
  /\ Continue(Tail(parts))
  /\ UNCHANGED rows
  /\ NoFault

\* reject swallows a RedisError: isolation goes on as if the event were parked.
IsolateRejectFails ==
  /\ pc = "isolate"
  /\ \E i \in Head(parts) : Head(parts) = {i} /\ ~Accepts({i})
  /\ Continue(Tail(parts))
  /\ UNCHANGED <<streamVars, rows>>
  /\ Fault("reject")

IsolateFails == pc = "isolate" /\ ConnectionLost(Head(parts))

Ack ==
  /\ pc = "ack"
  /\ ack(batch)
  /\ batch' = {}
  /\ pc' = "loop"
  /\ UNCHANGED <<conn, maybe_pending, parts, rows, draining>>
  /\ NoFault

----
(* The end of the thread, and of the process. *)

Stops(next) ==
  /\ pc' = next
  /\ batch' = {}
  /\ parts' = << >>
  /\ UNCHANGED <<conn, maybe_pending, rows, draining>>

\* Nothing catches a RedisError raised by the acknowledgement: the thread
\* dies, and the supervisor ends the process for the container to restart.
AckFails ==
  /\ pc = "ack"
  /\ \E ids \in {{}, batch} : ack(ids)
  /\ Stops("dead")
  /\ Fault("ack")

Alive == pc \notin {"dead", "exited", "expired"}

Crash ==
  /\ Alive
  /\ Stops("dead")
  /\ UNCHANGED streamVars
  /\ Fault("crash")

Shutdown ==
  /\ Alive
  /\ ~draining
  /\ draining' = TRUE
  /\ UNCHANGED <<streamVars, pc, conn, maybe_pending, batch, parts, rows>>
  /\ Fault("stop")

\* The grace period ends; the deadline is looked at between batches only.
GraceExpires ==
  /\ pc = "loop"
  /\ draining
  /\ Stops("expired")
  /\ UNCHANGED <<streamVars, faults>>

\* Faulty variant: a restarted writer does not look at its pending entries.
RestartFresh ==
  /\ ~Alive
  /\ pc' = "loop"
  /\ conn' = FALSE
  /\ maybe_pending' = FALSE
  /\ draining' = FALSE
  /\ UNCHANGED <<streamVars, batch, parts, rows>>
  /\ NoFault

Restart ==
  /\ ~Alive
  /\ pc' = "loop"
  /\ conn' = FALSE
  /\ maybe_pending' = TRUE
  /\ draining' = FALSE
  /\ UNCHANGED <<streamVars, batch, parts, rows>>
  /\ NoFault

----
(* The readers, as the writer sees them. *)
Publish ==
  /\ Len(stream) < MaxStream
  /\ \E e \in Event : xadd(e)
  /\ UNCHANGED <<writerVars, faults>>

WriterStep ==
  \/ Connect
  \/ ReadPending
  \/ ReadNew
  \/ ReadNothing
  \/ ReadReplyLost
  \/ Flush
  \/ FlushFails
  \/ IsolateCommit
  \/ IsolateSplit
  \/ IsolateReject
  \/ IsolateRejectFails
  \/ IsolateFails
  \/ Ack
  \/ AckFails

Next ==
  \/ WriterStep
  \/ Crash
  \/ Shutdown
  \/ GraceExpires
  \/ Restart
  \/ Publish

Spec == Init /\ [][Next]_vars

\* The thread keeps being scheduled, and the container is restarted.
FairSpec == Spec /\ WF_vars(WriterStep) /\ WF_vars(Restart)

----
(* What the writer promises. *)

Acked(i) == i <= delivered /\ i \notin pel

Stored(i) == rows[stream[i]] > 0

\* An acknowledged entry that can be stored is in the database: the
\* acknowledgement follows the commit on every path of _process_batch and
\* _isolate, whatever fails in between.  Only MAXLEN eviction excuses it.
AckedIsStored ==
  \A i \in Entries :
    Acked(i) /\ stream[i] \in Storable => Stored(i) \/ i <= trimmed

\* The exactly-once claim of test_writer_db.py: redelivery after a crash
\* between COMMIT and XACK, an unknown commit or a repeated XADD of the same
\* event never makes a second row.
NoDoubleRow == \A e \in Event : rows[e] <= 1

\* _isolate blames only events the database refuses: a good event that shares
\* a batch with a bad one is never parked.
OnlyRefusedAreParked == parked \subseteq Bad

\* _isolate's promise that the bad event is parked rather than dropped.
AckedRefusedIsParked ==
  \A i \in Entries :
    Acked(i) /\ stream[i] \in Bad => stream[i] \in parked \/ i <= trimmed

\* While the writer works on a batch, or believes nothing is pending, Redis
\* has nothing else pending for it, and never more than one batch: so a retry
\* re-reads exactly the batch, and clearing maybe_pending forgets no entry.
PendingIsTheBatch ==
  /\ Alive /\ (pc # "loop" \/ ~maybe_pending) => pel = batch
  /\ Cardinality(pel) <= BatchMax

\* Why AckedIsStored holds (the inductive invariant of WriterProofs): each
\* entry of a batch is settled by the database or still in a part to write,
\* and only settled entries, unreadable ones and evicted ones leave the
\* pending list.
Done(i) ==
  /\ stream[i] \in Storable => Stored(i)
  /\ "reject" \notin Faults /\ stream[i] \in Bad => stream[i] \in parked

BatchShape ==
  /\ batch \subseteq pel
  /\ pc \notin {"flush", "isolate", "ack"} => batch = {}
  /\ pc = "isolate" <=> parts # << >>

BatchCovered ==
  \A i \in batch :
    /\ pc = "isolate" => Done(i) \/ \E k \in DOMAIN parts : i \in parts[k]
    /\ pc = "ack" => Done(i)

AckedIsDone ==
  \A i \in Entries : Acked(i) => i <= trimmed \/ stream[i] \in Poison \/ Done(i)

WriterInv == TypeOK /\ BatchShape /\ BatchCovered /\ AckedIsDone /\ NoDoubleRow /\ OnlyRefusedAreParked

\* Every entry is in the end acknowledged, and by AckedIsStored stored first:
\* no batch is retried for ever and none is forgotten.
Settled(i) == i <= Len(stream) /\ (Acked(i) \/ i <= trimmed)
EveryEntrySettles ==
  \A i \in 1..MaxStream : (i <= Len(stream)) ~> Settled(i)

\* A stop that the writer ends by itself, before its grace period, leaves no batch half
\* done: whatever failed and was retried while it drained, all that Redis ever delivered
\* is acknowledged, and what was not delivered waits behind a read that brought only
\* unreadable entries, which run takes for an empty stream (writer.py:86-88).
CutShort == delivered' > delivered /\ \A i \in (delivered + 1)..delivered' : ~Readable(i)
DrainLeavesNothing ==
  [][ (Alive /\ pc' = "exited") =>
        \A i \in Entries : \/ Acked(i)' \/ i <= trimmed
                           \/ i > delivered' /\ CutShort ]_vars

\* What Redis still owes: entries not delivered yet, and pending ones.
Owed == {i \in Entries : ~Acked(i)}

\* The stream, the writer and the database together implement Delivery.
D == INSTANCE Delivery WITH accepted <- stream, owed <- Owed, evicted <- trimmed

DeliversOnce == D!Spec
====
