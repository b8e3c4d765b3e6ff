---- MODULE WriterProofs ----
(***************************************************************************)
(* The writer's invariant holds for every set of events, batch size,       *)
(* length of the stream and kind and number of failures; from it follow    *)
(* the safety properties, the shape of the pending list, and that the      *)
(* writer implements Delivery.                                             *)
(***************************************************************************)
EXTENDS Writer, FiniteSetTheorems, TLAPS

\* COUNT n returns entries of the set it is asked about ...
LEMMA OldestSubset ==
  ASSUME NEW S, NEW n
  PROVE  Oldest(S, n) \subseteq S
BY DEF Oldest

\* ... and skips none that is older than one it returns.
LEMMA OldestDownward ==
  ASSUME NEW S \in SUBSET Nat, IsFiniteSet(S), NEW n \in Nat,
         NEW i \in Oldest(S, n), NEW j \in S, j <= i
  PROVE  j \in Oldest(S, n)
<1>0. i \in Nat /\ j \in Nat /\ S \subseteq Nat
  BY OldestSubset
<1> DEFINE Below(k) == {m \in S : m < k}
<1>1. Below(j) \subseteq Below(i) /\ Below(i) \subseteq S
  <2>1. \A m \in S : m < j => m < i
    BY <1>0
  <2>2. QED
    BY <2>1
<1>2. IsFiniteSet(Below(i))
  BY <1>1, FS_Subset
<1>3. IsFiniteSet(Below(j)) /\ Cardinality(Below(j)) <= Cardinality(Below(i))
  BY <1>1, <1>2, FS_Subset
<1>4. Cardinality(Below(j)) \in Nat /\ Cardinality(Below(i)) \in Nat
  BY <1>2, <1>3, FS_CardinalityType
<1>5. Cardinality(Below(i)) < n
  BY DEF Oldest
<1>6. QED
  BY <1>3, <1>4, <1>5 DEF Oldest

----
(* The steps of the writer, one lemma for each part of the invariant. *)

LEMMA InitInv == Init => WriterInv
<1> SUFFICES ASSUME Init PROVE WriterInv
  OBVIOUS
<1>1. StreamTypeOK
  BY DEF Init, StreamInit, StreamTypeOK
<1>2. TypeOK
  <2>1. parts \in Seq(SUBSET batch)
    BY DEF Init
  <2>2. rows \in [Event -> Nat]
    BY DEF Init
  <2>3. batch \subseteq 1..delivered
    BY DEF Init
  <2>4. QED
    BY <1>1, <2>1, <2>2, <2>3 DEF Init, TypeOK
<1>3. BatchShape /\ BatchCovered
  BY DEF Init, BatchShape, BatchCovered
<1>4. AckedIsDone
  BY DEF Init, StreamInit, AckedIsDone, Entries
<1>5. NoDoubleRow /\ OnlyRefusedAreParked
  BY DEF Init, StreamInit, NoDoubleRow, OnlyRefusedAreParked
<1>6. QED
  BY <1>2, <1>3, <1>4, <1>5 DEF WriterInv

LEMMA FaultType ==
  ASSUME TypeOK, NEW kind, Fault(kind) \/ NoFault
  PROVE  faults' \in Nat
BY DEF TypeOK, Fault, NoFault

\* Every step of the stream keeps its type and only lets the pending list
\* lose entries or gain the ones it delivers.
LEMMA AckType ==
  ASSUME StreamTypeOK, NEW ids, ack(ids)
  PROVE  StreamTypeOK'
BY DEF StreamTypeOK, ack

LEMMA DeliverType ==
  ASSUME StreamTypeOK, NEW n, NEW acked,
         NEW window, window = NewWindow(n), Deliver(window, acked)
  PROVE  /\ StreamTypeOK'
         /\ delivered <= delivered'
         /\ window \subseteq 1..delivered'
         /\ pel' = (pel \cup window) \ acked
<1>1. window \subseteq {i \in Entries : i > delivered /\ i > trimmed}
  BY OldestSubset DEF NewWindow
<1>2. window \subseteq 1..Len(stream) /\ \A i \in window : i > delivered
  BY <1>1 DEF Entries
<1>3. delivered' \in window /\ \A i \in window : i <= delivered'
  BY DEF Deliver
<1>4. delivered' \in 0..Len(stream) /\ delivered < delivered'
  BY <1>2, <1>3 DEF StreamTypeOK
<1>5. window \subseteq 1..delivered'
  BY <1>2, <1>3, <1>4
<1>6. pel' = (pel \cup window) \ acked
  BY DEF Deliver
<1>7. pel' \subseteq 1..delivered'
  <2>1. delivered \in Int /\ delivered' \in Int /\ pel \subseteq 1..delivered
    BY <1>4 DEF StreamTypeOK
  <2>2. pel \subseteq 1..delivered'
    BY <1>4, <2>1
  <2>3. QED
    BY <1>5, <1>6, <2>2
<1>8. QED
  BY <1>4, <1>5, <1>6, <1>7 DEF StreamTypeOK, Deliver

LEMMA ParkType ==
  ASSUME StreamTypeOK, NEW i \in Entries, park(stream[i])
  PROVE  StreamTypeOK'
BY DEF StreamTypeOK, park, Entries

LEMMA XaddType ==
  ASSUME StreamTypeOK, NEW e \in Event, xadd(e)
  PROVE  /\ StreamTypeOK'
         /\ Len(stream') = Len(stream) + 1
         /\ \A i \in Entries : stream'[i] = stream[i]
         /\ trimmed <= trimmed'
<1>1. /\ stream' \in Seq(Event)
      /\ Len(stream') = Len(stream) + 1
      /\ \A i \in Entries : stream'[i] = stream[i]
  BY DEF StreamTypeOK, xadd, Entries
<1>2. trimmed' \in trimmed..(Len(stream) + 1)
  BY DEF xadd, Trimmable
<1>3. Len(stream) \in Nat
  BY DEF StreamTypeOK
<1>4. trimmed' \in 0..Len(stream') /\ trimmed <= trimmed'
  BY <1>1, <1>2, <1>3 DEF StreamTypeOK
<1>5. delivered' \in 0..Len(stream') /\ pel' \subseteq 1..delivered' /\ parked' \subseteq Event
  BY <1>1, <1>3 DEF StreamTypeOK, xadd
<1>6. QED
  BY <1>1, <1>4, <1>5 DEF StreamTypeOK

LEMMA SameStreamType ==
  ASSUME StreamTypeOK, UNCHANGED streamVars
  PROVE  StreamTypeOK'
BY DEF StreamTypeOK, streamVars

\* What a transaction writes: one row, and only where there was none.
LEMMA InsertType ==
  ASSUME rows \in [Event -> Nat], NEW S
  PROVE  Insert(S) \in [Event -> Nat]
BY DEF Insert

\* The parts on top of the stack after a split, and after a part is done.
LEMMA HeadType ==
  ASSUME TypeOK, parts # << >>
  PROVE  /\ Head(parts) \subseteq batch
         /\ Tail(parts) \in Seq(SUBSET batch)
         /\ Halve(Head(parts)) \in Seq(SUBSET batch)
         /\ Halve(Head(parts)) \o Tail(parts) \in Seq(SUBSET batch)
<1>1. parts \in Seq(SUBSET batch)
  BY DEF TypeOK
<1>2. Head(parts) \in SUBSET batch /\ Tail(parts) \in Seq(SUBSET batch)
  BY <1>1
<1>3. LowerHalf(Head(parts)) \in SUBSET batch /\ Head(parts) \ LowerHalf(Head(parts)) \in SUBSET batch
  BY <1>2 DEF LowerHalf
<1>4. Halve(Head(parts)) \in Seq(SUBSET batch)
  BY <1>3 DEF Halve
<1>5. QED
  BY <1>2, <1>4

LEMMA ConnectionLostType ==
  ASSUME TypeOK, NEW S, ConnectionLost(S)
  PROVE  TypeOK'
<1>1. StreamTypeOK'
  BY SameStreamType DEF TypeOK, ConnectionLost
<1>2. rows' \in [Event -> Nat]
  BY InsertType DEF TypeOK, ConnectionLost
<1>3. batch' = {} /\ parts' = << >> /\ batch' \subseteq 1..delivered'
  BY DEF ConnectionLost
<1>4. parts' \in Seq(SUBSET batch')
  BY <1>3
<1>5. faults' \in Nat
  BY FaultType DEF ConnectionLost
<1>6. QED
  BY <1>1, <1>2, <1>3, <1>4, <1>5 DEF TypeOK, ConnectionLost

LEMMA NextType ==
  ASSUME TypeOK, BatchShape, Next
  PROVE  TypeOK'
<1> USE DEF TypeOK
<1>1. CASE Connect
  <2>1. StreamTypeOK' /\ UNCHANGED delivered
    BY <1>1, SameStreamType DEF Connect, streamVars
  <2>2. QED
    BY <1>1, <2>1 DEF Connect, NoFault
<1>2. CASE ReadPending
  <2> DEFINE window == PendingWindow(BatchMax)
             readable == {i \in window : Readable(i)}
  <2>1. ack(window \ readable) /\ UNCHANGED <<parts, rows, draining, conn, faults, delivered>>
    BY <1>2 DEF ReadPending, BeginBatch, NoBatch, NoFault, ack
  <2>2. StreamTypeOK'
    BY <2>1, AckType
  <2>3. window \subseteq pel
    BY OldestSubset DEF PendingWindow
  <2>4. parts = << >>
    BY <1>2 DEF ReadPending, Idle, BatchShape
  <2>5. batch' \subseteq 1..delivered' /\ pc' \in {"loop", "flush"} /\ maybe_pending' \in BOOLEAN
    BY <1>2, <2>1, <2>3 DEF ReadPending, BeginBatch, NoBatch, StreamTypeOK
  <2>6. QED
    BY <2>1, <2>2, <2>4, <2>5
<1>3. CASE ReadNew
  <2> DEFINE window == NewWindow(BatchMax)
             readable == {i \in window : Readable(i)}
  <2>1. Deliver(window, window \ readable) /\ UNCHANGED <<parts, rows, draining, conn, faults, maybe_pending>>
    BY <1>3 DEF ReadNew, BeginBatch, NoBatch, NoFault
  <2>2. StreamTypeOK' /\ window \subseteq 1..delivered'
    BY <2>1, DeliverType
  <2>3. parts = << >> /\ batch = {}
    BY <1>3 DEF ReadNew, Idle, BatchShape
  <2>4. batch' \subseteq 1..delivered' /\ pc' \in {"loop", "flush", "exited"}
    BY <1>3, <2>2, <2>3 DEF ReadNew, BeginBatch, NoBatch
  <2>5. QED
    BY <2>1, <2>2, <2>3, <2>4
<1>4. CASE ReadNothing
  BY <1>4, SameStreamType DEF ReadNothing, NoBatch, NoFault, streamVars
<1>5. CASE ReadReplyLost
  <2>1. StreamTypeOK'
    BY <1>5, AckType, DeliverType DEF ReadReplyLost
  <2>2. faults' \in Nat
    BY <1>5, FaultType DEF ReadReplyLost
  <2>3. batch = {} /\ parts = << >> /\ UNCHANGED <<batch, parts>>
    BY <1>5 DEF ReadReplyLost, Idle, NoBatch, BatchShape
  <2>4. QED
    BY <1>5, <2>1, <2>2, <2>3 DEF ReadReplyLost, NoBatch
<1>6. CASE Flush
  <2>1. StreamTypeOK' /\ UNCHANGED <<batch, delivered>>
    BY <1>6, SameStreamType DEF Flush, streamVars
  <2>2. rows' \in [Event -> Nat]
    BY <1>6, InsertType DEF Flush
  <2>3. parts' \in Seq(SUBSET batch)
    <3>1. <<batch>> \in Seq(SUBSET batch)
      OBVIOUS
    <3>2. parts' = parts \/ parts' = <<batch>>
      BY <1>6 DEF Flush
    <3>3. QED
      BY <3>1, <3>2
  <2>4. QED
    BY <1>6, <2>1, <2>2, <2>3 DEF Flush, NoFault
<1>7. CASE FlushFails \/ IsolateFails
  BY <1>7, ConnectionLostType DEF FlushFails, IsolateFails
<1>8. CASE IsolateCommit
  <2>1. StreamTypeOK' /\ UNCHANGED <<batch, delivered>>
    BY <1>8, SameStreamType DEF IsolateCommit, Continue, streamVars
  <2>2. rows' \in [Event -> Nat] /\ parts' \in Seq(SUBSET batch)
    BY <1>8, InsertType, HeadType DEF IsolateCommit, Continue, BatchShape
  <2>3. QED
    BY <1>8, <2>1, <2>2 DEF IsolateCommit, Continue, NoFault
<1>9. CASE IsolateSplit
  <2>1. StreamTypeOK' /\ UNCHANGED <<batch, delivered>>
    BY <1>9, SameStreamType DEF IsolateSplit, Continue, streamVars
  <2>2. parts' \in Seq(SUBSET batch)
    BY <1>9, HeadType DEF IsolateSplit, Continue, BatchShape
  <2>3. QED
    BY <1>9, <2>1, <2>2 DEF IsolateSplit, Continue, NoFault
<1>10. CASE IsolateReject
  <2>1. PICK i \in Head(parts) : park(stream[i])
    BY <1>10 DEF IsolateReject
  <2>2. parts # << >> /\ Head(parts) \subseteq batch /\ parts' \in Seq(SUBSET batch)
    BY <1>10, HeadType DEF IsolateReject, Continue, BatchShape
  <2>3. i \in Entries
    <3>1. delivered <= Len(stream) /\ delivered \in Nat /\ Len(stream) \in Nat
      BY DEF StreamTypeOK
    <3>2. i \in 1..delivered
      BY <2>1, <2>2
    <3>3. QED
      BY <3>1, <3>2 DEF Entries
  <2>4. StreamTypeOK' /\ UNCHANGED <<batch, delivered>>
    BY <1>10, <2>1, <2>3, ParkType DEF IsolateReject, Continue, park
  <2>5. QED
    BY <1>10, <2>2, <2>4 DEF IsolateReject, Continue, NoFault
<1>11. CASE IsolateRejectFails
  <2>1. StreamTypeOK' /\ UNCHANGED <<batch, delivered>>
    BY <1>11, SameStreamType DEF IsolateRejectFails, Continue, streamVars
  <2>2. parts' \in Seq(SUBSET batch)
    BY <1>11, HeadType DEF IsolateRejectFails, Continue, BatchShape
  <2>3. faults' \in Nat
    BY <1>11, FaultType DEF IsolateRejectFails
  <2>4. QED
    BY <1>11, <2>1, <2>2, <2>3 DEF IsolateRejectFails, Continue
<1>12. CASE Ack
  <2>1. StreamTypeOK' /\ parts = << >>
    BY <1>12, AckType DEF Ack, BatchShape
  <2>2. QED
    BY <1>12, <2>1 DEF Ack, NoFault
<1>13. CASE AckFails
  <2>1. StreamTypeOK' /\ faults' \in Nat
    BY <1>13, AckType, FaultType DEF AckFails
  <2>2. batch' \subseteq 1..delivered' /\ parts' \in Seq(SUBSET batch')
    BY <1>13 DEF AckFails, Stops
  <2>3. QED
    BY <1>13, <2>1, <2>2 DEF AckFails, Stops
<1>14. CASE Crash \/ GraceExpires
  <2>1. StreamTypeOK' /\ faults' \in Nat
    BY <1>14, SameStreamType, FaultType DEF Crash, GraceExpires
  <2>2. batch' = {} /\ parts' = << >>
    BY <1>14 DEF Crash, GraceExpires, Stops
  <2>3. QED
    BY <1>14, <2>1, <2>2 DEF Crash, GraceExpires, Stops
<1>15. CASE Shutdown
  <2>1. StreamTypeOK' /\ faults' \in Nat /\ UNCHANGED delivered
    BY <1>15, SameStreamType, FaultType DEF Shutdown, streamVars
  <2>2. QED
    BY <1>15, <2>1 DEF Shutdown
<1>16. CASE Restart
  <2>1. StreamTypeOK' /\ UNCHANGED delivered
    BY <1>16, SameStreamType DEF Restart, streamVars
  <2>2. QED
    BY <1>16, <2>1 DEF Restart, NoFault
<1>17. CASE Publish
  <2>1. StreamTypeOK' /\ UNCHANGED delivered
    BY <1>17, XaddType DEF Publish, xadd
  <2>2. QED
    BY <1>17, <2>1 DEF Publish, writerVars
<1>18. QED
  BY <1>1, <1>2, <1>3, <1>4, <1>5, <1>6, <1>7, <1>8, <1>9, <1>10, <1>11, <1>12,
     <1>13, <1>14, <1>15, <1>16, <1>17 DEF Next, WriterStep

\* Only the writer's own acknowledgements take entries of the batch off the
\* pending list, and then the batch is over.
LEMMA NextShape ==
  ASSUME TypeOK, BatchShape, Next
  PROVE  BatchShape'
<1> USE DEF BatchShape
<1>1. CASE Connect \/ Shutdown \/ Publish
  BY <1>1 DEF Connect, Shutdown, Publish, streamVars, writerVars, xadd
<1>2. CASE ReadPending
  <2> DEFINE window == PendingWindow(BatchMax)
             readable == {i \in window : Readable(i)}
  <2>1. window \subseteq pel
    BY OldestSubset DEF PendingWindow
  <2>2. pel' = pel \ (window \ readable)
    BY <1>2 DEF ReadPending, ack
  <2>3. QED
    BY <1>2, <2>1, <2>2 DEF ReadPending, Idle, BeginBatch, NoBatch
<1>3. CASE ReadNew
  BY <1>3 DEF ReadNew, Idle, Deliver, BeginBatch, NoBatch
<1>4. CASE ReadNothing \/ ReadReplyLost
  BY <1>4 DEF ReadNothing, ReadReplyLost, Idle, NoBatch, Deliver, ack
<1>5. CASE Flush
  BY <1>5 DEF Flush, streamVars
<1>6. CASE FlushFails \/ IsolateFails
  BY <1>6 DEF FlushFails, IsolateFails, ConnectionLost
<1>7. CASE IsolateCommit \/ IsolateSplit \/ IsolateReject \/ IsolateRejectFails
  BY <1>7 DEF IsolateCommit, IsolateSplit, IsolateReject, IsolateRejectFails, Continue,
              park, streamVars
<1>8. CASE Ack \/ AckFails \/ Crash \/ GraceExpires \/ Restart
  BY <1>8 DEF Ack, AckFails, Crash, GraceExpires, Restart, Stops, Alive, ack
<1>9. QED
  BY <1>1, <1>2, <1>3, <1>4, <1>5, <1>6, <1>7, <1>8 DEF Next, WriterStep

\* A row is never doubled, whatever is written again.
LEMMA NextRows ==
  ASSUME TypeOK, NoDoubleRow, Next
  PROVE  /\ NoDoubleRow'
         /\ \A e \in Event : rows[e] > 0 => rows'[e] > 0
<1>1. rows' = rows \/ \E S : rows' = Insert(S)
  BY DEF Next, WriterStep, Connect, ReadPending, ReadNew, ReadNothing, ReadReplyLost, Flush,
         FlushFails, IsolateCommit, IsolateSplit, IsolateReject, IsolateRejectFails,
         IsolateFails, Ack, AckFails, Crash, Shutdown, GraceExpires, Restart, Publish,
         ConnectionLost, Continue, Stops, BeginBatch, NoBatch, writerVars
<1>2. CASE rows' = rows
  BY <1>2 DEF NoDoubleRow
<1>3. ASSUME NEW S, rows' = Insert(S)
      PROVE  NoDoubleRow' /\ \A e \in Event : rows[e] > 0 => rows'[e] > 0
  BY <1>3 DEF NoDoubleRow, Insert, TypeOK
<1>4. QED
  BY <1>1, <1>2, <1>3

\* Only a part of one refused entry is parked.
LEMMA NextParked ==
  ASSUME TypeOK, OnlyRefusedAreParked, Next
  PROVE  OnlyRefusedAreParked' /\ parked \subseteq parked'
<1>1. CASE IsolateReject
  <2>1. PICK i \in Head(parts) : ~Accepts({i}) /\ park(stream[i])
    BY <1>1 DEF IsolateReject
  <2>2. stream[i] \in Bad
    BY <2>1 DEF Accepts
  <2>3. QED
    BY <2>1, <2>2 DEF park, OnlyRefusedAreParked
<1>2. CASE ~IsolateReject
  <2>1. parked' = parked
    BY <1>2 DEF Next, WriterStep, Connect, ReadPending, ReadNew, ReadNothing, ReadReplyLost,
         Flush, FlushFails, IsolateCommit, IsolateSplit, IsolateRejectFails,
         IsolateFails, Ack, AckFails, Crash, Shutdown, GraceExpires, Restart, Publish,
         ConnectionLost, Deliver, ack, xadd, streamVars
  <2>2. QED
    BY <2>1 DEF OnlyRefusedAreParked
<1>3. QED
  BY <1>1, <1>2

LEMMA NextStream ==
  ASSUME TypeOK, Next
  PROVE  /\ Entries \subseteq Entries'
         /\ \A i \in Entries : stream'[i] = stream[i]
         /\ trimmed <= trimmed'
<1>1. CASE Publish
  <2>1. PICK e \in Event : xadd(e)
    BY <1>1 DEF Publish
  <2>2. StreamTypeOK
    BY DEF TypeOK
  <2>3. /\ Len(stream') = Len(stream) + 1
        /\ \A i \in Entries : stream'[i] = stream[i]
        /\ trimmed <= trimmed'
    BY <2>1, <2>2, XaddType
  <2>4. Len(stream) \in Nat
    BY <2>2 DEF StreamTypeOK
  <2>5. Entries \subseteq Entries'
    BY <2>3, <2>4 DEF Entries
  <2> QED BY <2>3, <2>5
<1>2. CASE ~Publish
  <2>1. UNCHANGED <<stream, trimmed>>
    BY <1>2 DEF Next, WriterStep, Connect, ReadPending, ReadNew, ReadNothing, ReadReplyLost,
         Flush, FlushFails, IsolateCommit, IsolateSplit, IsolateReject, IsolateRejectFails,
         IsolateFails, Ack, AckFails, Crash, Shutdown, GraceExpires, Restart,
         ConnectionLost, Deliver, ack, park, streamVars
  <2>2. trimmed <= trimmed
    BY DEF TypeOK, StreamTypeOK
  <2>3. QED
    BY <2>1, <2>2 DEF Entries
<1>3. QED
  BY <1>1, <1>2

\* What is settled stays settled.
LEMMA NextDone ==
  ASSUME WriterInv, Next, NEW i \in Entries, Done(i)
  PROVE  Done(i)'
<1>0. TypeOK
  BY DEF WriterInv
<1>1. stream'[i] = stream[i] /\ stream[i] \in Event
  <2>1. stream'[i] = stream[i]
    BY <1>0, NextStream
  <2>2. stream[i] \in Event
    BY <1>0 DEF TypeOK, StreamTypeOK, Entries
  <2>3. QED
    BY <2>1, <2>2
<1>2. rows[stream[i]] > 0 => rows'[stream[i]] > 0
  BY <1>1, NextRows DEF WriterInv
<1>3. parked \subseteq parked'
  BY NextParked DEF WriterInv
<1>4. QED
  BY <1>1, <1>2, <1>3 DEF Done, Stored

LEMMA BatchEntries ==
  ASSUME TypeOK
  PROVE  batch \subseteq Entries
<1>1. delivered <= Len(stream) /\ delivered \in Nat /\ Len(stream) \in Nat
  BY DEF TypeOK, StreamTypeOK
<1>2. QED
  BY <1>1 DEF TypeOK, Entries

\* A transaction that is accepted settles each of its entries.
LEMMA InsertDone ==
  ASSUME TypeOK, NEW S \in SUBSET Entries, Accepts(S), rows' = Insert(S),
         UNCHANGED stream, NEW i \in S
  PROVE  Done(i)'
<1>1. stream[i] \in Event /\ stream[i] \notin Bad
  BY DEF TypeOK, StreamTypeOK, Entries, Accepts
<1>2. stream[i] \in Storable => rows'[stream[i]] > 0
  BY <1>1 DEF Insert, TypeOK
<1>3. QED
  BY <1>1, <1>2 DEF Done, Stored

\* An entry that was in a part is still in one when the top part goes, unless
\* it was in the top part.
LEMMA TailParts ==
  ASSUME TypeOK, parts # << >>, NEW k \in DOMAIN parts
  PROVE  \/ parts[k] = Head(parts)
         \/ Tail(parts) # << >> /\ \E j \in DOMAIN Tail(parts) : Tail(parts)[j] = parts[k]
<1>1. parts \in Seq(SUBSET batch)
  BY DEF TypeOK
<1>2. CASE k = 1
  BY <1>1, <1>2
<1>3. CASE k # 1
  <2>1. k - 1 \in DOMAIN Tail(parts) /\ Tail(parts)[k - 1] = parts[k]
    BY <1>1, <1>3
  <2>2. QED
    BY <1>1, <2>1
<1>4. QED
  BY <1>2, <1>3

LEMMA SplitParts ==
  ASSUME TypeOK, parts # << >>, NEW i, NEW k \in DOMAIN parts, i \in parts[k]
  PROVE  LET halves == Halve(Head(parts)) \o Tail(parts)
         IN halves # << >> /\ \E j \in DOMAIN halves : i \in halves[j]
<1> DEFINE lower == LowerHalf(Head(parts))
           upper == Head(parts) \ lower
           halves == <<lower, upper>> \o Tail(parts)
<1>1. parts \in Seq(SUBSET batch) /\ Tail(parts) \in Seq(SUBSET batch)
  BY DEF TypeOK
<1>2. lower \in SUBSET batch /\ upper \in SUBSET batch
  BY HeadType DEF LowerHalf
<1>3. /\ Len(halves) = 2 + Len(Tail(parts))
      /\ halves[1] = lower /\ halves[2] = upper
      /\ \A j \in 1..Len(Tail(parts)) : halves[j + 2] = Tail(parts)[j]
  BY <1>1, <1>2
<1>4. CASE i \in Head(parts)
  BY <1>1, <1>2, <1>3, <1>4 DEF Halve
<1>5. CASE i \notin Head(parts)
  <2>1. PICK j \in DOMAIN Tail(parts) : i \in Tail(parts)[j]
    BY <1>5, TailParts
  <2>2. j \in 1..Len(Tail(parts)) /\ j + 2 \in 1..Len(halves)
    BY <1>1, <1>3, <2>1
  <2>3. i \in halves[j + 2]
    BY <1>3, <2>1, <2>2
  <2>4. halves # << >>
    BY <1>3
  <2>5. QED
    BY <2>2, <2>3, <2>4 DEF Halve
<1>6. QED
  BY <1>4, <1>5

LEMMA NextCovered ==
  ASSUME WriterInv, Next
  PROVE  BatchCovered'
<1> SUFFICES ASSUME NEW i \in batch'
             PROVE  /\ pc' = "isolate" => Done(i)' \/ \E k \in DOMAIN parts' : i \in parts'[k]
                    /\ pc' = "ack" => Done(i)'
  BY DEF BatchCovered
<1>a. TypeOK /\ BatchShape /\ BatchCovered
  BY DEF WriterInv
<1>b. batch \subseteq Entries
  BY <1>a, BatchEntries
<1>1. CASE ReadPending \/ ReadNew \/ ReadNothing \/ ReadReplyLost
  BY <1>1 DEF ReadPending, ReadNew, ReadNothing, ReadReplyLost, BeginBatch, NoBatch
<1>2. CASE Flush
  <2>1. i \in batch /\ UNCHANGED stream
    BY <1>2 DEF Flush, streamVars
  <2>2. CASE pc' = "ack"
    <3>1. Accepts(batch) /\ rows' = Insert(batch)
      BY <1>2, <2>2 DEF Flush
    <3>2. QED
      BY <1>a, <1>b, <2>1, <2>2, <3>1, InsertDone
  <2>3. CASE pc' # "ack"
    <3>1. parts' = <<batch>> /\ pc' = "isolate"
      BY <1>2, <2>3 DEF Flush
    <3>2. 1 \in DOMAIN parts' /\ i \in parts'[1]
      BY <2>1, <3>1
    <3>3. QED
      BY <3>1, <3>2
  <2>4. QED
    BY <2>2, <2>3
<1>3. CASE IsolateCommit \/ IsolateReject \/ IsolateRejectFails
  <2>1. /\ i \in batch /\ UNCHANGED stream /\ parts # << >>
        /\ parts' = Tail(parts)
        /\ pc' = IF parts' = << >> THEN "ack" ELSE "isolate"
    BY <1>a, <1>3 DEF IsolateCommit, IsolateReject, IsolateRejectFails, Continue, BatchShape,
                      streamVars, park
  <2>2. Done(i) \/ \E k \in DOMAIN parts : i \in parts[k]
    BY <1>a, <1>3, <2>1 DEF IsolateCommit, IsolateReject, IsolateRejectFails, BatchCovered
  <2>3. CASE Done(i)
    BY <1>b, <2>1, <2>3, NextDone
  <2>4. CASE i \in Head(parts)
    <3>1. CASE IsolateCommit
      <4>1. Head(parts) \subseteq Entries
        BY <1>a, <1>b, <2>1, HeadType
      <4>2. QED
        BY <1>a, <2>1, <2>4, <3>1, <4>1, InsertDone DEF IsolateCommit
    <3>2. CASE IsolateReject
      <4>1. Head(parts) = {i} /\ ~Accepts({i}) /\ park(stream[i])
        BY <2>4, <3>2 DEF IsolateReject
      <4>2. stream[i] \in Bad /\ stream[i] \in parked' /\ stream'[i] = stream[i]
        BY <2>1, <4>1 DEF Accepts, park
      <4>3. QED
        BY <2>1, <4>2 DEF Done, Storable
    <3>3. CASE IsolateRejectFails
      <4>1. stream[i] \in Bad /\ stream'[i] = stream[i] /\ "reject" \in Faults
        BY <2>1, <2>4, <3>3 DEF IsolateRejectFails, Accepts, Fault
      <4>2. QED
        BY <4>1 DEF Done, Storable
    <3>4. QED
      BY <1>3, <2>1, <3>1, <3>2, <3>3
  <2>5. CASE i \notin Head(parts) /\ ~Done(i)
    <3>1. PICK k \in DOMAIN parts : i \in parts[k]
      BY <2>2, <2>5
    <3>2. Tail(parts) # << >> /\ \E j \in DOMAIN Tail(parts) : i \in Tail(parts)[j]
      BY <1>a, <2>1, <2>5, <3>1, TailParts
    <3>3. QED
      BY <2>1, <3>2
  <2>6. QED
    BY <2>3, <2>4, <2>5
<1>4. CASE IsolateSplit
  <2>1. /\ i \in batch /\ parts # << >> /\ pc = "isolate"
        /\ parts' = Halve(Head(parts)) \o Tail(parts)
        /\ pc' = IF parts' = << >> THEN "ack" ELSE "isolate"
    BY <1>a, <1>4 DEF IsolateSplit, Continue, BatchShape
  <2>2. CASE Done(i)
    BY <1>b, <2>1, <2>2, NextDone
  <2>3. CASE ~Done(i)
    <3>1. PICK k \in DOMAIN parts : i \in parts[k]
      BY <1>a, <2>1, <2>3 DEF BatchCovered
    <3>2. parts' # << >> /\ \E j \in DOMAIN parts' : i \in parts'[j]
      BY <1>a, <2>1, <3>1, SplitParts
    <3>3. QED
      BY <2>1, <3>2
  <2>4. QED
    BY <2>2, <2>3
<1>5. CASE FlushFails \/ IsolateFails \/ Ack \/ AckFails \/ Crash \/ GraceExpires
  BY <1>5 DEF FlushFails, IsolateFails, ConnectionLost, Ack, AckFails, Crash, GraceExpires, Stops
<1>6. CASE Connect \/ Restart
  BY <1>a, <1>6 DEF Connect, Restart, BatchShape
<1>7. CASE Shutdown \/ Publish
  <2>1. UNCHANGED <<pc, batch, parts>>
    BY <1>7 DEF Shutdown, Publish, writerVars
  <2>2. Done(i) => Done(i)'
    BY <1>b, <2>1, NextDone
  <2>3. QED
    BY <1>a, <2>1, <2>2 DEF BatchCovered
<1>8. QED
  BY <1>1, <1>2, <1>3, <1>4, <1>5, <1>6, <1>7 DEF Next, WriterStep

\* A new window leaves no readable entry behind: whatever the group now counts
\* as delivered was in the window, or was evicted before.
LEMMA DeliverSkipsNothing ==
  ASSUME TypeOK, NEW window, window = NewWindow(BatchMax),
         NEW acked, acked \subseteq {j \in window : ~Readable(j)},
         Deliver(window, acked),
         NEW i \in Entries, ~Acked(i), Acked(i)'
  PROVE  i <= trimmed \/ stream[i] \in Poison
<1> DEFINE fresh == {j \in Entries : j > delivered /\ j > trimmed}
<1>1. window = Oldest(fresh, BatchMax)
  BY DEF NewWindow
<1>2. pel' = (pel \cup window) \ acked /\ delivered' \in window
  BY DEF Deliver
<1>3. delivered \in Nat /\ trimmed \in Nat /\ Len(stream) \in Nat /\ i \in Nat
  BY DEF TypeOK, StreamTypeOK, Entries
<1>4. CASE i \in pel
  BY <1>2, <1>3, <1>4 DEF Acked, Readable
<1>5. CASE i > delivered /\ i > trimmed
  <2>1. fresh \in SUBSET Nat /\ i \in fresh
    BY <1>5 DEF Entries
  <2>2. IsFiniteSet(fresh)
    <3>1. IsFiniteSet(1..Len(stream))
      BY <1>3, FS_Interval
    <3>2. QED
      BY <3>1, FS_Subset DEF Entries
  <2>3. i <= delivered'
    BY DEF Acked
  <2>4. i \in window
    BY <1>1, <1>2, <2>1, <2>2, <2>3, OldestDownward, WriterAssumption
  <2>5. i \in acked
    BY <1>2, <2>4 DEF Acked
  <2>6. QED
    BY <1>3, <2>5 DEF Readable
<1>6. CASE i <= trimmed
  BY <1>6
<1>7. QED
  BY <1>3, <1>4, <1>5, <1>6 DEF Acked

LEMMA NextAcked ==
  ASSUME WriterInv, Next
  PROVE  AckedIsDone'
<1>a. TypeOK /\ BatchShape /\ BatchCovered /\ AckedIsDone
  BY DEF WriterInv
<1>b. trimmed \in Nat /\ trimmed' \in Nat /\ delivered \in Nat /\ Len(stream) \in Nat
  BY <1>a, NextType DEF TypeOK, StreamTypeOK
<1> SUFFICES ASSUME NEW i \in Entries', Acked(i)'
             PROVE  i <= trimmed' \/ stream'[i] \in Poison \/ Done(i)'
  BY DEF AckedIsDone
<1>1. CASE i \notin Entries
  <2>1. CASE Publish
    <3>1. i = Len(stream) + 1 /\ delivered <= Len(stream) /\ UNCHANGED <<delivered, pel>>
      BY <1>1, <2>1, <1>a, XaddType DEF Publish, xadd, Entries, TypeOK, StreamTypeOK
    <3>2. QED
      BY <1>b, <3>1 DEF Acked
  <2>2. CASE ~Publish
    <3>1. UNCHANGED stream
      BY <2>2 DEF Next, WriterStep, Connect, ReadPending, ReadNew, ReadNothing, ReadReplyLost,
         Flush, FlushFails, IsolateCommit, IsolateSplit, IsolateReject, IsolateRejectFails,
         IsolateFails, Ack, AckFails, Crash, Shutdown, GraceExpires, Restart,
         ConnectionLost, Deliver, ack, park, streamVars
    <3>2. QED
      BY <1>1, <3>1 DEF Entries
  <2>3. QED
    BY <2>1, <2>2
<1>2. CASE i \in Entries
  <2>a. stream'[i] = stream[i] /\ trimmed <= trimmed' /\ i \in Nat
    BY <1>a, <1>2, NextStream DEF Entries
  <2>b. Done(i) => Done(i)'
    BY <1>2, NextDone
  <2>1. CASE Acked(i)
    BY <1>a, <1>b, <1>2, <2>1, <2>a, <2>b DEF AckedIsDone
  <2>2. CASE ~Acked(i)
    <3> SUFFICES i <= trimmed \/ stream[i] \in Poison \/ Done(i)
      BY <1>b, <2>a, <2>b
    <3>1. CASE ReadPending
      <4>1. i \notin pel' /\ i \in pel /\ ~Readable(i)
        BY <2>2, <3>1 DEF ReadPending, ack, Acked
      <4>2. QED
        BY <1>b, <2>a, <4>1 DEF Readable
    <3>2. CASE ReadNew
      BY <1>a, <1>2, <2>2, <3>2, DeliverSkipsNothing DEF ReadNew
    <3>3. CASE ReadReplyLost /\ maybe_pending
      <4>1. i \notin pel' /\ i \in pel /\ ~Readable(i)
        BY <2>2, <3>3 DEF ReadReplyLost, ack, Acked
      <4>2. QED
        BY <1>b, <2>a, <4>1 DEF Readable
    <3>4. CASE ReadReplyLost /\ ~maybe_pending
      <4>1. PICK acked : /\ acked \subseteq {j \in NewWindow(BatchMax) : ~Readable(j)}
                         /\ Deliver(NewWindow(BatchMax), acked)
        BY <3>4 DEF ReadReplyLost
      <4>2. QED
        BY <1>a, <1>2, <2>2, <4>1, DeliverSkipsNothing
    <3>5. CASE Ack \/ AckFails
      <4>1. i \in batch /\ pc = "ack"
        BY <2>2, <3>5 DEF Ack, AckFails, ack, Acked
      <4>2. QED
        BY <1>a, <4>1 DEF BatchCovered
    <3>6. CASE ~(ReadPending \/ ReadNew \/ ReadReplyLost \/ Ack \/ AckFails)
      <4>1. UNCHANGED <<delivered, pel>>
        BY <3>6 DEF Next, WriterStep, Connect, ReadNothing, Flush, FlushFails, IsolateCommit,
           IsolateSplit, IsolateReject, IsolateRejectFails, IsolateFails, Crash, Shutdown,
           GraceExpires, Restart, Publish, ConnectionLost, park, xadd, streamVars
      <4>2. QED
        BY <2>2, <4>1 DEF Acked
    <3>7. QED
      BY <3>1, <3>2, <3>3, <3>4, <3>5, <3>6
  <2>3. QED
    BY <2>1, <2>2
<1>3. QED
  BY <1>1, <1>2

----
(* The theorems. *)

LEMMA NextInv == WriterInv /\ [Next]_vars => WriterInv'
<1>1. ASSUME WriterInv, Next PROVE WriterInv'
  BY <1>1, NextType, NextShape, NextCovered, NextAcked, NextRows, NextParked DEF WriterInv
<1>2. ASSUME WriterInv, UNCHANGED vars PROVE WriterInv'
  <2>1. TypeOK' /\ BatchShape' /\ NoDoubleRow' /\ OnlyRefusedAreParked'
    BY <1>2 DEF vars, streamVars, writerVars, WriterInv, TypeOK, StreamTypeOK, BatchShape,
                NoDoubleRow, OnlyRefusedAreParked
  <2>2. BatchCovered'
    BY <1>2 DEF vars, streamVars, writerVars, WriterInv, BatchCovered, Done, Stored
  <2>3. AckedIsDone'
    BY <1>2 DEF vars, streamVars, writerVars, WriterInv, AckedIsDone, Acked, Entries, Done, Stored
  <2>4. QED
    BY <2>1, <2>2, <2>3 DEF WriterInv
<1>3. QED
  BY <1>1, <1>2

\* The inductive invariant holds of every behaviour of the writer.
THEOREM InvHolds == Spec => []WriterInv
<1>1. QED
  BY InitInv, NextInv, PTL DEF Spec

\* Type correctness of the stream and the writer.
THEOREM TypeCorrect == Spec => []TypeOK
<1>1. WriterInv => TypeOK
  BY DEF WriterInv
<1>2. QED
  BY <1>1, InvHolds, PTL

\* No storable event is acknowledged before its row is committed, whatever
\* fails: run's acknowledgement of a batch comes after every part of it.
THEOREM AckedStored == Spec => []AckedIsStored
<1>1. WriterInv => AckedIsStored
  BY DEF WriterInv, AckedIsDone, AckedIsStored, Done, Storable
<1>2. QED
  BY <1>1, InvHolds, PTL

\* At-least-once delivery ends in exactly one row for each event.
THEOREM ExactlyOneRow == Spec => []NoDoubleRow
<1>1. WriterInv => NoDoubleRow
  BY DEF WriterInv
<1>2. QED
  BY <1>1, InvHolds, PTL

\* _isolate parks no event that the database would accept.
THEOREM ParkedRefused == Spec => []OnlyRefusedAreParked
<1>1. WriterInv => OnlyRefusedAreParked
  BY DEF WriterInv
<1>2. QED
  BY <1>1, InvHolds, PTL

\* When the rejected stream can be written, no refused event is acknowledged
\* without being parked there.
THEOREM RefusedParked ==
  ASSUME "reject" \notin Faults
  PROVE  Spec => []AckedRefusedIsParked
<1>1. WriterInv => AckedRefusedIsParked
  BY WriterAssumption DEF WriterInv, AckedIsDone, AckedRefusedIsParked, Done
<1>2. QED
  BY <1>1, InvHolds, PTL

----
(* As long as no answer to XREADGROUP is lost, the pending list is the batch  *)
(* in hand, for every batch size.                                             *)

\* COUNT n returns at most n entries, when their last one is known ...
LEMMA OldestBounded ==
  ASSUME NEW S \in SUBSET Nat, IsFiniteSet(S), NEW n \in Nat,
         NEW last \in Oldest(S, n), \A i \in Oldest(S, n) : i <= last
  PROVE  IsFiniteSet(Oldest(S, n)) /\ Cardinality(Oldest(S, n)) <= n
<1> DEFINE below == {j \in S : j < last}
<1>1. IsFiniteSet(below)
  BY FS_Subset
<1>2. Cardinality(below) < n /\ Cardinality(below) \in Nat
  BY <1>1, FS_CardinalityType DEF Oldest
<1>3. Oldest(S, n) \subseteq below \cup {last}
  <2>1. \A i \in Oldest(S, n) : i \in S /\ i \in Nat /\ last \in Nat /\ i <= last
    BY OldestSubset
  <2>2. QED
    BY <2>1
<1>4. IsFiniteSet(below \cup {last}) /\ Cardinality(below \cup {last}) = Cardinality(below) + 1
  <2>1. last \notin below
    <3>1. last \in Nat
      BY OldestSubset
    <3>2. ~(last < last)
      BY <3>1
    <3>3. QED
      BY <3>2
  <2>2. /\ IsFiniteSet(below \cup {last})
        /\ Cardinality(below \cup {last})
             = IF last \in below THEN Cardinality(below) ELSE Cardinality(below) + 1
    BY <1>1, FS_AddElement
  <2>3. QED
    BY <2>1, <2>2
<1>5. IsFiniteSet(Oldest(S, n)) /\ Cardinality(Oldest(S, n)) <= Cardinality(below \cup {last})
  BY <1>3, <1>4, FS_Subset
<1>6. Cardinality(Oldest(S, n)) \in Nat
  BY <1>5, FS_CardinalityType
<1>7. QED
  BY <1>2, <1>4, <1>5, <1>6

\* ... and all of them when there are no more than n.
LEMMA OldestAll ==
  ASSUME NEW S \in SUBSET Nat, IsFiniteSet(S), NEW n \in Nat, Cardinality(S) <= n
  PROVE  Oldest(S, n) = S
<1> SUFFICES ASSUME NEW i \in S PROVE i \in Oldest(S, n)
  BY OldestSubset
<1> DEFINE below == {j \in S : j < i}
<1>1. IsFiniteSet(S \ {i}) /\ Cardinality(S \ {i}) = Cardinality(S) - 1
  BY FS_RemoveElement
<1>2. below \subseteq S \ {i}
  OBVIOUS
<1>3. IsFiniteSet(below) /\ Cardinality(below) <= Cardinality(S \ {i})
  BY <1>1, <1>2, FS_Subset
<1>4. Cardinality(below) \in Nat /\ Cardinality(S) \in Nat
  BY <1>3, FS_CardinalityType
<1>5. Cardinality(below) < n
  BY <1>1, <1>3, <1>4
<1>6. QED
  BY <1>5 DEF Oldest

LEMMA PelFinite ==
  ASSUME TypeOK
  PROVE  /\ pel \in SUBSET Nat
         /\ IsFiniteSet(pel)
         /\ Cardinality(pel) \in Nat
<1>1. delivered \in Nat /\ pel \subseteq 1..delivered
  BY DEF TypeOK, StreamTypeOK
<1>2. IsFiniteSet(1..delivered)
  BY <1>1, FS_Interval
<1>3. IsFiniteSet(pel)
  BY <1>1, <1>2, FS_Subset
<1>4. QED
  BY <1>1, <1>3, FS_CardinalityType

\* A pending list that shrinks stays within one batch.
LEMMA PelShrinks ==
  ASSUME TypeOK, PendingIsTheBatch, pel' \subseteq pel
  PROVE  Cardinality(pel') <= BatchMax
<1>1. IsFiniteSet(pel') /\ Cardinality(pel') <= Cardinality(pel)
  BY PelFinite, FS_Subset
<1>2. Cardinality(pel') \in Nat /\ Cardinality(pel) \in Nat /\ BatchMax \in Nat
  BY <1>1, PelFinite, FS_CardinalityType, WriterAssumption
<1>3. QED
  BY <1>1, <1>2 DEF PendingIsTheBatch

LEMMA NextPending ==
  ASSUME "read" \notin Faults, TypeOK, BatchShape, PendingIsTheBatch, Next
  PROVE  PendingIsTheBatch'
<1>1. CASE ReadPending
  <2> DEFINE window == PendingWindow(BatchMax)
             readable == {i \in window : Readable(i)}
  <2>1. window = pel
    BY PelFinite, OldestAll, WriterAssumption DEF PendingWindow, PendingIsTheBatch
  <2>2. pel' = readable
    BY <1>1, <2>1 DEF ReadPending, ack
  <2>3. batch' = readable
    BY <1>1 DEF ReadPending, Idle, BeginBatch, NoBatch, BatchShape
  <2>4. Cardinality(pel') <= BatchMax
    BY <2>1, <2>2, PelShrinks
  <2>5. QED
    BY <2>2, <2>3, <2>4 DEF PendingIsTheBatch
<1>2. CASE ReadNew
  <2> DEFINE window == NewWindow(BatchMax)
             fresh == {i \in Entries : i > delivered /\ i > trimmed}
             readable == {i \in window : Readable(i)}
  <2>1. pel = {} /\ batch = {}
    BY <1>2 DEF ReadNew, Idle, Alive, BatchShape, PendingIsTheBatch
  <2>2. Deliver(window, window \ readable)
    BY <1>2 DEF ReadNew
  <2>3. pel' = readable
    BY <2>1, <2>2 DEF Deliver
  <2>4. batch' = readable
    BY <1>2, <2>1 DEF ReadNew, BeginBatch, NoBatch
  <2>5. fresh \in SUBSET Nat /\ IsFiniteSet(fresh)
    <3>1. Len(stream) \in Nat
      BY DEF TypeOK, StreamTypeOK
    <3>2. IsFiniteSet(1..Len(stream))
      BY <3>1, FS_Interval
    <3>3. QED
      BY <3>2, FS_Subset DEF Entries
  <2>6. delivered' \in Oldest(fresh, BatchMax) /\ \A i \in Oldest(fresh, BatchMax) : i <= delivered'
    BY <2>2 DEF Deliver, NewWindow
  <2>7. IsFiniteSet(window) /\ Cardinality(window) <= BatchMax
    BY <2>5, <2>6, OldestBounded, WriterAssumption DEF NewWindow
  <2>8. IsFiniteSet(readable) /\ Cardinality(readable) <= Cardinality(window)
    BY <2>7, FS_Subset
  <2>9. Cardinality(readable) <= BatchMax
    BY <2>7, <2>8, FS_CardinalityType, WriterAssumption
  <2>10. QED
    BY <2>3, <2>4, <2>9 DEF PendingIsTheBatch
<1>3. CASE ReadReplyLost
  BY <1>3 DEF ReadReplyLost, Fault
<1>4. CASE ReadNothing
  BY <1>4 DEF ReadNothing, Idle, NoBatch, PendingIsTheBatch, Alive, streamVars
<1>5. CASE Ack \/ AckFails
  <2>1. pel' \subseteq pel
    BY <1>5 DEF Ack, AckFails, ack
  <2>2. Cardinality(pel') <= BatchMax
    BY <2>1, PelShrinks
  <2>3. Alive' => pel' = {} /\ batch' = {}
    BY <1>5 DEF Ack, AckFails, Stops, ack, Alive, PendingIsTheBatch
  <2>4. QED
    BY <2>2, <2>3 DEF PendingIsTheBatch
<1>6. CASE FlushFails \/ IsolateFails
  BY <1>6 DEF FlushFails, IsolateFails, ConnectionLost, PendingIsTheBatch, streamVars
<1>7. CASE Crash \/ GraceExpires \/ Restart
  BY <1>7 DEF Crash, GraceExpires, Restart, Stops, Alive, PendingIsTheBatch, streamVars
<1>8. CASE \/ Connect \/ Shutdown \/ Publish \/ Flush \/ IsolateCommit \/ IsolateSplit
           \/ IsolateReject \/ IsolateRejectFails
  <2>1. UNCHANGED <<pel, batch, maybe_pending>>
    BY <1>8 DEF Connect, Shutdown, Publish, Flush, IsolateCommit, IsolateSplit, IsolateReject,
                IsolateRejectFails, Continue, park, xadd, streamVars, writerVars
  <2>2. pc = pc' \/ pc \in {"flush", "isolate"}
    BY <1>8 DEF Connect, Shutdown, Publish, Flush, IsolateCommit, IsolateSplit, IsolateReject,
                IsolateRejectFails, writerVars
  <2>3. QED
    BY <2>1, <2>2 DEF PendingIsTheBatch, Alive
<1>9. QED
  BY <1>1, <1>2, <1>3, <1>4, <1>5, <1>6, <1>7, <1>8 DEF Next, WriterStep

\* With the answers of XREADGROUP never lost, a retry re-reads exactly the
\* batch that failed, and clearing maybe_pending strands nothing.
THEOREM PendingOneBatch ==
  ASSUME "read" \notin Faults
  PROVE  Spec => []PendingIsTheBatch
<1>1. Init => PendingIsTheBatch
  BY FS_EmptySet, WriterAssumption DEF Init, StreamInit, PendingIsTheBatch
<1>2. WriterInv /\ PendingIsTheBatch /\ [Next]_vars => PendingIsTheBatch'
  <2>1. ASSUME WriterInv, PendingIsTheBatch, Next PROVE PendingIsTheBatch'
    BY <2>1, NextPending DEF WriterInv
  <2>2. ASSUME PendingIsTheBatch, UNCHANGED vars PROVE PendingIsTheBatch'
    BY <2>2 DEF PendingIsTheBatch, Alive, vars, streamVars, writerVars
  <2>3. QED
    BY <2>1, <2>2
<1>3. QED
  BY <1>1, <1>2, InvHolds, PTL DEF Spec

\* A read that finds nothing new means that all there is has been delivered, or evicted.
LEMMA NothingNew ==
  ASSUME TypeOK, NewWindow(BatchMax) = {}, NEW i \in Entries
  PROVE  i <= delivered \/ i <= trimmed
<1> DEFINE fresh == {j \in Entries : j > delivered /\ j > trimmed}
           first == IF delivered >= trimmed THEN delivered + 1 ELSE trimmed + 1
<1> SUFFICES ASSUME i > delivered, i > trimmed PROVE FALSE
  BY DEF TypeOK, StreamTypeOK, Entries
<1>1. delivered \in Nat /\ trimmed \in Nat /\ Len(stream) \in Nat /\ i \in 1..Len(stream)
  BY DEF TypeOK, StreamTypeOK, Entries
<1>2. first \in fresh /\ \A j \in fresh : ~(j < first)
  BY <1>1 DEF Entries
<1>3. {j \in fresh : j < first} = {}
  BY <1>2
<1>4. Cardinality({j \in fresh : j < first}) = 0
  BY <1>3, FS_EmptySet
<1>5. first \in Oldest(fresh, BatchMax)
  BY <1>2, <1>4, WriterAssumption DEF Oldest
<1>6. QED
  BY <1>5 DEF NewWindow

LEMMA NextDrains ==
  ASSUME TypeOK, BatchShape, PendingIsTheBatch, Next, Alive, pc' = "exited",
         NEW i \in Entries
  PROVE  \/ Acked(i)' \/ i <= trimmed
         \/ i > delivered' /\ CutShort
<1> DEFINE fresh == {j \in Entries : j > delivered /\ j > trimmed}
<1>0. /\ delivered \in Nat /\ trimmed \in Nat /\ Len(stream) \in Nat /\ i \in Nat
      /\ delivered <= Len(stream) /\ fresh \in SUBSET Nat
  BY DEF TypeOK, StreamTypeOK, Entries
<1>1. CASE ReadNothing
  <2>1. NewWindow(BatchMax) = {} /\ UNCHANGED <<delivered, pel>>
    BY <1>1 DEF ReadNothing, streamVars
  <2>2. pel = {}
    BY <1>1 DEF ReadNothing, Idle, BatchShape, PendingIsTheBatch, Alive
  <2>3. QED
    BY <1>0, <2>1, <2>2, NothingNew DEF Acked
<1>2. CASE ReadNew
  <2> DEFINE window == NewWindow(BatchMax)
             readable == {j \in window : Readable(j)}
  <2>1. readable = {} /\ Deliver(window, window \ readable)
    BY <1>2 DEF ReadNew, BeginBatch
  <2>2. pel' = {}
    <3>1. pel = {}
      BY <1>2 DEF ReadNew, Idle, BatchShape, PendingIsTheBatch, Alive
    <3>2. QED
      BY <2>1, <3>1 DEF Deliver
  <2>3. delivered' \in Nat /\ delivered < delivered' /\ delivered' <= Len(stream)
    <3>1. delivered' \in window /\ window \subseteq fresh
      BY <2>1, OldestSubset DEF Deliver, NewWindow
    <3>2. QED
      BY <1>0, <3>1 DEF Entries
  <2>4. \A j \in (delivered + 1)..delivered' : ~Readable(j)
    <3> SUFFICES ASSUME NEW j \in (delivered + 1)..delivered' PROVE ~Readable(j)
      OBVIOUS
    <3>1. j \in Entries /\ ~Acked(j) /\ Acked(j)'
      BY <1>0, <2>2, <2>3 DEF Entries, Acked
    <3>2. window \ readable \subseteq {k \in window : ~Readable(k)}
      OBVIOUS
    <3>3. j <= trimmed \/ stream[j] \in Poison
      BY <2>1, <3>1, <3>2, DeliverSkipsNothing
    <3>4. QED
      BY <1>0, <3>3 DEF Readable
  <2>5. CutShort
    BY <2>3, <2>4 DEF CutShort
  <2>6. i <= delivered' => Acked(i)'
    BY <2>2 DEF Acked
  <2>7. QED
    BY <1>0, <2>3, <2>5, <2>6
<1>3. ~(ReadNothing \/ ReadNew) => FALSE
  BY DEF Next, WriterStep, Alive, Connect, ReadPending, ReadReplyLost, Flush, FlushFails, IsolateCommit,
         IsolateSplit, IsolateReject, IsolateRejectFails, IsolateFails, Ack, AckFails,
         ConnectionLost, Continue, Stops, BeginBatch, NoBatch, Crash, Shutdown, GraceExpires,
         Restart, Publish, writerVars, Idle
<1>4. QED
  BY <1>1, <1>2, <1>3

\* With the answers of XREADGROUP never lost, a writer that ends by itself has left no
\* batch half done, and nothing unread but behind unreadable entries.
THEOREM DrainsClean ==
  ASSUME "read" \notin Faults
  PROVE  Spec => DrainLeavesNothing
<1> DEFINE Clean == (Alive /\ pc' = "exited") =>
                      \A i \in Entries : \/ Acked(i)' \/ i <= trimmed
                                         \/ i > delivered' /\ CutShort
<1>1. WriterInv /\ PendingIsTheBatch /\ [Next]_vars => [Clean]_vars
  BY NextDrains DEF WriterInv
<1>2. QED
  BY <1>1, InvHolds, PendingOneBatch, PTL DEF Spec, DrainLeavesNothing

----
(* The writer implements the abstract specification of Delivery, as long as   *)
(* the rejected stream can be written: reject hides a failure there.          *)

LEMMA OwedBatch ==
  ASSUME WriterInv
  PROVE  batch \subseteq Owed
<1>1. batch \subseteq Entries /\ batch \subseteq pel
  BY BatchEntries DEF WriterInv, BatchShape
<1>2. QED
  BY <1>1 DEF Owed, Acked

LEMMA OwedSame ==
  ASSUME UNCHANGED <<stream, delivered, pel>>
  PROVE  Owed' = Owed
BY DEF Owed, Acked, Entries

LEMMA InitDelivers == Init => D!Init
<1> SUFFICES ASSUME Init PROVE D!Init
  OBVIOUS
<1>1. Owed = {}
  BY DEF Init, StreamInit, Owed, Entries
<1>2. QED
  BY <1>1 DEF Init, StreamInit, D!Init

\* A transaction, acknowledged by the database or not, is an abstract Store.
LEMMA InsertStores ==
  ASSUME WriterInv, NEW S \in SUBSET batch, rows' = Insert(S),
         UNCHANGED streamVars
  PROVE  D!Store
<1> DEFINE new == {e \in Storable : rows[e] = 0 /\ \E i \in S : stream[i] = e}
<1>1. new \in SUBSET {e \in Storable : rows[e] = 0 /\ \E i \in Owed : stream[i] = e}
  BY OwedBatch
<1>2. rows' = [e \in Event |-> IF e \in new THEN 1 ELSE rows[e]]
  BY DEF Insert, Storable
<1>3. Owed' = Owed
  BY OwedSame DEF streamVars
<1>4. QED
  BY <1>1, <1>2, <1>3 DEF D!Store, streamVars

\* Entries that leave the pending list are settled: an abstract Release.
LEMMA AckReleases ==
  ASSUME "reject" \notin Faults, WriterInv, WriterInv',
         Owed' \subseteq Owed, UNCHANGED <<stream, trimmed, rows, parked>>
  PROVE  D!Release
<1> SUFFICES ASSUME NEW i \in Owed \ Owed' PROVE D!Settled(i)
  BY DEF D!Release
<1>1. i \in Entries' /\ Acked(i)'
  BY DEF Owed, Entries
<1>2. i <= trimmed \/ stream[i] \in Poison \/ Done(i)
  BY <1>1 DEF WriterInv, AckedIsDone, Done, Stored
<1>3. stream[i] \in Event
  BY <1>1 DEF WriterInv, TypeOK, StreamTypeOK, Entries
<1>4. rows[stream[i]] > 0 => rows[stream[i]] = 1
  BY <1>3 DEF WriterInv, TypeOK, NoDoubleRow
<1>5. QED
  BY <1>2, <1>3, <1>4, WriterAssumption DEF D!Settled, Done, Stored, Storable

\* Reading or acknowledging never adds to what is owed.
LEMMA DeliverOwes ==
  ASSUME TypeOK, NEW window, window = NewWindow(BatchMax), NEW acked,
         Deliver(window, acked)
  PROVE  Owed' \subseteq Owed /\ UNCHANGED <<stream, trimmed, parked>>
<1>1. window \subseteq {i \in Entries : i > delivered}
  BY OldestSubset DEF NewWindow
<1>2. delivered <= delivered' /\ delivered \in Nat /\ delivered' \in Nat
  BY DeliverType DEF TypeOK, StreamTypeOK
<1>3. /\ UNCHANGED <<stream, trimmed, parked>>
      /\ pel' = (pel \cup window) \ acked
  BY DEF Deliver
<1>4. ASSUME NEW i \in Entries, ~Acked(i)' PROVE ~Acked(i)
  <2>1. i > delivered' \/ i \in pel'
    BY <1>2, <1>4 DEF Acked, Entries
  <2>2. i > delivered \/ i \in pel
    BY <1>1, <1>2, <1>3, <2>1 DEF Entries
  <2>3. QED
    BY <1>2, <2>2 DEF Acked, Entries
<1>5. QED
  BY <1>3, <1>4 DEF Owed, Entries

LEMMA AckOwes ==
  ASSUME NEW ids, ack(ids)
  PROVE  Owed' \subseteq Owed /\ UNCHANGED <<stream, trimmed, parked>>
BY DEF ack, Owed, Acked, Entries

LEMMA PublishAccepts ==
  ASSUME WriterInv, Publish
  PROVE  D!Accept
<1>1. PICK e \in Event : xadd(e)
  BY DEF Publish
<1>2. /\ stream \in Seq(Event) /\ delivered \in 0..Len(stream)
      /\ pel \subseteq 1..delivered /\ Len(stream) \in Nat
  BY DEF WriterInv, TypeOK, StreamTypeOK
<1>3. stream' = Append(stream, e) /\ UNCHANGED <<delivered, pel, parked, rows>>
  BY <1>1 DEF Publish, xadd, writerVars
<1>4. trimmed' \in trimmed..(Len(stream) + 1)
  BY <1>1 DEF xadd, Trimmable
<1>5. Entries' = Entries \cup {Len(stream) + 1}
  BY <1>2, <1>3 DEF Entries
<1>6. ~Acked(Len(stream) + 1)
  BY <1>2 DEF Acked
<1>7. Owed' = Owed \cup {Len(stream) + 1}
  BY <1>3, <1>5, <1>6 DEF Owed, Acked
<1>8. QED
  BY <1>3, <1>4, <1>7 DEF D!Accept

LEMMA NextDelivers ==
  ASSUME "reject" \notin Faults, WriterInv, WriterInv', Next
  PROVE  D!Next \/ UNCHANGED D!vars
<1>a. TypeOK /\ BatchShape
  BY DEF WriterInv
<1>1. CASE Publish
  BY <1>1, PublishAccepts DEF D!Next
<1>2. CASE ReadPending \/ Ack \/ AckFails
  <2>1. Owed' \subseteq Owed /\ UNCHANGED <<stream, trimmed, parked>>
    BY <1>2, AckOwes DEF ReadPending, Ack, AckFails
  <2>2. UNCHANGED rows
    BY <1>2 DEF ReadPending, Ack, AckFails, BeginBatch, NoBatch, Stops
  <2>3. QED
    BY <2>1, <2>2, AckReleases DEF D!Next
<1>3. CASE ReadNew \/ ReadReplyLost
  <2>1. Owed' \subseteq Owed /\ UNCHANGED <<stream, trimmed, parked>>
    BY <1>a, <1>3, DeliverOwes, AckOwes DEF ReadNew, ReadReplyLost
  <2>2. UNCHANGED rows
    BY <1>3 DEF ReadNew, ReadReplyLost, BeginBatch, NoBatch
  <2>3. QED
    BY <2>1, <2>2, AckReleases DEF D!Next
<1>4. CASE Flush \/ FlushFails \/ IsolateFails \/ IsolateCommit
  <2>1. UNCHANGED streamVars
    BY <1>4 DEF Flush, FlushFails, IsolateFails, IsolateCommit, ConnectionLost
  <2>2. CASE rows' = rows
    BY <2>1, <2>2, OwedSame DEF D!vars, streamVars
  <2>3. CASE rows' # rows
    <3>1. rows' = Insert(batch) \/ (pc = "isolate" /\ rows' = Insert(Head(parts)))
      BY <1>4, <2>3 DEF Flush, FlushFails, IsolateFails, IsolateCommit, ConnectionLost
    <3>2. pc = "isolate" => Head(parts) \in SUBSET batch
      BY <1>a, HeadType DEF BatchShape
    <3>3. D!Store
      BY <2>1, <3>1, <3>2, InsertStores
    <3>4. QED
      BY <3>3 DEF D!Next
  <2>4. QED
    BY <2>2, <2>3
<1>5. CASE IsolateReject
  <2>1. PICK i \in Head(parts) : ~Accepts({i}) /\ park(stream[i])
    BY <1>5 DEF IsolateReject
  <2>2. Head(parts) \subseteq batch
    BY <1>a, <1>5, HeadType DEF IsolateReject, BatchShape
  <2>3. i \in Owed /\ stream[i] \in Bad
    BY <2>1, <2>2, OwedBatch DEF Accepts
  <2>4. UNCHANGED <<stream, trimmed, delivered, pel, rows>> /\ Owed' = Owed
    BY <1>5, <2>1, OwedSame DEF IsolateReject, park
  <2>5. D!Park
    BY <2>1, <2>3, <2>4 DEF D!Park, park
  <2>6. QED
    BY <2>5 DEF D!Next
<1>6. CASE \/ Connect \/ ReadNothing \/ IsolateSplit \/ IsolateRejectFails
           \/ Crash \/ Shutdown \/ GraceExpires \/ Restart
  <2>1. UNCHANGED <<streamVars, rows>>
    BY <1>6 DEF Connect, ReadNothing, IsolateSplit, IsolateRejectFails, Crash, Shutdown,
                GraceExpires, Restart, NoBatch, Continue, Stops
  <2>2. QED
    BY <2>1, OwedSame DEF D!vars, streamVars
<1>7. QED
  BY <1>1, <1>2, <1>3, <1>4, <1>5, <1>6 DEF Next, WriterStep

\* Whatever fails except the rejected stream, the writer accepts, stores and
\* releases events as Delivery says: once each, and none released before.
THEOREM Delivers ==
  ASSUME "reject" \notin Faults
  PROVE  Spec => DeliversOnce
<1>1. WriterInv /\ WriterInv' /\ [Next]_vars => [D!Next]_(D!vars)
  <2>1. ASSUME WriterInv, WriterInv', Next PROVE [D!Next]_(D!vars)
    BY <2>1, NextDelivers
  <2>2. ASSUME UNCHANGED vars PROVE [D!Next]_(D!vars)
    BY <2>2, OwedSame DEF vars, streamVars, writerVars, D!vars
  <2>3. QED
    BY <2>1, <2>2
<1>2. QED
  BY <1>1, InitDelivers, InvHolds, PTL DEF Spec, DeliversOnce, D!Spec
====
