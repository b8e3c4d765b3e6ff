---- MODULE PublishBufferProofs ----
(***************************************************************************)
(* EventStream.publish with its buffer: types for any number of threads;   *)
(* and what it promises to a single thread, for every size of the buffer   *)
(* and any number of events and failures.  With two threads the promises   *)
(* are broken (run buffer_race).                                           *)
(***************************************************************************)
EXTENDS PublishBuffer, FiniteSetTheorems, TLAPS

OneThread == \A t, u \in Thread : t = u

LEMMA EventParts ==
  /\ Tracked \subseteq Event
  /\ \A t \in Thread : <<t, 0>> \in Event
  /\ \A t \in Thread, n \in 0..MaxPublish : <<t, n>> \in Event
BY PublishAssumption DEF Tracked

LEMMA XaddType ==
  ASSUME StreamTypeOK, NEW e \in Event, xadd(e) \/ UNCHANGED streamVars
  PROVE  StreamTypeOK'
<1>1. CASE UNCHANGED streamVars
  BY <1>1 DEF StreamTypeOK, streamVars
<1>2. CASE xadd(e)
  <2>1. stream' \in Seq(Event) /\ Len(stream') = Len(stream) + 1
    BY <1>2 DEF xadd, StreamTypeOK
  <2>2. trimmed' \in 0..Len(stream')
    BY <1>2, <2>1, StreamAssumption DEF xadd, Trimmable, StreamTypeOK
  <2>3. QED
    BY <1>2, <2>1, <2>2 DEF xadd, StreamTypeOK
<1>3. QED
  BY <1>1, <1>2

\* What publishing an event, failing to and repeating it leave of the types.
LEMMA CallTypes ==
  ASSUME TypeOK, NEW e \in Event
  PROVE  /\ _xadd(e) => StreamTypeOK'
         /\ XaddFails(e) => StreamTypeOK' /\ faults' \in 0..MaxFaults /\ failures' \in 0..faults'
         /\ XaddRepeats(e) => StreamTypeOK' /\ faults' \in 0..MaxFaults /\ failures' \in 0..faults'
<1>1. _xadd(e) \/ UNCHANGED streamVars => StreamTypeOK'
  BY XaddType DEF TypeOK, _xadd
<1>2. QED
  BY <1>1, PublishAssumption DEF TypeOK, XaddFails, XaddRepeats

LEMMA InitType == Init => TypeOK
<1> SUFFICES ASSUME Init PROVE TypeOK
  OBVIOUS
<1>1. StreamTypeOK
  BY DEF Init, StreamInit, StreamTypeOK
<1>2. buffer \in Seq(Event) /\ Len(buffer) <= BufferSize
  BY PublishAssumption DEF Init
<1>3. event \in [Thread -> Event] /\ head \in [Thread -> Event]
  BY EventParts DEF Init
<1>4. QED
  BY <1>1, <1>2, <1>3, PublishAssumption DEF Init, TypeOK

LEMMA GoType ==
  ASSUME TypeOK, NEW t \in Thread, NEW from, NEW to, Go(t, from, to),
         to \in {"idle", "send", "full", "append", "throttle", "retry", "flush", "resend", "pop"}
  PROVE  pc' \in [Thread -> {"idle", "send", "full", "append", "throttle",
                             "retry", "flush", "resend", "pop"}]
BY DEF Go, TypeOK

LEMMA PublishType ==
  ASSUME TypeOK, NEW t \in Thread, PublishNext(t) \/ PublishSample(t)
  PROVE  TypeOK'
<1>1. PICK e \in Event : Publish(t, e)
  <2>1. CASE PublishSample(t)
    BY <2>1, EventParts DEF PublishSample
  <2>2. CASE PublishNext(t)
    <3>1. count[t] + 1 \in 0..MaxPublish
      BY <2>2, PublishAssumption DEF PublishNext, TypeOK
    <3>2. QED
      BY <2>2, <3>1, EventParts DEF PublishNext
  <2>3. QED
    BY <2>1, <2>2
<1>2. count' \in [Thread -> 0..MaxPublish]
  <2>1. CASE PublishSample(t)
    BY <2>1 DEF PublishSample, TypeOK
  <2>2. CASE PublishNext(t)
    <3>1. count[t] + 1 \in 0..MaxPublish
      BY <2>2, PublishAssumption DEF PublishNext, TypeOK
    <3>2. QED
      BY <2>2, <3>1 DEF PublishNext, TypeOK
  <2>3. QED
    BY <2>1, <2>2
<1>3. pc' \in [Thread -> {"idle", "send", "full", "append", "throttle",
                          "retry", "flush", "resend", "pop"}]
  BY <1>1, GoType DEF Publish
<1>4. QED
  BY <1>1, <1>2, <1>3 DEF Publish, TypeOK, streamVars, bufferVars, StreamTypeOK

LEMMA BufferStepType ==
  ASSUME TypeOK, NEW t \in Thread, AppendToBuffer(t) \/ PopHead(t)
  PROVE  buffer' \in Seq(Event) /\ Len(buffer') <= BufferSize
<1>0. buffer \in Seq(Event) /\ Len(buffer) <= BufferSize /\ event[t] \in Event
  BY DEF TypeOK
<1>1. buffer # << >> =>
        /\ Tail(buffer) \in Seq(Event)
        /\ Len(Tail(buffer)) = Len(buffer) - 1
  BY <1>0
<1>2. CASE PopHead(t)
  <2>1. CASE buffer = << >>
    BY <1>0, <1>2, <2>1 DEF PopHead
  <2>2. CASE buffer # << >>
    <3>1. buffer' = Tail(buffer)
      BY <1>2, <2>2 DEF PopHead
    <3>2. QED
      BY <1>0, <1>1, <2>2, <3>1, PublishAssumption
  <2>3. QED
    BY <2>1, <2>2
<1>3. CASE AppendToBuffer(t)
  <2>1. CASE Len(buffer) = BufferSize
    <3>1. buffer # << >>
      BY <2>1, PublishAssumption
    <3>2. buffer' = Append(Tail(buffer), event[t])
      BY <1>3, <2>1 DEF AppendToBuffer
    <3>3. QED
      BY <1>0, <1>1, <3>1, <3>2, PublishAssumption
  <2>2. CASE Len(buffer) # BufferSize
    <3>1. buffer' = Append(buffer, event[t])
      BY <1>3, <2>2 DEF AppendToBuffer
    <3>2. QED
      BY <1>0, <2>2, <3>1, PublishAssumption
  <2>3. QED
    BY <2>1, <2>2
<1>4. QED
  BY <1>2, <1>3

LEMMA StepType == TypeOK /\ [Next]_vars => TypeOK'
<1> SUFFICES ASSUME TypeOK, [Next]_vars PROVE TypeOK'
  OBVIOUS
<1>1. CASE UNCHANGED vars
  BY <1>1 DEF vars, streamVars, bufferVars, threadVars, historyVars, TypeOK, StreamTypeOK
<1>2. CASE RetryElapses
  BY <1>2 DEF RetryElapses, streamVars, bufferVars, threadVars, TypeOK, StreamTypeOK
<1>3. ASSUME NEW t \in Thread, ThreadStep(t) PROVE TypeOK'
  <2>0. event[t] \in Event /\ head[t] \in Event
    BY DEF TypeOK
  <2>1. CASE PublishNext(t) \/ PublishSample(t)
    BY <2>1, PublishType
  <2>2. CASE Send(t)
    <3>1. StreamTypeOK'
      BY <2>0, <2>2, CallTypes DEF Send
    <3>2. QED
      BY <2>2, <3>1, GoType DEF Send, bufferVars, TypeOK
  <2>3. CASE SendRepeats(t)
    <3>1. StreamTypeOK' /\ faults' \in 0..MaxFaults /\ failures' \in 0..faults'
      BY <2>0, <2>3, CallTypes DEF SendRepeats
    <3>2. QED
      BY <2>3, <3>1, GoType DEF SendRepeats, bufferVars, TypeOK
  <2>4. CASE SendFails(t)
    <3>1. StreamTypeOK' /\ faults' \in 0..MaxFaults /\ failures' \in 0..faults'
      BY <2>0, <2>4, CallTypes DEF SendFails
    <3>2. QED
      BY <2>4, <3>1, GoType DEF SendFails, bufferVars, TypeOK
  <2>5. CASE CountDrop(t)
    BY <2>5, GoType DEF CountDrop, streamVars, TypeOK, StreamTypeOK
  <2>6. CASE AppendToBuffer(t)
    BY <2>6, GoType, BufferStepType DEF AppendToBuffer, streamVars, TypeOK, StreamTypeOK
  <2>7. CASE Throttle(t)
    BY <2>7, GoType DEF Throttle, streamVars, bufferVars, TypeOK, StreamTypeOK
  <2>8. CASE CheckRetry(t)
    BY <2>8, GoType DEF CheckRetry, streamVars, bufferVars, TypeOK, StreamTypeOK
  <2>9. CASE FlushHead(t)
    <3>1. buffer # << >> => Head(buffer) \in Event
      BY DEF TypeOK
    <3>2. head' \in [Thread -> Event]
      BY <2>9, <3>1 DEF FlushHead, TypeOK
    <3>3. QED
      BY <2>9, <3>2, GoType DEF FlushHead, streamVars, bufferVars, TypeOK, StreamTypeOK
  <2>10. CASE Resend(t)
    <3>1. StreamTypeOK'
      BY <2>0, <2>10, CallTypes DEF Resend
    <3>2. QED
      BY <2>10, <3>1, GoType DEF Resend, bufferVars, TypeOK
  <2>11. CASE ResendRepeats(t)
    <3>1. StreamTypeOK' /\ faults' \in 0..MaxFaults /\ failures' \in 0..faults'
      BY <2>0, <2>11, CallTypes DEF ResendRepeats
    <3>2. QED
      BY <2>11, <3>1, GoType DEF ResendRepeats, bufferVars, TypeOK
  <2>12. CASE ResendFails(t)
    <3>1. StreamTypeOK' /\ faults' \in 0..MaxFaults /\ failures' \in 0..faults'
      BY <2>0, <2>12, CallTypes DEF ResendFails
    <3>2. QED
      BY <2>12, <3>1, GoType DEF ResendFails, bufferVars, TypeOK
  <2>13. CASE PopHead(t)
    BY <2>13, GoType, BufferStepType DEF PopHead, streamVars, TypeOK, StreamTypeOK
  <2>14. QED
    BY <1>3, <2>1, <2>2, <2>3, <2>4, <2>5, <2>6, <2>7, <2>8, <2>9, <2>10, <2>11, <2>12, <2>13
       DEF ThreadStep
<1>4. QED
  BY <1>1, <1>2, <1>3 DEF Next

\* Type correctness, for any number of threads: the buffer never outgrows its limit.
THEOREM TypeCorrect == Spec => []TypeOK
<1>1. QED
  BY InitType, StepType, PTL DEF Spec

----
(* One thread: nobody else touches the buffer between two of its steps. *)

\* A failed attempt that the retry time does not know of yet.
Attempted(t) == tried[t] /\ pc[t] \in {"full", "append", "throttle"}

\* Where the thread is says what it left in the buffer and in the retry time.
Alone(t) ==
  /\ pc[t] = "send" => buffer = << >>
  /\ pc[t] \in {"resend", "pop"} => buffer # << >> /\ head[t] = Head(buffer)
  /\ pc[t] \in {"flush", "resend", "pop"} => due
  /\ pc[t] = "throttle" => buffer # << >>
  /\ failures # 0 => ~due \/ Attempted(t)

AloneInv ==
  /\ \A t \in Thread : Alone(t)
  /\ ~due => buffer # << >>
  /\ failures <= 1

LEMMA InitAlone == Init => AloneInv
BY DEF Init, AloneInv, Alone, Attempted

LEMMA AloneStep == OneThread /\ TypeOK /\ AloneInv /\ [Next]_vars => AloneInv'
<1> SUFFICES ASSUME OneThread, TypeOK, AloneInv, [Next]_vars PROVE AloneInv'
  OBVIOUS
<1>0. buffer \in Seq(Event) /\ failures \in Nat /\ BufferSize \in Nat \ {0}
  BY PublishAssumption DEF TypeOK
<1>1. CASE UNCHANGED vars
  BY <1>1 DEF vars, bufferVars, threadVars, historyVars, AloneInv, Alone, Attempted
<1>2. CASE RetryElapses
  BY <1>2 DEF RetryElapses, bufferVars, threadVars, AloneInv, Alone, Attempted
<1>3. ASSUME NEW t \in Thread, ThreadStep(t) PROVE AloneInv'
  <2>0. /\ Alone(t) /\ \A u \in Thread : u = t
        /\ t \in DOMAIN pc /\ t \in DOMAIN tried /\ t \in DOMAIN event /\ t \in DOMAIN head
    BY <1>3 DEF AloneInv, OneThread, TypeOK
  <2>1. SUFFICES /\ Alone(t)'
                 /\ (~due => buffer # << >>)'
                 /\ failures' <= 1
    BY <2>0, <2>1 DEF AloneInv
  <2> USE <2>0 DEF AloneInv, Alone, Attempted, Go, bufferVars
  <2>2. CASE PublishNext(t) \/ PublishSample(t)
    BY <2>2 DEF PublishNext, PublishSample, Publish
  <2>3. CASE Send(t)
    BY <2>3 DEF Send
  <2>4. CASE SendRepeats(t)
    BY <2>4 DEF SendRepeats, XaddRepeats
  <2>5. CASE SendFails(t)
    <3>1. failures = 0
      BY <2>5 DEF SendFails
    <3>2. QED
      BY <2>5, <3>1 DEF SendFails, XaddFails
  <2>6. CASE CountDrop(t)
    BY <2>6 DEF CountDrop
  <2>7. CASE AppendToBuffer(t)
    <3>1. buffer' # << >>
      <4>1. PICK s \in Seq(Event) : buffer' = Append(s, event[t])
        <5>1. CASE Len(buffer) = BufferSize
          <6>1. buffer # << >> /\ buffer' = Append(Tail(buffer), event[t])
            BY <1>0, <2>7, <5>1 DEF AppendToBuffer
          <6>2. Tail(buffer) \in Seq(Event)
            BY <1>0, <6>1
          <6>3. QED
            BY <6>1, <6>2
        <5>2. CASE Len(buffer) # BufferSize
          BY <1>0, <2>7, <5>2 DEF AppendToBuffer
        <5>3. QED
          BY <5>1, <5>2
      <4>2. QED
        BY <4>1
    <3>2. QED
      BY <2>7, <3>1 DEF AppendToBuffer
  <2>8. CASE Throttle(t)
    BY <2>8 DEF Throttle
  <2>9. CASE CheckRetry(t)
    BY <2>9 DEF CheckRetry
  <2>10. CASE FlushHead(t)
    BY <2>10 DEF FlushHead
  <2>11. CASE Resend(t)
    BY <2>11 DEF Resend
  <2>12. CASE ResendRepeats(t)
    BY <2>12 DEF ResendRepeats, XaddRepeats
  <2>13. CASE ResendFails(t)
    <3>1. failures = 0
      BY <2>13 DEF ResendFails
    <3>2. QED
      BY <2>13, <3>1 DEF ResendFails, XaddFails
  <2>14. CASE PopHead(t)
    BY <2>14 DEF PopHead
  <2>15. QED
    BY <1>3, <2>2, <2>3, <2>4, <2>5, <2>6, <2>7, <2>8, <2>9, <2>10, <2>11, <2>12, <2>13, <2>14
       DEF ThreadStep
<1>4. QED
  BY <1>1, <1>2, <1>3 DEF Next

THEOREM AloneHolds == ASSUME OneThread PROVE Spec => []AloneInv
<1>1. TypeOK /\ AloneInv /\ [Next]_vars => AloneInv'
  BY AloneStep, OneThread
<1>2. QED
  BY <1>1, InitAlone, TypeCorrect, PTL DEF Spec

\* With one thread, at most one call fails in an interval of the retry, however many
\* events come.
THEOREM OneFailureEach == ASSUME OneThread PROVE Spec => []OneFailurePerInterval
<1>1. AloneInv => OneFailurePerInterval
  BY DEF AloneInv, OneFailurePerInterval
<1>2. QED
  BY <1>1, AloneHolds, OneThread, PTL

----
(* Every event that is nowhere was evicted, and every eviction counted. *)

Els(s) == {s[i] : i \in 1..Len(s)}

\* What a sequence holds, after its head is taken and after an element is appended.
LEMMA HeadAndTail ==
  ASSUME NEW s \in Seq(Event), s # << >>
  PROVE  Head(s) \in Els(s) /\ Els(s) \subseteq {Head(s)} \cup Els(Tail(s))
<1>1. Head(s) = s[1] /\ 1 \in 1..Len(s) /\ Len(Tail(s)) = Len(s) - 1
  OBVIOUS
<1>2. ASSUME NEW i \in 1..Len(s), i # 1
      PROVE  s[i] = Tail(s)[i - 1] /\ i - 1 \in 1..Len(Tail(s))
  BY <1>1, <1>2
<1>3. QED
  BY <1>1, <1>2 DEF Els

LEMMA Appended ==
  ASSUME NEW s \in Seq(Event), NEW e \in Event
  PROVE  Els(s) \cup {e} \subseteq Els(Append(s, e))
<1>1. Len(Append(s, e)) = Len(s) + 1 /\ Len(s) \in Nat
  OBVIOUS
<1>2. \A i \in 1..Len(s) : Append(s, e)[i] = s[i] /\ i \in 1..Len(Append(s, e))
  BY <1>1
<1>3. Append(s, e)[Len(s) + 1] = e /\ Len(s) + 1 \in 1..Len(Append(s, e))
  BY <1>1
<1>4. QED
  BY <1>2, <1>3 DEF Els

LEMMA Holdings ==
  /\ InStream = Els(stream) /\ InStream' = Els(stream')
  /\ InMemory = Els(buffer) /\ InMemory' = Els(buffer')
BY DEF InStream, InMemory, Entries, Els

\* What a call to XADD leaves in the stream, whether it fails or not.
LEMMA Streamed ==
  ASSUME TypeOK, NEW e \in Event
  PROVE  /\ _xadd(e) \/ XaddFails(e) \/ XaddRepeats(e) => InStream \subseteq InStream'
         /\ _xadd(e) /\ e \in Tracked => e \in InStream'
<1>0. stream \in Seq(Event)
  BY DEF TypeOK, StreamTypeOK
<1>1. UNCHANGED streamVars => InStream \subseteq InStream'
  BY DEF streamVars, InStream, Entries
<1>2. xadd(e) => InStream \cup {e} \subseteq InStream'
  BY <1>0, Appended, Holdings DEF xadd
<1>3. QED
  BY <1>1, <1>2 DEF _xadd, XaddFails, XaddRepeats

\* An event is popped only after it has been sent.
Sent == \A t \in Thread : pc[t] = "pop" /\ head[t] \in Tracked => head[t] \in InStream

LEMMA SentStep == OneThread /\ TypeOK /\ Sent /\ [Next]_vars => Sent'
<1> SUFFICES ASSUME OneThread, TypeOK, Sent, [Next]_vars PROVE Sent'
  OBVIOUS
<1>1. CASE UNCHANGED vars
  BY <1>1 DEF vars, threadVars, streamVars, Sent, InStream, Entries
<1>2. CASE RetryElapses
  BY <1>2 DEF RetryElapses, threadVars, streamVars, Sent, InStream, Entries
<1>3. ASSUME NEW t \in Thread, ThreadStep(t) PROVE Sent'
  <2>0. \A u \in Thread : u = t
    BY <1>3 DEF OneThread
  <2>1. head[t] \in Event /\ t \in DOMAIN pc
    BY DEF TypeOK
  <2>2. CASE Resend(t)
    BY <2>0, <2>1, <2>2, Streamed DEF Resend, Go, Sent
  <2>3. CASE ~Resend(t)
    <3>1. pc'[t] # "pop"
      BY <1>3, <2>1, <2>3 DEF ThreadStep, PublishNext, PublishSample, Publish, Send, SendRepeats,
         SendFails, CountDrop, AppendToBuffer, Throttle, CheckRetry, FlushHead, ResendRepeats,
         ResendFails, PopHead, Go
    <3>2. QED
      BY <2>0, <3>1 DEF Sent
  <2>4. QED
    BY <2>2, <2>3
<1>4. QED
  BY <1>1, <1>2, <1>3 DEF Next

\* About to evict an event that it has counted.
Evicting == \E t \in Thread : pc[t] = "append" /\ Len(buffer) = BufferSize

Counted ==
  /\ Cardinality(Lost) <= dropped
  /\ Evicting => Cardinality(Lost) < dropped

LEMMA LostFinite ==
  ASSUME OneThread, TypeOK
  PROVE  /\ IsFiniteSet(Lost) /\ Cardinality(Lost) \in Nat
         /\ IsFiniteSet(Lost') /\ Cardinality(Lost') \in Nat
<1>1. IsFiniteSet(Thread)
  <2>1. Thread = {} \/ \E t : Thread = {t}
    BY DEF OneThread
  <2>2. QED
    BY <2>1, FS_EmptySet, FS_Singleton
<1>2. IsFiniteSet(Tracked)
  <2>1. IsFiniteSet(1..MaxPublish)
    BY FS_Interval, PublishAssumption
  <2>2. QED
    BY <1>1, <2>1, FS_Product DEF Tracked
<1>3. Lost \subseteq Tracked /\ Lost' \subseteq Tracked
  BY DEF Lost, Published
<1>4. QED
  BY <1>2, <1>3, FS_Subset, FS_CardinalityType

LEMMA Hand ==
  ASSUME OneThread, NEW t \in Thread
  PROVE  /\ InHand = {e \in {event[t]} : pc[t] \in {"send", "full", "append"}}
                       \cup {e \in {head[t]} : pc[t] = "resend"}
         /\ InHand' = {e \in {event'[t]} : pc'[t] \in {"send", "full", "append"}}
                        \cup {e \in {head'[t]} : pc'[t] = "resend"}
<1>1. \A u \in Thread : u = t
  BY DEF OneThread
<1>2. QED
  BY <1>1 DEF InHand

\* A step of the thread keeps all that is somewhere, except what it evicts.
LEMMA Kept ==
  ASSUME OneThread, TypeOK, AloneInv, Sent, NEW t \in Thread, ThreadStep(t)
  PROVE  /\ Published' \subseteq Published \cup InHand'
         /\ \A e \in Tracked :
              e \in InStream \cup InMemory \cup InHand =>
                \/ e \in InStream' \cup InMemory' \cup InHand'
                \/ AppendToBuffer(t) /\ Len(buffer) = BufferSize /\ e = Head(buffer)
<1>0. /\ buffer \in Seq(Event) /\ event[t] \in Event /\ head[t] \in Event
      /\ t \in DOMAIN pc /\ t \in DOMAIN event /\ t \in DOMAIN head /\ Alone(t)
      /\ BufferSize \in Nat \ {0}
  BY PublishAssumption DEF TypeOK, AloneInv
<1>1. buffer' = buffer => InMemory' = InMemory
  BY DEF InMemory
<1>2. UNCHANGED streamVars => InStream' = InStream
  BY DEF InStream, Entries, streamVars
<1>3. count' = count => Published' = Published
  BY DEF Published
<1>4. CASE PublishNext(t) \/ PublishSample(t)
  <2>1. InHand = {}
    BY <1>4, Hand DEF PublishNext, PublishSample, Publish, Go
  <2>2. InStream' = InStream /\ InMemory' = InMemory
    BY <1>1, <1>2, <1>4 DEF PublishNext, PublishSample, Publish, bufferVars
  <2>3. Published' \subseteq Published \cup InHand'
    <3>1. CASE PublishSample(t)
      BY <1>3, <3>1 DEF PublishSample
    <3>2. CASE PublishNext(t)
      <4>1. <<t, count[t] + 1>> \in InHand'
        BY <1>0, <3>2, Hand DEF PublishNext, Publish, Go
      <4>2. \A e \in Published' : e[1] = t /\ e = <<e[1], e[2]>> /\ e[2] \in Nat
        BY PublishAssumption DEF Published, Tracked, OneThread
      <4>3. count[t] \in Nat /\ count'[t] = count[t] + 1
        BY <3>2, PublishAssumption DEF PublishNext, TypeOK
      <4>4. \A e \in Published' : e \in Published \/ e[2] = count[t] + 1
        BY <4>2, <4>3 DEF Published
      <4>5. QED
        BY <4>1, <4>2, <4>4
    <3>3. QED
      BY <1>4, <3>1, <3>2
  <2>4. QED
    BY <2>1, <2>2, <2>3
<1>5. CASE Send(t)
  <2>1. InMemory' = InMemory /\ Published' = Published
    BY <1>1, <1>3, <1>5 DEF Send, bufferVars
  <2>2. InStream \subseteq InStream' /\ (event[t] \in Tracked => event[t] \in InStream')
    BY <1>0, <1>5, Streamed DEF Send
  <2>3. InHand = {event[t]}
    BY <1>5, Hand DEF Send, Go
  <2>4. QED
    BY <2>1, <2>2, <2>3
<1>6. CASE SendRepeats(t) \/ SendFails(t)
  <2>1. InMemory' = InMemory /\ Published' = Published
    BY <1>1, <1>3, <1>6 DEF SendRepeats, SendFails, bufferVars
  <2>2. InStream \subseteq InStream'
    BY <1>0, <1>6, Streamed DEF SendRepeats, SendFails
  <2>3. InHand = {event[t]} /\ InHand' = {event'[t]} /\ event' = event
    BY <1>0, <1>6, Hand DEF SendRepeats, SendFails, Go
  <2>4. QED
    BY <2>1, <2>2, <2>3
<1>7. CASE CountDrop(t)
  <2>1. InHand = {event[t]} /\ InHand' = {event'[t]} /\ event' = event
    BY <1>0, <1>7, Hand DEF CountDrop, Go
  <2>2. QED
    BY <1>1, <1>2, <1>3, <1>7, <2>1 DEF CountDrop
<1>8. CASE AppendToBuffer(t)
  <2>1. InHand = {event[t]}
    BY <1>8, Hand DEF AppendToBuffer, Go
  <2>2. InStream' = InStream /\ Published' = Published
    BY <1>2, <1>3, <1>8 DEF AppendToBuffer
  <2>3. CASE Len(buffer) # BufferSize
    <3>1. InMemory \cup {event[t]} \subseteq InMemory'
      BY <1>0, <1>8, <2>3, Appended, Holdings DEF AppendToBuffer
    <3>2. QED
      BY <2>1, <2>2, <3>1
  <2>4. CASE Len(buffer) = BufferSize
    <3>1. buffer # << >> /\ Tail(buffer) \in Seq(Event) /\ buffer' = Append(Tail(buffer), event[t])
      BY <1>0, <1>8, <2>4 DEF AppendToBuffer
    <3>2. InMemory \subseteq {Head(buffer)} \cup Els(Tail(buffer))
      BY <1>0, <3>1, HeadAndTail, Holdings
    <3>3. Els(Tail(buffer)) \cup {event[t]} \subseteq InMemory'
      BY <1>0, <3>1, Appended, Holdings
    <3>4. QED
      BY <1>8, <2>1, <2>2, <2>4, <3>2, <3>3
  <2>5. QED
    BY <2>3, <2>4
<1>9. CASE Throttle(t) \/ CheckRetry(t)
  <2>1. InHand = {}
    BY <1>9, Hand DEF Throttle, CheckRetry, Go
  <2>2. QED
    BY <1>1, <1>2, <1>3, <1>9, <2>1 DEF Throttle, CheckRetry, bufferVars
<1>10. CASE FlushHead(t)
  <2>1. InHand = {}
    BY <1>10, Hand DEF FlushHead, Go
  <2>2. QED
    BY <1>1, <1>2, <1>3, <1>10, <2>1 DEF FlushHead, bufferVars
<1>11. CASE Resend(t)
  <2>1. InMemory' = InMemory /\ Published' = Published
    BY <1>1, <1>3, <1>11 DEF Resend, bufferVars
  <2>2. InStream \subseteq InStream' /\ (head[t] \in Tracked => head[t] \in InStream')
    BY <1>0, <1>11, Streamed DEF Resend
  <2>3. InHand = {head[t]}
    BY <1>11, Hand DEF Resend, Go
  <2>4. QED
    BY <2>1, <2>2, <2>3
<1>12. CASE ResendRepeats(t) \/ ResendFails(t)
  <2>1. InMemory' = InMemory /\ Published' = Published
    BY <1>1, <1>3, <1>12 DEF ResendRepeats, ResendFails, bufferVars
  <2>2. InStream \subseteq InStream'
    BY <1>0, <1>12, Streamed DEF ResendRepeats, ResendFails
  <2>3. InHand = {head[t]}
    BY <1>12, Hand DEF ResendRepeats, ResendFails, Go
  <2>4. head[t] \in InMemory
    <3>1. buffer # << >> /\ head[t] = Head(buffer)
      BY <1>0, <1>12 DEF Alone, ResendRepeats, ResendFails, Go
    <3>2. QED
      BY <1>0, <3>1, HeadAndTail, Holdings
  <2>5. QED
    BY <2>1, <2>2, <2>3, <2>4
<1>13. CASE PopHead(t)
  <2>1. InHand = {}
    BY <1>13, Hand DEF PopHead
  <2>2. InStream' = InStream /\ Published' = Published
    BY <1>2, <1>3, <1>13 DEF PopHead
  <2>3. buffer # << >> /\ head[t] = Head(buffer) /\ buffer' = Tail(buffer)
    BY <1>0, <1>13 DEF PopHead, Alone
  <2>4. InMemory \subseteq {head[t]} \cup InMemory'
    BY <1>0, <2>3, HeadAndTail, Holdings
  <2>5. head[t] \in Tracked => head[t] \in InStream
    BY <1>13 DEF PopHead, Sent
  <2>6. QED
    BY <2>1, <2>2, <2>4, <2>5
<1>14. QED
  BY <1>4, <1>5, <1>6, <1>7, <1>8, <1>9, <1>10, <1>11, <1>12, <1>13 DEF ThreadStep

\* So a step loses nothing, or the one event that it evicts.
LEMMA NothingLost ==
  ASSUME OneThread, TypeOK, AloneInv, Sent, NEW t \in Thread, ThreadStep(t)
  PROVE  /\ Lost' \subseteq Lost \cup {Head(buffer)}
         /\ ~(AppendToBuffer(t) /\ Len(buffer) = BufferSize) => Lost' \subseteq Lost
<1>1. Published \subseteq Tracked /\ Published' \subseteq Tracked
  BY DEF Published
<1>2. QED
  BY <1>1, Kept DEF Lost

LEMMA CountedStep ==
  OneThread /\ TypeOK /\ TypeOK' /\ AloneInv /\ Sent /\ Counted /\ [Next]_vars => Counted'
<1> SUFFICES ASSUME OneThread, TypeOK, TypeOK', AloneInv, Sent, Counted, [Next]_vars
             PROVE  Counted'
  OBVIOUS
<1>0. /\ IsFiniteSet(Lost) /\ Cardinality(Lost) \in Nat /\ dropped \in Nat /\ dropped' \in Nat
      /\ Cardinality(Lost') \in Nat
  BY LostFinite DEF TypeOK
<1>1. CASE UNCHANGED vars
  BY <1>1
     DEF vars, bufferVars, threadVars, streamVars, Counted, Evicting, Lost, Published, InStream,
         InMemory, InHand, Entries
<1>2. CASE RetryElapses
  BY <1>2
     DEF RetryElapses, bufferVars, threadVars, streamVars, Counted, Evicting, Lost, Published,
         InStream, InMemory, InHand, Entries
<1>3. ASSUME NEW t \in Thread, ThreadStep(t) PROVE Counted'
  <2>0. t \in DOMAIN pc /\ \A u \in Thread : u = t
    BY <1>3 DEF TypeOK, OneThread
  <2>1. CASE CountDrop(t)
    <3>1. Lost' \subseteq Lost
      BY <2>1, <1>3, NothingLost DEF CountDrop, AppendToBuffer, Go
    <3>2. Cardinality(Lost') <= Cardinality(Lost)
      BY <1>0, <3>1, FS_Subset
    <3>3. QED
      BY <1>0, <2>0, <2>1, <3>2 DEF CountDrop, Go, Counted, Evicting
  <2>2. CASE AppendToBuffer(t)
    <3>1. ~Evicting'
      BY <2>0, <2>2 DEF AppendToBuffer, Go, Evicting
    <3>2. CASE Len(buffer) = BufferSize
      <4>1. Cardinality(Lost) < dropped /\ dropped' = dropped
        BY <2>2, <3>2 DEF AppendToBuffer, Go, Counted, Evicting
      <4>2. /\ IsFiniteSet(Lost \cup {Head(buffer)})
            /\ Cardinality(Lost \cup {Head(buffer)}) \in {Cardinality(Lost), Cardinality(Lost) + 1}
        BY <1>0, FS_AddElement
      <4>3. Cardinality(Lost') <= Cardinality(Lost \cup {Head(buffer)})
        BY <1>3, <4>2, NothingLost, FS_Subset
      <4>4. QED
        BY <1>0, <3>1, <4>1, <4>2, <4>3 DEF Counted
    <3>3. CASE Len(buffer) # BufferSize
      <4>1. Cardinality(Lost') <= Cardinality(Lost)
        BY <1>0, <1>3, <3>3, NothingLost, FS_Subset
      <4>2. QED
        BY <1>0, <2>2, <3>1, <4>1 DEF AppendToBuffer, Counted
    <3>4. QED
      BY <3>2, <3>3
  <2>3. CASE ~CountDrop(t) /\ ~AppendToBuffer(t)
    <3>1. Cardinality(Lost') <= Cardinality(Lost)
      BY <1>0, <1>3, <2>3, NothingLost, FS_Subset
    <3>2. pc'[t] # "append" /\ dropped' = dropped
      BY <1>3, <2>0, <2>3 DEF ThreadStep, PublishNext, PublishSample, Publish, Send, SendRepeats,
         SendFails, Throttle, CheckRetry, FlushHead, Resend, ResendRepeats, ResendFails, PopHead,
         Go, bufferVars
    <3>3. QED
      BY <1>0, <2>0, <3>1, <3>2 DEF Counted, Evicting
  <2>4. QED
    BY <2>1, <2>2, <2>3
<1>4. QED
  BY <1>1, <1>2, <1>3 DEF Next

LEMMA InitCounted == Init => Sent /\ Counted
<1> SUFFICES ASSUME Init PROVE Sent /\ Counted
  OBVIOUS
<1>1. Sent /\ ~Evicting
  BY DEF Init, Sent, Evicting
<1>2. Lost = {}
  BY DEF Init, Lost, Published, Tracked
<1>3. QED
  BY <1>1, <1>2, FS_EmptySet DEF Counted, Init

\* An event of a single thread that is neither in the stream, nor buffered, nor in its
\* hands was evicted from a full buffer, and the count of evictions tells.
THEOREM LossIsCounted == ASSUME OneThread PROVE Spec => []LossAccounted
<1>1. TypeOK /\ Sent /\ [Next]_vars => Sent'
  BY SentStep, OneThread
<1>2. TypeOK /\ TypeOK' /\ AloneInv /\ Sent /\ Counted /\ [Next]_vars => Counted'
  BY CountedStep, OneThread
<1>3. Counted => LossAccounted
  BY DEF Counted, LossAccounted
<1>4. Spec => []AloneInv
  BY AloneHolds, OneThread
<1>5. QED
  BY <1>1, <1>2, <1>3, <1>4, InitCounted, TypeCorrect, PTL DEF Spec

----
(* The stream is in order: what is sent is never older than what was sent, because nobody *)
(* publishes past a buffer that holds something.                                          *)

\* What is published, buffered and sent, in this order.
Ordered ==
  /\ \A i \in Entries : stream[i] \in Tracked
  /\ InOrder
  /\ \A i, j \in 1..Len(buffer) :
       i < j /\ buffer[i] \in Tracked /\ buffer[j] \in Tracked => buffer[i][2] < buffer[j][2]
  /\ \A e \in InStream, f \in InMemory : f \in Tracked => e[2] <= f[2]
  /\ \A t \in Thread : \A e \in InStream \cup InMemory : e[2] <= count[t]
  /\ \A t \in Thread :
       pc[t] \in {"send", "full", "append"} /\ event[t] \in Tracked =>
         /\ event[t][2] = count[t]
         /\ \A f \in InMemory : f[2] < count[t]

LEMMA Numbers ==
  ASSUME OneThread
  PROVE  /\ \A e \in Event : e[1] \in Thread /\ e[2] \in 0..MaxPublish /\ e[2] \in Nat /\ e = <<e[1], e[2]>>
         /\ \A e \in Tracked : e[2] > 0
         /\ \A e, f \in Event : e[2] = f[2] => e = f
BY PublishAssumption DEF Tracked, OneThread

\* An event that is appended, or not, after older ones or a copy of itself.
LEMMA AppendedInOrder ==
  ASSUME OneThread, TypeOK, Ordered, NEW e \in Event,
         \A d \in InStream : d[2] <= e[2],
         _xadd(e) \/ XaddFails(e) \/ XaddRepeats(e)
  PROVE  /\ \A i \in Entries' : stream'[i] \in Tracked
         /\ InOrder'
         /\ InStream' \subseteq InStream \cup {e}
<1>0. stream \in Seq(Event) /\ Len(stream) \in Nat
  BY DEF TypeOK, StreamTypeOK
<1>1. CASE UNCHANGED streamVars
  BY <1>1 DEF streamVars, Ordered, InOrder, Entries, First, InStream
<1>2. CASE e \in Tracked /\ xadd(e)
  <2> DEFINE n == Len(stream) + 1
  <2>1. stream' = Append(stream, e) /\ Len(stream') = n
    BY <1>0, <1>2 DEF xadd
  <2>2. stream'[n] = e /\ \A i \in Entries : stream'[i] = stream[i] /\ stream[i] \in Event
    BY <1>0, <2>1 DEF Entries
  <2>3. Entries' = 1..n /\ \A i \in Entries' : i \in Entries \/ i = n
    BY <1>0, <2>1 DEF Entries
  <2>4. \A i \in Entries : \A j \in 1..(i - 1) : j \in Entries
    BY <1>0 DEF Entries
  <2>5. \A i \in Entries : First(i)' <=> First(i)
    BY <2>2, <2>4 DEF First
  <2>6. ASSUME NEW j, j = n, First(j)' PROVE \A i \in Entries : stream[i] # e
    <3>1. Entries = 1..(j - 1)
      BY <1>0, <2>6 DEF Entries
    <3>2. \A i \in 1..(j - 1) : stream'[i] # stream'[j]
      BY <2>6 DEF First
    <3>3. QED
      BY <2>2, <2>6, <3>1, <3>2
  <2>7. ASSUME NEW i \in Entries', NEW j \in Entries', i < j, First(i)', First(j)'
        PROVE  stream'[i][2] < stream'[j][2]
    <3>1. CASE j \in Entries
      <4>1. i \in Entries
        BY <2>7, <3>1, <2>3, <1>0 DEF Entries
      <4>2. First(i) /\ First(j)
        BY <2>5, <2>7, <3>1, <4>1
      <4>3. stream[i][1] = stream[j][1]
        BY <2>2, <3>1, <4>1, Numbers DEF OneThread
      <4>4. QED
        BY <2>2, <2>7, <3>1, <4>1, <4>2, <4>3 DEF Ordered, InOrder
    <3>2. CASE j = n
      <4>1. i \in Entries
        BY <2>7, <3>2, <2>3
      <4>2. stream[i] # e /\ stream[i] \in Event
        BY <2>2, <2>6, <2>7, <3>2, <4>1
      <4>3. stream[i][2] # e[2] /\ stream[i][2] \in Nat /\ e[2] \in Nat
        BY <4>2, Numbers
      <4>4. stream[i][2] <= e[2]
        BY <4>1 DEF InStream
      <4>5. stream[i][2] < e[2]
        BY <4>3, <4>4
      <4>6. QED
        BY <2>2, <3>2, <4>1, <4>5
    <3>3. QED
      BY <2>3, <3>1, <3>2
  <2>8. \A i \in Entries' : stream'[i] \in Tracked
    BY <1>2, <2>2, <2>3 DEF Ordered
  <2>9. InStream' \subseteq InStream \cup {e}
    BY <2>2, <2>3 DEF InStream
  <2>10. QED
    BY <2>7, <2>8, <2>9 DEF InOrder
<1>3. QED
  BY <1>1, <1>2 DEF _xadd, XaddFails, XaddRepeats

\* The buffer loses its head, or gets an event that is newer than all it has.
LEMMA BufferInOrder ==
  ASSUME TypeOK, Ordered, NEW s \in Seq(Event),
         s = buffer \/ (buffer # << >> /\ s = Tail(buffer))
  PROVE  /\ Els(s) \subseteq InMemory
         /\ \A i, j \in 1..Len(s) : i < j /\ s[i] \in Tracked /\ s[j] \in Tracked => s[i][2] < s[j][2]
<1>0. buffer \in Seq(Event)
  BY DEF TypeOK
<1>1. CASE s = buffer
  BY <1>1, Holdings DEF Ordered
<1>2. CASE buffer # << >> /\ s = Tail(buffer)
  <2>1. \A i \in 1..Len(s) : i \in Nat /\ s[i] = buffer[i + 1] /\ i + 1 \in 1..Len(buffer)
    BY <1>0, <1>2
  <2>2. Els(s) \subseteq InMemory
    BY <2>1 DEF Els, InMemory
  <2>3. \A i, j \in 1..Len(s) : i < j => i + 1 < j + 1
    BY <2>1
  <2>4. QED
    BY <2>1, <2>2, <2>3 DEF Ordered
<1>3. QED
  BY <1>1, <1>2

LEMMA PushInOrder ==
  ASSUME NEW s \in Seq(Event), NEW e \in Event,
         \A i, j \in 1..Len(s) : i < j /\ s[i] \in Tracked /\ s[j] \in Tracked => s[i][2] < s[j][2],
         e \in Tracked => \A d \in Els(s) : d[2] < e[2]
  PROVE  /\ Els(Append(s, e)) \subseteq Els(s) \cup {e}
         /\ \A i, j \in 1..Len(Append(s, e)) :
              /\ i < j /\ Append(s, e)[i] \in Tracked /\ Append(s, e)[j] \in Tracked
              => Append(s, e)[i][2] < Append(s, e)[j][2]
<1> DEFINE q == Append(s, e)
<1>1. Len(q) = Len(s) + 1 /\ Len(s) \in Nat /\ q[Len(s) + 1] = e
  OBVIOUS
<1>2. \A i \in 1..Len(s) : q[i] = s[i] /\ s[i] \in Els(s)
  BY DEF Els
<1>3. \A i \in 1..Len(q) : i \in 1..Len(s) \/ i = Len(s) + 1
  BY <1>1
<1>4. Els(q) \subseteq Els(s) \cup {e}
  BY <1>1, <1>2, <1>3 DEF Els
<1>5. ASSUME NEW i \in 1..Len(q), NEW j \in 1..Len(q), i < j, q[i] \in Tracked, q[j] \in Tracked
      PROVE  q[i][2] < q[j][2]
  <2>1. i \in 1..Len(s)
    BY <1>1, <1>5
  <2>2. CASE j \in 1..Len(s)
    BY <1>2, <1>5, <2>1, <2>2
  <2>3. CASE j = Len(s) + 1
    BY <1>1, <1>2, <1>5, <2>1, <2>3
  <2>4. QED
    BY <1>3, <2>2, <2>3
<1>6. QED
  BY <1>4, <1>5

LEMMA OrderedStep == OneThread /\ TypeOK /\ AloneInv /\ Ordered /\ [Next]_vars => Ordered'
<1> SUFFICES ASSUME OneThread, TypeOK, AloneInv, Ordered, [Next]_vars PROVE Ordered'
  OBVIOUS
<1>a. UNCHANGED streamVars => InStream' = InStream /\ Entries' = Entries /\ stream' = stream
                              /\ (InOrder' <=> InOrder)
  BY DEF InStream, Entries, streamVars, InOrder, First
<1>b. buffer' = buffer => InMemory' = InMemory
  BY DEF InMemory
<1>1. CASE UNCHANGED vars
  BY <1>1, <1>a, <1>b DEF vars, bufferVars, threadVars, Ordered
<1>2. CASE RetryElapses
  BY <1>2, <1>a, <1>b DEF RetryElapses, bufferVars, threadVars, Ordered
<1>3. ASSUME NEW t \in Thread, ThreadStep(t) PROVE Ordered'
  <2>0. /\ Alone(t) /\ \A u \in Thread : u = t
        /\ t \in DOMAIN pc /\ t \in DOMAIN event /\ t \in DOMAIN head /\ t \in DOMAIN count
        /\ buffer \in Seq(Event) /\ event[t] \in Event /\ head[t] \in Event
        /\ count[t] \in Nat
    BY <1>3, PublishAssumption DEF AloneInv, OneThread, TypeOK
  <2>b. /\ \A e \in InStream : e \in Tracked /\ e \in Event /\ e[2] \in Nat /\ e[2] <= count[t]
        /\ \A e \in InMemory : e \in Event /\ e[2] \in Nat /\ e[2] <= count[t]
    <3>1. InMemory \subseteq Event
      BY <2>0 DEF InMemory
    <3>2. InStream \subseteq Tracked
      BY DEF Ordered, InStream
    <3>3. QED
      BY <3>1, <3>2, <2>0, EventParts, Numbers DEF Ordered
  <2>c. pc[t] \in {"resend", "pop"} => head[t] \in InMemory
    <3>1. ASSUME pc[t] \in {"resend", "pop"} PROVE head[t] \in InMemory
      <4>1. buffer # << >> /\ head[t] = Head(buffer)
        BY <2>0, <3>1 DEF Alone
      <4>2. QED
        BY <2>0, <4>1, HeadAndTail, Holdings
    <3>2. QED
      BY <3>1
  <2>1. CASE PublishNext(t)
    <3>1. event' = [event EXCEPT ![t] = <<t, count[t] + 1>>] /\ count' = [count EXCEPT ![t] = @ + 1]
          /\ UNCHANGED streamVars /\ buffer' = buffer
      BY <2>1 DEF PublishNext, Publish, bufferVars
    <3>2. event'[t][2] = count[t] + 1 /\ count'[t] = count[t] + 1
      BY <2>0, <3>1
    <3>3. \A e \in InStream \cup InMemory : e[2] < count'[t] /\ e[2] <= count'[t]
      BY <2>0, <2>b, <3>2
    <3>4. QED
      BY <2>0, <3>1, <3>2, <3>3, <1>a, <1>b DEF Ordered
  <2>2. CASE PublishSample(t)
    <3>1. event' = [event EXCEPT ![t] = <<t, 0>>] /\ count' = count
          /\ UNCHANGED streamVars /\ buffer' = buffer
      BY <2>2 DEF PublishSample, Publish, bufferVars
    <3>2. event'[t] \notin Tracked
      BY <2>0, <3>1, Numbers
    <3>3. QED
      BY <2>0, <3>1, <3>2, <1>a, <1>b DEF Ordered
  <2>3. CASE Send(t) \/ SendRepeats(t) \/ SendFails(t)
    <3>1. /\ pc[t] = "send" /\ buffer = << >> /\ buffer' = buffer /\ event' = event /\ count' = count
          /\ _xadd(event[t]) \/ XaddFails(event[t]) \/ XaddRepeats(event[t])
      BY <2>0, <2>3 DEF Send, SendRepeats, SendFails, Go, Alone, bufferVars
    <3>2. InMemory = {} /\ InMemory' = {}
      BY <3>1 DEF InMemory
    <3>3. CASE event[t] \in Tracked
      <4>1. event[t][2] = count[t]
        BY <3>1, <3>3 DEF Ordered
      <4>2. \A d \in InStream : d[2] <= event[t][2]
        BY <2>b, <4>1
      <4>3. /\ \A i \in Entries' : stream'[i] \in Tracked
            /\ InOrder' /\ InStream' \subseteq InStream \cup {event[t]}
        BY <2>0, <3>1, <4>2, AppendedInOrder
      <4>4. \A e \in InStream' : e[2] <= count[t]
        BY <2>b, <4>1, <4>3, <2>0
      <4>5. \A i, j \in 1..Len(buffer') : ~(i < j)
        BY <3>1
      <4>6. QED
        BY <2>0, <3>1, <3>2, <4>1, <4>3, <4>4, <4>5 DEF Ordered
    <3>4. CASE event[t] \notin Tracked
      <4>1. UNCHANGED streamVars
        BY <3>1, <3>4 DEF _xadd, XaddFails, XaddRepeats
      <4>2. QED
        BY <2>0, <3>1, <3>2, <3>4, <4>1, <1>a DEF Ordered
    <3>5. QED
      BY <3>3, <3>4
  <2>4. CASE Resend(t) \/ ResendRepeats(t) \/ ResendFails(t)
    <3>1. /\ pc[t] = "resend" /\ buffer' = buffer /\ event' = event /\ count' = count
          /\ pc'[t] \notin {"send", "full", "append"}
          /\ _xadd(head[t]) \/ XaddFails(head[t]) \/ XaddRepeats(head[t])
      BY <2>0, <2>4 DEF Resend, ResendRepeats, ResendFails, Go, bufferVars
    <3>2. /\ buffer # << >> /\ head[t] = buffer[1] /\ head[t] \in InMemory /\ InMemory' = InMemory
          /\ 1 \in 1..Len(buffer)
      BY <2>0, <2>c, <3>1, <1>b DEF Alone
    <3>3. CASE head[t] \in Tracked
      <4>1. \A d \in InStream : d[2] <= head[t][2]
        BY <3>2, <3>3 DEF Ordered
      <4>2. /\ \A i \in Entries' : stream'[i] \in Tracked
            /\ InOrder' /\ InStream' \subseteq InStream \cup {head[t]}
        BY <2>0, <3>1, <4>1, AppendedInOrder
      <4>3. \A f \in InMemory : f \in Tracked => head[t][2] <= f[2]
        <5>1. ASSUME NEW i \in 1..Len(buffer), buffer[i] \in Tracked, i # 1
              PROVE  head[t][2] < buffer[i][2]
          <6>1. 1 < i
            BY <5>1
          <6>2. QED
            BY <3>2, <3>3, <5>1, <6>1 DEF Ordered
        <5>2. \A i \in 1..Len(buffer) : buffer[i] \in InMemory
          BY DEF InMemory
        <5>3. ASSUME NEW i \in 1..Len(buffer), buffer[i] \in Tracked
              PROVE  head[t][2] <= buffer[i][2]
          <6>1. head[t][2] \in Nat /\ buffer[i][2] \in Nat
            BY <2>b, <3>2, <5>2
          <6>2. QED
            BY <3>2, <5>1, <5>3, <6>1
        <5>4. QED
          BY <5>3 DEF InMemory
      <4>4. \A e \in InStream', f \in InMemory' : f \in Tracked => e[2] <= f[2]
        BY <3>2, <4>2, <4>3 DEF Ordered
      <4>5. \A e \in InStream' \cup InMemory' : e[2] <= count[t]
        BY <2>b, <3>2, <4>2
      <4>6. QED
        BY <2>0, <3>1, <4>2, <4>4, <4>5 DEF Ordered
    <3>4. CASE head[t] \notin Tracked
      <4>1. UNCHANGED streamVars
        BY <3>1, <3>4 DEF _xadd, XaddFails, XaddRepeats
      <4>2. QED
        BY <2>0, <3>1, <3>2, <4>1, <1>a DEF Ordered
    <3>5. QED
      BY <3>3, <3>4
  <2>5. CASE CountDrop(t)
    <3>1. /\ pc[t] = "full" /\ UNCHANGED streamVars /\ buffer' = buffer
          /\ event' = event /\ count' = count
      BY <2>5 DEF CountDrop, Go
    <3>2. QED
      BY <2>0, <3>1, <1>a, <1>b DEF Ordered
  <2>6. CASE AppendToBuffer(t)
    <3>1. /\ pc[t] = "append" /\ pc'[t] \notin {"send", "full", "append"}
          /\ UNCHANGED streamVars /\ event' = event /\ count' = count
      BY <2>0, <2>6 DEF AppendToBuffer, Go
    <3>2. PICK s \in Seq(Event) : /\ buffer' = Append(s, event[t])
                                  /\ s = buffer \/ (buffer # << >> /\ s = Tail(buffer))
      <4>1. CASE Len(buffer) = BufferSize
        <5>1. buffer # << >> /\ buffer' = Append(Tail(buffer), event[t])
          BY <2>0, <2>6, <4>1, PublishAssumption DEF AppendToBuffer
        <5>2. Tail(buffer) \in Seq(Event)
          BY <2>0, <5>1
        <5>3. QED
          BY <5>1, <5>2
      <4>2. CASE Len(buffer) # BufferSize
        BY <2>0, <2>6, <4>2 DEF AppendToBuffer
      <4>3. QED
        BY <4>1, <4>2
    <3>3. /\ Els(s) \subseteq InMemory
          /\ \A i, j \in 1..Len(s) : i < j /\ s[i] \in Tracked /\ s[j] \in Tracked => s[i][2] < s[j][2]
      BY <3>2, BufferInOrder
    <3>4. event[t] \in Tracked => event[t][2] = count[t] /\ \A d \in InMemory : d[2] < count[t]
      BY <3>1 DEF Ordered
    <3>5. event[t] \in Tracked => \A d \in Els(s) : d[2] < event[t][2]
      BY <3>3, <3>4
    <3>6. /\ Els(buffer') \subseteq Els(s) \cup {event[t]}
          /\ \A i, j \in 1..Len(buffer') :
               /\ i < j /\ buffer'[i] \in Tracked /\ buffer'[j] \in Tracked
               => buffer'[i][2] < buffer'[j][2]
      BY <2>0, <3>2, <3>3, <3>5, PushInOrder
    <3>7. InMemory' \subseteq InMemory \cup {event[t]}
      BY <3>3, <3>6, Holdings
    <3>8. \A e \in InStream', f \in InMemory' : f \in Tracked => e[2] <= f[2]
      <4>1. InStream' = InStream
        BY <3>1, <1>a
      <4>2. \A e \in InStream : event[t] \in Tracked => e[2] <= event[t][2]
        BY <2>b, <3>4
      <4>3. QED
        BY <3>7, <4>1, <4>2 DEF Ordered
    <3>9. event[t][2] <= count[t]
      <4>1. CASE event[t] \in Tracked
        BY <2>0, <3>4, <4>1
      <4>2. CASE event[t] \notin Tracked
        <5>1. event[t][2] = 0
          BY <2>0, <4>2, PublishAssumption DEF Tracked
        <5>2. QED
          BY <2>0, <5>1
      <4>3. QED
        BY <4>1, <4>2
    <3>10. \A e \in InStream' \cup InMemory' : e[2] <= count[t]
      BY <2>b, <3>1, <3>7, <3>9, <1>a
    <3>11. QED
      BY <2>0, <3>1, <3>6, <3>8, <3>10, <1>a DEF Ordered
  <2>7. CASE Throttle(t) \/ CheckRetry(t) \/ FlushHead(t)
    <3>1. /\ pc'[t] \notin {"send", "full", "append"}
          /\ UNCHANGED streamVars /\ buffer' = buffer /\ event' = event /\ count' = count
      BY <2>0, <2>7 DEF Throttle, CheckRetry, FlushHead, Go, bufferVars
    <3>2. QED
      BY <2>0, <3>1, <1>a, <1>b DEF Ordered
  <2>8. CASE PopHead(t)
    <3>1. /\ pc'[t] \notin {"send", "full", "append"}
          /\ UNCHANGED streamVars /\ event' = event /\ count' = count
          /\ buffer # << >> /\ buffer' = Tail(buffer)
      BY <2>0, <2>8 DEF PopHead, Go, Alone
    <3>2. Tail(buffer) \in Seq(Event)
      BY <2>0, <3>1
    <3>3. /\ Els(buffer') \subseteq InMemory
          /\ \A i, j \in 1..Len(buffer') :
               /\ i < j /\ buffer'[i] \in Tracked /\ buffer'[j] \in Tracked
               => buffer'[i][2] < buffer'[j][2]
      BY <3>1, <3>2, BufferInOrder
    <3>4. InMemory' \subseteq InMemory
      BY <3>3, Holdings
    <3>5. QED
      BY <2>0, <3>1, <3>3, <3>4, <1>a DEF Ordered
  <2>9. QED
    BY <1>3, <2>1, <2>2, <2>3, <2>4, <2>5, <2>6, <2>7, <2>8 DEF ThreadStep
<1>4. QED
  BY <1>1, <1>2, <1>3 DEF Next

LEMMA InitOrdered == Init => Ordered
BY DEF Init, StreamInit, Ordered, InOrder, Entries, InStream, InMemory

\* Whatever is buffered, retried, repeated or evicted, the events of a single thread reach
\* the stream in the order in which it published them.
THEOREM SentInOrder == ASSUME OneThread PROVE Spec => []InOrder
<1>1. TypeOK /\ AloneInv /\ Ordered /\ [Next]_vars => Ordered'
  BY OrderedStep, OneThread
<1>2. Ordered => InOrder
  BY DEF Ordered
<1>3. Spec => []AloneInv
  BY AloneHolds, OneThread
<1>4. QED
  BY <1>1, <1>2, <1>3, InitOrdered, TypeCorrect, PTL DEF Spec
====
