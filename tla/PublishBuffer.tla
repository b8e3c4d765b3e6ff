---- MODULE PublishBuffer ----
(***************************************************************************)
(* EventStream.publish and its in-memory buffer (stream.py).  One          *)
(* EventStream is shared by every PlcWorker thread and takes no lock.      *)
(* Each action is a stretch in which the interpreter does not switch       *)
(* threads: the switches are at the calls and at the end of a loop's body. *)
(***************************************************************************)
EXTENDS Stream

CONSTANTS
  Thread,      \* the PlcWorker threads
  BufferSize,  \* PUBLISH_BUFFER_SIZE, the deque's maxlen
  MaxPublish,  \* bound: the tracked events of a thread are <<t, 1>>, ..., <<t, MaxPublish>>
  MaxFaults,   \* bound: XADD calls that fail in a behaviour
  Samples,     \* whether the threads publish untracked events as well
  MaxDrop      \* bound: evictions after which a sample waits for the next retry

\* <<t, 0>> stands for the heartbeats and samples a worker never stops
\* publishing: they use the buffer, and are not followed any further.
Tracked == Thread \X (1..MaxPublish)

ASSUME PublishAssumption ==
  /\ Event = Thread \X (0..MaxPublish)
  /\ BufferSize \in Nat \ {0}
  /\ MaxPublish \in Nat
  /\ MaxFaults \in Nat
  /\ Samples \in BOOLEAN
  /\ MaxDrop \in Nat

VARIABLES
  buffer,    \* self._buffer
  dropped,   \* self._dropped
  due,       \* time.monotonic() >= self._next_retry
  pc,        \* where each thread is in publish, "idle" outside
  event,     \* the event each thread is publishing
  head,      \* the event flush_buffer took from buffer[0]
  tried,     \* the thread's own XADD failed before it appended
  count,     \* tracked events each thread has published
  faults,    \* failed XADD calls
  failures   \* history: failed calls since the retry time last elapsed

bufferVars == <<buffer, dropped>>
threadVars == <<pc, event, head, tried, count>>
historyVars == <<faults, failures>>
vars == <<streamVars, bufferVars, due, threadVars, historyVars>>

TypeOK ==
  /\ StreamTypeOK
  /\ buffer \in Seq(Event) /\ Len(buffer) <= BufferSize
  /\ dropped \in Nat
  /\ due \in BOOLEAN
  /\ pc \in [Thread -> {"idle", "send", "full", "append", "throttle",
                        "retry", "flush", "resend", "pop"}]
  /\ event \in [Thread -> Event]
  /\ head \in [Thread -> Event]
  /\ tried \in [Thread -> BOOLEAN]
  /\ count \in [Thread -> 0..MaxPublish]
  /\ faults \in 0..MaxFaults
  /\ failures \in 0..faults

Init ==
  /\ StreamInit
  /\ buffer = << >>
  /\ dropped = 0
  /\ due = TRUE
  /\ pc = [t \in Thread |-> "idle"]
  /\ event = [t \in Thread |-> <<t, 0>>]
  /\ head = [t \in Thread |-> <<t, 0>>]
  /\ tried = [t \in Thread |-> FALSE]
  /\ count = [t \in Thread |-> 0]
  /\ faults = 0
  /\ failures = 0

\* A step of thread t from one point of the code to another.
Go(t, from, to) ==
  /\ pc[t] = from
  /\ pc' = [pc EXCEPT ![t] = to]

\* Redis appends the event; the untracked ones leave no trace here.
_xadd(e) == IF e \in Tracked THEN xadd(e) ELSE UNCHANGED streamVars

\* A RedisError: the entry was not appended, or it was and the answer is lost.
XaddFails(e) ==
  /\ faults < MaxFaults
  /\ faults' = faults + 1
  /\ failures' = failures + 1
  /\ UNCHANGED streamVars \/ _xadd(e)

\* The client library repeats a call that timed out, so that an event can be
\* appended again before _xadd returns.
XaddRepeats(e) ==
  /\ faults < MaxFaults
  /\ faults' = faults + 1
  /\ _xadd(e)
  /\ UNCHANGED failures

----
(* publish *)

\* Faulty variant: goes straight to Redis, and nothing drains the buffer.
PublishPastBuffer(t, e) ==
  /\ Go(t, "idle", "send")
  /\ event' = [event EXCEPT ![t] = e]
  /\ tried' = [tried EXCEPT ![t] = FALSE]
  /\ UNCHANGED <<streamVars, bufferVars, due, head, faults, failures>>

Publish(t, e) ==
  /\ Go(t, "idle", IF buffer = << >> THEN "send" ELSE "full")
  /\ event' = [event EXCEPT ![t] = e]
  /\ tried' = [tried EXCEPT ![t] = FALSE]
  /\ UNCHANGED <<streamVars, bufferVars, due, head, faults, failures>>

PublishNext(t) ==
  /\ count[t] < MaxPublish
  /\ Publish(t, <<t, count[t] + 1>>)
  /\ count' = [count EXCEPT ![t] = @ + 1]

PublishSample(t) ==
  /\ Samples
  /\ due \/ Len(buffer) < BufferSize \/ dropped < MaxDrop
  /\ Publish(t, <<t, 0>>)
  /\ UNCHANGED count

Send(t) ==
  /\ Go(t, "send", "idle")
  /\ _xadd(event[t])
  /\ UNCHANGED <<bufferVars, due, event, head, tried, count, faults, failures>>

SendRepeats(t) ==
  /\ Go(t, "send", "send")
  /\ XaddRepeats(event[t])
  /\ UNCHANGED <<bufferVars, due, event, head, tried, count>>

SendFails(t) ==
  /\ Go(t, "send", "full")
  /\ XaddFails(event[t])
  /\ tried' = [tried EXCEPT ![t] = TRUE]
  /\ UNCHANGED <<bufferVars, due, event, head, count>>

\* Faulty variant: off by one, a full buffer is not noticed.
CountDropLate(t) ==
  /\ Go(t, "full", "append")
  /\ dropped' = IF Len(buffer) > BufferSize THEN dropped + 1 ELSE dropped
  /\ UNCHANGED <<streamVars, buffer, due, event, head, tried, count, faults, failures>>

\* _append_to_buffer counts the event the deque is about to evict ...
CountDrop(t) ==
  /\ Go(t, "full", "append")
  /\ dropped' = IF Len(buffer) = BufferSize THEN dropped + 1 ELSE dropped
  /\ UNCHANGED <<streamVars, buffer, due, event, head, tried, count, faults, failures>>

\* ... and deque.append evicts it.
AppendToBuffer(t) ==
  /\ Go(t, "append", IF tried[t] THEN "throttle" ELSE "retry")
  /\ buffer' = Append(IF Len(buffer) = BufferSize THEN Tail(buffer) ELSE buffer, event[t])
  /\ UNCHANGED <<streamVars, dropped, due, event, head, tried, count, faults, failures>>

\* Faulty variant: the failed attempt does not move _next_retry.
ThrottleNot(t) ==
  /\ Go(t, "throttle", "idle")
  /\ UNCHANGED <<streamVars, bufferVars, due, event, head, tried, count, faults, failures>>

Throttle(t) ==
  /\ Go(t, "throttle", "idle")
  /\ due' = FALSE
  /\ UNCHANGED <<streamVars, bufferVars, event, head, tried, count, faults, failures>>

CheckRetry(t) ==
  /\ Go(t, "retry", IF due THEN "flush" ELSE "idle")
  /\ UNCHANGED <<streamVars, bufferVars, due, event, head, tried, count, faults, failures>>

----
(* flush_buffer *)

FlushHead(t) ==
  /\ IF buffer = << >>
     THEN Go(t, "flush", "idle") /\ UNCHANGED head
     ELSE Go(t, "flush", "resend") /\ head' = [head EXCEPT ![t] = Head(buffer)]
  /\ UNCHANGED <<streamVars, bufferVars, due, event, tried, count, faults, failures>>

Resend(t) ==
  /\ Go(t, "resend", "pop")
  /\ _xadd(head[t])
  /\ UNCHANGED <<bufferVars, due, event, head, tried, count, faults, failures>>

ResendRepeats(t) ==
  /\ Go(t, "resend", "resend")
  /\ XaddRepeats(head[t])
  /\ UNCHANGED <<bufferVars, due, event, head, tried, count>>

\* Faulty variant: the event that could not be sent goes to the back.
ResendFailsRequeues(t) ==
  /\ Go(t, "resend", "idle")
  /\ XaddFails(head[t])
  /\ due' = FALSE
  /\ buffer # << >>
  /\ buffer' = Append(Tail(buffer), head[t])
  /\ UNCHANGED <<dropped, event, head, tried, count>>

ResendFails(t) ==
  /\ Go(t, "resend", "idle")
  /\ XaddFails(head[t])
  /\ due' = FALSE
  /\ UNCHANGED <<bufferVars, event, head, tried, count>>

\* popleft removes whatever is first now; with nothing left its IndexError leaves
\* publish, and the worker treats its PLC as disconnected.
PopHead(t) ==
  /\ pc[t] = "pop"
  /\ IF buffer = << >>
     THEN Go(t, "pop", "idle") /\ UNCHANGED buffer
     ELSE Go(t, "pop", "flush") /\ buffer' = Tail(buffer)
  /\ UNCHANGED <<streamVars, dropped, due, event, head, tried, count, faults, failures>>

\* _RETRY_INTERVAL seconds have passed since the last failure.
RetryElapses ==
  /\ ~due
  /\ due' = TRUE
  /\ failures' = 0
  /\ UNCHANGED <<streamVars, bufferVars, threadVars, faults>>

ThreadStep(t) ==
  \/ PublishNext(t)
  \/ PublishSample(t)
  \/ Send(t)
  \/ SendRepeats(t)
  \/ SendFails(t)
  \/ CountDrop(t)
  \/ AppendToBuffer(t)
  \/ Throttle(t)
  \/ CheckRetry(t)
  \/ FlushHead(t)
  \/ Resend(t)
  \/ ResendRepeats(t)
  \/ ResendFails(t)
  \/ PopHead(t)

Next == RetryElapses \/ \E t \in Thread : ThreadStep(t)

Spec == Init /\ [][Next]_vars

\* A worker polls and publishes for ever, and time passes.
FairSpec == Spec /\ WF_vars(RetryElapses) /\ \A t \in Thread : WF_vars(ThreadStep(t))

----
(* What publishing promises. *)

Published == {e \in Tracked : e[2] <= count[e[1]]}
InStream == {stream[i] : i \in Entries}
InMemory == {buffer[i] : i \in 1..Len(buffer)}

\* Events held by a thread in the middle of a call.
InHand ==
  {event[t] : t \in {u \in Thread : pc[u] \in {"send", "full", "append"}}}
    \cup {head[t] : t \in {u \in Thread : pc[u] = "resend"}}

Lost == Published \ (InStream \cup InMemory \cup InHand)

\* An event that is nowhere any more was evicted from a full buffer, and counted.
LossAccounted == Cardinality(Lost) <= dropped

\* Events of a thread reach the stream in the order it published them; only a
\* repeat of an event already there can come late.
First(i) == \A j \in 1..(i - 1) : stream[j] # stream[i]
InOrder ==
  \A i, j \in Entries :
    i < j /\ First(i) /\ First(j) /\ stream[i][1] = stream[j][1]
      => stream[i][2] < stream[j][2]

\* While Redis is down a burst costs one attempt per retry interval, not one per event.
OneFailurePerInterval == failures <= 1

\* Once Redis answers, a buffered event reaches the stream or was evicted.
BufferDrains ==
  \A e \in Tracked : (e \in InMemory) ~> (e \in InStream \cup Lost)
====
