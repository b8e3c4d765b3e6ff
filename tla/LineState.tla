---- MODULE LineState ----
(***************************************************************************)
(* The line state (state.py): what the worker of the PLC that drives the   *)
(* line last read, stamped by every worker on its stops.  The worker is    *)
(* PlcWorker's, its stations left out; a tick writes the status as it      *)
(* begins and the speed after the status is published, which may hold it   *)
(* up.  A part of the state is the set of its value, empty for None; a     *)
(* speed is the frequency it is a multiple of.                             *)
(***************************************************************************)
EXTENDS PlcWorker

CONSTANTS
  Grace,  \* STATUS_GRACE_SECONDS
  Lag     \* how long another worker may take from its clock to its snapshot

ASSUME LineAssumption == Variador /\ Grace \in Nat /\ Lag \in Nat

VARIABLES
  line,    \* LineState: _running, _running_at, _vel, _vel_at
  handling, \* a tick has written the status and is publishing it, the speed is to come
  failing,  \* the read is failing and has not returned yet, or the socket is closing
  read,     \* what the latest tick of this connection read, and its ts
  before    \* history: what the tick before it read

lineVars == <<line, handling, failing, read, before>>
allVars == <<vars, lineVars>>

Parts == [running : SUBSET BOOLEAN, running_at : Nat, frec : SUBSET Frec, frec_at : Nat]
Unknown == [running |-> {}, running_at |-> 0, frec |-> {}, frec_at |-> 0]

LineTypeOK ==
  /\ {line, read, before} \subseteq Parts
  /\ {handling, failing} \subseteq BOOLEAN
  /\ failing => ~polling
  /\ handling => polling \/ failing

LineInit ==
  /\ Init
  /\ line = Unknown /\ read = Unknown /\ before = Unknown
  /\ handling = FALSE /\ failing = FALSE

SetRunning(s) == [s EXCEPT !.running = {running}, !.running_at = now]
SetVelocity(s) == [s EXCEPT !.frec = read.frec, !.frec_at = read.frec_at]

Values == [running |-> {running}, running_at |-> now, frec |-> {frec}, frec_at |-> now]

\* The read has returned and the status is written; its publishing comes next.
Begin ==
  /\ ~handling
  /\ line' = SetRunning(line)
  /\ read' = Values /\ before' = read

LineTick ==
  /\ Tick
  /\ Begin /\ handling' = TRUE
  /\ UNCHANGED failing

\* A tick that fails as it publishes the status never writes the speed.
LineTickFails ==
  \E stage \in Tracker, k \in 0..Later(N, 1) :
    /\ TickFailsAt(stage, k)
    /\ Begin /\ handling' = (stage # Status)
    /\ failing' = TRUE

\* The status is published: the speed is written, with the time of the read.
WriteVelocity ==
  /\ handling /\ handling' = FALSE
  /\ line' = SetVelocity(line)
  /\ UNCHANGED <<vars, failing, read, before>>

\* Publishing ends with the tick, however long it holds it up.
LinePass ==
  /\ Pass
  /\ handling /\ polling => now < free_at
  /\ UNCHANGED lineVars

LineConnect == Connect /\ ~failing /\ UNCHANGED lineVars

LineDisconnect ==
  /\ Disconnect /\ ~handling
  /\ failing' = TRUE
  /\ UNCHANGED <<line, handling, read, before>>

\* Faulty variant: the line state outlives the connection.
OnDisconnectKeeps ==
  /\ failing /\ ~handling /\ failing' = FALSE
  /\ read' = Unknown /\ before' = Unknown
  /\ UNCHANGED <<vars, line, handling>>

\* _on_disconnect
OnDisconnect ==
  /\ failing /\ ~handling /\ failing' = FALSE
  /\ line' = Unknown /\ read' = Unknown /\ before' = Unknown
  /\ UNCHANGED <<vars, handling>>

LineNext ==
  \/ LinePass
  \/ LineConnect
  \/ LineTick \/ LineTickFails \/ WriteVelocity
  \/ LineDisconnect \/ OnDisconnect

LineSpec == LineInit /\ [][LineNext]_allVars

----
\* Faulty variant: a reading exactly as old as the grace period is too old.
FreshBefore(at, ts) == ts - at < Grace

Fresh(at, ts) == ts - at <= Grace

\* snapshot: each part by itself.
Snapshot(s, ts) ==
  [running |-> IF Fresh(s.running_at, ts) THEN s.running ELSE {},
   frec |-> IF Fresh(s.frec_at, ts) THEN s.frec ELSE {}]

\* What the clock of another worker said, when it finds the line state as it is.
Clock == Later(0, now - Lag)..now

\* A stop is stamped with nothing but what the latest two reads of this connection said,
\* and with nothing older than the grace period: a PLC that goes away leaves NULLs
\* (state.py:4).  Another worker may ask between the two writes of a tick, while the
\* publishing between them is held up, and before the line state is invalidated.
StampIsFresh ==
  \A ts \in Clock :
    LET stamp == Snapshot(line, ts)
        recent == {r \in {read, before} : ts - r.frec_at <= Grace}
    IN /\ stamp.running \subseteq UNION {r.running : r \in recent}
       /\ stamp.frec \subseteq UNION {r.frec : r \in recent}

\* While the PLC that drives the line is polled, no stop is without status if the grace
\* period is as long as the longest wait between two reads; for the speed it takes two of
\* them, the second for a tick held up before it writes the speed.  The first tick of a
\* connection has no speed yet while it publishes the status.  Nothing validates
\* STATUS_GRACE_SECONDS against POLL_SECONDS.
FirstTick == handling /\ before.frec = {}
StampIsKnown ==
  Timely /\ Live(Speed) =>
    \A ts \in Clock :
      LET stamp == Snapshot(line, ts)
      IN /\ Grace >= Poll + Slack => stamp.running # {}
         /\ Grace >= 2 * (Poll + Slack) /\ ~FirstTick => stamp.frec # {}
====
