---- MODULE Monitor ----
(***************************************************************************)
(* The web monitor: the feed that follows the event stream and the mirror  *)
(* reader (espejo/redis.py), the poller, the heartbeat and the snapshot    *)
(* (monitor/services.py), the event stream of one browser                  *)
(* (monitor/api/views.py), the start of the process (config/asgi.py), and  *)
(* the page itself (Screen).  The daemon is what LiveMirror models, seen   *)
(* from outside: it publishes an edge, then writes the mirror, unless the  *)
(* breaker is open or the write fails; a skipped write is never retried.   *)
(***************************************************************************)
EXTENDS Screen, Naturals, Sequences

CONSTANTS
  QueueSize,  \* MONITOR_QUEUE_SIZE
  Faults,     \* kinds of failure that happen: subset of FaultKinds
  MaxFaults,  \* bound: failures in a behaviour
  MaxSaid,    \* bound: flips and re-asserts in a behaviour
  Cost,       \* bound: how many of these a failure of each kind takes the place of
  MaxUnread,  \* bound: entries between the daemon and the feed
  WireSize,   \* bound: frames between the server and the browser
  MaxFetch    \* bound: snapshots a page asks for at once

FaultKinds == {"read", "db", "plc", "key", "mirror", "drop", "crash"}

ASSUME MonitorAssumption ==
  /\ QueueSize \in Nat \ {0}
  /\ Faults \subseteq FaultKinds /\ Cost \in [FaultKinds -> Nat]
  /\ MaxFaults \in Nat /\ MaxSaid \in Nat /\ MaxUnread \in Nat /\ WireSize \in Nat \ {0} /\ MaxFetch \in Nat \ {0}

VARIABLES
  value, polling, up,     \* the daemon: relays and line, connected workers, liveness keys
  mirror, exact, owed,    \* the mirror, its exactness, and what this tick has yet to write
  kept,                   \* _puestos: the daemon's own copy of what it mirrors
  resync,                 \* what a reconnected worker has yet to publish
  web, catalog, loaded,   \* the process; leer_catalogo, refrescar succeeded
  cursor, unread,         \* the feed: "$" or an id, what XREAD will return
  pulse,                  \* the heartbeat that was read and not broadcast yet, if any
  conn, queue, wire,      \* the browser's stream: its queue, what was sent
  asked, answers,         \* snapshots the page fetches: asked for, on their way
  screen,
  faults, said, \* counted for the bounds
  wrong  \* history: items whose value, or start, nothing in flight will correct

daemonVars == <<value, polling, up, mirror, exact, owed, kept, resync>>
webVars == <<web, catalog, loaded>>
feedVars == <<cursor, unread>>
clientVars == <<conn, queue, wire>>
pageVars == <<asked, answers, screen>>
vars == <<daemonVars, webVars, feedVars, pulse, clientVars, pageVars, faults, said, wrong>>

Mine(w) == {i \in Item : Ip[i] = w}
Flip(v) == IF v = "on" THEN "off" ELSE "on"
Edge == [t : {"edge"}, i : Item, v : Value, reason : Reason]
Hb == [t : {"hb"}, ok : BOOLEAN, alive : SUBSET Plc]
Snapshot == [t : {"snapshot"}, ok : BOOLEAN, v : [Item -> Value], exact : [Puesto -> BOOLEAN],
             known : BOOLEAN, listed : BOOLEAN, alive : SUBSET Plc]
Gaps == [value : SUBSET Item, start : SUBSET Puesto]
Everything == [value |-> Item, start |-> Puesto]
Resync == [t |-> "resync"]
Hoy == [t |-> "hoy"]
Members(s) == {s[n] : n \in DOMAIN s}

TypeOK ==
  /\ value \in [Item -> {"on", "off"}] /\ polling \subseteq Plc /\ up \subseteq Plc
  /\ mirror \in [Item -> Value] /\ exact \in [Puesto -> BOOLEAN]
  /\ owed \in [Item -> Reason \cup {"none"}] /\ resync \subseteq Item
  /\ kept \in [Puesto -> [v : {"on", "off"}, exact : BOOLEAN]]
  /\ {web, catalog, loaded} \subseteq BOOLEAN
  /\ cursor \in {"$", "id"} /\ conn \in {"none", "subscribed", "open"}
  /\ unread \in Seq(Edge) /\ Len(unread) <= MaxUnread
  /\ pulse \in Seq(Hb) /\ Len(pulse) <= 1
  /\ queue \in Seq(Edge \cup Hb \cup {Resync, Hoy}) /\ Len(queue) <= QueueSize
  /\ wire \in Seq(Edge \cup Hb \cup Snapshot \cup {Resync, Hoy}) /\ Len(wire) <= WireSize
  /\ asked \in Nat /\ asked + Cardinality(answers) <= MaxFetch
  /\ answers \subseteq [snapshot : Snapshot, crossed : BOOLEAN, wrong : Gaps]
  /\ screen \in Screen
  /\ faults \in 0..MaxFaults /\ said \in 0..MaxSaid
  /\ wrong \in Gaps
  /\ ~web => conn = "none" /\ unread = << >> /\ pulse = << >>
  /\ conn # "open" => wire = << >>
  /\ conn = "none" => queue = << >>

\* The daemon has been running; a station may be held.
Init ==
  /\ value \in [Item -> {"on", "off"}] /\ value[Noria] = "off" /\ polling = Plc /\ up = Plc
  /\ mirror = value /\ exact = [p \in Puesto |-> TRUE]
  /\ owed = [i \in Item |-> "none"] /\ resync = {}
  /\ kept = [p \in Puesto |-> [v |-> value[p], exact |-> TRUE]]
  /\ web = FALSE /\ catalog = FALSE /\ loaded = FALSE
  /\ cursor = "$" /\ unread = << >>
  /\ pulse = << >>
  /\ conn = "none" /\ queue = << >> /\ wire = << >>
  /\ asked = 0 /\ answers = {}
  /\ screen = Blank
  /\ faults = 0 /\ said = 0
  /\ wrong = Everything

Fails(kind) ==
  /\ kind \in Faults /\ faults < MaxFaults /\ faults' = faults + 1
  /\ said + Cost[kind] <= MaxSaid /\ said' = said + Cost[kind]

\* What happens now is newer than the answers on their way: they will take the screen back.
Cross == answers' = {[a EXCEPT !.crossed = TRUE] : a \in answers}

\* No frame will tell the screen about these items.
Spoil(items) ==
  /\ wrong' = [wrong EXCEPT !.value = @ \cup items, !.start = @ \cup (items \cap Puesto)]
  /\ IF items = {} THEN UNCHANGED answers ELSE Cross

----
(* The daemon. *)

\* XADD: an entry reaches the feed if its cursor is an id.  With `$`, only if its XREAD is
\* waiting at that moment, and not between two blocks or after a failure.
Publish(i, v, reason) ==
  /\ Len(unread) < MaxUnread
  /\ owed' = [owed EXCEPT ![i] = reason]
  /\ \/ /\ web
        /\ unread' = Append(unread, [t |-> "edge", i |-> i, v |-> v, reason |-> reason])
        /\ UNCHANGED <<wrong, answers>>
     \/ /\ web => cursor = "$" /\ unread = << >>
        /\ Spoil({i}) /\ UNCHANGED unread
  /\ UNCHANGED <<polling, up, mirror, exact, kept, webVars, cursor, pulse, clientVars, asked,
                 screen, faults>>

Says == said < MaxSaid /\ said' = said + 1

Quiescent(w) == \A i \in Mine(w) : i \notin resync /\ owed[i] = "none"

\* A tick that sees a flip publishes it.
Change(i) ==
  /\ Ip[i] \in polling /\ Quiescent(Ip[i])
  /\ value' = [value EXCEPT ![i] = Flip(@)]
  /\ Publish(i, value'[i], "change") /\ Says
  /\ UNCHANGED resync

\* A held relay, or the line's speed, is published again.
Reassert(i) ==
  /\ Ip[i] \in polling /\ Quiescent(Ip[i])
  /\ i \in Puesto => value[i] = "on"
  /\ Publish(i, value[i], "reassert") /\ Says
  /\ UNCHANGED <<value, resync>>

\* The first tick of a connection publishes everything it reads, the line first.
ResyncOne(i) ==
  /\ i \in resync
  /\ Noria \in resync /\ Ip[Noria] = Ip[i] => i = Noria
  /\ resync' = resync \ {i}
  /\ Publish(i, value[i], "resync")
  /\ UNCHANGED <<value, said>>

\* _advance: a state that a resync or a re-assert only restates keeps its start.
advance(p) ==
  IF owed[p] = "none" THEN kept[p]
  ELSE [v |-> value[p],
        exact |-> owed[p] = "change" \/ (kept[p].v = value[p] /\ kept[p].exact)]

\* LiveMirror.tick, at the end of the same tick: the copy takes everything in, and of the
\* line and the edges those in `landed` are written.
Write(w, landed) ==
  /\ w \in polling /\ Mine(w) \cap resync = {}
  /\ kept' = [p \in Puesto |-> IF p \in Mine(w) THEN advance(p) ELSE kept[p]]
  /\ mirror' = [i \in Item |-> IF i \in landed THEN value[i] ELSE mirror[i]]
  /\ exact' = [p \in Puesto |-> IF p \in landed THEN advance(p).exact ELSE exact[p]]
  /\ owed' = [i \in Item |-> IF i \in Mine(w) THEN "none" ELSE owed[i]]
  /\ UNCHANGED <<value, polling, resync, webVars, feedVars, pulse, clientVars, pageVars, said, wrong>>

Owed(w) == {i \in Mine(w) : owed[i] # "none"}

\* The liveness key, the line and the edges reach Redis.
Mirror(w) ==
  /\ w \notin up \/ Owed(w) # {}
  /\ Write(w, Owed(w))
  /\ up' = up \cup {w}
  /\ UNCHANGED faults

\* _flush skips the write, because the breaker is open, or it fails, perhaps half-way (the
\* key goes first).  Nothing of it is written again.
MirrorSkips(w) ==
  /\ Owed(w) # {} /\ Fails("mirror")
  /\ \E landed \in SUBSET Owed(w) :
       /\ Write(w, landed)
       /\ up' = up \cup {w} \/ (landed = {} /\ up' = up)

\* plc_down, after every attempt that fails: skipped, cut half-way, or written.  Of the line
\* nothing is published on the stream.
plc_down(w) ==
  /\ \/ UNCHANGED <<up, mirror>>
     \/ up' = up \ {w} /\ UNCHANGED mirror
     \/ up' = up \ {w} /\ mirror' = [mirror EXCEPT ![Noria] = IF Ip[Noria] = w THEN "unknown" ELSE @]
  /\ Spoil({Noria} \cap Mine(w))
  /\ UNCHANGED <<value, exact, owed, kept, resync, webVars, feedVars, pulse, clientVars, asked, screen>>

\* A read fails.
PlcDown(w) ==
  /\ w \in polling /\ Quiescent(w) /\ Fails("plc")
  /\ polling' = polling \ {w}
  /\ plc_down(w)

\* It does not answer yet, and the mirror is behind.
PlcStillDown(w) ==
  /\ w \notin polling
  /\ w \in up \/ (Ip[Noria] = w /\ mirror[Noria] # "unknown")
  /\ plc_down(w)
  /\ UNCHANGED <<polling, faults, said>>

\* What the relays of a PLC did while it was away shows when it answers.
PlcBack(w) ==
  /\ w \notin polling
  /\ polling' = polling \cup {w}
  /\ resync' = resync \cup Mine(w)
  /\ \E items \in SUBSET Mine(w) :
       value' = [i \in Item |-> IF i \in items THEN Flip(value[i]) ELSE value[i]]
  /\ UNCHANGED <<up, mirror, exact, owed, kept, webVars, feedVars, pulse, clientVars, pageVars,
                 faults, said, wrong>>

\* A liveness key expires: of a PLC that does not answer, or under a worker that polls, whose
\* writes were skipped for a while.
KeyExpires(w) ==
  /\ w \in up
  /\ IF w \in polling THEN Fails("key") ELSE UNCHANGED <<faults, said>>
  /\ up' = up \ {w}
  /\ UNCHANGED <<value, polling, mirror, exact, owed, kept, resync, webVars, feedVars, pulse,
                 clientVars, pageVars, wrong>>

----
(* The feed, the poller, the heartbeat. *)

\* Faulty variant: a frame that does not fit is dropped in silence.
BroadcastDropping(frame) ==
  queue' = IF conn = "none" \/ Len(queue) >= QueueSize THEN queue ELSE Append(queue, frame)

\* Faulty variant: the queue has no limit.
BroadcastUnbounded(frame) ==
  queue' = IF conn = "none" THEN queue ELSE Append(queue, frame)

\* broadcast: a full queue is emptied, and holds the request to resync instead.
Broadcast(frame) ==
  queue' = IF conn = "none" THEN queue
           ELSE IF Len(queue) < QueueSize THEN Append(queue, frame)
           ELSE <<Resync>>

\* traducir drops the relays that the cache does not know.
traducir(d) == loaded \/ d.i = Noria

\* XREAD returns an entry.
Deliver ==
  LET d == Head(unread)
  IN /\ unread # << >>
     /\ unread' = Tail(unread)
     /\ cursor' = "id"
     /\ IF traducir(d)
        THEN /\ Broadcast(d)
             /\ Cross
             /\ wrong' = IF Ip[d.i] \notin polling THEN wrong
                         ELSE [value |-> wrong.value \ {d.i},
                               start |-> wrong.start \ IF d.reason = "change" THEN {d.i} ELSE {}]
        ELSE Spoil({d.i}) /\ UNCHANGED queue
     /\ UNCHANGED <<daemonVars, webVars, pulse, conn, wire, asked, screen, faults, said>>

\* XREAD fails: back to `$`; what is appended until the next XREAD is not read.
ReadFails ==
  /\ web /\ Fails("read")
  /\ cursor' = "$" /\ unread' = << >>
  /\ LET missed == {d.i : d \in Members(unread)}
     IN /\ wrong' = [value |-> wrong.value \cup missed,
                     start |-> wrong.start \cup (missed \cap Puesto)]
        /\ IF missed = {} THEN UNCHANGED answers ELSE Cross
  /\ UNCHANGED <<daemonVars, webVars, pulse, clientVars, asked, screen>>

\* The stations are known from the totals of the day.
refrescar == loaded' = TRUE

\* poller: refrescar, then the totals of the day.  Only the first is not counted (a bound).
Refresh ==
  /\ web
  /\ IF loaded THEN Says ELSE UNCHANGED said
  /\ refrescar
  /\ Broadcast(Hoy)
  /\ UNCHANGED <<daemonVars, web, catalog, feedVars, pulse, conn, wire, pageVars, faults, wrong>>

\* leer: the whole mirror in one pipeline, with the keys of the PLCs of the catalog; or
\* nothing at all.
Reads(ok) == IF ok THEN UNCHANGED <<faults, said>> ELSE Fails("read")
leer(ok) ==
  IF ok THEN [v |-> mirror, exact |-> exact, alive |-> IF catalog THEN up ELSE {}]
  ELSE [v |-> [i \in Item |-> "unknown"], exact |-> [p \in Puesto |-> FALSE], alive |-> {}]
Alive(ok) == leer(ok).alive

\* What was published of an item, and the heartbeat is told before.
Overtaken(i) == \E d \in Members(unread) : d.i = i

\* heartbeat: it waits for the read of the mirror.  One such frame at a time (a bound).
Heartbeat ==
  /\ web /\ pulse = << >> /\ Members(queue \o wire) \cap Hb = {}
  /\ \E ok \in BOOLEAN :
       /\ Reads(ok)
       /\ pulse' = <<[t |-> "hb", ok |-> ok, alive |-> Alive(ok)]>>
  /\ UNCHANGED <<daemonVars, webVars, feedVars, clientVars, pageVars, wrong>>

\* Its broadcast, of what may be old by now.  It greys the stations of a worker that polls,
\* or has its key, when it says that the PLC does not answer.
Pulse ==
  LET h == Head(pulse)
  IN /\ pulse # << >>
     /\ pulse' = << >>
     /\ Broadcast(h)
     /\ Spoil({p \in Puesto : Ip[p] \notin h.alive
                              /\ (Ip[p] \in polling \cup up \/ Overtaken(p))})
     /\ UNCHANGED <<daemonVars, webVars, feedVars, conn, wire, asked, screen, faults, said>>

----
(* Snapshots and the stream of a browser. *)

\* snapshot, componer: what the mirror says, and nothing of PLCs that are not alive.  A
\* station that is not shown keeps the default of its totals, which is exact.
Composed(ok) ==
  LET state == leer(ok)
      shown == {i \in Item : Ip[i] \in state.alive /\ (i \in Puesto => loaded)}
  IN [t |-> "snapshot", ok |-> ok, known |-> loaded, listed |-> catalog, alive |-> state.alive,
      v |-> [i \in Item |-> IF i \in shown THEN state.v[i] ELSE "unknown"],
      exact |-> [p \in Puesto |-> p \in shown => state.exact[p]]]

\* Frames that the page will apply after a snapshot composed now.
EdgeComing(i) == \E d \in Members(unread \o queue \o wire) : d.t = "edge" /\ d.i = i
OldComing(i) == \E f \in Members(queue \o wire) :
  f.t = "snapshot" \/ (f.t = "hb" /\ Ip[i] \notin f.alive)

\* What the daemon last told of an item, and whether the mirror says something else.
Posted(i) == IF i = Noria /\ Ip[i] \notin polling THEN "unknown" ELSE value[i]
Stale(i) == i \notin resync /\ Ip[i] \in up /\ mirror[i] # Posted(i)

\* What a snapshot composed now does not set right: everything, if it could not be read;
\* what was published and is not mirrored yet, unless the frame follows the snapshot;
\* the stations of a worker that polls without its key; and what was wrong and older
\* frames may say again.
LeftWrong(ok, following) ==
  IF ~(ok /\ catalog /\ loaded) THEN Item
  ELSE {i \in Item : \/ i \in wrong.value /\ (EdgeComing(i) \/ OldComing(i))
                     \/ /\ i \notin following
                        /\ owed[i] # "none" \/ (Ip[i] \in polling \ up /\ i \notin resync)}
Left(ok, following) ==
  [value |-> LeftWrong(ok, following),
   start |-> {p \in Puesto : \/ p \in LeftWrong(ok, {})
                            \/ EdgeComing(p) \/ OldComing(p) \/ Stale(p)}]
Following == {i \in Item : EdgeComing(i)}

\* stream: the queue is registered before the snapshot is read.
Subscribe ==
  /\ web /\ conn = "none"
  /\ conn' = "subscribed"
  /\ UNCHANGED <<daemonVars, webVars, feedVars, pulse, queue, wire, pageVars, faults, said, wrong>>

SendSnapshot ==
  /\ conn = "subscribed"
  /\ conn' = "open"
  /\ \E ok \in BOOLEAN :
       /\ Reads(ok)
       /\ wire' = <<Composed(ok)>>
       /\ wrong' = Left(ok, Following)
  /\ Cross
  /\ UNCHANGED <<daemonVars, webVars, feedVars, pulse, queue, asked, screen>>

SendFrame ==
  /\ conn = "open" /\ queue # << >> /\ Len(wire) < WireSize
  /\ wire' = Append(wire, Head(queue)) /\ queue' = Tail(queue)
  /\ UNCHANGED <<daemonVars, webVars, feedVars, pulse, conn, pageVars, faults, said, wrong>>

\* api_snapshot
Answer ==
  /\ web /\ asked > 0
  /\ asked' = asked - 1
  /\ \E ok \in BOOLEAN :
       /\ Reads(ok)
       /\ answers' = answers \cup {[snapshot |-> Composed(ok), crossed |-> FALSE,
                                    wrong |-> Left(ok, {})]}
  /\ UNCHANGED <<daemonVars, webVars, feedVars, pulse, clientVars, screen, wrong>>

----
(* The page. *)

\* The next frame of the stream.  A resync asks for a snapshot; at most MaxFetch at once.
Receive ==
  LET f == Head(wire)
  IN /\ wire # << >>
     /\ wire' = Tail(wire)
     /\ screen' = CASE f.t = "snapshot" -> ApplySnapshot(f)
                    [] f.t = "edge" -> ApplyEdge(screen, f)
                    [] f.t = "hb" -> ApplyHb(screen, f)
                    [] OTHER -> screen
     /\ f = Resync => asked + Cardinality(answers) < MaxFetch
     /\ asked' = IF f = Resync THEN asked + 1 ELSE asked
     /\ UNCHANGED <<daemonVars, webVars, feedVars, pulse, conn, queue, answers, faults, said, wrong>>

\* The snapshot that was fetched replaces everything, whatever has been shown meanwhile.
ApplyAnswer ==
  \E a \in answers :
    /\ answers' = answers \ {a}
    /\ screen' = ApplySnapshot(a.snapshot)
    /\ wrong' = IF a.crossed THEN Everything ELSE a.wrong
    /\ UNCHANGED <<daemonVars, webVars, feedVars, pulse, clientVars, asked, faults, said>>

\* fetch is rejected: nobody asks again.
FetchFails ==
  /\ asked > 0 /\ Fails("drop")
  /\ asked' = asked - 1
  /\ Spoil(Item)
  /\ UNCHANGED <<daemonVars, webVars, feedVars, pulse, clientVars, screen>>

\* The stream breaks; the EventSource will connect again by itself.
Drop ==
  /\ conn # "none" /\ Fails("drop")
  /\ conn' = "none" /\ queue' = << >> /\ wire' = << >>
  /\ screen' = Disconnected(screen)
  /\ UNCHANGED <<daemonVars, webVars, feedVars, pulse, asked, answers, wrong>>

\* location.reload, every six hours unless a station is held.
Reload ==
  /\ Fails("drop")
  /\ \A p \in Puesto : ~(screen.known /\ screen.v[p] = "on")
  /\ conn' = "none" /\ queue' = << >> /\ wire' = << >>
  /\ asked' = 0 /\ answers' = {} /\ screen' = Blank
  /\ UNCHANGED <<daemonVars, webVars, feedVars, pulse, wrong>>

----
(* The process. *)

leer_catalogo ==
  \/ catalog' = TRUE /\ UNCHANGED <<faults, said>>
  \/ catalog' = FALSE /\ Fails("db")

\* _arrancar: the catalog is read once; a failure is logged and the start goes on.
WebStart ==
  /\ ~web
  /\ web' = TRUE
  /\ leer_catalogo
  /\ UNCHANGED <<daemonVars, loaded, feedVars, pulse, clientVars, pageVars, wrong>>

WebCrash ==
  /\ web /\ Fails("crash")
  /\ web' = FALSE /\ catalog' = FALSE /\ loaded' = FALSE
  /\ cursor' = "$" /\ unread' = << >>
  /\ pulse' = << >>
  /\ conn' = "none" /\ queue' = << >> /\ wire' = << >>
  /\ screen' = IF conn = "none" THEN screen ELSE Disconnected(screen)
  /\ asked' = 0
  /\ Spoil({d.i : d \in Members(unread)})
  /\ UNCHANGED daemonVars

Next ==
  \/ \E i \in Item : Change(i) \/ Reassert(i) \/ ResyncOne(i)
  \/ \E w \in Plc :
       \/ Mirror(w) \/ MirrorSkips(w) \/ KeyExpires(w)
       \/ PlcDown(w) \/ PlcStillDown(w) \/ PlcBack(w)
  \/ Deliver \/ ReadFails
  \/ Refresh \/ Heartbeat \/ Pulse
  \/ Subscribe \/ SendSnapshot \/ SendFrame \/ Answer
  \/ Receive \/ ApplyAnswer \/ FetchFails \/ Drop \/ Reload
  \/ WebStart \/ WebCrash

Spec == Init /\ [][Next]_vars

\* The process is started again and its heartbeat runs; the browser connects again by
\* itself, and what is on its way to the page, by the stream or fetched, goes on.
FairSpec ==
  /\ Spec
  /\ WF_vars(WebStart \/ Heartbeat \/ Pulse)
  /\ WF_vars(Subscribe \/ SendSnapshot \/ SendFrame \/ Receive \/ Answer \/ ApplyAnswer)

----
(* Properties. *)

\* Nothing is on its way to the screen but heartbeats and the totals of the day.
Quiet ==
  /\ conn = "open" /\ screen.known
  /\ unread = << >> /\ asked = 0 /\ answers = {}
  /\ resync = {} /\ \A i \in Item : owed[i] = "none"
  /\ \A f \in Members(queue \o wire) : f.t \in {"hb", "hoy"}

Agrees(i) ==
  \/ screen.v[i] \in {mirror[i], Posted(i)}
  \/ i \in Puesto /\ screen.v[i] = "unknown" /\ Ip[i] \notin up

\* When nothing is on its way, the screen shows what the mirror says of an item, or what the
\* daemon last told if that was never mirrored (or that it is not known, if its PLC does
\* not answer), unless the item fell in one of the gaps that
\* the actions above name: overflowing queues, fetched snapshots, reconnections, restarts
\* and PLCs that come and go leave no other.
QuietScreenIsTrue == Quiet => \A i \in Item \ wrong.value : Agrees(i)

\* A stopwatch that the page shows without its ">=" did not start after the stop did, outside
\* the gaps.  A browser that read a mirror that was behind is one of them: it may date the
\* next re-assert as a start.
ChronoIsHonest ==
  \A p \in Puesto \ wrong.start :
    Quiet /\ screen.v[p] = "on" /\ screen.exact[p] => ~screen.late[p]

\* The expiry of a TTL notifies nobody: the heartbeat takes it to the screen, and takes
\* back what it said when the PLC answers again.  Once failures end, the screen comes to
\* take for alive just the PLCs whose keys are, and stays so.
KeysReachTheScreen == <>[](screen.alive = Alive(TRUE))
====
