---- MODULE MonitorProofs ----
(***************************************************************************)
(* The monitor, for any stations, PLCs, limits and failures: its types,    *)
(* and that outside the gaps of `wrong` a quiet screen tells the truth.    *)
(***************************************************************************)
EXTENDS Monitor, FiniteSetTheorems, TLAPS

Told == Edge \cup Hb \cup {Resync, Hoy}
Frame == Edge \cup Hb \cup Snapshot \cup {Resync, Hoy}
Fetched == [snapshot : Snapshot, crossed : BOOLEAN, wrong : Gaps]

\* The types, by parts.
DaemonType ==
  /\ value \in [Item -> {"on", "off"}] /\ polling \subseteq Plc /\ up \subseteq Plc
  /\ mirror \in [Item -> Value] /\ exact \in [Puesto -> BOOLEAN]
  /\ owed \in [Item -> Reason \cup {"none"}] /\ resync \subseteq Item
  /\ kept \in [Puesto -> [v : {"on", "off"}, exact : BOOLEAN]]
WebType ==
  /\ web \in BOOLEAN /\ catalog \in BOOLEAN /\ loaded \in BOOLEAN
  /\ cursor \in {"$", "id"} /\ unread \in Seq(Edge) /\ Len(unread) <= MaxUnread
  /\ pulse \in Seq(Hb) /\ Len(pulse) <= 1
  /\ ~web => pulse = << >>
ClientType ==
  /\ conn \in {"none", "subscribed", "open"}
  /\ queue \in Seq(Told) /\ Len(queue) <= QueueSize
  /\ wire \in Seq(Frame) /\ Len(wire) <= WireSize
  /\ ~web => conn = "none" /\ unread = << >>
  /\ conn # "open" => wire = << >>
  /\ conn = "none" => queue = << >>
PageType ==
  /\ asked \in Nat /\ IsFiniteSet(answers) /\ asked + Cardinality(answers) <= MaxFetch
  /\ answers \subseteq Fetched
  /\ screen \in Screen
CountType == faults \in 0..MaxFaults /\ said \in 0..MaxSaid /\ wrong \in Gaps

Types == DaemonType /\ WebType /\ ClientType /\ PageType /\ CountType

LEMMA TypesGiveTypeOK == Types => TypeOK
BY DEF Types, DaemonType, WebType, ClientType, PageType, CountType, TypeOK, Told, Frame, Fetched

LEMMA Ips == Noria \in Item /\ Puesto \subseteq Item /\ \A i \in Item : Ip[i] \in Plc
BY ScreenAssumption DEF Item

LEMMA InitTypes == Init => Types
<1> SUFFICES ASSUME Init PROVE Types
  OBVIOUS
<1> USE DEF Init
<1>1. DaemonType
  <2>1. Puesto \subseteq Item
    BY DEF Item
  <2>2. mirror \in [Item -> Value]
    BY DEF Value
  <2>3. kept \in [Puesto -> [v : {"on", "off"}, exact : BOOLEAN]]
    BY <2>1
  <2>4. QED
    BY <2>2, <2>3 DEF DaemonType
<1>2. WebType
  <2>1. unread \in Seq(Edge) /\ Len(unread) <= MaxUnread
    BY MonitorAssumption
  <2>2. pulse \in Seq(Hb) /\ Len(pulse) <= 1
    OBVIOUS
  <2>3. QED
    BY <2>1, <2>2 DEF WebType
<1>3. ClientType
  BY MonitorAssumption DEF ClientType
<1>4. PageType
  <2>1. screen \in Screen
    BY DEF Blank, Screen, Value
  <2>2. IsFiniteSet(answers) /\ Cardinality(answers) = 0
    BY FS_EmptySet
  <2>3. QED
    BY <2>1, <2>2, MonitorAssumption DEF PageType
<1>5. CountType
  BY MonitorAssumption DEF CountType, Everything, Gaps, Item
<1>6. QED
  BY <1>1, <1>2, <1>3, <1>4, <1>5 DEF Types

----
(* What the helpers of the actions leave of the types. *)

LEMMA CrossType ==
  ASSUME PageType, Cross
  PROVE  /\ answers' \subseteq Fetched /\ IsFiniteSet(answers')
         /\ Cardinality(answers') <= Cardinality(answers)
         /\ Cardinality(answers') \in Nat /\ Cardinality(answers) \in Nat
<1> DEFINE f == [a \in answers |-> [a EXCEPT !.crossed = TRUE]]
<1>1. answers' = {f[a] : a \in answers}
  BY DEF Cross
<1>2. f \in Surjection(answers, answers')
  BY <1>1 DEF Surjection
<1>3. IsFiniteSet(answers') /\ Cardinality(answers') <= Cardinality(answers)
  BY <1>2, FS_Surjection DEF PageType
<1>4. answers' \subseteq Fetched
  BY DEF Cross, PageType, Fetched
<1>5. QED
  BY <1>3, <1>4, FS_CardinalityType DEF PageType

LEMMA SpoilType ==
  ASSUME PageType, CountType, NEW items \in SUBSET Item, Spoil(items)
  PROVE  /\ answers' \subseteq Fetched /\ IsFiniteSet(answers')
         /\ Cardinality(answers') <= Cardinality(answers)
         /\ Cardinality(answers') \in Nat /\ Cardinality(answers) \in Nat
         /\ wrong' \in Gaps
<1>1. wrong' \in Gaps
  BY DEF Spoil, CountType, Gaps
<1>2. CASE items = {}
  BY <1>1, <1>2, FS_CardinalityType DEF Spoil, PageType
<1>3. CASE items # {}
  BY <1>1, <1>3, CrossType DEF Spoil
<1>4. QED
  BY <1>2, <1>3

LEMMA BroadcastType ==
  ASSUME ClientType, NEW frame \in Told, Broadcast(frame)
  PROVE  /\ queue' \in Seq(Told) /\ Len(queue') <= QueueSize
         /\ conn = "none" => queue' = << >>
<1>1. QueueSize \in Nat \ {0}
  BY MonitorAssumption
<1>2. CASE conn = "none"
  BY <1>2 DEF Broadcast, ClientType
<1>3. CASE conn # "none" /\ Len(queue) < QueueSize
  <2>1. queue' = Append(queue, frame) /\ queue \in Seq(Told)
    BY <1>3 DEF Broadcast, ClientType
  <2>2. QED
    BY <1>1, <1>3, <2>1
<1>4. CASE conn # "none" /\ ~(Len(queue) < QueueSize)
  <2>1. queue' = <<Resync>> /\ Resync \in Told
    BY <1>4 DEF Broadcast, Told
  <2>2. QED
    BY <1>1, <1>4, <2>1
<1>5. QED
  BY <1>2, <1>3, <1>4

LEMMA ComposedType ==
  ASSUME Types, NEW ok \in BOOLEAN
  PROVE  Composed(ok) \in Snapshot /\ Composed(ok) \in Frame
<1>1. /\ leer(ok).v \in [Item -> Value] /\ leer(ok).exact \in [Puesto -> BOOLEAN]
      /\ leer(ok).alive \in SUBSET Plc
  BY DEF leer, Types, DaemonType, Value
<1>2. Composed(ok) \in Snapshot
  BY <1>1 DEF Composed, Snapshot, Types, WebType, Value
<1>3. QED
  BY <1>2 DEF Frame

LEMMA LeftType ==
  ASSUME Types, NEW ok \in BOOLEAN, NEW following
  PROVE  Left(ok, following) \in Gaps
BY DEF Left, LeftWrong, Gaps, Item

LEMMA ScreenTypes ==
  ASSUME NEW s \in Screen
  PROVE  /\ \A f \in Snapshot : ApplySnapshot(f) \in Screen
         /\ \A f \in Edge : ApplyEdge(s, f) \in Screen
         /\ \A f \in Hb : ApplyHb(s, f) \in Screen
         /\ Disconnected(s) \in Screen
         /\ Blank \in Screen
<1>1. \A f \in Snapshot : ApplySnapshot(f) \in Screen
  BY DEF ApplySnapshot, Snapshot, Screen
<1>2. ASSUME NEW f \in Edge PROVE ApplyEdge(s, f) \in Screen
  <2>1. CASE f.i = Noria
    BY <2>1 DEF ApplyEdge, Edge, Screen
  <2>2. CASE f.i # Noria
    BY <2>2 DEF ApplyEdge, Edge, Screen, Item
  <2>3. QED
    BY <2>1, <2>2
<1>3. ASSUME NEW f \in Hb PROVE ApplyHb(s, f) \in Screen
  <2> DEFINE alive == IF s.listed THEN f.alive ELSE {}
             changed == s.live # f.ok \/ s.alive # alive
             greyed == {p \in Puesto : changed /\ s.known /\ s.listed /\ Ip[p] \notin alive}
  <2>1. alive \in SUBSET Plc /\ f.ok \in BOOLEAN
    BY DEF Hb
  <2>2. ApplyHb(s, f) = [s EXCEPT !.live = f.ok, !.alive = alive,
                                  !.v = [i \in Item |-> IF i \in greyed THEN "unknown" ELSE @[i]]]
    BY DEF ApplyHb
  <2> HIDE DEF alive, changed, greyed
  <2> DEFINE shown == [i \in Item |-> IF i \in greyed THEN "unknown" ELSE s.v[i]]
  <2>3. shown \in [Item -> Value] /\ ApplyHb(s, f) = [s EXCEPT !.live = f.ok, !.alive = alive, !.v = shown]
    BY <2>2 DEF Screen, Value
  <2> HIDE DEF shown
  <2>4. QED
    BY <2>1, <2>3 DEF Screen
<1>4. Disconnected(s) \in Screen /\ Blank \in Screen
  BY DEF Disconnected, Blank, Screen, Value
<1>5. QED
  BY <1>1, <1>2, <1>3, <1>4

----
(* The types, action by action. *)

LEMMA SameTypes ==
  /\ DaemonType /\ UNCHANGED daemonVars => DaemonType'
  /\ WebType /\ UNCHANGED <<webVars, feedVars, pulse>> => WebType'
  /\ ClientType /\ UNCHANGED <<clientVars, web, unread>> => ClientType'
  /\ PageType /\ UNCHANGED pageVars => PageType'
  /\ CountType /\ UNCHANGED <<faults, said, wrong>> => CountType'
<1> USE DEF daemonVars, webVars, feedVars, clientVars, pageVars
<1>1. DaemonType /\ UNCHANGED daemonVars => DaemonType'
  BY DEF DaemonType
<1>2. WebType /\ UNCHANGED <<webVars, feedVars, pulse>> => WebType'
  BY DEF WebType
<1>3. ClientType /\ UNCHANGED <<clientVars, web, unread>> => ClientType'
  BY DEF ClientType
<1>4. PageType /\ UNCHANGED pageVars => PageType'
  BY DEF PageType
<1>5. CountType /\ UNCHANGED <<faults, said, wrong>> => CountType'
  BY DEF CountType
<1>6. QED
  BY <1>1, <1>2, <1>3, <1>4, <1>5

\* Answers that are only marked, and an unchanged rest of the page.
LEMMA MarkedPage ==
  ASSUME PageType, answers' \subseteq Fetched, IsFiniteSet(answers'),
         Cardinality(answers') <= Cardinality(answers),
         Cardinality(answers') \in Nat, Cardinality(answers) \in Nat,
         asked' \in Nat, asked' <= asked, screen' \in Screen
  PROVE  PageType'
BY MonitorAssumption DEF PageType

LEMMA PublishTypes ==
  ASSUME Types, NEW i \in Item, NEW v \in Value, NEW reason \in Reason, Publish(i, v, reason)
  PROVE  /\ WebType' /\ ClientType' /\ PageType' /\ wrong' \in Gaps
         /\ owed' \in [Item -> Reason \cup {"none"}]
<1> DEFINE e == [t |-> "edge", i |-> i, v |-> v, reason |-> reason]
<1>0. e \in Edge
  BY DEF Edge
<1>1. UNCHANGED <<webVars, cursor, pulse, clientVars, asked, screen>> /\ Len(unread) < MaxUnread
  BY DEF Publish
<1>2. owed' \in [Item -> Reason \cup {"none"}]
  BY DEF Publish, Types, DaemonType
<1>3. CASE web /\ unread' = Append(unread, e) /\ UNCHANGED <<wrong, answers>>
  <2>1. unread' \in Seq(Edge) /\ Len(unread') <= MaxUnread
    BY <1>0, <1>1, <1>3, MonitorAssumption DEF Types, WebType
  <2>2. WebType' /\ ClientType' /\ PageType'
    BY <1>1, <1>3, <2>1 DEF Types, WebType, ClientType, PageType, webVars, clientVars
  <2>3. wrong' \in Gaps
    BY <1>3 DEF Types, CountType
  <2>4. QED
    BY <1>2, <2>2, <2>3
<1>4. CASE Spoil({i}) /\ UNCHANGED unread
  <2>1. WebType' /\ ClientType'
    BY <1>1, <1>4, SameTypes DEF Types, feedVars, webVars
  <2>2. {i} \in SUBSET Item
    OBVIOUS
  <2>3. PageType' /\ wrong' \in Gaps
    BY <1>1, <1>4, <2>2, SpoilType, MarkedPage DEF Types, PageType
  <2>4. QED
    BY <1>2, <2>1, <2>3
<1>5. QED
  BY <1>3, <1>4 DEF Publish

LEMMA SaysTypes ==
  ASSUME CountType
  PROVE  /\ Says => said' \in 0..MaxSaid
         /\ \A kind : Fails(kind) => faults' \in 0..MaxFaults /\ said' \in 0..MaxSaid
         /\ \A ok : Reads(ok) => faults' \in 0..MaxFaults /\ said' \in 0..MaxSaid
<1>1. Says => said' \in 0..MaxSaid
  BY MonitorAssumption DEF CountType, Says
<1>2. ASSUME NEW kind, Fails(kind) PROVE faults' \in 0..MaxFaults /\ said' \in 0..MaxSaid
  <2>1. Cost[kind] \in Nat
    BY <1>2, MonitorAssumption DEF Fails
  <2>2. QED
    BY <1>2, <2>1, MonitorAssumption DEF CountType, Fails
<1>3. QED
  BY <1>1, <1>2 DEF CountType, Reads

LEMMA SayingTypes ==
  ASSUME Types, NEW i \in Item, Change(i) \/ Reassert(i) \/ ResyncOne(i)
  PROVE  Types'
<1>0. value[i] \in {"on", "off"} /\ Flip(value[i]) \in {"on", "off"}
  BY DEF Types, DaemonType, Flip
<1>1. PICK v \in Value, reason \in Reason : Publish(i, v, reason)
  <2>1. CASE Change(i)
    <3>1. value'[i] \in Value
      BY <1>0, <2>1 DEF Change, Types, DaemonType, Value
    <3>2. QED
      BY <2>1, <3>1 DEF Change, Reason
  <2>2. CASE Reassert(i)
    BY <1>0, <2>2 DEF Reassert, Reason, Value
  <2>3. CASE ResyncOne(i)
    BY <1>0, <2>3 DEF ResyncOne, Reason, Value
  <2>4. QED
    BY <2>1, <2>2, <2>3
<1>2. value' \in [Item -> {"on", "off"}] /\ resync' \subseteq Item
  BY <1>0 DEF Change, Reassert, ResyncOne, Types, DaemonType
<1>3. UNCHANGED <<polling, up, mirror, exact, kept, faults>>
  BY <1>1 DEF Publish
<1>4. said' \in 0..MaxSaid
  BY SaysTypes DEF Change, Reassert, ResyncOne, Types, CountType
<1>5. /\ WebType' /\ ClientType' /\ PageType' /\ wrong' \in Gaps
      /\ owed' \in [Item -> Reason \cup {"none"}]
  BY <1>1, PublishTypes
<1>6. DaemonType' /\ CountType'
  BY <1>2, <1>3, <1>4, <1>5 DEF Types, DaemonType, CountType
<1>7. QED
  BY <1>5, <1>6 DEF Types

LEMMA AdvanceType ==
  ASSUME Types, NEW p \in Puesto
  PROVE  advance(p) \in [v : {"on", "off"}, exact : BOOLEAN]
<1>1. kept[p] \in [v : {"on", "off"}, exact : BOOLEAN] /\ value[p] \in {"on", "off"}
  BY Ips DEF Types, DaemonType
<1>2. CASE owed[p] = "none"
  BY <1>1, <1>2 DEF advance
<1>3. CASE owed[p] # "none"
  <2> DEFINE e == owed[p] = "change" \/ (kept[p].v = value[p] /\ kept[p].exact)
  <2>1. e \in BOOLEAN
    BY <1>1
  <2>2. advance(p) = [v |-> value[p], exact |-> e]
    BY <1>3 DEF advance
  <2> HIDE DEF e
  <2>3. QED
    BY <1>1, <2>1, <2>2
<1>4. QED
  BY <1>2, <1>3

LEMMA WriteTypes ==
  ASSUME Types, NEW w \in Plc, NEW landed, Write(w, landed), up' \subseteq Plc,
         faults' \in 0..MaxFaults
  PROVE  Types'
<1> USE DEF Write
<1>1. mirror' \in [Item -> Value]
  BY DEF Types, DaemonType, Value
<1>2. kept' \in [Puesto -> [v : {"on", "off"}, exact : BOOLEAN]]
  BY AdvanceType DEF Types, DaemonType
<1>3. exact' \in [Puesto -> BOOLEAN]
  <2>1. \A p \in Puesto : advance(p).exact \in BOOLEAN /\ exact[p] \in BOOLEAN
    BY AdvanceType DEF Types, DaemonType
  <2>2. exact' = [p \in Puesto |-> IF p \in landed THEN advance(p).exact ELSE exact[p]]
    OBVIOUS
  <2>3. QED
    BY <2>1, <2>2
<1>4. owed' \in [Item -> Reason \cup {"none"}]
  BY DEF Types, DaemonType
<1>5. UNCHANGED <<value, polling, resync>>
  OBVIOUS
<1>6. DaemonType'
  BY <1>1, <1>2, <1>3, <1>4, <1>5 DEF Types, DaemonType
<1>7. CountType'
  BY DEF Types, CountType
<1>8. QED
  BY <1>6, <1>7, SameTypes DEF Types, clientVars, webVars, feedVars

LEMMA PlcDownTypes ==
  ASSUME Types, NEW w \in Plc, plc_down(w), polling' \subseteq Plc,
         faults' \in 0..MaxFaults, said' \in 0..MaxSaid
  PROVE  Types'
<1>a. Mine(w) \subseteq Item
  BY DEF Mine
<1>1. up' \subseteq Plc /\ mirror' \in [Item -> Value]
  BY DEF plc_down, Types, DaemonType, Value
<1>2. UNCHANGED <<value, exact, owed, kept, resync, webVars, feedVars, pulse, clientVars, asked, screen>>
  BY DEF plc_down
<1>3. DaemonType'
  BY <1>1, <1>2 DEF Types, DaemonType
<1>4. {Noria} \cap Mine(w) \in SUBSET Item /\ Spoil({Noria} \cap Mine(w))
  BY <1>a DEF plc_down
<1>5. PageType' /\ wrong' \in Gaps
  BY <1>2, <1>4, SpoilType, MarkedPage DEF Types, PageType
<1>6. CountType'
  BY <1>5 DEF Types, CountType
<1>7. QED
  BY <1>2, <1>3, <1>5, <1>6, SameTypes DEF Types, clientVars, webVars, feedVars

LEMMA DaemonTypes ==
  ASSUME Types, NEW w \in Plc,
         \/ Mirror(w) \/ MirrorSkips(w) \/ KeyExpires(w)
         \/ PlcDown(w) \/ PlcStillDown(w) \/ PlcBack(w)
  PROVE  Types'
<1>a. Mine(w) \subseteq Item /\ up \subseteq Plc /\ polling \subseteq Plc /\ faults \in 0..MaxFaults
  BY DEF Mine, Types, DaemonType, CountType
<1>1. CASE Mirror(w)
  BY <1>a, <1>1, WriteTypes DEF Mirror
<1>2. CASE MirrorSkips(w)
  <2>1. faults' \in 0..MaxFaults /\ up' \subseteq Plc
    BY <1>a, <1>2, SaysTypes DEF MirrorSkips, Types
  <2>2. PICK landed : Write(w, landed)
    BY <1>2 DEF MirrorSkips
  <2>3. QED
    BY <2>1, <2>2, WriteTypes
<1>3. CASE PlcDown(w)
  <2>1. plc_down(w) /\ polling' \subseteq Plc /\ faults' \in 0..MaxFaults /\ said' \in 0..MaxSaid
    BY <1>a, <1>3, SaysTypes DEF PlcDown, Types
  <2>2. QED
    BY <2>1, PlcDownTypes
<1>4. CASE PlcStillDown(w)
  <2>1. plc_down(w) /\ polling' \subseteq Plc /\ faults' \in 0..MaxFaults /\ said' \in 0..MaxSaid
    BY <1>a, <1>4 DEF PlcStillDown, Types, CountType
  <2>2. QED
    BY <2>1, PlcDownTypes
<1>5. CASE PlcBack(w)
  <2>1. value' \in [Item -> {"on", "off"}]
    BY <1>5 DEF PlcBack, Types, DaemonType, Flip
  <2>2. DaemonType'
    BY <1>5, <1>a, <2>1 DEF PlcBack, Types, DaemonType
  <2>3. QED
    BY <1>5, <2>2, SameTypes DEF PlcBack, Types, clientVars, webVars, feedVars
<1>6. CASE KeyExpires(w)
  <2>1. DaemonType'
    BY <1>6 DEF KeyExpires, Types, DaemonType
  <2>2. CountType'
    BY <1>6, SaysTypes DEF KeyExpires, Types, CountType
  <2>3. QED
    BY <1>6, <2>1, <2>2, SameTypes DEF KeyExpires, Types, clientVars, webVars, feedVars
<1>7. QED
  BY <1>1, <1>2, <1>3, <1>4, <1>5, <1>6

LEMMA FeedTypes ==
  ASSUME Types, Deliver \/ ReadFails \/ Refresh \/ Heartbeat \/ Pulse
  PROVE  Types'
<1>1. CASE Deliver
  <2> DEFINE d == Head(unread)
  <2>1. unread # << >> /\ unread' = Tail(unread) /\ cursor' = "id" /\ unread \in Seq(Edge)
    BY <1>1 DEF Deliver, Types, WebType
  <2>2. d \in Edge /\ unread' \in Seq(Edge) /\ Len(unread') <= Len(unread) /\ web
    BY <2>1 DEF Types, ClientType
  <2>3. UNCHANGED <<daemonVars, webVars, pulse, conn, wire, asked, screen, faults, said>>
    BY <1>1 DEF Deliver
  <2>4. WebType'
    BY <2>1, <2>2, <2>3, MonitorAssumption DEF Types, WebType, webVars
  <2>5. d.i \in Item
    BY <2>2 DEF Edge
  <2>6. CASE traducir(d)
    <3>1. Broadcast(d) /\ Cross
      BY <1>1, <2>6 DEF Deliver
    <3>2. d \in Told
      BY <2>2 DEF Told
    <3>3. ClientType'
      BY <2>2, <2>3, <3>1, <3>2, BroadcastType DEF Types, ClientType, webVars
    <3>4. PageType'
      BY <2>3, <3>1, CrossType, MarkedPage DEF Types, PageType
    <3>5. wrong' \in Gaps
      BY <1>1, <2>6 DEF Deliver, Types, CountType, Gaps
    <3>6. QED
      BY <2>3, <2>4, <3>3, <3>4, <3>5, SameTypes DEF Types, CountType
  <2>7. CASE ~traducir(d)
    <3>1. Spoil({d.i}) /\ UNCHANGED queue
      BY <1>1, <2>7 DEF Deliver
    <3>2. ClientType'
      BY <2>2, <2>3, <3>1 DEF Types, ClientType, webVars
    <3>3. PageType' /\ wrong' \in Gaps
      BY <2>3, <2>5, <3>1, SpoilType, MarkedPage DEF Types, PageType
    <3>4. QED
      BY <2>3, <2>4, <3>2, <3>3, SameTypes DEF Types, CountType
  <2>8. QED
    BY <2>6, <2>7
<1>2. CASE ReadFails
  <2>1. /\ cursor' = "$" /\ unread' = << >>
        /\ UNCHANGED <<daemonVars, webVars, pulse, clientVars, asked, screen>>
        /\ faults' \in 0..MaxFaults /\ said' \in 0..MaxSaid
    BY <1>2, SaysTypes DEF ReadFails, Types
  <2> DEFINE missed == {d.i : d \in Members(unread)}
  <2>2. missed \subseteq Item
    <3>1. \A n \in DOMAIN unread : unread[n] \in Edge
      BY DEF Types, WebType
    <3>2. QED
      BY <3>1 DEF Members, Edge
  <2>3. wrong' \in Gaps
    BY <1>2, <2>2 DEF ReadFails, Types, CountType, Gaps
  <2>4. PageType'
    <3>1. UNCHANGED answers \/ Cross
      BY <1>2 DEF ReadFails
    <3>2. CASE UNCHANGED answers
      BY <2>1, <3>2, SameTypes DEF Types, pageVars
    <3>3. CASE Cross
      BY <2>1, <3>3, CrossType, MarkedPage DEF Types, PageType
    <3>4. QED
      BY <3>1, <3>2, <3>3
  <2>5. WebType'
    <3>1. unread' \in Seq(Edge) /\ Len(unread') <= MaxUnread
      BY <2>1, MonitorAssumption
    <3>2. QED
      BY <2>1, <3>1 DEF Types, WebType, webVars
  <2>6. ClientType'
    BY <2>1 DEF Types, ClientType, webVars, clientVars
  <2>7. QED
    BY <2>1, <2>3, <2>4, <2>5, <2>6, SameTypes DEF Types, CountType
<1>3. CASE Refresh
  <2>1. /\ web /\ loaded' = TRUE /\ Broadcast(Hoy)
        /\ UNCHANGED <<daemonVars, web, catalog, feedVars, pulse, conn, wire, pageVars, faults, wrong>>
    BY <1>3 DEF Refresh, refrescar
  <2>2. said' \in 0..MaxSaid
    BY <1>3, SaysTypes DEF Refresh, Types, CountType
  <2>3. Hoy \in Told
    BY DEF Told
  <2>4. ClientType'
    BY <2>1, <2>3, BroadcastType DEF Types, ClientType, feedVars
  <2>5. WebType'
    BY <2>1 DEF Types, WebType, feedVars
  <2>6. QED
    BY <2>1, <2>2, <2>4, <2>5, SameTypes DEF Types, CountType
<1>4. CASE Heartbeat
  <2>1. PICK ok \in BOOLEAN : Reads(ok) /\ pulse' = <<[t |-> "hb", ok |-> ok, alive |-> Alive(ok)]>>
    BY <1>4 DEF Heartbeat
  <2>2. web /\ UNCHANGED <<daemonVars, webVars, feedVars, clientVars, pageVars, wrong>>
    BY <1>4 DEF Heartbeat
  <2>3. Alive(ok) \in SUBSET Plc
    BY DEF Alive, leer, Types, DaemonType
  <2>4. [t |-> "hb", ok |-> ok, alive |-> Alive(ok)] \in Hb
    BY <2>3 DEF Hb
  <2>5. pulse' \in Seq(Hb) /\ Len(pulse') <= 1
    BY <2>1, <2>4
  <2>6. WebType'
    BY <2>2, <2>5 DEF Types, WebType, webVars, feedVars
  <2>7. CountType'
    BY <2>1, <2>2, SaysTypes DEF Types, CountType
  <2>8. QED
    BY <2>2, <2>6, <2>7, SameTypes DEF Types, webVars, feedVars
<1>5. CASE Pulse
  <2> DEFINE h == Head(pulse)
             greyed == {p \in Puesto : Ip[p] \notin h.alive
                                       /\ (Ip[p] \in polling \cup up \/ Overtaken(p))}
  <2>1. pulse # << >> /\ pulse' = << >> /\ Broadcast(h) /\ Spoil(greyed)
    BY <1>5 DEF Pulse
  <2>2. UNCHANGED <<daemonVars, webVars, feedVars, conn, wire, asked, screen, faults, said>>
    BY <1>5 DEF Pulse
  <2>3. h \in Hb
    BY <2>1 DEF Types, WebType
  <2>4. h \in Told
    BY <2>3 DEF Told
  <2>5. greyed \in SUBSET Item
    BY Ips
  <2> HIDE DEF h, greyed
  <2>6. ClientType'
    BY <2>1, <2>2, <2>4, BroadcastType DEF Types, ClientType, webVars, feedVars
  <2>7. PageType' /\ wrong' \in Gaps
    BY <2>1, <2>2, <2>5, SpoilType, MarkedPage DEF Types, PageType
  <2>8. CountType'
    BY <2>2, <2>7 DEF Types, CountType
  <2>9. pulse' \in Seq(Hb) /\ Len(pulse') <= 1
    BY <2>1
  <2>10. WebType'
    BY <2>1, <2>2, <2>9 DEF Types, WebType, webVars, feedVars
  <2>11. QED
    BY <2>2, <2>6, <2>7, <2>8, <2>10, SameTypes DEF Types
<1>6. QED
  BY <1>1, <1>2, <1>3, <1>4, <1>5

LEMMA ClientTypes ==
  ASSUME Types, Subscribe \/ SendSnapshot \/ SendFrame \/ Answer
  PROVE  Types'
<1>1. CASE Subscribe
  <2>1. /\ conn' = "subscribed" /\ web
        /\ UNCHANGED <<daemonVars, webVars, feedVars, pulse, queue, wire, pageVars, faults, said, wrong>>
        /\ conn = "none"
    BY <1>1 DEF Subscribe
  <2>2. ClientType'
    BY <2>1 DEF Types, ClientType, webVars, feedVars
  <2>3. QED
    BY <2>1, <2>2, SameTypes DEF Types
<1>2. CASE SendSnapshot
  <2>1. PICK ok \in BOOLEAN :
          Reads(ok) /\ wire' = <<Composed(ok)>> /\ wrong' = Left(ok, Following)
    BY <1>2 DEF SendSnapshot
  <2>2. /\ conn = "subscribed" /\ conn' = "open" /\ Cross
        /\ UNCHANGED <<daemonVars, webVars, feedVars, pulse, queue, asked, screen>>
    BY <1>2 DEF SendSnapshot
  <2>3. wire' \in Seq(Frame) /\ Len(wire') <= WireSize
    BY <2>1, ComposedType, MonitorAssumption
  <2>4. ClientType'
    BY <2>2, <2>3 DEF Types, ClientType, webVars, feedVars
  <2>5. PageType'
    BY <2>2, CrossType, MarkedPage DEF Types, PageType
  <2>6. CountType'
    BY <2>1, SaysTypes, LeftType DEF Types, CountType
  <2>7. QED
    BY <2>2, <2>4, <2>5, <2>6, SameTypes DEF Types
<1>3. CASE SendFrame
  <2>1. /\ conn = "open" /\ queue # << >> /\ Len(wire) < WireSize
        /\ wire' = Append(wire, Head(queue)) /\ queue' = Tail(queue)
        /\ UNCHANGED <<daemonVars, webVars, feedVars, pulse, conn, pageVars, faults, said, wrong>>
    BY <1>3 DEF SendFrame
  <2>2. queue \in Seq(Told) /\ wire \in Seq(Frame) /\ Told \subseteq Frame
    BY DEF Types, ClientType, Told, Frame
  <2>3. Head(queue) \in Frame /\ Tail(queue) \in Seq(Told) /\ Len(Tail(queue)) <= Len(queue)
    BY <2>1, <2>2
  <2>4. wire' \in Seq(Frame) /\ Len(wire') <= WireSize
    BY <2>1, <2>2, <2>3, MonitorAssumption
  <2>5. queue' \in Seq(Told) /\ Len(queue') <= QueueSize
    BY <2>1, <2>2, <2>3, MonitorAssumption DEF Types, ClientType
  <2>6. ClientType'
    BY <2>1, <2>4, <2>5 DEF Types, ClientType, webVars, feedVars
  <2>7. QED
    BY <2>1, <2>6, SameTypes DEF Types
<1>4. CASE Answer
  <2>1. PICK ok \in BOOLEAN :
          /\ Reads(ok)
          /\ answers' = answers \cup {[snapshot |-> Composed(ok), crossed |-> FALSE,
                                       wrong |-> Left(ok, {})]}
    BY <1>4 DEF Answer
  <2>2. /\ asked > 0 /\ asked' = asked - 1
        /\ UNCHANGED <<daemonVars, webVars, feedVars, pulse, clientVars, screen, wrong>>
    BY <1>4 DEF Answer
  <2> DEFINE a == [snapshot |-> Composed(ok), crossed |-> FALSE, wrong |-> Left(ok, {})]
  <2>3. a \in Fetched
    BY ComposedType, LeftType DEF Fetched
  <2>4. /\ IsFiniteSet(answers \cup {a})
        /\ Cardinality(answers \cup {a}) \in {Cardinality(answers), Cardinality(answers) + 1}
        /\ Cardinality(answers) \in Nat
    BY FS_AddElement, FS_CardinalityType DEF Types, PageType
  <2>5. PageType'
    <3>1. answers' = answers \cup {a}
      BY <2>1
    <3>2. asked' \in Nat /\ asked' + Cardinality(answers') <= MaxFetch
      BY <2>2, <2>4, <3>1, MonitorAssumption DEF Types, PageType
    <3>3. QED
      BY <2>2, <2>3, <2>4, <3>1, <3>2 DEF Types, PageType
  <2>6. CountType'
    BY <2>1, <2>2, SaysTypes DEF Types, CountType
  <2>7. QED
    BY <2>2, <2>5, <2>6, SameTypes DEF Types, clientVars, webVars, feedVars
<1>5. QED
  BY <1>1, <1>2, <1>3, <1>4

LEMMA PageTypes ==
  ASSUME Types, Receive \/ ApplyAnswer \/ FetchFails \/ Drop \/ Reload
  PROVE  Types'
<1>0. screen \in Screen
  BY DEF Types, PageType
<1>1. CASE Receive
  <2> DEFINE f == Head(wire)
  <2>1. /\ wire # << >> /\ wire' = Tail(wire)
        /\ f = Resync => asked + Cardinality(answers) < MaxFetch
        /\ asked' = IF f = Resync THEN asked + 1 ELSE asked
        /\ UNCHANGED <<daemonVars, webVars, feedVars, pulse, conn, queue, answers, faults, said, wrong>>
    BY <1>1 DEF Receive
  <2>2. wire \in Seq(Frame) /\ f \in Frame /\ Tail(wire) \in Seq(Frame) /\ Len(Tail(wire)) <= Len(wire)
    BY <2>1 DEF Types, ClientType
  <2>3. wire' \in Seq(Frame) /\ Len(wire') <= WireSize
    BY <2>1, <2>2, MonitorAssumption DEF Types, ClientType
  <2>4. ClientType'
    BY <2>1, <2>3 DEF Types, ClientType, webVars, feedVars
  <2>5. /\ f.t = "snapshot" => f \in Snapshot
        /\ f.t = "edge" => f \in Edge
        /\ f.t = "hb" => f \in Hb
    BY <2>2 DEF Frame, Snapshot, Edge, Hb, Resync, Hoy
  <2>6. screen' \in Screen
    BY <1>0, <1>1, <2>5, ScreenTypes DEF Receive
  <2>7. PageType'
    BY <2>1, <2>6, FS_CardinalityType, MonitorAssumption DEF Types, PageType
  <2>8. QED
    BY <2>1, <2>4, <2>7, SameTypes DEF Types, CountType
<1>2. CASE ApplyAnswer
  <2>1. PICK a \in answers :
          /\ answers' = answers \ {a}
          /\ screen' = ApplySnapshot(a.snapshot)
          /\ wrong' = IF a.crossed THEN Everything ELSE a.wrong
          /\ UNCHANGED <<daemonVars, webVars, feedVars, pulse, clientVars, asked, faults, said>>
    BY <1>2 DEF ApplyAnswer
  <2>2. a \in Fetched
    BY DEF Types, PageType
  <2>3. /\ IsFiniteSet(answers') /\ Cardinality(answers') <= Cardinality(answers)
        /\ Cardinality(answers') \in Nat /\ Cardinality(answers) \in Nat
    BY <2>1, FS_Subset, FS_CardinalityType DEF Types, PageType
  <2>4. screen' \in Screen
    BY <1>0, <2>1, <2>2, ScreenTypes DEF Fetched
  <2>5. PageType'
    BY <2>1, <2>3, <2>4, MarkedPage DEF Types, PageType
  <2>6. wrong' \in Gaps
    BY <2>1, <2>2 DEF Fetched, Everything, Gaps, Item
  <2>7. QED
    BY <2>1, <2>5, <2>6, SameTypes DEF Types, CountType, clientVars, webVars, feedVars
<1>3. CASE FetchFails
  <2>1. /\ asked > 0 /\ asked' = asked - 1 /\ Spoil(Item)
        /\ faults' \in 0..MaxFaults /\ said' \in 0..MaxSaid
        /\ UNCHANGED <<daemonVars, webVars, feedVars, pulse, clientVars, screen>>
    BY <1>3, SaysTypes DEF FetchFails, Types
  <2>2. asked' \in Nat /\ asked' <= asked
    BY <2>1 DEF Types, PageType
  <2>3. PageType' /\ wrong' \in Gaps
    BY <1>0, <2>1, <2>2, SpoilType, MarkedPage DEF Types
  <2>4. QED
    BY <2>1, <2>3, SameTypes DEF Types, CountType, clientVars, webVars, feedVars
<1>4. CASE Drop
  <2>1. /\ conn' = "none" /\ queue' = << >> /\ wire' = << >> /\ screen' = Disconnected(screen)
        /\ faults' \in 0..MaxFaults /\ said' \in 0..MaxSaid
        /\ UNCHANGED <<daemonVars, webVars, feedVars, pulse, asked, answers, wrong>>
    BY <1>4, SaysTypes DEF Drop, Types
  <2>2. queue' \in Seq(Told) /\ Len(queue') <= QueueSize /\ wire' \in Seq(Frame) /\ Len(wire') <= WireSize
    BY <2>1, MonitorAssumption
  <2>3. ClientType'
    BY <2>1, <2>2 DEF Types, ClientType, webVars, feedVars
  <2>4. screen' \in Screen
    BY <1>0, <2>1, ScreenTypes
  <2>5. PageType'
    BY <2>1, <2>4 DEF Types, PageType
  <2>6. QED
    BY <2>1, <2>3, <2>5, SameTypes DEF Types, CountType
<1>5. CASE Reload
  <2>1. /\ conn' = "none" /\ queue' = << >> /\ wire' = << >>
        /\ asked' = 0 /\ answers' = {} /\ screen' = Blank
        /\ faults' \in 0..MaxFaults /\ said' \in 0..MaxSaid
        /\ UNCHANGED <<daemonVars, webVars, feedVars, pulse, wrong>>
    BY <1>5, SaysTypes DEF Reload, Types
  <2>2. queue' \in Seq(Told) /\ Len(queue') <= QueueSize /\ wire' \in Seq(Frame) /\ Len(wire') <= WireSize
    BY <2>1, MonitorAssumption
  <2>3. ClientType'
    BY <2>1, <2>2 DEF Types, ClientType, webVars, feedVars
  <2>4. screen' \in Screen /\ IsFiniteSet(answers') /\ Cardinality(answers') = 0
    BY <1>0, <2>1, ScreenTypes, FS_EmptySet
  <2>5. PageType'
    BY <2>1, <2>4, MonitorAssumption DEF PageType
  <2>6. QED
    BY <2>1, <2>3, <2>5, SameTypes DEF Types, CountType
<1>6. QED
  BY <1>1, <1>2, <1>3, <1>4, <1>5

LEMMA ProcessTypes ==
  ASSUME Types, WebStart \/ WebCrash
  PROVE  Types'
<1>1. CASE WebStart
  <2>1. /\ ~web /\ web' = TRUE /\ catalog' \in BOOLEAN
        /\ faults' \in 0..MaxFaults /\ said' \in 0..MaxSaid
        /\ UNCHANGED <<daemonVars, loaded, feedVars, pulse, clientVars, pageVars, wrong>>
    BY <1>1, SaysTypes DEF WebStart, leer_catalogo, Types, CountType
  <2>2. WebType' /\ ClientType'
    BY <2>1 DEF Types, WebType, ClientType, feedVars, clientVars
  <2>3. QED
    BY <2>1, <2>2, SameTypes DEF Types, CountType
<1>2. CASE WebCrash
  <2>1. /\ web' = FALSE /\ catalog' = FALSE /\ loaded' = FALSE
        /\ cursor' = "$" /\ unread' = << >>
        /\ pulse' = << >>
        /\ conn' = "none" /\ queue' = << >> /\ wire' = << >>
        /\ screen' = IF conn = "none" THEN screen ELSE Disconnected(screen)
        /\ asked' = 0
        /\ Spoil({d.i : d \in Members(unread)})
        /\ UNCHANGED daemonVars
        /\ faults' \in 0..MaxFaults /\ said' \in 0..MaxSaid
    BY <1>2, SaysTypes DEF WebCrash, Types
  <2>2. /\ queue' \in Seq(Told) /\ Len(queue') <= QueueSize /\ wire' \in Seq(Frame) /\ Len(wire') <= WireSize
        /\ unread' \in Seq(Edge) /\ Len(unread') <= MaxUnread
        /\ pulse' \in Seq(Hb) /\ Len(pulse') <= 1
    BY <2>1, MonitorAssumption
  <2>3. WebType' /\ ClientType'
    BY <2>1, <2>2 DEF WebType, ClientType
  <2>4. {d.i : d \in Members(unread)} \in SUBSET Item
    <3>1. \A n \in DOMAIN unread : unread[n] \in Edge
      BY DEF Types, WebType
    <3>2. QED
      BY <3>1 DEF Members, Edge
  <2>5. screen' \in Screen
    BY <2>1, ScreenTypes DEF Types, PageType
  <2>6. asked' \in Nat /\ asked' <= asked
    BY <2>1 DEF Types, PageType
  <2>7. PageType' /\ wrong' \in Gaps
    BY <2>1, <2>4, <2>5, <2>6, SpoilType, MarkedPage DEF Types
  <2>8. QED
    BY <2>1, <2>3, <2>7, SameTypes DEF Types, CountType
<1>3. QED
  BY <1>1, <1>2

LEMMA StepTypes == Types /\ [Next]_vars => Types'
<1> SUFFICES ASSUME Types, [Next]_vars PROVE Types'
  OBVIOUS
<1>1. CASE UNCHANGED vars
  BY <1>1, SameTypes DEF vars, Types, feedVars, webVars, clientVars
<1>2. CASE Next
  BY <1>2, SayingTypes, DaemonTypes, FeedTypes, ClientTypes, PageTypes, ProcessTypes DEF Next
<1>3. QED
  BY <1>1, <1>2

\* Every part of the state keeps its type.
THEOREM TypesHold == Spec => []Types
<1>1. QED
  BY InitTypes, StepTypes, PTL DEF Spec

\* Type correctness: the queue of a browser, what is on its way and the answers it waits
\* for stay within their limits, whatever the daemon says and whatever fails.
THEOREM TypeCorrect == Spec => []TypeOK
<1>1. QED
  BY TypesHold, TypesGiveTypeOK, PTL

----
(* What a frame asks of the frames before it.  Take the values that the    *)
(* screen may show of an item once all has arrived; going back over the    *)
(* frames on their way, each one says what the screen may show before it.  *)
(* A frame that sets the item absolves what comes before: then the screen  *)
(* may show anything ("any" is among what it may show).  A claim about the *)
(* start of a stop is strict: only a flip absolves, a state that is        *)
(* published again must find the screen showing it.                        *)

Any == Value \cup {"any"}
About(f, i) == f.t = "edge" /\ f.i = i
Stops(f, i) == f.t \in {"snapshot", "resync"} \/ About(f, i)
Absolves(f, i, strict) ==
  f.t \in {"snapshot", "resync"} \/ (About(f, i) /\ (~strict \/ f.reason = "change"))

\* What the screen may show before f, to show one of A after it.
Before1(f, i, strict, A) ==
  IF ~Stops(f, i) THEN A
  ELSE IF "any" \in A \/ Absolves(f, i, strict) THEN Any
  ELSE {v \in Value : f.reason = "reassert" => v = f.v}

\* The same, before the frames of q from the n-th on: the first that stops decides.
BeforeFrom(q, n, i, strict, A) ==
  IF \A m \in 1..Len(q) : m >= n => ~Stops(q[m], i) THEN A
  ELSE IF "any" \in A \/ \E m \in 1..Len(q) : m >= n /\ Absolves(q[m], i, strict) THEN Any
  ELSE {v \in Value : \A m \in 1..Len(q) :
          /\ m >= n /\ Stops(q[m], i) /\ q[m].reason = "reassert"
          /\ \A k \in 1..(m - 1) : k >= n => ~Stops(q[k], i)
          => v = q[m].v}
Before(q, i, strict, A) == BeforeFrom(q, 1, i, strict, A)

\* The value that f leaves is one of A.
Leaves(f, i, A) ==
  /\ About(f, i) => f.v \in A
  /\ f.t = "snapshot" => f.v[i] \in A
  /\ f.t = "hb" /\ i \in Puesto /\ Ip[i] \notin f.alive => "unknown" \in A

\* Every frame of q leaves what the ones after it may find.
Sound(q, i, strict, A) ==
  \A n \in 1..Len(q) : Leaves(q[n], i, BeforeFrom(q, n + 1, i, strict, A))

LEMMA Absolving ==
  ASSUME NEW f, NEW i, NEW strict
  PROVE  /\ Absolves(f, i, strict) => Stops(f, i)
         /\ "any" \notin Value /\ "any" \in Any
BY DEF Absolves, Stops, About, Any, Value

LEMMA AtEnd ==
  ASSUME NEW q \in Seq(Frame), NEW i, NEW strict, NEW A
  PROVE  BeforeFrom(q, Len(q) + 1, i, strict, A) = A
<1>1. Len(q) \in Nat
  OBVIOUS
<1>2. \A m \in 1..Len(q) : ~(m >= Len(q) + 1)
  BY <1>1
<1>3. QED
  BY <1>2 DEF BeforeFrom

LEMMA OneBack ==
  ASSUME NEW q \in Seq(Frame), NEW i, NEW strict, NEW A, NEW n \in 1..Len(q)
  PROVE  BeforeFrom(q, n, i, strict, A)
           = Before1(q[n], i, strict, BeforeFrom(q, n + 1, i, strict, A))
<1> DEFINE rest == BeforeFrom(q, n + 1, i, strict, A)
<1>0. Len(q) \in Nat /\ n \in Nat /\ n \in 1..Len(q)
  OBVIOUS
<1>1. \A m \in 1..Len(q) : m >= n <=> (m = n \/ m >= n + 1)
  BY <1>0
<1>2. CASE ~Stops(q[n], i)
  <2>1. \A m \in 1..Len(q) : m >= n /\ Stops(q[m], i) <=> m >= n + 1 /\ Stops(q[m], i)
    BY <1>1, <1>2
  <2>2. \A m \in 1..Len(q) : m >= n /\ Absolves(q[m], i, strict) <=> m >= n + 1 /\ Absolves(q[m], i, strict)
    BY <1>2, <1>1, Absolving
  <2>3. \A m \in 1..Len(q) : (\A k \in 1..(m - 1) : k >= n => ~Stops(q[k], i))
                              <=> (\A k \in 1..(m - 1) : k >= n + 1 => ~Stops(q[k], i))
    <3>1. \A m \in 1..Len(q) : \A k \in 1..(m - 1) : k \in 1..Len(q)
      BY <1>0
    <3>2. QED
      BY <2>1, <3>1
  <2>4. (\A m \in 1..Len(q) : m >= n => ~Stops(q[m], i)) <=> (\A m \in 1..Len(q) : m >= n + 1 => ~Stops(q[m], i))
    BY <2>1
  <2>5. \A v, m : (/\ m \in 1..Len(q) /\ m >= n /\ Stops(q[m], i) /\ q[m].reason = "reassert"
                   /\ \A k \in 1..(m - 1) : k >= n => ~Stops(q[k], i))
              <=> (/\ m \in 1..Len(q) /\ m >= n + 1 /\ Stops(q[m], i) /\ q[m].reason = "reassert"
                   /\ \A k \in 1..(m - 1) : k >= n + 1 => ~Stops(q[k], i))
    BY <2>1, <2>3
  <2>6. BeforeFrom(q, n, i, strict, A) = rest
    BY <2>2, <2>4, <2>5 DEF BeforeFrom
  <2>7. QED
    BY <1>2, <2>6 DEF Before1
<1>3. CASE Stops(q[n], i)
  <2>0. n >= n /\ ~(n >= n + 1)
    BY <1>0
  <2>1. "any" \in rest <=> "any" \in A \/ \E m \in 1..Len(q) : m >= n + 1 /\ Absolves(q[m], i, strict)
    BY Absolving DEF BeforeFrom
  <2>2. ("any" \in rest \/ Absolves(q[n], i, strict))
          <=> "any" \in A \/ \E m \in 1..Len(q) : m >= n /\ Absolves(q[m], i, strict)
    BY <1>1, <2>1
  <2>3. ~\A m \in 1..Len(q) : m >= n => ~Stops(q[m], i)
    BY <1>0, <1>3, <2>0
  <2>4. \A k \in 1..(n - 1) : ~(k >= n)
    BY <1>0
  <2>5. \A m \in 1..Len(q) : m >= n /\ m # n => n \in 1..(m - 1)
    BY <1>0
  <2>6. \A m \in 1..Len(q) :
           /\ m >= n /\ Stops(q[m], i) /\ q[m].reason = "reassert"
           /\ \A k \in 1..(m - 1) : k >= n => ~Stops(q[k], i)
           <=> m = n /\ q[n].reason = "reassert"
    BY <1>0, <1>3, <2>0, <2>4, <2>5
  <2>7. \A v : (\A m \in 1..Len(q) :
           /\ m >= n /\ Stops(q[m], i) /\ q[m].reason = "reassert"
           /\ \A k \in 1..(m - 1) : k >= n => ~Stops(q[k], i)
           => v = q[m].v) <=> (q[n].reason = "reassert" => v = q[n].v)
    BY <2>6, <1>0
  <2>8. {v \in Value : \A m \in 1..Len(q) :
           /\ m >= n /\ Stops(q[m], i) /\ q[m].reason = "reassert"
           /\ \A k \in 1..(m - 1) : k >= n => ~Stops(q[k], i)
           => v = q[m].v} = {v \in Value : q[n].reason = "reassert" => v = q[n].v}
    BY <2>7
  <2>9. CASE "any" \in A \/ \E m \in 1..Len(q) : m >= n /\ Absolves(q[m], i, strict)
    <3>1. BeforeFrom(q, n, i, strict, A) = Any
      BY <2>3, <2>9 DEF BeforeFrom
    <3>2. Before1(q[n], i, strict, rest) = Any
      BY <1>3, <2>2, <2>9 DEF Before1
    <3>3. QED
      BY <3>1, <3>2
  <2>10. CASE ~("any" \in A \/ \E m \in 1..Len(q) : m >= n /\ Absolves(q[m], i, strict))
    <3>1. BeforeFrom(q, n, i, strict, A)
            = {v \in Value : \A m \in 1..Len(q) :
                 /\ m >= n /\ Stops(q[m], i) /\ q[m].reason = "reassert"
                 /\ \A k \in 1..(m - 1) : k >= n => ~Stops(q[k], i)
                 => v = q[m].v}
      BY <2>3, <2>10 DEF BeforeFrom
    <3>2. Before1(q[n], i, strict, rest) = {v \in Value : q[n].reason = "reassert" => v = q[n].v}
      BY <1>3, <2>2, <2>10 DEF Before1
    <3>3. QED
      BY <2>8, <3>1, <3>2
  <2>11. QED
    BY <2>9, <2>10
<1>4. QED
  BY <1>2, <1>3

LEMMA OfTail ==
  ASSUME NEW q \in Seq(Frame), q # << >>, NEW i, NEW strict, NEW A, NEW n \in 1..Len(q)
  PROVE  BeforeFrom(Tail(q), n, i, strict, A) = BeforeFrom(q, n + 1, i, strict, A)
<1> DEFINE t == Tail(q)
<1>1. /\ Len(q) \in Nat /\ Len(q) > 0 /\ Len(t) = Len(q) - 1
      /\ \A m \in 1..Len(t) : t[m] = q[m + 1] /\ m + 1 \in 1..Len(q) /\ m \in Nat
  OBVIOUS
<1>2. \A m \in 1..Len(q) : m >= n + 1 => m - 1 \in 1..Len(t) /\ m - 1 >= n /\ t[m - 1] = q[m]
  <2>1. SUFFICES ASSUME NEW m \in 1..Len(q), m >= n + 1
                 PROVE  m - 1 \in 1..Len(t) /\ m - 1 >= n /\ t[m - 1] = q[m]
    OBVIOUS
  <2>2. m - 1 \in 1..Len(t) /\ m - 1 >= n /\ (m - 1) + 1 = m
    BY <1>1, <2>1
  <2>3. QED
    BY <1>1, <2>2
<1>3. \A m \in 1..Len(t) : m >= n => m + 1 >= n + 1
  BY <1>1
<1>4. (\A m \in 1..Len(t) : m >= n => ~Stops(t[m], i))
        <=> (\A m \in 1..Len(q) : m >= n + 1 => ~Stops(q[m], i))
  BY <1>1, <1>2, <1>3
<1>5. (\E m \in 1..Len(t) : m >= n /\ Absolves(t[m], i, strict))
        <=> (\E m \in 1..Len(q) : m >= n + 1 /\ Absolves(q[m], i, strict))
  BY <1>1, <1>2, <1>3
<1> DEFINE
      FirstT(m) == /\ m >= n /\ Stops(t[m], i) /\ t[m].reason = "reassert"
                   /\ \A k \in 1..(m - 1) : k >= n => ~Stops(t[k], i)
      FirstQ(m) == /\ m >= n + 1 /\ Stops(q[m], i) /\ q[m].reason = "reassert"
                   /\ \A k \in 1..(m - 1) : k >= n + 1 => ~Stops(q[k], i)
<1>6. ASSUME NEW m \in 1..Len(t)
      PROVE  (\A k \in 1..(m - 1) : k >= n => ~Stops(t[k], i))
               <=> (\A k \in 1..((m + 1) - 1) : k >= n + 1 => ~Stops(q[k], i))
  <2>1. ASSUME NEW k \in 1..((m + 1) - 1), k >= n + 1
        PROVE  k - 1 \in 1..(m - 1) /\ k - 1 >= n /\ t[k - 1] = q[k]
    <3>1. k \in 1..Len(q) /\ m \in Nat /\ k \in Nat /\ n \in Nat
      BY <1>1
    <3>2. k - 1 \in 1..(m - 1)
      BY <2>1, <3>1
    <3>3. QED
      BY <1>2, <2>1, <3>1, <3>2
  <2>2. ASSUME NEW k \in 1..(m - 1), k >= n
        PROVE  k + 1 \in 1..((m + 1) - 1) /\ k + 1 >= n + 1 /\ t[k] = q[k + 1]
    <3>1. k \in 1..Len(t) /\ m \in Nat /\ k \in Nat /\ n \in Nat
      BY <1>1
    <3>2. QED
      BY <1>1, <2>2, <3>1
  <2>3. QED
    BY <2>1, <2>2
<1>7. \A m \in 1..Len(t) : FirstT(m) <=> FirstQ(m + 1)
  BY <1>1, <1>3, <1>6
<1>8. \A m \in 1..Len(q) : FirstQ(m) => FirstT(m - 1) /\ m - 1 \in 1..Len(t) /\ t[m - 1] = q[m]
  <2>1. SUFFICES ASSUME NEW m \in 1..Len(q), FirstQ(m)
                 PROVE  FirstT(m - 1) /\ m - 1 \in 1..Len(t) /\ t[m - 1] = q[m]
    OBVIOUS
  <2>2. m - 1 \in 1..Len(t) /\ t[m - 1] = q[m] /\ (m - 1) + 1 = m
    BY <1>2, <2>1
  <2> HIDE DEF FirstT, FirstQ
  <2>3. FirstT(m - 1)
    BY <1>7, <2>1, <2>2
  <2>4. QED
    BY <2>2, <2>3
<1>9. \A v : (\A m \in 1..Len(t) : FirstT(m) => v = t[m].v) <=> (\A m \in 1..Len(q) : FirstQ(m) => v = q[m].v)
  <2> HIDE DEF FirstT, FirstQ
  <2>1. QED
    BY <1>1, <1>7, <1>8
<1>10. BeforeFrom(t, n, i, strict, A)
         = IF \A m \in 1..Len(t) : m >= n => ~Stops(t[m], i) THEN A
           ELSE IF "any" \in A \/ \E m \in 1..Len(t) : m >= n /\ Absolves(t[m], i, strict) THEN Any
           ELSE {v \in Value : \A m \in 1..Len(t) : FirstT(m) => v = t[m].v}
  BY DEF BeforeFrom
<1>11. BeforeFrom(q, n + 1, i, strict, A)
         = IF \A m \in 1..Len(q) : m >= n + 1 => ~Stops(q[m], i) THEN A
           ELSE IF "any" \in A \/ \E m \in 1..Len(q) : m >= n + 1 /\ Absolves(q[m], i, strict) THEN Any
           ELSE {v \in Value : \A m \in 1..Len(q) : FirstQ(m) => v = q[m].v}
  BY DEF BeforeFrom
<1> HIDE DEF FirstT, FirstQ
<1>12. {v \in Value : \A m \in 1..Len(t) : FirstT(m) => v = t[m].v}
         = {v \in Value : \A m \in 1..Len(q) : FirstQ(m) => v = q[m].v}
  BY <1>9
<1>13. CASE \A m \in 1..Len(t) : m >= n => ~Stops(t[m], i)
  <2>1. BeforeFrom(t, n, i, strict, A) = A
    BY <1>10, <1>13
  <2>2. BeforeFrom(q, n + 1, i, strict, A) = A
    BY <1>4, <1>11, <1>13
  <2>3. QED
    BY <2>1, <2>2
<1>14. CASE /\ ~\A m \in 1..Len(t) : m >= n => ~Stops(t[m], i)
            /\ "any" \in A \/ \E m \in 1..Len(t) : m >= n /\ Absolves(t[m], i, strict)
  <2>1. BeforeFrom(t, n, i, strict, A) = Any
    BY <1>10, <1>14
  <2>2. BeforeFrom(q, n + 1, i, strict, A) = Any
    BY <1>4, <1>5, <1>11, <1>14
  <2>3. QED
    BY <2>1, <2>2
<1>15. CASE /\ ~\A m \in 1..Len(t) : m >= n => ~Stops(t[m], i)
            /\ ~("any" \in A \/ \E m \in 1..Len(t) : m >= n /\ Absolves(t[m], i, strict))
  <2>1. BeforeFrom(t, n, i, strict, A) = {v \in Value : \A m \in 1..Len(t) : FirstT(m) => v = t[m].v}
    BY <1>10, <1>15
  <2>2. BeforeFrom(q, n + 1, i, strict, A) = {v \in Value : \A m \in 1..Len(q) : FirstQ(m) => v = q[m].v}
    BY <1>4, <1>5, <1>11, <1>15
  <2>3. QED
    BY <1>12, <2>1, <2>2
<1>16. QED
  BY <1>13, <1>14, <1>15

LEMMA OfAppend ==
  ASSUME NEW q \in Seq(Frame), NEW f \in Frame, NEW i, NEW strict, NEW A, NEW n \in 1..(Len(q) + 1)
  PROVE  BeforeFrom(Append(q, f), n, i, strict, A) = BeforeFrom(q, n, i, strict, Before1(f, i, strict, A))
<1> DEFINE g == Append(q, f)
           B == Before1(f, i, strict, A)
           L == Len(q)
           MuteG == \A m \in 1..Len(g) : m >= n => ~Stops(g[m], i)
           MuteQ == \A m \in 1..L : m >= n => ~Stops(q[m], i)
           FreeG == "any" \in A \/ \E m \in 1..Len(g) : m >= n /\ Absolves(g[m], i, strict)
           FreeQ == "any" \in B \/ \E m \in 1..L : m >= n /\ Absolves(q[m], i, strict)
           FirstG(m) == /\ m >= n /\ Stops(g[m], i) /\ g[m].reason = "reassert"
                        /\ \A k \in 1..(m - 1) : k >= n => ~Stops(g[k], i)
           FirstQ(m) == /\ m >= n /\ Stops(q[m], i) /\ q[m].reason = "reassert"
                        /\ \A k \in 1..(m - 1) : k >= n => ~Stops(q[k], i)
<1>1. /\ L \in Nat /\ Len(g) = L + 1 /\ n \in Nat /\ L + 1 >= n
      /\ g[L + 1] = f /\ \A m \in 1..L : g[m] = q[m]
      /\ \A m : m \in 1..Len(g) <=> m \in 1..L \/ m = L + 1
  OBVIOUS
<1>2. BeforeFrom(g, n, i, strict, A)
        = IF MuteG THEN A ELSE IF FreeG THEN Any
          ELSE {v \in Value : \A m \in 1..Len(g) : FirstG(m) => v = g[m].v}
  BY DEF BeforeFrom
<1>3. BeforeFrom(q, n, i, strict, B)
        = IF MuteQ THEN B ELSE IF FreeQ THEN Any
          ELSE {v \in Value : \A m \in 1..L : FirstQ(m) => v = q[m].v}
  BY DEF BeforeFrom
<1>4. MuteG <=> MuteQ /\ ~Stops(f, i)
  BY <1>1
<1>5. FreeG <=> "any" \in A \/ Absolves(f, i, strict) \/ \E m \in 1..L : m >= n /\ Absolves(q[m], i, strict)
  BY <1>1
<1>6. "any" \in B <=> "any" \in A \/ Absolves(f, i, strict)
  BY Absolving DEF Before1
<1>7. FreeG <=> FreeQ
  BY <1>5, <1>6
<1>8. MuteQ => ~\E m \in 1..L : m >= n /\ Absolves(q[m], i, strict)
  BY Absolving
<1>9. \A m \in 1..L : FirstG(m) <=> FirstQ(m)
  <2>1. \A m \in 1..L : \A k \in 1..(m - 1) : k \in 1..L
    BY <1>1
  <2>2. QED
    BY <1>1, <2>1
<1>10. FirstG(L + 1) <=> Stops(f, i) /\ f.reason = "reassert" /\ MuteQ
  <2>1. (L + 1) - 1 = L
    BY <1>1
  <2>2. QED
    BY <1>1, <2>1
<1> HIDE DEF FirstG, FirstQ
<1>11. CASE MuteG
  <2>1. B = A
    BY <1>4, <1>11 DEF Before1
  <2>2. QED
    BY <1>2, <1>3, <1>4, <1>11, <2>1
<1>12. CASE MuteQ /\ Stops(f, i)
  <2>1. CASE FreeG
    <3>1. B = Any
      BY <1>5, <1>8, <1>12, <2>1 DEF Before1
    <3>2. QED
      BY <1>2, <1>3, <1>4, <1>12, <2>1, <3>1
  <2>2. CASE ~FreeG
    <3>1. B = {v \in Value : f.reason = "reassert" => v = f.v}
      BY <1>5, <1>12, <2>2 DEF Before1
    <3>2. \A m \in 1..L : ~FirstQ(m)
      BY <1>12 DEF FirstQ
    <3>3. \A v : (\A m \in 1..Len(g) : FirstG(m) => v = g[m].v) <=> (f.reason = "reassert" => v = f.v)
      BY <1>1, <1>9, <1>10, <1>12, <3>2
    <3>4. {v \in Value : \A m \in 1..Len(g) : FirstG(m) => v = g[m].v} = B
      BY <3>1, <3>3
    <3>5. BeforeFrom(g, n, i, strict, A) = {v \in Value : \A m \in 1..Len(g) : FirstG(m) => v = g[m].v}
      BY <1>2, <1>4, <1>12, <2>2
    <3>6. BeforeFrom(q, n, i, strict, B) = B
      BY <1>3, <1>12
    <3>7. QED
      BY <3>4, <3>5, <3>6
  <2>3. QED
    BY <2>1, <2>2
<1>13. CASE ~MuteQ
  <2>1. \A v : (\A m \in 1..Len(g) : FirstG(m) => v = g[m].v) <=> (\A m \in 1..L : FirstQ(m) => v = q[m].v)
    BY <1>1, <1>9, <1>10, <1>13
  <2>2. {v \in Value : \A m \in 1..Len(g) : FirstG(m) => v = g[m].v}
          = {v \in Value : \A m \in 1..L : FirstQ(m) => v = q[m].v}
    BY <2>1
  <2>3. CASE FreeG
    BY <1>2, <1>3, <1>4, <1>7, <1>13, <2>3
  <2>4. CASE ~FreeG
    <3>1. BeforeFrom(g, n, i, strict, A) = {v \in Value : \A m \in 1..Len(g) : FirstG(m) => v = g[m].v}
      BY <1>2, <1>4, <1>13, <2>4
    <3>2. BeforeFrom(q, n, i, strict, B) = {v \in Value : \A m \in 1..L : FirstQ(m) => v = q[m].v}
      BY <1>3, <1>7, <1>13, <2>4
    <3>3. QED
      BY <2>2, <3>1, <3>2
  <2>5. QED
    BY <2>3, <2>4
<1>14. QED
  BY <1>4, <1>11, <1>12, <1>13

----
(* One frame at either end of a queue. *)

LEMMA Atomic ==
  ASSUME NEW i, NEW strict, NEW A
  PROVE  BeforeFrom(<< >>, 1, i, strict, A) = A /\ Sound(<< >>, i, strict, A) /\ Before(<< >>, i, strict, A) = A
<1>1. 1..Len(<< >>) = {}
  OBVIOUS
<1>2. QED
  BY <1>1 DEF Sound, Before, BeforeFrom

LEMMA AddedLast ==
  ASSUME NEW q \in Seq(Frame), NEW f \in Frame, NEW i, NEW strict, NEW A
  PROVE  /\ Before(Append(q, f), i, strict, A) = Before(q, i, strict, Before1(f, i, strict, A))
         /\ Sound(q, i, strict, Before1(f, i, strict, A)) /\ Leaves(f, i, A)
              => Sound(Append(q, f), i, strict, A)
<1> DEFINE g == Append(q, f)
<1>1. /\ Len(q) \in Nat /\ Len(g) = Len(q) + 1 /\ g \in Seq(Frame)
      /\ g[Len(q) + 1] = f /\ \A m \in 1..Len(q) : g[m] = q[m]
      /\ \A m \in 1..Len(g) : m \in 1..Len(q) \/ m = Len(g)
      /\ \A m \in 1..Len(q) : m + 1 \in 1..(Len(q) + 1)
      /\ 1 \in 1..(Len(q) + 1)
  OBVIOUS
<1>2. Before(g, i, strict, A) = Before(q, i, strict, Before1(f, i, strict, A))
  BY <1>1, OfAppend DEF Before
<1>3. ASSUME Sound(q, i, strict, Before1(f, i, strict, A)), Leaves(f, i, A)
      PROVE  Sound(g, i, strict, A)
  <2>1. SUFFICES ASSUME NEW n \in 1..Len(g)
                 PROVE  Leaves(g[n], i, BeforeFrom(g, n + 1, i, strict, A))
    BY DEF Sound
  <2>2. CASE n \in 1..Len(q)
    <3>1. BeforeFrom(g, n + 1, i, strict, A) = BeforeFrom(q, n + 1, i, strict, Before1(f, i, strict, A))
      BY <1>1, <2>2, OfAppend
    <3>2. QED
      BY <1>1, <1>3, <2>2, <3>1 DEF Sound
  <2>3. CASE n = Len(g)
    <3>1. BeforeFrom(g, Len(g) + 1, i, strict, A) = A
      <4> HIDE DEF g
      <4>1. QED
        BY <1>1, AtEnd
    <3>2. QED
      BY <1>1, <1>3, <2>3, <3>1
  <2>4. QED
    BY <1>1, <2>2, <2>3
<1>4. QED
  BY <1>2, <1>3

LEMMA TakenFirst ==
  ASSUME NEW q \in Seq(Frame), q # << >>, NEW i, NEW strict, NEW A
  PROVE  /\ Before(q, i, strict, A) = Before1(Head(q), i, strict, Before(Tail(q), i, strict, A))
         /\ Sound(q, i, strict, A) => Sound(Tail(q), i, strict, A)
         /\ Sound(q, i, strict, A) => Leaves(Head(q), i, Before(Tail(q), i, strict, A))
<1> DEFINE t == Tail(q)
<1>1. /\ Len(q) \in Nat /\ Len(q) > 0 /\ Len(t) = Len(q) - 1 /\ t \in Seq(Frame)
      /\ Head(q) = q[1] /\ 1 \in 1..Len(q)
      /\ \A m \in 1..Len(t) : t[m] = q[m + 1] /\ m + 1 \in 1..Len(q)
      /\ 1 + 1 = 2
  OBVIOUS
<1>2. BeforeFrom(t, 1, i, strict, A) = BeforeFrom(q, 2, i, strict, A)
  BY <1>1, OfTail
<1>3. Before(q, i, strict, A) = Before1(Head(q), i, strict, Before(t, i, strict, A))
  BY <1>1, <1>2, OneBack DEF Before
<1>4. ASSUME Sound(q, i, strict, A)
      PROVE  Sound(t, i, strict, A) /\ Leaves(Head(q), i, Before(t, i, strict, A))
  <2>1. Leaves(Head(q), i, Before(t, i, strict, A))
    BY <1>1, <1>2, <1>4 DEF Sound, Before
  <2>2. ASSUME NEW n \in 1..Len(t)
        PROVE  Leaves(t[n], i, BeforeFrom(t, n + 1, i, strict, A))
    <3>1. n + 1 \in 1..Len(q) /\ t[n] = q[n + 1]
      BY <1>1
    <3>2. BeforeFrom(t, n + 1, i, strict, A) = BeforeFrom(q, (n + 1) + 1, i, strict, A)
      BY <3>1, OfTail
    <3>3. QED
      BY <1>4, <3>1, <3>2 DEF Sound
  <2>3. QED
    BY <2>1, <2>2 DEF Sound
<1>5. QED
  BY <1>3, <1>4

----
(* What does not depend on the order. *)

LEMMA Within ==
  ASSUME NEW q, NEW n, NEW i, NEW strict, NEW A \in SUBSET Any
  PROVE  BeforeFrom(q, n, i, strict, A) \in SUBSET Any
BY DEF BeforeFrom, Any

LEMMA More ==
  ASSUME NEW q, NEW i, NEW strict, NEW A \in SUBSET Any, NEW B \in SUBSET Any, A \subseteq B
  PROVE  /\ \A n : BeforeFrom(q, n, i, strict, A) \subseteq BeforeFrom(q, n, i, strict, B)
         /\ Before(q, i, strict, A) \subseteq Before(q, i, strict, B)
         /\ Sound(q, i, strict, A) => Sound(q, i, strict, B)
<1>1. ASSUME NEW n
      PROVE  BeforeFrom(q, n, i, strict, A) \subseteq BeforeFrom(q, n, i, strict, B)
  <2>1. CASE \A m \in 1..Len(q) : m >= n => ~Stops(q[m], i)
    BY <2>1 DEF BeforeFrom
  <2>2. CASE /\ ~\A m \in 1..Len(q) : m >= n => ~Stops(q[m], i)
             /\ "any" \in B \/ \E m \in 1..Len(q) : m >= n /\ Absolves(q[m], i, strict)
    <3>1. BeforeFrom(q, n, i, strict, B) = Any
      BY <2>2 DEF BeforeFrom
    <3>2. QED
      BY <3>1, Within
  <2>3. CASE /\ ~\A m \in 1..Len(q) : m >= n => ~Stops(q[m], i)
             /\ ~("any" \in B \/ \E m \in 1..Len(q) : m >= n /\ Absolves(q[m], i, strict))
    <3>1. ~("any" \in A \/ \E m \in 1..Len(q) : m >= n /\ Absolves(q[m], i, strict))
      BY <2>3
    <3> DEFINE Rest == {v \in Value : \A m \in 1..Len(q) :
                          /\ m >= n /\ Stops(q[m], i) /\ q[m].reason = "reassert"
                          /\ \A k \in 1..(m - 1) : k >= n => ~Stops(q[k], i)
                          => v = q[m].v}
    <3>2. BeforeFrom(q, n, i, strict, A) = Rest
      BY <2>3, <3>1 DEF BeforeFrom
    <3>3. BeforeFrom(q, n, i, strict, B) = Rest
      BY <2>3 DEF BeforeFrom
    <3>4. QED
      BY <3>2, <3>3
  <2>4. QED
    BY <2>1, <2>2, <2>3
<1>2. \A f : \A C, D : C \subseteq D /\ Leaves(f, i, C) => Leaves(f, i, D)
  BY DEF Leaves
<1>3. Sound(q, i, strict, A) => Sound(q, i, strict, B)
  BY <1>1, <1>2 DEF Sound
<1>4. QED
  BY <1>1, <1>3 DEF Before

LEMMA FrameLeaves ==
  ASSUME NEW f \in Frame, NEW i \in Item
  PROVE  /\ Leaves(f, i, Any)
         /\ f.t = "edge" => f \in Edge /\ f.i \in Item /\ f.v \in Value /\ f.reason \in Reason
         /\ f.t = "snapshot" => f \in Snapshot /\ f.v[i] \in Value
         /\ f.t = "hb" => f \in Hb
         /\ f.t \in {"edge", "snapshot", "hb", "resync", "hoy"}
<1>1. /\ f.t = "edge" => f \in Edge
      /\ f.t = "snapshot" => f \in Snapshot
      /\ f.t = "hb" => f \in Hb
      /\ f.t \in {"edge", "snapshot", "hb", "resync", "hoy"}
  BY DEF Frame, Edge, Hb, Snapshot, Resync, Hoy
<1>2. f.t = "edge" => f.i \in Item /\ f.v \in Value /\ f.reason \in Reason
  BY <1>1 DEF Edge
<1>3. f.t = "snapshot" => f.v[i] \in Value
  BY <1>1 DEF Snapshot
<1>4. Leaves(f, i, Any)
  BY <1>2, <1>3 DEF Leaves, About, Any, Value
<1>5. QED
  BY <1>1, <1>2, <1>3, <1>4

LEMMA FromAny ==
  ASSUME NEW q \in Seq(Frame), NEW i \in Item, NEW strict
  PROVE  /\ \A n : BeforeFrom(q, n, i, strict, Any) = Any
         /\ Before(q, i, strict, Any) = Any
         /\ Sound(q, i, strict, Any)
<1>1. \A n : BeforeFrom(q, n, i, strict, Any) = Any
  BY Absolving DEF BeforeFrom
<1>2. \A n \in 1..Len(q) : q[n] \in Frame
  OBVIOUS
<1>3. QED
  BY <1>1, <1>2, FrameLeaves DEF Before, Sound

\* Of a value, a frame that stops absolves.
LEMMA OfAValue ==
  ASSUME NEW q \in Seq(Frame), NEW i, NEW A \in SUBSET Any
  PROVE  /\ \A n : A \subseteq BeforeFrom(q, n, i, FALSE, A)
         /\ A \subseteq Before(q, i, FALSE, A)
<1>1. \A f : Stops(f, i) => Absolves(f, i, FALSE)
  BY DEF Stops, Absolves
<1>2. \A n : A \subseteq BeforeFrom(q, n, i, FALSE, A)
  BY <1>1 DEF BeforeFrom
<1>3. QED
  BY <1>2 DEF Before

\* No frame of q is about i, or absolves it with a value of its own.
Silent(q, i) == \A n \in 1..Len(q) : ~About(q[n], i)
Tame(q, i) ==
  \A n \in 1..Len(q) : /\ ~About(q[n], i) /\ q[n].t # "snapshot"
                       /\ q[n].t = "hb" => Ip[i] \in q[n].alive

LEMMA OfASilence ==
  ASSUME NEW q \in Seq(Frame), NEW i, NEW strict, NEW A \in SUBSET Any
  PROVE  /\ Silent(q, i) => A \subseteq Before(q, i, strict, A)
         /\ Tame(q, i) => Sound(q, i, strict, A) /\ A \subseteq Before(q, i, strict, A)
<1>1. \A f : ~About(f, i) /\ Stops(f, i) => Absolves(f, i, strict)
  BY DEF Stops, Absolves
<1>2. ASSUME Silent(q, i) PROVE A \subseteq Before(q, i, strict, A)
  BY <1>1, <1>2 DEF Before, BeforeFrom, Silent
<1>3. ASSUME Tame(q, i) PROVE Sound(q, i, strict, A) /\ Silent(q, i)
  BY <1>3 DEF Tame, Silent, Sound, Leaves
<1>4. QED
  BY <1>2, <1>3

\* Of a value, a frame about it lets what comes before be anything.
LEMMA OfAnEdge ==
  ASSUME NEW q \in Seq(Frame), NEW i, NEW A, ~Silent(q, i)
  PROVE  Before(q, i, FALSE, A) = Any
<1>1. PICK n \in 1..Len(q) : About(q[n], i)
  BY DEF Silent
<1>2. n >= 1 /\ Stops(q[n], i) /\ Absolves(q[n], i, FALSE)
  BY <1>1 DEF Stops, Absolves
<1>3. QED
  BY <1>2 DEF Before, BeforeFrom

\* The entries of the stream.
LEMMA OfEntries ==
  ASSUME NEW q \in Seq(Edge), NEW i \in Item
  PROVE  q \in Seq(Frame) /\ Sound(q, i, FALSE, Value)
<1>1. q \in Seq(Frame)
  BY DEF Frame
<1>2. \A n \in 1..Len(q) : q[n] \in Edge
  OBVIOUS
<1>3. \A n \in 1..Len(q) : q[n].t = "edge" /\ q[n].v \in Value
  BY <1>2 DEF Edge
<1>4. Value \in SUBSET Any
  BY DEF Any
<1>5. \A n : Value \subseteq BeforeFrom(q, n, i, FALSE, Value)
  BY <1>1, <1>4, OfAValue
<1>6. QED
  BY <1>1, <1>3, <1>5 DEF Sound, Leaves

LEMMA OfOtherEntries ==
  ASSUME NEW q \in Seq(Edge), NEW i, Silent(q, i), NEW strict, NEW A
  PROVE  Before(q, i, strict, A) = A /\ Sound(q, i, strict, A)
<1>1. \A n \in 1..Len(q) : q[n] \in Edge
  OBVIOUS
<1>2. \A n \in 1..Len(q) : q[n].t = "edge"
  BY <1>1 DEF Edge
<1>3. \A n \in 1..Len(q) : ~Stops(q[n], i)
  BY <1>2 DEF Silent, Stops
<1>4. QED
  BY <1>2, <1>3 DEF Before, BeforeFrom, Sound, Leaves, Silent

----
(* From the daemon to a screen: what XREAD will return, the queue of the   *)
(* browser and what was sent, before which the screen shows what it shows. *)

Shown(u, q, w, i, strict, A) == Before(w, i, strict, Before(q, i, strict, Before(u, i, strict, A)))
Chain(u, q, w, i, strict, A) ==
  /\ Sound(u, i, strict, A)
  /\ Sound(q, i, strict, Before(u, i, strict, A))
  /\ Sound(w, i, strict, Before(q, i, strict, Before(u, i, strict, A)))

LEMMA ChainMore ==
  ASSUME NEW u, NEW q, NEW w, NEW i, NEW strict,
         NEW A \in SUBSET Any, NEW B \in SUBSET Any, A \subseteq B
  PROVE  /\ Chain(u, q, w, i, strict, A) => Chain(u, q, w, i, strict, B)
         /\ Before(u, i, strict, A) \subseteq Before(u, i, strict, B)
         /\ Shown(u, q, w, i, strict, A) \subseteq Shown(u, q, w, i, strict, B)
<1> DEFINE A1 == Before(u, i, strict, A)
           B1 == Before(u, i, strict, B)
           A2 == Before(q, i, strict, A1)
           B2 == Before(q, i, strict, B1)
<1>1. A1 \in SUBSET Any /\ B1 \in SUBSET Any /\ A1 \subseteq B1
  BY More, Within DEF Before
<1>2. Sound(u, i, strict, A) => Sound(u, i, strict, B)
  BY More
<1> HIDE DEF A1, B1
<1>3. /\ A2 \in SUBSET Any /\ B2 \in SUBSET Any /\ A2 \subseteq B2
      /\ Sound(q, i, strict, A1) => Sound(q, i, strict, B1)
  BY <1>1, More, Within DEF Before
<1> HIDE DEF A2, B2
<1>4. /\ Before(w, i, strict, A2) \subseteq Before(w, i, strict, B2)
      /\ Sound(w, i, strict, A2) => Sound(w, i, strict, B2)
  BY <1>3, More
<1>5. QED
  BY <1>1, <1>2, <1>3, <1>4 DEF A1, B1, A2, B2, Chain, Shown

\* The stream sends the head of the queue.
LEMMA ChainSent ==
  ASSUME NEW u, NEW q \in Seq(Frame), NEW w \in Seq(Frame), q # << >>, NEW i, NEW strict, NEW A
  PROVE  /\ Chain(u, q, w, i, strict, A) => Chain(u, Tail(q), Append(w, Head(q)), i, strict, A)
         /\ Shown(u, Tail(q), Append(w, Head(q)), i, strict, A) = Shown(u, q, w, i, strict, A)
<1> DEFINE A1 == Before(u, i, strict, A)
<1> HIDE DEF A1
<1>1. Head(q) \in Frame
  OBVIOUS
<1>2. /\ Before(q, i, strict, A1) = Before1(Head(q), i, strict, Before(Tail(q), i, strict, A1))
      /\ Sound(q, i, strict, A1) => Sound(Tail(q), i, strict, A1)
      /\ Sound(q, i, strict, A1) => Leaves(Head(q), i, Before(Tail(q), i, strict, A1))
  BY TakenFirst
<1> DEFINE A2 == Before(Tail(q), i, strict, A1)
<1> HIDE DEF A2
<1>3. /\ Before(Append(w, Head(q)), i, strict, A2) = Before(w, i, strict, Before1(Head(q), i, strict, A2))
      /\ Sound(w, i, strict, Before1(Head(q), i, strict, A2)) /\ Leaves(Head(q), i, A2)
           => Sound(Append(w, Head(q)), i, strict, A2)
  BY <1>1, AddedLast
<1>4. QED
  BY <1>2, <1>3 DEF A1, A2, Chain, Shown

\* XREAD returns an entry, and it is queued.
LEMMA ChainRelayed ==
  ASSUME NEW u \in Seq(Frame), NEW q \in Seq(Frame), NEW w, u # << >>, NEW i, NEW strict, NEW A
  PROVE  /\ Chain(u, q, w, i, strict, A) => Chain(Tail(u), Append(q, Head(u)), w, i, strict, A)
         /\ Shown(Tail(u), Append(q, Head(u)), w, i, strict, A) = Shown(u, q, w, i, strict, A)
<1>1. Head(u) \in Frame
  OBVIOUS
<1>2. /\ Before(u, i, strict, A) = Before1(Head(u), i, strict, Before(Tail(u), i, strict, A))
      /\ Sound(u, i, strict, A) => Sound(Tail(u), i, strict, A)
      /\ Sound(u, i, strict, A) => Leaves(Head(u), i, Before(Tail(u), i, strict, A))
  BY TakenFirst
<1> DEFINE A2 == Before(Tail(u), i, strict, A)
<1> HIDE DEF A2
<1>3. /\ Before(Append(q, Head(u)), i, strict, A2) = Before(q, i, strict, Before1(Head(u), i, strict, A2))
      /\ Sound(q, i, strict, Before1(Head(u), i, strict, A2)) /\ Leaves(Head(u), i, A2)
           => Sound(Append(q, Head(u)), i, strict, A2)
  BY <1>1, AddedLast
<1>4. QED
  BY <1>2, <1>3 DEF A2, Chain, Shown

\* A frame that says nothing false of the item is queued.
LEMMA ChainQueued ==
  ASSUME NEW u, NEW q \in Seq(Frame), NEW w, NEW f \in Frame, NEW i, NEW strict, NEW A,
         ~Stops(f, i), Leaves(f, i, Before(u, i, strict, A))
  PROVE  /\ Chain(u, q, w, i, strict, A) => Chain(u, Append(q, f), w, i, strict, A)
         /\ Shown(u, Append(q, f), w, i, strict, A) = Shown(u, q, w, i, strict, A)
<1> DEFINE A1 == Before(u, i, strict, A)
<1> HIDE DEF A1
<1>1. Before1(f, i, strict, A1) = A1 /\ Leaves(f, i, A1)
  BY DEF Before1, A1
<1>2. /\ Before(Append(q, f), i, strict, A1) = Before(q, i, strict, Before1(f, i, strict, A1))
      /\ Sound(q, i, strict, Before1(f, i, strict, A1)) /\ Leaves(f, i, A1)
           => Sound(Append(q, f), i, strict, A1)
  BY AddedLast
<1>3. QED
  BY <1>1, <1>2 DEF A1, Chain, Shown

\* A frame that absolves is queued: what comes before may be anything.
LEMMA ChainAbsolved ==
  ASSUME NEW u, NEW q \in Seq(Frame), NEW w \in Seq(Frame), NEW f \in Frame,
         NEW i \in Item, NEW strict, NEW A,
         Absolves(f, i, strict), Sound(u, i, strict, A), Leaves(f, i, Before(u, i, strict, A))
  PROVE  /\ Chain(u, Append(q, f), w, i, strict, A)
         /\ Shown(u, Append(q, f), w, i, strict, A) = Any
<1> DEFINE A1 == Before(u, i, strict, A)
<1> HIDE DEF A1
<1>1. Before1(f, i, strict, A1) = Any /\ Leaves(f, i, A1)
  BY Absolving DEF Before1, A1
<1>2. /\ Before(Append(q, f), i, strict, A1) = Before(q, i, strict, Before1(f, i, strict, A1))
      /\ Sound(q, i, strict, Before1(f, i, strict, A1)) /\ Leaves(f, i, A1)
           => Sound(Append(q, f), i, strict, A1)
  BY AddedLast
<1>3. QED
  BY <1>1, <1>2, FromAny DEF A1, Chain, Shown

\* The queue overflows: the request to resync absolves everything.
LEMMA ChainOverflown ==
  ASSUME NEW u, NEW w \in Seq(Frame), NEW i \in Item, NEW strict, NEW A, Sound(u, i, strict, A)
  PROVE  /\ Chain(u, <<Resync>>, w, i, strict, A)
         /\ Shown(u, <<Resync>>, w, i, strict, A) = Any
<1>1. /\ << >> \in Seq(Frame) /\ Resync \in Frame /\ Append(<< >>, Resync) = <<Resync>>
      /\ Absolves(Resync, i, strict) /\ \A B : Leaves(Resync, i, B)
  BY DEF Frame, Resync, Absolves, Leaves, About
<1>2. /\ Chain(u, Append(<< >>, Resync), w, i, strict, A)
      /\ Shown(u, Append(<< >>, Resync), w, i, strict, A) = Any
  <2> DEFINE none == << >>
             all == Resync
  <2>1. none \in Seq(Frame) /\ all \in Frame /\ Absolves(all, i, strict) /\ \A B : Leaves(all, i, B)
    BY <1>1
  <2> HIDE DEF none, all
  <2>2. Chain(u, Append(none, all), w, i, strict, A) /\ Shown(u, Append(none, all), w, i, strict, A) = Any
    BY <2>1, ChainAbsolved
  <2>3. QED
    BY <2>2 DEF none, all
<1>3. QED
  BY <1>1, <1>2

\* The stream breaks, or nobody is there.
LEMMA ChainCut ==
  ASSUME NEW u, NEW i, NEW strict, NEW A, Sound(u, i, strict, A)
  PROVE  Chain(u, << >>, << >>, i, strict, A)
BY Atomic DEF Chain

\* The page takes a frame.
LEMMA ChainTaken ==
  ASSUME NEW u, NEW q, NEW w \in Seq(Frame), w # << >>, NEW i, NEW strict, NEW A
  PROVE  /\ Chain(u, q, w, i, strict, A) => Chain(u, q, Tail(w), i, strict, A)
         /\ Chain(u, q, w, i, strict, A) => Leaves(Head(w), i, Shown(u, q, Tail(w), i, strict, A))
         /\ Shown(u, q, w, i, strict, A) = Before1(Head(w), i, strict, Shown(u, q, Tail(w), i, strict, A))
BY TakenFirst DEF Chain, Shown

\* The daemon publishes an entry that the feed will read.
LEMMA ChainSaid ==
  ASSUME NEW u \in Seq(Frame), NEW q, NEW w, NEW e \in Frame, NEW i, NEW strict,
         NEW A \in SUBSET Any, NEW B, Before1(e, i, strict, B) \in SUBSET Any,
         A \subseteq Before1(e, i, strict, B), Leaves(e, i, B)
  PROVE  /\ Sound(u, i, strict, A) => Sound(Append(u, e), i, strict, B)
         /\ Chain(u, q, w, i, strict, A) => Chain(Append(u, e), q, w, i, strict, B)
         /\ Before(u, i, strict, A) \subseteq Before(Append(u, e), i, strict, B)
         /\ Shown(u, q, w, i, strict, A) \subseteq Shown(Append(u, e), q, w, i, strict, B)
<1> DEFINE C == Before1(e, i, strict, B)
<1>1. /\ Before(Append(u, e), i, strict, B) = Before(u, i, strict, C)
      /\ Sound(u, i, strict, C) => Sound(Append(u, e), i, strict, B)
  BY AddedLast
<1>2. /\ Sound(u, i, strict, A) => Sound(u, i, strict, C)
      /\ Chain(u, q, w, i, strict, A) => Chain(u, q, w, i, strict, C)
      /\ Before(u, i, strict, A) \subseteq Before(u, i, strict, C)
      /\ Shown(u, q, w, i, strict, A) \subseteq Shown(u, q, w, i, strict, C)
  <2> HIDE DEF C
  <2>1. C \in SUBSET Any /\ A \subseteq C
    BY DEF C
  <2>2. QED
    BY <2>1, ChainMore, More
<1>3. QED
  BY <1>1, <1>2 DEF Chain, Shown

\* The feed loses what it had to read of other items.
LEMMA ChainLost ==
  ASSUME NEW u \in Seq(Edge), NEW q, NEW w, NEW i \in Item, NEW strict, NEW A
  PROVE  /\ u # << >> /\ ~About(Head(u), i) =>
              /\ Chain(u, q, w, i, strict, A) => Chain(Tail(u), q, w, i, strict, A)
              /\ Before(Tail(u), i, strict, A) = Before(u, i, strict, A)
              /\ Shown(Tail(u), q, w, i, strict, A) = Shown(u, q, w, i, strict, A)
         /\ Silent(u, i) =>
              /\ Chain(u, q, w, i, strict, A) => Chain(<< >>, q, w, i, strict, A)
              /\ Before(<< >>, i, strict, A) = Before(u, i, strict, A)
              /\ Shown(<< >>, q, w, i, strict, A) = Shown(u, q, w, i, strict, A)
<1>1. ASSUME u # << >>, ~About(Head(u), i)
      PROVE  /\ Sound(u, i, strict, A) => Sound(Tail(u), i, strict, A)
             /\ Before(Tail(u), i, strict, A) = Before(u, i, strict, A)
  <2>0. Head(u) \in Edge
    BY <1>1
  <2>1. u \in Seq(Frame)
    BY OfEntries
  <2>2. ~Stops(Head(u), i)
    BY <1>1, <2>0 DEF Stops, Edge
  <2>3. QED
    BY <1>1, <2>1, <2>2, TakenFirst DEF Before1
<1>2. ASSUME Silent(u, i)
      PROVE  Before(<< >>, i, strict, A) = Before(u, i, strict, A) /\ Sound(<< >>, i, strict, A)
  <2>1. Before(<< >>, i, strict, A) = A /\ Sound(<< >>, i, strict, A)
    BY Atomic
  <2>2. Before(u, i, strict, A) = A
    BY <1>2, OfOtherEntries
  <2>3. QED
    BY <1>2, <2>1, <2>2
<1>3. QED
  BY <1>1, <1>2 DEF Chain, Shown

----
(* The inductive invariant. *)

\* What the screen may show of an item once the feed has read all that the daemon
\* published: what it told last; what the mirror holds, if nothing is about to be written;
\* anything before the first tick of a connection; or unknown for the stations of a PLC that
\* is away.  A claim about the start of a stop does not hold of a mirror that is behind.
End(i, strict) ==
  IF i \in resync THEN Value
  ELSE {v \in Value : \/ v = Posted(i)
                      \/ ~strict /\ owed[i] = "none" /\ v = mirror[i]
                      \/ i \in Puesto /\ v = "unknown" /\ Ip[i] \notin polling \cup up}

\* The same before what XREAD will return, and before all that is on its way.
Owes(i, strict) == Before(unread, i, strict, End(i, strict))
Now(i, strict) == Shown(unread, queue, wire, i, strict, End(i, strict))
Flow(i, strict) == Chain(unread, queue, wire, i, strict, End(i, strict))

FeedIsSound ==
  /\ \A i \in Item : Ip[i] \in polling => Sound(unread, i, FALSE, End(i, FALSE))
  /\ \A p \in Puesto : Sound(unread, p, TRUE, End(p, TRUE))

\* Outside the gaps g, what is on its way tells the truth.
Honest(g) ==
  /\ \A i \in Item \ g.value : Flow(i, FALSE)
  /\ \A p \in Puesto \ g.start : Flow(p, TRUE)
  /\ g.value \cap Puesto \subseteq g.start

\* A fetched snapshot that nothing has overtaken may be applied at any moment.
AnswerIsHonest(a) ==
  /\ Honest(a.wrong)
  /\ \A i \in Item \ a.wrong.value : a.snapshot.v[i] \in Owes(i, FALSE)
  /\ \A p \in Puesto \ a.wrong.start :
       a.snapshot.v[p] \in Owes(p, TRUE) /\ Silent(queue, p) /\ Silent(wire, p)
AnswersAreHonest == \A a \in answers : ~a.crossed => AnswerIsHonest(a)

\* A screen that waits for no snapshot.
Calm == conn = "open" /\ asked = 0 /\ answers = {} /\ screen.known
ScreenIsHonest ==
  Calm => /\ \A i \in Item \ wrong.value : screen.v[i] \in Now(i, FALSE)
          /\ \A p \in Puesto \ wrong.start : screen.v[p] \in Now(p, TRUE)
StopwatchIsHonest ==
  Calm => \A p \in Puesto \ wrong.start :
            "any" \notin Now(p, TRUE) /\ screen.v[p] = "on" /\ screen.exact[p] => ~screen.late[p]

MirrorFollows == \A i \in Item : Ip[i] \notin polling => i \notin resync /\ owed[i] = "none"

Inv ==
  /\ MirrorFollows /\ FeedIsSound
  /\ Honest(wrong) /\ AnswersAreHonest
  /\ ScreenIsHonest /\ StopwatchIsHonest

LEMMA Ranges ==
  ASSUME NEW i
  PROVE  \A strict : /\ End(i, strict) \in SUBSET Value /\ End(i, strict) \in SUBSET Any
                     /\ Owes(i, strict) \in SUBSET Any /\ Now(i, strict) \in SUBSET Any
<1>1. \A strict : End(i, strict) \in SUBSET Value /\ End(i, strict) \in SUBSET Any
  BY DEF End, Any
<1>2. ASSUME NEW strict PROVE Owes(i, strict) \in SUBSET Any /\ Now(i, strict) \in SUBSET Any
  <2>1. Before(unread, i, strict, End(i, strict)) \in SUBSET Any
    BY <1>1, Within DEF Before
  <2>2. Before(queue, i, strict, Before(unread, i, strict, End(i, strict))) \in SUBSET Any
    BY <2>1, Within DEF Before
  <2>3. Shown(unread, queue, wire, i, strict, End(i, strict)) \in SUBSET Any
    BY <2>2, Within DEF Before, Shown
  <2>4. QED
    BY <2>1, <2>3 DEF Owes, Now
<1>3. QED
  BY <1>1, <1>2

LEMMA Queues ==
  Types => /\ unread \in Seq(Edge) /\ unread \in Seq(Frame)
           /\ queue \in Seq(Frame) /\ wire \in Seq(Frame)
<1> SUFFICES ASSUME Types PROVE unread \in Seq(Edge) /\ unread \in Seq(Frame) /\ queue \in Seq(Frame) /\ wire \in Seq(Frame)
  OBVIOUS
<1>1. unread \in Seq(Edge) /\ queue \in Seq(Told) /\ wire \in Seq(Frame)
  BY DEF Types, WebType, ClientType
<1>2. Edge \subseteq Frame /\ Told \subseteq Frame
  BY DEF Told, Frame
<1>3. QED
  BY <1>1, <1>2

\* A step that marks `items`, and keeps what it says of the others.
Keeps(i, strict) == Flow(i, strict) => Flow(i, strict)' /\ Owes(i, strict) \subseteq Owes(i, strict)'
Shows(i, strict) == Flow(i, strict) => Now(i, strict) \subseteq Now(i, strict)'
Marks(items) ==
  /\ wrong.value \cup items \subseteq wrong'.value
  /\ wrong.start \cup (items \cap Puesto) \subseteq wrong'.start
  /\ wrong'.value \cap Puesto \subseteq wrong'.start

LEMMA Crossed ==
  ASSUME Types, Cross
  PROVE  AnswersAreHonest' /\ (answers' = {} => answers = {})
<1>1. \A a \in answers : a \in Fetched
  BY DEF Types, PageType
<1>2. \A a \in answers : [a EXCEPT !.crossed = TRUE].crossed
  BY <1>1 DEF Fetched
<1>3. \A a \in answers' : a.crossed
  BY <1>2 DEF Cross
<1>4. QED
  BY <1>3 DEF AnswersAreHonest, Cross

LEMMA Keeping ==
  ASSUME Types, Inv, NEW items \in SUBSET Item, Marks(items),
         \A i \in Item \ items : Keeps(i, FALSE), \A p \in Puesto \ items : Keeps(p, TRUE),
         \/ Cross
         \/ answers' = {}
         \/ /\ items = {} /\ UNCHANGED answers
            /\ \A p \in Puesto : (Silent(queue, p) => Silent(queue, p)')
            /\ \A p \in Puesto : Silent(wire, p) => Silent(wire, p)' \/ ~Silent(queue, p),
         \/ conn' # "open"
         \/ items = Item
         \/ /\ UNCHANGED <<screen, asked, conn>> /\ (Cross \/ UNCHANGED answers)
            /\ \A i \in Item \ items : Shows(i, FALSE)
            /\ \A p \in Puesto \ items : Shows(p, TRUE),
         FeedIsSound', MirrorFollows'
  PROVE  Inv'
<1> USE DEF Inv, Marks
<1>1. Honest(wrong)'
  BY DEF Honest, Keeps
<1>2. AnswersAreHonest'
  <2>1. CASE Cross
    BY <2>1, Crossed
  <2>2. CASE answers' = {}
    BY <2>2 DEF AnswersAreHonest
  <2>3. CASE /\ items = {} /\ UNCHANGED answers
             /\ \A p \in Puesto : (Silent(queue, p) => Silent(queue, p)')
             /\ \A p \in Puesto : Silent(wire, p) => Silent(wire, p)' \/ ~Silent(queue, p)
    <3>1. SUFFICES ASSUME NEW a \in answers, ~a.crossed PROVE AnswerIsHonest(a)'
      BY <2>3 DEF AnswersAreHonest
    <3>2. AnswerIsHonest(a)
      BY <3>1 DEF AnswersAreHonest
    <3>3. Honest(a.wrong)'
      BY <2>3, <3>2 DEF AnswerIsHonest, Honest, Keeps
    <3>4. \A i \in Item \ a.wrong.value : a.snapshot.v[i] \in Owes(i, FALSE)'
      BY <2>3, <3>2 DEF AnswerIsHonest, Honest, Keeps
    <3>5. \A p \in Puesto \ a.wrong.start : a.snapshot.v[p] \in Owes(p, TRUE)'
      BY <2>3, <3>2 DEF AnswerIsHonest, Honest, Keeps
    <3>6. \A p \in Puesto \ a.wrong.start : Silent(queue, p)' /\ Silent(wire, p)'
      BY <2>3, <3>2 DEF AnswerIsHonest
    <3>7. QED
      BY <3>3, <3>4, <3>5, <3>6 DEF AnswerIsHonest
  <2>4. QED
    BY <2>1, <2>2, <2>3
<1>3. ScreenIsHonest' /\ StopwatchIsHonest'
  <2>1. CASE conn' # "open"
    BY <2>1 DEF ScreenIsHonest, StopwatchIsHonest, Calm
  <2>2. CASE items = Item
    <3>1. Item \ wrong'.value = {} /\ Puesto \ wrong'.start = {}
      BY <2>2, Ips
    <3>2. QED
      BY <3>1 DEF ScreenIsHonest, StopwatchIsHonest
  <2>3. CASE /\ UNCHANGED <<screen, asked, conn>> /\ (Cross \/ UNCHANGED answers)
             /\ \A i \in Item \ items : Shows(i, FALSE)
             /\ \A p \in Puesto \ items : Shows(p, TRUE)
    <3>1. Calm' => Calm
      BY <2>3 DEF Calm, Cross
    <3>2. \A i \in Item \ wrong'.value : i \in Item \ wrong.value /\ Flow(i, FALSE) /\ Shows(i, FALSE)
      BY <2>3 DEF Honest
    <3>3. \A p \in Puesto \ wrong'.start : p \in Puesto \ wrong.start /\ Flow(p, TRUE) /\ Shows(p, TRUE)
      BY <2>3 DEF Honest
    <3>4. ScreenIsHonest'
      BY <2>3, <3>1, <3>2, <3>3 DEF ScreenIsHonest, Shows
    <3>5. StopwatchIsHonest'
      BY <2>3, <3>1, <3>3 DEF StopwatchIsHonest, Shows
    <3>6. QED
      BY <3>4, <3>5
  <2>4. QED
    BY <2>1, <2>2, <2>3
<1>4. QED
  BY <1>1, <1>2, <1>3

----
(* What the daemon does. *)

\* With the same entries and the same daemon, the feed owes the same.
LEMMA SameFeed ==
  ASSUME Inv, UNCHANGED <<daemonVars, unread>>
  PROVE  /\ FeedIsSound' /\ MirrorFollows'
         /\ \A i, strict : End(i, strict)' = End(i, strict)
         /\ \A i, strict : Owes(i, strict)' = Owes(i, strict)
<1>1. \A i, strict : End(i, strict)' = End(i, strict)
  BY DEF daemonVars, End, Posted
<1>2. MirrorFollows'
  BY DEF daemonVars, Inv, MirrorFollows
<1>3. FeedIsSound'
  BY <1>1 DEF daemonVars, Inv, FeedIsSound
<1>4. QED
  BY <1>1, <1>2, <1>3 DEF Owes

\* With the same queues, what may be shown grows with what the daemon may hold.
LEMMA SameQueues ==
  ASSUME UNCHANGED <<unread, queue, wire>>, NEW i, NEW strict, End(i, strict) \subseteq End(i, strict)'
  PROVE  /\ Keeps(i, strict) /\ Shows(i, strict)
         /\ Sound(unread, i, strict, End(i, strict)) => Sound(unread, i, strict, End(i, strict))'
<1> DEFINE B == End(i, strict)'
<1>1. End(i, strict) \in SUBSET Any /\ B \in SUBSET Any
  BY DEF End, Any
<1> HIDE DEF B
<1>2. /\ Chain(unread, queue, wire, i, strict, End(i, strict)) => Chain(unread, queue, wire, i, strict, B)
      /\ Before(unread, i, strict, End(i, strict)) \subseteq Before(unread, i, strict, B)
      /\ Shown(unread, queue, wire, i, strict, End(i, strict)) \subseteq Shown(unread, queue, wire, i, strict, B)
      /\ Sound(unread, i, strict, End(i, strict)) => Sound(unread, i, strict, B)
  BY <1>1, ChainMore, More DEF B
<1>3. QED
  BY <1>2 DEF B, Keeps, Shows, Flow, Owes, Now

LEMMA SpoilMarks ==
  ASSUME Types, Inv, NEW items \in SUBSET Item, Spoil(items)
  PROVE  Marks(items) /\ (items = {} => UNCHANGED answers) /\ (items # {} => Cross)
<1>1. /\ wrong'.value = wrong.value \cup items
      /\ wrong'.start = wrong.start \cup (items \cap Puesto)
  BY DEF Spoil, Types, CountType, Gaps
<1>2. wrong.value \cap Puesto \subseteq wrong.start
  BY DEF Inv, Honest
<1>3. QED
  BY <1>1, <1>2 DEF Spoil, Marks

LEMMA PublishKeeps ==
  ASSUME Types, Inv, NEW i \in Item, NEW v \in Value, NEW reason \in Reason,
         Publish(i, v, reason), MirrorFollows',
         \A strict : v \in End(i, strict)', reason = "reassert" => End(i, TRUE) \subseteq {v},
         \A j \in Item \ {i} : \A strict : End(j, strict)' = End(j, strict)
  PROVE  Inv'
<1> DEFINE e == [t |-> "edge", i |-> i, v |-> v, reason |-> reason]
<1>0. UNCHANGED <<polling, conn, queue, wire, asked, screen>>
  BY DEF Publish, clientVars
<1>1. CASE web /\ unread' = Append(unread, e) /\ UNCHANGED <<wrong, answers>>
  <2> DEFINE B(j, strict) == End(j, strict)'
  <2>1. e \in Frame /\ e.t = "edge" /\ e.i = i /\ e.v = v /\ e.reason = reason
    BY DEF Frame, Edge
  <2> HIDE DEF e
  <2>2. \A j, strict : /\ End(j, strict) \in SUBSET Any /\ B(j, strict) \in SUBSET Any
                       /\ End(j, strict) \in SUBSET Value
    BY DEF End, Any
  <2>3. /\ \A strict : v \in B(i, strict)
        /\ \A j \in Item \ {i} : \A strict : B(j, strict) = End(j, strict)
    OBVIOUS
  <2> HIDE DEF B
  <2>4. ASSUME NEW j \in Item, NEW strict \in BOOLEAN
        PROVE  /\ Before1(e, j, strict, B(j, strict)) \in SUBSET Any
               /\ End(j, strict) \subseteq Before1(e, j, strict, B(j, strict))
               /\ Leaves(e, j, B(j, strict))
    <3>1. CASE j = i
      <4>1. Stops(e, j) /\ Leaves(e, j, B(j, strict))
        BY <2>1, <2>3, <3>1 DEF Stops, About, Leaves
      <4>2. ~strict => Absolves(e, j, strict)
        BY <2>1, <3>1 DEF Absolves, About
      <4>3. strict = TRUE /\ reason = "reassert" => End(j, strict) \subseteq {v}
        BY <3>1
      <4>4. End(j, strict) \in SUBSET Value
        BY <2>2
      <4>5. QED
        BY <2>1, <4>1, <4>2, <4>3, <4>4 DEF Before1, Any
    <3>2. CASE j # i
      BY <2>1, <2>2, <2>3, <3>2 DEF Before1, Stops, About, Leaves
    <3>3. QED
      BY <3>1, <3>2
  <2>5. ASSUME NEW j \in Item, NEW strict \in BOOLEAN
        PROVE  /\ Sound(unread, j, strict, End(j, strict)) => Sound(unread', j, strict, B(j, strict))
               /\ Chain(unread, queue, wire, j, strict, End(j, strict)) => Chain(unread', queue, wire, j, strict, B(j, strict))
               /\ Before(unread, j, strict, End(j, strict)) \subseteq Before(unread', j, strict, B(j, strict))
               /\ Shown(unread, queue, wire, j, strict, End(j, strict)) \subseteq Shown(unread', queue, wire, j, strict, B(j, strict))
    BY <1>1, <2>1, <2>2, <2>4, Queues, ChainSaid
  <2>6. ASSUME NEW j \in Item, NEW strict \in BOOLEAN PROVE Keeps(j, strict) /\ Shows(j, strict)
    BY <1>0, <2>5 DEF B, Keeps, Shows, Flow, Owes, Now
  <2>7. FeedIsSound'
    BY <1>0, <2>5, Ips DEF B, Inv, FeedIsSound
  <2>8. Marks({})
    BY <1>1 DEF Marks, Inv, Honest
  <2>9. QED
    BY <1>0, <1>1, <2>6, <2>7, <2>8, Ips, Keeping
<1>2. CASE (web => cursor = "$" /\ unread = << >>) /\ Spoil({i}) /\ UNCHANGED unread
  <2>1. unread = << >>
    BY <1>2 DEF Types, ClientType
  <2>2. FeedIsSound'
    <3>1. \A j, strict, A : Sound(<< >>, j, strict, A)
      BY Atomic
    <3>2. QED
      BY <1>2, <2>1, <3>1 DEF FeedIsSound
  <2>3. \A j \in Item \ {i} : \A strict : Keeps(j, strict) /\ Shows(j, strict)
    BY <1>0, <1>2, SameQueues
  <2>4. Marks({i}) /\ Cross
    BY <1>2, SpoilMarks
  <2>5. QED
    BY <1>0, <2>2, <2>3, <2>4, Ips, Keeping
<1>3. QED
  BY <1>1, <1>2 DEF Publish

LEMMA SayingKeeps ==
  ASSUME Types, Inv, NEW i \in Item, Change(i) \/ Reassert(i) \/ ResyncOne(i)
  PROVE  Inv'
<1>0. /\ value \in [Item -> {"on", "off"}] /\ mirror \in [Item -> Value]
      /\ owed \in [Item -> Reason \cup {"none"}]
  BY DEF Types, DaemonType
<1>1. CASE Change(i)
  <2>1. /\ Ip[i] \in polling /\ value' = [value EXCEPT ![i] = Flip(@)] /\ UNCHANGED resync
        /\ Publish(i, value'[i], "change")
    BY <1>1 DEF Change
  <2>2. /\ UNCHANGED <<polling, up, mirror>> /\ owed' = [owed EXCEPT ![i] = "change"]
    BY <2>1 DEF Publish
  <2>3. value'[i] \in Value /\ value' \in [Item -> {"on", "off"}] /\ owed'[i] = "change"
    BY <1>0, <2>1, <2>2 DEF Value, Flip
  <2>4. \A strict : value'[i] \in End(i, strict)'
    BY <2>1, <2>2, <2>3 DEF End, Posted
  <2>5. \A j \in Item \ {i} : value'[j] = value[j] /\ owed'[j] = owed[j]
    BY <1>0, <2>1, <2>2
  <2>6. \A j \in Item \ {i} : \A strict : End(j, strict)' = End(j, strict)
    BY <2>1, <2>2, <2>5 DEF End, Posted
  <2>7. MirrorFollows'
    BY <2>1, <2>2, <2>3, <2>5 DEF Inv, MirrorFollows
  <2>8. QED
    BY <2>1, <2>3, <2>4, <2>6, <2>7, PublishKeeps DEF Reason
<1>2. CASE Reassert(i)
  <2>1. /\ Ip[i] \in polling /\ UNCHANGED <<value, resync>> /\ i \notin resync /\ owed[i] = "none"
        /\ Publish(i, value[i], "reassert")
    BY <1>2 DEF Reassert, Quiescent, Mine
  <2>2. /\ UNCHANGED <<polling, up, mirror>> /\ owed' = [owed EXCEPT ![i] = "reassert"]
    BY <2>1 DEF Publish
  <2>3. value[i] \in Value /\ owed'[i] = "reassert"
    BY <1>0, <2>1, <2>2 DEF Value
  <2>4. (\A strict : value[i] \in End(i, strict)') /\ End(i, TRUE) \subseteq {value[i]}
    BY <2>1, <2>2, <2>3 DEF End, Posted
  <2>5. \A j \in Item \ {i} : owed'[j] = owed[j]
    BY <1>0, <2>2
  <2>6. \A j \in Item \ {i} : \A strict : End(j, strict)' = End(j, strict)
    BY <2>1, <2>2, <2>5 DEF End, Posted
  <2>7. MirrorFollows'
    BY <2>1, <2>2, <2>3, <2>5 DEF Inv, MirrorFollows
  <2>8. QED
    BY <2>1, <2>3, <2>4, <2>6, <2>7, PublishKeeps DEF Reason
<1>3. CASE ResyncOne(i)
  <2>1. /\ i \in resync /\ resync' = resync \ {i} /\ UNCHANGED value
        /\ Publish(i, value[i], "resync")
    BY <1>3 DEF ResyncOne
  <2>2. /\ UNCHANGED <<polling, up, mirror>> /\ owed' = [owed EXCEPT ![i] = "resync"]
    BY <2>1 DEF Publish
  <2>3. value[i] \in Value /\ owed'[i] = "resync" /\ Ip[i] \in polling
    BY <1>0, <2>1, <2>2 DEF Value, Inv, MirrorFollows
  <2>4. \A strict : value[i] \in End(i, strict)'
    BY <2>1, <2>2, <2>3 DEF End, Posted
  <2>5. \A j \in Item \ {i} : owed'[j] = owed[j] /\ (j \in resync' <=> j \in resync)
    BY <1>0, <2>1, <2>2
  <2>6. \A j \in Item \ {i} : \A strict : End(j, strict)' = End(j, strict)
    BY <2>1, <2>2, <2>5 DEF End, Posted
  <2>7. MirrorFollows'
    BY <2>1, <2>2, <2>3, <2>5 DEF Inv, MirrorFollows
  <2>8. QED
    BY <2>1, <2>3, <2>4, <2>6, <2>7, PublishKeeps DEF Reason
<1>4. QED
  BY <1>1, <1>2, <1>3

\* A step that publishes nothing, and after which the screen may show what it might before,
\* and more, of all items but those it marks.
LEMMA Widening ==
  ASSUME Types, Inv, NEW items \in SUBSET {Noria},
         UNCHANGED <<unread, queue, wire, conn, screen, asked>>,
         Marks(items), (items = {} /\ UNCHANGED answers) \/ Cross,
         \A i \in Item \ items : \A strict : End(i, strict) \subseteq End(i, strict)',
         \A i \in Item : Ip[i] \in polling' => (Ip[i] \in polling /\ i \notin items) \/ End(i, FALSE)' = Value,
         MirrorFollows'
  PROVE  Inv'
<1>1. \A i \in Item \ items : \A strict :
        /\ Keeps(i, strict) /\ Shows(i, strict)
        /\ Sound(unread, i, strict, End(i, strict)) => Sound(unread, i, strict, End(i, strict))'
  BY SameQueues
<1>2. FeedIsSound'
  <2>1. ASSUME NEW i \in Item, Ip[i] \in polling' PROVE Sound(unread, i, FALSE, End(i, FALSE))'
    <3>1. CASE Ip[i] \in polling /\ i \notin items
      BY <1>1, <3>1 DEF Inv, FeedIsSound
    <3>2. CASE End(i, FALSE)' = Value
      <4>1. Sound(unread, i, FALSE, Value)
        BY Queues, OfEntries
      <4>2. QED
        BY <3>2, <4>1
    <3>3. QED
      BY <2>1, <3>1, <3>2
  <2>2. ASSUME NEW p \in Puesto PROVE Sound(unread, p, TRUE, End(p, TRUE))'
    <3>1. p \in Item \ items
      BY ScreenAssumption DEF Item
    <3>2. QED
      BY <1>1, <3>1 DEF Inv, FeedIsSound
  <2>3. QED
    BY <2>1, <2>2 DEF FeedIsSound
<1>3. \A p : (Silent(queue, p)' <=> Silent(queue, p)) /\ (Silent(wire, p)' <=> Silent(wire, p))
  BY DEF Silent
<1>4. /\ \A i \in Item \ items : Keeps(i, FALSE) /\ Shows(i, FALSE)
      /\ \A p \in Puesto \ items : Keeps(p, TRUE) /\ Shows(p, TRUE)
  BY <1>1, Ips
<1>5. items \in SUBSET Item
  BY Ips
<1>6. CASE items = {} /\ UNCHANGED answers
  BY <1>2, <1>3, <1>4, <1>5, <1>6, Keeping
<1>7. CASE Cross
  BY <1>2, <1>4, <1>5, <1>7, Keeping
<1>8. QED
  BY <1>6, <1>7

LEMMA WriteKeeps ==
  ASSUME Types, Inv, NEW w \in Plc, NEW landed, landed \subseteq Owed(w), Write(w, landed),
         up' \in {up, up \cup {w}}
  PROVE  Inv'
<1>1. /\ UNCHANGED <<value, polling, resync, unread, queue, wire, conn, screen, asked, answers, wrong>>
      /\ w \in polling
  BY DEF Write, feedVars, clientVars, pageVars
<1>2. \A i \in Item : /\ owed'[i] = IF Ip[i] = w THEN "none" ELSE owed[i]
                      /\ owed[i] = "none" => mirror'[i] = mirror[i]
  BY DEF Write, Mine, Owed
<1>3. ASSUME NEW i \in Item, NEW strict PROVE End(i, strict) \subseteq End(i, strict)'
  <2>1. Posted(i)' = Posted(i) /\ (i \in resync' <=> i \in resync)
    BY <1>1 DEF Posted
  <2>2. Ip[i] \notin polling \cup up => Ip[i] \notin polling' \cup up'
    BY <1>1
  <2>3. owed[i] = "none" => owed'[i] = "none" /\ mirror'[i] = mirror[i]
    BY <1>2
  <2>4. QED
    BY <2>1, <2>2, <2>3 DEF End
<1>4. MirrorFollows'
  BY <1>1, <1>2 DEF Inv, MirrorFollows
<1>5. Marks({})
  BY <1>1 DEF Marks, Inv, Honest
<1>6. QED
  BY <1>1, <1>3, <1>4, <1>5, Widening

LEMMA PlcDownKeeps ==
  ASSUME Types, Inv, NEW w \in Plc, plc_down(w), polling' = polling \ {w},
         \A i \in Item : Ip[i] = w => i \notin resync /\ owed[i] = "none"
  PROVE  Inv'
<1> DEFINE items == {Noria} \cap Mine(w)
<1>0. mirror \in [Item -> Value]
  BY DEF Types, DaemonType
<1>1. UNCHANGED <<value, owed, resync, unread, queue, wire, conn, screen, asked>>
  BY DEF plc_down, feedVars, clientVars
<1>2. up' \subseteq up /\ \A i \in Item \ items : mirror'[i] = mirror[i]
  BY <1>0 DEF plc_down, Mine
<1>3. Marks(items) /\ (items = {} => UNCHANGED answers) /\ (items # {} => Cross)
  <2>1. Spoil(items) /\ items \in SUBSET Item
    BY DEF plc_down, Mine
  <2>2. QED
    BY <2>1, SpoilMarks
<1>4. \A i \in Item \ items : Posted(i)' = Posted(i)
  BY <1>1 DEF Posted, Mine
<1>5. \A i \in Item \ items : \A strict : End(i, strict) \subseteq End(i, strict)'
  BY <1>1, <1>2, <1>4 DEF End
<1>6. \A i \in Item : Ip[i] \in polling' => Ip[i] \in polling /\ i \notin items
  BY DEF Mine
<1>7. MirrorFollows'
  BY <1>1 DEF Inv, MirrorFollows
<1>8. items \in SUBSET {Noria}
  OBVIOUS
<1> HIDE DEF items
<1>9. QED
  BY <1>1, <1>3, <1>5, <1>6, <1>7, <1>8, Widening

LEMMA DaemonKeeps ==
  ASSUME Types, Inv, NEW w \in Plc,
         \/ Mirror(w) \/ MirrorSkips(w) \/ KeyExpires(w)
         \/ PlcDown(w) \/ PlcStillDown(w) \/ PlcBack(w)
  PROVE  Inv'
<1>1. CASE Mirror(w)
  BY <1>1, WriteKeeps DEF Mirror
<1>2. CASE MirrorSkips(w)
  BY <1>2, WriteKeeps DEF MirrorSkips
<1>3. CASE KeyExpires(w)
  <2>1. /\ UNCHANGED <<value, polling, mirror, owed, resync, unread, queue, wire, conn, screen, asked,
                       answers, wrong>>
        /\ up' \subseteq up
    BY <1>3 DEF KeyExpires, feedVars, clientVars, pageVars
  <2>2. \A i \in Item : \A strict : End(i, strict) \subseteq End(i, strict)'
    BY <2>1 DEF End, Posted
  <2>3. MirrorFollows' /\ Marks({})
    BY <2>1 DEF Marks, Inv, Honest, MirrorFollows
  <2>4. QED
    BY <2>1, <2>2, <2>3, Widening
<1>4. CASE PlcDown(w)
  BY <1>4, PlcDownKeeps DEF PlcDown, Quiescent, Mine
<1>5. CASE PlcStillDown(w)
  BY <1>5, PlcDownKeeps DEF PlcStillDown, Inv, MirrorFollows
<1>6. CASE PlcBack(w)
  <2>1. PICK items \in SUBSET Mine(w) :
          value' = [i \in Item |-> IF i \in items THEN Flip(value[i]) ELSE value[i]]
    BY <1>6 DEF PlcBack
  <2>2. /\ w \notin polling /\ polling' = polling \cup {w} /\ resync' = resync \cup Mine(w)
        /\ UNCHANGED <<up, mirror, owed, unread, queue, wire, conn, screen, asked, answers, wrong>>
    BY <1>6 DEF PlcBack, feedVars, clientVars, pageVars
  <2>3. \A i \in Item : Ip[i] = w => i \in resync'
    BY <2>2 DEF Mine
  <2>4. \A i \in Item : Ip[i] # w =>
          value'[i] = value[i] /\ (i \in resync' <=> i \in resync) /\ (Ip[i] \in polling' <=> Ip[i] \in polling)
    BY <2>1, <2>2 DEF Mine
  <2>5. \A i \in Item : Ip[i] # w => \A strict : End(i, strict)' = End(i, strict)
    BY <2>2, <2>4 DEF End, Posted
  <2>6. \A i \in Item : Ip[i] = w => \A strict : End(i, strict)' = Value
    BY <2>3 DEF End
  <2>7. \A i \in Item : \A strict : End(i, strict) \subseteq End(i, strict)'
    BY <2>5, <2>6, Ranges
  <2>8. MirrorFollows' /\ Marks({})
    BY <2>2, <2>3, <2>4 DEF Marks, Inv, Honest, MirrorFollows, Mine
  <2>9. \A i \in Item : Ip[i] \in polling' => Ip[i] \in polling \/ End(i, FALSE)' = Value
    BY <2>2, <2>6
  <2>10. QED
    BY <2>2, <2>7, <2>8, <2>9, Widening
<1>7. QED
  BY <1>1, <1>2, <1>3, <1>4, <1>5, <1>6

----
(* What the feed does. *)

LEMMA EntriesOf ==
  ASSUME Types, NEW i
  PROVE  /\ Silent(unread, i) <=> \A d \in Members(unread) : d.i # i
         /\ \A d \in Members(unread) : d \in Edge /\ d.i \in Item
<1>1. \A n \in DOMAIN unread : unread[n] \in Edge
  BY DEF Types, WebType
<1>2. DOMAIN unread = 1..Len(unread)
  BY DEF Types, WebType
<1>3. \A d \in Members(unread) : d \in Edge
  BY <1>1 DEF Members
<1>4. \A d \in Edge : d.t = "edge" /\ d.i \in Item
  BY DEF Edge
<1>5. Silent(unread, i) <=> \A n \in DOMAIN unread : unread[n].i # i
  BY <1>1, <1>2, <1>4 DEF Silent, About
<1>6. QED
  BY <1>3, <1>4, <1>5 DEF Members

\* An entry is queued, whatever room there is.
LEMMA RelayKeeps ==
  ASSUME Types, Inv, unread # << >>, unread' = Tail(unread), Broadcast(Head(unread)),
         UNCHANGED <<daemonVars, conn, wire>>, NEW i \in Item, NEW strict
  PROVE  /\ Flow(i, strict) => Flow(i, strict)' /\ (conn = "open" => Now(i, strict) \subseteq Now(i, strict)')
         /\ Absolves(Head(unread), i, strict) /\ Sound(unread, i, strict, End(i, strict)) =>
              Flow(i, strict)' /\ (conn = "open" => Now(i, strict)' = Any)
<1> DEFINE d == Head(unread)
           E == End(i, strict)
           t == Tail(unread)
<1>1. E \in SUBSET Any /\ End(i, strict)' = E
  BY DEF End, Posted, Any, daemonVars
<1>2. /\ unread \in Seq(Frame) /\ queue \in Seq(Frame) /\ wire \in Seq(Frame)
      /\ d \in Frame /\ t \in Seq(Frame)
  BY Queues
<1>3. /\ Sound(unread, i, strict, E) => Sound(t, i, strict, E)
      /\ Sound(unread, i, strict, E) => Leaves(d, i, Before(t, i, strict, E))
  BY <1>2, TakenFirst
<1>4. Flow(i, strict) => Sound(unread, i, strict, E)
  BY DEF Flow, Chain
<1>a. unread' = t /\ wire' = wire /\ Broadcast(d)
  OBVIOUS
<1> HIDE DEF d, E, t
<1>5. CASE conn = "none"
  <2>1. queue' = << >> /\ wire' = << >>
    BY <1>5 DEF Broadcast, Types, ClientType
  <2>2. Sound(t, i, strict, E) => Chain(t, << >>, << >>, i, strict, E)
    BY ChainCut
  <2>3. Sound(t, i, strict, E) => Flow(i, strict)'
    BY <1>1, <1>a, <2>1, <2>2 DEF Flow
  <2>4. QED
    BY <1>3, <1>4, <1>5, <2>3 DEF E
<1>6. CASE conn # "none" /\ Len(queue) < QueueSize
  <2>1. queue' = Append(queue, d)
    BY <1>6, <1>a DEF Broadcast
  <2>2. /\ Chain(unread, queue, wire, i, strict, E) => Chain(t, Append(queue, d), wire, i, strict, E)
        /\ Shown(t, Append(queue, d), wire, i, strict, E) = Shown(unread, queue, wire, i, strict, E)
    BY <1>2, ChainRelayed DEF d, t
  <2>3. Absolves(d, i, strict) /\ Sound(t, i, strict, E) /\ Leaves(d, i, Before(t, i, strict, E)) =>
          /\ Chain(t, Append(queue, d), wire, i, strict, E)
          /\ Shown(t, Append(queue, d), wire, i, strict, E) = Any
    BY <1>2, ChainAbsolved
  <2>4. Flow(i, strict)' <=> Chain(t, Append(queue, d), wire, i, strict, E)
    BY <1>1, <1>a, <2>1 DEF Flow
  <2>5. Now(i, strict)' = Shown(t, Append(queue, d), wire, i, strict, E)
    BY <1>1, <1>a, <2>1 DEF Now
  <2>6. QED
    BY <1>3, <2>2, <2>3, <2>4, <2>5 DEF d, E, Flow, Now
<1>7. CASE conn # "none" /\ ~(Len(queue) < QueueSize)
  <2>1. queue' = <<Resync>>
    BY <1>7 DEF Broadcast
  <2>2. Sound(t, i, strict, E) =>
          Chain(t, <<Resync>>, wire, i, strict, E) /\ Shown(t, <<Resync>>, wire, i, strict, E) = Any
    BY <1>2, ChainOverflown
  <2>3. Sound(t, i, strict, E) => Flow(i, strict)' /\ Now(i, strict)' = Any
    BY <1>1, <1>a, <2>1, <2>2 DEF Flow, Now
  <2>4. Now(i, strict) \subseteq Any
    BY Ranges
  <2>5. QED
    BY <1>3, <1>4, <2>3, <2>4 DEF E
<1>8. QED
  BY <1>5, <1>6, <1>7

LEMMA DeliverKeeps ==
  ASSUME Types, Inv, Deliver
  PROVE  Inv'
<1> DEFINE d == Head(unread)
<1>1. /\ unread # << >> /\ unread' = Tail(unread)
      /\ UNCHANGED <<daemonVars, conn, wire, asked, screen>>
  BY DEF Deliver
<1>2. unread \in Seq(Edge) /\ unread \in Seq(Frame) /\ d \in Edge
  BY <1>1, Queues
<1>3. d.t = "edge" /\ d.i \in Item
  BY <1>2 DEF Edge
<1>4. MirrorFollows' /\ \A i, strict : End(i, strict)' = End(i, strict)
  BY <1>1 DEF Inv, MirrorFollows, End, Posted, daemonVars
<1>5. FeedIsSound'
  <2>1. \A i, strict : Sound(unread, i, strict, End(i, strict)) => Sound(unread, i, strict, End(i, strict))'
    BY <1>1, <1>2, <1>4, TakenFirst
  <2>2. QED
    BY <1>1, <2>1 DEF Inv, FeedIsSound, daemonVars
<1>6. CASE traducir(d)
  <2>1. Broadcast(d) /\ Cross
    BY <1>6 DEF Deliver
  <2>2. /\ wrong.value \ {d.i} \subseteq wrong'.value
        /\ \/ wrong'.value = wrong.value /\ wrong'.start = wrong.start
           \/ /\ Ip[d.i] \in polling /\ wrong'.value = wrong.value \ {d.i}
              /\ wrong'.start = wrong.start \ (IF d.reason = "change" THEN {d.i} ELSE {})
    BY <1>6 DEF Deliver
  <2>3. \A i \in Item \ wrong'.value :
          /\ Flow(i, FALSE)'
          /\ conn = "open" => (i \notin wrong.value /\ Now(i, FALSE) \subseteq Now(i, FALSE)') \/ Now(i, FALSE)' = Any
    <3>1. SUFFICES ASSUME NEW i \in Item \ wrong'.value
                   PROVE  /\ Flow(i, FALSE)'
                          /\ conn = "open" => (i \notin wrong.value /\ Now(i, FALSE) \subseteq Now(i, FALSE)') \/ Now(i, FALSE)' = Any
      OBVIOUS
    <3>2. CASE i \notin wrong.value
      <4>1. Flow(i, FALSE)
        BY <3>2 DEF Inv, Honest
      <4>2. QED
        BY <1>1, <2>1, <3>2, <4>1, RelayKeeps
    <3>3. CASE i \in wrong.value
      <4>1. i = d.i /\ Ip[i] \in polling
        BY <2>2, <3>3
      <4>2. Absolves(d, i, FALSE) /\ Sound(unread, i, FALSE, End(i, FALSE))
        BY <1>3, <4>1 DEF Absolves, About, Inv, FeedIsSound
      <4>3. QED
        BY <1>1, <2>1, <4>2, RelayKeeps
    <3>4. QED
      BY <3>2, <3>3
  <2>4. \A p \in Puesto \ wrong'.start :
          /\ Flow(p, TRUE)'
          /\ conn = "open" => (p \notin wrong.start /\ Now(p, TRUE) \subseteq Now(p, TRUE)') \/ Now(p, TRUE)' = Any
    <3>1. SUFFICES ASSUME NEW p \in Puesto \ wrong'.start
                   PROVE  /\ Flow(p, TRUE)'
                          /\ conn = "open" => (p \notin wrong.start /\ Now(p, TRUE) \subseteq Now(p, TRUE)') \/ Now(p, TRUE)' = Any
      OBVIOUS
    <3>2. CASE p \notin wrong.start
      <4>1. Flow(p, TRUE) /\ p \in Item
        BY <3>2, Ips DEF Inv, Honest
      <4>2. QED
        BY <1>1, <2>1, <3>2, <4>1, RelayKeeps
    <3>3. CASE p \in wrong.start
      <4>1. p = d.i /\ d.reason = "change"
        BY <2>2, <3>3
      <4>2. Absolves(d, p, TRUE) /\ Sound(unread, p, TRUE, End(p, TRUE)) /\ p \in Item
        BY <1>3, <4>1 DEF Absolves, About, Inv, FeedIsSound
      <4>3. QED
        BY <1>1, <2>1, <4>2, RelayKeeps
    <3>4. QED
      BY <3>2, <3>3
  <2>5. Honest(wrong)'
    <3>1. wrong.value \cap Puesto \subseteq wrong.start
      BY DEF Inv, Honest
    <3>2. wrong'.value \cap Puesto \subseteq wrong'.start
      BY <2>2, <3>1
    <3>3. QED
      BY <2>3, <2>4, <3>2 DEF Honest
  <2>6. AnswersAreHonest' /\ (Calm' => Calm)
    BY <1>1, <2>1, Crossed DEF Calm
  <2>7. \A i \in Item : screen.v[i] \in Any
    BY DEF Types, PageType, Screen, Any
  <2>8. ScreenIsHonest'
    <3>1. SUFFICES ASSUME Calm'
                   PROVE  /\ \A i \in Item \ wrong'.value : screen.v[i] \in Now(i, FALSE)'
                          /\ \A p \in Puesto \ wrong'.start : screen.v[p] \in Now(p, TRUE)'
      BY <1>1 DEF ScreenIsHonest
    <3>2. Calm /\ conn = "open"
      BY <2>6, <3>1 DEF Calm
    <3>3. QED
      BY <2>3, <2>4, <2>7, <3>2, Ips DEF Inv, ScreenIsHonest
  <2>9. StopwatchIsHonest'
    <3>1. SUFFICES ASSUME Calm', NEW p \in Puesto \ wrong'.start, "any" \notin Now(p, TRUE)',
                          screen.v[p] = "on", screen.exact[p]
                   PROVE  ~screen.late[p]
      BY <1>1 DEF StopwatchIsHonest
    <3>2. Calm /\ conn = "open"
      BY <2>6, <3>1 DEF Calm
    <3>3. p \notin wrong.start /\ "any" \notin Now(p, TRUE)
      BY <2>4, <3>1, <3>2, Absolving
    <3>4. QED
      BY <3>1, <3>2, <3>3 DEF Inv, StopwatchIsHonest
  <2>10. QED
    BY <1>4, <1>5, <2>5, <2>6, <2>8, <2>9 DEF Inv
<1>7. CASE ~traducir(d)
  <2>1. Spoil({d.i}) /\ UNCHANGED queue
    BY <1>7 DEF Deliver
  <2>2. Marks({d.i}) /\ Cross
    BY <1>3, <2>1, SpoilMarks
  <2>3. \A i \in Item \ {d.i} : \A strict : Keeps(i, strict) /\ Shows(i, strict)
    <3>1. SUFFICES ASSUME NEW i \in Item \ {d.i}, NEW strict PROVE Keeps(i, strict) /\ Shows(i, strict)
      OBVIOUS
    <3>2. ~About(Head(unread), i)
      BY DEF About
    <3>3. /\ Chain(unread, queue, wire, i, strict, End(i, strict)) => Chain(Tail(unread), queue, wire, i, strict, End(i, strict))
          /\ Before(Tail(unread), i, strict, End(i, strict)) = Before(unread, i, strict, End(i, strict))
          /\ Shown(Tail(unread), queue, wire, i, strict, End(i, strict)) = Shown(unread, queue, wire, i, strict, End(i, strict))
      BY <1>1, <1>2, <3>2, ChainLost
    <3>4. QED
      BY <1>1, <1>4, <2>1, <3>3 DEF Keeps, Shows, Flow, Owes, Now
  <2>4. QED
    BY <1>1, <1>3, <1>4, <1>5, <2>2, <2>3, Ips, Keeping
<1>8. QED
  BY <1>6, <1>7

LEMMA ReadFailsKeeps ==
  ASSUME Types, Inv, ReadFails
  PROVE  Inv'
<1> DEFINE missed == {d.i : d \in Members(unread)}
<1>1. /\ unread' = << >> /\ UNCHANGED <<daemonVars, conn, queue, wire, asked, screen>>
      /\ (missed = {} /\ UNCHANGED answers) \/ Cross
  BY DEF ReadFails, clientVars
<1>2. missed \in SUBSET Item
  BY EntriesOf
<1>3. Marks(missed)
  BY DEF ReadFails, Marks, Inv, Honest
<1>4. MirrorFollows' /\ \A i, strict : End(i, strict)' = End(i, strict)
  BY <1>1 DEF Inv, MirrorFollows, End, Posted, daemonVars
<1>5. FeedIsSound'
  <2>1. \A i, strict, A : Sound(<< >>, i, strict, A)
    BY Atomic
  <2>2. QED
    BY <1>1, <2>1 DEF FeedIsSound
<1>6. ASSUME NEW i \in Item \ missed, NEW strict PROVE Keeps(i, strict) /\ Shows(i, strict)
  <2>1. Silent(unread, i) /\ unread \in Seq(Edge)
    BY <1>6, EntriesOf, Queues
  <2>2. /\ Chain(unread, queue, wire, i, strict, End(i, strict)) => Chain(<< >>, queue, wire, i, strict, End(i, strict))
        /\ Before(<< >>, i, strict, End(i, strict)) = Before(unread, i, strict, End(i, strict))
        /\ Shown(<< >>, queue, wire, i, strict, End(i, strict)) = Shown(unread, queue, wire, i, strict, End(i, strict))
    BY <2>1, ChainLost
  <2>3. QED
    BY <1>1, <1>4, <2>2 DEF Keeps, Shows, Flow, Owes, Now
<1>7. \A p : (Silent(queue, p)' <=> Silent(queue, p)) /\ (Silent(wire, p)' <=> Silent(wire, p))
  BY <1>1 DEF Silent
<1> HIDE DEF missed
<1>8. QED
  BY <1>1, <1>2, <1>3, <1>4, <1>5, <1>6, <1>7, Ips, Keeping

\* A frame of the server itself is queued, whatever room there is.
LEMMA TellKeeps ==
  ASSUME Types, Inv, NEW f \in Told, f.t \in {"hb", "hoy"}, Broadcast(f),
         UNCHANGED <<daemonVars, unread, conn, wire>>
  PROVE  /\ \A i \in Item : \A strict : Leaves(f, i, Owes(i, strict)) =>
              Keeps(i, strict) /\ (conn = "open" => Shows(i, strict))
         /\ \A p : Silent(queue, p) => Silent(queue, p)'
<1>1. f \in Frame /\ queue \in Seq(Frame) /\ wire \in Seq(Frame) /\ \A p : ~About(f, p) /\ ~Stops(f, p)
  BY Queues DEF Told, Frame, About, Stops
<1>2. \A i, strict : End(i, strict)' = End(i, strict)
  BY DEF End, Posted, daemonVars
<1>3. ASSUME NEW i \in Item, NEW strict, Leaves(f, i, Owes(i, strict))
      PROVE  Keeps(i, strict) /\ (conn = "open" => Shows(i, strict))
  <2>1. CASE conn = "none"
    <3>1. queue' = queue
      BY <2>1 DEF Broadcast
    <3>2. QED
      BY <1>2, <2>1, <3>1, SameQueues
  <2>2. CASE conn # "none" /\ Len(queue) < QueueSize
    <3>1. queue' = Append(queue, f)
      BY <2>2 DEF Broadcast
    <3>2. /\ Chain(unread, queue, wire, i, strict, End(i, strict)) => Chain(unread, Append(queue, f), wire, i, strict, End(i, strict))
          /\ Shown(unread, Append(queue, f), wire, i, strict, End(i, strict)) = Shown(unread, queue, wire, i, strict, End(i, strict))
      BY <1>1, <1>3, ChainQueued DEF Owes
    <3>3. QED
      BY <1>2, <3>1, <3>2 DEF Keeps, Shows, Flow, Owes, Now
  <2>3. CASE conn # "none" /\ ~(Len(queue) < QueueSize)
    <3>1. queue' = <<Resync>>
      BY <2>3 DEF Broadcast
    <3>2. Sound(unread, i, strict, End(i, strict)) =>
            /\ Chain(unread, <<Resync>>, wire, i, strict, End(i, strict))
            /\ Shown(unread, <<Resync>>, wire, i, strict, End(i, strict)) = Any
      BY <1>1, ChainOverflown
    <3>3. Flow(i, strict) => Sound(unread, i, strict, End(i, strict))
      BY DEF Flow, Chain
    <3>4. Now(i, strict) \subseteq Any
      BY Ranges
    <3>5. QED
      BY <1>2, <3>1, <3>2, <3>3, <3>4 DEF Keeps, Shows, Flow, Owes, Now
  <2>4. QED
    BY <2>1, <2>2, <2>3
<1>4. ASSUME NEW p, Silent(queue, p) PROVE Silent(queue', p)
  <2>1. CASE queue' = queue
    BY <1>4, <2>1
  <2>2. CASE queue' = Append(queue, f)
    <3>1. \A n \in 1..Len(queue') : queue'[n] = f \/ (n \in 1..Len(queue) /\ queue'[n] = queue[n])
      BY <1>1, <2>2
    <3>2. QED
      BY <1>1, <1>4, <3>1 DEF Silent
  <2>3. CASE queue' = <<Resync>>
    <3>1. \A n \in 1..Len(queue') : queue'[n] = Resync
      BY <2>3
    <3>2. QED
      BY <3>1 DEF Silent, About, Resync
  <2>4. QED
    BY <2>1, <2>2, <2>3 DEF Broadcast
<1>5. QED
  BY <1>3, <1>4 DEF Silent

LEMMA TellingKeeps ==
  ASSUME Types, Inv, Refresh \/ Heartbeat \/ Pulse
  PROVE  Inv'
<1>1. UNCHANGED <<daemonVars, unread, conn, wire, asked, screen>>
  BY DEF Refresh, Heartbeat, Pulse, feedVars, clientVars, pageVars
<1>2. FeedIsSound' /\ MirrorFollows'
  BY <1>1, SameFeed
<1>3. \A p : Silent(wire, p)' <=> Silent(wire, p)
  BY <1>1 DEF Silent
<1>4. CASE Refresh
  <2>1. Broadcast(Hoy) /\ UNCHANGED <<answers, wrong>>
    BY <1>4 DEF Refresh, pageVars
  <2>2. Hoy \in Told /\ Hoy.t = "hoy" /\ \A i, A : Leaves(Hoy, i, A)
    BY DEF Told, Hoy, Leaves, About
  <2>3. /\ \A i \in Item : \A strict : Keeps(i, strict) /\ (conn = "open" => Shows(i, strict))
        /\ \A p : Silent(queue, p) => Silent(queue, p)'
    BY <1>1, <2>1, <2>2, TellKeeps
  <2>4. Marks({})
    BY <2>1 DEF Marks, Inv, Honest
  <2>5. QED
    BY <1>1, <1>2, <1>3, <2>1, <2>3, <2>4, Ips, Keeping
<1>5. CASE Heartbeat
  <2>1. UNCHANGED <<queue, answers, wrong>>
    BY <1>5 DEF Heartbeat, clientVars, pageVars
  <2>2. /\ \A i, strict : Keeps(i, strict) /\ Shows(i, strict)
        /\ \A p : Silent(queue, p) => Silent(queue, p)'
    BY <1>1, <2>1, SameFeed DEF Keeps, Shows, Flow, Owes, Now, Silent
  <2>3. Marks({})
    BY <2>1 DEF Marks, Inv, Honest
  <2>4. QED
    BY <1>1, <1>2, <1>3, <2>1, <2>2, <2>3, Keeping
<1>6. CASE Pulse
  <2> DEFINE f == Head(pulse)
             items == {p \in Puesto : Ip[p] \notin f.alive
                                      /\ (Ip[p] \in polling \cup up \/ Overtaken(p))}
  <2>1. pulse # << >> /\ Broadcast(f) /\ Spoil(items)
    BY <1>6 DEF Pulse
  <2>2. f \in Hb
    BY <2>1 DEF Types, WebType
  <2>3. f.t = "hb" /\ f \in Told
    BY <2>2 DEF Told, Hb
  <2>4. items \in SUBSET Item
    BY Ips
  <2>5. ASSUME NEW i \in Item \ items, NEW strict PROVE Leaves(f, i, Owes(i, strict))
    <3>1. CASE i \in Puesto /\ Ip[i] \notin f.alive
      <4>1. Ip[i] \notin polling \cup up /\ ~Overtaken(i)
        BY <2>5, <3>1
      <4>2. "unknown" \in End(i, strict)
        BY <3>1, <4>1 DEF End, Value
      <4>3. Silent(unread, i) /\ unread \in Seq(Edge)
        BY <4>1, EntriesOf, Queues DEF Overtaken
      <4>4. Owes(i, strict) = End(i, strict)
        BY <4>3, OfOtherEntries DEF Owes
      <4>5. QED
        BY <2>3, <4>2, <4>4 DEF Leaves, About
    <3>2. CASE ~(i \in Puesto /\ Ip[i] \notin f.alive)
      BY <2>3, <3>2 DEF Leaves, About
    <3>3. QED
      BY <3>1, <3>2
  <2> HIDE DEF f, items
  <2>6. Marks(items) /\ (items = {} => UNCHANGED answers) /\ (items # {} => Cross)
    BY <2>1, <2>4, SpoilMarks
  <2>7. /\ \A i \in Item \ items : \A strict : Keeps(i, strict) /\ (conn = "open" => Shows(i, strict))
        /\ \A p : Silent(queue, p) => Silent(queue, p)'
    BY <1>1, <2>1, <2>3, <2>5, TellKeeps
  <2>8. QED
    BY <1>1, <1>2, <1>3, <2>4, <2>6, <2>7, Ips, Keeping
<1>7. QED
  BY <1>4, <1>5, <1>6

----
(* What the server sends. *)

LEMMA Coming ==
  ASSUME Types, NEW i \in Item
  PROVE  /\ ~EdgeComing(i) <=> Silent(unread, i) /\ Silent(queue, i) /\ Silent(wire, i)
         /\ ~EdgeComing(i) /\ ~OldComing(i) => Tame(queue, i) /\ Tame(wire, i)
<1> DEFINE s == unread \o queue \o wire
           r == queue \o wire
<1>1. unread \in Seq(Frame) /\ queue \in Seq(Frame) /\ wire \in Seq(Frame)
  BY Queues
<1>2. /\ Len(unread) \in Nat /\ Len(queue) \in Nat /\ Len(wire) \in Nat
      /\ s \in Seq(Frame) /\ DOMAIN s = 1..Len(s)
      /\ r \in Seq(Frame) /\ DOMAIN r = 1..Len(r)
  BY <1>1
<1>3. /\ Len(r) = Len(queue) + Len(wire)
      /\ \A n \in 1..Len(r) : r[n] = IF n <= Len(queue) THEN queue[n] ELSE wire[n - Len(queue)]
  BY <1>1
<1>4. /\ Len(s) = Len(unread) + Len(queue) + Len(wire)
      /\ \A n \in 1..Len(s) : s[n] = IF n <= Len(unread) THEN unread[n]
                                    ELSE IF n <= Len(unread) + Len(queue) THEN queue[n - Len(unread)]
                                    ELSE wire[n - (Len(unread) + Len(queue))]
  BY <1>1
<1>5. \A n \in 1..Len(queue) : n \in 1..Len(r) /\ r[n] = queue[n]
  BY <1>2, <1>3
<1>6. \A n \in 1..Len(wire) : (n + Len(queue)) \in 1..Len(r) /\ r[n + Len(queue)] = wire[n]
  BY <1>2, <1>3
<1>7. \A n \in 1..Len(unread) : n \in 1..Len(s) /\ s[n] = unread[n]
  BY <1>2, <1>4
<1>8. \A n \in 1..Len(queue) : (n + Len(unread)) \in 1..Len(s) /\ s[n + Len(unread)] = queue[n]
  BY <1>2, <1>4
<1>9. \A n \in 1..Len(wire) : (n + (Len(unread) + Len(queue))) \in 1..Len(s)
                              /\ s[n + (Len(unread) + Len(queue))] = wire[n]
  BY <1>2, <1>4
<1>10. \A n \in 1..Len(s) : \/ \E m \in 1..Len(unread) : s[n] = unread[m]
                            \/ \E m \in 1..Len(queue) : s[n] = queue[m]
                            \/ \E m \in 1..Len(wire) : s[n] = wire[m]
  <2>1. SUFFICES ASSUME NEW n \in 1..Len(s)
                 PROVE  \/ \E m \in 1..Len(unread) : s[n] = unread[m]
                        \/ \E m \in 1..Len(queue) : s[n] = queue[m]
                        \/ \E m \in 1..Len(wire) : s[n] = wire[m]
    OBVIOUS
  <2>2. CASE n <= Len(unread)
    <3>1. n \in 1..Len(unread) /\ s[n] = unread[n]
      BY <1>2, <1>4, <2>2
    <3>2. QED
      BY <3>1
  <2>3. CASE ~(n <= Len(unread)) /\ n <= Len(unread) + Len(queue)
    <3>1. n - Len(unread) \in 1..Len(queue) /\ s[n] = queue[n - Len(unread)]
      BY <1>2, <1>4, <2>3
    <3>2. QED
      BY <3>1
  <2>4. CASE ~(n <= Len(unread)) /\ ~(n <= Len(unread) + Len(queue))
    <3>1. n - (Len(unread) + Len(queue)) \in 1..Len(wire) /\ s[n] = wire[n - (Len(unread) + Len(queue))]
      BY <1>2, <1>4, <2>4
    <3>2. QED
      BY <3>1
  <2>5. QED
    BY <2>2, <2>3, <2>4
<1> HIDE DEF s, r
<1>11. EdgeComing(i) <=> \E n \in 1..Len(s) : About(s[n], i)
  BY <1>2 DEF EdgeComing, Members, About, s
<1>12. OldComing(i) <=> \E n \in 1..Len(r) : r[n].t = "snapshot" \/ (r[n].t = "hb" /\ Ip[i] \notin r[n].alive)
  BY <1>2 DEF OldComing, Members, r
<1>13. ~EdgeComing(i) <=> Silent(unread, i) /\ Silent(queue, i) /\ Silent(wire, i)
  BY <1>7, <1>8, <1>9, <1>10, <1>11 DEF Silent
<1>14. ~EdgeComing(i) /\ ~OldComing(i) => Tame(queue, i) /\ Tame(wire, i)
  BY <1>5, <1>6, <1>12, <1>13 DEF Silent, Tame
<1>15. QED
  BY <1>13, <1>14

\* What a snapshot that could be read says of an item whose tick has ended.
LEMMA ComposedIsTrue ==
  ASSUME Types, Inv, catalog, loaded, NEW i \in Item, owed[i] = "none",
         i \in resync \/ Ip[i] \notin polling \ up
  PROVE  /\ Composed(TRUE).v[i] \in End(i, FALSE)
         /\ ~Stale(i) => Composed(TRUE).v[i] \in End(i, TRUE)
<1>1. Composed(TRUE).v[i] = IF Ip[i] \in up THEN mirror[i] ELSE "unknown"
  BY DEF Composed, leer
<1>2. mirror[i] \in Value /\ "unknown" \in Value
  BY DEF Types, DaemonType, Value
<1>3. i \in Puesto \/ i = Noria
  BY DEF Item
<1>4. CASE i \in resync
  BY <1>1, <1>2, <1>4 DEF End
<1>5. CASE i \notin resync /\ Ip[i] \in up
  BY <1>1, <1>2, <1>5 DEF End, Stale
<1>6. CASE i \notin resync /\ Ip[i] \notin up
  <2>1. Ip[i] \notin polling /\ (i = Noria => Posted(i) = "unknown")
    BY <1>6 DEF Posted
  <2>2. QED
    BY <1>1, <1>2, <1>3, <1>6, <2>1 DEF End
<1>7. QED
  BY <1>4, <1>5, <1>6

LEMMA LeftOut ==
  ASSUME Types, Inv, NEW ok \in BOOLEAN, NEW following
  PROVE  /\ \A i \in Item \ Left(ok, following).value :
              Flow(i, FALSE) /\ (i \notin following => Composed(ok).v[i] \in Owes(i, FALSE))
         /\ \A p \in Puesto \ Left(ok, following).start :
              /\ Flow(p, TRUE) /\ Composed(ok).v[p] \in Owes(p, TRUE)
              /\ Silent(unread, p) /\ Silent(queue, p) /\ Silent(wire, p)
         /\ Left(ok, following).value \cap Puesto \subseteq Left(ok, following).start
<1>0. /\ unread \in Seq(Edge) /\ unread \in Seq(Frame) /\ queue \in Seq(Frame) /\ wire \in Seq(Frame)
      /\ \A i \in Puesto : i \in Item
  BY Queues, Ips
<1>1. /\ Left(ok, following).value = LeftWrong(ok, following)
      /\ Left(ok, following).start = {p \in Puesto : \/ p \in LeftWrong(ok, {})
                                              \/ EdgeComing(p) \/ OldComing(p) \/ Stale(p)}
  BY DEF Left
<1>2. ASSUME NEW i \in Item, ~EdgeComing(i), ~OldComing(i), NEW strict PROVE Flow(i, strict)
  <2>1. Silent(unread, i) /\ Tame(queue, i) /\ Tame(wire, i)
    BY <1>2, Coming
  <2>2. End(i, strict) \in SUBSET Any /\ Owes(i, strict) \in SUBSET Any
    BY Ranges
  <2>3. Sound(unread, i, strict, End(i, strict))
    BY <1>0, <2>1, OfOtherEntries
  <2>4. Sound(queue, i, strict, Owes(i, strict))
    BY <1>0, <2>1, <2>2, OfASilence
  <2>5. Before(queue, i, strict, Owes(i, strict)) \in SUBSET Any
    BY <2>2, Within DEF Before
  <2>6. Sound(wire, i, strict, Before(queue, i, strict, Owes(i, strict)))
    BY <1>0, <2>1, <2>5, OfASilence
  <2>7. QED
    BY <2>3, <2>4, <2>6 DEF Flow, Chain, Owes
<1>3. ASSUME NEW f, NEW i \in Item, i \notin LeftWrong(ok, f)
      PROVE  /\ ok /\ catalog /\ loaded
             /\ i \notin wrong.value \/ (~EdgeComing(i) /\ ~OldComing(i))
             /\ i \notin f => /\ Composed(ok).v[i] \in End(i, FALSE)
                              /\ ~Stale(i) => Composed(ok).v[i] \in End(i, TRUE)
  <2>1. ok = TRUE /\ catalog /\ loaded
    BY <1>3 DEF LeftWrong
  <2>2. /\ i \notin wrong.value \/ (~EdgeComing(i) /\ ~OldComing(i))
        /\ i \notin f => owed[i] = "none" /\ (i \in resync \/ Ip[i] \notin polling \ up)
    BY <1>3, <2>1 DEF LeftWrong
  <2>3. QED
    BY <2>1, <2>2, ComposedIsTrue
<1>4. ASSUME NEW i \in Item \ LeftWrong(ok, following)
      PROVE  Flow(i, FALSE) /\ (i \notin following => Composed(ok).v[i] \in Owes(i, FALSE))
  <2>1. Flow(i, FALSE)
    BY <1>2, <1>3, <1>4 DEF Inv, Honest
  <2>2. End(i, FALSE) \subseteq Owes(i, FALSE)
    BY <1>0, Ranges, OfAValue DEF Owes
  <2>3. QED
    BY <1>3, <1>4, <2>1, <2>2
<1>5. ASSUME NEW p \in Puesto \ Left(ok, following).start
      PROVE  /\ Flow(p, TRUE) /\ Composed(ok).v[p] \in Owes(p, TRUE)
             /\ Silent(unread, p) /\ Silent(queue, p) /\ Silent(wire, p)
  <2>1. p \in Item /\ p \notin LeftWrong(ok, {}) /\ ~EdgeComing(p) /\ ~OldComing(p) /\ ~Stale(p)
    BY <1>0, <1>1, <1>5
  <2>2. Silent(unread, p) /\ Silent(queue, p) /\ Silent(wire, p)
    BY <2>1, Coming
  <2>3. Composed(ok).v[p] \in End(p, TRUE)
    <3> DEFINE F == {}
    <3>1. p \notin F /\ p \notin LeftWrong(ok, F)
      BY <2>1
    <3> HIDE DEF F
    <3>2. ~Stale(p) => Composed(ok).v[p] \in End(p, TRUE)
      BY <1>3, <2>1, <3>1
    <3>3. QED
      BY <2>1, <3>2
  <2>4. Owes(p, TRUE) = End(p, TRUE)
    <3>1. unread \in Seq(Edge) /\ Silent(unread, p)
      BY <1>0, <2>2
    <3>2. \A strict : Owes(p, strict) = End(p, strict)
      BY <3>1, OfOtherEntries DEF Owes
    <3>3. QED
      BY <3>2
  <2>5. QED
    BY <1>2, <2>1, <2>2, <2>3, <2>4
<1>6. LeftWrong(ok, following) \subseteq LeftWrong(ok, {})
  BY DEF LeftWrong
<1>7. QED
  BY <1>1, <1>4, <1>5, <1>6

\* The first frame of a stream is a snapshot.
LEMMA ChainFirst ==
  ASSUME NEW u, NEW q \in Seq(Frame), NEW f \in Snapshot, NEW i \in Item, NEW strict, NEW A,
         Sound(u, i, strict, A), Sound(q, i, strict, Before(u, i, strict, A)),
         f.v[i] \in Before(q, i, strict, Before(u, i, strict, A))
  PROVE  /\ Chain(u, q, <<f>>, i, strict, A)
         /\ Shown(u, q, <<f>>, i, strict, A) = Any
<1> DEFINE B == Before(q, i, strict, Before(u, i, strict, A))
           none == << >>
<1>1. none \in Seq(Frame) /\ f \in Frame /\ f.t = "snapshot" /\ f.v[i] \in B /\ Append(none, f) = <<f>>
  BY DEF Frame, Snapshot
<1>2. Absolves(f, i, strict) /\ Stops(f, i) /\ Leaves(f, i, B)
  BY <1>1 DEF Absolves, Stops, Leaves, About
<1>3. Before1(f, i, strict, B) = Any
  BY <1>2 DEF Before1
<1>4. Before(none, i, strict, Any) = Any /\ Sound(none, i, strict, Any)
  BY Atomic
<1>5. \A C : C = <<f>> => C = Append(none, f)
  BY <1>1
<1>6. /\ Before(Append(none, f), i, strict, B) = Before(none, i, strict, Before1(f, i, strict, B))
      /\ Sound(none, i, strict, Before1(f, i, strict, B)) /\ Leaves(f, i, B) => Sound(Append(none, f), i, strict, B)
  <2> HIDE DEF none, B
  <2>1. QED
    BY <1>1, AddedLast
<1> HIDE DEF none, B
<1>7. Before(<<f>>, i, strict, B) = Any /\ Sound(<<f>>, i, strict, B)
  BY <1>2, <1>3, <1>4, <1>5, <1>6
<1>8. QED
  BY <1>7 DEF B, Chain, Shown

LEMMA SendKeeps ==
  ASSUME Types, Inv, Subscribe \/ SendFrame
  PROVE  Inv'
<1>1. UNCHANGED <<daemonVars, unread, asked, answers, screen, wrong>>
  BY DEF Subscribe, SendFrame, feedVars, pageVars
<1>2. FeedIsSound' /\ MirrorFollows' /\ \A i, strict : End(i, strict)' = End(i, strict)
  BY <1>1, SameFeed
<1>3. Marks({})
  BY <1>1 DEF Marks, Inv, Honest
<1>4. CASE Subscribe
  <2>1. UNCHANGED <<queue, wire>> /\ conn' # "open"
    BY <1>4 DEF Subscribe
  <2>2. \A i, strict : Keeps(i, strict)
    BY <1>1, <1>2, <2>1 DEF Keeps, Flow, Owes
  <2>3. /\ \A p \in Puesto : (Silent(queue, p) => Silent(queue, p)')
        /\ \A p \in Puesto : Silent(wire, p) => Silent(wire, p)' \/ ~Silent(queue, p)
    BY <2>1 DEF Silent
  <2>4. /\ \A i \in Item \ {} : Keeps(i, FALSE)
        /\ \A p \in Puesto \ {} : Keeps(p, TRUE)
    BY <2>2
  <2>5. QED
    BY <1>1, <1>2, <1>3, <2>1, <2>3, <2>4, Keeping
<1>5. CASE SendFrame
  <2>1. /\ queue # << >> /\ wire' = Append(wire, Head(queue)) /\ queue' = Tail(queue) /\ UNCHANGED conn
        /\ queue \in Seq(Frame) /\ wire \in Seq(Frame)
    BY <1>5, Queues DEF SendFrame
  <2>2. ASSUME NEW i, NEW strict PROVE Keeps(i, strict) /\ Shows(i, strict)
    <3>1. /\ Chain(unread, queue, wire, i, strict, End(i, strict)) =>
               Chain(unread, Tail(queue), Append(wire, Head(queue)), i, strict, End(i, strict))
          /\ Shown(unread, Tail(queue), Append(wire, Head(queue)), i, strict, End(i, strict))
               = Shown(unread, queue, wire, i, strict, End(i, strict))
      BY <2>1, ChainSent
    <3>2. QED
      BY <1>1, <1>2, <2>1, <3>1 DEF Keeps, Shows, Flow, Owes, Now
  <2>3. ASSUME NEW p, Silent(queue, p)
        PROVE  Silent(Tail(queue), p) /\ (Silent(wire, p) => Silent(Append(wire, Head(queue)), p))
    <3>1. ~About(Head(queue), p) /\ Head(queue) \in Frame
      BY <2>1, <2>3 DEF Silent
    <3>2. Silent(Tail(queue), p)
      <4>1. \A n \in 1..Len(Tail(queue)) : n + 1 \in 1..Len(queue) /\ Tail(queue)[n] = queue[n + 1]
        BY <2>1
      <4>2. QED
        BY <2>3, <4>1 DEF Silent
    <3>3. \A n \in 1..Len(Append(wire, Head(queue))) :
            \/ Append(wire, Head(queue))[n] = Head(queue)
            \/ n \in 1..Len(wire) /\ Append(wire, Head(queue))[n] = wire[n]
      BY <2>1, <3>1
    <3>4. QED
      BY <3>1, <3>2, <3>3 DEF Silent
  <2>4. /\ \A p \in Puesto : (Silent(queue, p) => Silent(queue, p)')
        /\ \A p \in Puesto : Silent(wire, p) => Silent(wire, p)' \/ ~Silent(queue, p)
    BY <2>1, <2>3 DEF Silent
  <2>5. /\ \A i \in Item \ {} : Keeps(i, FALSE) /\ Shows(i, FALSE)
        /\ \A p \in Puesto \ {} : Keeps(p, TRUE) /\ Shows(p, TRUE)
    BY <2>2
  <2>6. QED
    BY <1>1, <1>2, <1>3, <2>1, <2>4, <2>5, Keeping
<1>6. QED
  BY <1>4, <1>5

LEMMA SendSnapshotKeeps ==
  ASSUME Types, Inv, SendSnapshot
  PROVE  Inv'
<1>1. /\ conn = "subscribed" /\ Cross
      /\ UNCHANGED <<daemonVars, unread, queue, asked, screen>>
  BY DEF SendSnapshot, feedVars
<1>2. PICK ok \in BOOLEAN : wire' = <<Composed(ok)>> /\ wrong' = Left(ok, Following)
  BY DEF SendSnapshot
<1>3. FeedIsSound' /\ MirrorFollows' /\ \A i, strict : End(i, strict)' = End(i, strict)
  BY <1>1, SameFeed
<1>4. AnswersAreHonest'
  BY <1>1, Crossed
<1>5. wire = << >> /\ unread \in Seq(Frame) /\ queue \in Seq(Frame) /\ Composed(ok) \in Snapshot
  BY <1>1, Queues, ComposedType DEF Types, ClientType
<1>6. ASSUME NEW i \in Item, NEW strict, Flow(i, strict),
             Composed(ok).v[i] \in Before(queue, i, strict, Owes(i, strict))
      PROVE  Flow(i, strict)' /\ Now(i, strict)' = Any
  <2> DEFINE f == Composed(ok)
  <2>1. /\ Sound(unread, i, strict, End(i, strict)) /\ Sound(queue, i, strict, Before(unread, i, strict, End(i, strict)))
        /\ f.v[i] \in Before(queue, i, strict, Before(unread, i, strict, End(i, strict)))
    BY <1>6 DEF Flow, Chain, Owes
  <2>2. f \in Snapshot
    BY <1>5
  <2>3. wire' = <<f>>
    BY <1>2
  <2> HIDE DEF f
  <2>4. Chain(unread, queue, <<f>>, i, strict, End(i, strict)) /\ Shown(unread, queue, <<f>>, i, strict, End(i, strict)) = Any
    BY <1>5, <2>1, <2>2, ChainFirst
  <2>5. QED
    BY <1>1, <1>3, <2>3, <2>4 DEF Flow, Now
<1>7. ASSUME NEW i \in Item \ Left(ok, Following).value
      PROVE  Flow(i, FALSE)' /\ Now(i, FALSE)' = Any
  <2>1. Flow(i, FALSE) /\ (i \notin Following => Composed(ok).v[i] \in Owes(i, FALSE))
    BY <1>7, LeftOut
  <2>2. Owes(i, FALSE) \in SUBSET Any /\ Composed(ok).v[i] \in Any
    BY <1>5, Ranges DEF Snapshot, Any
  <2>3. Owes(i, FALSE) \subseteq Before(queue, i, FALSE, Owes(i, FALSE))
    BY <1>5, <2>2, OfAValue
  <2>4. i \in Following => Before(queue, i, FALSE, Owes(i, FALSE)) = Any
    <3>1. Silent(wire, i)
      BY <1>5 DEF Silent
    <3>2. i \in Following => ~Silent(unread, i) \/ ~Silent(queue, i)
      BY <3>1, Coming DEF Following
    <3>3. ~Silent(unread, i) => Owes(i, FALSE) = Any
      BY <1>5, OfAnEdge DEF Owes
    <3>4. ~Silent(queue, i) => Before(queue, i, FALSE, Owes(i, FALSE)) = Any
      BY <1>5, OfAnEdge
    <3>5. Before(queue, i, FALSE, Any) = Any
      BY <1>5, FromAny
    <3>6. QED
      BY <3>2, <3>3, <3>4, <3>5
  <2>5. Composed(ok).v[i] \in Before(queue, i, FALSE, Owes(i, FALSE))
    BY <2>1, <2>2, <2>3, <2>4
  <2>6. QED
    BY <1>6, <2>1, <2>5
<1>8. ASSUME NEW p \in Puesto \ Left(ok, Following).start
      PROVE  Flow(p, TRUE)' /\ Now(p, TRUE)' = Any
  <2>1. Flow(p, TRUE) /\ Composed(ok).v[p] \in Owes(p, TRUE) /\ Silent(queue, p) /\ p \in Item
    BY <1>8, LeftOut, Ips
  <2>2. Owes(p, TRUE) \subseteq Before(queue, p, TRUE, Owes(p, TRUE))
    BY <1>5, <2>1, Ranges, OfASilence
  <2>3. QED
    BY <1>6, <2>1, <2>2
<1>9. Honest(wrong)'
  <2>1. Left(ok, Following).value \cap Puesto \subseteq Left(ok, Following).start
    BY LeftOut
  <2> DEFINE g == Left(ok, Following)
  <2>2. wrong' = g /\ g.value \cap Puesto \subseteq g.start
    BY <1>2, <2>1
  <2>3. /\ \A i \in Item \ g.value : Flow(i, FALSE)'
        /\ \A p \in Puesto \ g.start : Flow(p, TRUE)'
    BY <1>7, <1>8
  <2> HIDE DEF g
  <2>4. QED
    BY <2>2, <2>3 DEF Honest
<1>10. ScreenIsHonest' /\ StopwatchIsHonest'
  <2>1. \A i \in Item : screen'.v[i] \in Any
    BY <1>1 DEF Types, PageType, Screen, Any
  <2>2. \A i \in Item \ wrong'.value : Now(i, FALSE)' = Any
    BY <1>2, <1>7
  <2>3. \A p \in Puesto \ wrong'.start : Now(p, TRUE)' = Any
    BY <1>2, <1>8
  <2>4. QED
    BY <2>1, <2>2, <2>3, Ips, Absolving DEF ScreenIsHonest, StopwatchIsHonest
<1>11. QED
  BY <1>3, <1>4, <1>9, <1>10 DEF Inv

LEMMA AnswerKeeps ==
  ASSUME Types, Inv, Answer
  PROVE  Inv'
<1>1. UNCHANGED <<daemonVars, unread, queue, wire, screen, wrong>>
  BY DEF Answer, feedVars, clientVars
<1>2. PICK ok \in BOOLEAN :
        answers' = answers \cup {[snapshot |-> Composed(ok), crossed |-> FALSE, wrong |-> Left(ok, {})]}
  BY DEF Answer
<1>3. FeedIsSound' /\ MirrorFollows' /\ \A i, strict : End(i, strict)' = End(i, strict)
  BY <1>1, SameFeed
<1>4. /\ \A i, strict : Flow(i, strict)' <=> Flow(i, strict)
      /\ \A i, strict : Owes(i, strict)' = Owes(i, strict)
      /\ \A p : (Silent(queue, p)' <=> Silent(queue, p)) /\ (Silent(wire, p)' <=> Silent(wire, p))
  BY <1>1, <1>3 DEF Flow, Owes, Silent
<1>5. Honest(wrong)'
  BY <1>1, <1>4 DEF Inv, Honest
<1>6. ASSUME NEW a \in answers', ~a.crossed PROVE AnswerIsHonest(a)'
  <2>1. CASE a \in answers
    <3>1. AnswerIsHonest(a)
      BY <1>6, <2>1 DEF Inv, AnswersAreHonest
    <3>2. QED
      BY <1>4, <3>1 DEF AnswerIsHonest, Honest
  <2>2. CASE a = [snapshot |-> Composed(ok), crossed |-> FALSE, wrong |-> Left(ok, {})]
    <3>1. a.snapshot = Composed(ok) /\ a.wrong = Left(ok, {})
      BY <2>2
    <3>2. Honest(a.wrong)'
      BY <1>4, <3>1, LeftOut DEF Honest
    <3>3. \A i \in Item \ a.wrong.value : a.snapshot.v[i] \in Owes(i, FALSE)'
      BY <1>4, <3>1, LeftOut
    <3>4. \A p \in Puesto \ a.wrong.start :
            a.snapshot.v[p] \in Owes(p, TRUE)' /\ Silent(queue, p)' /\ Silent(wire, p)'
      BY <1>4, <3>1, LeftOut
    <3>5. QED
      BY <3>2, <3>3, <3>4 DEF AnswerIsHonest
  <2>3. QED
    BY <1>2, <1>6, <2>1, <2>2
<1>7. ~Calm'
  BY <1>2 DEF Calm
<1>8. QED
  BY <1>3, <1>5, <1>6, <1>7 DEF Inv, AnswersAreHonest, ScreenIsHonest, StopwatchIsHonest

----
(* What the page does with it. *)

LEMMA EdgeApplied ==
  ASSUME NEW s \in Screen, NEW d \in Edge
  PROVE  /\ ApplyEdge(s, d).known <=> s.known
         /\ s.known => \A i \in Item : ApplyEdge(s, d).v[i] = IF i = d.i THEN d.v ELSE s.v[i]
         /\ \A p \in Puesto : p # d.i =>
              (ApplyEdge(s, d).exact[p] <=> s.exact[p]) /\ (ApplyEdge(s, d).late[p] <=> s.late[p])
         /\ \A p \in Puesto : p = d.i /\ s.known =>
              /\ d.reason = "change" => ~ApplyEdge(s, d).late[p]
              /\ d.reason # "change" /\ s.v[p] = d.v =>
                   (ApplyEdge(s, d).exact[p] <=> s.exact[p]) /\ (ApplyEdge(s, d).late[p] <=> s.late[p])
              /\ d.reason = "resync" /\ s.v[p] # d.v => ~ApplyEdge(s, d).exact[p]
<1>1. Noria \notin Puesto /\ d.i \in Item /\ (d.i # Noria => d.i \in Puesto)
  BY ScreenAssumption DEF Edge, Item
<1>2. /\ s.v \in [Item -> Value] /\ s.exact \in [Puesto -> BOOLEAN] /\ s.late \in [Puesto -> BOOLEAN]
      /\ \A p \in Puesto : s.exact[p] \in BOOLEAN /\ s.late[p] \in BOOLEAN
  BY DEF Screen
<1>3. CASE d.i = Noria
  <2>1. ApplyEdge(s, d) = [s EXCEPT !.v[Noria] = d.v]
    BY <1>3 DEF ApplyEdge
  <2>2. /\ ApplyEdge(s, d).known = s.known /\ ApplyEdge(s, d).exact = s.exact /\ ApplyEdge(s, d).late = s.late
        /\ ApplyEdge(s, d).v = [s.v EXCEPT ![Noria] = d.v]
    BY <2>1 DEF Screen
  <2>3. QED
    BY <1>1, <1>2, <1>3, <2>2
<1>4. CASE d.i # Noria /\ ~s.known
  <2>1. ApplyEdge(s, d) = s
    BY <1>4 DEF ApplyEdge
  <2>2. QED
    BY <1>4, <2>1
<1>5. CASE d.i # Noria /\ s.known
  <2> DEFINE differs == s.v[d.i] # d.v
             ex == IF d.reason = "change" THEN TRUE ELSE IF differs THEN d.reason # "resync" ELSE s.exact[d.i]
             la == IF d.reason = "change" THEN FALSE ELSE s.late[d.i] \/ differs
  <2>1. ApplyEdge(s, d) = [s EXCEPT !.v[d.i] = d.v, !.exact[d.i] = ex, !.late[d.i] = la]
    BY <1>5 DEF ApplyEdge
  <2>2. /\ d.reason = "change" => la = FALSE
        /\ d.reason # "change" /\ ~differs => ex = s.exact[d.i] /\ la = s.late[d.i]
        /\ d.reason = "resync" /\ differs => ex = FALSE
    BY <1>1, <1>2, <1>5
  <2> HIDE DEF ex, la
  <2>3. /\ ApplyEdge(s, d).known = s.known
        /\ ApplyEdge(s, d).v = [s.v EXCEPT ![d.i] = d.v]
        /\ ApplyEdge(s, d).exact = [s.exact EXCEPT ![d.i] = ex]
        /\ ApplyEdge(s, d).late = [s.late EXCEPT ![d.i] = la]
    BY <2>1 DEF Screen
  <2>4. /\ \A i \in Item : ApplyEdge(s, d).v[i] = IF i = d.i THEN d.v ELSE s.v[i]
        /\ \A p \in Puesto : ApplyEdge(s, d).exact[p] = IF p = d.i THEN ex ELSE s.exact[p]
        /\ \A p \in Puesto : ApplyEdge(s, d).late[p] = IF p = d.i THEN la ELSE s.late[p]
    BY <1>2, <2>3
  <2>5. QED
    BY <2>2, <2>3, <2>4
<1>6. QED
  BY <1>3, <1>4, <1>5

LEMMA EdgeShown ==
  ASSUME NEW s \in Screen, NEW d \in Edge, s.known, NEW t, t = ApplyEdge(s, d), NEW i \in Item
  PROVE  t.v[i] = IF i = d.i THEN d.v ELSE s.v[i]
BY EdgeApplied

LEMMA EdgeDated ==
  ASSUME NEW s \in Screen, NEW d \in Edge, s.known, NEW t, t = ApplyEdge(s, d), NEW p \in Puesto
  PROVE  /\ p # d.i => (t.exact[p] <=> s.exact[p]) /\ (t.late[p] <=> s.late[p])
         /\ p = d.i /\ d.reason = "change" => ~t.late[p]
         /\ p = d.i /\ d.reason # "change" /\ s.v[p] = d.v =>
              (t.exact[p] <=> s.exact[p]) /\ (t.late[p] <=> s.late[p])
         /\ p = d.i /\ d.reason = "resync" /\ s.v[p] # d.v => ~t.exact[p]
BY EdgeApplied

LEMMA HbShown ==
  ASSUME NEW s \in Screen, NEW h \in Hb
  PROVE  /\ (ApplyHb(s, h).known <=> s.known) /\ ApplyHb(s, h).exact = s.exact /\ ApplyHb(s, h).late = s.late
         /\ \A i \in Item : ApplyHb(s, h).v[i] # s.v[i] =>
                    i \in Puesto /\ Ip[i] \notin h.alive /\ ApplyHb(s, h).v[i] = "unknown"
<1> DEFINE alive == IF s.listed THEN h.alive ELSE {}
           changed == s.live # h.ok \/ s.alive # alive
           greyed == {p \in Puesto : changed /\ s.known /\ s.listed /\ Ip[p] \notin alive}
<1>1. ApplyHb(s, h) = [s EXCEPT !.live = h.ok, !.alive = alive,
                    !.v = [i \in Item |-> IF i \in greyed THEN "unknown" ELSE @[i]]]
  BY DEF ApplyHb
<1>2. \A p \in greyed : p \in Puesto /\ Ip[p] \notin h.alive
  OBVIOUS
<1> HIDE DEF greyed, alive
<1> DEFINE shown == [i \in Item |-> IF i \in greyed THEN "unknown" ELSE s.v[i]]
<1>3. ApplyHb(s, h) = [s EXCEPT !.live = h.ok, !.alive = alive, !.v = shown]
  <2>1. s = [x \in DOMAIN s |-> s[x]]
    BY DEF Screen
  <2>2. QED
    BY <1>1, <2>1
<1> HIDE DEF shown
<1>4. /\ (ApplyHb(s, h).known <=> s.known) /\ ApplyHb(s, h).exact = s.exact /\ ApplyHb(s, h).late = s.late
      /\ ApplyHb(s, h).v = shown
  BY <1>3 DEF Screen
<1>5. \A i \in Item : shown[i] = IF i \in greyed THEN "unknown" ELSE s.v[i]
  BY DEF shown
<1>6. \A i \in Item : ApplyHb(s, h).v[i] # s.v[i] =>
                    i \in Puesto /\ Ip[i] \notin h.alive /\ ApplyHb(s, h).v[i] = "unknown"
  <2>1. \A i \in Item : ApplyHb(s, h).v[i] = shown[i]
    BY <1>4
  <2>2. SUFFICES ASSUME NEW i \in Item, ApplyHb(s, h).v[i] # s.v[i]
                 PROVE  i \in Puesto /\ Ip[i] \notin h.alive /\ ApplyHb(s, h).v[i] = "unknown"
    OBVIOUS
  <2>3. CASE i \in greyed
    BY <1>2, <1>5, <2>1, <2>3
  <2>4. CASE i \notin greyed
    BY <1>5, <2>1, <2>2, <2>4
  <2>5. QED
    BY <2>3, <2>4
<1>7. QED
  BY <1>4, <1>6

LEMMA ReceiveKeeps ==
  ASSUME Types, Types', Inv, Receive
  PROVE  Inv'
<1> DEFINE f == Head(wire)
<1>1. /\ wire # << >> /\ wire' = Tail(wire)
      /\ asked' = IF f = Resync THEN asked + 1 ELSE asked
      /\ UNCHANGED <<daemonVars, unread, conn, queue, answers, wrong>>
      /\ screen' = CASE f.t = "snapshot" -> ApplySnapshot(f)
                     [] f.t = "edge" -> ApplyEdge(screen, f)
                     [] f.t = "hb" -> ApplyHb(screen, f)
                     [] OTHER -> screen
  BY DEF Receive, feedVars
<1>2. wire \in Seq(Frame) /\ f \in Frame
  BY <1>1, Queues
<1>3. FeedIsSound' /\ MirrorFollows' /\ \A i, strict : End(i, strict)' = End(i, strict)
  BY <1>1, SameFeed
<1>4. ASSUME NEW i, NEW strict
      PROVE  /\ Flow(i, strict) => Flow(i, strict)' /\ Leaves(f, i, Now(i, strict)')
             /\ Now(i, strict) = Before1(f, i, strict, Now(i, strict)')
             /\ Owes(i, strict)' = Owes(i, strict)
  <2>1. /\ Chain(unread, queue, wire, i, strict, End(i, strict)) => Chain(unread, queue, Tail(wire), i, strict, End(i, strict))
        /\ Chain(unread, queue, wire, i, strict, End(i, strict)) => Leaves(f, i, Shown(unread, queue, Tail(wire), i, strict, End(i, strict)))
        /\ Shown(unread, queue, wire, i, strict, End(i, strict))
             = Before1(f, i, strict, Shown(unread, queue, Tail(wire), i, strict, End(i, strict)))
    BY <1>1, <1>2, ChainTaken
  <2>2. QED
    BY <1>1, <1>3, <2>1 DEF Flow, Now, Owes
<1>5. Honest(wrong)'
  BY <1>1, <1>4 DEF Inv, Honest
<1>6. AnswersAreHonest'
  <2>1. \A p : Silent(wire, p) => Silent(Tail(wire), p)
    <3>1. \A n \in 1..Len(Tail(wire)) : n + 1 \in 1..Len(wire) /\ Tail(wire)[n] = wire[n + 1]
      BY <1>1, <1>2
    <3>2. QED
      BY <3>1 DEF Silent
  <2>2. \A p : (Silent(queue, p) => Silent(queue, p)') /\ (Silent(wire, p) => Silent(wire, p)')
    BY <1>1, <2>1 DEF Silent
  <2>3. SUFFICES ASSUME NEW a \in answers, ~a.crossed PROVE AnswerIsHonest(a)'
    BY <1>1 DEF AnswersAreHonest
  <2>4. AnswerIsHonest(a)
    BY <2>3 DEF Inv, AnswersAreHonest
  <2>5. QED
    BY <1>4, <2>2, <2>4 DEF AnswerIsHonest, Honest
<1>7. screen \in Screen /\ asked \in Nat
  BY DEF Types, PageType
<1>8. Calm' => f # Resync /\ asked = 0 /\ conn = "open" /\ answers = {}
  BY <1>1, <1>7 DEF Calm
<1>9. /\ f.t = "edge" => f \in Edge /\ f.i \in Item /\ f.v \in Value /\ f.reason \in Reason
      /\ f.t = "snapshot" => f \in Snapshot
      /\ f.t = "hb" => f \in Hb
      /\ f.t = "resync" => f = Resync
      /\ f.t \in {"edge", "snapshot", "hb", "resync", "hoy"}
  <2>1. f.t = "resync" => f = Resync
    BY <1>2 DEF Frame, Edge, Hb, Snapshot, Resync, Hoy
  <2>2. QED
    BY <1>2, <2>1, FrameLeaves, Ips
<1>10. \A i \in Item \ wrong.value : Leaves(f, i, Now(i, FALSE)')
  BY <1>4 DEF Inv, Honest
<1>11. \A p \in Puesto \ wrong.start : Leaves(f, p, Now(p, TRUE)')
  BY <1>4 DEF Inv, Honest
<1>a. \A i : \A strict : Now(i, strict)' \in SUBSET Any
  <2>1. \A i, strict : End(i, strict)' \in SUBSET Any
    BY DEF End, Any
  <2>2. ASSUME NEW i, NEW strict PROVE Now(i, strict)' \in SUBSET Any
    <3> DEFINE E == End(i, strict)'
    <3>1. E \in SUBSET Any
      BY <2>1
    <3> HIDE DEF E
    <3>2. Before(unread', i, strict, E) \in SUBSET Any
      BY <3>1, Within DEF Before
    <3>3. Before(queue', i, strict, Before(unread', i, strict, E)) \in SUBSET Any
      BY <3>2, Within DEF Before
    <3>4. Shown(unread', queue', wire', i, strict, E) \in SUBSET Any
      BY <3>3, Within DEF Before, Shown
    <3>5. QED
      BY <3>4 DEF E, Now
  <2>3. QED
    BY <2>2
<1> HIDE DEF f
<1>12. CASE f.t = "snapshot"
  <2>1. /\ screen'.v = f.v /\ screen'.exact = f.exact /\ screen'.late = [p \in Puesto |-> ~f.exact[p]]
    BY <1>1, <1>12 DEF ApplySnapshot
  <2>2. \A i : \A A : Leaves(f, i, A) => f.v[i] \in A
    BY <1>12 DEF Leaves
  <2>3. ScreenIsHonest'
    BY <1>1, <1>10, <1>11, <2>1, <2>2 DEF ScreenIsHonest
  <2>4. StopwatchIsHonest'
    BY <2>1 DEF StopwatchIsHonest
  <2>5. QED
    BY <1>3, <1>5, <1>6, <2>3, <2>4 DEF Inv
<1>13. CASE f.t = "edge"
  <2>1. screen' = ApplyEdge(screen, f) /\ f \in Edge
    BY <1>1, <1>9, <1>13
  <2>a. screen'.known <=> screen.known
    BY <1>7, <2>1, EdgeApplied
  <2>2. Calm' => Calm
    BY <1>8, <2>a DEF Calm
  <2>3. Calm' => \A i \in Item : screen'.v[i] = IF i = f.i THEN f.v ELSE screen.v[i]
    <3>1. Calm' => screen.known
      BY <2>2 DEF Calm
    <3>2. QED
      BY <1>7, <2>1, <3>1, EdgeShown
  <2>4. \A i : \A strict : i # f.i => Now(i, strict)' = Now(i, strict)
    <3>1. \A i : i # f.i => ~Stops(f, i)
      BY <1>13 DEF Stops, About
    <3>2. QED
      BY <1>4, <3>1 DEF Before1
  <2>5. \A i : \A A : Leaves(f, i, A) /\ i = f.i => f.v \in A
    BY <1>13 DEF Leaves, About
  <2>6. ScreenIsHonest'
    <3>1. SUFFICES ASSUME Calm'
                   PROVE  /\ \A i \in Item \ wrong.value : screen'.v[i] \in Now(i, FALSE)'
                          /\ \A p \in Puesto \ wrong.start : screen'.v[p] \in Now(p, TRUE)'
      BY <1>1 DEF ScreenIsHonest
    <3>2. /\ \A i \in Item \ wrong.value : screen.v[i] \in Now(i, FALSE)
          /\ \A p \in Puesto \ wrong.start : screen.v[p] \in Now(p, TRUE)
      BY <2>2, <3>1 DEF Inv, ScreenIsHonest
    <3>3. ASSUME NEW i \in Item \ wrong.value PROVE screen'.v[i] \in Now(i, FALSE)'
      <4>1. CASE i = f.i
        BY <1>10, <2>3, <2>5, <3>1, <4>1
      <4>2. CASE i # f.i
        <5>1. screen'.v[i] = screen.v[i] /\ Now(i, FALSE)' = Now(i, FALSE)
          BY <2>3, <2>4, <3>1, <4>2
        <5>2. QED
          BY <3>2, <5>1
      <4>3. QED
        BY <4>1, <4>2
    <3>4. ASSUME NEW p \in Puesto \ wrong.start PROVE screen'.v[p] \in Now(p, TRUE)'
      <4>1. CASE p = f.i
        BY <1>11, <2>3, <2>5, <3>1, <4>1, Ips
      <4>2. CASE p # f.i
        <5>1. screen'.v[p] = screen.v[p] /\ Now(p, TRUE)' = Now(p, TRUE)
          BY <2>3, <2>4, <3>1, <4>2, Ips
        <5>2. QED
          BY <3>2, <5>1
      <4>3. QED
        BY <4>1, <4>2
    <3>5. QED
      BY <3>3, <3>4
  <2>7. StopwatchIsHonest'
    <3>1. SUFFICES ASSUME Calm', NEW p \in Puesto \ wrong.start, "any" \notin Now(p, TRUE)',
                          screen'.v[p] = "on", screen'.exact[p]
                   PROVE  ~screen'.late[p]
      BY <1>1 DEF StopwatchIsHonest
    <3>2. Calm /\ screen.known /\ p \in Item
      BY <2>2, <3>1, Ips DEF Calm
    <3>3. screen.v[p] \in Now(p, TRUE)
      BY <3>2 DEF Inv, ScreenIsHonest
    <3>4. "any" \notin Now(p, TRUE) /\ screen.v[p] = "on" /\ screen.exact[p] => ~screen.late[p]
      BY <3>2 DEF Inv, StopwatchIsHonest
    <3>5. CASE p # f.i
      <4>1. Now(p, TRUE)' = Now(p, TRUE) /\ screen'.v[p] = screen.v[p]
        BY <2>3, <2>4, <3>1, <3>2, <3>5
      <4>2. (screen'.exact[p] <=> screen.exact[p]) /\ (screen'.late[p] <=> screen.late[p])
        BY <1>7, <2>1, <3>2, <3>5, EdgeDated
      <4>3. QED
        BY <3>1, <3>4, <4>1, <4>2
    <3>6. CASE p = f.i
      <4>1. /\ f.reason = "change" => ~screen'.late[p]
            /\ f.reason # "change" /\ screen.v[p] = f.v =>
                 (screen'.exact[p] <=> screen.exact[p]) /\ (screen'.late[p] <=> screen.late[p])
            /\ f.reason = "resync" /\ screen.v[p] # f.v => ~screen'.exact[p]
        BY <1>7, <2>1, <3>2, <3>6, EdgeDated
      <4>2. screen'.v[p] = f.v
        BY <2>3, <3>1, <3>2, <3>6
      <4>3. f.reason # "change" =>
              Now(p, TRUE) = {v \in Value : f.reason = "reassert" => v = f.v}
        <5>1. Stops(f, p) /\ (Absolves(f, p, TRUE) => f.reason = "change")
          BY <1>13, <3>6 DEF Stops, About, Absolves
        <5>2. QED
          BY <1>4, <3>1, <5>1 DEF Before1
      <4>4. f.reason # "change" => "any" \notin Now(p, TRUE)
        BY <4>3, Absolving
      <4>5. f.reason \in {"change", "resync", "reassert"}
        BY <1>9, <1>13 DEF Reason
      <4>6. CASE f.reason = "change"
        BY <4>1, <4>6
      <4>7. CASE f.reason = "resync"
        <5>1. screen.v[p] = f.v
          BY <3>1, <4>1, <4>7
        <5>2. QED
          BY <3>1, <3>4, <4>1, <4>2, <4>4, <4>7, <5>1
      <4>8. CASE f.reason = "reassert"
        <5>1. screen.v[p] = f.v
          BY <3>3, <4>3, <4>8
        <5>2. QED
          BY <3>1, <3>4, <4>1, <4>2, <4>4, <4>8, <5>1
      <4>9. QED
        BY <4>5, <4>6, <4>7, <4>8
    <3>7. QED
      BY <3>5, <3>6
  <2>8. QED
    BY <1>3, <1>5, <1>6, <2>6, <2>7 DEF Inv
<1>14. CASE f.t \in {"hb", "resync", "hoy"}
  <2>1. \A i : ~Stops(f, i) \/ f.t = "resync"
    BY <1>14 DEF Stops, About
  <2>2. CASE f.t = "resync"
    <3>1. ~Calm'
      BY <1>8, <1>9, <2>2
    <3>2. QED
      BY <1>3, <1>5, <1>6, <3>1 DEF Inv, ScreenIsHonest, StopwatchIsHonest
  <2>3. CASE f.t # "resync"
    <3>1. \A i : \A strict : Now(i, strict)' = Now(i, strict)
      BY <1>4, <2>1, <2>3 DEF Before1
    <3>2. /\ (screen'.known <=> screen.known) /\ screen'.exact = screen.exact /\ screen'.late = screen.late
          /\ \A i \in Item : screen'.v[i] # screen.v[i] =>
                        f.t = "hb" /\ i \in Puesto /\ Ip[i] \notin f.alive /\ screen'.v[i] = "unknown"
      <4>1. CASE f.t = "hb"
        <5>1. screen' = ApplyHb(screen, f) /\ f \in Hb
          BY <1>1, <1>9, <4>1
        <5>2. /\ (screen'.known <=> screen.known) /\ screen'.exact = screen.exact /\ screen'.late = screen.late
              /\ \A i \in Item : screen'.v[i] # screen.v[i] =>
                        i \in Puesto /\ Ip[i] \notin f.alive /\ screen'.v[i] = "unknown"
          BY <1>7, <5>1, HbShown
        <5>3. QED
          BY <4>1, <5>2
      <4>2. CASE f.t = "hoy"
        <5>1. screen' = screen
          BY <1>1, <4>2
        <5>2. QED
          BY <5>1
      <4>3. QED
        BY <1>14, <2>3, <4>1, <4>2
    <3>3. \A i : \A A : Leaves(f, i, A) /\ f.t = "hb" /\ i \in Puesto /\ Ip[i] \notin f.alive => "unknown" \in A
      BY DEF Leaves
    <3>4. Calm' => Calm
      BY <1>8, <3>2 DEF Calm
    <3>5. ScreenIsHonest'
      <4>1. SUFFICES ASSUME Calm'
                     PROVE  /\ \A i \in Item \ wrong.value : screen'.v[i] \in Now(i, FALSE)'
                            /\ \A p \in Puesto \ wrong.start : screen'.v[p] \in Now(p, TRUE)'
        BY <1>1 DEF ScreenIsHonest
      <4>2. /\ \A i \in Item \ wrong.value : screen.v[i] \in Now(i, FALSE)
            /\ \A p \in Puesto \ wrong.start : screen.v[p] \in Now(p, TRUE)
        BY <3>4, <4>1 DEF Inv, ScreenIsHonest
      <4>3. QED
        BY <1>10, <1>11, <3>1, <3>2, <3>3, <4>2, Ips
    <3>6. StopwatchIsHonest'
      <4>1. SUFFICES ASSUME Calm', NEW p \in Puesto \ wrong.start, "any" \notin Now(p, TRUE)',
                            screen'.v[p] = "on", screen'.exact[p]
                     PROVE  ~screen'.late[p]
        BY <1>1 DEF StopwatchIsHonest
      <4>2. screen.v[p] = "on" /\ "any" \notin Now(p, TRUE) /\ screen.exact[p]
        BY <3>1, <3>2, <4>1, Ips
      <4>3. QED
        BY <3>2, <3>4, <4>1, <4>2 DEF Inv, StopwatchIsHonest
    <3>7. QED
      BY <1>3, <1>5, <1>6, <3>5, <3>6 DEF Inv
  <2>4. QED
    BY <2>2, <2>3
<1>15. QED
  BY <1>9, <1>12, <1>13, <1>14

\* A fetched snapshot that nothing has overtaken sets everything right; one that was
\* overtaken leaves everything in doubt.
LEMMA ApplyAnswerKeeps ==
  ASSUME Types, Inv, ApplyAnswer
  PROVE  Inv'
<1>1. PICK a \in answers :
        /\ answers' = answers \ {a}
        /\ screen' = ApplySnapshot(a.snapshot)
        /\ wrong' = IF a.crossed THEN Everything ELSE a.wrong
        /\ UNCHANGED <<daemonVars, webVars, feedVars, clientVars, asked, faults, said>>
  BY DEF ApplyAnswer
<1>2. UNCHANGED <<daemonVars, unread, queue, wire>>
  BY <1>1 DEF feedVars, clientVars
<1>3. FeedIsSound' /\ MirrorFollows' /\ \A i, strict : End(i, strict)' = End(i, strict)
  BY <1>2, SameFeed
<1>4. /\ \A i, strict : Flow(i, strict)' <=> Flow(i, strict)
      /\ \A i, strict : Owes(i, strict)' = Owes(i, strict)
      /\ \A i, strict : Now(i, strict)' = Now(i, strict)
      /\ \A p : (Silent(queue, p)' <=> Silent(queue, p)) /\ (Silent(wire, p)' <=> Silent(wire, p))
  BY <1>2, <1>3 DEF Flow, Owes, Now, Silent
<1>5. AnswersAreHonest'
  <2>1. SUFFICES ASSUME NEW b \in answers, ~b.crossed PROVE AnswerIsHonest(b)'
    BY <1>1 DEF AnswersAreHonest
  <2>2. AnswerIsHonest(b)
    BY <2>1 DEF Inv, AnswersAreHonest
  <2>3. QED
    BY <1>4, <2>2 DEF AnswerIsHonest, Honest
<1>6. CASE a.crossed
  <2>1. wrong'.value = Item /\ wrong'.start = Puesto
    BY <1>1, <1>6 DEF Everything
  <2>2. Item \ wrong'.value = {} /\ Puesto \ wrong'.start = {}
    BY <2>1
  <2>3. Honest(wrong)' /\ ScreenIsHonest' /\ StopwatchIsHonest'
    BY <2>1, <2>2 DEF Honest, ScreenIsHonest, StopwatchIsHonest
  <2>4. QED
    BY <1>3, <1>5, <2>3 DEF Inv
<1>7. CASE ~a.crossed
  <2>1. wrong' = a.wrong /\ AnswerIsHonest(a)
    BY <1>1, <1>7 DEF Inv, AnswersAreHonest
  <2>2. Honest(wrong)'
    BY <1>4, <2>1 DEF AnswerIsHonest, Honest
  <2>3. /\ screen'.v = a.snapshot.v /\ screen'.exact = a.snapshot.exact
        /\ screen'.late = [p \in Puesto |-> ~a.snapshot.exact[p]]
    BY <1>1 DEF ApplySnapshot
  <2>4. queue \in Seq(Frame) /\ wire \in Seq(Frame)
    BY Queues
  <2>5. \A i \in Item \ wrong'.value : screen'.v[i] \in Now(i, FALSE)'
    <3>1. SUFFICES ASSUME NEW i \in Item \ wrong'.value PROVE Owes(i, FALSE) \subseteq Now(i, FALSE)
      BY <1>4, <2>1, <2>3 DEF AnswerIsHonest
    <3> DEFINE A == Owes(i, FALSE)
               B == Before(queue, i, FALSE, A)
    <3>2. A \in SUBSET Any
      BY Ranges
    <3>3. B \in SUBSET Any
      BY <3>2, Within DEF Before
    <3> HIDE DEF A
    <3>4. A \subseteq B
      BY <2>4, <3>2, OfAValue
    <3> HIDE DEF B
    <3>5. B \subseteq Before(wire, i, FALSE, B)
      BY <2>4, <3>3, OfAValue
    <3>6. QED
      BY <3>4, <3>5 DEF A, B, Owes, Now, Shown
  <2>6. \A p \in Puesto \ wrong'.start : screen'.v[p] \in Now(p, TRUE)'
    <3>1. SUFFICES ASSUME NEW p \in Puesto \ wrong'.start PROVE Owes(p, TRUE) \subseteq Now(p, TRUE)
      BY <1>4, <2>1, <2>3 DEF AnswerIsHonest
    <3>a. Silent(queue, p) /\ Silent(wire, p)
      BY <2>1, <3>1 DEF AnswerIsHonest
    <3> DEFINE A == Owes(p, TRUE)
               B == Before(queue, p, TRUE, A)
    <3>2. A \in SUBSET Any
      BY Ranges
    <3>3. B \in SUBSET Any
      BY <3>2, Within DEF Before
    <3> HIDE DEF A
    <3>4. A \subseteq B
      BY <2>4, <3>2, <3>a, OfASilence
    <3> HIDE DEF B
    <3>5. B \subseteq Before(wire, p, TRUE, B)
      BY <2>4, <3>3, <3>a, OfASilence
    <3>6. QED
      BY <3>4, <3>5 DEF A, B, Owes, Now, Shown
  <2>7. StopwatchIsHonest'
    BY <2>3 DEF StopwatchIsHonest
  <2>8. QED
    BY <1>3, <1>5, <2>2, <2>5, <2>6, <2>7 DEF Inv, ScreenIsHonest
<1>8. QED
  BY <1>6, <1>7

LEMMA BreaksKeep ==
  ASSUME Types, Inv, FetchFails \/ Drop \/ Reload
  PROVE  Inv'
<1>1. UNCHANGED <<daemonVars, unread>>
  BY DEF FetchFails, Drop, Reload, feedVars
<1>2. FeedIsSound' /\ MirrorFollows' /\ \A i, strict : End(i, strict)' = End(i, strict)
  BY <1>1, SameFeed
<1>3. CASE FetchFails
  <2>1. Marks(Item) /\ Cross
    BY <1>3, SpoilMarks, Ips DEF FetchFails
  <2>2. Item \ Item = {} /\ Puesto \ Item = {} /\ Item \in SUBSET Item
    BY Ips
  <2>3. QED
    BY <1>2, <2>1, <2>2, Keeping
<1>4. CASE Drop \/ Reload
  <2>1. /\ conn' = "none" /\ queue' = << >> /\ wire' = << >> /\ UNCHANGED wrong
        /\ UNCHANGED answers \/ answers' = {}
    BY <1>4 DEF Drop, Reload
  <2>2. Marks({})
    BY <2>1 DEF Marks, Inv, Honest
  <2>3. ASSUME NEW i, NEW strict PROVE Keeps(i, strict)
    <3>1. Sound(unread, i, strict, End(i, strict)) => Chain(unread, << >>, << >>, i, strict, End(i, strict))
      BY ChainCut
    <3>2. QED
      BY <1>1, <1>2, <2>1, <3>1 DEF Keeps, Flow, Owes, Chain
  <2>4. \A p : Silent(queue, p)' /\ Silent(wire, p)'
    <3>1. 1..Len(<< >>) = {}
      OBVIOUS
    <3>2. QED
      BY <2>1, <3>1 DEF Silent
  <2>5. /\ \A i \in Item \ {} : Keeps(i, FALSE)
        /\ \A p \in Puesto \ {} : Keeps(p, TRUE)
        /\ \A p \in Puesto : (Silent(queue, p) => Silent(queue, p)')
        /\ \A p \in Puesto : Silent(wire, p) => Silent(wire, p)' \/ ~Silent(queue, p)
    BY <2>3, <2>4
  <2>6. conn' # "open" /\ {} \in SUBSET Item
    BY <2>1
  <2>7. QED
    BY <1>2, <2>1, <2>2, <2>5, <2>6, Keeping
<1>5. QED
  BY <1>3, <1>4

LEMMA ProcessKeeps ==
  ASSUME Types, Inv, WebStart \/ WebCrash
  PROVE  Inv'
<1>1. CASE WebStart
  <2>1. UNCHANGED <<daemonVars, unread, conn, queue, wire, asked, answers, screen, wrong>>
    BY <1>1 DEF WebStart, feedVars, clientVars, pageVars
  <2>2. FeedIsSound' /\ MirrorFollows' /\ \A i, strict : End(i, strict)' = End(i, strict)
    BY <2>1, SameFeed
  <2>3. /\ \A i \in Item \ {} : Keeps(i, FALSE) /\ Shows(i, FALSE)
        /\ \A p \in Puesto \ {} : Keeps(p, TRUE) /\ Shows(p, TRUE)
    BY <2>1, <2>2, SameQueues
  <2>4. /\ \A p \in Puesto : (Silent(queue, p) => Silent(queue, p)')
        /\ \A p \in Puesto : Silent(wire, p) => Silent(wire, p)' \/ ~Silent(queue, p)
    BY <2>1 DEF Silent
  <2>5. Marks({})
    BY <2>1 DEF Marks, Inv, Honest
  <2>6. QED
    BY <2>1, <2>2, <2>3, <2>4, <2>5, Keeping
<1>2. CASE WebCrash
  <2> DEFINE missed == {d.i : d \in Members(unread)}
  <2>1. /\ unread' = << >> /\ conn' = "none" /\ queue' = << >> /\ wire' = << >>
        /\ Spoil(missed) /\ UNCHANGED daemonVars
    BY <1>2 DEF WebCrash
  <2>2. missed \in SUBSET Item
    BY EntriesOf
  <2>3. MirrorFollows' /\ \A i, strict : End(i, strict)' = End(i, strict)
    BY <2>1 DEF Inv, MirrorFollows, End, Posted, daemonVars
  <2>4. FeedIsSound'
    <3>1. \A i, strict, A : Sound(<< >>, i, strict, A)
      BY Atomic
    <3>2. QED
      BY <2>1, <3>1 DEF FeedIsSound
  <2>5. ASSUME NEW i \in Item \ missed, NEW strict PROVE Keeps(i, strict)
    <3>1. Silent(unread, i) /\ unread \in Seq(Edge)
      BY <2>5, EntriesOf, Queues
    <3>2. Before(<< >>, i, strict, End(i, strict)) = Before(unread, i, strict, End(i, strict))
      BY <3>1, ChainLost
    <3>3. Sound(<< >>, i, strict, End(i, strict))
      BY Atomic
    <3>4. Chain(<< >>, << >>, << >>, i, strict, End(i, strict))
      BY <3>3, ChainCut
    <3>5. QED
      BY <2>1, <2>3, <3>2, <3>4 DEF Keeps, Flow, Owes
  <2>6. \A p : Silent(queue, p)' /\ Silent(wire, p)'
    <3>1. 1..Len(<< >>) = {}
      OBVIOUS
    <3>2. QED
      BY <2>1, <3>1 DEF Silent
  <2> HIDE DEF missed
  <2>7. Marks(missed) /\ (missed = {} => UNCHANGED answers) /\ (missed # {} => Cross)
    BY <2>1, <2>2, SpoilMarks
  <2>8. /\ \A i \in Item \ missed : Keeps(i, FALSE)
        /\ \A p \in Puesto \ missed : Keeps(p, TRUE)
        /\ \A p \in Puesto : (Silent(queue, p) => Silent(queue, p)')
        /\ \A p \in Puesto : Silent(wire, p) => Silent(wire, p)' \/ ~Silent(queue, p)
    BY <2>5, <2>6, Ips
  <2>9. conn' # "open"
    BY <2>1
  <2>10. QED
    BY <2>2, <2>3, <2>4, <2>7, <2>8, <2>9, Keeping
<1>3. QED
  BY <1>1, <1>2

LEMMA InitInv == Init => Inv
<1> SUFFICES ASSUME Init PROVE Inv
  OBVIOUS
<1> USE DEF Init
<1>1. MirrorFollows
  BY Ips DEF MirrorFollows
<1>2. FeedIsSound
  <2>1. \A i, strict, A : Sound(<< >>, i, strict, A)
    BY Atomic
  <2>2. QED
    BY <2>1 DEF FeedIsSound
<1>3. Honest(wrong)
  BY DEF Honest, Everything
<1>4. AnswersAreHonest /\ ScreenIsHonest /\ StopwatchIsHonest
  BY DEF AnswersAreHonest, ScreenIsHonest, StopwatchIsHonest, Calm
<1>5. QED
  BY <1>1, <1>2, <1>3, <1>4 DEF Inv

LEMMA StepInv == Types /\ Inv /\ [Next]_vars => Inv'
<1> SUFFICES ASSUME Types, Inv, [Next]_vars PROVE Inv'
  OBVIOUS
<1>0. Types'
  BY StepTypes
<1>1. CASE UNCHANGED vars
  <2>1. UNCHANGED <<daemonVars, unread, conn, queue, wire, asked, answers, screen, wrong>>
    BY <1>1 DEF vars, feedVars, clientVars, pageVars
  <2>2. FeedIsSound' /\ MirrorFollows' /\ \A i, strict : End(i, strict)' = End(i, strict)
    BY <2>1, SameFeed
  <2>3. /\ \A i \in Item \ {} : Keeps(i, FALSE) /\ Shows(i, FALSE)
        /\ \A p \in Puesto \ {} : Keeps(p, TRUE) /\ Shows(p, TRUE)
    BY <2>1, <2>2, SameQueues
  <2>4. /\ \A p \in Puesto : (Silent(queue, p) => Silent(queue, p)')
        /\ \A p \in Puesto : Silent(wire, p) => Silent(wire, p)' \/ ~Silent(queue, p)
    BY <2>1 DEF Silent
  <2>5. Marks({})
    BY <2>1 DEF Marks, Inv, Honest
  <2>6. QED
    BY <2>1, <2>2, <2>3, <2>4, <2>5, Keeping
<1>2. CASE Next
  BY <1>0, <1>2, SayingKeeps, DaemonKeeps, DeliverKeeps, ReadFailsKeeps, TellingKeeps, SendKeeps,
     SendSnapshotKeeps, AnswerKeeps, ReceiveKeeps, ApplyAnswerKeeps, BreaksKeep, ProcessKeeps DEF Next
<1>3. QED
  BY <1>1, <1>2

\* The inductive invariant: what is on its way from the daemon to the screen, and every
\* snapshot that is fetched, tells the truth outside the gaps.
THEOREM InvHolds == Spec => [](Types /\ Inv)
<1>1. Init => Types /\ Inv
  BY InitTypes, InitInv
<1>2. Types /\ Inv /\ [Next]_vars => (Types /\ Inv)'
  BY StepTypes, StepInv
<1>3. QED
  BY <1>1, <1>2, PTL DEF Spec

----
(* When nothing is on its way, what may be shown is what the daemon holds. *)

LEMMA QuietNow ==
  ASSUME Types, Inv, Quiet, NEW i \in Item, NEW strict
  PROVE  Calm /\ i \notin resync /\ Now(i, strict) = End(i, strict)
<1>1. Calm /\ unread = << >> /\ resync = {}
  BY DEF Quiet, Calm
<1>2. \A f \in Members(queue \o wire) : f.t \in {"hb", "hoy"}
  BY DEF Quiet
<1>3. queue \in Seq(Frame) /\ wire \in Seq(Frame)
  BY Queues
<1>4. (\A n \in 1..Len(queue) : ~Stops(queue[n], i)) /\ (\A n \in 1..Len(wire) : ~Stops(wire[n], i))
  <2> DEFINE r == queue \o wire
  <2>1. /\ Len(queue) \in Nat /\ Len(wire) \in Nat /\ r \in Seq(Frame) /\ DOMAIN r = 1..Len(r)
        /\ Len(r) = Len(queue) + Len(wire)
        /\ \A n \in 1..Len(r) : r[n] = IF n <= Len(queue) THEN queue[n] ELSE wire[n - Len(queue)]
    BY <1>3
  <2>2. \A n \in 1..Len(queue) : n \in 1..Len(r) /\ r[n] = queue[n]
    BY <2>1
  <2>3. \A n \in 1..Len(wire) : (n + Len(queue)) \in 1..Len(r) /\ r[n + Len(queue)] = wire[n]
    BY <2>1
  <2>4. \A n \in 1..Len(r) : r[n].t \in {"hb", "hoy"}
    BY <1>2, <2>1 DEF Members
  <2> HIDE DEF r
  <2>5. QED
    BY <2>2, <2>3, <2>4 DEF Stops, About
<1>5. \A A : Before(unread, i, strict, A) = A /\ Before(queue, i, strict, A) = A /\ Before(wire, i, strict, A) = A
  <2>1. \A A : Before(<< >>, i, strict, A) = A
    BY Atomic
  <2>2. \A A : Before(queue, i, strict, A) = A /\ Before(wire, i, strict, A) = A
    BY <1>4 DEF Before, BeforeFrom
  <2>3. QED
    BY <1>1, <2>1, <2>2
<1>6. Now(i, strict) = End(i, strict)
  BY <1>5 DEF Now, Shown
<1>7. QED
  BY <1>1, <1>6

LEMMA InvGivesQuietScreen == Types /\ Inv => QuietScreenIsTrue
<1> SUFFICES ASSUME Types, Inv, Quiet, NEW i \in Item \ wrong.value PROVE Agrees(i)
  BY DEF QuietScreenIsTrue
<1>1. screen.v[i] \in Now(i, FALSE)
  BY QuietNow DEF Inv, ScreenIsHonest
<1>2. i \notin resync /\ Now(i, FALSE) = End(i, FALSE)
  BY QuietNow
<1>3. QED
  BY <1>1, <1>2 DEF Agrees, End

LEMMA InvGivesHonestChrono == Types /\ Inv => ChronoIsHonest
<1> SUFFICES ASSUME Types, Inv, NEW p \in Puesto \ wrong.start, Quiet, screen.v[p] = "on", screen.exact[p]
             PROVE  ~screen.late[p]
  BY DEF ChronoIsHonest
<1>1. p \in Item
  BY Ips
<1>2. Calm /\ "any" \notin Now(p, TRUE)
  <2>1. Calm /\ Now(p, TRUE) = End(p, TRUE)
    BY <1>1, QuietNow
  <2>2. End(p, TRUE) \in SUBSET Value
    BY Ranges
  <2>3. QED
    BY <2>1, <2>2, Absolving
<1>3. QED
  BY <1>2 DEF Inv, StopwatchIsHonest

\* When nothing is on its way, the screen of a browser shows what the mirror says of every
\* item outside the gaps, or what the daemon told last if that was never mirrored, whatever
\* overflowed, broke, crashed, expired or was fetched before.
THEOREM QuietScreen == Spec => []QuietScreenIsTrue
<1>1. QED
  BY InvHolds, InvGivesQuietScreen, PTL

\* A stopwatch that the page shows without its ">=" did not start after the stop did, outside
\* the gaps, and whatever writes of the mirror were skipped.
THEOREM HonestChrono == Spec => []ChronoIsHonest
<1>1. QED
  BY InvHolds, InvGivesHonestChrono, PTL
====
