---- MODULE Screen ----
(***************************************************************************)
(* The monitor page (static/js/monitor.js): what the screen of a browser   *)
(* holds, and how a snapshot, a delta and a heartbeat change it.  An item  *)
(* is a station's relay or the line ("noria").  Of a clock time only this  *)
(* is kept: `late` says that the stopwatch started after the stop did.     *)
(***************************************************************************)
EXTENDS FiniteSets

CONSTANTS
  Puesto,  \* stations
  Noria,   \* the line
  Plc,     \* PLCs
  Ip       \* the PLC of a station, and of the line (the variador)

ASSUME ScreenAssumption ==
  /\ Noria \notin Puesto
  /\ Ip \in [Puesto \cup {Noria} -> Plc]

Item == Puesto \cup {Noria}
Value == {"on", "off", "unknown"}
Reason == {"change", "resync", "reassert"}

Screen == [v : [Item -> Value], exact : [Puesto -> BOOLEAN], late : [Puesto -> BOOLEAN],
           known : BOOLEAN, listed : BOOLEAN, alive : SUBSET Plc, live : BOOLEAN]

\* estado, as the page loads: no stations, no PLCs, not live.
Blank == [v |-> [i \in Item |-> "unknown"], exact |-> [p \in Puesto |-> FALSE],
          late |-> [p \in Puesto |-> FALSE], known |-> FALSE, listed |-> FALSE,
          alive |-> {}, live |-> FALSE]

\* aplicarSnapshot: everything is replaced.
ApplySnapshot(s) ==
  [v |-> s.v, exact |-> s.exact, late |-> [p \in Puesto |-> ~s.exact[p]],
   known |-> s.known, listed |-> s.listed, alive |-> s.alive, live |-> s.ok]

\* Faulty variant: a state found after a gap is dated like one that was seen to begin.
ApplyEdgeTrusting(screen, d) ==
  IF d.i = Noria THEN [screen EXCEPT !.v[Noria] = d.v]
  ELSE IF ~screen.known THEN screen
  ELSE LET differs == screen.v[d.i] # d.v
       IN [screen EXCEPT
             !.v[d.i] = d.v,
             !.exact[d.i] = IF d.reason = "change" \/ differs THEN TRUE ELSE @,
             !.late[d.i] = IF d.reason = "change" THEN FALSE ELSE @ \/ differs]

\* aplicarDelta, "speed", "noria" and "input".  A flip starts the stopwatch; anything
\* else restarts it only where the screen showed another state.
ApplyEdge(screen, d) ==
  IF d.i = Noria THEN [screen EXCEPT !.v[Noria] = d.v]
  ELSE IF ~screen.known THEN screen
  ELSE LET differs == screen.v[d.i] # d.v
       IN [screen EXCEPT
             !.v[d.i] = d.v,
             !.exact[d.i] = IF d.reason = "change" THEN TRUE
                            ELSE IF differs THEN d.reason # "resync" ELSE @,
             !.late[d.i] = IF d.reason = "change" THEN FALSE ELSE @ \/ differs]

\* Faulty variant: a heartbeat speaks of Redis only.
ApplyHbPlain(screen, h) == [screen EXCEPT !.live = h.ok]

\* aplicarHb: on any change of health the stations of PLCs that do not answer turn
\* unknown.  Nothing here brings one back, nor touches the line.
ApplyHb(screen, h) ==
  LET alive == IF screen.listed THEN h.alive ELSE {}
      changed == screen.live # h.ok \/ screen.alive # alive
      greyed == {p \in Puesto : changed /\ screen.known /\ screen.listed /\ Ip[p] \notin alive}
  IN [screen EXCEPT !.live = h.ok, !.alive = alive,
                    !.v = [i \in Item |-> IF i \in greyed THEN "unknown" ELSE @[i]]]

\* es.onerror
Disconnected(screen) == [screen EXCEPT !.live = FALSE]
====
