---- MODULE MCMonitor ----
(* Instances of Monitor for TLC: a station, the line, and a PLC for each. *)
EXTENDS Monitor

CONSTANTS w1, w2, p1, noria

OneEach == [i \in {p1, noria} |-> IF i = p1 THEN w1 ELSE w2]

\* A PLC that returns says everything again; a skipped write is only told by what follows.
Costs == [k \in FaultKinds |-> CASE k = "plc" -> 2 [] k = "mirror" -> 0 [] OTHER -> 1]
====
