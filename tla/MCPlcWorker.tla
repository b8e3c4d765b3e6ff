---- MODULE MCPlcWorker ----
(* Instances of PlcWorker for TLC; the unit of time is half a second. *)
EXTENDS PlcWorker
====
