---- MODULE MCLineState ----
(* Instances of LineState for TLC. *)
EXTENDS LineState
====
