---- MODULE MCLiveMirror ----
(* Instances of LiveMirror for TLC; the unit of time is a poll. *)
EXTENDS LiveMirror

CONSTANT w1

\* One worker has all stations.
AllOfOne == [p \in Puesto |-> w1]

Shrinks == {Puesto, Puesto \ {1}}
====
