---- MODULE MCWriter ----
(* Instances of Writer for TLC. *)
EXTENDS Writer, TLC

CONSTANTS g1, g2, bad, poison, live

\* The two good events are interchangeable.
GoodSymmetry == Permutations({g1, g2})
====
