---- MODULE MCPublishBuffer ----
(* Instances of PublishBuffer for TLC. *)
EXTENDS PublishBuffer

CONSTANTS w1, w2

MCEvent == Thread \X (0..MaxPublish)
====
