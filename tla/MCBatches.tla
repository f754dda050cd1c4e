---- MODULE MCBatches ----
(* Small instances of Batches for TLC. *)
EXTENDS Batches
====
