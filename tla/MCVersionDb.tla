---- MODULE MCVersionDb ----
(* Small instances of VersionDb for TLC. *)
EXTENDS VersionDb

\* A write batch that puts every key, and one that deletes every key: the
\* batches whose effect no single put or delete has.
MCBatches == {[k \in Keys |-> Empty], [k \in Keys |-> Deleted]}
====
