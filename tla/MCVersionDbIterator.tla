---- MODULE MCVersionDbIterator ----
(* Small instances of VersionDbIterator for TLC. *)
EXTENDS VersionDbIterator
====
