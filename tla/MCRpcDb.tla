---- MODULE MCRpcDb ----
(* Small instances of RpcDb for TLC. *)
EXTENDS RpcDb, TLC

Symmetric == Permutations(Clients) \cup Permutations(Values)
====
