---- MODULE MCVmServer ----
(* Small instances of VmServer for TLC. *)
EXTENDS VmServer

\* The block of height 1 is longer than the others.
MCBlockLen == [h \in 0..Top |-> IF h = 1 THEN 2 ELSE 1]

\* With the first an answer is cut by its length, with the second by its number.
MCLimits == {[num |-> 3, bytes |-> 3], [num |-> 2, bytes |-> 9]}
====
