------------------------------- MODULE Batches -------------------------------
(***************************************************************************)
(* The write batches of the databases: memdb/batch.rs, versiondb/batch.rs  *)
(* and rpcdb/client/batch.rs.  All three queue operations and apply them   *)
(* on write.  rpcdb sends one operation per key to its server, which puts  *)
(* them in a batch of the database it serves.                              *)
(***************************************************************************)
EXTENDS Integers, Sequences, SequencesExt

CONSTANTS
  Kinds,    \* which of the batches: of "memdb", "versiondb" or "rpcdb"
  Keys, Values, None, Deleted,
  MaxQueue, \* bound: no more operations are queued than this
  MaxSize   \* bound: nor any more once size() is this large

VARIABLES
  kind,    \* which batch this is
  store,   \* the host database
  closed,  \* the host database is closed
  writes,  \* the queue
  size,    \* what size() returns
  replay,  \* number of operations a replay under way has done, -1 if none
  ret      \* how the last write or replay ended

vars == <<kind, store, closed, writes, size, replay, ret>>

Op == [key : Keys, value : Values \cup {Deleted}]

\* Lengths of keys and values: only that they are not zero matters.
Length(o) == IF o.value = Deleted THEN 1 ELSE 2

Do(s, o) == [s EXCEPT ![o.key] = IF o.value = Deleted THEN None ELSE o.value]

\* The operations of q one after the other.
InOrder(s, q) == FoldLeft(Do, s, q)

\* rpcdb: the first operation of each key is sent, the others are passed over.
FirstPerKey(q) ==
  LET firsts == {i \in 1..Len(q) : \A j \in 1..i - 1 : q[j].key # q[i].key}
  IN [i \in 1..Cardinality(firsts) |-> q[SetToSortSeq(firsts, <)[i]]]

PutsThenDeletes(q) == LET puts(o) == o.value # Deleted
                          dels(o) == o.value = Deleted
                      IN SelectSeq(q, puts) \o SelectSeq(q, dels)

\* The request has all puts before all deletes.
Request(q) == PutsThenDeletes(FirstPerKey(q))

\* Mutant: every kind of batch does its puts before its deletes.
Applied_PutsFirst(s, q) == InOrder(s, PutsThenDeletes(q))

Applied(s, q) == IF kind = "rpcdb" THEN InOrder(s, Request(q)) ELSE InOrder(s, q)

-----------------------------------------------------------------------------
\* put and delete.
Queue(o) ==
  /\ Len(writes) < MaxQueue /\ size < MaxSize
  /\ replay = -1
  /\ writes' = Append(writes, o)
  /\ size' = size + Length(o)
  /\ ret' = "none"
  /\ UNCHANGED <<kind, store, closed, replay>>

\* write does not empty the queue.
Write ==
  /\ replay = -1
  /\ \/ closed /\ ret' = "closed" /\ UNCHANGED store
     \/ ~closed /\ ret' = "written" /\ store' = Applied(store, writes)
  /\ UNCHANGED <<kind, closed, writes, size, replay>>

\* memdb alone leaves the size as it is.
Reset ==
  /\ replay = -1
  /\ writes' = <<>>
  /\ size' = IF kind = "memdb" THEN size ELSE 0
  /\ ret' = "none"
  /\ UNCHANGED <<kind, store, closed, replay>>

\* replay holds the queue's lock to its end, but not the database's, which
\* may be closed between two operations: what was replayed stays.
StartReplay ==
  /\ replay = -1
  /\ replay' = 0
  /\ ret' = "none"
  /\ UNCHANGED <<kind, store, closed, writes, size>>

Replay ==
  /\ replay \in 0..Len(writes) - 1
  /\ \/ /\ closed
        /\ replay' = -1 /\ ret' = "closed"
        /\ UNCHANGED store
     \/ /\ ~closed
        /\ store' = Do(store, writes[replay + 1])
        /\ replay' = replay + 1
        /\ UNCHANGED ret
  /\ UNCHANGED <<kind, closed, writes, size>>

EndReplay ==
  /\ replay = Len(writes)
  /\ replay' = -1 /\ ret' = "replayed"
  /\ UNCHANGED <<kind, store, closed, writes, size>>

CloseHost ==
  /\ ~closed
  /\ closed' = TRUE
  /\ UNCHANGED <<kind, store, writes, size, replay, ret>>

Init ==
  /\ kind \in Kinds
  /\ store = [k \in Keys |-> None]
  /\ closed = FALSE
  /\ writes = <<>>
  /\ size = 0
  /\ replay = -1
  /\ ret = "none"

Next ==
  \/ \E o \in Op : Queue(o)
  \/ Reset \/ Write \/ StartReplay \/ Replay \/ EndReplay \/ CloseHost

Spec == Init /\ [][Next]_vars

-----------------------------------------------------------------------------
(* Properties.                                                             *)

\* write leaves the open database as replaying the queue in order would: for a
\* key that was changed twice the later operation counts.  And a replay that
\* says it is done has left what each key was last changed to.
WriteIsReplay ==
  [][/\ ret' = "written" /\ ~closed' => store' = InOrder(store, writes)
     /\ replay # -1 /\ replay' = -1 /\ ret' = "replayed" =>
          \A i \in 1..Len(writes) :
            (\A j \in i + 1..Len(writes) : writes[j].key # writes[i].key) =>
              store' = Do(store', writes[i])]_vars
=============================================================================
