------------------------------ MODULE TxnStore ------------------------------
(***************************************************************************)
(* What subnet/rpc/database promises of a Commitable database (the traits  *)
(* of database/mod.rs), as a client sees it: each call takes effect at one *)
(* moment between its beginning and its end.  Readers see one map from     *)
(* keys to values; put, delete and the writing of a batch change exactly   *)
(* what they name; commit makes all of the map the content of the          *)
(* underlying database at once, or fails and changes nothing; abort gives  *)
(* back the map that was last committed; once closed the database lets no  *)
(* call in but abort.  Nothing here says how changes are staged, what is   *)
(* locked, or in which steps a commit is carried out.                      *)
(***************************************************************************)
CONSTANTS
  Clients,  \* those who hold the database
  Writers,  \* the ones that change it
  Keys,     \* keys of the database
  Values,   \* values a key may be mapped to
  Empty,    \* the empty byte string
  None,     \* marks a key that is mapped to nothing
  Unset,    \* marks a key that a change leaves as it is
  Deleted,  \* marks a key that a change deletes
  Batches   \* the changes a write batch may carry

VARIABLES
  committed,  \* the content of the underlying database
  view,       \* what has and get answer from
  closed,     \* no call but abort is let in
  failing,    \* the underlying database fails: it is closed
  request,    \* what each client has asked for and has no answer to
  held,       \* clients whose batch from commit_batch may still be written
  ret         \* the answer that was given last

vars == <<committed, view, closed, failing, request, held, ret>>

NoRequest == [op |-> "none"]

\* A change that names one key.
Only(k, v) == [j \in Keys |-> IF j = k THEN v ELSE Unset]

Reads == [op : {"has", "get"}, key : Keys]

Changes == {[op |-> "put", change |-> Only(k, v)] : k \in Keys, v \in Values}
             \cup {[op |-> "delete", change |-> Only(k, Deleted)] : k \in Keys}
             \cup {[op |-> "write", change |-> b] : b \in Batches}

Endings == [op : {"commit", "commit_batch", "abort"}]

Changed(change) ==
  [k \in Keys |-> IF change[k] = Unset THEN view[k]
                  ELSE IF change[k] = Deleted THEN None ELSE change[k]]

Init ==
  /\ committed = [k \in Keys |-> None]
  /\ view = committed
  /\ closed = FALSE
  /\ failing = FALSE
  /\ request = [c \in Clients |-> NoRequest]
  /\ held = {}
  /\ ret = "ok"

-----------------------------------------------------------------------------
\* A batch from commit_batch is good until the next call that changes.
Ask(c, r) ==
  /\ request[c] = NoRequest
  /\ closed => r.op = "abort"
  /\ request' = [request EXCEPT ![c] = r]
  /\ held' = IF r \in Reads THEN held ELSE {}
  /\ UNCHANGED <<committed, view, closed, failing, ret>>

Refuse(c) ==
  /\ request[c] = NoRequest
  /\ closed
  /\ ret' = "closed"
  /\ UNCHANGED <<committed, view, closed, failing, request, held>>

Asked(c, op) == request[c].op = op

Answer(c, r) ==
  /\ request' = [request EXCEPT ![c] = NoRequest]
  /\ ret' = r

Has(c) ==
  /\ Asked(c, "has")
  /\ Answer(c, IF view[request[c].key] = None THEN "false" ELSE "true")
  /\ UNCHANGED <<committed, view, closed, failing, held>>

\* Of a key that is mapped to nothing get may return the empty value in place
\* of an error; it may fail otherwise only when it needs what is below, and
\* then of no key the view has changed.
Get(c) ==
  LET v == view[request[c].key]
      old == committed[request[c].key]
  IN /\ Asked(c, "get")
     /\ \/ Answer(c, IF v = None THEN "notfound" ELSE v)
        \/ v = None /\ Answer(c, Empty)
        \/ failing /\ v = old /\ Answer(c, "closed")
     /\ UNCHANGED <<committed, view, closed, failing, held>>

Change(c) ==
  /\ request[c].op \in {"put", "delete", "write"}
  /\ view' = Changed(request[c].change)
  /\ Answer(c, "ok")
  /\ UNCHANGED <<committed, closed, failing, held>>

Abort(c) ==
  /\ Asked(c, "abort")
  /\ view' = committed
  /\ Answer(c, "ok")
  /\ UNCHANGED <<committed, closed, failing, held>>

\* A commit takes effect at once, and is answered when it has.
Commit(c) ==
  /\ Asked(c, "commit")
  /\ ~failing
  /\ committed' = view
  /\ request' = [request EXCEPT ![c] = [op |-> "committed"]]
  /\ UNCHANGED <<view, closed, failing, held, ret>>

CommitReturns(c) ==
  /\ Asked(c, "committed")
  /\ Answer(c, "ok")
  /\ UNCHANGED <<committed, view, closed, failing, held>>

CommitFails(c) ==
  /\ Asked(c, "commit")
  /\ failing
  /\ Answer(c, "closed")
  /\ UNCHANGED <<committed, view, closed, failing, held>>

CommitBatch(c) ==
  /\ Asked(c, "commit_batch")
  /\ held' = held \cup {c}
  /\ Answer(c, "ok")
  /\ UNCHANGED <<committed, view, closed, failing>>

\* The batch commit_batch returned is written: a commit of its own.
WriteHeld(c) ==
  /\ request[c] = NoRequest
  /\ c \in held
  /\ \/ /\ ~failing
        /\ committed' = view
        /\ held' = held \ {c}
        /\ ret' = "ok"
     \/ /\ failing
        /\ ret' = "closed"
        /\ UNCHANGED <<committed, held>>
  /\ UNCHANGED <<view, closed, failing, request>>

Close(c) ==
  /\ Asked(c, "close")
  /\ closed' = TRUE
  /\ Answer(c, "ok")
  /\ UNCHANGED <<committed, view, failing, held>>

Fail ==
  /\ ~failing
  /\ failing' = TRUE
  /\ UNCHANGED <<committed, view, closed, request, held, ret>>

Next ==
  \/ \E c \in Clients :
       \/ \E r \in Reads \cup {[op |-> "close"]} : Ask(c, r)
       \/ Refuse(c) \/ Has(c) \/ Get(c) \/ Close(c)
  \/ \E c \in Writers :
       \/ \E r \in Changes \cup Endings : Ask(c, r)
       \/ Change(c) \/ Abort(c) \/ WriteHeld(c)
       \/ Commit(c) \/ CommitReturns(c) \/ CommitFails(c) \/ CommitBatch(c)
  \/ Fail

Spec == Init /\ [][Next]_vars
=============================================================================
