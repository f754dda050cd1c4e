------------------------------ MODULE VersionDb ------------------------------
(***************************************************************************)
(* subnet/rpc/database/versiondb: a database that keeps changes in memory  *)
(* (mem) on top of an underlying database (db, a memdb) until commit.      *)
(*                                                                         *)
(* The handles of one versiondb are clones that share mem, the commit      *)
(* batch and the closed flag through Arc, so a client here is one clone:   *)
(* `&mut self` keeps the calls of one clone apart, and nothing keeps the   *)
(* calls of two clones apart but the lock around mem.  Every await point   *)
(* at which another clone can run is a step of its own; closed is loaded   *)
(* before the lock is taken, so a call can be overtaken by a close.        *)
(***************************************************************************)
CONSTANTS
  Clients,  \* the clones of the handle
  Writers,  \* the clones that stage, commit and abort; the others only read
  Keys,
  Values,
  Empty,    \* the empty byte string, the value a staged delete carries
  None,     \* the underlying database has no such key
  Unset,    \* mem (or the batch) has no entry for the key
  Deleted,  \* the entry is a ValueDelete with delete = true
  Batches   \* contents a write batch made by new_batch may have

Staged == [Keys -> Values \cup {Deleted, Unset}]
Store  == [Keys -> Values \cup {None}]

ASSUME ConstantsAssumption ==
  /\ Writers \subseteq Clients
  /\ Empty \in Values
  /\ None \notin Values
  /\ Values \cap {Unset, Deleted} = {}
  /\ Unset # Deleted
  /\ Batches \subseteq Staged

VARIABLES
  db,        \* content of the underlying database
  dbClosed,  \* the underlying database is closed
  mem,       \* the in-memory layer, one entry per key
  batch,     \* writes of the shared commit batch: the last one per key
  closed,    \* the versiondb is closed
  pc,        \* what each client is doing, "idle" between two calls
  arg,       \* the arguments of the call under way
  todo,      \* keys commit_batch still has to push
  held,      \* clients whose batch from commit_batch may still be written
  ret        \* what the call that ended last returned

vars == <<db, dbClosed, mem, batch, closed, pc, arg, todo, held, ret>>

Empties == [k \in Keys |-> Unset]

\* What a map m of staged changes makes of the map b below it: an entry for
\* the key wins, a deleted one hides it.
Overlay(m, b) ==
  [k \in Keys |-> IF m[k] = Unset THEN b[k]
                  ELSE IF m[k] = Deleted THEN None ELSE m[k]]

\* What a read of the whole database would see.
View == Overlay(mem, db)

-----------------------------------------------------------------------------
(* Calls: each one first loads closed.                                     *)

Idle(c) == pc[c] = "idle"

NoCall == [op |-> "none"]

Return(c, r) ==
  /\ pc' = [pc EXCEPT ![c] = "idle"]
  /\ arg' = [arg EXCEPT ![c] = NoCall]
  /\ ret' = r

\* The trait asks that a batch from commit_batch be written before the next
\* call that modifies the database, or never.
Begin(c, a, where) ==
  /\ Idle(c)
  /\ pc' = [pc EXCEPT ![c] = where]
  /\ arg' = [arg EXCEPT ![c] = a]
  /\ held' = IF a.op \in {"has", "get"} THEN held ELSE {}

Refuse(c) ==
  /\ Idle(c)
  /\ closed
  /\ Return(c, "closed")
  /\ UNCHANGED <<db, dbClosed, mem, batch, closed, todo, held>>

Start(c, a, where) ==
  /\ ~closed
  /\ Begin(c, a, where)
  /\ UNCHANGED <<db, dbClosed, mem, batch, closed, todo, ret>>

CallHas(c)    == \E k \in Keys : Start(c, [op |-> "has", key |-> k], "read")
CallGet(c)    == \E k \in Keys : Start(c, [op |-> "get", key |-> k], "read")
CallPut(c)    == \E k \in Keys, v \in Values :
                   Start(c, [op |-> "put", change |-> [Empties EXCEPT ![k] = v]], "stage")
CallDelete(c) == \E k \in Keys :
                   Start(c, [op |-> "delete", change |-> [Empties EXCEPT ![k] = Deleted]], "stage")
CallWrite(c)  == \E b \in Batches : Start(c, [op |-> "write", change |-> b], "stage")
CallCommit(c) == Start(c, [op |-> "commit"], "lock")
CallCommitBatch(c) == Start(c, [op |-> "commit_batch"], "lock")
CallClose(c)  == Start(c, [op |-> "close"], "close")

\* abort is the one call that does not load closed.
CallAbort(c) ==
  /\ Begin(c, [op |-> "abort"], "clear")
  /\ UNCHANGED <<db, dbClosed, mem, batch, closed, todo, ret>>

-----------------------------------------------------------------------------
(* The lock around mem.                                                    *)

\* Mutants: the guard of a missed read dropped before the call below; the
\* guard of commit_batch still held when commit clears mem.
HoldsReadLock_NotBelow(c) == pc[c] = "push"
HoldsReadLock_WhileClearing(c) ==
  \/ pc[c] \in {"below", "push"}
  \/ pc[c] \in {"write", "reset", "clear"} /\ arg[c].op = "commit"

\* A read that missed keeps its read guard over the call below, and
\* commit_batch keeps its own over all the pushes.
HoldsReadLock(c) == pc[c] \in {"below", "push"}

CanWriteLock == \A c \in Clients : ~HoldsReadLock(c)

-----------------------------------------------------------------------------
(* Reads.                                                                  *)

\* The entry mem has for the key decides; a staged delete is "false" to has
\* and the empty value it carries to get.
ReadMem(c) ==
  LET e == mem[arg[c].key] IN
  /\ pc[c] = "read"
  /\ \/ /\ e = Unset
        /\ pc' = [pc EXCEPT ![c] = "below"]
        /\ UNCHANGED <<arg, ret>>
     \/ /\ e # Unset
        /\ Return(c, IF arg[c].op = "has"
                     THEN IF e = Deleted THEN "false" ELSE "true"
                     ELSE IF e = Deleted THEN Empty ELSE e)
  /\ UNCHANGED <<db, dbClosed, mem, batch, closed, todo, held>>

\* memdb: get refuses a closed database, has does not look.
ReadBelow(c) ==
  LET v == db[arg[c].key] IN
  /\ pc[c] = "below"
  /\ Return(c, IF arg[c].op = "has" THEN IF v = None THEN "false" ELSE "true"
               ELSE IF dbClosed THEN "closed" ELSE IF v = None THEN "notfound" ELSE v)
  /\ UNCHANGED <<db, dbClosed, mem, batch, closed, todo, held>>

-----------------------------------------------------------------------------
(* Changes of mem.                                                         *)

\* put and delete insert one entry, Batch::write one for each of its keys.
StageChange(c) ==
  LET change == arg[c].change IN
  /\ pc[c] = "stage"
  /\ CanWriteLock
  /\ mem' = [k \in Keys |-> IF change[k] = Unset THEN mem[k] ELSE change[k]]
  /\ Return(c, "ok")
  /\ UNCHANGED <<db, dbClosed, batch, closed, todo, held>>

\* Mutant: the commit batch is emptied, and mem is not.
Clear_Batch(c) ==
  /\ pc[c] = "clear"
  /\ CanWriteLock
  /\ batch' = Empties
  /\ Return(c, "ok")
  /\ UNCHANGED <<db, dbClosed, mem, closed, todo, held>>

\* The last step of commit, and all of abort.
Clear(c) ==
  /\ pc[c] = "clear"
  /\ CanWriteLock
  /\ mem' = Empties
  /\ Return(c, "ok")
  /\ UNCHANGED <<db, dbClosed, batch, closed, todo, held>>

-----------------------------------------------------------------------------
(* commit_batch, and commit, which goes on to write what it returns.       *)

\* Mutant: the shared batch is not reset first.
TakeSnapshot_NoReset(c) ==
  /\ pc[c] = "lock"
  /\ todo' = [todo EXCEPT ![c] = {k \in Keys : mem[k] # Unset}]
  /\ pc' = [pc EXCEPT ![c] = "push"]
  /\ UNCHANGED <<db, dbClosed, mem, batch, closed, arg, held, ret>>

TakeSnapshot(c) ==
  /\ pc[c] = "lock"
  /\ batch' = Empties
  /\ todo' = [todo EXCEPT ![c] = {k \in Keys : mem[k] # Unset}]
  /\ pc' = [pc EXCEPT ![c] = "push"]
  /\ UNCHANGED <<db, dbClosed, mem, closed, arg, held, ret>>

\* Entries are pushed in the order of the hash map, which is any order.
Push(c) ==
  /\ pc[c] = "push"
  /\ \E k \in todo[c] :
       /\ batch' = [batch EXCEPT ![k] = mem[k]]
       /\ todo' = [todo EXCEPT ![c] = @ \ {k}]
  /\ UNCHANGED <<db, dbClosed, mem, closed, pc, arg, held, ret>>

\* Mutant: the batch that commit_batch returns is written like commit's.
EndSnapshot_AlwaysWrite(c) ==
  /\ pc[c] = "push"
  /\ todo[c] = {}
  /\ pc' = [pc EXCEPT ![c] = "write"]
  /\ UNCHANGED <<db, dbClosed, mem, batch, closed, arg, todo, held, ret>>

EndSnapshot(c) ==
  /\ pc[c] = "push"
  /\ todo[c] = {}
  /\ \/ /\ arg[c].op = "commit"
        /\ pc' = [pc EXCEPT ![c] = "write"]
        /\ UNCHANGED <<arg, held, ret>>
     \/ /\ arg[c].op = "commit_batch"
        /\ held' = held \cup {c}
        /\ Return(c, "ok")
  /\ UNCHANGED <<db, dbClosed, mem, batch, closed, todo>>

\* Mutant: the result of the write is not looked at.
WriteBatch_IgnoreError(c) ==
  /\ pc[c] = "write"
  /\ db' = IF dbClosed THEN db ELSE Overlay(batch, db)
  /\ pc' = [pc EXCEPT ![c] = "reset"]
  /\ UNCHANGED <<dbClosed, mem, batch, closed, arg, todo, held, ret>>

\* The write of the batch is atomic in memdb, or refused as a whole; commit
\* returns the error and leaves mem and the batch as they are.
WriteBatch(c) ==
  /\ pc[c] = "write"
  /\ \/ /\ dbClosed
        /\ Return(c, "closed")
        /\ UNCHANGED db
     \/ /\ ~dbClosed
        /\ db' = Overlay(batch, db)
        /\ pc' = [pc EXCEPT ![c] = "reset"]
        /\ UNCHANGED <<arg, ret>>
  /\ UNCHANGED <<dbClosed, mem, batch, closed, todo, held>>

ResetBatch(c) ==
  /\ pc[c] = "reset"
  /\ batch' = Empties
  /\ pc' = [pc EXCEPT ![c] = "clear"]
  /\ UNCHANGED <<db, dbClosed, mem, closed, arg, todo, held, ret>>

\* The client writes the batch it got from commit_batch.
WriteHeld(c) ==
  /\ Idle(c)
  /\ c \in held
  /\ \/ /\ dbClosed
        /\ Return(c, "closed")
        /\ UNCHANGED <<db, held>>
     \/ /\ ~dbClosed
        /\ db' = Overlay(batch, db)
        /\ held' = held \ {c}
        /\ Return(c, "ok")
  /\ UNCHANGED <<dbClosed, mem, batch, closed, todo>>

-----------------------------------------------------------------------------
(* Closing.  versiondb closes itself only; whoever made the underlying     *)
(* database keeps a handle of it and may close that one at any time.       *)

StoreClosed(c) ==
  /\ pc[c] = "close"
  /\ closed' = TRUE
  /\ Return(c, "ok")
  /\ UNCHANGED <<db, dbClosed, mem, batch, todo, held>>

CloseBelow ==
  /\ ~dbClosed
  /\ dbClosed' = TRUE
  /\ UNCHANGED <<db, mem, batch, closed, pc, arg, todo, held, ret>>

-----------------------------------------------------------------------------
Init ==
  /\ db = [k \in Keys |-> None]
  /\ dbClosed = FALSE
  /\ mem = Empties
  /\ batch = Empties
  /\ closed = FALSE
  /\ pc = [c \in Clients |-> "idle"]
  /\ arg = [c \in Clients |-> NoCall]
  /\ todo = [c \in Clients |-> {}]
  /\ held = {}
  /\ ret = "ok"

ReadCall(c)  == CallHas(c) \/ CallGet(c) \/ CallClose(c) \/ Refuse(c)
WriteCall(c) == \/ CallPut(c) \/ CallDelete(c) \/ CallWrite(c)
                \/ CallCommit(c) \/ CallCommitBatch(c) \/ CallAbort(c)

\* The steps of a call under way; only these are ever owed to anyone.
Proceed(c) == \/ ReadMem(c) \/ ReadBelow(c) \/ TakeSnapshot(c) \/ Push(c)
              \/ EndSnapshot(c) \/ WriteBatch(c) \/ ResetBatch(c) \/ StoreClosed(c)
Locked(c)  == StageChange(c) \/ Clear(c)

Next ==
  \/ \E c \in Clients : ReadCall(c) \/ Proceed(c) \/ Locked(c)
  \/ \E c \in Writers : WriteCall(c) \/ WriteHeld(c)
  \/ CloseBelow

Spec == Init /\ [][Next]_vars

\* Every await of a call is resumed by the executor, and tokio's RwLock hands
\* the lock out in the order it was asked for, so a writer is not starved by
\* readers that come and go.  Nobody is obliged to call anything.
Fairness == \A c \in Clients : WF_vars(Proceed(c)) /\ SF_vars(Locked(c))

FairSpec == Spec /\ Fairness

-----------------------------------------------------------------------------
(* Properties.                                                             *)

Changes == [op : {"put", "delete", "write"}, change : Staged]
Calls   == [op : {"has", "get"}, key : Keys] \cup Changes
             \cup [op : {"none", "commit", "commit_batch", "abort", "close"}]

Steps == {"idle", "read", "below", "stage", "clear", "lock", "push", "write", "reset", "close"}

\* Every variable has its type, and a call under way has the arguments of
\* the step it is at.
TypeOK ==
  /\ db \in Store /\ mem \in Staged /\ batch \in Staged
  /\ dbClosed \in BOOLEAN /\ closed \in BOOLEAN
  /\ pc \in [Clients -> Steps]
  /\ arg \in [Clients -> Calls]
  /\ todo \in [Clients -> SUBSET Keys]
  /\ held \subseteq Clients
  /\ ret \in Values \cup {"ok", "closed", "notfound", "true", "false"}
  /\ \A c \in Clients :
       /\ pc[c] \in {"read", "below"} => arg[c].op \in {"has", "get"}
       /\ pc[c] = "stage" => arg[c].op \in {"put", "delete", "write"}
       /\ pc[c] = "clear" => arg[c].op \in {"commit", "abort"}
       /\ pc[c] \in {"lock", "push"} => arg[c].op \in {"commit", "commit_batch"}
       /\ pc[c] \in {"write", "reset"} => arg[c].op = "commit"
       /\ pc[c] = "close" => arg[c].op = "close"

Returns(c) == pc[c] # "idle" /\ pc'[c] = "idle"

\* has and get answer from the view as it is when they return, however many
\* commits overtake them, the underlying database being read after mem; get
\* may fail only when the underlying database is closed.  Of a key staged
\* as deleted get returns an empty value.
ReadsSeeView ==
  [][\A c \in Clients : Returns(c) /\ arg[c].op \in {"has", "get"} =>
       LET k == arg[c].key IN
       \/ arg[c].op = "has" /\ ret' = IF View[k] = None THEN "false" ELSE "true"
       \/ arg[c].op = "get" /\ mem[k] = Deleted /\ ret' = Empty
       \/ arg[c].op = "get" /\ ret' = IF View[k] = None THEN "notfound" ELSE View[k]
       \/ arg[c].op = "get" /\ mem[k] = Unset /\ dbClosed /\ ret' = "closed"]_vars

\* A commit that returns ok has left in the underlying database all that was
\* staged, and readers see what they saw before; one that returns an error
\* has written nothing and still has everything staged.
CommitOutcome ==
  [][\A c \in Clients : Returns(c) /\ arg[c].op = "commit" =>
       /\ View' = View
       /\ ret' = "ok" => db' = View
       /\ ret' # "ok" => mem' = mem /\ db' = db]_vars

\* Whatever the clones do, each call comes to its end: the locks around mem
\* are never waited for in a circle.
EveryCallReturns == \A c \in Clients : pc[c] # "idle" ~> pc[c] = "idle"

\* What a client of TxnStore has asked for and not yet been given: a commit
\* has taken effect once the batch is written, whatever is left to clean up.
Request ==
  [c \in Clients |->
     IF pc[c] = "idle" THEN NoCall
     ELSE IF arg[c].op = "commit" /\ pc[c] \in {"reset", "clear"}
          THEN [op |-> "committed"] ELSE arg[c]]

\* With one writing clone, versiondb implements the store it promises: each
\* put, delete, batch, abort and commit does what was asked, whole and at
\* one moment, and answers accordingly; readers never see half a commit; a
\* call is let in before the close or refused, and one let in is carried out
\* however many closes overtake it.
Promised == INSTANCE TxnStore WITH
  committed <- db, view <- View, failing <- dbClosed, request <- Request
ImplementsTxnStore == Promised!Spec

-----------------------------------------------------------------------------
(* Why a commit is safe when one clone does all the writing: the parts of  *)
(* an inductive invariant.                                                 *)

OneWriter == \A c, d \in Writers : c = d

ReadersOnlyRead ==
  \A c \in Clients \ Writers : pc[c] \in {"idle", "read", "below", "close"}

\* While the snapshot is taken the batch agrees with mem on every key but
\* those still to be pushed, which it does not have.
SnapshotSoFar ==
  \A c \in Clients : pc[c] = "push" =>
    \A k \in Keys : IF k \in todo[c] THEN mem[k] # Unset /\ batch[k] = Unset
                                     ELSE batch[k] = mem[k]

\* From then until it is written the batch is all of mem.
SnapshotWhole ==
  \A c \in Clients : pc[c] = "write" \/ c \in held => batch = mem

HeldIsQuiet == \A c \in held : c \in Writers /\ pc[c] \in {"idle", "read", "below"}

\* What commit is about to clear has reached the underlying database.
ClearedIsWritten ==
  \A c \in Clients : pc[c] \in {"reset", "clear"} /\ arg[c].op = "commit" =>
    Overlay(mem, db) = db

\* A read that missed is still a miss: it holds the lock until it returns.
MissStands == \A c \in Clients : pc[c] = "below" => mem[arg[c].key] = Unset

SnapshotInv == /\ ReadersOnlyRead /\ SnapshotSoFar /\ SnapshotWhole
               /\ HeldIsQuiet /\ ClearedIsWritten
=============================================================================
