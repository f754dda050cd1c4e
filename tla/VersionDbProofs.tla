---------------------------- MODULE VersionDbProofs ----------------------------
(***************************************************************************)
(* Proofs about VersionDb for any clients, keys and values.                *)
(***************************************************************************)
EXTENDS VersionDb, TLAPS

-----------------------------------------------------------------------------
(* Overlays.                                                               *)

LEMMA OverlayType ==
  ASSUME NEW m \in Staged, NEW b \in Store
  PROVE  Overlay(m, b) \in Store
  BY ConstantsAssumption DEF Overlay, Staged, Store

LEMMA OverlayEmpties ==
  ASSUME NEW b \in Store
  PROVE  Overlay(Empties, b) = b
  BY DEF Overlay, Empties, Store

\* Writing what is staged twice is writing it once: after the underlying
\* database took the batch, the staged entries are redundant.
LEMMA OverlayTwice ==
  ASSUME NEW m \in Staged, NEW b \in Store
  PROVE  Overlay(m, Overlay(m, b)) = Overlay(m, b)
  BY DEF Overlay, Staged, Store

LEMMA EmptiesType == Empties \in Staged
  BY DEF Empties, Staged

-----------------------------------------------------------------------------
(* Types.                                                                  *)

LEMMA TypeInit == Init => TypeOK
<1> SUFFICES ASSUME Init PROVE TypeOK
  OBVIOUS
<1> QED
  BY EmptiesType DEF Init, TypeOK, Store, Steps, NoCall, Calls, Changes

USE DEF Idle, NoCall

LEMMA TypeCall ==
  ASSUME TypeOK, NEW c \in Clients, NEW a \in Calls, NEW where \in Steps,
         Start(c, a, where),
         \/ where = "read" /\ a.op \in {"has", "get"}
         \/ where = "stage" /\ a.op \in {"put", "delete", "write"}
         \/ where = "lock" /\ a.op \in {"commit", "commit_batch"}
         \/ where = "close" /\ a.op = "close"
  PROVE  TypeOK'
  BY DEF Start, Begin, TypeOK

LEMMA TypeNext == TypeOK /\ [Next]_vars => TypeOK'
<1> SUFFICES ASSUME TypeOK, [Next]_vars PROVE TypeOK'
  OBVIOUS
<1>1. ASSUME NEW c \in Clients, ReadCall(c) PROVE TypeOK'
  <2>1. CASE CallHas(c)
    <3>1. PICK k \in Keys : Start(c, [op |-> "has", key |-> k], "read")
      BY <2>1 DEF CallHas
    <3>2. [op |-> "has", key |-> k] \in Calls
      BY DEF Calls
    <3> QED BY <3>1, <3>2, TypeCall DEF Steps
  <2>2. CASE CallGet(c)
    <3>1. PICK k \in Keys : Start(c, [op |-> "get", key |-> k], "read")
      BY <2>2 DEF CallGet
    <3>2. [op |-> "get", key |-> k] \in Calls
      BY DEF Calls
    <3> QED BY <3>1, <3>2, TypeCall DEF Steps
  <2>3. CASE CallClose(c)
    <3>1. [op |-> "close"] \in Calls
      BY DEF Calls
    <3> QED BY <2>3, <3>1, TypeCall DEF Steps, CallClose
  <2>4. CASE Refuse(c)
    <3>1. [op |-> "none"] \in Calls
      BY DEF Calls
    <3> QED BY <2>4, <3>1 DEF Refuse, Return, TypeOK, Steps
  <2> QED
    BY <1>1, <2>1, <2>2, <2>3, <2>4 DEF ReadCall
<1>2. ASSUME NEW c \in Writers, WriteCall(c) PROVE TypeOK'
  <2> c \in Clients
    BY ConstantsAssumption
  <2>1. CASE CallPut(c)
    <3>1. PICK k \in Keys, v \in Values :
            Start(c, [op |-> "put", change |-> [Empties EXCEPT ![k] = v]], "stage")
      BY <2>1 DEF CallPut
    <3>2. [Empties EXCEPT ![k] = v] \in Staged
      BY EmptiesType DEF Staged
    <3>3. [op |-> "put", change |-> [Empties EXCEPT ![k] = v]] \in Calls
      BY <3>2 DEF Calls, Changes
    <3> QED BY <3>1, <3>3, TypeCall DEF Steps
  <2>2. CASE CallDelete(c)
    <3>1. PICK k \in Keys :
            Start(c, [op |-> "delete", change |-> [Empties EXCEPT ![k] = Deleted]], "stage")
      BY <2>2 DEF CallDelete
    <3>2. [Empties EXCEPT ![k] = Deleted] \in Staged
      BY EmptiesType DEF Staged
    <3>3. [op |-> "delete", change |-> [Empties EXCEPT ![k] = Deleted]] \in Calls
      BY <3>2 DEF Calls, Changes
    <3> QED BY <3>1, <3>3, TypeCall DEF Steps
  <2>3. CASE CallWrite(c)
    <3>1. PICK b \in Batches : Start(c, [op |-> "write", change |-> b], "stage")
      BY <2>3 DEF CallWrite
    <3>2. [op |-> "write", change |-> b] \in Calls
      BY ConstantsAssumption DEF Calls, Changes
    <3> QED BY <3>1, <3>2, TypeCall DEF Steps
  <2>4. CASE CallCommit(c)
    <3>1. [op |-> "commit"] \in Calls
      BY DEF Calls
    <3> QED BY <2>4, <3>1, TypeCall DEF Steps, CallCommit
  <2>5. CASE CallCommitBatch(c)
    <3>1. [op |-> "commit_batch"] \in Calls
      BY DEF Calls
    <3> QED BY <2>5, <3>1, TypeCall DEF Steps, CallCommitBatch
  <2>6. CASE CallAbort(c)
    <3>1. [op |-> "abort"] \in Calls
      BY DEF Calls
    <3> QED BY <2>6, <3>1 DEF CallAbort, Begin, TypeOK, Steps
  <2> QED
    BY <1>2, <2>1, <2>2, <2>3, <2>4, <2>5, <2>6 DEF WriteCall
<1>3. ASSUME NEW c \in Clients, Proceed(c) PROVE TypeOK'
  <2> [op |-> "none"] \in Calls
    BY DEF Calls
  <2>1. CASE ReadMem(c)
    BY <2>1, ConstantsAssumption DEF ReadMem, Return, TypeOK, Steps, Staged, Calls, Changes
  <2>2. CASE ReadBelow(c)
    BY <2>2 DEF ReadBelow, Return, TypeOK, Steps, Store, Calls, Changes
  <2>3. CASE TakeSnapshot(c)
    BY <2>3, EmptiesType DEF TakeSnapshot, TypeOK, Steps
  <2>4. CASE Push(c)
    BY <2>4 DEF Push, TypeOK, Staged
  <2>5. CASE EndSnapshot(c)
    BY <2>5 DEF EndSnapshot, Return, TypeOK, Steps
  <2>6. CASE WriteBatch(c)
    BY <2>6, OverlayType DEF WriteBatch, Return, TypeOK, Steps
  <2>7. CASE ResetBatch(c)
    BY <2>7, EmptiesType DEF ResetBatch, TypeOK, Steps
  <2>8. CASE StoreClosed(c)
    BY <2>8 DEF StoreClosed, Return, TypeOK, Steps
  <2> QED
    BY <1>3, <2>1, <2>2, <2>3, <2>4, <2>5, <2>6, <2>7, <2>8 DEF Proceed
<1>4. ASSUME NEW c \in Clients, Locked(c) PROVE TypeOK'
  <2> [op |-> "none"] \in Calls
    BY DEF Calls
  <2>1. CASE StageChange(c)
    <3>1. arg[c].change \in Staged
      BY <2>1 DEF StageChange, TypeOK, Calls, Changes
    <3> QED BY <2>1, <3>1 DEF StageChange, Return, TypeOK, Steps, Staged
  <2>2. CASE Clear(c)
    BY <2>2, EmptiesType DEF Clear, Return, TypeOK, Steps
  <2> QED
    BY <1>4, <2>1, <2>2 DEF Locked
<1>5. ASSUME NEW c \in Writers, WriteHeld(c) PROVE TypeOK'
  <2> [op |-> "none"] \in Calls
    BY DEF Calls
  <2> QED
    BY <1>5, OverlayType DEF WriteHeld, Return, TypeOK, Steps
<1>6. CASE CloseBelow
  BY <1>6 DEF CloseBelow, TypeOK
<1>7. CASE UNCHANGED vars
  BY <1>7 DEF vars, TypeOK
<1> QED
  BY <1>1, <1>2, <1>3, <1>4, <1>5, <1>6, <1>7 DEF Next

\* Every reachable state has the types of TypeOK, and a call under way the
\* arguments of its step: no step of versiondb reads an argument it has not.
THEOREM TypeCorrect == Spec => []TypeOK
  BY TypeInit, TypeNext, PTL DEF Spec

-----------------------------------------------------------------------------
(* The snapshot invariant, when all the writing is done by one clone.      *)

LEMMA SnapshotInit == Init => SnapshotInv
  BY DEF Init, SnapshotInv, ReadersOnlyRead, SnapshotSoFar, SnapshotWhole,
         HeldIsQuiet, ClearedIsWritten

LEMMA SnapshotNext ==
  ASSUME OneWriter
  PROVE  TypeOK /\ SnapshotInv /\ [Next]_vars => SnapshotInv'
<1> SUFFICES ASSUME TypeOK, SnapshotInv, [Next]_vars PROVE SnapshotInv'
  OBVIOUS
<1> USE DEF SnapshotInv
<1>a. Writers \subseteq Clients
  BY ConstantsAssumption
<1>1. ASSUME NEW c \in Clients, ReadCall(c) PROVE SnapshotInv'
  <2>1. /\ UNCHANGED <<db, mem, batch, todo>>
        /\ pc' = [pc EXCEPT ![c] = pc'[c]]
        /\ pc[c] = "idle"
        /\ pc'[c] \in {"idle", "read", "close"}
        /\ held' \in {held, {}}
        /\ pc'[c] = "close" => held' = {}
        /\ \A d \in Clients \ {c} : arg'[d] = arg[d]
    BY <1>1 DEF ReadCall, CallHas, CallGet, CallClose, Refuse, Start, Begin, Return, TypeOK
  <2>2. ReadersOnlyRead' /\ HeldIsQuiet'
    BY <2>1 DEF ReadersOnlyRead, HeldIsQuiet, TypeOK
  <2>3. SnapshotSoFar' /\ SnapshotWhole' /\ ClearedIsWritten'
    BY <2>1 DEF SnapshotSoFar, SnapshotWhole, ClearedIsWritten, TypeOK, Overlay
  <2> QED BY <2>2, <2>3
<1>2. ASSUME NEW c \in Writers, WriteCall(c) PROVE SnapshotInv'
  <2>1. /\ UNCHANGED <<db, mem, batch, todo>>
        /\ pc' = [pc EXCEPT ![c] = pc'[c]]
        /\ pc'[c] \in {"stage", "lock", "clear"}
        /\ pc'[c] = "clear" => arg'[c].op = "abort"
        /\ held' = {}
        /\ \A d \in Clients \ {c} : arg'[d] = arg[d]
    BY <1>2, <1>a DEF WriteCall, CallPut, CallDelete, CallWrite, CallCommit,
       CallCommitBatch, CallAbort, Start, Begin, TypeOK
  <2>2. ReadersOnlyRead' /\ HeldIsQuiet'
    BY <2>1 DEF ReadersOnlyRead, HeldIsQuiet, TypeOK
  <2>3. SnapshotSoFar' /\ SnapshotWhole' /\ ClearedIsWritten'
    BY <2>1 DEF SnapshotSoFar, SnapshotWhole, ClearedIsWritten, TypeOK, Overlay
  <2> QED BY <2>2, <2>3
<1>3. ASSUME NEW c \in Clients, ReadMem(c) \/ ReadBelow(c) \/ StoreClosed(c)
      PROVE  SnapshotInv'
  <2>1. /\ UNCHANGED <<db, mem, batch, todo, held>>
        /\ pc' = [pc EXCEPT ![c] = pc'[c]]
        /\ pc[c] \in {"read", "below", "close"}
        /\ pc'[c] \in {"idle", "below"}
        /\ \A d \in Clients \ {c} : arg'[d] = arg[d]
    BY <1>3 DEF ReadMem, ReadBelow, StoreClosed, Return, TypeOK
  <2>2. ReadersOnlyRead' /\ HeldIsQuiet'
    BY <2>1 DEF ReadersOnlyRead, HeldIsQuiet, TypeOK
  <2>3. SnapshotSoFar' /\ SnapshotWhole' /\ ClearedIsWritten'
    BY <2>1 DEF SnapshotSoFar, SnapshotWhole, ClearedIsWritten, TypeOK, Overlay
  <2> QED BY <2>2, <2>3
\* The other steps are the writer's own, and no other client writes.
<1>b. ASSUME NEW c \in Clients, pc[c] \notin {"idle", "read", "below", "close"}
      PROVE  /\ c \in Writers
             /\ held = {}
             /\ \A d \in Clients \ {c} : pc[d] \in {"idle", "read", "below", "close"}
  <2>1. c \in Writers
    BY <1>b DEF ReadersOnlyRead
  <2>2. \A d \in Clients \ {c} : d \notin Writers
    BY <2>1 DEF OneWriter
  <2> QED
    BY <1>b, <2>1, <2>2 DEF ReadersOnlyRead, HeldIsQuiet, OneWriter
<1>4. ASSUME NEW c \in Clients, TakeSnapshot(c) PROVE SnapshotInv'
  <2>1. /\ c \in Writers /\ held = {}
        /\ \A d \in Clients \ {c} : pc[d] \in {"idle", "read", "below", "close"}
    BY <1>4, <1>b DEF TakeSnapshot
  <2> QED
    BY <1>4, <2>1 DEF TakeSnapshot, TypeOK, Empties, Overlay, ReadersOnlyRead,
       SnapshotSoFar, SnapshotWhole, HeldIsQuiet, ClearedIsWritten
<1>5. ASSUME NEW c \in Clients, Push(c) PROVE SnapshotInv'
  <2>1. /\ c \in Writers /\ held = {}
        /\ \A d \in Clients \ {c} : pc[d] \in {"idle", "read", "below", "close"}
    BY <1>5, <1>b DEF Push
  <2>2. SnapshotSoFar'
    <3>1. PICK k \in todo[c] : /\ batch' = [batch EXCEPT ![k] = mem[k]]
                               /\ todo' = [todo EXCEPT ![c] = @ \ {k}]
      BY <1>5 DEF Push
    <3> QED
      BY <1>5, <2>1, <3>1 DEF Push, SnapshotSoFar, TypeOK, Staged
  <2> QED
    BY <1>5, <2>1, <2>2 DEF Push, TypeOK, Overlay, ReadersOnlyRead, SnapshotWhole,
       HeldIsQuiet, ClearedIsWritten
<1>6. ASSUME NEW c \in Clients, EndSnapshot(c) PROVE SnapshotInv'
  <2>1. /\ c \in Writers /\ held = {}
        /\ \A d \in Clients \ {c} : pc[d] \in {"idle", "read", "below", "close"}
    BY <1>6, <1>b DEF EndSnapshot
  <2>2. batch = mem
    BY <1>6 DEF EndSnapshot, SnapshotSoFar, TypeOK, Staged
  <2>3. /\ UNCHANGED <<db, mem, batch, todo>>
        /\ pc' = [pc EXCEPT ![c] = pc'[c]]
        /\ pc'[c] \in {"idle", "write"}
        /\ held' \in {{}, {c}}
        /\ c \in held' => pc'[c] = "idle"
    BY <1>6, <2>1 DEF EndSnapshot, Return, TypeOK
  <2> QED
    BY <2>1, <2>2, <2>3 DEF TypeOK, Overlay, ReadersOnlyRead, SnapshotSoFar,
       SnapshotWhole, HeldIsQuiet, ClearedIsWritten
<1>7. ASSUME NEW c \in Clients, WriteBatch(c) PROVE SnapshotInv'
  <2>1. /\ c \in Writers /\ held = {}
        /\ \A d \in Clients \ {c} : pc[d] \in {"idle", "read", "below", "close"}
    BY <1>7, <1>b DEF WriteBatch
  <2>2. /\ UNCHANGED <<mem, batch, todo, held>>
        /\ pc' = [pc EXCEPT ![c] = pc'[c]]
        /\ pc'[c] \in {"idle", "reset"}
        /\ pc'[c] = "reset" => db' = Overlay(mem, db)
    BY <1>7 DEF WriteBatch, Return, SnapshotWhole, TypeOK
  <2>3. pc'[c] = "reset" => Overlay(mem, db)' = db'
    BY <2>2, OverlayTwice DEF TypeOK, Overlay
  <2> QED
    BY <2>1, <2>2, <2>3 DEF TypeOK, ReadersOnlyRead, SnapshotSoFar,
       SnapshotWhole, HeldIsQuiet, ClearedIsWritten
<1>8. ASSUME NEW c \in Clients, ResetBatch(c) PROVE SnapshotInv'
  <2>1. /\ c \in Writers /\ held = {}
        /\ \A d \in Clients \ {c} : pc[d] \in {"idle", "read", "below", "close"}
    BY <1>8, <1>b DEF ResetBatch
  <2> QED
    BY <1>8, <2>1 DEF ResetBatch, TypeOK, Overlay, ReadersOnlyRead, SnapshotSoFar,
       SnapshotWhole, HeldIsQuiet, ClearedIsWritten
<1>9. ASSUME NEW c \in Clients, Locked(c) PROVE SnapshotInv'
  <2>1. /\ c \in Writers /\ held = {}
        /\ \A d \in Clients \ {c} : pc[d] \in {"idle", "read", "below", "close"}
    BY <1>9, <1>b DEF Locked, StageChange, Clear
  <2>2. /\ UNCHANGED <<db, batch, todo, held>>
        /\ pc' = [pc EXCEPT ![c] = "idle"]
    BY <1>9 DEF Locked, StageChange, Clear, Return
  <2> QED
    BY <2>1, <2>2 DEF TypeOK, ReadersOnlyRead, SnapshotSoFar, SnapshotWhole,
       HeldIsQuiet, ClearedIsWritten
<1>10. ASSUME NEW c \in Writers, WriteHeld(c) PROVE SnapshotInv'
  <2>1. \A d \in Clients \ {c} : pc[d] \in {"idle", "read", "below", "close"}
    BY <1>10 DEF OneWriter, ReadersOnlyRead
  <2>2. /\ UNCHANGED <<mem, batch, todo>>
        /\ pc' = [pc EXCEPT ![c] = "idle"]
        /\ held' \subseteq held
        /\ pc[c] = "idle"
    BY <1>10 DEF WriteHeld, Return, Idle
  <2> QED
    BY <2>1, <2>2, <1>a DEF TypeOK, ReadersOnlyRead, SnapshotSoFar, SnapshotWhole,
       HeldIsQuiet, ClearedIsWritten
<1>11. CASE CloseBelow
  BY <1>11 DEF CloseBelow, Overlay, ReadersOnlyRead, SnapshotSoFar, SnapshotWhole,
     HeldIsQuiet, ClearedIsWritten
<1>12. CASE UNCHANGED vars
  BY <1>12 DEF vars, Overlay, ReadersOnlyRead, SnapshotSoFar, SnapshotWhole,
     HeldIsQuiet, ClearedIsWritten
<1> QED
  BY <1>1, <1>2, <1>3, <1>4, <1>5, <1>6, <1>7, <1>8, <1>9, <1>10, <1>11, <1>12
     DEF Next, Proceed

\* With one writing clone the batch of a commit is, from its snapshot to its
\* write, exactly what is staged, and nothing is cleared before it is written.
THEOREM SnapshotsAreWhole ==
  ASSUME OneWriter
  PROVE  Spec => []SnapshotInv
<1>1. TypeOK /\ SnapshotInv /\ [Next]_vars => TypeOK' /\ SnapshotInv'
  BY TypeNext, SnapshotNext
<1>2. Init => TypeOK /\ SnapshotInv
  BY TypeInit, SnapshotInit
<1> QED
  BY <1>1, <1>2, PTL DEF Spec

-----------------------------------------------------------------------------
(* Reads, with any number of writing clones.                               *)

\* A call returns by a step of its own client.
LEMMA ReturnsByOwnStep ==
  ASSUME TypeOK, Next, NEW c \in Clients, Returns(c)
  PROVE  Proceed(c) \/ Locked(c)
<1> SUFFICES ASSUME ~Proceed(c), ~Locked(c) PROVE FALSE
  OBVIOUS
<1>1. pc[c] # "idle" /\ pc'[c] = "idle"
  BY DEF Returns
<1>2. ASSUME NEW d \in Clients, ReadCall(d) PROVE FALSE
  BY <1>1, <1>2 DEF ReadCall, CallHas, CallGet, CallClose, Refuse, Start, Begin, Return, TypeOK
<1>3. ASSUME NEW d \in Writers, WriteCall(d) \/ WriteHeld(d) PROVE FALSE
  BY <1>1, <1>3, ConstantsAssumption DEF WriteCall, CallPut, CallDelete, CallWrite,
     CallCommit, CallCommitBatch, CallAbort, WriteHeld, Start, Begin, Return, TypeOK
<1>4. ASSUME NEW d \in Clients, Locked(d) PROVE FALSE
  BY <1>1, <1>4 DEF Locked, StageChange, Clear, Return, TypeOK
<1>5. ASSUME NEW d \in Clients, Proceed(d) PROVE FALSE
  <2>1. pc' = [pc EXCEPT ![d] = pc'[d]]
    BY <1>5 DEF Proceed, ReadMem, ReadBelow, TakeSnapshot, Push, EndSnapshot,
       WriteBatch, ResetBatch, StoreClosed, Return, TypeOK
  <2> QED BY <1>1, <1>5, <2>1 DEF TypeOK
<1>6. ~CloseBelow
  BY <1>1 DEF CloseBelow
<1> QED
  BY <1>2, <1>3, <1>4, <1>5, <1>6 DEF Next

LEMMA MissStandsNext == TypeOK /\ MissStands /\ [Next]_vars => MissStands'
<1> SUFFICES ASSUME TypeOK, MissStands, [Next]_vars PROVE MissStands'
  OBVIOUS
<1>a. Writers \subseteq Clients
  BY ConstantsAssumption
\* Only these two steps change mem, and no one is below when they do.
<1>1. ASSUME NEW c \in Clients, Locked(c) PROVE MissStands'
  <2>1. /\ \A d \in Clients : pc[d] # "below"
        /\ pc' = [pc EXCEPT ![c] = "idle"]
    BY <1>1 DEF Locked, StageChange, Clear, CanWriteLock, HoldsReadLock, Return
  <2> QED BY <2>1 DEF MissStands, TypeOK
<1>2. ASSUME NEW c \in Clients, ReadMem(c) PROVE MissStands'
  BY <1>2 DEF ReadMem, Return, MissStands, TypeOK
<1>3. ASSUME NEW c \in Clients, ReadCall(c) PROVE MissStands'
  <2>1. /\ mem' = mem
        /\ pc' = [pc EXCEPT ![c] = pc'[c]] /\ pc'[c] # "below"
        /\ \A d \in Clients \ {c} : arg'[d] = arg[d]
    BY <1>3 DEF ReadCall, CallHas, CallGet, CallClose, Refuse, Start, Begin, Return, TypeOK
  <2> QED BY <2>1 DEF MissStands, TypeOK
<1>4. ASSUME NEW c \in Writers, WriteCall(c) PROVE MissStands'
  <2>1. /\ mem' = mem
        /\ pc' = [pc EXCEPT ![c] = pc'[c]] /\ pc'[c] # "below"
        /\ \A d \in Clients \ {c} : arg'[d] = arg[d]
    BY <1>4, <1>a DEF WriteCall, CallPut, CallDelete, CallWrite, CallCommit,
       CallCommitBatch, CallAbort, Start, Begin, TypeOK
  <2> QED BY <2>1 DEF MissStands, TypeOK
<1>5. ASSUME NEW c \in Clients, Proceed(c), ~ReadMem(c) PROVE MissStands'
  <2>1. /\ mem' = mem
        /\ pc' = [pc EXCEPT ![c] = pc'[c]] /\ pc'[c] # "below"
        /\ \A d \in Clients \ {c} : arg'[d] = arg[d]
    BY <1>5 DEF Proceed, ReadBelow, TakeSnapshot, Push, EndSnapshot, WriteBatch,
       ResetBatch, StoreClosed, Return, TypeOK
  <2> QED BY <2>1 DEF MissStands, TypeOK
<1>6. ASSUME NEW c \in Writers, WriteHeld(c) PROVE MissStands'
  BY <1>6, <1>a DEF WriteHeld, Return, MissStands, TypeOK
<1>7. CASE CloseBelow
  BY <1>7 DEF CloseBelow, MissStands
<1>8. CASE UNCHANGED vars
  BY <1>8 DEF vars, MissStands
<1> QED
  BY <1>1, <1>2, <1>3, <1>4, <1>5, <1>6, <1>7, <1>8 DEF Next

\* has and get answer from the view of the moment they return, whatever the
\* other clones stage, commit or close meanwhile.
THEOREM ReadsAreOfTheView == Spec => ReadsSeeView
<1> DEFINE Good(c) ==
      LET k == arg[c].key IN
       \/ arg[c].op = "has" /\ ret' = IF View[k] = None THEN "false" ELSE "true"
       \/ arg[c].op = "get" /\ mem[k] = Deleted /\ ret' = Empty
       \/ arg[c].op = "get" /\ ret' = IF View[k] = None THEN "notfound" ELSE View[k]
       \/ arg[c].op = "get" /\ mem[k] = Unset /\ dbClosed /\ ret' = "closed"
<1>1. Init => TypeOK /\ MissStands
  BY TypeInit DEF Init, MissStands
<1>2. TypeOK /\ MissStands /\ [Next]_vars => TypeOK' /\ MissStands'
  BY TypeNext, MissStandsNext
<1>3. TypeOK /\ MissStands /\ [Next]_vars =>
        [\A c \in Clients : Returns(c) /\ arg[c].op \in {"has", "get"} => Good(c)]_vars
  <2> SUFFICES ASSUME TypeOK, MissStands, Next, NEW c \in Clients,
                      Returns(c), arg[c].op \in {"has", "get"}
               PROVE  Good(c)
    OBVIOUS
  <2>1. arg[c].key \in Keys
    BY DEF TypeOK, Calls, Changes
  <2>2. ReadMem(c) \/ ReadBelow(c)
    BY ReturnsByOwnStep DEF Locked, StageChange, Clear, Proceed, TakeSnapshot, Push,
       EndSnapshot, WriteBatch, ResetBatch, StoreClosed, Returns, TypeOK
  <2>3. CASE ReadMem(c)
    BY <2>1, <2>3, ConstantsAssumption
    DEF ReadMem, Return, Returns, View, Overlay, TypeOK, Staged
  <2>4. CASE ReadBelow(c)
    BY <2>1, <2>4 DEF ReadBelow, Return, View, Overlay, MissStands
  <2> QED BY <2>2, <2>3, <2>4
<1> QED
  BY <1>1, <1>2, <1>3, PTL DEF Spec, ReadsSeeView

-----------------------------------------------------------------------------
(* Commit and the store versiondb implements, with one writing clone.      *)

\* A commit that says ok has left all that was staged in the underlying
\* database; one that fails has changed nothing; readers notice neither.
THEOREM CommitsAreWhole ==
  ASSUME OneWriter
  PROVE  Spec => CommitOutcome
<1> DEFINE Good(c) == /\ View' = View
                      /\ ret' = "ok" => db' = View
                      /\ ret' # "ok" => mem' = mem /\ db' = db
<1>1. Init => TypeOK /\ SnapshotInv
  BY TypeInit, SnapshotInit
<1>2. TypeOK /\ SnapshotInv /\ [Next]_vars => TypeOK' /\ SnapshotInv'
  BY TypeNext, SnapshotNext
<1>3. TypeOK /\ SnapshotInv /\ [Next]_vars =>
        [\A c \in Clients : Returns(c) /\ arg[c].op = "commit" => Good(c)]_vars
  <2> SUFFICES ASSUME TypeOK, SnapshotInv, Next, NEW c \in Clients,
                      Returns(c), arg[c].op = "commit"
               PROVE  Good(c)
    OBVIOUS
  <2>1. WriteBatch(c) \/ Clear(c)
    BY ReturnsByOwnStep DEF Locked, StageChange, Proceed, ReadMem, ReadBelow,
       TakeSnapshot, Push, EndSnapshot, ResetBatch, StoreClosed, Returns, TypeOK
  <2>2. CASE WriteBatch(c)
    BY <2>2 DEF WriteBatch, Return, Returns, View, Overlay, TypeOK
  <2>3. CASE Clear(c)
    <3>1. Overlay(mem, db) = db
      BY <2>3 DEF Clear, SnapshotInv, ClearedIsWritten
    <3> QED
      BY <2>3, <3>1, OverlayEmpties DEF Clear, Return, View, TypeOK
  <2> QED BY <2>1, <2>2, <2>3
<1> QED
  BY <1>1, <1>2, <1>3, PTL DEF Spec, CommitOutcome

-----------------------------------------------------------------------------
(* Each call of versiondb, seen through Request, is one of the store.      *)

\* A client that goes idle has no request left, and the others keep theirs.
LEMMA ReturnAnswers ==
  ASSUME TypeOK, NEW c \in Clients, NEW r, Return(c, r)
  PROVE  Promised!Answer(c, r)
<1>1. Request' = [Request EXCEPT ![c] = NoCall]
  BY DEF Return, Request, TypeOK
<1> QED
  BY <1>1 DEF Return, Promised!Answer, Promised!NoRequest

LEMMA RequestIsArg ==
  ASSUME NEW c \in Clients
  PROVE  /\ pc[c] = "idle" => Request[c] = NoCall
         /\ pc[c] \in {"read", "below", "stage", "lock", "push", "write", "close"}
              => Request[c] = arg[c]
         /\ pc[c] = "clear" /\ arg[c].op = "abort" => Request[c] = arg[c]
         /\ pc[c] \in {"reset", "clear"} /\ arg[c].op = "commit"
              => Request[c] = [op |-> "committed"]
  BY DEF Request

\* Nobody asks or is answered where no client moves.
LEMMA RequestUnchanged ==
  ASSUME UNCHANGED <<pc, arg>>
  PROVE  UNCHANGED Request
  BY DEF Request

LEMMA BeginAsks ==
  ASSUME TypeOK, NEW c \in Clients, NEW a \in Calls, NEW where \in Steps,
         \/ Start(c, a, where) /\ where \in {"read", "stage", "lock", "close"}
         \/ CallAbort(c) /\ where = "clear" /\ a = [op |-> "abort"],
         a.op \in {"has", "get"} => a \in Promised!Reads,
         a \in Promised!Reads => a.op \in {"has", "get"}
  PROVE  Promised!Ask(c, a)
<1>1. /\ Begin(c, a, where)
      /\ where = "clear" => a.op = "abort"
      /\ where \in {"read", "stage", "lock", "close", "clear"}
      /\ closed => a.op = "abort"
      /\ UNCHANGED <<db, dbClosed, mem, closed, ret>>
  BY DEF Start, CallAbort
<1>2. Request[c] = NoCall
  BY <1>1 DEF Begin, Request
<1>3. Request' = [Request EXCEPT ![c] = a]
  BY <1>1 DEF Begin, Request, TypeOK
<1>4. held' = IF a \in Promised!Reads THEN held ELSE {}
  BY <1>1 DEF Begin
<1>5. UNCHANGED View
  BY <1>1 DEF View, Overlay
<1> QED
  BY <1>1, <1>2, <1>3, <1>4, <1>5 DEF Promised!Ask, Promised!NoRequest

LEMMA ReadCallIsCall ==
  ASSUME TypeOK, NEW c \in Clients, ReadCall(c)
  PROVE  Promised!Next
<1>1. CASE CallHas(c)
  <2>1. PICK k \in Keys : Start(c, [op |-> "has", key |-> k], "read")
    BY <1>1 DEF CallHas
  <2>2. [op |-> "has", key |-> k] \in Calls /\ [op |-> "has", key |-> k] \in Promised!Reads
    BY DEF Calls, Promised!Reads
  <2>3. Promised!Ask(c, [op |-> "has", key |-> k])
    BY <2>1, <2>2, BeginAsks DEF Steps
  <2> QED BY <2>2, <2>3 DEF Promised!Next
<1>2. CASE CallGet(c)
  <2>1. PICK k \in Keys : Start(c, [op |-> "get", key |-> k], "read")
    BY <1>2 DEF CallGet
  <2>2. [op |-> "get", key |-> k] \in Calls /\ [op |-> "get", key |-> k] \in Promised!Reads
    BY DEF Calls, Promised!Reads
  <2>3. Promised!Ask(c, [op |-> "get", key |-> k])
    BY <2>1, <2>2, BeginAsks DEF Steps
  <2> QED BY <2>2, <2>3 DEF Promised!Next
<1>3. CASE CallClose(c)
  <2>1. [op |-> "close"] \in Calls /\ [op |-> "close"] \notin Promised!Reads
    BY DEF Calls, Promised!Reads
  <2>2. Promised!Ask(c, [op |-> "close"])
    BY <1>3, <2>1, BeginAsks DEF Steps, CallClose
  <2> QED BY <2>2 DEF Promised!Next
<1>4. CASE Refuse(c)
  <2>1. Request[c] = NoCall /\ UNCHANGED Request
    BY <1>4 DEF Refuse, Return, Request, TypeOK
  <2>2. UNCHANGED View
    BY <1>4 DEF Refuse, View, Overlay
  <2>3. Promised!Refuse(c)
    BY <1>4, <2>1, <2>2 DEF Refuse, Return, Promised!Refuse, Promised!NoRequest
  <2> QED BY <2>3 DEF Promised!Next
<1> QED
  BY <1>1, <1>2, <1>3, <1>4 DEF ReadCall

LEMMA WriteCallIsCall ==
  ASSUME TypeOK, NEW c \in Writers, WriteCall(c)
  PROVE  Promised!Next
<1> c \in Clients
  BY ConstantsAssumption
<1> SUFFICES \E r \in Promised!Changes \cup Promised!Endings : Promised!Ask(c, r)
  BY DEF Promised!Next
<1>1. CASE CallPut(c)
  <2>1. PICK k \in Keys, v \in Values :
          Start(c, [op |-> "put", change |-> [Empties EXCEPT ![k] = v]], "stage")
    BY <1>1 DEF CallPut
  <2>2. [Empties EXCEPT ![k] = v] = Promised!Only(k, v)
    BY DEF Empties, Promised!Only
  <2>3. [Empties EXCEPT ![k] = v] \in Staged
    BY EmptiesType DEF Staged
  <2> DEFINE r == [op |-> "put", change |-> [Empties EXCEPT ![k] = v]]
  <2>4. r \in Calls /\ r \in Promised!Changes
    BY <2>2, <2>3 DEF Calls, Changes, Promised!Changes
  <2>5. r \notin Promised!Reads
    BY DEF Promised!Reads
  <2>6. Promised!Ask(c, r)
    BY <2>1, <2>4, <2>5, BeginAsks DEF Steps
  <2> QED BY <2>4, <2>6
<1>2. CASE CallDelete(c)
  <2>1. PICK k \in Keys :
          Start(c, [op |-> "delete", change |-> [Empties EXCEPT ![k] = Deleted]], "stage")
    BY <1>2 DEF CallDelete
  <2>2. [Empties EXCEPT ![k] = Deleted] = Promised!Only(k, Deleted)
    BY DEF Empties, Promised!Only
  <2>3. [Empties EXCEPT ![k] = Deleted] \in Staged
    BY EmptiesType DEF Staged
  <2> DEFINE r == [op |-> "delete", change |-> [Empties EXCEPT ![k] = Deleted]]
  <2>4. r \in Calls /\ r \in Promised!Changes
    BY <2>2, <2>3 DEF Calls, Changes, Promised!Changes
  <2>5. r \notin Promised!Reads
    BY DEF Promised!Reads
  <2>6. Promised!Ask(c, r)
    BY <2>1, <2>4, <2>5, BeginAsks DEF Steps
  <2> QED BY <2>4, <2>6
<1>3. CASE CallWrite(c)
  <2>1. PICK b \in Batches : Start(c, [op |-> "write", change |-> b], "stage")
    BY <1>3 DEF CallWrite
  <2> DEFINE r == [op |-> "write", change |-> b]
  <2>2. r \in Calls /\ r \in Promised!Changes
    BY ConstantsAssumption DEF Calls, Changes, Promised!Changes
  <2>3. r \notin Promised!Reads
    BY DEF Promised!Reads
  <2>4. Promised!Ask(c, r)
    BY <2>1, <2>2, <2>3, BeginAsks DEF Steps
  <2> QED BY <2>2, <2>4
<1>4. ASSUME NEW o \in {"commit", "commit_batch", "abort"}
      PROVE  /\ [op |-> o] \in Calls
             /\ [op |-> o] \in Promised!Endings
             /\ [op |-> o] \notin Promised!Reads
  BY <1>4 DEF Calls, Promised!Endings, Promised!Reads
<1>5. CASE CallCommit(c)
  <2>1. Promised!Ask(c, [op |-> "commit"])
    BY <1>4, <1>5, BeginAsks DEF Steps, CallCommit
  <2> QED BY <1>4, <2>1
<1>6. CASE CallCommitBatch(c)
  <2>1. Promised!Ask(c, [op |-> "commit_batch"])
    BY <1>4, <1>6, BeginAsks DEF Steps, CallCommitBatch
  <2> QED BY <1>4, <2>1
<1>7. CASE CallAbort(c)
  <2>1. Promised!Ask(c, [op |-> "abort"])
    BY <1>4, <1>7, BeginAsks DEF Steps
  <2> QED BY <1>4, <2>1
<1> QED
  BY <1>1, <1>2, <1>3, <1>5, <1>6, <1>7 DEF WriteCall

\* The view is made of mem and of the database below.
LEMMA ViewUnchanged ==
  ASSUME UNCHANGED <<mem, db>>
  PROVE  UNCHANGED View
  BY DEF View, Overlay

LEMMA ReadIsRead ==
  ASSUME TypeOK, MissStands, NEW c \in Clients,
         \/ ReadMem(c) /\ mem[arg[c].key] # Unset
         \/ ReadBelow(c)
  PROVE  Promised!Next
<1> DEFINE k == arg[c].key
<1>1. k \in Keys /\ arg[c].op \in {"has", "get"} /\ Request[c] = arg[c]
  BY RequestIsArg DEF ReadMem, ReadBelow, TypeOK, Calls, Changes
<1>2. UNCHANGED <<db, View, closed, dbClosed, held>>
  BY ViewUnchanged DEF ReadMem, ReadBelow
<1>3. View[k] = IF mem[k] = Unset THEN db[k] ELSE IF mem[k] = Deleted THEN None ELSE mem[k]
  BY <1>1 DEF View, Overlay
<1>4. mem[k] \in Values \cup {Deleted, Unset} /\ None \notin Values
  BY <1>1, ConstantsAssumption DEF TypeOK, Staged
<1>5. \A r : Return(c, r) => Promised!Answer(c, r)
  BY ReturnAnswers
<1>6. CASE arg[c].op = "has"
  <2>1. CASE ReadMem(c)
    <3>1. Return(c, IF View[k] = None THEN "false" ELSE "true")
      BY <1>3, <1>4, <1>6, <2>1 DEF ReadMem, ReadBelow
    <3> QED
      BY <1>1, <1>2, <1>5, <1>6, <3>1 DEF Promised!Next, Promised!Has, Promised!Asked
  <2>2. CASE ReadBelow(c)
    <3>1. Return(c, IF View[k] = None THEN "false" ELSE "true")
      BY <1>3, <1>6, <2>2 DEF ReadBelow, MissStands
    <3> QED
      BY <1>1, <1>2, <1>5, <1>6, <3>1 DEF Promised!Next, Promised!Has, Promised!Asked
  <2> QED BY <2>1, <2>2
<1>7. CASE arg[c].op = "get"
  <2>1. \/ Return(c, IF View[k] = None THEN "notfound" ELSE View[k])
        \/ View[k] = None /\ Return(c, Empty)
        \/ dbClosed /\ View[k] = db[k] /\ Return(c, "closed")
    <3>1. CASE ReadMem(c)
      BY <1>3, <1>4, <1>7, <3>1 DEF ReadMem, ReadBelow
    <3>2. CASE ReadBelow(c)
      BY <1>3, <1>7, <3>2 DEF ReadBelow, MissStands
    <3> QED BY <3>1, <3>2
  <2>2. Promised!Get(c)
    BY <1>1, <1>2, <1>5, <1>7, <2>1 DEF Promised!Get, Promised!Asked
  <2> QED BY <2>2 DEF Promised!Next
<1> QED BY <1>1, <1>6, <1>7

LEMMA StageIsChange ==
  ASSUME TypeOK, NEW c \in Writers, StageChange(c)
  PROVE  Promised!Next
<1> DEFINE change == arg[c].change
<1> c \in Clients
  BY ConstantsAssumption
<1>1. Request[c] = arg[c] /\ arg[c].op \in {"put", "delete", "write"}
  BY RequestIsArg DEF StageChange, TypeOK
<1>2. change \in Staged
  BY <1>1 DEF TypeOK, Calls, Changes
<1>3. View' = [k \in Keys |-> IF change[k] = Unset THEN View[k]
                              ELSE IF change[k] = Deleted THEN None ELSE change[k]]
  BY <1>2, ConstantsAssumption DEF StageChange, View, Overlay, TypeOK, Staged
<1>4. Promised!Change(c)
  BY <1>1, <1>3, ReturnAnswers DEF StageChange, Promised!Change, Promised!Changed
<1> QED BY <1>4 DEF Promised!Next

LEMMA ClearIsAbort ==
  ASSUME TypeOK, SnapshotInv, NEW c \in Writers, Clear(c)
  PROVE  Promised!Next
<1> c \in Clients
  BY ConstantsAssumption
<1>1. View' = db /\ UNCHANGED <<db, closed, dbClosed, held>>
  BY OverlayEmpties DEF Clear, View, Overlay, TypeOK
<1>2. Promised!Answer(c, "ok")
  BY ReturnAnswers DEF Clear
<1>3. CASE arg[c].op = "abort"
  <2>1. Request[c].op = "abort"
    BY <1>3, RequestIsArg DEF Clear
  <2> QED BY <1>1, <1>2, <2>1 DEF Promised!Abort, Promised!Asked, Promised!Next
<1>4. CASE arg[c].op = "commit"
  <2>1. Request[c].op = "committed"
    BY <1>4, RequestIsArg DEF Clear
  <2>2. UNCHANGED View
    BY <1>1, <1>4 DEF Clear, View, SnapshotInv, ClearedIsWritten
  <2> QED BY <1>1, <1>2, <2>1, <2>2 DEF Promised!CommitReturns, Promised!Asked, Promised!Next
<1> QED BY <1>3, <1>4 DEF Clear, TypeOK

\* The batch that is written is all that is staged: what is below becomes
\* the view, and the view stays.
LEMMA WrittenIsView ==
  ASSUME TypeOK, batch = mem, db' = Overlay(batch, db), mem' = mem
  PROVE  db' = View /\ View' = View
<1>1. db' = View
  BY DEF View
<1> QED
  BY <1>1, OverlayTwice DEF View, Overlay, TypeOK

LEMMA WriteIsCommit ==
  ASSUME TypeOK, SnapshotInv, NEW c \in Writers, WriteBatch(c)
  PROVE  Promised!Next
<1> c \in Clients
  BY ConstantsAssumption
<1>1. Request[c].op = "commit"
  BY RequestIsArg DEF WriteBatch, TypeOK
<1>2. CASE dbClosed
  <2>1. Promised!Answer(c, "closed")
    BY <1>2, ReturnAnswers DEF WriteBatch
  <2>2. UNCHANGED View
    BY <1>2, ViewUnchanged DEF WriteBatch
  <2> QED BY <1>1, <1>2, <2>1, <2>2
          DEF WriteBatch, Promised!CommitFails, Promised!Asked, Promised!Next
<1>3. CASE ~dbClosed
  <2>1. db' = View /\ View' = View
    BY <1>3, WrittenIsView DEF WriteBatch, SnapshotInv, SnapshotWhole
  <2>2. Request' = [Request EXCEPT ![c] = [op |-> "committed"]]
    BY <1>3 DEF WriteBatch, Request, TypeOK
  <2>3. Promised!Commit(c)
    BY <1>1, <1>3, <2>1, <2>2 DEF WriteBatch, Promised!Commit, Promised!Asked
  <2> QED BY <2>3 DEF Promised!Next
<1> QED BY <1>2, <1>3

LEMMA WriteHeldIsWriteHeld ==
  ASSUME TypeOK, SnapshotInv, NEW c \in Writers, WriteHeld(c)
  PROVE  Promised!Next
<1> c \in Clients
  BY ConstantsAssumption
<1>1. Request[c] = NoCall /\ UNCHANGED Request
  BY DEF WriteHeld, Return, Request, TypeOK
<1>2. CASE dbClosed
  <2>1. UNCHANGED View
    BY <1>2, ViewUnchanged DEF WriteHeld
  <2>2. Promised!WriteHeld(c)
    BY <1>1, <1>2, <2>1 DEF WriteHeld, Return, Promised!WriteHeld, Promised!NoRequest
  <2> QED BY <2>2 DEF Promised!Next
<1>3. CASE ~dbClosed
  <2>1. db' = View /\ View' = View
    BY <1>3, WrittenIsView DEF WriteHeld, SnapshotInv, SnapshotWhole
  <2>2. Promised!WriteHeld(c)
    BY <1>1, <1>3, <2>1 DEF WriteHeld, Return, Promised!WriteHeld, Promised!NoRequest
  <2> QED BY <2>2 DEF Promised!Next
<1> QED BY <1>2, <1>3

\* The steps in between: nobody sees them.
LEMMA InnerIsStutter ==
  ASSUME TypeOK, NEW c \in Clients,
         \/ ReadMem(c) /\ mem[arg[c].key] = Unset
         \/ TakeSnapshot(c) \/ Push(c) \/ ResetBatch(c)
         \/ EndSnapshot(c) /\ arg[c].op = "commit"
  PROVE  UNCHANGED Promised!vars
<1>1. UNCHANGED <<db, mem, closed, dbClosed, held, ret>>
  BY DEF ReadMem, TakeSnapshot, Push, ResetBatch, EndSnapshot
<1>2. UNCHANGED Request
  BY DEF ReadMem, TakeSnapshot, Push, ResetBatch, EndSnapshot, Request, TypeOK
<1> QED
  BY <1>1, <1>2, ViewUnchanged DEF Promised!vars

LEMMA OtherIsOther ==
  ASSUME TypeOK, NEW c \in Clients,
         \/ StoreClosed(c)
         \/ EndSnapshot(c) /\ arg[c].op = "commit_batch" /\ c \in Writers
         \/ CloseBelow
  PROVE  Promised!Next
<1>1. UNCHANGED <<db, View, mem>>
  BY ViewUnchanged DEF StoreClosed, EndSnapshot, CloseBelow
<1>2. CASE StoreClosed(c)
  <2>1. Promised!Close(c)
    BY <1>1, <1>2, RequestIsArg, ReturnAnswers
    DEF StoreClosed, TypeOK, Promised!Close, Promised!Asked
  <2> QED BY <2>1 DEF Promised!Next
<1>3. CASE EndSnapshot(c) /\ arg[c].op = "commit_batch" /\ c \in Writers
  <2>1. Promised!CommitBatch(c)
    BY <1>1, <1>3, RequestIsArg, ReturnAnswers
    DEF EndSnapshot, Promised!CommitBatch, Promised!Asked
  <2> QED BY <1>3, <2>1 DEF Promised!Next
<1>4. CASE CloseBelow
  <2>1. UNCHANGED Request
    BY <1>4, RequestUnchanged DEF CloseBelow
  <2>2. Promised!Fail
    BY <1>1, <1>4, <2>1 DEF CloseBelow, Promised!Fail
  <2> QED BY <2>2 DEF Promised!Next
<1> QED BY <1>2, <1>3, <1>4

LEMMA StepImplements ==
  TypeOK /\ SnapshotInv /\ MissStands /\ [Next]_vars => [Promised!Next]_Promised!vars
<1> SUFFICES ASSUME TypeOK, SnapshotInv, MissStands, [Next]_vars
             PROVE  Promised!Next \/ UNCHANGED Promised!vars
  OBVIOUS
\* Only a writer is ever at a step of a call that changes or commits.
<1>1. ASSUME NEW c \in Clients,
             StageChange(c) \/ Clear(c) \/ EndSnapshot(c) \/ WriteBatch(c)
      PROVE  c \in Writers
  BY <1>1 DEF StageChange, Clear, EndSnapshot, WriteBatch, SnapshotInv, ReadersOnlyRead
<1>2. ASSUME NEW c \in Clients, ReadCall(c) PROVE Promised!Next
  BY <1>2, ReadCallIsCall
<1>3. ASSUME NEW c \in Writers, WriteCall(c) \/ WriteHeld(c) PROVE Promised!Next
  BY <1>3, WriteCallIsCall, WriteHeldIsWriteHeld
<1>4. ASSUME NEW c \in Clients, Locked(c) PROVE Promised!Next
  BY <1>1, <1>4, StageIsChange, ClearIsAbort DEF Locked
<1>5. ASSUME NEW c \in Clients, Proceed(c)
      PROVE  Promised!Next \/ UNCHANGED Promised!vars
  <2>1. CASE ReadMem(c) \/ ReadBelow(c)
    BY <2>1, ReadIsRead, InnerIsStutter
  <2>2. CASE EndSnapshot(c)
    BY <1>1, <2>2, OtherIsOther, InnerIsStutter DEF EndSnapshot
  <2>3. CASE TakeSnapshot(c) \/ Push(c) \/ ResetBatch(c)
    BY <2>3, InnerIsStutter
  <2>4. CASE WriteBatch(c)
    BY <1>1, <2>4, WriteIsCommit
  <2>5. CASE StoreClosed(c)
    BY <2>5, OtherIsOther
  <2> QED BY <1>5, <2>1, <2>2, <2>3, <2>4, <2>5 DEF Proceed
<1>6. CASE CloseBelow
  <2>1. CASE Clients = {}
    <3>1. Request' = Request
      BY <2>1 DEF Request
    <3>2. UNCHANGED View
      BY <1>6, ViewUnchanged DEF CloseBelow
    <3>3. Promised!Fail
      BY <1>6, <3>1, <3>2 DEF CloseBelow, Promised!Fail
    <3> QED BY <3>3 DEF Promised!Next
  <2>2. ASSUME NEW c \in Clients PROVE Promised!Next
    BY <1>6, OtherIsOther
  <2> QED BY <2>1, <2>2
<1>7. CASE UNCHANGED vars
  <2>1. UNCHANGED Request /\ UNCHANGED View
    BY <1>7, RequestUnchanged, ViewUnchanged DEF vars
  <2> QED BY <1>7, <2>1 DEF vars, Promised!vars
<1> QED
  BY <1>2, <1>3, <1>4, <1>5, <1>6, <1>7 DEF Next

\* With one writing clone, versiondb implements the store that Commitable
\* promises: each call takes effect whole, at one moment between its
\* beginning and its end, does just what it asked for and is answered by what
\* it did; every other step is invisible.
THEOREM VersionDbImplementsTxnStore ==
  ASSUME OneWriter
  PROVE  Spec => ImplementsTxnStore
<1>1. Init => TypeOK /\ SnapshotInv /\ MissStands
  BY TypeInit, SnapshotInit DEF Init, MissStands
<1>2. TypeOK /\ SnapshotInv /\ MissStands /\ [Next]_vars
        => TypeOK' /\ SnapshotInv' /\ MissStands'
  BY TypeNext, SnapshotNext, MissStandsNext
<1>3. Init => Promised!Init
  <2> SUFFICES ASSUME Init PROVE Promised!Init
    OBVIOUS
  <2>1. View = db
    BY TypeInit, OverlayEmpties DEF Init, View, TypeOK
  <2>2. Request = [c \in Clients |-> NoCall]
    BY DEF Init, Request
  <2> QED
    BY <2>1, <2>2 DEF Init, Promised!Init, Promised!NoRequest
<1>4. TypeOK /\ SnapshotInv /\ MissStands /\ [Next]_vars => [Promised!Next]_Promised!vars
  BY StepImplements
<1> QED
  BY <1>1, <1>2, <1>3, <1>4, PTL DEF Spec, ImplementsTxnStore, Promised!Spec
=============================================================================
