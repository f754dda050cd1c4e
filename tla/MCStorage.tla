------------------------------ MODULE MCStorage ------------------------------
(* Three parts of the storage, and the process that uses it and the calls    *)
(* that cross to it, none of which acts on another, in one run: the initial  *)
(* state says which of them runs, and the others keep their first state.     *)
(* The run EXTENDS the iterator of the rpcdb client.                         *)
EXTENDS RpcDbIterator

CONSTANTS
  Values, None, Unset, Deleted, AnyTombstones,  \* of the scan
  Kinds, BatchKeys, MaxQueue, MaxSize           \* of the batches

ASSUME StorageAssumption ==
  /\ AnyTombstones \in BOOLEAN /\ MaxQueue \in Nat /\ MaxSize \in Nat
  /\ Values \intersect {None, Unset, Deleted} = {}
  /\ Kinds \subseteq {"memdb", "versiondb", "rpcdb"}

VARIABLES
  system,  \* "remote", "scan", "batch" or "process"
  mem, db, keys, below, initialized, exhausted, scanClosed, innerClosed, scanErr,
  innerErr, key, value, phase, pairs,
  kind, store, hostClosed, writes, size, replay, ret,
  life, port, stop, heard, wired, rpc, stage, tags, handler, seen, ran, answer, fields

V == INSTANCE VersionDbIterator
       WITH closed <- scanClosed, dbClosed <- innerClosed, err <- scanErr,
            dbErr <- innerErr, out <- pairs
B == INSTANCE Batches WITH Keys <- BatchKeys, closed <- hostClosed
P == INSTANCE Serving WITH call <- rpc, wire <- tags, reply <- fields

scanVars == <<mem, db, keys, below, initialized, exhausted, scanClosed, innerClosed,
              scanErr, innerErr, key, value, phase, pairs>>
batchVars == <<kind, store, hostClosed, writes, size, replay, ret>>
processVars == <<life, port, stop, heard, wired, rpc, stage, tags, handler, seen, ran,
                 answer, fields>>
allVars == <<system, vars, scanVars, batchVars, processVars>>

MCInit ==
  /\ Init /\ V!Init /\ B!Init /\ P!Init
  /\ system \in {"remote", "scan", "batch", "process"}
  /\ system # "scan" => \A k \in V!Keys : mem[k] = Unset /\ db[k] = None
  /\ system # "batch" => kind = CHOOSE k \in Kinds : TRUE

MCNext ==
  /\ \/ system = "remote" /\ Next /\ UNCHANGED <<scanVars, batchVars, processVars>>
     \/ system = "scan" /\ V!Next /\ UNCHANGED <<vars, batchVars, processVars>>
     \/ system = "batch" /\ B!Next /\ UNCHANGED <<vars, scanVars, processVars>>
     \/ system = "process" /\ P!Next /\ UNCHANGED <<vars, scanVars, batchVars>>
  /\ UNCHANGED system

MCSpec == MCInit /\ [][MCNext]_allVars

\* The steps of the process are fair when it runs.
MCFairSpec == MCSpec /\ (system = "process" => P!Fairness)

\* Each time next of the scan returns true it has moved to the next larger pair
\* of the view, and a scan that ends has shown them all, or error() fails.
ScanIsTheView == V!ScanIsTheView

\* write of a batch does what replaying the queue in order would do, and a
\* replay that says it is done has done that.
WriteIsReplay == B!WriteIsReplay

\* A call that is answered has run the method it is of, with the arguments the
\* caller gave, once; one that is told there is no such method has run nothing;
\* a VM whose port another process took does not serve.
CallReachesItsMethod == P!CallReachesItsMethod

\* A stop signal ends the process, however early it is sent.
StopIsHeard == P!StopIsHeard
=============================================================================
