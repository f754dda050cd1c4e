-------------------------------- MODULE RpcDb --------------------------------
(***************************************************************************)
(* The database of a VM: a corruptabledb over the rpcdb client, whose      *)
(* calls travel to the rpcdb server in another process and are done there  *)
(* on the database it serves.  vm/server.rs builds this stack in           *)
(* initialize.                                                             *)
(*                                                                         *)
(* The clones of the VM's handle share the wrapper's mutex, which each     *)
(* guarded call holds from its check to its answer.  A batch is made by    *)
(* the client below the wrapper, and its write goes past the mutex.  When  *)
(* the connection breaks the caller gets an error, and the request may     *)
(* still be done, at any later time.                                       *)
(***************************************************************************)
EXTENDS Naturals, FiniteSets

CONSTANTS
  Clients,         \* the clones of the VM's handle
  Keys, Values, None,
  NoClient,
  HasChecksClosed, \* has of the served database refuses when it is closed
  MayFail,         \* the served database may fail, say with an I/O error
  BatchKeys,       \* the keys the clients write batches of
  MaxLate          \* bound: requests that may outlive their call

ASSUME RpcDbAssumption ==
  /\ None \notin Values
  /\ Values \cap {"ok", "true", "false", "closed", "notfound", "io", "unspecified"} = {}
  /\ NoClient \notin Clients
  /\ BatchKeys \subseteq Keys
  /\ MaxLate \in Nat
  /\ {HasChecksClosed, MayFail} \subseteq BOOLEAN

VARIABLES
  store,      \* content of the served database
  closed,     \* the served database is closed
  corrupted,  \* the wrapper's mutex holds an error
  guard,      \* the client whose call holds the wrapper's mutex
  call,       \* the call of each client, NoCall between two
  net,        \* where it is: "none", "request", "reply"
  reply,      \* the reply on its way: the error code and the value
  late,       \* requests whose caller has been told of a broken connection
  ret,        \* what the call that returned last told its caller
  did,        \* what the served database did for it
  acked       \* the change last acknowledged for each key, if none was
              \* called since

vars == <<store, closed, corrupted, guard, call, net, reply, late, ret, did, acked>>

NoCall == [op |-> "none"]
Unknown == [op |-> "unknown"]

\* A batch is given by one of its operations: the rest would be the same.
Guarded == [op : {"has", "get", "delete"}, key : Keys]
             \cup [op : {"put"}, key : Keys, value : Values]
             \cup [op : {"close", "health", "iterator"}]
Batched == [op : {"batch"}, key : BatchKeys, value : Values]
Changes(r, k) == r.op \in {"put", "delete", "batch"} /\ r.key = k

-----------------------------------------------------------------------------
(* The server.                                                             *)

Look(r) == IF r.op = "has" THEN IF store[r.key] = None THEN "false" ELSE "true"
           ELSE IF store[r.key] = None THEN "notfound" ELSE store[r.key]

Result(r) == IF closed /\ (r.op = "has" => HasChecksClosed) THEN "closed"
             ELSE IF r.op \in {"has", "get"} THEN Look(r) ELSE "ok"

Written(r) == IF r.op = "delete" THEN None ELSE r.value

\* The served database does r with result x.  A failure changes nothing.
Serving(r, x) ==
  \/ MayFail /\ x = "io" /\ UNCHANGED <<store, closed>>
  \/ /\ x = Result(r)
     /\ store' = IF x = "ok" /\ r.op \in {"put", "delete", "batch"}
                 THEN [store EXCEPT ![r.key] = Written(r)] ELSE store
     /\ closed' = (closed \/ (x = "ok" /\ r.op = "close"))

Results == Values \cup {"ok", "true", "false", "closed", "notfound", "io"}

\* error_to_error_code: an error it does not know has the code of success.
ErrorCode(x) == IF x \in {"closed", "notfound"} THEN x ELSE "unspecified"

\* An error of health_check or new_iterator is the status of the call, which
\* from_status reads.  The other replies carry a code, and a reply that has an
\* error the default value of its type.
ReplyTo(r, x) ==
  IF r.op \in {"health", "iterator"}
  THEN [err |-> "unspecified", value |-> x, did |-> x] ELSE
  [err |-> ErrorCode(x),
   value |-> IF x \in {"closed", "notfound", "io"}
             THEN IF r.op = "has" THEN "false" ELSE "empty"
             ELSE x,
   did |-> x]

-----------------------------------------------------------------------------
(* The client.                                                             *)

\* Mutant: put does not look at the error of the reply.
ToCaller_IgnorePutError(r, rep) ==
  IF r.op = "put" THEN "ok"
  ELSE IF r.op # "has" /\ rep.err # "unspecified" THEN rep.err
  ELSE IF r.op \in {"delete", "batch", "close"} THEN "ok" ELSE rep.value

\* from_i32 on the error of the reply; has does not look at it.  put, delete,
\* close and write have no value.
ToCaller(r, rep) ==
  IF r.op # "has" /\ rep.err # "unspecified" THEN rep.err
  ELSE IF r.op \in {"put", "delete", "batch", "close"} THEN "ok" ELSE rep.value

\* Mutant: a broken connection is not taken for corruption.
IsCorruptible_NotTransport(x) == FALSE

IsCorruptible(x) == x = "io"

Begin(c, r) ==
  /\ call' = [call EXCEPT ![c] = r]
  /\ net' = [net EXCEPT ![c] = "request"]
  /\ acked' = [k \in Keys |-> IF Changes(r, k) THEN Unknown ELSE acked[k]]
  /\ UNCHANGED <<store, closed, corrupted, reply, late, did>>

\* Mutant: the mutex is dropped after the check.
CallGuarded_DropGuard(c) ==
  /\ call[c] = NoCall
  /\ guard = NoClient
  /\ \/ /\ corrupted
        /\ ret' = "blocked" /\ did' = "blocked"
        /\ UNCHANGED <<store, closed, corrupted, guard, call, net, reply, late, acked>>
     \/ /\ ~corrupted
        /\ \E r \in Guarded : Begin(c, r)
        /\ UNCHANGED <<guard, ret>>

\* A call of the wrapper takes the mutex, and is refused once corrupted.
CallGuarded(c) ==
  /\ call[c] = NoCall
  /\ guard = NoClient
  /\ \/ /\ corrupted
        /\ ret' = "blocked" /\ did' = "blocked"
        /\ UNCHANGED <<store, closed, corrupted, guard, call, net, reply, late, acked>>
     \/ /\ ~corrupted
        /\ \E r \in Guarded : Begin(c, r)
        /\ guard' = c
        /\ UNCHANGED ret

\* new_batch does not ask whether the database is corrupted, nor does write.
CallBatch(c) ==
  /\ call[c] = NoCall
  /\ \E r \in Batched : Begin(c, r)
  /\ UNCHANGED <<guard, ret>>

\* The wrapper keeps the first error that is corruptible and lets go of the
\* mutex.  A batch goes past it, and new_iterator answers with an iterator that
\* reports the error.
Return(c, x) ==
  /\ call' = [call EXCEPT ![c] = NoCall]
  /\ net' = [net EXCEPT ![c] = "none"]
  /\ reply' = [reply EXCEPT ![c] = NoCall]
  /\ ret' = x
  /\ guard' = IF guard = c THEN NoClient ELSE guard
  /\ corrupted' = (corrupted \/ (call[c].op \notin {"batch", "iterator"} /\ IsCorruptible(x)))

-----------------------------------------------------------------------------
(* The network and the server.                                             *)

Serve(c) ==
  /\ net[c] = "request"
  /\ \E x \in Results :
       /\ Serving(call[c], x)
       /\ reply' = [reply EXCEPT ![c] = ReplyTo(call[c], x)]
  /\ net' = [net EXCEPT ![c] = "reply"]
  /\ UNCHANGED <<corrupted, guard, call, late, ret, did, acked>>

Receive(c) ==
  LET r == call[c]  x == ToCaller(r, reply[c]) IN
  /\ net[c] = "reply"
  /\ Return(c, x)
  /\ did' = reply[c].did
  /\ acked' = IF r.op \in {"put", "delete", "batch"} /\ x = "ok"
                 /\ \A d \in Clients \ {c} : ~Changes(call[d], r.key)
              THEN [acked EXCEPT ![r.key] = r] ELSE acked
  /\ UNCHANGED <<store, closed, late>>

\* The connection breaks: a request not served yet may be served later.
Break(c) ==
  /\ net[c] \in {"request", "reply"}
  /\ Return(c, "io")
  /\ did' = "io"
  /\ \/ late' = late
     \/ /\ net[c] = "request" /\ Cardinality(late) < MaxLate
        /\ late' = late \cup {call[c]}
  /\ UNCHANGED <<store, closed, acked>>

ServeLate ==
  \E r \in late, x \in Results :
    /\ Serving(r, x)
    /\ late' = late \ {r}
    /\ UNCHANGED <<corrupted, guard, call, net, reply, ret, did, acked>>

Init ==
  /\ store = [k \in Keys |-> None]
  /\ closed = FALSE /\ corrupted = FALSE
  /\ guard = NoClient
  /\ call = [c \in Clients |-> NoCall]
  /\ net = [c \in Clients |-> "none"]
  /\ reply = [c \in Clients |-> NoCall]
  /\ late = {}
  /\ ret = "ok" /\ did = "ok"
  /\ acked = [k \in Keys |-> Unknown]

Next ==
  \/ \E c \in Clients : CallGuarded(c) \/ CallBatch(c) \/ Serve(c) \/ Receive(c) \/ Break(c)
  \/ ServeLate

Spec == Init /\ [][Next]_vars

-----------------------------------------------------------------------------
(* Properties.                                                             *)

\* The types; and the mutex is held by the client with a guarded call.
TypeOK ==
  /\ store \in [Keys -> Values \cup {None}]
  /\ closed \in BOOLEAN /\ corrupted \in BOOLEAN
  /\ call \in [Clients -> Guarded \cup Batched \cup {NoCall}]
  /\ net \in [Clients -> {"none", "request", "reply"}]
  /\ late \subseteq Guarded \cup Batched /\ Cardinality(late) <= MaxLate
  /\ {ret, did} \subseteq Results \cup {"blocked", "empty"}
  /\ acked \in [Keys -> Guarded \cup Batched \cup {Unknown}]
  /\ \A c \in Clients : /\ net[c] = "none" <=> call[c] = NoCall
                        /\ guard = c <=> call[c].op \notin {"none", "batch"}

\* At the first sign of corruption further calls are blocked: no call of the
\* wrapper is under way when the error is kept, and none is sent after that.
\* Batches go past the wrapper.
CorruptedIsQuiet ==
  corrupted => \A c \in Clients : call[c].op \in {"none", "batch"}

\* What was acknowledged stays until another change of the key is called: a
\* request that outlived its call never overtakes a later one, because after
\* the broken connection the wrapper lets no later one out.  A key that
\* batches write has no such promise.
AckedStays == \A k \in Keys \ BatchKeys :
                acked[k] # Unknown => store[k] = Written(acked[k])

\* The caller is told what the served database did.
AnswerIsTrue == ret = did

\* A failure of the served database that is neither "closed" nor "not found"
\* is a sign of corruption: when a call that reads the code of its reply was
\* served with one, the wrapper has seen it by the time the call returns.
FailureIsSeen ==
  [][\A c \in Clients :
       /\ call[c].op \in {"get", "put", "delete", "close"}
       /\ net[c] = "reply" /\ reply[c].did = "io"
       /\ net'[c] = "none"
       => corrupted']_vars

-----------------------------------------------------------------------------
(* Why an acknowledged change stays: the parts of an inductive invariant.  *)

\* A change that outlived its call went past the wrapper, or its broken
\* connection was kept as corruption.
LateIsCorruption ==
  \A r \in late : r.op \in {"put", "delete"} => corrupted

\* A reply is of what a database that only fails when closed may answer, and
\* a change it acknowledges has been made and not been overwritten since.
Fits(r, x) ==
  x \in IF r.op = "has" THEN {"true", "false"} \cup {y \in {"closed"} : HasChecksClosed}
        ELSE IF r.op = "get" THEN Values \cup {"notfound", "closed"}
        ELSE {"ok", "closed"}

ReplyIsServed ==
  \A c \in Clients : net[c] = "reply" =>
    \E x \in Results :
      /\ reply[c] = ReplyTo(call[c], x)
      /\ ~MayFail => Fits(call[c], x)
      /\ ~MayFail /\ x = "ok" =>
           \A k \in Keys \ BatchKeys : Changes(call[c], k) => store[k] = Written(call[c])

\* No other change of the key is on its way.
AckedAlone ==
  \A k \in Keys \ BatchKeys : acked[k] # Unknown =>
    /\ \A c \in Clients : ~Changes(call[c], k)
    /\ \A r \in late : ~Changes(r, k)

ServedInv == CorruptedIsQuiet /\ LateIsCorruption /\ ReplyIsServed /\ AckedAlone
=============================================================================
