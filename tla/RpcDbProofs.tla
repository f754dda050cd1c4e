----------------------------- MODULE RpcDbProofs -----------------------------
(***************************************************************************)
(* Proofs about RpcDb for any clients, keys, values and number of requests *)
(* that outlive their call.                                                *)
(***************************************************************************)
EXTENDS RpcDb, FiniteSetTheorems, TLAPS

Requests == Guarded \cup Batched

\* Requests are told from NoCall and Unknown by their op.
LEMMA Ops ==
  /\ \A r \in Guarded : r.op \in {"has", "get", "delete", "put", "close", "health", "iterator"}
  /\ \A r \in Batched : r.op = "batch"
  /\ \A r \in Requests : r # NoCall /\ r # Unknown
  BY DEF Guarded, Batched, Requests, NoCall, Unknown

LEMMA WrittenType ==
  ASSUME NEW r \in Requests, r.op \in {"put", "delete", "batch"}
  PROVE  Written(r) \in Values \cup {None}
  BY DEF Written, Requests, Guarded, Batched

LEMMA KeyType ==
  ASSUME NEW r \in Requests, r.op \in {"put", "delete", "batch", "has", "get"}
  PROVE  r.key \in Keys
  BY RpcDbAssumption DEF Requests, Guarded, Batched

-----------------------------------------------------------------------------
(* Types, and the corollaries of TypeOK the steps below start from.        *)

\* What the served database does with a request, and whom it can answer what.
LEMMA ServingType ==
  ASSUME store \in [Keys -> Values \cup {None}], closed \in BOOLEAN,
         NEW r \in Requests, NEW x \in Results, Serving(r, x)
  PROVE  store' \in [Keys -> Values \cup {None}] /\ closed' \in BOOLEAN
  BY WrittenType DEF Serving

LEMMA ReplyType ==
  ASSUME NEW r \in Requests, NEW x \in Results
  PROVE  /\ ToCaller(r, ReplyTo(r, x)) \in Results \cup {"empty"}
         /\ ReplyTo(r, x).did = x
  BY DEF ToCaller, ReplyTo, ErrorCode, Results

\* The types, with what is needed to keep them: late is finite, and a reply on
\* its way is one the server made.
TypeInv ==
  /\ TypeOK
  /\ IsFiniteSet(late)
  /\ DOMAIN reply = Clients
  /\ \A c \in Clients : net[c] = "reply" =>
       \E x \in Results : reply[c] = ReplyTo(call[c], x)

LEMMA TypeInit == Init => TypeInv
<1> SUFFICES ASSUME Init PROVE TypeInv
  OBVIOUS
<1>1. IsFiniteSet(late) /\ Cardinality(late) <= MaxLate
  BY FS_EmptySet, RpcDbAssumption DEF Init
<1>2. \A c \in Clients : guard # c /\ call[c].op = "none"
  BY RpcDbAssumption DEF Init, NoCall
<1>3. TypeOK
  BY <1>1, <1>2 DEF Init, TypeOK, Results
<1> QED
  BY <1>1, <1>3 DEF Init, TypeInv

\* A call begins: the guarded ones with the mutex.
LEMMA TypeBegin ==
  ASSUME TypeInv, NEW c \in Clients, call[c] = NoCall, NEW r \in Requests, Begin(c, r),
         UNCHANGED ret,
         \/ r \in Guarded /\ guard = NoClient /\ guard' = c
         \/ r \in Batched /\ guard' = guard
  PROVE  TypeInv'
<1>1. /\ call' \in [Clients -> Requests \cup {NoCall}]
      /\ net' \in [Clients -> {"none", "request", "reply"}]
      /\ acked' \in [Keys -> Requests \cup {Unknown}]
  BY DEF TypeInv, TypeOK, Begin, Requests
<1>2. /\ \A d \in Clients : call'[d] = IF d = c THEN r ELSE call[d]
      /\ \A d \in Clients : net'[d] = IF d = c THEN "request" ELSE net[d]
  BY DEF TypeInv, TypeOK, Begin
<1>3. \A d \in Clients : /\ net'[d] = "none" <=> call'[d] = NoCall
                         /\ guard' = d <=> call'[d].op \notin {"none", "batch"}
  <2> SUFFICES ASSUME NEW d \in Clients
               PROVE  /\ net'[d] = "none" <=> call'[d] = NoCall
                      /\ guard' = d <=> call'[d].op \notin {"none", "batch"}
    OBVIOUS
  <2>1. guard = d <=> call[d].op \notin {"none", "batch"}
    BY DEF TypeInv, TypeOK
  <2>2. guard = c <=> NoCall.op \notin {"none", "batch"}
    BY DEF TypeInv, TypeOK
  <2> QED
    BY <1>2, <2>1, <2>2, Ops, RpcDbAssumption DEF TypeInv, TypeOK, NoCall
<1>4. UNCHANGED <<store, closed, corrupted, reply, late, did, ret>>
  BY DEF Begin
<1> QED
  BY <1>1, <1>2, <1>3, <1>4 DEF TypeInv, TypeOK, Requests

\* A call returns.
LEMMA TypeReturn ==
  ASSUME TypeInv, NEW c \in Clients, net[c] # "none", NEW x \in Results \cup {"empty"},
         Return(c, x), did' \in Results,
         store' = store, closed' = closed,
         acked' \in [Keys -> Requests \cup {Unknown}],
         late' \subseteq Requests, IsFiniteSet(late'), Cardinality(late') <= MaxLate
  PROVE  TypeInv'
<1>1. /\ call' \in [Clients -> Requests \cup {NoCall}]
      /\ net' \in [Clients -> {"none", "request", "reply"}]
      /\ DOMAIN reply' = Clients
      /\ corrupted' \in BOOLEAN
  BY DEF TypeInv, TypeOK, Return, Requests
<1>2. \A d \in Clients : /\ call'[d] = IF d = c THEN NoCall ELSE call[d]
                         /\ net'[d] = IF d = c THEN "none" ELSE net[d]
                         /\ d # c => reply'[d] = reply[d]
  BY DEF TypeInv, TypeOK, Return
<1>3. \A d \in Clients : /\ net'[d] = "none" <=> call'[d] = NoCall
                         /\ guard' = d <=> call'[d].op \notin {"none", "batch"}
  <2> SUFFICES ASSUME NEW d \in Clients
               PROVE  /\ net'[d] = "none" <=> call'[d] = NoCall
                      /\ guard' = d <=> call'[d].op \notin {"none", "batch"}
    OBVIOUS
  <2>1. guard = d <=> call[d].op \notin {"none", "batch"}
    BY DEF TypeInv, TypeOK
  <2>2. guard' = IF guard = c THEN NoClient ELSE guard
    BY DEF Return
  <2> QED
    BY <1>2, <2>1, <2>2, RpcDbAssumption DEF TypeInv, TypeOK, NoCall
<1>4. \A d \in Clients : net'[d] = "reply" => \E y \in Results : reply'[d] = ReplyTo(call'[d], y)
  BY <1>2 DEF TypeInv
<1>5. {ret', did'} \subseteq Results \cup {"blocked", "empty"}
  BY DEF Return
<1> QED
  BY <1>1, <1>3, <1>4, <1>5 DEF TypeInv, TypeOK, Requests

LEMMA TypeNext == TypeInv /\ [Next]_vars => TypeInv'
<1> SUFFICES ASSUME TypeInv, [Next]_vars PROVE TypeInv'
  OBVIOUS
<1>a. \A c \in Clients : call[c] \in Requests \cup {NoCall} /\ (net[c] # "none" => call[c] \in Requests)
  BY DEF TypeInv, TypeOK, Requests
<1>1. ASSUME NEW c \in Clients, CallGuarded(c) PROVE TypeInv'
  <2>1. CASE corrupted /\ ret' = "blocked" /\ did' = "blocked"
             /\ UNCHANGED <<store, closed, corrupted, guard, call, net, reply, late, acked>>
    BY <2>1 DEF TypeInv, TypeOK
  <2>2. CASE ~corrupted /\ (\E r \in Guarded : Begin(c, r)) /\ guard' = c /\ UNCHANGED ret
    <3>1. PICK r \in Guarded : Begin(c, r)
      BY <2>2
    <3>2. r \in Requests
      BY DEF Requests
    <3> QED
      BY <1>1, <2>2, <3>1, <3>2, TypeBegin DEF CallGuarded
  <2> QED BY <1>1, <2>1, <2>2 DEF CallGuarded
<1>2. ASSUME NEW c \in Clients, CallBatch(c) PROVE TypeInv'
  <2>1. PICK r \in Batched : Begin(c, r)
    BY <1>2 DEF CallBatch
  <2>2. r \in Requests
    BY DEF Requests
  <2> QED
    BY <1>2, <2>1, <2>2, TypeBegin DEF CallBatch
<1>3. ASSUME NEW c \in Clients, Serve(c) PROVE TypeInv'
  <2>1. PICK x \in Results : Serving(call[c], x) /\ reply' = [reply EXCEPT ![c] = ReplyTo(call[c], x)]
    BY <1>3 DEF Serve
  <2>2. call[c] \in Requests
    BY <1>a, <1>3 DEF Serve
  <2>3. store' \in [Keys -> Values \cup {None}] /\ closed' \in BOOLEAN
    BY <2>1, <2>2, ServingType DEF TypeInv, TypeOK
  <2>4. /\ DOMAIN reply' = Clients
        /\ \A d \in Clients : reply'[d] = IF d = c THEN ReplyTo(call[c], x) ELSE reply[d]
    BY <2>1 DEF TypeInv
  <2>5. net' \in [Clients -> {"none", "request", "reply"}]
        /\ \A d \in Clients : net'[d] = IF d = c THEN "reply" ELSE net[d]
    BY <1>3 DEF Serve, TypeInv, TypeOK
  <2>6. \A d \in Clients : net'[d] = "reply" => \E y \in Results : reply'[d] = ReplyTo(call[d], y)
    BY <2>4, <2>5 DEF TypeInv
  <2>7. \A d \in Clients : net'[d] = "none" <=> call[d] = NoCall
    BY <1>3, <2>5 DEF Serve, TypeInv, TypeOK
  <2> QED
    BY <1>3, <2>3, <2>4, <2>5, <2>6, <2>7 DEF Serve, TypeInv, TypeOK
<1>4. ASSUME NEW c \in Clients, Receive(c) PROVE TypeInv'
  <2> DEFINE x == ToCaller(call[c], reply[c])
  <2>1. net[c] # "none" /\ call[c] \in Requests
    BY <1>a, <1>4 DEF Receive
  <2>2. PICK y \in Results : reply[c] = ReplyTo(call[c], y)
    BY <1>4 DEF Receive, TypeInv
  <2>3. x \in Results \cup {"empty"} /\ did' \in Results
    BY <1>4, <2>1, <2>2, ReplyType DEF Receive
  <2>4. acked' \in [Keys -> Requests \cup {Unknown}]
    BY <1>4, <2>1 DEF Receive, TypeInv, TypeOK, Requests
  <2>5. late' = late /\ late \subseteq Requests /\ IsFiniteSet(late) /\ Cardinality(late) <= MaxLate
    BY <1>4 DEF Receive, TypeInv, TypeOK, Requests
  <2>6. Return(c, x) /\ store' = store /\ closed' = closed
    BY <1>4 DEF Receive
  <2> QED
    BY <2>1, <2>3, <2>4, <2>5, <2>6, TypeReturn
<1>5. ASSUME NEW c \in Clients, Break(c) PROVE TypeInv'
  <2>1. net[c] # "none" /\ call[c] \in Requests
    BY <1>a, <1>5 DEF Break
  <2>2. late \subseteq Requests /\ IsFiniteSet(late) /\ Cardinality(late) <= MaxLate
    BY DEF TypeInv, TypeOK, Requests
  <2>3. late' \subseteq Requests /\ IsFiniteSet(late') /\ Cardinality(late') <= MaxLate
    <3>1. CASE late' = late
      BY <2>2, <3>1
    <3>2. CASE Cardinality(late) < MaxLate /\ late' = late \cup {call[c]}
      <4>1. IsFiniteSet(late') /\ Cardinality(late') \in {Cardinality(late), Cardinality(late) + 1}
        BY <2>2, <3>2, FS_AddElement
      <4>2. Cardinality(late) \in Nat
        BY <2>2, FS_CardinalityType
      <4> QED
        BY <2>1, <2>2, <3>2, <4>1, <4>2, RpcDbAssumption
    <3> QED BY <1>5, <3>1, <3>2 DEF Break
  <2>4. Return(c, "io") /\ did' = "io" /\ store' = store /\ closed' = closed /\ acked' = acked
    BY <1>5 DEF Break
  <2>5. acked \in [Keys -> Requests \cup {Unknown}] /\ "io" \in Results
    BY DEF TypeInv, TypeOK, Requests, Results
  <2> QED
    BY <2>1, <2>3, <2>4, <2>5, TypeReturn
<1>6. ASSUME ServeLate PROVE TypeInv'
  <2>1. PICK r \in late, x \in Results : Serving(r, x) /\ late' = late \ {r}
    BY <1>6 DEF ServeLate
  <2>2. r \in Requests
    BY DEF TypeInv, TypeOK, Requests
  <2>3. store' \in [Keys -> Values \cup {None}] /\ closed' \in BOOLEAN
    BY <2>1, <2>2, ServingType DEF TypeInv, TypeOK
  <2>4. IsFiniteSet(late') /\ Cardinality(late') = Cardinality(late) - 1
    BY <2>1, FS_RemoveElement DEF TypeInv
  <2>5. Cardinality(late) \in Nat
    BY FS_CardinalityType DEF TypeInv
  <2>6. Cardinality(late') <= MaxLate
    BY <2>4, <2>5, RpcDbAssumption DEF TypeInv, TypeOK
  <2>7. UNCHANGED <<corrupted, guard, call, net, reply, ret, did, acked>>
    BY <1>6 DEF ServeLate
  <2> QED
    BY <2>1, <2>3, <2>4, <2>6, <2>7 DEF TypeInv, TypeOK
<1>7. CASE UNCHANGED vars
  BY <1>7 DEF TypeInv, TypeOK, vars
<1> QED
  BY <1>1, <1>2, <1>3, <1>4, <1>5, <1>6, <1>7 DEF Next

\* In every reachable state the variables have their types, and the wrapper's
\* mutex is held by exactly the client whose guarded call is under way.
THEOREM TypeCorrect == Spec => []TypeOK
<1>1. Spec => []TypeInv
  BY TypeInit, TypeNext, PTL DEF Spec
<1> QED
  BY <1>1, PTL DEF TypeInv

-----------------------------------------------------------------------------
(* Corruption.                                                             *)

\* Only the client that holds the mutex has a guarded call under way.
LEMMA OneGuarded ==
  ASSUME TypeInv, NEW c \in Clients, NEW d \in Clients, c # d,
         call[c].op \notin {"none", "batch"}
  PROVE  call[d].op \in {"none", "batch"}
  BY DEF TypeInv, TypeOK

LEMMA CorruptedNext == TypeInv /\ CorruptedIsQuiet /\ [Next]_vars => CorruptedIsQuiet'
<1> SUFFICES ASSUME TypeInv, CorruptedIsQuiet, [Next]_vars PROVE CorruptedIsQuiet'
  OBVIOUS
<1>a. ASSUME NEW c \in Clients, NEW x, net[c] # "none", Return(c, x) PROVE CorruptedIsQuiet'
  <2> SUFFICES ASSUME corrupted', NEW d \in Clients PROVE call'[d].op \in {"none", "batch"}
    BY DEF CorruptedIsQuiet
  <2>1. call'[d] = IF d = c THEN NoCall ELSE call[d]
    BY <1>a DEF Return, TypeInv, TypeOK
  <2>2. CASE corrupted
    BY <2>1, <2>2 DEF CorruptedIsQuiet, NoCall
  <2>3. CASE ~corrupted
    <3>1. call[c] \in Requests
      BY <1>a DEF TypeInv, TypeOK, Requests
    <3>2. call[c].op # "none"
      BY <3>1, Ops DEF Requests
    <3>3. call[c].op # "batch"
      BY <1>a, <2>3 DEF Return
    <3>4. d # c => call[d].op \in {"none", "batch"}
      BY <3>2, <3>3, OneGuarded
    <3> QED
      BY <2>1, <3>4 DEF NoCall
  <2> QED BY <2>2, <2>3
<1>1. ASSUME NEW c \in Clients, CallGuarded(c) PROVE CorruptedIsQuiet'
  BY <1>1 DEF CallGuarded, Begin, CorruptedIsQuiet
<1>2. ASSUME NEW c \in Clients, CallBatch(c) PROVE CorruptedIsQuiet'
  <2>1. PICK r \in Batched : Begin(c, r)
    BY <1>2 DEF CallBatch
  <2>2. \A d \in Clients : call'[d] = IF d = c THEN r ELSE call[d]
    BY <2>1 DEF Begin, TypeInv, TypeOK
  <2> QED
    BY <2>1, <2>2, Ops DEF Begin, CorruptedIsQuiet
<1>3. ASSUME NEW c \in Clients, Serve(c) PROVE CorruptedIsQuiet'
  BY <1>3 DEF Serve, CorruptedIsQuiet
<1>4. ASSUME NEW c \in Clients, Receive(c) PROVE CorruptedIsQuiet'
  BY <1>a, <1>4 DEF Receive
<1>5. ASSUME NEW c \in Clients, Break(c) PROVE CorruptedIsQuiet'
  BY <1>a, <1>5 DEF Break
<1>6. CASE ServeLate \/ UNCHANGED vars
  BY <1>6 DEF ServeLate, vars, CorruptedIsQuiet
<1> QED
  BY <1>1, <1>2, <1>3, <1>4, <1>5, <1>6 DEF Next

LEMMA CorruptedInit == Init => CorruptedIsQuiet
  BY DEF Init, CorruptedIsQuiet

\* The wrapper blocks further calls at the first sign of corruption, whatever
\* the served database and the network do.
THEOREM CorruptionIsQuiet == Spec => []CorruptedIsQuiet
  BY TypeInit, TypeNext, CorruptedInit, CorruptedNext, PTL DEF Spec

-----------------------------------------------------------------------------
(* Why an acknowledged change stays.                                       *)

\* A served request changes no key but its own.
LEMMA ServingFrame ==
  ASSUME NEW r, NEW x, Serving(r, x), store \in [Keys -> Values \cup {None}],
         NEW k \in Keys, ~Changes(r, k)
  PROVE  store'[k] = store[k]
  BY DEF Serving, Changes

\* A key that no batch writes is changed by put and delete, guarded calls.
LEMMA GuardedChange ==
  ASSUME NEW r \in Requests, NEW k \in Keys \ BatchKeys, Changes(r, k)
  PROVE  r.op \in {"put", "delete"}
  BY DEF Requests, Guarded, Batched, Changes

\* What a served database that only fails when closed may answer.
LEMMA ServingFits ==
  ASSUME store \in [Keys -> Values \cup {None}], ~MayFail,
         NEW r \in Requests, NEW x, Serving(r, x)
  PROVE  Fits(r, x)
<1>1. x = Result(r)
  BY DEF Serving
<1>2. r.op = "get" => store[r.key] \in Values \cup {None}
  BY KeyType
<1> QED
  BY <1>1, <1>2 DEF Result, Look, Fits

\* A change that was done with result "ok" is in the store.
LEMMA ServingWrites ==
  ASSUME NEW r \in Requests, Serving(r, "ok"), store \in [Keys -> Values \cup {None}],
         NEW k \in Keys, Changes(r, k)
  PROVE  store'[k] = Written(r)
  BY DEF Serving, Changes

LEMMA ServedInit == Init => ServedInv
  BY DEF Init, ServedInv, CorruptedIsQuiet, LateIsCorruption, ReplyIsServed, AckedAlone

LEMMA LateNext == TypeInv /\ LateIsCorruption /\ [Next]_vars => LateIsCorruption'
<1> SUFFICES ASSUME TypeInv, LateIsCorruption, [Next]_vars PROVE LateIsCorruption'
  OBVIOUS
<1>1. ASSUME NEW c \in Clients, CallGuarded(c) \/ CallBatch(c) \/ Serve(c)
      PROVE  LateIsCorruption'
  BY <1>1 DEF CallGuarded, CallBatch, Begin, Serve, LateIsCorruption
<1>2. ASSUME NEW c \in Clients, Receive(c) PROVE LateIsCorruption'
  BY <1>2 DEF Receive, Return, LateIsCorruption
<1>3. ASSUME NEW c \in Clients, Break(c) PROVE LateIsCorruption'
  <2>1. corrupted' = (corrupted \/ call[c].op \notin {"batch", "iterator"})
    BY <1>3 DEF Break, Return, IsCorruptible
  <2>2. late' \subseteq late \cup {call[c]}
    BY <1>3 DEF Break
  <2> QED
    BY <2>1, <2>2 DEF LateIsCorruption
<1>4. CASE ServeLate \/ UNCHANGED vars
  BY <1>4 DEF ServeLate, vars, LateIsCorruption
<1> QED
  BY <1>1, <1>2, <1>3, <1>4 DEF Next

\* A key that no batch writes is changed only by the call the server works on,
\* the one with the mutex, or, after corruption, by a request that outlived its
\* call, while no guarded call is under way.
LEMMA OneChanger ==
  ASSUME TypeInv, CorruptedIsQuiet, LateIsCorruption,
         NEW k \in Keys \ BatchKeys, NEW d \in Clients, Changes(call[d], k)
  PROVE  /\ \A c \in Clients \ {d} : ~Changes(call[c], k)
         /\ \A r \in late : ~Changes(r, k)
<1>1. call[d].op \in {"put", "delete"}
  <2>1. call[d] \in Requests
    BY DEF TypeInv, TypeOK, Requests, Changes, NoCall
  <2> QED BY <2>1, GuardedChange
<1>2. ASSUME NEW c \in Clients \ {d} PROVE ~Changes(call[c], k)
  <2>1. call[c].op \in {"none", "batch"}
    BY <1>1, OneGuarded
  <2>2. call[c] \in Requests \cup {NoCall}
    BY DEF TypeInv, TypeOK, Requests
  <2> QED
    BY <2>1, <2>2, GuardedChange DEF Changes, NoCall
<1>3. ASSUME NEW r \in late, Changes(r, k) PROVE FALSE
  <2>1. r \in Requests
    BY DEF TypeInv, TypeOK, Requests
  <2>2. corrupted
    BY <1>3, <2>1, GuardedChange DEF LateIsCorruption
  <2> QED
    BY <1>1, <2>2 DEF CorruptedIsQuiet
<1> QED
  BY <1>2, <1>3

LEMMA ReplyNext ==
  TypeInv /\ ServedInv /\ [Next]_vars => ReplyIsServed'
<1> SUFFICES ASSUME TypeInv, ServedInv, [Next]_vars,
                    NEW d \in Clients, net'[d] = "reply"
             PROVE  \E x \in Results :
                      /\ reply'[d] = ReplyTo(call'[d], x)
                      /\ ~MayFail => Fits(call'[d], x)
                      /\ ~MayFail /\ x = "ok" =>
                           \A k \in Keys \ BatchKeys :
                             Changes(call'[d], k) => store'[k] = Written(call'[d])
  BY DEF ReplyIsServed, ReplyTo, Fits, Changes, Written
<1> USE DEF ServedInv
<1>t. store \in [Keys -> Values \cup {None}]
  BY DEF TypeInv, TypeOK
\* The reply that was on its way stays what it was, unless its key is changed.
<1>a. ASSUME net[d] = "reply", reply'[d] = reply[d], call'[d] = call[d],
             \A k \in Keys \ BatchKeys : Changes(call[d], k) => store'[k] = store[k]
      PROVE  \E x \in Results :
               /\ reply'[d] = ReplyTo(call'[d], x)
               /\ ~MayFail => Fits(call'[d], x)
               /\ ~MayFail /\ x = "ok" =>
                    \A k \in Keys \ BatchKeys :
                      Changes(call'[d], k) => store'[k] = Written(call'[d])
  <2>1. PICK x \in Results :
               /\ reply[d] = ReplyTo(call[d], x)
               /\ ~MayFail => Fits(call[d], x)
               /\ ~MayFail /\ x = "ok" =>
                    \A k \in Keys \ BatchKeys : Changes(call[d], k) => store[k] = Written(call[d])
    BY <1>a DEF ReplyIsServed
  <2> QED
    BY <1>a, <2>1
<1>1. ASSUME NEW c \in Clients, NEW r, Begin(c, r) PROVE net[d] = "reply" /\ call'[d] = call[d]
  BY <1>1 DEF Begin, TypeInv, TypeOK
<1>2. ASSUME NEW c \in Clients, CallGuarded(c) \/ CallBatch(c)
      PROVE  net[d] = "reply" /\ reply' = reply /\ call'[d] = call[d] /\ store' = store
  BY <1>1, <1>2 DEF CallGuarded, CallBatch, Begin
<1>3. ASSUME NEW c \in Clients, Serve(c), d # c
      PROVE  /\ net[d] = "reply" /\ reply'[d] = reply[d] /\ call'[d] = call[d]
             /\ \A k \in Keys \ BatchKeys : Changes(call[d], k) => store'[k] = store[k]
  <2>1. PICK x \in Results : Serving(call[c], x) /\ reply' = [reply EXCEPT ![c] = ReplyTo(call[c], x)]
    BY <1>3 DEF Serve
  <2>2. net[d] = "reply" /\ reply'[d] = reply[d] /\ call'[d] = call[d]
    BY <1>3, <2>1 DEF Serve, TypeInv, TypeOK
  <2>3. ASSUME NEW k \in Keys \ BatchKeys, Changes(call[d], k) PROVE ~Changes(call[c], k)
    BY <1>3, <2>3, OneChanger
  <2> QED
    BY <1>t, <2>1, <2>2, <2>3, ServingFrame
<1>4. ASSUME Serve(d)
      PROVE  \E x \in Results :
               /\ reply'[d] = ReplyTo(call'[d], x)
               /\ ~MayFail => Fits(call'[d], x)
               /\ ~MayFail /\ x = "ok" =>
                    \A k \in Keys \ BatchKeys :
                      Changes(call'[d], k) => store'[k] = Written(call'[d])
  <2>1. PICK x \in Results : Serving(call[d], x) /\ reply' = [reply EXCEPT ![d] = ReplyTo(call[d], x)]
    BY <1>4 DEF Serve
  <2>2. reply'[d] = ReplyTo(call[d], x) /\ call' = call
    BY <1>4, <2>1 DEF Serve, TypeInv
  <2>3. call[d] \in Requests
    BY <1>4 DEF Serve, TypeInv, TypeOK, Requests
  <2>4. ~MayFail => Fits(call[d], x)
    BY <1>t, <2>1, <2>3, ServingFits
  <2>5. x = "ok" => \A k \in Keys \ BatchKeys : Changes(call[d], k) => store'[k] = Written(call[d])
    BY <1>t, <2>1, <2>3, ServingWrites
  <2> QED
    BY <2>2, <2>4, <2>5
<1>5. ASSUME NEW c \in Clients, Receive(c) \/ Break(c)
      PROVE  net[d] = "reply" /\ reply'[d] = reply[d] /\ call'[d] = call[d] /\ store' = store
  BY <1>5 DEF Receive, Break, Return, TypeInv, TypeOK
<1>6. ASSUME ServeLate
      PROVE  /\ net[d] = "reply" /\ reply' = reply /\ call' = call
             /\ \A k \in Keys \ BatchKeys : Changes(call[d], k) => store'[k] = store[k]
  <2>1. PICK r \in late, x \in Results : Serving(r, x)
    BY <1>6 DEF ServeLate
  <2>2. ASSUME NEW k \in Keys \ BatchKeys, Changes(call[d], k) PROVE ~Changes(r, k)
    BY <2>2, OneChanger
  <2> QED
    BY <1>6, <1>t, <2>1, <2>2, ServingFrame DEF ServeLate
<1>7. CASE UNCHANGED vars
  BY <1>7, <1>a DEF vars
<1>8. ASSUME NEW c \in Clients, Serve(c)
      PROVE  \E x \in Results :
               /\ reply'[d] = ReplyTo(call'[d], x)
               /\ ~MayFail => Fits(call'[d], x)
               /\ ~MayFail /\ x = "ok" =>
                    \A k \in Keys \ BatchKeys :
                      Changes(call'[d], k) => store'[k] = Written(call'[d])
  BY <1>3, <1>4, <1>8, <1>a
<1> QED
  BY <1>2, <1>5, <1>6, <1>7, <1>8, <1>a DEF Next

LEMMA AloneNext ==
  TypeInv /\ ServedInv /\ [Next]_vars => AckedAlone'
<1> SUFFICES ASSUME TypeInv, ServedInv, [Next]_vars,
                    NEW k \in Keys \ BatchKeys, acked'[k] # Unknown
             PROVE  /\ \A d \in Clients : ~Changes(call'[d], k)
                    /\ \A r \in late' : ~Changes(r, k)
  BY DEF AckedAlone, Changes
<1> USE DEF ServedInv
<1>n. ~Changes(NoCall, k)
  BY DEF Changes, NoCall
<1>1. ASSUME NEW c \in Clients, NEW r, Begin(c, r)
      PROVE  /\ \A d \in Clients : ~Changes(call'[d], k)
             /\ \A q \in late' : ~Changes(q, k)
  <2>1. acked'[k] = IF Changes(r, k) THEN Unknown ELSE acked[k]
    BY <1>1 DEF Begin
  <2>2. \A d \in Clients : call'[d] = IF d = c THEN r ELSE call[d]
    BY <1>1 DEF Begin, TypeInv, TypeOK
  <2>3. late' = late
    BY <1>1 DEF Begin
  <2> QED
    BY <2>1, <2>2, <2>3 DEF AckedAlone
<1>2. ASSUME NEW c \in Clients, CallGuarded(c) \/ CallBatch(c)
      PROVE  /\ \A d \in Clients : ~Changes(call'[d], k)
             /\ \A q \in late' : ~Changes(q, k)
  <2>1. CASE UNCHANGED <<call, late, acked>>
    BY <2>1 DEF AckedAlone
  <2>2. CASE \E r : Begin(c, r)
    BY <1>1, <2>2
  <2> QED
    BY <1>2, <2>1, <2>2 DEF CallGuarded, CallBatch
<1>3. CASE ServeLate \/ (\E c \in Clients : Serve(c)) \/ UNCHANGED vars
  BY <1>3 DEF ServeLate, Serve, vars, AckedAlone
<1>4. ASSUME NEW c \in Clients, Receive(c)
      PROVE  /\ \A d \in Clients : ~Changes(call'[d], k)
             /\ \A q \in late' : ~Changes(q, k)
  <2>1. \A d \in Clients : call'[d] = IF d = c THEN NoCall ELSE call[d]
    BY <1>4 DEF Receive, Return, TypeInv, TypeOK
  <2>2. late' = late
    BY <1>4 DEF Receive
  <2>3. CASE acked'[k] = acked[k]
    BY <1>n, <2>1, <2>2, <2>3 DEF AckedAlone
  <2>4. CASE acked'[k] # acked[k]
    <3>1. Changes(call[c], k)
      BY <1>4, <2>4 DEF Receive, Changes, TypeInv, TypeOK
    <3> QED
      BY <1>n, <2>1, <2>2, <3>1, OneChanger
  <2> QED BY <2>3, <2>4
<1>5. ASSUME NEW c \in Clients, Break(c)
      PROVE  /\ \A d \in Clients : ~Changes(call'[d], k)
             /\ \A q \in late' : ~Changes(q, k)
  <2>1. \A d \in Clients : call'[d] = IF d = c THEN NoCall ELSE call[d]
    BY <1>5 DEF Break, Return, TypeInv, TypeOK
  <2>2. late' \subseteq late \cup {call[c]} /\ acked' = acked
    BY <1>5 DEF Break
  <2> QED
    BY <1>n, <2>1, <2>2 DEF AckedAlone
<1> QED
  BY <1>2, <1>3, <1>4, <1>5 DEF Next

LEMMA ServedNext == TypeInv /\ ServedInv /\ [Next]_vars => ServedInv'
  BY CorruptedNext, LateNext, ReplyNext, AloneNext DEF ServedInv

LEMMA ServedAlways == Spec => [](TypeInv /\ ServedInv)
  BY TypeInit, TypeNext, ServedInit, ServedNext, PTL DEF Spec

\* What a caller is told when the reply fits what was asked.
LEMMA ToldTrue ==
  ASSUME NEW r \in Requests, NEW x \in Results, Fits(r, x)
  PROVE  /\ r.op \in {"put", "delete", "batch"} /\ ToCaller(r, ReplyTo(r, x)) = "ok" => x = "ok"
         /\ ~HasChecksClosed => ToCaller(r, ReplyTo(r, x)) = x
<1>1. r.op = "get" /\ x \in Values => x \notin {"closed", "notfound", "io"}
  BY RpcDbAssumption
<1>2. r.op \in {"has", "get", "delete", "put", "close", "health", "iterator", "batch"}
  BY Ops DEF Requests
<1> QED
  BY <1>1, <1>2 DEF Fits, ToCaller, ReplyTo, ErrorCode

LEMMA AckedNext ==
  ASSUME ~MayFail
  PROVE  TypeInv /\ ServedInv /\ AckedStays /\ [Next]_vars => AckedStays'
<1> SUFFICES ASSUME TypeInv, ServedInv, AckedStays, [Next]_vars,
                    NEW k \in Keys \ BatchKeys, acked'[k] # Unknown
             PROVE  store'[k] = Written(acked'[k])
  BY DEF AckedStays, Written
<1> USE DEF ServedInv
<1>t. store \in [Keys -> Values \cup {None}]
  BY DEF TypeInv, TypeOK
<1>1. ASSUME NEW c \in Clients, NEW r, Begin(c, r) PROVE store'[k] = Written(acked'[k])
  BY <1>1 DEF Begin, AckedStays
<1>2. ASSUME NEW c \in Clients, CallGuarded(c) \/ CallBatch(c) PROVE store'[k] = Written(acked'[k])
  BY <1>1, <1>2 DEF CallGuarded, CallBatch, AckedStays
<1>3. ASSUME NEW c \in Clients, Serve(c) PROVE store'[k] = Written(acked'[k])
  <2>1. PICK x \in Results : Serving(call[c], x)
    BY <1>3 DEF Serve
  <2>2. acked' = acked
    BY <1>3 DEF Serve
  <2> QED
    BY <1>t, <2>1, <2>2, ServingFrame DEF AckedAlone, AckedStays
<1>4. ASSUME ServeLate PROVE store'[k] = Written(acked'[k])
  <2>1. PICK r \in late, x \in Results : Serving(r, x)
    BY <1>4 DEF ServeLate
  <2>2. acked' = acked
    BY <1>4 DEF ServeLate
  <2> QED
    BY <1>t, <2>1, <2>2, ServingFrame DEF AckedAlone, AckedStays
<1>5. ASSUME NEW c \in Clients, Receive(c) PROVE store'[k] = Written(acked'[k])
  <2>1. PICK x \in Results :
               /\ reply[c] = ReplyTo(call[c], x)
               /\ Fits(call[c], x)
               /\ x = "ok" => (Changes(call[c], k) => store[k] = Written(call[c]))
    BY <1>5 DEF Receive, ReplyIsServed
  <2>2. call[c] \in Requests /\ store' = store
    BY <1>5 DEF Receive, TypeInv, TypeOK, Requests
  <2>3. CASE acked'[k] = acked[k]
    BY <2>2, <2>3 DEF AckedStays
  <2>4. CASE acked'[k] # acked[k]
    <3>1. /\ call[c].op \in {"put", "delete", "batch"} /\ call[c].key = k
          /\ ToCaller(call[c], reply[c]) = "ok" /\ acked'[k] = call[c]
      BY <1>5, <2>4 DEF Receive, TypeInv, TypeOK
    <3>2. x = "ok"
      BY <2>1, <2>2, <3>1, ToldTrue
    <3> QED
      BY <2>1, <2>2, <3>1, <3>2 DEF Changes
  <2> QED BY <2>3, <2>4
<1>6. ASSUME NEW c \in Clients, Break(c) PROVE store'[k] = Written(acked'[k])
  BY <1>6 DEF Break, AckedStays
<1>7. CASE UNCHANGED vars
  BY <1>7 DEF vars, AckedStays
<1> QED
  BY <1>2, <1>3, <1>4, <1>5, <1>6, <1>7 DEF Next

\* Over a served database that fails only when closed, what put or delete was
\* acknowledged for a key no batch writes stays until the key's next change is
\* called, though connections break and requests outlive their calls.
THEOREM AcknowledgedStays == ASSUME ~MayFail PROVE Spec => []AckedStays
<1>1. Init => AckedStays
  BY DEF Init, AckedStays
<1>2. TypeInv /\ ServedInv /\ AckedStays /\ [Next]_vars => AckedStays'
  BY AckedNext
<1> QED
  BY <1>1, <1>2, ServedAlways, PTL DEF Spec

LEMMA AnswerNext ==
  ASSUME ~MayFail, ~HasChecksClosed
  PROVE  TypeInv /\ ServedInv /\ AnswerIsTrue /\ [Next]_vars => AnswerIsTrue'
<1> SUFFICES ASSUME TypeInv, ServedInv, AnswerIsTrue, [Next]_vars PROVE AnswerIsTrue'
  OBVIOUS
<1>1. ASSUME NEW c \in Clients, CallGuarded(c) \/ CallBatch(c) \/ Serve(c) PROVE AnswerIsTrue'
  BY <1>1 DEF CallGuarded, CallBatch, Begin, Serve, AnswerIsTrue
<1>2. ASSUME NEW c \in Clients, Receive(c) PROVE AnswerIsTrue'
  <2>1. PICK x \in Results : reply[c] = ReplyTo(call[c], x) /\ Fits(call[c], x)
    BY <1>2 DEF Receive, ServedInv, ReplyIsServed
  <2>2. call[c] \in Requests
    BY <1>2 DEF Receive, TypeInv, TypeOK, Requests
  <2>3. ret' = ToCaller(call[c], reply[c]) /\ did' = reply[c].did
    BY <1>2 DEF Receive, Return
  <2> QED
    BY <2>1, <2>2, <2>3, ToldTrue, ReplyType DEF AnswerIsTrue
<1>3. ASSUME NEW c \in Clients, Break(c) PROVE AnswerIsTrue'
  BY <1>3 DEF Break, Return, AnswerIsTrue
<1>4. CASE ServeLate \/ UNCHANGED vars
  BY <1>4 DEF ServeLate, vars, AnswerIsTrue
<1> QED
  BY <1>1, <1>2, <1>3, <1>4 DEF Next

\* Over such a database whose has does not ask whether it is closed, every
\* caller is told what was done for it: the error codes lose nothing.
THEOREM AnswersAreTrue == ASSUME ~MayFail, ~HasChecksClosed PROVE Spec => []AnswerIsTrue
<1>1. Init => AnswerIsTrue
  BY DEF Init, AnswerIsTrue
<1>2. TypeInv /\ ServedInv /\ AnswerIsTrue /\ [Next]_vars => AnswerIsTrue'
  BY AnswerNext
<1> QED
  BY <1>1, <1>2, ServedAlways, PTL DEF Spec
=============================================================================
