----------------------------- MODULE DataProofs ------------------------------
(***************************************************************************)
(* Proofs about the parts of MCWalletAndData, for any values of their      *)
(* constants: the messages of peers (PeerMessages), the calls of the       *)
(* JSON-RPC clients (JsonRpcClient), the bags of ids (IdBags), values as   *)
(* texts (Texts), and the transactions (TxBytes): the bytes of a           *)
(* transaction tell it, a list can be sorted, the order of the types is    *)
(* that of their bytes, and so no two transactions have one id and what a  *)
(* wallet has sorted is what the chain wants.                              *)
(***************************************************************************)
EXTENDS MCWalletAndData, SequenceTheorems, FiniteSetTheorems, WellFoundedInduction, TLAPS

-----------------------------------------------------------------------------
(* Folds.  The library folds over the subsets of a domain, the greatest    *)
(* index last; what it gives is the end of a path of one value per index.  *)

GreatestOf(S) == CHOOSE x \in S : \A y \in S : x >= y

LEMMA GreatestTo ==
  ASSUME NEW k \in Nat \ {0}
  PROVE  1..k # {} /\ GreatestOf(1..k) = k /\ (1..k) \ {k} = 1..(k - 1)
<1>1. k \in 1..k /\ \A y \in 1..k : k >= y
  OBVIOUS
<1>2. \A x \in 1..k : (\A y \in 1..k : x >= y) => x = k
  OBVIOUS
<1>3. GreatestOf(1..k) = k
  BY <1>1, <1>2 DEF GreatestOf
<1> QED
  BY <1>1, <1>3

LEMMA GreatestIn ==
  ASSUME NEW k \in Nat, NEW s \in SUBSET (1..k), s # {}
  PROVE  GreatestOf(s) \in s /\ \A y \in s : GreatestOf(s) >= y
<1> DEFINE Above == {n \in Nat : \A y \in s : n >= y}
<1>1. k \in Above
  OBVIOUS
<1>2. PICK n \in Above : \A m \in Above : ~(<<m, n>> \in OpToRel(<, Nat))
  BY <1>1, WFMin, NatLessThanWellFounded, Zenon
<1>3. n \in Nat /\ \A y \in s : n >= y /\ y \in Nat /\ y >= 1
  OBVIOUS
<1>4. n \in s
  <2>1. SUFFICES ASSUME n \notin s PROVE FALSE
    OBVIOUS
  <2>2. n >= 1
    <3>1. PICK y \in s : TRUE
      OBVIOUS
    <3>2. n >= y /\ y >= 1 /\ y \in Nat /\ n \in Nat
      BY <1>3
    <3> QED
      BY <3>2
  <2>3. n - 1 \in Nat /\ \A y \in s : n - 1 >= y
    BY <1>3, <2>1, <2>2
  <2>4. n - 1 \in Above /\ <<n - 1, n>> \in OpToRel(<, Nat)
    BY <1>3, <2>3 DEF OpToRel
  <2> HIDE DEF Above
  <2> QED
    BY <1>2, <2>4
<1> QED
  BY <1>3, <1>4 DEF GreatestOf

\* h folds F, whose arguments are the value so far and an index.
Folds(h, F, Type, base, k) ==
  /\ h \in [SUBSET (1..k) -> Type]
  /\ \A s \in SUBSET (1..k) :
       h[s] = IF s = {} THEN base ELSE F[<<h[s \ {GreatestOf(s)}], GreatestOf(s)>>]

LEMMA FoldStep ==
  ASSUME NEW Type, NEW n \in Nat, NEW F \in [Type \X (1..n) -> Type], NEW base \in Type,
         NEW k \in Nat, k < n, NEW h, Folds(h, F, Type, base, k)
  PROVE  \E g : Folds(g, F, Type, base, k + 1)
<1> DEFINE I == 1..(k + 1)
           g == [s \in SUBSET I |-> IF k + 1 \in s THEN F[<<h[s \ {k + 1}], k + 1>>] ELSE h[s]]
<1>1. ASSUME NEW s \in SUBSET I PROVE s \ {k + 1} \in SUBSET (1..k)
  OBVIOUS
<1>2. ASSUME NEW s \in SUBSET I, k + 1 \notin s PROVE s \in SUBSET (1..k)
  BY <1>2
<1>3. k + 1 \in 1..n
  OBVIOUS
<1>4. g \in [SUBSET I -> Type]
  <2>1. ASSUME NEW s \in SUBSET I PROVE g[s] \in Type
    <3>1. h[s \ {k + 1}] \in Type /\ (k + 1 \notin s => h[s] \in Type)
      BY <1>1, <1>2 DEF Folds
    <3>2. F[<<h[s \ {k + 1}], k + 1>>] \in Type
      BY <1>3, <3>1
    <3> QED
      BY <3>1, <3>2
  <2> QED
    BY <2>1
<1>5. ASSUME NEW s \in SUBSET I
      PROVE  g[s] = IF s = {} THEN base ELSE F[<<g[s \ {GreatestOf(s)}], GreatestOf(s)>>]
  <2>1. CASE k + 1 \in s
    <3>1. GreatestOf(s) = k + 1
      <4>1. k + 1 \in Nat /\ s # {}
        BY <2>1
      <4>2. GreatestOf(s) \in s /\ \A y \in s : GreatestOf(s) >= y
        BY <4>1, GreatestIn
      <4> DEFINE x == GreatestOf(s)
      <4>3. x \in 1..(k + 1) /\ x >= k + 1
        BY <2>1, <4>2
      <4> HIDE DEF x
      <4>4. x = k + 1
        BY <4>3
      <4> QED
        BY <4>4 DEF x
    <3>2. s \ {k + 1} \in SUBSET I /\ k + 1 \notin s \ {k + 1}
      OBVIOUS
    <3>3. g[s \ {k + 1}] = h[s \ {k + 1}]
      BY <3>2
    <3>4. g[s] = F[<<h[s \ {k + 1}], k + 1>>] /\ s # {}
      BY <2>1
    <3> HIDE DEF g
    <3> QED
      BY <3>1, <3>3, <3>4
  <2>2. CASE k + 1 \notin s
    <3>1. s \in SUBSET (1..k) /\ g[s] = h[s]
      BY <1>2, <2>2
    <3>2. CASE s = {}
      BY <3>1, <3>2 DEF Folds
    <3>3. CASE s # {}
      <4> DEFINE x == GreatestOf(s)
      <4>1. s \ {x} \in SUBSET I /\ k + 1 \notin s \ {x}
        BY <2>2
      <4>2. g[s \ {x}] = h[s \ {x}]
        BY <4>1
      <4>3. h[s] = F[<<h[s \ {x}], x>>]
        BY <3>1, <3>3 DEF Folds
      <4> HIDE DEF g, x
      <4>4. g[s] = F[<<g[s \ {x}], x>>]
        BY <3>1, <4>2, <4>3
      <4> QED
        BY <3>3, <4>4 DEF x
    <3> QED
      BY <3>2, <3>3
  <2> QED
    BY <2>1, <2>2
<1> HIDE DEF g
<1> QED
  BY <1>4, <1>5 DEF Folds

LEMMA FoldExists ==
  ASSUME NEW Type, NEW n \in Nat, NEW F \in [Type \X (1..n) -> Type], NEW base \in Type
  PROVE  \E h : Folds(h, F, Type, base, n)
<1> DEFINE Missing == {k \in Nat : k <= n /\ ~\E h : Folds(h, F, Type, base, k)}
<1>1. SUFFICES ASSUME Missing # {} PROVE FALSE
  <2>1. n <= n
    OBVIOUS
  <2>2. CASE \E h : Folds(h, F, Type, base, n)
    BY <2>2, Zenon
  <2>3. CASE ~\E h : Folds(h, F, Type, base, n)
    <3>1. n \in Missing
      BY <2>1, <2>3, Zenon
    <3> QED
      BY <3>1, Zenon
  <2> QED
    BY <2>2, <2>3, Zenon
<1>2. PICK k \in Missing : \A m \in Missing : ~(<<m, k>> \in OpToRel(<, Nat))
  BY <1>1, WFMin, NatLessThanWellFounded, Zenon
<1>3. k \in Nat /\ k <= n /\ ~\E h : Folds(h, F, Type, base, k)
  OBVIOUS
<1>4. CASE k = 0
  <2> DEFINE h == [s \in SUBSET (1..0) |-> base]
  <2>1. h \in [SUBSET (1..0) -> Type]
    OBVIOUS
  <2>2. \A s \in SUBSET (1..0) : s = {} /\ h[s] = base
    OBVIOUS
  <2> HIDE DEF h
  <2>3. Folds(h, F, Type, base, 0)
    BY <2>1, <2>2 DEF Folds
  <2> QED
    BY <1>3, <1>4, <2>3
<1>5. CASE k # 0
  <2> HIDE DEF Missing
  <2>1. k - 1 \in Nat /\ k - 1 < n /\ k - 1 <= n /\ k - 1 + 1 = k /\ <<k - 1, k>> \in OpToRel(<, Nat)
    BY <1>3, <1>5 DEF OpToRel
  <2>2. k - 1 \notin Missing
    BY <1>2, <2>1
  <2>3. PICK h : Folds(h, F, Type, base, k - 1)
    BY <2>1, <2>2 DEF Missing
  <2>4. \E g : Folds(g, F, Type, base, k - 1 + 1)
    BY <2>1, <2>3, FoldStep
  <2> QED
    BY <1>3, <2>1, <2>4
<1> QED
  BY <1>4, <1>5

\* One value per index, from base on, is of a type that F does not leave.
LEMMA PathTyped ==
  ASSUME NEW Type, NEW n \in Nat, NEW F \in [Type \X (1..n) -> Type], NEW f, f[0] \in Type,
         \A k \in 1..n : f[k - 1] \in Type => f[k] = F[<<f[k - 1], k>>]
  PROVE  \A k \in 0..n : f[k] \in Type
<1> DEFINE Bad == {k \in Nat : k <= n /\ f[k] \notin Type}
<1>1. SUFFICES ASSUME Bad # {} PROVE FALSE
  OBVIOUS
<1>2. PICK k \in Bad : \A m \in Bad : ~(<<m, k>> \in OpToRel(<, Nat))
  BY <1>1, WFMin, NatLessThanWellFounded, Zenon
<1>3. k \in Nat /\ k <= n /\ f[k] \notin Type
  OBVIOUS
<1>4. k # 0
  BY <1>3
<1>5. k - 1 \in Nat /\ k - 1 <= n /\ k \in 1..n /\ <<k - 1, k>> \in OpToRel(<, Nat)
  BY <1>3, <1>4 DEF OpToRel
<1>6. k - 1 \notin Bad
  <2> HIDE DEF Bad
  <2> QED
    BY <1>2, <1>5
<1>7. f[k - 1] \in Type
  BY <1>5, <1>6
<1>8. f[k] = F[<<f[k - 1], k>>] /\ F[<<f[k - 1], k>>] \in Type
  BY <1>5, <1>7
<1> QED
  BY <1>3, <1>8

\* The sets the indices up to k are.
LEMMA Ups ==
  ASSUME NEW n \in Nat
  PROVE  /\ {} \in SUBSET (1..n) /\ 1..0 = {} /\ 1..n \in SUBSET (1..n)
         /\ \A k \in 1..n : /\ 1..k \in SUBSET (1..n) /\ 1..k # {} /\ GreatestOf(1..k) = k
                            /\ (1..k) \ {k} = 1..(k - 1)
<1>1. \A k \in 1..n : k \in Nat \ {0} /\ 1..k \in SUBSET (1..n)
  OBVIOUS
<1> QED
  BY <1>1, GreatestTo

-----------------------------------------------------------------------------
(* Peer messages: the inductive invariant.                                 *)

\* What the bytes may be once they were tampered with.
Garbled(w) == {M!Is("empty"), M!Is("broken"), M!Gzip(M!Is("broken")), M!Gzip(M!Is("empty")), M!Gzip(w)}

MessageInv ==
  /\ "type" \in DOMAIN built /\ built.type \in M!AllTypes
  /\ sent = M!Is("none") \/ sent = M!serialize(built) \/ sent \in Garbled(M!serialize(built))
  /\ \/ result = M!Is("none")
     \/ sent # M!Is("none") /\ \E type \in M!AllTypes : result = M!deserialize(type, sent)

\* No two types are of the same variant.
LEMMA VariantsDiffer ==
  ASSUME NEW s \in M!AllTypes, NEW t \in M!AllTypes, s.variant = t.variant
  PROVE  s = t
  BY DEF M!AllTypes, M!Message, M!accepted, M!accepted_frontier, M!accepted_state_summary,
     M!ancestors, M!app_gossip, M!app_request, M!app_response, M!chits, M!get, M!get_accepted,
     M!get_accepted_frontier, M!get_accepted_state_summary, M!get_ancestors,
     M!get_state_summary_frontier, M!peerlist, M!ping, M!pong, M!pull_query, M!push_query,
     M!put, M!state_summary_frontier, M!version

LEMMA ReadsOnlySent ==
  ASSUME NEW type \in M!AllTypes, built.type \in M!AllTypes,
         sent = M!serialize(built) \/ sent \in Garbled(M!serialize(built))
  PROVE  LET r == M!deserialize(type, sent) IN
         /\ r.is = "read" => /\ sent \in {M!Sent, M!Gzip(M!Sent)}
                             /\ r.type = built.type /\ r.fields = built.fields
         /\ r.is = "panicked" => sent \in {M!Is("empty"), M!Gzip(M!Is("empty"))}
<1>1. M!serialize(built) \in {M!Sent, M!Gzip(M!Sent)}
  BY DEF M!serialize, M!Sent
<1>2. CASE sent \in {M!Sent, M!Gzip(M!Sent)}
  <2>1. M!deserialize(type, sent) = M!take(type, M!Sent)
    BY <1>2 DEF M!deserialize, M!Sent, M!Plain, M!Gzip
  <2>2. M!take(type, M!Sent) = IF built.type.variant = type.variant
                               THEN M!Read(type, built.fields) ELSE M!Is("refused")
    BY DEF M!take, M!Sent, M!Plain
  <2> QED
    BY <1>2, <2>1, <2>2, VariantsDiffer DEF M!Read, M!Is
<1>3. CASE sent = M!Gzip(M!Gzip(M!Sent))
  <2>1. M!deserialize(type, sent) = M!take(type, M!Gzip(M!Sent))
    BY <1>3 DEF M!deserialize, M!Gzip
  <2>2. M!take(type, M!Gzip(M!Sent)) = M!Is("refused")
    BY DEF M!take, M!Gzip
  <2> QED
    BY <2>1, <2>2 DEF M!Is
<1>4. CASE sent \in {M!Is("empty"), M!Gzip(M!Is("empty"))}
  BY <1>4 DEF M!deserialize, M!take, M!Is, M!Gzip
<1>5. CASE sent \in {M!Is("broken"), M!Gzip(M!Is("broken"))}
  BY <1>5 DEF M!deserialize, M!take, M!Is, M!Gzip
<1> QED
  BY <1>1, <1>2, <1>3, <1>4, <1>5 DEF Garbled

LEMMA MessageInvSuffices == MessageInv => M!ReceivedIsSent
<1> SUFFICES ASSUME MessageInv PROVE M!ReceivedIsSent
  OBVIOUS
<1>1. sent \in {M!Sent, M!Gzip(M!Sent)} => \E type \in M!AllTypes : M!deserialize(type, sent).is = "read"
  <2> SUFFICES ASSUME sent \in {M!Sent, M!Gzip(M!Sent)}
               PROVE  M!deserialize(built.type, sent).is = "read"
    BY DEF MessageInv
  <2>1. M!deserialize(built.type, sent) = M!take(built.type, M!Sent)
    BY DEF M!deserialize, M!Sent, M!Plain, M!Gzip
  <2> QED
    BY <2>1 DEF M!take, M!Sent, M!Plain, M!Read
<1>2. CASE result = M!Is("none")
  BY <1>1, <1>2 DEF M!ReceivedIsSent, M!Is
<1>3. CASE sent # M!Is("none") /\ \E type \in M!AllTypes : result = M!deserialize(type, sent)
  BY <1>1, <1>3, ReadsOnlySent DEF MessageInv, M!ReceivedIsSent
<1> QED
  BY <1>2, <1>3 DEF MessageInv

LEMMA MessageStays == MessageInv /\ UNCHANGED messageVars => MessageInv'
  BY DEF MessageInv, messageVars, Garbled, M!serialize, M!deserialize

LEMMA MessageKeeps == MessageInv /\ M!Next => MessageInv'
<1> SUFFICES ASSUME MessageInv, M!Next PROVE MessageInv'
  OBVIOUS
<1>1. CASE M!set \/ M!gzip_compress
  <2>1. sent = M!Is("none") /\ UNCHANGED <<sent, result>>
    BY <1>1 DEF M!set, M!gzip_compress
  <2>2. "type" \in DOMAIN built' /\ built'.type = built.type
    BY <1>1 DEF MessageInv, M!set, M!gzip_compress
  <2> QED
    BY <2>1, <2>2 DEF MessageInv
<1>2. CASE M!send
  BY <1>2 DEF MessageInv, M!send
<1>3. CASE M!garble
  BY <1>3 DEF MessageInv, M!garble, Garbled
<1>4. CASE M!receive
  BY <1>4 DEF MessageInv, M!receive
<1> QED
  BY <1>1, <1>2, <1>3, <1>4 DEF M!Next

\* ReceivedIsSent, of the modules of src/message: whatever fields are set and
\* however often, a type reads only what was sent as that type, with the fields
\* it had, and only a message that is empty makes it panic.
THEOREM MessagesAreReadAsSent == MCSpec => []ReceivedIsSent
<1> DEFINE Inv == system = "message" => MessageInv
<1>1. MCInit => Inv
  BY DEF MCInit, M!Init, MessageInv
<1>2. Inv /\ [MCNext]_allVars => Inv'
  BY MessageKeeps, MessageStays DEF MCNext, allVars
<1>3. Inv => ReceivedIsSent
  BY MessageInvSuffices DEF ReceivedIsSent
<1> QED
  BY <1>1, <1>2, <1>3, PTL DEF MCSpec

-----------------------------------------------------------------------------
(* Calls of the JSON-RPC clients: the inductive invariant.                 *)

Outcomes ==
  {"nothing", "result", "error", "empty", "Ok", "panic", "Error::API", "Error::Other"}
Called == [fn : J!AllFunctions, endpoint : Endpoints, returned : Outcomes]
Arrived == {"none", "sent", "not found", "result", "error"}

RpcTypes ==
  /\ calls \in Seq(Called) /\ requests \in Seq(Arrived) /\ done \in Seq(DOMAIN calls)
  /\ Len(requests) = Len(calls)

\* What a call returns, and whether it was carried out, is where its request is.
AnswerOf(c) ==
  /\ (\E i \in DOMAIN done : done[i] = c) <=> requests[c] = "result"
  /\ ~calls[c].endpoint.valid => requests[c] = "none"
  /\ calls[c].returned = "result" => requests[c] = "result"
  /\ calls[c].returned \in {"error", "empty"} => requests[c] = "error"
  /\ requests[c] = "not found" => ~J!Served(c)

RpcInv ==
  /\ RpcTypes
  /\ \A c \in DOMAIN calls : AnswerOf(c)
  /\ \A i, j \in DOMAIN done : done[i] = done[j] => i = j

\* The path of every function is that of the service its method is of.
LEMMA ServiceOfFunction ==
  ASSUME NEW f \in J!AllFunctions PROVE J!Service[f.path] = f.service
<1>1. /\ J!Service["/ext/P"] = "platform" /\ J!Service["/ext/bc/X"] = "avm"
      /\ J!Service["/ext/info"] = "info" /\ J!Service["/ext/admin"] = "admin"
  BY DEF J!Service
<1> QED
  BY <1>1 DEF J!AllFunctions, J!Function, J!P, J!X, J!Info, J!p_issue_tx, J!p_get_tx,
     J!p_get_tx_status, J!p_get_height, J!p_get_balance, J!p_get_utxos,
     J!p_get_primary_network_validators, J!p_get_subnet_validators, J!p_get_subnets,
     J!p_get_blockchains, J!p_get_blockchain_status, J!x_issue_tx, J!x_get_tx_status,
     J!x_get_balance, J!x_get_asset_description, J!x_get_utxos, J!x_issue_stop_vertex,
     J!info_get_network_name, J!info_get_network_id, J!info_get_blockchain_id,
     J!info_get_node_id, J!info_get_node_version, J!info_get_vms, J!info_is_bootstrapped,
     J!info_get_tx_fee, J!info_peers, J!alias_chain

\* The places of a list that has one more.
LEMMA OneMore ==
  ASSUME NEW n \in Nat
  PROVE  /\ \A i \in 1..(n + 1) : i \in 1..n \/ i = n + 1
         /\ \A i \in 1..n : i \in 1..(n + 1)
         /\ n + 1 \in 1..(n + 1)
  OBVIOUS

LEMMA CallFacts ==
  ASSUME RpcTypes
  PROVE  /\ Len(calls) \in Nat /\ DOMAIN calls = 1..Len(calls) /\ DOMAIN requests = DOMAIN calls
         /\ Len(done) \in Nat /\ DOMAIN done = 1..Len(done)
         /\ \A c \in DOMAIN calls : calls[c] \in Called /\ requests[c] \in Arrived
         /\ \A i \in DOMAIN done : done[i] \in DOMAIN calls
<1>1. /\ Len(calls) \in Nat /\ DOMAIN calls = 1..Len(calls) /\ DOMAIN requests = 1..Len(requests)
      /\ Len(done) \in Nat /\ DOMAIN done = 1..Len(done)
  BY LenProperties DEF RpcTypes
<1>2. /\ \A c \in 1..Len(calls) : calls[c] \in Called
      /\ \A c \in 1..Len(requests) : requests[c] \in Arrived
      /\ \A i \in 1..Len(done) : done[i] \in DOMAIN calls
  BY ElementOfSeq DEF RpcTypes
<1> QED
  BY <1>1, <1>2 DEF RpcTypes

LEMMA RpcInvSuffices == RpcInv => J!AnsweredIsDone
<1> SUFFICES ASSUME RpcInv PROVE J!AnsweredIsDone
  OBVIOUS
<1>1. ASSUME NEW c \in DOMAIN calls, requests[c] = "not found"
      PROVE  calls[c].fn.service \notin Serves[J!url(c)]
  <2>1. calls[c].fn \in J!AllFunctions
    BY CallFacts DEF RpcInv, Called
  <2> QED
    BY <1>1, <2>1, ServiceOfFunction DEF RpcInv, AnswerOf, J!Served
<1> QED
  BY <1>1 DEF RpcInv, AnswerOf, J!AnsweredIsDone

\* A call that is the same in what it is for, and where its request is.
LEMMA ServedStays ==
  ASSUME NEW c, calls'[c].fn = calls[c].fn, calls'[c].endpoint = calls[c].endpoint
  PROVE  J!Served(c)' = J!Served(c)
  BY DEF J!Served, J!url

LEMMA RpcStays == RpcInv /\ UNCHANGED rpcVars => RpcInv'
<1> SUFFICES ASSUME RpcInv, UNCHANGED rpcVars PROVE RpcInv'
  OBVIOUS
<1>1. calls' = calls /\ requests' = requests /\ done' = done
  BY DEF rpcVars
<1>2. ASSUME NEW c \in DOMAIN calls PROVE AnswerOf(c)'
  BY <1>1, ServedStays DEF RpcInv, AnswerOf
<1> QED
  BY <1>1, <1>2 DEF RpcInv, RpcTypes

\* A call that returns something keeps the rest.
LEMMA ReturnsType ==
  ASSUME RpcTypes, NEW c \in DOMAIN calls, NEW value \in Outcomes, J!Returns(c, value)
  PROVE  /\ calls' \in Seq(Called) /\ Len(calls') = Len(calls) /\ DOMAIN calls' = DOMAIN calls
         /\ calls'[c].returned = value
         /\ \A d \in DOMAIN calls : /\ calls'[d].fn = calls[d].fn
                                    /\ calls'[d].endpoint = calls[d].endpoint
                                    /\ d # c => calls'[d].returned = calls[d].returned
<1>1. calls[c] \in Called /\ calls' = [calls EXCEPT ![c] = [calls[c] EXCEPT !.returned = value]]
  BY DEF RpcTypes, J!Returns
<1>2. [calls[c] EXCEPT !.returned = value] \in Called
  BY <1>1 DEF Called
<1>3. calls' \in Seq(Called) /\ Len(calls') = Len(calls) /\ DOMAIN calls' = DOMAIN calls
  BY <1>1, <1>2, ExceptSeq DEF RpcTypes
<1> QED
  BY <1>1, <1>3 DEF RpcTypes, Called

LEMMA CallKeeps ==
  ASSUME RpcInv, NEW f \in J!AllFunctions, NEW e \in Endpoints, J!call(f, e)
  PROVE  RpcInv'
<1> DEFINE new == [fn |-> f, endpoint |-> e,
                   returned |-> IF e.valid THEN "nothing" ELSE "Error::Other"]
           asked == IF e.valid THEN "sent" ELSE "none"
<1>1. calls' = Append(calls, new) /\ requests' = Append(requests, asked) /\ done' = done
  BY DEF J!call
<1>2. new \in Called /\ asked \in Arrived
  BY DEF Called, Outcomes, Arrived
<1>3. new.endpoint = e /\ new.fn = f /\ new.returned \notin {"result", "error", "empty"}
  OBVIOUS
<1>4. calls \in Seq(Called) /\ requests \in Seq(Arrived) /\ done \in Seq(DOMAIN calls)
      /\ Len(requests) = Len(calls)
  BY DEF RpcInv, RpcTypes
<1>7. asked # "result" /\ asked # "error" /\ asked # "not found"
      /\ (~e.valid => asked = "none")
  OBVIOUS
<1> HIDE DEF new, asked
<1>5. /\ calls' \in Seq(Called) /\ requests' \in Seq(Arrived)
      /\ Len(calls') = Len(calls) + 1 /\ Len(requests') = Len(calls')
      /\ DOMAIN calls = 1..Len(calls) /\ DOMAIN calls' = 1..(Len(calls) + 1)
      /\ Len(calls) \in Nat
      /\ \A c \in DOMAIN calls : calls'[c] = calls[c] /\ requests'[c] = requests[c]
      /\ calls'[Len(calls) + 1] = new /\ requests'[Len(calls) + 1] = asked
  BY <1>1, <1>2, <1>4
<1>6. done' \in Seq(DOMAIN calls')
  <2>1. DOMAIN calls \subseteq DOMAIN calls'
    BY <1>5
  <2> QED
    BY <1>1, <1>4, <2>1
<1>8. ASSUME NEW c \in DOMAIN calls' PROVE AnswerOf(c)'
  <2>1. CASE c \in DOMAIN calls
    <3>1. calls'[c] = calls[c] /\ requests'[c] = requests[c] /\ done' = done
      BY <1>1, <1>5, <2>1
    <3>2. AnswerOf(c) /\ J!Served(c)' = J!Served(c)
      BY <2>1, <3>1, ServedStays DEF RpcInv
    <3> QED
      BY <3>1, <3>2 DEF AnswerOf
  <2>2. CASE c = Len(calls) + 1
    <3>1. \A i \in DOMAIN done : done[i] # c
      BY <1>4, <1>5, <2>2
    <3> QED
      BY <1>1, <1>3, <1>5, <1>7, <2>2, <3>1 DEF AnswerOf
  <2> QED
    BY <1>5, <2>1, <2>2
<1> QED
  BY <1>1, <1>5, <1>6, <1>8 DEF RpcInv, RpcTypes

\* A step that returns something of call c, and may lose its request.
LEMMA ReturnKeeps ==
  ASSUME RpcInv, NEW c \in DOMAIN calls, NEW value \in Outcomes, J!Returns(c, value),
         value = "result" => requests[c] = "result",
         value \in {"error", "empty"} => requests[c] = "error", done' = done,
         \/ requests' = requests
         \/ requests[c] = "sent" /\ requests' = [requests EXCEPT ![c] = "none"]
  PROVE  RpcInv'
<1>1. /\ calls' \in Seq(Called) /\ Len(calls') = Len(calls) /\ DOMAIN calls' = DOMAIN calls
      /\ calls'[c].returned = value
      /\ \A d \in DOMAIN calls : /\ calls'[d].fn = calls[d].fn
                                 /\ calls'[d].endpoint = calls[d].endpoint
                                 /\ d # c => calls'[d].returned = calls[d].returned
  BY ReturnsType DEF RpcInv
<1>2. /\ requests \in Seq(Arrived) /\ DOMAIN requests = DOMAIN calls
      /\ Len(requests) = Len(calls) /\ done \in Seq(DOMAIN calls)
  BY CallFacts DEF RpcInv, RpcTypes
<1>3. requests' \in Seq(Arrived) /\ Len(requests') = Len(requests)
      /\ \A d \in DOMAIN calls : requests'[d] = requests[d] \/ (d = c /\ requests[c] = "sent" /\ requests'[c] = "none")
  <2>1. "none" \in Arrived /\ c \in 1..Len(requests)
    BY <1>2, CallFacts DEF RpcInv, Arrived
  <2>2. CASE requests' = requests
    BY <1>2, <2>2
  <2>3. CASE requests[c] = "sent" /\ requests' = [requests EXCEPT ![c] = "none"]
    BY <1>2, <2>1, <2>3, ExceptSeq
  <2> QED
    BY <2>2, <2>3
<1>4. ASSUME NEW d \in DOMAIN calls PROVE AnswerOf(d)'
  <2>1. AnswerOf(d) /\ J!Served(d)' = J!Served(d)
    BY <1>1, ServedStays DEF RpcInv
  <2> QED
    BY <1>1, <1>3, <2>1 DEF AnswerOf
<1> QED
  BY <1>1, <1>2, <1>3, <1>4 DEF RpcInv, RpcTypes

LEMMA ArriveKeeps == ASSUME RpcInv, NEW c \in DOMAIN calls, J!arrive(c) PROVE RpcInv'
<1>1. PICK now \in {"not found", "result", "error"} :
        /\ requests[c] = "sent" /\ calls' = calls
        /\ requests' = [requests EXCEPT ![c] = now]
        /\ done' = IF now = "result" THEN Append(done, c) ELSE done
        /\ now = "not found" => ~J!Served(c)
  BY DEF J!arrive
<1>2. /\ requests \in Seq(Arrived) /\ DOMAIN requests = DOMAIN calls
      /\ Len(requests) = Len(calls) /\ done \in Seq(DOMAIN calls)
      /\ calls \in Seq(Called)
  BY CallFacts DEF RpcInv, RpcTypes
<1>3. requests' \in Seq(Arrived) /\ Len(requests') = Len(requests)
      /\ requests'[c] = now /\ \A d \in DOMAIN calls \ {c} : requests'[d] = requests[d]
  <2>1. now \in Arrived /\ c \in 1..Len(requests)
    BY <1>2, CallFacts DEF RpcInv, Arrived
  <2> QED
    BY <1>1, <1>2, <2>1, ExceptSeq
<1>4. \A i \in DOMAIN done : done[i] # c
  BY <1>1 DEF RpcInv, AnswerOf
<1>5. /\ done' \in Seq(DOMAIN calls)
      /\ \A i, j \in DOMAIN done' : done'[i] = done'[j] => i = j
      /\ \A d : (\E i \in DOMAIN done' : done'[i] = d) <=>
                  (\E i \in DOMAIN done : done[i] = d) \/ (d = c /\ now = "result")
  <2>1. CASE now = "result"
    <3>1. /\ done' = Append(done, c) /\ done' \in Seq(DOMAIN calls) /\ Len(done) \in Nat
          /\ DOMAIN done = 1..Len(done) /\ DOMAIN done' = 1..(Len(done) + 1)
          /\ \A i \in DOMAIN done : done'[i] = done[i]
          /\ done'[Len(done) + 1] = c
      BY <1>1, <1>2, <2>1
    <3>2. \A i \in DOMAIN done' : i \in DOMAIN done \/ i = Len(done) + 1
      BY <3>1, OneMore
    <3>3. DOMAIN done \subseteq DOMAIN done' /\ Len(done) + 1 \in DOMAIN done'
      BY <3>1, OneMore
    <3>4. ASSUME NEW i \in DOMAIN done', NEW j \in DOMAIN done', done'[i] = done'[j]
          PROVE  i = j
      BY <1>4, <3>1, <3>2, <3>4 DEF RpcInv
    <3>5. ASSUME NEW d PROVE (\E i \in DOMAIN done' : done'[i] = d) <=>
                               (\E i \in DOMAIN done : done[i] = d) \/ d = c
      BY <3>1, <3>2, <3>3
    <3> QED
      BY <2>1, <3>1, <3>4, <3>5
  <2>2. CASE now # "result"
    BY <1>1, <1>2, <2>2 DEF RpcInv
  <2> QED
    BY <2>1, <2>2
<1>6. ASSUME NEW d \in DOMAIN calls PROVE AnswerOf(d)'
  <2>1. AnswerOf(d) /\ J!Served(d)' = J!Served(d)
    BY <1>1, ServedStays DEF RpcInv
  <2>2. CASE d = c
    <3>1. (\E i \in DOMAIN done' : done'[i] = c) <=> now = "result"
      BY <1>4, <1>5
    <3>2. calls' = calls /\ requests[c] = "sent" /\ requests'[c] = now
          /\ (now = "not found" => ~J!Served(c))
      BY <1>1, <1>3
    <3>3. J!Served(c)' = J!Served(c) /\ AnswerOf(c)
      BY <2>1, <2>2
    <3>4. AnswerOf(c)'
      BY <3>1, <3>2, <3>3 DEF AnswerOf
    <3> QED
      BY <2>2, <3>4
  <2>3. CASE d # c
    BY <1>1, <1>3, <1>5, <2>1, <2>3 DEF AnswerOf
  <2> QED
    BY <2>2, <2>3
<1> QED
  BY <1>1, <1>2, <1>3, <1>5, <1>6 DEF RpcInv, RpcTypes

LEMMA RpcKeeps == RpcInv /\ J!Next => RpcInv'
<1> SUFFICES ASSUME RpcInv, J!Next PROVE RpcInv'
  OBVIOUS
<1>1. CASE \E f \in J!AllFunctions, e \in Endpoints : J!call(f, e)
  BY <1>1, CallKeeps
<1>2. ASSUME NEW c \in DOMAIN calls, J!send_fails(c) PROVE RpcInv'
  BY <1>2, ReturnKeeps DEF J!send_fails, Outcomes
<1>3. ASSUME NEW c \in DOMAIN calls, J!arrive(c) PROVE RpcInv'
  BY <1>3, ArriveKeeps
<1>4. ASSUME NEW c \in DOMAIN calls, J!give_up(c) PROVE RpcInv'
  BY <1>4, ReturnKeeps DEF J!give_up, Outcomes
<1>5. ASSUME NEW c \in DOMAIN calls, J!decode(c) PROVE RpcInv'
  <2>1. PICK value \in Outcomes :
          /\ J!Returns(c, value) /\ (value = "result" => requests[c] = "result")
          /\ value \in {"error", "empty"} => requests[c] = "error"
    <3>1. PICK value \in J!Told(calls[c].fn, requests[c]) : J!Returns(c, value)
      BY <1>5 DEF J!decode
    <3>2. value \in {"result", "error", "empty", "Ok", "panic", "Error::API", "Error::Other"}
          /\ (value = "result" => requests[c] = "result")
          /\ (value \in {"error", "empty"} => requests[c] = "error")
      BY <1>5, <3>1 DEF J!decode, J!Told
    <3> QED
      BY <3>1, <3>2 DEF Outcomes
  <2> QED
    BY <1>5, <2>1, ReturnKeeps DEF J!decode
<1> QED
  BY <1>1, <1>2, <1>3, <1>4, <1>5 DEF J!Next

\* AnsweredIsDone, of the functions of src/jsonrpc/client: what a call returns is
\* what became of its request, however many run side by side, and whatever
\* requests arrive after their callers have given up.
THEOREM AnswersAreTrue == MCSpec => []AnsweredIsDone
<1> DEFINE Inv == system = "rpc" => RpcInv
<1>1. MCInit => Inv
  BY DEF MCInit, J!Init, RpcInv, RpcTypes, AnswerOf
<1>2. Inv /\ [MCNext]_allVars => Inv'
  BY RpcKeeps, RpcStays DEF MCNext, allVars
<1>3. Inv => AnsweredIsDone
  BY RpcInvSuffices DEF AnsweredIsDone
<1> QED
  BY <1>1, <1>2, <1>3, PTL DEF MCSpec

-----------------------------------------------------------------------------
(* Bags of ids: bits.                                                      *)

LEMMA BitsAre ==
  /\ BITS_PER_BYTES \in Nat \ {0} /\ G!NUM_BITS \in Nat
  /\ IsFiniteSet(BagIds) /\ IsFiniteSet(Voters)
  /\ \A n \in Counts : n \in Nat
  /\ \A t \in Thresholds : t \in Nat
<1>1. \A a, b \in Nat : a * b \in Nat
  OBVIOUS
<1> QED
  BY <1>1, BagAssumption DEF G!NUM_BITS

\* Where bit i is.
LEMMA BitIn ==
  ASSUME NEW w \in Nat \ {0}, NEW i \in Nat
  PROVE  /\ i \div w \in Nat /\ i % w \in 0..(w - 1)
         /\ i = (i \div w) * w + (i % w)
OBVIOUS

LEMMA BytesApart ==
  ASSUME NEW w \in Nat \ {0}, NEW p \in Nat, NEW q \in Nat, p < q
  PROVE  p * w \in Nat /\ q * w \in Nat /\ p * w + w <= q * w
<1>1. q = p + 1 + (q - p - 1) /\ q - p - 1 \in Nat
  OBVIOUS
<1> DEFINE d == q - p - 1
<1>2. q * w = p * w + w + d * w
  BY <1>1
<1>3. d * w \in Nat /\ p * w \in Nat /\ q * w \in Nat
  BY <1>1
<1> HIDE DEF d
<1> QED
  BY <1>2, <1>3

\* Bits are compared by whole bytes, and by what is asked for of the first and of
\* the last byte.
SameBits(x, y, w, byte, bits) == \A b \in bits : x[byte * w + b] = y[byte * w + b]

WholeBytes(x, y, w, start, last) ==
  LET f == start \div w
      l == last \div w
      from == (start % w)..(w - 1)
      to == 0..(last % w)
  IN  /\ \A byte \in (f + 1)..(l - 1) : SameBits(x, y, w, byte, 0..(w - 1))
      /\ IF f = l THEN SameBits(x, y, w, f, from \intersect to)
         ELSE SameBits(x, y, w, f, from) /\ SameBits(x, y, w, l, to)

LEMMA SameByBytes ==
  ASSUME NEW w \in Nat \ {0}, NEW x, NEW y, NEW start \in Nat, NEW last \in Nat, start <= last
  PROVE  (\A i \in start..last : x[i] = y[i]) <=> WholeBytes(x, y, w, start, last)
<1> DEFINE f == start \div w
           l == last \div w
           s == start % w
           t == last % w
           Same(byte, bits) == \A b \in bits : x[byte * w + b] = y[byte * w + b]
<1>1. /\ f \in Nat /\ s \in 0..(w - 1) /\ start = f * w + s
      /\ l \in Nat /\ t \in 0..(w - 1) /\ last = l * w + t
  BY BitIn
<1> SUFFICES (\A i \in start..last : x[i] = y[i]) <=>
               /\ \A byte \in (f + 1)..(l - 1) : Same(byte, 0..(w - 1))
               /\ IF f = l THEN Same(f, (s..(w - 1)) \intersect (0..t))
                           ELSE Same(f, s..(w - 1)) /\ Same(l, 0..t)
  BY DEF WholeBytes, SameBits
<1> HIDE DEF f, l, s, t
<1>2. f <= l
  <2> SUFFICES ASSUME l < f PROVE FALSE
    BY <1>1
  <2>1. l * w \in Nat /\ f * w \in Nat /\ l * w + w <= f * w
    BY <1>1, BytesApart
  <2> DEFINE a == l * w
             b == f * w
  <2>2. start = b + s /\ last = a + t
    BY <1>1
  <2>3. a \in Nat /\ b \in Nat /\ a + w <= b
    BY <2>1
  <2> HIDE DEF a, b
  <2> QED
    BY <1>1, <2>2, <2>3
\* A bit of one of the bytes is in the range.
<1>3. ASSUME NEW p \in f..l, NEW e \in 0..(w - 1), p = f => e >= s, p = l => e <= t
      PROVE  p * w + e \in start..last
  <2> DEFINE a == f * w
             b == p * w
             c == l * w
  <2>1. a \in Nat /\ b \in Nat /\ c \in Nat
    BY <1>1
  <2>2. f < p => a + w <= b
    BY <1>1, BytesApart
  <2>3. p < l => b + w <= c
    BY <1>1, BytesApart
  <2>4. (p = f => b = a) /\ (p = l => b = c)
    OBVIOUS
  <2>5. start = a + s /\ last = c + t
    BY <1>1
  <2>6. (f < p \/ p = f) /\ (p < l \/ p = l)
    BY <1>1
  <2> HIDE DEF a, b, c
  <2>7. b + e >= start
    BY <1>1, <1>3, <2>1, <2>2, <2>4, <2>5, <2>6
  <2>8. b + e <= last
    BY <1>1, <1>3, <2>1, <2>3, <2>4, <2>5, <2>6
  <2>9. b + e \in start..last
    BY <2>1, <2>7, <2>8
  <2> QED
    BY <2>9 DEF b
\* And a bit in the range is one of them.
<1>4. ASSUME NEW i \in start..last
      PROVE  \E p \in f..l, e \in 0..(w - 1) : i = p * w + e /\ (p = f => e >= s) /\ (p = l => e <= t)
  <2> DEFINE p == i \div w
             e == i % w
  <2>1. p \in Nat /\ e \in 0..(w - 1) /\ i = p * w + e
    <3>1. i \in Nat
      OBVIOUS
    <3> QED
      BY <3>1, BitIn
  <2> HIDE DEF p, e
  <2> DEFINE a == f * w
             b == p * w
             c == l * w
  <2>2. a \in Nat /\ b \in Nat /\ c \in Nat
    BY <1>1, <2>1
  <2>3. p < f => b + w <= a
    BY <1>1, <2>1, BytesApart
  <2>4. l < p => c + w <= b
    BY <1>1, <2>1, BytesApart
  <2>5. (p = f => b = a) /\ (p = l => b = c)
    OBVIOUS
  <2>6. start = a + s /\ last = c + t /\ i = b + e
    BY <1>1, <2>1
  <2> HIDE DEF a, b, c
  <2>7. ~(p < f) /\ ~(l < p)
    BY <1>1, <2>1, <2>2, <2>3, <2>4, <2>6
  <2>8. (p = f => e >= s) /\ (p = l => e <= t)
    BY <1>1, <2>1, <2>2, <2>5, <2>6
  <2>9. p \in f..l
    BY <1>1, <2>1, <2>7
  <2> QED
    BY <2>1, <2>8, <2>9
<1>5. ASSUME \A i \in start..last : x[i] = y[i]
      PROVE  /\ \A byte \in (f + 1)..(l - 1) : Same(byte, 0..(w - 1))
             /\ IF f = l THEN Same(f, (s..(w - 1)) \intersect (0..t))
                         ELSE Same(f, s..(w - 1)) /\ Same(l, 0..t)
  <2>1. ASSUME NEW p \in (f + 1)..(l - 1), NEW e \in 0..(w - 1)
        PROVE  x[p * w + e] = y[p * w + e]
    <3>1. p \in f..l /\ p # f /\ p # l
      BY <1>1
    <3> QED
      BY <1>3, <1>5, <3>1
  <2>2. CASE f = l
    <3>1. ASSUME NEW e \in (s..(w - 1)) \intersect (0..t) PROVE x[f * w + e] = y[f * w + e]
      <4>1. e \in 0..(w - 1) /\ e >= s /\ e <= t /\ f \in f..l
        BY <1>1, <2>2
      <4> QED
        BY <1>3, <1>5, <4>1
    <3> QED
      BY <2>1, <2>2, <3>1
  <2>3. CASE f # l
    <3>1. ASSUME NEW e \in s..(w - 1) PROVE x[f * w + e] = y[f * w + e]
      <4>1. e \in 0..(w - 1) /\ e >= s /\ f \in f..l
        BY <1>1, <1>2
      <4> QED
        BY <1>3, <1>5, <2>3, <4>1
    <3>2. ASSUME NEW e \in 0..t PROVE x[l * w + e] = y[l * w + e]
      <4>1. e \in 0..(w - 1) /\ e <= t /\ l \in f..l
        BY <1>1, <1>2
      <4> QED
        BY <1>3, <1>5, <2>3, <4>1
    <3> QED
      BY <2>1, <2>3, <3>1, <3>2
  <2> QED
    BY <2>2, <2>3
<1>6. ASSUME /\ \A byte \in (f + 1)..(l - 1) : Same(byte, 0..(w - 1))
             /\ IF f = l THEN Same(f, (s..(w - 1)) \intersect (0..t))
                         ELSE Same(f, s..(w - 1)) /\ Same(l, 0..t),
             NEW i \in start..last
      PROVE  x[i] = y[i]
  <2>1. PICK p \in f..l, e \in 0..(w - 1) : i = p * w + e /\ (p = f => e >= s) /\ (p = l => e <= t)
    BY <1>4
  <2>2. CASE p # f /\ p # l
    <3>1. p \in (f + 1)..(l - 1)
      BY <1>1, <2>2
    <3> QED
      BY <1>6, <2>1, <3>1
  <2>3. CASE p = f /\ p = l
    <3>1. e \in (s..(w - 1)) \intersect (0..t)
      BY <1>1, <2>1, <2>3
    <3> QED
      BY <1>6, <2>1, <2>3, <3>1
  <2>4. CASE p = f /\ p # l
    <3>1. e \in s..(w - 1)
      BY <1>1, <2>1, <2>4
    <3> QED
      BY <1>6, <2>1, <2>4, <3>1
  <2>5. CASE p # f /\ p = l
    <3>1. e \in 0..t
      BY <1>1, <2>1, <2>5
    <3> QED
      BY <1>6, <2>1, <2>5, <3>1
  <2> QED
    BY <2>2, <2>3, <2>4, <2>5
<1> QED
  BY <1>5, <1>6

\* The range that is compared is start to stop - 1, and what is beyond the last
\* bit is not the same.
LEMMA SubsetIsRange ==
  ASSUME NEW start \in Nat, NEW stop \in Nat, NEW x, NEW y
  PROVE  G!equal_subset(start, stop, x, y) <=>
           \A i \in start..(stop - 1) : i < G!NUM_BITS /\ x[i] = y[i]
<1> DEFINE last == stop - 1
           w == BITS_PER_BYTES
<1>1. CASE stop = 0 \/ start > last
  <2>1. start..last = {}
    BY <1>1
  <2> QED
    BY <1>1, <2>1, Zenon DEF G!equal_subset
<1>2. CASE ~(stop = 0 \/ start > last)
  <2>1. last \in Nat /\ start <= last /\ w \in Nat \ {0} /\ G!NUM_BITS \in Nat
    BY <1>2, BitsAre
  <2> DEFINE Whole == WholeBytes(x, y, w, start, last)
  <2>2. G!equal_subset(start, stop, x, y) <=> last < G!NUM_BITS /\ Whole
    BY <1>2, Zenon DEF G!equal_subset, WholeBytes, SameBits
  <2>3. (\A i \in start..last : x[i] = y[i]) <=> Whole
    <3> HIDE DEF w, last
    <3> QED
      BY <2>1, SameByBytes
  <2> HIDE DEF Whole, last
  <2>4. (\A i \in start..last : i < G!NUM_BITS) <=> last < G!NUM_BITS
    BY <2>1
  <2>5. (\A i \in start..last : i < G!NUM_BITS /\ x[i] = y[i]) <=>
          (\A i \in start..last : i < G!NUM_BITS) /\ (\A i \in start..last : x[i] = y[i])
    BY Zenon
  <2>6. G!equal_subset(start, stop, x, y) <=> \A i \in start..last : i < G!NUM_BITS /\ x[i] = y[i]
    BY <2>2, <2>3, <2>4, <2>5, Zenon
  <2> QED
    BY <2>6 DEF last
<1> QED
  BY <1>1, <1>2

-----------------------------------------------------------------------------
(* Folds over sets, whatever element the library takes first.              *)

Some(s) == CHOOSE x \in s : TRUE

Small(S, k) == {s \in SUBSET S : Cardinality(s) <= k}

LEMMA SmallIs ==
  ASSUME NEW S, IsFiniteSet(S), NEW k \in Nat
  PROVE  /\ {} \in Small(S, k) /\ (Cardinality(S) <= k => Small(S, k) = SUBSET S)
         /\ \A s \in SUBSET S : IsFiniteSet(s) /\ Cardinality(s) \in Nat
         /\ \A s \in SUBSET S : s # {} =>
              /\ Some(s) \in s /\ Some(s) \in S
              /\ Cardinality(s \ {Some(s)}) = Cardinality(s) - 1 /\ Cardinality(s) > 0
<1>1. ASSUME NEW s \in SUBSET S PROVE IsFiniteSet(s) /\ Cardinality(s) \in Nat /\ Cardinality(s) <= Cardinality(S)
  BY FS_Subset, FS_CardinalityType
<1>2. Cardinality({}) = 0
  BY FS_EmptySet
<1>3. ASSUME NEW s \in SUBSET S, s # {}
      PROVE  /\ Some(s) \in s /\ Some(s) \in S
             /\ Cardinality(s \ {Some(s)}) = Cardinality(s) - 1 /\ Cardinality(s) > 0
  <2>1. Some(s) \in s
    BY <1>3 DEF Some
  <2>2. Cardinality(s \ {Some(s)}) = Cardinality(s) - 1
    BY <1>1, <2>1, FS_RemoveElement
  <2>3. Cardinality(s) # 0
    BY <1>1, <1>3, FS_EmptySet
  <2> QED
    BY <1>1, <2>1, <2>2, <2>3
<1>4. Cardinality(S) <= k => Small(S, k) = SUBSET S
  <2>1. Cardinality(S) \in Nat
    BY FS_CardinalityType
  <2> QED
    BY <1>1, <2>1 DEF Small
<1>5. {} \in Small(S, k)
  BY <1>2 DEF Small
<1> QED
  BY <1>1, <1>3, <1>4, <1>5

SetFolds(h, F, Type, base, S, k) ==
  /\ h \in [Small(S, k) -> Type]
  /\ \A s \in Small(S, k) : h[s] = IF s = {} THEN base ELSE F[<<Some(s), h[s \ {Some(s)}]>>]

LEMMA SetFoldStep ==
  ASSUME NEW S, IsFiniteSet(S), NEW Type, NEW F \in [S \X Type -> Type], NEW base \in Type,
         NEW k \in Nat, NEW h, SetFolds(h, F, Type, base, S, k)
  PROVE  \E g : SetFolds(g, F, Type, base, S, k + 1)
<1> DEFINE g == [s \in Small(S, k + 1) |->
                   IF s \in Small(S, k) THEN h[s] ELSE F[<<Some(s), h[s \ {Some(s)}]>>]]
<1>1. ASSUME NEW s \in Small(S, k + 1), s # {}
      PROVE  s \ {Some(s)} \in Small(S, k) /\ s \ {Some(s)} \in Small(S, k + 1) /\ Some(s) \in S
  <2>1. s \in SUBSET S /\ Cardinality(s) <= k + 1
    BY DEF Small
  <2> DEFINE r == s \ {Some(s)}
  <2>2. Cardinality(r) = Cardinality(s) - 1 /\ Cardinality(s) \in Nat /\ Some(s) \in S /\ r \in SUBSET S
    BY <1>1, <2>1, SmallIs
  <2> HIDE DEF r
  <2>3. Cardinality(r) <= k /\ Cardinality(r) <= k + 1
    BY <2>1, <2>2
  <2>4. r \in Small(S, k) /\ r \in Small(S, k + 1)
    BY <2>2, <2>3 DEF Small
  <2> QED
    BY <2>2, <2>4 DEF r
<1>2. {} \in Small(S, k)
  BY SmallIs
<1>3. ASSUME NEW s \in Small(S, k + 1) PROVE g[s] \in Type
  <2>1. CASE s \in Small(S, k)
    BY <2>1 DEF SetFolds
  <2>2. CASE s \notin Small(S, k)
    <3>1. s \ {Some(s)} \in Small(S, k) /\ Some(s) \in S
      BY <1>1, <1>2, <2>2
    <3>2. h[s \ {Some(s)}] \in Type
      BY <3>1 DEF SetFolds
    <3> QED
      BY <2>2, <3>1, <3>2
  <2> QED
    BY <2>1, <2>2
<1>4. ASSUME NEW s \in Small(S, k + 1)
      PROVE  g[s] = IF s = {} THEN base ELSE F[<<Some(s), g[s \ {Some(s)}]>>]
  <2>1. CASE s = {}
    <3>1. g[s] = h[s] /\ h[s] = base
      BY <1>2, <2>1 DEF SetFolds
    <3> QED
      BY <2>1, <3>1
  <2>2. CASE s # {}
    <3> DEFINE x == Some(s)
               r == s \ {x}
    <3>1. r \in Small(S, k) /\ r \in Small(S, k + 1)
      BY <1>1, <2>2
    <3>2. g[r] = h[r]
      BY <3>1
    <3>3. g[s] = F[<<x, h[r]>>]
      BY <2>2 DEF SetFolds
    <3> HIDE DEF g, x, r
    <3>4. g[s] = F[<<x, g[r]>>]
      BY <3>2, <3>3
    <3> QED
      BY <2>2, <3>4 DEF x, r
  <2> QED
    BY <2>1, <2>2
<1>5. g \in [Small(S, k + 1) -> Type]
  BY <1>3
<1> HIDE DEF g
<1> QED
  BY <1>4, <1>5 DEF SetFolds

SetFoldsAll(h, F, Type, base, S) ==
  /\ h \in [SUBSET S -> Type]
  /\ \A s \in SUBSET S : h[s] = IF s = {} THEN base ELSE F[<<Some(s), h[s \ {Some(s)}]>>]

LEMMA SetFoldExists ==
  ASSUME NEW S, IsFiniteSet(S), NEW Type, NEW F \in [S \X Type -> Type], NEW base \in Type
  PROVE  \E h : SetFoldsAll(h, F, Type, base, S)
<1> DEFINE Missing == {k \in Nat : ~\E h : SetFolds(h, F, Type, base, S, k)}
<1>1. Missing = {}
  <2> SUFFICES ASSUME Missing # {} PROVE FALSE
    OBVIOUS
  <2>1. PICK k \in Missing : \A m \in Missing : ~(<<m, k>> \in OpToRel(<, Nat))
    BY WFMin, NatLessThanWellFounded, Zenon
  <2>2. k \in Nat /\ ~\E h : SetFolds(h, F, Type, base, S, k)
    OBVIOUS
  <2>3. CASE k = 0
    <3> DEFINE h == [s \in Small(S, 0) |-> base]
    <3>1. ASSUME NEW s \in Small(S, 0) PROVE s = {}
      <4>1. s \in SUBSET S /\ Cardinality(s) <= 0
        BY DEF Small
      <4>2. s # {} => Cardinality(s) > 0 /\ Cardinality(s) \in Nat
        BY <4>1, SmallIs, <2>2
      <4> QED
        BY <4>1, <4>2
    <3>2. h \in [Small(S, 0) -> Type] /\ \A s \in Small(S, 0) : h[s] = base
      OBVIOUS
    <3> HIDE DEF h
    <3>3. SetFolds(h, F, Type, base, S, 0)
      BY <3>1, <3>2 DEF SetFolds
    <3> QED
      BY <2>2, <2>3, <3>3
  <2>4. CASE k # 0
    <3> HIDE DEF Missing
    <3>1. k - 1 \in Nat /\ k - 1 + 1 = k /\ <<k - 1, k>> \in OpToRel(<, Nat)
      BY <2>2, <2>4 DEF OpToRel
    <3>2. k - 1 \notin Missing
      BY <2>1, <3>1
    <3>3. PICK h : SetFolds(h, F, Type, base, S, k - 1)
      BY <3>1, <3>2 DEF Missing
    <3>4. \E g : SetFolds(g, F, Type, base, S, k - 1 + 1)
      BY <3>1, <3>3, SetFoldStep
    <3> QED
      BY <2>2, <3>1, <3>4
  <2> QED
    BY <2>3, <2>4
<1>2. Cardinality(S) \in Nat
  BY FS_CardinalityType
<1>3. PICK h : SetFolds(h, F, Type, base, S, Cardinality(S))
  BY <1>1, <1>2
<1>4. Small(S, Cardinality(S)) = SUBSET S
  BY <1>2, SmallIs
<1> QED
  BY <1>3, <1>4 DEF SetFolds, SetFoldsAll

-----------------------------------------------------------------------------
(* The sum of counts.                                                      *)

Sum(c, S) == G!FoldSet(LAMBDA id, sum : c[id] + sum, 0, S)

\* h gives every subset of S its sum, whichever element is taken last.
Adds(h, c, S) ==
  /\ h \in [SUBSET S -> Nat] /\ h[{}] = 0
  /\ \A s \in SUBSET S : \A x \in s : h[s] = c[x] + h[s \ {x}]

LEMMA AnyIsLast ==
  ASSUME NEW S, IsFiniteSet(S), NEW c \in [S -> Nat], NEW h \in [SUBSET S -> Nat],
         \A s \in SUBSET S : h[s] = IF s = {} THEN 0 ELSE c[Some(s)] + h[s \ {Some(s)}]
  PROVE  Adds(h, c, S)
<1> DEFINE Wrong(s) == \E x \in s : h[s] # c[x] + h[s \ {x}]
           Bad == {n \in Nat : \E s \in SUBSET S : Cardinality(s) = n /\ Wrong(s)}
<1>1. Bad = {}
  <2> SUFFICES ASSUME Bad # {} PROVE FALSE
    OBVIOUS
  <2>0. Bad \subseteq Nat
    OBVIOUS
  <2>1. PICK n \in Bad : \A m \in Bad : ~(<<m, n>> \in OpToRel(<, Nat))
    <3> HIDE DEF Bad
    <3> QED
      BY <2>0, WFMin, NatLessThanWellFounded, Zenon
  <2>2. PICK s \in SUBSET S : Cardinality(s) = n /\ Wrong(s)
    OBVIOUS
  <2>3. PICK x \in s : h[s] # c[x] + h[s \ {x}]
    BY <2>2
  <2> DEFINE y == Some(s)
  <2>4. n \in Nat /\ IsFiniteSet(s) /\ y \in s
    BY <2>2, <2>3, SmallIs, 0 \in Nat
  <2>5. h[s] = c[y] + h[s \ {y}]
    BY <2>3
  <2> HIDE DEF y
  <2>6. x # y
    BY <2>3, <2>5
  <2>7. ASSUME NEW z \in s PROVE ~Wrong(s \ {z})
    <3>1. s \ {z} \in SUBSET S /\ Cardinality(s \ {z}) = n - 1 /\ n # 0
      BY <2>2, <2>4, FS_RemoveElement, FS_EmptySet
    <3>2. n - 1 \in Nat /\ <<n - 1, n>> \in OpToRel(<, Nat)
      BY <2>4, <3>1 DEF OpToRel
    <3> HIDE DEF Bad
    <3>3. n - 1 \notin Bad
      BY <2>1, <3>2
    <3> HIDE DEF Wrong
    <3> QED
      BY <3>1, <3>2, <3>3 DEF Bad
  <2>8. h[s \ {y}] = c[x] + h[(s \ {y}) \ {x}] /\ h[s \ {x}] = c[y] + h[(s \ {x}) \ {y}]
    BY <2>4, <2>6, <2>7
  <2>9. (s \ {y}) \ {x} = (s \ {x}) \ {y}
    OBVIOUS
  <2> DEFINE r == h[(s \ {x}) \ {y}]
             a == c[x]
             b == c[y]
  <2>10. r \in Nat /\ a \in Nat /\ b \in Nat
    BY <2>4
  <2> HIDE DEF r, a, b
  <2>11. h[s \ {y}] = a + r /\ h[s \ {x}] = b + r /\ h[s] = b + h[s \ {y}] /\ h[s] # a + h[s \ {x}]
    BY <2>3, <2>5, <2>8, <2>9 DEF r, a, b
  <2> QED
    BY <2>10, <2>11
<1>2. ASSUME NEW s \in SUBSET S, NEW x \in s PROVE h[s] = c[x] + h[s \ {x}]
  <2>1. Cardinality(s) \in Nat
    BY SmallIs, 0 \in Nat
  <2> QED
    BY <1>1, <2>1
<1>3. h[{}] = 0
  BY {} \in SUBSET S
<1> QED
  BY <1>2, <1>3 DEF Adds

LEMMA SumIs ==
  ASSUME NEW S, IsFiniteSet(S), NEW c \in [S -> Nat]
  PROVE  \E h : Adds(h, c, S) /\ Sum(c, S) = h[S] /\ Sum(c, S) \in Nat
<1> DEFINE F == [p \in S \X Nat |-> c[p[1]] + p[2]]
           Is(h) == h = [s \in SUBSET S |->
                           IF s = {} THEN 0 ELSE c[CHOOSE x \in s : TRUE] + h[s \ {CHOOSE x \in s : TRUE}]]
           h == CHOOSE h : Is(h)
<1>1. F \in [S \X Nat -> Nat]
  OBVIOUS
<1>2. PICK g : SetFoldsAll(g, F, Nat, 0, S)
  <2>1. 0 \in Nat
    OBVIOUS
  <2> HIDE DEF F
  <2> QED
    BY <1>1, <2>1, SetFoldExists
<1>3. Is(g)
  <2>1. ASSUME NEW s \in SUBSET S, s # {}
        PROVE  F[<<Some(s), g[s \ {Some(s)}]>>] = c[Some(s)] + g[s \ {Some(s)}]
    <3>1. Some(s) \in S /\ g[s \ {Some(s)}] \in Nat
      BY <1>2, <2>1 DEF Some, SetFoldsAll
    <3> QED
      BY <3>1
  <2> HIDE DEF F
  <2> QED
    BY <1>2, <2>1 DEF Some, SetFoldsAll
<1>4. Is(h)
  <2> HIDE DEF Is
  <2> QED
    BY <1>3
<1>5. Sum(c, S) = h[S]
  BY DEF Sum, G!FoldSet, G!MapThenFoldSet
<1> HIDE DEF h, F
<1>6. \A s \in SUBSET S : h[s] = IF s = {} THEN 0 ELSE c[Some(s)] + h[s \ {Some(s)}]
  BY <1>4 DEF Some
<1>7. h \in [SUBSET S -> Nat]
  <2>1. DOMAIN h = SUBSET S /\ h = [s \in SUBSET S |-> h[s]]
    BY <1>4
  <2> DEFINE Bad == {n \in Nat : \E s \in SUBSET S : Cardinality(s) = n /\ h[s] \notin Nat}
  <2>2. Bad = {}
    <3> SUFFICES ASSUME Bad # {} PROVE FALSE
      OBVIOUS
    <3>1. PICK n \in Bad : \A m \in Bad : ~(<<m, n>> \in OpToRel(<, Nat))
      BY WFMin, NatLessThanWellFounded, Zenon
    <3>2. PICK s \in SUBSET S : Cardinality(s) = n /\ h[s] \notin Nat
      OBVIOUS
    <3> DEFINE y == Some(s)
    <3>3. s # {} /\ h[s] = c[y] + h[s \ {y}]
      <4> HIDE DEF y
      <4>1. h[s] = IF s = {} THEN 0 ELSE c[y] + h[s \ {y}]
        BY <1>6 DEF y
      <4> QED
        BY <3>2, <4>1
    <3>4. n \in Nat /\ n > 0 /\ y \in S /\ Cardinality(s \ {y}) = n - 1 /\ s \ {y} \in SUBSET S
      BY <3>2, <3>3, SmallIs, 0 \in Nat
    <3> HIDE DEF y
    <3>5. n - 1 \in Nat /\ <<n - 1, n>> \in OpToRel(<, Nat)
      BY <3>4 DEF OpToRel
    <3> HIDE DEF Bad
    <3>6. n - 1 \notin Bad
      BY <3>1, <3>5
    <3>7. h[s \ {y}] \in Nat
      BY <3>4, <3>5, <3>6 DEF Bad
    <3>8. c[y] \in Nat
      BY <3>4
    <3> QED
      BY <3>2, <3>3, <3>7, <3>8
  <2>3. \A s \in SUBSET S : h[s] \in Nat
    <3>1. \A s \in SUBSET S : Cardinality(s) \in Nat
      BY SmallIs, 0 \in Nat
    <3> QED
      BY <2>2, <3>1
  <2> HIDE DEF Bad
  <2> QED
    BY <2>1, <2>3
<1>8. Adds(h, c, S)
  BY <1>6, <1>7, AnyIsLast
<1> QED
  BY <1>5, <1>7, <1>8

\* A sum is that of the counts, whatever else is counted.
LEMMA AddsSame ==
  ASSUME NEW S, IsFiniteSet(S), NEW c \in [S -> Nat], NEW h, Adds(h, c, S),
         NEW R, NEW d \in [R -> Nat], NEW g, Adds(g, d, R),
         NEW E, E \in SUBSET S, E \in SUBSET R, \A i \in E : c[i] = d[i]
  PROVE  h[E] = g[E]
<1> DEFINE Bad == {n \in Nat : \E s \in SUBSET E : Cardinality(s) = n /\ h[s] # g[s]}
<1>1. Bad = {}
  <2> SUFFICES ASSUME Bad # {} PROVE FALSE
    OBVIOUS
  <2>1. PICK n \in Bad : \A m \in Bad : ~(<<m, n>> \in OpToRel(<, Nat))
    BY WFMin, NatLessThanWellFounded, Zenon
  <2>2. PICK s \in SUBSET E : Cardinality(s) = n /\ h[s] # g[s]
    OBVIOUS
  <2>3. s # {}
    BY <2>2 DEF Adds
  <2> DEFINE y == Some(s)
             r == s \ {y}
  <2>4. n \in Nat /\ n > 0 /\ y \in s /\ Cardinality(r) = n - 1 /\ r \in SUBSET E
    BY <2>2, <2>3, SmallIs, 0 \in Nat
  <2>5. s \in SUBSET S /\ s \in SUBSET R
    OBVIOUS
  <2>6. h[s] = c[y] + h[r] /\ g[s] = d[y] + g[r] /\ c[y] = d[y]
    BY <2>4, <2>5 DEF Adds
  <2> HIDE DEF y, r
  <2>7. n - 1 \in Nat /\ <<n - 1, n>> \in OpToRel(<, Nat)
    BY <2>4 DEF OpToRel
  <2> HIDE DEF Bad
  <2>8. n - 1 \notin Bad
    BY <2>1, <2>7
  <2>9. h[r] = g[r]
    BY <2>4, <2>7, <2>8 DEF Bad
  <2> QED
    BY <2>2, <2>6, <2>9
<1>2. IsFiniteSet(E) /\ Cardinality(E) \in Nat
  BY FS_Subset, FS_CardinalityType
<1> QED
  BY <1>1, <1>2

\* One more count adds what it adds.
LEMMA SumGrows ==
  ASSUME NEW D, IsFiniteSet(D), NEW id, NEW n \in Nat, NEW c \in [D -> Nat],
         NEW d \in [D \union {id} -> Nat], \A i \in D \ {id} : d[i] = c[i],
         d[id] = (IF id \in D THEN c[id] ELSE 0) + n
  PROVE  Sum(c, D) \in Nat /\ Sum(d, D \union {id}) = Sum(c, D) + n
<1> DEFINE R == D \union {id}
           E == D \ {id}
<1>1. IsFiniteSet(R)
  BY FS_AddElement
<1>2. PICK h : Adds(h, c, D) /\ Sum(c, D) = h[D] /\ Sum(c, D) \in Nat
  BY SumIs
<1>3. PICK g : Adds(g, d, R) /\ Sum(d, R) = g[R] /\ Sum(d, R) \in Nat
  BY <1>1, SumIs
<1>4. E \in SUBSET R /\ E \in SUBSET D /\ R \ {id} = E /\ id \in R /\ R \in SUBSET R /\ D \in SUBSET D
  OBVIOUS
<1> HIDE DEF R, E
<1>5. \A i \in E : d[i] = c[i]
  BY DEF E
<1>6. g[E] = h[E]
  BY <1>1, <1>2, <1>3, <1>4, <1>5, AddsSame DEF R
<1>7. g[R] = d[id] + g[E]
  BY <1>3, <1>4 DEF Adds
<1>8. h[E] \in Nat
  BY <1>2, <1>4 DEF Adds
<1>9. CASE id \in D
  <2>1. h[D] = c[id] + h[E]
    BY <1>2, <1>4, <1>9 DEF Adds, E
  <2>2. c[id] \in Nat /\ d[id] = c[id] + n
    BY <1>9
  <2> QED
    BY <1>2, <1>3, <1>6, <1>7, <1>8, <2>1, <2>2 DEF R
<1>10. CASE id \notin D
  <2>1. E = D /\ d[id] = n
    BY <1>10 DEF E
  <2> QED
    BY <1>2, <1>3, <1>6, <1>7, <1>8, <2>1 DEF R
<1> QED
  BY <1>9, <1>10

-----------------------------------------------------------------------------
(* One bag.                                                                *)

CountMaps == UNION {[D -> Nat \ {0}] : D \in SUBSET BagIds}

BagType ==
  [counts : CountMaps, size : Nat, mode : BagIds \union {EmptyId}, mode_freq : Nat,
   threshold : Nat, met : SUBSET BagIds]

\* What a bag keeps is that of its counts, of which none is zero.
GoodBag(b) ==
  /\ b \in BagType
  /\ b.size = Sum(b.counts, DOMAIN b.counts)
  /\ \A id \in DOMAIN b.counts : b.counts[id] <= b.mode_freq
  /\ DOMAIN b.counts = {} => b.mode_freq = 0
  /\ DOMAIN b.counts # {} => b.mode \in DOMAIN b.counts /\ b.counts[b.mode] = b.mode_freq
  /\ b.met = {id \in DOMAIN b.counts : b.counts[id] >= b.threshold}

LEMMA CountsAre ==
  ASSUME NEW c \in CountMaps
  PROVE  /\ DOMAIN c \in SUBSET BagIds /\ IsFiniteSet(DOMAIN c)
         /\ c \in [DOMAIN c -> Nat \ {0}] /\ c \in [DOMAIN c -> Nat]
<1>1. DOMAIN c \in SUBSET BagIds /\ c \in [DOMAIN c -> Nat \ {0}] /\ c \in [DOMAIN c -> Nat]
  BY DEF CountMaps
<1> QED
  BY <1>1, BitsAre, FS_Subset

LEMMA GoodIsConsistent ==
  ASSUME NEW b, GoodBag(b)
  PROVE  G!Consistent(b)
<1> DEFINE c == b.counts
           D == DOMAIN c
           all == {c[id] : id \in D}
<1>1. /\ b.size = Sum(c, D) /\ \A id \in D : c[id] <= b.mode_freq
      /\ D = {} => b.mode_freq = 0
  BY DEF GoodBag
<1>2. D # {} => b.mode \in D /\ c[b.mode] = b.mode_freq
  BY DEF GoodBag
<1>3. b.met = {id \in D : c[id] >= b.threshold}
  BY DEF GoodBag
<1>4. c \in [D -> Nat] /\ b.mode_freq \in Nat
  BY CountsAre DEF GoodBag, BagType
<1>5. all = {} <=> D = {}
  OBVIOUS
<1>6. ASSUME all # {} PROVE G!Max(all) = b.mode_freq
  <2>1. b.mode_freq \in all /\ \A y \in all : y \in Nat /\ b.mode_freq >= y
    BY <1>1, <1>2, <1>4, <1>5, <1>6
  <2> HIDE DEF all
  <2>2. \A x \in all : (\A y \in all : x >= y) => x = b.mode_freq
    BY <2>1, <1>4
  <2> QED
    BY <2>1, <2>2 DEF G!Max
<1>7. all # {} => G!count(b, b.mode) = b.mode_freq
  BY <1>2, <1>5 DEF G!count
<1> HIDE DEF all
<1>8. b.mode_freq = IF all = {} THEN 0 ELSE G!Max(all)
  BY <1>1, <1>5, <1>6
<1>9. b.mode_freq = IF all = {} THEN 0 ELSE G!count(b, b.mode)
  BY <1>1, <1>5, <1>7
<1> QED
  BY <1>1, <1>3, <1>8, <1>9, Zenon DEF G!Consistent, Sum, all

LEMMA NewIsGood == GoodBag(G!New)
<1> DEFINE c == <<>>
<1>1. c \in [{} -> Nat \ {0}] /\ c \in [{} -> Nat] /\ DOMAIN c = {}
  OBVIOUS
<1> HIDE DEF c
<1>2. Sum(c, {}) = 0
  <2>1. IsFiniteSet({})
    BY FS_EmptySet
  <2> QED
    BY <1>1, <2>1, SumIs DEF Adds
<1>3. c \in CountMaps
  BY <1>1 DEF CountMaps
<1>4. G!New = [counts |-> c, size |-> 0, mode |-> EmptyId, mode_freq |-> 0, threshold |-> 0, met |-> {}]
  BY DEF G!New, c
<1> QED
  BY <1>1, <1>2, <1>3, <1>4 DEF GoodBag, BagType

LEMMA ThresholdKeeps ==
  ASSUME NEW b, GoodBag(b), NEW t \in Nat
  PROVE  GoodBag(G!set_threshold(b, t)) /\ G!set_threshold(b, t).counts = b.counts
<1>1. CASE t = b.threshold
  BY <1>1 DEF G!set_threshold
<1>2. CASE t # b.threshold
  <2> DEFINE m == {id \in DOMAIN b.counts : b.counts[id] >= t}
             r == [b EXCEPT !.threshold = t, !.met = m]
  <2>1. G!set_threshold(b, t) = r
    BY <1>2, Zenon DEF G!set_threshold
  <2>2. m \in SUBSET BagIds
    BY CountsAre DEF GoodBag, BagType
  <2>3. b \in BagType
    BY DEF GoodBag
  <2> HIDE DEF m
  <2>4. /\ r.counts = b.counts /\ r.size = b.size /\ r.mode = b.mode
        /\ r.mode_freq = b.mode_freq /\ r.threshold = t /\ r.met = m
    BY <2>3 DEF BagType
  <2>5. r \in BagType
    BY <2>2, <2>3 DEF BagType
  <2> HIDE DEF r
  <2> QED
    BY <2>1, <2>4, <2>5 DEF GoodBag, m
<1> QED
  BY <1>1, <1>2

\* What add_count counts.
Added(c, id, n) ==
  IF n = 0 THEN c
  ELSE [i \in DOMAIN c \union {id} |->
          IF i = id THEN (IF id \in DOMAIN c THEN c[id] ELSE 0) + n ELSE c[i]]

LEMMA AddKeeps ==
  ASSUME NEW b, GoodBag(b), NEW id \in BagIds, NEW n \in Nat
  PROVE  GoodBag(G!add_count(b, id, n)) /\ G!add_count(b, id, n).counts = Added(b.counts, id, n)
<1>1. CASE n = 0
  BY <1>1 DEF G!add_count, Added
<1>2. CASE n # 0
  <2> DEFINE c == b.counts
             D == DOMAIN c
             R == D \union {id}
             total == G!count(b, id) + n
             d == [i \in R |-> IF i = id THEN total ELSE c[i]]
             r == G!add_count(b, id, n)
  <2>1. b \in BagType /\ c \in [D -> Nat \ {0}] /\ c \in [D -> Nat] /\ D \in SUBSET BagIds /\ IsFiniteSet(D)
    BY CountsAre DEF GoodBag, BagType
  <2>2. total = (IF id \in D THEN c[id] ELSE 0) + n
    BY DEF G!count
  <2>3. total \in Nat /\ total > 0 /\ (id \in D => total >= c[id])
    BY <1>2, <2>1, <2>2
  <2>4. r = [counts |-> d, size |-> b.size + n,
             mode |-> IF total > b.mode_freq THEN id ELSE b.mode,
             mode_freq |-> IF total > b.mode_freq THEN total ELSE b.mode_freq,
             threshold |-> b.threshold,
             met |-> IF total >= b.threshold THEN b.met \union {id} ELSE b.met]
    BY <1>2, Zenon DEF G!add_count
  <2>5. d = Added(c, id, n)
    BY <1>2, <2>2 DEF Added
  <2> HIDE DEF total, r
  <2>6. /\ d \in [R -> Nat \ {0}] /\ d \in [R -> Nat] /\ DOMAIN d = R /\ R \in SUBSET BagIds
        /\ d[id] = total /\ \A i \in D \ {id} : d[i] = c[i]
    BY <2>1, <2>3
  <2>7. \A i \in R : i = id \/ (i \in D /\ i # id)
    OBVIOUS
  <2> HIDE DEF d
  <2>8. d \in CountMaps
    BY <2>6 DEF CountMaps
  <2>9. b.size \in Nat /\ b.mode \in BagIds \union {EmptyId} /\ b.mode_freq \in Nat
        /\ b.threshold \in Nat /\ b.met \in SUBSET BagIds
    BY <2>1 DEF BagType
  <2>10. r \in BagType
    BY <2>3, <2>4, <2>8, <2>9 DEF BagType
  <2>11. r.size = Sum(r.counts, DOMAIN r.counts)
    <3>1. Sum(d, R) = Sum(c, D) + n
      <4>1. d[id] = (IF id \in D THEN c[id] ELSE 0) + n /\ d \in [D \union {id} -> Nat]
        BY <2>2, <2>6
      <4>2. IsFiniteSet(D) /\ c \in [D -> Nat] /\ \A i \in D \ {id} : d[i] = c[i]
        BY <2>1, <2>6
      <4> HIDE DEF D, c
      <4> QED
        BY <4>1, <4>2, SumGrows
    <3>2. b.size = Sum(c, D)
      BY DEF GoodBag
    <3> QED
      BY <2>4, <2>6, <3>1, <3>2
  <2>12. \A i \in D : c[i] <= b.mode_freq /\ c[i] \in Nat
    BY <2>1 DEF GoodBag
  <2>13. D # {} => b.mode \in D /\ c[b.mode] = b.mode_freq
    BY DEF GoodBag
  <2>14. D = {} => b.mode_freq = 0
    BY DEF GoodBag
  <2>15. \A i \in R : d[i] <= r.mode_freq
    BY <2>3, <2>4, <2>6, <2>7, <2>9, <2>12
  <2>16. r.mode \in R /\ d[r.mode] = r.mode_freq
    <3>1. CASE total > b.mode_freq
      BY <2>4, <2>6, <3>1
    <3>2. CASE ~(total > b.mode_freq)
      <4>1. D # {} /\ b.mode \in D /\ c[b.mode] = b.mode_freq
        BY <2>3, <2>13, <2>14, <3>2
      <4>2. b.mode = id => total = c[id]
        BY <2>3, <2>9, <3>2, <4>1
      <4> QED
        BY <2>4, <2>6, <3>2, <4>1, <4>2
    <3> QED
      BY <3>1, <3>2
  <2>17. r.met = {i \in R : d[i] >= r.threshold}
    <3>1. b.met = {i \in D : c[i] >= b.threshold}
      BY DEF GoodBag
    <3>2. ASSUME NEW i PROVE i \in r.met <=> i \in R /\ d[i] >= b.threshold
      <4>1. CASE i = id
        <5>1. i \in D => (c[i] >= b.threshold => total >= b.threshold)
          BY <2>3, <2>9, <2>12, <4>1
        <5> QED
          BY <2>4, <2>6, <3>1, <4>1, <5>1
      <4>2. CASE i # id
        BY <2>4, <2>6, <3>1, <4>2
      <4> QED
        BY <4>1, <4>2
    <3>3. r.threshold = b.threshold
      BY <2>4
    <3> HIDE DEF R
    <3> QED
      BY <3>2, <3>3
  <2>18. r.counts = d /\ R # {}
    BY <2>4
  <2> HIDE DEF R
  <2>19. GoodBag(r)
    BY <2>6, <2>10, <2>11, <2>15, <2>16, <2>17, <2>18 DEF GoodBag
  <2> QED
    BY <2>5, <2>18, <2>19 DEF r
<1> QED
  BY <1>1, <1>2

-----------------------------------------------------------------------------
(* A bag that is counted from a map, in any order.                         *)

LEMMA CardinalityIs == \A S : G!Cardinality(S) = Cardinality(S)
BY DEF G!Cardinality, Cardinality

GoodBags == {b \in BagType : GoodBag(b)}

\* Each element of S is counted, and only once.
LEMMA OrderIs ==
  ASSUME NEW S, IsFiniteSet(S), NEW order \in G!SetToSeqs(S)
  PROVE  LET m == Cardinality(S) IN
         /\ m \in Nat /\ order \in [1..m -> S]
         /\ \A i, j \in 1..m : i # j => order[i] # order[j]
         /\ \A x \in S : \E i \in 1..m : order[i] = x
<1> DEFINE m == Cardinality(S)
<1>1. m \in Nat
  BY FS_CardinalityType
<1>2. order \in [1..m -> S] /\ \A i, j \in 1..m : i # j => order[i] # order[j]
  BY CardinalityIs DEF G!SetToSeqs
<1> HIDE DEF m
<1>3. order \in Injection(1..m, S)
  BY <1>2 DEF Injection, IsInjective
<1>4. Cardinality(1..m) = m /\ IsFiniteSet(1..m)
  <2>1. 1 \in Int /\ m \in Int
    BY <1>1
  <2> QED
    BY <1>1, <2>1, FS_Interval
<1>5. order \in Surjection(1..m, S)
  BY <1>3, <1>4, FS_Injection DEF m
<1>6. \A x \in S : \E i \in 1..m : order[i] = x
  BY <1>5 DEF Surjection
<1> QED
  BY <1>1, <1>2, <1>6 DEF m

CountAll(t, n, order) ==
  G!FoldLeft(LAMBDA a, id : G!add_count(a, id, n[id]), G!set_threshold(G!New, t), order)

LEMMA CountedIsPath ==
  ASSUME NEW S \in SUBSET BagIds, NEW n, \A id \in S : n[id] \in Nat, NEW t \in Nat,
         NEW order \in G!SetToSeqs(S)
  PROVE  \E f : /\ f[0] = G!set_threshold(G!New, t) /\ f[Cardinality(S)] = CountAll(t, n, order)
                /\ \A k \in 1..Cardinality(S) : f[k] = G!add_count(f[k - 1], order[k], n[order[k]])
<1> DEFINE m == Cardinality(S)
           b == CountAll(t, n, order)
           base == G!set_threshold(G!New, t)
           F == [p \in GoodBags \X (1..m) |-> G!add_count(p[1], order[p[2]], n[order[p[2]]])]
           Is(h) == h = [r \in SUBSET (1..m) |->
                           IF r = {} THEN base
                           ELSE G!add_count(h[r \ {GreatestOf(r)}], order[GreatestOf(r)], n[order[GreatestOf(r)]])]
           h == CHOOSE h : Is(h)
           f == [k \in 0..m |-> h[1..k]]
<1>1. m \in Nat /\ order \in [1..m -> S]
  BY OrderIs, BitsAre, FS_Subset
<1> HIDE DEF m
<1>2. base \in GoodBags
  <2>1. GoodBag(base)
    BY NewIsGood, ThresholdKeeps
  <2> QED
    BY <2>1 DEF GoodBags, GoodBag
<1>3. F \in [GoodBags \X (1..m) -> GoodBags]
  <2>1. ASSUME NEW a \in GoodBags, NEW k \in 1..m
        PROVE  G!add_count(a, order[k], n[order[k]]) \in GoodBags
    <3>1. order[k] \in BagIds /\ n[order[k]] \in Nat /\ GoodBag(a)
      BY <1>1 DEF GoodBags
    <3>2. GoodBag(G!add_count(a, order[k], n[order[k]]))
      BY <3>1, AddKeeps
    <3> QED
      BY <3>2 DEF GoodBags, GoodBag
  <2> QED
    BY <2>1
<1> HIDE DEF base
<1>4. PICK g : Folds(g, F, GoodBags, base, m)
  <2> HIDE DEF F
  <2> QED
    BY <1>1, <1>2, <1>3, FoldExists
<1>5. Is(g)
  <2>1. ASSUME NEW r \in SUBSET (1..m), r # {}
        PROVE  F[<<g[r \ {GreatestOf(r)}], GreatestOf(r)>>]
                 = G!add_count(g[r \ {GreatestOf(r)}], order[GreatestOf(r)], n[order[GreatestOf(r)]])
    <3>1. GreatestOf(r) \in 1..m /\ g[r \ {GreatestOf(r)}] \in GoodBags
      BY <1>1, <1>4, <2>1, GreatestIn DEF Folds
    <3> QED
      BY <3>1
  <2> HIDE DEF F
  <2> QED
    BY <1>4, <2>1 DEF Folds
<1>6. Is(h)
  <2> HIDE DEF Is
  <2> QED
    BY <1>5
<1>7. b = h[1..m]
  <2>1. DOMAIN order = 1..m
    BY <1>1
  <2> QED
    BY <2>1 DEF CountAll, G!FoldLeft, G!MapThenFoldSet, G!Max, GreatestOf, base
<1> HIDE DEF h, F, b
<1>8. f[0] = base
  BY <1>1, <1>6, Ups
<1>9. ASSUME NEW k \in 1..m PROVE f[k] = G!add_count(f[k - 1], order[k], n[order[k]])
  <2> DEFINE Ks == 1..k
  <2>1. Ks \in SUBSET (1..m) /\ Ks # {} /\ GreatestOf(Ks) = k /\ Ks \ {k} = 1..(k - 1)
    BY <1>1, Ups
  <2>2. k \in 0..m /\ k - 1 \in 0..m
    BY <1>1
  <2>3. f[k] = h[Ks] /\ f[k - 1] = h[1..(k - 1)]
    BY <2>2
  <2> HIDE DEF Ks, f
  <2>4. h[Ks] = G!add_count(h[Ks \ {GreatestOf(Ks)}], order[GreatestOf(Ks)], n[order[GreatestOf(Ks)]])
    BY <1>6, <2>1, Zenon
  <2> QED
    BY <2>1, <2>3, <2>4
<1>10. f[m] = b
  BY <1>1, <1>7
<1> HIDE DEF f
<1>11. \E q : /\ q[0] = base /\ q[m] = b
              /\ \A k \in 1..m : q[k] = G!add_count(q[k - 1], order[k], n[order[k]])
  BY <1>8, <1>9, <1>10
<1> QED
  BY <1>11, Zenon DEF base, b, m

\* n of those of S that have any.
CountsOf(n, S) == [id \in {i \in S : n[i] # 0} |-> n[id]]

LEMMA CountOneMore ==
  ASSUME NEW U, NEW id, id \notin U, NEW n, n[id] \in Nat
  PROVE  Added(CountsOf(n, U), id, n[id]) = CountsOf(n, U \union {id})
<1> DEFINE c == CountsOf(n, U)
           D == {i \in U : n[i] # 0}
           R == {i \in U \union {id} : n[i] # 0}
<1>1. DOMAIN c = D /\ id \notin D
  BY DEF CountsOf
<1>2. CASE n[id] = 0
  <2>1. R = D
    BY <1>2
  <2> QED
    BY <1>2, <2>1 DEF Added, CountsOf
<1>3. CASE n[id] # 0
  <2>1. R = D \union {id}
    BY <1>3
  <2> DEFINE d == [i \in D \union {id} |-> IF i = id THEN 0 + n[id] ELSE c[i]]
  <2>2. Added(c, id, n[id]) = d
    BY <1>1, <1>3 DEF Added
  <2>3. \A i \in D \union {id} : d[i] = n[i]
    BY <1>1 DEF CountsOf
  <2> HIDE DEF c, D
  <2>4. d = [i \in D \union {id} |-> n[i]]
    BY <2>3
  <2> HIDE DEF d
  <2>5. CountsOf(n, U \union {id}) = [i \in R |-> n[i]]
    BY DEF CountsOf
  <2> HIDE DEF R
  <2> QED
    BY <2>1, <2>2, <2>4, <2>5 DEF c
<1> QED
  BY <1>2, <1>3

\* Whatever the order, what is counted is n.
LEMMA CountedIs ==
  ASSUME NEW S \in SUBSET BagIds, NEW n, \A id \in S : n[id] \in Nat, NEW t \in Nat,
         NEW b \in G!Counted(t, S, n)
  PROVE  GoodBag(b) /\ b.counts = CountsOf(n, S)
<1>1. PICK order \in G!SetToSeqs(S) :
        b = CountAll(t, n, order)
  BY Zenon DEF G!Counted, CountAll
<1> DEFINE m == Cardinality(S)
<1>2. PICK f : /\ f[0] = G!set_threshold(G!New, t) /\ f[m] = b
               /\ \A k \in 1..m : f[k] = G!add_count(f[k - 1], order[k], n[order[k]])
  BY <1>1, CountedIsPath
<1>3. /\ m \in Nat /\ order \in [1..m -> S]
      /\ \A i, j \in 1..m : i # j => order[i] # order[j]
      /\ \A x \in S : \E i \in 1..m : order[i] = x
  BY OrderIs, BitsAre, FS_Subset
<1> HIDE DEF m
<1> DEFINE First(k) == {order[i] : i \in 1..k}
           Right(k) == GoodBag(f[k]) /\ f[k].counts = CountsOf(n, First(k))
           Bad == {k \in Nat : k <= m /\ ~Right(k)}
<1>4. Right(0)
  <2>1. GoodBag(G!New) /\ GoodBag(f[0]) /\ f[0].counts = <<>>
    <3>1. GoodBag(f[0]) /\ f[0].counts = G!New.counts
      BY <1>2, NewIsGood, ThresholdKeeps
    <3> QED
      BY <3>1, NewIsGood DEF G!New
  <2>2. First(0) = {}
    OBVIOUS
  <2>3. CountsOf(n, {}) = <<>>
    BY DEF CountsOf
  <2> HIDE DEF First
  <2> QED
    BY <2>1, <2>2, <2>3
<1>5. ASSUME NEW k \in 1..m, Right(k - 1) PROVE Right(k)
  <2> DEFINE id == order[k]
             U == First(k - 1)
  <2>1. id \in BagIds /\ id \in S /\ n[id] \in Nat
    BY <1>3
  <2>2. id \notin U
    <3> SUFFICES ASSUME id \in U PROVE FALSE
      OBVIOUS
    <3>1. PICK i \in 1..(k - 1) : id = order[i]
      OBVIOUS
    <3>2. i \in 1..m /\ i # k
      BY <1>3
    <3> QED
      BY <1>3, <3>1, <3>2
  <2>3. First(k) = U \union {id}
    <3>1. \A i \in 1..k : i \in 1..(k - 1) \/ i = k
      OBVIOUS
    <3>2. \A i \in 1..(k - 1) : i \in 1..k
      OBVIOUS
    <3>3. k \in 1..k
      OBVIOUS
    <3> QED
      BY <3>1, <3>2, <3>3
  <2> HIDE DEF First
  <2>4. GoodBag(f[k - 1]) /\ f[k - 1].counts = CountsOf(n, U)
    BY <1>5
  <2> HIDE DEF U, id
  <2>5. f[k] = G!add_count(f[k - 1], id, n[id])
    BY <1>2 DEF id
  <2>6. GoodBag(f[k]) /\ f[k].counts = Added(CountsOf(n, U), id, n[id])
    <3>1. GoodBag(f[k - 1]) /\ id \in BagIds /\ n[id] \in Nat
      BY <2>1, <2>4
    <3>2. /\ GoodBag(G!add_count(f[k - 1], id, n[id]))
          /\ G!add_count(f[k - 1], id, n[id]).counts = Added(f[k - 1].counts, id, n[id])
      BY <3>1, AddKeeps
    <3> QED
      BY <2>4, <2>5, <3>2
  <2>7. f[k].counts = CountsOf(n, U \union {id})
    BY <2>1, <2>2, <2>6, CountOneMore
  <2> QED
    BY <2>3, <2>6, <2>7
<1> HIDE DEF Right
<1>6. Bad = {}
  <2> SUFFICES ASSUME Bad # {} PROVE FALSE
    OBVIOUS
  <2>1. Bad \subseteq Nat
    OBVIOUS
  <2>2. PICK k \in Bad : \A j \in Bad : ~(<<j, k>> \in OpToRel(<, Nat))
    <3> HIDE DEF Bad
    <3> QED
      BY <2>1, WFMin, NatLessThanWellFounded, Zenon
  <2>3. k \in Nat /\ k <= m /\ ~Right(k)
    OBVIOUS
  <2>4. k # 0
    BY <1>4, <2>3
  <2>5. k - 1 \in Nat /\ k - 1 <= m /\ k \in 1..m /\ <<k - 1, k>> \in OpToRel(<, Nat)
    BY <1>3, <2>3, <2>4 DEF OpToRel
  <2> HIDE DEF Bad
  <2>6. k - 1 \notin Bad
    BY <2>2, <2>5
  <2>7. Right(k - 1)
    BY <2>5, <2>6 DEF Bad
  <2> QED
    BY <1>5, <2>3, <2>5, <2>7
<1>7. Right(m)
  BY <1>3, <1>6
<1>8. First(m) = S
  BY <1>3
<1> HIDE DEF First
<1> QED
  BY <1>2, <1>7, <1>8 DEF Right

-----------------------------------------------------------------------------
(* Unique bags.                                                            *)

Votes == UNION {[D -> SUBSET Voters] : D \in SUBSET BagIds}

VoteAll(voter, v, ids) == G!FoldSet(LAMBDA id, u : G!union_set(u, id, {voter}), v, ids)

LEMMA VotesAre ==
  ASSUME NEW u \in Votes
  PROVE  DOMAIN u \in SUBSET BagIds /\ u \in [DOMAIN u -> SUBSET Voters]
BY DEF Votes

LEMMA UnionIs ==
  ASSUME NEW u \in Votes, NEW id \in BagIds, NEW voters \in SUBSET Voters
  PROVE  G!union_set(u, id, voters) \in Votes
<1> DEFINE R == DOMAIN u \union {id}
           r == G!union_set(u, id, voters)
<1>1. R \in SUBSET BagIds
  BY VotesAre
<1>2. r = [i \in R |-> IF i # id THEN u[i] ELSE IF id \in DOMAIN u THEN u[id] \union voters ELSE voters]
  BY DEF G!union_set
<1>3. \A i \in R : (IF i # id THEN u[i] ELSE IF id \in DOMAIN u THEN u[id] \union voters ELSE voters) \in SUBSET Voters
  BY VotesAre
<1> HIDE DEF R, r
<1>4. r \in [R -> SUBSET Voters]
  BY <1>2, <1>3
<1> QED
  BY <1>1, <1>4 DEF Votes, r

LEMMA VoteIs ==
  ASSUME NEW v \in Votes, NEW voter \in Voters, NEW ids \in SUBSET BagIds
  PROVE  VoteAll(voter, v, ids) \in Votes
<1> DEFINE F == [p \in ids \X Votes |-> G!union_set(p[2], p[1], {voter})]
           Is(h) == h = [s \in SUBSET ids |->
                           IF s = {} THEN v
                           ELSE G!union_set(h[s \ {CHOOSE x \in s : TRUE}], CHOOSE x \in s : TRUE, {voter})]
           h == CHOOSE h : Is(h)
<1>0. IsFiniteSet(ids)
  BY BitsAre, FS_Subset
<1>1. F \in [ids \X Votes -> Votes]
  <2>1. ASSUME NEW id \in ids, NEW u \in Votes PROVE G!union_set(u, id, {voter}) \in Votes
    BY UnionIs
  <2> QED
    BY <2>1
<1>2. PICK g : SetFoldsAll(g, F, Votes, v, ids)
  <2> HIDE DEF F
  <2> QED
    BY <1>0, <1>1, SetFoldExists
<1>3. Is(g)
  <2>1. ASSUME NEW s \in SUBSET ids, s # {}
        PROVE  F[<<Some(s), g[s \ {Some(s)}]>>] = G!union_set(g[s \ {Some(s)}], Some(s), {voter})
    <3>1. Some(s) \in ids /\ g[s \ {Some(s)}] \in Votes
      BY <1>2, <2>1 DEF Some, SetFoldsAll
    <3> QED
      BY <3>1
  <2> HIDE DEF F
  <2> QED
    BY <1>2, <2>1 DEF Some, SetFoldsAll
<1>4. Is(h)
  <2> HIDE DEF Is
  <2> QED
    BY <1>3
<1>5. VoteAll(voter, v, ids) = h[ids]
  BY DEF VoteAll, G!FoldSet, G!MapThenFoldSet
<1> HIDE DEF h, F
<1>6. \A s \in SUBSET ids : h[s] = IF s = {} THEN v ELSE G!union_set(h[s \ {Some(s)}], Some(s), {voter})
  BY <1>4 DEF Some
<1> DEFINE Bad == {n \in Nat : \E s \in SUBSET ids : Cardinality(s) = n /\ h[s] \notin Votes}
<1>7. Bad = {}
  <2> SUFFICES ASSUME Bad # {} PROVE FALSE
    OBVIOUS
  <2>1. Bad \subseteq Nat
    OBVIOUS
  <2>2. PICK n \in Bad : \A m \in Bad : ~(<<m, n>> \in OpToRel(<, Nat))
    <3> HIDE DEF Bad
    <3> QED
      BY <2>1, WFMin, NatLessThanWellFounded, Zenon
  <2>3. PICK s \in SUBSET ids : Cardinality(s) = n /\ h[s] \notin Votes
    OBVIOUS
  <2> DEFINE y == Some(s)
             r == s \ {y}
  <2>4. h[s] = IF s = {} THEN v ELSE G!union_set(h[r], y, {voter})
    BY <1>6
  <2>5. s # {}
    BY <2>3, <2>4
  <2>6. n \in Nat /\ n > 0 /\ y \in ids /\ Cardinality(r) = n - 1 /\ r \in SUBSET ids
    BY <1>0, <2>3, <2>5, SmallIs, 0 \in Nat
  <2> HIDE DEF y, r
  <2>7. n - 1 \in Nat /\ <<n - 1, n>> \in OpToRel(<, Nat)
    BY <2>6 DEF OpToRel
  <2> HIDE DEF Bad
  <2>8. n - 1 \notin Bad
    BY <2>2, <2>7
  <2>9. h[r] \in Votes
    BY <2>6, <2>7, <2>8 DEF Bad
  <2>10. G!union_set(h[r], y, {voter}) \in Votes
    BY <2>6, <2>9, UnionIs
  <2> QED
    BY <2>3, <2>4, <2>5, <2>10
<1>8. Cardinality(ids) \in Nat
  BY <1>0, FS_CardinalityType
<1> QED
  BY <1>5, <1>7, <1>8

\* Voters taken away, ids left out.
LEMMA FewerVotes ==
  ASSUME NEW u \in Votes, NEW D, D \subseteq DOMAIN u, NEW r, DOMAIN r = D, r = [id \in D |-> r[id]],
         \A id \in D : r[id] \subseteq u[id]
  PROVE  r \in Votes
<1>1. D \in SUBSET BagIds
  BY VotesAre
<1>2. \A id \in D : r[id] \in SUBSET Voters
  BY VotesAre
<1> QED
  BY <1>1, <1>2 DEF Votes

-----------------------------------------------------------------------------
(* Bags of ids: the inductive invariant.                                   *)

\* What the call before made of the counts or votes it was given.
AsAsked(m) ==
  /\ m.by = "filter" =>
       m.bags[1].counts = [id \in {v \in DOMAIN m.of : \A i \in m.start..(m.stop - 1) :
                                                      i < G!NUM_BITS /\ v[i] = m.id[i]} |-> m.of[id]]
  /\ m.by = "split" =>
       \A bit \in {0, 1} :
         m.bags[bit + 1].counts = [id \in {v \in DOMAIN m.of : v[m.index] = bit} |-> m.of[id]]
  /\ m.by = "unique" =>
       m.bags[1].counts = [id \in {i \in DOMAIN m.of : m.of[i] # {}} |-> Cardinality(m.of[id])]

BagInv ==
  /\ bags \in [DOMAIN bags -> GoodBags]
  /\ uniques \in [DOMAIN uniques -> Votes]
  /\ \A i \in DOMAIN made.bags : GoodBag(made.bags[i])
  /\ AsAsked(made)

LEMMA BagInvIsEnough == BagInv => G!BagIsItsCounts
<1> SUFFICES ASSUME BagInv PROVE G!BagIsItsCounts
  OBVIOUS
<1>1. \A i \in DOMAIN bags : G!Consistent(bags[i])
  <2>1. \A i \in DOMAIN bags : GoodBag(bags[i])
    BY DEF BagInv, GoodBags
  <2> QED
    BY <2>1, GoodIsConsistent
<1>2. \A i \in DOMAIN made.bags : G!Consistent(made.bags[i])
  BY GoodIsConsistent DEF BagInv
<1>3. AsAsked(made)
  BY DEF BagInv
<1> QED
  BY <1>1, <1>2, <1>3, CardinalityIs DEF G!BagIsItsCounts, G!Kept, AsAsked

LEMMA BagsStart == G!Init => BagInv
<1> SUFFICES ASSUME G!Init PROVE BagInv
  OBVIOUS
<1>1. made = [by |-> "none", bags |-> <<>>]
  BY DEF G!Init
<1>2. AsAsked(made) /\ \A i \in DOMAIN made.bags : GoodBag(made.bags[i])
  BY <1>1 DEF AsAsked
<1>3. CASE bags = <<G!New>> /\ uniques = <<>>
  <2>1. G!New \in GoodBags
    BY NewIsGood DEF GoodBags, GoodBag
  <2> QED
    BY <1>2, <1>3, <2>1 DEF BagInv
<1>4. CASE bags = <<>> /\ uniques = << <<>>, <<>> >>
  <2> DEFINE none == <<>>
  <2>1. none \in [{} -> SUBSET Voters]
    OBVIOUS
  <2> HIDE DEF none
  <2>2. none \in Votes
    BY <2>1 DEF Votes
  <2>3. uniques = <<none, none>>
    BY <1>4 DEF none
  <2>4. uniques \in [DOMAIN uniques -> Votes] /\ bags \in [DOMAIN bags -> GoodBags]
    BY <1>4, <2>2, <2>3
  <2> QED
    BY <1>2, <2>4 DEF BagInv
<1> QED
  BY <1>3, <1>4 DEF G!Init

\* A call that makes no bags leaves none there.
LEMMA IdleKeeps ==
  ASSUME BagInv, made.by = "none", made' = made
  PROVE  AsAsked(made') /\ \A i \in DOMAIN made'.bags : GoodBag(made'.bags[i])
BY DEF AsAsked, BagInv

LEMMA BagChanges ==
  ASSUME BagInv, G!Add \/ G!SetThreshold
  PROVE  BagInv'
<1>1. made.by = "none" /\ made' = made /\ uniques' = uniques
  BY DEF G!Add, G!SetThreshold, G!Idle
<1>2. bags' \in [DOMAIN bags -> GoodBags]
  <2>1. ASSUME NEW i \in DOMAIN bags, NEW id \in BagIds, NEW n \in Counts
        PROVE  G!add_count(bags[i], id, n) \in GoodBags
    <3>1. GoodBag(bags[i]) /\ n \in Nat
      BY BitsAre DEF BagInv, GoodBags
    <3>2. GoodBag(G!add_count(bags[i], id, n))
      BY <3>1, AddKeeps
    <3> QED
      BY <3>2 DEF GoodBags, GoodBag
  <2>2. ASSUME NEW i \in DOMAIN bags, NEW t \in Thresholds
        PROVE  G!set_threshold(bags[i], t) \in GoodBags
    <3>1. GoodBag(bags[i]) /\ t \in Nat
      BY BitsAre DEF BagInv, GoodBags
    <3>2. GoodBag(G!set_threshold(bags[i], t))
      BY <3>1, ThresholdKeeps
    <3> QED
      BY <3>2 DEF GoodBags, GoodBag
  <2>3. CASE G!Add
    <3>1. PICK i \in DOMAIN bags, id \in BagIds, n \in Counts :
            bags' = [bags EXCEPT ![i] = G!add_count(@, id, n)]
      BY <2>3 DEF G!Add
    <3> QED
      BY <2>1, <3>1 DEF BagInv
  <2>4. CASE G!SetThreshold
    <3>1. PICK i \in DOMAIN bags, t \in Thresholds :
            bags' = [bags EXCEPT ![i] = G!set_threshold(@, t)]
      BY <2>4 DEF G!SetThreshold
    <3> QED
      BY <2>2, <3>1 DEF BagInv
  <2> QED
    BY <2>3, <2>4
<1>3. bags' \in [DOMAIN bags' -> GoodBags]
  BY <1>2
<1> QED
  BY <1>1, <1>3, IdleKeeps DEF BagInv

LEMMA UniqueChanges ==
  ASSUME BagInv, G!Vote \/ G!difference_set \/ G!difference \/ G!remove_set \/ G!clear
  PROVE  BagInv'
<1>1. made.by = "none" /\ made' = made /\ bags' = bags
  BY DEF G!Vote, G!difference_set, G!difference, G!remove_set, G!clear, G!Idle
<1>2. \E k \in DOMAIN uniques, r \in Votes : uniques' = [uniques EXCEPT ![k] = r]
  <2>0. \A k \in DOMAIN uniques : uniques[k] \in Votes
    BY DEF BagInv
  <2>1. CASE G!Vote
    <3>1. PICK k \in DOMAIN uniques, voter \in Voters, ids \in SUBSET BagIds :
            uniques' = [uniques EXCEPT ![k] = VoteAll(voter, @, ids)]
      BY <2>1, Zenon DEF G!Vote, VoteAll
    <3>2. VoteAll(voter, uniques[k], ids) \in Votes
      BY <2>0, VoteIs
    <3> QED
      BY <3>1, <3>2
  <2>2. CASE G!difference_set
    <3>1. PICK k \in DOMAIN uniques, voters \in SUBSET Voters : \E id \in DOMAIN uniques[k] :
            uniques' = [uniques EXCEPT ![k][id] = @ \ voters]
      BY <2>2 DEF G!difference_set
    <3>2. PICK id \in DOMAIN uniques[k] : uniques' = [uniques EXCEPT ![k][id] = @ \ voters]
      BY <3>1
    <3> DEFINE u == uniques[k]
               r == [u EXCEPT ![id] = @ \ voters]
    <3>3. u \in Votes
      BY <2>0
    <3>4. u = [i \in DOMAIN u |-> u[i]]
      BY <3>3, VotesAre
    <3>5. r \in Votes
      <4>1. DOMAIN r = DOMAIN u /\ r = [i \in DOMAIN u |-> r[i]] /\ \A i \in DOMAIN u : r[i] \subseteq u[i]
        BY <3>4
      <4> HIDE DEF r, u
      <4> QED
        BY <3>3, <4>1, FewerVotes
    <3> QED
      BY <3>2, <3>5
  <2>3. CASE G!difference
    <3>1. PICK k \in DOMAIN uniques :
            LET diff == uniques[3 - k] IN
            uniques' = [uniques EXCEPT ![k] =
              [id \in DOMAIN @ |-> IF id \in DOMAIN diff THEN @[id] \ diff[id] ELSE @[id]]]
      BY <2>3 DEF G!difference
    <3> DEFINE u == uniques[k]
               diff == uniques[3 - k]
               r == [id \in DOMAIN u |-> IF id \in DOMAIN diff THEN u[id] \ diff[id] ELSE u[id]]
    <3>2. u \in Votes
      BY <2>0
    <3>3. uniques' = [uniques EXCEPT ![k] = r]
      BY <3>1
    <3>4. r \in Votes
      <4>1. DOMAIN r = DOMAIN u /\ r = [i \in DOMAIN u |-> r[i]] /\ \A i \in DOMAIN u : r[i] \subseteq u[i]
        OBVIOUS
      <4> HIDE DEF r, u
      <4> QED
        BY <3>2, <4>1, FewerVotes
    <3> QED
      BY <3>3, <3>4
  <2>4. CASE G!remove_set
    <3>1. PICK k \in DOMAIN uniques, id \in BagIds :
            uniques' = [uniques EXCEPT ![k] = [i \in DOMAIN @ \ {id} |-> @[i]]]
      BY <2>4 DEF G!remove_set
    <3> DEFINE u == uniques[k]
               D == DOMAIN u \ {id}
               r == [i \in D |-> u[i]]
    <3>2. u \in Votes
      BY <2>0
    <3>3. uniques' = [uniques EXCEPT ![k] = r]
      BY <3>1
    <3>4. r \in Votes
      <4>1. D \subseteq DOMAIN u /\ DOMAIN r = D /\ r = [i \in D |-> r[i]] /\ \A i \in D : r[i] \subseteq u[i]
        OBVIOUS
      <4> HIDE DEF r, u, D
      <4> QED
        BY <3>2, <4>1, FewerVotes
    <3> QED
      BY <3>3, <3>4
  <2>5. CASE G!clear
    <3>1. PICK k \in DOMAIN uniques : uniques' = [uniques EXCEPT ![k] = <<>>]
      BY <2>5 DEF G!clear
    <3> DEFINE none == <<>>
    <3>2. none \in [{} -> SUBSET Voters]
      OBVIOUS
    <3> HIDE DEF none
    <3>3. none \in Votes
      BY <3>2 DEF Votes
    <3> QED
      BY <3>1, <3>3 DEF none
  <2> QED
    BY <2>1, <2>2, <2>3, <2>4, <2>5
<1>3. PICK k \in DOMAIN uniques, r \in Votes : uniques' = [uniques EXCEPT ![k] = r]
  BY <1>2
<1>4. uniques' \in [DOMAIN uniques' -> Votes]
  BY <1>3 DEF BagInv
<1> QED
  BY <1>1, <1>4, IdleKeeps DEF BagInv

\* What a bag counts is counted from all of its ids.
LEMMA CountsOfAll ==
  ASSUME NEW c, NEW S, \A i \in S : c[i] # 0
  PROVE  CountsOf(c, S) = [id \in S |-> c[id]]
<1>1. {i \in S : c[i] # 0} = S
  OBVIOUS
<1> QED
  BY <1>1 DEF CountsOf

LEMMA MapOfBag ==
  ASSUME BagInv, NEW i \in DOMAIN bags
  PROVE  /\ DOMAIN bags[i].counts \in SUBSET BagIds
         /\ \A id \in DOMAIN bags[i].counts : bags[i].counts[id] \in Nat /\ bags[i].counts[id] # 0
<1>1. bags[i].counts \in CountMaps
  BY DEF BagInv, GoodBags, BagType
<1> QED
  BY <1>1, CountsAre

LEMMA FilterMakes ==
  ASSUME BagInv, G!filter
  PROVE  BagInv'
<1>1. PICK i \in DOMAIN bags, start \in 0..G!NUM_BITS, stop \in 0..(G!NUM_BITS + 1), id \in BagIds :
         LET c == bags[i].counts
             S == {v \in DOMAIN c : G!equal_subset(start, stop, id, v)} IN
         \E b \in G!Counted(0, S, c) :
           made' = [by |-> "filter", of |-> c, start |-> start, stop |-> stop,
                    id |-> id, bags |-> <<b>>]
  BY DEF G!filter
<1> DEFINE c == bags[i].counts
           S == {v \in DOMAIN c : G!equal_subset(start, stop, id, v)}
           R == {v \in DOMAIN c : \A k \in start..(stop - 1) : k < G!NUM_BITS /\ v[k] = id[k]}
<1>2. PICK b \in G!Counted(0, S, c) :
        made' = [by |-> "filter", of |-> c, start |-> start, stop |-> stop,
                 id |-> id, bags |-> <<b>>]
  BY <1>1
<1>3. bags' = bags /\ uniques' = uniques
  BY DEF G!filter
<1>4. DOMAIN c \in SUBSET BagIds /\ \A v \in DOMAIN c : c[v] \in Nat /\ c[v] # 0
  BY MapOfBag
<1>5. S = R
  <2>1. start \in Nat /\ stop \in Nat
    BY BitsAre
  <2>2. ASSUME NEW v PROVE G!equal_subset(start, stop, id, v) <=>
                             \A k \in start..(stop - 1) : k < G!NUM_BITS /\ v[k] = id[k]
    BY <2>1, SubsetIsRange
  <2> QED
    BY <2>2
<1> HIDE DEF c
<1>6. GoodBag(b) /\ b.counts = CountsOf(c, S)
  <2>1. S \in SUBSET BagIds /\ (\A v \in S : c[v] \in Nat) /\ 0 \in Nat
    BY <1>4
  <2> HIDE DEF S
  <2> QED
    BY <2>1, CountedIs
<1>7. b.counts = [v \in R |-> c[v]]
  <2>1. \A v \in S : c[v] # 0
    BY <1>4
  <2> HIDE DEF S, R
  <2> QED
    BY <1>5, <1>6, <2>1, CountsOfAll
<1>8. made'.by = "filter" /\ made'.of = c /\ made'.bags = <<b>> /\ made'.start = start
      /\ made'.stop = stop /\ made'.id = id
  BY <1>2
<1>9. \A k \in DOMAIN made'.bags : GoodBag(made'.bags[k])
  BY <1>6, <1>8
<1>10. AsAsked(made')
  <2>1. b.counts = [v \in {v \in DOMAIN made'.of : \A k \in made'.start..(made'.stop - 1) :
                              k < G!NUM_BITS /\ v[k] = made'.id[k]} |-> made'.of[v]]
    BY <1>7, <1>8
  <2>2. made'.bags[1] = b
    BY <1>8
  <2> QED
    BY <1>8, <2>1, <2>2 DEF AsAsked
<1> QED
  BY <1>3, <1>9, <1>10 DEF BagInv

LEMMA SplitMakes ==
  ASSUME BagInv, G!split
  PROVE  BagInv'
<1>1. PICK i \in DOMAIN bags, index \in 0..(G!NUM_BITS - 1) :
         LET c == bags[i].counts
             With(bit) == G!Counted(0, {v \in DOMAIN c : v[index] = bit}, c)
         IN  \E b0 \in With(0), b1 \in With(1) :
               made' = [by |-> "split", of |-> c, index |-> index, bags |-> <<b0, b1>>]
  BY DEF G!split
<1> DEFINE c == bags[i].counts
           Side(bit) == {v \in DOMAIN c : v[index] = bit}
<1>2. PICK b0 \in G!Counted(0, Side(0), c), b1 \in G!Counted(0, Side(1), c) :
        made' = [by |-> "split", of |-> c, index |-> index, bags |-> <<b0, b1>>]
  BY <1>1
<1>3. bags' = bags /\ uniques' = uniques
  BY DEF G!split
<1>4. DOMAIN c \in SUBSET BagIds /\ \A v \in DOMAIN c : c[v] \in Nat /\ c[v] # 0
  BY MapOfBag
<1> HIDE DEF c
<1>5. ASSUME NEW bit, NEW b \in G!Counted(0, Side(bit), c)
      PROVE  GoodBag(b) /\ b.counts = [v \in Side(bit) |-> c[v]]
  <2> DEFINE S == Side(bit)
  <2>1. S \in SUBSET BagIds /\ (\A v \in S : c[v] \in Nat /\ c[v] # 0) /\ 0 \in Nat
    BY <1>4
  <2>2. b \in G!Counted(0, S, c)
    BY <1>5
  <2> HIDE DEF S
  <2>3. GoodBag(b) /\ b.counts = CountsOf(c, S)
    BY <2>1, <2>2, CountedIs
  <2>4. b.counts = [v \in S |-> c[v]]
    BY <2>1, <2>3, CountsOfAll
  <2> QED
    BY <2>3, <2>4 DEF S
<1>6. /\ GoodBag(b0) /\ b0.counts = [v \in Side(0) |-> c[v]]
      /\ GoodBag(b1) /\ b1.counts = [v \in Side(1) |-> c[v]]
  BY <1>5
<1>7. made'.by = "split" /\ made'.of = c /\ made'.bags = <<b0, b1>> /\ made'.index = index
  BY <1>2
<1>8. made'.bags[1] = b0 /\ made'.bags[2] = b1 /\ DOMAIN made'.bags = {1, 2}
  BY <1>7
<1>9. \A k \in DOMAIN made'.bags : GoodBag(made'.bags[k])
  BY <1>6, <1>8
<1>10. AsAsked(made')
  <2>1. ASSUME NEW bit \in {0, 1}
        PROVE  made'.bags[bit + 1].counts = [v \in {v \in DOMAIN made'.of : v[made'.index] = bit} |-> made'.of[v]]
    <3>1. CASE bit = 0
      BY <1>6, <1>7, <1>8, <3>1
    <3>2. CASE bit = 1
      BY <1>6, <1>7, <1>8, <3>2
    <3> QED
      BY <3>1, <3>2
  <2> QED
    BY <1>7, <2>1 DEF AsAsked
<1> QED
  BY <1>3, <1>9, <1>10 DEF BagInv

LEMMA UniqueMakes ==
  ASSUME BagInv, G!unique_bag
  PROVE  BagInv'
<1>1. PICK k \in DOMAIN uniques, alpha \in Thresholds :
         LET u == uniques[k]
             voters == [id \in DOMAIN u |-> G!Cardinality(u[id])]
         IN  \E b \in G!Counted(alpha, DOMAIN u, voters) :
               made' = [by |-> "unique", of |-> u, alpha |-> alpha, bags |-> <<b>>]
  BY DEF G!unique_bag
<1> DEFINE u == uniques[k]
           S == DOMAIN u
           voters == [id \in S |-> G!Cardinality(u[id])]
<1>2. PICK b \in G!Counted(alpha, S, voters) :
        made' = [by |-> "unique", of |-> u, alpha |-> alpha, bags |-> <<b>>]
  BY <1>1
<1>3. bags' = bags /\ uniques' = uniques
  BY DEF G!unique_bag
<1>4. S \in SUBSET BagIds /\ \A id \in S : u[id] \in SUBSET Voters
  <2>1. u \in Votes
    BY DEF BagInv
  <2> QED
    BY <2>1, VotesAre
<1> HIDE DEF u
<1>5. \A id \in S : voters[id] = Cardinality(u[id]) /\ voters[id] \in Nat /\ (voters[id] = 0 <=> u[id] = {})
  <2>1. ASSUME NEW id \in S
        PROVE  voters[id] = Cardinality(u[id]) /\ voters[id] \in Nat /\ (voters[id] = 0 <=> u[id] = {})
    <3>1. IsFiniteSet(u[id])
      BY <1>4, BitsAre, FS_Subset
    <3>2. voters[id] = Cardinality(u[id])
      BY CardinalityIs
    <3> HIDE DEF voters
    <3> QED
      BY <3>1, <3>2, FS_CardinalityType, FS_EmptySet
  <2> QED
    BY <2>1
<1> HIDE DEF voters, S
<1>6. GoodBag(b) /\ b.counts = CountsOf(voters, S)
  <2>1. alpha \in Nat /\ \A id \in S : voters[id] \in Nat
    BY <1>5, BitsAre
  <2> QED
    BY <1>4, <2>1, CountedIs
<1>7. b.counts = [id \in {i \in S : u[i] # {}} |-> Cardinality(u[id])]
  <2>1. {i \in S : voters[i] # 0} = {i \in S : u[i] # {}}
    BY <1>5
  <2>2. \A id \in {i \in S : u[i] # {}} : voters[id] = Cardinality(u[id])
    BY <1>5
  <2> QED
    BY <1>6, <2>1, <2>2 DEF CountsOf
<1>8. made'.by = "unique" /\ made'.of = u /\ made'.bags = <<b>>
  BY <1>2
<1>9. \A j \in DOMAIN made'.bags : GoodBag(made'.bags[j])
  BY <1>6, <1>8
<1>10. AsAsked(made')
  <2>1. made'.bags[1] = b
    BY <1>8
  <2>2. b.counts = [id \in {i \in DOMAIN made'.of : made'.of[i] # {}} |-> Cardinality(made'.of[id])]
    BY <1>7, <1>8 DEF S
  <2> QED
    BY <1>8, <2>1, <2>2 DEF AsAsked
<1> QED
  BY <1>3, <1>9, <1>10 DEF BagInv

LEMMA BagKeeps ==
  BagInv /\ [G!Next]_bagVars => BagInv'
<1> SUFFICES ASSUME BagInv, [G!Next]_bagVars PROVE BagInv'
  OBVIOUS
<1>1. CASE UNCHANGED bagVars
  <2>1. bags' = bags /\ made' = made /\ uniques' = uniques
    BY <1>1 DEF bagVars
  <2> QED
    BY <2>1 DEF BagInv
<1>2. CASE G!Drop
  <2>1. bags' = bags /\ uniques' = uniques /\ made' = [by |-> "none", bags |-> <<>>]
    BY <1>2 DEF G!Drop
  <2>2. AsAsked(made') /\ \A i \in DOMAIN made'.bags : GoodBag(made'.bags[i])
    BY <2>1 DEF AsAsked
  <2> QED
    BY <2>1, <2>2 DEF BagInv
<1>3. CASE G!Add \/ G!SetThreshold
  BY <1>3, BagChanges
<1>4. CASE G!Vote \/ G!difference_set \/ G!difference \/ G!remove_set \/ G!clear
  BY <1>4, UniqueChanges
<1>5. CASE G!filter \/ G!split \/ G!unique_bag
  BY <1>5, FilterMakes, SplitMakes, UniqueMakes
<1>6. G!Next \/ UNCHANGED bagVars
  OBVIOUS
<1> QED
  BY <1>1, <1>2, <1>3, <1>4, <1>5, <1>6, Zenon DEF G!Next

\* BagIsItsCounts, of ids/bag.rs and ids/bits.rs: whatever is counted, and
\* whenever the threshold is changed, the size, mode and met ids of a bag are
\* those of its counts; filter keeps the ids whose bits in the range are those
\* asked for, split sends each id to one side, and a unique bag's counts are its
\* voters, for ids of any length and in whatever order the maps are gone through.
THEOREM BagsAgreeWithTheirCounts == MCSpec => []BagIsItsCounts
<1> DEFINE Inv == system = "bag" => BagInv
<1>1. MCInit => Inv
  BY BagsStart DEF MCInit
<1>2. Inv /\ [MCNext]_allVars => Inv'
  <2> SUFFICES ASSUME Inv, [MCNext]_allVars, system' = "bag" PROVE BagInv'
    OBVIOUS
  <2>1. system = "bag" /\ [G!Next]_bagVars
    BY DEF MCNext, allVars
  <2>2. BagInv
    BY <2>1
  <2> HIDE DEF Inv
  <2> QED
    BY <2>1, <2>2, BagKeeps
<1>3. Inv => BagIsItsCounts
  BY BagInvIsEnough DEF BagIsItsCounts
<1> QED
  BY <1>1, <1>2, <1>3, PTL DEF MCSpec

-----------------------------------------------------------------------------
(* Texts: checksums.                                                       *)

LEMMA SumIsPath ==
  ASSUME NEW n \in Nat, NEW s \in [1..n -> Nat]
  PROVE  \E f : /\ f[0] = 10 /\ f[n] = X!SumOf(s)
                /\ \A k \in 0..n : f[k] \in Nat
                /\ \A k \in 1..n : f[k] = 10 * f[k - 1] + s[k]
<1> DEFINE F == [p \in Nat \X (1..n) |-> 10 * p[1] + s[p[2]]]
           Is(h) == h = [t \in SUBSET (1..n) |->
                           IF t = {} THEN 10 ELSE 10 * h[t \ {GreatestOf(t)}] + s[GreatestOf(t)]]
           h == CHOOSE h : Is(h)
           f == [k \in 0..n |-> h[1..k]]
<1>1. F \in [Nat \X (1..n) -> Nat]
  OBVIOUS
<1>2. PICK g : Folds(g, F, Nat, 10, n)
  BY <1>1, FoldExists
<1>3. Is(g)
  <2>1. ASSUME NEW t \in SUBSET (1..n), t # {}
        PROVE  F[<<g[t \ {GreatestOf(t)}], GreatestOf(t)>>] = 10 * g[t \ {GreatestOf(t)}] + s[GreatestOf(t)]
    <3>1. GreatestOf(t) \in 1..n /\ g[t \ {GreatestOf(t)}] \in Nat
      BY <1>2, <2>1, GreatestIn DEF Folds
    <3> QED
      BY <3>1
  <2> HIDE DEF F
  <2> QED
    BY <1>2, <2>1 DEF Folds
<1>4. Is(h)
  <2> HIDE DEF Is
  <2> QED
    BY <1>3
<1>5. X!SumOf(s) = h[1..n]
  <2>1. DOMAIN s = 1..n
    OBVIOUS
  <2> QED
    BY <2>1 DEF X!SumOf, X!FoldLeft, X!MapThenFoldSet, X!Max, GreatestOf
<1> HIDE DEF h
<1>6. f[0] = 10
  BY <1>4, Ups
<1>7. ASSUME NEW k \in 1..n PROVE f[k] = 10 * f[k - 1] + s[k]
  <2> DEFINE Ks == 1..k
  <2>1. Ks \in SUBSET (1..n) /\ Ks # {} /\ GreatestOf(Ks) = k /\ Ks \ {k} = 1..(k - 1)
    BY Ups
  <2>2. k \in 0..n /\ k - 1 \in 0..n
    OBVIOUS
  <2>3. f[k] = h[Ks] /\ f[k - 1] = h[1..(k - 1)]
    BY <2>2
  <2> HIDE DEF Ks, f
  <2>4. h[Ks] = 10 * h[Ks \ {GreatestOf(Ks)}] + s[GreatestOf(Ks)]
    BY <1>4, <2>1, Zenon
  <2> QED
    BY <2>1, <2>3, <2>4
<1>8. f[n] = X!SumOf(s)
  BY <1>5
<1> HIDE DEF f
<1>9. \A k \in 0..n : f[k] \in Nat
  <2>1. \A k \in 1..n : f[k - 1] \in Nat => f[k] = F[<<f[k - 1], k>>]
    BY <1>7
  <2>2. 10 \in Nat
    OBVIOUS
  <2> HIDE DEF F
  <2> QED
    BY <1>1, <1>6, <2>1, <2>2, PathTyped
<1> QED
  BY <1>6, <1>7, <1>8, <1>9

LEMMA TenTimes ==
  \A a, b, c, d \in Nat :
    a >= 10 /\ a <= b /\ c <= d =>
      /\ 10 * a + c >= 10 /\ 10 * a + c <= 10 * b + d
      /\ a < b \/ c < d => 10 * a + c < 10 * b + d
OBVIOUS

\* A greater byte makes a greater sum, and none is one byte.
LEMMA SumGrowsWith ==
  ASSUME NEW n \in Nat, NEW x \in [1..n -> Nat], NEW y \in [1..n -> Nat],
         \A j \in 1..n : x[j] <= y[j]
  PROVE  /\ X!SumOf(x) \in Nat /\ X!SumOf(y) \in Nat /\ X!SumOf(x) >= 10
         /\ (\E j \in 1..n : x[j] < y[j]) => X!SumOf(x) < X!SumOf(y)
<1>1. PICK f : /\ f[0] = 10 /\ f[n] = X!SumOf(x)
               /\ \A k \in 0..n : f[k] \in Nat
               /\ \A k \in 1..n : f[k] = 10 * f[k - 1] + x[k]
  BY SumIsPath
<1>2. PICK g : /\ g[0] = 10 /\ g[n] = X!SumOf(y)
               /\ \A k \in 0..n : g[k] \in Nat
               /\ \A k \in 1..n : g[k] = 10 * g[k - 1] + y[k]
  BY SumIsPath
<1> DEFINE Right(k) == /\ f[k] >= 10 /\ f[k] <= g[k]
                       /\ (\E j \in 1..k : x[j] < y[j]) => f[k] < g[k]
           Bad == {k \in Nat : k <= n /\ ~Right(k)}
<1>3. Right(0)
  BY <1>1, <1>2
<1>4. ASSUME NEW k \in 1..n, Right(k - 1) PROVE Right(k)
  <2>1. /\ f[k - 1] \in Nat /\ g[k - 1] \in Nat /\ x[k] \in Nat /\ y[k] \in Nat
        /\ f[k] = 10 * f[k - 1] + x[k] /\ g[k] = 10 * g[k - 1] + y[k]
    <3>1. k - 1 \in 0..n
      OBVIOUS
    <3> QED
      BY <1>1, <1>2, <3>1
  <2>2. f[k - 1] >= 10 /\ f[k - 1] <= g[k - 1] /\ x[k] <= y[k]
    BY <1>4
  <2>3. f[k] >= 10 /\ f[k] <= g[k]
    <3>1. 10 * f[k - 1] + x[k] >= 10 /\ 10 * f[k - 1] + x[k] <= 10 * g[k - 1] + y[k]
      BY <2>1, <2>2, TenTimes
    <3> QED
      BY <2>1, <3>1
  <2>4. ASSUME NEW j \in 1..k, x[j] < y[j] PROVE f[k] < g[k]
    <3>1. CASE j = k
      BY <2>1, <2>2, <2>4, <3>1, TenTimes
    <3>2. CASE j # k
      <4>1. j \in 1..(k - 1)
        BY <3>2
      <4>2. f[k - 1] < g[k - 1]
        BY <1>4, <2>4, <4>1
      <4> QED
        BY <2>1, <2>2, <4>2, TenTimes
    <3> QED
      BY <3>1, <3>2
  <2> QED
    BY <2>3, <2>4
<1> HIDE DEF Right
<1>5. Bad = {}
  <2> SUFFICES ASSUME Bad # {} PROVE FALSE
    OBVIOUS
  <2>1. Bad \subseteq Nat
    OBVIOUS
  <2>2. PICK k \in Bad : \A j \in Bad : ~(<<j, k>> \in OpToRel(<, Nat))
    <3> HIDE DEF Bad
    <3> QED
      BY <2>1, WFMin, NatLessThanWellFounded, Zenon
  <2>3. k \in Nat /\ k <= n /\ ~Right(k)
    OBVIOUS
  <2>4. k # 0
    BY <1>3, <2>3
  <2>5. k - 1 \in Nat /\ k - 1 <= n /\ k \in 1..n /\ <<k - 1, k>> \in OpToRel(<, Nat)
    BY <2>3, <2>4 DEF OpToRel
  <2> HIDE DEF Bad
  <2>6. k - 1 \notin Bad
    BY <2>2, <2>5
  <2>7. Right(k - 1)
    BY <2>5, <2>6 DEF Bad
  <2> QED
    BY <1>4, <2>3, <2>5, <2>7
<1>6. Right(n)
  BY <1>5
<1>7. n \in 0..n
  OBVIOUS
<1> QED
  BY <1>1, <1>2, <1>6, <1>7 DEF Right

-----------------------------------------------------------------------------
(* Texts: who reads what.                                                  *)

LEMMA WriterTable ==
  /\ X!Writers["Id"] = X!Id_to_string
  /\ X!Writers["node_Id"] = X!node_to_string
  /\ X!Writers["short_Id"] = X!short_to_string
  /\ X!Writers["x_address"] = X!address("X-")
  /\ X!Writers["p_address"] = X!address("P-")
  /\ X!Writers["to_cb58"] = X!to_cb58
  /\ X!Writers["to_hex"] = X!to_hex
  /\ X!Writers["cb58"] = X!Written("", "cb58", {0, 1, X!ID_LEN + 1})
  /\ X!Writers["Hex0xUtxo"] = X!Hex0xUtxo.written
  /\ X!Writers["Hex0xBytes"] = X!Hex0xBytes.written
  /\ X!Writers["Hex0xH160"] = X!Hex0xH160.written
  /\ X!Writers["Hex0xH256"] = X!Hex0xH256.written
  /\ X!Writers["Hex0xU64"] = X!Hex0xU64.written
  /\ X!Writers["Hex0xU256"] = X!Hex0xU256.written
  /\ X!Writers["Hex0xBigInt"] = X!Hex0xBigInt.written
  /\ X!Writers["Base64Bytes"] = X!Base64Bytes.written
  /\ X!Writers["DateTimeUtc"] = X!DateTimeUtc.written
  /\ X!Writers["IpPort"] = X!IpPort.written
BY DEF X!Writers

LEMMA ReaderTable ==
  ASSUME NEW t
  PROVE
    /\ X!Readers(t)["Id_from_str"] = X!Id_from_str
    /\ X!Readers(t)["node_from_str"] = X!node_from_str
    /\ X!Readers(t)["short_from_str"] = X!short_from_str
    /\ X!Readers(t)["short_deserialize"] = X!short_deserialize(t)
    /\ X!Readers(t)["any_address"] = X!avax_address_to_short_bytes("")
    /\ X!Readers(t)["x_address"] = X!avax_address_to_short_bytes("X-")
    /\ X!Readers(t)["from_cb58"] = X!from_cb58
    /\ X!Readers(t)["from_hex"] = X!from_hex
    /\ X!Readers(t)["Hex0xUtxo"] = X!Hex0xUtxo.read
    /\ X!Readers(t)["Hex0xBytes"] = X!Hex0xBytes.read
    /\ X!Readers(t)["Hex0xH160"] = X!Hex0xH160.read
    /\ X!Readers(t)["Hex0xH256"] = X!Hex0xH256.read
    /\ X!Readers(t)["Hex0xU64"] = X!Hex0xU64.read
    /\ X!Readers(t)["Hex0xU256"] = X!Hex0xU256.read
    /\ X!Readers(t)["Hex0xBigInt"] = X!Hex0xBigInt.read
    /\ X!Readers(t)["Base64Bytes"] = X!Base64Bytes.read
    /\ X!Readers(t)["DateTimeUtc"] = X!DateTimeUtc.read
    /\ X!Readers(t)["IpPort"] = X!IpPort.read
BY DEF X!Readers

LEMMA OwnTable ==
  /\ X!Own("Id") = {"Id_from_str"}
  /\ X!Own("node_Id") = {"node_from_str"}
  /\ X!Own("short_Id") = {"short_from_str", "short_deserialize"}
  /\ X!Own("x_address") = {"x_address", "short_deserialize"}
  /\ X!Own("p_address") = {"short_deserialize"}
  /\ X!Own("to_cb58") = {"from_cb58"}
  /\ X!Own("to_hex") = {"from_hex", "Hex0xBytes", "Hex0xH256"}
  /\ X!Own("cb58") = {}
  /\ X!Own("Hex0xUtxo") = {"Hex0xUtxo"}
  /\ X!Own("Hex0xBytes") = {"Hex0xBytes"}
  /\ X!Own("Hex0xH160") = {"Hex0xH160"}
  /\ X!Own("Hex0xH256") = {"Hex0xH256"}
  /\ X!Own("Hex0xU64") = {"Hex0xU64"}
  /\ X!Own("Hex0xU256") = {"Hex0xU256"}
  /\ X!Own("Hex0xBigInt") = {"Hex0xBigInt"}
  /\ X!Own("Base64Bytes") = {"Base64Bytes"}
  /\ X!Own("DateTimeUtc") = {"DateTimeUtc"}
  /\ X!Own("IpPort") = {"IpPort"}
BY DEF X!Own

WriterNames ==
  {"Id", "node_Id", "short_Id", "x_address", "p_address", "to_cb58", "to_hex",
   "cb58", "Hex0xUtxo", "Hex0xBytes", "Hex0xH160", "Hex0xH256", "Hex0xU64",
   "Hex0xU256", "Hex0xBigInt", "Base64Bytes", "DateTimeUtc", "IpPort"}

ReaderNames ==
  {"Id_from_str", "node_from_str", "short_from_str", "short_deserialize",
   "any_address", "x_address", "from_cb58", "from_hex", "Hex0xUtxo", "Hex0xBytes",
   "Hex0xH160", "Hex0xH256", "Hex0xU64", "Hex0xU256", "Hex0xBigInt", "Base64Bytes",
   "DateTimeUtc", "IpPort"}

LEMMA NamesAre ==
  /\ DOMAIN X!Writers = WriterNames
  /\ \A t : DOMAIN X!Readers(t) = ReaderNames
BY DEF X!Writers, WriterNames, X!Readers, ReaderNames

\* A reader has room for what a writer writes, and takes its code and prefix.
HasRoom(w, r, who) ==
  IF who = "DateTimeUtc" THEN 2 \in r.fits ELSE w.lens \subseteq r.fits

Takes(w, r, t, who) ==
  /\ HasRoom(w, r, who)
  /\ t.prefix = w.prefix => t.prefix \in r.prefixes /\ w.code = r.code

LEMMA LensFit ==
  /\ {3} \subseteq 0..3 /\ {2} \subseteq 0..2 /\ {2} \subseteq 0..3 /\ 1..3 \subseteq 0..3
OBVIOUS

LEMMA OwnFits ==
  ASSUME NEW who \in WriterNames, NEW t, NEW name \in X!Own(who)
  PROVE  name \in ReaderNames /\ Takes(X!Writers[who], X!Readers(t)[name], t, who)
<1>1. CASE who = "Id"
  <2> DEFINE w == X!Id_to_string
  <2>1. Takes(w, X!Id_from_str, t, "Id")
    BY LensFit DEF HasRoom, Takes, X!ADDR_LEN, X!ID_LEN, X!Id_from_str, X!Id_to_string,
       X!Reader, X!Written
  <2> HIDE DEF w
  <2>2. X!Writers[who] = w /\ name \in {"Id_from_str"}
    BY <1>1, WriterTable, OwnTable DEF w
  <2> QED
    BY <1>1, <2>1, <2>2, ReaderTable DEF ReaderNames
<1>2. CASE who = "node_Id"
  <2> DEFINE w == X!node_to_string
  <2>1. Takes(w, X!node_from_str, t, "node_Id")
    BY LensFit DEF HasRoom, Takes, X!ADDR_LEN, X!ID_LEN, X!NODE_PREFIX, X!Reader, X!Written,
       X!node_from_str, X!node_to_string
  <2> HIDE DEF w
  <2>2. X!Writers[who] = w /\ name \in {"node_from_str"}
    BY <1>2, WriterTable, OwnTable DEF w
  <2> QED
    BY <1>2, <2>1, <2>2, ReaderTable DEF ReaderNames
<1>3. CASE who = "short_Id"
  <2> DEFINE w == X!short_to_string
  <2>1. Takes(w, X!short_from_str, t, "short_Id")
    BY LensFit DEF HasRoom, Takes, X!ADDR_LEN, X!ID_LEN, X!Reader, X!Written,
       X!short_deserialize, X!short_from_str, X!short_to_string
  <2>2. Takes(w, X!short_deserialize(t), t, "short_Id")
    BY LensFit DEF HasRoom, Takes, X!ADDR_LEN, X!ID_LEN, X!Reader, X!Written,
       X!short_deserialize, X!short_from_str, X!short_to_string
  <2> HIDE DEF w
  <2>3. X!Writers[who] = w /\ name \in {"short_from_str", "short_deserialize"}
    BY <1>3, WriterTable, OwnTable DEF w
  <2> QED
    BY <1>3, <2>1, <2>2, <2>3, ReaderTable DEF ReaderNames
<1>4. CASE who = "x_address"
  <2> DEFINE w == X!address("X-")
  <2>1. Takes(w, X!avax_address_to_short_bytes("X-"), t, "x_address")
    BY LensFit DEF HasRoom, Takes, X!ADDR_LEN, X!ID_LEN, X!Reader, X!Written, X!address,
       X!avax_address_to_short_bytes, X!short_deserialize, X!short_from_str
  <2>2. Takes(w, X!short_deserialize(t), t, "x_address")
    BY LensFit DEF HasRoom, Takes, X!ADDR_LEN, X!ID_LEN, X!Reader, X!Written, X!address,
       X!avax_address_to_short_bytes, X!short_deserialize, X!short_from_str
  <2> HIDE DEF w
  <2>3. X!Writers[who] = w /\ name \in {"x_address", "short_deserialize"}
    BY <1>4, WriterTable, OwnTable DEF w
  <2> QED
    BY <1>4, <2>1, <2>2, <2>3, ReaderTable DEF ReaderNames
<1>5. CASE who = "p_address"
  <2> DEFINE w == X!address("P-")
  <2>1. Takes(w, X!short_deserialize(t), t, "p_address")
    BY LensFit DEF HasRoom, Takes, X!ADDR_LEN, X!ID_LEN, X!Reader, X!Written, X!address,
       X!short_deserialize, X!short_from_str
  <2> HIDE DEF w
  <2>2. X!Writers[who] = w /\ name \in {"short_deserialize"}
    BY <1>5, WriterTable, OwnTable DEF w
  <2> QED
    BY <1>5, <2>1, <2>2, ReaderTable DEF ReaderNames
<1>6. CASE who = "to_cb58"
  <2> DEFINE w == X!to_cb58
  <2>1. Takes(w, X!from_cb58, t, "to_cb58")
    BY LensFit DEF HasRoom, Takes, X!ADDR_LEN, X!CB58_ENCODE_PREFIX, X!ID_LEN, X!Reader,
       X!Written, X!from_cb58, X!to_cb58
  <2> HIDE DEF w
  <2>2. X!Writers[who] = w /\ name \in {"from_cb58"}
    BY <1>6, WriterTable, OwnTable DEF w
  <2> QED
    BY <1>6, <2>1, <2>2, ReaderTable DEF ReaderNames
<1>7. CASE who = "to_hex"
  <2> DEFINE w == X!to_hex
  <2>1. Takes(w, X!from_hex, t, "to_hex")
    BY LensFit DEF HasRoom, Takes, X!ADDR_LEN, X!Field, X!HEX_ENCODE_PREFIX, X!Hex0xBytes,
       X!Hex0xH256, X!ID_LEN, X!Reader, X!Written, X!from_hex, X!to_hex
  <2>2. Takes(w, X!Hex0xBytes.read, t, "to_hex")
    BY LensFit DEF HasRoom, Takes, X!ADDR_LEN, X!Field, X!HEX_ENCODE_PREFIX, X!Hex0xBytes,
       X!Hex0xH256, X!ID_LEN, X!Reader, X!Written, X!from_hex, X!to_hex
  <2>3. Takes(w, X!Hex0xH256.read, t, "to_hex")
    BY LensFit DEF HasRoom, Takes, X!ADDR_LEN, X!Field, X!HEX_ENCODE_PREFIX, X!Hex0xBytes,
       X!Hex0xH256, X!ID_LEN, X!Reader, X!Written, X!from_hex, X!to_hex
  <2> HIDE DEF w
  <2>4. X!Writers[who] = w /\ name \in {"from_hex", "Hex0xBytes", "Hex0xH256"}
    BY <1>7, WriterTable, OwnTable DEF w
  <2> QED
    BY <1>7, <2>1, <2>2, <2>3, <2>4, ReaderTable DEF ReaderNames
<1>8. CASE who = "cb58"
  <2> DEFINE w == X!Written("", "cb58", {0, 1, X!ID_LEN + 1})
  <2> QED
    BY <1>8, OwnTable
<1>9. CASE who = "Hex0xUtxo"
  <2> DEFINE w == X!Hex0xUtxo.written
  <2>1. Takes(w, X!Hex0xUtxo.read, t, "Hex0xUtxo")
    BY LensFit DEF HasRoom, Takes, X!ADDR_LEN, X!Field, X!Hex0xUtxo, X!ID_LEN, X!Reader,
       X!U256_DIGITS, X!U64_DIGITS, X!Written
  <2> HIDE DEF w
  <2>2. X!Writers[who] = w /\ name \in {"Hex0xUtxo"}
    BY <1>9, WriterTable, OwnTable DEF w
  <2> QED
    BY <1>9, <2>1, <2>2, ReaderTable DEF ReaderNames
<1>10. CASE who = "Hex0xBytes"
  <2> DEFINE w == X!Hex0xBytes.written
  <2>1. Takes(w, X!Hex0xBytes.read, t, "Hex0xBytes")
    BY LensFit DEF HasRoom, Takes, X!ADDR_LEN, X!Field, X!Hex0xBytes, X!ID_LEN, X!Reader,
       X!U256_DIGITS, X!U64_DIGITS, X!Written
  <2> HIDE DEF w
  <2>2. X!Writers[who] = w /\ name \in {"Hex0xBytes"}
    BY <1>10, WriterTable, OwnTable DEF w
  <2> QED
    BY <1>10, <2>1, <2>2, ReaderTable DEF ReaderNames
<1>11. CASE who = "Hex0xH160"
  <2> DEFINE w == X!Hex0xH160.written
  <2>1. Takes(w, X!Hex0xH160.read, t, "Hex0xH160")
    BY LensFit DEF HasRoom, Takes, X!ADDR_LEN, X!Field, X!Hex0xH160, X!ID_LEN, X!Reader,
       X!U256_DIGITS, X!U64_DIGITS, X!Written
  <2> HIDE DEF w
  <2>2. X!Writers[who] = w /\ name \in {"Hex0xH160"}
    BY <1>11, WriterTable, OwnTable DEF w
  <2> QED
    BY <1>11, <2>1, <2>2, ReaderTable DEF ReaderNames
<1>12. CASE who = "Hex0xH256"
  <2> DEFINE w == X!Hex0xH256.written
  <2>1. Takes(w, X!Hex0xH256.read, t, "Hex0xH256")
    BY LensFit DEF HasRoom, Takes, X!ADDR_LEN, X!Field, X!Hex0xH256, X!ID_LEN, X!Reader,
       X!U256_DIGITS, X!U64_DIGITS, X!Written
  <2> HIDE DEF w
  <2>2. X!Writers[who] = w /\ name \in {"Hex0xH256"}
    BY <1>12, WriterTable, OwnTable DEF w
  <2> QED
    BY <1>12, <2>1, <2>2, ReaderTable DEF ReaderNames
<1>13. CASE who = "Hex0xU64"
  <2> DEFINE w == X!Hex0xU64.written
  <2>1. Takes(w, X!Hex0xU64.read, t, "Hex0xU64")
    BY LensFit DEF HasRoom, Takes, X!ADDR_LEN, X!Field, X!Hex0xU64, X!ID_LEN, X!Reader,
       X!U256_DIGITS, X!U64_DIGITS, X!Written
  <2> HIDE DEF w
  <2>2. X!Writers[who] = w /\ name \in {"Hex0xU64"}
    BY <1>13, WriterTable, OwnTable DEF w
  <2> QED
    BY <1>13, <2>1, <2>2, ReaderTable DEF ReaderNames
<1>14. CASE who = "Hex0xU256"
  <2> DEFINE w == X!Hex0xU256.written
  <2>1. Takes(w, X!Hex0xU256.read, t, "Hex0xU256")
    BY LensFit DEF HasRoom, Takes, X!ADDR_LEN, X!Field, X!Hex0xU256, X!ID_LEN, X!Reader,
       X!U256_DIGITS, X!U64_DIGITS, X!Written
  <2> HIDE DEF w
  <2>2. X!Writers[who] = w /\ name \in {"Hex0xU256"}
    BY <1>14, WriterTable, OwnTable DEF w
  <2> QED
    BY <1>14, <2>1, <2>2, ReaderTable DEF ReaderNames
<1>15. CASE who = "Hex0xBigInt"
  <2> DEFINE w == X!Hex0xBigInt.written
  <2>1. Takes(w, X!Hex0xBigInt.read, t, "Hex0xBigInt")
    BY LensFit DEF HasRoom, Takes, X!ADDR_LEN, X!Field, X!Hex0xBigInt, X!ID_LEN, X!Reader,
       X!U256_DIGITS, X!U64_DIGITS, X!Written
  <2> HIDE DEF w
  <2>2. X!Writers[who] = w /\ name \in {"Hex0xBigInt"}
    BY <1>15, WriterTable, OwnTable DEF w
  <2> QED
    BY <1>15, <2>1, <2>2, ReaderTable DEF ReaderNames
<1>16. CASE who = "Base64Bytes"
  <2> DEFINE w == X!Base64Bytes.written
  <2>1. Takes(w, X!Base64Bytes.read, t, "Base64Bytes")
    BY LensFit DEF HasRoom, Takes, X!ADDR_LEN, X!Base64Bytes, X!Field, X!ID_LEN, X!Reader,
       X!U256_DIGITS, X!U64_DIGITS, X!Written
  <2> HIDE DEF w
  <2>2. X!Writers[who] = w /\ name \in {"Base64Bytes"}
    BY <1>16, WriterTable, OwnTable DEF w
  <2> QED
    BY <1>16, <2>1, <2>2, ReaderTable DEF ReaderNames
<1>17. CASE who = "DateTimeUtc"
  <2> DEFINE w == X!DateTimeUtc.written
  <2>1. Takes(w, X!DateTimeUtc.read, t, "DateTimeUtc")
    BY LensFit DEF HasRoom, Takes, X!ADDR_LEN, X!DateTimeUtc, X!Field, X!ID_LEN, X!Reader,
       X!U256_DIGITS, X!U64_DIGITS, X!Written
  <2> HIDE DEF w
  <2>2. X!Writers[who] = w /\ name \in {"DateTimeUtc"}
    BY <1>17, WriterTable, OwnTable DEF w
  <2> QED
    BY <1>17, <2>1, <2>2, ReaderTable DEF ReaderNames
<1>18. CASE who = "IpPort"
  <2> DEFINE w == X!IpPort.written
  <2>1. Takes(w, X!IpPort.read, t, "IpPort")
    BY LensFit DEF HasRoom, Takes, X!ADDR_LEN, X!Field, X!ID_LEN, X!IpPort, X!Reader,
       X!U256_DIGITS, X!U64_DIGITS, X!Written
  <2> HIDE DEF w
  <2>2. X!Writers[who] = w /\ name \in {"IpPort"}
    BY <1>18, WriterTable, OwnTable DEF w
  <2> QED
    BY <1>18, <2>1, <2>2, ReaderTable DEF ReaderNames
<1> QED
  BY <1>1, <1>2, <1>3, <1>4, <1>5, <1>6, <1>7, <1>8, <1>9, <1>10, <1>11, <1>12, <1>13, <1>14,
     <1>15, <1>16, <1>17, <1>18 DEF WriterNames

\* What a reader fills up to, and when it ends the process.
Row(r, name) ==
  /\ r.pad \in {0, X!ADDR_LEN, X!ID_LEN}
  /\ name \in {"IpPort", "from_cb58", "from_hex"} => r.pad = 0
  /\ r.refuse \in {"panic", "error"}
  /\ r.refuse = "panic" => X!Checked(r.code)

LEMMA ReaderIs ==
  ASSUME NEW t, NEW name \in ReaderNames
  PROVE  Row(X!Readers(t)[name], name)
<1>1. Row(X!Id_from_str, "Id_from_str")
  BY DEF Row, X!ADDR_LEN, X!Checked, X!ID_LEN, X!Id_from_str, X!Reader
<1>2. Row(X!node_from_str, "node_from_str")
  BY DEF Row, X!ADDR_LEN, X!Checked, X!ID_LEN, X!Reader, X!node_from_str
<1>3. Row(X!short_from_str, "short_from_str")
  BY DEF Row, X!ADDR_LEN, X!Checked, X!ID_LEN, X!Reader, X!short_from_str
<1>4. Row(X!short_deserialize(t), "short_deserialize")
  BY DEF Row, X!ADDR_LEN, X!Checked, X!ID_LEN, X!Reader, X!short_deserialize, X!short_from_str
<1>5. Row(X!avax_address_to_short_bytes(""), "any_address")
  BY DEF Row, X!ADDR_LEN, X!Checked, X!ID_LEN, X!Reader, X!avax_address_to_short_bytes
<1>6. Row(X!avax_address_to_short_bytes("X-"), "x_address")
  BY DEF Row, X!ADDR_LEN, X!Checked, X!ID_LEN, X!Reader, X!avax_address_to_short_bytes
<1>7. Row(X!from_cb58, "from_cb58")
  BY DEF Row, X!ADDR_LEN, X!Checked, X!ID_LEN, X!Reader, X!from_cb58
<1>8. Row(X!from_hex, "from_hex")
  BY DEF Row, X!ADDR_LEN, X!Checked, X!ID_LEN, X!Reader, X!from_hex
<1>9. Row((X!Hex0xUtxo).read, "Hex0xUtxo")
  BY DEF Row, X!ADDR_LEN, X!Checked, X!Field, X!Hex0xUtxo, X!ID_LEN, X!Reader
<1>10. Row((X!Hex0xBytes).read, "Hex0xBytes")
  BY DEF Row, X!ADDR_LEN, X!Checked, X!Field, X!Hex0xBytes, X!ID_LEN, X!Reader
<1>11. Row((X!Hex0xH160).read, "Hex0xH160")
  BY DEF Row, X!ADDR_LEN, X!Checked, X!Field, X!Hex0xH160, X!ID_LEN, X!Reader
<1>12. Row((X!Hex0xH256).read, "Hex0xH256")
  BY DEF Row, X!ADDR_LEN, X!Checked, X!Field, X!Hex0xH256, X!ID_LEN, X!Reader
<1>13. Row((X!Hex0xU64).read, "Hex0xU64")
  BY DEF Row, X!ADDR_LEN, X!Checked, X!Field, X!Hex0xU64, X!ID_LEN, X!Reader
<1>14. Row((X!Hex0xU256).read, "Hex0xU256")
  BY DEF Row, X!ADDR_LEN, X!Checked, X!Field, X!Hex0xU256, X!ID_LEN, X!Reader
<1>15. Row((X!Hex0xBigInt).read, "Hex0xBigInt")
  BY DEF Row, X!ADDR_LEN, X!Checked, X!Field, X!Hex0xBigInt, X!ID_LEN, X!Reader
<1>16. Row((X!Base64Bytes).read, "Base64Bytes")
  BY DEF Row, X!ADDR_LEN, X!Base64Bytes, X!Checked, X!Field, X!ID_LEN, X!Reader
<1>17. Row((X!DateTimeUtc).read, "DateTimeUtc")
  BY DEF Row, X!ADDR_LEN, X!Checked, X!DateTimeUtc, X!Field, X!ID_LEN, X!Reader
<1>18. Row((X!IpPort).read, "IpPort")
  BY DEF Row, X!ADDR_LEN, X!Checked, X!Field, X!ID_LEN, X!IpPort, X!Reader
<1> QED
  BY <1>1, <1>2, <1>3, <1>4, <1>5, <1>6, <1>7, <1>8, <1>9, <1>10, <1>11, <1>12, <1>13, <1>14,
     <1>15, <1>16, <1>17, <1>18, ReaderTable DEF ReaderNames

\* b is a with other bytes in it, or without its end.
Worn(b, a) ==
  /\ b \in Seq(Nat) /\ Len(b) <= Len(a)
  /\ \A j \in 1..Len(b) : b[j] = a[j] \/ b[j] = 9
  /\ Len(b) < Len(a) \/ \E j \in 1..Len(b) : b[j] = 9

LEMMA EncodeIs ==
  ASSUME NEW code, NEW w \in Seq(Nat)
  PROVE  /\ X!Encode(code, w) \in Seq(Nat)
         /\ X!Decode(code, X!Encode(code, w)) = [is |-> "value", bytes |-> w]
<1> DEFINE n == Len(w)
           sum == X!SumOf(w)
           a == Append(w, sum)
<1>1. CASE ~X!Checked(code)
  BY <1>1 DEF X!Encode, X!Decode
<1>2. CASE X!Checked(code)
  <2>1. n \in Nat /\ w \in [1..n -> Nat]
    OBVIOUS
  <2>2. sum \in Nat
    <3> HIDE DEF n
    <3>1. \A j \in 1..n : w[j] <= w[j]
      BY <2>1
    <3> QED
      BY <2>1, <3>1, SumGrowsWith
  <2> HIDE DEF sum
  <2>3. a \in Seq(Nat) /\ Len(a) = n + 1 /\ a[n + 1] = sum /\ a # <<>>
    BY <2>2
  <2>4. SubSeq(a, 1, Len(a) - 1) = w
    BY <2>2
  <2> HIDE DEF a, n
  <2>5. X!Front(a) = w /\ X!Last(a) = sum
    BY <2>3, <2>4 DEF X!Front, X!Last
  <2>6. X!Encode(code, w) = a
    BY <1>2 DEF X!Encode, a, sum
  <2>7. X!Decode(code, a) = [is |-> "value", bytes |-> w]
    BY <1>2, <2>3, <2>5 DEF X!Decode, sum
  <2> QED
    BY <2>3, <2>6, <2>7
<1> QED
  BY <1>1, <1>2

LEMMA FrontIs ==
  ASSUME NEW b \in Seq(Nat), b # <<>>
  PROVE  /\ Len(b) - 1 \in Nat
         /\ X!Front(b) \in [1..(Len(b) - 1) -> Nat]
         /\ \A j \in 1..(Len(b) - 1) : X!Front(b)[j] = b[j]
         /\ X!Last(b) = b[Len(b)]
<1> DEFINE n == Len(b) - 1
           y == SubSeq(b, 1, n)
<1>1. Len(b) \in Nat /\ Len(b) # 0 /\ n \in Nat /\ n <= Len(b)
  OBVIOUS
<1>2. Len(y) = n /\ \A j \in 1..n : y[j] = b[j]
  BY <1>1
<1>3. y \in Seq(Nat)
  BY <1>1
<1>4. X!Front(b) = y
  BY DEF X!Front
<1> HIDE DEF y
<1>5. y \in [1..n -> Nat]
  <2> HIDE DEF n
  <2> QED
    BY <1>2, <1>3
<1> QED
  BY <1>1, <1>2, <1>4, <1>5 DEF X!Last

LEMMA ShortIsBad ==
  ASSUME NEW b \in Seq(Nat), b # <<>>, b[Len(b)] <= 9
  PROVE  X!SumOf(X!Front(b)) # X!Last(b)
<1> DEFINE n == Len(b) - 1
           y == X!Front(b)
<1>1. n \in Nat /\ y \in [1..n -> Nat] /\ X!Last(b) = b[Len(b)]
  BY FrontIs
<1>2. b[Len(b)] \in Nat
  OBVIOUS
<1> HIDE DEF n, y
<1>3. \A j \in 1..n : y[j] <= y[j]
  BY <1>1
<1>4. X!SumOf(y) \in Nat /\ X!SumOf(y) >= 10
  BY <1>1, <1>3, SumGrowsWith
<1> QED
  BY <1>1, <1>2, <1>4 DEF y

\* No value comes of a text that has a checksum and was damaged.
LEMMA DamagedIsBad ==
  ASSUME NEW code, X!Checked(code), NEW w \in Seq(0..8), NEW b, Worn(b, X!Encode(code, w))
  PROVE  X!Decode(code, b).is # "value"
<1> DEFINE n == Len(w)
           sum == X!SumOf(w)
           a == Append(w, sum)
<1>1. n \in Nat /\ w \in [1..n -> Nat] /\ \A j \in 1..n : w[j] <= 8
  OBVIOUS
<1>2. sum \in Nat /\ sum >= 10
  <2> HIDE DEF n
  <2>1. \A j \in 1..n : w[j] <= w[j]
    BY <1>1
  <2> QED
    BY <1>1, <2>1, SumGrowsWith
<1>3. X!Encode(code, w) = a
  BY DEF X!Encode
<1> HIDE DEF sum
<1>4. Len(a) = n + 1 /\ a[n + 1] = sum /\ \A j \in 1..n : a[j] = w[j]
  BY <1>2
<1> HIDE DEF a, n
<1>5. /\ b \in Seq(Nat) /\ Len(b) <= n + 1
      /\ \A j \in 1..Len(b) : b[j] = a[j] \/ b[j] = 9
      /\ Len(b) < n + 1 \/ \E j \in 1..Len(b) : b[j] = 9
  BY <1>3, <1>4 DEF Worn
<1>6. CASE b = <<>>
  BY <1>6 DEF X!Decode
<1>7. CASE b # <<>> /\ b[Len(b)] <= 9
  <2>1. X!SumOf(X!Front(b)) # X!Last(b)
    BY <1>5, <1>7, ShortIsBad
  <2> QED
    BY <1>7, <2>1 DEF X!Decode
<1>8. CASE b # <<>> /\ ~(b[Len(b)] <= 9)
  <2>1. Len(b) \in Nat /\ Len(b) >= 1 /\ Len(b) \in 1..Len(b) /\ b[Len(b)] \in Nat
    BY <1>5, <1>8
  <2>2. b[Len(b)] = a[Len(b)]
    BY <1>5, <1>8, <2>1
  <2>3. Len(b) = n + 1
    <3>1. SUFFICES ASSUME Len(b) # n + 1 PROVE FALSE
      OBVIOUS
    <3>2. Len(b) \in 1..n
      BY <1>1, <1>5, <2>1, <3>1
    <3>3. a[Len(b)] = w[Len(b)] /\ w[Len(b)] <= 8 /\ w[Len(b)] \in Nat
      BY <1>1, <1>4, <3>2
    <3> QED
      BY <1>8, <2>2, <3>3
  <2>4. PICK j \in 1..(n + 1) : b[j] = 9
    BY <1>1, <1>5, <2>3
  <2>5. j \in 1..n
    <3>1. j # n + 1
      BY <1>2, <1>4, <2>2, <2>3, <2>4
    <3> QED
      BY <1>1, <3>1
  <2> DEFINE y == X!Front(b)
  <2>6. y \in [1..n -> Nat] /\ X!Last(b) = sum /\ \A k \in 1..n : y[k] = b[k]
    <3>1. Len(b) - 1 = n
      BY <1>1, <2>3
    <3> HIDE DEF y
    <3>2. /\ X!Front(b) \in [1..(Len(b) - 1) -> Nat] /\ X!Last(b) = b[Len(b)]
          /\ \A k \in 1..(Len(b) - 1) : X!Front(b)[k] = b[k]
      BY <1>5, <1>8, FrontIs
    <3> QED
      BY <1>4, <2>2, <2>3, <3>1, <3>2 DEF y
  <2> HIDE DEF y
  <2>7. \A k \in 1..n : w[k] <= y[k]
    <3> TAKE k \in 1..n
    <3>1. k \in 1..Len(b)
      BY <1>1, <2>3
    <3>2. b[k] = w[k] \/ b[k] = 9
      BY <1>4, <1>5, <3>1
    <3> QED
      BY <1>1, <2>6, <3>2
  <2>8. w[j] < y[j]
    BY <1>1, <2>4, <2>5, <2>6
  <2>9. X!SumOf(w) \in Nat /\ X!SumOf(y) \in Nat /\ X!SumOf(w) < X!SumOf(y)
    BY <1>1, <2>5, <2>6, <2>7, <2>8, SumGrowsWith
  <2>10. X!SumOf(X!Front(b)) # X!Last(b)
    BY <2>6, <2>9 DEF y, sum
  <2> QED
    BY <1>8, <2>10 DEF X!Decode
<1> QED
  BY <1>6, <1>7, <1>8

\* A text is what its writer wrote of a value, or is marked as damaged.
TextOk(t) ==
  /\ t.by \in WriterNames /\ t.value \in X!Values(t.by)
  /\ t.code = X!Writers[t.by].code
  /\ "prefix" \notin t.damage => t.prefix = X!Writers[t.by].prefix
  /\ "blanks" \notin t.damage => ~t.blanks
  /\ "bytes" \notin t.damage => t.bytes = X!Encode(t.code, X!Kept(t.by, t.value))
  /\ "bytes" \in t.damage => Worn(t.bytes, X!Encode(t.code, X!Kept(t.by, t.value)))

LEMMA ValuesAre ==
  ASSUME NEW who \in WriterNames, NEW v \in X!Values(who)
  PROVE  /\ v \in Seq(0..8) /\ Len(v) \in X!Writers[who].lens
         /\ who \in {"to_cb58", "to_hex"} => \E i \in DOMAIN v : v[i] # 0
<1>1. /\ v \in X!BoundedSeq(Bytes, X!ID_LEN + 1) /\ Len(v) \in X!Writers[who].lens
      /\ who \in {"to_cb58", "to_hex"} => \E i \in DOMAIN v : v[i] # 0
  BY DEF X!Values, X!IsValue
<1>2. PICK n \in 0..(X!ID_LEN + 1) : v \in [1..n -> Bytes]
  <2> DEFINE m == X!ID_LEN + 1
  <2>1. v \in X!SeqOf(Bytes, m)
    BY <1>1 DEF X!BoundedSeq
  <2> HIDE DEF m
  <2>2. \E n \in 0..m : v \in [1..n -> Bytes]
    BY <2>1, Zenon DEF X!SeqOf
  <2> QED
    BY <2>2 DEF m
<1>3. n \in Nat /\ v \in [1..n -> 0..8]
  <2>1. n \in Nat
    BY DEF X!ID_LEN
  <2>2. Bytes \subseteq 0..8
    BY TextAssumption DEF TextAssumption
  <2> DEFINE O == 0..8
  <2> HIDE DEF O
  <2>3. v \in [1..n -> O]
    BY <1>2, <2>2 DEF O
  <2> QED
    BY <2>1, <2>3 DEF O
<1>4. v \in Seq(0..8)
  BY <1>3
<1> QED
  BY <1>1, <1>4

LEMMA KeptIs ==
  ASSUME NEW who \in WriterNames, NEW v \in X!Values(who)
  PROVE  /\ X!Kept(who, v) \in Seq(0..8)
         /\ IF who = "DateTimeUtc" THEN Len(X!Kept(who, v)) = 2
            ELSE X!Kept(who, v) = v /\ Len(X!Kept(who, v)) \in X!Writers[who].lens
<1>1. v \in Seq(0..8) /\ Len(v) \in X!Writers[who].lens
  BY ValuesAre
<1>2. CASE who = "DateTimeUtc"
  <2>1. Len(v) = 3
    <3>1. X!Writers[who] = X!DateTimeUtc.written
      BY <1>2, WriterTable
    <3>2. X!DateTimeUtc.written.lens = {3}
      BY DEF X!DateTimeUtc, X!Field, X!Written
    <3> QED
      BY <1>1, <3>1, <3>2
  <2> DEFINE O == 0..8
             y == SubSeq(v, 1, 2)
  <2>2. y \in Seq(O) /\ Len(y) = 2
    <3>1. v \in Seq(O)
      BY <1>1
    <3> HIDE DEF O
    <3> QED
      BY <2>1, <3>1
  <2> QED
    BY <1>2, <2>2 DEF X!Kept
<1>3. CASE who # "DateTimeUtc"
  BY <1>1, <1>3 DEF X!Kept
<1> QED
  BY <1>2, <1>3

LEMMA PadNone ==
  ASSUME NEW w \in Seq(Nat)
  PROVE  X!Pad(w, 0) = w
<1> DEFINE z == [i \in 1..(IF Len(w) < 0 THEN 0 - Len(w) ELSE 0) |-> 0]
<1>1. Len(w) \in Nat
  OBVIOUS
<1>2. (IF Len(w) < 0 THEN 0 - Len(w) ELSE 0) = 0
  BY <1>1
<1>3. z = <<>>
  BY <1>2
<1> HIDE DEF z
<1>4. w \o z = w
  BY <1>3
<1> QED
  BY <1>4 DEF X!Pad, z

\* The ways a reader ends.
Refused(r, t) ==
  \/ (t.blanks /\ ~r.trim) \/ t.prefix \notin r.prefixes \/ t.code # r.code \/ ~X!Legible(t)

LEMMA ReadSplit ==
  ASSUME NEW t, NEW name, NEW r, NEW d, r = X!Readers(t)[name], d = X!Decode(t.code, t.bytes)
  PROVE  \/ Refused(r, t) /\ X!Read(name, t) = [is |-> "error", bytes |-> <<>>]
         \/ ~Refused(r, t) /\ d.is # "value" /\ X!Read(name, t) = d
         \/ /\ ~Refused(r, t) /\ d.is = "value" /\ Len(d.bytes) \notin r.fits
            /\ X!Read(name, t) = [is |-> r.refuse, bytes |-> <<>>]
         \/ /\ ~Refused(r, t) /\ d.is = "value" /\ Len(d.bytes) \in r.fits
            /\ X!Read(name, t) = X!Accepted(name, t, X!Pad(d.bytes, r.pad))
BY Zenon DEF X!Read, Refused

LEMMA DecodeSays ==
  ASSUME NEW code, NEW b
  PROVE  LET d == X!Decode(code, b)
         IN /\ d.is \in {"value", "panic", "error"}
            /\ d.is = "panic" => code = "checked hex" /\ b = <<>>
BY DEF X!Decode

\* What a text that is whole says.
LEMMA WholeSays ==
  ASSUME NEW t, TextOk(t), "bytes" \notin t.damage
  PROVE  /\ X!Kept(t.by, t.value) \in Seq(0..8)
         /\ X!Decode(t.code, t.bytes) = [is |-> "value", bytes |-> X!Kept(t.by, t.value)]
<1>1. X!Kept(t.by, t.value) \in Seq(0..8)
  BY KeptIs DEF TextOk
<1>2. X!Kept(t.by, t.value) \in Seq(Nat)
  BY <1>1
<1>3. t.bytes = X!Encode(t.code, X!Kept(t.by, t.value))
  BY DEF TextOk
<1> QED
  BY <1>1, <1>2, <1>3, EncodeIs

LEMMA WornSays ==
  ASSUME NEW t, TextOk(t), "bytes" \in t.damage, X!Checked(t.code)
  PROVE  X!Decode(t.code, t.bytes).is # "value"
<1>1. X!Kept(t.by, t.value) \in Seq(0..8)
  BY KeptIs DEF TextOk
<1> QED
  BY <1>1, DamagedIsBad DEF TextOk

\* A value is the one that was written.
LEMMA ValueIs ==
  ASSUME NEW t, TextOk(t), NEW name \in ReaderNames, X!Read(name, t).is = "value"
  PROVE  /\ X!IsOf(X!Read(name, t).bytes, t)
         /\ "bytes" \in t.damage => ~X!Checked(t.code)
<1> DEFINE r == X!Readers(t)[name]
           d == X!Decode(t.code, t.bytes)
           w == X!Kept(t.by, t.value)
<1>1. Row(r, name)
  BY ReaderIs
<1>2. d.is \in {"value", "panic", "error"}
  BY DecodeSays
<1>3. /\ d.is = "value" /\ Len(d.bytes) \in r.fits
      /\ X!Read(name, t) = X!Accepted(name, t, X!Pad(d.bytes, r.pad))
  <2> HIDE DEF r, d
  <2>1. r.refuse # "value"
    BY <1>1 DEF Row
  <2>2. r = X!Readers(t)[name] /\ d = X!Decode(t.code, t.bytes)
    BY DEF r, d
  <2> QED
    BY <2>1, <2>2, ReadSplit
<1>4. "bytes" \in t.damage => ~X!Checked(t.code)
  BY <1>3, WornSays
<1>5. CASE "bytes" \in t.damage
  BY <1>4, <1>5 DEF X!IsOf
<1>6. CASE "bytes" \notin t.damage
  <2>1. w \in Seq(0..8) /\ d.bytes = w
    <3>1. w \in Seq(0..8)
      BY <1>6, WholeSays
    <3>2. d = [is |-> "value", bytes |-> w]
      BY <1>6, WholeSays
    <3> HIDE DEF d
    <3> QED
      BY <3>1, <3>2
  <2> DEFINE p == X!Pad(w, r.pad)
  <2>2. X!Read(name, t) = X!Accepted(name, t, p)
    BY <1>3, <2>1
  <2>3. r.pad \in {0, X!ADDR_LEN, X!ID_LEN} /\ (name = "IpPort" => r.pad = 0)
    BY <1>1 DEF Row
  <2>4. CASE name = "IpPort" /\ t.prefix = "http://" /\ p[2] = X!HTTP_PORT
    <3>1. w \in Seq(Nat)
      BY <2>1
    <3> HIDE DEF w
    <3>2. p = w
      BY <2>3, <2>4, <3>1, PadNone
    <3>3. X!Read(name, t).bytes = <<p[1], 0>>
      <4> HIDE DEF p
      <4> QED
        BY <2>2, <2>4 DEF X!Accepted
    <3>4. X!Read(name, t).bytes[1] = w[1] /\ w[2] = X!HTTP_PORT
      <4> HIDE DEF p
      <4> QED
        BY <2>4, <3>2, <3>3
    <3> QED
      BY <1>4, <2>4, <3>4 DEF X!IsOf, w
  <2>5. CASE ~(name = "IpPort" /\ t.prefix = "http://" /\ p[2] = X!HTTP_PORT)
    <3>1. X!Read(name, t).bytes = p
      <4> HIDE DEF p
      <4> QED
        BY <2>2, <2>5 DEF X!Accepted
    <3> HIDE DEF r
    <3>2. \E n \in {0, X!ADDR_LEN, X!ID_LEN} : X!Read(name, t).bytes = X!Pad(w, n)
      BY <2>3, <3>1
    <3> QED
      BY <1>4, <3>2 DEF X!IsOf, w
  <2> QED
    BY <2>4, <2>5
<1> QED
  BY <1>5, <1>6

\* The process ends for a whole text of another kind, and for a UTXO cut short.
LEMMA PanicIs ==
  ASSUME NEW t, TextOk(t), NEW name \in ReaderNames, X!Read(name, t).is = "panic"
  PROVE  \/ "bytes" \notin t.damage /\ name \notin X!Own(t.by)
         \/ t.code = "checked hex" /\ t.bytes = <<>>
<1> DEFINE r == X!Readers(t)[name]
           d == X!Decode(t.code, t.bytes)
           w == X!Kept(t.by, t.value)
<1>1. Row(r, name)
  BY ReaderIs
<1>2. d.is = "panic" => t.code = "checked hex" /\ t.bytes = <<>>
  BY DecodeSays
<1>3. \/ d.is = "panic"
      \/ ~Refused(r, t) /\ d.is = "value" /\ Len(d.bytes) \notin r.fits /\ r.refuse = "panic"
  <2>1. r = X!Readers(t)[name] /\ d = X!Decode(t.code, t.bytes)
    OBVIOUS
  <2>2. X!Accepted(name, t, X!Pad(d.bytes, r.pad)).is \in {"value", "error"}
    BY Zenon DEF X!Accepted
  <2> HIDE DEF r, d
  <2>3. X!Accepted(name, t, X!Pad(d.bytes, r.pad)).is # "panic"
    BY <2>2
  <2> QED
    BY <2>1, <2>3, ReadSplit
<1>4. CASE d.is = "panic"
  BY <1>2, <1>4
<1>5. CASE d.is = "value" /\ ~Refused(r, t) /\ Len(d.bytes) \notin r.fits /\ r.refuse = "panic"
  <2>1. X!Checked(t.code)
    BY <1>1, <1>5 DEF Row, Refused
  <2>2. "bytes" \notin t.damage
    BY <1>5, <2>1, WornSays
  <2>3. d.bytes = w
    <3>1. d = [is |-> "value", bytes |-> w]
      BY <2>2, WholeSays
    <3> HIDE DEF d
    <3> QED
      BY <3>1
  <2>4. ASSUME name \in X!Own(t.by) PROVE FALSE
    <3>1. HasRoom(X!Writers[t.by], r, t.by)
      BY <2>4, OwnFits DEF TextOk, Takes
    <3>2. IF t.by = "DateTimeUtc" THEN Len(w) = 2 ELSE Len(w) \in X!Writers[t.by].lens
      BY KeptIs DEF TextOk
    <3> HIDE DEF r, w, d
    <3>3. Len(w) \in r.fits
      BY <3>1, <3>2 DEF HasRoom
    <3> QED
      BY <1>5, <2>3, <3>3
  <2> QED
    BY <2>2, <2>4
<1> QED
  BY <1>3, <1>4, <1>5

LEMMA NotAllZero ==
  ASSUME NEW v \in Seq(0..8), \E i \in DOMAIN v : v[i] # 0
  PROVE  v # X!Pad(<<>>, X!ID_LEN)
<1> DEFINE z == [i \in 1..3 |-> 0]
<1>1. X!Pad(<<>>, X!ID_LEN) = <<>> \o z
  <2>1. (IF Len(<<>>) < 3 THEN 3 - Len(<<>>) ELSE 0) = 3
    OBVIOUS
  <2> QED
    BY <2>1 DEF X!Pad, X!ID_LEN
<1>2. z \in Seq(Nat)
  OBVIOUS
<1>3. \A i \in DOMAIN z : z[i] = 0
  OBVIOUS
<1> HIDE DEF z
<1>4. <<>> \o z = z
  BY <1>2
<1> QED
  BY <1>1, <1>3, <1>4

\* A text that was not changed is read by those it is for.
LEMMA OwnReads ==
  ASSUME NEW t, TextOk(t), t.damage = {}, NEW name \in X!Own(t.by)
  PROVE  X!Read(name, t).is = "value"
<1> DEFINE r == X!Readers(t)[name]
           d == X!Decode(t.code, t.bytes)
           w == X!Kept(t.by, t.value)
<1>1. Row(r, name) /\ HasRoom(X!Writers[t.by], r, t.by) /\ t.prefix \in r.prefixes /\ t.code = r.code
  BY OwnFits, ReaderIs DEF TextOk, Takes
<1>2. w \in Seq(0..8) /\ d = [is |-> "value", bytes |-> w]
  BY WholeSays
<1>3. Len(w) \in r.fits
  <2>1. IF t.by = "DateTimeUtc" THEN Len(w) = 2 ELSE Len(w) \in X!Writers[t.by].lens
    BY KeptIs DEF TextOk
  <2> HIDE DEF r, w
  <2> QED
    BY <1>1, <2>1 DEF HasRoom
<1>4. ~t.blanks
  BY DEF TextOk
<1>5. X!Legible(t)
  <2>1. CASE X!Checked(t.code)
    BY <2>1 DEF X!Legible
  <2>2. CASE ~X!Checked(t.code)
    <3>1. t.bytes = w
      BY <2>2 DEF TextOk, X!Encode
    <3>2. \A i \in DOMAIN w : w[i] # 9
      <4> HIDE DEF w
      <4> QED
        BY <1>2
    <3> HIDE DEF w
    <3> QED
      BY <3>1, <3>2 DEF X!Legible
  <2> QED
    BY <2>1, <2>2
<1>6. X!Read(name, t) = X!Accepted(name, t, X!Pad(w, r.pad))
  <2>1. r = X!Readers(t)[name] /\ d = X!Decode(t.code, t.bytes)
    OBVIOUS
  <2> HIDE DEF r, d, w
  <2>2. ~Refused(r, t)
    BY <1>1, <1>4, <1>5 DEF Refused
  <2>3. d.is = "value" /\ d.bytes = w
    BY <1>2
  <2> QED
    BY <1>3, <2>1, <2>2, <2>3, ReadSplit
<1>7. name \in {"from_cb58", "from_hex"} => X!Pad(w, r.pad) # X!Pad(<<>>, X!ID_LEN)
  <2> SUFFICES ASSUME name \in {"from_cb58", "from_hex"}
               PROVE  X!Pad(w, r.pad) # X!Pad(<<>>, X!ID_LEN)
    OBVIOUS
  <2>1. t.by \in {"to_cb58", "to_hex"}
    BY OwnTable DEF TextOk, WriterNames
  <2>2. w = t.value
    BY <2>1 DEF X!Kept
  <2>3. \E i \in DOMAIN w : w[i] # 0
    BY <2>1, <2>2, ValuesAre DEF TextOk
  <2>4. w # X!Pad(<<>>, X!ID_LEN)
    <3> HIDE DEF w
    <3> QED
      BY <1>2, <2>3, NotAllZero
  <2>5. r.pad = 0
    BY <1>1 DEF Row
  <2>6. w \in Seq(Nat)
    <3> HIDE DEF w
    <3> QED
      BY <1>2
  <2> HIDE DEF w, r
  <2> QED
    BY <2>4, <2>5, <2>6, PadNone
<1>8. X!Accepted(name, t, X!Pad(w, r.pad)).is = "value"
  <2> DEFINE p == X!Pad(w, r.pad)
  <2>1. ~(name \in {"from_cb58", "from_hex"} /\ p = X!Pad(<<>>, X!ID_LEN))
    BY <1>7
  <2> HIDE DEF p
  <2>2. X!Accepted(name, t, p).is = "value"
    BY <2>1 DEF X!Accepted
  <2> QED
    BY <2>2 DEF p
<1> QED
  BY <1>6, <1>8

LEMMA ReadSays ==
  ASSUME NEW t, NEW name \in ReaderNames
  PROVE  X!Read(name, t).is \in {"value", "panic", "error"}
<1> DEFINE r == X!Readers(t)[name]
           d == X!Decode(t.code, t.bytes)
<1>1. r.refuse \in {"panic", "error"}
  BY ReaderIs DEF Row
<1>2. d.is \in {"value", "panic", "error"}
  BY DecodeSays
<1>3. r = X!Readers(t)[name] /\ d = X!Decode(t.code, t.bytes)
  OBVIOUS
<1>4. X!Accepted(name, t, X!Pad(d.bytes, r.pad)).is \in {"value", "error"}
  BY Zenon DEF X!Accepted
<1> HIDE DEF r, d
<1> QED
  BY <1>1, <1>2, <1>3, <1>4, ReadSplit

AnyText ==
  [by : WriterNames, value : Seq(0..8), damage : SUBSET {"bytes", "blanks", "prefix"},
   prefix : {X!Writers[w].prefix : w \in WriterNames} \union {"", "http://"},
   code : {X!Writers[w].code : w \in WriterNames}, blanks : BOOLEAN, bytes : Seq(Nat)]

TextsOk == {t \in AnyText : TextOk(t)}

TextInv ==
  /\ texts \in Seq(TextsOk) /\ X!TextIsRead

LEMMA NotReadYet ==
  ASSUME got = X!NotRead PROVE X!TextIsRead
<1>1. got.is = "not read"
  BY DEF X!NotRead
<1> QED
  BY <1>1 DEF X!TextIsRead

LEMMA TextsStart == X!Init => TextInv
<1> SUFFICES ASSUME X!Init PROVE TextInv
  OBVIOUS
<1>1. texts = <<>> /\ got = X!NotRead
  BY DEF X!Init
<1>2. texts \in Seq(TextsOk)
  BY <1>1
<1> QED
  BY <1>1, <1>2, NotReadYet DEF TextInv

\* ReadAll is the value of each text, or the outcome of one that has none.
LEMMA ReadAllIs ==
  ASSUME NEW ts \in Seq(TextsOk), NEW name
  PROVE  LET a == X!ReadAll(name, ts)
         IN \/ /\ a.is = "value" /\ \A i \in DOMAIN ts : X!Read(name, ts[i]).is = "value"
               /\ a.values = [i \in DOMAIN ts |-> X!Read(name, ts[i]).bytes]
            \/ \E k \in DOMAIN ts : /\ X!Read(name, ts[k]).is # "value"
                                    /\ a.is = X!Read(name, ts[k]).is /\ a.values = <<>>
<1> DEFINE all == [i \in DOMAIN ts |-> X!Read(name, ts[i])]
           Bad == {i \in DOMAIN ts : all[i].is # "value"}
           least == CHOOSE i \in Bad : \A j \in Bad : i <= j
           a == X!ReadAll(name, ts)
<1>1. a = IF Bad = {} THEN [is |-> "value", values |-> [i \in DOMAIN ts |-> all[i].bytes]]
          ELSE [is |-> all[least].is, values |-> <<>>]
  BY Zenon DEF X!ReadAll
<1>2. \A i \in DOMAIN ts : all[i] = X!Read(name, ts[i])
  OBVIOUS
<1>3. Bad \subseteq DOMAIN ts /\ Bad \subseteq Nat
  OBVIOUS
<1>4. \A i \in DOMAIN ts : i \in Bad <=> all[i].is # "value"
  OBVIOUS
<1> HIDE DEF all, Bad
<1>5. CASE Bad = {}
  <2>1. \A i \in DOMAIN ts : X!Read(name, ts[i]).is = "value"
    BY <1>2, <1>4, <1>5
  <2>2. [i \in DOMAIN ts |-> all[i].bytes] = [i \in DOMAIN ts |-> X!Read(name, ts[i]).bytes]
    BY <1>2
  <2>3. a.is = "value" /\ a.values = [i \in DOMAIN ts |-> X!Read(name, ts[i]).bytes]
    <3> HIDE DEF a
    <3> QED
      BY <1>1, <1>5, <2>2
  <2> QED
    BY <2>1, <2>3
<1>6. CASE Bad # {}
  <2>1. PICK n \in Bad : \A m \in Bad : ~(<<m, n>> \in OpToRel(<, Nat))
    BY <1>3, <1>6, WFMin, NatLessThanWellFounded, Zenon
  <2>2. \A m \in Bad : n <= m
    <3> TAKE m \in Bad
    <3>1. m \in Nat /\ n \in Nat /\ ~(m < n)
      BY <1>3, <2>1 DEF OpToRel
    <3> QED
      BY <3>1
  <2>3. least \in Bad
    BY <2>2
  <2> HIDE DEF least
  <2>4. least \in DOMAIN ts /\ X!Read(name, ts[least]).is # "value"
    BY <1>2, <1>3, <1>4, <2>3
  <2>5. a.is = X!Read(name, ts[least]).is /\ a.values = <<>>
    <3> HIDE DEF a
    <3> QED
      BY <1>1, <1>2, <1>6, <2>4
  <2> QED
    BY <2>4, <2>5
<1> QED
  BY <1>5, <1>6

-----------------------------------------------------------------------------
(* Texts: writing and damage.                                              *)

LEMMA WrittenIsOk ==
  ASSUME NEW who \in WriterNames, NEW v \in X!Values(who)
  PROVE  X!Text(who, v) \in TextsOk
<1> DEFINE t == X!Text(who, v)
           w == X!Kept(who, v)
<1>1. v \in Seq(0..8) /\ w \in Seq(0..8)
  BY ValuesAre, KeptIs
<1>2. w \in Seq(Nat)
  <2> HIDE DEF w
  <2> QED
    BY <1>1
<1>3. X!Encode(X!Writers[who].code, w) \in Seq(Nat)
  BY <1>2, EncodeIs
<1>4. t = [by |-> who, value |-> v, damage |-> {}, prefix |-> X!Writers[who].prefix,
           code |-> X!Writers[who].code, blanks |-> FALSE,
           bytes |-> X!Encode(X!Writers[who].code, w)]
  BY DEF X!Text
<1> HIDE DEF t, w
<1>5. t \in AnyText
  BY <1>1, <1>3, <1>4 DEF AnyText
<1>6. TextOk(t)
  BY <1>4 DEF TextOk, w
<1> QED
  BY <1>5, <1>6 DEF TextsOk, t

LEMMA WearIsOk ==
  ASSUME NEW t \in TextsOk, NEW b, Worn(b, X!Encode(t.code, X!Kept(t.by, t.value))),
         NEW u, u = [t EXCEPT !.bytes = b, !.damage = @ \union {"bytes"}]
  PROVE  u \in TextsOk
<1>1. t \in AnyText /\ TextOk(t)
  BY DEF TextsOk
<1>2. b \in Seq(Nat)
  BY DEF Worn
<1>3. /\ u.by = t.by /\ u.value = t.value /\ u.prefix = t.prefix /\ u.code = t.code
      /\ u.blanks = t.blanks /\ u.bytes = b /\ u.damage = t.damage \union {"bytes"}
      /\ u \in AnyText
  BY <1>1, <1>2 DEF AnyText
<1> QED
  BY <1>1, <1>3 DEF TextsOk, TextOk

LEMMA BlanksAreOk ==
  ASSUME NEW t \in TextsOk, NEW u,
         u = [t EXCEPT !.blanks = TRUE, !.damage = @ \union {"blanks"}]
  PROVE  u \in TextsOk
<1>1. t \in AnyText /\ TextOk(t)
  BY DEF TextsOk
<1>2. /\ u.by = t.by /\ u.value = t.value /\ u.prefix = t.prefix /\ u.code = t.code
      /\ u.bytes = t.bytes /\ u.damage = t.damage \union {"blanks"}
      /\ u \in AnyText
  BY <1>1 DEF AnyText
<1> QED
  BY <1>1, <1>2 DEF TextsOk, TextOk

LEMMA PrefixIsOk ==
  ASSUME NEW t \in TextsOk, NEW prefix \in {"", "http://"}, NEW u,
         u = [t EXCEPT !.prefix = prefix, !.damage = @ \union {"prefix"}]
  PROVE  u \in TextsOk
<1>1. t \in AnyText /\ TextOk(t)
  BY DEF TextsOk
<1>2. /\ u.by = t.by /\ u.value = t.value /\ u.code = t.code
      /\ u.blanks = t.blanks /\ u.bytes = t.bytes /\ u.damage = t.damage \union {"prefix"}
      /\ u \in AnyText
  BY <1>1 DEF AnyText
<1> QED
  BY <1>1, <1>2 DEF TextsOk, TextOk

\* What is left of a text when a byte is another one, or the last is not there.
LEMMA OneLess ==
  ASSUME NEW t \in TextsOk
  PROVE  LET a == X!Encode(t.code, X!Kept(t.by, t.value)) IN
         /\ \A j \in DOMAIN t.bytes : Worn([t.bytes EXCEPT ![j] = 9], a)
         /\ t.bytes # <<>> => Worn(X!Front(t.bytes), a)
<1> DEFINE a == X!Encode(t.code, X!Kept(t.by, t.value))
           b == t.bytes
<1>1. t \in AnyText /\ TextOk(t)
  BY DEF TextsOk
<1>2. b \in Seq(Nat) /\ (b = a \/ Worn(b, a))
  BY <1>1 DEF TextOk, AnyText
<1> HIDE DEF a, b
<1>3. Len(b) \in Nat /\ Len(b) <= Len(a) /\ \A j \in 1..Len(b) : b[j] = a[j] \/ b[j] = 9
  BY <1>2 DEF Worn
<1>4. ASSUME NEW j \in DOMAIN b
      PROVE  Worn([b EXCEPT ![j] = 9], a)
  <2> DEFINE c == [b EXCEPT ![j] = 9]
  <2>1. c \in Seq(Nat) /\ Len(c) = Len(b) /\ c[j] = 9 /\ \A i \in 1..Len(b) : c[i] = b[i] \/ c[i] = 9
    BY <1>2
  <2>2. j \in 1..Len(b)
    BY <1>2
  <2> HIDE DEF c
  <2>3. Worn(c, a)
    BY <1>3, <2>1, <2>2 DEF Worn
  <2> QED
    BY <2>3 DEF c
<1>5. ASSUME b # <<>>
      PROVE  Worn(X!Front(b), a)
  <2> DEFINE n == Len(b) - 1
             c == X!Front(b)
  <2>1. n \in Nat /\ c \in [1..n -> Nat] /\ \A j \in 1..n : c[j] = b[j]
    BY <1>2, <1>5, FrontIs
  <2>2. n < Len(b) /\ Len(b) \in Nat
    BY <1>3
  <2>3. Len(a) \in Nat \/ b = a
    <3>1. X!Kept(t.by, t.value) \in Seq(0..8)
      BY <1>1, KeptIs DEF TextOk
    <3>2. X!Kept(t.by, t.value) \in Seq(Nat)
      BY <3>1
    <3>3. a \in Seq(Nat)
      BY <3>2, EncodeIs DEF a
    <3> QED
      BY <3>3
  <2> HIDE DEF c
  <2>4. c \in Seq(Nat) /\ Len(c) = n
    <3> HIDE DEF n
    <3> QED
      BY <2>1
  <2>5. \A j \in 1..n : c[j] = a[j] \/ c[j] = 9
    BY <1>3, <2>1, <2>2
  <2>6. n < Len(a)
    BY <1>3, <2>2, <2>3
  <2> HIDE DEF n
  <2>7. Worn(c, a)
    BY <2>2, <2>3, <2>4, <2>5, <2>6, <1>3 DEF Worn
  <2> QED
    BY <2>7 DEF c
<1> QED
  BY <1>4, <1>5 DEF a, b

LEMMA TextsGrow ==
  ASSUME TextInv, X!WriteText \/ X!LeaveOut
  PROVE  TextInv'
<1>1. got = X!NotRead /\ got' = got
  BY DEF X!WriteText, X!LeaveOut
<1>2. X!TextIsRead'
  <2>1. got' = X!NotRead /\ (got = X!NotRead)'
    BY <1>1
  <2> QED
    BY <2>1, NotReadYet, PTL
<1>3. texts' \in Seq(TextsOk)
  <2>1. CASE X!WriteText
    <3>1. PICK who \in WriterNames : \E v \in X!Values(who) : texts' = Append(texts, X!Text(who, v))
      BY <2>1, NamesAre DEF X!WriteText
    <3>2. PICK v \in X!Values(who) : texts' = Append(texts, X!Text(who, v))
      BY <3>1
    <3>3. X!Text(who, v) \in TextsOk
      BY WrittenIsOk
    <3> QED
      BY <3>2, <3>3 DEF TextInv
  <2>2. CASE X!LeaveOut
    BY <2>2 DEF X!LeaveOut, TextInv
  <2> QED
    BY <2>1, <2>2
<1> QED
  BY <1>2, <1>3 DEF TextInv

LEMMA TextsWear ==
  ASSUME TextInv, X!Damage
  PROVE  TextInv'
<1>1. got = X!NotRead /\ got' = got
  BY DEF X!Damage
<1>2. PICK i \in DOMAIN texts : LET t == texts[i] IN
        \/ \E j \in DOMAIN t.bytes :
             texts' = [texts EXCEPT ![i].bytes[j] = 9, ![i].damage = @ \union {"bytes"}]
        \/ /\ t.bytes # <<>>
           /\ texts' = [texts EXCEPT ![i].bytes = X!Front(@), ![i].damage = @ \union {"bytes"}]
        \/ texts' = [texts EXCEPT ![i].blanks = TRUE, ![i].damage = @ \union {"blanks"}]
        \/ /\ t.prefix # ""
           /\ texts' = [texts EXCEPT ![i].prefix = "", ![i].damage = @ \union {"prefix"}]
        \/ /\ t.by = "IpPort"
           /\ texts' = [texts EXCEPT ![i].prefix = "http://", ![i].damage = @ \union {"prefix"}]
  BY DEF X!Damage
<1> DEFINE t == texts[i]
<1>3. texts \in Seq(TextsOk) /\ t \in TextsOk /\ t \in AnyText
  BY DEF TextInv, TextsOk
<1>4. \E u \in TextsOk : texts' = [texts EXCEPT ![i] = u]
  <2>1. CASE \E j \in DOMAIN t.bytes :
               texts' = [texts EXCEPT ![i].bytes[j] = 9, ![i].damage = @ \union {"bytes"}]
    <3>1. PICK j \in DOMAIN t.bytes :
            texts' = [texts EXCEPT ![i].bytes[j] = 9, ![i].damage = @ \union {"bytes"}]
      BY <2>1
    <3> DEFINE b == [t.bytes EXCEPT ![j] = 9]
               u == [t EXCEPT !.bytes = b, !.damage = @ \union {"bytes"}]
    <3>2. u \in TextsOk
      <4>1. Worn(b, X!Encode(t.code, X!Kept(t.by, t.value)))
        BY <1>3, OneLess
      <4> HIDE DEF b, t
      <4> QED
        BY <1>3, <4>1, WearIsOk
    <3>3. texts' = [texts EXCEPT ![i] = u]
      BY <1>3, <3>1
    <3> QED
      BY <3>2, <3>3
  <2>2. CASE /\ t.bytes # <<>>
             /\ texts' = [texts EXCEPT ![i].bytes = X!Front(@), ![i].damage = @ \union {"bytes"}]
    <3> DEFINE b == X!Front(t.bytes)
               u == [t EXCEPT !.bytes = b, !.damage = @ \union {"bytes"}]
    <3>1. u \in TextsOk
      <4>1. Worn(b, X!Encode(t.code, X!Kept(t.by, t.value)))
        BY <1>3, <2>2, OneLess
      <4> HIDE DEF b, t
      <4> QED
        BY <1>3, <4>1, WearIsOk
    <3>2. texts' = [texts EXCEPT ![i] = u]
      BY <1>3, <2>2
    <3> QED
      BY <3>1, <3>2
  <2>3. CASE texts' = [texts EXCEPT ![i].blanks = TRUE, ![i].damage = @ \union {"blanks"}]
    <3> DEFINE u == [t EXCEPT !.blanks = TRUE, !.damage = @ \union {"blanks"}]
    <3>1. u \in TextsOk
      <4> HIDE DEF t
      <4> QED
        BY <1>3, BlanksAreOk
    <3>2. texts' = [texts EXCEPT ![i] = u]
      BY <1>3, <2>3
    <3> QED
      BY <3>1, <3>2
  <2>4. ASSUME NEW prefix \in {"", "http://"},
               texts' = [texts EXCEPT ![i].prefix = prefix, ![i].damage = @ \union {"prefix"}]
        PROVE  \E u \in TextsOk : texts' = [texts EXCEPT ![i] = u]
    <3> DEFINE u == [t EXCEPT !.prefix = prefix, !.damage = @ \union {"prefix"}]
    <3>1. u \in TextsOk
      <4> HIDE DEF t
      <4> QED
        BY <1>3, PrefixIsOk
    <3>2. texts' = [texts EXCEPT ![i] = u]
      BY <1>3, <2>4
    <3> QED
      BY <3>1, <3>2
  <2>5. \/ texts' = [texts EXCEPT ![i].prefix = "", ![i].damage = @ \union {"prefix"}]
        \/ texts' = [texts EXCEPT ![i].prefix = "http://", ![i].damage = @ \union {"prefix"}]
        => \E u \in TextsOk : texts' = [texts EXCEPT ![i] = u]
    BY <2>4
  <2> QED
    BY <1>2, <2>1, <2>2, <2>3, <2>5
<1>5. texts' \in Seq(TextsOk)
  BY <1>3, <1>4
<1>6. X!TextIsRead'
  <2>1. (got = X!NotRead)'
    BY <1>1
  <2> QED
    BY <2>1, NotReadYet, PTL
<1> QED
  BY <1>5, <1>6 DEF TextInv

-----------------------------------------------------------------------------
(* Texts: reading.                                                         *)

\* The text at an index, and what each reader makes of it.
LEMMA AtIndex ==
  ASSUME TextInv, NEW i \in DOMAIN texts
  PROVE  /\ TextOk(texts[i])
         /\ \A name \in ReaderNames :
              LET r == X!Read(name, texts[i]) IN
              /\ r.is \in {"value", "panic", "error"}
              /\ r.is = "value" => /\ X!IsOf(r.bytes, texts[i])
                                   /\ "bytes" \in texts[i].damage => ~X!Checked(texts[i].code)
              /\ r.is = "panic" =>
                   \/ "bytes" \notin texts[i].damage /\ name \notin X!Own(texts[i].by)
                   \/ texts[i].code = "checked hex" /\ texts[i].bytes = <<>>
              /\ texts[i].damage = {} /\ name \in X!Own(texts[i].by) => r.is = "value"
<1>1. TextOk(texts[i])
  BY DEF TextInv, TextsOk
<1> QED
  BY <1>1, ValueIs, PanicIs, OwnReads, ReadSays

\* What TextIsRead says of what was read, of the texts ts.
Right(g, ts, gone) ==
  /\ g.is = "value" /\ g.how # "lines" =>
       \A i \in DOMAIN ts :
         /\ X!IsOf(g.values[i], ts[i])
         /\ "bytes" \in ts[i].damage => ~X!Checked(ts[i].code)
  /\ g.is = "value" /\ g.how = "lines" =>
       /\ Len(g.values) = Len(ts)
       /\ \A i \in DOMAIN ts : \E j \in DOMAIN ts : X!IsOf(g.values[j], ts[i])
  /\ (\A i \in DOMAIN ts : ts[i].damage = {} /\ g.reader \in X!Own(ts[i].by)) =>
       \/ g.is \in {"not read", "value"}
       \/ gone
       \/ g.how = "lines" /\ \E i, j \in DOMAIN ts : i # j /\ ts[i].value = ts[j].value
  /\ g.is = "panic" /\ g.how \notin {"lines", "info"} =>
       \E i \in DOMAIN ts :
         \/ "bytes" \notin ts[i].damage /\ g.reader \notin X!Own(ts[i].by)
         \/ ts[i].code = "checked hex" /\ ts[i].bytes = <<>>

LEMMA RightIsEnough ==
  ASSUME texts \in Seq(TextsOk), texts' = texts, missing' = missing, Right(got', texts, missing)
  PROVE  TextInv'
<1>1. (X!TextIsRead)' = Right(got', texts', missing')
  BY Zenon DEF X!TextIsRead, Right
<1>2. (X!TextIsRead)'
  BY <1>1
<1> QED
  BY <1>2 DEF TextInv

LEMMA OneIsRead ==
  ASSUME TextInv, X!ReadOne
  PROVE  TextInv'
<1>1. Len(texts) = 1 /\ texts' = texts /\ missing' = missing /\ texts \in Seq(TextsOk)
  BY DEF X!ReadOne, TextInv
<1>2. PICK name \in ReaderNames :
        LET r == X!Read(name, texts[1]) IN got' = X!Got(r.is, <<r.bytes>>, "one", name)
  BY NamesAre DEF X!ReadOne
<1> DEFINE r == X!Read(name, texts[1])
<1>3. DOMAIN texts = {1}
  BY <1>1
<1>4. /\ r.is \in {"value", "panic", "error"}
      /\ r.is = "value" => /\ X!IsOf(r.bytes, texts[1])
                           /\ "bytes" \in texts[1].damage => ~X!Checked(texts[1].code)
      /\ r.is = "panic" =>
           \/ "bytes" \notin texts[1].damage /\ name \notin X!Own(texts[1].by)
           \/ texts[1].code = "checked hex" /\ texts[1].bytes = <<>>
      /\ texts[1].damage = {} /\ name \in X!Own(texts[1].by) => r.is = "value"
  BY <1>3, AtIndex
<1> HIDE DEF r
<1>5. /\ got'.is = r.is /\ got'.values[1] = r.bytes /\ got'.how = "one" /\ got'.reader = name
  BY <1>2 DEF X!Got, r
<1>6. Right(got', texts, missing)
  BY <1>3, <1>4, <1>5 DEF Right
<1> QED
  BY <1>1, <1>6, RightIsEnough

\* What ReadAll gives is right, however it is passed on.
LEMMA AllIsRight ==
  ASSUME TextInv, NEW name \in ReaderNames, NEW way, way # "lines", NEW a, a = X!ReadAll(name, texts)
  PROVE  /\ Right(X!Got(a.is, a.values, way, name), texts, missing)
         /\ way = "info" /\ a.is # "value" => Right(X!Got("panic", <<>>, way, name), texts, missing)
<1>1. texts \in Seq(TextsOk)
  BY DEF TextInv
<1>2. \/ /\ a.is = "value" /\ \A i \in DOMAIN texts : X!Read(name, texts[i]).is = "value"
         /\ a.values = [i \in DOMAIN texts |-> X!Read(name, texts[i]).bytes]
      \/ \E k \in DOMAIN texts : /\ X!Read(name, texts[k]).is # "value"
                                 /\ a.is = X!Read(name, texts[k]).is /\ a.values = <<>>
  BY <1>1, ReadAllIs
<1> DEFINE g == X!Got(a.is, a.values, way, name)
           e == X!Got("panic", <<>>, way, name)
<1>3. /\ g.is = a.is /\ g.values = a.values /\ g.how = way /\ g.reader = name
      /\ e.is = "panic" /\ e.how = way /\ e.reader = name
  BY DEF X!Got
<1> HIDE DEF g, e
<1>4. CASE /\ a.is = "value" /\ \A i \in DOMAIN texts : X!Read(name, texts[i]).is = "value"
           /\ a.values = [i \in DOMAIN texts |-> X!Read(name, texts[i]).bytes]
  <2>1. \A i \in DOMAIN texts :
          /\ X!IsOf(g.values[i], texts[i])
          /\ "bytes" \in texts[i].damage => ~X!Checked(texts[i].code)
    <3> TAKE i \in DOMAIN texts
    <3>1. X!Read(name, texts[i]).is = "value" /\ g.values[i] = X!Read(name, texts[i]).bytes
      BY <1>3, <1>4
    <3>2. /\ X!IsOf(X!Read(name, texts[i]).bytes, texts[i])
          /\ "bytes" \in texts[i].damage => ~X!Checked(texts[i].code)
      BY <3>1, AtIndex
    <3> QED
      BY <3>1, <3>2
  <2>2. Right(g, texts, missing)
    BY <1>3, <1>4, <2>1 DEF Right
  <2> QED
    BY <1>4, <2>2 DEF g
<1>5. CASE \E k \in DOMAIN texts : /\ X!Read(name, texts[k]).is # "value"
                                   /\ a.is = X!Read(name, texts[k]).is /\ a.values = <<>>
  <2>1. PICK k \in DOMAIN texts : /\ X!Read(name, texts[k]).is # "value"
                                  /\ a.is = X!Read(name, texts[k]).is
    BY <1>5
  <2>2. ~(texts[k].damage = {} /\ name \in X!Own(texts[k].by))
    BY <2>1, AtIndex
  <2>3. a.is = "panic" =>
          \/ "bytes" \notin texts[k].damage /\ name \notin X!Own(texts[k].by)
          \/ texts[k].code = "checked hex" /\ texts[k].bytes = <<>>
    BY <2>1, AtIndex
  <2>4. Right(g, texts, missing)
    BY <1>3, <2>1, <2>2, <2>3 DEF Right
  <2>5. way = "info" => Right(e, texts, missing)
    BY <1>3, <2>2 DEF Right
  <2> QED
    BY <2>4, <2>5 DEF g, e
<1> QED
  BY <1>2, <1>4, <1>5

LEMMA FieldIsRead ==
  ASSUME TextInv, X!ReadField
  PROVE  TextInv'
<1>1. texts' = texts /\ missing' = missing /\ texts \in Seq(TextsOk)
  BY DEF X!ReadField, TextInv
<1>2. PICK name \in {"Id_from_str", "node_from_str", "short_from_str"}, way \in {"option", "must"} :
        LET r == X!ReadAll(name, texts)
        IN got' = IF missing THEN X!Got(IF way = "option" THEN "none" ELSE "error", <<>>, way, name)
                  ELSE X!Got(r.is, r.values, way, name)
  BY Zenon DEF X!ReadField
<1>3. name \in ReaderNames /\ way # "lines"
  BY DEF ReaderNames
<1>4. CASE missing
  <2>1. got'.is \in {"none", "error"}
    BY <1>2, <1>4 DEF X!Got
  <2>2. Right(got', texts, missing)
    BY <1>4, <2>1 DEF Right
  <2> QED
    BY <1>1, <2>2, RightIsEnough
<1>5. CASE ~missing
  <2>1. Right(got', texts, missing)
    BY <1>2, <1>3, <1>5, AllIsRight
  <2> QED
    BY <1>1, <2>1, RightIsEnough
<1> QED
  BY <1>4, <1>5

LEMMA KeyIsRead ==
  ASSUME TextInv, X!to_private_key
  PROVE  TextInv'
<1> DEFINE r == X!ReadAll("from_cb58", texts)
<1>1. texts' = texts /\ missing' = missing /\ texts \in Seq(TextsOk)
  BY DEF X!to_private_key, TextInv
<1>2. got' = IF ~missing /\ r.is = "value" THEN X!Got("value", r.values, "info", "from_cb58")
             ELSE X!Got("panic", <<>>, "info", "from_cb58")
  BY Zenon DEF X!to_private_key
<1>3. "from_cb58" \in ReaderNames
  BY DEF ReaderNames
<1>4. /\ Right(X!Got(r.is, r.values, "info", "from_cb58"), texts, missing)
      /\ r.is # "value" => Right(X!Got("panic", <<>>, "info", "from_cb58"), texts, missing)
  BY <1>3, AllIsRight
<1> HIDE DEF r
<1>5. Right(got', texts, missing)
  <2>1. CASE missing
    <3>1. got'.is = "panic" /\ got'.how = "info"
      BY <1>2, <2>1 DEF X!Got
    <3> QED
      BY <2>1, <3>1 DEF Right
  <2>2. CASE ~missing
    BY <1>2, <1>4, <2>2
  <2> QED
    BY <2>1, <2>2
<1> QED
  BY <1>1, <1>5, RightIsEnough

\* A list, or the list backwards, holds what is read of each of the texts.
LEMMA KeysAreRead ==
  ASSUME TextInv, NEW keys, NEW permute_keys \in BOOLEAN,
         \A i \in DOMAIN texts : X!Read("from_cb58", texts[i]).is = "value",
         keys = [i \in DOMAIN texts |-> X!Read("from_cb58", texts[i]).bytes],
         NEW g, g = X!Got("value", IF permute_keys THEN X!Reverse(keys) ELSE keys, "lines", "from_cb58")
  PROVE  Right(g, texts, missing)
<1> DEFINE n == Len(texts)
<1>1. texts \in Seq(TextsOk) /\ n \in Nat /\ DOMAIN texts = 1..n
  BY DEF TextInv
<1>2. Len(keys) = n /\ \A i \in 1..n : X!IsOf(keys[i], texts[i])
  <2>1. "from_cb58" \in ReaderNames
    BY DEF ReaderNames
  <2>2. \A i \in DOMAIN texts : X!IsOf(X!Read("from_cb58", texts[i]).bytes, texts[i])
    BY <2>1, AtIndex
  <2>3. \A i \in 1..n : keys[i] = X!Read("from_cb58", texts[i]).bytes
    BY <1>1
  <2>4. DOMAIN keys = 1..n /\ keys = [i \in 1..n |-> keys[i]]
    BY <1>1
  <2> HIDE DEF n
  <2>5. Len(keys) = n
    BY <1>1, <2>4
  <2> QED
    BY <1>1, <2>2, <2>3, <2>5
<1> HIDE DEF n
<1>3. CASE ~permute_keys
  <2>1. g.is = "value" /\ g.how = "lines" /\ g.values = keys /\ g.reader = "from_cb58"
    BY <1>3 DEF X!Got
  <2>2. \A i \in DOMAIN texts : \E j \in DOMAIN texts : X!IsOf(g.values[j], texts[i])
    BY <1>1, <1>2, <2>1
  <2> QED
    BY <1>2, <2>1, <2>2 DEF Right, n
<1>4. CASE permute_keys
  <2> DEFINE back == [i \in 1..Len(keys) |-> keys[(Len(keys) - i) + 1]]
  <2>1. X!Reverse(keys) = back
    BY DEF X!Reverse
  <2>2. Len(back) = n
    <3>1. back = [i \in 1..n |-> back[i]]
      BY <1>2
    <3> HIDE DEF back
    <3> QED
      BY <1>1, <3>1
  <2>3. \A i \in 1..n : (n - i) + 1 \in 1..n /\ back[(n - i) + 1] = keys[i]
    <3> TAKE i \in 1..n
    <3>1. (n - i) + 1 \in 1..n /\ (n - ((n - i) + 1)) + 1 = i
      BY <1>1
    <3> QED
      BY <1>2, <3>1
  <2> HIDE DEF back
  <2>4. g.is = "value" /\ g.how = "lines" /\ g.values = back /\ g.reader = "from_cb58"
    BY <1>4, <2>1 DEF X!Got
  <2>5. \A i \in DOMAIN texts : \E j \in DOMAIN texts : X!IsOf(g.values[j], texts[i])
    <3> TAKE i \in DOMAIN texts
    <3>1. (n - i) + 1 \in DOMAIN texts /\ g.values[(n - i) + 1] = keys[i] /\ X!IsOf(keys[i], texts[i])
      BY <1>1, <1>2, <2>3, <2>4
    <3> QED
      BY <3>1
  <2> QED
    BY <2>2, <2>4, <2>5 DEF Right, n
<1> QED
  BY <1>3, <1>4

LEMMA LinesAreRead ==
  ASSUME TextInv, X!load_cb58_keys
  PROVE  TextInv'
<1> DEFINE Twice == {i \in DOMAIN texts : \E j \in 1..(i - 1) : texts[i] = texts[j]}
           Bad == {i \in DOMAIN texts : X!Read("from_cb58", texts[i]).is # "value"}
           r == X!ReadAll("from_cb58", texts)
<1>1. texts' = texts /\ missing' = missing /\ texts \in Seq(TextsOk)
  BY DEF X!load_cb58_keys, TextInv
<1>2. \/ /\ \E i \in Twice : \A j \in Bad : i <= j
         /\ got' = X!Got("error", <<>>, "lines", "from_cb58")
      \/ /\ \E i \in Bad : \A j \in Twice : i < j
         /\ got' = X!Got("panic", <<>>, "lines", "from_cb58")
      \/ /\ Bad = {} /\ Twice = {}
         /\ \E permute_keys \in BOOLEAN :
              got' = X!Got("value", IF permute_keys THEN X!Reverse(r.values) ELSE r.values,
                           "lines", "from_cb58")
  BY Zenon DEF X!load_cb58_keys
<1>3. CASE \E i \in Twice : got' = X!Got("error", <<>>, "lines", "from_cb58")
  <2>1. PICK i \in Twice : got' = X!Got("error", <<>>, "lines", "from_cb58")
    BY <1>3
  <2>2. PICK j \in 1..(i - 1) : texts[i] = texts[j]
    OBVIOUS
  <2>3. i \in DOMAIN texts /\ j \in DOMAIN texts /\ i # j
    <3>1. DOMAIN texts = 1..Len(texts) /\ Len(texts) \in Nat
      BY <1>1
    <3> QED
      BY <3>1
  <2>4. got'.is = "error" /\ got'.how = "lines"
    BY <2>1 DEF X!Got
  <2> HIDE DEF Twice, Bad
  <2> QED
    BY <1>1, <2>2, <2>3, <2>4, RightIsEnough DEF Right
<1>4. CASE \E i \in Bad : got' = X!Got("panic", <<>>, "lines", "from_cb58")
  <2>1. PICK i \in DOMAIN texts : X!Read("from_cb58", texts[i]).is # "value"
    BY <1>4
  <2>2. ~(texts[i].damage = {} /\ "from_cb58" \in X!Own(texts[i].by))
    BY <2>1, AtIndex DEF ReaderNames
  <2>3. got'.is = "panic" /\ got'.how = "lines" /\ got'.reader = "from_cb58"
    BY <1>4 DEF X!Got
  <2> QED
    BY <1>1, <2>2, <2>3, RightIsEnough DEF Right
<1>5. CASE /\ Bad = {}
           /\ \E permute_keys \in BOOLEAN :
                got' = X!Got("value", IF permute_keys THEN X!Reverse(r.values) ELSE r.values,
                             "lines", "from_cb58")
  <2>1. PICK permute_keys \in BOOLEAN :
          got' = X!Got("value", IF permute_keys THEN X!Reverse(r.values) ELSE r.values,
                       "lines", "from_cb58")
    BY <1>5
  <2>2. \A i \in DOMAIN texts : X!Read("from_cb58", texts[i]).is = "value"
    BY <1>5
  <2> HIDE DEF Bad, Twice
  <2>3. r.values = [i \in DOMAIN texts |-> X!Read("from_cb58", texts[i]).bytes]
    BY <1>1, <2>2, ReadAllIs
  <2> HIDE DEF r
  <2>4. Right(got', texts, missing)
    BY <2>1, <2>2, <2>3, KeysAreRead
  <2> QED
    BY <1>1, <2>4, RightIsEnough
<1> HIDE DEF Twice, Bad, r
<1> QED
  BY <1>2, <1>3, <1>4, <1>5

LEMMA TextKeeps ==
  TextInv /\ [X!Next]_textVars => TextInv'
<1> SUFFICES ASSUME TextInv, [X!Next]_textVars PROVE TextInv'
  OBVIOUS
<1>1. CASE UNCHANGED textVars
  <2>1. texts' = texts /\ missing' = missing /\ got' = got
    BY <1>1 DEF textVars
  <2> QED
    BY <2>1 DEF TextInv, X!TextIsRead
<1>2. CASE X!WriteText \/ X!LeaveOut
  BY <1>2, TextsGrow
<1>3. CASE X!Damage
  BY <1>3, TextsWear
<1>4. CASE X!ReadOne \/ X!ReadField \/ X!load_cb58_keys \/ X!to_private_key
  BY <1>4, OneIsRead, FieldIsRead, LinesAreRead, KeyIsRead
<1>5. X!Next \/ UNCHANGED textVars
  OBVIOUS
<1> QED
  BY <1>1, <1>2, <1>3, <1>4, <1>5, Zenon DEF X!Next

\* TextIsRead, of ids, formatting, key/secp256k1 and codec/serde: a value that is
\* read is the one that was written, for values of any bytes, texts damaged in
\* any way and as often as they may be, and lists of any length; none comes of a
\* damaged text that has a checksum; and the process ends only where it must.
THEOREM TextsAreReadAsWritten == MCSpec => []TextIsRead
<1> DEFINE Inv == system = "text" => TextInv
<1>1. MCInit => Inv
  BY TextsStart DEF MCInit
<1>2. Inv /\ [MCNext]_allVars => Inv'
  <2> SUFFICES ASSUME Inv, [MCNext]_allVars, system' = "text" PROVE TextInv'
    OBVIOUS
  <2>1. system = "text" /\ [X!Next]_textVars
    BY DEF MCNext, allVars
  <2>2. TextInv
    BY <2>1
  <2> HIDE DEF Inv
  <2> QED
    BY <2>1, <2>2, TextKeeps
<1>3. Inv => TextIsRead
  BY DEF TextInv, TextIsRead
<1> QED
  BY <1>1, <1>2, <1>3, PTL DEF MCSpec

-----------------------------------------------------------------------------
(* Codes: sequences of numbers that can be told apart at the front of what *)
(* follows them.                                                           *)

Codes == Seq(Nat)

\* One after the other.  The provers take \o apart wherever they see it.
Cat(a, b) == a \o b

\* Whatever follows, the code a value starts with tells the value.
Tells(f) ==
  \A a, b \in DOMAIN f : \A x, y \in Codes : Cat(f[a], x) = Cat(f[b], y) => a = b /\ x = y

LEMMA CatCode ==
  ASSUME NEW a \in Codes, NEW b \in Codes
  PROVE  Cat(a, b) \in Codes
BY ConcatProperties DEF Codes, Cat

LEMMA CatAssoc ==
  ASSUME NEW a \in Codes, NEW b \in Codes, NEW c \in Codes
  PROVE  Cat(Cat(a, b), c) = Cat(a, Cat(b, c))
BY ConcatAssociative DEF Codes, Cat

LEMMA SameLength ==
  ASSUME NEW a \in Codes, NEW b \in Codes, NEW x \in Codes, NEW y \in Codes,
         Len(a) = Len(b), Cat(a, x) = Cat(b, y)
  PROVE  a = b /\ x = y
<1>1. /\ Len(Cat(a, x)) = Len(a) + Len(x)
      /\ \A i \in 1..(Len(a) + Len(x)) : Cat(a, x)[i] = IF i <= Len(a) THEN a[i] ELSE x[i - Len(a)]
  BY ConcatProperties DEF Codes, Cat
<1>2. /\ Len(Cat(b, y)) = Len(b) + Len(y)
      /\ \A i \in 1..(Len(b) + Len(y)) : Cat(b, y)[i] = IF i <= Len(b) THEN b[i] ELSE y[i - Len(b)]
  BY ConcatProperties DEF Codes, Cat
<1>3. Len(a) \in Nat /\ Len(b) \in Nat /\ Len(x) \in Nat /\ Len(y) \in Nat
  BY LenProperties DEF Codes, Cat
<1>4. Len(x) = Len(y)
  BY <1>1, <1>2, <1>3
<1>5. ASSUME NEW i \in 1..Len(a) PROVE a[i] = b[i]
  BY <1>1, <1>2, <1>3, <1>4
<1>6. ASSUME NEW i \in 1..Len(x) PROVE x[i] = y[i]
  <2>1. i + Len(a) \in 1..(Len(a) + Len(x)) /\ ~ i + Len(a) <= Len(a) /\ i + Len(a) - Len(a) = i
    BY <1>3
  <2> QED
    BY <1>1, <1>2, <1>4, <2>1
<1> QED
  BY <1>4, <1>5, <1>6, SeqEqual DEF Codes, Cat

-----------------------------------------------------------------------------
(* A list of codes, one after the other.                                   *)

\* How FlattenSeq goes through the codes q.
FlatOf(q) == CHOOSE f : f = [i \in 1..Len(q) |-> IF i = 1 THEN q[i] ELSE Cat(f[i - 1], q[i])]
IsFlat(f, q, k) == f = [i \in 1..k |-> IF i = 1 THEN q[i] ELSE Cat(f[i - 1], q[i])]

LEMMA FlatStep ==
  ASSUME NEW q, NEW k \in Nat, NEW f, IsFlat(f, q, k)
  PROVE  \E g : IsFlat(g, q, k + 1)
<1> DEFINE last == IF k = 0 THEN q[k + 1] ELSE Cat(f[k], q[k + 1])
           g == [i \in 1..(k + 1) |-> IF i = k + 1 THEN last ELSE f[i]]
<1>1. ASSUME NEW i \in 1..k PROVE g[i] = IF i = 1 THEN q[i] ELSE Cat(g[i - 1], q[i])
  <2>1. f[i] = IF i = 1 THEN q[i] ELSE Cat(f[i - 1], q[i])
    BY DEF IsFlat
  <2>2. g[i] = f[i] /\ (i # 1 => g[i - 1] = f[i - 1])
    OBVIOUS
  <2> QED
    BY <2>1, <2>2
<1>2. g[k + 1] = IF k + 1 = 1 THEN q[k + 1] ELSE Cat(g[k + 1 - 1], q[k + 1])
  OBVIOUS
<1> HIDE DEF g
<1>3. g = [i \in 1..(k + 1) |-> IF i = 1 THEN q[i] ELSE Cat(g[i - 1], q[i])]
  <2> DEFINE Then(i) == IF i = 1 THEN q[i] ELSE Cat(g[i - 1], q[i])
  <2>1. g = [i \in 1..(k + 1) |-> g[i]]
    BY DEF g
  <2>2. ASSUME NEW i \in 1..(k + 1) PROVE g[i] = Then(i)
    <3>1. CASE i \in 1..k
      BY <1>1, <3>1
    <3>2. CASE i = k + 1
      BY <1>2, <3>2
    <3> QED
      BY <3>1, <3>2
  <2> HIDE DEF Then
  <2>3. g = [i \in 1..(k + 1) |-> Then(i)]
    BY <2>1, <2>2, Zenon
  <2> QED
    BY <2>3 DEF Then
<1> QED
  BY <1>3 DEF IsFlat

LEMMA FlatExists ==
  ASSUME NEW q, NEW k \in Nat
  PROVE  \E f : IsFlat(f, q, k)
<1> DEFINE Missing == {n \in Nat : ~\E f : IsFlat(f, q, n)}
<1>1. SUFFICES ASSUME Missing # {} PROVE FALSE
  OBVIOUS
<1>2. PICK n \in Missing : \A m \in Missing : ~(<<m, n>> \in OpToRel(<, Nat))
  BY <1>1, WFMin, NatLessThanWellFounded, Zenon
<1>3. n # 0
  <2>1. IsFlat([i \in 1..0 |-> 0], q, 0)
    BY DEF IsFlat
  <2> QED
    BY <2>1
<1>4. n - 1 \in Nat /\ n - 1 \notin Missing
  <2> HIDE DEF Missing
  <2>1. n \in Nat
    BY DEF Missing
  <2>2. n - 1 \in Nat /\ <<n - 1, n>> \in OpToRel(<, Nat)
    BY <1>3, <2>1 DEF OpToRel
  <2> QED
    BY <1>2, <2>2
<1>5. \E f : IsFlat(f, q, n - 1 + 1)
  BY <1>4, FlatStep
<1> QED
  BY <1>5

LEMMA FlatIs ==
  ASSUME NEW q, Len(q) \in Nat
  PROVE  IsFlat(FlatOf(q), q, Len(q))
<1>1. PICK f : IsFlat(f, q, Len(q))
  BY FlatExists
<1> QED
  BY <1>1, Zenon DEF FlatOf, IsFlat

LEMMA FlattenIs ==
  ASSUME NEW q, Len(q) # 0
  PROVE  T!FlattenSeq(q) = FlatOf(q)[Len(q)]
BY DEF T!FlattenSeq, FlatOf, Cat

\* The codes of s, one after the other.
CodesOf(code, s) == [i \in DOMAIN s |-> code[s[i]]]

LEMMA FlatCodes ==
  ASSUME NEW q \in Seq(Codes), NEW f, IsFlat(f, q, Len(q)), NEW k \in 1..Len(q)
  PROVE  f[k] \in Codes
<1> DEFINE Bad == {n \in Nat : n \in 1..Len(q) /\ f[n] \notin Codes}
<1>1. SUFFICES ASSUME Bad # {} PROVE FALSE
  <2>1. Len(q) \in Nat
    BY LenProperties
  <2> QED
    BY <2>1
<1>2. PICK n \in Bad : \A m \in Bad : ~(<<m, n>> \in OpToRel(<, Nat))
  BY <1>1, WFMin, NatLessThanWellFounded, Zenon
<1>3. Len(q) \in Nat /\ n \in 1..Len(q) /\ f[n] \notin Codes
  BY LenProperties
<1>4. q[n] \in Codes
  BY <1>3, ElementOfSeq
<1>5. f[n] = IF n = 1 THEN q[n] ELSE Cat(f[n - 1], q[n])
  BY <1>3 DEF IsFlat
<1>6. n # 1
  BY <1>3, <1>4, <1>5
<1>7. n - 1 \in Nat /\ n - 1 \in 1..Len(q) /\ n \in Nat
  BY <1>3, <1>6
<1>8. n - 1 \notin Bad
  <2> HIDE DEF Bad
  <2>1. <<n - 1, n>> \in OpToRel(<, Nat)
    BY <1>7 DEF OpToRel
  <2> QED
    BY <1>2, <2>1
<1>9. f[n - 1] \in Codes
  BY <1>7, <1>8
<1> QED
  BY <1>3, <1>4, <1>5, <1>6, <1>9, CatCode

LEMMA CodesOfList ==
  ASSUME NEW S, NEW code \in [S -> Codes], NEW s \in Seq(S)
  PROVE  /\ CodesOf(code, s) \in Seq(Codes) /\ Len(CodesOf(code, s)) = Len(s)
         /\ \A i \in 1..Len(s) : CodesOf(code, s)[i] = code[s[i]] /\ s[i] \in S
<1>1. Len(s) \in Nat /\ DOMAIN s = 1..Len(s) /\ \A i \in 1..Len(s) : s[i] \in S
  BY LenProperties, ElementOfSeq
<1>2. CodesOf(code, s) = [i \in 1..Len(s) |-> code[s[i]]]
  BY <1>1 DEF CodesOf
<1>3. \A i \in 1..Len(s) : code[s[i]] \in Codes
  BY <1>1
<1>4. [i \in 1..Len(s) |-> code[s[i]]] \in Seq(Codes)
  BY <1>1, <1>3, IsASeq
<1>5. Len(CodesOf(code, s)) = Len(s)
  BY <1>1, <1>2, <1>4, LenProperties
<1> QED
  BY <1>1, <1>2, <1>4, <1>5

LEMMA TellsAt ==
  ASSUME NEW S, NEW code \in [S -> Codes], Tells(code), NEW a \in S, NEW b \in S,
         NEW x \in Codes, NEW y \in Codes, Cat(code[a], x) = Cat(code[b], y)
  PROVE  a = b /\ x = y
<1>1. a \in DOMAIN code /\ b \in DOMAIN code
  OBVIOUS
<1> QED
  BY <1>1 DEF Tells

LEMMA FlatAt ==
  ASSUME NEW S, NEW code \in [S -> Codes], NEW s \in Seq(S), NEW f,
         IsFlat(f, CodesOf(code, s), Len(s)), NEW n \in 1..Len(s)
  PROVE  /\ n \in Nat /\ s[n] \in S /\ code[s[n]] \in Codes /\ f[n] \in Codes
         /\ n = 1 => f[n] = code[s[n]]
         /\ n # 1 => /\ n - 1 \in 1..Len(s) /\ f[n - 1] \in Codes
                     /\ f[n] = Cat(f[n - 1], code[s[n]])
<1> DEFINE q == CodesOf(code, s)
<1>1. q \in Seq(Codes) /\ Len(q) = Len(s) /\ q[n] = code[s[n]] /\ s[n] \in S /\ IsFlat(f, q, Len(q))
      /\ q[n] \in Codes
  BY CodesOfList
<1>2. Len(s) \in Nat /\ n \in Nat /\ (n # 1 => n - 1 \in 1..Len(s))
  BY LenProperties
<1> HIDE DEF q
<1>3. \A m \in 1..Len(s) : f[m] \in Codes
  BY <1>1, FlatCodes
<1>4. f[n] = IF n = 1 THEN q[n] ELSE Cat(f[n - 1], q[n])
  BY <1>1 DEF IsFlat
<1> QED
  BY <1>1, <1>2, <1>3, <1>4

\* Whatever follows the first n codes, they tell the first n of what they are of.
Agree(f, g, s, t, n) ==
  \A v, w \in Codes : Cat(f[n], v) = Cat(g[n], w) => v = w /\ \A i \in 1..n : s[i] = t[i]

LEMMA FlatTellsMore ==
  ASSUME NEW S, NEW code \in [S -> Codes], Tells(code), NEW s \in Seq(S), NEW t \in Seq(S),
         NEW f, IsFlat(f, CodesOf(code, s), Len(s)),
         NEW g, IsFlat(g, CodesOf(code, t), Len(t)),
         NEW n, n \in 1..Len(s), n \in 1..Len(t), n # 1 => Agree(f, g, s, t, n - 1)
  PROVE  Agree(f, g, s, t, n)
<1> SUFFICES ASSUME NEW v \in Codes, NEW w \in Codes, Cat(f[n], v) = Cat(g[n], w)
             PROVE  v = w /\ \A i \in 1..n : s[i] = t[i]
  BY DEF Agree
<1> DEFINE a == code[s[n]]
           b == code[t[n]]
           first == f[n - 1]
           second == g[n - 1]
<1>1. /\ n \in Nat /\ s[n] \in S /\ a \in Codes
      /\ n = 1 => f[n] = a
      /\ n # 1 => first \in Codes /\ f[n] = Cat(first, a)
  BY FlatAt
<1>2. /\ t[n] \in S /\ b \in Codes
      /\ n = 1 => g[n] = b
      /\ n # 1 => second \in Codes /\ g[n] = Cat(second, b)
  BY FlatAt
<1>3. Cat(a, v) = Cat(b, w) => s[n] = t[n] /\ v = w
  BY <1>1, <1>2, TellsAt
<1> HIDE DEF a, b, first, second
<1>4. CASE n = 1
  <2>1. s[1] = t[1] /\ v = w
    BY <1>1, <1>2, <1>3, <1>4
  <2> QED
    BY <1>4, <2>1
<1>5. CASE n # 1
  <2>1. Cat(Cat(first, a), v) = Cat(first, Cat(a, v))
    BY <1>1, <1>5, CatAssoc
  <2>2. Cat(Cat(second, b), w) = Cat(second, Cat(b, w))
    BY <1>2, <1>5, CatAssoc
  <2>3. Cat(first, Cat(a, v)) = Cat(second, Cat(b, w))
    BY <1>1, <1>2, <1>5, <2>1, <2>2
  <2>4. Cat(a, v) \in Codes /\ Cat(b, w) \in Codes
    BY <1>1, <1>2, CatCode
  <2>5. Cat(a, v) = Cat(b, w) /\ \A i \in 1..(n - 1) : s[i] = t[i]
    BY <1>5, <2>3, <2>4 DEF first, second, Agree
  <2>6. \A i \in 1..n : i \in 1..(n - 1) \/ i = n
    BY <1>1
  <2> QED
    BY <1>3, <2>5, <2>6
<1> QED
  BY <1>4, <1>5

LEMMA FlatTells ==
  ASSUME NEW S, NEW code \in [S -> Codes], Tells(code), NEW s \in Seq(S), NEW t \in Seq(S),
         Len(s) = Len(t), NEW f, IsFlat(f, CodesOf(code, s), Len(s)),
         NEW g, IsFlat(g, CodesOf(code, t), Len(t)), NEW k \in 1..Len(s)
  PROVE  Agree(f, g, s, t, k)
<1> DEFINE Bad == {n \in Nat : n \in 1..Len(s) /\ ~Agree(f, g, s, t, n)}
<1>1. Len(s) \in Nat /\ k \in Nat
  BY LenProperties
<1>2. SUFFICES ASSUME Bad # {} PROVE FALSE
  BY <1>1
<1>3. PICK n \in Bad : \A m \in Bad : ~(<<m, n>> \in OpToRel(<, Nat))
  BY <1>2, WFMin, NatLessThanWellFounded, Zenon
<1>4. n \in Nat /\ n \in 1..Len(s) /\ n \in 1..Len(t) /\ ~Agree(f, g, s, t, n)
  OBVIOUS
<1>5. ASSUME n # 1 PROVE Agree(f, g, s, t, n - 1)
  <2>1. n - 1 \in Nat /\ n - 1 \in 1..Len(s) /\ <<n - 1, n>> \in OpToRel(<, Nat)
    BY <1>4, <1>5 DEF OpToRel
  <2> QED
    BY <1>3, <2>1
<1> HIDE DEF Bad
<1> QED
  BY <1>4, <1>5, FlatTellsMore

\* How many there are, and then their codes.
ListCode(code, s) == Cat(<<Len(s)>>, T!FlattenSeq(CodesOf(code, s)))

LEMMA NumberCode ==
  ASSUME NEW n \in Nat
  PROVE  <<n>> \in Codes /\ Len(<<n>>) = 1
BY DEF Codes

LEMMA NumberTells ==
  ASSUME NEW n \in Nat, NEW m \in Nat, NEW x \in Codes, NEW y \in Codes,
         Cat(<<n>>, x) = Cat(<<m>>, y)
  PROVE  n = m /\ x = y
<1> DEFINE a == <<n>>
           b == <<m>>
<1>1. a \in Codes /\ b \in Codes /\ Len(a) = Len(b) /\ (a = b => n = m)
  BY NumberCode
<1> HIDE DEF a, b
<1>2. Cat(a, x) = Cat(b, y)
  BY DEF a, b
<1> QED
  BY <1>1, <1>2, SameLength

\* FlattenSeq of the codes of s.
LEMMA FlattenCodes ==
  ASSUME NEW S, NEW code \in [S -> Codes], NEW s \in Seq(S)
  PROVE  LET q == CodesOf(code, s) IN
         /\ Len(s) \in Nat /\ T!FlattenSeq(q) \in Codes
         /\ Len(s) = 0 => T!FlattenSeq(q) = <<>>
         /\ Len(s) # 0 => Len(s) \in 1..Len(s) /\ IsFlat(FlatOf(q), q, Len(s))
                          /\ T!FlattenSeq(q) = FlatOf(q)[Len(s)]
<1> DEFINE q == CodesOf(code, s)
<1>1. q \in Seq(Codes) /\ Len(q) = Len(s) /\ Len(s) \in Nat
  BY CodesOfList, LenProperties
<1> HIDE DEF q
<1>2. CASE Len(s) = 0
  <2>1. T!FlattenSeq(q) = q
    BY <1>1, <1>2 DEF T!FlattenSeq
  <2>2. q = <<>> /\ <<>> \in Codes
    BY <1>1, <1>2, EmptySeq DEF Codes
  <2> QED
    BY <1>1, <1>2, <2>1, <2>2 DEF q
<1>3. CASE Len(s) # 0
  <2>1. IsFlat(FlatOf(q), q, Len(q)) /\ T!FlattenSeq(q) = FlatOf(q)[Len(q)] /\ Len(q) \in 1..Len(q)
    BY <1>1, <1>3, FlatIs, FlattenIs
  <2>2. FlatOf(q)[Len(q)] \in Codes
    BY <1>1, <2>1, FlatCodes
  <2> QED
    BY <1>1, <1>3, <2>1, <2>2 DEF q
<1> QED
  BY <1>2, <1>3

LEMMA ListCodes ==
  ASSUME NEW S, NEW code \in [S -> Codes], NEW s \in Seq(S)
  PROVE  ListCode(code, s) \in Codes
BY FlattenCodes, NumberCode, CatCode DEF ListCode

LEMMA ListTells ==
  ASSUME NEW S, NEW code \in [S -> Codes], Tells(code), NEW s \in Seq(S), NEW t \in Seq(S),
         NEW x \in Codes, NEW y \in Codes, Cat(ListCode(code, s), x) = Cat(ListCode(code, t), y)
  PROVE  s = t /\ x = y
<1> DEFINE q == CodesOf(code, s)
           r == CodesOf(code, t)
           u == T!FlattenSeq(q)
           v == T!FlattenSeq(r)
<1>1. /\ Len(s) \in Nat /\ u \in Codes
      /\ Len(s) = 0 => u = <<>>
      /\ Len(s) # 0 => Len(s) \in 1..Len(s) /\ IsFlat(FlatOf(q), q, Len(s)) /\ u = FlatOf(q)[Len(s)]
  BY FlattenCodes
<1>2. /\ Len(t) \in Nat /\ v \in Codes
      /\ Len(t) = 0 => v = <<>>
      /\ Len(t) # 0 => Len(t) \in 1..Len(t) /\ IsFlat(FlatOf(r), r, Len(t)) /\ v = FlatOf(r)[Len(t)]
  BY FlattenCodes
<1>3. Cat(Cat(<<Len(s)>>, u), x) = Cat(Cat(<<Len(t)>>, v), y)
  BY DEF ListCode
<1> HIDE DEF u, v
<1>4. /\ Cat(Cat(<<Len(s)>>, u), x) = Cat(<<Len(s)>>, Cat(u, x))
      /\ Cat(Cat(<<Len(t)>>, v), y) = Cat(<<Len(t)>>, Cat(v, y))
      /\ Cat(u, x) \in Codes /\ Cat(v, y) \in Codes
  <2> DEFINE n == <<Len(s)>>
             m == <<Len(t)>>
  <2>1. n \in Codes /\ m \in Codes
    BY <1>1, <1>2, NumberCode
  <2> HIDE DEF n, m
  <2>2. u \in Codes /\ v \in Codes
    BY <1>1, <1>2
  <2>3. Cat(Cat(n, u), x) = Cat(n, Cat(u, x)) /\ Cat(Cat(m, v), y) = Cat(m, Cat(v, y))
    BY <2>1, <2>2, CatAssoc
  <2>4. Cat(u, x) \in Codes /\ Cat(v, y) \in Codes
    BY <2>2, CatCode
  <2> QED
    BY <2>3, <2>4 DEF n, m
<1>5. Len(s) = Len(t) /\ Cat(u, x) = Cat(v, y)
  <2> DEFINE n == Len(s)
             m == Len(t)
             after == Cat(u, x)
             after2 == Cat(v, y)
  <2>1. n \in Nat /\ m \in Nat /\ after \in Codes /\ after2 \in Codes
    BY <1>1, <1>2, <1>4
  <2>2. Cat(<<n>>, after) = Cat(<<m>>, after2)
    BY <1>3, <1>4
  <2> HIDE DEF n, m, after, after2
  <2>3. n = m /\ after = after2
    BY <2>1, <2>2, NumberTells
  <2> QED
    BY <2>3 DEF n, m, after, after2
<1>6. CASE Len(s) = 0
  <2>1. s = t
    <3>1. \A i \in 1..Len(s) : s[i] = t[i]
      BY <1>6
    <3> QED
      BY <1>5, <3>1, SeqEqual
  <2>2. u = v
    BY <1>1, <1>2, <1>5, <1>6
  <2> QED
    BY <1>1, <1>2, <1>5, <2>1, <2>2, SameLength
<1>7. CASE Len(s) # 0
  <2>1. Agree(FlatOf(q), FlatOf(r), s, t, Len(s))
    BY <1>1, <1>2, <1>5, <1>7, FlatTells
  <2>2. x = y /\ \A i \in 1..Len(s) : s[i] = t[i]
    BY <1>1, <1>2, <1>5, <1>7, <2>1 DEF Agree
  <2> QED
    BY <1>5, <2>2, SeqEqual
<1> QED
  BY <1>6, <1>7

-----------------------------------------------------------------------------
(* Codes of two values, which are the same or part somewhere.               *)

Apart(a, b) == \A x, y \in Codes : Cat(a, x) = Cat(b, y) => a = b /\ x = y

LEMMA FixedApart ==
  ASSUME NEW a \in Codes, NEW b \in Codes, Len(a) = Len(b)
  PROVE  Apart(a, b)
BY SameLength DEF Apart

LEMMA FirstApart ==
  ASSUME NEW a \in Codes, NEW b \in Codes, Len(a) > 0, Len(b) > 0, a[1] # b[1]
  PROVE  Apart(a, b)
<1> SUFFICES ASSUME NEW x \in Codes, NEW y \in Codes, Cat(a, x) = Cat(b, y) PROVE FALSE
  BY DEF Apart
<1>1. /\ 1 \in 1..(Len(a) + Len(x)) /\ 1 \in 1..(Len(b) + Len(y)) /\ 1 <= Len(a) /\ 1 <= Len(b)
  <2>1. Len(a) \in Nat /\ Len(b) \in Nat /\ Len(x) \in Nat /\ Len(y) \in Nat
    BY LenProperties DEF Codes
  <2> QED
    BY <2>1
<1>2. \A i \in 1..(Len(a) + Len(x)) : Cat(a, x)[i] = IF i <= Len(a) THEN a[i] ELSE x[i - Len(a)]
  BY ConcatProperties DEF Codes, Cat
<1>3. \A i \in 1..(Len(b) + Len(y)) : Cat(b, y)[i] = IF i <= Len(b) THEN b[i] ELSE y[i - Len(b)]
  BY ConcatProperties DEF Codes, Cat
<1>4. Cat(a, x)[1] = a[1]
  BY <1>1, <1>2
<1>5. Cat(b, y)[1] = b[1]
  BY <1>1, <1>3
<1> QED
  BY <1>4, <1>5

LEMMA CatApart ==
  ASSUME NEW a \in Codes, NEW b \in Codes, NEW c \in Codes, NEW d \in Codes,
         Apart(a, c), Apart(b, d)
  PROVE  /\ Cat(a, b) \in Codes /\ Apart(Cat(a, b), Cat(c, d))
         /\ Cat(a, b) = Cat(c, d) => a = c /\ b = d
<1>1. Cat(a, b) \in Codes /\ (Cat(a, b) = Cat(c, d) => a = c /\ b = d)
  BY CatCode DEF Apart
<1>2. ASSUME NEW x \in Codes, NEW y \in Codes, Cat(Cat(a, b), x) = Cat(Cat(c, d), y)
      PROVE  Cat(a, b) = Cat(c, d) /\ x = y
  <2>1. Cat(a, Cat(b, x)) = Cat(c, Cat(d, y))
    BY <1>2, CatAssoc
  <2>2. Cat(b, x) \in Codes /\ Cat(d, y) \in Codes
    BY CatCode
  <2>3. a = c /\ Cat(b, x) = Cat(d, y)
    BY <2>1, <2>2 DEF Apart
  <2> QED
    BY <2>3 DEF Apart
<1> QED
  BY <1>1, <1>2 DEF Apart

LEMMA PlainApart ==
  ASSUME NEW s \in Codes, NEW t \in Codes
  PROVE  /\ T!Plain(s) \in Codes /\ Apart(T!Plain(s), T!Plain(t))
         /\ T!Plain(s) = T!Plain(t) => s = t
<1> DEFINE a == <<Len(s)>>
           b == <<Len(t)>>
<1>1. /\ T!Plain(s) = Cat(a, s) /\ T!Plain(t) = Cat(b, t)
      /\ Len(s) \in Nat /\ Len(t) \in Nat
  BY LenProperties DEF T!Plain, Cat, Codes
<1>2. a \in Codes /\ b \in Codes /\ Len(a) = Len(b) /\ (a = b => Len(s) = Len(t))
  BY <1>1, NumberCode
<1> HIDE DEF a, b
<1>3. Apart(a, b)
  BY <1>2, FixedApart
<1>4. Cat(a, s) \in Codes /\ (Cat(a, s) = Cat(b, t) => a = b /\ s = t)
  BY <1>2, <1>3, CatCode DEF Apart
<1>5. ASSUME NEW x \in Codes, NEW y \in Codes, Cat(Cat(a, s), x) = Cat(Cat(b, t), y)
      PROVE  Cat(a, s) = Cat(b, t) /\ x = y
  <2>1. Cat(a, Cat(s, x)) = Cat(b, Cat(t, y))
    BY <1>2, <1>5, CatAssoc
  <2>2. Cat(s, x) \in Codes /\ Cat(t, y) \in Codes
    BY CatCode
  <2>3. a = b /\ Cat(s, x) = Cat(t, y)
    BY <1>3, <2>1, <2>2 DEF Apart
  <2> QED
    BY <1>2, <2>3, SameLength
<1> QED
  BY <1>1, <1>4, <1>5 DEF Apart

LEMMA ListApart ==
  ASSUME NEW S, NEW code \in [S -> Codes], Tells(code), NEW s \in Seq(S), NEW t \in Seq(S)
  PROVE  /\ ListCode(code, s) \in Codes /\ Apart(ListCode(code, s), ListCode(code, t))
         /\ ListCode(code, s) = ListCode(code, t) => s = t
<1>1. ListCode(code, s) \in Codes
  BY ListCodes
<1>2. ASSUME NEW x \in Codes, NEW y \in Codes, Cat(ListCode(code, s), x) = Cat(ListCode(code, t), y)
      PROVE  s = t /\ x = y
  BY <1>2, ListTells
<1>3. <<>> \in Codes
  BY EmptySeq DEF Codes
<1> QED
  BY <1>1, <1>2, <1>3 DEF Apart

LEMMA TellsIs ==
  ASSUME NEW S, NEW code \in [S -> Codes],
         \A a, b \in S : Apart(code[a], code[b]) /\ (code[a] = code[b] => a = b)
  PROVE  Tells(code)
<1>1. DOMAIN code = S
  OBVIOUS
<1> QED
  BY <1>1 DEF Tells, Apart

-----------------------------------------------------------------------------
(* The codes of what a transaction consists of.                            *)

LEMMA OwnersApart ==
  ASSUME NEW w \in T!OutputOwners, NEW z \in T!OutputOwners
  PROVE  /\ T!owners_bytes(w) \in Codes /\ Apart(T!owners_bytes(w), T!owners_bytes(z))
         /\ T!owners_bytes(w) = T!owners_bytes(z) => w = z
<1> DEFINE a == <<w.locktime, w.threshold>>
           b == T!Plain(w.addresses)
           c == <<z.locktime, z.threshold>>
           d == T!Plain(z.addresses)
<1>1. /\ w.addresses \in Codes /\ z.addresses \in Codes
      /\ w.locktime \in Nat /\ w.threshold \in Nat /\ z.locktime \in Nat /\ z.threshold \in Nat
  BY DEF T!OutputOwners, Codes
<1>2. /\ a \in Codes /\ c \in Codes /\ Len(a) = Len(c)
      /\ a = c => w.locktime = z.locktime /\ w.threshold = z.threshold
  BY <1>1 DEF Codes
<1>3. b \in Codes /\ d \in Codes /\ Apart(b, d) /\ (b = d => w.addresses = z.addresses)
  BY <1>1, PlainApart
<1>4. T!owners_bytes(w) = Cat(a, b) /\ T!owners_bytes(z) = Cat(c, d)
  BY DEF T!owners_bytes, Cat
<1>5. ASSUME a = c, b = d PROVE w = z
  BY <1>2, <1>3, <1>5 DEF T!OutputOwners
<1> HIDE DEF a, b, c, d
<1> QED
  BY <1>2, <1>3, <1>4, <1>5, FixedApart, CatApart

LEMMA TransferApart ==
  ASSUME NEW o, NEW p, o.amount \in Nat, p.amount \in Nat,
         o.owners \in T!OutputOwners, p.owners \in T!OutputOwners
  PROVE  /\ T!transfer_bytes(o) \in Codes /\ Apart(T!transfer_bytes(o), T!transfer_bytes(p))
         /\ T!transfer_bytes(o) = T!transfer_bytes(p) => o.amount = p.amount /\ o.owners = p.owners
<1> DEFINE a == <<o.amount>>
           b == T!owners_bytes(o.owners)
           c == <<p.amount>>
           d == T!owners_bytes(p.owners)
<1>1. a \in Codes /\ c \in Codes /\ Len(a) = Len(c) /\ (a = c => o.amount = p.amount)
  BY NumberCode
<1>2. b \in Codes /\ d \in Codes /\ Apart(b, d) /\ (b = d => o.owners = p.owners)
  BY OwnersApart
<1>3. T!transfer_bytes(o) = Cat(a, b) /\ T!transfer_bytes(p) = Cat(c, d)
  BY DEF T!transfer_bytes, Cat
<1> HIDE DEF a, b, c, d
<1> QED
  BY <1>1, <1>2, <1>3, FixedApart, CatApart

\* What is locked begins with a number of its own.
OutputLock(lock) == IF lock = <<>> THEN <<7>> ELSE <<22, lock[1], 7>>
InputLock(lock) == IF lock = <<>> THEN <<5>> ELSE <<21, lock[1]>>

LEMMA LockIs ==
  ASSUME NEW l \in T!Lock, l # <<>>
  PROVE  l = <<l[1]>> /\ l[1] \in Nat
<1>1. l \in Seq(Nat) /\ Len(l) <= 1 /\ Len(l) \in Nat /\ Len(l) # 0
  BY EmptySeq, LenProperties DEF T!Lock
<1>2. Len(l) = 1 /\ l[1] \in Nat
  <2>1. Len(l) = 1
    <3> DEFINE n == Len(l)
    <3>1. n <= 1 /\ n \in Nat /\ n # 0
      BY <1>1
    <3> HIDE DEF n
    <3>2. n = 1
      BY <3>1
    <3> QED
      BY <3>2 DEF n
  <2>2. 1 \in 1..Len(l)
    BY <2>1
  <2> QED
    BY <1>1, <2>1, <2>2, ElementOfSeq
<1>3. \A i \in 1..Len(l) : l[i] = <<l[1]>>[i]
  BY <1>2
<1>4. <<l[1]>> \in Seq(Nat) /\ Len(<<l[1]>>) = 1
  BY <1>2
<1> QED
  BY <1>1, <1>2, <1>3, <1>4, SeqEqual

LEMMA OutputLockApart ==
  ASSUME NEW l \in T!Lock, NEW k \in T!Lock
  PROVE  /\ OutputLock(l) \in Codes /\ Apart(OutputLock(l), OutputLock(k))
         /\ OutputLock(l) = OutputLock(k) => l = k
<1> DEFINE a == OutputLock(l)
           b == OutputLock(k)
<1>1. /\ a \in Codes /\ Len(a) > 0 /\ (l = <<>> => a = <<7>>)
      /\ l # <<>> => a = <<22, l[1], 7>> /\ l = <<l[1]>> /\ l[1] \in Nat
  BY LockIs DEF OutputLock, Codes
<1>2. /\ b \in Codes /\ Len(b) > 0 /\ (k = <<>> => b = <<7>>)
      /\ k # <<>> => b = <<22, k[1], 7>> /\ k = <<k[1]>> /\ k[1] \in Nat
  BY LockIs DEF OutputLock, Codes
<1> HIDE DEF a, b
<1>3. CASE (l = <<>>) <=> (k = <<>>)
  <2>1. Len(a) = Len(b) /\ (a = b => l = k)
    BY <1>1, <1>2, <1>3
  <2> QED
    BY <1>1, <1>2, <2>1, FixedApart DEF a, b
<1>4. CASE ~((l = <<>>) <=> (k = <<>>))
  <2>1. a[1] # b[1]
    BY <1>1, <1>2, <1>4
  <2> QED
    BY <1>1, <1>2, <2>1, FirstApart DEF a, b
<1> QED
  BY <1>3, <1>4

LEMMA InputLockApart ==
  ASSUME NEW l \in T!Lock, NEW k \in T!Lock
  PROVE  /\ InputLock(l) \in Codes /\ Apart(InputLock(l), InputLock(k))
         /\ InputLock(l) = InputLock(k) => l = k
<1> DEFINE a == InputLock(l)
           b == InputLock(k)
<1>1. /\ a \in Codes /\ Len(a) > 0 /\ (l = <<>> => a = <<5>>)
      /\ l # <<>> => a = <<21, l[1]>> /\ l = <<l[1]>> /\ l[1] \in Nat
  BY LockIs DEF InputLock, Codes
<1>2. /\ b \in Codes /\ Len(b) > 0 /\ (k = <<>> => b = <<5>>)
      /\ k # <<>> => b = <<21, k[1]>> /\ k = <<k[1]>> /\ k[1] \in Nat
  BY LockIs DEF InputLock, Codes
<1> HIDE DEF a, b
<1>3. CASE (l = <<>>) <=> (k = <<>>)
  <2>1. Len(a) = Len(b) /\ (a = b => l = k)
    BY <1>1, <1>2, <1>3
  <2> QED
    BY <1>1, <1>2, <2>1, FixedApart DEF a, b
<1>4. CASE ~((l = <<>>) <=> (k = <<>>))
  <2>1. a[1] # b[1]
    BY <1>1, <1>2, <1>4
  <2> QED
    BY <1>1, <1>2, <2>1, FirstApart DEF a, b
<1> QED
  BY <1>3, <1>4

SomeOutput == T!Output({"Some"})
SomeInput == T!Input({"Some"})

LEMMA OutputApart ==
  ASSUME NEW o \in SomeOutput, NEW p \in SomeOutput
  PROVE  /\ T!output_bytes(o) \in Codes /\ Apart(T!output_bytes(o), T!output_bytes(p))
         /\ T!output_bytes(o) = T!output_bytes(p) => o = p
<1> DEFINE a == <<o.asset_id>>
           b == OutputLock(o.lock)
           c == T!transfer_bytes(o)
           d == <<p.asset_id>>
           e == OutputLock(p.lock)
           f == T!transfer_bytes(p)
<1>1. /\ o.asset_id \in Nat /\ o.lock \in T!Lock /\ o.amount \in Nat /\ o.owners \in T!OutputOwners
      /\ p.asset_id \in Nat /\ p.lock \in T!Lock /\ p.amount \in Nat /\ p.owners \in T!OutputOwners
  BY DEF SomeOutput, T!Output
<1>2. a \in Codes /\ d \in Codes /\ Len(a) = Len(d) /\ (a = d => o.asset_id = p.asset_id)
  BY <1>1, NumberCode
<1>3. b \in Codes /\ e \in Codes /\ Apart(b, e) /\ (b = e => o.lock = p.lock)
  BY <1>1, OutputLockApart
<1>4. /\ c \in Codes /\ f \in Codes /\ Apart(c, f)
      /\ c = f => o.amount = p.amount /\ o.owners = p.owners
  BY <1>1, TransferApart
<1>5. T!output_bytes(o) = Cat(Cat(a, b), c) /\ T!output_bytes(p) = Cat(Cat(d, e), f)
  BY DEF T!output_bytes, Cat, OutputLock
<1>6. ASSUME a = d, b = e, c = f PROVE o = p
  BY <1>2, <1>3, <1>4, <1>6 DEF SomeOutput, T!Output
<1> HIDE DEF a, b, c, d, e, f
<1>7. /\ Cat(a, b) \in Codes /\ Cat(d, e) \in Codes /\ Apart(Cat(a, b), Cat(d, e))
      /\ Cat(a, b) = Cat(d, e) => a = d /\ b = e
  BY <1>2, <1>3, FixedApart, CatApart, CatCode
<1> QED
  BY <1>4, <1>5, <1>6, <1>7, CatApart

LEMMA InputApart ==
  ASSUME NEW o \in SomeInput, NEW p \in SomeInput
  PROVE  /\ T!input_bytes(o) \in Codes /\ Apart(T!input_bytes(o), T!input_bytes(p))
         /\ T!input_bytes(o) = T!input_bytes(p) => o = p
<1> DEFINE a == <<o.tx_id, o.output_index, o.asset_id>>
           b == InputLock(o.lock)
           c == <<o.amount>>
           s == T!Plain(o.sig_indices)
           d == <<p.tx_id, p.output_index, p.asset_id>>
           e == InputLock(p.lock)
           f == <<p.amount>>
           t == T!Plain(p.sig_indices)
<1>1. /\ o.tx_id \in Nat /\ o.output_index \in Nat /\ o.asset_id \in Nat /\ o.lock \in T!Lock
      /\ o.amount \in Nat /\ o.sig_indices \in Codes
      /\ p.tx_id \in Nat /\ p.output_index \in Nat /\ p.asset_id \in Nat /\ p.lock \in T!Lock
      /\ p.amount \in Nat /\ p.sig_indices \in Codes
  BY DEF SomeInput, T!Input, Codes
<1>2. /\ a \in Codes /\ d \in Codes /\ Len(a) = Len(d)
      /\ a = d => o.tx_id = p.tx_id /\ o.output_index = p.output_index /\ o.asset_id = p.asset_id
  BY <1>1 DEF Codes
<1>3. b \in Codes /\ e \in Codes /\ Apart(b, e) /\ (b = e => o.lock = p.lock)
  BY <1>1, InputLockApart
<1>4. c \in Codes /\ f \in Codes /\ Len(c) = Len(f) /\ (c = f => o.amount = p.amount)
  BY <1>1, NumberCode
<1>5. s \in Codes /\ t \in Codes /\ Apart(s, t) /\ (s = t => o.sig_indices = p.sig_indices)
  BY <1>1, PlainApart
<1>6. /\ T!input_bytes(o) = Cat(Cat(Cat(a, b), c), s)
      /\ T!input_bytes(p) = Cat(Cat(Cat(d, e), f), t)
  BY DEF T!input_bytes, Cat, InputLock
<1>7. ASSUME a = d, b = e, c = f, s = t PROVE o = p
  BY <1>2, <1>3, <1>4, <1>5, <1>7 DEF SomeInput, T!Input
<1> HIDE DEF a, b, c, d, e, f, s, t
<1> DEFINE u == Cat(a, b)
           v == Cat(d, e)
           g == Cat(u, c)
           h == Cat(v, f)
<1>8. u \in Codes /\ v \in Codes /\ Apart(u, v) /\ (u = v => a = d /\ b = e)
  BY <1>2, <1>3, FixedApart, CatApart, CatCode
<1> HIDE DEF u, v
<1>9. g \in Codes /\ h \in Codes /\ Apart(g, h) /\ (g = h => u = v /\ c = f)
  BY <1>4, <1>8, FixedApart, CatApart, CatCode
<1> HIDE DEF g, h
<1>10. /\ Cat(g, s) \in Codes /\ Apart(Cat(g, s), Cat(h, t))
       /\ Cat(g, s) = Cat(h, t) => g = h /\ s = t
  BY <1>5, <1>9, CatApart
<1> QED
  BY <1>6, <1>7, <1>8, <1>9, <1>10 DEF u, v, g, h

OutputCode == [o \in SomeOutput |-> T!output_bytes(o)]
InputCode == [i \in SomeInput |-> T!input_bytes(i)]
CredCode == [c \in Codes |-> T!cred_bytes(c)]

LEMMA OutputCodeTells ==
  OutputCode \in [SomeOutput -> Codes] /\ Tells(OutputCode)
<1>1. OutputCode \in [SomeOutput -> Codes]
  BY OutputApart DEF OutputCode
<1>2. \A o, p \in SomeOutput : /\ Apart(OutputCode[o], OutputCode[p])
                               /\ OutputCode[o] = OutputCode[p] => o = p
  BY OutputApart DEF OutputCode
<1> QED
  BY <1>1, <1>2, TellsIs

LEMMA InputCodeTells ==
  InputCode \in [SomeInput -> Codes] /\ Tells(InputCode)
<1>1. InputCode \in [SomeInput -> Codes]
  BY InputApart DEF InputCode
<1>2. \A i, j \in SomeInput : /\ Apart(InputCode[i], InputCode[j])
                              /\ InputCode[i] = InputCode[j] => i = j
  BY InputApart DEF InputCode
<1> QED
  BY <1>1, <1>2, TellsIs

LEMMA CredApart ==
  ASSUME NEW c \in Codes, NEW d \in Codes
  PROVE  /\ T!cred_bytes(c) \in Codes /\ Apart(T!cred_bytes(c), T!cred_bytes(d))
         /\ T!cred_bytes(c) = T!cred_bytes(d) => c = d
<1> DEFINE a == <<9>>
           b == T!Plain(c)
           e == T!Plain(d)
<1>1. a \in Codes
  BY NumberCode
<1>2. b \in Codes /\ e \in Codes /\ Apart(b, e) /\ (b = e => c = d)
  BY PlainApart
<1>3. T!cred_bytes(c) = Cat(a, b) /\ T!cred_bytes(d) = Cat(a, e)
  BY DEF T!cred_bytes, Cat
<1> HIDE DEF a, b, e
<1> QED
  BY <1>1, <1>2, <1>3, FixedApart, CatApart

LEMMA CredCodeTells ==
  CredCode \in [Codes -> Codes] /\ Tells(CredCode)
<1>1. CredCode \in [Codes -> Codes]
  BY CredApart DEF CredCode
<1>2. \A c, d \in Codes : Apart(CredCode[c], CredCode[d]) /\ (CredCode[c] = CredCode[d] => c = d)
  BY CredApart DEF CredCode
<1> QED
  BY <1>1, <1>2, TellsIs

LEMMA OutputsApart ==
  ASSUME NEW s \in Seq(SomeOutput), NEW t \in Seq(SomeOutput)
  PROVE  LET a == T!List(T!output_bytes, s)
             b == T!List(T!output_bytes, t)
         IN  a \in Codes /\ Apart(a, b) /\ (a = b => s = t)
<1>1. ASSUME NEW u \in Seq(SomeOutput)
      PROVE  T!List(T!output_bytes, u) = ListCode(OutputCode, u)
  <2>1. \A i \in DOMAIN u : u[i] \in SomeOutput
    BY LenProperties, ElementOfSeq
  <2>2. [i \in DOMAIN u |-> T!output_bytes(u[i])] = [i \in DOMAIN u |-> OutputCode[u[i]]]
    BY <2>1 DEF OutputCode
  <2>3. T!List(T!output_bytes, u)
        = Cat(<<Len(u)>>, T!FlattenSeq([i \in DOMAIN u |-> T!output_bytes(u[i])]))
    BY Zenon DEF T!List, Cat
  <2> QED
    BY <2>2, <2>3, Zenon DEF ListCode, CodesOf
<1> QED
  BY <1>1, OutputCodeTells, ListApart

LEMMA InputsApart ==
  ASSUME NEW s \in Seq(SomeInput), NEW t \in Seq(SomeInput)
  PROVE  LET a == T!List(T!input_bytes, s)
             b == T!List(T!input_bytes, t)
         IN  a \in Codes /\ Apart(a, b) /\ (a = b => s = t)
<1>1. ASSUME NEW u \in Seq(SomeInput)
      PROVE  T!List(T!input_bytes, u) = ListCode(InputCode, u)
  <2>1. \A i \in DOMAIN u : u[i] \in SomeInput
    BY LenProperties, ElementOfSeq
  <2>2. [i \in DOMAIN u |-> T!input_bytes(u[i])] = [i \in DOMAIN u |-> InputCode[u[i]]]
    BY <2>1 DEF InputCode
  <2>3. T!List(T!input_bytes, u)
        = Cat(<<Len(u)>>, T!FlattenSeq([i \in DOMAIN u |-> T!input_bytes(u[i])]))
    BY Zenon DEF T!List, Cat
  <2> QED
    BY <2>2, <2>3, Zenon DEF ListCode, CodesOf
<1> QED
  BY <1>1, InputCodeTells, ListApart

LEMMA CredsApart ==
  ASSUME NEW s \in Seq(Codes), NEW t \in Seq(Codes)
  PROVE  LET a == T!List(T!cred_bytes, s)
             b == T!List(T!cred_bytes, t)
         IN  a \in Codes /\ Apart(a, b) /\ (a = b => s = t)
<1>1. ASSUME NEW u \in Seq(Codes)
      PROVE  T!List(T!cred_bytes, u) = ListCode(CredCode, u)
  <2>1. \A i \in DOMAIN u : u[i] \in Codes
    BY LenProperties, ElementOfSeq
  <2>2. [i \in DOMAIN u |-> T!cred_bytes(u[i])] = [i \in DOMAIN u |-> CredCode[u[i]]]
    BY <2>1 DEF CredCode
  <2>3. T!List(T!cred_bytes, u)
        = Cat(<<Len(u)>>, T!FlattenSeq([i \in DOMAIN u |-> T!cred_bytes(u[i])]))
    BY Zenon DEF T!List, Cat
  <2> QED
    BY <2>2, <2>3, Zenon DEF ListCode, CodesOf
<1> QED
  BY <1>1, CredCodeTells, ListApart

\* Codes to be told apart.
CodePair(a, b) == a \in Codes /\ b \in Codes /\ Apart(a, b)

LEMMA CatCodes ==
  ASSUME NEW a, NEW b, NEW c, NEW d, CodePair(a, c), CodePair(b, d)
  PROVE  /\ CodePair(Cat(a, b), Cat(c, d))
         /\ Cat(a, b) = Cat(c, d) => a = c /\ b = d
<1>1. a \in Codes /\ c \in Codes /\ Apart(a, c) /\ b \in Codes /\ d \in Codes /\ Apart(b, d)
  BY DEF CodePair
<1> QED
  BY <1>1, CatApart, CatCode DEF CodePair

LEMMA CatCodes3 ==
  ASSUME NEW a, NEW b, NEW c, NEW d, NEW e, NEW f,
         CodePair(a, d), CodePair(b, e), CodePair(c, f)
  PROVE  /\ CodePair(Cat(Cat(a, b), c), Cat(Cat(d, e), f))
         /\ Cat(Cat(a, b), c) = Cat(Cat(d, e), f) => a = d /\ b = e /\ c = f
<1> DEFINE u == Cat(a, b)
           v == Cat(d, e)
<1>1. CodePair(u, v) /\ (u = v => a = d /\ b = e)
  BY CatCodes
<1> HIDE DEF u, v
<1>2. CodePair(Cat(u, c), Cat(v, f)) /\ (Cat(u, c) = Cat(v, f) => u = v /\ c = f)
  BY <1>1, CatCodes
<1> QED
  BY <1>1, <1>2 DEF u, v

LEMMA NumberCodes ==
  ASSUME NEW n \in Nat, NEW m \in Nat
  PROVE  CodePair(<<n>>, <<m>>) /\ (<<n>> = <<m>> => n = m)
<1> DEFINE a == <<n>>
           b == <<m>>
<1>1. a \in Codes /\ b \in Codes /\ Len(a) = Len(b) /\ (a = b => n = m)
  BY NumberCode
<1> HIDE DEF a, b
<1>2. CodePair(a, b) /\ (a = b => n = m)
  BY <1>1, FixedApart DEF CodePair
<1> QED
  BY <1>2 DEF a, b

LEMMA FixedCodes ==
  ASSUME NEW a \in Codes, NEW b \in Codes, Len(a) = Len(b)
  PROVE  CodePair(a, b)
BY FixedApart DEF CodePair

-----------------------------------------------------------------------------
\* A list all of whose members are one.
Somes(s) == \A i \in DOMAIN s : s[i].option = "Some"

LEMMA SomesAre ==
  /\ \A s \in T!Outputs : Somes(s) => s \in Seq(SomeOutput)
  /\ \A s \in T!Inputs : Somes(s) => s \in Seq(SomeInput)
<1>1. ASSUME NEW s \in T!Outputs, Somes(s) PROVE s \in Seq(SomeOutput)
  <2>1. Len(s) \in Nat /\ DOMAIN s = 1..Len(s) /\ s = [i \in 1..Len(s) |-> s[i]]
    BY LenProperties DEF T!Outputs
  <2>2. ASSUME NEW i \in 1..Len(s) PROVE s[i] \in SomeOutput
    <3>1. s[i] \in T!Output(T!Option) /\ s[i].option = "Some"
      BY <1>1, <2>1, ElementOfSeq DEF T!Outputs, Somes
    <3> QED
      BY <3>1 DEF SomeOutput, T!Output
  <2> QED
    BY <2>1, <2>2, IsASeq
<1>2. ASSUME NEW s \in T!Inputs, Somes(s) PROVE s \in Seq(SomeInput)
  <2>1. Len(s) \in Nat /\ DOMAIN s = 1..Len(s) /\ s = [i \in 1..Len(s) |-> s[i]]
    BY LenProperties DEF T!Inputs
  <2>2. ASSUME NEW i \in 1..Len(s) PROVE s[i] \in SomeInput
    <3>1. s[i] \in T!Input(T!Option) /\ s[i].option = "Some"
      BY <1>2, <2>1, ElementOfSeq DEF T!Inputs, Somes
    <3> QED
      BY <3>1 DEF SomeInput, T!Input
  <2> QED
    BY <2>1, <2>2, IsASeq
<1> QED
  BY <1>1, <1>2

LEMMA ListCodePair ==
  /\ \A s, t \in T!Outputs : Somes(s) /\ Somes(t) =>
       /\ CodePair(T!List(T!output_bytes, s), T!List(T!output_bytes, t))
       /\ T!List(T!output_bytes, s) = T!List(T!output_bytes, t) => s = t
  /\ \A s, t \in T!Inputs : Somes(s) /\ Somes(t) =>
       /\ CodePair(T!List(T!input_bytes, s), T!List(T!input_bytes, t))
       /\ T!List(T!input_bytes, s) = T!List(T!input_bytes, t) => s = t
BY SomesAre, OutputsApart, InputsApart DEF CodePair

LEMMA PlainCodes ==
  ASSUME NEW s \in Seq(Nat), NEW t \in Seq(Nat)
  PROVE  CodePair(T!Plain(s), T!Plain(t)) /\ (T!Plain(s) = T!Plain(t) => s = t)
BY PlainApart DEF CodePair, Codes

LEMMA OwnersCodes ==
  ASSUME NEW w \in T!OutputOwners, NEW z \in T!OutputOwners
  PROVE  /\ CodePair(T!owners_bytes(w), T!owners_bytes(z))
         /\ T!owners_bytes(w) = T!owners_bytes(z) => w = z
BY OwnersApart DEF CodePair

LEMMA CompleteTx ==
  ASSUME NEW type \in DOMAIN T!Own, NEW t \in T!Tx(type), T!Complete(t)
  PROVE  /\ t.type = type /\ t.network_id \in Nat /\ t.blockchain_id \in Nat
         /\ t.outputs \in T!Outputs /\ Somes(t.outputs)
         /\ t.inputs \in T!Inputs /\ Somes(t.inputs)
         /\ t.memo \in Seq(Nat) /\ t.own \in T!Own[type]
         /\ "outputs" \in DOMAIN t.own => Somes(t.own.outputs)
         /\ "inputs" \in DOMAIN t.own => Somes(t.own.inputs)
BY DEF T!Tx, T!Complete, Somes

LEMMA TypeIds ==
  ASSUME NEW type \in DOMAIN T!Own, NEW other \in DOMAIN T!Own
  PROVE  /\ T!TypeId[type] \in Nat /\ T!TypeId[other] \in Nat
         /\ T!TypeId[type] = T!TypeId[other] => type = other
BY DEF T!Own, T!TypeId

LEMMA BaseCodes ==
  ASSUME NEW type \in DOMAIN T!Own, NEW t \in T!Tx(type), T!Complete(t),
         NEW other \in DOMAIN T!Own, NEW u \in T!Tx(other), T!Complete(u)
  PROVE  /\ CodePair(T!base_bytes(t), T!base_bytes(u))
         /\ T!base_bytes(t) = T!base_bytes(u) =>
              /\ type = other /\ t.network_id = u.network_id /\ t.blockchain_id = u.blockchain_id
              /\ t.outputs = u.outputs /\ t.inputs = u.inputs /\ t.memo = u.memo
<1> DEFINE a == <<T!VERSION, T!TypeId[t.type], t.network_id, t.blockchain_id>>
           b == T!List(T!output_bytes, t.outputs)
           c == T!List(T!input_bytes, t.inputs)
           d == T!Plain(t.memo)
           e == <<T!VERSION, T!TypeId[u.type], u.network_id, u.blockchain_id>>
           f == T!List(T!output_bytes, u.outputs)
           g == T!List(T!input_bytes, u.inputs)
           h == T!Plain(u.memo)
<1>1. /\ t.type = type /\ t.network_id \in Nat /\ t.blockchain_id \in Nat
      /\ t.outputs \in T!Outputs /\ Somes(t.outputs)
      /\ t.inputs \in T!Inputs /\ Somes(t.inputs) /\ t.memo \in Seq(Nat)
  BY CompleteTx
<1>2. /\ u.type = other /\ u.network_id \in Nat /\ u.blockchain_id \in Nat
      /\ u.outputs \in T!Outputs /\ Somes(u.outputs)
      /\ u.inputs \in T!Inputs /\ Somes(u.inputs) /\ u.memo \in Seq(Nat)
  BY CompleteTx
<1>3. /\ CodePair(a, e)
      /\ a = e => type = other /\ t.network_id = u.network_id /\ t.blockchain_id = u.blockchain_id
  <2>1. T!VERSION \in Nat
    BY DEF T!VERSION
  <2>2. /\ T!TypeId[t.type] \in Nat /\ T!TypeId[u.type] \in Nat
        /\ T!TypeId[t.type] = T!TypeId[u.type] => type = other
    BY <1>1, <1>2, TypeIds
  <2> DEFINE n == T!VERSION
             i == T!TypeId[t.type]
             j == T!TypeId[u.type]
             k == t.network_id
             l == u.network_id
             p == t.blockchain_id
             q == u.blockchain_id
  <2>3. /\ n \in Nat /\ i \in Nat /\ j \in Nat /\ (i = j => type = other)
        /\ k \in Nat /\ l \in Nat /\ p \in Nat /\ q \in Nat
    BY <1>1, <1>2, <2>1, <2>2
  <2>4. a = <<n, i, k, p>> /\ e = <<n, j, l, q>>
    OBVIOUS
  <2> HIDE DEF n, i, j, k, l, p, q
  <2>5. a \in Codes /\ e \in Codes /\ Len(a) = Len(e) /\ (a = e => i = j /\ k = l /\ p = q)
    <3> HIDE DEF a, e
    <3> QED
      BY <2>3, <2>4 DEF Codes
  <2> HIDE DEF a, e
  <2>6. CodePair(a, e)
    BY <2>5, FixedCodes
  <2> QED
    BY <2>3, <2>5, <2>6 DEF k, l, p, q
<1>4. CodePair(b, f) /\ (b = f => t.outputs = u.outputs)
  BY <1>1, <1>2, ListCodePair
<1>5. CodePair(c, g) /\ (c = g => t.inputs = u.inputs)
  BY <1>1, <1>2, ListCodePair
<1>6. CodePair(d, h) /\ (d = h => t.memo = u.memo)
  BY <1>1, <1>2, PlainCodes
<1>7. T!base_bytes(t) = Cat(Cat(Cat(a, b), c), d) /\ T!base_bytes(u) = Cat(Cat(Cat(e, f), g), h)
  BY Zenon DEF T!base_bytes, Cat
<1> HIDE DEF a, b, c, d, e, f, g, h
<1> DEFINE v == Cat(Cat(a, b), c)
           w == Cat(Cat(e, f), g)
<1>8. CodePair(v, w) /\ (v = w => a = e /\ b = f /\ c = g)
  BY <1>3, <1>4, <1>5, CatCodes3
<1>9. T!base_bytes(t) = Cat(v, d) /\ T!base_bytes(u) = Cat(w, h)
  BY <1>7
<1> HIDE DEF v, w
<1> QED
  BY <1>3, <1>4, <1>5, <1>6, <1>8, <1>9, CatCodes

LEMMA ValidatorCodes ==
  ASSUME NEW v \in T!Validator, NEW w \in T!Validator
  PROVE  /\ CodePair(T!validator_bytes(v), T!validator_bytes(w))
         /\ T!validator_bytes(v) = T!validator_bytes(w) => v = w
<1> DEFINE a == T!validator_bytes(v)
           b == T!validator_bytes(w)
<1>1. a \in Codes /\ b \in Codes /\ Len(a) = Len(b) /\ (a = b => v = w)
  BY DEF Codes, T!validator_bytes, T!Validator
<1> HIDE DEF a, b
<1>2. CodePair(a, b) /\ (a = b => v = w)
  BY <1>1, FixedCodes
<1> QED
  BY <1>2 DEF a, b

SignerCode(signer) == IF signer = <<>> THEN <<27>> ELSE <<28>> \o signer

LEMMA SignerCodes ==
  ASSUME NEW s \in T!Signer, NEW t \in T!Signer
  PROVE  /\ CodePair(SignerCode(s), SignerCode(t))
         /\ SignerCode(s) = SignerCode(t) => s = t
<1>1. ASSUME NEW r \in T!Signer, r # <<>>
      PROVE  r \in Codes /\ Len(r) = 2 /\ SignerCode(r) = Cat(<<28>>, r)
  <2>1. PICK n \in Nat, m \in Nat : r = <<n, m>>
    BY <1>1 DEF T!Signer
  <2>2. r \in Codes /\ Len(r) = 2
    BY <2>1 DEF Codes
  <2> QED
    BY <1>1, <2>2, Zenon DEF SignerCode, Cat
<1>2. ASSUME NEW r \in T!Signer, r = <<>>
      PROVE  SignerCode(r) = <<27>>
  BY <1>2 DEF SignerCode
<1>3. <<27>> \in Codes /\ <<28>> \in Codes /\ CodePair(<<28>>, <<28>>) /\ CodePair(<<27>>, <<27>>)
  BY NumberCode, NumberCodes
<1>4. ASSUME NEW r \in Codes
      PROVE  Cat(<<28>>, r) \in Codes /\ Apart(<<27>>, Cat(<<28>>, r)) /\ Apart(Cat(<<28>>, r), <<27>>)
             /\ <<27>> # Cat(<<28>>, r)
  <2>1. Cat(<<28>>, r) \in Codes
    BY <1>3, CatCode
  <2>2. ASSUME NEW x \in Codes, NEW y \in Codes
        PROVE  Cat(<<27>>, x) # Cat(Cat(<<28>>, r), y)
    <3> SUFFICES Cat(<<27>>, x) = Cat(Cat(<<28>>, r), y) => FALSE
      OBVIOUS
    <3> HAVE Cat(<<27>>, x) = Cat(Cat(<<28>>, r), y)
    <3>1. Cat(<<27>>, x) = Cat(<<28>>, Cat(r, y)) /\ Cat(r, y) \in Codes
      BY <1>3, CatAssoc, CatCode
    <3>2. 27 = 28
      BY <3>1, NumberTells
    <3> QED
      BY <3>2
  <2>3. <<27>> # Cat(<<28>>, r)
    BY <1>3, <2>2
  <2> QED
    BY <2>1, <2>2, <2>3 DEF Apart
<1> DEFINE a == Cat(<<28>>, s)
           b == Cat(<<28>>, t)
           none == <<27>>
<1>5. /\ s # <<>> => SignerCode(s) = a /\ CodePair(none, a) /\ CodePair(a, none) /\ none # a
      /\ s = <<>> => SignerCode(s) = none
      /\ t # <<>> => SignerCode(t) = b /\ CodePair(none, b) /\ CodePair(b, none) /\ none # b
      /\ t = <<>> => SignerCode(t) = none
      /\ CodePair(none, none)
  BY <1>1, <1>2, <1>3, <1>4, Zenon DEF CodePair
<1>6. s # <<>> /\ t # <<>> => CodePair(a, b) /\ (a = b => s = t)
  <2>1. s # <<>> /\ t # <<>> => CodePair(s, t)
    BY <1>1, FixedCodes
  <2> QED
    BY <1>3, <2>1, CatCodes
<1> HIDE DEF a, b, none
<1> QED
  BY <1>5, <1>6

LEMMA Owns ==
  /\ "avm_ImportTx" \in DOMAIN T!Own /\ T!Own["avm_ImportTx"] = [chain : Nat, inputs : T!Inputs]
  /\ "ImportTx" \in DOMAIN T!Own /\ T!Own["ImportTx"] = [chain : Nat, inputs : T!Inputs]
  /\ "avm_ExportTx" \in DOMAIN T!Own /\ T!Own["avm_ExportTx"] = [chain : Nat, outputs : T!Outputs]
  /\ "ExportTx" \in DOMAIN T!Own /\ T!Own["ExportTx"] = [chain : Nat, outputs : T!Outputs]
BY DEF T!Own

\* What two transactions of one type have of their own.
OwnCodes(t, u) ==
  CodePair(T!own_bytes(t), T!own_bytes(u)) /\ (T!own_bytes(t) = T!own_bytes(u) => t.own = u.own)

LEMMA BaseTxCodes ==
  ASSUME NEW t \in T!Tx("avm_BaseTx"), NEW u \in T!Tx("avm_BaseTx")
  PROVE  OwnCodes(t, u)
<1>1. T!own_bytes(t) = <<>> /\ T!own_bytes(u) = <<>>
  BY DEF T!own_bytes, T!Tx
<1>2. <<>> \in Codes
  BY DEF Codes
<1>3. CodePair(<<>>, <<>>)
  BY <1>2, FixedCodes
<1>4. t.own = u.own
  BY DEF T!Tx, T!Own
<1> QED
  BY <1>1, <1>3, <1>4 DEF OwnCodes

LEMMA ImportCodes ==
  ASSUME NEW type \in {"avm_ImportTx", "ImportTx"},
         NEW t \in T!Tx(type), T!Complete(t), NEW u \in T!Tx(type), T!Complete(u)
  PROVE  OwnCodes(t, u)
<1> DEFINE p == t.own
           q == u.own
           a == <<p.chain>>
           b == T!List(T!input_bytes, p.inputs)
           c == <<q.chain>>
           d == T!List(T!input_bytes, q.inputs)
<1>1. /\ p \in [chain : Nat, inputs : T!Inputs] /\ q \in [chain : Nat, inputs : T!Inputs]
      /\ Somes(p.inputs) /\ Somes(q.inputs)
  <2>1. type \in DOMAIN T!Own /\ T!Own[type] = [chain : Nat, inputs : T!Inputs]
    BY Owns
  <2>2. /\ p \in T!Own[type] /\ ("inputs" \in DOMAIN p => Somes(p.inputs))
        /\ q \in T!Own[type] /\ ("inputs" \in DOMAIN q => Somes(q.inputs))
    BY <2>1, CompleteTx
  <2> HIDE DEF p, q
  <2>3. "inputs" \in DOMAIN p /\ "inputs" \in DOMAIN q
    BY <2>1, <2>2
  <2> QED
    BY <2>1, <2>2, <2>3
<1>2. CodePair(a, c) /\ (a = c => p.chain = q.chain)
  BY <1>1, NumberCodes
<1>3. CodePair(b, d) /\ (b = d => p.inputs = q.inputs)
  BY <1>1, ListCodePair
<1>4. T!own_bytes(t) = Cat(a, b) /\ T!own_bytes(u) = Cat(c, d)
  BY DEF T!own_bytes, T!import_bytes, T!avm_import_bytes, T!Tx, Cat
<1>5. a = c /\ b = d => p = q
  BY <1>1, <1>2, <1>3
<1> HIDE DEF a, b, c, d
<1> QED
  BY <1>2, <1>3, <1>4, <1>5, CatCodes DEF OwnCodes

LEMMA ExportCodes ==
  ASSUME NEW type \in {"avm_ExportTx", "ExportTx"},
         NEW t \in T!Tx(type), T!Complete(t), NEW u \in T!Tx(type), T!Complete(u)
  PROVE  OwnCodes(t, u)
<1> DEFINE p == t.own
           q == u.own
           a == <<p.chain>>
           b == T!List(T!output_bytes, p.outputs)
           c == <<q.chain>>
           d == T!List(T!output_bytes, q.outputs)
<1>1. /\ p \in [chain : Nat, outputs : T!Outputs] /\ q \in [chain : Nat, outputs : T!Outputs]
      /\ Somes(p.outputs) /\ Somes(q.outputs)
  <2>1. type \in DOMAIN T!Own /\ T!Own[type] = [chain : Nat, outputs : T!Outputs]
    BY Owns
  <2>2. /\ p \in T!Own[type] /\ ("outputs" \in DOMAIN p => Somes(p.outputs))
        /\ q \in T!Own[type] /\ ("outputs" \in DOMAIN q => Somes(q.outputs))
    BY <2>1, CompleteTx
  <2> HIDE DEF p, q
  <2>3. "outputs" \in DOMAIN p /\ "outputs" \in DOMAIN q
    BY <2>1, <2>2
  <2> QED
    BY <2>1, <2>2, <2>3
<1>2. CodePair(a, c) /\ (a = c => p.chain = q.chain)
  BY <1>1, NumberCodes
<1>3. CodePair(b, d) /\ (b = d => p.outputs = q.outputs)
  BY <1>1, ListCodePair
<1>4. T!own_bytes(t) = Cat(a, b) /\ T!own_bytes(u) = Cat(c, d)
  BY DEF T!own_bytes, T!export_bytes, T!avm_export_bytes, T!Tx, Cat
<1>5. a = c /\ b = d => p = q
  BY <1>1, <1>2, <1>3
<1> HIDE DEF a, b, c, d
<1> QED
  BY <1>2, <1>3, <1>4, <1>5, CatCodes DEF OwnCodes

LEMMA CreateSubnetCodes ==
  ASSUME NEW t \in T!Tx("CreateSubnetTx"), NEW u \in T!Tx("CreateSubnetTx")
  PROVE  OwnCodes(t, u)
<1> DEFINE p == t.own
           q == u.own
           a == <<11>>
           b == T!owners_bytes(p.rewards_owner)
           d == T!owners_bytes(q.rewards_owner)
<1>1. p \in [rewards_owner : T!OutputOwners] /\ q \in [rewards_owner : T!OutputOwners]
  BY DEF T!Tx, T!Own
<1>2. CodePair(a, a)
  BY NumberCodes
<1>3. CodePair(b, d) /\ (b = d => p.rewards_owner = q.rewards_owner)
  BY <1>1, OwnersCodes
<1>4. T!own_bytes(t) = Cat(a, b) /\ T!own_bytes(u) = Cat(a, d)
  BY DEF T!own_bytes, T!create_subnet_bytes, T!Tx, Cat
<1>5. b = d => p = q
  BY <1>1, <1>3
<1> HIDE DEF a, b, d
<1> QED
  BY <1>2, <1>3, <1>4, <1>5, CatCodes DEF OwnCodes

LEMMA AuthCodes ==
  ASSUME NEW s \in Seq(Nat), NEW t \in Seq(Nat)
  PROVE  /\ CodePair(T!auth_bytes(s), T!auth_bytes(t))
         /\ T!auth_bytes(s) = T!auth_bytes(t) => s = t
<1> DEFINE a == <<10>>
           b == T!Plain(s)
           d == T!Plain(t)
<1>1. CodePair(a, a)
  BY NumberCodes
<1>2. CodePair(b, d) /\ (b = d => s = t)
  BY PlainCodes
<1>3. T!auth_bytes(s) = Cat(a, b) /\ T!auth_bytes(t) = Cat(a, d)
  BY DEF T!auth_bytes, Cat
<1> HIDE DEF a, b, d
<1> QED
  BY <1>1, <1>2, <1>3, CatCodes

LEMMA MoreOwns ==
  /\ T!Own["AddSubnetValidatorTx"] =
       [validator : T!Validator, subnet_id : Nat, sig_indices : Seq(Nat)]
  /\ T!Own["CreateChainTx"] =
       [subnet_id : Nat, chain_name : T!Name, vm_id : Nat, fx_ids : Seq(Nat),
        genesis : Seq(Nat), sig_indices : Seq(Nat)]
  /\ T!Own["AddValidatorTx"] =
       [validator : T!Validator, outputs : T!Outputs, rewards_owner : T!OutputOwners, shares : Nat]
  /\ T!Own["AddPermissionlessValidatorTx"] =
       [validator : T!Validator, subnet_id : Nat, signer : T!Signer, outputs : T!Outputs,
        rewards_owner : T!OutputOwners, delegator_owner : T!OutputOwners, shares : Nat]
BY DEF T!Own

LEMMA SubnetValidatorCodes ==
  ASSUME NEW t \in T!Tx("AddSubnetValidatorTx"), NEW u \in T!Tx("AddSubnetValidatorTx")
  PROVE  OwnCodes(t, u)
<1> DEFINE p == t.own
           q == u.own
           a == T!validator_bytes(p.validator)
           b == <<p.subnet_id>>
           c == T!auth_bytes(p.sig_indices)
           d == T!validator_bytes(q.validator)
           e == <<q.subnet_id>>
           f == T!auth_bytes(q.sig_indices)
           R == [validator : T!Validator, subnet_id : Nat, sig_indices : Seq(Nat)]
<1>1. p \in R /\ q \in R
  <2> HIDE DEF R
  <2>1. p \in T!Own["AddSubnetValidatorTx"] /\ q \in T!Own["AddSubnetValidatorTx"]
    BY DEF T!Tx
  <2> QED
    BY <2>1, MoreOwns DEF R
<1>2. CodePair(a, d) /\ (a = d => p.validator = q.validator)
  BY <1>1, ValidatorCodes
<1>3. CodePair(b, e) /\ (b = e => p.subnet_id = q.subnet_id)
  BY <1>1, NumberCodes
<1>4. CodePair(c, f) /\ (c = f => p.sig_indices = q.sig_indices)
  BY <1>1, AuthCodes
<1>5. T!own_bytes(t) = Cat(Cat(a, b), c) /\ T!own_bytes(u) = Cat(Cat(d, e), f)
  BY DEF T!own_bytes, T!add_subnet_validator_bytes, T!Tx, Cat
<1>6. a = d /\ b = e /\ c = f => p = q
  BY <1>1, <1>2, <1>3, <1>4
<1> HIDE DEF a, b, c, d, e, f
<1> QED
  BY <1>2, <1>3, <1>4, <1>5, <1>6, CatCodes3 DEF OwnCodes

\* The length of a name is not cut.
LEMMA NameCodes ==
  ASSUME NEW s \in T!Name, NEW r \in T!Name
  PROVE  CodePair(T!pack_str(s), T!pack_str(r)) /\ (T!pack_str(s) = T!pack_str(r) => s = r)
<1>1. T!U16 = 65536 /\ T!MAX_STR_LEN = 65534
  BY DEF T!U16, T!MAX_STR_LEN
<1>2. ASSUME NEW n \in T!Name PROVE n \in Seq(Nat) /\ T!pack_str(n) = T!Plain(n)
  <2>1. n \in Seq(Nat) /\ Len(n) <= T!MAX_STR_LEN
    BY <1>2, Zenon DEF T!Name
  <2>2. Len(n) \in Nat /\ Len(n) < 65536
    BY <1>1, <2>1, LenProperties
  <2>3. Len(n) % T!U16 = Len(n)
    BY <1>1, <2>2
  <2> QED
    BY <2>1, <2>3, Zenon DEF T!pack_str, T!Plain
<1>3. /\ s \in Seq(Nat) /\ r \in Seq(Nat)
      /\ T!pack_str(s) = T!Plain(s) /\ T!pack_str(r) = T!Plain(r)
  BY <1>2
<1>4. CodePair(T!Plain(s), T!Plain(r)) /\ (T!Plain(s) = T!Plain(r) => s = r)
  BY <1>3, PlainCodes
<1> QED
  BY <1>3, <1>4, Zenon

LEMMA CreateChainCodes ==
  ASSUME NEW t \in T!Tx("CreateChainTx"), NEW u \in T!Tx("CreateChainTx")
  PROVE  OwnCodes(t, u)
<1> DEFINE p == t.own
           q == u.own
           a(o) == <<o.subnet_id>>
           b(o) == T!pack_str(o.chain_name)
           c(o) == <<o.vm_id>>
           d(o) == T!Plain(o.fx_ids)
           e(o) == T!Plain(o.genesis)
           f(o) == T!auth_bytes(o.sig_indices)
           abc(o) == Cat(Cat(a(o), b(o)), c(o))
           def(o) == Cat(Cat(abc(o), d(o)), e(o))
           R == [subnet_id : Nat, chain_name : T!Name, vm_id : Nat, fx_ids : Seq(Nat),
                 genesis : Seq(Nat), sig_indices : Seq(Nat)]
<1>1. p \in R /\ q \in R
  <2> HIDE DEF R
  <2>1. p \in T!Own["CreateChainTx"] /\ q \in T!Own["CreateChainTx"]
    BY DEF T!Tx
  <2> QED
    BY <2>1, MoreOwns DEF R
<1>2. CodePair(a(p), a(q)) /\ (a(p) = a(q) => p.subnet_id = q.subnet_id)
  BY <1>1, NumberCodes
<1>3. CodePair(b(p), b(q)) /\ (b(p) = b(q) => p.chain_name = q.chain_name)
  BY <1>1, NameCodes
<1>4. CodePair(c(p), c(q)) /\ (c(p) = c(q) => p.vm_id = q.vm_id)
  BY <1>1, NumberCodes
<1>5. CodePair(d(p), d(q)) /\ (d(p) = d(q) => p.fx_ids = q.fx_ids)
  BY <1>1, PlainCodes
<1>6. CodePair(e(p), e(q)) /\ (e(p) = e(q) => p.genesis = q.genesis)
  BY <1>1, PlainCodes
<1>7. CodePair(f(p), f(q)) /\ (f(p) = f(q) => p.sig_indices = q.sig_indices)
  BY <1>1, AuthCodes
<1>8. T!own_bytes(t) = Cat(def(p), f(p)) /\ T!own_bytes(u) = Cat(def(q), f(q))
  <2>1. T!own_bytes(t) = T!create_chain_bytes(p) /\ T!own_bytes(u) = T!create_chain_bytes(q)
    BY DEF T!own_bytes, T!Tx
  <2> QED
    BY <2>1, Zenon DEF T!create_chain_bytes, Cat
<1> HIDE DEF a, b, c, d, e, f, p, q
<1>9. /\ a(p) = a(q) /\ b(p) = b(q) /\ c(p) = c(q) /\ d(p) = d(q) /\ e(p) = e(q) /\ f(p) = f(q)
      => p = q
  <2>1. /\ p.subnet_id = q.subnet_id /\ p.chain_name = q.chain_name /\ p.vm_id = q.vm_id
        /\ p.fx_ids = q.fx_ids /\ p.genesis = q.genesis /\ p.sig_indices = q.sig_indices
        => p = q
    <3> DEFINE F == {"subnet_id", "chain_name", "vm_id", "fx_ids", "genesis", "sig_indices"}
    <3>1. \A r \in R : DOMAIN r = F /\ r = [x \in F |-> r[x]]
      OBVIOUS
    <3> HIDE DEF R
    <3>2. DOMAIN p = F /\ DOMAIN q = F /\ p = [x \in F |-> p[x]] /\ q = [x \in F |-> q[x]]
      BY <1>1, <3>1
    <3> QED
      BY <3>2
  <2> HIDE DEF R
  <2> QED
    BY <1>2, <1>3, <1>4, <1>5, <1>6, <1>7, <2>1
<1>10. /\ CodePair(abc(p), abc(q))
       /\ abc(p) = abc(q) => a(p) = a(q) /\ b(p) = b(q) /\ c(p) = c(q)
  BY <1>2, <1>3, <1>4, CatCodes3
<1> HIDE DEF abc
<1>11. /\ CodePair(def(p), def(q))
       /\ def(p) = def(q) => abc(p) = abc(q) /\ d(p) = d(q) /\ e(p) = e(q)
  BY <1>5, <1>6, <1>10, CatCodes3
<1> HIDE DEF def
<1> QED
  BY <1>7, <1>8, <1>9, <1>10, <1>11, CatCodes DEF OwnCodes, p, q

LEMMA AddValidatorCodes ==
  ASSUME NEW t \in T!Tx("AddValidatorTx"), T!Complete(t),
         NEW u \in T!Tx("AddValidatorTx"), T!Complete(u)
  PROVE  OwnCodes(t, u)
<1> DEFINE p == t.own
           q == u.own
           a(o) == T!validator_bytes(o.validator)
           b(o) == T!List(T!output_bytes, o.outputs)
           c == <<11>>
           d(o) == T!owners_bytes(o.rewards_owner)
           e(o) == <<o.shares>>
           abc(o) == Cat(Cat(a(o), b(o)), c)
           R == [validator : T!Validator, outputs : T!Outputs, rewards_owner : T!OutputOwners,
                 shares : Nat]
<1>1. p \in R /\ q \in R /\ Somes(p.outputs) /\ Somes(q.outputs)
  <2>1. "AddValidatorTx" \in DOMAIN T!Own
    BY DEF T!Own
  <2>2. /\ p \in T!Own["AddValidatorTx"] /\ ("outputs" \in DOMAIN p => Somes(p.outputs))
        /\ q \in T!Own["AddValidatorTx"] /\ ("outputs" \in DOMAIN q => Somes(q.outputs))
    BY <2>1, CompleteTx
  <2> HIDE DEF p, q
  <2>3. p \in R /\ q \in R
    <3> HIDE DEF R
    <3> QED
      BY <2>2, MoreOwns DEF R
  <2>4. "outputs" \in DOMAIN p /\ "outputs" \in DOMAIN q
    BY <2>3
  <2> QED
    BY <2>2, <2>3, <2>4
<1>2. CodePair(a(p), a(q)) /\ (a(p) = a(q) => p.validator = q.validator)
  BY <1>1, ValidatorCodes
<1>3. CodePair(b(p), b(q)) /\ (b(p) = b(q) => p.outputs = q.outputs)
  BY <1>1, ListCodePair
<1>4. CodePair(c, c)
  BY NumberCodes
<1>5. CodePair(d(p), d(q)) /\ (d(p) = d(q) => p.rewards_owner = q.rewards_owner)
  BY <1>1, OwnersCodes
<1>6. CodePair(e(p), e(q)) /\ (e(p) = e(q) => p.shares = q.shares)
  BY <1>1, NumberCodes
<1>7. /\ T!own_bytes(t) = Cat(Cat(abc(p), d(p)), e(p))
      /\ T!own_bytes(u) = Cat(Cat(abc(q), d(q)), e(q))
  <2>1. T!own_bytes(t) = T!add_validator_bytes(p) /\ T!own_bytes(u) = T!add_validator_bytes(q)
    BY DEF T!own_bytes, T!Tx
  <2> QED
    BY <2>1, Zenon DEF T!add_validator_bytes, Cat
<1>8. a(p) = a(q) /\ b(p) = b(q) /\ d(p) = d(q) /\ e(p) = e(q) => p = q
  BY <1>1, <1>2, <1>3, <1>5, <1>6
<1> HIDE DEF a, b, c, d, e, p, q
<1>9. /\ CodePair(abc(p), abc(q))
      /\ abc(p) = abc(q) => a(p) = a(q) /\ b(p) = b(q)
  BY <1>2, <1>3, <1>4, CatCodes3
<1> HIDE DEF abc
<1> QED
  BY <1>5, <1>6, <1>7, <1>8, <1>9, CatCodes3 DEF OwnCodes, p, q

LEMMA AddPermissionlessValidatorCodes ==
  ASSUME NEW t \in T!Tx("AddPermissionlessValidatorTx"), T!Complete(t),
         NEW u \in T!Tx("AddPermissionlessValidatorTx"), T!Complete(u)
  PROVE  OwnCodes(t, u)
<1> DEFINE p == t.own
           q == u.own
           a(o) == T!validator_bytes(o.validator)
           b(o) == <<o.subnet_id>>
           c(o) == SignerCode(o.signer)
           d(o) == T!List(T!output_bytes, o.outputs)
           e == <<11>>
           f(o) == T!owners_bytes(o.rewards_owner)
           g(o) == T!owners_bytes(o.delegator_owner)
           h(o) == <<o.shares>>
           abc(o) == Cat(Cat(a(o), b(o)), c(o))
           abcde(o) == Cat(Cat(abc(o), d(o)), e)
           abcdefe(o) == Cat(Cat(abcde(o), f(o)), e)
           R == [validator : T!Validator, subnet_id : Nat, signer : T!Signer, outputs : T!Outputs,
                 rewards_owner : T!OutputOwners, delegator_owner : T!OutputOwners, shares : Nat]
<1>1. p \in R /\ q \in R /\ Somes(p.outputs) /\ Somes(q.outputs)
  <2>1. "AddPermissionlessValidatorTx" \in DOMAIN T!Own
    BY DEF T!Own
  <2>2. /\ p \in T!Own["AddPermissionlessValidatorTx"]
        /\ q \in T!Own["AddPermissionlessValidatorTx"]
        /\ "outputs" \in DOMAIN p => Somes(p.outputs)
        /\ "outputs" \in DOMAIN q => Somes(q.outputs)
    BY <2>1, CompleteTx
  <2> HIDE DEF p, q
  <2>3. p \in R /\ q \in R
    <3> HIDE DEF R
    <3> QED
      BY <2>2, MoreOwns DEF R
  <2>4. "outputs" \in DOMAIN p /\ "outputs" \in DOMAIN q
    BY <2>3
  <2> QED
    BY <2>2, <2>3, <2>4
<1>2. CodePair(a(p), a(q)) /\ (a(p) = a(q) => p.validator = q.validator)
  BY <1>1, ValidatorCodes
<1>3. CodePair(b(p), b(q)) /\ (b(p) = b(q) => p.subnet_id = q.subnet_id)
  BY <1>1, NumberCodes
<1>4. CodePair(c(p), c(q)) /\ (c(p) = c(q) => p.signer = q.signer)
  BY <1>1, SignerCodes
<1>5. CodePair(d(p), d(q)) /\ (d(p) = d(q) => p.outputs = q.outputs)
  BY <1>1, ListCodePair
<1>6. CodePair(e, e)
  BY NumberCodes
<1>7. CodePair(f(p), f(q)) /\ (f(p) = f(q) => p.rewards_owner = q.rewards_owner)
  BY <1>1, OwnersCodes
<1>8. CodePair(g(p), g(q)) /\ (g(p) = g(q) => p.delegator_owner = q.delegator_owner)
  BY <1>1, OwnersCodes
<1>9. CodePair(h(p), h(q)) /\ (h(p) = h(q) => p.shares = q.shares)
  BY <1>1, NumberCodes
<1>10. /\ T!own_bytes(t) = Cat(Cat(abcdefe(p), g(p)), h(p))
       /\ T!own_bytes(u) = Cat(Cat(abcdefe(q), g(q)), h(q))
  <2>1. /\ T!own_bytes(t) = T!add_permissionless_validator_bytes(p)
        /\ T!own_bytes(u) = T!add_permissionless_validator_bytes(q)
    BY DEF T!own_bytes, T!Tx
  <2> QED
    BY <2>1, Zenon DEF T!add_permissionless_validator_bytes, Cat, SignerCode
<1>11. /\ a(p) = a(q) /\ b(p) = b(q) /\ c(p) = c(q) /\ d(p) = d(q) /\ f(p) = f(q) /\ g(p) = g(q)
       /\ h(p) = h(q)
       => p = q
  BY <1>1, <1>2, <1>3, <1>4, <1>5, <1>7, <1>8, <1>9
<1> HIDE DEF a, b, c, d, e, f, g, h, p, q
<1>12. /\ CodePair(abc(p), abc(q))
       /\ abc(p) = abc(q) => a(p) = a(q) /\ b(p) = b(q) /\ c(p) = c(q)
  BY <1>2, <1>3, <1>4, CatCodes3
<1> HIDE DEF abc
<1>13. /\ CodePair(abcde(p), abcde(q))
       /\ abcde(p) = abcde(q) => abc(p) = abc(q) /\ d(p) = d(q)
  BY <1>5, <1>6, <1>12, CatCodes3
<1> HIDE DEF abcde
<1>14. /\ CodePair(abcdefe(p), abcdefe(q))
       /\ abcdefe(p) = abcdefe(q) => abcde(p) = abcde(q) /\ f(p) = f(q)
  BY <1>6, <1>7, <1>13, CatCodes3
<1> HIDE DEF abcdefe
<1>15. /\ CodePair(T!own_bytes(t), T!own_bytes(u))
       /\ T!own_bytes(t) = T!own_bytes(u) =>
            abcdefe(p) = abcdefe(q) /\ g(p) = g(q) /\ h(p) = h(q)
  BY <1>8, <1>9, <1>10, <1>14, CatCodes3
<1> QED
  BY <1>11, <1>12, <1>13, <1>14, <1>15 DEF OwnCodes, p, q

LEMMA OwnCodesOfType ==
  ASSUME NEW type \in DOMAIN T!Own, NEW t \in T!Tx(type), T!Complete(t),
         NEW u \in T!Tx(type), T!Complete(u)
  PROVE  OwnCodes(t, u)
<1>1. type \in {"avm_BaseTx", "avm_ImportTx", "avm_ExportTx", "ImportTx", "ExportTx",
                "AddValidatorTx", "AddPermissionlessValidatorTx", "AddSubnetValidatorTx",
                "CreateSubnetTx", "CreateChainTx"}
  BY DEF T!Own
<1> QED
  BY <1>1, BaseTxCodes, ImportCodes, ExportCodes, AddValidatorCodes,
     AddPermissionlessValidatorCodes, SubnetValidatorCodes, CreateSubnetCodes, CreateChainCodes

\* The bytes of a transaction with its credentials.
LEMMA SealedCodes ==
  ASSUME NEW type \in DOMAIN T!Own, NEW t \in T!Tx(type), T!Complete(t),
         NEW other \in DOMAIN T!Own, NEW u \in T!Tx(other), T!Complete(u),
         NEW c \in Seq(Codes), NEW d \in Seq(Codes),
         Cat(Cat(T!base_bytes(t), T!own_bytes(t)), T!List(T!cred_bytes, c))
         = Cat(Cat(T!base_bytes(u), T!own_bytes(u)), T!List(T!cred_bytes, d))
  PROVE  t = u /\ c = d
<1> DEFINE b(v) == T!base_bytes(v)
           o(v) == T!own_bytes(v)
           l(v) == T!List(T!cred_bytes, v)
<1>1. /\ CodePair(b(t), b(u))
      /\ b(t) = b(u) =>
           /\ type = other /\ t.network_id = u.network_id /\ t.blockchain_id = u.blockchain_id
           /\ t.outputs = u.outputs /\ t.inputs = u.inputs /\ t.memo = u.memo
  BY BaseCodes
<1>2. /\ CodePair(o(t), o(t)) /\ CodePair(o(u), o(u))
      /\ type = other => CodePair(o(t), o(u)) /\ (o(t) = o(u) => t.own = u.own)
  BY OwnCodesOfType DEF OwnCodes
<1>3. l(c) \in Codes /\ l(d) \in Codes /\ Apart(l(c), l(d)) /\ (l(c) = l(d) => c = d)
  BY CredsApart
<1>4. type = other /\ t.own = u.own /\ t.network_id = u.network_id
      /\ t.blockchain_id = u.blockchain_id
      /\ t.outputs = u.outputs /\ t.inputs = u.inputs /\ t.memo = u.memo => t = u
  <2> DEFINE F == {"type", "network_id", "blockchain_id", "outputs", "inputs", "memo", "own"}
  <2>1. DOMAIN t = F /\ t.type = type /\ t = [f \in F |-> t[f]]
    BY DEF T!Tx
  <2>2. DOMAIN u = F /\ u.type = other /\ u = [f \in F |-> u[f]]
    BY DEF T!Tx
  <2> QED
    BY <2>1, <2>2
<1>5. Cat(Cat(b(t), o(t)), l(c)) = Cat(Cat(b(u), o(u)), l(d))
  OBVIOUS
<1> HIDE DEF b, o, l
<1>6. b(t) \in Codes /\ b(u) \in Codes /\ o(t) \in Codes /\ o(u) \in Codes /\ Apart(b(t), b(u))
  BY <1>1, <1>2 DEF CodePair
<1>7. /\ Cat(b(t), Cat(o(t), l(c))) = Cat(b(u), Cat(o(u), l(d)))
      /\ Cat(o(t), l(c)) \in Codes /\ Cat(o(u), l(d)) \in Codes
  BY <1>3, <1>5, <1>6, CatAssoc, CatCode
<1>8. b(t) = b(u) /\ Cat(o(t), l(c)) = Cat(o(u), l(d))
  BY <1>6, <1>7 DEF Apart
<1>9. o(t) = o(u) /\ l(c) = l(d)
  BY <1>1, <1>2, <1>3, <1>8 DEF CodePair, Apart
<1> QED
  BY <1>1, <1>2, <1>3, <1>4, <1>8, <1>9

-----------------------------------------------------------------------------
(* The order of codes.                                                     *)

\* What a code has at i, which is least where it has ended.
At(a, i) == IF i <= Len(a) THEN a[i] ELSE -1

\* a and b are the same before i, where a has the less.
LessAt(a, b, i) == At(a, i) < At(b, i) /\ \A j \in 1..(i - 1) : At(a, j) = At(b, j)
Less(a, b) == \E i \in Nat \ {0} : LessAt(a, b, i)

LEMMA AtIs ==
  ASSUME NEW a \in Codes, NEW i \in Nat \ {0}
  PROVE  /\ Len(a) \in Nat /\ At(a, i) \in Int /\ At(a, i) >= -1
         /\ At(a, i) >= 0 <=> i <= Len(a)
         /\ i <= Len(a) => At(a, i) = a[i]
         /\ i > Len(a) => At(a, i) = -1
<1>1. Len(a) \in Nat
  BY LenProperties DEF Codes
<1>2. CASE i <= Len(a)
  <2>1. i \in 1..Len(a)
    BY <1>1, <1>2
  <2>2. a[i] \in Nat
    BY <2>1, ElementOfSeq DEF Codes
  <2> QED
    BY <1>1, <1>2, <2>2 DEF At
<1>3. CASE ~ i <= Len(a)
  BY <1>1, <1>3 DEF At
<1> QED
  BY <1>2, <1>3

LEMMA SameAt ==
  ASSUME NEW a \in Codes, NEW b \in Codes, \A i \in Nat \ {0} : At(a, i) = At(b, i)
  PROVE  a = b
<1>1. Len(a) \in Nat /\ Len(b) \in Nat
  BY LenProperties DEF Codes
<1>2. Len(a) = Len(b)
  <2> DEFINE n == Len(a)
             m == Len(b)
  <2>1. n \in Nat /\ m \in Nat /\ \A i \in Nat \ {0} : i <= n <=> i <= m
    BY AtIs
  <2> HIDE DEF n, m
  <2>2. n = 0 \/ n <= m
    BY <2>1
  <2>3. m = 0 \/ m <= n
    BY <2>1
  <2>4. n = m
    BY <2>1, <2>2, <2>3
  <2> QED
    BY <2>4 DEF n, m
<1>3. ASSUME NEW i \in 1..Len(a) PROVE a[i] = b[i]
  <2>1. i \in Nat \ {0} /\ i <= Len(a) /\ i <= Len(b)
    BY <1>1, <1>2
  <2> QED
    BY <2>1, AtIs
<1> QED
  BY <1>2, <1>3, SeqEqual DEF Codes

\* Codes that differ do so somewhere first.
LEMMA LessTotal ==
  ASSUME NEW a \in Codes, NEW b \in Codes
  PROVE  a = b \/ Less(a, b) \/ Less(b, a)
<1> DEFINE Bad == {i \in Nat : i # 0 /\ At(a, i) # At(b, i)}
<1>1. CASE Bad = {}
  <2>1. \A i \in Nat \ {0} : At(a, i) = At(b, i)
    BY <1>1
  <2> QED
    BY <2>1, SameAt
<1>2. CASE Bad # {}
  <2>1. PICK i \in Bad : \A j \in Bad : ~(<<j, i>> \in OpToRel(<, Nat))
    BY <1>2, WFMin, NatLessThanWellFounded, Zenon
  <2>2. i \in Nat \ {0} /\ At(a, i) # At(b, i)
    OBVIOUS
  <2>3. ASSUME NEW j \in 1..(i - 1) PROVE At(a, j) = At(b, j) /\ At(b, j) = At(a, j)
    <3>1. j \in Nat /\ j # 0 /\ <<j, i>> \in OpToRel(<, Nat)
      BY <2>2 DEF OpToRel
    <3> QED
      BY <2>1, <3>1
  <2>4. At(a, i) \in Int /\ At(b, i) \in Int
    BY <2>2, AtIs
  <2>5. At(a, i) < At(b, i) \/ At(b, i) < At(a, i)
    BY <2>2, <2>4
  <2> QED
    BY <2>2, <2>3, <2>5 DEF Less, LessAt
<1> QED
  BY <1>1, <1>2

LEMMA LessTransitive ==
  ASSUME NEW a \in Codes, NEW b \in Codes, NEW c \in Codes, Less(a, b), Less(b, c)
  PROVE  Less(a, c)
<1>1. PICK i \in Nat \ {0} : LessAt(a, b, i)
  BY DEF Less
<1>2. PICK k \in Nat \ {0} : LessAt(b, c, k)
  BY DEF Less
<1>3. \A n \in Nat \ {0} : At(a, n) \in Int /\ At(b, n) \in Int /\ At(c, n) \in Int
  BY AtIs
<1>4. CASE i < k
  <2>1. At(b, i) = At(c, i) /\ \A j \in 1..(i - 1) : At(b, j) = At(c, j)
    BY <1>2, <1>4 DEF LessAt
  <2>2. LessAt(a, c, i)
    BY <1>1, <2>1 DEF LessAt
  <2> QED
    BY <2>2 DEF Less
<1>5. CASE k < i
  <2>1. At(a, k) = At(b, k) /\ \A j \in 1..(k - 1) : At(a, j) = At(b, j)
    BY <1>1, <1>5 DEF LessAt
  <2>2. LessAt(a, c, k)
    BY <1>2, <2>1 DEF LessAt
  <2> QED
    BY <2>2 DEF Less
<1>6. CASE k = i
  <2>1. At(a, i) < At(c, i)
    BY <1>1, <1>2, <1>3, <1>6 DEF LessAt
  <2>2. LessAt(a, c, i)
    BY <1>1, <1>2, <1>6, <2>1 DEF LessAt
  <2> QED
    BY <2>2 DEF Less
<1> QED
  BY <1>4, <1>5, <1>6

LEMMA LessIrreflexive ==
  ASSUME NEW a \in Codes
  PROVE  ~Less(a, a)
<1> SUFFICES ASSUME NEW i \in Nat \ {0}, LessAt(a, a, i) PROVE FALSE
  BY DEF Less
<1>1. At(a, i) \in Int /\ At(a, i) < At(a, i)
  BY AtIs DEF LessAt
<1> QED
  BY <1>1

\* What comes first decides, unless it is the same.
LEMMA HeadOrder ==
  ASSUME NEW n \in Nat, NEW m \in Nat, NEW x \in Codes, NEW y \in Codes
  PROVE  Less(Cat(<<n>>, x), Cat(<<m>>, y)) <=> n < m \/ (n = m /\ Less(x, y))
<1>1. ASSUME NEW k \in Nat, NEW z \in Codes
      PROVE  /\ At(Cat(<<k>>, z), 1) = k
             /\ \A i \in Nat \ {0} : At(Cat(<<k>>, z), i + 1) = At(z, i)
  <2> DEFINE a == <<k>>
             c == Cat(a, z)
  <2>1. a \in Codes /\ Len(a) = 1 /\ a[1] = k
    BY NumberCode
  <2> HIDE DEF a
  <2>2. /\ c \in Codes /\ Len(c) = 1 + Len(z) /\ Len(z) \in Nat
        /\ \A i \in 1..(1 + Len(z)) : c[i] = IF i <= 1 THEN a[i] ELSE z[i - 1]
    <3>1. /\ c \in Codes /\ Len(c) = Len(a) + Len(z)
          /\ \A i \in 1..(Len(a) + Len(z)) : c[i] = IF i <= Len(a) THEN a[i] ELSE z[i - Len(a)]
      BY <2>1, ConcatProperties DEF Cat, Codes
    <3>2. Len(z) \in Nat
      BY LenProperties DEF Codes
    <3> HIDE DEF c
    <3> QED
      BY <2>1, <3>1, <3>2
  <2> HIDE DEF c
  <2>3. At(c, 1) = k
    BY <2>1, <2>2 DEF At
  <2>4. ASSUME NEW i \in Nat \ {0} PROVE At(c, i + 1) = At(z, i)
    <3>1. CASE i <= Len(z)
      <4>1. i + 1 \in 1..(1 + Len(z)) /\ ~(i + 1 <= 1) /\ i + 1 - 1 = i /\ i + 1 <= 1 + Len(z)
        BY <2>2, <3>1
      <4> QED
        BY <2>2, <3>1, <4>1 DEF At
    <3>2. CASE ~(i <= Len(z))
      <4>1. ~(i + 1 <= 1 + Len(z))
        BY <2>2, <3>2
      <4> QED
        BY <2>2, <3>2, <4>1 DEF At
    <3> QED
      BY <3>1, <3>2
  <2> QED
    BY <2>3, <2>4 DEF a, c
<1> DEFINE a == Cat(<<n>>, x)
           b == Cat(<<m>>, y)
<1>2. /\ At(a, 1) = n /\ \A i \in Nat \ {0} : At(a, i + 1) = At(x, i)
      /\ At(b, 1) = m /\ \A i \in Nat \ {0} : At(b, i + 1) = At(y, i)
  BY <1>1
<1> HIDE DEF a, b
<1>3. ASSUME Less(a, b) PROVE n < m \/ (n = m /\ Less(x, y))
  <2>1. PICK i \in Nat \ {0} : LessAt(a, b, i)
    BY <1>3 DEF Less
  <2>2. CASE i = 1
    BY <1>2, <2>1, <2>2 DEF LessAt
  <2>3. CASE i # 1
    <3>1. i - 1 \in Nat \ {0} /\ i - 1 + 1 = i /\ 1 \in 1..(i - 1)
      BY <2>3
    <3>2. n = m
      BY <1>2, <2>1, <3>1 DEF LessAt
    <3>3. At(x, i - 1) < At(y, i - 1)
      BY <1>2, <2>1, <3>1 DEF LessAt
    <3>4. ASSUME NEW j \in 1..(i - 1 - 1) PROVE At(x, j) = At(y, j)
      <4>1. j \in Nat \ {0} /\ j + 1 \in 1..(i - 1)
        BY <3>1
      <4>2. At(a, j + 1) = At(b, j + 1)
        BY <2>1, <4>1 DEF LessAt
      <4> QED
        BY <1>2, <4>1, <4>2
    <3> QED
      BY <3>1, <3>2, <3>3, <3>4 DEF Less, LessAt
  <2> QED
    BY <2>2, <2>3
<1>4. ASSUME n < m PROVE Less(a, b)
  <2>1. LessAt(a, b, 1)
    BY <1>2, <1>4 DEF LessAt
  <2> QED
    BY <2>1 DEF Less
<1>5. ASSUME n = m, Less(x, y) PROVE Less(a, b)
  <2>1. PICK i \in Nat \ {0} : LessAt(x, y, i)
    BY <1>5 DEF Less
  <2>2. At(a, i + 1) < At(b, i + 1)
    BY <1>2, <2>1 DEF LessAt
  <2>3. ASSUME NEW j \in 1..(i + 1 - 1) PROVE At(a, j) = At(b, j)
    <3>1. CASE j = 1
      BY <1>2, <1>5, <3>1
    <3>2. CASE j # 1
      <4>1. j - 1 \in 1..(i - 1) /\ j - 1 \in Nat \ {0} /\ j - 1 + 1 = j
        BY <3>2
      <4>2. At(x, j - 1) = At(y, j - 1)
        BY <2>1, <4>1 DEF LessAt
      <4> QED
        BY <1>2, <4>1, <4>2
    <3> QED
      BY <3>1, <3>2
  <2>4. i + 1 \in Nat \ {0}
    OBVIOUS
  <2> QED
    BY <2>2, <2>3, <2>4 DEF Less, LessAt
<1> QED
  BY <1>3, <1>4, <1>5 DEF a, b

\* Less is how slices of bytes are compared.
LEMMA BeforeIsLess ==
  ASSUME NEW a \in Codes, NEW b \in Codes
  PROVE  T!Before(a, b) <=> Less(a, b)
<1>1. /\ Len(a) \in Nat /\ DOMAIN a = 1..Len(a)
      /\ Len(b) \in Nat /\ DOMAIN b = 1..Len(b)
  BY LenProperties DEF Codes
<1>2. ASSUME NEW i \in 1..Len(a), i \in 1..Len(b)
      PROVE  SubSeq(a, 1, i - 1) = SubSeq(b, 1, i - 1) <=> \A j \in 1..(i - 1) : At(a, j) = At(b, j)
  <2> DEFINE u == SubSeq(a, 1, i - 1)
             v == SubSeq(b, 1, i - 1)
  <2>1. /\ i - 1 \in Nat
        /\ \A j \in 1..(i - 1) : /\ j \in 1..Len(a) /\ a[j] \in Nat /\ At(a, j) = a[j]
                                 /\ j \in 1..Len(b) /\ b[j] \in Nat /\ At(b, j) = b[j]
    BY <1>1, <1>2, ElementOfSeq DEF At, Codes
  <2>2. /\ u \in Seq(Nat) /\ Len(u) = i - 1 /\ \A j \in 1..(i - 1) : u[j] = a[j]
        /\ v \in Seq(Nat) /\ Len(v) = i - 1 /\ \A j \in 1..(i - 1) : v[j] = b[j]
    BY <2>1, SubSeqProperties
  <2> HIDE DEF u, v
  <2>3. u = v => \A j \in 1..(i - 1) : At(a, j) = At(b, j)
    BY <2>1, <2>2
  <2>4. ASSUME \A j \in 1..(i - 1) : At(a, j) = At(b, j) PROVE u = v
    <3>1. \A j \in 1..Len(u) : u[j] = v[j]
      BY <2>1, <2>2, <2>4
    <3> QED
      BY <2>2, <3>1, SeqEqual
  <2> QED
    BY <2>3, <2>4 DEF u, v
<1>3. ASSUME Len(a) < Len(b)
      PROVE  T!IsPrefix(a, b) <=> \A j \in 1..Len(a) : At(a, j) = At(b, j)
  <2> DEFINE v == SubSeq(b, 1, Len(a))
  <2>1. /\ \A j \in 1..Len(a) : /\ a[j] \in Nat /\ At(a, j) = a[j]
                                /\ j \in 1..Len(b) /\ b[j] \in Nat /\ At(b, j) = b[j]
    BY <1>1, <1>3, ElementOfSeq DEF At, Codes
  <2>2. v \in Seq(Nat) /\ Len(v) = Len(a) /\ \A j \in 1..Len(a) : v[j] = b[j]
    BY <1>1, <2>1, SubSeqProperties
  <2>3. T!IsPrefix(a, b) <=> a = v
    <3>1. SubSeq(a, 1, Len(a)) = a /\ Len(a) <= Len(b)
      BY <1>1, <1>3, SubSeqFull DEF Codes
    <3> QED
      BY <3>1, Zenon DEF T!IsPrefix
  <2> HIDE DEF v
  <2>4. a = v => \A j \in 1..Len(a) : At(a, j) = At(b, j)
    BY <2>1, <2>2
  <2>5. ASSUME \A j \in 1..Len(a) : At(a, j) = At(b, j) PROVE a = v
    <3>1. \A j \in 1..Len(a) : a[j] = v[j]
      BY <2>1, <2>2, <2>5
    <3> QED
      BY <2>2, <3>1, SeqEqual DEF Codes
  <2> QED
    BY <2>3, <2>4, <2>5
<1>4. ASSUME Len(a) < Len(b), T!IsPrefix(a, b) PROVE Less(a, b)
  <2>1. Len(a) + 1 \in Nat \ {0} /\ ~(Len(a) + 1 <= Len(a)) /\ Len(a) + 1 <= Len(b)
        /\ Len(a) + 1 - 1 = Len(a)
    BY <1>1, <1>4
  <2>2. At(a, Len(a) + 1) = -1 /\ At(b, Len(a) + 1) \in Int /\ At(b, Len(a) + 1) >= 0
    BY <2>1, AtIs DEF At
  <2>3. LessAt(a, b, Len(a) + 1)
    BY <1>3, <1>4, <2>1, <2>2 DEF LessAt
  <2> QED
    BY <2>1, <2>3 DEF Less
<1>5. ASSUME NEW i \in 1..Len(a), i \in 1..Len(b), a[i] < b[i],
             SubSeq(a, 1, i - 1) = SubSeq(b, 1, i - 1)
      PROVE  Less(a, b)
  <2>1. i \in Nat \ {0} /\ At(a, i) = a[i] /\ At(b, i) = b[i]
    BY <1>1, <1>5 DEF At
  <2>2. \A j \in 1..(i - 1) : At(a, j) = At(b, j)
    BY <1>2, <1>5
  <2>3. LessAt(a, b, i)
    BY <1>5, <2>1, <2>2 DEF LessAt
  <2> QED
    BY <2>1, <2>3 DEF Less
<1>6. ASSUME NEW i \in Nat \ {0}, LessAt(a, b, i) PROVE T!Before(a, b)
  <2>1. /\ i <= Len(b) /\ At(b, i) = b[i] /\ At(a, i) < At(b, i)
        /\ \A j \in 1..(i - 1) : At(a, j) = At(b, j)
    <3>1. /\ At(a, i) \in Int /\ At(a, i) >= -1 /\ At(b, i) \in Int /\ At(b, i) >= -1
          /\ At(b, i) >= 0 <=> i <= Len(b)
      BY AtIs
    <3>2. At(a, i) < At(b, i) /\ \A j \in 1..(i - 1) : At(a, j) = At(b, j)
      BY <1>6 DEF LessAt
    <3>3. i <= Len(b)
      BY <3>1, <3>2
    <3> QED
      BY <3>2, <3>3 DEF At
  <2>2. CASE i <= Len(a)
    <3>1. i \in 1..Len(a) /\ i \in 1..Len(b) /\ a[i] < b[i]
      BY <1>1, <2>1, <2>2 DEF At
    <3>2. SubSeq(a, 1, i - 1) = SubSeq(b, 1, i - 1)
      BY <1>2, <2>1, <3>1
    <3>3. i \in DOMAIN a \intersect DOMAIN b
      BY <1>1, <3>1
    <3> QED
      BY <3>1, <3>2, <3>3, Zenon DEF T!Before
  <2>3. CASE ~(i <= Len(a))
    <3>1. i = Len(a) + 1
      <4>1. SUFFICES ASSUME i # Len(a) + 1 PROVE FALSE
        OBVIOUS
      <4>2. Len(a) + 1 \in 1..(i - 1) /\ Len(a) + 1 \in Nat \ {0} /\ ~(Len(a) + 1 <= Len(a))
            /\ Len(a) + 1 <= Len(b)
        BY <1>1, <2>1, <2>3, <4>1
      <4>3. At(a, Len(a) + 1) = -1 /\ At(b, Len(a) + 1) >= 0
        BY <4>2, AtIs DEF At
      <4>4. At(a, Len(a) + 1) = At(b, Len(a) + 1)
        BY <2>1, <4>2
      <4> QED
        BY <4>3, <4>4
    <3>2. i - 1 = Len(a) /\ Len(a) < Len(b)
      BY <1>1, <2>1, <3>1
    <3>3. T!IsPrefix(a, b)
      BY <1>3, <2>1, <3>2
    <3> QED
      BY <3>2, <3>3, Zenon DEF T!Before
  <2> QED
    BY <2>2, <2>3
<1>7. T!Before(a, b) => Less(a, b)
  BY <1>1, <1>4, <1>5 DEF T!Before
<1> QED
  BY <1>6, <1>7 DEF Less

-----------------------------------------------------------------------------
(* The orders of the types are those of their bytes.                       *)

LEMMA NumbersCat ==
  ASSUME NEW n \in Nat, NEW m \in Nat
  PROVE  /\ <<n>> \in Codes /\ <<n, m>> \in Codes /\ <<>> \in Codes
         /\ <<n, m>> = Cat(<<n>>, <<m>>) /\ <<n>> = Cat(<<n>>, <<>>)
<1>1. <<n>> \in Codes /\ <<m>> \in Codes /\ <<n, m>> \in Codes /\ <<>> \in Codes
  BY DEF Codes
<1>2. <<n>> = Cat(<<n>>, <<>>)
  BY <1>1, ConcatEmptySeq DEF Cat, Codes
<1>3. <<n, m>> = Cat(<<n>>, <<m>>)
  <2> DEFINE a == <<n>>
             b == <<m>>
             c == <<n, m>>
             d == Cat(a, b)
  <2>1. /\ a \in Codes /\ b \in Codes /\ c \in Codes /\ Len(a) = 1 /\ Len(b) = 1 /\ Len(c) = 2
        /\ a[1] = n /\ b[1] = m /\ c[1] = n /\ c[2] = m
    BY DEF Codes
  <2> HIDE DEF a, b, c
  <2>2. /\ d \in Codes /\ Len(d) = Len(a) + Len(b)
        /\ \A i \in 1..(Len(a) + Len(b)) : d[i] = IF i <= Len(a) THEN a[i] ELSE b[i - Len(a)]
    BY <2>1, ConcatProperties DEF Cat, Codes
  <2> HIDE DEF d
  <2>3. Len(d) = 2 /\ d[1] = n /\ d[2] = m
    BY <2>1, <2>2
  <2>4. \A i \in 1..Len(c) : c[i] = d[i]
    BY <2>1, <2>3
  <2>5. c = d
    BY <2>1, <2>2, <2>3, <2>4, SeqEqual DEF Codes
  <2> QED
    BY <2>5 DEF a, b, c, d
<1> QED
  BY <1>1, <1>2, <1>3

LEMMA PlainOrder ==
  ASSUME NEW a \in Codes, NEW b \in Codes
  PROVE  T!short_ids_lt(a, b) <=> Less(T!Plain(a), T!Plain(b))
<1>1. Len(a) \in Nat /\ Len(b) \in Nat
  BY LenProperties DEF Codes
<1>2. T!Plain(a) = Cat(<<Len(a)>>, a) /\ T!Plain(b) = Cat(<<Len(b)>>, b)
  BY Zenon DEF T!Plain, Cat
<1>3. Less(T!Plain(a), T!Plain(b)) <=> Len(a) < Len(b) \/ (Len(a) = Len(b) /\ Less(a, b))
  BY <1>1, <1>2, HeadOrder
<1>4. T!short_ids_lt(a, b) <=> Len(a) < Len(b) \/ (Len(a) = Len(b) /\ T!Before(a, b))
  BY Zenon DEF T!short_ids_lt, T!Either
<1> QED
  BY <1>3, <1>4, BeforeIsLess

LEMMA OwnersOrder ==
  ASSUME NEW w \in T!OutputOwners, NEW z \in T!OutputOwners
  PROVE  T!owners_lt(w, z) <=> Less(T!owners_bytes(w), T!owners_bytes(z))
<1>1. /\ w.locktime \in Nat /\ w.threshold \in Nat /\ w.addresses \in Codes
      /\ z.locktime \in Nat /\ z.threshold \in Nat /\ z.addresses \in Codes
  BY DEF T!OutputOwners, Codes
<1>2. ASSUME NEW v \in T!OutputOwners, v.locktime \in Nat, v.threshold \in Nat, v.addresses \in Codes
      PROVE  /\ T!owners_bytes(v) = Cat(<<v.locktime>>, Cat(<<v.threshold>>, T!Plain(v.addresses)))
             /\ T!Plain(v.addresses) \in Codes
             /\ Cat(<<v.threshold>>, T!Plain(v.addresses)) \in Codes
  <2>1. T!owners_bytes(v) = Cat(<<v.locktime, v.threshold>>, T!Plain(v.addresses))
    BY Zenon DEF T!owners_bytes, Cat
  <2>2. T!Plain(v.addresses) \in Codes
    BY <1>2, PlainApart
  <2> DEFINE n == v.locktime
             m == v.threshold
             x == T!Plain(v.addresses)
  <2>3. n \in Nat /\ m \in Nat /\ x \in Codes
    BY <1>2, <2>2
  <2> HIDE DEF n, m, x
  <2>4. Cat(<<n, m>>, x) = Cat(<<n>>, Cat(<<m>>, x)) /\ Cat(<<m>>, x) \in Codes
    <3>1. <<n>> \in Codes /\ <<m>> \in Codes /\ <<n, m>> = Cat(<<n>>, <<m>>)
      BY <2>3, NumbersCat
    <3> DEFINE a == <<n>>
               b == <<m>>
               c == <<n, m>>
    <3>2. a \in Codes /\ b \in Codes /\ c = Cat(a, b)
      BY <3>1
    <3> HIDE DEF a, b, c
    <3>3. Cat(c, x) = Cat(a, Cat(b, x)) /\ Cat(b, x) \in Codes
      BY <2>3, <3>2, CatAssoc, CatCode
    <3> QED
      BY <3>3 DEF a, b, c
  <2> QED
    BY <2>1, <2>2, <2>4 DEF n, m, x
<1> DEFINE lw == w.locktime
           tw == w.threshold
           aw == T!Plain(w.addresses)
           lz == z.locktime
           tz == z.threshold
           az == T!Plain(z.addresses)
<1>3. /\ lw \in Nat /\ tw \in Nat /\ aw \in Codes /\ lz \in Nat /\ tz \in Nat /\ az \in Codes
      /\ Cat(<<tw>>, aw) \in Codes /\ Cat(<<tz>>, az) \in Codes
      /\ T!owners_bytes(w) = Cat(<<lw>>, Cat(<<tw>>, aw))
      /\ T!owners_bytes(z) = Cat(<<lz>>, Cat(<<tz>>, az))
  BY <1>1, <1>2
<1>4. T!owners_lt(w, z) <=> lw < lz \/ (lw = lz /\ (tw < tz \/ (tw = tz /\ Less(aw, az))))
  BY <1>1, PlainOrder DEF T!owners_lt, T!Either
<1> HIDE DEF lw, tw, aw, lz, tz, az
<1>5. Less(Cat(<<tw>>, aw), Cat(<<tz>>, az)) <=> tw < tz \/ (tw = tz /\ Less(aw, az))
  BY <1>3, HeadOrder
<1>6. Less(Cat(<<lw>>, Cat(<<tw>>, aw)), Cat(<<lz>>, Cat(<<tz>>, az)))
      <=> lw < lz \/ (lw = lz /\ Less(Cat(<<tw>>, aw), Cat(<<tz>>, az)))
  BY <1>3, HeadOrder
<1> QED
  BY <1>3, <1>4, <1>5, <1>6

LEMMA TransferOrder ==
  ASSUME NEW o, NEW p, o.amount \in Nat, p.amount \in Nat,
         o.owners \in T!OutputOwners, p.owners \in T!OutputOwners
  PROVE  /\ T!transfer_lt(o, p) <=> Less(T!transfer_bytes(o), T!transfer_bytes(p))
         /\ T!transfer_bytes(o) \in Codes /\ T!transfer_bytes(p) \in Codes
<1> DEFINE x == T!owners_bytes(o.owners)
           y == T!owners_bytes(p.owners)
<1>1. x \in Codes /\ y \in Codes /\ (T!owners_lt(o.owners, p.owners) <=> Less(x, y))
  BY OwnersApart, OwnersOrder
<1>2. T!transfer_bytes(o) = Cat(<<o.amount>>, x) /\ T!transfer_bytes(p) = Cat(<<p.amount>>, y)
  BY Zenon DEF T!transfer_bytes, Cat
<1>3. T!transfer_lt(o, p) <=> o.amount < p.amount \/ (o.amount = p.amount /\ Less(x, y))
  BY <1>1, Zenon DEF T!transfer_lt, T!Either
<1> HIDE DEF x, y
<1>4. Less(Cat(<<o.amount>>, x), Cat(<<p.amount>>, y))
      <=> o.amount < p.amount \/ (o.amount = p.amount /\ Less(x, y))
  BY <1>1, HeadOrder
<1>5. T!transfer_bytes(o) \in Codes /\ T!transfer_bytes(p) \in Codes
  BY TransferApart
<1> QED
  BY <1>2, <1>3, <1>4, <1>5

\* A locked output is more than one that is not, and the locktime comes next.
LEMMA LockOrder ==
  ASSUME NEW l \in T!Lock, NEW k \in T!Lock, NEW x \in Codes, NEW y \in Codes
  PROVE  /\ Cat(OutputLock(l), x) \in Codes /\ Cat(OutputLock(k), y) \in Codes
         /\ l = <<>> /\ k = <<>> =>
              (Less(Cat(OutputLock(l), x), Cat(OutputLock(k), y)) <=> Less(x, y))
         /\ l = <<>> /\ k # <<>> => Less(Cat(OutputLock(l), x), Cat(OutputLock(k), y))
         /\ l # <<>> /\ k = <<>> => ~Less(Cat(OutputLock(l), x), Cat(OutputLock(k), y))
         /\ l # <<>> /\ k # <<>> =>
              (Less(Cat(OutputLock(l), x), Cat(OutputLock(k), y))
               <=> l[1] < k[1] \/ (l = k /\ Less(x, y)))
<1>1. ASSUME NEW m \in T!Lock, NEW z \in Codes
      PROVE  /\ Cat(<<7>>, z) \in Codes
             /\ m = <<>> => Cat(OutputLock(m), z) = Cat(<<7>>, z)
             /\ m # <<>> => /\ m[1] \in Nat /\ m = <<m[1]>>
                            /\ Cat(<<m[1]>>, Cat(<<7>>, z)) \in Codes
                            /\ Cat(OutputLock(m), z) = Cat(<<22>>, Cat(<<m[1]>>, Cat(<<7>>, z)))
                            /\ Cat(OutputLock(m), z) \in Codes
  <2>1. Cat(<<7>>, z) \in Codes /\ <<7>> \in Codes /\ <<22>> \in Codes
    BY NumberCode, CatCode
  <2>2. ASSUME m # <<>>
        PROVE  /\ m[1] \in Nat /\ m = <<m[1]>> /\ Cat(<<m[1]>>, Cat(<<7>>, z)) \in Codes
               /\ Cat(OutputLock(m), z) = Cat(<<22>>, Cat(<<m[1]>>, Cat(<<7>>, z)))
               /\ Cat(OutputLock(m), z) \in Codes
    <3>1. m[1] \in Nat /\ m = <<m[1]>>
      BY <2>2, LockIs
    <3> DEFINE n == m[1]
               f == <<n>>
               s == <<7>>
               t == <<22>>
               c == OutputLock(m)
    <3>2. c = <<22, n, 7>> /\ n \in Nat
      BY <2>2, <3>1, Zenon DEF OutputLock
    <3> HIDE DEF n, c
    <3>3. c = Cat(t, Cat(f, s)) /\ f \in Codes
      BY <3>2, NumberCode DEF Cat
    <3>4. s \in Codes /\ t \in Codes
      BY NumberCode
    <3> HIDE DEF f, s, t
    <3>5. /\ Cat(c, z) = Cat(t, Cat(f, Cat(s, z)))
          /\ Cat(f, Cat(s, z)) \in Codes /\ Cat(c, z) \in Codes
      BY <3>3, <3>4, CatAssoc, CatCode
    <3> QED
      BY <3>1, <3>5 DEF n, f, s, t, c
  <2> QED
    BY <2>1, <2>2 DEF OutputLock
<1> DEFINE x7 == Cat(<<7>>, x)
           y7 == Cat(<<7>>, y)
           a == Cat(OutputLock(l), x)
           b == Cat(OutputLock(k), y)
<1>2. /\ x7 \in Codes /\ (l = <<>> => a = x7)
      /\ l # <<>> => /\ l[1] \in Nat /\ l = <<l[1]>> /\ Cat(<<l[1]>>, x7) \in Codes
                     /\ a = Cat(<<22>>, Cat(<<l[1]>>, x7)) /\ a \in Codes
  BY <1>1
<1>3. /\ y7 \in Codes /\ (k = <<>> => b = y7)
      /\ k # <<>> => /\ k[1] \in Nat /\ k = <<k[1]>> /\ Cat(<<k[1]>>, y7) \in Codes
                     /\ b = Cat(<<22>>, Cat(<<k[1]>>, y7)) /\ b \in Codes
  BY <1>1
<1>4. Less(x7, y7) <=> Less(x, y)
  BY HeadOrder
<1>5. \A z \in Codes : Less(x7, Cat(<<22>>, z)) /\ ~Less(Cat(<<22>>, z), y7)
  BY HeadOrder
<1> HIDE DEF x7, y7, a, b
<1>6. ASSUME l # <<>>, k # <<>>
      PROVE  Less(a, b) <=> l[1] < k[1] \/ (l = k /\ Less(x, y))
  <2> DEFINE n == l[1]
             m == k[1]
             f == Cat(<<n>>, x7)
             g == Cat(<<m>>, y7)
  <2>1. n \in Nat /\ m \in Nat /\ f \in Codes /\ g \in Codes /\ (l = k <=> n = m)
        /\ a = Cat(<<22>>, f) /\ b = Cat(<<22>>, g)
    BY <1>2, <1>3, <1>6
  <2> HIDE DEF n, m
  <2>2. Less(f, g) <=> n < m \/ (n = m /\ Less(x7, y7))
    BY <1>2, <1>3, <2>1, HeadOrder
  <2> HIDE DEF f, g
  <2>3. Less(a, b) <=> Less(f, g)
    BY <2>1, HeadOrder
  <2> QED
    BY <1>4, <2>1, <2>2, <2>3 DEF n, m
<1> QED
  BY <1>2, <1>3, <1>4, <1>5, <1>6 DEF a, b

LEMMA OutputOrder ==
  ASSUME NEW o \in SomeOutput, NEW p \in SomeOutput
  PROVE  T!output_lt(o, p) <=> Less(T!output_bytes(o), T!output_bytes(p))
<1> DEFINE x == T!transfer_bytes(o)
           y == T!transfer_bytes(p)
           f == Cat(OutputLock(o.lock), x)
           g == Cat(OutputLock(p.lock), y)
<1>1. /\ o.asset_id \in Nat /\ o.lock \in T!Lock /\ o.amount \in Nat /\ o.owners \in T!OutputOwners
      /\ p.asset_id \in Nat /\ p.lock \in T!Lock /\ p.amount \in Nat /\ p.owners \in T!OutputOwners
  BY DEF SomeOutput, T!Output
<1>2. x \in Codes /\ y \in Codes /\ (T!transfer_lt(o, p) <=> Less(x, y))
  BY <1>1, TransferOrder
<1>3. /\ f \in Codes /\ g \in Codes
      /\ o.lock = <<>> /\ p.lock = <<>> => (Less(f, g) <=> Less(x, y))
      /\ o.lock = <<>> /\ p.lock # <<>> => Less(f, g)
      /\ o.lock # <<>> /\ p.lock = <<>> => ~Less(f, g)
      /\ o.lock # <<>> /\ p.lock # <<>> =>
           (Less(f, g) <=> o.lock[1] < p.lock[1] \/ (o.lock = p.lock /\ Less(x, y)))
  <2> HIDE DEF x, y
  <2> QED
    BY <1>1, <1>2, LockOrder
<1>4. T!output_bytes(o) = Cat(<<o.asset_id>>, f) /\ T!output_bytes(p) = Cat(<<p.asset_id>>, g)
  <2>1. ASSUME NEW q \in SomeOutput, q.asset_id \in Nat, q.lock \in T!Lock,
               T!transfer_bytes(q) \in Codes
        PROVE  T!output_bytes(q) = Cat(<<q.asset_id>>, Cat(OutputLock(q.lock), T!transfer_bytes(q)))
    <3>1. T!output_bytes(q) = Cat(Cat(<<q.asset_id>>, OutputLock(q.lock)), T!transfer_bytes(q))
      BY Zenon DEF T!output_bytes, Cat, OutputLock
    <3>2. <<q.asset_id>> \in Codes /\ OutputLock(q.lock) \in Codes
      BY <2>1, NumberCode, OutputLockApart
    <3> QED
      BY <2>1, <3>1, <3>2, CatAssoc
  <2> QED
    BY <1>1, <1>2, <2>1
<1>5. T!output_lt(o, p) <=>
        \/ o.asset_id < p.asset_id
        \/ /\ o.asset_id = p.asset_id
           /\ \/ o.lock = <<>> /\ p.lock # <<>>
              \/ /\ (o.lock = <<>>) = (p.lock = <<>>)
                 /\ IF o.lock = <<>> THEN T!transfer_lt(o, p) ELSE T!stakeable_lt(o, p)
  BY Zenon DEF T!output_lt, T!Either
<1>6. T!stakeable_lt(o, p) <=>
        o.lock[1] < p.lock[1] \/ (o.lock = p.lock /\ T!transfer_lt(o, p))
  BY Zenon DEF T!stakeable_lt, T!Either
<1> HIDE DEF x, y, f, g
<1>7. Less(Cat(<<o.asset_id>>, f), Cat(<<p.asset_id>>, g))
      <=> o.asset_id < p.asset_id \/ (o.asset_id = p.asset_id /\ Less(f, g))
  BY <1>1, <1>3, HeadOrder
<1> DEFINE u == o.lock = <<>>
           v == p.lock = <<>>
<1>8. CASE u /\ v
  BY <1>2, <1>3, <1>4, <1>5, <1>7, <1>8
<1>9. CASE u /\ ~v
  BY <1>2, <1>3, <1>4, <1>5, <1>7, <1>9
<1>10. CASE ~u /\ v
  BY <1>2, <1>3, <1>4, <1>5, <1>7, <1>10
<1>11. CASE ~u /\ ~v
  BY <1>2, <1>3, <1>4, <1>5, <1>6, <1>7, <1>11
<1> QED
  BY <1>8, <1>9, <1>10, <1>11

LEMMA InputOrder ==
  ASSUME NEW i \in SomeInput, NEW j \in SomeInput
  PROVE  /\ <<i.tx_id, i.output_index>> \in Codes /\ <<j.tx_id, j.output_index>> \in Codes
         /\ T!input_lt(i, j) <=> Less(<<i.tx_id, i.output_index>>, <<j.tx_id, j.output_index>>)
<1> DEFINE a == i.tx_id
           b == i.output_index
           c == j.tx_id
           d == j.output_index
<1>1. a \in Nat /\ b \in Nat /\ c \in Nat /\ d \in Nat
  BY DEF SomeInput, T!Input
<1>2. T!input_lt(i, j) <=> a < c \/ (a = c /\ b < d)
  BY Zenon DEF T!input_lt, T!Either
<1> HIDE DEF a, b, c, d
<1>3. /\ <<a, b>> \in Codes /\ <<c, d>> \in Codes /\ <<b>> \in Codes /\ <<d>> \in Codes
      /\ <<>> \in Codes /\ <<a, b>> = Cat(<<a>>, <<b>>) /\ <<c, d>> = Cat(<<c>>, <<d>>)
      /\ <<b>> = Cat(<<b>>, <<>>) /\ <<d>> = Cat(<<d>>, <<>>)
  BY <1>1, NumbersCat
<1>4. Less(Cat(<<b>>, <<>>), Cat(<<d>>, <<>>)) <=> b < d \/ (b = d /\ Less(<<>>, <<>>))
  BY <1>1, <1>3, HeadOrder
<1>5. ~Less(<<>>, <<>>)
  BY <1>3, LessIrreflexive
<1>6. Less(Cat(<<a>>, <<b>>), Cat(<<c>>, <<d>>)) <=> a < c \/ (a = c /\ Less(<<b>>, <<d>>))
  BY <1>1, <1>3, HeadOrder
<1>7. Less(<<a, b>>, <<c, d>>) <=> a < c \/ (a = c /\ b < d)
  BY <1>3, <1>4, <1>5, <1>6, Zenon
<1> QED
  BY <1>2, <1>3, <1>7, Zenon DEF a, b, c, d

-----------------------------------------------------------------------------
(* A list can be sorted.                                                   *)

\* R tells which members of S come before which; others are the same.
Orders(R, S) ==
  /\ \A a, b \in S : <<a, b>> \in R => <<b, a>> \notin R
  /\ \A a, b, c \in S : <<a, b>> \notin R /\ <<b, c>> \notin R => <<a, c>> \notin R

OneToOne(p, n) ==
  /\ p \in [1..n -> 1..n]
  /\ \A i, j \in 1..n : p[i] = p[j] => i = j
  /\ \A m \in 1..n : \E i \in 1..n : p[i] = m

\* No two of the first n of s are out of order when they are taken as p says.
Ascends(R, s, p, n) == \A i, j \in 1..n : i < j => <<s[p[j]], s[p[i]]>> \notin R
Arranges(R, s, p, n) == OneToOne(p, n) /\ Ascends(R, s, p, n)

\* The next one has a place among those that are in order.
Place(R, s, p, n, k) ==
  /\ k \in 1..(n + 1)
  /\ k = n + 1 \/ <<s[n + 1], s[p[k]]>> \in R
  /\ \A i \in 1..n : i < k => <<s[n + 1], s[p[i]]>> \notin R

Insert(p, n, k) ==
  [i \in 1..(n + 1) |-> IF i < k THEN p[i] ELSE IF i = k THEN n + 1 ELSE p[i - 1]]

LEMMA PlaceExists ==
  ASSUME NEW R, NEW s, NEW p, NEW n \in Nat
  PROVE  \E k \in 1..(n + 1) : Place(R, s, p, n, k)
<1> DEFINE Good == {k \in Nat : k \in 1..(n + 1) /\ (k = n + 1 \/ <<s[n + 1], s[p[k]]>> \in R)}
<1>1. n + 1 \in Good
  OBVIOUS
<1>2. PICK k \in Good : \A m \in Good : ~(<<m, k>> \in OpToRel(<, Nat))
  BY <1>1, WFMin, NatLessThanWellFounded, Zenon
<1>3. k \in Nat /\ k \in 1..(n + 1) /\ (k = n + 1 \/ <<s[n + 1], s[p[k]]>> \in R)
  OBVIOUS
<1>4. ASSUME NEW i \in 1..n, i < k PROVE <<s[n + 1], s[p[i]]>> \notin R
  <2>1. <<i, k>> \in OpToRel(<, Nat)
    BY <1>3, <1>4 DEF OpToRel
  <2>2. i \notin Good
    BY <1>2, <2>1
  <2> QED
    BY <2>2
<1> QED
  BY <1>3, <1>4 DEF Place

LEMMA InsertIsOneToOne ==
  ASSUME NEW n \in Nat, NEW p, OneToOne(p, n), NEW k \in 1..(n + 1)
  PROVE  OneToOne(Insert(p, n, k), n + 1)
<1> DEFINE q == Insert(p, n, k)
<1>1. /\ \A i \in 1..n : p[i] \in 1..n
      /\ \A i, j \in 1..n : p[i] = p[j] => i = j
      /\ \A m \in 1..n : \E i \in 1..n : p[i] = m
  BY DEF OneToOne
<1>2. ASSUME NEW i \in 1..(n + 1)
      PROVE  /\ i < k => i \in 1..n /\ q[i] = p[i]
             /\ i = k => q[i] = n + 1
             /\ i > k => i - 1 \in 1..n /\ q[i] = p[i - 1]
  BY DEF Insert
<1>3. q = [i \in 1..(n + 1) |-> q[i]]
  BY DEF Insert
<1> HIDE DEF q
<1>4. \A i \in 1..(n + 1) : q[i] \in 1..(n + 1) /\ (q[i] = n + 1 <=> i = k)
  <2> TAKE i \in 1..(n + 1)
  <2>1. CASE i < k
    BY <1>1, <1>2, <2>1
  <2>2. CASE i = k
    BY <1>2, <2>2
  <2>3. CASE i > k
    BY <1>1, <1>2, <2>3
  <2> QED
    BY <2>1, <2>2, <2>3
<1>5. ASSUME NEW i \in 1..(n + 1), NEW j \in 1..(n + 1), q[i] = q[j] PROVE i = j
  <2>1. CASE i = k \/ j = k
    BY <1>4, <1>5, <2>1
  <2>2. CASE i # k /\ j # k
    <3> DEFINE Old(l) == IF l < k THEN l ELSE l - 1
    <3>1. \A l \in 1..(n + 1) : l # k => Old(l) \in 1..n /\ q[l] = p[Old(l)]
      BY <1>2
    <3>2. Old(i) = Old(j)
      <4> HIDE DEF Old
      <4> QED
        BY <1>1, <1>5, <2>2, <3>1
    <3> QED
      BY <2>2, <3>2
  <2> QED
    BY <2>1, <2>2
<1>6. ASSUME NEW m \in 1..(n + 1) PROVE \E i \in 1..(n + 1) : q[i] = m
  <2>1. CASE m = n + 1
    BY <1>2, <2>1
  <2>2. CASE m # n + 1
    <3>1. PICK i \in 1..n : p[i] = m
      BY <1>1, <2>2
    <3>2. CASE i < k
      <4>1. i \in 1..(n + 1) /\ q[i] = m
        BY <1>2, <3>1, <3>2
      <4> QED
        BY <4>1
    <3>3. CASE ~(i < k)
      <4>1. i + 1 \in 1..(n + 1) /\ i + 1 > k /\ i + 1 - 1 = i
        BY <3>3
      <4>2. q[i + 1] = m
        BY <1>2, <3>1, <4>1
      <4> QED
        BY <4>1, <4>2
    <3> QED
      BY <3>2, <3>3
  <2> QED
    BY <2>1, <2>2
<1>7. q \in [1..(n + 1) -> 1..(n + 1)]
  BY <1>3, <1>4
<1> QED
  BY <1>5, <1>6, <1>7 DEF OneToOne, q

LEMMA InsertAscends ==
  ASSUME NEW S, NEW R, Orders(R, S), NEW n \in Nat, NEW s, \A i \in 1..(n + 1) : s[i] \in S,
         NEW p, Arranges(R, s, p, n), NEW k, Place(R, s, p, n, k)
  PROVE  Ascends(R, s, Insert(p, n, k), n + 1)
<1> DEFINE q == Insert(p, n, k)
           After(a, b) == <<s[a], s[b]>> \in R
<1>1. /\ \A i \in 1..n : p[i] \in 1..n
      /\ \A i, j \in 1..n : i < j => ~After(p[j], p[i])
  BY DEF Arranges, OneToOne, Ascends
<1>2. /\ k \in 1..(n + 1)
      /\ k = n + 1 \/ After(n + 1, p[k])
      /\ \A i \in 1..n : i < k => ~After(n + 1, p[i])
  BY DEF Place
<1>3. /\ \A a, b \in 1..(n + 1) : After(a, b) => ~After(b, a)
      /\ \A a, b, c \in 1..(n + 1) : ~After(a, b) /\ ~After(b, c) => ~After(a, c)
  BY DEF Orders
<1>4. ASSUME NEW i \in 1..(n + 1)
      PROVE  /\ i < k => i \in 1..n /\ q[i] = p[i]
             /\ i = k => q[i] = n + 1
             /\ i > k => i - 1 \in 1..n /\ q[i] = p[i - 1]
  BY <1>2 DEF Insert
<1> SUFFICES ASSUME NEW i \in 1..(n + 1), NEW j \in 1..(n + 1), i < j PROVE ~After(q[j], q[i])
  BY DEF Ascends
<1> HIDE DEF q, After
<1>5. CASE j < k
  <2>1. i \in 1..n /\ j \in 1..n /\ q[i] = p[i] /\ q[j] = p[j]
    BY <1>2, <1>4, <1>5
  <2> QED
    BY <1>1, <2>1
<1>6. CASE j = k
  <2>1. i \in 1..n /\ i < k /\ q[i] = p[i] /\ q[j] = n + 1
    BY <1>4, <1>6
  <2> QED
    BY <1>2, <2>1
<1>7. CASE i = k
  <2>1. k \in 1..n /\ j - 1 \in 1..n /\ q[j] = p[j - 1] /\ q[i] = n + 1 /\ k <= j - 1
    BY <1>2, <1>4, <1>7
  <2>2. After(n + 1, p[k])
    BY <1>2, <2>1
  <2>3. p[k] \in 1..(n + 1) /\ p[j - 1] \in 1..(n + 1) /\ n + 1 \in 1..(n + 1)
    BY <1>1, <2>1
  <2>4. ~After(p[k], n + 1)
    BY <1>3, <2>2, <2>3
  <2>5. j - 1 = k \/ ~After(p[j - 1], p[k])
    BY <1>1, <2>1
  <2> QED
    BY <1>3, <2>1, <2>3, <2>4, <2>5
<1>8. CASE i < k /\ k < j
  <2>1. i \in 1..n /\ j - 1 \in 1..n /\ q[i] = p[i] /\ q[j] = p[j - 1] /\ i < j - 1
    BY <1>2, <1>4, <1>8
  <2> QED
    BY <1>1, <2>1
<1>9. CASE k < i
  <2>1. i - 1 \in 1..n /\ j - 1 \in 1..n /\ q[i] = p[i - 1] /\ q[j] = p[j - 1] /\ i - 1 < j - 1
    BY <1>2, <1>4, <1>9
  <2> QED
    BY <1>1, <2>1
<1> QED
  BY <1>2, <1>5, <1>6, <1>7, <1>8, <1>9

LEMMA Arrangement ==
  ASSUME NEW S, NEW R, Orders(R, S), NEW m \in Nat, NEW s, \A i \in 1..m : s[i] \in S
  PROVE  \E p : Arranges(R, s, p, m)
<1> DEFINE Bad == {n \in Nat : n <= m /\ ~\E p : Arranges(R, s, p, n)}
<1>1. SUFFICES ASSUME Bad # {} PROVE FALSE
  OBVIOUS
<1>2. PICK n \in Bad : \A l \in Bad : ~(<<l, n>> \in OpToRel(<, Nat))
  BY <1>1, WFMin, NatLessThanWellFounded, Zenon
<1>3. n \in Nat /\ n <= m /\ ~\E p : Arranges(R, s, p, n)
  OBVIOUS
<1>4. n # 0
  <2>1. Arranges(R, s, [i \in 1..0 |-> 0], 0)
    BY DEF Arranges, OneToOne, Ascends
  <2> QED
    BY <1>3, <2>1
<1>5. n - 1 \in Nat /\ n - 1 \notin Bad
  <2>1. n - 1 \in Nat /\ <<n - 1, n>> \in OpToRel(<, Nat)
    BY <1>3, <1>4 DEF OpToRel
  <2> HIDE DEF Bad
  <2> QED
    BY <1>2, <2>1
<1>6. PICK p : Arranges(R, s, p, n - 1)
  BY <1>3, <1>5
<1> DEFINE l == n - 1
<1>7. l \in Nat /\ l + 1 = n /\ Arranges(R, s, p, l) /\ \A i \in 1..(l + 1) : s[i] \in S
  BY <1>3, <1>5, <1>6
<1> HIDE DEF l
<1>8. PICK k \in 1..(l + 1) : Place(R, s, p, l, k)
  BY <1>7, PlaceExists
<1>9. Arranges(R, s, Insert(p, l, k), l + 1)
  BY <1>7, <1>8, InsertIsOneToOne, InsertAscends DEF Arranges
<1> QED
  BY <1>3, <1>7, <1>9

LEMMA OneToOneIs ==
  ASSUME NEW s, NEW n \in Nat, DOMAIN s = 1..n, NEW p
  PROVE  p \in T!Bijection(DOMAIN s, DOMAIN s) <=> OneToOne(p, n)
BY DEF OneToOne, T!Bijection, T!Injection, T!Surjection, T!IsInjective

\* R is the order of outputs.
OutputOrders == {r \in SomeOutput \X SomeOutput : T!output_lt(r[1], r[2])}
InputOrders == {r \in SomeInput \X SomeInput : T!input_lt(r[1], r[2])}

LEMMA LessOrders ==
  ASSUME NEW a \in Codes, NEW b \in Codes, NEW c \in Codes
  PROVE  /\ Less(a, b) => ~Less(b, a)
         /\ ~Less(a, b) /\ ~Less(b, c) => ~Less(a, c)
<1>1. Less(a, b) => ~Less(b, a)
  BY LessTransitive, LessIrreflexive
<1>2. ASSUME ~Less(a, b), ~Less(b, c), Less(a, c) PROVE FALSE
  <2>1. a = b \/ Less(b, a)
    BY <1>2, LessTotal
  <2>2. b = c \/ Less(c, b)
    BY <1>2, LessTotal
  <2>3. CASE a = b
    BY <1>2, <2>3
  <2>4. CASE Less(b, a)
    <3>1. Less(b, c)
      BY <1>2, <2>4, LessTransitive
    <3> QED
      BY <1>2, <3>1
  <2> QED
    BY <2>1, <2>3, <2>4
<1> QED
  BY <1>1, <1>2

LEMMA TypesOrder ==
  Orders(OutputOrders, SomeOutput) /\ Orders(InputOrders, SomeInput)
<1>1. Orders(OutputOrders, SomeOutput)
  <2> DEFINE code(o) == T!output_bytes(o)
  <2>1. \A o, p \in SomeOutput : /\ code(o) \in Codes
                                 /\ <<o, p>> \in OutputOrders <=> Less(code(o), code(p))
    BY OutputOrder, OutputApart DEF OutputOrders
  <2> HIDE DEF code
  <2>2. ASSUME NEW a \in SomeOutput, NEW b \in SomeOutput, NEW c \in SomeOutput
        PROVE  /\ <<a, b>> \in OutputOrders => <<b, a>> \notin OutputOrders
               /\ <<a, b>> \notin OutputOrders /\ <<b, c>> \notin OutputOrders
                    => <<a, c>> \notin OutputOrders
    BY <2>1, LessOrders
  <2> QED
    BY <2>2 DEF Orders
<1>2. Orders(InputOrders, SomeInput)
  <2> DEFINE code(i) == <<i.tx_id, i.output_index>>
  <2>1. \A i, j \in SomeInput : /\ code(i) \in Codes
                                /\ <<i, j>> \in InputOrders <=> Less(code(i), code(j))
    BY InputOrder DEF InputOrders
  <2> HIDE DEF code
  <2>2. ASSUME NEW a \in SomeInput, NEW b \in SomeInput, NEW c \in SomeInput
        PROVE  /\ <<a, b>> \in InputOrders => <<b, a>> \notin InputOrders
               /\ <<a, b>> \notin InputOrders /\ <<b, c>> \notin InputOrders
                    => <<a, c>> \notin InputOrders
    BY <2>1, LessOrders
  <2> QED
    BY <2>2 DEF Orders
<1> QED
  BY <1>1, <1>2

LEMMA SortedList ==
  ASSUME NEW S, NEW R, Orders(R, S), NEW s \in Seq(S)
  PROVE  LET all == {[i \in DOMAIN s |-> s[p[i]]] : p \in T!Bijection(DOMAIN s, DOMAIN s)} IN
         /\ \E t \in all : \A i, j \in DOMAIN s : i < j => <<t[j], t[i]>> \notin R
         /\ \A t \in all : /\ t \in Seq(S) /\ DOMAIN t = DOMAIN s
                           /\ \A i \in DOMAIN s : \E j \in DOMAIN s : t[i] = s[j]
<1> DEFINE n == Len(s)
           By(p) == [i \in DOMAIN s |-> s[p[i]]]
           all == {By(p) : p \in T!Bijection(DOMAIN s, DOMAIN s)}
<1>1. n \in Nat /\ DOMAIN s = 1..n /\ \A i \in 1..n : s[i] \in S
  BY LenProperties, ElementOfSeq
<1>2. \A p : p \in T!Bijection(DOMAIN s, DOMAIN s) <=> OneToOne(p, n)
  BY <1>1, OneToOneIs
<1>3. PICK p : Arranges(R, s, p, n)
  BY <1>1, Arrangement
<1>4. By(p) \in all
  BY <1>2, <1>3 DEF Arranges
<1>5. \A i, j \in DOMAIN s : i < j => <<By(p)[j], By(p)[i]>> \notin R
  BY <1>1, <1>3 DEF Arranges, Ascends
<1>6. ASSUME NEW t \in all
      PROVE  t \in Seq(S) /\ DOMAIN t = DOMAIN s
             /\ \A i \in DOMAIN s : \E j \in DOMAIN s : t[i] = s[j]
  <2>1. PICK q \in T!Bijection(DOMAIN s, DOMAIN s) : t = By(q)
    OBVIOUS
  <2>2. \A i \in 1..n : q[i] \in 1..n
    BY <1>2, <2>1 DEF OneToOne
  <2>3. t = [i \in 1..n |-> s[q[i]]]
    BY <1>1, <2>1
  <2> HIDE DEF n, By, all
  <2>4. \A i \in 1..n : s[q[i]] \in S
    BY <1>1, <2>2
  <2>5. t \in Seq(S)
    BY <1>1, <2>3, <2>4, IsASeq
  <2> QED
    BY <1>1, <2>2, <2>3, <2>5
<1> QED
  BY <1>4, <1>5, <1>6

LEMMA SortedOutputs ==
  ASSUME NEW s \in T!Outputs, Somes(s)
  PROVE  LET t == T!Sorted(s, T!output_lt) IN
         /\ t \in T!Outputs /\ Somes(t)
         /\ \A i, j \in DOMAIN t : i < j => ~T!output_lt(t[j], t[i])
<1> DEFINE all == {[i \in DOMAIN s |-> s[p[i]]] : p \in T!Bijection(DOMAIN s, DOMAIN s)}
           t == T!Sorted(s, T!output_lt)
<1>1. s \in Seq(SomeOutput)
  BY SomesAre
<1>2. /\ \E u \in all : \A i, j \in DOMAIN s : i < j => <<u[j], u[i]>> \notin OutputOrders
      /\ \A u \in all : u \in Seq(SomeOutput) /\ DOMAIN u = DOMAIN s
  BY <1>1, SortedList, TypesOrder
<1>3. \A u \in Seq(SomeOutput) : \A i \in DOMAIN u : u[i] \in SomeOutput
  BY LenProperties, ElementOfSeq
<1>4. \E u \in all : \A i, j \in DOMAIN s : i < j => ~T!output_lt(u[j], u[i])
  BY <1>2, <1>3 DEF OutputOrders
<1>5. t = CHOOSE u \in all : \A i, j \in DOMAIN s : i < j => ~T!output_lt(u[j], u[i])
  BY Zenon DEF T!Sorted
<1> HIDE DEF all, t
<1>6. t \in all /\ \A i, j \in DOMAIN s : i < j => ~T!output_lt(t[j], t[i])
  BY <1>4, <1>5, Zenon
<1>7. t \in Seq(SomeOutput) /\ DOMAIN t = DOMAIN s
  BY <1>2, <1>6
<1>8. t \in T!Outputs
  <2>1. SomeOutput \subseteq T!Output(T!Option)
    BY DEF SomeOutput, T!Output, T!Option
  <2> QED
    BY <1>7, <2>1, SeqMonotonic DEF T!Outputs
<1>9. Somes(t)
  <2>1. \A o \in SomeOutput : o.option = "Some"
    BY DEF SomeOutput, T!Output
  <2> QED
    BY <1>3, <1>7, <2>1 DEF Somes
<1> QED
  BY <1>6, <1>7, <1>8, <1>9 DEF t

LEMMA SortedInputs ==
  ASSUME NEW s \in T!Inputs, Somes(s)
  PROVE  LET t == T!Sorted(s, T!input_lt) IN
         /\ t \in T!Inputs /\ Somes(t)
         /\ \A i, j \in DOMAIN t : i < j => ~T!input_lt(t[j], t[i])
<1> DEFINE all == {[i \in DOMAIN s |-> s[p[i]]] : p \in T!Bijection(DOMAIN s, DOMAIN s)}
           t == T!Sorted(s, T!input_lt)
<1>1. s \in Seq(SomeInput)
  BY SomesAre
<1>2. /\ \E u \in all : \A i, j \in DOMAIN s : i < j => <<u[j], u[i]>> \notin InputOrders
      /\ \A u \in all : u \in Seq(SomeInput) /\ DOMAIN u = DOMAIN s
  BY <1>1, SortedList, TypesOrder
<1>3. \A u \in Seq(SomeInput) : \A i \in DOMAIN u : u[i] \in SomeInput
  BY LenProperties, ElementOfSeq
<1>4. \E u \in all : \A i, j \in DOMAIN s : i < j => ~T!input_lt(u[j], u[i])
  BY <1>2, <1>3 DEF InputOrders
<1>5. t = CHOOSE u \in all : \A i, j \in DOMAIN s : i < j => ~T!input_lt(u[j], u[i])
  BY Zenon DEF T!Sorted
<1> HIDE DEF all, t
<1>6. t \in all /\ \A i, j \in DOMAIN s : i < j => ~T!input_lt(t[j], t[i])
  BY <1>4, <1>5, Zenon
<1>7. t \in Seq(SomeInput) /\ DOMAIN t = DOMAIN s
  BY <1>2, <1>6
<1>8. t \in T!Inputs
  <2>1. SomeInput \subseteq T!Input(T!Option)
    BY DEF SomeInput, T!Input, T!Option
  <2> QED
    BY <1>7, <2>1, SeqMonotonic DEF T!Inputs
<1>9. Somes(t)
  <2>1. \A o \in SomeInput : o.option = "Some"
    BY DEF SomeInput, T!Input
  <2> QED
    BY <1>3, <1>7, <2>1 DEF Somes
<1> QED
  BY <1>6, <1>7, <1>8, <1>9 DEF t

-----------------------------------------------------------------------------
(* Transactions: the inductive invariant.                                  *)

Typed(t) == \E type \in DOMAIN T!Own : t \in T!Tx(type)
UnsignedBytes(t) == Cat(T!base_bytes(t), T!own_bytes(t))

\* An id that was given is that of the bytes of its transaction and credentials.
Seal(a) ==
  /\ a = [id |-> a.id, tx |-> a.tx, creds |-> a.creds]
  /\ Typed(a.tx) /\ T!Complete(a.tx) /\ a.creds \in Seq(Codes)
  /\ a.id = Cat(UnsignedBytes(a.tx), T!List(T!cred_bytes, a.creds))

TxTypes ==
  /\ txStage \in {"built", "sorted", "again", "signing", "signed", "failed"}
  /\ Typed(tx) /\ signers \in Seq(Codes) /\ creds \in Seq(Codes)

TxInv ==
  /\ TxTypes
  /\ txStage \in {"sorted", "again", "signing", "signed"} => T!Complete(tx)
  /\ txStage = "signing" => unsigned = UnsignedBytes(tx)
  /\ txStage \in {"built", "sorted"} => metadata = <<>>
  /\ \A a \in sealed : Seal(a)
  /\ metadata # <<>> => \E a \in sealed : a.id = metadata[1].id /\ a.tx = tx
  /\ T!SortedAsBytes

LEMMA SealsTell ==
  ASSUME NEW a, NEW b, Seal(a), Seal(b), a.id = b.id
  PROVE  a = b
<1>1. PICK type \in DOMAIN T!Own : a.tx \in T!Tx(type)
  BY DEF Seal, Typed
<1>2. PICK other \in DOMAIN T!Own : b.tx \in T!Tx(other)
  BY DEF Seal, Typed
<1>3. /\ T!Complete(a.tx) /\ T!Complete(b.tx) /\ a.creds \in Seq(Codes) /\ b.creds \in Seq(Codes)
      /\ a.id = Cat(Cat(T!base_bytes(a.tx), T!own_bytes(a.tx)), T!List(T!cred_bytes, a.creds))
      /\ b.id = Cat(Cat(T!base_bytes(b.tx), T!own_bytes(b.tx)), T!List(T!cred_bytes, b.creds))
  BY DEF Seal, UnsignedBytes
<1>4. a.tx = b.tx /\ a.creds = b.creds
  <2> DEFINE t == a.tx
             u == b.tx
             c == a.creds
             d == b.creds
  <2>1. /\ t \in T!Tx(type) /\ T!Complete(t) /\ c \in Seq(Codes)
        /\ u \in T!Tx(other) /\ T!Complete(u) /\ d \in Seq(Codes)
        /\ Cat(Cat(T!base_bytes(t), T!own_bytes(t)), T!List(T!cred_bytes, c))
           = Cat(Cat(T!base_bytes(u), T!own_bytes(u)), T!List(T!cred_bytes, d))
    BY <1>1, <1>2, <1>3
  <2> HIDE DEF t, u, c, d
  <2>2. t = u /\ c = d
    BY <2>1, SealedCodes
  <2> QED
    BY <2>2 DEF t, u, c, d
<1>5. /\ a = [id |-> a.id, tx |-> a.tx, creds |-> a.creds]
      /\ b = [id |-> b.id, tx |-> b.tx, creds |-> b.creds]
  BY Zenon DEF Seal
<1> QED
  BY <1>4, <1>5, Zenon

LEMMA TxInvSuffices == ASSUME TxInv PROVE T!SameIdSameTx /\ T!SortedAsBytes
BY SealsTell DEF TxInv, T!SameIdSameTx

LEMMA TxInits == ASSUME T!Init PROVE TxInv
<1>1. /\ tx \in Txs /\ txStage = "built" /\ signers = <<>> /\ creds = <<>> /\ metadata = <<>>
      /\ sealed = {}
  BY DEF T!Init
<1>2. Typed(tx) /\ signers \in Seq(Codes) /\ creds \in Seq(Codes)
  BY <1>1, TxAssumption DEF Typed
<1> QED
  BY <1>1, <1>2 DEF TxInv, TxTypes, T!SortedAsBytes

LEMMA PackKeeps == ASSUME TxInv, T!pack PROVE TxInv'
<1>1. /\ T!Complete(tx) /\ unsigned' = T!base_bytes(tx) \o T!own_bytes(tx)
      /\ signers' \in Signers /\ creds' = <<>> /\ txStage' = "signing"
      /\ UNCHANGED <<tx, metadata, sealed>>
  BY DEF T!pack
<1>2. unsigned' = UnsignedBytes(tx')
  BY <1>1, Zenon DEF UnsignedBytes, Cat
<1>3. signers' \in Seq(Codes) /\ creds' \in Seq(Codes)
  BY <1>1, TxAssumption DEF Codes
<1>4. Typed(tx') /\ T!Complete(tx')
  BY <1>1 DEF TxInv, TxTypes
<1>5. \A a \in sealed' : Seal(a)
  BY <1>1 DEF TxInv
<1>6. metadata' # <<>> => \E a \in sealed' : a.id = metadata'[1].id /\ a.tx = tx'
  BY <1>1 DEF TxInv
<1> QED
  BY <1>1, <1>2, <1>3, <1>4, <1>5, <1>6 DEF TxInv, TxTypes, T!SortedAsBytes

LEMMA SignCredKeeps == ASSUME TxInv, T!sign_cred PROVE TxInv'
<1>1. /\ txStage = "signing" /\ Len(creds) < Len(signers)
      /\ creds' = Append(creds, signers[Len(creds) + 1])
      /\ UNCHANGED <<tx, txStage, unsigned, signers, metadata, sealed>>
  BY DEF T!sign_cred
<1>2. creds' \in Seq(Codes)
  <2>1. creds \in Seq(Codes) /\ signers \in Seq(Codes)
    BY DEF TxInv, TxTypes
  <2>2. Len(creds) + 1 \in 1..Len(signers)
    BY <1>1, <2>1, LenProperties
  <2>3. signers[Len(creds) + 1] \in Codes
    BY <2>1, <2>2, ElementOfSeq
  <2> QED
    BY <1>1, <2>1, <2>3, AppendProperties
<1>3. \A a \in sealed' : Seal(a)
  BY <1>1 DEF TxInv
<1> QED
  BY <1>1, <1>2, <1>3 DEF TxInv, TxTypes, T!SortedAsBytes

\* Steps that leave the transaction and its credentials alone.
LEMMA StageKeeps ==
  ASSUME TxInv, txStage' \in {"failed", "again"}, txStage' = "again" => T!Complete(tx),
         UNCHANGED <<tx, unsigned, signers, creds, metadata, sealed>>
  PROVE  TxInv'
<1>1. \A a \in sealed' : Seal(a)
  BY DEF TxInv
<1> QED
  BY <1>1 DEF TxInv, TxTypes, T!SortedAsBytes

LEMMA SealKeeps == ASSUME TxInv, T!seal PROVE TxInv'
<1> DEFINE id == unsigned \o T!List(T!cred_bytes, creds)
           new == [id |-> id, tx |-> tx, creds |-> creds]
<1>1. /\ txStage = "signing" /\ txStage' = "signed"
      /\ metadata' = <<[unsigned |-> unsigned, id |-> id]>>
      /\ sealed' = sealed \union {new}
      /\ UNCHANGED <<tx, unsigned, signers, creds>>
  BY Zenon DEF T!seal
<1>2. /\ Typed(tx) /\ T!Complete(tx) /\ creds \in Seq(Codes) /\ signers \in Seq(Codes)
      /\ unsigned = UnsignedBytes(tx)
  BY <1>1 DEF TxInv, TxTypes
<1>3. id = Cat(UnsignedBytes(tx), T!List(T!cred_bytes, creds))
  BY <1>2, Zenon DEF Cat
<1> HIDE DEF id
<1>4. new.id = id /\ new.tx = tx /\ new.creds = creds
  OBVIOUS
<1>5. Seal(new)
  BY <1>2, <1>3, <1>4, Zenon DEF Seal
<1> HIDE DEF new
<1>6. \A a \in sealed' : Seal(a)
  BY <1>1, <1>5 DEF TxInv
<1>7. \E a \in sealed' : a.id = metadata'[1].id /\ a.tx = tx'
  <2>1. metadata'[1].id = id
    BY <1>1
  <2> QED
    BY <1>1, <1>4, <2>1
<1> QED
  BY <1>1, <1>2, <1>6, <1>7 DEF TxInv, TxTypes, T!SortedAsBytes

LEMMA BuildKeeps == ASSUME TxInv, T!build PROVE TxInv'
<1>1. /\ tx' \in Txs /\ txStage' = "built" /\ signers' = <<>> /\ creds' = <<>>
      /\ metadata' = <<>> /\ sealed' = sealed
  BY DEF T!build
<1>2. Typed(tx') /\ signers' \in Seq(Codes) /\ creds' \in Seq(Codes)
  BY <1>1, TxAssumption DEF Typed
<1>3. \A a \in sealed' : Seal(a)
  BY <1>1 DEF TxInv
<1> QED
  BY <1>1, <1>2, <1>3 DEF TxInv, TxTypes, T!SortedAsBytes

LEMMA SortedAscend ==
  /\ \A s \in Seq(SomeOutput) :
       (\A i, j \in DOMAIN s : i < j => ~T!output_lt(s[j], s[i])) => T!Ascending(T!output_bytes, s)
  /\ \A s \in Seq(SomeInput) :
       (\A i, j \in DOMAIN s : i < j => ~T!input_lt(s[j], s[i]))
         => \A i, j \in DOMAIN s : i < j =>
              ~T!Before(<<s[j].tx_id, s[j].output_index>>, <<s[i].tx_id, s[i].output_index>>)
<1>1. ASSUME NEW s \in Seq(SomeOutput),
             \A i, j \in DOMAIN s : i < j => ~T!output_lt(s[j], s[i]),
             NEW i \in DOMAIN s, NEW j \in DOMAIN s, i < j
      PROVE  ~T!Before(T!output_bytes(s[j]), T!output_bytes(s[i]))
  <2> DEFINE o == s[j]
             p == s[i]
  <2>1. o \in SomeOutput /\ p \in SomeOutput /\ ~T!output_lt(o, p)
    BY <1>1, LenProperties, ElementOfSeq
  <2> HIDE DEF o, p
  <2>2. /\ T!output_bytes(o) \in Codes /\ T!output_bytes(p) \in Codes
        /\ ~Less(T!output_bytes(o), T!output_bytes(p))
    BY <2>1, OutputOrder, OutputApart
  <2>3. ~T!Before(T!output_bytes(o), T!output_bytes(p))
    BY <2>2, BeforeIsLess
  <2> QED
    BY <2>3 DEF o, p
<1>2. ASSUME NEW s \in Seq(SomeInput),
             \A i, j \in DOMAIN s : i < j => ~T!input_lt(s[j], s[i]),
             NEW i \in DOMAIN s, NEW j \in DOMAIN s, i < j
      PROVE  ~T!Before(<<s[j].tx_id, s[j].output_index>>, <<s[i].tx_id, s[i].output_index>>)
  <2> DEFINE o == s[j]
             p == s[i]
             a == <<o.tx_id, o.output_index>>
             b == <<p.tx_id, p.output_index>>
  <2>1. o \in SomeInput /\ p \in SomeInput /\ ~T!input_lt(o, p)
    BY <1>2, LenProperties, ElementOfSeq
  <2> HIDE DEF o, p
  <2>2. a \in Codes /\ b \in Codes /\ ~Less(a, b)
    BY <2>1, InputOrder
  <2> HIDE DEF a, b
  <2>3. ~T!Before(a, b)
    BY <2>2, BeforeIsLess
  <2> QED
    BY <2>3 DEF o, p, a, b
<1> QED
  BY <1>1, <1>2 DEF T!Ascending

\* The list of its own a type sorts, next to those every transaction has.
LEMMA OwnSorted ==
  ASSUME NEW type \in {"AddValidatorTx", "AddPermissionlessValidatorTx"},
         NEW own \in T!Own[type], NEW s \in T!Outputs
  PROVE  /\ own.outputs \in T!Outputs
         /\ [own EXCEPT !.outputs = s] \in T!Own[type]
         /\ [own EXCEPT !.outputs = s].outputs = s
         /\ DOMAIN [own EXCEPT !.outputs = s] = DOMAIN own
         /\ "inputs" \notin DOMAIN own /\ "outputs" \in DOMAIN own
<1>1. CASE type = "AddValidatorTx"
  <2>1. T!Own[type] = [validator : T!Validator, outputs : T!Outputs,
                       rewards_owner : T!OutputOwners, shares : Nat]
    BY <1>1, MoreOwns
  <2> QED
    BY <2>1
<1>2. CASE type = "AddPermissionlessValidatorTx"
  <2>1. T!Own[type] = [validator : T!Validator, subnet_id : Nat, signer : T!Signer,
                       outputs : T!Outputs, rewards_owner : T!OutputOwners,
                       delegator_owner : T!OutputOwners, shares : Nat]
    BY <1>2, MoreOwns
  <2> QED
    BY <2>1
<1> QED
  BY <1>1, <1>2

LEMMA BaseSorted ==
  ASSUME NEW type \in DOMAIN T!Own, NEW t \in T!Tx(type), T!Complete(t)
  PROVE  LET b == [t EXCEPT !.outputs = T!Sorted(@, T!output_lt),
                            !.inputs = T!Sorted(@, T!input_lt)] IN
         /\ b \in T!Tx(type) /\ T!Complete(b) /\ b.own = t.own /\ b.type = t.type
         /\ T!Ascending(T!output_bytes, b.outputs)
         /\ \A i, j \in DOMAIN b.inputs : i < j =>
              ~T!Before(<<b.inputs[j].tx_id, b.inputs[j].output_index>>,
                        <<b.inputs[i].tx_id, b.inputs[i].output_index>>)
<1> DEFINE outs == T!Sorted(t.outputs, T!output_lt)
           ins == T!Sorted(t.inputs, T!input_lt)
           b == [t EXCEPT !.outputs = outs, !.inputs = ins]
<1>1. /\ t.outputs \in T!Outputs /\ Somes(t.outputs) /\ t.inputs \in T!Inputs /\ Somes(t.inputs)
      /\ "outputs" \in DOMAIN t.own => Somes(t.own.outputs)
      /\ "inputs" \in DOMAIN t.own => Somes(t.own.inputs)
  BY CompleteTx
<1>2. /\ outs \in T!Outputs /\ Somes(outs)
      /\ \A i, j \in DOMAIN outs : i < j => ~T!output_lt(outs[j], outs[i])
  BY <1>1, SortedOutputs
<1>3. /\ ins \in T!Inputs /\ Somes(ins)
      /\ \A i, j \in DOMAIN ins : i < j => ~T!input_lt(ins[j], ins[i])
  BY <1>1, SortedInputs
<1> HIDE DEF outs, ins
<1>4. /\ b \in T!Tx(type) /\ b.own = t.own /\ b.type = t.type
      /\ b.outputs = outs /\ b.inputs = ins
  BY <1>2, <1>3 DEF T!Tx
<1>5. T!Ascending(T!output_bytes, outs)
  BY <1>2, SomesAre, SortedAscend
<1>6. \A i, j \in DOMAIN ins : i < j =>
        ~T!Before(<<ins[j].tx_id, ins[j].output_index>>, <<ins[i].tx_id, ins[i].output_index>>)
  BY <1>3, SomesAre, SortedAscend
<1> HIDE DEF b
<1>7. T!Complete(b)
  BY <1>1, <1>2, <1>3, <1>4 DEF T!Complete, Somes
<1>8. b = [t EXCEPT !.outputs = T!Sorted(@, T!output_lt), !.inputs = T!Sorted(@, T!input_lt)]
  BY DEF b, outs, ins
<1> QED
  BY <1>4, <1>5, <1>6, <1>7, <1>8, Zenon

InputsAscend(s) ==
  \A i, j \in DOMAIN s : i < j =>
    ~T!Before(<<s[j].tx_id, s[j].output_index>>, <<s[i].tx_id, s[i].output_index>>)

LEMMA OwnOutputsSorted ==
  ASSUME NEW type \in {"AddValidatorTx", "AddPermissionlessValidatorTx"},
         NEW b \in T!Tx(type), T!Complete(b)
  PROVE  LET c == [b EXCEPT !.own.outputs = T!Sorted(@, T!output_lt)] IN
         /\ c \in T!Tx(type) /\ T!Complete(c) /\ c.type = type
         /\ c.outputs = b.outputs /\ c.inputs = b.inputs
         /\ T!Ascending(T!output_bytes, c.own.outputs)
<1> DEFINE outs == T!Sorted(b.own.outputs, T!output_lt)
           own == [b.own EXCEPT !.outputs = outs]
           c == [b EXCEPT !.own = own]
<1>1. type \in DOMAIN T!Own
  BY DEF T!Own
<1>2. /\ b.own \in T!Own[type] /\ Somes(b.outputs) /\ Somes(b.inputs)
      /\ "outputs" \in DOMAIN b.own => Somes(b.own.outputs)
  BY <1>1, CompleteTx
<1>3. b.own.outputs \in T!Outputs /\ Somes(b.own.outputs)
  <2>1. <<>> \in T!Outputs
    BY EmptySeq DEF T!Outputs
  <2> QED
    BY <1>2, <2>1, OwnSorted
<1>4. /\ outs \in T!Outputs /\ Somes(outs)
      /\ \A i, j \in DOMAIN outs : i < j => ~T!output_lt(outs[j], outs[i])
  BY <1>3, SortedOutputs
<1> HIDE DEF outs
<1>5. /\ own \in T!Own[type] /\ own.outputs = outs
      /\ "inputs" \notin DOMAIN own /\ "outputs" \in DOMAIN own
  BY <1>2, <1>4, OwnSorted
<1> HIDE DEF own
<1>6. /\ c \in T!Tx(type) /\ c.own = own /\ c.type = type
      /\ c.outputs = b.outputs /\ c.inputs = b.inputs
  BY <1>5 DEF T!Tx
<1>7. T!Ascending(T!output_bytes, outs)
  BY <1>4, SomesAre, SortedAscend
<1>8. c = [b EXCEPT !.own.outputs = T!Sorted(@, T!output_lt)]
  BY Zenon DEF own, outs
<1> HIDE DEF c
<1>9. T!Complete(c)
  BY <1>2, <1>4, <1>5, <1>6 DEF T!Complete, Somes
<1> QED
  BY <1>5, <1>6, <1>7, <1>8, <1>9, Zenon

LEMMA SortKeeps == ASSUME TxInv, T!sort PROVE TxInv'
<1> DEFINE b == [tx EXCEPT !.outputs = T!Sorted(@, T!output_lt), !.inputs = T!Sorted(@, T!input_lt)]
           c == [b EXCEPT !.own.outputs = T!Sorted(@, T!output_lt)]
<1>1. /\ txStage = "built" /\ T!Complete(tx) /\ txStage' = "sorted"
      /\ tx' = IF T!SortsOwn THEN c ELSE b
      /\ UNCHANGED <<unsigned, signers, creds, metadata, sealed>>
  BY Zenon DEF T!sort, T!Sorts
<1>2. PICK type \in DOMAIN T!Own : tx \in T!Tx(type)
  BY DEF TxInv, TxTypes, Typed
<1>3. /\ b \in T!Tx(type) /\ T!Complete(b) /\ b.type = tx.type
      /\ T!Ascending(T!output_bytes, b.outputs) /\ InputsAscend(b.inputs)
  BY <1>1, <1>2, BaseSorted, Zenon DEF InputsAscend
<1> HIDE DEF b
<1>4. tx.type = type /\ (T!SortsOwn <=> type \in {"AddValidatorTx", "AddPermissionlessValidatorTx"})
  BY <1>2 DEF T!Tx, T!SortsOwn
<1>5. T!SortsOwn => /\ c \in T!Tx(type) /\ T!Complete(c) /\ c.type = type
                    /\ c.outputs = b.outputs /\ c.inputs = b.inputs
                    /\ T!Ascending(T!output_bytes, c.own.outputs)
  BY <1>3, <1>4, OwnOutputsSorted, Zenon
<1> HIDE DEF c
<1>6. /\ tx' \in T!Tx(type) /\ T!Complete(tx') /\ tx'.type = tx.type
      /\ T!Ascending(T!output_bytes, tx'.outputs) /\ InputsAscend(tx'.inputs)
      /\ T!SortsOwn => T!Ascending(T!output_bytes, tx'.own.outputs)
  BY <1>1, <1>3, <1>4, <1>5
<1>7. T!SortedAsBytes'
  <2>1. T!SortsOwn' <=> T!SortsOwn
    BY <1>6 DEF T!SortsOwn
  <2> QED
    BY <1>6, <2>1 DEF T!SortedAsBytes, T!Ascending, InputsAscend
<1>8. Typed(tx')
  BY <1>6 DEF Typed
<1>9. metadata' = <<>> /\ creds' = creds /\ signers' = signers /\ sealed' = sealed
  BY <1>1 DEF TxInv
<1> QED
  BY <1>1, <1>6, <1>7, <1>8, <1>9 DEF TxInv, TxTypes

LEMMA TxKeeps == ASSUME TxInv, T!Next PROVE TxInv'
<1>1. CASE T!pack_fails \/ T!sign_fails \/ T!again
  <2>1. /\ txStage' \in {"failed", "again"} /\ (txStage' = "again" => T!Complete(tx))
        /\ UNCHANGED <<tx, unsigned, signers, creds, metadata, sealed>>
    BY <1>1 DEF T!pack_fails, T!sign_fails, T!again
  <2> QED
    BY <2>1, StageKeeps
<1> QED
  BY <1>1, SortKeeps, PackKeeps, SignCredKeeps, SealKeeps, BuildKeeps DEF T!Next

LEMMA TxStays == ASSUME TxInv, UNCHANGED txVars PROVE TxInv'
<1>1. UNCHANGED <<tx, txStage, unsigned, signers, creds, metadata, sealed>>
  BY DEF txVars
<1>2. \A a \in sealed' : Seal(a)
  BY <1>1 DEF TxInv
<1>3. TxTypes'
  BY <1>1 DEF TxInv, TxTypes
<1>4. T!SortedAsBytes'
  BY <1>1, Zenon DEF TxInv, T!SortedAsBytes, T!SortsOwn, T!Ascending
<1>5. metadata' # <<>> => \E a \in sealed' : a.id = metadata'[1].id /\ a.tx = tx'
  BY <1>1 DEF TxInv
<1> QED
  BY <1>1, <1>2, <1>3, <1>4, <1>5 DEF TxInv

\* SameIdSameTx, of pack and sign of every type in src/avm/txs and
\* src/platformvm/txs: whatever is built, sorted, signed and signed again, two
\* transactions, or two lists of credentials, never have one id, and the id a
\* transaction has is that of a signing of this transaction that was completed.
THEOREM IdsTellTransactions == MCSpec => []SameIdSameTx
<1> DEFINE Inv == system = "sign" => TxInv
<1>1. MCInit => Inv
  BY TxInits DEF MCInit
<1>2. Inv /\ [MCNext]_allVars => Inv'
  BY TxKeeps, TxStays DEF MCNext, allVars
<1>3. Inv => SameIdSameTx
  BY TxInvSuffices DEF SameIdSameTx
<1> QED
  BY <1>1, <1>2, <1>3, PTL DEF MCSpec

\* SortedAsBytes, of the orders of src/txs and src/key and the sorts of spend and
\* of the X-chain's issues: the fields are compared as the chain compares the
\* bytes, whatever the locks and the lists of owners.
THEOREM WalletSortsForTheChain == MCSpec => []SortedAsBytes
<1> DEFINE Inv == system = "sign" => TxInv
<1>1. MCInit => Inv
  BY TxInits DEF MCInit
<1>2. Inv /\ [MCNext]_allVars => Inv'
  BY TxKeeps, TxStays DEF MCNext, allVars
<1>3. Inv => SortedAsBytes
  BY TxInvSuffices DEF SortedAsBytes
<1> QED
  BY <1>1, <1>2, <1>3, PTL DEF MCSpec
==============================================================================
