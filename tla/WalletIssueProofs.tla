-------------------------- MODULE WalletIssueProofs --------------------------
(***************************************************************************)
(* Proofs about the four parts of MCWalletIssue, for any values of their   *)
(* constants: what issue reports has happened, whatever the endpoints it   *)
(* asked knew (WalletIssue); what clones of a wallet that submit to an EVM *)
(* are told (EvmTx); what a relayer has the forwarder carry out            *)
(* (GsnRelay); and what an issue ends with, whatever the times of its      *)
(* steps (IssueTiming).                                                    *)
(***************************************************************************)
EXTENDS MCWalletIssue, SequenceTheorems, TLAPS

-----------------------------------------------------------------------------
(* Issue: the inductive invariant.                                         *)

Built == [by : Callers, kind : DOMAIN Issues, ins : SUBSET Utxos]
Things == [tx : Built \cup {NoTx}, active : {"none", "subnet", "primary"}]
Results == [end : {"running", "ok", "err", "panic"}, tx : Built \cup {NoTx},
            issued : BOOLEAN, retryable : BOOLEAN]

Types ==
  /\ request \in Requests
  /\ cursor \in Urls
  /\ at \in [Callers -> Nat] /\ \A c \in Callers : at[c] \in 1..Len(Steps(c))
  /\ picked \in [Callers -> Urls]
  /\ tx \in [Callers -> Built \cup {NoTx}]
  /\ result \in [Callers -> Results]
  /\ accepted \in Seq(Things)
  /\ seen \in [Urls -> Nat] /\ \A u \in Urls : seen[u] <= Len(accepted)
  /\ mempool \in [Urls -> SUBSET Built]

\* A caller's transaction is its own, and is there once it was built.
Own(c, t) == t # NoTx => t.by = c /\ t.kind = Kind(c)
Later == {"authorize", "sign", "issue", "status", "validator"}

Transactions ==
  \A c \in Callers :
    /\ Own(c, tx[c]) /\ Own(c, result[c].tx)
    /\ \A name \in Later : AtStep(c, name) => tx[c] # NoTx
    /\ AtStep(c, "validator") => tx[c] \in Txs(accepted)

\* The chain takes each output once, and makes the node a validator only of what
\* a transaction asked for.
Chain ==
  /\ \A i, j \in DOMAIN accepted :
       i # j => accepted[i].tx.ins \cap accepted[j].tx.ins = {}
  /\ \A kind \in DOMAIN Issues : IsValidator(accepted, kind) => WillValidate(accepted, kind)

\* What issue may report of c.
Honest(c, r) ==
  r.end = "ok" =>
    /\ r.issued /\ request[c].check
         => /\ r.tx \in Txs(accepted)
            /\ Kind(c) \in Staking => IsValidator(accepted, Kind(c))
    /\ r.tx = NoTx => WillValidate(accepted, Kind(c))

Reported == \A c \in Callers : Honest(c, result[c])

IssueInv == Types /\ Transactions /\ Chain /\ Reported

-----------------------------------------------------------------------------
(* The steps of the issue methods.                                         *)

\* A staking kind polls for the validator last, another one for the status; the
\* status is asked before the validator, and the outputs before what is Later.
InOrder(s, i) ==
  /\ s[i] = "validator" => i = Len(s)
  /\ i # Len(s) =>
       /\ s[i] # "status" => s[i + 1] # "validator"
       /\ s[i] \notin Later \cup {"utxos", "own_utxos"} => s[i + 1] \notin Later

Orderly(s, last) ==
  /\ Len(s) \in Nat \ {0} /\ s[1] = "pick" /\ s[Len(s)] = last
  /\ \A i \in 1..Len(s) : InOrder(s, i)

LEMMA OrderlyStaking ==
  Orderly(<<"pick", "validator?", "balance", "utxos", "sign",
             "issue", "status", "validator">>,
          "validator")
<1> DEFINE s == <<"pick", "validator?", "balance", "utxos", "sign",
                  "issue", "status", "validator">>
<1>1. Len(s) = 8
  OBVIOUS
<1>2. /\ s[1] = "pick" /\ s[2] = "validator?" /\ s[3] = "balance"
      /\ s[4] = "utxos" /\ s[5] = "sign" /\ s[6] = "issue"
      /\ s[7] = "status" /\ s[8] = "validator"
  OBVIOUS
<1>3. \A i \in 1..8 : i \in {1, 2, 3, 4, 5, 6, 7, 8}
  OBVIOUS
<1> HIDE DEF s
<1>4. /\ InOrder(s, 1) /\ InOrder(s, 2) /\ InOrder(s, 3) /\ InOrder(s, 4) /\ InOrder(s, 5)
      /\ InOrder(s, 6) /\ InOrder(s, 7) /\ InOrder(s, 8)
  BY <1>1, <1>2 DEF InOrder, Later
<1>5. Orderly(s, "validator")
  BY <1>1, <1>2, <1>3, <1>4 DEF Orderly
<1> QED BY <1>5 DEF s

LEMMA OrderlySubnet ==
  Orderly(<<"pick", "validator?", "balance", "utxos", "authorize",
             "sign", "issue", "status", "validator">>,
          "validator")
<1> DEFINE s == <<"pick", "validator?", "balance", "utxos", "authorize",
                  "sign", "issue", "status", "validator">>
<1>1. Len(s) = 9
  OBVIOUS
<1>2. /\ s[1] = "pick" /\ s[2] = "validator?" /\ s[3] = "balance"
      /\ s[4] = "utxos" /\ s[5] = "authorize" /\ s[6] = "sign"
      /\ s[7] = "issue" /\ s[8] = "status" /\ s[9] = "validator"
  OBVIOUS
<1>3. \A i \in 1..9 : i \in {1, 2, 3, 4, 5, 6, 7, 8, 9}
  OBVIOUS
<1> HIDE DEF s
<1>4. /\ InOrder(s, 1) /\ InOrder(s, 2) /\ InOrder(s, 3) /\ InOrder(s, 4) /\ InOrder(s, 5)
      /\ InOrder(s, 6) /\ InOrder(s, 7) /\ InOrder(s, 8) /\ InOrder(s, 9)
  BY <1>1, <1>2 DEF InOrder, Later
<1>5. Orderly(s, "validator")
  BY <1>1, <1>2, <1>3, <1>4 DEF Orderly
<1> QED BY <1>5 DEF s

LEMMA OrderlyNext ==
  Orderly(<<"pick", "utxos", "sign", "issue", "status">>,
          "status")
<1> DEFINE s == <<"pick", "utxos", "sign", "issue", "status">>
<1>1. Len(s) = 5
  OBVIOUS
<1>2. /\ s[1] = "pick" /\ s[2] = "utxos" /\ s[3] = "sign"
      /\ s[4] = "issue" /\ s[5] = "status"
  OBVIOUS
<1>3. \A i \in 1..5 : i \in {1, 2, 3, 4, 5}
  OBVIOUS
<1> HIDE DEF s
<1>4. InOrder(s, 1) /\ InOrder(s, 2) /\ InOrder(s, 3) /\ InOrder(s, 4) /\ InOrder(s, 5)
  BY <1>1, <1>2 DEF InOrder, Later
<1>5. Orderly(s, "status")
  BY <1>1, <1>2, <1>3, <1>4 DEF Orderly
<1> QED BY <1>5 DEF s

LEMMA OrderlyChain ==
  Orderly(<<"pick", "utxos", "authorize", "sign", "issue", "status">>,
          "status")
<1> DEFINE s == <<"pick", "utxos", "authorize", "sign", "issue", "status">>
<1>1. Len(s) = 6
  OBVIOUS
<1>2. /\ s[1] = "pick" /\ s[2] = "utxos" /\ s[3] = "authorize"
      /\ s[4] = "sign" /\ s[5] = "issue" /\ s[6] = "status"
  OBVIOUS
<1>3. \A i \in 1..6 : i \in {1, 2, 3, 4, 5, 6}
  OBVIOUS
<1> HIDE DEF s
<1>4. /\ InOrder(s, 1) /\ InOrder(s, 2) /\ InOrder(s, 3) /\ InOrder(s, 4) /\ InOrder(s, 5)
      /\ InOrder(s, 6)
  BY <1>1, <1>2 DEF InOrder, Later
<1>5. Orderly(s, "status")
  BY <1>1, <1>2, <1>3, <1>4 DEF Orderly
<1> QED BY <1>5 DEF s

LEMMA OrderlyOwn ==
  Orderly(<<"pick", "own_utxos", "sign", "issue", "status">>,
          "status")
<1> DEFINE s == <<"pick", "own_utxos", "sign", "issue", "status">>
<1>1. Len(s) = 5
  OBVIOUS
<1>2. /\ s[1] = "pick" /\ s[2] = "own_utxos" /\ s[3] = "sign"
      /\ s[4] = "issue" /\ s[5] = "status"
  OBVIOUS
<1>3. \A i \in 1..5 : i \in {1, 2, 3, 4, 5}
  OBVIOUS
<1> HIDE DEF s
<1>4. InOrder(s, 1) /\ InOrder(s, 2) /\ InOrder(s, 3) /\ InOrder(s, 4) /\ InOrder(s, 5)
  BY <1>1, <1>2 DEF InOrder, Later
<1>5. Orderly(s, "status")
  BY <1>1, <1>2, <1>3, <1>4 DEF Orderly
<1> QED BY <1>5 DEF s

LEMMA StepsOfIssues ==
  ASSUME NEW kind \in DOMAIN Issues
  PROVE  Orderly(Issues[kind], IF kind \in Staking THEN "validator" ELSE "status")
<1>1. CASE kind \in {"add_validator", "add_permissionless_validator"}
  BY <1>1, OrderlyStaking DEF Issues, Staking, add_validator, add_permissionless_validator
<1>2. CASE kind = "add_subnet_validator"
  BY <1>2, OrderlySubnet DEF Issues, Staking, add_subnet_validator
<1>3. CASE kind \in {"create_subnet", "export"}
  BY <1>3, OrderlyNext DEF Issues, Staking, create_subnet, export
<1>4. CASE kind = "create_chain"
  BY <1>4, OrderlyChain DEF Issues, Staking, create_chain
<1>5. CASE kind \in {"import", "transfer", "export_x", "import_x"}
  BY <1>5, OrderlyOwn DEF Issues, Staking, import, transfer, export_x, import_x
<1> QED BY <1>1, <1>2, <1>3, <1>4, <1>5 DEF Issues

-----------------------------------------------------------------------------
(* What was accepted, and what an endpoint knows of it.                    *)

\* What an endpoint says of a prefix is so of the whole.
LEMMA PrefixKnows ==
  ASSUME NEW s \in Seq(Things), NEW n \in Nat, n <= Len(s)
  PROVE  /\ Txs(SubSeq(s, 1, n)) \subseteq Txs(s)
         /\ \A kind : IsValidator(SubSeq(s, 1, n), kind) => IsValidator(s, kind)
         /\ \A kind : WillValidate(SubSeq(s, 1, n), kind) => WillValidate(s, kind)
<1> DEFINE p == SubSeq(s, 1, n)
<1>1. p \in Seq(Things) /\ DOMAIN p = 1..n /\ \A i \in 1..n : p[i] = s[i]
  <2>1. \A i \in 1..n : s[i] \in Things
    BY ElementOfSeq
  <2>2. Len(p) = n /\ p \in Seq(Things)
    BY <2>1, SubSeqProperties
  <2>3. \A i \in 1..n - 1 + 1 : p[i] = s[1 + i - 1]
    BY <2>1, SubSeqProperties
  <2> QED BY <2>2, <2>3
<1>2. 1..n \subseteq DOMAIN s
  OBVIOUS
<1> HIDE DEF p
<1>3. Txs(p) \subseteq Txs(s)
  BY <1>1, <1>2 DEF Txs
<1>4. \A kind : IsValidator(p, kind) => IsValidator(s, kind)
  BY <1>1, <1>2 DEF IsValidator
<1>5. \A kind : WillValidate(p, kind) => WillValidate(s, kind)
  BY <1>3 DEF WillValidate
<1> QED BY <1>3, <1>4, <1>5 DEF p

\* What was accepted stays so, and nothing else comes with the next thing.
LEMMA NextAccepted ==
  ASSUME NEW s \in Seq(Things), NEW e \in Things
  PROVE  /\ Append(s, e) \in Seq(Things)
         /\ Len(Append(s, e)) = Len(s) + 1 /\ Len(s) \in Nat
         /\ DOMAIN Append(s, e) = DOMAIN s \cup {Len(s) + 1} /\ Len(s) + 1 \notin DOMAIN s
         /\ Append(s, e)[Len(s) + 1] = e
         /\ \A i \in DOMAIN s : Append(s, e)[i] = s[i]
         /\ Txs(Append(s, e)) = Txs(s) \cup ({e.tx} \ {NoTx})
         /\ \A kind : IsValidator(Append(s, e), kind)
                        <=> IsValidator(s, kind) \/ e.active = NetOf(kind)
         /\ \A kind : WillValidate(s, kind) => WillValidate(Append(s, e), kind)
<1> DEFINE a == Append(s, e)
<1>1. /\ a \in Seq(Things) /\ Len(a) = Len(s) + 1 /\ a[Len(s) + 1] = e
      /\ \A i \in 1..Len(s) : a[i] = s[i]
  BY AppendProperties
<1>2. /\ Len(s) \in Nat /\ DOMAIN s = 1..Len(s) /\ DOMAIN a = DOMAIN s \cup {Len(s) + 1}
      /\ Len(s) + 1 \notin DOMAIN s
  BY <1>1
<1> HIDE DEF a
<1>3. Txs(a) = Txs(s) \cup ({e.tx} \ {NoTx})
  BY <1>1, <1>2 DEF Txs
<1>4. \A kind : IsValidator(a, kind) <=> IsValidator(s, kind) \/ e.active = NetOf(kind)
  BY <1>1, <1>2 DEF IsValidator
<1>5. \A kind : WillValidate(s, kind) => WillValidate(a, kind)
  BY <1>3 DEF WillValidate
<1> QED BY <1>1, <1>2, <1>3, <1>4, <1>5 DEF a

LEMMA KnownIsAccepted ==
  ASSUME Types, NEW u \in Urls
  PROVE  /\ Txs(Known(u)) \subseteq Txs(accepted)
         /\ \A kind : IsValidator(Known(u), kind) => IsValidator(accepted, kind)
         /\ \A kind : WillValidate(Known(u), kind) => WillValidate(accepted, kind)
  BY PrefixKnows DEF Types, Known

\* The next endpoint is one of the wallet's.
LEMMA CursorGoesRound ==
  ASSUME cursor \in Urls, pick_base_http_url
  PROVE  cursor' \in Urls
  BY WalletIssueAssumption DEF Urls, pick_base_http_url

LEMMA StepsAre ==
  ASSUME request \in Requests, NEW c \in Callers
  PROVE  /\ Kind(c) \in DOMAIN Issues
         /\ Orderly(Steps(c), IF Kind(c) \in Staking THEN "validator" ELSE "status")
         /\ NetOf(Kind(c)) \in {"subnet", "primary"}
<1>1. Kind(c) \in DOMAIN Issues
  BY RequestsAssumption DEF Kind
<1> QED BY <1>1, StepsOfIssues DEF Steps, NetOf

LEMMA NoTxIsNotBuilt == NoTx \notin Built
<1>1. "none" \notin DOMAIN Issues
  BY DEF Issues
<1> QED BY <1>1 DEF Built, NoTx

-----------------------------------------------------------------------------
(* The steps of a caller.                                                  *)

\* Where c may be, with what it has built and what was returned to it.
Lawful(c, a, t, r) ==
  /\ a \in 1..Len(Steps(c)) /\ t \in Built \cup {NoTx} /\ Own(c, t)
  /\ r \in Results /\ Own(c, r.tx) /\ Honest(c, r)
  /\ r = Running /\ Steps(c)[a] \in Later => t # NoTx
  /\ r = Running /\ Steps(c)[a] = "validator" => t \in Txs(accepted)

LEMMA Moves ==
  ASSUME IssueInv, UNCHANGED <<request, accepted, seen>>, cursor' \in Urls,
         picked' \in [Callers -> Urls], mempool' \in [Urls -> SUBSET Built],
         NEW c \in Callers, NEW a, NEW t, NEW r, Lawful(c, a, t, r),
         at' = [at EXCEPT ![c] = a], tx' = [tx EXCEPT ![c] = t],
         result' = [result EXCEPT ![c] = r]
  PROVE  IssueInv'
<1> DEFINE S == Steps(c)
<1>1. \A d : Steps(d)' = Steps(d) /\ Kind(d)' = Kind(d)
  BY DEF Steps, Kind
<1>2. Types /\ Transactions /\ Chain /\ Reported /\ a \in Nat
  BY DEF IssueInv, Lawful
<1>3. Types'
  BY <1>1, <1>2 DEF Types, Lawful
<1>4. Transactions'
  <2> SUFFICES ASSUME NEW d \in Callers
               PROVE  /\ Own(d, tx[d])' /\ Own(d, result[d].tx)'
                      /\ \A name \in Later : AtStep(d, name)' => tx'[d] # NoTx
                      /\ AtStep(d, "validator")' => tx'[d] \in Txs(accepted)
    BY DEF Transactions, Txs
  <2>1. CASE d = c
    <3>1. at'[c] = a /\ tx'[c] = t /\ result'[c] = r
      BY <1>2 DEF Types
    <3> QED BY <1>1, <2>1, <3>1 DEF AtStep, Lawful, Own, Later
  <2>2. CASE d # c
    <3>1. at'[d] = at[d] /\ tx'[d] = tx[d] /\ result'[d] = result[d]
      BY <1>2, <2>2 DEF Types
    <3>2. \A name : AtStep(d, name)' <=> AtStep(d, name)
      BY <1>1, <3>1 DEF AtStep
    <3> QED BY <1>1, <1>2, <3>1, <3>2 DEF Transactions, Own
  <2> QED BY <2>1, <2>2
<1>5. Chain'
  BY <1>2 DEF Chain, IsValidator, WillValidate, Txs
<1>6. Reported'
  <2> SUFFICES ASSUME NEW d \in Callers PROVE Honest(d, result[d])'
    BY DEF Reported
  <2>1. Honest(d, result'[d])
    <3>1. CASE d = c
      BY <1>2, <3>1 DEF Types, Lawful
    <3>2. CASE d # c
      BY <1>2, <3>2 DEF Types, Reported
    <3> QED BY <3>1, <3>2
  <2> QED BY <1>1, <2>1 DEF Honest, IsValidator, WillValidate, Txs
<1> QED BY <1>3, <1>4, <1>5, <1>6 DEF IssueInv

\* From a step before the polling a caller goes on to the next one.
LEMMA Advances ==
  ASSUME IssueInv, NEW c \in Callers, NEW name, AtStep(c, name),
         name \notin {"status", "validator"}, Advance(c),
         NEW t \in Built \cup {NoTx}, Own(c, t),
         name \in Later \cup {"utxos", "own_utxos"} => t # NoTx
  PROVE  /\ Lawful(c, at[c] + 1, t, Running)
         /\ at' = [at EXCEPT ![c] = at[c] + 1] /\ result' = [result EXCEPT ![c] = Running]
<1> DEFINE s == Steps(c)
<1>1. /\ Types /\ at[c] \in 1..Len(s) /\ s[at[c]] = name /\ result[c] = Running
      /\ request \in Requests
  BY DEF IssueInv, Types, AtStep
<1>2. Orderly(s, IF Kind(c) \in Staking THEN "validator" ELSE "status")
  BY <1>1, StepsAre
<1>3. at[c] # Len(s)
  BY <1>1, <1>2 DEF Orderly
<1>4. at' = [at EXCEPT ![c] = at[c] + 1] /\ result' = [result EXCEPT ![c] = Running]
  <2>1. at' = [at EXCEPT ![c] = at[c] + 1] /\ UNCHANGED result
    BY <1>3 DEF Advance
  <2> QED BY <1>1, <2>1 DEF Types
<1>5. at[c] + 1 \in 1..Len(s)
  BY <1>1, <1>2, <1>3 DEF Orderly
<1>6. InOrder(s, at[c])
  BY <1>1, <1>2 DEF Orderly
<1>7. s[at[c] + 1] # "validator" /\ (s[at[c] + 1] \in Later => t # NoTx)
  BY <1>1, <1>3, <1>6 DEF InOrder
<1>8. Running \in Results /\ Honest(c, Running) /\ Own(c, Running.tx)
  BY DEF Running, Results, Honest, Own
<1> QED BY <1>4, <1>5, <1>7, <1>8 DEF Lawful

\* c goes somewhere, and nothing else matters of it.
Goes(c) ==
  \E a, t, r : /\ Lawful(c, a, t, r) /\ at' = [at EXCEPT ![c] = a]
               /\ tx' = [tx EXCEPT ![c] = t] /\ result' = [result EXCEPT ![c] = r]

LEMMA GoesThere ==
  ASSUME NEW c, NEW a, NEW t, NEW r, Lawful(c, a, t, r),
         at' = [at EXCEPT ![c] = a], tx' = [tx EXCEPT ![c] = t],
         result' = [result EXCEPT ![c] = r]
  PROVE  Goes(c)
  BY DEF Goes

\* Where an issue ends without a report of a success all is well.
LEMMA Fails ==
  ASSUME IssueInv, NEW c \in Callers, NEW end \in {"err", "panic"},
         NEW retryable \in BOOLEAN, End(c, end, NoTx, FALSE, retryable), UNCHANGED <<at, tx>>
  PROVE  Goes(c)
<1> DEFINE r == [end |-> end, tx |-> NoTx, issued |-> FALSE, retryable |-> retryable]
<1>1. result' = [result EXCEPT ![c] = r]
  BY DEF End
<1>2. r \in Results /\ Honest(c, r) /\ Own(c, r.tx) /\ r # Running
  BY DEF Results, Honest, Own, Running
<1>3. at' = [at EXCEPT ![c] = at[c]] /\ tx' = [tx EXCEPT ![c] = tx[c]]
  BY DEF IssueInv, Types
<1> HIDE DEF r
<1>4. Lawful(c, at[c], tx[c], r)
  BY <1>2 DEF Lawful, IssueInv, Types, Transactions
<1> DEFINE a == at[c]
           own == tx[c]
<1>5. /\ Lawful(c, a, own, r) /\ result' = [result EXCEPT ![c] = r]
      /\ at' = [at EXCEPT ![c] = a] /\ tx' = [tx EXCEPT ![c] = own]
  BY <1>1, <1>3, <1>4
<1> HIDE DEF a, own
<1> QED BY <1>5, GoesThere

\* And where it ends with one that is honest.
LEMMA Succeeds ==
  ASSUME IssueInv, NEW c \in Callers, NEW t \in Built \cup {NoTx}, Own(c, t),
         NEW issued \in BOOLEAN, End(c, "ok", t, issued, FALSE), UNCHANGED <<at, tx>>,
         issued /\ request[c].check
           => t \in Txs(accepted) /\ (Kind(c) \in Staking => IsValidator(accepted, Kind(c))),
         t = NoTx => WillValidate(accepted, Kind(c))
  PROVE  Goes(c)
<1> DEFINE r == [end |-> "ok", tx |-> t, issued |-> issued, retryable |-> FALSE]
<1>1. result' = [result EXCEPT ![c] = r]
  BY DEF End
<1>2. r \in Results /\ Honest(c, r) /\ Own(c, r.tx) /\ r # Running
  BY DEF Results, Honest, Own, Running
<1>3. at' = [at EXCEPT ![c] = at[c]] /\ tx' = [tx EXCEPT ![c] = tx[c]]
  BY DEF IssueInv, Types
<1> HIDE DEF r
<1>4. Lawful(c, at[c], tx[c], r)
  BY <1>2 DEF Lawful, IssueInv, Types, Transactions
<1> DEFINE a == at[c]
           own == tx[c]
<1>5. /\ Lawful(c, a, own, r) /\ result' = [result EXCEPT ![c] = r]
      /\ at' = [at EXCEPT ![c] = a] /\ tx' = [tx EXCEPT ![c] = own]
  BY <1>1, <1>3, <1>4
<1> HIDE DEF a, own
<1> QED BY <1>5, GoesThere

-----------------------------------------------------------------------------
(* The actions of a caller.                                                *)

\* Where only elapsed changes.
LEMMA Waits ==
  ASSUME IssueInv, NEW c \in Callers, UNCHANGED <<at, tx, result>>
  PROVE  Goes(c)
<1>1. Lawful(c, at[c], tx[c], result[c])
  <2>1. /\ Types /\ Transactions /\ Reported
    BY DEF IssueInv
  <2>2. result[c] = Running => \A name : Steps(c)[at[c]] = name => AtStep(c, name)
    BY DEF AtStep
  <2>3. /\ result[c] = Running /\ Steps(c)[at[c]] \in Later => tx[c] # NoTx
        /\ result[c] = Running /\ Steps(c)[at[c]] = "validator" => tx[c] \in Txs(accepted)
    BY <2>1, <2>2 DEF Transactions
  <2> QED BY <2>1, <2>3 DEF Lawful, Types, Transactions, Reported
<1>2. /\ at' = [at EXCEPT ![c] = at[c]] /\ tx' = [tx EXCEPT ![c] = tx[c]]
      /\ result' = [result EXCEPT ![c] = result[c]]
  BY DEF IssueInv, Types
<1> QED BY <1>1, <1>2 DEF Goes

\* A transaction was built already, and is kept.
LEMMA AdvanceGoes ==
  ASSUME IssueInv, NEW c \in Callers, NEW name, AtStep(c, name),
         name \notin {"status", "validator", "utxos", "own_utxos"}, Advance(c), UNCHANGED tx
  PROVE  Goes(c)
<1>1. tx[c] \in Built \cup {NoTx} /\ Own(c, tx[c]) /\ (name \in Later => tx[c] # NoTx)
  BY DEF IssueInv, Types, Transactions
<1>2. tx' = [tx EXCEPT ![c] = tx[c]]
  BY DEF IssueInv, Types
<1>3. /\ Lawful(c, at[c] + 1, tx[c], Running)
      /\ at' = [at EXCEPT ![c] = at[c] + 1] /\ result' = [result EXCEPT ![c] = Running]
  BY <1>1, Advances
<1> DEFINE a == at[c] + 1
           t == tx[c]
<1>4. /\ Lawful(c, a, t, Running) /\ at' = [at EXCEPT ![c] = a]
      /\ tx' = [tx EXCEPT ![c] = t] /\ result' = [result EXCEPT ![c] = Running]
  BY <1>2, <1>3
<1> HIDE DEF a, t
<1> QED BY <1>4, GoesThere

\* It is built of the outputs an endpoint lists.
LEMMA BuildGoes ==
  ASSUME IssueInv, NEW c \in Callers, NEW name \in {"utxos", "own_utxos"}, AtStep(c, name),
         NEW listed \in SUBSET Utxos, Build(c, listed)
  PROVE  Goes(c)
<1>1. CASE End(c, "err", NoTx, FALSE, FALSE) /\ UNCHANGED <<at, tx>>
  BY <1>1, Fails
<1>2. CASE /\ \E ins \in IF Kind(c) \in Imports \/ listed = {} THEN {listed}
                         ELSE {{u} : u \in listed} :
                tx' = [tx EXCEPT ![c] = [by |-> c, kind |-> Kind(c), ins |-> ins]]
           /\ Advance(c)
  <2>1. PICK ins \in SUBSET Utxos :
          tx' = [tx EXCEPT ![c] = [by |-> c, kind |-> Kind(c), ins |-> ins]]
    BY <1>2
  <2> DEFINE t == [by |-> c, kind |-> Kind(c), ins |-> ins]
  <2>2. Kind(c) \in DOMAIN Issues
    BY StepsAre DEF IssueInv, Types
  <2>3. t \in Built /\ t.by = c /\ t.kind = Kind(c)
    BY <2>2 DEF Built
  <2>4. tx' = [tx EXCEPT ![c] = t]
    BY <2>1
  <2> HIDE DEF t
  <2>5. t # NoTx /\ Own(c, t)
    BY <2>3, NoTxIsNotBuilt DEF Own
  <2>6. /\ Lawful(c, at[c] + 1, t, Running)
        /\ at' = [at EXCEPT ![c] = at[c] + 1] /\ result' = [result EXCEPT ![c] = Running]
    BY <1>2, <2>3, <2>5, Advances
  <2> QED BY <2>4, <2>6 DEF Goes
<1> QED BY <1>1, <1>2 DEF Build

\* What an endpoint takes is a transaction, and not one that was not built.
LEMMA Taken ==
  ASSUME IssueInv, NEW c \in Callers, AtStep(c, "issue"), NEW u \in Urls, Take(u, tx[c])
  PROVE  mempool' \in [Urls -> SUBSET Built] /\ tx[c] \in Built
<1>1. tx[c] \in Built
  BY DEF IssueInv, Types, Transactions, Later
<1> QED BY <1>1 DEF Take, IssueInv, Types

LEMMA IssueGoes ==
  ASSUME IssueInv, NEW c \in Callers, Issue(c)
  PROVE  Goes(c) /\ mempool' \in [Urls -> SUBSET Built]
<1> DEFINE u == picked[c]
<1>1. AtStep(c, "issue") /\ UNCHANGED tx /\ u \in Urls
  BY DEF Issue, IssueInv, Types
<1>2. tx[c] \in Built /\ tx[c] # NoTx /\ Own(c, tx[c])
  BY <1>1, NoTxIsNotBuilt DEF IssueInv, Types, Transactions, Later
<1>3. CASE Take(u, tx[c]) /\ Advance(c)
  BY <1>1, <1>3, Taken, AdvanceGoes
<1>4. CASE Take(u, tx[c]) /\ ~request[c].check /\ End(c, "ok", tx[c], TRUE, FALSE) /\ UNCHANGED at
  <2>1. Goes(c)
    <3>1. TRUE \in BOOLEAN /\ (TRUE /\ request[c].check => FALSE)
      BY <1>4
    <3> QED BY <1>1, <1>2, <1>4, <3>1, Succeeds
  <2> QED BY <1>1, <1>4, <2>1, Taken
<1>5. CASE Refused(c) /\ UNCHANGED <<at, mempool>>
  <2>1. mempool' \in [Urls -> SUBSET Built]
    BY <1>5 DEF IssueInv, Types
  <2>2. CASE Duplicate(u, tx[c])
    <3>1. WillValidate(Known(u), Kind(c))
      BY <1>2, <2>2 DEF Duplicate, Own
    <3>2. WillValidate(accepted, Kind(c))
      BY <1>1, <3>1, KnownIsAccepted DEF IssueInv
    <3>3. /\ End(c, "ok", NoTx, FALSE, FALSE) /\ Own(c, NoTx)
          /\ NoTx \in Built \cup {NoTx} /\ FALSE \in BOOLEAN
      BY <1>5, <2>2 DEF Refused, Own
    <3>4. Goes(c)
      BY <1>1, <1>5, <3>2, <3>3, Succeeds
    <3> QED BY <2>1, <3>4
  <2>3. CASE ~Duplicate(u, tx[c])
    <3>1. End(c, "err", NoTx, FALSE, FALSE)
      BY <1>5, <2>3 DEF Refused
    <3> QED BY <1>1, <1>5, <2>1, <3>1, Fails
  <2> QED BY <2>2, <2>3
<1> QED BY <1>3, <1>4, <1>5 DEF Issue

\* The transaction is accepted for the endpoint that was asked, and so it is.
LEMMA StatusGoes ==
  ASSUME IssueInv, NEW c \in Callers, PollStatus(c)
  PROVE  Goes(c)
<1> DEFINE s == Steps(c)
<1>1. /\ AtStep(c, "status") /\ UNCHANGED tx /\ picked[c] \in Urls
      /\ at[c] \in 1..Len(s) /\ s[at[c]] = "status" /\ result[c] = Running
      /\ Types /\ request \in Requests
  BY DEF PollStatus, IssueInv, Types, AtStep
<1>2. tx[c] \in Built /\ tx[c] # NoTx /\ Own(c, tx[c])
  BY <1>1, NoTxIsNotBuilt DEF IssueInv, Types, Transactions, Later
<1>3. CASE End(c, "err", NoTx, FALSE, TRUE) /\ UNCHANGED at
  BY <1>1, <1>3, Fails
<1>4. CASE Committed(picked[c], tx[c]) /\ Advance(c)
  <2>1. tx[c] \in Txs(accepted)
    BY <1>1, <1>4, KnownIsAccepted DEF Committed
  <2>2. Orderly(s, IF Kind(c) \in Staking THEN "validator" ELSE "status")
    BY <1>1, StepsAre
  <2>3. CASE at[c] = Len(s)
    <3>1. Kind(c) \notin Staking
      BY <1>1, <2>2, <2>3 DEF Orderly
    <3>2. End(c, "ok", tx[c], TRUE, FALSE) /\ UNCHANGED at /\ TRUE \in BOOLEAN
      BY <2>3 , <1>4 DEF Advance
    <3>3. tx[c] \in Built \cup {NoTx}
      BY <1>2
    <3> QED BY <1>1, <1>2, <2>1, <3>1, <3>2, <3>3, Succeeds
  <2>4. CASE at[c] # Len(s)
    <3> DEFINE a == at[c] + 1
               t == tx[c]
    <3>1. a \in 1..Len(s)
      BY <1>1, <2>2, <2>4 DEF Orderly
    <3>2. at' = [at EXCEPT ![c] = a] /\ UNCHANGED result
      BY <1>4, <2>4 DEF Advance
    <3>3. result' = [result EXCEPT ![c] = Running] /\ tx' = [tx EXCEPT ![c] = t]
      BY <1>1, <3>2 DEF Types
    <3>4. Running \in Results /\ Honest(c, Running) /\ Own(c, Running.tx)
      BY DEF Running, Results, Honest, Own
    <3>5. Lawful(c, a, t, Running)
      BY <1>2, <2>1, <3>1, <3>4 DEF Lawful
    <3> HIDE DEF a, t
    <3> QED BY <3>2, <3>3, <3>5, GoesThere
  <2> QED BY <2>3, <2>4
<1>5. CASE UNCHANGED <<at, result>>
  BY <1>1, <1>5, Waits
<1> QED BY <1>3, <1>4, <1>5 DEF PollStatus

\* The node validates for the endpoint that was asked, which may be another one.
LEMMA ValidatorGoes ==
  ASSUME IssueInv, NEW c \in Callers, PollValidator(c)
  PROVE  Goes(c)
<1> DEFINE s == Steps(c)
<1>1. /\ AtStep(c, "validator") /\ UNCHANGED tx /\ cursor \in Urls
      /\ at[c] \in 1..Len(s) /\ s[at[c]] = "validator"
      /\ Types /\ request \in Requests
  BY DEF PollValidator, IssueInv, Types, AtStep
<1>2. tx[c] \in Built \cup {NoTx} /\ tx[c] # NoTx /\ Own(c, tx[c]) /\ tx[c] \in Txs(accepted)
  BY <1>1 DEF IssueInv, Types, Transactions, Later
<1>3. CASE End(c, "err", NoTx, FALSE, TRUE) /\ UNCHANGED at
  BY <1>1, <1>3, Fails
<1>4. CASE IsValidator(Known(cursor), Kind(c)) /\ Advance(c)
  <2>1. IsValidator(accepted, Kind(c))
    BY <1>1, <1>4, KnownIsAccepted
  <2>2. Orderly(s, IF Kind(c) \in Staking THEN "validator" ELSE "status")
    BY <1>1, StepsAre
  <2>3. at[c] = Len(s)
    BY <1>1, <2>2 DEF Orderly, InOrder
  <2>4. End(c, "ok", tx[c], TRUE, FALSE) /\ UNCHANGED at /\ TRUE \in BOOLEAN
    BY <2>3, <1>4 DEF Advance
  <2> QED BY <1>1, <1>2, <2>1, <2>4, Succeeds
<1>5. CASE UNCHANGED <<at, result>>
  BY <1>1, <1>5, Waits
<1> QED BY <1>3, <1>4, <1>5 DEF PollValidator

\* The node validates already: another transaction has made it so.
LEMMA AskValidatorGoes ==
  ASSUME IssueInv, NEW c \in Callers, AskValidator(c)
  PROVE  Goes(c)
<1>1. AtStep(c, "validator?") /\ UNCHANGED tx /\ cursor \in Urls /\ Types
  BY DEF AskValidator, IssueInv, Types
<1>2. CASE IsValidator(Known(cursor), Kind(c))
  <2>1. WillValidate(accepted, Kind(c))
    <3>1. IsValidator(accepted, Kind(c)) /\ Kind(c) \in DOMAIN Issues
      BY <1>1, <1>2, KnownIsAccepted, StepsAre DEF Types
    <3> QED BY <3>1 DEF IssueInv, Chain
  <2>2. /\ End(c, "ok", NoTx, FALSE, FALSE) /\ UNCHANGED at
        /\ Own(c, NoTx) /\ NoTx \in Built \cup {NoTx} /\ FALSE \in BOOLEAN
    BY <1>2 DEF AskValidator, Own
  <2> QED BY <1>1, <2>1, <2>2, Succeeds
<1>3. CASE ~IsValidator(Known(cursor), Kind(c))
  <2>1. Advance(c)
    BY <1>3 DEF AskValidator
  <2> QED BY <1>1, <2>1, AdvanceGoes
<1> QED BY <1>2, <1>3

LEMMA StepKeeps ==
  ASSUME IssueInv, NEW c \in Callers, Step(c)
  PROVE  IssueInv'
<1> Types /\ cursor \in Urls /\ picked \in [Callers -> Urls] /\ mempool \in [Urls -> SUBSET Built]
  BY DEF IssueInv, Types
<1> DEFINE Rest == /\ UNCHANGED <<request, accepted, seen>> /\ cursor' \in Urls
                   /\ picked' \in [Callers -> Urls] /\ mempool' \in [Urls -> SUBSET Built]
<1> USE DEF nodes
<1>1. ASSUME Pick(c) PROVE Goes(c) /\ Rest
  <2>1. /\ AtStep(c, "pick") /\ Advance(c) /\ UNCHANGED tx /\ pick_base_http_url
        /\ UNCHANGED <<request, accepted, seen, mempool>>
        /\ picked' = [picked EXCEPT ![c] = cursor]
    BY <1>1 DEF Pick
  <2> QED BY <2>1, AdvanceGoes, CursorGoesRound
<1>2. ASSUME AskValidator(c) PROVE Goes(c) /\ Rest
  BY <1>2, AskValidatorGoes, CursorGoesRound DEF AskValidator
<1>3. ASSUME AskBalance(c) PROVE Goes(c) /\ Rest
  <2>1. /\ AtStep(c, "balance") /\ pick_base_http_url
        /\ UNCHANGED <<request, picked, tx, accepted, seen, mempool>>
        /\ Advance(c) \/ (End(c, "err", NoTx, FALSE, FALSE) /\ UNCHANGED at)
    BY <1>3 DEF AskBalance
  <2> QED BY <2>1, AdvanceGoes, Fails, CursorGoesRound
<1>4. ASSUME AskUtxos(c) PROVE Goes(c) /\ Rest
  <2>1. Listed(cursor) \in SUBSET Utxos
    BY DEF Listed
  <2>2. /\ AtStep(c, "utxos") /\ pick_base_http_url /\ Build(c, Listed(cursor))
        /\ UNCHANGED <<request, picked, accepted, seen, mempool>>
    BY <1>4 DEF AskUtxos
  <2> QED BY <2>1, <2>2, BuildGoes, CursorGoesRound
<1>5. ASSUME AskOwnUtxos(c) PROVE Goes(c) /\ Rest
  <2>1. Listed(picked[c]) \in SUBSET Utxos
    BY DEF Listed
  <2>2. /\ AtStep(c, "own_utxos") /\ Build(c, Listed(picked[c]))
        /\ UNCHANGED <<request, cursor, picked, accepted, seen, mempool>>
    BY <1>5 DEF AskOwnUtxos
  <2> QED BY <2>1, <2>2, BuildGoes
<1>6. ASSUME Authorize(c) PROVE Goes(c) /\ Rest
  <2>1. /\ AtStep(c, "authorize") /\ pick_base_http_url
        /\ UNCHANGED <<request, picked, tx, accepted, seen, mempool>>
        /\ Advance(c) \/ (End(c, "err", NoTx, FALSE, FALSE) /\ UNCHANGED at)
    BY <1>6 DEF Authorize
  <2> QED BY <2>1, AdvanceGoes, Fails, CursorGoesRound
<1>7. ASSUME Sign(c) PROVE Goes(c) /\ Rest
  <2>1. AtStep(c, "sign") /\ UNCHANGED <<request, cursor, picked, tx, accepted, seen, mempool>>
    BY <1>7 DEF Sign
  <2>2. tx[c] \in Built \cup {NoTx} /\ tx[c] # NoTx /\ Own(c, tx[c]) /\ FALSE \in BOOLEAN
    BY <2>1 DEF IssueInv, Types, Transactions, Later
  <2>3. CASE \E retryable \in BOOLEAN : End(c, "err", NoTx, FALSE, retryable) /\ UNCHANGED at
    BY <2>1, <2>3, Fails
  <2>4. CASE End(c, "ok", tx[c], FALSE, FALSE) /\ UNCHANGED at
    BY <2>1, <2>2, <2>4, Succeeds
  <2>5. CASE Advance(c)
    BY <2>1, <2>5, AdvanceGoes
  <2> QED BY <1>7, <2>1, <2>3, <2>4, <2>5 DEF Sign
<1>8. ASSUME Issue(c) PROVE Goes(c) /\ Rest
  BY <1>8, IssueGoes DEF Issue
<1>9. ASSUME IssueUnanswered(c) PROVE Goes(c) /\ Rest
  <2>1. /\ AtStep(c, "issue") /\ Take(picked[c], tx[c]) /\ picked[c] \in Urls
        /\ End(c, "err", NoTx, FALSE, FALSE)
        /\ UNCHANGED <<request, cursor, at, picked, tx, accepted, seen>>
    BY <1>9 DEF IssueUnanswered
  <2> QED BY <2>1, Taken, Fails
<1>10. ASSUME PollStatus(c) PROVE Goes(c) /\ Rest
  BY <1>10, StatusGoes DEF PollStatus
<1>11. ASSUME PollValidator(c) PROVE Goes(c) /\ Rest
  <2>1. /\ UNCHANGED <<request, picked, accepted, seen, mempool>>
        /\ UNCHANGED cursor \/ pick_base_http_url
    BY <1>11 DEF PollValidator
  <2> QED BY <1>11, <2>1, ValidatorGoes, CursorGoesRound
<1>12. ASSUME CallFails(c) PROVE Goes(c) /\ Rest
  <2>1. /\ UNCHANGED <<request, at, picked, tx, accepted, seen, mempool>>
        /\ UNCHANGED cursor \/ pick_base_http_url
        /\ \E end \in {"err", "panic"} : End(c, end, NoTx, FALSE, FALSE)
    BY <1>12 DEF CallFails
  <2> QED BY <2>1, Fails, CursorGoesRound
<1>13. Goes(c) /\ Rest
  BY <1>1, <1>2, <1>3, <1>4, <1>5, <1>6, <1>7, <1>8, <1>9, <1>10, <1>11, <1>12 DEF Step
<1>14. PICK a, t, r : /\ Lawful(c, a, t, r) /\ at' = [at EXCEPT ![c] = a]
                      /\ tx' = [tx EXCEPT ![c] = t] /\ result' = [result EXCEPT ![c] = r]
  BY <1>13 DEF Goes
<1> QED BY <1>13, <1>14, Moves

-----------------------------------------------------------------------------
(* The other actions.                                                      *)

LEMMA RetryKeeps ==
  ASSUME IssueInv, NEW c \in Callers, Retry(c)
  PROVE  IssueInv'
<1>1. /\ UNCHANGED <<request, accepted, seen, cursor, picked, mempool>>
      /\ at' = [at EXCEPT ![c] = 1] /\ tx' = [tx EXCEPT ![c] = NoTx]
      /\ result' = [result EXCEPT ![c] = Running]
  BY DEF Retry, nodes
<1>2. Orderly(Steps(c), IF Kind(c) \in Staking THEN "validator" ELSE "status")
  BY StepsAre DEF IssueInv, Types
<1>3. Running \in Results /\ Honest(c, Running) /\ Own(c, Running.tx) /\ Own(c, NoTx)
  BY DEF Running, Results, Honest, Own
<1>4. Lawful(c, 1, NoTx, Running)
  BY <1>2, <1>3 DEF Lawful, Orderly, Later
<1>5. cursor' \in Urls /\ picked' \in [Callers -> Urls] /\ mempool' \in [Urls -> SUBSET Built]
  BY <1>1 DEF IssueInv, Types
<1> QED BY <1>1, <1>4, <1>5, Moves

\* More is accepted: what was reported before stays true.
LEMMA GrowthKeeps ==
  ASSUME IssueInv, NEW e \in Things, accepted' = Append(accepted, e),
         UNCHANGED <<request, cursor, local, seen, mempool>>,
         e.tx.ins \cap Spent(accepted) = {},
         \A kind \in DOMAIN Issues : e.active = NetOf(kind) => WillValidate(accepted, kind)
  PROVE  IssueInv'
<1>1. /\ Types /\ Transactions /\ Chain /\ Reported
      /\ UNCHANGED <<request, cursor, at, picked, tx, elapsed, result, attempt, seen, mempool>>
      /\ accepted \in Seq(Things)
  BY DEF IssueInv, local, Types
<1>2. \A d : Steps(d)' = Steps(d) /\ Kind(d)' = Kind(d)
  BY <1>1 DEF Steps, Kind
<1> DEFINE a == Append(accepted, e)
<1>3. /\ a \in Seq(Things)
      /\ Len(a) = Len(accepted) + 1 /\ Len(accepted) \in Nat
      /\ DOMAIN a = DOMAIN accepted \cup {Len(accepted) + 1}
      /\ Len(accepted) + 1 \notin DOMAIN accepted
      /\ a[Len(accepted) + 1] = e
      /\ \A i \in DOMAIN accepted : a[i] = accepted[i]
      /\ Txs(a) = Txs(accepted) \cup ({e.tx} \ {NoTx})
      /\ \A kind : IsValidator(a, kind) <=> IsValidator(accepted, kind) \/ e.active = NetOf(kind)
      /\ \A kind : WillValidate(accepted, kind) => WillValidate(a, kind)
  BY <1>1, NextAccepted
<1>4. accepted' = a
  OBVIOUS
<1> HIDE DEF a
<1>5. Types'
  <2>1. \A u \in Urls : seen'[u] <= Len(accepted')
    BY <1>1, <1>3, <1>4 DEF Types
  <2> QED BY <1>1, <1>2, <1>3, <1>4, <2>1 DEF Types
<1>6. Txs(accepted') = Txs(a) /\ \A kind : IsValidator(accepted, kind)' <=> IsValidator(a, kind)
  BY <1>4 DEF Txs, IsValidator
<1>7. \A kind : WillValidate(accepted, kind)' <=> WillValidate(a, kind)
  BY <1>4 DEF Txs, WillValidate
<1>8. Txs(accepted)' = Txs(a)
  BY <1>4 DEF Txs
<1>9. Transactions'
  BY <1>1, <1>2, <1>3, <1>8 DEF Transactions, Own, AtStep
<1>10. Chain'
  <2>1. ASSUME NEW i \in DOMAIN a, NEW j \in DOMAIN a, i # j
        PROVE  a[i].tx.ins \cap a[j].tx.ins = {}
    <3>1. \A k \in DOMAIN accepted : accepted[k].tx.ins \cap e.tx.ins = {}
      <4> SUFFICES ASSUME NEW k \in DOMAIN accepted PROVE accepted[k].tx.ins \cap e.tx.ins = {}
        OBVIOUS
      <4>1. CASE accepted[k].tx = NoTx
        BY <4>1 DEF NoTx
      <4>2. CASE accepted[k].tx # NoTx
        <5>1. accepted[k].tx \in Txs(accepted)
          BY <4>2 DEF Txs
        <5>2. accepted[k].tx.ins \subseteq Spent(accepted)
          BY <5>1 DEF Spent
        <5> QED BY <5>2
      <4> QED BY <4>1, <4>2
    <3>2. CASE i \in DOMAIN accepted /\ j \in DOMAIN accepted
      BY <1>1, <1>3, <2>1, <3>2 DEF Chain
    <3>3. CASE ~(i \in DOMAIN accepted /\ j \in DOMAIN accepted)
      BY <1>3, <2>1, <3>1, <3>3
    <3> QED BY <3>2, <3>3
  <2>2. \A kind \in DOMAIN Issues : IsValidator(a, kind) => WillValidate(a, kind)
    BY <1>1, <1>3 DEF Chain
  <2> QED BY <1>4, <1>6, <1>7, <2>1, <2>2 DEF Chain
<1>11. Reported'
  BY <1>1, <1>2, <1>3, <1>6, <1>7, <1>8 DEF Reported, Honest
<1> QED BY <1>5, <1>9, <1>10, <1>11 DEF IssueInv

\* What the endpoints know and have matters to no one who has been told.
LEMMA NodesKeep ==
  ASSUME IssueInv, UNCHANGED <<request, cursor, local, accepted>>,
         seen' \in [Urls -> Nat], \A u \in Urls : seen'[u] <= Len(accepted),
         mempool' \in [Urls -> SUBSET Built]
  PROVE  IssueInv'
<1>1. /\ Types /\ Transactions /\ Chain /\ Reported
      /\ UNCHANGED <<request, cursor, at, picked, tx, elapsed, result, attempt, accepted>>
  BY DEF IssueInv, local
<1>2. \A d : Steps(d)' = Steps(d) /\ Kind(d)' = Kind(d)
  BY <1>1 DEF Steps, Kind
<1>3. Types'
  BY <1>1, <1>2 DEF Types
<1>4. Transactions'
  BY <1>1, <1>2 DEF Transactions, Own, AtStep, Txs
<1>5. Chain'
  BY <1>1 DEF Chain, IsValidator, WillValidate, Txs
<1>6. Reported'
  BY <1>1, <1>2 DEF Reported, Honest, IsValidator, WillValidate, Txs
<1> QED BY <1>3, <1>4, <1>5, <1>6 DEF IssueInv

LEMMA NetworkKeeps ==
  ASSUME IssueInv, Network
  PROVE  IssueInv'
<1> /\ seen \in [Urls -> Nat] /\ mempool \in [Urls -> SUBSET Built] /\ accepted \in Seq(Things)
    /\ \A u \in Urls : seen[u] <= Len(accepted)
  BY DEF IssueInv, Types
<1>1. ASSUME NEW kind \in Staking, Activate(kind) PROVE IssueInv'
  <2> DEFINE e == [tx |-> NoTx, active |-> NetOf(kind)]
  <2>1. e \in Things /\ e.tx.ins = {} /\ e.active = NetOf(kind)
    BY DEF Things, NetOf, NoTx
  <2>2. \A other \in DOMAIN Issues : e.active = NetOf(other) => WillValidate(accepted, other)
    BY <1>1, <2>1 DEF Activate, WillValidate
  <2>3. accepted' = Append(accepted, e) /\ UNCHANGED <<request, cursor, local, seen, mempool>>
    BY <1>1 DEF Activate
  <2> HIDE DEF e
  <2>4. e.tx.ins \cap Spent(accepted) = {}
    BY <2>1
  <2> QED BY <2>1, <2>2, <2>3, <2>4, GrowthKeeps
<1>2. ASSUME NEW u \in Urls, CatchUp(u) PROVE IssueInv'
  <2>1. /\ UNCHANGED <<request, cursor, local, accepted>>
        /\ seen' = [seen EXCEPT ![u] = @ + 1] /\ seen[u] < Len(accepted)
        /\ mempool' = [mempool EXCEPT ![u] =
             {t \in @ : t.ins \intersect Spent(SubSeq(accepted, 1, seen[u] + 1)) = {}}]
    BY <1>2 DEF CatchUp
  <2>2. Len(accepted) \in Nat
    OBVIOUS
  <2>3. seen' \in [Urls -> Nat] /\ \A v \in Urls : seen'[v] <= Len(accepted)
    BY <2>1, <2>2
  <2>4. mempool' \in [Urls -> SUBSET Built]
    BY <2>1
  <2> QED BY <2>1, <2>3, <2>4, NodesKeep
<1>3. ASSUME NEW u \in Urls, Drop(u) PROVE IssueInv'
  <2>1. /\ UNCHANGED <<request, cursor, local, accepted, seen>>
        /\ mempool' \in [Urls -> SUBSET Built]
    BY <1>3 DEF Drop
  <2> QED BY <2>1, NodesKeep
<1>4. ASSUME NEW t \in UNION {mempool[u] : u \in Urls}, Accept(t) PROVE IssueInv'
  <2> DEFINE e == [tx |-> t, active |-> "none"]
  <2>1. e \in Things /\ e.tx = t
    BY <1>4 DEF Things
  <2>2. \A kind \in DOMAIN Issues : e.active # NetOf(kind)
    BY DEF NetOf
  <2>3. /\ accepted' = Append(accepted, e) /\ UNCHANGED <<request, cursor, local, seen, mempool>>
        /\ t.ins \cap Spent(accepted) = {}
    BY <1>4 DEF Accept
  <2> HIDE DEF e
  <2> QED BY <2>1, <2>2, <2>3, GrowthKeeps
<1> QED BY <1>1, <1>2, <1>3, <1>4 DEF Network

LEMMA IssueInit == Init => IssueInv
<1> SUFFICES ASSUME Init PROVE IssueInv
  OBVIOUS
<1>1. /\ request \in Requests /\ cursor = 0 /\ accepted = <<>>
      /\ at = [c \in Callers |-> 1] /\ picked = [c \in Callers |-> 0]
      /\ tx = [c \in Callers |-> NoTx] /\ result = [c \in Callers |-> Running]
      /\ seen = [u \in Urls |-> 0] /\ mempool = [u \in Urls |-> {}]
  BY DEF Init
<1>2. \A c \in Callers : Orderly(Steps(c), IF Kind(c) \in Staking THEN "validator" ELSE "status")
  BY <1>1, StepsAre
<1>3. 0 \in Urls
  BY WalletIssueAssumption DEF Urls
<1>4. accepted \in Seq(Things) /\ Len(accepted) = 0 /\ DOMAIN accepted = {}
  BY <1>1
<1>5. Running \in Results /\ Running.tx = NoTx /\ Running.end = "running"
  BY DEF Running, Results
<1>6. Types
  <2>1. \A c \in Callers : at[c] \in 1..Len(Steps(c))
    BY <1>1, <1>2 DEF Orderly
  <2> QED BY <1>1, <1>3, <1>4, <1>5, <2>1 DEF Types
<1>7. Transactions
  <2> SUFFICES ASSUME NEW c \in Callers
               PROVE  /\ Own(c, tx[c]) /\ Own(c, result[c].tx)
                      /\ \A name \in Later : ~AtStep(c, name)
                      /\ ~AtStep(c, "validator")
    BY DEF Transactions
  <2>1. Steps(c)[at[c]] = "pick"
    BY <1>1, <1>2 DEF Orderly
  <2>2. tx[c] = NoTx /\ result[c].tx = NoTx
    BY <1>1, <1>5
  <2> QED BY <2>1, <2>2 DEF Own, AtStep, Later
<1>8. Chain
  BY <1>4 DEF Chain, IsValidator
<1>9. Reported
  BY <1>1, <1>5 DEF Reported, Honest
<1> QED BY <1>6, <1>7, <1>8, <1>9 DEF IssueInv

LEMMA IssueNext == IssueInv /\ [Next]_vars => IssueInv'
<1> SUFFICES ASSUME IssueInv, [Next]_vars PROVE IssueInv'
  OBVIOUS
<1>1. CASE Network
  BY <1>1, NetworkKeeps
<1>2. ASSUME NEW c \in Callers, Step(c) PROVE IssueInv'
  BY <1>2, StepKeeps
<1>3. ASSUME NEW c \in Callers, Retry(c) PROVE IssueInv'
  BY <1>3, RetryKeeps
<1>4. CASE UNCHANGED vars
  <2>1. /\ UNCHANGED <<request, cursor, local, accepted, seen, mempool>>
    BY <1>4 DEF vars, nodes
  <2> QED BY <2>1, NodesKeep DEF IssueInv, Types
<1> QED BY <1>1, <1>2, <1>3, <1>4 DEF Next

LEMMA IssueAlways == Spec => []IssueInv
  BY IssueInit, IssueNext, PTL DEF Spec

-----------------------------------------------------------------------------
(* The theorems.                                                           *)

\* What the issue methods of wallet/p and wallet/x return is so on the chain,
\* although each question they ask may go to another endpoint, which knows more
\* or less than the one before.
THEOREM ReportsAreTrue == Spec => []ReportedIsAccepted
<1>1. IssueInv => ReportedIsAccepted
  BY DEF IssueInv, Reported, Honest, ReportedIsAccepted, Confirmed
<1> QED BY IssueAlways, <1>1, PTL

\* Two clones of a wallet that choose the same output are not both told that
\* their transaction was accepted.
THEOREM OneWins == Spec => []LoserIsTold
<1>1. IssueInv => LoserIsTold
  <2> SUFFICES ASSUME IssueInv, NEW c \in Callers, NEW d \in Callers,
                      Confirmed(c), Confirmed(d), c # d
               PROVE  result[c].tx.ins \intersect result[d].tx.ins = {}
    BY DEF LoserIsTold
  <2>1. \A e \in {c, d} : result[e].tx \in Txs(accepted) /\ result[e].tx.by = e
    BY DEF IssueInv, Reported, Honest, Confirmed, Transactions, Own, Txs
  <2>2. PICK i \in DOMAIN accepted : accepted[i].tx = result[c].tx
    BY <2>1 DEF Txs
  <2>3. PICK j \in DOMAIN accepted : accepted[j].tx = result[d].tx
    BY <2>1 DEF Txs
  <2>4. i # j
    BY <2>1, <2>2, <2>3
  <2> QED BY <2>2, <2>3, <2>4 DEF IssueInv, Chain
<1> QED BY IssueAlways, <1>1, PTL

-----------------------------------------------------------------------------
(* Submits to an EVM: the inductive invariant.                             *)

EvmFields == {Unset} \union Nat

EvmTxs == [nonce : EvmFields, tip : EvmFields, cap : EvmFields, gas : EvmFields,
           order : {Unset} \union STRING]

Issuing == {"send", "resend"} \union E!Reasons
Checking == {"receipt", "lookup"}
SubmitSteps == {"idle", "nonce", "estimate", "sign", "returned"} \union Issuing \union Checking

EvmTypes ==
  /\ builder \in [Submitters -> EvmBuilders]
  /\ step \in [Submitters -> SubmitSteps]
  /\ call \in [Submitters -> EvmTxs]
  /\ sent \in [Submitters -> EvmTxs]
  /\ dried \in [Submitters -> EvmTxs]
  /\ outcome \in [Submitters -> [ok : BOOLEAN, tx : EvmTxs, retryable : BOOLEAN]]
  /\ managed \in [fetched : BOOLEAN, nonce : Nat]
  /\ pool \subseteq EvmTxs
  /\ mined \in Seq(EvmTxs)

\* The request is the one of the builder, whatever its nonce.
Asks(b, r) == r.tip = b.tip /\ r.cap = b.cap /\ r.gas = b.gas /\ r.order = b.order

\* The transaction is the one of the builder, with what the middleware fills in.
Fits(b, t) ==
  /\ t.tip = E!Or(b.tip, Fee) /\ t.cap = E!Or(b.cap, Fee) /\ t.order = b.order
  /\ b.gas # Unset => t.gas = b.gas

\* What a submitter's builder has to do with its request, with what it has sent
\* and with what it is told.
Submitter(c) ==
  /\ step[c] \in {"estimate", "sign"} => builder[c].dry_mode
  /\ step[c] \in Issuing \union Checking => ~builder[c].dry_mode
  /\ step[c] \in Issuing \union {"estimate", "sign"} => Asks(builder[c], call[c])
  /\ step[c] = "estimate" => builder[c].gas = Unset
  /\ step[c] = "sign" => builder[c].gas # Unset
  /\ step[c] \in Checking => Fits(builder[c], sent[c])
  /\ step[c] = "lookup" => sent[c] \in E!Range(mined)
  /\ E!Told(c) /\ ~builder[c].dry_mode =>
       /\ Fits(builder[c], outcome[c].tx)
       /\ builder[c].check_receipt => outcome[c].tx \in E!Range(mined)
  /\ dried[c] # E!NoTx => builder[c].gas # Unset /\ Asks(builder[c], dried[c])

EvmInv ==
  /\ EvmTypes
  /\ \A c, d \in Submitters : c # d => ~SignTheSame(builder[c], builder[d])
  /\ \A c \in Submitters : Submitter(c)

\* EvmInv is enough for what is said of the receipt and of the dry run.
LEMMA EvmInvSuffices == EvmInv => ReceiptIsOnChain /\ DryHashIsTrue
<1> SUFFICES ASSUME EvmInv PROVE ReceiptIsOnChain /\ DryHashIsTrue
  OBVIOUS
<1>1. ASSUME NEW c \in Submitters, E!Checked(c)
      PROVE  /\ outcome[c].tx \in E!Range(mined)
             /\ Fits(builder[c], outcome[c].tx)
             /\ builder[c] \in EvmBuilders /\ outcome[c].tx \in EvmTxs
  BY <1>1 DEF EvmInv, Submitter, E!Checked, EvmTypes
<1>2. ASSUME NEW c \in Submitters, E!Checked(c)
      PROVE  E!Describes(builder[c], outcome[c].tx)
  BY <1>1, <1>2 DEF E!Describes, Fits, E!Or, EvmBuilders
<1>3. ASSUME NEW c \in Submitters, NEW d \in Submitters \ {c},
             E!Checked(c), E!Checked(d)
      PROVE  outcome[d].tx # outcome[c].tx
  <2>1. Fits(builder[c], outcome[c].tx) /\ Fits(builder[d], outcome[d].tx)
    BY <1>1, <1>3
  <2>2. ~SignTheSame(builder[c], builder[d])
    BY DEF EvmInv
  <2> QED
    BY <2>1, <2>2 DEF Fits, SignTheSame
<1>4. ReceiptIsOnChain
  BY <1>1, <1>2, <1>3 DEF ReceiptIsOnChain, E!ReceiptIsOnChain
<1>5. ASSUME NEW c \in Submitters, E!Told(c), ~builder[c].dry_mode, dried[c] # E!NoTx,
             builder[c].tip # Unset, builder[c].cap # Unset,
             outcome[c].tx.nonce = dried[c].nonce
      PROVE  outcome[c].tx = dried[c]
  <2>1. Fits(builder[c], outcome[c].tx) /\ Asks(builder[c], dried[c]) /\ builder[c].gas # Unset
    BY <1>5 DEF EvmInv, Submitter
  <2>2. outcome[c].tx \in EvmTxs /\ dried[c] \in EvmTxs
    BY DEF EvmInv, EvmTypes
  <2> QED
    BY <1>5, <2>1, <2>2 DEF Fits, Asks, E!Or, EvmTxs
<1>6. DryHashIsTrue
  BY <1>5 DEF DryHashIsTrue, E!DryHashIsTrue
<1> QED
  BY <1>4, <1>6

\* The first state.
LEMMA EvmStarts == ASSUME E!Init PROVE EvmInv
<1>1. PICK calls \in Settings : builder = E!Built(calls)
  BY DEF E!Init
<1>2. /\ builder \in [Submitters -> EvmBuilders]
      /\ \A c, d \in Submitters : c # d => ~SignTheSame(builder[c], builder[d])
  BY <1>1, EvmAssumption
<1>3. E!NoTx \in EvmTxs
  BY DEF E!NoTx, EvmTxs, EvmFields
<1>4. /\ step = [c \in Submitters |-> "idle"]
      /\ call = [c \in Submitters |-> E!NoTx] /\ sent = [c \in Submitters |-> E!NoTx]
      /\ dried = [c \in Submitters |-> E!NoTx]
      /\ outcome = [c \in Submitters |-> E!NoOutcome]
      /\ managed = [fetched |-> FALSE, nonce |-> 0] /\ pool = {} /\ mined = <<>>
  BY DEF E!Init
<1>5. E!NoOutcome \in [ok : BOOLEAN, tx : EvmTxs, retryable : BOOLEAN]
  BY <1>3 DEF E!NoOutcome
<1>6. EvmTypes
  <2>1. mined \in Seq(EvmTxs)
    BY <1>4, EmptySeq
  <2>2. call \in [Submitters -> EvmTxs] /\ sent \in [Submitters -> EvmTxs]
        /\ dried \in [Submitters -> EvmTxs]
    BY <1>3, <1>4
  <2>3. outcome \in [Submitters -> [ok : BOOLEAN, tx : EvmTxs, retryable : BOOLEAN]]
    BY <1>4, <1>5
  <2>4. step \in [Submitters -> SubmitSteps] /\ pool \subseteq EvmTxs
    BY <1>4 DEF SubmitSteps
  <2>5. managed \in [fetched : BOOLEAN, nonce : Nat]
    BY <1>4
  <2> QED
    BY <1>2, <2>1, <2>2, <2>3, <2>4, <2>5 DEF EvmTypes
<1>7. ASSUME NEW c \in Submitters PROVE Submitter(c)
  BY <1>4 DEF Submitter, E!Told, Issuing, E!Reasons, Checking
<1> QED
  BY <1>2, <1>6, <1>7 DEF EvmInv

-----------------------------------------------------------------------------
(* Submits to an EVM: the steps.                                           *)

\* A step of c changes nothing of the others.
OnlyBy(c) ==
  \A d \in Submitters \ {c} :
    /\ builder'[d] = builder[d] /\ step'[d] = step[d] /\ call'[d] = call[d]
    /\ sent'[d] = sent[d] /\ outcome'[d] = outcome[d] /\ dried'[d] = dried[d]

\* Nor what its builder would sign, but for the nonce and the gas.
SameOrder(c) ==
  /\ builder'[c].tip = builder[c].tip /\ builder'[c].cap = builder[c].cap
  /\ builder'[c].order = builder[c].order

LEMMA EvmStepKeeps ==
  ASSUME EvmInv, NEW c \in Submitters, EvmTypes', OnlyBy(c), SameOrder(c),
         mined' = mined, Submitter(c)'
  PROVE  EvmInv'
<1>1. ASSUME NEW d \in Submitters PROVE Submitter(d)'
  <2>1. CASE d # c
    <3>1. /\ builder'[d] = builder[d] /\ step'[d] = step[d] /\ call'[d] = call[d]
          /\ sent'[d] = sent[d] /\ outcome'[d] = outcome[d] /\ dried'[d] = dried[d]
      BY <2>1 DEF OnlyBy
    <3>2. Submitter(d)
      BY DEF EvmInv
    <3> QED
      BY <3>1, <3>2 DEF Submitter, E!Told
  <2> QED
    BY <2>1
<1>2. ASSUME NEW d \in Submitters
      PROVE  /\ builder'[d].tip = builder[d].tip /\ builder'[d].cap = builder[d].cap
             /\ builder'[d].order = builder[d].order
  BY DEF OnlyBy, SameOrder
<1>3. ASSUME NEW d \in Submitters, NEW e \in Submitters, d # e
      PROVE  ~SignTheSame(builder'[d], builder'[e])
  <2>1. ~SignTheSame(builder[d], builder[e])
    BY <1>3 DEF EvmInv
  <2> QED
    BY <2>1, <1>2 DEF SignTheSame
<1> QED
  BY <1>1, <1>3 DEF EvmInv

\* The request made of a builder, and what the middleware makes of a request.
LEMMA RequestType ==
  ASSUME NEW b \in EvmBuilders, NEW n \in EvmFields
  PROVE  E!Request(b, n) \in EvmTxs /\ Asks(b, E!Request(b, n))
  BY DEF E!Request, EvmBuilders, EvmTxs, EvmFields, Asks

LEMMA FilledType ==
  ASSUME NEW b \in EvmBuilders, NEW r \in EvmTxs, Asks(b, r), NEW g \in Gas
  PROVE  E!Filled(r, g) \in EvmTxs /\ Fits(b, E!Filled(r, g))
<1>1. g \in Nat /\ Fee \in Nat
  BY EvmAssumption
<1>2. E!Filled(r, g) \in EvmTxs
  BY <1>1 DEF E!Filled, E!Or, EvmTxs, EvmFields
<1>3. Fits(b, E!Filled(r, g))
  BY DEF E!Filled, E!Or, EvmTxs, Asks, Fits
<1> QED
  BY <1>2, <1>3

LEMMA RefusalType ==
  ASSUME NEW t PROVE E!Refusal(t) = "none" \/ E!Refusal(t) \in E!Reasons
  BY DEF E!Refusal, E!Reasons

\* Begin makes the request and goes on to its next step.
LEMMA BeginKeeps ==
  ASSUME EvmInv, NEW c \in Submitters, NEW n \in EvmFields, E!Begin(c, n)
  PROVE  /\ call' \in [Submitters -> EvmTxs] /\ step' \in [Submitters -> SubmitSteps]
         /\ \A d \in Submitters \ {c} : call'[d] = call[d] /\ step'[d] = step[d]
         /\ Asks(builder[c], call'[c])
         /\ outcome' = outcome
         /\ step'[c] = IF ~builder[c].dry_mode THEN "send"
                       ELSE IF builder[c].gas = Unset THEN "estimate" ELSE "sign"
<1> DEFINE r == E!Request(builder[c], n)
           s == IF ~builder[c].dry_mode THEN "send"
                ELSE IF builder[c].gas = Unset THEN "estimate" ELSE "sign"
<1>1. builder[c] \in EvmBuilders /\ r \in EvmTxs /\ Asks(builder[c], r)
  BY RequestType DEF EvmInv, EvmTypes
<1>2. s \in SubmitSteps
  BY DEF SubmitSteps, Issuing
<1>3. /\ call' = [call EXCEPT ![c] = r] /\ step' = [step EXCEPT ![c] = s]
      /\ outcome' = outcome
  BY DEF E!Begin, E!GoTo
<1> HIDE DEF r, s
<1>4. call \in [Submitters -> EvmTxs] /\ step \in [Submitters -> SubmitSteps]
  BY DEF EvmInv, EvmTypes
<1>5. call'[c] = r /\ step'[c] = s
  BY <1>3, <1>4
<1> QED
  BY <1>1, <1>2, <1>3, <1>4, <1>5 DEF s

\* So do a step to another place and a return.
LEMMA GoToKeeps ==
  ASSUME EvmInv, NEW c \in Submitters, NEW s \in SubmitSteps, E!GoTo(c, s)
  PROVE  /\ step' \in [Submitters -> SubmitSteps] /\ step'[c] = s /\ outcome' = outcome
         /\ \A d \in Submitters \ {c} : step'[d] = step[d]
  BY DEF E!GoTo, EvmInv, EvmTypes

EvmOutcomes == [ok : BOOLEAN, tx : EvmTxs, retryable : BOOLEAN]

LEMMA EndKeeps ==
  ASSUME EvmInv, NEW c \in Submitters, NEW ok \in BOOLEAN, NEW t \in EvmTxs,
         NEW again \in BOOLEAN, E!End(c, ok, t, again)
  PROVE  /\ step' \in [Submitters -> SubmitSteps] /\ step'[c] = "returned"
         /\ \A d \in Submitters \ {c} : step'[d] = step[d] /\ outcome'[d] = outcome[d]
         /\ outcome' \in [Submitters -> EvmOutcomes]
         /\ outcome'[c].ok <=> ok
         /\ outcome'[c].tx = t
<1> DEFINE o == [ok |-> ok, tx |-> t, retryable |-> again]
<1>1. o \in EvmOutcomes /\ (o.ok <=> ok) /\ o.tx = t
  BY DEF EvmOutcomes
<1>2. outcome' = [outcome EXCEPT ![c] = o] /\ step' = [step EXCEPT ![c] = "returned"]
  BY DEF E!End
<1>3. outcome \in [Submitters -> EvmOutcomes] /\ step \in [Submitters -> SubmitSteps]
  BY DEF EvmInv, EvmTypes, EvmOutcomes
<1>4. "returned" \in SubmitSteps
  BY DEF SubmitSteps
<1> HIDE DEF o
<1>5. outcome'[c] = o
  BY <1>2, <1>3
<1> QED
  BY <1>1, <1>2, <1>3, <1>4, <1>5

LEMMA FailsKeeps ==
  ASSUME EvmInv, NEW c \in Submitters, E!Fails(c)
  PROVE  /\ step' \in [Submitters -> SubmitSteps] /\ step'[c] = "returned"
         /\ \A d \in Submitters \ {c} : step'[d] = step[d] /\ outcome'[d] = outcome[d]
         /\ outcome' \in [Submitters -> EvmOutcomes]
         /\ ~outcome'[c].ok
<1>1. E!NoTx \in EvmTxs /\ FALSE \in BOOLEAN
  BY DEF E!NoTx, EvmTxs, EvmFields
<1>2. E!End(c, FALSE, E!NoTx, FALSE)
  BY DEF E!Fails
<1> QED
  BY <1>1, <1>2, EndKeeps

\* The submit begins.
LEMMA SubmitKeeps == ASSUME EvmInv, NEW c \in Submitters, E!Submit(c) PROVE EvmInv'
<1>1. /\ step[c] = "idle"
      /\ UNCHANGED <<builder, sent, dried, managed, pool, mined>>
  BY DEF E!Submit
<1>2. Submitter(c) /\ EvmTypes /\ builder[c] \in EvmBuilders
  BY DEF EvmInv, EvmTypes
<1>3. CASE builder[c].nonce = Unset
  <2>1. E!GoTo(c, "nonce") /\ call' = call
    BY <1>3 DEF E!Submit
  <2>2. "nonce" \in SubmitSteps
    BY DEF SubmitSteps
  <2>3. /\ step' \in [Submitters -> SubmitSteps] /\ step'[c] = "nonce" /\ outcome' = outcome
        /\ \A d \in Submitters \ {c} : step'[d] = step[d]
    BY <2>1, <2>2, GoToKeeps
  <2>4. EvmTypes' /\ OnlyBy(c) /\ SameOrder(c)
    BY <1>1, <1>2, <2>1, <2>3 DEF EvmTypes, OnlyBy, SameOrder
  <2>5. Submitter(c)'
    BY <1>1, <1>2, <2>1, <2>3 DEF Submitter, Issuing, Checking, E!Reasons, E!Told
  <2> QED
    BY <1>1, <2>4, <2>5, EvmStepKeeps
<1>4. CASE builder[c].nonce # Unset
  <2>1. E!Begin(c, builder[c].nonce) /\ builder[c].nonce \in EvmFields
    BY <1>2, <1>4 DEF E!Submit, EvmBuilders, EvmFields
  <2>2. /\ call' \in [Submitters -> EvmTxs] /\ step' \in [Submitters -> SubmitSteps]
        /\ \A d \in Submitters \ {c} : call'[d] = call[d] /\ step'[d] = step[d]
        /\ Asks(builder[c], call'[c])
        /\ outcome' = outcome
        /\ step'[c] = IF ~builder[c].dry_mode THEN "send"
                      ELSE IF builder[c].gas = Unset THEN "estimate" ELSE "sign"
    BY <2>1, BeginKeeps
  <2>3. EvmTypes' /\ OnlyBy(c) /\ SameOrder(c)
    BY <1>1, <1>2, <2>2 DEF EvmTypes, OnlyBy, SameOrder
  <2>4. Submitter(c)'
    BY <1>1, <1>2, <2>2 DEF Submitter, Issuing, Checking, E!Reasons, E!Told
  <2> QED
    BY <1>1, <2>3, <2>4, EvmStepKeeps
<1> QED
  BY <1>3, <1>4

\* The nonce is fetched, or is not.
LEMMA FetchNonceKeeps == ASSUME EvmInv, NEW c \in Submitters, E!FetchNonce(c) PROVE EvmInv'
<1> DEFINE n == IF managed.fetched THEN managed.nonce ELSE Len(mined)
<1>1. step[c] = "nonce" /\ UNCHANGED <<sent, dried, pool, mined>>
  BY DEF E!FetchNonce
<1>2. /\ Submitter(c) /\ EvmTypes /\ builder[c] \in EvmBuilders
      /\ builder \in [Submitters -> EvmBuilders]
  BY DEF EvmInv, EvmTypes
<1>3. n \in Nat
  BY <1>2, LenProperties DEF EvmTypes
<1>4. \/ /\ managed' = [fetched |-> TRUE, nonce |-> n]
         /\ builder' = [builder EXCEPT ![c].nonce = n]
         /\ E!Begin(c, n)
      \/ E!Fails(c) /\ UNCHANGED <<managed, builder, call>>
  BY DEF E!FetchNonce
<1> HIDE DEF n
<1>5. CASE /\ managed' = [fetched |-> TRUE, nonce |-> n]
           /\ builder' = [builder EXCEPT ![c].nonce = n]
           /\ E!Begin(c, n)
  <2>1. n \in EvmFields
    BY <1>3 DEF EvmFields
  <2>2. /\ call' \in [Submitters -> EvmTxs] /\ step' \in [Submitters -> SubmitSteps]
        /\ \A d \in Submitters \ {c} : call'[d] = call[d] /\ step'[d] = step[d]
        /\ Asks(builder[c], call'[c])
        /\ outcome' = outcome
        /\ step'[c] = IF ~builder[c].dry_mode THEN "send"
                      ELSE IF builder[c].gas = Unset THEN "estimate" ELSE "sign"
    BY <1>5, <2>1, BeginKeeps
  <2>3. /\ builder' \in [Submitters -> EvmBuilders]
        /\ \A d \in Submitters \ {c} : builder'[d] = builder[d]
        /\ SameOrder(c)
        /\ builder'[c].gas = builder[c].gas
        /\ builder'[c].dry_mode = builder[c].dry_mode
        /\ builder'[c].check_receipt = builder[c].check_receipt
    BY <1>2, <1>3, <1>5 DEF EvmBuilders, SameOrder
  <2>4. managed' \in [fetched : BOOLEAN, nonce : Nat]
    BY <1>3, <1>5
  <2>5. EvmTypes' /\ OnlyBy(c)
    BY <1>1, <1>2, <2>2, <2>3, <2>4 DEF EvmTypes, OnlyBy
  <2>6. Submitter(c)'
    BY <1>1, <1>2, <2>2, <2>3
       DEF Submitter, Issuing, Checking, E!Reasons, E!Told, Asks, SameOrder
  <2> QED
    BY <1>1, <2>3, <2>5, <2>6, EvmStepKeeps
<1>6. CASE E!Fails(c) /\ UNCHANGED <<managed, builder, call>>
  <2>1. /\ step' \in [Submitters -> SubmitSteps] /\ step'[c] = "returned"
        /\ \A d \in Submitters \ {c} : step'[d] = step[d] /\ outcome'[d] = outcome[d]
        /\ outcome' \in [Submitters -> EvmOutcomes]
        /\ ~outcome'[c].ok
    BY <1>6, FailsKeeps
  <2>2. EvmTypes' /\ OnlyBy(c) /\ SameOrder(c)
    BY <1>1, <1>2, <1>6, <2>1 DEF EvmTypes, EvmOutcomes, OnlyBy, SameOrder
  <2>3. Submitter(c)'
    BY <1>1, <1>2, <1>6, <2>1 DEF Submitter, Issuing, Checking, E!Reasons, E!Told
  <2> QED
    BY <1>1, <2>2, <2>3, EvmStepKeeps
<1> QED
  BY <1>4, <1>5, <1>6

\* A submit fails where it is: nothing is said of it.
LEMMA PlainFailureKeeps ==
  ASSUME EvmInv, NEW c \in Submitters, E!Fails(c),
         UNCHANGED <<builder, call, sent, dried, managed, pool, mined>>
  PROVE  EvmInv'
<1>1. Submitter(c) /\ EvmTypes
  BY DEF EvmInv
<1>2. /\ step' \in [Submitters -> SubmitSteps] /\ step'[c] = "returned"
      /\ \A d \in Submitters \ {c} : step'[d] = step[d] /\ outcome'[d] = outcome[d]
      /\ outcome' \in [Submitters -> EvmOutcomes]
      /\ ~outcome'[c].ok
  BY FailsKeeps
<1>3. EvmTypes' /\ OnlyBy(c) /\ SameOrder(c)
  BY <1>1, <1>2 DEF EvmTypes, EvmOutcomes, OnlyBy, SameOrder
<1>4. Submitter(c)'
  BY <1>1, <1>2 DEF Submitter, Issuing, Checking, E!Reasons, E!Told
<1> QED
  BY <1>3, <1>4, EvmStepKeeps

\* The gas of a dry run is estimated, and kept.
LEMMA EstimateGasKeeps ==
  ASSUME EvmInv, NEW c \in Submitters, E!EstimateGas(c) PROVE EvmInv'
<1>1. step[c] = "estimate" /\ UNCHANGED <<sent, dried, managed, pool, mined>>
  BY DEF E!EstimateGas
<1>2. /\ Submitter(c) /\ EvmTypes
      /\ builder[c] \in EvmBuilders /\ builder \in [Submitters -> EvmBuilders]
      /\ call[c] \in EvmTxs /\ call \in [Submitters -> EvmTxs]
  BY DEF EvmInv, EvmTypes
<1>3. ASSUME NEW g \in Gas, builder' = [builder EXCEPT ![c].gas = g],
             call' = [call EXCEPT ![c].gas = g], E!GoTo(c, "sign")
      PROVE  EvmInv'
  <2>1. g \in Nat /\ g # Unset
    BY EvmAssumption
  <2>2. "sign" \in SubmitSteps
    BY DEF SubmitSteps
  <2>3. /\ step' \in [Submitters -> SubmitSteps] /\ step'[c] = "sign" /\ outcome' = outcome
        /\ \A d \in Submitters \ {c} : step'[d] = step[d]
    BY <1>3, <2>2, GoToKeeps
  <2>4. /\ builder' \in [Submitters -> EvmBuilders]
        /\ \A d \in Submitters \ {c} : builder'[d] = builder[d]
        /\ SameOrder(c)
        /\ builder'[c].gas = g
        /\ builder'[c].dry_mode = builder[c].dry_mode
    BY <1>2, <1>3, <2>1 DEF EvmBuilders, SameOrder
  <2>5. /\ call' \in [Submitters -> EvmTxs]
        /\ \A d \in Submitters \ {c} : call'[d] = call[d]
        /\ call'[c].tip = call[c].tip /\ call'[c].cap = call[c].cap
        /\ call'[c].order = call[c].order /\ call'[c].gas = g
    BY <1>2, <1>3, <2>1 DEF EvmTxs, EvmFields
  <2>6. EvmTypes' /\ OnlyBy(c)
    BY <1>1, <1>2, <2>3, <2>4, <2>5 DEF EvmTypes, OnlyBy
  <2>7. Submitter(c)'
    BY <1>1, <1>2, <2>1, <2>3, <2>4, <2>5
       DEF Submitter, Issuing, Checking, E!Reasons, E!Told, Asks, SameOrder
  <2> QED
    BY <1>1, <2>4, <2>6, <2>7, EvmStepKeeps
<1> QED
  BY <1>1, <1>3, PlainFailureKeeps DEF E!EstimateGas

\* A dry run signs.
LEMMA SignDryKeeps == ASSUME EvmInv, NEW c \in Submitters, E!SignDry(c) PROVE EvmInv'
<1>1. step[c] = "sign" /\ UNCHANGED <<builder, call, sent, managed, pool, mined>>
  BY DEF E!SignDry
<1>2. /\ Submitter(c) /\ EvmTypes
      /\ call[c] \in EvmTxs /\ dried \in [Submitters -> EvmTxs]
  BY DEF EvmInv, EvmTypes
<1>3. CASE E!End(c, TRUE, call[c], FALSE) /\ dried' = [dried EXCEPT ![c] = call[c]]
  <2>1. /\ step' \in [Submitters -> SubmitSteps] /\ step'[c] = "returned"
        /\ \A d \in Submitters \ {c} : step'[d] = step[d] /\ outcome'[d] = outcome[d]
        /\ outcome' \in [Submitters -> EvmOutcomes]
    <3>1. TRUE \in BOOLEAN /\ FALSE \in BOOLEAN
      OBVIOUS
    <3> QED
      BY <1>2, <1>3, <3>1, EndKeeps
  <2>2. /\ dried' \in [Submitters -> EvmTxs] /\ dried'[c] = call[c]
        /\ \A d \in Submitters \ {c} : dried'[d] = dried[d]
    BY <1>2, <1>3
  <2>3. EvmTypes' /\ OnlyBy(c) /\ SameOrder(c)
    BY <1>1, <1>2, <2>1, <2>2 DEF EvmTypes, EvmOutcomes, OnlyBy, SameOrder
  <2>4. Submitter(c)'
    BY <1>1, <1>2, <2>1, <2>2 DEF Submitter, Issuing, Checking, E!Reasons, E!Told
  <2> QED
    BY <1>1, <2>3, <2>4, EvmStepKeeps
<1> QED
  BY <1>1, <1>3, PlainFailureKeeps DEF E!SignDry

\* The node takes what is sent.
LEMMA TakenKeeps ==
  ASSUME EvmInv, NEW c \in Submitters, step[c] \in {"send", "resend"}, NEW g \in Gas,
         NEW t, t = E!Filled(call[c], g), E!Taken(c, t)
  PROVE  /\ t \in EvmTxs /\ Fits(builder[c], t)
         /\ pool' \subseteq EvmTxs
         /\ sent' \in [Submitters -> EvmTxs] /\ sent'[c] = t
         /\ \A d \in Submitters \ {c} : sent'[d] = sent[d]
<1>1. /\ builder[c] \in EvmBuilders /\ call[c] \in EvmTxs /\ Asks(builder[c], call[c])
      /\ sent \in [Submitters -> EvmTxs] /\ pool \subseteq EvmTxs
  BY DEF EvmInv, EvmTypes, Submitter, Issuing
<1>2. t \in EvmTxs /\ Fits(builder[c], t)
  BY <1>1, FilledType
<1>3. sent' = [sent EXCEPT ![c] = t] /\ pool' = (pool \ E!Rival(t)) \union {t}
  BY DEF E!Taken, E!Take
<1> QED
  BY <1>1, <1>2, <1>3

\* And the submit goes on to the receipt, or returns.
LEMMA SentKeeps ==
  ASSUME EvmInv, NEW c \in Submitters, step[c] \in {"send", "resend"}, NEW g \in Gas,
         NEW t, t = E!Filled(call[c], g), E!Taken(c, t), E!Sent(c, t),
         UNCHANGED <<builder, call, dried, managed, mined>>
  PROVE  EvmInv'
<1>1. /\ t \in EvmTxs /\ Fits(builder[c], t)
      /\ pool' \subseteq EvmTxs
      /\ sent' \in [Submitters -> EvmTxs] /\ sent'[c] = t
      /\ \A d \in Submitters \ {c} : sent'[d] = sent[d]
  BY TakenKeeps
<1>2. Submitter(c) /\ EvmTypes /\ ~builder[c].dry_mode
  BY DEF EvmInv, Submitter, Issuing
<1>3. CASE builder[c].check_receipt
  <2>1. E!GoTo(c, "receipt") /\ "receipt" \in SubmitSteps
    BY <1>3 DEF E!Sent, SubmitSteps, Checking
  <2>2. /\ step' \in [Submitters -> SubmitSteps] /\ step'[c] = "receipt" /\ outcome' = outcome
        /\ \A d \in Submitters \ {c} : step'[d] = step[d]
    BY <2>1, GoToKeeps
  <2>3. EvmTypes' /\ OnlyBy(c) /\ SameOrder(c)
    BY <1>1, <1>2, <2>2 DEF EvmTypes, OnlyBy, SameOrder
  <2>4. Submitter(c)'
    BY <1>1, <1>2, <2>2 DEF Submitter, Issuing, Checking, E!Reasons, E!Told
  <2> QED
    BY <2>3, <2>4, EvmStepKeeps
<1>4. CASE ~builder[c].check_receipt
  <2>1. E!End(c, TRUE, t, FALSE) /\ TRUE \in BOOLEAN /\ FALSE \in BOOLEAN
    BY <1>4 DEF E!Sent
  <2>2. /\ step' \in [Submitters -> SubmitSteps] /\ step'[c] = "returned"
        /\ \A d \in Submitters \ {c} : step'[d] = step[d] /\ outcome'[d] = outcome[d]
        /\ outcome' \in [Submitters -> EvmOutcomes]
        /\ outcome'[c].tx = t
    BY <1>1, <2>1, EndKeeps
  <2>3. EvmTypes' /\ OnlyBy(c) /\ SameOrder(c)
    BY <1>1, <1>2, <2>2 DEF EvmTypes, EvmOutcomes, OnlyBy, SameOrder
  <2>4. Submitter(c)'
    BY <1>1, <1>2, <1>4, <2>2 DEF Submitter, Issuing, Checking, E!Reasons, E!Told
  <2> QED
    BY <2>3, <2>4, EvmStepKeeps
<1> QED
  BY <1>3, <1>4

\* A step to another reason, or to a resend, whether or not it was taken.
LEMMA StaysIssuing ==
  ASSUME EvmInv, NEW c \in Submitters, step[c] \in Issuing, NEW s \in Issuing, E!GoTo(c, s),
         UNCHANGED <<builder, dried, mined>>,
         managed' \in [fetched : BOOLEAN, nonce : Nat],
         pool' \subseteq EvmTxs,
         sent' \in [Submitters -> EvmTxs], \A d \in Submitters \ {c} : sent'[d] = sent[d],
         call' \in [Submitters -> EvmTxs], \A d \in Submitters \ {c} : call'[d] = call[d],
         Asks(builder[c], call'[c])
  PROVE  EvmInv'
<1>1. Submitter(c) /\ EvmTypes /\ s \in SubmitSteps
  BY DEF EvmInv, SubmitSteps
<1>2. /\ step' \in [Submitters -> SubmitSteps] /\ step'[c] = s /\ outcome' = outcome
      /\ \A d \in Submitters \ {c} : step'[d] = step[d]
  BY <1>1, GoToKeeps
<1>3. EvmTypes' /\ OnlyBy(c) /\ SameOrder(c)
  BY <1>1, <1>2 DEF EvmTypes, OnlyBy, SameOrder
<1>4. Submitter(c)'
  BY <1>1, <1>2 DEF Submitter, Issuing, Checking, E!Reasons, E!Told
<1> QED
  BY <1>3, <1>4, EvmStepKeeps

\* A submit that returns without success says nothing either.
LEMMA RefusedKeeps ==
  ASSUME EvmInv, NEW c \in Submitters, NEW again \in BOOLEAN,
         E!End(c, FALSE, E!NoTx, again), UNCHANGED <<builder, call, dried, managed, mined>>,
         pool' \subseteq EvmTxs,
         sent' \in [Submitters -> EvmTxs], \A d \in Submitters \ {c} : sent'[d] = sent[d]
  PROVE  EvmInv'
<1>1. Submitter(c) /\ EvmTypes /\ E!NoTx \in EvmTxs /\ FALSE \in BOOLEAN
  BY DEF EvmInv, E!NoTx, EvmTxs, EvmFields
<1>2. /\ step' \in [Submitters -> SubmitSteps] /\ step'[c] = "returned"
      /\ \A d \in Submitters \ {c} : step'[d] = step[d] /\ outcome'[d] = outcome[d]
      /\ outcome' \in [Submitters -> EvmOutcomes]
      /\ outcome'[c].ok <=> FALSE
  BY <1>1, EndKeeps
<1>3. EvmTypes' /\ OnlyBy(c) /\ SameOrder(c)
  BY <1>1, <1>2 DEF EvmTypes, EvmOutcomes, OnlyBy, SameOrder
<1>4. Submitter(c)'
  BY <1>1, <1>2 DEF Submitter, Issuing, Checking, E!Reasons, E!Told
<1> QED
  BY <1>3, <1>4, EvmStepKeeps

\* A request is sent.
LEMMA SendKeeps == ASSUME EvmInv, NEW c \in Submitters, E!Send(c) PROVE EvmInv'
<1>1. step[c] = "send" /\ UNCHANGED <<builder, call, dried, managed, mined>>
  BY DEF E!Send
<1>2. PICK g \in Gas : LET t == E!Filled(call[c], g) IN
        \/ E!Taken(c, t) /\ E!Sent(c, t)
        \/ E!Taken(c, t) /\ E!GoTo(c, "other")
        \/ /\ E!Refusal(t) # "none" /\ E!GoTo(c, E!Refusal(t))
           /\ UNCHANGED <<sent, pool>>
  BY DEF E!Send
<1> DEFINE t == E!Filled(call[c], g)
<1>3. /\ EvmTypes /\ call \in [Submitters -> EvmTxs] /\ pool \subseteq EvmTxs
      /\ sent \in [Submitters -> EvmTxs] /\ managed \in [fetched : BOOLEAN, nonce : Nat]
      /\ Asks(builder[c], call[c]) /\ step[c] \in Issuing
  BY <1>1 DEF EvmInv, EvmTypes, Submitter, Issuing
<1>4. t = E!Filled(call[c], g)
  OBVIOUS
<1>5. \/ E!Taken(c, t) /\ E!Sent(c, t)
      \/ E!Taken(c, t) /\ E!GoTo(c, "other")
      \/ /\ E!Refusal(t) # "none" /\ E!GoTo(c, E!Refusal(t))
         /\ UNCHANGED <<sent, pool>>
  BY <1>2
<1> HIDE DEF t
<1>6. CASE E!Taken(c, t) /\ E!Sent(c, t)
  BY <1>1, <1>4, <1>6, SentKeeps
<1>7. CASE E!Taken(c, t) /\ E!GoTo(c, "other")
  <2>1. /\ pool' \subseteq EvmTxs /\ sent' \in [Submitters -> EvmTxs]
        /\ \A d \in Submitters \ {c} : sent'[d] = sent[d]
    BY <1>1, <1>4, <1>7, TakenKeeps
  <2>2. "other" \in Issuing
    BY DEF Issuing, E!Reasons
  <2> QED
    BY <1>1, <1>3, <1>7, <2>1, <2>2, StaysIssuing
<1>8. CASE /\ E!Refusal(t) # "none" /\ E!GoTo(c, E!Refusal(t))
           /\ UNCHANGED <<sent, pool>>
  <2>1. E!Refusal(t) \in Issuing
    BY <1>8, RefusalType DEF Issuing
  <2> QED
    BY <1>1, <1>3, <1>8, <2>1, StaysIssuing
<1> QED
  BY <1>5, <1>6, <1>7, <1>8

LEMMA SendFailsKeeps == ASSUME EvmInv, NEW c \in Submitters, E!SendFails(c) PROVE EvmInv'
<1>1. /\ step[c] = "send" /\ E!GoTo(c, "other")
      /\ UNCHANGED <<builder, call, sent, dried, managed, pool, mined>>
  BY DEF E!SendFails
<1>2. /\ EvmTypes /\ call \in [Submitters -> EvmTxs] /\ pool \subseteq EvmTxs
      /\ sent \in [Submitters -> EvmTxs] /\ managed \in [fetched : BOOLEAN, nonce : Nat]
      /\ Asks(builder[c], call[c]) /\ step[c] \in Issuing /\ "other" \in Issuing
  BY <1>1 DEF EvmInv, EvmTypes, Submitter, Issuing, E!Reasons
<1> QED
  BY <1>1, <1>2, StaysIssuing

\* The middleware looks at the nonce again.
LEMMA RecountKeeps == ASSUME EvmInv, NEW c \in Submitters, E!Recount(c) PROVE EvmInv'
<1>1. /\ step[c] \in E!Reasons /\ step[c] \in Issuing
      /\ UNCHANGED <<builder, sent, dried, pool, mined>>
  BY DEF E!Recount, Issuing
<1>2. /\ EvmTypes /\ call \in [Submitters -> EvmTxs] /\ pool \subseteq EvmTxs
      /\ sent \in [Submitters -> EvmTxs] /\ managed \in [fetched : BOOLEAN, nonce : Nat]
      /\ Asks(builder[c], call[c]) /\ Len(mined) \in Nat
  BY <1>1, LenProperties DEF EvmInv, EvmTypes, Submitter
<1>3. CASE /\ managed' = [managed EXCEPT !.nonce = Len(mined)]
           /\ call' = [call EXCEPT ![c].nonce = Len(mined)]
           /\ E!GoTo(c, "resend")
  <2> DEFINE n == Len(mined)
  <2>1. n \in Nat
    BY <1>2
  <2>2. /\ managed' = [managed EXCEPT !.nonce = n]
        /\ call' = [call EXCEPT ![c].nonce = n]
    BY <1>3
  <2> HIDE DEF n
  <2>3. managed' \in [fetched : BOOLEAN, nonce : Nat]
    BY <1>2, <2>1, <2>2
  <2>4. /\ call' \in [Submitters -> EvmTxs]
        /\ \A d \in Submitters \ {c} : call'[d] = call[d]
        /\ call'[c].tip = call[c].tip /\ call'[c].cap = call[c].cap
        /\ call'[c].order = call[c].order /\ call'[c].gas = call[c].gas
    BY <1>2, <2>1, <2>2, ZenonT(60) DEF EvmTxs, EvmFields
  <2>5. Asks(builder[c], call'[c]) /\ "resend" \in Issuing
    BY <1>2, <2>4 DEF Asks, Issuing
  <2> QED
    BY <1>1, <1>2, <1>3, <2>3, <2>4, <2>5, StaysIssuing
<1>4. CASE E!End(c, FALSE, E!NoTx, E!Retryable(step[c])) /\ UNCHANGED <<managed, call>>
  <2>1. E!Retryable(step[c]) \in BOOLEAN
    BY DEF E!Retryable
  <2> QED
    BY <1>1, <1>2, <1>4, <2>1, RefusedKeeps
<1>5. CASE E!Fails(c) /\ UNCHANGED <<managed, call>>
  BY <1>1, <1>5, PlainFailureKeeps
<1> QED
  BY <1>3, <1>4, <1>5 DEF E!Recount

\* The request is sent once more.
LEMMA ResendKeeps == ASSUME EvmInv, NEW c \in Submitters, E!Resend(c) PROVE EvmInv'
<1>1. step[c] = "resend" /\ UNCHANGED <<builder, call, dried, managed, mined>>
  BY DEF E!Resend
<1>2. PICK g \in Gas : LET t == E!Filled(call[c], g) IN
        \/ E!Taken(c, t) /\ E!Sent(c, t)
        \/ E!Taken(c, t) /\ E!Fails(c)
        \/ /\ E!End(c, FALSE, E!NoTx, E!Retryable(E!Refusal(t)))
           /\ UNCHANGED <<sent, pool>>
  BY DEF E!Resend
<1> DEFINE t == E!Filled(call[c], g)
<1>3. EvmTypes /\ pool \subseteq EvmTxs /\ sent \in [Submitters -> EvmTxs]
  BY DEF EvmInv, EvmTypes
<1>4. t = E!Filled(call[c], g)
  OBVIOUS
<1>5. \/ E!Taken(c, t) /\ E!Sent(c, t)
      \/ E!Taken(c, t) /\ E!Fails(c)
      \/ /\ E!End(c, FALSE, E!NoTx, E!Retryable(E!Refusal(t)))
         /\ UNCHANGED <<sent, pool>>
  BY <1>2
<1> HIDE DEF t
<1>6. CASE E!Taken(c, t) /\ E!Sent(c, t)
  BY <1>1, <1>4, <1>6, SentKeeps
<1>7. CASE E!Taken(c, t) /\ E!Fails(c)
  <2>1. /\ pool' \subseteq EvmTxs /\ sent' \in [Submitters -> EvmTxs]
        /\ \A d \in Submitters \ {c} : sent'[d] = sent[d]
    BY <1>1, <1>4, <1>7, TakenKeeps
  <2>2. FALSE \in BOOLEAN /\ E!End(c, FALSE, E!NoTx, FALSE)
    BY <1>7 DEF E!Fails
  <2> QED
    BY <1>1, <2>1, <2>2, RefusedKeeps
<1>8. CASE /\ E!End(c, FALSE, E!NoTx, E!Retryable(E!Refusal(t)))
           /\ UNCHANGED <<sent, pool>>
  <2>1. E!Retryable(E!Refusal(t)) \in BOOLEAN
    BY DEF E!Retryable
  <2> QED
    BY <1>1, <1>3, <1>8, <2>1, RefusedKeeps
<1> QED
  BY <1>5, <1>6, <1>7, <1>8

\* A transaction in a block is told of.
LEMMA MinedIsTold ==
  ASSUME EvmInv, NEW c \in Submitters, step[c] \in Checking,
         sent[c] \in E!Range(mined), E!End(c, TRUE, sent[c], FALSE),
         UNCHANGED <<builder, call, sent, dried, managed, pool, mined>>
  PROVE  EvmInv'
<1>1. Submitter(c) /\ EvmTypes /\ sent[c] \in EvmTxs /\ Fits(builder[c], sent[c])
  BY DEF EvmInv, EvmTypes, Submitter
<1>2. /\ step' \in [Submitters -> SubmitSteps] /\ step'[c] = "returned"
      /\ \A d \in Submitters \ {c} : step'[d] = step[d] /\ outcome'[d] = outcome[d]
      /\ outcome' \in [Submitters -> EvmOutcomes]
      /\ outcome'[c].tx = sent[c]
  <2>1. TRUE \in BOOLEAN /\ FALSE \in BOOLEAN
    OBVIOUS
  <2> QED
    BY <1>1, <2>1, EndKeeps
<1>3. EvmTypes' /\ OnlyBy(c) /\ SameOrder(c)
  BY <1>1, <1>2 DEF EvmTypes, EvmOutcomes, OnlyBy, SameOrder
<1>4. Submitter(c)'
  BY <1>1, <1>2 DEF Submitter, Issuing, Checking, E!Reasons, E!Told
<1> QED
  BY <1>3, <1>4, EvmStepKeeps

\* The receipt, and for who asks for the acceptance the transaction itself.
LEMMA AwaitReceiptKeeps ==
  ASSUME EvmInv, NEW c \in Submitters, E!AwaitReceipt(c) PROVE EvmInv'
<1>1. /\ step[c] = "receipt" /\ step[c] \in Checking
      /\ UNCHANGED <<builder, call, sent, dried, managed, pool, mined>>
  BY DEF E!AwaitReceipt, Checking
<1>2. Submitter(c) /\ EvmTypes
  BY DEF EvmInv
<1>3. CASE sent[c] \in E!Range(mined) /\ E!GoTo(c, "lookup")
  <2>1. "lookup" \in SubmitSteps
    BY DEF SubmitSteps, Checking
  <2>2. /\ step' \in [Submitters -> SubmitSteps] /\ step'[c] = "lookup" /\ outcome' = outcome
        /\ \A d \in Submitters \ {c} : step'[d] = step[d]
    BY <1>3, <2>1, GoToKeeps
  <2>3. EvmTypes' /\ OnlyBy(c) /\ SameOrder(c)
    BY <1>1, <1>2, <2>2 DEF EvmTypes, OnlyBy, SameOrder
  <2>4. Submitter(c)'
    BY <1>1, <1>2, <1>3, <2>2 DEF Submitter, Issuing, Checking, E!Reasons, E!Told
  <2> QED
    BY <1>1, <2>3, <2>4, EvmStepKeeps
<1>4. CASE sent[c] \in E!Range(mined) /\ E!End(c, TRUE, sent[c], FALSE)
  BY <1>1, <1>4, MinedIsTold
<1>5. CASE E!End(c, FALSE, E!NoTx, TRUE) \/ E!Fails(c)
  <2>1. EvmTypes /\ pool' \subseteq EvmTxs /\ sent' \in [Submitters -> EvmTxs]
        /\ TRUE \in BOOLEAN
    BY <1>1, <1>2 DEF EvmTypes
  <2> QED
    BY <1>1, <1>5, <2>1, RefusedKeeps, PlainFailureKeeps
<1> QED
  BY <1>3, <1>4, <1>5 DEF E!AwaitReceipt

LEMMA LookUpKeeps == ASSUME EvmInv, NEW c \in Submitters, E!LookUp(c) PROVE EvmInv'
<1>1. /\ step[c] = "lookup" /\ step[c] \in Checking
      /\ UNCHANGED <<builder, call, sent, dried, managed, pool, mined>>
  BY DEF E!LookUp, Checking
<1>2. /\ EvmTypes /\ pool' \subseteq EvmTxs /\ sent' \in [Submitters -> EvmTxs]
      /\ TRUE \in BOOLEAN /\ FALSE \in BOOLEAN /\ sent[c] \in E!Range(mined)
  BY <1>1 DEF EvmInv, EvmTypes, Submitter
<1>3. ASSUME NEW t \in E!Range(mined),
             E!End(c, t = sent[c], IF t = sent[c] THEN t ELSE E!NoTx, FALSE)
      PROVE  EvmInv'
  <2>1. CASE t = sent[c]
    <3>1. (t = sent[c]) = TRUE /\ (IF t = sent[c] THEN t ELSE E!NoTx) = sent[c]
      BY <2>1
    <3>2. E!End(c, TRUE, sent[c], FALSE)
      BY <1>3, <3>1
    <3> QED
      BY <1>1, <1>2, <3>2, MinedIsTold
  <2>2. CASE t # sent[c]
    <3>1. (t = sent[c]) = FALSE /\ (IF t = sent[c] THEN t ELSE E!NoTx) = E!NoTx
      BY <2>2
    <3>2. E!End(c, FALSE, E!NoTx, FALSE)
      BY <1>3, <3>1
    <3> QED
      BY <1>1, <1>2, <3>2, RefusedKeeps
  <2> QED
    BY <2>1, <2>2
<1>4. CASE E!End(c, FALSE, E!NoTx, TRUE) \/ E!Fails(c)
  BY <1>1, <1>2, <1>4, RefusedKeeps, PlainFailureKeeps
<1> QED
  BY <1>3, <1>4 DEF E!LookUp

\* The caller submits again.
LEMMA AgainKeeps == ASSUME EvmInv, NEW c \in Submitters, E!Again(c) PROVE EvmInv'
<1>1. /\ E!GoTo(c, "idle") /\ UNCHANGED <<call, sent, dried, submits, managed, pool, mined>>
      /\ \/ builder' = builder
         \/ builder' = [builder EXCEPT ![c] = E!Set(builder[c], <<"dry_mode", FALSE>>)]
  BY DEF E!Again
<1>2. /\ Submitter(c) /\ EvmTypes /\ "idle" \in SubmitSteps
      /\ builder[c] \in EvmBuilders /\ builder \in [Submitters -> EvmBuilders]
  BY DEF EvmInv, EvmTypes, SubmitSteps
<1>3. E!Set(builder[c], <<"dry_mode", FALSE>>) = [builder[c] EXCEPT !.dry_mode = FALSE]
  <2>1. <<"dry_mode", FALSE>>[1] = "dry_mode" /\ <<"dry_mode", FALSE>>[2] = FALSE
    OBVIOUS
  <2> QED
    BY <2>1 DEF E!Set
<1>4. /\ step' \in [Submitters -> SubmitSteps] /\ step'[c] = "idle" /\ outcome' = outcome
      /\ \A d \in Submitters \ {c} : step'[d] = step[d]
  BY <1>1, <1>2, GoToKeeps
<1>5. /\ builder' \in [Submitters -> EvmBuilders]
      /\ \A d \in Submitters \ {c} : builder'[d] = builder[d]
      /\ SameOrder(c)
      /\ builder'[c].gas = builder[c].gas
  <2>1. CASE builder' = builder
    BY <1>2, <2>1 DEF SameOrder
  <2>2. CASE builder' = [builder EXCEPT ![c] = [builder[c] EXCEPT !.dry_mode = FALSE]]
    BY <1>2, <2>2 DEF SameOrder, EvmBuilders
  <2> QED
    BY <1>1, <1>3, <2>1, <2>2
<1>6. EvmTypes' /\ OnlyBy(c)
  BY <1>1, <1>2, <1>4, <1>5 DEF EvmTypes, OnlyBy
<1>7. Submitter(c)'
  BY <1>1, <1>2, <1>4, <1>5
     DEF Submitter, Issuing, Checking, E!Reasons, E!Told, Asks, SameOrder
<1> QED
  BY <1>1, <1>5, <1>6, <1>7, EvmStepKeeps

\* The chain: a transaction in a block stays there.
LEMMA ChainKeeps == ASSUME EvmInv, E!Mine \/ E!Drop PROVE EvmInv'
<1>1. UNCHANGED <<builder, step, call, sent, outcome, dried, managed>>
  BY DEF E!Mine, E!Drop, E!caller
<1>2. pool' \subseteq EvmTxs /\ mined' \in Seq(EvmTxs)
      /\ E!Range(mined) \subseteq E!Range(mined')
  <2>1. pool \subseteq EvmTxs /\ mined \in Seq(EvmTxs)
    BY DEF EvmInv, EvmTypes
  <2>2. ASSUME NEW t \in pool, mined' = Append(mined, t), pool' = pool \ {t}
        PROVE  pool' \subseteq EvmTxs /\ mined' \in Seq(EvmTxs)
               /\ E!Range(mined) \subseteq E!Range(mined')
    <3>1. t \in EvmTxs
      BY <2>1
    <3>2. /\ mined' \in Seq(EvmTxs)
          /\ Len(mined) \in Nat /\ Len(mined') = Len(mined) + 1
          /\ \A i \in 1..Len(mined) : mined'[i] = mined[i]
      BY <2>1, <2>2, <3>1, AppendProperties
    <3>3. DOMAIN mined = 1..Len(mined) /\ DOMAIN mined' = 1..Len(mined')
      BY <2>1, <3>2, LenProperties
    <3> QED
      BY <2>1, <2>2, <3>2, <3>3 DEF E!Range
  <2> QED
    BY <2>1, <2>2 DEF E!Mine, E!Drop
<1>3. EvmTypes'
  BY <1>1, <1>2 DEF EvmInv, EvmTypes
<1>4. ASSUME NEW c \in Submitters PROVE Submitter(c)'
  <2>1. Submitter(c)
    BY DEF EvmInv
  <2> QED
    BY <1>1, <1>2, <2>1 DEF Submitter, E!Told
<1> QED
  BY <1>1, <1>3, <1>4 DEF EvmInv

LEMMA EvmSteps == ASSUME EvmInv, [E!Next]_evmVars PROVE EvmInv'
<1>1. CASE UNCHANGED evmVars
  BY <1>1 DEF evmVars, EvmInv, EvmTypes, Submitter, E!Told
<1>2. ASSUME NEW c \in Submitters, E!Step(c) PROVE EvmInv'
  BY <1>2, SubmitKeeps, FetchNonceKeeps, EstimateGasKeeps, SignDryKeeps, SendKeeps,
     SendFailsKeeps, RecountKeeps, ResendKeeps, AwaitReceiptKeeps, LookUpKeeps, AgainKeeps
     DEF E!Step
<1> QED
  BY <1>1, <1>2, ChainKeeps DEF E!Next

\* For any number of submitters, any settings by which no two sign the same, any
\* gas and any number of submits.
LEMMA EvmIsInvariant == MCSpec => []EvmInv
<1>1. MCInit => EvmInv
  BY EvmStarts DEF MCInit
<1>2. EvmInv /\ [MCNext]_allVars => EvmInv'
  <2> SUFFICES ASSUME EvmInv, [MCNext]_allVars PROVE [E!Next]_evmVars
    BY EvmSteps
  <2> QED
    BY DEF MCNext, allVars
<1> QED
  BY <1>1, <1>2, PTL DEF MCSpec

\* A submit to the EVM that was to check the receipt returns a transaction in a
\* block which is what its builder describes, and no two submitters the same one
\* (wallet/evm/eip1559.rs submit).
THEOREM ReceiptsHold == MCSpec => []ReceiptIsOnChain
  BY EvmIsInvariant, EvmInvSuffices, PTL

\* The hash of a dry run is the one of the submit that follows, where the fees
\* are set and no one else has used the nonce (wallet/evm/eip1559.rs submit).
THEOREM DryHashesHold == MCSpec => []DryHashIsTrue
  BY EvmIsInvariant, EvmInvSuffices, PTL

-----------------------------------------------------------------------------
(* The relay of signed requests: what a transaction and its hash are.      *)

TxFields ==
  {"domain_name", "domain_version", "domain_chain_id", "domain_verifying_contract",
   "from", "to", "value", "gas", "nonce", "data", "valid_until_time", "type_name",
   "type_suffix_data"}

IsTx(t) == DOMAIN t = TxFields /\ t = [f \in TxFields |-> t[f]]

LEMMA SameFields ==
  ASSUME NEW t, NEW u, IsTx(t), IsTx(u), \A f \in TxFields : t[f] = u[f]
  PROVE  t = u
  BY DEF IsTx

\* A setter leaves a transaction one.
LEMMA SetType == ASSUME NEW t, NEW f, NEW v, IsTx(t) PROVE IsTx(G!Set(t, f, v))
  BY DEF IsTx, G!Set

LEMMA NewType == IsTx(G!new)
  BY DEF IsTx, G!new, TxFields

LEMMA RecoveredType == ASSUME NEW r, NEW n, NEW s PROVE IsTx(G!recover_tx(r, n, s))
  BY DEF IsTx, G!recover_tx, TxFields

\* Two transactions with one encoding are the same: each field is hashed.
LEMMA EncodingIsInjective ==
  ASSUME NEW t, NEW u, IsTx(t), IsTx(u), G!encode_eip712(t) = G!encode_eip712(u)
  PROVE  t = u
<1>1. /\ G!eip712_domain(t) = G!eip712_domain(u)
      /\ G!compute_struct_hash(t) = G!compute_struct_hash(u)
  BY DEF G!encode_eip712
<1>2. /\ t.domain_name = u.domain_name /\ t.domain_version = u.domain_version
      /\ t.domain_chain_id = u.domain_chain_id
      /\ t.domain_verifying_contract = u.domain_verifying_contract
  BY <1>1 DEF G!eip712_domain
<1>3. /\ t.from = u.from /\ t.to = u.to /\ t.value = u.value /\ t.gas = u.gas
      /\ t.nonce = u.nonce /\ t.data = u.data /\ t.valid_until_time = u.valid_until_time
      /\ t.type_name = u.type_name /\ t.type_suffix_data = u.type_suffix_data
  BY <1>1 DEF G!compute_struct_hash, G!compute_request_type_hash
<1> QED
  BY <1>2, <1>3, SameFields DEF TxFields

\* What is recovered from the request of a transaction is that transaction, for
\* who knows its type and suffix.
LEMMA RecoversWhatWasSent ==
  ASSUME NEW t, IsTx(t)
  PROVE  G!recover_tx(G!typed_data(t), t.type_name, t.type_suffix_data) = t
<1> DEFINE u == G!recover_tx(G!typed_data(t), t.type_name, t.type_suffix_data)
<1>1. /\ u.domain_name = t.domain_name /\ u.domain_version = t.domain_version
      /\ u.domain_chain_id = t.domain_chain_id
      /\ u.domain_verifying_contract = t.domain_verifying_contract
      /\ u.from = t.from /\ u.to = t.to /\ u.value = t.value /\ u.gas = t.gas
      /\ u.nonce = t.nonce /\ u.data = t.data /\ u.valid_until_time = t.valid_until_time
      /\ u.type_name = t.type_name /\ u.type_suffix_data = t.type_suffix_data
  BY DEF G!recover_tx, G!typed_data, G!Text, G!ReadNumber
<1>2. IsTx(u)
  BY RecoveredType
<1> HIDE DEF u
<1>3. u = t
  BY <1>1, <1>2, SameFields DEF TxFields
<1> QED
  BY <1>3 DEF u

\* The forwarder hashes the arguments of its call to what was signed.
LEMMA ForwarderHashes ==
  ASSUME NEW t, NEW sig
  PROVE  G!Hash(G!encode_execute_call(t, sig)) = G!encode_eip712(t)
<1> DEFINE type == G!compute_request_type_hash(t.type_name, t.type_suffix_data)
           req == <<t.from, t.to, t.value, t.gas, t.nonce, t.data, t.valid_until_time>>
           X == {type, t.from, t.to, t.value, t.gas, t.nonce, t.data,
                 t.valid_until_time, t.type_suffix_data}
           all == (<<type>> \o req) \o <<t.type_suffix_data>>
           struct == <<type, t.from, t.to, t.value, t.gas, t.nonce, t.data,
                       t.valid_until_time, t.type_suffix_data>>
<1>1. <<type>> \in Seq(X) /\ req \in Seq(X) /\ <<t.type_suffix_data>> \in Seq(X)
      /\ struct \in Seq(X)
  OBVIOUS
<1>2. all = struct
  <2> DEFINE a == <<type>>
             front == a \o req
             c == <<t.type_suffix_data>>
  <2>1. /\ Len(a) = 1 /\ a[1] = type /\ Len(c) = 1 /\ c[1] = t.type_suffix_data
        /\ Len(req) = 7 /\ req[1] = t.from /\ req[2] = t.to /\ req[3] = t.value
        /\ req[4] = t.gas /\ req[5] = t.nonce /\ req[6] = t.data
        /\ req[7] = t.valid_until_time
    OBVIOUS
  <2>2. /\ Len(struct) = 9 /\ struct[1] = type /\ struct[2] = t.from /\ struct[3] = t.to
        /\ struct[4] = t.value /\ struct[5] = t.gas /\ struct[6] = t.nonce
        /\ struct[7] = t.data /\ struct[8] = t.valid_until_time
        /\ struct[9] = t.type_suffix_data
    OBVIOUS
  <2>3. a \in Seq(X) /\ c \in Seq(X)
    BY <1>1
  <2>4. all = front \o c
    OBVIOUS
  <2> HIDE DEF a, c, req, struct, X, type
  <2>5. /\ front \in Seq(X) /\ Len(front) = Len(a) + Len(req)
        /\ \A i \in 1..Len(front) :
             front[i] = IF i <= Len(a) THEN a[i] ELSE req[i - Len(a)]
    BY <1>1, <2>3, ConcatProperties
  <2> HIDE DEF front, all
  <2>6. /\ all \in Seq(X) /\ Len(all) = Len(front) + Len(c)
        /\ \A i \in 1..Len(all) :
             all[i] = IF i <= Len(front) THEN front[i] ELSE c[i - Len(front)]
    <3>1. front \in Seq(X) /\ c \in Seq(X)
      BY <2>3, <2>5
    <3>2. /\ front \o c \in Seq(X) /\ Len(front \o c) = Len(front) + Len(c)
          /\ \A i \in 1..Len(front) + Len(c) :
               (front \o c)[i] = IF i <= Len(front) THEN front[i] ELSE c[i - Len(front)]
      BY <3>1, ConcatProperties, Zenon
    <3> QED
      BY <3>2, <2>4
  <2>7. Len(front) = 8 /\ Len(all) = 9
    BY <2>1, <2>5, <2>6
  <2>8. /\ front[1] = type /\ front[2] = t.from /\ front[3] = t.to
        /\ front[4] = t.value /\ front[5] = t.gas /\ front[6] = t.nonce
        /\ front[7] = t.data /\ front[8] = t.valid_until_time
    BY <2>1, <2>5, <2>7
  <2>9. /\ \A i \in 1..8 : all[i] = front[i]
        /\ all[9] = t.type_suffix_data
    BY <2>1, <2>6, <2>7
  <2>10. \A i \in 1..Len(all) : all[i] = struct[i]
    BY <2>2, <2>7, <2>8, <2>9
  <2> QED
    BY <1>1, <2>2, <2>6, <2>7, <2>10, SeqEqual, SMTT(60)
<1> QED
  BY <1>2 DEF G!Hash, G!encode_execute_call, G!encode_eip712, G!compute_struct_hash

-----------------------------------------------------------------------------
(* The relay: its inductive invariant.                                     *)

\* What the relayer made of the last request.
LastRelay ==
  LET t == relay.tx
      of == relay.request.of IN
  /\ relay.signer = Key => t \in G!Range(signed)
  /\ relay.request.own /\ <<t.type_name, t.type_suffix_data>> = <<of.type_name, of.type_suffix_data>>
     => /\ t = of /\ relay.signer = Key
        /\ relay.accepted \/ of.from # Key \/ of.nonce # Len(executed)

\* Every request, however it was written, is of a transaction that was signed,
\* and carries the signature of it.
OnTheWire(r) ==
  /\ DOMAIN r = {"forward_request", "signature", "of", "own"}
  /\ r.of \in G!Range(signed) /\ r.signature = G!Signature(r.of)
  /\ r.own => r.forward_request = G!typed_data(r.of)
  /\ "from" \in DOMAIN r.forward_request => r.forward_request.from = r.of.from

GsnInv ==
  /\ IsTx(gsnTx) /\ gsnTx.from # "another"
  /\ signed \in Seq(G!Range(signed))
  /\ \A t \in G!Range(signed) : IsTx(t) /\ t.from # "another"
  /\ \A r \in wire : OnTheWire(r)
  /\ executed \in Seq(G!Range(signed))
  /\ \A i \in DOMAIN executed : executed[i].nonce = i - 1
  /\ LastRelay

LEMMA GsnInvSuffices == GsnInv => RelayedIsSigned
<1> SUFFICES ASSUME GsnInv PROVE RelayedIsSigned
  OBVIOUS
<1>1. \A i \in DOMAIN executed : executed[i] \in G!Range(signed)
  BY ElementOfSeq, LenProperties DEF GsnInv
<1> QED
  BY <1>1 DEF GsnInv, LastRelay, RelayedIsSigned, G!RelayedIsSigned

LEMMA GsnStarts == ASSUME G!Init PROVE GsnInv
<1>1. /\ gsnTx = G!new /\ signed = <<>> /\ wire = {} /\ relay = G!NoRelay /\ executed = <<>>
  BY DEF G!Init
<1>2. G!Range(signed) = {} /\ DOMAIN executed = {}
  BY <1>1 DEF G!Range
<1>3. signed \in Seq(G!Range(signed)) /\ executed \in Seq(G!Range(signed))
  BY <1>1, EmptySeq
<1>4. gsnTx.from = "zero"
  BY <1>1 DEF G!new
<1>5. ~relay.request.own /\ relay.signer # Key
  BY <1>1, GsnAssumption DEF G!NoRelay
<1> QED
  BY <1>1, <1>2, <1>3, <1>4, <1>5, NewType DEF GsnInv, LastRelay

-----------------------------------------------------------------------------
(* The relay: its steps.                                                   *)

\* A step that changes only the user's transaction, by a setter.
LEMMA SetKeeps ==
  ASSUME GsnInv, UNCHANGED <<signed, wire, relay, executed>>,
         gsnTx' = gsnTx \/ \E f, v : gsnTx' = G!Set(gsnTx, f, v) /\ (f = "from" => v # "another")
  PROVE  GsnInv'
<1>1. IsTx(gsnTx) /\ gsnTx.from # "another"
  BY DEF GsnInv
<1>2. ASSUME NEW f, NEW v, f = "from" => v # "another"
      PROVE  G!Set(gsnTx, f, v).from # "another" /\ IsTx(G!Set(gsnTx, f, v))
  <2>1. "from" \in DOMAIN gsnTx
    BY <1>1 DEF IsTx, TxFields
  <2>2. G!Set(gsnTx, f, v).from = IF f = "from" THEN v ELSE gsnTx.from
    BY <2>1 DEF G!Set
  <2> QED
    BY <1>1, <1>2, <2>2, SetType
<1>3. IsTx(gsnTx') /\ gsnTx'.from # "another"
  BY <1>1, <1>2
<1> QED
  BY <1>3 DEF GsnInv, OnTheWire, LastRelay

LEMMA SeqMonotone ==
  ASSUME NEW S, NEW More, S \subseteq More, NEW s \in Seq(S) PROVE s \in Seq(More)
<1>1. /\ Len(s) \in Nat /\ DOMAIN s = 1..Len(s) /\ \A i \in 1..Len(s) : s[i] \in S
  BY ElementOfSeq, LenProperties
<1>2. s = [i \in 1..Len(s) |-> s[i]]
  BY LenProperties
<1>3. [i \in 1..Len(s) |-> s[i]] \in Seq(More)
  BY <1>1, IsASeq
<1> QED
  BY <1>2, <1>3

\* The user signs.
LEMMA SignKeeps == ASSUME GsnInv, G!Sign PROVE GsnInv'
<1>1. CASE signed' = Append(signed, gsnTx)
           /\ wire' = wire \union {[forward_request |-> G!typed_data(gsnTx),
                                   signature |-> G!Signature(gsnTx), of |-> gsnTx,
                                   own |-> TRUE]}
  <2> DEFINE S == G!Range(signed)
             More == S \union {gsnTx}
             r == [forward_request |-> G!typed_data(gsnTx), signature |-> G!Signature(gsnTx),
                   of |-> gsnTx, own |-> TRUE]
  <2>1. /\ signed \in Seq(S) /\ executed \in Seq(S)
        /\ IsTx(gsnTx) /\ gsnTx.from # "another"
    BY DEF GsnInv
  <2>2. signed \in Seq(More) /\ executed \in Seq(More)
    <3>1. S \subseteq More
      OBVIOUS
    <3> HIDE DEF S, More
    <3> QED
      BY <2>1, <3>1, SeqMonotone
  <2>3. G!Range(signed') = More /\ signed' \in Seq(More)
    <3>1. gsnTx \in More
      OBVIOUS
    <3> HIDE DEF More
    <3>2. /\ signed' \in Seq(More) /\ Len(signed) \in Nat /\ Len(signed') = Len(signed) + 1
          /\ \A i \in 1..Len(signed) : signed'[i] = signed[i]
          /\ signed'[Len(signed) + 1] = gsnTx
      BY <1>1, <2>2, <3>1, AppendProperties
    <3>3. DOMAIN signed = 1..Len(signed) /\ DOMAIN signed' = 1..Len(signed) \union {Len(signed) + 1}
      BY <2>2, <3>2, LenProperties
    <3>4. G!Range(signed') = G!Range(signed) \union {gsnTx}
      BY <3>2, <3>3 DEF G!Range
    <3> QED
      BY <3>2, <3>4 DEF More
  <2>4. /\ DOMAIN r = {"forward_request", "signature", "of", "own"}
        /\ r.of = gsnTx /\ r.signature = G!Signature(gsnTx)
        /\ r.forward_request = G!typed_data(gsnTx)
        /\ r.forward_request.from = gsnTx.from
    BY DEF G!typed_data
  <2>5. wire' = wire \union {r} /\ relay' = relay /\ executed' = executed /\ gsnTx' = gsnTx
    BY <1>1 DEF G!Sign
  <2> HIDE DEF r
  <2>6. \A q \in wire' : OnTheWire(q)'
    <3>1. ASSUME NEW q \in wire PROVE OnTheWire(q)'
      BY <2>3 DEF GsnInv, OnTheWire
    <3>2. ASSUME NEW q, q = r PROVE OnTheWire(q)'
      BY <2>3, <2>4, <3>2 DEF OnTheWire
    <3> QED
      BY <2>5, <3>1, <3>2
  <2>7. LastRelay'
    BY <2>3, <2>5 DEF GsnInv, LastRelay
  <2>8. \A t \in G!Range(signed') : IsTx(t) /\ t.from # "another"
    BY <2>1, <2>3 DEF GsnInv
  <2> QED
    BY <2>1, <2>2, <2>3, <2>5, <2>6, <2>7, <2>8 DEF GsnInv
<1>2. CASE UNCHANGED <<signed, wire>>
  <2>1. UNCHANGED <<gsnTx, signed, wire, relay, executed>>
    BY <1>2 DEF G!Sign
  <2> QED
    BY <2>1, SetKeeps
<1> QED
  BY <1>1, <1>2 DEF G!Sign

LEMMA EditKeeps == ASSUME GsnInv, G!Edit PROVE GsnInv'
<1>1. PICK edit \in Edits : gsnTx' = G!Set(gsnTx, edit[1], edit[2])
  BY DEF G!Edit
<1>2. edit[1] = "from" => edit[2] # "another"
  BY GsnAssumption
<1>3. UNCHANGED <<signed, wire, relay, executed>>
  BY DEF G!Edit
<1> QED
  BY <1>1, <1>2, <1>3, SetKeeps

\* The steps that change no more than the gas.
LEMMA GasKeeps ==
  ASSUME GsnInv, G!Begin \/ G!Estimate \/ G!Retry \/ G!GiveUp PROVE GsnInv'
<1>1. UNCHANGED <<signed, wire, relay, executed>>
  BY DEF G!Begin, G!Estimate, G!Retry, G!GiveUp
<1>2. gsnTx' = gsnTx \/ \E v : gsnTx' = G!Set(gsnTx, "gas", v)
  BY DEF G!Begin, G!Estimate, G!Retry, G!GiveUp
<1>3. gsnTx' = gsnTx \/ \E f, v : gsnTx' = G!Set(gsnTx, f, v) /\ (f = "from" => v # "another")
  BY <1>2
<1> QED
  BY <1>1, <1>3, SetKeeps

\* Another client writes a request in its own way.
LEMMA OtherClientKeeps == ASSUME GsnInv, G!OtherClient PROVE GsnInv'
<1>1. PICK r \in wire :
        LET data == r.forward_request IN
        \E other \in {[f \in DOMAIN data |->
                         IF f \in G!Numbers THEN G!Text(data[f].number, "") ELSE data[f]]}
                    \union {[f \in DOMAIN data \ {g} |-> data[f]] : g \in DOMAIN data} :
          wire' = wire \union {[r EXCEPT !.forward_request = other, !.own = FALSE]}
  BY DEF G!OtherClient
<1> DEFINE data == r.forward_request
<1>2. PICK other :
        /\ "from" \in DOMAIN other => "from" \in DOMAIN data /\ other.from = data.from
        /\ wire' = wire \union {[r EXCEPT !.forward_request = other, !.own = FALSE]}
  <2>1. PICK other \in {[f \in DOMAIN data |->
                           IF f \in G!Numbers THEN G!Text(data[f].number, "") ELSE data[f]]}
                      \union {[f \in DOMAIN data \ {g} |-> data[f]] : g \in DOMAIN data} :
          wire' = wire \union {[r EXCEPT !.forward_request = other, !.own = FALSE]}
    BY <1>1
  <2>2. "from" \in DOMAIN other => "from" \in DOMAIN data /\ other.from = data.from
    BY DEF G!Numbers
  <2> QED
    BY <2>1, <2>2
<1> DEFINE q == [r EXCEPT !.forward_request = other, !.own = FALSE]
<1>3. OnTheWire(r)
  BY DEF GsnInv
<1>4. /\ DOMAIN q = {"forward_request", "signature", "of", "own"}
      /\ q.of = r.of /\ q.signature = r.signature /\ q.own = FALSE
      /\ q.forward_request = other
  BY <1>3 DEF OnTheWire
<1>5. UNCHANGED <<gsnTx, signed, relay, executed>> /\ wire' = wire \union {q}
  BY <1>2 DEF G!OtherClient
<1> HIDE DEF q
<1>6. OnTheWire(q)
  BY <1>2, <1>3, <1>4 DEF OnTheWire
<1>7. \A p \in wire' : OnTheWire(p)'
  BY <1>5, <1>6 DEF GsnInv, OnTheWire
<1> QED
  BY <1>5, <1>7 DEF GsnInv, LastRelay

\* The relayer refuses a request that lacks a field: none that came as it was sent.
LEMMA RefuseKeeps ==
  ASSUME GsnInv, NEW r \in wire, G!Refuse(r), UNCHANGED <<gsnTx, signed, wire>>
  PROVE  GsnInv'
<1>1. OnTheWire(r)
  BY DEF GsnInv
<1>2. \A t : DOMAIN G!typed_data(t) = DOMAIN G!typed_data(G!new)
  BY DEF G!typed_data
<1>3. ~r.own
  BY <1>1, <1>2 DEF OnTheWire, G!Refuse
<1>4. relay'.request = r /\ relay'.signer = "none" /\ executed' = executed
  BY DEF G!Refuse
<1>5. LastRelay'
  BY <1>3, <1>4, GsnAssumption DEF LastRelay
<1> QED
  BY <1>4, <1>5 DEF GsnInv, OnTheWire

\* The relayer recovers a transaction and calls the forwarder with it.
LEMMA ForwardKeeps ==
  ASSUME GsnInv, NEW r \in wire, G!Forward(r), UNCHANGED <<gsnTx, signed, wire>>
  PROVE  GsnInv'
<1>1. PICK type \in Registered :
        LET t == G!recover_tx(r.forward_request, type[1], type[2])
            c == G!encode_execute_call(t, r.signature) IN
        /\ relay' = [request |-> r, error |-> FALSE, tx |-> t,
                     signer |-> G!recover_signature(r, type[1], type[2]),
                     accepted |-> G!Accepts(c)]
        /\ executed' = IF G!Accepts(c) THEN Append(executed, t) ELSE executed
  BY DEF G!Forward
<1> DEFINE t == G!recover_tx(r.forward_request, type[1], type[2])
           c == G!encode_execute_call(t, r.signature)
           S == G!Range(signed)
<1>2. /\ relay'.request = r /\ relay'.tx = t /\ relay'.accepted = G!Accepts(c)
      /\ relay'.signer = G!recover(r.signature, G!encode_eip712(t))
      /\ executed' = IF G!Accepts(c) THEN Append(executed, t) ELSE executed
  BY <1>1 DEF G!recover_signature
<1>3. /\ OnTheWire(r) /\ r.of \in S /\ IsTx(r.of) /\ r.of.from # "another"
  BY DEF GsnInv, OnTheWire
<1>4. /\ IsTx(t) /\ t.type_name = type[1] /\ t.type_suffix_data = type[2]
      /\ t.from = r.forward_request.from
  BY RecoveredType DEF G!recover_tx
<1>5. t.from = r.of.from
  <2>1. "from" \in DOMAIN r.forward_request
    BY DEF G!Forward, G!typed_data
  <2> QED
    BY <2>1, <1>3, <1>4 DEF OnTheWire
<1>6. /\ r.signature.by = Key /\ r.signature.of = G!encode_eip712(r.of)
  BY <1>3 DEF OnTheWire, G!Signature
<1>7. /\ G!Hash(c) = G!encode_eip712(t) /\ c.sig = r.signature
      /\ c.req[1] = t.from /\ c.req[5] = t.nonce
      /\ c.requestTypeHash = <<type[1], type[2]>>
  <2>1. G!Hash(c) = G!encode_eip712(t)
    BY ForwarderHashes
  <2>2. /\ c.sig = r.signature /\ c.req[1] = t.from /\ c.req[5] = t.nonce
        /\ c.requestTypeHash = <<t.type_name, t.type_suffix_data>>
    BY DEF G!encode_execute_call, G!compute_request_type_hash
  <2> QED
    BY <2>1, <2>2, <1>4
<1> HIDE DEF t, c
\* Either t is what was signed, or some other address is recovered.
<1>8. CASE r.signature.of = G!encode_eip712(t)
  <2>1. t = r.of
    BY <1>3, <1>4, <1>6, <1>8, EncodingIsInjective
  <2>2. G!recover(r.signature, G!encode_eip712(t)) = Key
    BY <1>6, <1>8 DEF G!recover
  <2>3. G!Accepts(c) \/ t.from # Key \/ t.nonce # Len(executed)
    BY <2>2, <1>7, GsnAssumption DEF G!Accepts
  <2>4. LastRelay'
    BY <2>1, <2>2, <2>3, <1>2, <1>3 DEF LastRelay
  <2>5. executed' \in Seq(S) /\ \A i \in DOMAIN executed' : executed'[i].nonce = i - 1
    <3>1. executed \in Seq(S) /\ \A i \in DOMAIN executed : executed[i].nonce = i - 1
      BY DEF GsnInv
    <3>2. CASE ~G!Accepts(c)
      BY <3>1, <3>2, <1>2
    <3>3. CASE G!Accepts(c)
      <4>1. executed' = Append(executed, t) /\ t \in S /\ t.nonce = Len(executed)
        BY <3>3, <1>2, <1>3, <1>7, <2>1 DEF G!Accepts
      <4> HIDE DEF S
      <4>2. /\ executed' \in Seq(S) /\ Len(executed) \in Nat
            /\ Len(executed') = Len(executed) + 1
            /\ \A i \in 1..Len(executed) : executed'[i] = executed[i]
            /\ executed'[Len(executed) + 1] = t
        BY <3>1, <4>1, AppendProperties
      <4>3. /\ DOMAIN executed = 1..Len(executed)
            /\ DOMAIN executed' = 1..Len(executed) \union {Len(executed) + 1}
        BY <3>1, <4>2, LenProperties
      <4>4. Len(executed) = (Len(executed) + 1) - 1
        BY <4>2
      <4> QED
        BY <3>1, <4>1, <4>2, <4>3, <4>4
    <3> QED
      BY <3>2, <3>3
  <2> QED
    BY <2>4, <2>5 DEF GsnInv, OnTheWire
<1>9. CASE r.signature.of # G!encode_eip712(t)
  <2>1. G!recover(r.signature, G!encode_eip712(t)) = "another"
    BY <1>9 DEF G!recover
  <2>2. ~G!Accepts(c)
    BY <2>1, <1>3, <1>5, <1>7 DEF G!Accepts
  <2>3. relay'.signer # Key /\ executed' = executed
    BY <2>1, <2>2, <1>2, GsnAssumption
  <2>4. ~(r.own /\ <<t.type_name, t.type_suffix_data>> = <<r.of.type_name, r.of.type_suffix_data>>)
    <3> SUFFICES ASSUME r.own, t.type_name = r.of.type_name,
                        t.type_suffix_data = r.of.type_suffix_data
                 PROVE  FALSE
      OBVIOUS
    <3>1. t = G!recover_tx(G!typed_data(r.of), r.of.type_name, r.of.type_suffix_data)
      BY <1>3, <1>4 DEF OnTheWire, t
    <3>2. t = r.of
      BY <3>1, <1>3, RecoversWhatWasSent
    <3> QED
      BY <3>2, <1>6, <1>9
  <2>5. LastRelay'
    BY <2>3, <2>4, <1>2 DEF LastRelay
  <2> QED
    BY <2>3, <2>5 DEF GsnInv, OnTheWire
<1> QED
  BY <1>8, <1>9

LEMMA GsnSteps == ASSUME GsnInv, [G!Next]_gsnVars PROVE GsnInv'
<1>1. CASE UNCHANGED gsnVars
  BY <1>1 DEF gsnVars, GsnInv, OnTheWire, LastRelay
<1>2. CASE G!Receive
  BY <1>2, RefuseKeeps, ForwardKeeps DEF G!Receive
<1> QED
  BY <1>1, <1>2, EditKeeps, GasKeeps, SignKeeps, OtherClientKeeps DEF G!Next

\* The forwarder carries out what its sender has signed, in the order of the
\* nonces and each once; a relayer that recovers the key has the transaction that
\* was signed; and one that asks for the type it was signed with does recover it
\* and has it carried out, unless its nonce is not the next
\* (evm/eip712/gsn/tx.rs).  For any key, edits, types, gas and number of requests.
THEOREM RelayHolds == MCSpec => []RelayedIsSigned
<1>1. MCInit => GsnInv
  BY GsnStarts DEF MCInit
<1>2. GsnInv /\ [MCNext]_allVars => GsnInv'
  <2> SUFFICES ASSUME GsnInv, [MCNext]_allVars PROVE [G!Next]_gsnVars
    BY GsnSteps
  <2> QED
    BY DEF MCNext, allVars
<1> QED
  BY <1>1, <1>2, GsnInvSuffices, PTL DEF MCSpec


-----------------------------------------------------------------------------
(* The times of an issue: the inductive invariant.                         *)

\* The longest that a call for the status takes.
Longest == CHOOSE l \in Latencies : \A other \in Latencies : other <= l

\* The setters that a caller calls.
Wishes(w) == {w.sets[i] : i \in DOMAIN w.sets}

\* What every builder of a transaction has.
Sound(b) ==
  /\ PollFields \subseteq DOMAIN b
  /\ b.poll_initial_wait \in Nat /\ b.poll_interval \in Nat /\ b.poll_timeout \in Nat
  /\ "start_time" \in DOMAIN b =>
       /\ "end_time" \in DOMAIN b /\ b.start_time \in Nat /\ b.end_time \in Nat
       /\ \A l \in Latencies : l <= b.poll_timeout

TimesTypes ==
  /\ wanted \in Wanted
  /\ clock \in Nat /\ handed \in Nat /\ from \in Nat
  /\ chain \in [accepted : Nat, active : Nat]

\* Unless it sets the period, the one it has is long enough.
BuilderFits ==
  /\ DOMAIN periods = DOMAIN T!Builders[wanted.kind]
  /\ Sound(periods)
  /\ setters \in Seq(Wishes(wanted))
  /\ ~T!SetsPeriod /\ T!Stakes => periods.end_time >= periods.start_time + MinPeriod

\* The loops run from the end of the initial wait, and one round beyond
\* poll_timeout at most.
InRound ==
  /\ from = handed + periods.poll_initial_wait
  /\ clock <= from + periods.poll_timeout + Longest + periods.poll_interval

\* What is not there yet comes after the last answer, which is one sleep ago; the
\* answer that the transaction is accepted came in time, or is one call older.
Awaited ==
  /\ place = "wait" => clock = handed + periods.poll_initial_wait
  /\ place \in {"status", "validator"} => InRound
  /\ place = "status" => clock = from \/ chain.accepted > clock - periods.poll_interval
  /\ place = "validator" =>
       /\ T!Stakes /\ chain.accepted <= clock
       /\ \/ clock <= from + periods.poll_timeout
          \/ chain.active > clock - periods.poll_interval - Longest

TimesInv ==
  /\ TimesTypes
  /\ place # "new" => BuilderFits
  /\ place # "said" => said = "nothing"
  /\ chain.accepted <= T!Never /\ chain.accepted <= chain.active
  /\ Awaited
  /\ T!FailsForCause

LEMMA LongestBounds ==
  /\ Longest \in Nat
  /\ \A l \in Latencies : l \in Nat /\ l <= Longest
  /\ T!Slack = periods.poll_interval + 2 * Longest
<1>1. \E l \in Latencies : \A other \in Latencies : other <= l
  BY TimesAssumption
<1>2. Longest \in Latencies /\ \A other \in Latencies : other <= Longest
  BY <1>1 DEF Longest
<1> QED
  BY <1>2, TimesAssumption DEF T!Slack, Longest

LEMMA SoundBuilder ==
  ASSUME NEW until \in Nat, until >= T!Minute, NEW wait \in Nat, NEW interval \in Nat,
         NEW contents, "start_time" \notin contents, "end_time" \notin contents
  PROVE  /\ Sound(T!Builder(T!Validates(until), T!Polled(wait, interval), contents))
         /\ Sound(T!Builder(T!NoPeriod, T!Polled(wait, interval), contents))
         /\ LET b == T!Builder(T!Validates(until), T!Polled(wait, interval), contents)
            IN b.end_time - b.start_time = until - T!Minute
         /\ "start_time" \notin DOMAIN T!Builder(T!NoPeriod, T!Polled(wait, interval), contents)
<1> DEFINE p == T!Polled(wait, interval)
           v == T!Validates(until)
           b == T!Builder(v, p, contents)
           n == T!Builder(T!NoPeriod, p, contents)
<1>1. /\ DOMAIN p = {"check_acceptance", "poll_initial_wait", "poll_interval",
                     "poll_timeout", "dry_mode"}
      /\ p.poll_initial_wait = wait /\ p.poll_interval = interval /\ p.poll_timeout = 3000
  BY DEF T!Polled, T!Minute, T!Second
<1>2. DOMAIN v = {"start_time", "end_time"} /\ v.start_time = 600 /\ v.end_time = until
  BY DEF T!Validates, T!Minute, T!Second
<1>3. DOMAIN T!NoPeriod = {}
  BY DEF T!NoPeriod
<1>4. \A l \in Latencies : l <= 3000
  <2>1. \A l \in Latencies : l \in Nat
    BY TimesAssumption
  <2>2. PICK most \in Latencies : most <= 5 * T!Minute /\ \A other \in Latencies : other <= most
    BY TimesAssumption
  <2>3. most <= 3000
    BY <2>2 DEF T!Minute, T!Second
  <2> QED
    BY <2>1, <2>2, <2>3
<1>7. /\ {"start_time", "end_time", "poll_initial_wait", "poll_interval", "poll_timeout"} \subseteq DOMAIN b
      /\ b["start_time"] = v["start_time"] /\ b["end_time"] = v["end_time"]
      /\ b["poll_initial_wait"] = p["poll_initial_wait"]
      /\ b["poll_interval"] = p["poll_interval"]
      /\ b["poll_timeout"] = p["poll_timeout"]
  <2> HIDE DEF p, v
  <2> QED  BY <1>1, <1>2 DEF T!Builder
<1>8. /\ {"poll_initial_wait", "poll_interval", "poll_timeout"} \subseteq DOMAIN n
      /\ n["poll_initial_wait"] = p["poll_initial_wait"]
      /\ n["poll_interval"] = p["poll_interval"]
      /\ n["poll_timeout"] = p["poll_timeout"]
      /\ "start_time" \notin DOMAIN n
  <2> HIDE DEF p
  <2> QED  BY <1>1, <1>3 DEF T!Builder
<1> HIDE DEF p, v, b, n
<1>5. Sound(b) /\ b.end_time = until /\ b.start_time = 600
  <2>1. b.start_time = 600 /\ b.end_time = until /\ b.poll_initial_wait = wait
        /\ b.poll_interval = interval /\ b.poll_timeout = 3000
    BY <1>1, <1>2, <1>7
  <2>2. 600 \in Nat /\ 3000 \in Nat
    OBVIOUS
  <2>3. PollFields \subseteq DOMAIN b
        /\ "end_time" \in DOMAIN b
    BY <1>7 DEF PollFields
  <2> QED
    BY <2>1, <2>2, <2>3, <1>4 DEF Sound
<1>6. Sound(n) /\ "start_time" \notin DOMAIN n
  <2>1. n.poll_initial_wait = wait
        /\ n.poll_interval = interval /\ n.poll_timeout = 3000
    BY <1>1, <1>8
  <2>2. 3000 \in Nat
    OBVIOUS
  <2>3. PollFields \subseteq DOMAIN n
        /\ "start_time" \notin DOMAIN n
    BY <1>8 DEF PollFields
  <2> QED
    BY <2>1, <2>2, <2>3 DEF Sound
<1> QED
  BY <1>5, <1>6 DEF b, n, p, v, T!Minute, T!Second

\* Every kind has a sound builder, those that stake one of two weeks at least.
LEMMA KindIsSound ==
  ASSUME NEW kind \in DOMAIN T!Builders
  PROVE  /\ Sound(T!Builders[kind])
         /\ "start_time" \in DOMAIN T!Builders[kind] =>
              T!Builders[kind].end_time - T!Builders[kind].start_time >= 14 * T!Day
<1> DEFINE Fine(b) == Sound(b)
                      /\ ("start_time" \in DOMAIN b => b.end_time - b.start_time >= 14 * T!Day)
<1>1. /\ 14 * T!Day + 5 * T!Minute \in Nat /\ 100 * T!Day \in Nat
      /\ 15 * T!Day + 5 * T!Minute \in Nat /\ 62 * T!Second \in Nat /\ T!Second \in Nat
      /\ 15 \in Nat /\ 5 \in Nat /\ 7 \in Nat /\ T!Minute \in Nat
      /\ 14 * T!Day + 5 * T!Minute >= T!Minute /\ 100 * T!Day >= T!Minute
      /\ 15 * T!Day + 5 * T!Minute >= T!Minute
      /\ 14 * T!Day + 5 * T!Minute - T!Minute >= 14 * T!Day
      /\ 100 * T!Day - T!Minute >= 14 * T!Day
      /\ 15 * T!Day + 5 * T!Minute - T!Minute >= 14 * T!Day
  BY DEF T!Day, T!Minute, T!Second
<1>2. ASSUME NEW until \in Nat, until >= T!Minute, until - T!Minute >= 14 * T!Day,
             NEW wait \in Nat, NEW interval \in Nat,
             NEW contents, "start_time" \notin contents, "end_time" \notin contents
      PROVE  Fine(T!Builder(T!Validates(until), T!Polled(wait, interval), contents))
  BY <1>2, SoundBuilder, ZenonT(60)
<1>3. ASSUME NEW wait \in Nat, NEW interval \in Nat,
             NEW contents, "start_time" \notin contents, "end_time" \notin contents
      PROVE  Fine(T!Builder(T!NoPeriod, T!Polled(wait, interval), contents))
  BY <1>1, <1>3, SoundBuilder, Zenon
<1> HIDE DEF Fine
<1>4. Fine(T!add_validator) /\ Fine(T!add_permissionless_validator) /\ Fine(T!add_subnet_validator)
  <2>1. Fine(T!add_validator)
    <3>1. PICK until : until = 14 * T!Day + 5 * T!Minute
      OBVIOUS
    <3>2. /\ until \in Nat /\ until >= T!Minute /\ until - T!Minute >= 14 * T!Day
          /\ 62 * T!Second \in Nat /\ T!Second \in Nat
      BY <3>1 DEF T!Day, T!Minute, T!Second
    <3> QED
      BY <1>2, <3>1, <3>2 DEF T!add_validator
  <2>2. Fine(T!add_permissionless_validator)
    BY <1>1, <1>2 DEF T!add_permissionless_validator
  <2>3. Fine(T!add_subnet_validator)
    <3>1. PICK until : until = 15 * T!Day + 5 * T!Minute
      OBVIOUS
    <3>2. /\ until \in Nat /\ until >= T!Minute /\ until - T!Minute >= 14 * T!Day
          /\ 62 * T!Second \in Nat /\ T!Second \in Nat
      BY <3>1 DEF T!Day, T!Minute, T!Second
    <3> QED
      BY <1>2, <3>1, <3>2 DEF T!add_subnet_validator
  <2> QED
    BY <2>1, <2>2, <2>3
<1>5. /\ Fine(T!create_subnet) /\ Fine(T!create_chain) /\ Fine(T!export) /\ Fine(T!import)
      /\ Fine(T!export_x) /\ Fine(T!transfer) /\ Fine(T!import_x)
  BY <1>1, <1>3
     DEF T!create_subnet, T!create_chain, T!export, T!import, T!export_x, T!transfer, T!import_x
<1>6. Fine(T!Builders[kind])
  BY <1>4, <1>5 DEF T!Builders
<1> QED
  BY <1>6 DEF Fine

LEMMA TimesStart == MCInit => TimesInv
<1> SUFFICES ASSUME MCInit PROVE TimesInv
  OBVIOUS
<1>1. T!Init
  BY DEF MCInit
<1>2. TimesTypes
  BY <1>1 DEF T!Init, TimesTypes, T!Never, T!NotYet, T!Day, T!Minute, T!Second
<1>3. place = "new" /\ said = "nothing" /\ chain = T!NotYet
  BY <1>1 DEF T!Init
<1>4. T!FailsForCause /\ Awaited
  BY <1>3 DEF T!FailsForCause, T!Late, Awaited
<1>5. chain.accepted <= T!Never /\ chain.accepted <= chain.active
  BY <1>3 DEF T!NotYet, T!Never, T!Day, T!Minute, T!Second
<1> QED
  BY <1>2, <1>3, <1>4, <1>5 DEF TimesInv

\* The period of a builder is made from the clock, in whole seconds.
LEMMA WholeSeconds == ASSUME clock \in Nat PROVE T!NowUnix \in Nat /\ T!NowUnix <= clock
  BY DEF T!NowUnix, T!Second

LEMMA AfterSome ==
  ASSUME NEW ds, ds \subseteq Nat, clock \in Nat, T!After(ds)
  PROVE  clock' \in Nat /\ clock' >= clock
  BY DEF T!After

\* A step that says nothing keeps what has been said to be so.
LEMMA NewKeepsTimes == TimesInv /\ T!New => TimesInv'
<1> SUFFICES ASSUME TimesInv, T!New PROVE TimesInv'
  OBVIOUS
<1>1. place = "new" /\ place' = "set" /\ UNCHANGED <<wanted, handed, from, chain, said>>
  BY DEF T!New
<1>2. clock' \in Nat
  BY AfterSome, TimesAssumption DEF T!New, TimesInv, TimesTypes
<1>3. TimesTypes'
  BY <1>1, <1>2 DEF TimesInv, TimesTypes
<1>4. BuilderFits'
  <2> DEFINE b == T!Builders[wanted.kind]
             now == T!NowUnix
  <2>1. wanted.kind \in DOMAIN T!Builders
    BY TimesAssumption DEF TimesInv, TimesTypes
  <2>2. Sound(b) /\ ("start_time" \in DOMAIN b => b.end_time - b.start_time >= 14 * T!Day)
    BY <2>1, KindIsSound
  <2>3. periods' = IF "start_time" \in DOMAIN b
                   THEN [b EXCEPT !.start_time = @ + now, !.end_time = @ + now] ELSE b
    BY DEF T!New
  <2>4. setters' = wanted.sets /\ wanted' = wanted
    BY DEF T!New
  <2>5. wanted.sets \in Seq(Wishes(wanted))
    BY TimesAssumption DEF TimesInv, TimesTypes, Wishes
  <2>6. now \in Nat
    BY WholeSeconds DEF TimesInv, TimesTypes
  <2>7. MinPeriod \in Nat /\ MinPeriod <= 14 * T!Day /\ 14 * T!Day \in Nat
    BY TimesAssumption DEF T!Day, T!Minute, T!Second
  <2> HIDE DEF b, now
  <2>8. DOMAIN periods' = DOMAIN b
    BY <2>3
  <2>9. Sound(periods')
    BY <2>2, <2>3, <2>6 DEF Sound, PollFields
  <2>10. "start_time" \in DOMAIN b => periods'.end_time >= periods'.start_time + MinPeriod
    BY <2>2, <2>3, <2>6, <2>7 DEF Sound
  <2> QED
    BY <2>4, <2>5, <2>8, <2>9, <2>10 DEF BuilderFits, T!Stakes, b, Wishes
<1>5. T!FailsForCause' /\ Awaited'
  BY <1>1 DEF TimesInv, T!FailsForCause, T!Late, Awaited
<1> QED
  BY <1>1, <1>3, <1>4, <1>5 DEF TimesInv, T!Never, T!Day, T!Minute, T!Second

LEMMA WishIsSound ==
  ASSUME NEW w \in Wanted, NEW s \in Wishes(w)
  PROVE  /\ s.field \in PeriodFields \union PollFields => s.value \in Nat
         /\ s.field = "poll_timeout" /\ "start_time" \in DOMAIN T!Builders[w.kind] =>
              \A l \in Latencies : l <= s.value
         /\ s.field = "validate_period_in_days" => s.days \in Nat /\ s.offset \in Nat
         /\ \E i \in DOMAIN w.sets : s = w.sets[i]
  BY TimesAssumption DEF Wishes

LEMMA SetKeepsTimes == TimesInv /\ T!Set => TimesInv'
<1> SUFFICES ASSUME TimesInv, T!Set PROVE TimesInv'
  OBVIOUS
<1>1. place = "set" /\ place' = "set" /\ UNCHANGED <<wanted, handed, from, chain, said>>
  BY DEF T!Set
<1>2. clock' \in Nat
  BY AfterSome, TimesAssumption DEF T!Set, TimesInv, TimesTypes
<1>3. TimesTypes'
  BY <1>1, <1>2 DEF TimesInv, TimesTypes
<1>4. BuilderFits'
  <2>1. BuilderFits
    BY <1>1 DEF TimesInv
  <2> DEFINE s == Head(setters)
             now == T!NowUnix
  <2>2. s \in Wishes(wanted) /\ setters' \in Seq(Wishes(wanted))
    BY <2>1 DEF BuilderFits, T!Set
  <2>3. PICK i \in DOMAIN wanted.sets : s = wanted.sets[i]
    BY <2>2, WishIsSound DEF TimesInv, TimesTypes
  <2>4. ~T!SetsPeriod => s.field \notin {"start_time", "end_time", "validate_period_in_days"}
    BY <2>3 DEF T!SetsPeriod
  <2>5. /\ s.field \in PeriodFields \union PollFields => s.value \in Nat
        /\ s.field = "poll_timeout" /\ "start_time" \in DOMAIN periods =>
             \A l \in Latencies : l <= s.value
        /\ s.field = "validate_period_in_days" => s.days \in Nat /\ s.offset \in Nat
    BY <2>1, <2>2, WishIsSound DEF TimesInv, TimesTypes, BuilderFits
  <2>6. now \in Nat
    BY WholeSeconds DEF TimesInv, TimesTypes
  <2>7. \/ /\ s.field = "validate_period_in_days" /\ T!Stakes
           /\ periods' = [periods EXCEPT !.start_time = now + s.offset * T!Second,
                                         !.end_time = now + s.days * T!Day]
        \/ s.field \in DOMAIN periods /\ periods' = [periods EXCEPT ![s.field] = s.value]
    BY DEF T!Set, T!validate_period_in_days
  <2>10. wanted' = wanted /\ (T!SetsPeriod)' = T!SetsPeriod
    BY DEF T!Set, T!SetsPeriod
  <2> HIDE DEF s, now
  <2>8. CASE /\ s.field = "validate_period_in_days" /\ T!Stakes
             /\ periods' = [periods EXCEPT !.start_time = now + s.offset * T!Second,
                                           !.end_time = now + s.days * T!Day]
    <3>1. now + s.offset * T!Second \in Nat /\ now + s.days * T!Day \in Nat
      BY <2>5, <2>6, <2>8 DEF T!Day, T!Minute, T!Second
    <3>2. DOMAIN periods' = DOMAIN periods
      BY <2>8
    <3>3. Sound(periods')
      BY <2>1, <2>8, <3>1 DEF Sound, BuilderFits, PollFields
    <3> QED
      BY <2>1, <2>2, <2>4, <2>8, <2>10, <3>2, <3>3 DEF BuilderFits, Wishes
  <2>9. CASE s.field \in DOMAIN periods /\ periods' = [periods EXCEPT ![s.field] = s.value]
    <3>2. DOMAIN periods' = DOMAIN periods
      BY <2>9
    <3>3. Sound(periods')
      BY <2>1, <2>5, <2>9 DEF Sound, BuilderFits, PollFields, PeriodFields
    <3>4. ~T!SetsPeriod /\ T!Stakes => periods'.end_time >= periods'.start_time + MinPeriod
      BY <2>1, <2>4, <2>9 DEF Sound, BuilderFits, T!Stakes
    <3> QED
      BY <2>1, <2>2, <2>10, <3>2, <3>3, <3>4 DEF BuilderFits, Wishes, T!Stakes
  <2> QED
    BY <2>7, <2>8, <2>9
<1>5. T!FailsForCause' /\ Awaited'
  BY <1>1 DEF TimesInv, T!FailsForCause, T!Late, Awaited
<1> QED
  BY <1>1, <1>3, <1>4, <1>5 DEF TimesInv, T!Never, T!Day, T!Minute, T!Second

\* What a step that leaves the builder alone keeps of it.
LEMMA BuilderStays ==
  ASSUME BuilderFits, UNCHANGED <<wanted, periods, setters>> PROVE BuilderFits'
  BY DEF BuilderFits, T!SetsPeriod, T!Stakes, Sound, Wishes

LEMMA BeginKeepsTimes == TimesInv /\ T!Begin => TimesInv'
<1> SUFFICES ASSUME TimesInv, T!Begin PROVE TimesInv'
  OBVIOUS
<1>1. place = "set" /\ UNCHANGED <<wanted, periods, setters, handed, from, chain>>
  BY DEF T!Begin
<1>2. clock' \in Nat /\ clock' >= clock
  BY AfterSome, TimesAssumption DEF T!Begin, TimesInv, TimesTypes
<1>3. \/ T!Stakes /\ T!IsValidator /\ place' = "said" /\ said' = "already"
      \/ place' = "issue" /\ said' = said
  BY DEF T!Begin, T!Return
<1>4. TimesTypes' /\ BuilderFits'
  BY <1>1, <1>2, BuilderStays DEF TimesInv, TimesTypes
<1>5. said' = "already" => T!IsAccepted'
  BY <1>1, <1>2, <1>3 DEF TimesInv, TimesTypes, T!IsAccepted, T!IsValidator
<1>6. T!FailsForCause' /\ Awaited'
  BY <1>1, <1>3, <1>5 DEF TimesInv, T!FailsForCause, T!Late, Awaited
<1> QED
  BY <1>1, <1>3, <1>4, <1>6 DEF TimesInv, T!Never, T!Day, T!Minute, T!Second

\* The node validates no sooner than the transaction is accepted.
LEMMA AcceptBounds ==
  ASSUME TimesInv, T!Accept, T!Stakes => periods.start_time \in Nat
  PROVE  /\ chain' \in [accepted : Nat, active : Nat]
         /\ chain'.accepted <= T!Never /\ chain'.accepted <= chain'.active
<1>1. PICK d \in Delays :
        LET when == T!Sooner(chain.accepted, clock + d) IN
        chain' = [accepted |-> when,
                  active |-> IF T!Stakes THEN T!Later(when, periods.start_time) ELSE T!Never]
  BY DEF T!Accept
<1>2. /\ d \in Nat /\ clock \in Nat /\ chain.accepted \in Nat
      /\ chain.accepted <= T!Never /\ T!Never \in Nat
  BY TimesAssumption DEF TimesInv, TimesTypes, T!Never, T!Day, T!Minute, T!Second
<1> DEFINE when == T!Sooner(chain.accepted, clock + d)
           active == IF T!Stakes THEN T!Later(when, periods.start_time) ELSE T!Never
<1>3. when \in Nat /\ when <= T!Never /\ active \in Nat /\ when <= active
  BY <1>2 DEF T!Sooner, T!Later
<1>4. chain' = [accepted |-> when, active |-> active]
  BY <1>1
<1> HIDE DEF when, active
<1> QED
  BY <1>3, <1>4

LEMMA IssueKeepsTimes == TimesInv /\ T!Issue => TimesInv'
<1> SUFFICES ASSUME TimesInv, T!Issue PROVE TimesInv'
  OBVIOUS
<1>1. place = "issue" /\ UNCHANGED <<wanted, periods, setters, from>>
  BY DEF T!Issue
<1>2. BuilderFits /\ BuilderFits'
  BY <1>1, BuilderStays DEF TimesInv
<1>3. said = "nothing"
  BY <1>1 DEF TimesInv
<1>4. CASE periods.dry_mode /\ T!Return("dry") /\ UNCHANGED <<clock, handed, chain>>
  BY <1>1, <1>2, <1>4
     DEF TimesInv, TimesTypes, T!Return, T!FailsForCause, T!Late, Awaited, T!Never, T!Day,
         T!Minute, T!Second
<1>5. CASE /\ T!Stakes /\ (T!IsAccepted \/ ~T!Takes(periods))
           /\ T!Return(IF T!IsAccepted THEN "already" ELSE "refused")
           /\ UNCHANGED <<clock, handed, chain>>
  <2>1. place' = "said" /\ said' = (IF T!IsAccepted THEN "already" ELSE "refused")
        /\ UNCHANGED <<clock, handed, chain>>
    BY <1>5 DEF T!Return
  <2>2. TimesTypes' /\ Awaited'
    BY <1>1, <2>1 DEF TimesInv, TimesTypes, Awaited
  <2>3. ~T!IsAccepted /\ ~T!SetsPeriod /\ wanted.kind # "add_subnet_validator" =>
          periods.start_time <= clock
    <3>1. /\ periods.start_time \in Nat /\ periods.end_time \in Nat /\ clock \in Nat
          /\ MinPeriod \in Nat
      BY <1>2, <1>5, TimesAssumption DEF BuilderFits, Sound, T!Stakes, TimesInv, TimesTypes
    <3>2. ~T!SetsPeriod => periods.end_time >= periods.start_time + MinPeriod
      BY <1>2, <1>5 DEF BuilderFits
    <3> QED
      BY <3>1, <3>2, <1>5 DEF T!Takes
  <2>4. T!FailsForCause'
    BY <1>1, <2>1, <2>3 DEF T!FailsForCause, T!Late, T!IsAccepted, T!SetsPeriod
  <2> QED
    BY <1>1, <1>2, <2>1, <2>2, <2>4 DEF TimesInv, T!Never, T!Day, T!Minute, T!Second
<1>6. CASE /\ T!Accept /\ handed' = clock
           /\ IF periods.check_acceptance
              THEN /\ place' = "wait" /\ clock' = clock + periods.poll_initial_wait
                   /\ UNCHANGED said
              ELSE T!Return("issued") /\ UNCHANGED clock
  <2>1. /\ chain' \in [accepted : Nat, active : Nat]
        /\ chain'.accepted <= T!Never /\ chain'.accepted <= chain'.active
    BY <1>2, <1>6, AcceptBounds DEF BuilderFits, Sound, T!Stakes
  <2>2. TimesTypes'
    BY <1>1, <1>2, <1>6, <2>1 DEF TimesInv, TimesTypes, BuilderFits, Sound, T!Return
  <2>3. \/ place' = "wait" /\ said' = "nothing" /\ clock' = handed' + periods'.poll_initial_wait
        \/ ~periods'.check_acceptance /\ place' = "said" /\ said' = "issued"
    BY <1>1, <1>3, <1>6 DEF T!Return
  <2>4. Awaited' /\ T!FailsForCause'
    BY <2>3 DEF Awaited, T!FailsForCause, T!Late
  <2> QED
    BY <1>2, <2>1, <2>2, <2>3, <2>4 DEF TimesInv, T!Never, T!Day, T!Minute, T!Second
<1> QED
  BY <1>4, <1>5, <1>6 DEF T!Issue

LEMMA StartPollingKeepsTimes == TimesInv /\ T!StartPolling => TimesInv'
<1> SUFFICES ASSUME TimesInv, T!StartPolling PROVE TimesInv'
  OBVIOUS
<1>1. /\ place = "wait" /\ from' = clock /\ place' = "status"
      /\ UNCHANGED <<wanted, clock, periods, setters, handed, chain, said>>
  BY DEF T!StartPolling
<1>2. BuilderFits /\ BuilderFits' /\ TimesTypes' /\ said' = "nothing"
  BY <1>1, BuilderStays DEF TimesInv, TimesTypes
<1>3. /\ clock = handed + periods.poll_initial_wait /\ clock \in Nat
      /\ periods.poll_timeout \in Nat /\ periods.poll_interval \in Nat
  BY <1>1, <1>2 DEF TimesInv, TimesTypes, Awaited, BuilderFits, Sound
<1>4. Awaited'
  BY <1>1, <1>3, LongestBounds DEF Awaited, InRound
<1>5. T!FailsForCause'
  BY <1>2 DEF T!FailsForCause, T!Late
<1> QED
  BY <1>1, <1>2, <1>4, <1>5 DEF TimesInv, T!Never, T!Day, T!Minute, T!Second

LEMMA RetryKeepsTimes == TimesInv /\ T!Retry => TimesInv'
<1> SUFFICES ASSUME TimesInv, T!Retry PROVE TimesInv'
  OBVIOUS
<1>1. /\ place = "said" /\ place' = "set" /\ said' = "nothing" /\ handed' = T!Never
      /\ UNCHANGED <<wanted, periods, setters, from, chain>>
  BY DEF T!Retry
<1>2. clock' \in Nat
  BY AfterSome, TimesAssumption DEF T!Retry, TimesInv, TimesTypes
<1>3. BuilderFits' /\ TimesTypes'
  BY <1>1, <1>2, BuilderStays
     DEF TimesInv, TimesTypes, T!Never, T!Day, T!Minute, T!Second
<1>4. T!FailsForCause' /\ Awaited'
  BY <1>1 DEF T!FailsForCause, T!Late, Awaited
<1> QED
  BY <1>1, <1>3, <1>4 DEF TimesInv, T!Never, T!Day, T!Minute, T!Second

\* The numbers of a state in one of the loops.
LEMMA LoopNumbers ==
  ASSUME TimesInv, place \in {"status", "validator"}
  PROVE  /\ clock \in Nat /\ from \in Nat /\ Longest \in Nat
         /\ chain.accepted \in Nat /\ chain.active \in Nat
         /\ chain.accepted <= chain.active
         /\ periods.poll_interval \in Nat /\ periods.poll_timeout \in Nat
         /\ clock <= from + periods.poll_timeout + Longest + periods.poll_interval
         /\ T!Deadline = from + periods.poll_timeout
         /\ T!Slack = periods.poll_interval + 2 * Longest
         /\ BuilderFits /\ said = "nothing"
<1>1. TimesTypes /\ BuilderFits /\ InRound
  BY DEF TimesInv, Awaited
<1>2. periods.poll_interval \in Nat /\ periods.poll_timeout \in Nat
      /\ periods.poll_initial_wait \in Nat
  BY <1>1 DEF BuilderFits, Sound
<1> QED
  BY <1>1, <1>2, LongestBounds DEF TimesTypes, InRound, TimesInv, T!Deadline

LEMMA PollStatusKeepsTimes == TimesInv /\ T!PollStatus => TimesInv'
<1> SUFFICES ASSUME TimesInv, T!PollStatus PROVE TimesInv'
  OBVIOUS
<1>1. /\ place = "status"
      /\ UNCHANGED <<wanted, periods, setters, handed, from, chain>>
  BY DEF T!PollStatus
<1> DEFINE interval == periods.poll_interval
           deadline == from + periods.poll_timeout
<1>2. /\ clock \in Nat /\ from \in Nat /\ Longest \in Nat
      /\ chain.accepted \in Nat /\ chain.active \in Nat
      /\ chain.accepted <= chain.active
      /\ interval \in Nat /\ deadline \in Nat /\ from <= deadline
      /\ clock <= deadline + Longest + interval
      /\ T!Deadline = deadline /\ T!Slack = interval + 2 * Longest
      /\ periods.poll_timeout \in Nat /\ BuilderFits /\ said = "nothing"
  BY <1>1, LoopNumbers
<1>3. clock = from \/ chain.accepted > clock - interval
  BY <1>1 DEF TimesInv, Awaited
<1>4. InRound
  BY <1>1 DEF TimesInv, Awaited
<1>5. T!Deadline' = T!Deadline /\ T!Slack' = T!Slack
  BY <1>1 DEF T!Deadline, T!Slack
<1>6. BuilderFits'
  BY <1>1, <1>2, BuilderStays DEF T!PollStatus
<1>7. CASE ~T!InTime /\ T!Return("not accepted in time") /\ UNCHANGED clock
  <2>1. clock > deadline
    <3>1. ~(clock - from <= periods.poll_timeout)
      BY <1>7 DEF T!InTime
    <3>2. clock \in Nat /\ from \in Nat /\ periods.poll_timeout \in Nat
      BY <1>2
    <3> QED
      BY <3>1, <3>2
  <2>2. chain.accepted > deadline - T!Slack /\ clock <= deadline + T!Slack
    BY <1>2, <1>3, <2>1
  <2>3. place' = "said" /\ said' = "not accepted in time" /\ UNCHANGED <<clock, chain>>
    BY <1>1, <1>7 DEF T!Return
  <2>4. T!FailsForCause' /\ Awaited'
    BY <1>2, <1>5, <2>1, <2>2, <2>3 DEF T!FailsForCause, T!Late, Awaited
  <2> QED
    BY <1>1, <1>6, <2>3, <2>4 DEF TimesInv, TimesTypes, T!Never, T!Day, T!Minute, T!Second
<1>8. CASE T!InTime /\ T!Round(chain.accepted,
                               IF T!Stakes THEN place' = "validator" /\ UNCHANGED said
                               ELSE T!Return("issued"))
  <2>1. clock <= deadline
    BY <1>2, <1>8 DEF T!InTime
  <2>2. PICK l \in Latencies :
          IF chain.accepted <= clock + l
          THEN /\ IF T!Stakes THEN place' = "validator" /\ UNCHANGED said
                  ELSE T!Return("issued")
               /\ clock' = clock + l
          ELSE clock' = clock + l + interval /\ UNCHANGED <<place, said>>
    BY <1>8 DEF T!Round
  <2>3. l \in Nat /\ l <= Longest
    BY LongestBounds
  <2>4. T!Stakes => l <= periods.poll_timeout
    BY <1>2 DEF BuilderFits, Sound, T!Stakes
  <2>5. clock' \in Nat /\ clock' <= deadline + Longest + interval
    BY <1>2, <2>1, <2>2, <2>3
  <2>6. TimesTypes'
    BY <1>1, <2>5 DEF TimesInv, TimesTypes
  <2>7. InRound'
    BY <1>1, <1>4, <2>5 DEF InRound
  <2>8. CASE chain.accepted > clock + l
    <3>1. clock' = clock + l + interval /\ place' = "status" /\ said' = "nothing"
      BY <1>1, <1>2, <2>2, <2>3, <2>8
    <3>2. chain.accepted > clock' - interval
      BY <1>2, <2>3, <2>8, <3>1
    <3>3. Awaited' /\ T!FailsForCause'
      BY <1>1, <2>7, <3>1, <3>2 DEF Awaited, T!FailsForCause, T!Late
    <3> QED
      BY <1>1, <1>6, <2>6, <3>1, <3>3 DEF TimesInv, T!Never, T!Day, T!Minute, T!Second
  <2>9. CASE chain.accepted <= clock + l /\ ~T!Stakes
    <3>1. clock' = clock + l /\ place' = "said" /\ said' = "issued" /\ ~T!Stakes'
      BY <1>1, <2>2, <2>9 DEF T!Return, T!Stakes
    <3>2. Awaited' /\ T!FailsForCause'
      BY <1>1, <2>9, <3>1 DEF Awaited, T!FailsForCause, T!Late, T!IsAccepted
    <3> QED
      BY <1>1, <1>6, <2>6, <3>1, <3>2 DEF TimesInv, T!Never, T!Day, T!Minute, T!Second
  <2>10. CASE chain.accepted <= clock + l /\ T!Stakes
    <3>1. clock' = clock + l /\ place' = "validator" /\ said' = "nothing" /\ T!Stakes'
      BY <1>1, <1>2, <2>2, <2>10 DEF T!Stakes
    <3>2. clock' <= deadline \/ chain.active > clock' - interval - Longest
      <4>1. /\ clock \in Nat /\ from \in Nat /\ l \in Nat /\ l <= Longest /\ Longest \in Nat
            /\ periods.poll_interval \in Nat /\ periods.poll_timeout \in Nat
            /\ chain.accepted \in Nat /\ chain.active \in Nat
            /\ chain.accepted <= chain.active
        BY <1>2, <2>3
      <4>2. CASE clock = from
        BY <2>4, <2>10, <3>1, <4>1, <4>2
      <4>3. CASE chain.accepted > clock - interval
        BY <3>1, <4>1, <4>3
      <4> QED
        BY <1>3, <4>2, <4>3
    <3>3. Awaited' /\ T!FailsForCause'
      BY <1>1, <2>7, <2>10, <3>1, <3>2 DEF Awaited, T!FailsForCause, T!Late
    <3> QED
      BY <1>1, <1>6, <2>6, <3>1, <3>3 DEF TimesInv, T!Never, T!Day, T!Minute, T!Second
  <2> QED
    BY <1>2, <2>3, <2>8, <2>9, <2>10
<1> QED
  BY <1>7, <1>8 DEF T!PollStatus

LEMMA PollValidatorKeepsTimes == TimesInv /\ T!PollValidator => TimesInv'
<1> SUFFICES ASSUME TimesInv, T!PollValidator PROVE TimesInv'
  OBVIOUS
<1>1. /\ place = "validator"
      /\ UNCHANGED <<wanted, periods, setters, handed, from, chain>>
  BY DEF T!PollValidator
<1> DEFINE interval == periods.poll_interval
           deadline == from + periods.poll_timeout
<1>2. /\ clock \in Nat /\ from \in Nat /\ Longest \in Nat
      /\ chain.accepted \in Nat /\ chain.active \in Nat
      /\ interval \in Nat /\ deadline \in Nat
      /\ clock <= deadline + Longest + interval
      /\ T!Deadline = deadline /\ T!Slack = interval + 2 * Longest
      /\ periods.poll_timeout \in Nat /\ BuilderFits /\ said = "nothing"
  BY <1>1, LoopNumbers
<1>3. /\ InRound /\ T!Stakes /\ T!Stakes' /\ chain.accepted <= clock
      /\ clock <= deadline \/ chain.active > clock - interval - Longest
  BY <1>1 DEF TimesInv, Awaited, T!Stakes
<1>5. T!Deadline' = T!Deadline /\ T!Slack' = T!Slack
  BY <1>1 DEF T!Deadline, T!Slack
<1>6. BuilderFits'
  BY <1>1, <1>2, BuilderStays DEF T!PollValidator
<1>7. CASE ~T!InTime /\ T!Return("not validating in time") /\ UNCHANGED clock
  <2>1. clock > deadline
    <3>1. ~(clock - from <= periods.poll_timeout)
      BY <1>7 DEF T!InTime
    <3>2. clock \in Nat /\ from \in Nat /\ periods.poll_timeout \in Nat
      BY <1>2
    <3> QED
      BY <3>1, <3>2
  <2>2. chain.active > deadline - T!Slack /\ clock <= deadline + T!Slack
    BY <1>2, <1>3, <2>1
  <2>3. place' = "said" /\ said' = "not validating in time" /\ UNCHANGED <<clock, chain>>
    BY <1>1, <1>7 DEF T!Return
  <2>4. T!FailsForCause' /\ Awaited'
    BY <1>2, <1>5, <2>1, <2>2, <2>3 DEF T!FailsForCause, T!Late, Awaited
  <2> QED
    BY <1>1, <1>6, <2>3, <2>4 DEF TimesInv, TimesTypes, T!Never, T!Day, T!Minute, T!Second
<1>8. CASE T!InTime /\ T!Round(chain.active, T!Return("issued"))
  <2>1. clock <= deadline
    BY <1>2, <1>8 DEF T!InTime
  <2>2. PICK l \in Latencies :
          IF chain.active <= clock + l
          THEN T!Return("issued") /\ clock' = clock + l
          ELSE clock' = clock + l + interval /\ UNCHANGED <<place, said>>
    BY <1>8 DEF T!Round
  <2>3. l \in Nat /\ l <= Longest
    BY LongestBounds
  <2>4. clock' \in Nat /\ clock' <= deadline + Longest + interval /\ chain.accepted <= clock'
    BY <1>2, <1>3, <2>1, <2>2, <2>3
  <2>5. TimesTypes' /\ InRound'
    BY <1>1, <1>3, <2>4 DEF TimesInv, TimesTypes, InRound
  <2>6. CASE chain.active > clock + l
    <3>1. clock' = clock + l + interval /\ place' = "validator" /\ said' = "nothing"
      BY <1>1, <1>2, <2>2, <2>3, <2>6
    <3>2. chain.active > clock' - interval - Longest
      BY <1>2, <2>3, <2>6, <3>1
    <3>3. Awaited' /\ T!FailsForCause'
      BY <1>1, <1>3, <2>4, <2>5, <3>1, <3>2 DEF Awaited, T!FailsForCause, T!Late
    <3> QED
      BY <1>1, <1>6, <2>5, <3>1, <3>3 DEF TimesInv, T!Never, T!Day, T!Minute, T!Second
  <2>7. CASE chain.active <= clock + l
    <3>1. clock' = clock + l /\ place' = "said" /\ said' = "issued"
      BY <1>1, <2>2, <2>7 DEF T!Return
    <3>2. Awaited' /\ T!FailsForCause'
      BY <1>1, <2>4, <2>7, <3>1
         DEF Awaited, T!FailsForCause, T!Late, T!IsAccepted, T!IsValidator
    <3> QED
      BY <1>1, <1>6, <2>5, <3>1, <3>2 DEF TimesInv, T!Never, T!Day, T!Minute, T!Second
  <2> QED
    BY <1>2, <2>3, <2>6, <2>7
<1> QED
  BY <1>7, <1>8 DEF T!PollValidator

LEMMA TimesStay == TimesInv /\ UNCHANGED timeVars => TimesInv'
<1> SUFFICES ASSUME TimesInv, UNCHANGED timeVars PROVE TimesInv'
  OBVIOUS
<1>1. UNCHANGED <<wanted, clock, periods, setters, place, handed, from, chain, said>>
  BY DEF timeVars
<1>2. place # "new" => BuilderFits'
  BY <1>1, BuilderStays DEF TimesInv
<1>3. T!FailsForCause'
  BY <1>1 DEF TimesInv, T!FailsForCause, T!IsAccepted, T!IsValidator, T!Stakes, T!Deadline,
      T!Slack, T!SetsPeriod
<1> QED
  BY <1>1, <1>2, <1>3 DEF TimesInv, TimesTypes, Awaited, InRound, T!Stakes, T!Never, T!Day,
     T!Minute, T!Second

\* FailsForCause, of the issue of every kind in wallet/p and wallet/x: what it ends
\* with is so, and it fails only for a cause outside of it, whatever the setters,
\* and however long calls, acceptance and the caller take.
THEOREM IssuesFailForCause == MCSpec => []FailsForCause
<1>1. MCInit => TimesInv
  BY TimesStart
<1>2. TimesInv /\ [MCNext]_allVars => TimesInv'
  <2> SUFFICES ASSUME TimesInv, [MCNext]_allVars PROVE TimesInv'
    OBVIOUS
  <2>1. T!Next \/ UNCHANGED timeVars
    BY DEF MCNext, allVars
  <2> QED
    BY <2>1, TimesStay, NewKeepsTimes, SetKeepsTimes, BeginKeepsTimes, IssueKeepsTimes,
       StartPollingKeepsTimes, PollStatusKeepsTimes, PollValidatorKeepsTimes,
       RetryKeepsTimes DEF T!Next
<1>3. TimesInv => FailsForCause
  BY DEF TimesInv, FailsForCause
<1> QED
  BY <1>1, <1>2, <1>3, PTL DEF MCSpec
=============================================================================
