----------------------------- MODULE WalletIssue -----------------------------
(***************************************************************************)
(* How a wallet issues a transaction: the issue methods of the P-chain and *)
(* of the X-chain wallet.  Clones of a wallet share the cursor that goes   *)
(* round the endpoints; each issue picks an endpoint to hand the           *)
(* transaction to and to ask for its status, but what it looks up before   *)
(* (the validators, the balance, on the P-chain also the UTXOs) it asks of *)
(* whatever endpoint is next.  Endpoints are nodes that know a prefix of   *)
(* what the chain has accepted.                                            *)
(*                                                                         *)
(* Which UTXOs a transaction consumes is the subject of WalletSpend: here  *)
(* it is one of those listed, or all of them for an import, and none where *)
(* an X-chain transfer finds none.  One chain is modelled at a time, as no *)
(* issue looks at two.                                                     *)
(***************************************************************************)
EXTENDS Integers, Sequences, FiniteSets, SequencesExt

CONSTANTS
  NumUrls,     \* how many endpoints the wallet has
  Callers,     \* tasks that issue a transaction each, with clones of one wallet
  Utxos,       \* the outputs the key owns at first
  PollTimeout, \* poll_timeout, in poll intervals
  Requests     \* what the callers may issue: of each the kind, dry_mode,
               \* check_acceptance, and how often it tries when told it may retry

ASSUME WalletIssueAssumption ==
  /\ NumUrls \in Nat \ {0} /\ PollTimeout \in Nat

Urls == 0..(NumUrls - 1)

VARIABLES
  request,  \* of each caller
  cursor,   \* base_http_url_cursor, shared by all clones
  at,       \* the place of each caller in the steps of its issue
  picked,   \* picked_http_rpc
  tx,       \* the transaction the caller has built
  elapsed,  \* since polling started, in poll intervals
  result,   \* what issue has returned, Running until then
  attempt,  \* how often the caller has issued
  accepted, \* what the chain has accepted, in order: transactions, and the set of
            \* validators the node has become active in
  seen,     \* how much of it each endpoint knows
  mempool   \* transactions an endpoint has taken and not seen the end of

local == <<at, picked, tx, elapsed, result, attempt>>
nodes == <<accepted, seen, mempool>>
vars == <<request, cursor, local, nodes>>

NoTx == [by |-> "nobody", kind |-> "none", ins |-> {}]
Running == [end |-> "running", tx |-> NoTx, issued |-> FALSE, retryable |-> FALSE]

-----------------------------------------------------------------------------
(* What each issue method does, in its order.  "validator?" asks whether   *)
(* the node is a validator already, "utxos" takes the next endpoint and    *)
(* "own_utxos" the picked one, "status" and "validator" poll.              *)

add_validator ==
  <<"pick", "validator?", "balance", "utxos", "sign", "issue", "status", "validator">>
add_permissionless_validator ==
  <<"pick", "validator?", "balance", "utxos", "sign", "issue", "status", "validator">>
add_subnet_validator ==
  <<"pick", "validator?", "balance", "utxos", "authorize", "sign", "issue", "status", "validator">>
create_subnet == <<"pick", "utxos", "sign", "issue", "status">>
create_chain  == <<"pick", "utxos", "authorize", "sign", "issue", "status">>
export        == <<"pick", "utxos", "sign", "issue", "status">>
import        == <<"pick", "own_utxos", "sign", "issue", "status">>
transfer      == <<"pick", "own_utxos", "sign", "issue", "status">>
export_x      == <<"pick", "own_utxos", "sign", "issue", "status">>
import_x      == <<"pick", "own_utxos", "sign", "issue", "status">>

Issues ==
  [add_validator |-> add_validator,
   add_permissionless_validator |-> add_permissionless_validator,
   add_subnet_validator |-> add_subnet_validator,
   create_subnet |-> create_subnet, create_chain |-> create_chain,
   export |-> export, import |-> import,
   transfer |-> transfer, export_x |-> export_x, import_x |-> import_x]

ASSUME RequestsAssumption ==
  Requests \subseteq
    [Callers -> [kind : DOMAIN Issues, dry : BOOLEAN, check : BOOLEAN, attempts : Nat]]

XKinds == {"transfer", "export_x", "import_x"}
Staking == {"add_validator", "add_permissionless_validator", "add_subnet_validator"}
Imports == {"import", "import_x"}

\* All callers speak of one node, and it may validate two networks.
NetOf(kind) == IF kind = "add_subnet_validator" THEN "subnet" ELSE "primary"

Kind(c) == request[c].kind
Steps(c) == Issues[Kind(c)]
AtStep(c, step) == result[c] = Running /\ Steps(c)[at[c]] = step

-----------------------------------------------------------------------------
(* What an endpoint knows.                                                 *)

Known(u) == SubSeq(accepted, 1, seen[u])
Txs(s) == {s[i].tx : i \in DOMAIN s} \ {NoTx}
Spent(s) == UNION {t.ins : t \in Txs(s)}

\* platform.getUTXOs, avm.getUTXOs and the balance.
Listed(u) == Utxos \ Spent(Known(u))
\* platform.getCurrentValidators: the node is there once its time has come.
IsValidator(s, kind) == \E i \in DOMAIN s : s[i].active = NetOf(kind)
\* What the node is to be, which is what refuses another transaction for it.
WillValidate(s, kind) == \E t \in Txs(s) : t.kind \in Staking /\ NetOf(t.kind) = NetOf(kind)
\* platform.getTxStatus and avm.getTxStatus answer that it is accepted.
Committed(u, t) == t \in Txs(Known(u))

\* Whether an endpoint takes a transaction.
Duplicate(u, t) == t.kind \in Staking /\ WillValidate(Known(u), t.kind)
Takes(u, t) ==
  \/ t \in mempool[u]
  \/ /\ t.ins # {} /\ t.ins \subseteq Listed(u) /\ ~Duplicate(u, t)
     /\ \A o \in mempool[u] : o.ins \intersect t.ins = {}

-----------------------------------------------------------------------------
End(c, end, t, issued, retryable) ==
  result' = [result EXCEPT ![c] = [end |-> end, tx |-> t, issued |-> issued,
                                   retryable |-> retryable]]

\* The step is done: the next one, or the end if it was the last.
Advance(c) ==
  IF at[c] = Len(Steps(c))
  THEN End(c, "ok", tx[c], TRUE, FALSE) /\ UNCHANGED at
  ELSE at' = [at EXCEPT ![c] = @ + 1] /\ UNCHANGED result

\* Under the lock of the cursor.
pick_base_http_url == cursor' = (cursor + 1) % NumUrls

Pick(c) ==
  /\ AtStep(c, "pick")
  /\ picked' = [picked EXCEPT ![c] = cursor] /\ pick_base_http_url
  /\ Advance(c)
  /\ UNCHANGED <<request, tx, elapsed, attempt, nodes>>

\* is_primary_network_validator or is_subnet_validator.
AskValidator(c) ==
  /\ AtStep(c, "validator?")
  /\ pick_base_http_url
  /\ IF IsValidator(Known(cursor), Kind(c))
     THEN End(c, "ok", NoTx, FALSE, FALSE) /\ UNCHANGED at
     ELSE Advance(c)
  /\ UNCHANGED <<request, picked, tx, elapsed, attempt, nodes>>

AskBalance(c) ==
  /\ AtStep(c, "balance")
  /\ pick_base_http_url
  /\ IF Listed(cursor) = {}
     THEN End(c, "err", NoTx, FALSE, FALSE) /\ UNCHANGED at
     ELSE Advance(c)
  /\ UNCHANGED <<request, picked, tx, elapsed, attempt, nodes>>

\* The inputs are chosen from what the endpoint lists.
Build(c, listed) ==
  \/ /\ listed = {} /\ Kind(c) \notin XKinds \ Imports
     /\ End(c, "err", NoTx, FALSE, FALSE) /\ UNCHANGED <<at, tx>>
  \/ /\ listed # {} \/ Kind(c) \in XKinds \ Imports
     /\ \E ins \in IF Kind(c) \in Imports \/ listed = {} THEN {listed}
                   ELSE {{u} : u \in listed} :
          tx' = [tx EXCEPT ![c] = [by |-> c, kind |-> Kind(c), ins |-> ins]]
     /\ Advance(c)

AskUtxos(c) ==
  /\ AtStep(c, "utxos")
  /\ pick_base_http_url
  /\ Build(c, Listed(cursor))
  /\ UNCHANGED <<request, picked, elapsed, attempt, nodes>>

AskOwnUtxos(c) ==
  /\ AtStep(c, "own_utxos")
  /\ Build(c, Listed(picked[c]))
  /\ UNCHANGED <<request, cursor, picked, elapsed, attempt, nodes>>

\* authorize: the owners of the subnet may be unknown, or others.
Authorize(c) ==
  /\ AtStep(c, "authorize")
  /\ pick_base_http_url
  /\ \/ Advance(c)
     \/ End(c, "err", NoTx, FALSE, FALSE) /\ UNCHANGED at
  /\ UNCHANGED <<request, picked, tx, elapsed, attempt, nodes>>

\* A key in a KMS may fail to sign, and says whether to try again.
Sign(c) ==
  /\ AtStep(c, "sign")
  /\ \/ \E retryable \in BOOLEAN : End(c, "err", NoTx, FALSE, retryable) /\ UNCHANGED at
     \/ request[c].dry /\ End(c, "ok", tx[c], FALSE, FALSE) /\ UNCHANGED at
     \/ ~request[c].dry /\ Advance(c)
  /\ UNCHANGED <<request, cursor, picked, tx, elapsed, attempt, nodes>>

\* The message tells a duplicate, which only the staking issues look for.
Refused(c) ==
  IF Duplicate(picked[c], tx[c])
  THEN End(c, "ok", NoTx, FALSE, FALSE) ELSE End(c, "err", NoTx, FALSE, FALSE)

Take(u, t) == mempool' = [mempool EXCEPT ![u] = @ \union {t}]

\* issue_tx at the endpoint picked first.
Issue(c) ==
  LET u == picked[c] IN
  /\ AtStep(c, "issue")
  /\ \/ /\ Takes(u, tx[c]) /\ Take(u, tx[c])
        /\ IF request[c].check THEN Advance(c) /\ elapsed' = [elapsed EXCEPT ![c] = 0]
           ELSE End(c, "ok", tx[c], TRUE, FALSE) /\ UNCHANGED <<at, elapsed>>
     \/ ~Takes(u, tx[c]) /\ Refused(c) /\ UNCHANGED <<at, elapsed, mempool>>
  /\ UNCHANGED <<request, cursor, picked, tx, attempt, accepted, seen>>

\* The transaction arrives and the answer is lost: not retryable.
IssueUnanswered(c) ==
  /\ AtStep(c, "issue") /\ Takes(picked[c], tx[c]) /\ Take(picked[c], tx[c])
  /\ End(c, "err", NoTx, FALSE, FALSE)
  /\ UNCHANGED <<request, cursor, at, picked, tx, elapsed, attempt, accepted, seen>>

\* Mutant: whatever the endpoint still has counts.
PollStatus_InMempool(c) ==
  /\ AtStep(c, "status")
  /\ \/ /\ elapsed[c] > PollTimeout
        /\ End(c, "err", NoTx, FALSE, TRUE) /\ UNCHANGED <<at, elapsed>>
     \/ /\ elapsed[c] <= PollTimeout
        /\ IF tx[c] \in mempool[picked[c]] \/ Committed(picked[c], tx[c])
           THEN Advance(c) /\ UNCHANGED elapsed
           ELSE elapsed' = [elapsed EXCEPT ![c] = @ + 1] /\ UNCHANGED <<at, result>>
  /\ UNCHANGED <<request, cursor, picked, tx, attempt, nodes>>

\* Mutant: when time is up the transaction is taken to be accepted.
PollStatus_TimeIsUp(c) ==
  /\ AtStep(c, "status")
  /\ \/ elapsed[c] > PollTimeout /\ Advance(c) /\ UNCHANGED elapsed
     \/ /\ elapsed[c] <= PollTimeout
        /\ IF Committed(picked[c], tx[c])
           THEN Advance(c) /\ UNCHANGED elapsed
           ELSE elapsed' = [elapsed EXCEPT ![c] = @ + 1] /\ UNCHANGED <<at, result>>
  /\ UNCHANGED <<request, cursor, picked, tx, attempt, nodes>>

\* Mutant: the clock is started anew in every round of the loop.
PollStatus_Restarts(c) ==
  /\ AtStep(c, "status")
  /\ \/ /\ elapsed[c] > PollTimeout
        /\ End(c, "err", NoTx, FALSE, TRUE) /\ UNCHANGED <<at, elapsed>>
     \/ /\ elapsed[c] <= PollTimeout
        /\ IF Committed(picked[c], tx[c])
           THEN Advance(c) /\ UNCHANGED elapsed
           ELSE elapsed' = [elapsed EXCEPT ![c] = 1 - @] /\ UNCHANGED <<at, result>>
  /\ UNCHANGED <<request, cursor, picked, tx, attempt, nodes>>

\* get_tx_status at the endpoint picked first, once per poll_interval.
PollStatus(c) ==
  /\ AtStep(c, "status")
  /\ \/ /\ elapsed[c] > PollTimeout
        /\ End(c, "err", NoTx, FALSE, TRUE) /\ UNCHANGED <<at, elapsed>>
     \/ /\ elapsed[c] <= PollTimeout
        /\ IF Committed(picked[c], tx[c])
           THEN Advance(c) /\ UNCHANGED elapsed
           ELSE elapsed' = [elapsed EXCEPT ![c] = @ + 1] /\ UNCHANGED <<at, result>>
  /\ UNCHANGED <<request, cursor, picked, tx, attempt, nodes>>

\* The clock of the first loop goes on in the second, which asks all
\* endpoints in turn.
PollValidator(c) ==
  /\ AtStep(c, "validator")
  /\ \/ /\ elapsed[c] > PollTimeout
        /\ End(c, "err", NoTx, FALSE, TRUE) /\ UNCHANGED <<at, cursor, elapsed>>
     \/ /\ elapsed[c] <= PollTimeout /\ pick_base_http_url
        /\ IF IsValidator(Known(cursor), Kind(c))
           THEN Advance(c) /\ UNCHANGED elapsed
           ELSE elapsed' = [elapsed EXCEPT ![c] = @ + 1] /\ UNCHANGED <<at, result>>
  /\ UNCHANGED <<request, picked, tx, attempt, nodes>>

Asking == {"validator?", "balance", "utxos", "own_utxos", "authorize", "issue", "status",
           "validator"}
FromNext == {"validator?", "balance", "utxos", "authorize", "validator"}

\* A call does not arrive, or not in the 15 seconds it is given: the error is not
\* retryable.  Or the endpoint answers an error and the result it lacks is
\* unwrapped; authorize and issue look first.
CallFails(c) ==
  /\ \E step \in Asking :
       /\ AtStep(c, step)
       /\ step \in {"status", "validator"} => elapsed[c] <= PollTimeout
       /\ IF step \in FromNext THEN pick_base_http_url ELSE UNCHANGED cursor
       /\ \/ End(c, "err", NoTx, FALSE, FALSE)
          \/ step \notin {"authorize", "issue"} /\ End(c, "panic", NoTx, FALSE, FALSE)
  /\ UNCHANGED <<request, at, picked, tx, elapsed, attempt, nodes>>

\* A caller that is told it may retry issues the same again.
Retry(c) ==
  /\ result[c].retryable /\ attempt[c] < request[c].attempts
  /\ result' = [result EXCEPT ![c] = Running]
  /\ at' = [at EXCEPT ![c] = 1] /\ tx' = [tx EXCEPT ![c] = NoTx]
  /\ attempt' = [attempt EXCEPT ![c] = @ + 1]
  /\ UNCHANGED <<request, cursor, picked, elapsed, nodes>>

-----------------------------------------------------------------------------
(* The network.                                                            *)

Accept(t) ==
  /\ \E u \in Urls : t \in mempool[u]
  /\ t.ins \intersect Spent(accepted) = {}
  /\ ~(t.kind \in Staking /\ WillValidate(accepted, t.kind))
  /\ accepted' = Append(accepted, [tx |-> t, active |-> "none"])
  /\ UNCHANGED <<request, cursor, local, seen, mempool>>

Activate(kind) ==
  /\ WillValidate(accepted, kind) /\ ~IsValidator(accepted, kind)
  /\ accepted' = Append(accepted, [tx |-> NoTx, active |-> NetOf(kind)])
  /\ UNCHANGED <<request, cursor, local, seen, mempool>>

\* A node learns the next thing accepted, and forgets what cannot be any more.
CatchUp(u) ==
  /\ seen[u] < Len(accepted)
  /\ seen' = [seen EXCEPT ![u] = @ + 1]
  /\ mempool' = [mempool EXCEPT ![u] =
       {t \in @ : t.ins \intersect Spent(SubSeq(accepted, 1, seen[u] + 1)) = {}}]
  /\ UNCHANGED <<request, cursor, local, accepted>>

Drop(u) ==
  /\ \E t \in mempool[u] : mempool' = [mempool EXCEPT ![u] = @ \ {t}]
  /\ UNCHANGED <<request, cursor, local, accepted, seen>>

Network ==
  \/ \E kind \in Staking : Activate(kind)
  \/ \E u \in Urls : CatchUp(u) \/ Drop(u)
  \/ \E t \in UNION {mempool[u] : u \in Urls} : Accept(t)

-----------------------------------------------------------------------------
Init ==
  /\ request \in Requests
  /\ cursor = 0
  /\ at = [c \in Callers |-> 1] /\ picked = [c \in Callers |-> 0]
  /\ tx = [c \in Callers |-> NoTx] /\ elapsed = [c \in Callers |-> 0]
  /\ result = [c \in Callers |-> Running] /\ attempt = [c \in Callers |-> 1]
  /\ accepted = <<>> /\ seen = [u \in Urls |-> 0] /\ mempool = [u \in Urls |-> {}]

Step(c) ==
  \/ Pick(c) \/ AskValidator(c) \/ AskBalance(c) \/ AskUtxos(c) \/ AskOwnUtxos(c)
  \/ Authorize(c) \/ Sign(c) \/ Issue(c) \/ IssueUnanswered(c)
  \/ PollStatus(c) \/ PollValidator(c) \/ CallFails(c)

Next == Network \/ \E c \in Callers : Step(c) \/ Retry(c)

\* A task that can go on is run again, every call ends within its 15 seconds and
\* every sleep ends.  Of the network nothing is assumed.
Fairness == \A c \in Callers : WF_vars(Step(c))

Spec == Init /\ [][Next]_vars /\ Fairness

-----------------------------------------------------------------------------
Ended(c) == result[c].end # "running"
Confirmed(c) == result[c].end = "ok" /\ result[c].issued /\ request[c].check

\* What issue returns is so, whatever of it other endpoints know: a transaction
\* it has issued and checked is accepted, and one that stakes has made the node a
\* validator; where it answers, by an empty Id and false, that the node is a
\* validator already, a transaction that makes it one is accepted.
ReportedIsAccepted ==
  \A c \in Callers :
    /\ Confirmed(c) => /\ result[c].tx \in Txs(accepted)
                       /\ Kind(c) \in Staking => IsValidator(accepted, Kind(c))
    /\ result[c].end = "ok" /\ result[c].tx = NoTx => WillValidate(accepted, Kind(c))

\* Two clones of a wallet list the same UTXOs and may both consume one: at most
\* one of the two is told that its transaction went through.
LoserIsTold ==
  \A c, d \in Callers :
    Confirmed(c) /\ Confirmed(d) /\ c # d => result[c].tx.ins \intersect result[d].tx.ins = {}

\* Every issue returns, whatever the endpoints and the network do.
EveryIssueEnds == \A c \in Callers : []<>Ended(c)
=============================================================================
