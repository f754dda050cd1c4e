------------------------------- MODULE EvmTx -------------------------------
(***************************************************************************)
(* wallet/evm: how clones of one wallet submit EIP-1559 transactions to a  *)
(* chain with an EVM.  The clones share a middleware that remembers a      *)
(* nonce; a builder that has none takes that one, and keeps it.  A refused *)
(* transaction is sent once more by the middleware when the account's      *)
(* nonce turns out to be another.                                          *)
(*                                                                         *)
(* The recipient, the value and the data of a transaction are one thing,   *)
(* the order.  A transaction stands for its hash: two are the same exactly *)
(* when all their fields are.                                              *)
(***************************************************************************)
EXTENDS Integers, Sequences, SequencesExt

CONSTANTS
  Submitters, \* tasks with a builder each, made of clones of one wallet
  Settings,   \* the setters they may call on their builders, in turn
  Unset,      \* None
  Gas,        \* what the node may estimate
  Fee,        \* what it suggests for a fee that is not set
  MaxSubmits  \* how often one submits

VARIABLES
  builder,  \* Tx, of each submitter
  step,     \* where its submit is
  request,  \* the request it makes of the builder
  sent,     \* the transaction it signed last
  outcome,  \* what submit returned last
  dried,    \* the hash its last dry run returned
  submits,  \* how often it has submitted
  managed,  \* the nonce of the middleware, and whether it was fetched
  pool,     \* pending transactions of the account
  mined     \* its transactions in blocks; how many they are is its nonce

caller == <<builder, step, request, sent, outcome, dried, submits>>
vars == <<caller, managed, pool, mined>>

Urgent == 9
NoTx == [nonce |-> Unset, tip |-> Unset, cap |-> Unset, gas |-> Unset, order |-> Unset]

-----------------------------------------------------------------------------
(* The builder.                                                            *)

new ==
  [nonce |-> Unset, tip |-> Unset, cap |-> Unset, gas |-> Unset, order |-> Unset,
   check_receipt |-> FALSE, check_acceptance |-> FALSE, dry_mode |-> FALSE]

urgent(b) == [b EXCEPT !.tip = Urgent, !.cap = Urgent]

\* Asking for the acceptance asks for the receipt too; not asking for it does
\* not take that back.
check_acceptance(b, check) ==
  [b EXCEPT !.check_acceptance = check, !.check_receipt = @ \/ check]

Set(b, call) ==
  CASE call[1] = "urgent" -> urgent(b)
    [] call[1] = "check_acceptance" -> check_acceptance(b, call[2])
    [] OTHER -> [b EXCEPT ![call[1]] = call[2]]

Request(b, nonce) ==
  [nonce |-> nonce, tip |-> b.tip, cap |-> b.cap, gas |-> b.gas, order |-> b.order]

-----------------------------------------------------------------------------
(* The node.                                                               *)

Rival(t) == {o \in pool : o.nonce = t.nonce}

Refusal(t) ==
  CASE t.nonce < Len(mined) -> "nonce too low"
    [] t.nonce >= Len(mined) /\ t \in pool -> "already known"
    [] OTHER -> IF \A o \in Rival(t) : t.tip > o.tip /\ t.cap > o.cap
                THEN "none" ELSE "replacement transaction underpriced"

\* A transaction that pays more takes the place of the one with its nonce.
Take(t) == pool' = (pool \ Rival(t)) \union {t}

Mine ==
  /\ \E t \in pool :
       /\ t.nonce = Len(mined)
       /\ mined' = Append(mined, t) /\ pool' = pool \ {t}
  /\ UNCHANGED <<caller, managed>>

Drop ==
  /\ \E t \in pool : pool' = pool \ {t}
  /\ UNCHANGED <<caller, managed, mined>>

-----------------------------------------------------------------------------
End(c, ok, t, retryable) ==
  /\ outcome' = [outcome EXCEPT ![c] = [ok |-> ok, tx |-> t, retryable |-> retryable]]
  /\ step' = [step EXCEPT ![c] = "returned"]
Fails(c) == End(c, FALSE, NoTx, FALSE)
GoTo(c, s) == step' = [step EXCEPT ![c] = s] /\ UNCHANGED outcome

Retryable(reason) ==
  reason \in {"nonce too low", "replacement transaction underpriced", "dropped from mempool"}

\* The request is made of the builder with its nonce.
Begin(c, nonce) ==
  /\ request' = [request EXCEPT ![c] = Request(builder[c], nonce)]
  /\ GoTo(c, IF ~builder[c].dry_mode THEN "send"
             ELSE IF builder[c].gas = Unset THEN "estimate" ELSE "sign")

Submit(c) ==
  /\ step[c] = "idle" /\ submits[c] < MaxSubmits
  /\ submits' = [submits EXCEPT ![c] = @ + 1]
  /\ IF builder[c].nonce = Unset
     THEN GoTo(c, "nonce") /\ UNCHANGED request
     ELSE Begin(c, builder[c].nonce)
  /\ UNCHANGED <<builder, sent, dried, managed, pool, mined>>

\* initialize_nonce asks the node the first time only.
FetchNonce(c) ==
  LET nonce == IF managed.fetched THEN managed.nonce ELSE Len(mined) IN
  /\ step[c] = "nonce"
  /\ \/ /\ managed' = [fetched |-> TRUE, nonce |-> nonce]
        /\ builder' = [builder EXCEPT ![c].nonce = nonce]
        /\ Begin(c, nonce)
     \/ /\ ~managed.fetched
        /\ Fails(c) /\ UNCHANGED <<managed, builder, request>>
  /\ UNCHANGED <<sent, dried, submits, pool, mined>>

\* Mutant: the estimate goes into the request alone.
EstimateGas_NotKept(c) ==
  /\ step[c] = "estimate"
  /\ \/ /\ \E gas \in Gas : request' = [request EXCEPT ![c].gas = gas]
        /\ GoTo(c, "sign") /\ UNCHANGED builder
     \/ Fails(c) /\ UNCHANGED <<builder, request>>
  /\ UNCHANGED <<sent, dried, submits, managed, pool, mined>>

\* In dry mode the estimate is kept for the submit that is to follow.
EstimateGas(c) ==
  /\ step[c] = "estimate"
  /\ \/ /\ \E gas \in Gas :
             /\ builder' = [builder EXCEPT ![c].gas = gas]
             /\ request' = [request EXCEPT ![c].gas = gas]
        /\ GoTo(c, "sign")
     \/ Fails(c) /\ UNCHANGED <<builder, request>>
  /\ UNCHANGED <<sent, dried, submits, managed, pool, mined>>

SignDry(c) ==
  /\ step[c] = "sign"
  /\ \/ /\ End(c, TRUE, request[c], FALSE)
        /\ dried' = [dried EXCEPT ![c] = request[c]]
     \/ Fails(c) /\ UNCHANGED dried
  /\ UNCHANGED <<builder, request, sent, submits, managed, pool, mined>>

\* What the middleware signs: the node is asked for whatever is not set.
Or(field, suggested) == IF field = Unset THEN suggested ELSE field
Filled(r, gas) ==
  [r EXCEPT !.tip = Or(@, Fee), !.cap = Or(@, Fee), !.gas = Or(@, gas)]

\* Mutant: only who asks for acceptance waits for the receipt.
Sent_NoReceipt(c, t) ==
  IF builder[c].check_acceptance THEN GoTo(c, "receipt") ELSE End(c, TRUE, t, FALSE)

Sent(c, t) ==
  IF builder[c].check_receipt THEN GoTo(c, "receipt") ELSE End(c, TRUE, t, FALSE)

\* The node takes the transaction, and its answer may be lost.
Taken(c, t) ==
  /\ Refusal(t) = "none" /\ Take(t)
  /\ sent' = [sent EXCEPT ![c] = t]

Send(c) ==
  /\ step[c] = "send"
  /\ \E gas \in Gas : LET t == Filled(request[c], gas) IN
       \/ Taken(c, t) /\ Sent(c, t)
       \/ Taken(c, t) /\ GoTo(c, "other")
       \/ /\ Refusal(t) # "none" /\ GoTo(c, Refusal(t))
          /\ UNCHANGED <<sent, pool>>
  /\ UNCHANGED <<builder, request, dried, submits, managed, mined>>

\* The gas cannot be estimated, the key does not sign, or nothing arrives.
SendFails(c) ==
  /\ step[c] = "send" /\ GoTo(c, "other")
  /\ UNCHANGED <<builder, request, sent, dried, submits, managed, pool, mined>>

Reasons == {"nonce too low", "already known", "replacement transaction underpriced", "other"}

\* send_transaction of the middleware failed: it asks the node for the nonce and,
\* if it is not the one it remembers, sends the request with it.
Recount(c) ==
  /\ step[c] \in Reasons
  /\ \/ /\ Len(mined) # managed.nonce
        /\ managed' = [managed EXCEPT !.nonce = Len(mined)]
        /\ request' = [request EXCEPT ![c].nonce = Len(mined)]
        /\ GoTo(c, "resend")
     \/ /\ Len(mined) = managed.nonce
        /\ End(c, FALSE, NoTx, Retryable(step[c])) /\ UNCHANGED <<managed, request>>
     \/ Fails(c) /\ UNCHANGED <<managed, request>>
  /\ UNCHANGED <<builder, sent, dried, submits, pool, mined>>

Resend(c) ==
  /\ step[c] = "resend"
  /\ \E gas \in Gas : LET t == Filled(request[c], gas) IN
       \/ Taken(c, t) /\ Sent(c, t)
       \/ Taken(c, t) /\ Fails(c)
       \/ /\ End(c, FALSE, NoTx, Retryable(Refusal(t))) /\ Refusal(t) # "none"
          /\ UNCHANGED <<sent, pool>>
  /\ UNCHANGED <<builder, request, dried, submits, managed, mined>>

\* pending_tx: waits as long as the transaction is in the pool, for ever if it
\* stays there.
AwaitReceipt(c) ==
  /\ step[c] = "receipt"
  /\ \/ /\ sent[c] \in Range(mined)
        /\ IF builder[c].check_acceptance THEN GoTo(c, "lookup")
           ELSE End(c, TRUE, sent[c], FALSE)
     \/ sent[c] \notin Range(mined) \union pool /\ End(c, FALSE, NoTx, TRUE)
     \/ Fails(c)
  /\ UNCHANGED <<builder, request, sent, dried, submits, managed, pool, mined>>

\* get_transaction may find none, or another than the one asked for.
LookUp(c) ==
  /\ step[c] = "lookup"
  /\ \/ \E t \in Range(mined) : End(c, t = sent[c], IF t = sent[c] THEN t ELSE NoTx, FALSE)
     \/ End(c, FALSE, NoTx, TRUE)
     \/ Fails(c)
  /\ UNCHANGED <<builder, request, sent, dried, submits, managed, pool, mined>>

\* The submitter tries again where it is told it may, and for real after a dry
\* run.
Again(c) ==
  /\ step[c] = "returned" /\ submits[c] < MaxSubmits
  /\ \/ outcome[c].retryable /\ UNCHANGED builder
     \/ /\ outcome[c].ok /\ builder[c].dry_mode
        /\ builder' = [builder EXCEPT ![c] = Set(@, <<"dry_mode", FALSE>>)]
  /\ GoTo(c, "idle")
  /\ UNCHANGED <<request, sent, dried, submits, managed, pool, mined>>

-----------------------------------------------------------------------------
NoOutcome == [ok |-> FALSE, tx |-> NoTx, retryable |-> FALSE]

\* The builders after the setters they are given.
Built(calls) == [c \in Submitters |-> FoldLeft(Set, new, calls[c])]

Init ==
  /\ \E calls \in Settings : builder = Built(calls)
  /\ step = [c \in Submitters |-> "idle"] /\ outcome = [c \in Submitters |-> NoOutcome]
  /\ request = [c \in Submitters |-> NoTx] /\ sent = [c \in Submitters |-> NoTx]
  /\ dried = [c \in Submitters |-> NoTx] /\ submits = [c \in Submitters |-> 0]
  /\ managed = [fetched |-> FALSE, nonce |-> 0]
  /\ pool = {} /\ mined = <<>>

Step(c) ==
  \/ Submit(c) \/ FetchNonce(c) \/ EstimateGas(c) \/ SignDry(c) \/ Send(c) \/ SendFails(c)
  \/ Recount(c) \/ Resend(c) \/ AwaitReceipt(c) \/ LookUp(c) \/ Again(c)

Next == Mine \/ Drop \/ \E c \in Submitters : Step(c)

Spec == Init /\ [][Next]_vars

-----------------------------------------------------------------------------
Told(c) == step[c] = "returned" /\ outcome[c].ok

\* The transaction is one the builder describes; the middleware may have given
\* it another nonce.
Describes(b, t) ==
  /\ t.order = b.order
  /\ b.tip \in {Unset, t.tip} /\ b.cap \in {Unset, t.cap} /\ b.gas \in {Unset, t.gas}

Checked(c) == Told(c) /\ ~builder[c].dry_mode /\ builder[c].check_receipt

\* A submit that was to check the receipt returns the hash of a transaction in
\* a block which is what its builder describes, and no two submitters are told
\* of the same one.
ReceiptIsOnChain ==
  \A c \in Submitters : Checked(c) =>
    /\ outcome[c].tx \in Range(mined) /\ Describes(builder[c], outcome[c].tx)
    /\ \A d \in Submitters \ {c} : Checked(d) => outcome[d].tx # outcome[c].tx

\* Where the fees are set and no one else has used the nonce, the hash of a dry
\* run is the one of the submit that follows.
DryHashIsTrue ==
  \A c \in Submitters :
    /\ Told(c) /\ ~builder[c].dry_mode /\ dried[c] # NoTx
    /\ builder[c].tip # Unset /\ builder[c].cap # Unset
    /\ outcome[c].tx.nonce = dried[c].nonce
    => outcome[c].tx = dried[c]
=============================================================================
