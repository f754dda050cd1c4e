------------------------------ MODULE Signing -------------------------------
(***************************************************************************)
(* The secp256k1 signers: key/secp256k1/private_key.rs, libsecp256k1.rs    *)
(* and kms/aws, whose key never leaves the service; the signatures they    *)
(* make and what is read from one; and evm/eip1559, which signs a          *)
(* transaction offline and reads one that was signed.                      *)
(*                                                                         *)
(* Curve arithmetic is symbolic.  A signature says which key made it of    *)
(* which digest, in which half of the order its s is, and which recovery   *)
(* id leads back to the key; the mirror image of s belongs to the other    *)
(* id.  Any other id or digest leads to a key nobody has.                  *)
(***************************************************************************)
EXTENDS Naturals

CONSTANTS
  Keys,          \* secret scalars
  Messages,      \* what is signed, hashed by its kind
  Networks,      \* chain ids
  RetryTimeout   \* of a KMS key, in retry intervals

VARIABLES
  kind,    \* "hot", "lib" or "kms": which signer this is
  stage,   \* "new", "described", "ready", "signing", "done" or "failed"
  key,     \* of the signer; a key that has none is "none"
  held,    \* keys in the service, with those scheduled to be deleted
  chain,   \* the chain id of the signer
  call,    \* the call under way: what is signed, and the digest of it
  elapsed, \* since the call began
  answer,  \* the last answer of the service
  out      \* what the call returned

vars == <<kind, stage, key, held, chain, call, elapsed, answer, out>>

-----------------------------------------------------------------------------
(* Signatures.                                                             *)

Ecdsa(k, d, s, id) == [by |-> k, of |-> d, s |-> s, id |-> id]

normalize_s(sig) == IF sig.s = "high" THEN Ecdsa(sig.by, sig.of, "low", 1 - sig.id) ELSE sig

\* A high s is refused, and so are, in all but one of 2^128 cases, ids above 1.
recover_from_prehash(digest, sig, id) ==
  IF sig.s = "high" \/ id > 1 THEN "error"
  ELSE IF digest = sig.of /\ id = sig.id THEN sig.by
  ELSE "nobody's"

\* Mutant: an s in the upper half stays there.
decode_signature_AsIs(der) == der

decode_signature(der) == normalize_s(der)

\* The ids that lead from the signature to the key.
trial_recovery(sig, digest, k) ==
  {id \in 0..3 : recover_from_prehash(digest, sig, id) = k}

\* Sig::from_bytes of 65 bytes, the last of which is v, may fail.
from_bytes(b) == b.v \in 0..3

from_signature(digest, b) ==
  IF from_bytes(b) THEN recover_from_prehash(digest, b.sig, b.v) ELSE "error"

\* The recovered key verifies what it was recovered from.
verify(k, digest, b) ==
  LET recovered == from_signature(digest, b)
  IN IF recovered = "error" THEN "error" ELSE IF recovered = k THEN "yes" ELSE "no"

apply_eip155(v, chain_id) == chain_id * 2 + 35 + v

\* What ethers makes of v: the recovery id, from either of the forms.
recovery_id(v) == CASE v \in {0, 1} -> v [] v \in {27, 28} -> v - 27 [] v >= 35 -> (v - 1) % 2 [] OTHER -> 4
eth_recover(digest, b) == recover_from_prehash(digest, b.sig, recovery_id(b.v))

-----------------------------------------------------------------------------
(* Transactions signed offline.  A field that is not set is left to be zero; *)
(* from is not in what is signed nor in what is sent.                        *)

Fields == {"signer_nonce", "max_priority_fee_per_gas", "max_fee_per_gas", "gas_limit",
           "recipient", "value", "data"}

Transaction(c, from, set) == [chain_id |-> c, from |-> from, set |-> set]

Encoded(tx) == [chain_id |-> tx.chain_id, set |-> tx.set]
sighash(tx) == <<"eip1559", Encoded(tx)>>

rlp_signed(tx, b) ==
  [tx |-> Encoded(tx), sig |-> b.sig,
   v |-> IF b.v > 1 THEN b.v - (tx.chain_id * 2 + 35) ELSE b.v]

\* The sender comes from the signature.
decode_signed_rlp(bytes) ==
  LET from == eth_recover(<<"eip1559", bytes.tx>>, bytes)
  IN [ok |-> from # "error", tx |-> Transaction(bytes.tx.chain_id, from, bytes.tx.set)]

decode_and_verify_signed_rlp(bytes) ==
  LET d == decode_signed_rlp(bytes)
      signer == eth_recover(sighash(d.tx), bytes)
  IN [ok |-> d.ok /\ signer # "error", tx |-> d.tx, signer |-> signer]

-----------------------------------------------------------------------------
(* Where keys come from.                                                   *)

\* The bytes of a scalar, too few bytes, or zeros.
Raws == Keys \union {"short", "zeros"}

NoOut == [is |-> "none"]
Fail(retryable) == [is |-> "error", retryable |-> retryable]

FromBytes ==
  /\ kind \in {"hot", "lib"} /\ stage = "new"
  /\ \E raw \in Raws :
       IF raw \in Keys THEN key' = raw /\ stage' = "ready" /\ UNCHANGED out
       ELSE stage' = "failed" /\ out' = Fail(FALSE) /\ UNCHANGED key
  /\ UNCHANGED <<kind, held, chain, call, elapsed, answer>>

\* Key::create.  The service has the key, whatever becomes of the rest.
CreateKey ==
  /\ kind = "kms" /\ stage = "new"
  /\ \/ \E k \in Keys \ held.made :
          /\ held' = [held EXCEPT !.made = @ \union {k}]
          /\ key' = k /\ stage' = "described" /\ UNCHANGED out
     \/ /\ stage' = "failed" /\ \E r \in BOOLEAN : out' = Fail(r)
        /\ UNCHANGED <<key, held>>
  /\ UNCHANGED <<kind, chain, call, elapsed, answer>>

\* Key::from_arn, also of a key made before.
Load ==
  /\ kind = "kms" /\ stage \in {"new", "failed"}
  /\ \E k \in held.made : key' = k /\ stage' = "described"
  /\ out' = NoOut
  /\ UNCHANGED <<kind, held, chain, call, elapsed, answer>>

\* The key is described and its public key asked for.
FromArn ==
  /\ stage = "described"
  /\ \/ stage' = "ready" /\ UNCHANGED out
     \/ stage' = "failed" /\ \E r \in BOOLEAN : out' = Fail(r)
  /\ UNCHANGED <<kind, key, held, chain, call, elapsed, answer>>

Delete ==
  /\ kind = "kms" /\ stage \in {"ready", "done"}
  /\ held' = [held EXCEPT !.pending = @ \union {key}]
  /\ UNCHANGED <<kind, stage, key, chain, call, elapsed, answer, out>>

with_chain_id ==
  /\ stage \in {"ready", "done"}
  /\ \E c \in Networks : chain' = c
  /\ stage' = "ready" /\ out' = NoOut
  /\ UNCHANGED <<kind, key, held, call, elapsed, answer>>

-----------------------------------------------------------------------------
(* Signing.                                                                *)

\* A digest that is not 32 bytes long.
Short == <<"short">>

\* The v of what the signer returns: the transactions and messages of an
\* Ethereum signer have the one of EIP-155.
Returned(c, sig) ==
  [is |-> "sig", sig |-> sig,
   v |-> IF c.what \in {"message", "transaction"} THEN apply_eip155(sig.id, c.chain_id)
         ELSE sig.id]

\* A hot key is asked at once, and has an answer unless the digest is too short.
SignHot(c) ==
  /\ kind \in {"hot", "lib"}
  /\ stage' = "done" /\ answer' = "none"
  /\ IF c.digest = Short
     THEN out' = IF kind = "hot" THEN Fail(FALSE) ELSE [is |-> "panic"]
     ELSE \E id \in 0..1 : out' = Returned(c, Ecdsa(key, c.digest, "low", id))

SignKms(c) ==
  /\ kind = "kms" /\ answer' = "none"
  /\ IF c.digest = Short THEN stage' = "done" /\ out' = [is |-> "panic"]
     ELSE stage' = "signing" /\ out' = NoOut

\* A call of what, which signs a digest under a chain id.
Call(what, digest, chain_id, tx) ==
  LET c == [what |-> what, digest |-> digest, chain_id |-> chain_id, tx |-> tx]
  IN /\ stage = "ready" /\ elapsed' = 0 /\ call' = c
     /\ SignHot(c) \/ SignKms(c)
     /\ UNCHANGED <<kind, key, held, chain>>

NoTx == Transaction(0, "none", {})

sign_digest ==
  \E d \in {<<"sha256", m>> : m \in Messages} \union {Short} : Call("digest", d, 0, NoTx)

sign_message ==
  kind = "kms" /\ \E m \in Messages : Call("message", <<"hash_message", m>>, chain, NoTx)

sign_typed_data ==
  kind = "kms" /\ \E m \in Messages : Call("typed data", <<"encode_eip712", m>>, 0, NoTx)

\* The chain id of the transaction counts, which one signed offline always has,
\* if only as 0.
sign_as_typed_transaction ==
  /\ kind \in {"hot", "kms"}
  /\ \E c \in Networks \union {0}, from \in Keys, set \in {{}, {"value"}, Fields} :
       LET tx == Transaction(c, from, set)
       IN Call("transaction", sighash(tx), tx.chain_id, tx)

\* One round with the service, unless the time is up.
TryKms ==
  /\ stage = "signing" /\ elapsed <= RetryTimeout
  /\ \/ /\ key \notin held.pending /\ answer' = "raw" /\ stage' = "done"
        /\ \E s \in {"low", "high"}, id \in 0..1 :
             LET sig == decode_signature(Ecdsa(key, call.digest, s, id))
                 ids == trial_recovery(sig, call.digest, key)
             IN out' = IF ids = {} THEN Fail(FALSE)
                       ELSE Returned(call, [sig EXCEPT !.id = CHOOSE id1 \in ids : TRUE])
        /\ UNCHANGED elapsed
     \/ /\ answer' = "refused" /\ stage' = "done" /\ out' = Fail(FALSE)
        /\ UNCHANGED elapsed
     \/ /\ answer' = "try again" /\ \E d \in 1..2 : elapsed' = elapsed + d
        /\ UNCHANGED <<stage, out>>
  /\ UNCHANGED <<kind, key, held, chain, call>>

GiveUp ==
  /\ stage = "signing" /\ elapsed > RetryTimeout
  /\ stage' = "done" /\ out' = Fail(TRUE)
  /\ UNCHANGED <<kind, key, held, chain, call, elapsed, answer>>

-----------------------------------------------------------------------------
Init ==
  /\ kind \in {"hot", "lib", "kms"} /\ stage = "new" /\ key = "none"
  /\ held = [made |-> {}, pending |-> {}]
  /\ chain \in Networks
  /\ call = [what |-> "none", digest |-> Short, chain_id |-> 0, tx |-> NoTx]
  /\ elapsed = 0 /\ answer = "none" /\ out = NoOut

Next ==
  \/ FromBytes \/ CreateKey \/ Load \/ FromArn \/ Delete \/ with_chain_id
  \/ sign_digest \/ sign_message \/ sign_typed_data \/ sign_as_typed_transaction
  \/ TryKms \/ GiveUp

Spec == Init /\ [][Next]_vars

-----------------------------------------------------------------------------
\* Every digest a call may be of, and other ones.
Digests == {"sha256", "hash_message", "encode_eip712"} \X Messages

\* A signature that is returned leads to the key of the signer from the digest
\* that was to be signed, and to no key anyone has from any other.
Recovers ==
  /\ eth_recover(call.digest, out) = key
  /\ \A d \in Digests : eth_recover(d, out) \in Keys => d = call.digest
  /\ call.what \in {"digest", "typed data"} =>
       \A k \in Keys, d \in Digests :
         verify(k, d, out) = "yes" <=> k = key /\ d = call.digest

\* A transaction that was signed is read with the fields it has, as sent by the
\* key that signed it, whoever it says it is from.
SentBySigner ==
  call.what = "transaction" =>
    LET d == decode_and_verify_signed_rlp(rlp_signed(call.tx, out))
    IN d.ok /\ d.signer = key /\ d.tx = Transaction(call.tx.chain_id, key, call.tx.set)

\* Whoever signs, and whatever form the service gives the signature: it leads
\* to the signer; and an answer of the service is never turned into an error.
SignerIsRecovered ==
  /\ out.is = "sig" => Recovers /\ SentBySigner
  /\ stage = "done" /\ out.is = "error" /\ kind = "kms" =>
       \/ answer = "refused" /\ ~out.retryable
       \/ answer = "try again" /\ out.retryable /\ elapsed > RetryTimeout
=============================================================================
