------------------------------ MODULE GsnRelay ------------------------------
(***************************************************************************)
(* evm/eip712/gsn: a forward request is signed by its user once its gas is *)
(* estimated, travels as JSON to a relayer, which recovers the transaction *)
(* and its signer from it, and makes of them a call of the forwarder       *)
(* contract.  Three ends have to agree on what was signed: the user, who   *)
(* hashes the transaction; the relayer, who hashes what it has read; and   *)
(* the contract, which hashes the arguments it is called with.             *)
(*                                                                         *)
(* A hash is what it is the hash of.  A signature names its key and the    *)
(* digest it is of; for any other digest some other address is recovered.  *)
(***************************************************************************)
EXTENDS Naturals, Sequences, SequencesExt

CONSTANTS
  Key,        \* who signs
  Edits,      \* the setters the user may call between two signatures
  Registered, \* the type names and suffixes the relayer may ask for
  Needed,     \* the gas the call needs
  FirstGas,   \* 21000
  Increment,  \* retry_increment_gas
  MaxGas,     \* the largest U256
  Timeout,    \* retry_timeout, in retry intervals
  MaxSigned   \* how many requests are signed

VARIABLES
  tx,       \* the user's
  phase,    \* "editing", "estimate", "sign", "failed" or "returned"
  elapsed,  \* of sign_to_request_with_estimated_gas_with_retries
  signed,   \* every transaction the key has signed
  wire,     \* requests on their way, each may arrive any number of times
  relay,    \* what the relayer made of the last one
  executed  \* what the forwarder has carried out

vars == <<tx, phase, elapsed, signed, wire, relay, executed>>

-----------------------------------------------------------------------------
(* The transaction.                                                        *)

new ==
  [domain_name |-> "", domain_version |-> "", domain_chain_id |-> 0,
   domain_verifying_contract |-> "zero", from |-> "zero", to |-> "zero", value |-> 0,
   gas |-> 0, nonce |-> 0, data |-> "", valid_until_time |-> 0, type_name |-> "",
   type_suffix_data |-> ""]

Set(t, field, value) == [t EXCEPT ![field] = value]

eip712_domain(t) ==
  [name |-> t.domain_name, version |-> t.domain_version, chain_id |-> t.domain_chain_id,
   verifying_contract |-> t.domain_verifying_contract]

compute_request_type_hash(name, suffix) == <<name, suffix>>

\* Mutant: the time is forgotten, by who signs and by who recovers.
compute_struct_hash_NoTime(t) ==
  <<compute_request_type_hash(t.type_name, t.type_suffix_data), t.from, t.to, t.value,
    t.gas, t.nonce, t.data, t.type_suffix_data>>

compute_struct_hash(t) ==
  <<compute_request_type_hash(t.type_name, t.type_suffix_data), t.from, t.to, t.value,
    t.gas, t.nonce, t.data, t.valid_until_time, t.type_suffix_data>>

encode_eip712(t) == <<eip712_domain(t), compute_struct_hash(t)>>

\* Domain and message of the request.  Numbers are hexadecimal, with a prefix; a
\* request of another client may have them otherwise, or lack a field.
Text(number, prefix) == [prefix |-> prefix, number |-> number]

Numbers == {"value", "gas", "nonce", "validUntilTime"}

typed_data(t) ==
  [name |-> t.domain_name, version |-> t.domain_version, chain_id |-> t.domain_chain_id,
   verifying_contract |-> t.domain_verifying_contract, from |-> t.from, to |-> t.to,
   data |-> t.data, value |-> Text(t.value, "0x"), gas |-> Text(t.gas, "0x"),
   nonce |-> Text(t.nonce, "0x"), validUntilTime |-> Text(t.valid_until_time, "0x")]

\* The arguments of execute: the request, the hashes of domain and type, the
\* suffix and the signature.
encode_execute_call(t, sig) ==
  [req |-> <<t.from, t.to, t.value, t.gas, t.nonce, t.data, t.valid_until_time>>,
   domainSeparator |-> eip712_domain(t),
   requestTypeHash |-> compute_request_type_hash(t.type_name, t.type_suffix_data),
   suffixData |-> t.type_suffix_data, sig |-> sig]

-----------------------------------------------------------------------------
(* The user.                                                               *)

Edit ==
  /\ phase \in {"editing", "returned"} /\ Len(signed) < MaxSigned
  /\ \E edit \in Edits : tx' = Set(tx, edit[1], edit[2])
  /\ phase' = "editing"
  /\ UNCHANGED <<elapsed, signed, wire, relay, executed>>

\* sign_to_request_with_estimated_gas_with_retries
Begin ==
  /\ phase \in {"editing", "returned"} /\ Len(signed) < MaxSigned
  /\ tx' = IF tx.gas = 0 THEN Set(tx, "gas", FirstGas) ELSE tx
  /\ phase' = "estimate" /\ elapsed' = 0
  /\ UNCHANGED <<signed, wire, relay, executed>>

\* The node estimates no more than it is allowed.
Estimate ==
  /\ phase = "estimate" /\ elapsed <= Timeout
  /\ \/ /\ Needed <= tx.gas
        /\ tx' = Set(tx, "gas", Needed) /\ phase' = "sign"
     \/ phase' = "failed" /\ UNCHANGED tx
  /\ UNCHANGED <<elapsed, signed, wire, relay, executed>>

Signature(t) == [by |-> Key, of |-> encode_eip712(t)]

Sign ==
  /\ phase = "sign"
  /\ \/ /\ phase' = "returned" /\ signed' = Append(signed, tx)
        /\ wire' = wire \union {[forward_request |-> typed_data(tx),
                                 signature |-> Signature(tx), of |-> tx, own |-> TRUE]}
     \/ phase' = "failed" /\ UNCHANGED <<signed, wire>>
  /\ UNCHANGED <<tx, elapsed, relay, executed>>

\* More gas and another try, unless the sum does not fit.
Retry ==
  /\ phase = "failed"
  /\ \/ /\ tx.gas + Increment <= MaxGas
        /\ tx' = Set(tx, "gas", tx.gas + Increment)
        /\ phase' = "estimate" /\ elapsed' = elapsed + 1
     \/ /\ tx.gas + Increment > MaxGas
        /\ phase' = "returned" /\ UNCHANGED <<tx, elapsed>>
  /\ UNCHANGED <<signed, wire, relay, executed>>

GiveUp ==
  /\ phase = "estimate" /\ elapsed > Timeout
  /\ phase' = "returned"
  /\ UNCHANGED <<tx, elapsed, signed, wire, relay, executed>>

\* Another client signs the same and writes it in its own way: its numbers in
\* decimal digits, or without a field.
OtherClient ==
  /\ \A r \in wire : r.own
  /\ \E r \in wire : LET data == r.forward_request IN
       \E other \in {[f \in DOMAIN data |->
                        IF f \in Numbers THEN Text(data[f].number, "") ELSE data[f]]}
                   \union {[f \in DOMAIN data \ {g} |-> data[f]] : g \in DOMAIN data} :
         wire' = wire \union {[r EXCEPT !.forward_request = other, !.own = FALSE]}
  /\ UNCHANGED <<tx, phase, elapsed, signed, relay, executed>>

-----------------------------------------------------------------------------
(* The relayer.                                                            *)

\* The digits are read as hexadecimal, with the prefix or without.
ReadNumber(text) ==
  IF text.prefix = "0x" THEN text.number
  ELSE (text.number \div 10) * 16 + (text.number % 10)

recover_tx(r, type, suffix) ==
  [domain_name |-> r.name, domain_version |-> r.version, domain_chain_id |-> r.chain_id,
   domain_verifying_contract |-> r.verifying_contract, from |-> r.from, to |-> r.to,
   value |-> ReadNumber(r.value), gas |-> ReadNumber(r.gas), nonce |-> ReadNumber(r.nonce),
   data |-> r.data, valid_until_time |-> ReadNumber(r.validUntilTime), type_name |-> type,
   type_suffix_data |-> suffix]

recover(sig, digest) == IF sig.of = digest THEN sig.by ELSE "another"

recover_signature(r, type, suffix) ==
  recover(r.signature, encode_eip712(recover_tx(r.forward_request, type, suffix)))

\* The forwarder: the nonce is the next of its sender, and the signature is the
\* sender's of what it is called with.
Hash(c) ==
  <<c.domainSeparator, <<c.requestTypeHash>> \o c.req \o <<c.suffixData>> >>
Accepts(c) ==
  /\ c.requestTypeHash \in Registered
  /\ c.req[5] = Len(executed)
  /\ recover(c.sig, Hash(c)) = c.req[1]

\* A field is missing.
Refuse(r) ==
  /\ DOMAIN r.forward_request # DOMAIN typed_data(new)
  /\ relay' = [request |-> r, error |-> TRUE, tx |-> new, signer |-> "none",
               accepted |-> FALSE]
  /\ UNCHANGED executed

Forward(r) ==
  /\ DOMAIN r.forward_request = DOMAIN typed_data(new)
  /\ \E type \in Registered :
       LET t == recover_tx(r.forward_request, type[1], type[2])
           c == encode_execute_call(t, r.signature) IN
       /\ relay' = [request |-> r, error |-> FALSE, tx |-> t,
                    signer |-> recover_signature(r, type[1], type[2]),
                    accepted |-> Accepts(c)]
       /\ executed' = IF Accepts(c) THEN Append(executed, t) ELSE executed

Receive ==
  /\ \E r \in wire : Refuse(r) \/ Forward(r)
  /\ UNCHANGED <<tx, phase, elapsed, signed, wire>>

-----------------------------------------------------------------------------
NoRelay == [request |-> [own |-> FALSE, of |-> new], error |-> TRUE, tx |-> new, signer |-> "none",
            accepted |-> FALSE]

Init ==
  /\ tx = new /\ phase = "editing" /\ elapsed = 0
  /\ signed = <<>> /\ wire = {} /\ relay = NoRelay /\ executed = <<>>

Next == Edit \/ Begin \/ Estimate \/ Sign \/ Retry \/ GiveUp \/ OtherClient \/ Receive

Spec == Init /\ [][Next]_vars

-----------------------------------------------------------------------------
\* The forwarder carries out what its sender has signed, in the order of the
\* nonces and each once; a relayer that recovers the key has recovered the
\* transaction that was signed; and one that asks for its type and suffix does
\* recover it, from a request that came as it was sent, and has it carried out
\* unless its nonce is not the next.
RelayedIsSigned ==
  LET type == <<relay.tx.type_name, relay.tx.type_suffix_data>>
      of == relay.request.of IN
  /\ \A i \in DOMAIN executed : executed[i] \in Range(signed) /\ executed[i].nonce = i - 1
  /\ relay.signer = Key => relay.tx \in Range(signed)
  /\ /\ relay.request.own /\ type = <<of.type_name, of.type_suffix_data>>
     => /\ relay.tx = of /\ relay.signer = Key
        /\ relay.accepted \/ of.from # Key \/ of.nonce # Len(executed)
=============================================================================
