------------------------------ MODULE TxBytes -------------------------------
(***************************************************************************)
(* The transactions of both chains: the lists a wallet sorts, the bytes    *)
(* pack and sign make of a transaction, its credentials and its id.        *)
(*                                                                         *)
(* A field of a fixed width is one number here, however many bytes it has; *)
(* numbers are packed with the highest byte first, so they compare like    *)
(* their bytes.  The id, a hash, is taken for what it is the hash of.  A   *)
(* list that is None is packed like an empty one and is empty here.        *)
(***************************************************************************)
EXTENDS Integers, Sequences, SequencesExt, FiniteSets

CONSTANTS
  Txs,        \* transactions, as their builders leave them
  Signers,    \* what sign is given: for each credential its keys
  MaxSigned   \* bound: how often the transaction is signed

VARIABLES
  tx,        \* type, base_tx and what the type has of its own
  stage,     \* "built", "sorted", "again", "signing", "signed",
             \* "failed"
  unsigned,  \* tx_bytes_with_no_signature of the signing under way
  signers,   \* its signers
  creds,     \* creds of the transaction
  metadata,  \* <<>> until it is signed
  sealed     \* history: every id given, with the transaction and creds it is of

vars == <<tx, stage, unsigned, signers, creds, metadata, sealed>>

-----------------------------------------------------------------------------
(* The types.                                                              *)

OutputOwners == [locktime : Nat, threshold : Nat, addresses : Seq(Nat)]

\* Nothing, or the locktime of a stakeable_lock_out or stakeable_lock_in.
Lock == {lock \in Seq(Nat) : Len(lock) <= 1}

\* An output or input that has neither a transfer nor a stakeable lock is None.
Output(option) ==
  [asset_id : Nat, lock : Lock, amount : Nat, owners : OutputOwners, option : option]

Input(option) ==
  [tx_id : Nat, output_index : Nat, asset_id : Nat, lock : Lock, amount : Nat,
   sig_indices : Seq(Nat), option : option]

Option == {"Some", "None"}
Outputs == Seq(Output(Option))
Inputs == Seq(Input(Option))
Validator == [node_id : Nat, start : Nat, end : Nat, weight : Nat]

\* A signer is a key and its proof; a subnet may have validators without.
Signer == {<<>>} \union Nat \X Nat

\* A name has its length in 16 bits, the highest of which is refused.  Longer names,
\* whose length pack_str cuts before it looks at it, are left out.
U16 == 65536
MAX_STR_LEN == U16 - 2
Name == {s \in Seq(Nat) : Len(s) <= MAX_STR_LEN}

\* What each type of transaction has of its own.
Own ==
  [avm_BaseTx |-> [none : {0}],
   avm_ImportTx |-> [chain : Nat, inputs : Inputs],
   avm_ExportTx |-> [chain : Nat, outputs : Outputs],
   ImportTx |-> [chain : Nat, inputs : Inputs],
   ExportTx |-> [chain : Nat, outputs : Outputs],
   AddValidatorTx |->
     [validator : Validator, outputs : Outputs, rewards_owner : OutputOwners, shares : Nat],
   AddPermissionlessValidatorTx |->
     [validator : Validator, subnet_id : Nat, signer : Signer, outputs : Outputs,
      rewards_owner : OutputOwners, delegator_owner : OutputOwners, shares : Nat],
   AddSubnetValidatorTx |-> [validator : Validator, subnet_id : Nat, sig_indices : Seq(Nat)],
   CreateSubnetTx |-> [rewards_owner : OutputOwners],
   CreateChainTx |->
     [subnet_id : Nat, chain_name : Name, vm_id : Nat, fx_ids : Seq(Nat),
      genesis : Seq(Nat), sig_indices : Seq(Nat)]]

Tx(type) ==
  [type : {type}, network_id : Nat, blockchain_id : Nat, outputs : Outputs,
   inputs : Inputs, memo : Seq(Nat), own : Own[type]]

VERSION == 0

TypeId ==
  [avm_BaseTx |-> 0, avm_ImportTx |-> 3, avm_ExportTx |-> 4,
   AddValidatorTx |-> 12, AddSubnetValidatorTx |-> 13, CreateChainTx |-> 15,
   CreateSubnetTx |-> 16, ImportTx |-> 17, ExportTx |-> 18,
   AddPermissionlessValidatorTx |-> 25]

-----------------------------------------------------------------------------
(* The bytes.                                                              *)

\* The element count comes first.
List(part(_), s) == <<Len(s)>> \o FlattenSeq([i \in DOMAIN s |-> part(s[i])])
Plain(s) == <<Len(s)>> \o s
pack_str(s) == <<Len(s) % U16>> \o s

owners_bytes(w) == <<w.locktime, w.threshold>> \o Plain(w.addresses)
transfer_bytes(t) == <<t.amount>> \o owners_bytes(t.owners)

output_bytes(o) ==
  <<o.asset_id>> \o (IF o.lock = <<>> THEN <<7>> ELSE <<22, o.lock[1], 7>>)
  \o transfer_bytes(o)

\* A locked input has no type of its own within.
input_bytes(i) ==
  <<i.tx_id, i.output_index, i.asset_id>>
  \o (IF i.lock = <<>> THEN <<5>> ELSE <<21, i.lock[1]>>)
  \o <<i.amount>> \o Plain(i.sig_indices)

\* Mutant: the memo is left out.
base_bytes_NoMemo(t) ==
  <<VERSION, TypeId[t.type], t.network_id, t.blockchain_id>>
  \o List(output_bytes, t.outputs) \o List(input_bytes, t.inputs)

base_bytes(t) ==
  <<VERSION, TypeId[t.type], t.network_id, t.blockchain_id>>
  \o List(output_bytes, t.outputs) \o List(input_bytes, t.inputs)
  \o Plain(t.memo)

validator_bytes(v) == <<v.node_id, v.start, v.end, v.weight>>
auth_bytes(sig_indices) == <<10>> \o Plain(sig_indices)

import_bytes(own) == <<own.chain>> \o List(input_bytes, own.inputs)
export_bytes(own) == <<own.chain>> \o List(output_bytes, own.outputs)

\* The X-chain has code of its own for these.
avm_import_bytes(own) == <<own.chain>> \o List(input_bytes, own.inputs)
avm_export_bytes(own) == <<own.chain>> \o List(output_bytes, own.outputs)

add_validator_bytes(own) ==
  validator_bytes(own.validator) \o List(output_bytes, own.outputs)
  \o <<11>> \o owners_bytes(own.rewards_owner) \o <<own.shares>>

add_permissionless_validator_bytes(own) ==
  validator_bytes(own.validator) \o <<own.subnet_id>>
  \o (IF own.signer = <<>> THEN <<27>> ELSE <<28>> \o own.signer)
  \o List(output_bytes, own.outputs)
  \o <<11>> \o owners_bytes(own.rewards_owner)
  \o <<11>> \o owners_bytes(own.delegator_owner) \o <<own.shares>>

add_subnet_validator_bytes(own) ==
  validator_bytes(own.validator) \o <<own.subnet_id>> \o auth_bytes(own.sig_indices)

create_subnet_bytes(own) == <<11>> \o owners_bytes(own.rewards_owner)

create_chain_bytes(own) ==
  <<own.subnet_id>> \o pack_str(own.chain_name) \o <<own.vm_id>> \o Plain(own.fx_ids)
  \o Plain(own.genesis) \o auth_bytes(own.sig_indices)

own_bytes(t) ==
  CASE t.type = "avm_BaseTx" -> <<>>
    [] t.type = "avm_ImportTx" -> avm_import_bytes(t.own)
    [] t.type = "avm_ExportTx" -> avm_export_bytes(t.own)
    [] t.type = "ImportTx" -> import_bytes(t.own)
    [] t.type = "ExportTx" -> export_bytes(t.own)
    [] t.type = "AddValidatorTx" -> add_validator_bytes(t.own)
    [] t.type = "AddPermissionlessValidatorTx" -> add_permissionless_validator_bytes(t.own)
    [] t.type = "AddSubnetValidatorTx" -> add_subnet_validator_bytes(t.own)
    [] t.type = "CreateSubnetTx" -> create_subnet_bytes(t.own)
    [] t.type = "CreateChainTx" -> create_chain_bytes(t.own)

\* Sequences of numbers, compared like slices of bytes.
Before(a, b) ==
  \/ Len(a) < Len(b) /\ IsPrefix(a, b)
  \/ \E i \in DOMAIN a \intersect DOMAIN b :
       a[i] < b[i] /\ SubSeq(a, 1, i - 1) = SubSeq(b, 1, i - 1)

-----------------------------------------------------------------------------
(* The orders of the types, field by field, without packing them.          *)

Either(lt, eq, then) == lt \/ (eq /\ then)

short_ids_lt(a, b) == Either(Len(a) < Len(b), Len(a) = Len(b), Before(a, b))

owners_lt(a, b) ==
  Either(a.locktime < b.locktime, a.locktime = b.locktime,
    Either(a.threshold < b.threshold, a.threshold = b.threshold,
      short_ids_lt(a.addresses, b.addresses)))

transfer_lt(a, b) ==
  Either(a.amount < b.amount, a.amount = b.amount, owners_lt(a.owners, b.owners))

\* Mutant: what is locked is compared by what it holds, and then by its locktime.
stakeable_lt_LockLast(a, b) ==
  Either(transfer_lt(a, b), a.amount = b.amount /\ a.owners = b.owners,
         a.lock[1] < b.lock[1])

stakeable_lt(a, b) ==
  Either(a.lock[1] < b.lock[1], a.lock = b.lock, transfer_lt(a, b))

output_lt(a, b) ==
  Either(a.asset_id < b.asset_id, a.asset_id = b.asset_id,
    Either(a.lock = <<>> /\ b.lock # <<>>, (a.lock = <<>>) = (b.lock = <<>>),
      IF a.lock = <<>> THEN transfer_lt(a, b) ELSE stakeable_lt(a, b)))

\* Inputs are told apart by the output they spend.
input_lt(a, b) ==
  Either(a.tx_id < b.tx_id, a.tx_id = b.tx_id, a.output_index < b.output_index)

-----------------------------------------------------------------------------
\* Whether each output and input is one.
Complete(t) ==
  LET Some(s) == \A i \in DOMAIN s : s[i].option = "Some" IN
  /\ Some(t.outputs) /\ Some(t.inputs)
  /\ "outputs" \in DOMAIN t.own => Some(t.own.outputs)
  /\ "inputs" \in DOMAIN t.own => Some(t.own.inputs)

\* s in the order of lt.
Sorted(s, lt(_, _)) ==
  LET Orders == {[i \in DOMAIN s |-> s[p[i]]] : p \in Bijection(DOMAIN s, DOMAIN s)} IN
  CHOOSE t \in Orders : \A i, j \in DOMAIN s : i < j => ~lt(t[j], t[i])

\* spend of the P-chain sorts the inputs, what is returned and what is staked,
\* transfer and export of the X-chain inputs and outputs.  The imports do not
\* sort, and what is exported is one output.
Sorts == tx.type \notin {"ImportTx", "avm_ImportTx"} /\ Complete(tx)
SortsOwn == tx.type \in {"AddValidatorTx", "AddPermissionlessValidatorTx"}

sort ==
  /\ stage = "built" /\ Sorts
  /\ LET base == [tx EXCEPT !.outputs = Sorted(@, output_lt),
                            !.inputs = Sorted(@, input_lt)]
     IN tx' = IF SortsOwn THEN [base EXCEPT !.own.outputs = Sorted(@, output_lt)] ELSE base
  /\ stage' = "sorted"
  /\ UNCHANGED <<unsigned, signers, creds, metadata, sealed>>

\* The unsigned bytes; the credentials of an earlier signing are dropped.
pack ==
  /\ stage = "again" \/ stage = (IF Sorts THEN "sorted" ELSE "built")
  /\ Complete(tx)
  /\ unsigned' = base_bytes(tx) \o own_bytes(tx)
  /\ signers' \in Signers
  /\ creds' = <<>> /\ stage' = "signing"
  /\ UNCHANGED <<tx, metadata, sealed>>

pack_fails ==
  /\ stage = "built" /\ ~Complete(tx)
  /\ stage' = "failed"
  /\ UNCHANGED <<tx, unsigned, signers, creds, metadata, sealed>>

\* The next credential: the signature of each of its keys, of the hash of the
\* unsigned bytes.
sign_cred ==
  /\ stage = "signing" /\ Len(creds) < Len(signers)
  /\ creds' = Append(creds, signers[Len(creds) + 1])
  /\ UNCHANGED <<tx, stage, unsigned, signers, metadata, sealed>>

\* A key, which may be that of a remote service, fails to sign.
sign_fails ==
  /\ stage = "signing" /\ Len(creds) < Len(signers)
  /\ stage' = "failed"
  /\ UNCHANGED <<tx, unsigned, signers, creds, metadata, sealed>>

cred_bytes(c) == <<9>> \o Plain(c)

seal ==
  /\ stage = "signing" /\ Len(creds) = Len(signers)
  /\ LET id == unsigned \o List(cred_bytes, creds) IN
     /\ metadata' = <<[unsigned |-> unsigned, id |-> id]>>
     /\ sealed' = sealed \union {[id |-> id, tx |-> tx, creds |-> creds]}
  /\ stage' = "signed"
  /\ UNCHANGED <<tx, unsigned, signers, creds>>

\* sign is called again, after it failed or with other keys.
again ==
  /\ stage \in {"signed", "failed"} /\ Cardinality(sealed) < MaxSigned /\ Complete(tx)
  /\ stage' = "again"
  /\ UNCHANGED <<tx, unsigned, signers, creds, metadata, sealed>>

\* Another transaction is built.
build ==
  /\ stage = "signed" /\ Cardinality(sealed) < MaxSigned
  /\ tx' \in Txs /\ stage' = "built"
  /\ unsigned' = <<>> /\ signers' = <<>> /\ creds' = <<>> /\ metadata' = <<>>
  /\ UNCHANGED sealed

Init ==
  /\ tx \in Txs /\ stage = "built" /\ unsigned = <<>> /\ signers = <<>>
  /\ creds = <<>> /\ metadata = <<>> /\ sealed = {}

Next ==
  \/ sort \/ pack \/ pack_fails \/ sign_cred \/ sign_fails \/ seal
  \/ again \/ build

Spec == Init /\ [][Next]_vars

-----------------------------------------------------------------------------
Ascending(part(_), s) ==
  \A i, j \in DOMAIN s : i < j => ~Before(part(s[j]), part(s[i]))

\* The lists a wallet has sorted ascend as the chain wants them, by their bytes
\* for outputs and by the output spent for inputs.
SortedAsBytes ==
  stage = "sorted" =>
    /\ Ascending(output_bytes, tx.outputs)
    /\ Ascending(LAMBDA i : <<i.tx_id, i.output_index>>, tx.inputs)
    /\ SortsOwn => Ascending(output_bytes, tx.own.outputs)

\* An id is of one transaction with one list of credentials: nothing that
\* tells two transactions apart is left out of their bytes or runs together
\* there.  The id a transaction has, also after it failed to be signed again,
\* is that of a signing of this transaction that was completed.
SameIdSameTx ==
  /\ \A a, b \in sealed : a.id = b.id => a = b
  /\ metadata # <<>> => \E a \in sealed : a.id = metadata[1].id /\ a.tx = tx
=============================================================================
