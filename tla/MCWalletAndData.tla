-------------------------- MODULE MCWalletAndData ---------------------------
(* Nine parts that share no state, in one run: the choice of inputs, which   *)
(* the run EXTENDS, the packer, the bytes and ids of transactions, peer      *)
(* messages, JSON-RPC calls, bags of ids, signers, the staking keys of a     *)
(* node, and texts.  The initial state says which of them runs, and the      *)
(* others do not begin.                                                      *)
EXTENDS WalletSpend, PackerItems, TxSamples

CONSTANTS
  Base, U16_LEN, U32_LEN, U64_LEN, IdLen, AddrLen, V4_LEN, IP_ADDR_LEN, Sizes, Loads,
  Items, MaxItems,                                               \* of the packer
  Txs, Signers, MaxSigned,                                       \* of transactions
  Numbers, MaxSets,                                              \* of messages
  Endpoints, Serves, MaxCalls,                                   \* of JSON-RPC
  BITS_PER_BYTES, BAG_ID_LEN, BagIds, EmptyId, Counts, Thresholds, Voters, MaxVotes,  \* of bags
  Keys, Messages, Networks, RetryTimeout,                        \* of signers
  Starts, MaxStarts, Texts,                                      \* of staking keys
  Bytes, MaxTexts, MaxDamages                                    \* of texts

\* A bound is a number.
ASSUME BoundsAssumption == MaxStarts \in Nat

\* Chain ids and the timeout are numbers, and what is not a key of anyone is none.
ASSUME SigningAssumption ==
  /\ Networks \subseteq Nat /\ RetryTimeout \in Nat
  /\ Keys \intersect {"none", "error", "nobody's"} = {}

VARIABLES
  system,  \* which part runs
  packer, packed, wire, cut, offset, unpacked, packStage,
  tx, txStage, unsigned, signers, creds, metadata, sealed,
  built, setters, sent, result,
  calls, requests, done,
  bags, made, uniques,
  kind, stage, key, held, chain, call, elapsed, answer, signed,
  files, step, mine, starts, len, haveKey, together, returned,
  texts, damages, missing, got

-----------------------------------------------------------------------------
(* What the wallet may have: UTXOs of its key, free, locked until after the  *)
(* clock, with an expired lock, owned with others, owned by others, locked   *)
(* to their owners, and of another asset.                                    *)

Own(lock, threshold, addresses) ==
  [locktime |-> lock, threshold |-> threshold, addresses |-> addresses]

Utxo(avax, stakeable, lock, amt, owners) ==
  [avax |-> avax, stakeable |-> stakeable, locktime |-> lock, amount |-> amt,
   owners |-> owners]

Ours == Own(0, 1, <<"me">>)

MCUtxos ==
  {Utxo(TRUE, FALSE, 0, a, Ours) : a \in {1, 3}}
    \cup {Utxo(TRUE, TRUE, lock, a, Ours) : lock \in {1, 2}, a \in {1, 3}}
    \cup {Utxo(TRUE, FALSE, 0, 2, Own(0, 1, <<"other", "me", "me2">>)),
          Utxo(TRUE, TRUE, 2, 2, Own(0, 1, <<"me", "me2">>)),
          Utxo(TRUE, FALSE, 0, 2, Own(0, 2, <<"me", "other">>)),
          Utxo(TRUE, FALSE, 0, 2, Own(2, 1, <<"me">>)),
          Utxo(FALSE, FALSE, 0, 2, Ours)}

\* One node at the port the clients write, and at the port a URL without one
\* means another, which has admin off.
Endpoint(valid, scheme, port) ==
  [valid |-> valid, scheme |-> scheme, host |-> "node", port |-> port]

MCEndpoints == {Endpoint(TRUE, TRUE, 9650), Endpoint(TRUE, FALSE, 9650), Endpoint(FALSE, TRUE, 0)}

MCServes ==
  [node \in {<<"node", 9650>>, <<"node", 80>>} |->
     {"platform", "avm", "info"} \cup IF node[2] = 80 THEN {} ELSE {"admin"}]

Bits(s) == [i \in 0..5 |-> s[i + 1]]
MCTexts == {<<"text", "m">>}

\* Ids of three bytes of two bits: the empty one, one that differs from it in
\* the middle, and one that differs from both at both ends, too.
MCEmptyId == Bits(<<0, 0, 0, 0, 0, 0>>)
MCIds == {MCEmptyId, Bits(<<0, 0, 1, 0, 0, 0>>), Bits(<<0, 1, 0, 0, 1, 1>>)}

-----------------------------------------------------------------------------
P == INSTANCE Packer WITH stage <- packStage
T == INSTANCE TxBytes WITH stage <- txStage
M == INSTANCE PeerMessages WITH MaxCalls <- MaxSets, calls <- setters, wire <- sent
J == INSTANCE JsonRpcClient
G == INSTANCE IdBags WITH ID_LEN <- BAG_ID_LEN, Ids <- BagIds
K == INSTANCE Signing WITH out <- signed
N == INSTANCE StakingKeys
X == INSTANCE Texts

\* The transactions are of their types, and a signer is a list of keys.
ASSUME TxAssumption ==
  /\ \A t \in Txs : \E type \in DOMAIN T!Own : t \in T!Tx(type)
  /\ Signers \subseteq Seq(Seq(Nat))

\* There are finitely many ids and voters, and counts and thresholds are numbers.
ASSUME BagAssumption ==
  /\ BITS_PER_BYTES \in Nat \ {0} /\ BAG_ID_LEN \in Nat
  /\ IsFiniteSet(BagIds) /\ IsFiniteSet(Voters)
  /\ Counts \subseteq Nat /\ Thresholds \subseteq Nat

\* 9 is a byte that nothing is made of.
ASSUME TextAssumption == Bytes \subseteq 0..8

\* A byte has more than one value, a u32 tells the type of a locked output, and a
\* packer may grow no further than a u32 tells.  What is packed is of its kind.
ASSUME PackAssumption ==
  /\ Base \in Nat /\ Base > 1
  /\ U16_LEN \in Nat /\ U32_LEN \in Nat /\ U64_LEN \in Nat /\ P!Limit[U32_LEN] > 22
  /\ IdLen \in Nat /\ AddrLen \in Nat /\ IP_ADDR_LEN \in Nat /\ V4_LEN \in 1..(IP_ADDR_LEN - 1)
  /\ Sizes \subseteq P!Number(U32_LEN) /\ Loads \subseteq Seq(P!Byte)
  /\ \A item \in Items : \E type \in P!Kinds : item \in {type} \X P!ValuesOf(type)

packVars == <<packer, packed, wire, cut, offset, unpacked, packStage>>
txVars == <<tx, txStage, unsigned, signers, creds, metadata, sealed>>
messageVars == <<built, setters, sent, result>>
rpcVars == <<calls, requests, done>>
bagVars == <<bags, made, uniques>>
signerVars == <<kind, stage, key, held, chain, call, elapsed, answer, signed>>
nodeVars == <<files, step, mine, starts, len, haveKey, together, returned>>
textVars == <<texts, damages, missing, got>>
allVars == <<system, vars, packVars, txVars, messageVars, rpcVars, bagVars,
             signerVars, nodeVars, textVars>>

-----------------------------------------------------------------------------
\* What does not run has a state of its own, which is none of the part's.
NoSpend ==
  /\ how = "import" /\ utxos = <<>> /\ amount = 0 /\ fee = 0 /\ paid = 0
  /\ phase = "burn" /\ next = 1 /\ staked = 0 /\ burned = 0 /\ used = <<>> /\ out = 0

NoPack ==
  /\ packer = <<>> /\ packed = <<>> /\ wire = <<>> /\ cut = FALSE /\ offset = 0
  /\ unpacked = <<>> /\ packStage = "none"

NoTx ==
  /\ tx = <<>> /\ txStage = "none" /\ unsigned = <<>> /\ signers = <<>>
  /\ creds = <<>> /\ metadata = <<>> /\ sealed = {}

NoMessage == built = <<>> /\ setters = 0 /\ sent = <<>> /\ result = <<>>
NoRpc == calls = <<>> /\ requests = <<>> /\ done = <<>>
NoBag == bags = <<>> /\ made = <<>> /\ uniques = <<>>

NoSigner ==
  /\ kind = "none" /\ stage = "none" /\ key = "none" /\ held = <<>> /\ chain = 0
  /\ call = <<>> /\ elapsed = 0 /\ answer = "none" /\ signed = <<>>

NoNode ==
  /\ files = <<>> /\ step = <<>> /\ mine = <<>> /\ starts = 0 /\ len = <<>>
  /\ haveKey = <<>> /\ together = {} /\ returned = {}

NoText == texts = <<>> /\ damages = 0 /\ missing = FALSE /\ got = <<>>

MCInit ==
  /\ system \in {"spend", "pack", "sign", "message", "rpc", "bag", "signer", "node", "text"}
  /\ IF system = "spend" THEN Init ELSE NoSpend
  /\ IF system = "pack" THEN P!Init ELSE NoPack
  /\ IF system = "sign" THEN T!Init ELSE NoTx
  /\ IF system = "message" THEN M!Init ELSE NoMessage
  /\ IF system = "rpc" THEN J!Init ELSE NoRpc
  /\ IF system = "bag" THEN G!Init ELSE NoBag
  /\ IF system = "signer" THEN K!Init ELSE NoSigner
  /\ IF system = "node" THEN N!Init ELSE NoNode
  /\ IF system = "text" THEN X!Init ELSE NoText

MCNext ==
  /\ \/ /\ system = "spend" /\ Next
        /\ UNCHANGED <<packVars, txVars, messageVars, rpcVars, bagVars,
                       signerVars, nodeVars, textVars>>
     \/ /\ system = "pack" /\ P!Next
        /\ UNCHANGED <<vars, txVars, messageVars, rpcVars, bagVars,
                       signerVars, nodeVars, textVars>>
     \/ /\ system = "sign" /\ T!Next
        /\ UNCHANGED <<vars, packVars, messageVars, rpcVars, bagVars,
                       signerVars, nodeVars, textVars>>
     \/ /\ system = "message" /\ M!Next
        /\ UNCHANGED <<vars, packVars, txVars, rpcVars, bagVars,
                       signerVars, nodeVars, textVars>>
     \/ /\ system = "rpc" /\ J!Next
        /\ UNCHANGED <<vars, packVars, txVars, messageVars, bagVars,
                       signerVars, nodeVars, textVars>>
     \/ /\ system = "bag" /\ G!Next
        /\ UNCHANGED <<vars, packVars, txVars, messageVars, rpcVars,
                       signerVars, nodeVars, textVars>>
     \/ /\ system = "signer" /\ K!Next
        /\ UNCHANGED <<vars, packVars, txVars, messageVars, rpcVars,
                       bagVars, nodeVars, textVars>>
     \/ /\ system = "node" /\ N!Next
        /\ UNCHANGED <<vars, packVars, txVars, messageVars, rpcVars,
                       bagVars, signerVars, textVars>>
     \/ /\ system = "text" /\ X!Next
        /\ UNCHANGED <<vars, packVars, txVars, messageVars, rpcVars,
                       bagVars, signerVars, nodeVars>>
  /\ UNCHANGED system

MCSpec == MCInit /\ [][MCNext]_allVars

-----------------------------------------------------------------------------
\* What an unpacker reads is what was packed, value for value, and it fails only
\* where bytes are missing.
UnpackedIsPacked == system = "pack" => P!UnpackedIsPacked

\* The lists a wallet has sorted ascend by the bytes the chain compares.
SortedAsBytes == system = "sign" => T!SortedAsBytes

\* An id is of one transaction with one list of credentials, and the id of a
\* transaction that is signed again is that of a signing that was completed.
SameIdSameTx == system = "sign" => T!SameIdSameTx

\* A message is read only as the type it was sent as, with the fields it had.
ReceivedIsSent == system = "message" => M!ReceivedIsSent

\* What a call of a client returns is what became of its request.
AnsweredIsDone == system = "rpc" => J!AnsweredIsDone

\* What a bag keeps next to its counts agrees with them.
BagIsItsCounts == system = "bag" => G!BagIsItsCounts

\* A signature leads to the key that made it, whoever holds the key.
SignerIsRecovered == system = "signer" => K!SignerIsRecovered

\* The staking keys a start of the node returns are those on disk, written whole.
IdentityIsKept == system = "node" => N!IdentityIsKept

\* What is read from a text is what was written, or nothing.
TextIsRead == system = "text" => X!TextIsRead
=============================================================================
