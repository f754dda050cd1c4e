---------------------------- MODULE StakingKeys -----------------------------
(***************************************************************************)
(* The identity of a node on disk: the BLS key of its staking signer       *)
(* (key/bls) and the certificate its node id is the hash of (ids/node.rs). *)
(* Both are loaded if they are there and generated if not, by one start of *)
(* the node after the other, each of which may end at any step, or by two  *)
(* starts at once.  What a BLS key signs is symbolic: a signature says who *)
(* signed, what, and under which of the two ciphersuites.                  *)
(***************************************************************************)
EXTENDS Integers, FiniteSets

CONSTANTS
  Starts,    \* processes that may run at once
  MaxStarts, \* bound: how often a node is started
  Texts      \* messages a node signs

VARIABLES
  files,    \* content of the three files
  step,     \* where each start is
  mine,     \* what a start generates: its number
  starts,   \* how many there were
  len,      \* what load has read of the length of the file
  haveKey,  \* whether load_or_generate_pem saw a TLS key
  together, \* for which of the files two starts have run at once
  returned  \* every identity that was returned

vars == <<files, step, mine, starts, len, haveKey, together, returned>>

Absent == -1
Empty == 0
Ids == 1..MaxStarts
LEN == 32

OfSigner == {"generate", "create", "write", "load", "read"}
OfPem == {"cert exists", "generate pem", "write key", "create cert", "write cert", "load cert"}

-----------------------------------------------------------------------------
(* Signatures.                                                             *)

CIPHER_SUITE_SIGNATURE == "SIG"

\* Mutant: one ciphersuite for both.
CIPHER_SUITE_PROOF_OF_POSSESSION_Same == "SIG"
CIPHER_SUITE_PROOF_OF_POSSESSION == "POP"

\* A public key, also an aggregate one, is the set of those who have part in it.
to_public_key(k) == {k}
to_compressed_bytes(pubkey) == <<"public key", pubkey>>

sign(k, msg) == [by |-> {k}, of |-> msg, suite |-> CIPHER_SUITE_SIGNATURE]
sign_proof_of_possession(k, msg) == [sign(k, msg) EXCEPT !.suite = CIPHER_SUITE_PROOF_OF_POSSESSION]

verify(sig, msg, pubkey) == sig = [by |-> pubkey, of |-> msg, suite |-> CIPHER_SUITE_SIGNATURE]
verify_proof_of_possession(sig, msg, pubkey) ==
  sig = [by |-> pubkey, of |-> msg, suite |-> CIPHER_SUITE_PROOF_OF_POSSESSION]

\* aggregate of signatures of one message, and of public keys.
aggregate(sigs) ==
  [by |-> UNION {s.by : s \in sigs}, of |-> (CHOOSE s \in sigs : TRUE).of,
   suite |-> (CHOOSE s \in sigs : TRUE).suite]
aggregate_keys(pubkeys) == UNION pubkeys

to_proof_of_possession(k) ==
  [public_key |-> to_public_key(k),
   proof_of_possession |-> sign_proof_of_possession(k, to_compressed_bytes(to_public_key(k)))]

\* ProofOfPossession::new fails, and verify says false, unless the proof is of
\* the bytes of the key.
Proves(pubkey, proof) == verify_proof_of_possession(proof, to_compressed_bytes(pubkey), pubkey)

-----------------------------------------------------------------------------
(* One start.                                                              *)

Others(p, steps) == \E q \in Starts \ {p} : step[q] \in steps

Begin(p, what, steps, to) ==
  /\ step[p] = "off" /\ starts < MaxStarts
  /\ starts' = starts + 1 /\ mine' = [mine EXCEPT ![p] = starts']
  /\ together' = IF Others(p, steps) THEN together \union {what} ELSE together
  /\ step' = [step EXCEPT ![p] = to]

GoTo(p, to) == step' = [step EXCEPT ![p] = to]
Return(p, what, id, generated) ==
  /\ GoTo(p, "off")
  /\ returned' = returned \union
       {[what |-> what, id |-> id, tls |-> files.tlsKey, generated |-> generated]}

\* load_or_generate
StartSigner(p) ==
  /\ Begin(p, "signer", OfSigner, IF files.signer = Absent THEN "generate" ELSE "load")
  /\ UNCHANGED <<files, len, haveKey, returned>>

\* generate_to_file looks again, and fails if there is a file by now.
Generate(p) ==
  /\ step[p] = "generate"
  /\ GoTo(p, IF files.signer = Absent THEN "create" ELSE "off")
  /\ UNCHANGED <<files, mine, starts, len, haveKey, together, returned>>

\* File::create leaves an empty file, also of one that had a key by then.
\* Mutant: that is all.
Create_Done(p) ==
  /\ step[p] = "create"
  /\ files' = [files EXCEPT !.signer = Empty]
  /\ Return(p, "signer", mine[p], TRUE)
  /\ UNCHANGED <<mine, starts, len, haveKey, together>>

Create(p) ==
  /\ step[p] = "create"
  /\ files' = [files EXCEPT !.signer = Empty] /\ GoTo(p, "write")
  /\ UNCHANGED <<mine, starts, len, haveKey, together, returned>>

Write(p) ==
  /\ step[p] = "write"
  /\ files' = [files EXCEPT !.signer = mine[p]]
  /\ Return(p, "signer", mine[p], TRUE)
  /\ UNCHANGED <<mine, starts, len, haveKey, together>>

\* from_file: a buffer of the length the file has.
Load(p) ==
  /\ step[p] = "load"
  /\ len' = [len EXCEPT ![p] = IF files.signer = Empty THEN 0 ELSE LEN]
  /\ GoTo(p, "read")
  /\ UNCHANGED <<files, mine, starts, haveKey, together, returned>>

\* from_bytes refuses an empty buffer, and one of zeros, which is left when the
\* file was emptied since.
Read(p) ==
  /\ step[p] = "read"
  /\ IF len[p] = LEN /\ files.signer # Empty
     THEN Return(p, "signer", files.signer, FALSE)
     ELSE GoTo(p, "off") /\ UNCHANGED returned
  /\ UNCHANGED <<files, mine, starts, len, haveKey, together>>

\* load_or_generate_pem looks for the key, then for the certificate.
StartPem(p) ==
  /\ Begin(p, "node", OfPem, "cert exists")
  /\ haveKey' = [haveKey EXCEPT ![p] = files.tlsKey # Absent]
  /\ UNCHANGED <<files, len, returned>>

CertExists(p) ==
  /\ step[p] = "cert exists"
  /\ GoTo(p, IF haveKey[p] /\ files.tlsCert # Absent THEN "load cert" ELSE "generate pem")
  /\ UNCHANGED <<files, mine, starts, len, haveKey, together, returned>>

\* generate_and_write_pem of cert_manager: it may refuse to overwrite a file.
GeneratePem(p) ==
  /\ step[p] = "generate pem"
  /\ \/ GoTo(p, "write key")
     \/ (files.tlsKey # Absent \/ files.tlsCert # Absent) /\ GoTo(p, "off")
  /\ UNCHANGED <<files, mine, starts, len, haveKey, together, returned>>

WriteKey(p) ==
  /\ step[p] = "write key"
  /\ files' = [files EXCEPT !.tlsKey = mine[p]] /\ GoTo(p, "create cert")
  /\ UNCHANGED <<mine, starts, len, haveKey, together, returned>>

CreateCert(p) ==
  /\ step[p] = "create cert"
  /\ files' = [files EXCEPT !.tlsCert = Empty] /\ GoTo(p, "write cert")
  /\ UNCHANGED <<mine, starts, len, haveKey, together, returned>>

WriteCert(p) ==
  /\ step[p] = "write cert"
  /\ files' = [files EXCEPT !.tlsCert = mine[p]] /\ GoTo(p, "load cert")
  /\ UNCHANGED <<mine, starts, len, haveKey, together, returned>>

\* The node id is that of the certificate.  The key is not looked at.
from_cert_pem_file(p) ==
  /\ step[p] = "load cert"
  /\ IF files.tlsCert # Empty
     THEN Return(p, "node", files.tlsCert, files.tlsCert = mine[p])
     ELSE GoTo(p, "off") /\ UNCHANGED returned
  /\ UNCHANGED <<files, mine, starts, len, haveKey, together>>

\* The process ends, or a file cannot be written.
Crash(p) ==
  /\ step[p] # "off" /\ GoTo(p, "off")
  /\ UNCHANGED <<files, mine, starts, len, haveKey, together, returned>>

-----------------------------------------------------------------------------
Init ==
  /\ files = [signer |-> Absent, tlsKey |-> Absent, tlsCert |-> Absent]
  /\ step = [p \in Starts |-> "off"]
  /\ mine = [p \in Starts |-> 0] /\ starts = 0
  /\ len = [p \in Starts |-> 0] /\ haveKey = [p \in Starts |-> FALSE]
  /\ together = {} /\ returned = {}

Next == \E p \in Starts :
  \/ StartSigner(p) \/ Generate(p) \/ Create(p) \/ Write(p) \/ Load(p) \/ Read(p)
  \/ StartPem(p) \/ CertExists(p) \/ GeneratePem(p) \/ WriteKey(p) \/ CreateCert(p)
  \/ WriteCert(p) \/ from_cert_pem_file(p) \/ Crash(p)

Spec == Init /\ [][Next]_vars

-----------------------------------------------------------------------------
\* What is returned was written whole.  Unless two starts ran at once, every
\* start that returned a key has returned the one in the file, and one of them
\* generated it; and so for the certificate, which belongs to the TLS key.
Kept ==
  /\ \A r \in returned : r.id \in Ids
  /\ "signer" \notin together =>
       \A r \in returned : r.what = "signer" => r.id = files.signer
  /\ "node" \notin together =>
       \A r \in returned : r.what = "node" => r.id = files.tlsCert /\ r.tls = r.id

KeysReturned == {r.id : r \in {s \in returned : s.what = "signer"}}
bytes(k) == to_compressed_bytes(to_public_key(k))

\* A proof of possession of a key is taken for that of no other.
ProofsAreOwn(keys) ==
  \A k, j \in keys : Proves(to_public_key(j), to_proof_of_possession(k).proof_of_possession)
                       <=> to_public_key(j) = to_proof_of_possession(k).public_key

\* Nothing else that was signed with it, not even its own bytes, is taken for one.
NothingElseProves(keys) ==
  \A k, j \in keys, m \in Texts \union {bytes(i) : i \in keys} : ~Proves(to_public_key(j), sign(k, m))

\* What all keys sign is a signature of all, and of one key only if that is all.
AggregatesAreOfAll(keys) ==
  \A m \in Texts : keys # {} =>
    LET all == aggregate({sign(k, m) : k \in keys})
    IN /\ verify(all, m, aggregate_keys({to_public_key(k) : k \in keys}))
       /\ \A k \in keys : verify(all, m, to_public_key(k)) => keys = {k}

Proved ==
  /\ ProofsAreOwn(KeysReturned) /\ NothingElseProves(KeysReturned)
  /\ AggregatesAreOfAll(KeysReturned)

\* The identity of a node outlives its process, and can be proved.
IdentityIsKept == Kept /\ Proved
=============================================================================
