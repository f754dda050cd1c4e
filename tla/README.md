# avalanche-types-rs, modelled in TLA+

`avalanche-types` is the Rust library with which a virtual machine (a *subnet*) is served to an avalanchego node,
and with which a program talks to such a node: ids, transactions, keys, a wallet, peer messages. This directory holds
TLA+ modules that model the parts of it that keep state, the TLC configurations that check them on small instances,
and proofs that TLAPS checks. All paths below are relative to `src/src/` of the repository, unless they begin with
`tla`.

- [The system](#the-system): components, their state, how they interact, what is hard about them
- [The modules](#the-modules): what models what, and how
- [The runs](#the-runs): what is checked, on which instances, and what it shows
- [What is proved](#what-is-proved)
- [Where the code departs from its words](#where-the-code-departs-from-its-words)
- [What is not modelled](#what-is-not-modelled)
- [What could come next](#what-could-come-next)

## The system

### A VM and its node

A node starts the VM as a process. `subnet/rpc/vm/mod.rs` picks a port, tells the node about it, and serves the VM over
gRPC until shutdown. From then on calls go both ways: the node calls the VM
(`vm/server.rs`), and the VM calls the node for its database (`database/rpcdb`), to send messages to peers
(`snow/engine/common/appsender`), to learn about validators (`snow/validators/client.rs`) and to wake the consensus
engine (the messenger, `vm/server.rs`).

| component | state it keeps | operations | talks to |
|---|---|---|---|
| memdb `database/memdb` | a map behind an `RwLock`, a closed flag | get, has, put, delete, close; batches; iterators over a sorted copy | – |
| versiondb `database/versiondb` | staged changes `mem` behind an `RwLock`, one shared commit batch behind a mutex, a closed flag, the database below | the same, and commit, abort, commit_batch | a memdb below; clones share all of it through `Arc` |
| versiondb iterator | a sorted copy of the staged entries, an iterator of the database below, the pair it is at | next, error, release | versiondb's closed flag, the iterator below |
| batches of memdb, versiondb, rpcdb | a queue of operations and its size | put, delete, size, write, reset, replay | the database they came from |
| corruptabledb `database/corruptabledb` | the first corruptible error, behind a mutex that a call holds from its check to its answer | every operation of a database | the database below (here rpcdb's client) |
| rpcdb `database/rpcdb` | client: closed flag. Server: the database it serves and a table of iterators | every operation, one RPC each; iterators page by page | client to server over gRPC |
| VM server `vm/server.rs` | the VM behind an `RwLock`, a channel of 100 messages to the engine, the stop signal | initialize, the calls of the VM, get_ancestors, handlers, shutdown | node, VM, HTTP servers |
| app sender, validators, HTTP, metrics | nothing, or one gRPC client | one RPC each | node |
| database manager | an immutable list of databases | current, get, close | databases |

### A wallet and its endpoints

`wallet/` issues transactions. A wallet holds a key, a list of HTTP endpoints and a cursor into it behind a mutex, and
the network's fees. To issue a transaction it asks an endpoint for the UTXOs of its address, chooses the inputs with
the keychain (`key/secp256k1/keychain.rs`), signs, sends, and polls the status until the transaction is accepted or
time is out. Each step is one HTTP call; the chain, other wallets and other clones of the same wallet move on between
any two of them.

An EVM chain is another matter (`wallet/evm`): there a transaction has a nonce, which clones of a wallet take from one
counter they share, and the middleware of the ethers library may send a refused one again. A user without gas signs a
forward request instead (`evm/eip712/gsn`), which a relayer carries to a contract.

Keys are hot, or kept by a service that signs and may fail (`key/secp256k1/kms`). A node keeps its own identity in files
(`key/bls`, `ids/node.rs`).

### Data

| component | state it keeps | operations | used by |
|---|---|---|---|
| packer `packer` | bytes, an offset, a limit, whether a header is to be filled in | pack and unpack per kind of value, take_bytes, set_bytes | transactions, vertices, UTXOs, addresses of peers |
| transactions `txs`, `platformvm/txs`, `avm/txs`, `key/secp256k1/txs` | base, fields of the type, credentials, metadata with the id | pack, sign, the orders of outputs and inputs | wallet |
| peer messages `message` | fields, whether to compress | setters, serialize, deserialize | users |
| JSON-RPC clients `jsonrpc/client` | nothing | one HTTP call each | wallet, users |
| texts `formatting`, `ids`, `key/secp256k1`, `codec/serde` | nothing | to and from texts with prefixes and checksums, and fields of JSON | everyone |
| bags and bits `ids/bag.rs`, `ids/bits.rs` | counts, their sum, mode, the ids that met the threshold; voters per id | add_count, set_threshold, filter, split; union, difference, bag | consensus code of users |

### What is hard, and what makes each part correct

- **versiondb** is shared by clones that call it concurrently. Its lock is let go between the three steps of a commit,
  while a read that missed `mem` keeps it during the call below. Correct is: a read sees what is staged over what is
  stored, at the moment it answers; a commit stores everything staged or nothing; nobody waits for ever.
- **The merging iterator** has two sorted sources that run out separately, staged deletes that hide a pair below, and
  two databases that may be closed between two calls. Correct is: the scan shows the view it was created on, or tells
  that it does not.
- **Batches** promise to apply their operations in order, each of the three in code of its own.
- **corruptabledb over rpcdb** must block every call after the first sign of corruption, though calls are concurrent,
  and a broken connection leaves the caller not knowing whether the server has done, or will do, what it asked for.
- **The paged iterator** loses a page when its reply is lost, and the server's iterator has moved on.
- **The VM server** runs the node's calls concurrently under a fair lock; a call may wait with the lock held for room in
  the channel to the engine; get_ancestors takes the lock once per block.
- **spend** goes over the same UTXOs twice and keeps two running totals; what it chooses must balance to the last unit.
- **Signing** packs a transaction in pieces, hashes it, and calls keys that may fail; lists are sorted by an order that is
  written field by field and must be that of the bytes the chain compares.
- **The packer** compares an offset with a length, a limit and a capacity, and appends; a reader has nothing but the
  order to go by. **A message** has its type within its bytes, once or twice.
- **A JSON-RPC call** that is given up may still be carried out.
- **A bag** keeps in steps what could be computed from its counts.
- **A call that crosses over gRPC** goes through a wrapper, a stub, a path, a handler and a method, written apart and joined by
  names and by the order of fields of the same type. The process comes up on a port that may be taken, and must hear
  a stop signal sent at any moment.
- **A signature** of a service comes with any `s` and without a recovery id, and must lead to the signer all the same.
  **A forward request** is hashed by three ends, which read it from the builder, from JSON and from arguments.
- **An identity** must outlive crashes between the making of a file and the writing to it.
- **A text** may be damaged, cut short, without its prefix or of another kind of value, and must not be read as another value.
- **The times of an issue**: the period to validate is fixed when the builder is made, the wait and the timeout when it is
  issued, and both loops share one clock.
- **Issuing** meets endpoints that lag behind each other, a clone that spends the same UTXOs, and a timeout after which
  nobody knows whether the transaction was accepted.

`PROJECT.json` has the list in full (`hazards`), each at its line and with the properties that would catch it.

## The modules

| module | models | composed of |
|---|---|---|
| `TxnStore` | what a `Commitable` database promises, call by call: what each put, delete, batch, commit and abort changes, at one moment between its beginning and its end, what each call answers, and that none but abort is let in once closed | – |
| `VersionDb` | versiondb at every await point, and the memdb below | implements `TxnStore` |
| `VersionDbProofs` | theorems about `VersionDb` | extends it |
| `VersionDbIterator` | the scan of a versiondb: its loop, and the memdb iterator below | – |
| `Batches` | the three write batches | – |
| `RpcDb` | corruptabledb, the rpcdb client, the wire, the server, and the served database | – |
| `RpcDbProofs` | theorems about `RpcDb` | extends it |
| `RpcDbIterator` | the client's and the server's half of a paged scan | – |
| `StorageProofs` | theorems about `RpcDbIterator`, `VersionDbIterator`, `Batches` and `Serving` | extends `MCStorage` |
| `VmServer` | lock, engine channel, get_ancestors, handlers, shutdown | – |
| `VmServerProofs` | theorems about `VmServer` | extends it |
| `WalletSpend` | the choice of inputs of every transaction, and the keychain | – |
| `SpendAndKeysProofs` | theorems about `WalletSpend`, `Signing` and `StakingKeys` | extends `MCWalletAndData` |
| `WalletIssue` | `issue` of the ten builders, the endpoints and the chain | – |
| `IssueTiming` | defaults and setters of the ten builders, and the clock of one issue | – |
| `EvmTx` | the EIP-1559 builder and submit, the shared nonce, the pool and the chain | – |
| `GsnRelay` | a forward request from its user over the relayer to the contract | – |
| `WalletIssueProofs` | theorems about `WalletIssue`, `EvmTx`, `GsnRelay` and `IssueTiming` | extends `MCWalletIssue` |
| `Services` | no state: the ten gRPC services, their stubs, arms and messages | – |
| `Serving` | the VM's process from port to end, and a call of any service end to end | extends `Services` |
| `Signing` | signers with hot keys and in a KMS, offline EIP-1559 transactions | – |
| `StakingKeys` | the BLS key and the certificate on disk | – |
| `Texts` | values as texts, and what is read from a text | – |
| `Packer` | the packer, and vertices, UTXOs and addresses on top of it | – |
| `TxBytes` | what sorting, packing and signing make of a transaction of each type | – |
| `PeerMessages` | the 22 types of messages, from one peer to another | – |
| `JsonRpcClient` | the 27 functions of the P-chain, X-chain, info and admin clients | – |
| `IdBags` | bags, unique bags, and bits of ids | – |
| `DataProofs` | theorems about `PeerMessages`, `JsonRpcClient`, `IdBags`, `Texts` and `TxBytes` | extends `MCWalletAndData` |
| `PackerProofs` | theorems about `Packer` | extends `DataProofs` |
| `PackerItems`, `TxSamples` | no state: what is packed and which transactions are signed where TLC runs them | – |

Each `MC…` module gives a component's constants values for TLC. `MCStorage`, `MCWalletAndData` and `MCWalletIssue`
run parts side by side that share no state, and are never in use at the same time: the initial state says which. Their
constants get their values from the `.cfg`, so that what is proved about them holds for any. A definition whose name ends in `_Something` and whose
comment begins with "Mutant" is a plausible bug; nothing uses it but the experiments of `PROJECT.json`, which put it in
the place of the definition after it and expect the named property to fail.

**VersionDb.** One client per clone. `&mut self` allows one call per clone at a time; the step `pc[c]` is where its
call stands. A call loads `closed` first (`Start`, `Refuse`) and only then waits for the lock: the two are separate
steps, as in the code. `ReadMem` and `ReadBelow` are the two halves of `has` and `get`. The commit is `TakeSnapshot`
(reset the shared batch), `Push` per entry in any order (the order of a hash map), `WriteBatch`, `ResetBatch` and
`Clear`. The read lock is not a variable: who holds it follows from `pc` (`HoldsReadLock`). A client that has called
commit_batch may write the batch it was given (`WriteHeld`), as the trait asks: before the next call that changes the
database, or never.

**VersionDbIterator.** Keys are numbers in the order of their bytes. Each branch of the loop in `next` is an action,
with the fall-through after a dropped tombstone as it is written in the code.

**Batches.** One module for the three, by `kind`. rpcdb's `write` is what its server makes of its request: first per
key, puts before deletes.

**RpcDb.** A call is on its way as a request, then as a reply (`net`). `Break` ends it with an error at either point; a
request not yet served may then be served at any later time (`late`, `ServeLate`). `guard` is the holder of the
wrapper's mutex. `ErrorCode` and `ReplyTo` are the conversion of errors to codes and of codes to errors, which loses
errors the protocol has no code for. `did` and `acked` are history: what the served database did, and the last
acknowledged change per key. Keys in `BatchKeys` are changed by batches, too, whose writes go past the wrapper.

**RpcDbIterator.** The server fills a page of one to `PageSize` pairs: how many fit in `MAX_BATCH_SIZE` bytes depends on
their lengths, which are left out.

**VmServer.** All calls that only forward to the VM are one kind, "read" or "write" by the lock they take. A block is
its height. `lowest` is the height below which the VM has no blocks; `late` says of which walks the time is over.

**WalletSpend.** One step per UTXO and loop. Inputs carry what becomes of their amount (burned or paid, staked,
returned), so that outputs need no state of their own. The order into which inputs and outputs are sorted, and the
signing, are in `TxBytes`.

**WalletIssue.** Each `issue` is the list of the calls it makes, in its order (`add_validator`, …, `import_x`); `at` is
where a caller is in its list, and each call is an action that goes to the endpoint the code asks: the one picked at
the beginning, or the one the shared cursor is at, which every look-up moves. A node is a prefix of what the chain has
accepted (`seen`) and a mempool that may drop what it took. Time passes only in the loops that poll (`elapsed`). Which
of the listed UTXOs are consumed is `WalletSpend`'s subject, here it is any one, or all for an import.

**IssueTiming.** One caller makes a builder, calls setters and issues, once or twice; the clock counts tenths of a second and
moves by what each step takes. `Builders` has the defaults of the ten `new`s, `Set` is any setter, and the contents of the
transaction are names only. The chain decides when it accepts as soon as it takes the transaction; a node validates from
the start of its period. `Takes` is the chain's rule for periods, which the comments in `add_validator.rs` and
`add_subnet_validator.rs` speak of.

**EvmTx.** `submit` step by step, from the request over the nonce of the shared middleware, the estimate of the gas, a dry
run's signature or the sending, to the receipt and the look-up. What the middleware of the ethers library does (count the
nonce again and send once more) is modelled from how it is used here and external, as are the pool, which may drop and
replace, and the chain. A transaction is its own hash.

**GsnRelay.** The user edits a transaction, has its gas estimated with retries, signs, and sends JSON; the relayer reads it
field by field (`recover_tx`), recovers the signer, and hands it to the contract; other
clients send requests that are not as this code writes them. A hash is what it is the hash of.

**Services, Serving.** `Services` has, per method of the generated code, the path and the types of the stub, and what the server
makes of the path. `Serving` has the arguments as the wrappers fill them in and as the handlers read them: a call carries
each argument by its tag from one end to the other. Calls share only the process, so there is one at a time; `Route`, `Run` and
`Proceed` take it from step to step. The process picks a port, tells the node and only then binds it. Bodies of errors and
conversions of bytes are left out.

**Signing.** A signature says who signed which digest, whether its `s` is high, and which recovery id leads back. A KMS may
refuse, ask to try again, or answer; `sign_digest` is a loop with a timeout. A transaction signed offline is its fields and the
signature, and is read back.

**StakingKeys.** Each start of the node goes through `load_or_generate` of the signer's key and of the certificate, one file
operation a step, and may end at any of them; two starts may run at once. What is promised then excludes the files they ran
at together for. BLS signatures are symbolic, with the two cipher suites.

**Texts.** A text is its prefix and what it encodes, with or without a checksum; lists of them are written, damaged, left out, and
read by the reader of any kind. Lengths are scaled: three elements for 32 bytes, two for 20, one for the checksum.

**Packer.** One packer writes, its bytes travel and may be cut short at any place, another one reads; a step per value. The
width of a number is a constant and a byte has `Base` values, so that numbers are digit strings, as in the code, and the
longest `str` fits in a small instance. `expand` lets in what `Packer::expand` does; the capacity, which decides only
when memory is reserved, is left out. A UTXO without an output, which the code's comment forbids, is not packed, nor
are addresses whose 16 bytes are also those of an IPv4 address of another form (`::a.b.c.d`, and `0.b.c.d`), which `unpack_ip`
cannot tell apart: `ValuesOf` has the values of each kind that can be packed. A vertex is sorted before it is packed
(`Ready`).

**TxBytes.** A field of fixed width is one number. The id is a hash; the model takes what it is the hash of for the id, so
two ids are the same exactly when the bytes are. `pack`, `sign_cred`, `sign_fails` and `seal` are the steps of `sign`, with
an await at each key; `own_bytes` is the part each type packs itself. A sorted list is compared with the order of its
bytes, which is what the chain demands.

**PeerMessages.** A type is the variant it writes and the fields it has setters for; all types share the code of `serialize` and
`deserialize`, which each file repeats. `garble` stands for a network or a peer that sends anything.

**JsonRpcClient.** A function is its path, service and method. `arrive`, `Service` and `Served` stand for the node and are
external. `done` is what nodes have carried out, also for a caller that has given up.

**IdBags.** An id is its bits. Maps are gone through in any order (`Counted`), so the mode of a bag that another one was made
of may be any of the ids counted most often.

## The runs

Deadlock is checked where the system cannot stop (versiondb, rpcdb, batches); the scans, the VM and the wallet have an
end.

| run | instance | shows |
|---|---|---|
| `versiondb` | one writing and one reading clone, 2 keys, 1 value, and batches | the state's types; the commit invariant (`SnapshotInv`); reads answer from the view (`ReadsSeeView`); a commit is whole or changes nothing (`CommitOutcome`); `ImplementsTxnStore`; each call returns (`EveryCallReturns`) |
| `versiondb_two_writers` | two writing clones, 1 key | finding 1 |
| `rpcdb` | 2 clones, 2 keys, one of them also written by batches, up to 2 requests that outlive their calls | quiet after corruption (`CorruptedIsQuiet`), acknowledged changes stay (`AckedStays`), answers are true (`AnswerIsTrue`) |
| `rpcdb_failing` | 1 client, the served database may fail | finding 2 |
| `storage` | a scan over rpcdb: 4 pairs, pages of up to 3, 3 broken connections; or a scan of a versiondb: every content of 4 keys with 2 values; or a batch of memdb or versiondb, up to 3 operations; or the VM's process and a call of any of the ten services | no silent hole, no pair twice or out of order, an end without an error is the end (`NoSilentHole`); a scan shows the view (`ScanIsTheView`); write and replay have the queue's order (`WriteIsReplay`); a call reaches the method it names with the arguments it was given, its answer is that method's, and a VM whose port was taken does not serve (`CallReachesItsMethod`); a stop signal is heard whenever it is sent (`StopIsHeard`) |
| `scan_tombstones` | any staged deletes, 2 keys | finding 3 |
| `batch_rpcdb` | rpcdb's batch | finding 4 |
| `vm` | 3 concurrent calls after initialize, channel of 1, 3 blocks, 1 handler, 2 messages | messages in order (`EngineHearsInOrder`), ancestors a chain within limits (`AncestorsAreAChain`), every call answered (`CallsAreAnswered`) |
| `vm_time` | the same, smaller | finding 5 |
| `wallet_issue` | 2 endpoints, 2 UTXOs, 2 clones that issue: every builder, next to one it competes with; or the times of one issue; or 2 clones that submit to an EVM; or a relay of forward requests | what is reported as accepted is, a node that is told to validate does, and "already a validator" is true (`ReportedIsAccepted`); of two that consume one UTXO one is told (`LoserIsTold`); every issue returns (`EveryWalletIssueEnds`); it gives up only when what it waits for has not come in the whole of its time (`FailsForCause`); a receipt is of a mined transaction the builder describes (`ReceiptIsOnChain`); a dry run's hash is the submit's, where it says so (`DryHashIsTrue`); what is carried out was signed, once (`RelayedIsSigned`) |
| `wallet_data` | up to 3 UTXOs of 11 kinds, amounts to 4, fees to 3; next to it the eight modules of data, keys and texts, see below | no input twice (`NoDoubleSpend`) or in vain (`NoneInVain`), signatures to the threshold (`SignedByThreshold`), balance (`Balanced`, of what the code gets right, see below), spend fails exactly where the means are short (`FailsOnlyShort`); what is read is what was packed (`UnpackedIsPacked`); lists ascend as bytes (`SortedAsBytes`); an id is of one transaction and of a signing that was completed (`SameIdSameTx`); a message is read as it was sent or not at all (`ReceivedIsSent`); an answer is to what was done (`AnsweredIsDone`); a bag agrees with its counts (`BagIsItsCounts`); a signature leads to its signer (`SignerIsRecovered`); a node keeps its identity and can prove it (`IdentityIsKept`); a text is read as what was written or not at all (`TextIsRead`) |
| `packer_long_str` | the packer, and a str whose length does not fit in a u16 | finding 6 |

**Bounds.** Two clones are enough for a lock to be waited for and for one call to overtake another; two keys for a read
of one to meet a change of the other and for half a commit to be seen. In `versiondb` a staged value, a staged delete, a
stored value and no value are told apart with one value, because empty, deleted and absent differ; the theorems cover any
number of values and clients. In `storage` the four keys of the scan allow each source to run out before, between and after the other.
A batch of three has two operations of one key and one of another, in any order; `MaxSize` bounds memdb's size, which
a reset leaves. Two late requests and two clients let a late change meet one on its way and one acknowledged. With
pages of up to three and four pairs, a scan has between two and four pages. A channel of one message is full as soon as one
is under way, as one of 100 is after a hundred; the third call is the one that waits behind a waiting writer. Three UTXOs
let one be locked, one pay the fee and one be split; amounts of the UTXOs are 1 to 3, so that each of the two totals can
be reached exactly, passed, or missed, within any of them. The wallet gives its keychain one key; the instance has two,
so that a threshold can be reached before the last key.
In `wallet_issue` there are two endpoints, so that one can lag behind the other and the cursor goes round; two callers
are enough for one UTXO to be wanted twice; the seven pairs have every builder, with and without polling, and in dry mode. The times of an issue: every kind with its defaults, and six with setters; the caller
takes no time or 31 seconds before each of its steps, the look-ups none or 30, an answer none or 2, and the chain none, 5,
300 or for ever; so what is waited for comes before the first poll, between two, at the end of the time, or too late. On the
EVM three pairs of builders submit twice each, with two estimates of gas: one overtakes the other with a higher fee, takes its
nonce, or runs dry beside it. Of a forward request three fields may be edited, two are signed, and gas goes to 5.

In `storage`, one call of `Serving` at a time; batches have two blocks, and fields are left at their default one at a time.

The data modules in `wallet_data`: a byte has three values and a u16 two bytes, so a str is at most seven long and nine are
too many for its length; two values per packer of 15 kinds, limits that stop at once, within the second value and never; the
bytes are cut at every place. Of the ten types of transactions there are 177 that differ in one field, in an order, or in where
a list ends, each signed, signed again or followed by another, with up to two keys that may fail. Of each type of message
each field is set up to twice. Two JSON-RPC calls to any two functions, at a node with admin and one without. Ids of six bits in
three bytes, the smallest that have a byte between the first and the last; counts to 2 and bags of up to 4. Two keys sign two messages for two networks, and a KMS is tried for two intervals after
the first. Two processes and four starts: one that crashes, one that finds what it left, and two at once. A byte of a text is 0 or 1;
two texts a list, damaged up to twice.

**Fairness.** `VersionDb!FairSpec`: the executor resumes every task that can run (weak fairness of the steps of a call),
and tokio's `RwLock` is fair: it queues its waiters, so a writer is not overtaken for ever by readers that come and go
(strong fairness of the steps that take the write lock). Nobody has to call anything. `VmServer!FairSpec`: the queue of
the lock is a variable, so weak fairness is enough; the VM returns from its calls, and a notify is answered or fails.
`Serving!Fairness`: the process goes on to the next step it can take, a request is routed, and a handler answers.
`WalletIssue!Spec`: a task goes on, a call ends within its 15 seconds and a sleep ends (weak fairness of the
steps of an issue); nothing is assumed of the network, so a transaction may never be accepted. None of them asks that a connection work, a database stay open, or the node call anything.

**What is assumed of users.** That a batch from commit_batch be written before the next change or never is the trait's
own rule. One writing clone (`Writers` with one element) is our restriction: with two the code loses changes (finding
1), and the pass run shows that with one it does not. `storage` has deletes staged only of keys the database below has,
for the same reason (finding 3).

## What is proved

`tlapm` checks the theorems of eight modules for every value of the constants that the named assumptions of the modules
allow. Each of them that states a property of a run names the definition the run checks, so a run shows it on a small
instance and the theorem for all. The pattern is the same everywhere: an invariant that is inductive, one lemma for each
action that it is kept, and a lemma that it suffices.

`VersionDbProofs`, for any clients, keys and values:

- `TypeCorrect`: `Spec => []TypeOK`.
- `ReadsAreOfTheView`: reads answer from the view, with any number of writers. The invariant behind it is `MissStands`: a
  read that missed is still a miss when it returns, because it keeps the read lock.
- With one writer (`OneWriter`): `SnapshotsAreWhole`, `CommitsAreWhole` and `VersionDbImplementsTxnStore`.
  `SnapshotInv` is inductive given `TypeOK`: while entries are pushed the batch agrees with `mem` on each key that is
  done; from then to the write it is all of `mem`; from the write to the clear the database has all of it. The
  proofs use that the overlay of a map over a store that already has it changes nothing (`OverlayTwice`).
  The refinement maps `committed` to `db`, `view` to what a read of the whole database sees, and each client's `request`
  to the call it is in (`Request`): nothing while it is idle, `committed` from the write of a commit to its return. Each
  call is one step of the store that begins it (`Ask`, or `Refuse` once closed) and one that carries it out and answers:
  `StageChange` is `Change` with the very change asked for, `Clear` is `Abort` or, at the end of a commit,
  `CommitReturns`, `WriteBatch` is `Commit` or `CommitFails`. Locks, snapshots and pushes are stutters. One lemma per
  step says so.

`RpcDbProofs`, for any clients, keys and values:

- `TypeCorrect`, which includes that the mutex is held by exactly the guarded call that is under way.
- `CorruptionIsQuiet`: no call of the wrapper is under way once corruption was seen. Inductive given the types: the only
  guarded call there is keeps the error and lets go of the mutex in one step.
- `AcknowledgedStays`, where the served database fails only when it is closed (`~MayFail`). Its invariant, `ServedInv`,
  says that a change that outlived its call has been kept as corruption (`LateIsCorruption`), that a reply on its way
  fits what the database now has (`ReplyIsServed`), and that no other change of an acknowledged key is under way
  (`AckedAlone`). The heart is `OneChanger`: of a key batches do not write, at most one change is on its way or late,
  for the next guarded change is sent only when there is no corruption, and then nothing guarded is late.
- `AnswersAreTrue`, under the same condition and `~HasChecksClosed` (the `has` of the served database does not look at
  `closed`, as memdb's does not). A failing database answers with the code of success (finding 2).

`StorageProofs`, about the four parts of `MCStorage`:

- `NoPairIsMissedSilently`, for any number of pairs, sizes of pages and broken connections. `ClientInv` follows a pair from
  the served iterator over the reply and the client's buffer to the caller: each of the four holds a run of pairs, each
  run lies before the next (`Order`), and without an error of the client nothing is missing between them (`Whole`). What
  breaks a connection leaves that error (`Broken`), which is why `error` may vouch for the end (`Ends`).
- `ScanShowsTheView`, under `~AnyTombstones`: deletes are staged only of keys the database below has. In `ScanInv` the
  condition becomes inductive as `Cursors`: the two cursors meet at a staged key that is below too, and at a staged delete
  always. What was shown lies before all that is to come (`Behind`), and each pair of the view was shown or is to come
  (`Ahead`). Without the condition it is false: finding 3.
- `BatchesReplay`, where `"rpcdb"` is not among the kinds (finding 4 is about it): write does what a replay does, as an
  action property, and `ReplayInv` says how far a replay under way has come.
- `CallsReachTheirMethods`: the path of a stub leads to the arm of its method, with the types of the stub (`StubsMeetArms`);
  the handler takes each argument from the field the wrapper put it into (`ArgumentsAgree`); and what was put into the fields
  of a message is read from them (`WhatIsEncodedIsDecoded`). The first two go through the rows of the tables, which are in parts
  that have no name in common (`JoinedIs`). `CallInv` says how far the handler has come with the methods it calls, and that the VM
  never has a port another process took, so that an "unimplemented" from there stays explained.

`VmServerProofs`, for any number of calls, capacity of the channel, limits and lengths of blocks. One invariant, `VmInv`,
has the lock (`Held`: it is held by exactly the calls inside, by a writer alone, and its queue has no call twice), numbers
reserved before they are sent (`Reserved`, a cardinality), the messages (`Messages`: what the node heard, what it is being
told, and what is in the channel ascend, and with what was lost they are all that were sent), and the blocks of a walk
(`Chains`). It proves `TypeCorrect`, `HeardInOrder` and `AncestorsChain`.

`WalletIssueProofs`, about the four parts of `MCWalletIssue`:

- `ReportsAreTrue` and `OneWins` (`WalletIssue`), for any endpoints, clones, UTXOs and times. An endpoint knows a prefix of
  what the chain accepted, so an answer that something is there stays true (`Reported`), whichever endpoint gave it; and the
  chain takes each output once (`Chain`), so two clones whose transactions share one cannot both be told "accepted". The
  lemmas `OrderlyStaking`, `OrderlySubnet` and `OrderlyNext` are about the lists of steps of the ten builders: a step that
  needs the transaction comes after the one that makes it (`Orderly`).
- `ReceiptsHold` and `DryHashesHold` (`EvmTx`), for any submitters, gas and number of submits: `EvmInv` says that what is on its
  way fits the builder it came from (`Asks`, `Fits`). They need `EvmAssumption`: no two submitters sign the same. If two did,
  the pool could drop one copy and mine the other, and both would be told of the one transaction.
- `RelayHolds` (`GsnRelay`), for any key, edits, types, gas and requests: `OnTheWire` says that each request, however another
  client wrote it, carries the signature of a transaction the user signed; what the forwarder and the user hash alike is `ForwarderHashes`.
- `IssuesFailForCause` (`IssueTiming`), for any setters, delays and latencies: `TimesInv` bounds the clock in the two polling
  loops (`InRound`), says that what is not there yet comes after the last answer (`Awaited`), and that the builder's own period
  is long enough unless a setter changed it (`BuilderFits`). The attempt to prove it found a condition TLC's values had
  hidden: for the kinds that stake, `poll_timeout` must not be shorter than a call takes (`TimesAssumption`). If it is, the
  call for the status uses up the time, and the loop for the validator ends with "not validating in time" although the node
  has been a validator for long: both loops share one clock.

`SpendAndKeysProofs`, first about `WalletSpend`, for any list of UTXOs, keychain, amounts and fees:

- `NothingIsSpentTwice` and `NothingIsSpentInVain`. Two facts are inductive together: the running totals never pass their
  targets, so that as long as a loop goes on something is left to pay (`Totals`); and each input is of a UTXO the loop has
  passed or, in spend's second loop, of one that is still locked, which that loop passes over (`Passed`).
- `SignaturesSuffice`: the search for addresses of the keychain ends with as many as the threshold asks for, in their order.
- `AmountsBalance`, as long as all the AVAX there is fits in a `u64` (`SupplyAssumption`, so that no sum wraps around). `BalanceInv`
  has the sums of inputs and outputs (`Sums`) next to the running totals. It says of spend that nothing is consumed beyond the
  fee, the stake and the change, and so of an export of the P-chain that what it pays is missing from its inputs.
- `FailsOnlyWhenShort`: `ShortInv` says what the loops have reached of all the means there are (`Reached`).

Sums and searches are recursive functions over a list. Induction over them is by the least place at which the claim would
not hold (`WFMin` of the library), because its theorems that take an operator cannot be instantiated by the provers.

Then about the keys of a node and of a wallet (`StakingKeys`, `Signing`), for any values of their constants:

- `IdentityOutlivesTheProcess`: `NodeInv` says that a file that is there stays (`SignerFile`, `PemFiles`), and that, as long as no
  two starts ran at once, a start that generates found no key, so nothing was returned yet that it could replace. The
  second half of the property, about proofs of possession and aggregates, holds of any set of keys (`KeysAreProved`).
- `SignaturesLeadToTheKey`: `SignerInv` says that a signature that was returned is the low one of the signer's key, of the digest
  of the call, with the `v` of its kind (`RecoveryIdComesBack`); `KmsReturns` is that trial recovery finds one id only.

`DataProofs`, about other parts of `MCWalletAndData`, each for any values of its constants:

- `MessagesAreReadAsSent`: no two of the 22 types have the same variant (`VariantsDiffer`), so that bytes are read only as what
  they were, or not at all once they were garbled (`MessageInv`).
- `AnswersAreTrue`: `RpcInv` ties what a call returned to where its request is, and a request is carried out once at most. What
  a function makes of an answer is its own (`Told`): an error is its own error, nothing at all, or the node's.
- `BagsAgreeWithTheirCounts`: `BagInv` says of each bag that its size, its mode and the ids at the threshold are what its
  counts make of them (`GoodBag`). A bag made of another is a fold of `add_count` over the ids, in whatever order the map
  has them; the proof carries `GoodBag` along the path of that fold, one id at a time.
- `TextsAreReadAsWritten`: no value comes of a text that has a checksum and was damaged, and what is read is what was written.
  Damage cuts bytes off or puts one there that nothing is made of (`Worn`); the checksum of the model is a sum that every
  byte adds to, so the one of what is left is another (`SumGrowsWith`, `DamagedIsBad`). `TextInv` says of each text which of
  its parts are still as its writer wrote them (`TextOk`), `OwnReads` that each reader reads the texts that are for it, and
  `ReadAllIs` what comes of a list.
- `IdsTellTransactions`, for any transactions of the ten types, with lists of any lengths, and any signers: the bytes of a
  transaction and its credentials tell both. Each part of them is a code that can be told at the front of whatever follows
  it (`Apart`), from the fields of an output (`OutputApart`) over a list, whose length comes first (`ListTells`), to what
  every type has (`BaseCodes`) and what each has of its own (`OwnCodesOfType`). The type comes early, so codes of different
  types need not be compared; `SealedCodes` puts the parts together. `TxInv` adds that an id that was given is of the bytes
  of its transaction and credentials (`Seal`), whatever happened to the transaction since.
- `WalletSortsForTheChain`: the order of the types, which compares field by field, is that of their bytes (`OutputOrder`,
  `InputOrder`), with the locks and the lists of owners, of which a shorter one is less, as their count comes first. `Before` of the
  model compares slices by their longest common beginning; `BeforeIsLess` shows that it is the search for the first difference,
  and `LessTotal` and `LessTransitive` that this is an order. `Sorted` is some arrangement of the list that ascends; that
  there is one is proved by inserting the elements one after the other (`Arrangement`).

`PackerProofs`, about `Packer`, for any base and widths of its numbers, any limits and any values that fit their types:

- `PackerReadsWhatItPacked`: what is unpacked is what was packed, item by item, and reading fails only where the bytes were cut.
  The bytes of a value are a code (`Code`), and its reader, started where the code starts, gives the value back and stops
  where the code ends (`ItemReads`): first of a number, whose digits have its value, then of byte strings, lists of them,
  addresses, UTXOs with and without a lock (`ReadUtxo`), and vertices, whose lists are sorted before (`SortedVertex`). The
  size of the packer, and whether it still takes anything, follow from the parts it was given (`PutAll`). `PackInv` says where
  the reader is: what it has read is the first of the items, and what is left of the wire begins with the code of the
  next one (`IsRead`), up to the cut (`CameOver`).

**Assumptions.** Besides those named above: the bounds and amounts are numbers, the special values (`None`, `Unset`, `Deleted`,
"none", "another", "nobody's") are not members of the sets they stand beside, and there are finitely many calls
(`VmServerAssumption`), ids and voters (`BagAssumption`). Byte 9, which damage puts into a text, is none a text is made of
(`TextAssumption`). A byte has two values at least, a `u32` has room for the type of a locked output, and what is packed is of its type
(`PackAssumption`): a str is shorter than 2^16, since a longer one is finding 6, a list has fewer than 2^32 elements, and an
IPv4 address does not begin with 0, nor an IPv6 as one does, since `unpack_ip` takes them for each other. A request asks for one of the kinds there are (`RequestsAssumption`). A transaction is of its type and a signer is a list
of keys (`TxAssumption`). `TLC` evaluates all of them in the runs.

**Not proved.** Liveness is beyond the prover and is checked by TLC alone (`EveryCallReturns`, `CallsAreAnswered`,
`EveryWalletIssueEnds`, `StopIsHeard`). Each other property of a passing run is a theorem.

## Where the code departs from its words

1. `versiondb/mod.rs:216` – commit clears all of `mem` after it wrote a snapshot of it. What another clone staged in
   between is dropped, though `database/mod.rs:47` says that commit writes all the operations.
2. `rpcdb/mod.rs:22` – an error that is neither "closed" nor "not found" is sent as code 0, which is success. A put that
   failed is acknowledged, and corruptabledb never sees the failure.
3. `versiondb/iterator.rs:114` – after a staged delete was dropped the loop falls through with the entry it no longer has:
   pairs are lost or invented, or the index is out of bounds. It needs a staged delete of a key the database below
   does not have.
4. `rpcdb/client/batch.rs:95` – write keeps the first operation of a key, not the last.
5. `vm/server.rs:770` – get_ancestors compares the time the wrong way round: it ends at once, with one block, and goes on
   when the time is over.

6. `packer/mod.rs:590` – pack_str cuts the length of a str to 16 bits and only then compares it with `MAX_STR_LEN`: one of
   65,536 bytes is packed, as an empty one followed by its bytes.

The wallet's model has four more, which `Balanced` leaves out:
an export of the P-chain asks spend for its fee alone and then has an output of the amount it exports, so that more goes out
than comes in (`wallet/p/export.rs:116` and 130, `Payments`);
spend exchanges the amounts of the staked and the returned output of a locked UTXO (`wallet/p/mod.rs:215`, `StakeLocked`);
the X-chain transfer is sent although its inputs do not cover it (`EndTransfer`) and panics at a UTXO it cannot spend
(`PanicUnspendable`); an import of less than the fee panics or, without overflow checks, wraps around (`EndImport`). The
imports do not sort their inputs (`Sorts` in `TxBytes`). A transfer and an export of the X-chain sign each input with `keys[0]`
(`wallet/x/transfer.rs:212`, `x/export.rs:210`), whichever signers the keychain names; a wallet has one key, so these are the
same unless the owners ask for no signature. The default periods of `add_validator.rs:71` and
`add_subnet_validator.rs:62` have 14 and 15 days the other way round than the comments above them, so that by default a
subnet's period is not within the primary network's and is refused; and `validate_period_in_days` counts both ends from now,
though its comment says "from 'offset_seconds' later" (`add_validator.rs:118`), so 14 days with an offset are too short
(`FailsForCause` leaves both out). Timing out is called retryable, but the period of the same builder has begun by then and
the chain refuses it. `key/secp256k1/mod.rs:138` says that `private_key_hex` is without 0x, which `to_hex` writes.
A negative `BigInt` is written as `-0x…` and cannot be read (`codec/serde/hex_0x_big_int.rs`); `Texts` has no negative ones.
A file made and not written, after a crash, keeps a node from starting until it is removed (`StakingKeys`). In `JsonRpcClient`, an endpoint without a scheme loses its port (`url`),
alias_chain panics where admin is off and takes a refusal for success, and issue_stop_vertex looks at the status alone;
`AnsweredIsDone` leaves the last two out. The responses of get_network_id, get_blockchain_id, get_vms, get_tx_fee and peers have no
error, so that an answer with one is read as success with nothing in it, and get_node_id has an error of its own for the
node's and for results without a proof of possession (`Told`). A message that is empty panics its reader (`take`). A `Unique` subtracted
from itself panics (`difference` in `IdBags`).

## What is not modelled

`PROJECT.json` lists each part under `components` with the reason.

- Generated code (`proto`) of packages nothing here calls: p2p's encoding, google, prometheus, net.conn, io, helloworld,
  subnetlookup, warp. Of the ten services between a VM and its node the encoding of a message is left out.
- Declarations for serde with default values and tests of what they parse: configuration, genesis, the JSON-RPC types.
- The arithmetic of hashes and curves: `Signing`, `StakingKeys`, `TxBytes`, `EvmTx` and `GsnRelay` take signatures and hashes as
  symbols.
- Metrics and health, which convert and forward; the database manager, which has an immutable list; nodb; choices.
- `subnet/rpc/plugin.rs`, which no module of the crate names and the compiler never sees.
- Server::shutdown ends the server and never calls shutdown of the VM (`vm/server.rs:220`); no text says that it should.
- forge (a command it runs), mnemonics, decoding of ABI arguments.
- Conversions that keep no state, with flaws we met: `vm/server.rs:432` answers an unknown error of get_block with success,
  as rpcdb does (finding 2); `snow/validators/client.rs:89` takes a validator without a public key for an error of the
  whole set.
- Overflow of counters that are added without a check (`ids/bag.rs:118`, u32) or shifted (`ids/bits.rs:395`, a voter past 63): the
  build decides between a panic and a wrong number, and nothing in the repository comes near.
- memdb's batch keeps its size at `reset` (`memdb/batch.rs:96`), unlike the others; nothing reads it.

Of the parts that are modelled, left out are logging, the wording of errors, `release` of the
merging iterator (it clears the copies and ends the scan), names of chains whose length does not fit in a `u16` (`Name` in
`TxBytes`; `packer_long_str` has what pack_str does to them), the lengths of keys and values other than zero
or not, `health_check` of versiondb (it reads one flag), packing after `load_bytes_for_unpack`, the orders of types no
wallet sorts, the headers of HTTP requests, and the gRPC settings.

## What could come next

The wallet with its findings mended (`Payments`, `StakeLocked`, `EndTransfer`, `EndImport`), for which `Balanced` should be proved without the
cases it leaves out; and the encoding of p2p's messages, if the crate comes to use it.
