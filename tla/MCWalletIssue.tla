--------------------------- MODULE MCWalletIssue ---------------------------
(* Four parts of the wallet that send a transaction off, and share no state:  *)
(* a wallet with two endpoints and two clones, where every kind of issue is   *)
(* paired with one it competes with for a UTXO or for the validator; the      *)
(* times in one issue; two clones that submit to an EVM; and a relay of       *)
(* signed requests.  The initial state says which of them runs.  The run      *)
(* EXTENDS the first.                                                         *)
EXTENDS WalletIssue, TLC

CONSTANTS
  Wanted, Dithers, Lookups, Latencies, Delays, MinPeriod, MaxIssues,  \* of the times
  Submitters, Settings, Unset, Gas, Fee, MaxSubmits,                  \* of the EVM
  Key, Edits, Registered, Needed, FirstGas, Increment, MaxGas, Timeout, MaxSigned

VARIABLES
  system, \* "issue", "times", "evm" or "gsn"
  wanted, clock, periods, setters, place, handed, from, chain, said, issues,
  builder, step, call, sent, outcome, dried, submits, managed, pool, mined,
  gsnTx, phase, spent, signed, wire, relay, executed

T == INSTANCE IssueTiming
       WITH Requests <- Wanted, request <- wanted, builder <- periods
E == INSTANCE EvmTx WITH request <- call
G == INSTANCE GsnRelay WITH tx <- gsnTx, elapsed <- spent

\* No call for the status of a kind that stakes takes longer than its polling may:
\* else the first one could use up all of it, and the node be a validator long since.
PeriodFields == {"start_time", "end_time"}
PollFields == {"poll_initial_wait", "poll_interval", "poll_timeout"}

ASSUME TimesAssumption ==
  /\ Dithers \subseteq Nat /\ Lookups \subseteq Nat /\ Latencies \subseteq Nat
  /\ Delays \subseteq Nat /\ MinPeriod \in Nat /\ MinPeriod <= 14 * T!Day
  /\ \E l \in Latencies : l <= 5 * T!Minute /\ \A other \in Latencies : other <= l
  /\ \A w \in Wanted :
       /\ w.kind \in DOMAIN T!Builders
       /\ w.sets \in Seq({w.sets[i] : i \in DOMAIN w.sets})
       /\ \A i \in DOMAIN w.sets :
            LET s == w.sets[i] IN
            /\ s.field \in PeriodFields \union PollFields => s.value \in Nat
            /\ s.field = "poll_timeout" /\ "start_time" \in DOMAIN T!Builders[w.kind] =>
                 \A l \in Latencies : l <= s.value
            /\ s.field = "validate_period_in_days" => s.days \in Nat /\ s.offset \in Nat

\* The fields of the builders, which no two submitters set so that they would
\* sign the same: a transaction of one that is dropped could be sent by the other.
EvmBuilders ==
  [nonce : {Unset} \union Nat, tip : {Unset} \union Nat, cap : {Unset} \union Nat,
   gas : {Unset} \union Nat, order : {Unset} \union STRING,
   check_receipt : BOOLEAN, check_acceptance : BOOLEAN, dry_mode : BOOLEAN]

SignTheSame(a, b) ==
  a.order = b.order /\ E!Or(a.tip, Fee) = E!Or(b.tip, Fee) /\ E!Or(a.cap, Fee) = E!Or(b.cap, Fee)

ASSUME EvmAssumption ==
  /\ Fee \in Nat /\ Gas \subseteq Nat /\ Unset \notin Gas
  /\ \A calls \in Settings :
       /\ E!Built(calls) \in [Submitters -> EvmBuilders]
       /\ \A c, d \in Submitters : c # d => ~SignTheSame(E!Built(calls)[c], E!Built(calls)[d])

\* "another" stands for an address that no one signs with.
ASSUME GsnAssumption ==
  /\ Key \notin {"another", "none"}
  /\ \A edit \in Edits : edit[1] = "from" => edit[2] # "another"
  /\ \A type \in Registered : type = <<type[1], type[2]>>

evmVars == <<builder, step, call, sent, outcome, dried, submits, managed, pool, mined>>
gsnVars == <<gsnTx, phase, spent, signed, wire, relay, executed>>
timeVars == <<wanted, clock, periods, setters, place, handed, from, chain, said, issues>>
allVars == <<system, vars, evmVars, gsnVars, timeVars>>

MCInit ==
  /\ Init /\ E!Init /\ G!Init /\ T!Init
  /\ system \in {"issue", "times", "evm", "gsn"}
  /\ system # "issue" => request = CHOOSE r \in Requests : TRUE
  /\ system # "evm" => builder = E!Built(CHOOSE calls \in Settings : TRUE)
  /\ system # "times" => wanted = CHOOSE w \in Wanted : TRUE

MCNext ==
  /\ \/ system = "issue" /\ Next /\ UNCHANGED <<evmVars, gsnVars, timeVars>>
     \/ system = "times" /\ T!Next /\ UNCHANGED <<vars, evmVars, gsnVars>>
     \/ system = "evm" /\ E!Next /\ UNCHANGED <<vars, gsnVars, timeVars>>
     \/ system = "gsn" /\ G!Next /\ UNCHANGED <<vars, evmVars, timeVars>>
  /\ UNCHANGED system

\* The steps of an issue are fair when it runs.
MCSpec == MCInit /\ [][MCNext]_allVars /\ (system = "issue" => Fairness)

\* An issue fails for a cause outside of it: what it waits for did not come in
\* the whole of the time it was given, or the caller let its start go by.
FailsForCause == T!FailsForCause

\* A submit to the EVM that was to check the receipt returns a transaction in a
\* block that its builder describes, and no two submitters the same one.
ReceiptIsOnChain == E!ReceiptIsOnChain

\* The hash of a dry run is the one of the submit that follows, where the fees
\* are set and no one else has used the nonce.
DryHashIsTrue == E!DryHashIsTrue

\* What is relayed and carried out is what was signed, once; and what was signed
\* is relayed.
RelayedIsSigned == G!RelayedIsSigned

\* Every issue returns, whatever the endpoints and the network do.
EveryWalletIssueEnds == system = "issue" => EveryIssueEnds

-----------------------------------------------------------------------------
(* The values of the constants.                                            *)

MCCallers == {"a", "b"}
MCUtxos == {"u", "v"}

Checked(kind) == [kind |-> kind, dry |-> FALSE, check |-> TRUE, attempts |-> 1]
Both(a, b) == [c \in MCCallers |-> IF c = "a" THEN a ELSE b]

MCRequests ==
  {Both(Checked("add_validator"), Checked("add_permissionless_validator")),
   Both(Checked("add_subnet_validator"), Checked("create_chain")),
   Both(Checked("create_subnet"), Checked("export")),
   Both(Checked("import"), [Checked("create_subnet") EXCEPT !.attempts = 2]),
   Both([Checked("export") EXCEPT !.check = FALSE], [Checked("export") EXCEPT !.dry = TRUE]),
   Both(Checked("transfer"), Checked("export_x")),
   Both(Checked("import_x"), [Checked("transfer") EXCEPT !.check = FALSE])}

\* An order that is overtaken by an urgent one; two alike, one of them run dry
\* before; and one whose nonce is not yet due beside one that runs dry.
MCSettings ==
  {Both(<<<<"order", "x">>, <<"check_acceptance", TRUE>>>>,
        <<<<"order", "y">>, <<"urgent">>, <<"check_receipt", TRUE>>>>),
   Both(<<<<"order", "x">>, <<"urgent">>, <<"dry_mode", TRUE>>>>,
        <<<<"order", "x">>, <<"check_receipt", TRUE>>, <<"tip", 5>>, <<"cap", 5>>,
          <<"gas", 1>>>>),
   Both(<<<<"order", "x">>, <<"nonce", 1>>, <<"dry_mode", TRUE>>, <<"urgent">>,
          <<"check_acceptance", TRUE>>, <<"check_acceptance", FALSE>>>>,
        <<<<"order", "y">>, <<"check_acceptance", TRUE>>, <<"check_receipt", FALSE>>,
          <<"dry_mode", TRUE>>>>)}

MCEdits == {<<"from", "alice">>, <<"nonce", 1>>, <<"valid_until_time", 12>>}

\* Tenths of a second.
MCSecond == 10
MCDay == 24 * 60 * 60 * MCSecond

With(field, value) == [field |-> field, value |-> value]
Days(days, offset) ==
  [field |-> "validate_period_in_days", days |-> days, offset |-> offset]
MCCheck == With("check_acceptance", TRUE)

\* Every kind with its defaults; two weeks that begin in a minute; a period that
\* begins after the polling is over; one within that of the primary network; an
\* issue that polls for a second only; and one dry and one that does not check.
MCWanted ==
  {[kind |-> k, sets |-> <<MCCheck>>] : k \in DOMAIN Issues} \union
  {[kind |-> "add_validator", sets |-> <<Days(14, 60)>>],
   [kind |-> "add_permissionless_validator",
     sets |-> <<MCCheck, Days(20, 380), With("node_id", "given")>>],
   [kind |-> "add_subnet_validator", sets |-> <<With("end_time", 14 * MCDay), MCCheck>>],
   [kind |-> "import_x",
     sets |-> <<MCCheck, With("poll_initial_wait", 0), With("poll_interval", 5),
                With("poll_timeout", 12)>>],
   [kind |-> "transfer", sets |-> <<With("dry_mode", TRUE)>>],
   [kind |-> "export_x", sets |-> <<>>]}

MCDithers == {0, 31 * MCSecond}
MCLookups == {0, 30 * MCSecond}
MCLatencies == {0, 2 * MCSecond}
MCDelays == {0, 5 * MCSecond, 300 * MCSecond, 100 * MCDay}
MCMinPeriod == 14 * MCDay

MCRegistered == {<<"", "">>, <<"", "s">>}
=============================================================================
