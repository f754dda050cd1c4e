----------------------------- MODULE IssueTiming -----------------------------
(***************************************************************************)
(* The times in an issue of the wallet.  A builder is made with the        *)
(* defaults of its kind, which for a staking kind hold the period in which *)
(* the node validates, as of then; its setters replace them; and issue     *)
(* hands the transaction over, waits, and polls until it is accepted and,  *)
(* for a staking kind, until the node validates.                           *)
(*                                                                         *)
(* Which endpoint is asked, what fails and what the answers are based on   *)
(* is the subject of WalletIssue.  Here every call is answered, after some *)
(* time, and the contents of the transaction are to the chain's liking.    *)
(* Times are in tenths of a second.                                        *)
(***************************************************************************)
EXTENDS Integers, Sequences

CONSTANTS
  Requests,  \* what a caller may want: the kind, and the setters it calls, in order
  Dithers,   \* how long the caller may take before a step of its own
  Lookups,   \* how long issue may take until it hands the transaction over
  Latencies, \* how long a call for the status may take
  Delays,    \* how long the chain may take to accept a transaction
  MinPeriod, \* the shortest period the chain takes
  MaxIssues  \* how often the caller issues with one builder

Second == 10
Minute == 60 * Second
Day == 24 * 60 * Minute

VARIABLES
  request, \* what this caller wants
  clock,
  builder, \* the Tx<T> of the kind
  setters, \* those not called yet
  place,   \* where the caller is
  handed,  \* when the transaction was handed over
  from,    \* the Instant that both loops measure from
  chain,   \* when it accepts the transaction, and when the node validates from
  said,    \* what issue has returned
  issues   \* how often it has been called

vars == <<request, clock, builder, setters, place, handed, from, chain, said, issues>>

-----------------------------------------------------------------------------
(* The builders, each with the defaults of its new: the times of the       *)
(* period, of which the start is a minute from now, how acceptance is      *)
(* polled for, and what the transaction contains.                          *)

Polled(wait, interval) ==
  [check_acceptance |-> FALSE, poll_initial_wait |-> wait, poll_interval |-> interval,
   poll_timeout |-> 5 * Minute, dry_mode |-> FALSE]

Validates(until) == [start_time |-> Minute, end_time |-> until]

\* A builder has the times of its kind, and its contents, by their names.
Builder(period, polling, contents) ==
  [f \in DOMAIN period \union DOMAIN polling \union contents |->
     IF f \in DOMAIN period THEN period[f]
     ELSE IF f \in DOMAIN polling THEN polling[f] ELSE "default"]

NoPeriod == [f \in {} |-> 0]

add_validator ==
  Builder(Validates(14 * Day + 5 * Minute), Polled(62 * Second, Second),
          {"node_id", "stake_amount", "reward_fee_percent"})
add_permissionless_validator ==
  Builder(Validates(100 * Day), Polled(62 * Second, Second),
          {"node_id", "subnet_id", "stake_amount", "reward_fee_percent",
           "proof_of_possession"})
\* The comments of this one and of add_validator have 14 and 15 days the other
\* way round, so that the period of this one would be within that of the other.
add_subnet_validator ==
  Builder(Validates(15 * Day + 5 * Minute), Polled(62 * Second, Second),
          {"node_id", "subnet_id", "weight"})
create_subnet == Builder(NoPeriod, Polled(15, Second), {"control_keys", "threshold"})
create_chain ==
  Builder(NoPeriod, Polled(15, Second), {"subnet_id", "genesis_data", "vm_id", "chain_name"})
export == Builder(NoPeriod, Polled(15, Second), {"destination_blockchain_id", "amount"})
import == Builder(NoPeriod, Polled(15, Second), {"source_blockchain_id"})
export_x == Builder(NoPeriod, Polled(5, 7), {"destination_blockchain_id", "amount"})
transfer == Builder(NoPeriod, Polled(5, 7), {"receiver", "amount"})
import_x == Builder(NoPeriod, Polled(5, 7), {"source_blockchain_id"})

Builders ==
  [add_validator |-> add_validator,
   add_permissionless_validator |-> add_permissionless_validator,
   add_subnet_validator |-> add_subnet_validator,
   create_subnet |-> create_subnet, create_chain |-> create_chain,
   export |-> export, import |-> import,
   export_x |-> export_x, transfer |-> transfer, import_x |-> import_x]

Stakes == "start_time" \in DOMAIN builder

\* now_unix: whole seconds.
NowUnix == clock - (clock % Second)

\* Every step of the caller comes when it pleases.
After(durations) == \E d \in durations : clock' = clock + d

New ==
  /\ place = "new"
  /\ builder' = LET b == Builders[request.kind] IN
                IF "start_time" \in DOMAIN b
                THEN [b EXCEPT !.start_time = @ + NowUnix, !.end_time = @ + NowUnix]
                ELSE b
  /\ setters' = request.sets
  /\ place' = "set" /\ After(Dithers)
  /\ UNCHANGED <<request, handed, from, chain, said, issues>>

\* Both ends of the period count from now, also where an offset delays the start.
validate_period_in_days(days, offset_seconds) ==
  builder' = [builder EXCEPT !.start_time = NowUnix + offset_seconds * Second,
                             !.end_time = NowUnix + days * Day]

\* A setter assigns its field.
Set ==
  /\ place = "set" /\ setters # <<>>
  /\ LET s == Head(setters) IN
     \/ s.field = "validate_period_in_days" /\ Stakes
        /\ validate_period_in_days(s.days, s.offset)
     \/ s.field \in DOMAIN builder /\ builder' = [builder EXCEPT ![s.field] = s.value]
  /\ setters' = Tail(setters)
  /\ After(Dithers)
  /\ UNCHANGED <<request, place, handed, from, chain, said, issues>>

-----------------------------------------------------------------------------
(* issue.                                                                  *)

Never == 100 * Day
NotYet == [accepted |-> Never, active |-> Never]

Sooner(a, b) == IF a < b THEN a ELSE b
Later(a, b) == IF a > b THEN a ELSE b

\* The node is to validate, or does.
IsAccepted == chain.accepted <= clock
IsValidator == chain.active <= clock

\* A node of the primary network that a default builder added when time began.
Primary == [start |-> Minute, end |-> add_validator.end_time]

\* The period has not begun, is long enough, and that of a subnet is within the
\* one of the primary network.
Takes(b) ==
  /\ b.start_time > clock /\ b.end_time >= b.start_time + MinPeriod
  /\ request.kind = "add_subnet_validator" =>
       b.start_time >= Primary.start /\ b.end_time <= Primary.end

Return(what) == said' = what /\ place' = "said"

\* is_primary_network_validator or is_subnet_validator.
Begin ==
  /\ place = "set" /\ setters = <<>>
  /\ issues' = issues + 1
  /\ IF Stakes /\ IsValidator
     THEN Return("already")
     ELSE place' = "issue" /\ UNCHANGED said
  /\ After(Lookups)
  /\ UNCHANGED <<request, builder, setters, handed, from, chain>>

\* The chain accepts the transaction when it does, if not one of an issue before,
\* and the node validates from the start of its period on.
Accept ==
  \E d \in Delays :
    LET at == Sooner(chain.accepted, clock + d) IN
    chain' = [accepted |-> at, active |-> IF Stakes THEN Later(at, builder.start_time) ELSE Never]

\* issue_tx, unless in dry mode, and what it answers.  After it the caller sleeps.
Issue ==
  /\ place = "issue"
  /\ \/ builder.dry_mode /\ Return("dry") /\ UNCHANGED <<clock, handed, chain>>
     \/ /\ ~builder.dry_mode /\ Stakes /\ (IsAccepted \/ ~Takes(builder))
        /\ Return(IF IsAccepted THEN "already" ELSE "refused")
        /\ UNCHANGED <<clock, handed, chain>>
     \/ /\ ~builder.dry_mode /\ (Stakes => ~IsAccepted /\ Takes(builder))
        /\ Accept /\ handed' = clock
        /\ IF builder.check_acceptance
           THEN /\ place' = "wait" /\ clock' = clock + builder.poll_initial_wait
                /\ UNCHANGED said
           ELSE Return("issued") /\ UNCHANGED clock
  /\ UNCHANGED <<request, builder, setters, from, issues>>

\* Mutant: the Instant is taken before the initial wait.
StartPolling_BeforeTheWait ==
  /\ place = "wait" /\ from' = handed /\ place' = "status"
  /\ UNCHANGED <<request, clock, builder, setters, handed, chain, said, issues>>

\* After the initial wait the Instant is taken.
StartPolling ==
  /\ place = "wait" /\ from' = clock /\ place' = "status"
  /\ UNCHANGED <<request, clock, builder, setters, handed, chain, said, issues>>

InTime == clock - from <= builder.poll_timeout

\* One round of a loop: the answer is of the time it is given at, and if it is
\* not the one hoped for the task sleeps.
Round(event, found) ==
  \E l \in Latencies :
    IF event <= clock + l
    THEN found /\ clock' = clock + l
    ELSE clock' = clock + l + builder.poll_interval /\ UNCHANGED <<place, said>>

\* Until the status is Committed or Accepted.
PollStatus ==
  /\ place = "status"
  /\ \/ ~InTime /\ Return("not accepted in time") /\ UNCHANGED clock
     \/ /\ InTime
        /\ Round(chain.accepted, IF Stakes THEN place' = "validator" /\ UNCHANGED said
                                 ELSE Return("issued"))
  /\ UNCHANGED <<request, builder, setters, handed, from, chain, issues>>

\* Until the node is a validator; the clock goes on.
PollValidator ==
  /\ place = "validator"
  /\ \/ ~InTime /\ Return("not validating in time") /\ UNCHANGED clock
     \/ InTime /\ Round(chain.active, Return("issued"))
  /\ UNCHANGED <<request, builder, setters, handed, from, chain, issues>>

Late == {"not accepted in time", "not validating in time"}

\* Both say that it may be tried again; a caller that stakes does.
Retry ==
  /\ place = "said" /\ said \in Late /\ issues < MaxIssues /\ Stakes
  /\ place' = "set" /\ said' = "nothing" /\ handed' = Never /\ After(Dithers)
  /\ UNCHANGED <<request, builder, setters, from, chain, issues>>

-----------------------------------------------------------------------------
Init ==
  /\ request \in Requests
  /\ clock = 7 /\ place = "new" /\ builder = NoPeriod /\ setters = <<>>
  /\ handed = Never /\ from = 0 /\ chain = NotYet /\ said = "nothing" /\ issues = 0

Next ==
  \/ New \/ Set \/ Begin \/ Issue \/ StartPolling \/ PollStatus \/ PollValidator \/ Retry

Spec == Init /\ [][Next]_vars

-----------------------------------------------------------------------------
Deadline == handed + builder.poll_initial_wait + builder.poll_timeout

\* The longest that passes from one answer to the next.
Slack == builder.poll_interval
           + 2 * (CHOOSE l \in Latencies : \A other \in Latencies : other <= l)

SetsPeriod ==
  \E i \in DOMAIN request.sets :
    request.sets[i].field \in {"start_time", "end_time", "validate_period_in_days"}

\* An issue that was to check ends well once the transaction is accepted and the
\* node validates, and says otherwise only for a cause outside of it: what it
\* waits for had not come when poll_initial_wait and the whole of poll_timeout had
\* passed since it handed the transaction over, and it says so no later than one
\* round after.  One that stakes in the primary network with the default period
\* is refused only if the caller has let the minute to its start go by.
FailsForCause ==
  /\ said = "issued" /\ builder.check_acceptance =>
       IsAccepted /\ (Stakes => IsValidator)
  /\ said = "already" => IsAccepted
  /\ said = "not accepted in time" => chain.accepted > Deadline - Slack
  /\ said = "not validating in time" => chain.active > Deadline - Slack
  /\ said \in Late => clock > Deadline /\ clock <= Deadline + Slack
  /\ said = "refused" /\ ~SetsPeriod /\ request.kind # "add_subnet_validator" =>
       builder.start_time <= clock
=============================================================================
