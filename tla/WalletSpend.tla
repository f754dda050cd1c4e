----------------------------- MODULE WalletSpend -----------------------------
(***************************************************************************)
(* How the wallet chooses the inputs of a transaction: spend of the        *)
(* P-chain wallet, which every P-chain transaction but import calls, the   *)
(* loop of the X-chain transfer and export, and that of both imports.  All *)
(* of them go through the UTXOs an endpoint has listed, one per step here, *)
(* and ask the keychain for the signatures of each.                        *)
(*                                                                         *)
(* Outputs are kept with the input they come from: what of its amount is   *)
(* burned or paid, staked, and returned to the owner.  A part that comes   *)
(* from a locked UTXO has its locktime and its owners, any other part is   *)
(* free.  The order inputs and outputs are sorted in is left out.          *)
(***************************************************************************)
EXTENDS Integers, Sequences, SequencesExt

CONSTANTS
  Mine,     \* the addresses of the keychain; the wallet gives it one key
  Now,      \* the clock, which is read once
  Utxos,    \* the UTXOs an endpoint may list
  MaxUtxos, \* bound: how many it lists
  Amounts, Fees, \* of the transactions
  Modulus   \* 2^64 in the code, larger than any sum of the amounts

\* The sum of the first n of the numbers f, and of them all.
TotalTo(f, n) ==
  LET total[k \in 0..Len(f)] == IF k = 0 THEN 0 ELSE total[k - 1] + f[k] IN total[n]

Total(f) == TotalTo(f, Len(f))

Owners == [locktime : Nat, threshold : Nat, addresses : Seq(STRING)]

ASSUME WalletSpendAssumption ==
  /\ Now \in Nat /\ MaxUtxos \in Nat /\ Modulus \in Nat
  /\ Amounts \subseteq Nat /\ Fees \subseteq Nat
  /\ \A a \in Amounts, f \in Fees : a + f < Modulus
  /\ \A u \in Utxos :
       /\ u.avax \in BOOLEAN      \* the asset is AVAX
       /\ u.stakeable \in BOOLEAN \* it has a stakeable_lock_out
       /\ {u.locktime, u.amount} \subseteq Nat /\ u.amount > 0
       /\ u.owners \in Owners

\* All the AVAX there is fits in a u64.
ASSUME SupplyAssumption ==
  \A us \in BoundedSeq(Utxos, MaxUtxos) :
    Total([i \in DOMAIN us |-> IF us[i].avax THEN us[i].amount ELSE 0]) < Modulus

VARIABLES
  how,    \* which of the loops: "spend", "transfer" (or export) or "import"
  utxos,  \* what the endpoint listed
  amount, \* to stake or to transfer
  fee,
  paid,   \* of an export of the P-chain, which asks spend for its fee alone:
          \* the amount of the output it has on the other chain
  phase,  \* "stake", "burn" (both loops of spend, and the others' one),
          \* "done", "failed" or "panicked"
  next,   \* the UTXO the loop is at
  staked, \* amount_staked
  burned, \* amount_burned; of a transfer what is covered; of an import its sum
  used,   \* the inputs, in the order they were chosen
  out     \* amount of the output of an import

vars == <<how, utxos, amount, fee, paid, phase, next, staked, burned, used, out>>
request == <<how, utxos, amount, fee, paid>>

-----------------------------------------------------------------------------
(* The keychain.                                                           *)

NoMatch == <<0>>

\* Mutant: the search goes on after enough keys are found.
MatchThreshold_NoBreak(owners) ==
  LET held == SelectSeq([i \in 1..Len(owners.addresses) |-> i],
                        LAMBDA i : owners.addresses[i] \in Mine)
  IN IF owners.locktime > Now \/ Len(held) < owners.threshold THEN NoMatch ELSE held

\* The loop over the addresses keeps the positions of those it has keys of, and
\* breaks when they are threshold.
MatchThreshold(owners) ==
  LET found[n \in 0..Len(owners.addresses)] ==
        IF n = 0 THEN <<>>
        ELSE LET before == found[n - 1] IN
             IF owners.addresses[n] \in Mine /\ (before = <<>> \/ Len(before) # owners.threshold)
             THEN Append(before, n) ELSE before
      sigs == found[Len(owners.addresses)]
  IN IF owners.locktime > Now \/ Len(sigs) # owners.threshold THEN NoMatch ELSE sigs

Spendable(u) == MatchThreshold(u.owners) # NoMatch

-----------------------------------------------------------------------------
Least(a, b) == IF a <= b THEN a ELSE b

Use(b, s, r) == [utxo |-> next, sigs |-> MatchThreshold(utxos[next].owners),
                 burned |-> b, staked |-> s, returned |-> r]

Here == utxos[next]
AtEnd == next > Len(utxos)

\* The loop goes on with the next UTXO.
Pass == next' = next + 1 /\ UNCHANGED <<request, phase, staked, burned, used, out>>

Stop(p) == phase' = p /\ UNCHANGED <<request, next, staked, burned, used, out>>

\* Mutant: the second loop takes a UTXO that is locked, too.
Locked_Once(u) == u.stakeable /\ u.locktime > Now /\ phase = "stake"
Locked(u) == u.stakeable /\ u.locktime > Now

(* spend: what is locked is staked first.                                  *)

PassUnlocked ==
  /\ how = "spend" /\ phase = "stake" /\ ~AtEnd /\ staked < amount
  /\ ~Here.avax \/ ~Locked(Here) \/ ~Spendable(Here)
  /\ Pass

\* What is left of the UTXO goes to the staked output, and what is staked of
\* it is returned; when nothing is left it is not returned.
StakeLocked ==
  LET s == Least(amount - staked, Here.amount)  rest == Here.amount - s IN
  /\ how = "spend" /\ phase = "stake" /\ ~AtEnd /\ staked < amount
  /\ Here.avax /\ Locked(Here) /\ Spendable(Here)
  /\ staked' = staked + s
  /\ used' = Append(used, Use(0, rest, IF rest > 0 THEN s ELSE 0))
  /\ next' = next + 1
  /\ UNCHANGED <<request, phase, burned, out>>

EndStake ==
  /\ how = "spend" /\ phase = "stake" /\ (AtEnd \/ staked >= amount)
  /\ phase' = "burn" /\ next' = 1
  /\ UNCHANGED <<request, staked, burned, used, out>>

(* spend: then the fee is burned and the rest staked, of what is not locked. *)

\* Mutant: stakes until there is more than enough.
Enough_Strict == burned >= fee /\ staked > amount

Enough == burned >= fee /\ staked >= amount

PassLocked ==
  /\ how = "spend" /\ phase = "burn" /\ ~AtEnd /\ ~Enough
  /\ ~Here.avax \/ Locked(Here) \/ ~Spendable(Here)
  /\ Pass

\* Mutant: what is returned is counted before the staked part is taken off.
BurnFree_ReturnStaked ==
  LET b == Least(fee - burned, Here.amount)
      s == Least(amount - staked, Here.amount - b) IN
  /\ how = "spend" /\ phase = "burn" /\ ~AtEnd /\ ~Enough
  /\ Here.avax /\ ~Locked(Here) /\ Spendable(Here)
  /\ burned' = burned + b /\ staked' = staked + s
  /\ used' = Append(used, Use(b, s, Here.amount - b))
  /\ next' = next + 1
  /\ UNCHANGED <<request, phase, out>>

BurnFree ==
  LET b == Least(fee - burned, Here.amount)
      s == Least(amount - staked, Here.amount - b) IN
  /\ how = "spend" /\ phase = "burn" /\ ~AtEnd /\ ~Enough
  /\ Here.avax /\ ~Locked(Here) /\ Spendable(Here)
  /\ burned' = burned + b /\ staked' = staked + s
  /\ used' = Append(used, Use(b, s, Here.amount - b - s))
  /\ next' = next + 1
  /\ UNCHANGED <<request, phase, out>>

\* Mutant: the loop ends when either amount is reached.
EndSpend_Either ==
  /\ how = "spend" /\ phase = "burn"
  /\ AtEnd \/ burned >= fee \/ staked >= amount
  /\ Stop(IF Enough THEN "done" ELSE "failed")

EndSpend ==
  /\ how = "spend" /\ phase = "burn" /\ (AtEnd \/ Enough)
  /\ Stop(IF Enough THEN "done" ELSE "failed")

-----------------------------------------------------------------------------
(* The transfer and the export of the X-chain: what the UTXOs do not cover *)
(* is not looked at in the end.                                            *)

\* burned is what is covered of amount + fee.
Uncovered == amount + fee - burned

PassPaid ==
  /\ how = "transfer" /\ phase = "burn" /\ ~AtEnd
  /\ ~Here.avax \/ Uncovered = 0 \/ Here.stakeable
  /\ Pass

\* The result of the keychain is unwrapped.
PanicUnspendable ==
  /\ how = "transfer" /\ phase = "burn" /\ ~AtEnd
  /\ Here.avax /\ Uncovered > 0 /\ ~Here.stakeable /\ ~Spendable(Here)
  /\ Stop("panicked")

\* Every input is signed with keys[0], the wallet's one key: where Mine has one
\* address and the threshold is 1 it is the signer of Use.
Pay ==
  LET b == Least(Uncovered, Here.amount) IN
  /\ how = "transfer" /\ phase = "burn" /\ ~AtEnd
  /\ Here.avax /\ Uncovered > 0 /\ ~Here.stakeable /\ Spendable(Here)
  /\ burned' = burned + b
  /\ used' = Append(used, Use(b, 0, Here.amount - b))
  /\ next' = next + 1
  /\ UNCHANGED <<request, phase, staked, out>>

EndTransfer == how = "transfer" /\ phase = "burn" /\ AtEnd /\ Stop("done")

-----------------------------------------------------------------------------
(* The imports: everything there is, less the fee.                         *)

PassImport ==
  /\ how = "import" /\ phase = "burn" /\ ~AtEnd
  /\ ~Here.avax \/ Here.stakeable \/ ~Spendable(Here)
  /\ Pass

TakeImport ==
  /\ how = "import" /\ phase = "burn" /\ ~AtEnd
  /\ Here.avax /\ ~Here.stakeable /\ Spendable(Here)
  /\ burned' = burned + Here.amount
  /\ used' = Append(used, Use(Here.amount, 0, 0))
  /\ next' = next + 1
  /\ UNCHANGED <<request, phase, staked, out>>

NothingToImport ==
  /\ how = "import" /\ phase = "burn" /\ AtEnd /\ used = <<>>
  /\ Stop("failed")

\* The fee is subtracted in u64: where it is more than the sum, a build with
\* overflow checks panics and one without wraps.
EndImport ==
  /\ how = "import" /\ phase = "burn" /\ AtEnd /\ used # <<>>
  /\ \/ /\ phase' = "done"
        /\ out' = (burned + Modulus - fee) % Modulus
     \/ burned < fee /\ phase' = "panicked" /\ UNCHANGED out
  /\ UNCHANGED <<request, next, staked, burned, used>>

-----------------------------------------------------------------------------
\* Only what stakes nothing may be an export, and spend is not told what it pays.
Payments == IF how = "spend" /\ amount = 0 THEN Amounts \cup {0} ELSE {0}

Init ==
  /\ how \in {"spend", "transfer", "import"}
  /\ utxos \in BoundedSeq(Utxos, MaxUtxos)
  /\ amount \in IF how = "import" THEN {0} ELSE Amounts
  /\ fee \in Fees
  /\ paid \in Payments
  /\ phase = IF how = "spend" THEN "stake" ELSE "burn"
  /\ next = 1 /\ staked = 0 /\ burned = 0 /\ used = <<>> /\ out = 0

Next ==
  \/ PassUnlocked \/ StakeLocked \/ EndStake
  \/ PassLocked \/ BurnFree \/ EndSpend
  \/ PassPaid \/ PanicUnspendable \/ Pay \/ EndTransfer
  \/ PassImport \/ TakeImport \/ NothingToImport \/ EndImport

Spec == Init /\ [][Next]_vars

-----------------------------------------------------------------------------
\* No UTXO is consumed by two inputs, also when both loops of spend see it.
NoDoubleSpend ==
  \A i, j \in DOMAIN used : i # j => used[i].utxo # used[j].utxo

\* What the chain asks of the signatures of an input: as many as the threshold
\* says, at distinct places of owners the keychain has the keys of, in order,
\* and the output is not locked to its owners.  Of a transfer or an export of the
\* X-chain this is the input alone: it is signed with keys[0], whatever the
\* keychain says.
SignedByThreshold ==
  \A i \in DOMAIN used :
    LET owners == utxos[used[i].utxo].owners  sigs == used[i].sigs IN
    /\ owners.locktime <= Now /\ Len(sigs) = owners.threshold
    /\ \A k \in DOMAIN sigs : owners.addresses[sigs[k]] \in Mine
    /\ \A k \in 2..Len(sigs) : sigs[k - 1] < sigs[k]

\* Input i is of a locked UTXO.
IsLocked(u) == u.stakeable /\ u.locktime > Now
FromLocked(i) == IsLocked(utxos[used[i].utxo])

\* No UTXO is consumed for nothing: of each input that is not locked some
\* part is burned, paid or staked.
NoneInVain ==
  \A i \in DOMAIN used : used[i].burned + used[i].staked > 0 \/ FromLocked(i)

\* One part of each input, and what of it is not burned and reaches no output of
\* the chain of the UTXOs.
Part(field) == [i \in DOMAIN used |-> used[i][field]]
Amount(i) == utxos[used[i].utxo].amount
Lost(i) == Amount(i) - used[i].burned - used[i].staked - used[i].returned

\* A transaction that is to be signed consumes what it burns, stakes, pays and
\* returns: spend burns the fee, stakes the amount and returns the rest, a transfer
\* that is covered pays the amount and the fee, an import gives all it consumes but the
\* fee.  Left out, as the amounts the code gives there are wrong, are what spend
\* stakes where locked UTXOs are consumed, what is lost where one of them is used up
\* whole, transfers that are not covered, imports of less than the fee, and the
\* exports of the P-chain: nothing is consumed for what they pay, so that what
\* goes out is more than what comes in, by just that amount.
Balanced ==
  LET consumed == Total([i \in DOMAIN used |-> Amount(i)]) IN
  phase = "done" =>
    \/ /\ how = "spend" /\ Total(Part("burned")) = fee
       /\ \/ Total([i \in DOMAIN used |-> Lost(i)]) = paid
          \/ paid # 0 /\ Total([i \in DOMAIN used |-> Lost(i)]) = 0
          \/ \E i \in DOMAIN used : FromLocked(i) /\ used[i].staked = 0
       /\ (\A i \in DOMAIN used : ~FromLocked(i)) => Total(Part("staked")) = amount
    \/ how = "transfer" /\ (burned = amount + fee
         => consumed = amount + fee + Total(Part("returned")))
    \/ how = "import" /\ (burned >= fee => consumed = fee + out)

\* The amounts of the UTXOs that are AVAX and can be spent, of those of them that
\* are locked, and of those that are not.
Mean(u) == u.avax /\ Spendable(u)
Means == [i \in DOMAIN utxos |-> IF Mean(utxos[i]) THEN utxos[i].amount ELSE 0]
LockedMeans ==
  [i \in DOMAIN utxos |-> IF Mean(utxos[i]) /\ IsLocked(utxos[i]) THEN utxos[i].amount ELSE 0]
FreeMeans ==
  [i \in DOMAIN utxos |-> IF Mean(utxos[i]) /\ ~IsLocked(utxos[i]) THEN utxos[i].amount ELSE 0]

\* spend fails only where the keys do not have the means: what is not locked
\* must cover the fee, and all of it the fee and the stake.  It succeeds only
\* where they do.  An import fails only if there is nothing to import.
FailsOnlyShort ==
  /\ how = "spend" /\ phase \in {"done", "failed"}
       => (phase = "done" <=> Total(FreeMeans) >= fee /\ Total(Means) >= fee + amount)
  /\ how = "import" /\ phase = "failed"
       => \A i \in DOMAIN utxos : ~Mean(utxos[i]) \/ utxos[i].stakeable
=============================================================================
