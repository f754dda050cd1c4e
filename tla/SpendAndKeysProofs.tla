-------------------------- MODULE SpendAndKeysProofs -------------------------
(***************************************************************************)
(* Proofs about the wallet's choice of inputs and about keys.  WalletSpend,*)
(* for any lists of UTXOs, keys, amounts and fees: which inputs the loops  *)
(* choose, how they are signed, that what goes in comes out, and when      *)
(* spend fails.  Induction over a list is by the least place at which what *)
(* is claimed would not hold.  Then the identity of a node (StakingKeys)   *)
(* and the signers (Signing).                                              *)
(***************************************************************************)
EXTENDS MCWalletAndData, SequenceTheorems, WellFoundedInduction, TLAPS

-----------------------------------------------------------------------------
(* The inductive invariant.                                                *)

\* The running totals never pass what they are to reach.
Totals ==
  /\ how \in {"spend", "transfer", "import"}
  /\ utxos \in Seq(Utxos) /\ next \in Nat \ {0}
  /\ amount \in Nat /\ fee \in Nat /\ burned \in Nat /\ staked \in Nat
  /\ how = "spend" => burned <= fee /\ staked <= amount
  /\ how = "transfer" => burned <= amount + fee

\* The inputs are of UTXOs the loop has passed, or were taken by the first
\* loop, which takes what is locked and nothing else.
Passed ==
  /\ \E S : used \in Seq(S)
  /\ \A i \in DOMAIN used :
       /\ used[i].utxo \in Nat
       /\ used[i].utxo < next \/ (FromLocked(i) /\ phase # "stake")
       /\ phase = "stake" => FromLocked(i)

ChoiceInv == Totals /\ Passed /\ NoDoubleSpend /\ NoneInVain

LEMMA AppendFacts ==
  ASSUME NEW s, \E S : s \in Seq(S), NEW e
  PROVE  /\ \E S : Append(s, e) \in Seq(S)
         /\ DOMAIN Append(s, e) = DOMAIN s \cup {Len(s) + 1}
         /\ Append(s, e)[Len(s) + 1] = e
         /\ \A i \in DOMAIN s : Append(s, e)[i] = s[i]
<1>1. PICK S : s \in Seq(S)
  OBVIOUS
<1>2. s \in Seq(S \cup {e})
  BY <1>1
<1>3. Append(s, e) \in Seq(S \cup {e})
  BY <1>2
<1> QED
  BY <1>2, <1>3

LEMMA HereType ==
  ASSUME Totals, ~AtEnd
  PROVE  /\ Here \in Utxos
         /\ Here.amount \in Nat /\ Here.amount > 0
  BY WalletSpendAssumption DEF Totals, AtEnd, Here

LEMMA ChoiceInit == Init => ChoiceInv
<1> SUFFICES ASSUME Init PROVE ChoiceInv
  OBVIOUS
<1>1. utxos \in Seq(Utxos)
  <2>1. PICK m \in 0..MaxUtxos : utxos \in [1..m -> Utxos]
    BY DEF Init, BoundedSeq, SeqOf
  <2> QED
    BY <2>1, WalletSpendAssumption
<1>2. amount \in Nat /\ fee \in Nat
  BY WalletSpendAssumption DEF Init
<1>3. used \in Seq({}) /\ DOMAIN used = {}
  BY DEF Init
<1>4. \E S : used \in Seq(S)
  BY <1>3
<1> QED
  BY <1>1, <1>2, <1>3, <1>4 DEF ChoiceInv, Totals, Passed, NoDoubleSpend, NoneInVain, Init

-----------------------------------------------------------------------------
(* Steps that choose no input.                                             *)

LEMMA Choosing ==
  ASSUME ChoiceInv, UNCHANGED <<utxos, used>>,
         next' \in Nat \ {0},
         phase' = "stake" => phase = "stake",
         next' >= next \/ (phase = "stake" /\ phase' # "stake")
  PROVE  Passed' /\ NoDoubleSpend' /\ NoneInVain'
<1>1. next \in Nat
  BY DEF ChoiceInv, Totals
<1>2. \A i \in DOMAIN used : FromLocked(i)' <=> FromLocked(i)
  BY DEF FromLocked, IsLocked
<1>3. Passed'
  BY <1>1, <1>2 DEF ChoiceInv, Passed
<1> QED
  BY <1>2, <1>3 DEF ChoiceInv, NoDoubleSpend, NoneInVain

-----------------------------------------------------------------------------
(* Steps that choose one: the first loop what is locked, the others what   *)
(* is not, and some part of it is burned, paid or staked.                  *)

LEMMA ChosenInput ==
  ASSUME ChoiceInv, ~AtEnd, UNCHANGED <<utxos, phase>>, next' = next + 1,
         NEW b \in Nat, NEW s \in Nat, NEW r,
         used' = Append(used, Use(b, s, r)),
         phase = "stake" <=> Here.stakeable /\ Here.locktime > Now,
         b + s > 0 \/ phase = "stake"
  PROVE  Passed' /\ NoDoubleSpend' /\ NoneInVain'
<1>0. PICK n : n = Len(used) + 1
  OBVIOUS
<1>1. /\ \E S : used' \in Seq(S)
      /\ DOMAIN used' = DOMAIN used \cup {n}
      /\ used'[n] = Use(b, s, r)
      /\ \A i \in DOMAIN used : used'[i] = used[i]
  <2>1. \E S : used \in Seq(S)
    BY DEF ChoiceInv, Passed
  <2> DEFINE e == Use(b, s, r)
  <2>2. used' = Append(used, e)
    OBVIOUS
  <2> HIDE DEF e
  <2>3. /\ \E S : Append(used, e) \in Seq(S)
        /\ DOMAIN Append(used, e) = DOMAIN used \cup {Len(used) + 1}
        /\ Append(used, e)[Len(used) + 1] = e
        /\ \A i \in DOMAIN used : Append(used, e)[i] = used[i]
    BY <2>1, AppendFacts, ZenonT(60)
  <2> QED
    BY <1>0, <2>2, <2>3 DEF e
<1>2. next \in Nat
  BY DEF ChoiceInv, Totals
<1>3. used'[n].utxo = next /\ used'[n].burned = b /\ used'[n].staked = s
  BY <1>1 DEF Use
<1>4. /\ FromLocked(n)' <=> phase = "stake"
      /\ \A i \in DOMAIN used : FromLocked(i)' <=> FromLocked(i)
  BY <1>1, <1>3 DEF FromLocked, IsLocked, Here
<1>5. \A i \in DOMAIN used : used[i].utxo # next
  <2> SUFFICES ASSUME NEW i \in DOMAIN used, used[i].utxo = next PROVE FALSE
    OBVIOUS
  <2>1. FromLocked(i) /\ phase # "stake"
    BY <1>2 DEF ChoiceInv, Passed
  <2> QED
    BY <2>1 DEF FromLocked, IsLocked, Here
<1>6. Passed'
  BY <1>1, <1>2, <1>3, <1>4 DEF ChoiceInv, Passed
<1>7. NoDoubleSpend'
  BY <1>1, <1>3, <1>5 DEF ChoiceInv, NoDoubleSpend
<1>8. NoneInVain'
  BY <1>1, <1>3, <1>4 DEF ChoiceInv, NoneInVain
<1> QED
  BY <1>6, <1>7, <1>8

-----------------------------------------------------------------------------
LEMMA ChoiceNext == ChoiceInv /\ [Next]_vars => ChoiceInv'
<1> SUFFICES ASSUME ChoiceInv, [Next]_vars PROVE ChoiceInv'
  OBVIOUS
<1> USE DEF request
<1>0. Totals
  BY DEF ChoiceInv
<1>1. ASSUME PassUnlocked \/ PassLocked \/ PassPaid \/ PassImport PROVE ChoiceInv'
  <2>1. Pass
    BY <1>1 DEF PassUnlocked, PassLocked, PassPaid, PassImport
  <2>2. Totals'
    BY <1>0, <2>1 DEF Pass, Totals
  <2>3. Passed' /\ NoDoubleSpend' /\ NoneInVain'
    <3>1. next' \in Nat \ {0} /\ next' >= next
      BY <1>0, <2>1 DEF Pass, Totals
    <3> QED
      BY <2>1, <3>1, Choosing DEF Pass
  <2> QED
    BY <2>2, <2>3 DEF ChoiceInv
<1>2. ASSUME EndSpend \/ PanicUnspendable \/ EndTransfer \/ NothingToImport \/ EndImport
      PROVE  ChoiceInv'
  <2>1. /\ UNCHANGED <<how, utxos, amount, fee, next, staked, burned, used>>
        /\ phase' \in {"done", "failed", "panicked"}
    BY <1>2 DEF EndSpend, PanicUnspendable, EndTransfer, NothingToImport, EndImport, Stop
  <2>2. Totals'
    BY <1>0, <2>1 DEF Totals
  <2>3. Passed' /\ NoDoubleSpend' /\ NoneInVain'
    <3>1. next' \in Nat \ {0} /\ next' >= next
      BY <1>0, <2>1 DEF Totals
    <3> QED
      BY <2>1, <3>1, Choosing
  <2> QED
    BY <2>2, <2>3 DEF ChoiceInv
<1>3. ASSUME EndStake PROVE ChoiceInv'
  <2>1. Totals'
    BY <1>0, <1>3 DEF EndStake, Totals
  <2>2. Passed' /\ NoDoubleSpend' /\ NoneInVain'
    BY <1>3, Choosing DEF EndStake
  <2> QED
    BY <2>1, <2>2 DEF ChoiceInv
<1>4. ASSUME StakeLocked PROVE ChoiceInv'
  <2> DEFINE s == Least(amount - staked, Here.amount)
             rest == Here.amount - s
  <2>1. /\ how = "spend" /\ phase = "stake" /\ ~AtEnd /\ staked < amount
        /\ Here.stakeable /\ Here.locktime > Now
        /\ staked' = staked + s /\ next' = next + 1
        /\ used' = Append(used, Use(0, rest, IF rest > 0 THEN s ELSE 0))
        /\ UNCHANGED <<how, utxos, amount, fee, phase, burned>>
    BY <1>4 DEF StakeLocked, Locked
  <2>2. s \in Nat /\ rest \in Nat /\ staked + s <= amount
    BY <1>0, <2>1, HereType DEF Totals, Least
  <2>3. Totals'
    BY <1>0, <2>1, <2>2 DEF Totals
  <2>4. Passed' /\ NoDoubleSpend' /\ NoneInVain'
    <3> HIDE DEF s, rest
    <3> QED
      BY <2>1, <2>2, ChosenInput
  <2> QED
    BY <2>3, <2>4 DEF ChoiceInv
<1>5. ASSUME BurnFree PROVE ChoiceInv'
  <2> DEFINE b == Least(fee - burned, Here.amount)
             s == Least(amount - staked, Here.amount - b)
  <2>1. /\ how = "spend" /\ phase = "burn" /\ ~AtEnd /\ ~Enough
        /\ ~(Here.stakeable /\ Here.locktime > Now)
        /\ burned' = burned + b /\ staked' = staked + s /\ next' = next + 1
        /\ used' = Append(used, Use(b, s, Here.amount - b - s))
        /\ UNCHANGED <<how, utxos, amount, fee, phase>>
    BY <1>5 DEF BurnFree, Locked
  <2>2. b \in Nat /\ s \in Nat /\ burned + b <= fee /\ staked + s <= amount /\ b + s > 0
    BY <1>0, <2>1, HereType DEF Totals, Least, Enough
  <2>3. Totals'
    BY <1>0, <2>1, <2>2 DEF Totals
  <2>4. Passed' /\ NoDoubleSpend' /\ NoneInVain'
    <3> HIDE DEF b, s
    <3> QED
      BY <2>1, <2>2, ChosenInput
  <2> QED
    BY <2>3, <2>4 DEF ChoiceInv
<1>6. ASSUME Pay PROVE ChoiceInv'
  <2> DEFINE b == Least(Uncovered, Here.amount)
  <2>1. /\ how = "transfer" /\ phase = "burn" /\ ~AtEnd
        /\ Uncovered > 0 /\ ~Here.stakeable
        /\ burned' = burned + b /\ next' = next + 1
        /\ used' = Append(used, Use(b, 0, Here.amount - b))
        /\ UNCHANGED <<how, utxos, amount, fee, phase, staked>>
    BY <1>6 DEF Pay
  <2>2. b \in Nat /\ burned + b <= amount + fee /\ b > 0
    BY <1>0, <2>1, HereType DEF Totals, Least, Uncovered
  <2>3. Totals'
    BY <1>0, <2>1, <2>2 DEF Totals
  <2>4. Passed' /\ NoDoubleSpend' /\ NoneInVain'
    <3> HIDE DEF b
    <3> QED
      BY <2>1, <2>2, ChosenInput
  <2> QED
    BY <2>3, <2>4 DEF ChoiceInv
<1>7. ASSUME TakeImport PROVE ChoiceInv'
  <2>1. /\ how = "import" /\ phase = "burn" /\ ~AtEnd /\ ~Here.stakeable
        /\ burned' = burned + Here.amount /\ next' = next + 1
        /\ used' = Append(used, Use(Here.amount, 0, 0))
        /\ UNCHANGED <<how, utxos, amount, fee, phase, staked>>
    BY <1>7 DEF TakeImport
  <2>2. Here.amount \in Nat /\ Here.amount > 0
    BY <1>0, <2>1, HereType
  <2>3. Totals'
    BY <1>0, <2>1, <2>2 DEF Totals
  <2>4. Passed' /\ NoDoubleSpend' /\ NoneInVain'
    BY <2>1, <2>2, ChosenInput
  <2> QED
    BY <2>3, <2>4 DEF ChoiceInv
<1>8. CASE UNCHANGED vars
  BY <1>8 DEF vars, ChoiceInv, Totals, Passed, NoDoubleSpend, NoneInVain, FromLocked, IsLocked
<1> QED
  BY <1>1, <1>2, <1>3, <1>4, <1>5, <1>6, <1>7, <1>8 DEF Next

LEMMA ChoiceAlways == Spec => []ChoiceInv
  BY ChoiceInit, ChoiceNext, PTL DEF Spec

\* Whatever an endpoint lists, no loop chooses a UTXO twice, and the second loop
\* of spend none that the first has taken.
THEOREM NothingIsSpentTwice == Spec => []NoDoubleSpend
<1>1. ChoiceInv => NoDoubleSpend
  BY DEF ChoiceInv
<1> QED
  BY <1>1, ChoiceAlways, PTL

\* Whatever an endpoint lists, some part of each input that is not locked is
\* burned, paid or staked: none is consumed only to be returned.
THEOREM NothingIsSpentInVain == Spec => []NoneInVain
<1>1. ChoiceInv => NoneInVain
  BY DEF ChoiceInv
<1> QED
  BY <1>1, ChoiceAlways, PTL
-----------------------------------------------------------------------------
(* Totals.                                                                 *)

\* The least number of a set of them.
LEMMA LeastNumber ==
  ASSUME NEW S, S \subseteq Nat, S # {}
  PROVE  \E n \in S : \A k \in S : n <= k
<1>1. IsWellFoundedOn(OpToRel(<, Nat), Nat)
  BY NatLessThanWellFounded
<1>2. PICK n \in S : \A k \in Nat : <<k, n>> \in OpToRel(<, Nat) => k \notin S
  BY <1>1, WFMin
<1>3. \A k \in S : ~(k < n)
  BY <1>2 DEF OpToRel
<1> QED
  BY <1>3

\* g is the running total of f up to the n-th number.
Running(f, n, g) ==
  /\ DOMAIN g = 0..n
  /\ g = [k \in 0..n |-> IF k = 0 THEN 0 ELSE g[k - 1] + f[k]]

LEMMA RunningExists ==
  ASSUME NEW f, NEW n \in Nat PROVE \E g : Running(f, n, g)
<1> DEFINE S == {k \in Nat : ~\E g : Running(f, k, g)}
<1> SUFFICES ASSUME S # {} PROVE FALSE
  OBVIOUS
<1>1. PICK m \in S : \A k \in S : m <= k
  BY LeastNumber
<1>2. CASE m = 0
  <2> DEFINE g == [k \in 0..0 |-> 0]
  <2>1. Running(f, 0, g)
    BY DEF Running
  <2> QED
    BY <1>2, <2>1
<1>3. CASE m # 0
  <2>1. m - 1 \in Nat /\ m - 1 \notin S
    BY <1>1, <1>3
  <2>2. PICK g : Running(f, m - 1, g)
    BY <2>1
  <2> DEFINE h == [k \in 0..m |-> IF k = m THEN g[m - 1] + f[m] ELSE g[k]]
  <2>3. h = [k \in 0..m |-> IF k = 0 THEN 0 ELSE h[k - 1] + f[k]]
    <3>1. \A k \in 0..m : h[k] = IF k = 0 THEN 0 ELSE h[k - 1] + f[k]
      BY <2>1, <2>2, <1>3 DEF Running
    <3> QED
      BY <3>1
  <2>4. Running(f, m, h)
    BY <2>3 DEF Running
  <2> QED
    BY <2>4
<1> QED
  BY <1>2, <1>3

\* A total is what came before, and one number more.
LEMMA TotalSteps ==
  ASSUME NEW f, Len(f) \in Nat
  PROVE  /\ TotalTo(f, 0) = 0
         /\ \A n \in 1..Len(f) : TotalTo(f, n) = TotalTo(f, n - 1) + f[n]
<1> DEFINE IsTotal(g) == g = [k \in 0..Len(f) |-> IF k = 0 THEN 0 ELSE g[k - 1] + f[k]]
           total == CHOOSE g : IsTotal(g)
<1>1. IsTotal(total)
  <2>1. \E g : IsTotal(g)
    <3>1. PICK g : Running(f, Len(f), g)
      BY RunningExists
    <3>2. IsTotal(g)
      BY <3>1 DEF Running
    <3> QED
      BY <3>2
  <2> QED
    BY <2>1
<1>2. \A n : TotalTo(f, n) = total[n]
  BY DEF TotalTo
<1> HIDE DEF total
<1>3. \A k \in 0..Len(f) : total[k] = IF k = 0 THEN 0 ELSE total[k - 1] + f[k]
  BY <1>1
<1> QED
  BY <1>2, <1>3

LEMMA TotalType ==
  ASSUME NEW f \in Seq(Int)
  PROVE  \A n \in 0..Len(f) : TotalTo(f, n) \in Int
<1> DEFINE S == {n \in 0..Len(f) : TotalTo(f, n) \notin Int}
<1> SUFFICES ASSUME S # {} PROVE FALSE
  OBVIOUS
<1>0. Len(f) \in Nat /\ \A i \in 1..Len(f) : f[i] \in Int
  OBVIOUS
<1>1. PICK m \in S : \A k \in S : m <= k
  <2>1. S \subseteq Nat
    BY <1>0
  <2> QED
    BY <2>1, LeastNumber
<1>2. m # 0
  BY <1>0, TotalSteps
<1>3. m \in 1..Len(f) /\ m - 1 \in 0..Len(f) /\ m - 1 \notin S
  BY <1>0, <1>1, <1>2
<1>4. TotalTo(f, m) = TotalTo(f, m - 1) + f[m]
  BY <1>0, <1>3, TotalSteps
<1> QED
  BY <1>0, <1>3, <1>4

\* Totals of numbers one of which is at most the other, place by place.
LEMMA TotalAtMost ==
  ASSUME NEW f \in Seq(Int), NEW g \in Seq(Int), NEW n \in 0..Len(f), n <= Len(g),
         \A i \in 1..n : f[i] <= g[i]
  PROVE  TotalTo(f, n) <= TotalTo(g, n)
<1> DEFINE S == {k \in 0..n : ~(TotalTo(f, k) <= TotalTo(g, k))}
<1> SUFFICES ASSUME S # {} PROVE FALSE
  BY DEF S
<1>0. /\ Len(f) \in Nat /\ Len(g) \in Nat /\ n \in Nat
      /\ \A i \in 1..Len(f) : f[i] \in Int
      /\ \A i \in 1..Len(g) : g[i] \in Int
  OBVIOUS
<1>1. PICK m \in S : \A k \in S : m <= k
  <2>1. S \subseteq Nat
    BY <1>0
  <2> QED
    BY <2>1, LeastNumber
<1>2. m # 0
  BY <1>0, TotalSteps
<1>3. m \in 1..n /\ m \in 1..Len(f) /\ m \in 1..Len(g) /\ m - 1 \in 0..n /\ m - 1 \notin S
  BY <1>0, <1>1, <1>2
<1>4. /\ TotalTo(f, m) = TotalTo(f, m - 1) + f[m]
      /\ TotalTo(g, m) = TotalTo(g, m - 1) + g[m]
  BY <1>0, <1>3, TotalSteps
<1>5. /\ TotalTo(f, m - 1) \in Int /\ TotalTo(g, m - 1) \in Int
      /\ TotalTo(f, m - 1) <= TotalTo(g, m - 1)
  BY <1>0, <1>3, TotalType, SMTT(60)
<1>6. f[m] \in Int /\ g[m] \in Int /\ f[m] <= g[m]
  BY <1>0, <1>3
<1>7. TotalTo(f, m) <= TotalTo(g, m)
  BY <1>4, <1>5, <1>6, SMTT(60)
<1> QED
  BY <1>3, <1>7

LEMMA TotalSame ==
  ASSUME NEW f \in Seq(Int), NEW g \in Seq(Int), NEW n \in 0..Len(f), n <= Len(g),
         \A i \in 1..n : f[i] = g[i]
  PROVE  TotalTo(f, n) = TotalTo(g, n)
<1>1. /\ Len(f) \in Nat /\ Len(g) \in Nat
      /\ \A i \in 1..Len(f) : f[i] \in Int
      /\ \A i \in 1..Len(g) : g[i] \in Int
  OBVIOUS
<1>2. n \in 0..Len(g) /\ n <= Len(f)
  BY <1>1
<1>3. \A i \in 1..n : f[i] <= g[i] /\ g[i] <= f[i]
  BY <1>1
<1>4. TotalTo(f, n) <= TotalTo(g, n) /\ TotalTo(g, n) <= TotalTo(f, n)
  BY <1>2, <1>3, TotalAtMost
<1>5. TotalTo(f, n) \in Int /\ TotalTo(g, n) \in Int
  BY <1>2, TotalType
<1> QED
  BY <1>4, <1>5

\* One number more.
LEMMA TotalGrows ==
  ASSUME NEW f \in Seq(Int), NEW g \in Seq(Int), Len(g) = Len(f) + 1,
         \A i \in 1..Len(f) : g[i] = f[i]
  PROVE  Total(g) = Total(f) + g[Len(f) + 1]
<1>1. Len(f) \in Nat /\ Len(f) \in 0..Len(f) /\ Len(f) <= Len(g)
      /\ Len(f) + 1 \in 1..Len(g) /\ (Len(f) + 1) - 1 = Len(f)
  OBVIOUS
<1>2. TotalTo(f, Len(f)) = TotalTo(g, Len(f))
  BY <1>1, TotalSame
<1>3. TotalTo(g, Len(f) + 1) = TotalTo(g, Len(f)) + g[Len(f) + 1]
  BY <1>1, TotalSteps
<1> QED
  BY <1>2, <1>3 DEF Total

\* The total of two numbers at each place.
LEMMA TotalOfBoth ==
  ASSUME NEW f \in Seq(Int), NEW g \in Seq(Int), NEW h \in Seq(Int),
         Len(f) = Len(h), Len(g) = Len(h), \A i \in 1..Len(h) : h[i] = f[i] + g[i]
  PROVE  Total(h) = Total(f) + Total(g)
<1> DEFINE S == {k \in 0..Len(h) : TotalTo(h, k) # TotalTo(f, k) + TotalTo(g, k)}
<1>0. /\ Len(f) \in Nat /\ Len(h) \in Nat /\ Len(g) \in Nat
      /\ \A i \in 1..Len(h) : f[i] \in Int /\ g[i] \in Int /\ h[i] \in Int
  OBVIOUS
<1>1. S = {}
  <2> SUFFICES ASSUME S # {} PROVE FALSE
    OBVIOUS
  <2>1. PICK m \in S : \A k \in S : m <= k
    <3>1. S \subseteq Nat
      BY <1>0
    <3> QED
      BY <3>1, LeastNumber
  <2>2. m # 0
    BY <1>0, TotalSteps
  <2>3. m \in 1..Len(h) /\ m - 1 \in 0..Len(h) /\ m - 1 \notin S
    BY <1>0, <2>1, <2>2
  <2>4. /\ TotalTo(f, m) = TotalTo(f, m - 1) + f[m]
        /\ TotalTo(g, m) = TotalTo(g, m - 1) + g[m]
        /\ TotalTo(h, m) = TotalTo(h, m - 1) + h[m]
    BY <1>0, <2>3, TotalSteps
  <2>5. /\ TotalTo(f, m - 1) \in Int /\ TotalTo(g, m - 1) \in Int
        /\ TotalTo(h, m - 1) = TotalTo(f, m - 1) + TotalTo(g, m - 1)
    BY <1>0, <2>3, TotalType
  <2>6. f[m] \in Int /\ g[m] \in Int /\ h[m] = f[m] + g[m]
    BY <1>0, <2>3
  <2>7. TotalTo(h, m) = TotalTo(f, m) + TotalTo(g, m)
    BY <2>4, <2>5, <2>6
  <2> QED
    BY <2>1, <2>7
<1>2. Len(h) \in 0..Len(h)
  BY <1>0
<1>3. TotalTo(h, Len(h)) = TotalTo(f, Len(h)) + TotalTo(g, Len(h))
  BY <1>1, <1>2
<1> QED
  BY <1>3 DEF Total

\* The total of some of the first natural numbers is at most that of them all.
LEMMA TotalOfFewer ==
  ASSUME NEW f \in Seq(Int), \A i \in 1..Len(f) : f[i] >= 0, NEW n \in 0..Len(f)
  PROVE  0 <= TotalTo(f, n) /\ TotalTo(f, n) <= Total(f)
<1>0. Len(f) \in Nat /\ \A i \in 1..Len(f) : f[i] \in Int
  OBVIOUS
<1> DEFINE S == {d \in Nat : d <= Len(f) /\ ~(TotalTo(f, Len(f) - d) <= Total(f))}
           Z == {k \in 0..Len(f) : ~(0 <= TotalTo(f, k))}
<1>1. S = {}
  <2> SUFFICES ASSUME S # {} PROVE FALSE
    OBVIOUS
  <2>1. PICK m \in S : \A k \in S : m <= k
    BY LeastNumber
  <2>2. m # 0
    <3>1. Len(f) - 0 = Len(f) /\ TotalTo(f, Len(f)) \in Int
      BY <1>0, TotalType
    <3> QED
      BY <2>1, <3>1 DEF Total
  <2> DEFINE k == Len(f) - m
  <2>3. /\ k \in 0..Len(f) /\ k + 1 \in 1..Len(f) /\ (k + 1) - 1 = k
        /\ m - 1 \in Nat /\ m - 1 <= Len(f) /\ m - 1 \notin S /\ Len(f) - (m - 1) = k + 1
        /\ k + 1 \in 0..Len(f) /\ ~(TotalTo(f, k) <= Total(f))
    <3>1. m \in Nat /\ m <= Len(f) /\ ~(TotalTo(f, k) <= Total(f))
      BY <2>1
    <3>2. m - 1 \in Nat /\ ~(m <= m - 1)
      BY <3>1, <2>2
    <3>3. m - 1 \notin S
      BY <2>1, <3>2
    <3> HIDE DEF S
    <3> QED
      BY <1>0, <2>2, <3>1, <3>2, <3>3
  <2> HIDE DEF k
  <2>4. TotalTo(f, k + 1) = TotalTo(f, k) + f[k + 1]
    BY <1>0, <2>3, TotalSteps
  <2>5. TotalTo(f, k + 1) <= Total(f)
    BY <2>3
  <2>6. TotalTo(f, k) \in Int /\ TotalTo(f, k + 1) \in Int /\ Total(f) \in Int
    <3>1. Len(f) \in 0..Len(f)
      BY <1>0
    <3> QED
      BY <2>3, <3>1, TotalType DEF Total
  <2>7. f[k + 1] \in Int /\ f[k + 1] >= 0
    BY <1>0, <2>3
  <2> QED
    BY <2>3, <2>4, <2>5, <2>6, <2>7, SMTT(60)
<1>2. Z = {}
  <2> SUFFICES ASSUME Z # {} PROVE FALSE
    OBVIOUS
  <2>1. PICK m \in Z : \A k \in Z : m <= k
    <3>1. Z \subseteq Nat
      BY <1>0
    <3> QED
      BY <3>1, LeastNumber
  <2>2. m # 0
    BY <1>0, TotalSteps
  <2>3. m \in 1..Len(f) /\ m - 1 \in 0..Len(f) /\ m - 1 \notin Z
    BY <1>0, <2>1, <2>2
  <2>4. TotalTo(f, m) = TotalTo(f, m - 1) + f[m] /\ TotalTo(f, m - 1) \in Int
    BY <1>0, <2>3, TotalSteps, TotalType
  <2>5. f[m] \in Int /\ f[m] >= 0
    BY <1>0, <2>3
  <2> QED
    BY <2>1, <2>3, <2>4, <2>5
<1>3. Len(f) - n \in Nat /\ Len(f) - n <= Len(f) /\ Len(f) - (Len(f) - n) = n
  BY <1>0
<1>4. TotalTo(f, n) <= Total(f)
  BY <1>1, <1>3
<1> QED
  BY <1>2, <1>4
-----------------------------------------------------------------------------
(* The keychain: what match_threshold finds.                               *)

\* The loop over the first n addresses, step by step.
Searching(owners, n, g) ==
  /\ DOMAIN g = 0..n
  /\ g = [k \in 0..n |->
            IF k = 0 THEN <<>>
            ELSE IF owners.addresses[k] \in Mine
                      /\ (g[k - 1] = <<>> \/ Len(g[k - 1]) # owners.threshold)
                 THEN Append(g[k - 1], k) ELSE g[k - 1]]

LEMMA SearchExists ==
  ASSUME NEW owners, NEW n \in Nat PROVE \E g : Searching(owners, n, g)
<1> DEFINE S == {k \in Nat : ~\E g : Searching(owners, k, g)}
           Step(k, before) ==
             IF owners.addresses[k] \in Mine
                  /\ (before = <<>> \/ Len(before) # owners.threshold)
             THEN Append(before, k) ELSE before
<1> SUFFICES ASSUME S # {} PROVE FALSE
  OBVIOUS
<1>1. PICK m \in S : \A k \in S : m <= k
  BY LeastNumber
<1>2. CASE m = 0
  <2> DEFINE g == [k \in 0..0 |-> <<>>]
  <2>1. Searching(owners, 0, g)
    BY DEF Searching
  <2> QED
    BY <1>2, <2>1
<1>3. CASE m # 0
  <2>1. m - 1 \in Nat /\ m - 1 \notin S
    BY <1>1, <1>3
  <2>2. PICK g : Searching(owners, m - 1, g)
    BY <2>1
  <2>3. /\ DOMAIN g = 0..(m - 1)
        /\ \A k \in 0..(m - 1) : g[k] = IF k = 0 THEN <<>> ELSE Step(k, g[k - 1])
    BY <2>2 DEF Searching
  <2> DEFINE h == [k \in 0..m |-> IF k = m THEN Step(m, g[m - 1]) ELSE g[k]]
  <2>4. h = [k \in 0..m |-> IF k = 0 THEN <<>> ELSE Step(k, h[k - 1])]
    <3> HIDE DEF Step
    <3>1. \A k \in 0..m : h[k] = IF k = 0 THEN <<>> ELSE Step(k, h[k - 1])
      BY <2>1, <2>3, <1>3
    <3> QED
      BY <3>1
  <2>5. Searching(owners, m, h)
    BY <2>4 DEF Searching
  <2> QED
    BY <2>5
<1> QED
  BY <1>2, <1>3

\* sigs are places, in ascending order, of addresses the keychain has keys of,
\* among the first n.
Places(sigs, owners, n) ==
  /\ sigs \in Seq(1..n)
  /\ \A k \in DOMAIN sigs : owners.addresses[sigs[k]] \in Mine
  /\ \A k \in 2..Len(sigs) : sigs[k - 1] < sigs[k]

LEMMA PlacesGrow ==
  ASSUME NEW owners, NEW n \in Nat, NEW sigs, Places(sigs, owners, n)
  PROVE  /\ Places(sigs, owners, n + 1)
         /\ owners.addresses[n + 1] \in Mine => Places(Append(sigs, n + 1), owners, n + 1)
<1> DEFINE e == n + 1
           S == 1..n
           Below == 1..e
<1>1. sigs \in Seq(Below)
  <2>1. sigs \in Seq(S) /\ S \subseteq Below
    BY DEF Places
  <2> HIDE DEF S, Below
  <2>2. Len(sigs) \in Nat /\ DOMAIN sigs = 1..Len(sigs) /\ \A i \in 1..Len(sigs) : sigs[i] \in S
    BY <2>1, ElementOfSeq, LenProperties
  <2>3. sigs = [i \in 1..Len(sigs) |-> sigs[i]]
    BY <2>1, LenProperties
  <2>4. [i \in 1..Len(sigs) |-> sigs[i]] \in Seq(Below)
    BY <2>1, <2>2, IsASeq
  <2> QED
    BY <2>3, <2>4
<1>2. Places(sigs, owners, n + 1)
  BY <1>1 DEF Places
<1>3. ASSUME owners.addresses[n + 1] \in Mine
      PROVE  Places(Append(sigs, n + 1), owners, n + 1)
  <2>1. e \in Below /\ e = n + 1
    OBVIOUS
  <2> HIDE DEF e
  <2> DEFINE t == Append(sigs, e)
  <2> HIDE DEF Below
  <2>2. /\ t \in Seq(Below) /\ Len(sigs) \in Nat /\ Len(t) = Len(sigs) + 1
        /\ \A i \in 1..Len(sigs) : t[i] = sigs[i]
        /\ t[Len(sigs) + 1] = e
    BY <1>1, <2>1, AppendProperties, LenProperties
  <2>3. DOMAIN t = 1..(Len(sigs) + 1) /\ DOMAIN sigs = 1..Len(sigs)
    BY <1>1, <2>2, LenProperties
  <2> HIDE DEF t
  <2>4. \A k \in DOMAIN t : owners.addresses[t[k]] \in Mine
    <3>1. \A k \in 1..Len(sigs) : owners.addresses[t[k]] \in Mine
      BY <2>2, <2>3 DEF Places
    <3>2. owners.addresses[t[Len(sigs) + 1]] \in Mine
      BY <1>3, <2>1, <2>2
    <3> QED
      BY <2>2, <2>3, <3>1, <3>2
  <2>5. \A i \in 1..Len(sigs) : sigs[i] \in 1..n
    BY <2>3 DEF Places
  <2>6. \A k \in 2..Len(t) : t[k - 1] < t[k]
    <3> SUFFICES ASSUME NEW k \in 2..(Len(sigs) + 1) PROVE t[k - 1] < t[k]
      BY <2>2
    <3>1. CASE k \in 2..Len(sigs)
      <4>1. k - 1 \in 1..Len(sigs) /\ k \in 1..Len(sigs)
        BY <3>1, <2>2
      <4> QED
        BY <2>2, <3>1, <4>1 DEF Places
    <3>2. CASE k = Len(sigs) + 1
      <4>1. k - 1 = Len(sigs) /\ Len(sigs) \in 1..Len(sigs)
        BY <3>2, <2>2
      <4>2. t[k - 1] = sigs[Len(sigs)] /\ sigs[Len(sigs)] \in 1..n /\ t[k] = n + 1
        BY <2>1, <2>2, <2>5, <3>2, <4>1
      <4> QED
        BY <4>2
    <3> QED
      BY <2>2, <3>1, <3>2
  <2>7. t \in Seq(1..(n + 1))
    BY <2>1, <2>2 DEF Below
  <2> QED
    BY <2>1, <2>4, <2>6, <2>7 DEF Places, t
<1> QED
  BY <1>2, <1>3

\* What match_threshold returns is what the chain asks for.
LEMMA MatchIsSigned ==
  ASSUME NEW owners, Len(owners.addresses) \in Nat, owners.locktime \in Nat,
         MatchThreshold(owners) # NoMatch
  PROVE  LET sigs == MatchThreshold(owners) IN
         /\ owners.locktime <= Now
         /\ Len(sigs) = owners.threshold
         /\ \A k \in DOMAIN sigs : owners.addresses[sigs[k]] \in Mine
         /\ \A k \in 2..Len(sigs) : sigs[k - 1] < sigs[k]
<1> DEFINE n == Len(owners.addresses)
           Step(k, before) ==
             IF owners.addresses[k] \in Mine
                  /\ (before = <<>> \/ Len(before) # owners.threshold)
             THEN Append(before, k) ELSE before
           IsSearch(g) == g = [k \in 0..n |-> IF k = 0 THEN <<>> ELSE Step(k, g[k - 1])]
           found == CHOOSE g : IsSearch(g)
<1>1. IsSearch(found)
  <2>1. PICK g : Searching(owners, n, g)
    BY SearchExists
  <2>2. IsSearch(g)
    BY <2>1 DEF Searching
  <2> QED
    BY <2>2
<1>2. /\ ~(owners.locktime > Now) /\ Len(found[n]) = owners.threshold
      /\ MatchThreshold(owners) = found[n]
  BY DEF MatchThreshold
<1> HIDE DEF found
<1>3. /\ found[0] = <<>>
      /\ \A k \in 1..n : found[k] = Step(k, found[k - 1])
  <2> HIDE DEF Step
  <2>1. \A k \in 0..n : found[k] = IF k = 0 THEN <<>> ELSE Step(k, found[k - 1])
    BY <1>1
  <2>2. n \in Nat
    OBVIOUS
  <2> HIDE DEF n
  <2>3. 0 \in 0..n /\ \A k \in 1..n : k \in 0..n /\ k # 0
    BY <2>2
  <2> QED
    BY <2>1, <2>3
<1> HIDE DEF Step, IsSearch
<1>4. Places(found[n], owners, n)
  <2> DEFINE S == {k \in 0..n : ~Places(found[k], owners, k)}
  <2> SUFFICES ASSUME S # {} PROVE FALSE
    OBVIOUS
  <2>1. PICK m \in S : \A k \in S : m <= k
    <3>1. S \subseteq Nat
      OBVIOUS
    <3> QED
      BY <3>1, LeastNumber
  <2>2. m # 0
    <3>1. Places(<<>>, owners, 0)
      BY DEF Places
    <3> QED
      BY <1>3, <2>1, <3>1
  <2>3. m - 1 \in Nat /\ m \in 1..n /\ m - 1 \in 0..n /\ m - 1 \notin S /\ (m - 1) + 1 = m
    BY <2>1, <2>2
  <2>4. Places(found[m - 1], owners, m - 1)
    BY <2>3
  <2>5. /\ Places(found[m - 1], owners, m)
        /\ owners.addresses[m] \in Mine => Places(Append(found[m - 1], m), owners, m)
    BY <2>3, <2>4, PlacesGrow
  <2>6. Places(found[m], owners, m)
    BY <1>3, <2>3, <2>5 DEF Step
  <2> QED
    BY <2>1, <2>6
<1>5. owners.locktime <= Now
  BY <1>2, WalletSpendAssumption
<1> QED
  BY <1>2, <1>4, <1>5 DEF Places

-----------------------------------------------------------------------------
(* The steps of the loops: they end, pass a UTXO, or choose one.           *)

\* What of each input is burned or paid, staked and returned.
Chooses(b, s, r) ==
  /\ ~AtEnd /\ Here.avax /\ Spendable(Here)
  /\ used' = Append(used, Use(b, s, r)) /\ next' = next + 1
  /\ UNCHANGED <<request, phase, out>>

LEMMA OneInput ==
  ASSUME ChoiceInv, NEW b, NEW s, NEW r, Chooses(b, s, r)
  PROVE  /\ Len(used) \in Nat /\ Len(used') = Len(used) + 1
         /\ DOMAIN used = 1..Len(used) /\ DOMAIN used' = 1..Len(used) \cup {Len(used) + 1}
         /\ \A i \in 1..Len(used) : used'[i] = used[i]
         /\ used'[Len(used) + 1] = Use(b, s, r)
<1> DEFINE e == Use(b, s, r)
<1>1. used' = Append(used, e)
  BY DEF Chooses
<1> HIDE DEF e
<1>2. PICK S : used \in Seq(S)
  BY DEF ChoiceInv, Passed
<1> DEFINE Wider == S \cup {e}
<1>3. used \in Seq(Wider) /\ e \in Wider
  <2>1. S \subseteq Wider
    OBVIOUS
  <2> QED
    BY <1>2
<1> HIDE DEF Wider
<1>4. /\ used' \in Seq(Wider) /\ Len(used) \in Nat /\ Len(used') = Len(used) + 1
      /\ \A i \in 1..Len(used) : used'[i] = used[i]
      /\ used'[Len(used) + 1] = e
  BY <1>1, <1>3, AppendProperties, LenProperties
<1>5. DOMAIN used = 1..Len(used) /\ DOMAIN used' = 1..Len(used) \cup {Len(used) + 1}
  BY <1>3, <1>4, LenProperties
<1> QED
  BY <1>4, <1>5 DEF e

LEMMA SignedNext ==
  ASSUME ChoiceInv, SignedByThreshold, NEW b, NEW s, NEW r, Chooses(b, s, r)
  PROVE  SignedByThreshold'
<1> DEFINE n == Len(used) + 1
<1>1. /\ DOMAIN used' = DOMAIN used \cup {n} /\ \A i \in DOMAIN used : used'[i] = used[i]
      /\ used'[n] = Use(b, s, r) /\ utxos' = utxos
  BY OneInput DEF Chooses, request
<1>2. used'[n].utxo = next /\ used'[n].sigs = MatchThreshold(Here.owners)
  BY <1>1 DEF Use, Here
<1>3. Len(Here.owners.addresses) \in Nat /\ Here.owners.locktime \in Nat
  <2>1. Here.owners \in Owners
    BY HereType, WalletSpendAssumption DEF ChoiceInv, Chooses
  <2> QED
    BY <2>1 DEF Owners
<1>4. MatchThreshold(Here.owners) # NoMatch
  BY DEF Chooses, Spendable
<1>5. LET sigs == used'[n].sigs  owners == Here.owners IN
      /\ owners.locktime <= Now /\ Len(sigs) = owners.threshold
      /\ \A k \in DOMAIN sigs : owners.addresses[sigs[k]] \in Mine
      /\ \A k \in 2..Len(sigs) : sigs[k - 1] < sigs[k]
  BY <1>2, <1>3, <1>4, MatchIsSigned
<1> HIDE DEF n
<1> QED
  BY <1>1, <1>2, <1>5 DEF SignedByThreshold, Here

\* What of a locked UTXO is not staked becomes the staked output (the amounts are
\* the wrong way round), and of one that is used up nothing is returned.
LEMMA StakeFacts ==
  ASSUME ChoiceInv, StakeLocked
  PROVE  \E s, rest \in Nat :
           /\ s + rest = Here.amount /\ s = Least(amount - staked, Here.amount)
           /\ Chooses(0, rest, IF rest > 0 THEN s ELSE 0)
           /\ staked' = staked + s /\ burned' = burned
           /\ how = "spend" /\ phase = "stake" /\ IsLocked(Here)
<1> DEFINE s == Least(amount - staked, Here.amount)
           rest == Here.amount - s
<1>1. /\ ~AtEnd /\ Here.avax /\ Spendable(Here) /\ IsLocked(Here)
      /\ how = "spend" /\ phase = "stake" /\ staked < amount
      /\ staked' = staked + s /\ burned' = burned
      /\ used' = Append(used, Use(0, rest, IF rest > 0 THEN s ELSE 0))
      /\ next' = next + 1 /\ UNCHANGED <<request, phase, out>>
  BY DEF StakeLocked, Locked, IsLocked
<1>2. s \in Nat /\ rest \in Nat /\ s + rest = Here.amount
  BY <1>1, HereType DEF ChoiceInv, Totals, Least
<1> HIDE DEF s, rest
<1>3. Chooses(0, rest, IF rest > 0 THEN s ELSE 0)
  BY <1>1 DEF Chooses
<1> QED
  BY <1>1, <1>2, <1>3 DEF s

LEMMA BurnFacts ==
  ASSUME ChoiceInv, BurnFree
  PROVE  \E b, s, r \in Nat :
           /\ b + s + r = Here.amount /\ b = Least(fee - burned, Here.amount)
           /\ s = Least(amount - staked, Here.amount - b)
           /\ Chooses(b, s, r)
           /\ staked' = staked + s /\ burned' = burned + b
           /\ how = "spend" /\ phase = "burn" /\ ~IsLocked(Here)
<1> DEFINE b == Least(fee - burned, Here.amount)
           s == Least(amount - staked, Here.amount - b)
           r == Here.amount - b - s
<1>1. /\ ~AtEnd /\ Here.avax /\ Spendable(Here) /\ ~IsLocked(Here)
      /\ how = "spend" /\ phase = "burn"
      /\ staked' = staked + s /\ burned' = burned + b
      /\ used' = Append(used, Use(b, s, r))
      /\ next' = next + 1 /\ UNCHANGED <<request, phase, out>>
  BY DEF BurnFree, Locked, IsLocked
<1>2. b \in Nat /\ s \in Nat /\ r \in Nat /\ b + s + r = Here.amount
  <2>1. Here.amount \in Nat /\ fee - burned \in Nat /\ amount - staked \in Nat
    BY <1>1, HereType DEF ChoiceInv, Totals
  <2>2. b \in Nat /\ Here.amount - b \in Nat
    BY <2>1 DEF Least
  <2> HIDE DEF b
  <2>3. s \in Nat /\ Here.amount - b - s \in Nat
    BY <2>1, <2>2 DEF Least
  <2> HIDE DEF s
  <2> QED
    BY <2>1, <2>2, <2>3
<1> HIDE DEF b, s, r
<1>3. Chooses(b, s, r)
  BY <1>1 DEF Chooses
<1> QED
  BY <1>1, <1>2, <1>3 DEF b, s

LEMMA PayFacts ==
  ASSUME ChoiceInv, Pay
  PROVE  \E b, r \in Nat :
           /\ b + r = Here.amount /\ Chooses(b, 0, r)
           /\ staked' = staked /\ burned' = burned + b
           /\ how = "transfer" /\ phase = "burn"
<1> DEFINE b == Least(Uncovered, Here.amount)
           r == Here.amount - b
<1>1. /\ ~AtEnd /\ Here.avax /\ Spendable(Here) /\ Uncovered > 0
      /\ how = "transfer" /\ phase = "burn"
      /\ staked' = staked /\ burned' = burned + b
      /\ used' = Append(used, Use(b, 0, r))
      /\ next' = next + 1 /\ UNCHANGED <<request, phase, out>>
  BY DEF Pay
<1>2. b \in Nat /\ r \in Nat /\ b + r = Here.amount
  BY <1>1, HereType DEF ChoiceInv, Totals, Least, Uncovered
<1> HIDE DEF b, r
<1>3. Chooses(b, 0, r)
  BY <1>1 DEF Chooses
<1> QED
  BY <1>1, <1>2, <1>3

LEMMA TakeFacts ==
  ASSUME ChoiceInv, TakeImport
  PROVE  /\ Here.amount \in Nat /\ Chooses(Here.amount, 0, 0)
         /\ staked' = staked /\ burned' = burned + Here.amount
         /\ how = "import" /\ phase = "burn"
<1>1. /\ ~AtEnd /\ Here.avax /\ Spendable(Here)
      /\ how = "import" /\ phase = "burn"
      /\ staked' = staked /\ burned' = burned + Here.amount
      /\ used' = Append(used, Use(Here.amount, 0, 0))
      /\ next' = next + 1 /\ UNCHANGED <<request, phase, out>>
  BY DEF TakeImport
<1>2. Here.amount \in Nat
  BY <1>1, HereType DEF ChoiceInv
<1>3. Chooses(Here.amount, 0, 0)
  BY <1>1 DEF Chooses
<1> QED
  BY <1>1, <1>2, <1>3

\* The steps that pass a UTXO.
Passing == PassUnlocked \/ PassLocked \/ PassPaid \/ PassImport

\* Each input has the signatures that the chain asks for, whatever an endpoint
\* lists and whichever keys the keychain has (key/secp256k1/keychain.rs
\* match_threshold and spend).
THEOREM SignaturesSuffice == Spec => []SignedByThreshold
<1>1. Init => SignedByThreshold
  <2>1. Init => DOMAIN used = {}
    BY DEF Init
  <2> QED
    BY <2>1 DEF SignedByThreshold
<1>2. ChoiceInv /\ SignedByThreshold /\ [Next]_vars => SignedByThreshold'
  <2> SUFFICES ASSUME ChoiceInv, SignedByThreshold, [Next]_vars PROVE SignedByThreshold'
    OBVIOUS
  <2>1. CASE UNCHANGED <<utxos, used>>
    BY <2>1 DEF SignedByThreshold
  <2>2. CASE StakeLocked
    BY <2>2, StakeFacts, SignedNext
  <2>3. CASE BurnFree
    BY <2>3, BurnFacts, SignedNext
  <2>4. CASE Pay
    BY <2>4, PayFacts, SignedNext
  <2>5. CASE TakeImport
    BY <2>5, TakeFacts, SignedNext
  <2>6. CASE Passing
    <3>1. UNCHANGED <<utxos, used>>
      BY <2>6 DEF Passing, PassUnlocked, PassLocked, PassPaid, PassImport, Pass, request
    <3> QED
      BY <2>1, <3>1
  <2>7. CASE EndStake \/ EndSpend \/ PanicUnspendable \/ EndTransfer \/ NothingToImport
    <3>1. UNCHANGED <<utxos, used>>
      BY <2>7 DEF EndStake, EndSpend, PanicUnspendable, EndTransfer, NothingToImport, Stop,
                  request
    <3> QED
      BY <2>1, <3>1
  <2>8. CASE EndImport \/ UNCHANGED vars
    <3>1. UNCHANGED <<utxos, used>>
      BY <2>8 DEF EndImport, vars, request
    <3> QED
      BY <2>1, <3>1
  <2> QED
    BY <2>2, <2>3, <2>4, <2>5, <2>6, <2>7, <2>8 DEF Next, Passing
<1> QED
  BY <1>1, <1>2, ChoiceAlways, PTL DEF Spec

-----------------------------------------------------------------------------
(* What goes in comes out.                                                 *)

AmountsTaken == [i \in DOMAIN used |-> Amount(i)]
AmountsLost == [i \in DOMAIN used |-> Lost(i)]

\* What of the UTXOs is AVAX.
Avax == [i \in DOMAIN utxos |-> IF utxos[i].avax THEN utxos[i].amount ELSE 0]

\* The inputs are of listed UTXOs, and their parts are amounts.
Inputs ==
  /\ used \in Seq(Range(used)) /\ utxos \in BoundedSeq(Utxos, MaxUtxos)
  /\ \A i \in DOMAIN used :
       /\ used[i].utxo \in DOMAIN utxos
       /\ used[i].burned \in Nat /\ used[i].staked \in Nat /\ used[i].returned \in Nat

\* The totals of the parts are what the loops count, and of each input nothing is
\* lost but what is staked of a locked one that is used up.
Sums ==
  /\ Total(Part("burned")) = burned
  /\ how = "spend" =>
       /\ (\A i \in DOMAIN used : ~FromLocked(i)) => Total(Part("staked")) = staked
       /\ Total(AmountsLost) = 0 \/ \E i \in DOMAIN used : FromLocked(i) /\ used[i].staked = 0
  /\ how = "transfer" => Total(AmountsTaken) = burned + Total(Part("returned"))
  /\ how = "import" => /\ Total(AmountsTaken) = burned
                       /\ next <= Len(utxos) + 1 /\ burned <= TotalTo(Avax, next - 1)

\* What the loops have counted when they are done.
Ended ==
  phase = "done" =>
    /\ how = "spend" => burned = fee /\ staked = amount
    /\ how = "import" /\ burned >= fee => out = burned - fee

BalanceInv == ChoiceInv /\ Inputs /\ Sums /\ Ended

LEMMA BalanceSuffices == BalanceInv => Balanced
  BY DEF BalanceInv, ChoiceInv, Totals, Sums, Ended, Balanced, AmountsTaken, AmountsLost

LEMMA TotalOfNone == ASSUME NEW f, DOMAIN f = {}, f \in Seq(Int) PROVE Total(f) = 0
<1>1. Len(f) = 0
  OBVIOUS
<1> QED
  BY <1>1, TotalSteps DEF Total

LEMMA BalanceStarts == Init => BalanceInv
<1> SUFFICES ASSUME Init PROVE BalanceInv
  OBVIOUS
<1>1. ChoiceInv
  BY ChoiceInit
<1>2. /\ used = <<>> /\ DOMAIN used = {} /\ burned = 0 /\ staked = 0 /\ next = 1
      /\ phase # "done" /\ utxos \in BoundedSeq(Utxos, MaxUtxos)
  BY DEF Init
<1>3. Inputs
  BY <1>2 DEF Inputs, Range
<1>4. Total(Part("burned")) = 0 /\ Total(Part("staked")) = 0 /\ Total(Part("returned")) = 0
      /\ Total(AmountsLost) = 0 /\ Total(AmountsTaken) = 0
  <2>1. \A f : DOMAIN f = {} /\ f = [i \in DOMAIN f |-> f[i]] => f = <<>>
    OBVIOUS
  <2>2. /\ Part("burned") = <<>> /\ Part("staked") = <<>> /\ Part("returned") = <<>>
        /\ AmountsLost = <<>> /\ AmountsTaken = <<>>
    BY <1>2 DEF Part, AmountsLost, AmountsTaken
  <2>3. Total(<<>>) = 0
    <3>1. DOMAIN <<>> = {} /\ <<>> \in Seq(Int)
      OBVIOUS
    <3> QED
      BY <3>1, TotalOfNone
  <2> QED
    BY <2>2, <2>3
<1>5. next <= Len(utxos) + 1 /\ burned <= TotalTo(Avax, next - 1)
  <2>1. utxos \in Seq(Utxos) /\ Len(utxos) \in Nat
    BY <1>1 DEF ChoiceInv, Totals
  <2>2. Len(Avax) = Len(utxos)
    BY <2>1 DEF Avax
  <2>3. TotalTo(Avax, 0) = 0 /\ next - 1 = 0
    BY <1>2, <2>1, <2>2, TotalSteps
  <2> QED
    BY <1>2, <2>1, <2>3
<1> QED
  BY <1>1, <1>2, <1>3, <1>4, <1>5 DEF BalanceInv, Sums, Ended

\* One number more, of two functions.
LEMMA OneNumberMore ==
  ASSUME NEW m \in Nat, NEW f, NEW g,
         f = [i \in 1..m |-> f[i]], g = [i \in 1..(m + 1) |-> g[i]],
         \A i \in 1..m : f[i] \in Int /\ g[i] = f[i], g[m + 1] \in Int
  PROVE  Total(g) = Total(f) + g[m + 1]
<1>1. \A i \in 1..(m + 1) : g[i] \in Int
  <2>1. \A i \in 1..(m + 1) : i \in 1..m \/ i = m + 1
    OBVIOUS
  <2> QED
    BY <2>1
<1>2. [i \in 1..m |-> f[i]] \in Seq(Int) /\ Len([i \in 1..m |-> f[i]]) = m
  BY IsASeq, SMTT(60)
<1>3. [i \in 1..(m + 1) |-> g[i]] \in Seq(Int) /\ Len([i \in 1..(m + 1) |-> g[i]]) = m + 1
  BY <1>1, IsASeq
<1>4. f \in Seq(Int) /\ Len(f) = m /\ g \in Seq(Int) /\ Len(g) = m + 1
  BY <1>2, <1>3
<1> QED
  BY <1>4, TotalGrows

LEMMA TotalsGrow ==
  ASSUME ChoiceInv, Inputs, NEW b \in Nat, NEW s \in Nat, NEW r \in Nat, Chooses(b, s, r)
  PROVE  /\ Inputs'
         /\ Total(Part("burned"))' = Total(Part("burned")) + b
         /\ Total(Part("staked"))' = Total(Part("staked")) + s
         /\ Total(Part("returned"))' = Total(Part("returned")) + r
         /\ Total(AmountsTaken)' = Total(AmountsTaken) + Here.amount
         /\ Total(AmountsLost)' = Total(AmountsLost) + (Here.amount - b - s - r)
<1>0. PICK m : m = Len(used)
  OBVIOUS
<1> DEFINE n == m + 1
<1>1. /\ m \in Nat /\ Len(used') = n /\ n \in Nat
      /\ DOMAIN used = 1..m /\ DOMAIN used' = 1..m \cup {n}
      /\ \A i \in 1..m : used'[i] = used[i]
      /\ used'[n] = Use(b, s, r)
  <2>1. /\ m \in Nat /\ Len(used') = n /\ DOMAIN used = 1..m /\ DOMAIN used' = 1..m \cup {n}
        /\ \A i \in 1..m : used'[i] = used[i]
        /\ used'[n] = Use(b, s, r)
    BY <1>0, OneInput
  <2> QED
    BY <2>1
<1>2. DOMAIN used' = 1..(m + 1)
  BY <1>1
<1>3. /\ used'[n].utxo = next /\ used'[n].burned = b /\ used'[n].staked = s
      /\ used'[n].returned = r /\ utxos' = utxos
  BY <1>1 DEF Use, Chooses, request
<1>4. next \in DOMAIN utxos /\ Here.amount \in Nat /\ Here = utxos[next]
  <2>1. utxos \in Seq(Utxos) /\ next \in Nat \ {0} /\ ~(next > Len(utxos))
    BY DEF ChoiceInv, Totals, Chooses, AtEnd
  <2>2. Here.amount \in Nat
    BY HereType DEF ChoiceInv, Chooses
  <2> QED
    BY <2>1, <2>2 DEF Here
<1>5. \A i \in 1..m : Amount(i) \in Nat /\ Amount(i)' = Amount(i)
  <2> SUFFICES ASSUME NEW i \in 1..m PROVE Amount(i) \in Nat /\ Amount(i)' = Amount(i)
    OBVIOUS
  <2>1. used[i].utxo \in DOMAIN utxos /\ used'[i] = used[i]
    BY <1>1 DEF Inputs
  <2>2. utxos[used[i].utxo] \in Utxos
    BY <2>1, ElementOfSeq, LenProperties DEF ChoiceInv, Totals
  <2> QED
    BY <1>3, <2>1, <2>2, WalletSpendAssumption DEF Amount
<1>6. Amount(n)' = Here.amount
  BY <1>3, <1>4 DEF Amount
<1>7. Inputs'
  <2>1. used' \in Seq(Range(used'))
    <3>1. PICK S : used' \in Seq(S)
      <4>1. \E S : used \in Seq(S)
        BY DEF Inputs
      <4> DEFINE e == Use(b, s, r)
      <4>2. used' = Append(used, e)
        BY DEF Chooses
      <4> HIDE DEF e
      <4> QED
        BY <4>1, <4>2, AppendFacts
    <3>2. used' = [i \in 1..n |-> used'[i]]
      BY <1>1, <3>1, LenProperties
    <3>3. \A i \in 1..n : used'[i] \in Range(used')
      BY <1>2 DEF Range
    <3>4. [i \in 1..n |-> used'[i]] \in Seq(Range(used'))
      BY <1>1, <3>3, IsASeq
    <3> QED
      BY <3>2, <3>4
  <2>2. \A i \in DOMAIN used' :
          /\ used'[i].utxo \in DOMAIN utxos'
          /\ used'[i].burned \in Nat /\ used'[i].staked \in Nat /\ used'[i].returned \in Nat
    BY <1>1, <1>3, <1>4 DEF Inputs
  <2> QED
    BY <1>3, <2>1, <2>2 DEF Inputs
<1>8. \A i \in 1..m :
        /\ used[i].burned \in Nat /\ used[i].staked \in Nat /\ used[i].returned \in Nat
        /\ used'[i] = used[i]
  BY <1>1 DEF Inputs
<1>9. Total(Part("burned"))' = Total(Part("burned")) + b
  <2> DEFINE f == [i \in 1..m |-> used[i].burned]
             g == [i \in 1..(m + 1) |-> used'[i].burned]
  <2>1. Part("burned") = f /\ Part("burned")' = g
    BY <1>1, <1>2 DEF Part
  <2>2. /\ f = [i \in 1..m |-> f[i]] /\ g = [i \in 1..(m + 1) |-> g[i]]
        /\ \A i \in 1..m : f[i] \in Int /\ g[i] = f[i]
        /\ g[m + 1] = b /\ g[m + 1] \in Int
    BY <1>1, <1>3, <1>8
  <2> HIDE DEF f, g
  <2>3. Total(g) = Total(f) + g[m + 1]
    BY <1>1, <2>2, OneNumberMore
  <2> QED
    BY <2>1, <2>2, <2>3
<1>10. Total(Part("staked"))' = Total(Part("staked")) + s
  <2> DEFINE f == [i \in 1..m |-> used[i].staked]
             g == [i \in 1..(m + 1) |-> used'[i].staked]
  <2>1. Part("staked") = f /\ Part("staked")' = g
    BY <1>1, <1>2 DEF Part
  <2>2. /\ f = [i \in 1..m |-> f[i]] /\ g = [i \in 1..(m + 1) |-> g[i]]
        /\ \A i \in 1..m : f[i] \in Int /\ g[i] = f[i]
        /\ g[m + 1] = s /\ g[m + 1] \in Int
    BY <1>1, <1>3, <1>8
  <2> HIDE DEF f, g
  <2>3. Total(g) = Total(f) + g[m + 1]
    BY <1>1, <2>2, OneNumberMore
  <2> QED
    BY <2>1, <2>2, <2>3
<1>11. Total(Part("returned"))' = Total(Part("returned")) + r
  <2> DEFINE f == [i \in 1..m |-> used[i].returned]
             g == [i \in 1..(m + 1) |-> used'[i].returned]
  <2>1. Part("returned") = f /\ Part("returned")' = g
    BY <1>1, <1>2 DEF Part
  <2>2. /\ f = [i \in 1..m |-> f[i]] /\ g = [i \in 1..(m + 1) |-> g[i]]
        /\ \A i \in 1..m : f[i] \in Int /\ g[i] = f[i]
        /\ g[m + 1] = r /\ g[m + 1] \in Int
    BY <1>1, <1>3, <1>8
  <2> HIDE DEF f, g
  <2>3. Total(g) = Total(f) + g[m + 1]
    BY <1>1, <2>2, OneNumberMore
  <2> QED
    BY <2>1, <2>2, <2>3
<1>12. Total(AmountsTaken)' = Total(AmountsTaken) + Here.amount
  <2> DEFINE f == [i \in 1..m |-> Amount(i)]
             g == [i \in 1..(m + 1) |-> Amount(i)']
  <2>1. AmountsTaken = f /\ AmountsTaken' = g
    BY <1>1, <1>2 DEF AmountsTaken
  <2>2. /\ f = [i \in 1..m |-> f[i]] /\ g = [i \in 1..(m + 1) |-> g[i]]
        /\ \A i \in 1..m : f[i] \in Int /\ g[i] = f[i]
        /\ g[m + 1] = Here.amount /\ g[m + 1] \in Int
    BY <1>1, <1>4, <1>5, <1>6
  <2> HIDE DEF f, g
  <2>3. Total(g) = Total(f) + g[m + 1]
    BY <1>1, <1>4, <2>2, OneNumberMore
  <2> QED
    BY <2>1, <2>2, <2>3
<1>13. Total(AmountsLost)' = Total(AmountsLost) + (Here.amount - b - s - r)
  <2> DEFINE f == [i \in 1..m |-> Lost(i)]
             g == [i \in 1..(m + 1) |-> Lost(i)']
  <2>1. AmountsLost = f /\ AmountsLost' = g
    BY <1>1, <1>2 DEF AmountsLost
  <2>2. \A i \in 1..m : Lost(i) \in Int /\ Lost(i)' = Lost(i)
    BY <1>5, <1>8 DEF Lost
  <2>3. Lost(n)' = Here.amount - b - s - r /\ Lost(n)' \in Int
    BY <1>3, <1>4, <1>6 DEF Lost
  <2>4. /\ f = [i \in 1..m |-> f[i]] /\ g = [i \in 1..(m + 1) |-> g[i]]
        /\ \A i \in 1..m : f[i] \in Int /\ g[i] = f[i]
        /\ g[m + 1] = Here.amount - b - s - r /\ g[m + 1] \in Int
    BY <1>1, <2>2, <2>3
  <2> HIDE DEF f, g
  <2>5. Total(g) = Total(f) + g[m + 1]
    BY <1>1, <2>4, OneNumberMore
  <2> QED
    BY <2>1, <2>4, <2>5
<1> QED
  BY <1>7, <1>9, <1>10, <1>11, <1>12, <1>13

\* Which inputs are of locked UTXOs.
LEMMA LockedInputs ==
  ASSUME ChoiceInv, NEW b, NEW s, NEW r, Chooses(b, s, r)
  PROVE  \E n : /\ DOMAIN used' = DOMAIN used \cup {n}
                /\ \A i \in DOMAIN used : used'[i] = used[i] /\ (FromLocked(i)' <=> FromLocked(i))
                /\ used'[n].staked = s /\ (FromLocked(n)' <=> IsLocked(Here))
<1>1. PICK n : n = Len(used) + 1
  OBVIOUS
<1>2. /\ DOMAIN used' = DOMAIN used \cup {n} /\ \A i \in DOMAIN used : used'[i] = used[i]
      /\ used'[n] = Use(b, s, r) /\ utxos' = utxos
  BY <1>1, OneInput DEF Chooses, request
<1>3. used'[n].utxo = next /\ used'[n].staked = s
  BY <1>2 DEF Use
<1> QED
  BY <1>2, <1>3 DEF FromLocked, IsLocked, Here

\* The AVAX of the UTXOs an import has passed.
LEMMA AvaxPassed ==
  ASSUME ChoiceInv, ~AtEnd
  PROVE  /\ TotalTo(Avax, next) = TotalTo(Avax, next - 1)
                                    + (IF Here.avax THEN Here.amount ELSE 0)
         /\ TotalTo(Avax, next - 1) \in Int /\ next + 1 <= Len(utxos) + 1
<1>1. /\ utxos \in Seq(Utxos) /\ Len(utxos) \in Nat /\ next \in 1..Len(utxos)
      /\ \A i \in 1..Len(utxos) : utxos[i] \in Utxos
  BY ElementOfSeq, LenProperties DEF ChoiceInv, Totals, AtEnd
<1>2. Avax = [i \in 1..Len(utxos) |-> IF utxos[i].avax THEN utxos[i].amount ELSE 0]
  BY <1>1, LenProperties DEF Avax
<1>3. \A i \in 1..Len(utxos) : (IF utxos[i].avax THEN utxos[i].amount ELSE 0) \in Int
  BY <1>1, WalletSpendAssumption
<1>4. Avax \in Seq(Int) /\ Len(Avax) = Len(utxos)
  BY <1>1, <1>2, <1>3, IsASeq
<1>5. Avax[next] = IF Here.avax THEN Here.amount ELSE 0
  BY <1>1, <1>2 DEF Here
<1>6. TotalTo(Avax, next) = TotalTo(Avax, next - 1) + Avax[next]
  BY <1>1, <1>4, TotalSteps
<1>7. TotalTo(Avax, next - 1) \in Int
  <2>1. next - 1 \in 0..Len(Avax)
    BY <1>1, <1>4
  <2> QED
    BY <1>4, <2>1, TotalType
<1> QED
  BY <1>1, <1>5, <1>6, <1>7

\* An import has no more than all the AVAX there is.
LEMMA ImportFits ==
  ASSUME BalanceInv, how = "import" PROVE burned < Modulus
<1>1. /\ utxos \in Seq(Utxos) /\ Len(utxos) \in Nat /\ next \in Nat /\ next > 0
      /\ \A i \in 1..Len(utxos) : utxos[i] \in Utxos
      /\ next <= Len(utxos) + 1 /\ burned <= TotalTo(Avax, next - 1) /\ burned \in Nat
  BY ElementOfSeq, LenProperties DEF BalanceInv, ChoiceInv, Totals, Sums
<1>2. Avax = [i \in 1..Len(utxos) |-> IF utxos[i].avax THEN utxos[i].amount ELSE 0]
  BY <1>1, LenProperties DEF Avax
<1>3. \A i \in 1..Len(utxos) : /\ (IF utxos[i].avax THEN utxos[i].amount ELSE 0) \in Int
                               /\ (IF utxos[i].avax THEN utxos[i].amount ELSE 0) >= 0
  BY <1>1, WalletSpendAssumption
<1>4. Avax \in Seq(Int) /\ Len(Avax) = Len(utxos) /\ \A i \in 1..Len(Avax) : Avax[i] >= 0
  BY <1>1, <1>2, <1>3, IsASeq
<1>5. next - 1 \in 0..Len(Avax)
  BY <1>1, <1>4
<1>6. TotalTo(Avax, next - 1) <= Total(Avax) /\ TotalTo(Avax, next - 1) \in Int
  BY <1>4, <1>5, TotalOfFewer, TotalType
<1>7. Total(Avax) < Modulus
  BY SupplyAssumption DEF BalanceInv, Inputs, Avax
<1>8. Total(Avax) \in Int
  <2>1. Len(Avax) \in 0..Len(Avax)
    BY <1>1, <1>4
  <2> QED
    BY <1>4, <2>1, TotalType DEF Total
<1> QED
  BY <1>1, <1>6, <1>7, <1>8, WalletSpendAssumption

LEMMA BalanceSteps == ASSUME BalanceInv, [Next]_vars PROVE BalanceInv'
<1> USE DEF request
<1>0. /\ ChoiceInv /\ Inputs /\ Sums /\ Ended /\ ChoiceInv' /\ Totals
  BY ChoiceNext DEF BalanceInv, ChoiceInv
<1>1. ASSUME UNCHANGED <<how, utxos, burned, staked, used>>, Ended',
             how = "import" => next' <= Len(utxos) + 1 /\ burned <= TotalTo(Avax, next' - 1)
      PROVE  BalanceInv'
  <2>1. Inputs'
    BY <1>0, <1>1 DEF Inputs
  <2>2. /\ Part("burned")' = Part("burned") /\ Part("staked")' = Part("staked")
        /\ Part("returned")' = Part("returned")
        /\ AmountsTaken' = AmountsTaken /\ AmountsLost' = AmountsLost /\ Avax' = Avax
    BY <1>1 DEF Part, AmountsTaken, AmountsLost, Amount, Lost, Avax
  <2>3. \A i \in DOMAIN used : FromLocked(i)' <=> FromLocked(i)
    BY <1>1 DEF FromLocked, IsLocked
  <2>4. Sums'
    BY <1>0, <1>1, <2>2, <2>3 DEF Sums
  <2> QED
    BY <1>0, <1>1, <2>1, <2>4 DEF BalanceInv
<1>2. CASE Passing
  <2>1. /\ UNCHANGED <<how, utxos, amount, fee, phase, burned, staked, used, out>>
        /\ next' = next + 1 /\ ~AtEnd /\ phase # "done"
    BY <1>2 DEF Passing, PassUnlocked, PassLocked, PassPaid, PassImport, Pass
  <2>2. Ended'
    BY <2>1 DEF Ended
  <2>3. how = "import" => next' <= Len(utxos) + 1 /\ burned <= TotalTo(Avax, next' - 1)
    <3> SUFFICES ASSUME how = "import"
                 PROVE  next' <= Len(utxos) + 1 /\ burned <= TotalTo(Avax, next' - 1)
      OBVIOUS
    <3>1. burned <= TotalTo(Avax, next - 1) /\ burned \in Nat /\ next \in Nat
      BY <1>0 DEF Sums, Totals
    <3>2. ~Here.avax \/ (Here.amount \in Nat /\ Here.amount > 0)
      BY <1>0, <2>1, HereType
    <3>3. next' - 1 = next
      BY <2>1, <3>1
    <3> QED
      BY <1>0, <2>1, <3>1, <3>2, <3>3, AvaxPassed
  <2> QED
    BY <1>1, <2>1, <2>2, <2>3
<1>3. CASE EndStake
  <2>1. /\ UNCHANGED <<how, utxos, burned, staked, used>> /\ how = "spend" /\ phase' = "burn"
    BY <1>3 DEF EndStake
  <2>2. Ended'
    BY <2>1 DEF Ended
  <2> QED
    BY <1>1, <2>1, <2>2
<1>4. CASE EndSpend
  <2>1. /\ UNCHANGED <<how, utxos, amount, fee, burned, staked, used>> /\ how = "spend"
        /\ phase' = "done" => burned >= fee /\ staked >= amount
    BY <1>4 DEF EndSpend, Stop, Enough
  <2>2. Ended'
    BY <1>0, <2>1 DEF Ended, Totals
  <2> QED
    BY <1>1, <2>1, <2>2
<1>5. CASE PanicUnspendable \/ EndTransfer \/ NothingToImport
  <2>1. /\ UNCHANGED <<how, utxos, amount, fee, next, burned, staked, used>>
        /\ how = "transfer" \/ phase' = "failed"
    BY <1>5 DEF PanicUnspendable, EndTransfer, NothingToImport, Stop
  <2>2. Ended'
    BY <2>1 DEF Ended
  <2> QED
    BY <1>0, <1>1, <2>1, <2>2 DEF Sums
<1>6. CASE EndImport
  <2>1. /\ UNCHANGED <<how, utxos, amount, fee, next, burned, staked, used>>
        /\ how = "import"
        /\ phase' = "done" => out' = (burned + Modulus - fee) % Modulus
    BY <1>6 DEF EndImport
  <2>2. burned < Modulus /\ burned \in Nat /\ fee \in Nat /\ Modulus \in Nat
    BY <1>0, <2>1, ImportFits, WalletSpendAssumption DEF BalanceInv, Totals
  <2>3. burned >= fee => (burned + Modulus - fee) % Modulus = burned - fee
    BY <2>2
  <2>4. Ended'
    BY <2>1, <2>3 DEF Ended
  <2> QED
    BY <1>0, <1>1, <2>1, <2>4 DEF Sums
<1>7. CASE UNCHANGED vars
  <2>1. UNCHANGED <<how, utxos, amount, fee, phase, next, burned, staked, used, out>>
    BY <1>7 DEF vars
  <2>2. Ended'
    BY <1>0, <2>1 DEF Ended
  <2> QED
    BY <1>0, <1>1, <2>1, <2>2 DEF Sums
<1>8. ASSUME NEW b \in Nat, NEW s \in Nat, NEW r \in Nat, Chooses(b, s, r), phase # "done",
             burned' = burned + b, staked' = staked + s \/ IsLocked(Here),
             how = "spend" => Here.amount - b - s - r = 0 \/ (IsLocked(Here) /\ s = 0),
             how = "transfer" => Here.amount = b + r,
             how = "import" => Here.amount = b
      PROVE  BalanceInv'
  <2>1. /\ Inputs'
        /\ Total(Part("burned"))' = Total(Part("burned")) + b
        /\ Total(Part("staked"))' = Total(Part("staked")) + s
        /\ Total(Part("returned"))' = Total(Part("returned")) + r
        /\ Total(AmountsTaken)' = Total(AmountsTaken) + Here.amount
        /\ Total(AmountsLost)' = Total(AmountsLost) + (Here.amount - b - s - r)
    BY <1>0, <1>8, TotalsGrow
  <2>2. PICK n : /\ DOMAIN used' = DOMAIN used \cup {n}
                 /\ \A i \in DOMAIN used :
                      used'[i] = used[i] /\ (FromLocked(i)' <=> FromLocked(i))
                 /\ used'[n].staked = s /\ (FromLocked(n)' <=> IsLocked(Here))
    BY <1>0, <1>8, LockedInputs
  <2>3. /\ how' = how /\ phase' = phase /\ next' = next + 1 /\ utxos' = utxos /\ ~AtEnd
        /\ Here.avax
    BY <1>8 DEF Chooses
  <2>4. Here.amount \in Nat /\ burned \in Nat /\ staked \in Nat /\ next \in Nat
    BY <1>0, <2>3, HereType DEF Totals
  <2>5. Total(Part("burned"))' = burned'
    BY <1>0, <1>8, <2>1 DEF Sums
  <2>6. ASSUME how = "spend", \A i \in DOMAIN used' : ~FromLocked(i)'
        PROVE  Total(Part("staked"))' = staked'
    <3>1. ~IsLocked(Here) /\ \A i \in DOMAIN used : ~FromLocked(i)
      BY <2>2, <2>6
    <3> QED
      BY <1>0, <1>8, <2>1, <2>6, <3>1 DEF Sums
  <2>7. ASSUME how = "spend"
        PROVE  Total(AmountsLost)' = 0 \/ \E i \in DOMAIN used' : FromLocked(i)' /\ used'[i].staked = 0
    <3>1. CASE \E i \in DOMAIN used : FromLocked(i) /\ used[i].staked = 0
      BY <2>2, <3>1
    <3>2. CASE IsLocked(Here) /\ s = 0
      BY <2>2, <3>2
    <3>3. CASE Total(AmountsLost) = 0 /\ Here.amount - b - s - r = 0
      BY <2>1, <3>3
    <3> QED
      BY <1>0, <1>8, <2>7, <3>1, <3>2, <3>3 DEF Sums
  <2>8. ASSUME how = "transfer"
        PROVE  Total(AmountsTaken)' = burned' + Total(Part("returned"))'
    <3>1. Total(AmountsTaken) = burned + Total(Part("returned"))
      BY <1>0, <2>8 DEF Sums
    <3>2. Total(Part("returned")) \in Int
      <4>1. PICK m : m = Len(used)
        OBVIOUS
      <4>2. m \in Nat /\ DOMAIN used = 1..m
        BY <1>0, <4>1, LenProperties DEF Inputs
      <4>3. Part("returned") = [i \in 1..m |-> used[i].returned]
        BY <4>2 DEF Part
      <4>4. \A i \in 1..m : used[i].returned \in Int
        BY <1>0, <4>2 DEF Inputs
      <4>5. Part("returned") \in Seq(Int) /\ Len(Part("returned")) = m
        BY <4>2, <4>3, <4>4, IsASeq
      <4>6. m \in 0..m
        BY <4>2
      <4> QED
        BY <4>5, <4>6, TotalType DEF Total
    <3> QED
      BY <1>8, <2>1, <2>4, <2>8, <3>1, <3>2
  <2>9. ASSUME how = "import"
        PROVE  /\ Total(AmountsTaken)' = burned'
               /\ next' <= Len(utxos') + 1 /\ burned' <= TotalTo(Avax', next' - 1)
    <3>1. Total(AmountsTaken) = burned /\ burned <= TotalTo(Avax, next - 1)
      BY <1>0, <2>9 DEF Sums
    <3>2. Avax' = Avax /\ next' - 1 = next
      BY <2>3, <2>4 DEF Avax
    <3>3. TotalTo(Avax, next) = TotalTo(Avax, next - 1) + Here.amount
          /\ TotalTo(Avax, next - 1) \in Int /\ next + 1 <= Len(utxos) + 1
      BY <1>0, <2>3, AvaxPassed
    <3> QED
      BY <1>8, <2>1, <2>3, <2>4, <2>9, <3>1, <3>2, <3>3
  <2>10. Sums'
    BY <2>3, <2>5, <2>6, <2>7, <2>8, <2>9 DEF Sums
  <2>11. Ended'
    BY <1>8, <2>3 DEF Ended
  <2> QED
    BY <1>0, <2>1, <2>10, <2>11 DEF BalanceInv
<1>9. CASE StakeLocked
  <2>1. PICK s, rest \in Nat :
           /\ s + rest = Here.amount
           /\ Chooses(0, rest, IF rest > 0 THEN s ELSE 0)
           /\ staked' = staked + s /\ burned' = burned
           /\ how = "spend" /\ phase = "stake" /\ IsLocked(Here)
    BY <1>0, <1>9, StakeFacts
  <2> DEFINE r == IF rest > 0 THEN s ELSE 0
  <2>2. /\ r \in Nat /\ 0 \in Nat /\ burned' = burned + 0 /\ phase # "done"
        /\ Here.amount - 0 - rest - r = 0 \/ rest = 0
    BY <1>0, <2>1 DEF Totals
  <2>3. Chooses(0, rest, r)
    BY <2>1
  <2> HIDE DEF r
  <2> QED
    BY <1>8, <2>1, <2>2, <2>3
<1>10. CASE BurnFree
  <2>1. PICK b, s, r \in Nat :
           /\ b + s + r = Here.amount /\ Chooses(b, s, r)
           /\ staked' = staked + s /\ burned' = burned + b
           /\ how = "spend" /\ phase = "burn"
    BY <1>0, <1>10, BurnFacts
  <2>2. Here.amount - b - s - r = 0
    BY <2>1
  <2> QED
    BY <1>8, <2>1, <2>2
<1>11. CASE Pay
  <2>1. PICK b, r \in Nat :
           /\ b + r = Here.amount /\ Chooses(b, 0, r)
           /\ staked' = staked /\ burned' = burned + b
           /\ how = "transfer" /\ phase = "burn"
    BY <1>0, <1>11, PayFacts
  <2>2. staked' = staked + 0 /\ 0 \in Nat
    BY <1>0, <2>1 DEF Totals
  <2> QED
    BY <1>8, <2>1, <2>2
<1>12. CASE TakeImport
  <2>1. /\ Here.amount \in Nat /\ Chooses(Here.amount, 0, 0)
        /\ staked' = staked /\ burned' = burned + Here.amount
        /\ how = "import" /\ phase = "burn"
    BY <1>0, <1>12, TakeFacts
  <2>2. staked' = staked + 0 /\ 0 \in Nat
    BY <1>0, <2>1 DEF Totals
  <2> QED
    BY <1>8, <2>1, <2>2
<1> QED
  BY <1>2, <1>3, <1>4, <1>5, <1>6, <1>7, <1>9, <1>10, <1>11, <1>12 DEF Next, Passing

\* A transaction that is to be signed consumes what it burns, stakes, pays and
\* returns, whatever an endpoint lists (wallet/p/mod.rs spend, wallet/x/transfer.rs
\* and the imports), but for the amounts the code gives wrong, which the property
\* leaves out.
THEOREM AmountsBalance == Spec => []Balanced
<1>1. BalanceInv /\ [Next]_vars => BalanceInv'
  BY BalanceSteps
<1> QED
  BY <1>1, BalanceStarts, BalanceSuffices, PTL DEF Spec

-----------------------------------------------------------------------------
(* spend fails only where the means are short.                             *)

\* The first loop has staked of what is locked as far as it is needed; the second
\* one has burned of what is free up to the fee, and staked the rest up to the
\* amount.  An import has passed nothing that it could have taken.
Reached ==
  /\ next <= Len(utxos) + 1
  /\ how = "spend" =>
       /\ phase = "stake" =>
            burned = 0 /\ staked = Least(amount, TotalTo(LockedMeans, next - 1))
       /\ phase = "burn" =>
            /\ burned = Least(fee, TotalTo(FreeMeans, next - 1))
            /\ staked = Least(amount, Least(amount, Total(LockedMeans))
                                        + (TotalTo(FreeMeans, next - 1) - burned))
  /\ how = "import" /\ used = <<>> =>
       \A i \in DOMAIN utxos : i < next => ~Mean(utxos[i]) \/ utxos[i].stakeable

ShortInv == ChoiceInv /\ Reached /\ FailsOnlyShort

\* What the totals of the means are.
LEMMA MeansType ==
  ASSUME Totals, NEW f \in {Means, LockedMeans, FreeMeans}
  PROVE  /\ f \in Seq(Int) /\ Len(f) = Len(utxos) /\ \A i \in 1..Len(f) : f[i] >= 0
         /\ Total(f) \in Int /\ Len(utxos) \in Nat
<1>1. /\ Len(utxos) \in Nat /\ DOMAIN utxos = 1..Len(utxos)
      /\ \A i \in 1..Len(utxos) : utxos[i] \in Utxos
  BY ElementOfSeq, LenProperties DEF Totals
<1>2. \A i \in 1..Len(utxos) : utxos[i].amount \in Int /\ utxos[i].amount >= 0
  BY <1>1, WalletSpendAssumption
<1>3. f = [i \in 1..Len(utxos) |-> f[i]] /\ \A i \in 1..Len(utxos) : f[i] \in Int /\ f[i] >= 0
  <2>1. CASE f = Means
    BY <1>1, <1>2, <2>1 DEF Means
  <2>2. CASE f = LockedMeans
    BY <1>1, <1>2, <2>2 DEF LockedMeans
  <2>3. CASE f = FreeMeans
    BY <1>1, <1>2, <2>3 DEF FreeMeans
  <2> QED
    BY <2>1, <2>2, <2>3
<1>4. [i \in 1..Len(utxos) |-> f[i]] \in Seq(Int) /\ Len([i \in 1..Len(utxos) |-> f[i]]) = Len(utxos)
  BY <1>1, <1>3, IsASeq
<1>5. f \in Seq(Int) /\ Len(f) = Len(utxos)
  BY <1>3, <1>4
<1>6. Total(f) \in Int
  <2>1. Len(f) \in 0..Len(f)
    BY <1>1, <1>5
  <2> QED
    BY <1>5, <2>1, TotalType DEF Total
<1> QED
  BY <1>1, <1>3, <1>5, <1>6

LEMMA MeansAdd ==
  ASSUME Totals PROVE Total(Means) = Total(LockedMeans) + Total(FreeMeans)
<1>1. /\ Means \in Seq(Int) /\ LockedMeans \in Seq(Int) /\ FreeMeans \in Seq(Int)
      /\ Len(Means) = Len(utxos) /\ Len(LockedMeans) = Len(utxos)
      /\ Len(FreeMeans) = Len(utxos)
  BY MeansType
<1>2. /\ Len(utxos) \in Nat /\ DOMAIN utxos = 1..Len(utxos)
      /\ \A i \in 1..Len(utxos) : utxos[i] \in Utxos
  BY ElementOfSeq, LenProperties DEF Totals
<1>3. \A i \in 1..Len(utxos) : Means[i] = LockedMeans[i] + FreeMeans[i]
  <2> SUFFICES ASSUME NEW i \in 1..Len(utxos) PROVE Means[i] = LockedMeans[i] + FreeMeans[i]
    OBVIOUS
  <2>1. utxos[i].amount \in Nat /\ i \in DOMAIN utxos
    BY <1>2, WalletSpendAssumption
  <2> QED
    BY <2>1 DEF Means, LockedMeans, FreeMeans
<1>4. \A i \in 1..Len(Means) : Means[i] = LockedMeans[i] + FreeMeans[i]
  BY <1>1, <1>3
<1>5. Len(LockedMeans) = Len(Means) /\ Len(FreeMeans) = Len(Means)
  BY <1>1
<1> QED
  BY <1>1, <1>4, <1>5, TotalOfBoth

\* The means up to the UTXO the loop is at, and with it.
LEMMA MeansHere ==
  ASSUME Totals, ~AtEnd, NEW f \in {LockedMeans, FreeMeans}
  PROVE  /\ TotalTo(f, next) = TotalTo(f, next - 1) + f[next]
         /\ TotalTo(f, next - 1) \in Int /\ TotalTo(f, next - 1) >= 0
         /\ next <= Len(utxos)
<1>1. /\ f \in Seq(Int) /\ Len(f) = Len(utxos) /\ \A i \in 1..Len(f) : f[i] >= 0
      /\ Len(utxos) \in Nat
  BY MeansType
<1>2. next \in 1..Len(f) /\ next - 1 \in 0..Len(f) /\ next <= Len(utxos)
  BY <1>1 DEF Totals, AtEnd
<1>3. TotalTo(f, next) = TotalTo(f, next - 1) + f[next]
  BY <1>1, <1>2, TotalSteps
<1>4. TotalTo(f, next - 1) \in Int /\ TotalTo(f, next - 1) >= 0
  BY <1>1, <1>2, TotalType, TotalOfFewer
<1> QED
  BY <1>2, <1>3, <1>4

LEMMA WhichMeans ==
  ASSUME Totals, ~AtEnd
  PROVE  /\ LockedMeans[next] = IF Mean(Here) /\ IsLocked(Here) THEN Here.amount ELSE 0
         /\ FreeMeans[next] = IF Mean(Here) /\ ~IsLocked(Here) THEN Here.amount ELSE 0
<1>1. next \in DOMAIN utxos
  BY LenProperties DEF Totals, AtEnd
<1> QED
  BY <1>1 DEF LockedMeans, FreeMeans, Here

\* What the loop has passed is some of the means, and at the end all of them.
LEMMA MeansPassed ==
  ASSUME Totals, next <= Len(utxos) + 1, NEW f \in {LockedMeans, FreeMeans}
  PROVE  /\ TotalTo(f, next - 1) \in Int /\ 0 <= TotalTo(f, next - 1)
         /\ TotalTo(f, next - 1) <= Total(f) /\ Total(f) \in Int
         /\ AtEnd => TotalTo(f, next - 1) = Total(f)
<1>1. /\ f \in Seq(Int) /\ Len(f) = Len(utxos) /\ \A i \in 1..Len(f) : f[i] >= 0
      /\ Len(utxos) \in Nat /\ Total(f) \in Int
  BY MeansType
<1>2. next - 1 \in 0..Len(f) /\ (AtEnd => next - 1 = Len(f))
  BY <1>1 DEF Totals, AtEnd
<1>3. TotalTo(f, next - 1) \in Int
  BY <1>1, <1>2, TotalType
<1>4. 0 <= TotalTo(f, next - 1) /\ TotalTo(f, next - 1) <= Total(f)
  BY <1>1, <1>2, TotalOfFewer
<1>5. AtEnd => TotalTo(f, next - 1) = Total(f)
  BY <1>2 DEF Total
<1> QED
  BY <1>1, <1>3, <1>4, <1>5

LEMMA ShortStarts == Init => ShortInv
<1> SUFFICES ASSUME Init PROVE ShortInv
  OBVIOUS
<1>1. ChoiceInv /\ Totals
  BY ChoiceInit DEF ChoiceInv
<1>2. /\ next = 1 /\ staked = 0 /\ burned = 0 /\ phase \notin {"done", "failed"}
      /\ how = "spend" => phase = "stake"
  BY DEF Init
<1>3. Len(utxos) \in Nat /\ next <= Len(utxos) + 1
  BY <1>1, <1>2, LenProperties DEF Totals
<1>4. TotalTo(LockedMeans, next - 1) = 0
  <2>1. Len(LockedMeans) \in Nat
    BY <1>1, MeansType
  <2> QED
    BY <1>2, <2>1, TotalSteps
<1>5. Least(amount, 0) = 0
  BY <1>1 DEF Least, Totals
<1>6. Reached
  <2>1. \A i \in DOMAIN utxos : ~(i < next)
    BY <1>1, <1>2, LenProperties DEF Totals
  <2> QED
    BY <1>2, <1>3, <1>4, <1>5, <2>1 DEF Reached
<1> QED
  BY <1>1, <1>2, <1>6 DEF ShortInv, FailsOnlyShort

\* Taking as much as is wanted of what comes, one after the other.
LEMMA LeastMore ==
  ASSUME NEW a \in Int, NEW p \in Int, NEW h \in Int, h >= 0
  PROVE  Least(a, p) + Least(a - Least(a, p), h) = Least(a, p + h)
  BY DEF Least

LEMMA ShortSteps == ASSUME ShortInv, [Next]_vars PROVE ShortInv'
<1> USE DEF request
<1>0. /\ ChoiceInv /\ Totals /\ Reached /\ FailsOnlyShort /\ ChoiceInv' /\ Totals'
      /\ next <= Len(utxos) + 1
  BY ChoiceNext DEF ShortInv, ChoiceInv, Reached
\* Every step but an end leaves the request as it is and reaches no end.
<1>1. ASSUME UNCHANGED <<how, utxos, amount, fee>>
      PROVE  /\ Means' = Means /\ LockedMeans' = LockedMeans /\ FreeMeans' = FreeMeans
             /\ \A u : Mean(u)' <=> Mean(u)
  BY <1>1 DEF Means, LockedMeans, FreeMeans, Mean, IsLocked, Spendable, MatchThreshold
<1>2. CASE PassUnlocked
  <2>1. /\ UNCHANGED <<how, utxos, amount, fee, phase, staked, burned, used>>
        /\ next' = next + 1 /\ how = "spend" /\ phase = "stake" /\ ~AtEnd
        /\ ~(Mean(Here) /\ IsLocked(Here))
    BY <1>2 DEF PassUnlocked, Pass, Locked, IsLocked, Mean
  <2>2. /\ TotalTo(LockedMeans, next) = TotalTo(LockedMeans, next - 1)
        /\ next' - 1 = next /\ next' <= Len(utxos) + 1
    <3>1. next \in Nat /\ Len(utxos) \in Nat /\ LockedMeans[next] = 0
      BY <1>0, <2>1, WhichMeans, LenProperties DEF Totals
    <3>2. /\ TotalTo(LockedMeans, next) = TotalTo(LockedMeans, next - 1) + LockedMeans[next]
          /\ TotalTo(LockedMeans, next - 1) \in Int /\ next <= Len(utxos)
      BY <1>0, <2>1, MeansHere
    <3> QED
      BY <2>1, <3>1, <3>2
  <2>3. Reached'
    BY <1>0, <1>1, <2>1, <2>2 DEF Reached
  <2>4. FailsOnlyShort'
    BY <2>1 DEF FailsOnlyShort
  <2> QED
    BY <1>0, <2>3, <2>4 DEF ShortInv
<1>3. CASE StakeLocked
  <2>1. PICK s, rest \in Nat :
          /\ s + rest = Here.amount /\ s = Least(amount - staked, Here.amount)
          /\ Chooses(0, rest, IF rest > 0 THEN s ELSE 0)
          /\ staked' = staked + s /\ burned' = burned
          /\ how = "spend" /\ phase = "stake" /\ IsLocked(Here)
    BY <1>0, <1>3, StakeFacts
  <2>2. /\ UNCHANGED <<how, utxos, amount, fee, phase>> /\ next' = next + 1 /\ ~AtEnd
        /\ Mean(Here)
    BY <2>1 DEF Chooses, Mean
  <2>3. /\ TotalTo(LockedMeans, next) = TotalTo(LockedMeans, next - 1) + Here.amount
        /\ TotalTo(LockedMeans, next - 1) \in Int /\ TotalTo(LockedMeans, next - 1) >= 0
        /\ next' - 1 = next /\ next' <= Len(utxos) + 1
    <3>1. next \in Nat /\ Len(utxos) \in Nat /\ LockedMeans[next] = Here.amount
      BY <1>0, <2>1, <2>2, WhichMeans, LenProperties DEF Totals
    <3>2. /\ TotalTo(LockedMeans, next) = TotalTo(LockedMeans, next - 1) + LockedMeans[next]
          /\ TotalTo(LockedMeans, next - 1) \in Int /\ TotalTo(LockedMeans, next - 1) >= 0
          /\ next <= Len(utxos)
      BY <1>0, <2>2, MeansHere
    <3> QED
      BY <2>2, <3>1, <3>2
  <2>4. burned = 0 /\ staked = Least(amount, TotalTo(LockedMeans, next - 1))
    BY <1>0, <2>1 DEF Reached
  <2>5. staked' = Least(amount, TotalTo(LockedMeans, next))
    <3>1. Here.amount \in Nat /\ amount \in Nat /\ staked \in Nat
      BY <1>0, <2>2, HereType DEF Totals
    <3> DEFINE Held == TotalTo(LockedMeans, next - 1)
               H == Here.amount
    <3>2. /\ staked = Least(amount, Held) /\ s = Least(amount - staked, H) /\ staked' = staked + s
          /\ TotalTo(LockedMeans, next) = Held + H /\ Held \in Int /\ H \in Int /\ H >= 0
          /\ amount \in Int
      BY <2>1, <2>3, <2>4, <3>1
    <3> HIDE DEF Held, H
    <3> QED
      BY <3>2, LeastMore
  <2>6. Reached'
    BY <1>0, <1>1, <2>1, <2>2, <2>3, <2>4, <2>5 DEF Reached
  <2>7. FailsOnlyShort'
    BY <2>1, <2>2 DEF FailsOnlyShort
  <2> QED
    BY <1>0, <2>6, <2>7 DEF ShortInv
<1>4. CASE EndStake
  <2>1. /\ UNCHANGED <<how, utxos, amount, fee, staked, burned, used>>
        /\ next' = 1 /\ how = "spend" /\ phase = "stake" /\ phase' = "burn"
        /\ AtEnd \/ staked >= amount
    BY <1>4 DEF EndStake
  <2>2. burned = 0 /\ staked = Least(amount, TotalTo(LockedMeans, next - 1))
    BY <1>0, <2>1 DEF Reached
  <2>3. staked = Least(amount, Total(LockedMeans))
    <3>1. /\ TotalTo(LockedMeans, next - 1) \in Int
          /\ TotalTo(LockedMeans, next - 1) <= Total(LockedMeans)
          /\ Total(LockedMeans) \in Int
          /\ AtEnd => TotalTo(LockedMeans, next - 1) = Total(LockedMeans)
      BY <1>0, MeansPassed
    <3>2. amount \in Nat
      BY <1>0 DEF Totals
    <3> QED
      BY <2>1, <2>2, <3>1, <3>2 DEF Least
  <2>4. TotalTo(FreeMeans, 0) = 0
    <3>1. Len(FreeMeans) \in Nat
      BY <1>0, MeansType
    <3> QED
      BY <3>1, TotalSteps
  <2>5. /\ burned = Least(fee, TotalTo(FreeMeans, next' - 1))
        /\ staked = Least(amount, Least(amount, Total(LockedMeans))
                                    + (TotalTo(FreeMeans, next' - 1) - burned))
    <3>1. next' - 1 = 0 /\ Least(fee, 0) = 0
      BY <1>0, <2>1 DEF Totals, Least
    <3>2. Least(amount, Least(amount, Total(LockedMeans)) + (0 - 0)) = staked
      <4>1. amount \in Nat /\ Total(LockedMeans) \in Int
        BY <1>0, MeansType DEF Totals
      <4> QED
        BY <2>3, <4>1 DEF Least
    <3> QED
      BY <2>2, <2>4, <3>1, <3>2
  <2>6. Reached'
    <3>1. next' <= Len(utxos) + 1
      BY <1>0, <2>1, LenProperties DEF Totals
    <3> QED
      BY <1>1, <2>1, <2>5, <3>1 DEF Reached
  <2>7. FailsOnlyShort'
    BY <2>1 DEF FailsOnlyShort
  <2> QED
    BY <1>0, <2>6, <2>7 DEF ShortInv
<1>5. CASE PassLocked
  <2>1. /\ UNCHANGED <<how, utxos, amount, fee, phase, staked, burned, used>>
        /\ next' = next + 1 /\ how = "spend" /\ phase = "burn" /\ ~AtEnd
        /\ ~(Mean(Here) /\ ~IsLocked(Here))
    BY <1>5 DEF PassLocked, Pass, Locked, IsLocked, Mean
  <2>2. /\ TotalTo(FreeMeans, next) = TotalTo(FreeMeans, next - 1)
        /\ next' - 1 = next /\ next' <= Len(utxos) + 1
    <3>1. next \in Nat /\ Len(utxos) \in Nat /\ FreeMeans[next] = 0
      BY <1>0, <2>1, WhichMeans, LenProperties DEF Totals
    <3>2. /\ TotalTo(FreeMeans, next) = TotalTo(FreeMeans, next - 1) + FreeMeans[next]
          /\ TotalTo(FreeMeans, next - 1) \in Int /\ next <= Len(utxos)
      BY <1>0, <2>1, MeansHere
    <3> QED
      BY <2>1, <3>1, <3>2
  <2>3. Reached'
    BY <1>0, <1>1, <2>1, <2>2 DEF Reached
  <2>4. FailsOnlyShort'
    BY <2>1 DEF FailsOnlyShort
  <2> QED
    BY <1>0, <2>3, <2>4 DEF ShortInv
<1>6. CASE BurnFree
  <2>1. PICK b, s, r \in Nat :
          /\ b + s + r = Here.amount /\ b = Least(fee - burned, Here.amount)
          /\ s = Least(amount - staked, Here.amount - b)
          /\ Chooses(b, s, r)
          /\ staked' = staked + s /\ burned' = burned + b
          /\ how = "spend" /\ phase = "burn" /\ ~IsLocked(Here)
    BY <1>0, <1>6, BurnFacts
  <2>2. /\ UNCHANGED <<how, utxos, amount, fee, phase>> /\ next' = next + 1 /\ ~AtEnd
        /\ Mean(Here)
    BY <2>1 DEF Chooses, Mean
  <2> DEFINE F == TotalTo(FreeMeans, next - 1)
             S == Least(amount, Total(LockedMeans))
  <2>3. /\ TotalTo(FreeMeans, next) = F + Here.amount
        /\ F \in Int /\ F >= 0
        /\ next' - 1 = next /\ next' <= Len(utxos) + 1
    <3>1. next \in Nat /\ Len(utxos) \in Nat /\ FreeMeans[next] = Here.amount
      BY <1>0, <2>1, <2>2, WhichMeans, LenProperties DEF Totals
    <3>2. /\ TotalTo(FreeMeans, next) = F + FreeMeans[next]
          /\ F \in Int /\ F >= 0 /\ next <= Len(utxos)
      BY <1>0, <2>2, MeansHere
    <3> QED
      BY <2>2, <3>1, <3>2
  <2>4. burned = Least(fee, F) /\ staked = Least(amount, S + (F - burned))
    BY <1>0, <2>1 DEF Reached
  <2>5. S \in Int /\ S <= amount
    BY <1>0, MeansType DEF Totals, Least
  <2>6. Here.amount \in Nat /\ amount \in Nat /\ fee \in Nat /\ staked \in Nat /\ burned \in Nat
    BY <1>0, <2>2, HereType DEF Totals
  <2> HIDE DEF F, S
  <2>7. burned' = Least(fee, F + Here.amount)
    BY <2>1, <2>3, <2>4, <2>6 DEF Least
  <2>8. staked' = Least(amount, S + ((F + Here.amount) - burned'))
    <3> DEFINE Q == S + (F - burned)
               H == Here.amount
               h == H - b
    <3>0. b + s + r = H /\ burned' = burned + b /\ H \in Nat /\ F \in Int /\ S \in Int
          /\ burned \in Nat
      BY <2>1, <2>3, <2>5, <2>6
    <3> HIDE DEF H
    <3>1. Q \in Int /\ h \in Int /\ h >= 0
      BY <3>0
    <3>2. (F + Here.amount) - burned' = (F - burned) + h
      BY <3>0 DEF H
    <3>3. S + ((F - burned) + h) = Q + h
      BY <2>3, <2>5, <2>6, <3>1
    <3>4. staked = Least(amount, Q) /\ s = Least(amount - staked, h) /\ staked' = staked + s
      BY <2>1, <2>4 DEF H
    <3> HIDE DEF Q, h
    <3>5. staked' = Least(amount, Q + h)
      BY <2>6, <3>1, <3>4, LeastMore
    <3> QED
      BY <3>2, <3>3, <3>5
  <2>9. Reached'
    BY <1>0, <1>1, <2>1, <2>2, <2>3, <2>7, <2>8 DEF Reached, S
  <2>10. FailsOnlyShort'
    BY <2>1, <2>2 DEF FailsOnlyShort
  <2> QED
    BY <1>0, <2>9, <2>10 DEF ShortInv
<1>7. CASE EndSpend
  <2>1. /\ UNCHANGED <<how, utxos, amount, fee, next, staked, burned, used>>
        /\ how = "spend" /\ phase = "burn" /\ phase' \in {"done", "failed"}
        /\ phase' = "done" <=> burned >= fee /\ staked >= amount
        /\ AtEnd \/ (burned >= fee /\ staked >= amount)
    BY <1>7 DEF EndSpend, Stop, Enough
  <2> DEFINE F == TotalTo(FreeMeans, next - 1)
             L == Total(LockedMeans)
             Free == Total(FreeMeans)
  <2>2. burned = Least(fee, F) /\ staked = Least(amount, Least(amount, L) + (F - burned))
    BY <1>0, <2>1 DEF Reached
  <2>3. F \in Int /\ 0 <= F /\ F <= Free /\ Free \in Int /\ (AtEnd => F = Free)
    BY <1>0, MeansPassed
  <2>4. L \in Int /\ L >= 0
    BY <1>0, MeansPassed
  <2>5. Total(Means) = L + Free
    BY <1>0, MeansAdd
  <2>6. amount \in Nat /\ fee \in Nat
    BY <1>0 DEF Totals
  <2> HIDE DEF F, L, Free
  <2>7. burned >= fee /\ staked >= amount <=> Free >= fee /\ L + Free >= fee + amount
    BY <2>1, <2>2, <2>3, <2>4, <2>6 DEF Least
  <2>8. FailsOnlyShort'
    BY <1>1, <2>1, <2>5, <2>7 DEF FailsOnlyShort, Free
  <2>9. Reached'
    BY <1>0, <2>1 DEF Reached
  <2> QED
    BY <1>0, <2>8, <2>9 DEF ShortInv
<1>8. CASE PassPaid \/ PanicUnspendable \/ EndTransfer \/ Pay
  <2>1. UNCHANGED <<how, utxos>> /\ how = "transfer"
        /\ (next' = next \/ (next' = next + 1 /\ ~AtEnd))
    BY <1>8 DEF PassPaid, PanicUnspendable, EndTransfer, Pay, Pass, Stop
  <2>2. next' <= Len(utxos) + 1
    BY <1>0, <2>1, LenProperties DEF Totals, AtEnd
  <2> QED
    BY <1>0, <2>1, <2>2 DEF ShortInv, Reached, FailsOnlyShort
<1>9. CASE PassImport
  <2>1. /\ UNCHANGED <<how, utxos, amount, fee, phase, used>> /\ how = "import" /\ phase = "burn"
        /\ next' = next + 1 /\ ~AtEnd /\ (~Mean(Here) \/ Here.stakeable)
    BY <1>9 DEF PassImport, Pass, Mean
  <2>2. next' <= Len(utxos) + 1 /\ next \in Nat /\ DOMAIN utxos = 1..Len(utxos) /\ Len(utxos) \in Nat
    BY <1>0, <2>1, LenProperties DEF Totals, AtEnd
  <2>3. ASSUME used = <<>>, NEW i \in DOMAIN utxos, i < next'
        PROVE  ~Mean(utxos[i]) \/ utxos[i].stakeable
    <3>1. i < next \/ i = next
      BY <2>1, <2>2, <2>3
    <3> QED
      BY <1>0, <2>1, <2>3, <3>1 DEF Reached, Here
  <2>4. Reached' /\ FailsOnlyShort'
    BY <1>1, <2>1, <2>2, <2>3 DEF Reached, FailsOnlyShort
  <2> QED
    BY <1>0, <2>4 DEF ShortInv
<1>10. CASE TakeImport
  <2>1. /\ UNCHANGED <<how, utxos, phase>> /\ how = "import" /\ phase = "burn"
        /\ next' = next + 1 /\ ~AtEnd /\ \E e : used' = Append(used, e)
    BY <1>10 DEF TakeImport
  <2>2. next' <= Len(utxos) + 1
    BY <1>0, <2>1, LenProperties DEF Totals, AtEnd
  <2>3. used' # <<>>
    <3>1. PICK e : used' = Append(used, e)
      BY <2>1
    <3>2. Len(used) + 1 \in DOMAIN used'
      BY <1>0, <3>1, AppendFacts DEF ChoiceInv, Passed
    <3> QED
      BY <3>2
  <2> QED
    BY <1>0, <2>1, <2>2, <2>3 DEF ShortInv, Reached, FailsOnlyShort
<1>11. CASE NothingToImport
  <2>1. /\ UNCHANGED <<how, utxos, next, used>> /\ how = "import" /\ AtEnd /\ used = <<>>
    BY <1>11 DEF NothingToImport, Stop
  <2>2. \A i \in DOMAIN utxos : i < next
    BY <1>0, <2>1, LenProperties DEF Totals, AtEnd
  <2>3. Reached'
    BY <1>0, <1>11, <1>1, <2>1 DEF Reached, NothingToImport, Stop
  <2>4. FailsOnlyShort'
    BY <1>0, <1>11, <1>1, <2>1, <2>2 DEF Reached, FailsOnlyShort, NothingToImport, Stop
  <2> QED
    BY <1>0, <2>3, <2>4 DEF ShortInv
<1>12. CASE EndImport
  <2>1. /\ UNCHANGED <<how, utxos, amount, fee, next, used>> /\ how = "import" /\ used # <<>>
        /\ phase' # "failed"
    BY <1>12 DEF EndImport
  <2> QED
    BY <1>0, <2>1 DEF ShortInv, Reached, FailsOnlyShort
<1>13. CASE UNCHANGED vars
  BY <1>0, <1>1, <1>13 DEF ShortInv, Reached, FailsOnlyShort, vars
<1> QED
  BY <1>2, <1>3, <1>4, <1>5, <1>6, <1>7, <1>8, <1>9, <1>10, <1>11, <1>12, <1>13 DEF Next

\* spend (wallet/p/mod.rs) succeeds exactly where what is not locked covers the fee
\* and all of it the fee and the stake, and an import (wallet/p/import.rs) fails only
\* if there is nothing to import, whatever an endpoint lists and in whatever order.
THEOREM FailsOnlyWhenShort == Spec => []FailsOnlyShort
<1>1. ShortInv /\ [Next]_vars => ShortInv'
  BY ShortSteps
<1>2. ShortInv => FailsOnlyShort
  BY DEF ShortInv
<1> QED
  BY <1>1, <1>2, ShortStarts, PTL DEF Spec

-----------------------------------------------------------------------------
(* The identity of a node: the inductive invariant.                        *)

Contents == {N!Absent, N!Empty} \union N!Ids

NodeTypes ==
  /\ files \in [signer : Contents, tlsKey : Contents, tlsCert : Contents]
  /\ step \in [Starts -> {"off"} \union N!OfSigner \union N!OfPem]
  /\ mine \in [Starts -> Nat] /\ starts \in Nat
  /\ \A p \in Starts : step[p] # "off" => mine[p] \in N!Ids
  /\ \A r \in returned : r.id \in N!Ids

\* No two starts are at these steps.
OneAt(steps) == \A p, q \in Starts : step[p] \in steps /\ step[q] \in steps => p = q

\* A file that is there stays.  As long as one start at a time looks for the key,
\* the file has no key until it is written whole.
SignerFile ==
  /\ \A p \in Starts : step[p] \in {"load", "read"} => files.signer # N!Absent
  /\ "signer" \notin together =>
       /\ OneAt(N!OfSigner)
       /\ \A r \in returned : r.what = "signer" => r.id = files.signer
       /\ \A p \in Starts : step[p] \in {"generate", "create"} => files.signer = N!Absent
       /\ \A p \in Starts : step[p] = "write" => files.signer = N!Empty

\* And so for the certificate, whose key is written before it.
PemFiles ==
  /\ DOMAIN haveKey = Starts
  /\ \A p \in Starts : step[p] = "load cert" => files.tlsCert # N!Absent
  /\ "node" \notin together =>
       /\ OneAt(N!OfPem)
       /\ \A r \in returned : r.what = "node" => r.id = files.tlsCert /\ r.tls = r.id
       /\ files.tlsCert # N!Absent => files.tlsKey # N!Absent
       /\ files.tlsCert \in N!Ids => files.tlsKey = files.tlsCert
       /\ \A p \in Starts : step[p] = "cert exists" => (haveKey[p] <=> files.tlsKey # N!Absent)
       /\ \A p \in Starts : step[p] \in {"generate pem", "write key"} => files.tlsCert = N!Absent
       /\ \A p \in Starts : step[p] = "create cert" =>
            files.tlsCert = N!Absent /\ files.tlsKey = mine[p]
       /\ \A p \in Starts : step[p] = "write cert" =>
            files.tlsCert = N!Empty /\ files.tlsKey = mine[p]

NodeInv == NodeTypes /\ SignerFile /\ PemFiles

\* What the files may have in them.
LEMMA ContentsDiffer ==
  /\ N!Absent \notin N!Ids /\ N!Empty \notin N!Ids /\ N!Absent # N!Empty
  /\ N!Absent \in Contents /\ N!Empty \in Contents /\ N!Ids \subseteq Contents
  BY DEF N!Absent, N!Empty, N!Ids, Contents

\* The key of a start leaves the certificate alone, and so the other way round.
LEMMA SignerLeavesPem ==
  ASSUME NodeInv, NEW p \in Starts, NEW to \in {"off"} \union N!OfSigner,
         step[p] \in {"off"} \union N!OfSigner, step' = [step EXCEPT ![p] = to],
         files'.tlsCert = files.tlsCert, files'.tlsKey = files.tlsKey,
         \A q \in Starts : q # p => mine'[q] = mine[q], haveKey' = haveKey,
         "node" \notin together' => "node" \notin together,
         \A r \in returned' : r.what = "node" => r \in returned
  PROVE  PemFiles'
<1>1. \A q \in Starts : step'[q] = IF q = p THEN to ELSE step[q]
  BY DEF NodeInv, NodeTypes
<1>2. to \notin N!OfPem /\ step[p] \notin N!OfPem
  BY DEF N!OfSigner, N!OfPem
<1>3. \A q \in Starts : step'[q] \in N!OfPem =>
        /\ step'[q] = step[q] /\ mine'[q] = mine[q] /\ haveKey'[q] = haveKey[q]
  BY <1>1, <1>2
<1>4. OneAt(N!OfPem) => OneAt(N!OfPem)'
  BY <1>3 DEF OneAt
<1>5. {"cert exists", "generate pem", "write key", "create cert", "write cert", "load cert"} \subseteq N!OfPem
  BY DEF N!OfPem
<1>6. PemFiles /\ DOMAIN haveKey' = Starts
  BY DEF NodeInv, PemFiles
<1>7. \A q \in Starts : step'[q] = "load cert" => files'.tlsCert # N!Absent
  BY <1>3, <1>5, <1>6 DEF PemFiles
<1>8. ASSUME "node" \notin together'
      PROVE  /\ OneAt(N!OfPem)'
             /\ \A r \in returned' : r.what = "node" => r.id = files'.tlsCert /\ r.tls = r.id
             /\ files'.tlsCert # N!Absent => files'.tlsKey # N!Absent
             /\ files'.tlsCert \in N!Ids => files'.tlsKey = files'.tlsCert
  BY <1>4, <1>6, <1>8 DEF PemFiles
<1>9. ASSUME "node" \notin together', NEW q \in Starts
      PROVE  /\ step'[q] = "cert exists" => (haveKey'[q] <=> files'.tlsKey # N!Absent)
             /\ step'[q] \in {"generate pem", "write key"} => files'.tlsCert = N!Absent
  BY <1>3, <1>5, <1>6, <1>9 DEF PemFiles
<1>10. ASSUME "node" \notin together', NEW q \in Starts
       PROVE  /\ step'[q] = "create cert" =>
                   files'.tlsCert = N!Absent /\ files'.tlsKey = mine'[q]
              /\ step'[q] = "write cert" =>
                   files'.tlsCert = N!Empty /\ files'.tlsKey = mine'[q]
  BY <1>3, <1>5, <1>6, <1>10 DEF PemFiles
<1> QED
  BY <1>6, <1>7, <1>8, <1>9, <1>10 DEF PemFiles

LEMMA PemLeavesSigner ==
  ASSUME NodeInv, NEW p \in Starts, NEW to \in {"off"} \union N!OfPem,
         step[p] \in {"off"} \union N!OfPem, step' = [step EXCEPT ![p] = to],
         files'.signer = files.signer,
         "signer" \notin together' => "signer" \notin together,
         \A r \in returned' : r.what = "signer" => r \in returned
  PROVE  SignerFile'
<1>1. \A q \in Starts : step'[q] = IF q = p THEN to ELSE step[q]
  BY DEF NodeInv, NodeTypes
<1>2. to \notin N!OfSigner /\ step[p] \notin N!OfSigner
  BY DEF N!OfSigner, N!OfPem
<1>3. \A q \in Starts : step'[q] \in N!OfSigner => step'[q] = step[q]
  BY <1>1, <1>2
<1>4. OneAt(N!OfSigner) => OneAt(N!OfSigner)'
  BY <1>3 DEF OneAt
<1>5. {"generate", "create", "write", "load", "read"} \subseteq N!OfSigner
  BY DEF N!OfSigner
<1> QED
  BY <1>3, <1>4, <1>5 DEF NodeInv, SignerFile

\* A step of one start from some steps to others of the same kind.
LEMMA OneStays ==
  ASSUME NodeTypes, NEW p \in Starts, NEW to, NEW steps, step' = [step EXCEPT ![p] = to],
         OneAt(steps), to \in steps => step[p] \in steps
  PROVE  OneAt(steps)'
  BY DEF NodeTypes, OneAt

\* Where it is the only one, it is the only one there.
LEMMA OnlyOne ==
  ASSUME NodeTypes, NEW p \in Starts, NEW to, NEW steps, step' = [step EXCEPT ![p] = to],
         OneAt(steps), step[p] \in steps
  PROVE  \A q \in Starts : q # p => step'[q] \notin steps
  BY DEF NodeTypes, OneAt

\* The start that begins is the only one of its kind, or together says so.
LEMMA BeginsAlone ==
  ASSUME NodeInv, NEW p \in Starts, NEW what, NEW steps, NEW to, "off" \notin steps,
         N!Begin(p, what, steps, to), OneAt(steps)
  PROVE  what \notin together' => OneAt(steps)' /\ \A q \in Starts : q # p => step'[q] \notin steps
<1>1. \A q \in Starts : step'[q] = IF q = p THEN to ELSE step[q]
  BY DEF N!Begin, NodeInv, NodeTypes
<1>2. CASE N!Others(p, steps)
  BY <1>2 DEF N!Begin
<1>3. CASE ~N!Others(p, steps)
  BY <1>1, <1>3 DEF N!Others, OneAt
<1> QED
  BY <1>2, <1>3

LEMMA BeginTypes ==
  ASSUME NodeInv, NEW p \in Starts, NEW what, NEW steps,
         NEW to \in N!OfSigner \union N!OfPem, N!Begin(p, what, steps, to),
         files' = files, returned' = returned
  PROVE  NodeTypes' /\ (\A q \in Starts : q # p => mine'[q] = mine[q])
         /\ step' = [step EXCEPT ![p] = to] /\ step[p] = "off" /\ together \subseteq together'
<1>1. /\ step[p] = "off" /\ starts < MaxStarts /\ starts' = starts + 1
      /\ mine' = [mine EXCEPT ![p] = starts'] /\ step' = [step EXCEPT ![p] = to]
      /\ together \subseteq together'
  BY DEF N!Begin
<1>2. starts' \in N!Ids /\ starts' \in Nat
  BY <1>1, BoundsAssumption DEF N!Ids, NodeInv, NodeTypes
<1> QED
  BY <1>1, <1>2 DEF NodeInv, NodeTypes, Contents

\* A start goes on, or ends: nothing but where it is changes.
LEMMA GoesOnTypes ==
  ASSUME NodeInv, NEW p \in Starts, NEW to \in {"off"} \union N!OfSigner \union N!OfPem,
         N!GoTo(p, to), step[p] # "off", UNCHANGED <<mine, starts>>,
         files' \in [signer : Contents, tlsKey : Contents, tlsCert : Contents],
         \A r \in returned' : r \in returned \/ r.id \in N!Ids
  PROVE  NodeTypes' /\ step' = [step EXCEPT ![p] = to]
  BY DEF NodeInv, NodeTypes, N!GoTo

LEMMA StartSignerKeeps == ASSUME NodeInv, NEW p \in Starts, N!StartSigner(p) PROVE NodeInv'
<1> DEFINE to == IF files.signer = N!Absent THEN "generate" ELSE "load"
<1>1. /\ N!Begin(p, "signer", N!OfSigner, to) /\ to \in N!OfSigner
      /\ files' = files /\ haveKey' = haveKey /\ returned' = returned
  BY DEF N!StartSigner, N!OfSigner
<1>2. to = "generate" => files.signer = N!Absent
  OBVIOUS
<1>3. to # "generate" => to = "load" /\ files.signer # N!Absent
  OBVIOUS
<1> HIDE DEF to
<1>4. NodeTypes' /\ (\A q \in Starts : q # p => mine'[q] = mine[q])
      /\ step' = [step EXCEPT ![p] = to] /\ step[p] = "off" /\ together \subseteq together'
  BY <1>1, BeginTypes
<1>5. PemFiles'
  BY <1>1, <1>4, SignerLeavesPem
<1>6. \A q \in Starts : step'[q] = IF q = p THEN to ELSE step[q]
  BY <1>4 DEF NodeInv, NodeTypes
<1>7. "signer" \notin together' => OneAt(N!OfSigner)' /\ \A q \in Starts : q # p => step'[q] \notin N!OfSigner
  <2>1. "off" \notin N!OfSigner
    BY DEF N!OfSigner
  <2> QED
    BY <1>1, <1>4, <2>1, BeginsAlone DEF NodeInv, SignerFile
<1>8. {"generate", "create", "write", "load", "read"} \subseteq N!OfSigner
  BY DEF N!OfSigner
<1>9. SignerFile'
  BY <1>1, <1>2, <1>3, <1>4, <1>6, <1>7, <1>8 DEF NodeInv, SignerFile
<1> QED
  BY <1>4, <1>5, <1>9 DEF NodeInv

\* A start of the key goes on: what it does to the file, and what it returns.
LEMMA SignerGoesOn ==
  ASSUME NodeInv, NEW p \in Starts, NEW to \in {"off"} \union N!OfSigner,
         N!GoTo(p, to), step[p] \in N!OfSigner, UNCHANGED <<mine, starts, haveKey, together>>,
         files' \in [signer : Contents, tlsKey : Contents, tlsCert : Contents],
         files'.tlsCert = files.tlsCert, files'.tlsKey = files.tlsKey,
         \A r \in returned' : r \in returned \/ (r.id \in N!Ids /\ r.what = "signer"),
         files'.signer = N!Absent => files.signer = N!Absent,
         to \in {"load", "read"} => files'.signer # N!Absent,
         "signer" \notin together =>
           /\ \A r \in returned' : r.what = "signer" => r.id = files'.signer
           /\ to \in {"generate", "create"} => files'.signer = N!Absent
           /\ to = "write" => files'.signer = N!Empty
  PROVE  NodeInv'
<1>1. step[p] # "off"
  BY DEF N!OfSigner
<1>2. NodeTypes' /\ step' = [step EXCEPT ![p] = to]
  BY <1>1, GoesOnTypes
<1>3. PemFiles'
  BY <1>2, SignerLeavesPem
<1>4. \A q \in Starts : step'[q] = IF q = p THEN to ELSE step[q]
  BY <1>2 DEF NodeInv, NodeTypes
<1>5. "signer" \notin together => OneAt(N!OfSigner)' /\ \A q \in Starts : q # p => step'[q] \notin N!OfSigner
  BY <1>2, OneStays, OnlyOne DEF NodeInv, SignerFile
<1>6. {"generate", "create", "write", "load", "read"} \subseteq N!OfSigner
  BY DEF N!OfSigner
<1>7. SignerFile'
  BY <1>4, <1>5, <1>6 DEF NodeInv, SignerFile
<1> QED
  BY <1>2, <1>3, <1>7 DEF NodeInv

LEMMA SignerSteps ==
  {"generate", "create", "write", "load", "read"} = N!OfSigner
  BY DEF N!OfSigner

\* No key is returned before the file has one.
LEMMA NoKeyYet ==
  ASSUME NodeInv, "signer" \notin together, files.signer \notin N!Ids
  PROVE  \A r \in returned : r.what # "signer"
  BY DEF NodeInv, NodeTypes, SignerFile

LEMMA GenerateKeeps == ASSUME NodeInv, NEW p \in Starts, N!Generate(p) PROVE NodeInv'
<1>1. PICK to \in {"create", "off"} :
        /\ N!GoTo(p, to) /\ step[p] = "generate" /\ (to = "create" => files.signer = N!Absent)
        /\ UNCHANGED <<files, mine, starts, len, haveKey, together, returned>>
  BY DEF N!Generate
<1> QED
  BY <1>1, SignerGoesOn, SignerSteps DEF NodeInv, NodeTypes, SignerFile

LEMMA CreateKeeps == ASSUME NodeInv, NEW p \in Starts, N!Create(p) PROVE NodeInv'
<1>1. /\ N!GoTo(p, "write") /\ step[p] = "create" /\ files' = [files EXCEPT !.signer = N!Empty]
      /\ UNCHANGED <<mine, starts, len, haveKey, together, returned>>
  BY DEF N!Create
<1>2. "signer" \notin together => \A r \in returned : r.what # "signer"
  <2> SUFFICES ASSUME "signer" \notin together PROVE \A r \in returned : r.what # "signer"
    OBVIOUS
  <2>1. files.signer = N!Absent
    BY <1>1 DEF NodeInv, SignerFile
  <2> QED
    BY <2>1, ContentsDiffer, NoKeyYet
<1>3. /\ files' \in [signer : Contents, tlsKey : Contents, tlsCert : Contents]
      /\ files'.tlsCert = files.tlsCert /\ files'.tlsKey = files.tlsKey
      /\ files'.signer = N!Empty
  BY <1>1, ContentsDiffer DEF NodeInv, NodeTypes
<1> QED
  BY <1>1, <1>2, <1>3, ContentsDiffer, SignerGoesOn, SignerSteps

LEMMA WriteKeeps == ASSUME NodeInv, NEW p \in Starts, N!Write(p) PROVE NodeInv'
<1> DEFINE r0 == [what |-> "signer", id |-> mine[p], tls |-> files.tlsKey, generated |-> TRUE]
<1>1. /\ N!GoTo(p, "off") /\ step[p] = "write" /\ files' = [files EXCEPT !.signer = mine[p]]
      /\ returned' = returned \union {r0}
      /\ UNCHANGED <<mine, starts, len, haveKey, together>>
  BY DEF N!Write, N!Return
<1>2. "signer" \notin together => \A r \in returned : r.what # "signer"
  <2> SUFFICES ASSUME "signer" \notin together PROVE \A r \in returned : r.what # "signer"
    OBVIOUS
  <2>1. files.signer = N!Empty
    BY <1>1 DEF NodeInv, SignerFile
  <2> QED
    BY <2>1, ContentsDiffer, NoKeyYet
<1>3. mine[p] \in N!Ids /\ mine[p] \in Contents
  BY <1>1, ContentsDiffer DEF NodeInv, NodeTypes
<1>4. /\ files' \in [signer : Contents, tlsKey : Contents, tlsCert : Contents]
      /\ files'.tlsCert = files.tlsCert /\ files'.tlsKey = files.tlsKey
      /\ files'.signer = mine[p]
  BY <1>1, <1>3 DEF NodeInv, NodeTypes
<1>5. r0.what = "signer" /\ r0.id = mine[p]
  OBVIOUS
<1> HIDE DEF r0
<1> QED
  BY <1>1, <1>2, <1>3, <1>4, <1>5, ContentsDiffer, SignerGoesOn, SignerSteps

LEMMA LoadKeeps == ASSUME NodeInv, NEW p \in Starts, N!Load(p) PROVE NodeInv'
<1>1. /\ N!GoTo(p, "read") /\ step[p] = "load"
      /\ UNCHANGED <<files, mine, starts, haveKey, together, returned>>
  BY DEF N!Load
<1> QED
  BY <1>1, SignerGoesOn, SignerSteps DEF NodeInv, NodeTypes, SignerFile

LEMMA ReadKeeps == ASSUME NodeInv, NEW p \in Starts, N!Read(p) PROVE NodeInv'
<1> DEFINE r0 == [what |-> "signer", id |-> files.signer, tls |-> files.tlsKey, generated |-> FALSE]
<1>1. /\ N!GoTo(p, "off") /\ step[p] = "read"
      /\ \/ files.signer # N!Empty /\ returned' = returned \union {r0}
         \/ returned' = returned
      /\ UNCHANGED <<files, mine, starts, len, haveKey, together>>
  BY DEF N!Read, N!Return
<1>2. files.signer # N!Absent /\ files.signer \in Contents
  BY <1>1 DEF NodeInv, NodeTypes, SignerFile
<1>3. files.signer # N!Empty => files.signer \in N!Ids
  BY <1>2 DEF Contents
<1>4. r0.what = "signer" /\ r0.id = files.signer
  OBVIOUS
<1> HIDE DEF r0
<1>5. \A r \in returned' : r \in returned \/ (r.id \in N!Ids /\ r.what = "signer" /\ r.id = files.signer)
  BY <1>1, <1>3, <1>4
<1>6. /\ files' \in [signer : Contents, tlsKey : Contents, tlsCert : Contents]
      /\ "signer" \notin together => \A r \in returned : r.what = "signer" => r.id = files.signer
  BY <1>1 DEF NodeInv, NodeTypes, SignerFile
<1> QED
  BY <1>1, <1>5, <1>6, SignerGoesOn, SignerSteps

LEMMA PemSteps ==
  {"cert exists", "generate pem", "write key", "create cert", "write cert", "load cert"} = N!OfPem
  BY DEF N!OfPem

LEMMA StartPemKeeps == ASSUME NodeInv, NEW p \in Starts, N!StartPem(p) PROVE NodeInv'
<1>1. /\ N!Begin(p, "node", N!OfPem, "cert exists") /\ "cert exists" \in N!OfPem
      /\ files' = files /\ returned' = returned
      /\ haveKey' = [haveKey EXCEPT ![p] = files.tlsKey # N!Absent]
  BY DEF N!StartPem, N!OfPem
<1>2. NodeTypes' /\ (\A q \in Starts : q # p => mine'[q] = mine[q])
      /\ step' = [step EXCEPT ![p] = "cert exists"] /\ step[p] = "off" /\ together \subseteq together'
  BY <1>1, BeginTypes
<1>3. SignerFile'
  BY <1>1, <1>2, PemLeavesSigner
<1>4. \A q \in Starts : step'[q] = IF q = p THEN "cert exists" ELSE step[q]
  BY <1>2 DEF NodeInv, NodeTypes
<1>5. "node" \notin together' => OneAt(N!OfPem)' /\ \A q \in Starts : q # p => step'[q] \notin N!OfPem
  <2>1. "off" \notin N!OfPem
    BY DEF N!OfPem
  <2> QED
    BY <1>1, <1>2, <2>1, BeginsAlone DEF NodeInv, PemFiles
<1>6. DOMAIN haveKey' = Starts
      /\ (haveKey'[p] <=> files.tlsKey # N!Absent) /\ \A q \in Starts : q # p => haveKey'[q] = haveKey[q]
  <2>1. DOMAIN haveKey = Starts
    BY DEF NodeInv, PemFiles
  <2> QED
    BY <1>1, <2>1
<1>7. DOMAIN haveKey' = Starts /\ \A q \in Starts : step'[q] = "load cert" => files'.tlsCert # N!Absent
  BY <1>1, <1>4, <1>6 DEF NodeInv, PemFiles
<1>8. ASSUME "node" \notin together'
      PROVE  \A q \in Starts : step'[q] = "cert exists" => (haveKey'[q] <=> files'.tlsKey # N!Absent)
  BY <1>1, <1>5, <1>6, <1>8, PemSteps
<1>9. ASSUME "node" \notin together', NEW q \in Starts
      PROVE  step'[q] \notin N!OfPem \ {"cert exists"}
  BY <1>4, <1>5, <1>9
<1>10. ASSUME "node" \notin together'
       PROVE  /\ \A r \in returned' : r.what = "node" => r.id = files'.tlsCert /\ r.tls = r.id
              /\ files'.tlsCert # N!Absent => files'.tlsKey # N!Absent
              /\ files'.tlsCert \in N!Ids => files'.tlsKey = files'.tlsCert
  BY <1>1, <1>2, <1>10 DEF NodeInv, PemFiles
<1>11. ASSUME "node" \notin together', NEW q \in Starts
       PROVE  step'[q] \notin {"generate pem", "write key", "create cert", "write cert"}
  <2>1. "cert exists" \notin {"generate pem", "write key", "create cert", "write cert"}
    OBVIOUS
  <2> QED
    BY <1>9, <1>11, <2>1, PemSteps
<1>12. PemFiles'
  BY <1>5, <1>7, <1>8, <1>10, <1>11 DEF PemFiles
<1> QED
  BY <1>2, <1>3, <1>12 DEF NodeInv

\* A start of the certificate goes on: what it does to the files, and what it returns.
LEMMA PemGoesOn ==
  ASSUME NodeInv, NEW p \in Starts, NEW to \in ({"off"} \union N!OfPem) \ {"cert exists"},
         N!GoTo(p, to), step[p] \in N!OfPem, UNCHANGED <<mine, starts, haveKey, together>>,
         files' \in [signer : Contents, tlsKey : Contents, tlsCert : Contents],
         files'.signer = files.signer,
         \A r \in returned' : r \in returned \/ (r.id \in N!Ids /\ r.what = "node"),
         files'.tlsCert = N!Absent => files.tlsCert = N!Absent,
         to = "load cert" => files'.tlsCert # N!Absent,
         "node" \notin together =>
           /\ \A r \in returned' : r.what = "node" => r.id = files'.tlsCert /\ r.tls = r.id
           /\ files'.tlsCert # N!Absent => files'.tlsKey # N!Absent
           /\ files'.tlsCert \in N!Ids => files'.tlsKey = files'.tlsCert
           /\ to \in {"generate pem", "write key"} => files'.tlsCert = N!Absent
           /\ to = "create cert" => files'.tlsCert = N!Absent /\ files'.tlsKey = mine[p]
           /\ to = "write cert" => files'.tlsCert = N!Empty /\ files'.tlsKey = mine[p]
  PROVE  NodeInv'
<1>1. step[p] # "off"
  BY DEF N!OfPem
<1>2. NodeTypes' /\ step' = [step EXCEPT ![p] = to]
  BY <1>1, GoesOnTypes
<1>3. SignerFile'
  BY <1>2, PemLeavesSigner
<1>4. \A q \in Starts : step'[q] = IF q = p THEN to ELSE step[q]
  BY <1>2 DEF NodeInv, NodeTypes
<1>5. "node" \notin together => OneAt(N!OfPem)' /\ \A q \in Starts : q # p => step'[q] \notin N!OfPem
  BY <1>2, OneStays, OnlyOne DEF NodeInv, PemFiles
<1>6. to # "cert exists"
  OBVIOUS
<1>7. PemFiles'
  BY <1>4, <1>5, <1>6, PemSteps DEF NodeInv, PemFiles
<1> QED
  BY <1>2, <1>3, <1>7 DEF NodeInv

\* No node id is returned before the file has a certificate.
LEMMA NoNodeYet ==
  ASSUME NodeInv, "node" \notin together, files.tlsCert \notin N!Ids
  PROVE  \A r \in returned : r.what # "node"
  BY DEF NodeInv, NodeTypes, PemFiles

LEMMA CertExistsKeeps == ASSUME NodeInv, NEW p \in Starts, N!CertExists(p) PROVE NodeInv'
<1>1. PICK to \in {"load cert", "generate pem"} :
        /\ N!GoTo(p, to) /\ step[p] = "cert exists"
        /\ to = "load cert" => files.tlsCert # N!Absent
        /\ to = "generate pem" => ~(haveKey[p] /\ files.tlsCert # N!Absent)
        /\ UNCHANGED <<files, mine, starts, len, haveKey, together, returned>>
  BY DEF N!CertExists
<1>2. "node" \notin together => (to = "generate pem" => files.tlsCert = N!Absent)
  BY <1>1 DEF NodeInv, PemFiles
<1> QED
  BY <1>1, <1>2, PemGoesOn, PemSteps DEF NodeInv, NodeTypes, PemFiles

LEMMA GeneratePemKeeps == ASSUME NodeInv, NEW p \in Starts, N!GeneratePem(p) PROVE NodeInv'
<1>1. PICK to \in {"write key", "off"} :
        /\ N!GoTo(p, to) /\ step[p] = "generate pem"
        /\ UNCHANGED <<files, mine, starts, len, haveKey, together, returned>>
  BY DEF N!GeneratePem
<1> QED
  BY <1>1, PemGoesOn, PemSteps DEF NodeInv, NodeTypes, PemFiles

LEMMA WriteKeyKeeps == ASSUME NodeInv, NEW p \in Starts, N!WriteKey(p) PROVE NodeInv'
<1>1. /\ N!GoTo(p, "create cert") /\ step[p] = "write key" /\ files' = [files EXCEPT !.tlsKey = mine[p]]
      /\ UNCHANGED <<mine, starts, len, haveKey, together, returned>>
  BY DEF N!WriteKey
<1>2. mine[p] \in Contents
  BY <1>1, ContentsDiffer DEF NodeInv, NodeTypes
<1>3. /\ files' \in [signer : Contents, tlsKey : Contents, tlsCert : Contents]
      /\ files'.tlsCert = files.tlsCert /\ files'.signer = files.signer
      /\ files'.tlsKey = mine[p]
  BY <1>1, <1>2 DEF NodeInv, NodeTypes
<1>4. "node" \notin together => files.tlsCert = N!Absent /\ \A r \in returned : r.what # "node"
  <2> SUFFICES ASSUME "node" \notin together
               PROVE  files.tlsCert = N!Absent /\ \A r \in returned : r.what # "node"
    OBVIOUS
  <2>1. files.tlsCert = N!Absent
    BY <1>1 DEF NodeInv, PemFiles
  <2> QED
    BY <2>1, ContentsDiffer, NoNodeYet
<1> QED
  BY <1>1, <1>3, <1>4, ContentsDiffer, PemGoesOn, PemSteps

LEMMA CreateCertKeeps == ASSUME NodeInv, NEW p \in Starts, N!CreateCert(p) PROVE NodeInv'
<1>1. /\ N!GoTo(p, "write cert") /\ step[p] = "create cert" /\ files' = [files EXCEPT !.tlsCert = N!Empty]
      /\ UNCHANGED <<mine, starts, len, haveKey, together, returned>>
  BY DEF N!CreateCert
<1>2. /\ files' \in [signer : Contents, tlsKey : Contents, tlsCert : Contents]
      /\ files'.tlsKey = files.tlsKey /\ files'.signer = files.signer
      /\ files'.tlsCert = N!Empty
  BY <1>1, ContentsDiffer DEF NodeInv, NodeTypes
<1>3. "node" \notin together =>
        /\ files.tlsKey = mine[p]
        /\ \A r \in returned : r.what # "node"
  <2> SUFFICES ASSUME "node" \notin together
               PROVE  files.tlsKey = mine[p] /\ \A r \in returned : r.what # "node"
    OBVIOUS
  <2>1. files.tlsCert = N!Absent /\ files.tlsKey = mine[p]
    BY <1>1 DEF NodeInv, PemFiles
  <2> QED
    BY <2>1, ContentsDiffer, NoNodeYet
<1>4. mine[p] \in N!Ids
  BY <1>1 DEF NodeInv, NodeTypes
<1> QED
  BY <1>1, <1>2, <1>3, <1>4, ContentsDiffer, PemGoesOn, PemSteps

LEMMA WriteCertKeeps == ASSUME NodeInv, NEW p \in Starts, N!WriteCert(p) PROVE NodeInv'
<1>1. /\ N!GoTo(p, "load cert") /\ step[p] = "write cert" /\ files' = [files EXCEPT !.tlsCert = mine[p]]
      /\ UNCHANGED <<mine, starts, len, haveKey, together, returned>>
  BY DEF N!WriteCert
<1>2. mine[p] \in N!Ids /\ mine[p] \in Contents
  BY <1>1, ContentsDiffer DEF NodeInv, NodeTypes
<1>3. /\ files' \in [signer : Contents, tlsKey : Contents, tlsCert : Contents]
      /\ files'.tlsKey = files.tlsKey /\ files'.signer = files.signer
      /\ files'.tlsCert = mine[p]
  BY <1>1, <1>2 DEF NodeInv, NodeTypes
<1>4. "node" \notin together =>
        /\ files.tlsKey = mine[p]
        /\ \A r \in returned : r.what # "node"
  <2> SUFFICES ASSUME "node" \notin together
               PROVE  files.tlsKey = mine[p] /\ \A r \in returned : r.what # "node"
    OBVIOUS
  <2>1. files.tlsCert = N!Empty /\ files.tlsKey = mine[p]
    BY <1>1 DEF NodeInv, PemFiles
  <2> QED
    BY <2>1, ContentsDiffer, NoNodeYet
<1> QED
  BY <1>1, <1>2, <1>3, <1>4, ContentsDiffer, PemGoesOn, PemSteps

LEMMA LoadCertKeeps == ASSUME NodeInv, NEW p \in Starts, N!from_cert_pem_file(p) PROVE NodeInv'
<1> DEFINE r0 == [what |-> "node", id |-> files.tlsCert, tls |-> files.tlsKey,
                  generated |-> files.tlsCert = mine[p]]
<1>1. /\ N!GoTo(p, "off") /\ step[p] = "load cert"
      /\ \/ files.tlsCert # N!Empty /\ returned' = returned \union {r0}
         \/ returned' = returned
      /\ UNCHANGED <<files, mine, starts, len, haveKey, together>>
  BY DEF N!from_cert_pem_file, N!Return
<1>2. files.tlsCert # N!Absent /\ files.tlsCert \in Contents
  BY <1>1 DEF NodeInv, NodeTypes, PemFiles
<1>3. files.tlsCert # N!Empty => files.tlsCert \in N!Ids
  BY <1>2 DEF Contents
<1>4. r0.what = "node" /\ r0.id = files.tlsCert /\ r0.tls = files.tlsKey
  OBVIOUS
<1> HIDE DEF r0
<1>5. \A r \in returned' : r \in returned
        \/ (r.id \in N!Ids /\ r.what = "node" /\ r.id = files.tlsCert /\ r.tls = files.tlsKey)
  BY <1>1, <1>3, <1>4
<1>6. /\ files' \in [signer : Contents, tlsKey : Contents, tlsCert : Contents]
      /\ "node" \notin together =>
           /\ \A r \in returned : r.what = "node" => r.id = files.tlsCert /\ r.tls = r.id
           /\ files.tlsCert # N!Absent => files.tlsKey # N!Absent
           /\ files.tlsCert \in N!Ids => files.tlsKey = files.tlsCert
  BY <1>1 DEF NodeInv, NodeTypes, PemFiles
<1> QED
  BY <1>1, <1>5, <1>6, PemGoesOn, PemSteps

LEMMA CrashKeeps == ASSUME NodeInv, NEW p \in Starts, N!Crash(p) PROVE NodeInv'
<1>1. /\ N!GoTo(p, "off") /\ step[p] # "off"
      /\ UNCHANGED <<files, mine, starts, len, haveKey, together, returned>>
  BY DEF N!Crash
<1>2. step[p] \in N!OfSigner \/ step[p] \in N!OfPem
  BY <1>1 DEF NodeInv, NodeTypes
<1>3. CASE step[p] \in N!OfSigner
  BY <1>1, <1>3, SignerGoesOn, SignerSteps DEF NodeInv, NodeTypes, SignerFile
<1>4. CASE step[p] \in N!OfPem
  BY <1>1, <1>4, PemGoesOn, PemSteps DEF NodeInv, NodeTypes, PemFiles
<1> QED
  BY <1>2, <1>3, <1>4

LEMMA NodeKeeps == ASSUME NodeInv, N!Next PROVE NodeInv'
  BY StartSignerKeeps, GenerateKeeps, CreateKeeps, WriteKeeps, LoadKeeps, ReadKeeps, StartPemKeeps,
     CertExistsKeeps, GeneratePemKeeps, WriteKeyKeeps, CreateCertKeeps, WriteCertKeeps,
     LoadCertKeeps, CrashKeeps DEF N!Next

LEMMA NodeStays == ASSUME NodeInv, UNCHANGED nodeVars PROVE NodeInv'
<1>1. NodeTypes'
  BY DEF nodeVars, NodeInv, NodeTypes
<1>2. SignerFile'
  BY DEF nodeVars, NodeInv, SignerFile, OneAt
<1>3. PemFiles'
  BY DEF nodeVars, NodeInv, PemFiles, OneAt
<1> QED
  BY <1>1, <1>2, <1>3 DEF NodeInv

LEMMA NodeBegins == ASSUME N!Init PROVE NodeInv
<1>1. NodeTypes
  BY ContentsDiffer DEF N!Init, NodeTypes
<1>2. \A p \in Starts : step[p] = "off"
  BY DEF N!Init
<1>3. "off" \notin N!OfSigner /\ "off" \notin N!OfPem
  BY DEF N!OfSigner, N!OfPem
<1>4. OneAt(N!OfSigner) /\ OneAt(N!OfPem)
  BY <1>2, <1>3 DEF OneAt
<1>5. returned = {} /\ files.tlsCert = N!Absent /\ DOMAIN haveKey = Starts
  BY DEF N!Init
<1>6. SignerFile
  BY <1>2, <1>4, <1>5 DEF SignerFile
<1>7. PemFiles
  BY <1>2, <1>4, <1>5, ContentsDiffer DEF PemFiles
<1> QED
  BY <1>1, <1>6, <1>7 DEF NodeInv

\* A signature is of the ciphersuite it was made with, by the key that made it.
LEMMA ProofIsOfItsKey ==
  ASSUME NEW k, NEW pubkey
  PROVE  N!Proves(pubkey, N!to_proof_of_possession(k).proof_of_possession) <=> pubkey = {k}
  BY DEF N!Proves, N!verify_proof_of_possession, N!to_proof_of_possession, N!sign_proof_of_possession,
     N!sign, N!to_public_key, N!to_compressed_bytes, N!CIPHER_SUITE_PROOF_OF_POSSESSION,
     N!CIPHER_SUITE_SIGNATURE

LEMMA SignatureIsNoProof ==
  ASSUME NEW k, NEW msg, NEW pubkey
  PROVE  ~N!Proves(pubkey, N!sign(k, msg))
<1>1. N!sign(k, msg).suite = "SIG"
  BY DEF N!sign, N!CIPHER_SUITE_SIGNATURE
<1>2. N!Proves(pubkey, N!sign(k, msg)) => N!sign(k, msg).suite = "POP"
  BY DEF N!Proves, N!verify_proof_of_possession, N!CIPHER_SUITE_PROOF_OF_POSSESSION
<1> QED
  BY <1>1, <1>2

\* The aggregate is a signature of all the keys, and of all of them only.
LEMMA AggregateIsOfAll ==
  ASSUME NEW keys, keys # {}, NEW m
  PROVE  N!aggregate({N!sign(k, m) : k \in keys}) = [by |-> keys, of |-> m, suite |-> "SIG"]
<1> DEFINE sigs == {N!sign(k, m) : k \in keys}
           s0 == CHOOSE s \in sigs : TRUE
<1>1. s0 \in sigs
  OBVIOUS
<1>2. \A s \in sigs : \E k \in keys : s = N!sign(k, m)
  OBVIOUS
<1>3. s0.of = m /\ s0.suite = "SIG"
  <2>1. PICK k \in keys : s0 = N!sign(k, m)
    BY <1>1, <1>2
  <2> HIDE DEF s0
  <2> QED
    BY <2>1 DEF N!sign, N!CIPHER_SUITE_SIGNATURE
<1>4. UNION {s.by : s \in sigs} = keys
  <2>1. \A k \in keys : N!sign(k, m) \in sigs /\ N!sign(k, m).by = {k}
    BY DEF N!sign
  <2> QED
    BY <1>2, <2>1
<1> QED
  BY <1>3, <1>4 DEF N!aggregate

LEMMA KeysAreProved ==
  ASSUME NEW keys
  PROVE  N!ProofsAreOwn(keys) /\ N!NothingElseProves(keys) /\ N!AggregatesAreOfAll(keys)
<1>1. \A k : N!to_proof_of_possession(k).public_key = {k} /\ N!to_public_key(k) = {k}
  BY DEF N!to_proof_of_possession, N!to_public_key
<1>2. N!ProofsAreOwn(keys)
  BY <1>1, ProofIsOfItsKey DEF N!ProofsAreOwn
<1>3. N!NothingElseProves(keys)
  BY SignatureIsNoProof DEF N!NothingElseProves
<1>4. ASSUME NEW m \in Texts, keys # {}
      PROVE  LET all == N!aggregate({N!sign(k, m) : k \in keys})
             IN /\ N!verify(all, m, N!aggregate_keys({N!to_public_key(k) : k \in keys}))
                /\ \A k \in keys : N!verify(all, m, N!to_public_key(k)) => keys = {k}
  <2> DEFINE all == N!aggregate({N!sign(k, m) : k \in keys})
  <2>1. all = [by |-> keys, of |-> m, suite |-> "SIG"]
    BY <1>4, AggregateIsOfAll
  <2>2. N!aggregate_keys({N!to_public_key(k) : k \in keys}) = keys
    BY DEF N!aggregate_keys, N!to_public_key
  <2> HIDE DEF all
  <2>3. N!verify(all, m, keys)
    BY <2>1 DEF N!verify, N!CIPHER_SUITE_SIGNATURE
  <2>4. \A k \in keys : N!verify(all, m, {k}) => keys = {k}
    BY <2>1 DEF N!verify
  <2> QED
    BY <1>1, <2>2, <2>3, <2>4 DEF all
<1>5. N!AggregatesAreOfAll(keys)
  BY <1>4, Zenon DEF N!AggregatesAreOfAll
<1> QED
  BY <1>2, <1>3, <1>5

LEMMA ReturnedIsProved == N!Proved
  BY KeysAreProved DEF N!Proved

LEMMA NodeInvSuffices == ASSUME NodeInv PROVE N!IdentityIsKept
<1>1. N!Kept
  BY DEF NodeInv, NodeTypes, SignerFile, PemFiles, N!Kept
<1> QED
  BY <1>1, ReturnedIsProved DEF N!IdentityIsKept

\* The keys a start of the node returns were written whole and, unless two starts
\* ran at once, are those on disk, which every start returns; the certificate is
\* that of the TLS key.  Whoever has a BLS key can prove it, and nothing else that
\* was signed with it is such a proof.
THEOREM IdentityOutlivesTheProcess == MCSpec => []IdentityIsKept
<1> DEFINE Inv == system = "node" => NodeInv
<1>1. MCInit => Inv
  BY NodeBegins DEF MCInit
<1>2. Inv /\ [MCNext]_allVars => Inv'
  BY NodeKeeps, NodeStays DEF MCNext, allVars
<1>3. Inv => IdentityIsKept
  BY NodeInvSuffices DEF IdentityIsKept
<1> QED
  BY <1>1, <1>2, <1>3, PTL DEF MCSpec

-----------------------------------------------------------------------------
(* Signers: the inductive invariant.                                       *)

\* A signature whose s is in the lower half.
Low(k, d, id) == K!Ecdsa(k, d, "low", id)

SignerInv ==
  /\ stage \in {"new", "failed"} \/ key \in Keys
  /\ held \in [made : SUBSET Keys, pending : SUBSET Keys]
  /\ chain \in Nat /\ call.chain_id \in Nat
  /\ call.what = "transaction" =>
       call.digest = K!sighash(call.tx) /\ call.chain_id = call.tx.chain_id
  /\ stage \in {"new", "described", "ready", "signing"} => signed = K!NoOut
  /\ stage = "failed" => signed.is # "sig"
  /\ signed.is = "sig" =>
       \E id \in 0..1 : signed = K!Returned(call, Low(key, call.digest, id))
  /\ stage = "signing" =>
       kind = "kms" /\ elapsed \in Nat /\ (elapsed > 0 => answer = "try again")
  /\ stage = "done" /\ signed.is = "error" /\ kind = "kms" =>
       \/ answer = "refused" /\ ~signed.retryable
       \/ answer = "try again" /\ signed.retryable /\ elapsed > RetryTimeout

\* The recovery id comes out of v in either of its forms.
LEMMA RecoveryIdComesBack ==
  ASSUME NEW c \in Nat, NEW id \in 0..1
  PROVE  K!recovery_id(id) = id /\ K!recovery_id(K!apply_eip155(id, c)) = id
<1> DEFINE v == c * 2 + 35 + id
<1>1. v \in Nat /\ v >= 35 /\ (v - 1) % 2 = id
  OBVIOUS
<1>2. v \notin {0, 1} /\ v \notin {27, 28}
  BY <1>1
<1>3. K!apply_eip155(id, c) = v
  BY DEF K!apply_eip155
<1> HIDE DEF v
<1>4. K!recovery_id(v) = id
  BY <1>1, <1>2 DEF K!recovery_id
<1>5. K!recovery_id(id) = id
  BY DEF K!recovery_id
<1> QED
  BY <1>3, <1>4, <1>5

\* A low signature leads to its key from its digest and its recovery id only.
LEMMA RecoversKey ==
  ASSUME NEW k \in Keys, NEW d, NEW id \in 0..1, NEW e, NEW i \in Nat
  PROVE  /\ K!recover_from_prehash(e, Low(k, d, id), i) = k <=> e = d /\ i = id
         /\ K!recover_from_prehash(e, Low(k, d, id), i) \in Keys => e = d /\ i = id
         /\ K!recover_from_prehash(e, Low(k, d, id), i) = "error" <=> i > 1
  BY SigningAssumption DEF K!recover_from_prehash, K!Ecdsa, Low

\* The keys of a signature that was returned.
LEMMA ReturnedByKey ==
  ASSUME SignerInv, signed.is = "sig"
  PROVE  key \in Keys /\ call.chain_id \in Nat
<1>1. K!NoOut.is # "sig"
  BY DEF K!NoOut
<1>2. stage # "new" /\ stage # "failed"
  BY <1>1 DEF SignerInv
<1> QED
  BY <1>2 DEF SignerInv

\* What is returned leads to the key of the signer.
LEMMA SignatureRecovers ==
  ASSUME SignerInv, signed.is = "sig"
  PROVE  K!Recovers
<1>1. key \in Keys /\ call.chain_id \in Nat
  BY ReturnedByKey
<1>2. PICK id \in 0..1 : signed = K!Returned(call, Low(key, call.digest, id))
  BY DEF SignerInv
<1> DEFINE sig == Low(key, call.digest, id)
<1>3. signed.sig = sig /\ K!recovery_id(signed.v) = id
      /\ (call.what \in {"digest", "typed data"} => signed.v = id)
  <2>1. sig.id = id
    BY DEF K!Ecdsa, Low
  <2> HIDE DEF sig
  <2> QED
    BY <1>1, <1>2, <2>1, RecoveryIdComesBack DEF K!Returned, sig
<1>4. id \in Nat /\ id \in 0..3
  OBVIOUS
<1>5. \A d : /\ d = call.digest => K!eth_recover(d, signed) = key
             /\ K!eth_recover(d, signed) \in Keys => d = call.digest
  <2> TAKE d
  <2>1. K!eth_recover(d, signed) = K!recover_from_prehash(d, sig, id)
    BY <1>3 DEF K!eth_recover
  <2> QED
    BY <1>1, <1>4, <2>1, RecoversKey
<1>6. \A d \in K!Digests : K!eth_recover(d, signed) \in Keys => d = call.digest
  BY <1>5
<1>7. ASSUME call.what \in {"digest", "typed data"}, NEW k \in Keys, NEW d \in K!Digests
      PROVE  K!verify(k, d, signed) = "yes" <=> k = key /\ d = call.digest
  <2> DEFINE r == K!recover_from_prehash(d, sig, id)
  <2>1. (r = key <=> d = call.digest) /\ (r \in Keys => d = call.digest) /\ r # "error"
    <3>1. ~(id > 1)
      OBVIOUS
    <3> QED
      BY <1>1, <1>4, <3>1, RecoversKey
  <2>2. K!from_signature(d, signed) = r
    BY <1>3, <1>4, <1>7 DEF K!from_signature, K!from_bytes
  <2> HIDE DEF r
  <2> QED
    BY <2>1, <2>2 DEF K!verify
<1> QED
  BY <1>5, <1>6, <1>7 DEF K!Recovers

\* And a transaction that was signed is read as sent by that key.
LEMMA SignedIsSent ==
  ASSUME SignerInv, signed.is = "sig"
  PROVE  K!SentBySigner
<1> SUFFICES ASSUME call.what = "transaction"
             PROVE  LET d == K!decode_and_verify_signed_rlp(K!rlp_signed(call.tx, signed))
                    IN d.ok /\ d.signer = key
                       /\ d.tx = K!Transaction(call.tx.chain_id, key, call.tx.set)
  BY DEF K!SentBySigner
<1>1. key \in Keys /\ call.chain_id \in Nat /\ call.chain_id = call.tx.chain_id
      /\ call.digest = K!sighash(call.tx)
  BY ReturnedByKey DEF SignerInv
<1>2. PICK id \in 0..1 : signed = K!Returned(call, Low(key, call.digest, id))
  BY DEF SignerInv
<1> DEFINE sig == Low(key, call.digest, id)
           bytes == K!rlp_signed(call.tx, signed)
<1>3. signed.sig = sig /\ signed.v = call.chain_id * 2 + 35 + id
  <2>1. sig.id = id
    BY DEF K!Ecdsa, Low
  <2> HIDE DEF sig
  <2> QED
    BY <1>1, <1>2, <2>1 DEF K!Returned, K!apply_eip155, sig
<1>4. bytes.tx = K!Encoded(call.tx) /\ bytes.sig = sig /\ bytes.v = id
  <2>1. signed.v > 1 /\ signed.v - (call.tx.chain_id * 2 + 35) = id
    BY <1>1, <1>3
  <2> HIDE DEF sig
  <2> QED
    BY <1>3, <2>1 DEF K!rlp_signed
<1>5. <<"eip1559", bytes.tx>> = call.digest
  BY <1>1, <1>4 DEF K!sighash
<1> HIDE DEF bytes
<1>6. K!eth_recover(call.digest, bytes) = key
  <2>1. K!recovery_id(id) = id
    BY <1>1, RecoveryIdComesBack
  <2>2. K!eth_recover(call.digest, bytes) = K!recover_from_prehash(call.digest, sig, id)
    BY <1>4, <2>1 DEF K!eth_recover
  <2>3. id \in Nat
    OBVIOUS
  <2> QED
    BY <1>1, <2>2, <2>3, RecoversKey
<1> DEFINE d0 == K!decode_signed_rlp(bytes)
<1>7. key # "error"
  BY <1>1, SigningAssumption
<1>8. d0.ok /\ d0.tx = K!Transaction(call.tx.chain_id, key, call.tx.set)
  <2>1. bytes.tx.chain_id = call.tx.chain_id /\ bytes.tx.set = call.tx.set
    BY <1>4 DEF K!Encoded
  <2> HIDE DEF sig
  <2> QED
    BY <1>5, <1>6, <1>7, <2>1 DEF K!decode_signed_rlp
<1>9. K!sighash(d0.tx) = call.digest
  BY <1>1, <1>8 DEF K!sighash, K!Encoded, K!Transaction
<1> HIDE DEF d0
<1> DEFINE d1 == K!decode_and_verify_signed_rlp(bytes)
<1>10. d1.ok /\ d1.signer = key /\ d1.tx = d0.tx
  BY <1>6, <1>7, <1>8, <1>9 DEF K!decode_and_verify_signed_rlp, d0
<1> HIDE DEF d1
<1> QED
  BY <1>8, <1>10 DEF bytes, d1

\* What a signer of the service makes of its answer: one id leads to the key.
Decoded(k, d, s, id0) == K!decode_signature(K!Ecdsa(k, d, s, id0))
Leading(k, d, s, id0) == K!trial_recovery(Decoded(k, d, s, id0), d, k)
Chosen(k, d, s, id0) ==
  [Decoded(k, d, s, id0) EXCEPT !.id = CHOOSE id \in Leading(k, d, s, id0) : TRUE]

LEMMA KmsReturns ==
  ASSUME NEW k \in Keys, NEW d, NEW s \in {"low", "high"}, NEW id0 \in 0..1
  PROVE  Leading(k, d, s, id0) # {} /\ \E id \in 0..1 : Chosen(k, d, s, id0) = Low(k, d, id)
<1> DEFINE id == IF s = "high" THEN 1 - id0 ELSE id0
           sig == K!decode_signature(K!Ecdsa(k, d, s, id0))
           ids == K!trial_recovery(sig, d, k)
<1>1. id \in 0..1
  OBVIOUS
<1>2. sig = Low(k, d, id)
  <2> DEFINE raw == K!Ecdsa(k, d, s, id0)
  <2>1. raw = [by |-> k, of |-> d, s |-> s, id |-> id0]
    BY DEF K!Ecdsa
  <2> HIDE DEF raw
  <2>2. CASE s = "low"
    BY <2>1, <2>2 DEF K!decode_signature, K!normalize_s, K!Ecdsa, Low, raw
  <2>3. CASE s = "high"
    BY <2>1, <2>3 DEF K!decode_signature, K!normalize_s, K!Ecdsa, Low, raw
  <2> QED
    BY <2>2, <2>3
<1> HIDE DEF id, sig
<1>3. ids = {id}
  <2>1. \A i \in 0..3 : K!recover_from_prehash(d, sig, i) = k <=> i = id
    <3> SUFFICES ASSUME NEW i \in 0..3 PROVE K!recover_from_prehash(d, sig, i) = k <=> i = id
      OBVIOUS
    <3>1. i \in Nat
      OBVIOUS
    <3> QED
      BY <1>1, <1>2, <3>1, RecoversKey
  <2>2. id \in 0..3
    BY <1>1
  <2> QED
    BY <2>1, <2>2 DEF K!trial_recovery
<1>4. (CHOOSE id1 \in ids : TRUE) = id
  BY <1>3
<1>5. [sig EXCEPT !.id = id] = sig
  <2>1. sig = [by |-> k, of |-> d, s |-> "low", id |-> id]
    BY <1>2 DEF K!Ecdsa, Low
  <2> QED
    BY <2>1
<1> HIDE DEF ids
<1>6. ids # {} /\ [sig EXCEPT !.id = CHOOSE id1 \in ids : TRUE] = sig
  BY <1>3, <1>4, <1>5
<1>7. Leading(k, d, s, id0) = ids /\ Chosen(k, d, s, id0) = Low(k, d, id)
  BY <1>2, <1>6 DEF sig, ids, Decoded, Leading, Chosen
<1> QED
  BY <1>1, <1>6, <1>7

\* What is returned says what it is.
LEMMA OutsDiffer ==
  /\ K!NoOut.is = "none"
  /\ \A r : K!Fail(r).is = "error" /\ K!Fail(r).retryable = r
  /\ \A c, sig : K!Returned(c, sig).is = "sig"
  BY DEF K!NoOut, K!Fail, K!Returned

LEMMA SignerInits == ASSUME K!Init PROVE SignerInv
<1>1. call.what # "transaction" /\ call.chain_id = 0 /\ chain \in Nat
  BY SigningAssumption DEF K!Init
<1> QED
  BY <1>1, OutsDiffer DEF K!Init, SignerInv

LEMMA FromBytesKeeps == ASSUME SignerInv, K!FromBytes PROVE SignerInv'
<1>1. /\ stage = "new" /\ UNCHANGED <<kind, held, chain, call, elapsed, answer>>
      /\ \/ key' \in Keys /\ stage' = "ready" /\ signed' = signed
         \/ stage' = "failed" /\ signed' = K!Fail(FALSE)
  BY DEF K!FromBytes
<1> QED
  BY <1>1, OutsDiffer DEF SignerInv

LEMMA CreateKeyKeeps == ASSUME SignerInv, K!CreateKey PROVE SignerInv'
<1>1. /\ stage = "new" /\ UNCHANGED <<kind, chain, call, elapsed, answer>>
      /\ \/ \E k \in Keys : /\ held' = [held EXCEPT !.made = @ \union {k}]
                            /\ key' = k /\ stage' = "described" /\ signed' = signed
         \/ stage' = "failed" /\ (\E r : signed' = K!Fail(r)) /\ held' = held
  BY DEF K!CreateKey
<1>2. held' \in [made : SUBSET Keys, pending : SUBSET Keys]
  BY <1>1 DEF SignerInv
<1> QED
  BY <1>1, <1>2, OutsDiffer DEF SignerInv

LEMMA LoadKeyKeeps == ASSUME SignerInv, K!Load PROVE SignerInv'
<1>1. /\ UNCHANGED <<kind, held, chain, call, elapsed, answer>>
      /\ stage' = "described" /\ signed' = K!NoOut /\ key' \in held.made
  BY DEF K!Load
<1>2. held.made \subseteq Keys
  BY DEF SignerInv
<1> QED
  BY <1>1, <1>2, OutsDiffer DEF SignerInv

LEMMA FromArnKeeps == ASSUME SignerInv, K!FromArn PROVE SignerInv'
<1>1. /\ stage = "described" /\ UNCHANGED <<kind, key, held, chain, call, elapsed, answer>>
      /\ \/ stage' = "ready" /\ signed' = signed
         \/ stage' = "failed" /\ \E r : signed' = K!Fail(r)
  BY DEF K!FromArn
<1> QED
  BY <1>1, OutsDiffer DEF SignerInv

LEMMA DeleteKeeps == ASSUME SignerInv, K!Delete PROVE SignerInv'
<1>1. /\ stage \in {"ready", "done"} /\ held' = [held EXCEPT !.pending = @ \union {key}]
      /\ UNCHANGED <<kind, stage, key, chain, call, elapsed, answer, signed>>
  BY DEF K!Delete
<1>2. held' \in [made : SUBSET Keys, pending : SUBSET Keys]
  BY <1>1 DEF SignerInv
<1> QED
  BY <1>1, <1>2 DEF SignerInv

LEMMA WithChainIdKeeps == ASSUME SignerInv, K!with_chain_id PROVE SignerInv'
<1>1. /\ stage \in {"ready", "done"} /\ chain' \in Nat /\ stage' = "ready" /\ signed' = K!NoOut
      /\ UNCHANGED <<kind, key, held, call, elapsed, answer>>
  BY SigningAssumption DEF K!with_chain_id
<1> QED
  BY <1>1, OutsDiffer DEF SignerInv

\* A call of a hot key returns at once, one of a key of the service is under way.
LEMMA SignCallKeeps ==
  ASSUME SignerInv, NEW what, NEW digest, NEW chain_id \in Nat, NEW tx0,
         what = "transaction" => digest = K!sighash(tx0) /\ chain_id = tx0.chain_id,
         K!Call(what, digest, chain_id, tx0)
  PROVE  SignerInv'
<1> DEFINE c == [what |-> what, digest |-> digest, chain_id |-> chain_id, tx |-> tx0]
<1>1. /\ stage = "ready" /\ elapsed' = 0 /\ call' = c /\ UNCHANGED <<kind, key, held, chain>>
      /\ K!SignHot(c) \/ K!SignKms(c)
  BY DEF K!Call
<1>2. c.what = what /\ c.digest = digest /\ c.chain_id = chain_id /\ c.tx = tx0
  OBVIOUS
<1> HIDE DEF c
<1>3. CASE K!SignHot(c)
  <2>1. /\ kind \in {"hot", "lib"} /\ stage' = "done"
        /\ \/ signed' = K!Fail(FALSE)
           \/ signed' = [is |-> "panic"]
           \/ \E id \in 0..1 : signed' = K!Returned(c, Low(key, c.digest, id))
    BY <1>3 DEF K!SignHot, Low
  <2>2. [is |-> "panic"].is # "sig"
    OBVIOUS
  <2>3. signed'.is = "sig" => \E id \in 0..1 : signed' = K!Returned(c, Low(key, c.digest, id))
    BY <2>1, <2>2, OutsDiffer
  <2> QED
    BY <1>1, <1>2, <2>1, <2>3 DEF SignerInv
<1>4. CASE K!SignKms(c)
  <2>1. /\ kind = "kms"
        /\ \/ stage' = "done" /\ signed' = [is |-> "panic"]
           \/ stage' = "signing" /\ signed' = K!NoOut
    BY <1>4 DEF K!SignKms
  <2>2. [is |-> "panic"].is \notin {"sig", "error"}
    OBVIOUS
  <2>3. signed'.is \notin {"sig", "error"}
    BY <2>1, <2>2, OutsDiffer
  <2>4. stage' \in {"done", "signing"} /\ (stage' = "signing" => kind = "kms" /\ signed' = K!NoOut)
    BY <2>1
  <2>5. ~(elapsed' > 0) /\ elapsed' \in Nat
    BY <1>1
  <2> QED
    BY <1>1, <1>2, <2>3, <2>4, <2>5 DEF SignerInv
<1> QED
  BY <1>1, <1>3, <1>4

LEMMA SignsKeep ==
  ASSUME SignerInv,
         K!sign_digest \/ K!sign_message \/ K!sign_typed_data \/ K!sign_as_typed_transaction
  PROVE  SignerInv'
<1>1. CASE K!sign_digest
  BY <1>1, SignCallKeeps DEF K!sign_digest
<1>2. CASE K!sign_message
  <2>1. chain \in Nat
    BY DEF SignerInv
  <2> QED
    BY <1>2, <2>1, SignCallKeeps DEF K!sign_message
<1>3. CASE K!sign_typed_data
  BY <1>3, SignCallKeeps DEF K!sign_typed_data
<1>4. CASE K!sign_as_typed_transaction
  <2>1. PICK tx0 : K!Call("transaction", K!sighash(tx0), tx0.chain_id, tx0) /\ tx0.chain_id \in Nat
    <3>1. PICK c \in Networks \union {0}, from \in Keys, set \in {{}, {"value"}, K!Fields} :
            K!Call("transaction", K!sighash(K!Transaction(c, from, set)),
                   K!Transaction(c, from, set).chain_id, K!Transaction(c, from, set))
      BY <1>4 DEF K!sign_as_typed_transaction
    <3>2. K!Transaction(c, from, set).chain_id = c /\ c \in Nat
      BY SigningAssumption DEF K!Transaction
    <3> QED
      BY <3>1, <3>2
  <2> QED
    BY <2>1, SignCallKeeps
<1> QED
  BY <1>1, <1>2, <1>3, <1>4

LEMMA TryKmsKeeps == ASSUME SignerInv, K!TryKms PROVE SignerInv'
<1>1. stage = "signing" /\ UNCHANGED <<kind, key, held, chain, call>>
  BY DEF K!TryKms
<1>2. key \in Keys /\ kind = "kms" /\ elapsed \in Nat /\ signed = K!NoOut
  BY <1>1 DEF SignerInv
<1>3. \/ stage' = "done" /\ \E id \in 0..1 : signed' = K!Returned(call, Low(key, call.digest, id))
      \/ answer' = "refused" /\ stage' = "done" /\ signed' = K!Fail(FALSE)
      \/ answer' = "try again" /\ elapsed' \in Nat /\ stage' = stage /\ signed' = signed
  <2>1. \/ /\ stage' = "done"
           /\ \E s \in {"low", "high"}, id0 \in 0..1 :
                signed' = IF Leading(key, call.digest, s, id0) = {} THEN K!Fail(FALSE)
                          ELSE K!Returned(call, Chosen(key, call.digest, s, id0))
        \/ answer' = "refused" /\ stage' = "done" /\ signed' = K!Fail(FALSE)
        \/ answer' = "try again" /\ (\E d \in 1..2 : elapsed' = elapsed + d) /\ stage' = stage
           /\ signed' = signed
    BY DEF K!TryKms, Decoded, Leading, Chosen
  <2>2. ASSUME NEW s \in {"low", "high"}, NEW id0 \in 0..1,
               signed' = IF Leading(key, call.digest, s, id0) = {} THEN K!Fail(FALSE)
                         ELSE K!Returned(call, Chosen(key, call.digest, s, id0))
        PROVE  \E id \in 0..1 : signed' = K!Returned(call, Low(key, call.digest, id))
    BY <1>2, <2>2, KmsReturns
  <2>4. ASSUME NEW d \in 1..2 PROVE elapsed + d \in Nat
    BY <1>2
  <2> QED
    BY <2>1, <2>2, <2>4
<1>4. CASE stage' = "done" /\ \E id \in 0..1 : signed' = K!Returned(call, Low(key, call.digest, id))
  BY <1>1, <1>2, <1>4, OutsDiffer, ZenonT(60) DEF SignerInv
<1>5. CASE answer' = "refused" /\ stage' = "done" /\ signed' = K!Fail(FALSE)
  BY <1>1, <1>2, <1>5, OutsDiffer DEF SignerInv
<1>6. CASE answer' = "try again" /\ elapsed' \in Nat /\ stage' = stage /\ signed' = signed
  BY <1>1, <1>2, <1>6, OutsDiffer DEF SignerInv
<1> QED
  BY <1>3, <1>4, <1>5, <1>6

LEMMA GiveUpKeeps == ASSUME SignerInv, K!GiveUp PROVE SignerInv'
<1>1. /\ stage = "signing" /\ elapsed > RetryTimeout /\ stage' = "done" /\ signed' = K!Fail(TRUE)
      /\ UNCHANGED <<kind, key, held, chain, call, elapsed, answer>>
  BY DEF K!GiveUp
<1>2. elapsed > 0 /\ answer = "try again" /\ key \in Keys
  <2>1. elapsed \in Nat /\ (elapsed > 0 => answer = "try again") /\ key \in Keys
    BY <1>1 DEF SignerInv
  <2>2. elapsed > 0
    <3>1. elapsed \in Nat /\ RetryTimeout \in Nat
      BY <2>1, SigningAssumption
    <3> QED
      BY <1>1, <3>1
  <2> QED
    BY <2>1, <2>2
<1> QED
  BY <1>1, <1>2, OutsDiffer DEF SignerInv

LEMMA SignerKeeps == ASSUME SignerInv, K!Next PROVE SignerInv'
  BY FromBytesKeeps, CreateKeyKeeps, LoadKeyKeeps, FromArnKeeps, DeleteKeeps, WithChainIdKeeps,
     SignsKeep, TryKmsKeeps, GiveUpKeeps DEF K!Next

LEMMA SignerStays == ASSUME SignerInv, UNCHANGED signerVars PROVE SignerInv'
  BY DEF signerVars, SignerInv

LEMMA SignerInvSuffices == ASSUME SignerInv PROVE K!SignerIsRecovered
  BY SignatureRecovers, SignedIsSent DEF SignerInv, K!SignerIsRecovered

\* Whoever holds the key and in whichever form it signs, the signature leads to
\* the key from the digest that was to be signed, to no key from another, and a
\* transaction that was signed is read as sent by it; what the service answers is
\* not turned into an error, and an error says whether it is worth a retry.
THEOREM SignaturesLeadToTheKey == MCSpec => []SignerIsRecovered
<1> DEFINE Inv == system = "signer" => SignerInv
<1>1. MCInit => Inv
  BY SignerInits DEF MCInit
<1>2. Inv /\ [MCNext]_allVars => Inv'
  BY SignerKeeps, SignerStays DEF MCNext, allVars
<1>3. Inv => SignerIsRecovered
  BY SignerInvSuffices DEF SignerIsRecovered
<1> QED
  BY <1>1, <1>2, <1>3, PTL DEF MCSpec
=============================================================================
