---------------------------- MODULE PackerProofs ----------------------------
(***************************************************************************)
(* Proofs about the packer of MCWalletAndData (Packer), for any base and   *)
(* widths of its numbers, any lengths of its ids and addresses, any size a *)
(* packer may grow to and any values that fit their types: what was packed *)
(* is what is unpacked, from whole bytes and from the front of them.       *)
(***************************************************************************)
EXTENDS DataProofs

-----------------------------------------------------------------------------
(* Numbers.                                                                *)

\* What the provers need of PackAssumption, without the sets it names.
LEMMA BaseIs ==
  Base \in Nat \ {0} /\ Base > 1
BY PackAssumption

LEMMA WidthsAre ==
  /\ U16_LEN \in Nat /\ U32_LEN \in Nat /\ U64_LEN \in Nat /\ IdLen \in Nat /\ AddrLen \in Nat
  /\ IP_ADDR_LEN \in Nat /\ V4_LEN \in Nat /\ V4_LEN > 0 /\ V4_LEN < IP_ADDR_LEN
BY PackAssumption

LEMMA ValueIsPath ==
  ASSUME NEW n \in Nat, NEW s \in [1..n -> Nat]
  PROVE  \E f : /\ f[0] = 0 /\ f[n] = P!Value(s)
                /\ \A k \in 1..n : f[k] = f[k - 1] * Base + s[k]
<1> DEFINE F == [p \in Nat \X (1..n) |-> p[1] * Base + s[p[2]]]
           Is(h) == h = [t \in SUBSET (1..n) |->
                           IF t = {} THEN 0 ELSE h[t \ {GreatestOf(t)}] * Base + s[GreatestOf(t)]]
           h == CHOOSE h : Is(h)
           f == [k \in 0..n |-> h[1..k]]
<1>1. F \in [Nat \X (1..n) -> Nat]
  <2>1. \A a, b \in Nat : a * Base + b \in Nat
    BY BaseIs
  <2> QED
    BY <2>1
<1>2. PICK g : Folds(g, F, Nat, 0, n)
  BY <1>1, FoldExists
<1>3. Is(g)
  <2>1. ASSUME NEW t \in SUBSET (1..n), t # {}
        PROVE  F[<<g[t \ {GreatestOf(t)}], GreatestOf(t)>>] = g[t \ {GreatestOf(t)}] * Base + s[GreatestOf(t)]
    <3>1. GreatestOf(t) \in 1..n /\ g[t \ {GreatestOf(t)}] \in Nat
      BY <1>2, <2>1, GreatestIn DEF Folds
    <3> QED
      BY <3>1
  <2> HIDE DEF F
  <2> QED
    BY <1>2, <2>1 DEF Folds
<1>4. Is(h)
  <2> HIDE DEF Is
  <2> QED
    BY <1>3
<1>5. P!Value(s) = h[1..n]
  <2>1. DOMAIN s = 1..n
    OBVIOUS
  <2> QED
    BY <2>1 DEF P!Value, P!FoldLeft, P!MapThenFoldSet, P!Max, GreatestOf
<1> HIDE DEF h, F
<1>6. f[0] = 0
  BY <1>4, Ups
<1>7. ASSUME NEW k \in 1..n PROVE f[k] = f[k - 1] * Base + s[k]
  <2> DEFINE Ks == 1..k
  <2>1. Ks \in SUBSET (1..n) /\ Ks # {} /\ GreatestOf(Ks) = k /\ Ks \ {k} = 1..(k - 1)
    BY Ups
  <2>2. k \in 0..n /\ k - 1 \in 0..n
    OBVIOUS
  <2>3. f[k] = h[Ks] /\ f[k - 1] = h[1..(k - 1)]
    BY <2>2
  <2> HIDE DEF Ks, f
  <2>4. h[Ks] = h[Ks \ {GreatestOf(Ks)}] * Base + s[GreatestOf(Ks)]
    BY <1>4, <2>1, Zenon
  <2> QED
    BY <2>1, <2>3, <2>4
<1>8. f[n] = P!Value(s)
  BY <1>5
<1> QED
  BY <1>6, <1>7, <1>8

LEMMA DivIs ==
  ASSUME NEW v \in Nat, NEW d \in Nat \ {0}
  PROVE  /\ v \div d \in Nat /\ v % d \in 0..(d - 1)
         /\ v = (v \div d) * d + (v % d)
OBVIOUS

LEMMA DivUnique ==
  ASSUME NEW d \in Nat \ {0}, NEW p \in Nat, NEW e \in 0..(d - 1)
  PROVE  (p * d + e) \div d = p
OBVIOUS

LEMMA DivDiv ==
  ASSUME NEW v \in Nat, NEW b \in Nat \ {0}, NEW l \in Nat \ {0}
  PROVE  v \div (b * l) = (v \div l) \div b /\ b * l \in Nat \ {0}
<1> DEFINE q == v \div l
           r == v % l
           p == q \div b
           t == q % b
<1>1. q \in Nat /\ r \in 0..(l - 1) /\ v = q * l + r
  BY DivIs
<1> HIDE DEF q, r
<1>2. p \in Nat /\ t \in 0..(b - 1) /\ q = p * b + t
  BY <1>1, DivIs
<1> HIDE DEF p, t
<1>3. b * l \in Nat \ {0}
  OBVIOUS
<1>4. v = p * (b * l) + (t * l + r)
  <2>1. q * l = p * (b * l) + t * l
    BY <1>2
  <2>2. q * l \in Nat /\ t * l \in Nat /\ p * (b * l) \in Nat
    BY <1>1, <1>2
  <2> QED
    BY <1>1, <2>1, <2>2
<1>5. t * l + r \in 0..(b * l - 1)
  <2>1. t * l <= (b - 1) * l /\ t * l \in Nat
    BY <1>2
  <2>2. (b - 1) * l = b * l - l
    OBVIOUS
  <2> QED
    BY <1>1, <1>3, <2>1, <2>2
<1> DEFINE d == b * l
           e == t * l + r
<1>6. v = p * d + e /\ d \in Nat \ {0} /\ e \in 0..(d - 1)
  BY <1>3, <1>4, <1>5
<1> HIDE DEF d, e
<1>7. v \div d = p
  BY <1>2, <1>6, DivUnique
<1> QED
  BY <1>3, <1>7 DEF d, p, q

LEMMA BaseTimes ==
  ASSUME NEW n \in Nat
  PROVE  Base * n \in Nat
BY BaseIs

\* The numbers of bytes up to n, and what they tell.
Powers(f, n) == f \in [0..n -> Nat] /\ f[0] = 1 /\ \A k \in 1..n : f[k] = Base * f[k - 1]

LEMMA PowersExist ==
  ASSUME NEW n \in Nat
  PROVE  \E f : Powers(f, n)
<1> DEFINE Missing == {k \in Nat : ~\E f : Powers(f, k)}
<1>1. SUFFICES ASSUME Missing # {} PROVE FALSE
  OBVIOUS
<1>2. PICK k \in Missing : \A m \in Missing : ~(<<m, k>> \in OpToRel(<, Nat))
  BY <1>1, WFMin, NatLessThanWellFounded, Zenon
<1>3. k \in Nat /\ ~\E f : Powers(f, k)
  OBVIOUS
<1>4. k # 0
  <2>1. Powers([i \in 0..0 |-> 1], 0)
    BY DEF Powers
  <2> QED
    BY <1>3, <2>1
<1>5. k - 1 \in Nat /\ <<k - 1, k>> \in OpToRel(<, Nat)
  BY <1>3, <1>4 DEF OpToRel
<1>6. k - 1 \notin Missing
  <2> HIDE DEF Missing
  <2> QED
    BY <1>2, <1>5
<1>7. PICK f : Powers(f, k - 1)
  BY <1>5, <1>6
<1> DEFINE g == [i \in 0..k |-> IF i = k THEN Base * f[k - 1] ELSE f[i]]
<1>8. f[k - 1] \in Nat /\ Base * f[k - 1] \in Nat
  <2>1. k - 1 \in 0..(k - 1)
    BY <1>3, <1>4
  <2>2. f[k - 1] \in Nat
    BY <1>7, <2>1 DEF Powers
  <2> QED
    BY <2>2, BaseTimes
<1>9. g \in [0..k -> Nat] /\ g[0] = 1
  BY <1>3, <1>4, <1>7, <1>8 DEF Powers
<1>10. ASSUME NEW i \in 1..k PROVE g[i] = Base * g[i - 1]
  <2>1. i - 1 \in 0..k /\ i - 1 # k /\ g[i - 1] = f[i - 1]
    BY <1>3
  <2>2. CASE i = k
    BY <2>1, <2>2
  <2>3. CASE i # k
    <3>1. i \in 1..(k - 1) /\ g[i] = f[i]
      BY <1>3, <2>3
    <3> HIDE DEF g
    <3> QED
      BY <1>7, <2>1, <3>1 DEF Powers
  <2> QED
    BY <2>2, <2>3
<1> HIDE DEF g
<1>11. Powers(g, k)
  BY <1>9, <1>10 DEF Powers
<1> QED
  BY <1>3, <1>11

LEMMA PowersAgree ==
  ASSUME NEW n \in Nat, NEW m \in Nat, n <= m, NEW f, Powers(f, n), NEW g, Powers(g, m)
  PROVE  f[n] = g[n]
<1> DEFINE Bad == {k \in Nat : k <= n /\ f[k] # g[k]}
<1>1. SUFFICES ASSUME Bad # {} PROVE FALSE
  OBVIOUS
<1>2. PICK k \in Bad : \A i \in Bad : ~(<<i, k>> \in OpToRel(<, Nat))
  BY <1>1, WFMin, NatLessThanWellFounded, Zenon
<1>3. k \in Nat /\ k <= n /\ f[k] # g[k]
  OBVIOUS
<1>4. k # 0
  BY <1>3 DEF Powers
<1>5. k - 1 \in Nat /\ k - 1 <= n /\ k \in 1..n /\ k \in 1..m /\ <<k - 1, k>> \in OpToRel(<, Nat)
  BY <1>3, <1>4 DEF OpToRel
<1>6. k - 1 \notin Bad
  <2> HIDE DEF Bad
  <2> QED
    BY <1>2, <1>5
<1>7. f[k - 1] = g[k - 1]
  BY <1>5, <1>6
<1> QED
  BY <1>3, <1>5, <1>7 DEF Powers

LEMMA LimitIs ==
  /\ P!Limit[0] = 1
  /\ \A w \in Nat : P!Limit[w] \in Nat \ {0} /\ P!Limit[w + 1] = Base * P!Limit[w]
<1> DEFINE Is(l) == l = [w \in Nat |-> IF w = 0 THEN 1 ELSE Base * l[w - 1]]
           p == [w \in Nat |-> CHOOSE f : Powers(f, w)]
           l == [w \in Nat |-> p[w][w]]
<1>1. ASSUME NEW w \in Nat PROVE Powers(p[w], w)
  BY PowersExist
<1> HIDE DEF p
<1>2. ASSUME NEW w \in Nat PROVE l[w] = IF w = 0 THEN 1 ELSE Base * l[w - 1]
  <2>1. CASE w = 0
    BY <1>1, <2>1 DEF Powers
  <2>2. CASE w # 0
    <3>1. w - 1 \in Nat /\ w - 1 <= w /\ w \in 1..w
      BY <2>2
    <3>2. p[w - 1][w - 1] = p[w][w - 1]
      <4> DEFINE n == w - 1
                 f == p[n]
                 g == p[w]
      <4>1. n \in Nat /\ n <= w /\ Powers(f, n) /\ Powers(g, w)
        BY <1>1, <3>1
      <4> HIDE DEF n, f, g
      <4>2. f[n] = g[n]
        BY <4>1, PowersAgree
      <4> QED
        BY <4>2 DEF n, f, g
    <3>3. p[w][w] = Base * p[w][w - 1]
      BY <1>1, <3>1 DEF Powers
    <3> QED
      BY <2>2, <3>1, <3>2, <3>3
  <2> QED
    BY <2>1, <2>2
<1>3. Is(l)
  <2> DEFINE Nums(w) == IF w = 0 THEN 1 ELSE Base * l[w - 1]
  <2>1. \A w \in Nat : l[w] = Nums(w)
    BY <1>2
  <2>2. l = [w \in Nat |-> l[w]]
    OBVIOUS
  <2> HIDE DEF l, Nums
  <2>3. l = [w \in Nat |-> Nums(w)]
    BY <2>1, <2>2, Zenon
  <2> QED
    BY <2>3 DEF Nums
<1>4. Is(P!Limit)
  <2>1. P!Limit = CHOOSE h : Is(h)
    BY DEF P!Limit
  <2> HIDE DEF Is, l
  <2> QED
    BY <1>3, <2>1
<1> HIDE DEF l
<1>5. P!Limit[0] = 1 /\ \A w \in Nat : P!Limit[w + 1] = Base * P!Limit[w]
  <2>1. P!Limit[0] = 1
    BY <1>4
  <2>2. ASSUME NEW w \in Nat PROVE P!Limit[w + 1] = Base * P!Limit[w]
    <3>1. w + 1 \in Nat /\ w + 1 # 0 /\ w + 1 - 1 = w
      OBVIOUS
    <3> DEFINE x == w + 1
    <3> HIDE DEF x
    <3>2. P!Limit[x] = Base * P!Limit[x - 1]
      BY <1>4, <3>1 DEF x
    <3> QED
      BY <3>1, <3>2 DEF x
  <2> QED
    BY <2>1, <2>2
<1>6. ASSUME NEW w \in Nat PROVE P!Limit[w] \in Nat \ {0}
  <2> DEFINE Bad == {k \in Nat : P!Limit[k] \notin Nat \ {0}}
  <2>1. SUFFICES ASSUME Bad # {} PROVE FALSE
    OBVIOUS
  <2>2. PICK k \in Bad : \A i \in Bad : ~(<<i, k>> \in OpToRel(<, Nat))
    BY <2>1, WFMin, NatLessThanWellFounded, Zenon
  <2>3. k \in Nat /\ P!Limit[k] \notin Nat \ {0}
    OBVIOUS
  <2>4. k # 0
    <3>1. 1 \in Nat \ {0}
      OBVIOUS
    <3> QED
      BY <1>5, <2>3, <3>1
  <2>5. k - 1 \in Nat /\ k - 1 + 1 = k /\ <<k - 1, k>> \in OpToRel(<, Nat)
    BY <2>3, <2>4 DEF OpToRel
  <2>6. k - 1 \notin Bad
    <3> HIDE DEF Bad
    <3> QED
      BY <2>2, <2>5
  <2>7. P!Limit[k - 1] \in Nat \ {0}
    BY <2>5, <2>6
  <2>8. P!Limit[k] = Base * P!Limit[k - 1]
    <3> DEFINE x == k - 1
    <3> HIDE DEF x
    <3>1. P!Limit[x + 1] = Base * P!Limit[x]
      BY <1>5, <2>5 DEF x
    <3> QED
      BY <2>5, <3>1 DEF x
  <2> DEFINE y == P!Limit[k - 1]
  <2>9. y \in Nat \ {0} /\ Base \in Nat \ {0} /\ P!Limit[k] = Base * y
    BY <2>7, <2>8, BaseIs
  <2> HIDE DEF y
  <2>10. Base * y \in Nat \ {0}
    BY <2>9
  <2> QED
    BY <2>3, <2>9, <2>10
<1> QED
  BY <1>5, <1>6

LEMMA DigitsAre ==
  ASSUME NEW w \in Nat, NEW v \in Nat
  PROVE  /\ P!Digits(v, w) \in [1..w -> Nat] /\ P!Digits(v, w) \in Codes
         /\ Len(P!Digits(v, w)) = w
<1>1. \A i \in 1..w : P!Limit[w - i] \in Nat \ {0}
  BY LimitIs
<1>2. ASSUME NEW i \in 1..w PROVE (v \div P!Limit[w - i]) % Base \in Nat
  <2> DEFINE l == P!Limit[w - i]
             q == v \div l
  <2>1. l \in Nat \ {0} /\ Base \in Nat \ {0}
    BY <1>1, BaseIs
  <2> HIDE DEF l
  <2>2. q \in Nat
    BY <2>1, DivIs
  <2> HIDE DEF q
  <2>3. q % Base \in Nat
    BY <2>1, <2>2, DivIs
  <2> QED
    BY <2>3 DEF q, l
<1>3. P!Digits(v, w) \in [1..w -> Nat]
  BY <1>2 DEF P!Digits
<1> QED
  BY <1>3 DEF Codes

LEMMA ValueOfDigits ==
  ASSUME NEW w \in Nat, NEW v \in P!Number(w)
  PROVE  v \in Nat /\ P!Value(P!Digits(v, w)) = v
<1> DEFINE s == P!Digits(v, w)
<1>1. v \in Nat /\ v < P!Limit[w] /\ P!Limit[w] \in Nat \ {0} /\ Base \in Nat \ {0}
  <2>1. P!Limit[w] \in Nat \ {0} /\ Base \in Nat \ {0}
    BY LimitIs, BaseIs
  <2> QED
    BY <2>1 DEF P!Number
<1>2. s \in [1..w -> Nat]
  BY <1>1, DigitsAre
<1>3. PICK f : /\ f[0] = 0 /\ f[w] = P!Value(s)
               /\ \A k \in 1..w : f[k] = f[k - 1] * Base + s[k]
  <2> HIDE DEF s
  <2> QED
    BY <1>2, ValueIsPath
<1> DEFINE Bad == {k \in Nat : k <= w /\ f[k] # v \div P!Limit[w - k]}
<1>4. Bad = {}
  <2>1. SUFFICES ASSUME Bad # {} PROVE FALSE
    OBVIOUS
  <2>2. PICK k \in Bad : \A i \in Bad : ~(<<i, k>> \in OpToRel(<, Nat))
    BY <2>1, WFMin, NatLessThanWellFounded, Zenon
  <2>3. k \in Nat /\ k <= w /\ f[k] # v \div P!Limit[w - k]
    OBVIOUS
  <2>4. k # 0
    <3>1. SUFFICES ASSUME k = 0 PROVE FALSE
      OBVIOUS
    <3>2. w - k = w
      BY <3>1
    <3> DEFINE l == P!Limit[w]
    <3>3. l \in Nat \ {0} /\ v < l
      BY <1>1
    <3> HIDE DEF l
    <3>4. v \div l = 0
      BY <1>1, <3>3
    <3> QED
      BY <1>3, <2>3, <3>1, <3>2, <3>4 DEF l
  <2>5. k - 1 \in Nat /\ k - 1 <= w /\ k \in 1..w /\ <<k - 1, k>> \in OpToRel(<, Nat)
    BY <2>3, <2>4 DEF OpToRel
  <2>6. k - 1 \notin Bad
    <3> HIDE DEF Bad
    <3> QED
      BY <2>2, <2>5
  <2>7. f[k - 1] = v \div P!Limit[w - (k - 1)]
    BY <2>5, <2>6
  <2> DEFINE m == w - k
             l == P!Limit[m]
             q == v \div l
  <2>8. m \in Nat /\ w - (k - 1) = m + 1
    BY <2>3
  <2>9. l \in Nat \ {0} /\ P!Limit[m + 1] = Base * l
    <3> HIDE DEF m
    <3> QED
      BY <2>8, LimitIs
  <2>10. s[k] = q % Base
    BY <2>5 DEF P!Digits
  <2> HIDE DEF s, m, l
  <2>11. v \div (Base * l) = q \div Base /\ q \in Nat
    <3>1. v \in Nat /\ Base \in Nat \ {0} /\ l \in Nat \ {0}
      BY <1>1, <2>9
    <3>2. v \div (Base * l) = (v \div l) \div Base
      BY <3>1, DivDiv, ZenonT(60)
    <3> QED
      BY <3>1, <3>2, DivIs
  <2> HIDE DEF q
  <2>12. q = (q \div Base) * Base + (q % Base)
    BY <1>1, <2>11, DivIs
  <2>13. f[k] = f[k - 1] * Base + s[k]
    BY <1>3, <2>5
  <2>14. f[k - 1] = q \div Base
    BY <2>7, <2>8, <2>9, <2>11
  <2>15. f[k] = q
    BY <2>10, <2>12, <2>13, <2>14
  <2> QED
    BY <2>3, <2>15 DEF q, l, m
<1>5. w - w = 0 /\ w <= w
  OBVIOUS
<1>6. f[w] = v \div P!Limit[0]
  BY <1>4, <1>5
<1>7. P!Limit[0] = 1 /\ v \div 1 = v
  BY <1>1, LimitIs
<1> QED
  BY <1>1, <1>3, <1>6, <1>7

-----------------------------------------------------------------------------
(* Sequences one after the other.                                          *)

Flat(q) == T!FlattenSeq(q)
UpTo(q, k) == IF k = 0 THEN <<>> ELSE FlatOf(q)[k]

LEMMA FlattenIsFlat ==
  ASSUME NEW q
  PROVE  P!FlattenSeq(q) = Flat(q)
BY DEF P!FlattenSeq, T!FlattenSeq, Flat

LEMMA CatSeq ==
  ASSUME NEW S, NEW a \in Seq(S), NEW b \in Seq(S)
  PROVE  /\ Cat(a, b) \in Seq(S) /\ Len(Cat(a, b)) = Len(a) + Len(b)
         /\ \A i \in 1..(Len(a) + Len(b)) : Cat(a, b)[i] = IF i <= Len(a) THEN a[i] ELSE b[i - Len(a)]
BY ConcatProperties DEF Cat

LEMMA CatNone ==
  ASSUME NEW S, NEW a \in Seq(S)
  PROVE  <<>> \in Seq(S) /\ Cat(a, <<>>) = a /\ Cat(<<>>, a) = a
BY EmptySeq, ConcatEmptySeq DEF Cat

LEMMA CatThree ==
  ASSUME NEW S, NEW a \in Seq(S), NEW b \in Seq(S), NEW c \in Seq(S)
  PROVE  Cat(Cat(a, b), c) = Cat(a, Cat(b, c))
BY ConcatAssociative DEF Cat

LEMMA UpToIs ==
  ASSUME NEW S, NEW q \in Seq(Seq(S))
  PROVE  /\ Len(q) \in Nat /\ UpTo(q, 0) = <<>>
         /\ \A k \in 0..Len(q) : UpTo(q, k) \in Seq(S)
         /\ \A k \in 1..Len(q) : UpTo(q, k) = Cat(UpTo(q, k - 1), q[k]) /\ q[k] \in Seq(S)
         /\ Flat(q) = UpTo(q, Len(q))
<1>1. Len(q) \in Nat /\ \A k \in 1..Len(q) : q[k] \in Seq(S)
  BY LenProperties, ElementOfSeq
<1> DEFINE n == Len(q)
           f == FlatOf(q)
<1>2. \A k \in 1..n : f[k] = IF k = 1 THEN q[k] ELSE Cat(f[k - 1], q[k])
  BY <1>1, FlatIs DEF IsFlat
<1>3. UpTo(q, 0) = <<>>
  BY DEF UpTo
<1> HIDE DEF n
<1>4. ASSUME NEW k \in 1..n PROVE UpTo(q, k) = Cat(UpTo(q, k - 1), q[k])
  <2>1. n \in Nat /\ k # 0 /\ UpTo(q, k) = f[k]
    BY <1>1 DEF UpTo, n
  <2>2. CASE k = 1
    <3>1. k - 1 = 0 /\ f[k] = q[k] /\ q[k] \in Seq(S)
      BY <1>1, <1>2, <2>2 DEF n
    <3> QED
      BY <1>3, <2>1, <3>1, CatNone
  <2>3. CASE k # 1
    <3>1. k - 1 # 0 /\ f[k] = Cat(f[k - 1], q[k])
      BY <1>2, <2>1, <2>3
    <3>2. UpTo(q, k - 1) = f[k - 1]
      BY <3>1 DEF UpTo
    <3> QED
      BY <2>1, <3>1, <3>2
  <2> QED
    BY <2>2, <2>3
<1>5. \A k \in 0..n : UpTo(q, k) \in Seq(S)
  <2> DEFINE Bad == {k \in Nat : k <= n /\ UpTo(q, k) \notin Seq(S)}
  <2>1. SUFFICES ASSUME Bad # {} PROVE FALSE
    BY <1>1 DEF n
  <2>2. PICK k \in Bad : \A m \in Bad : ~(<<m, k>> \in OpToRel(<, Nat))
    BY <2>1, WFMin, NatLessThanWellFounded, Zenon
  <2>3. k \in Nat /\ k <= n /\ UpTo(q, k) \notin Seq(S) /\ n \in Nat
    BY <1>1 DEF n
  <2>4. k # 0
    BY <1>3, <2>3, EmptySeq
  <2>5. k - 1 \in Nat /\ k - 1 <= n /\ k \in 1..n
    BY <2>3, <2>4
  <2>6. k - 1 \notin Bad
    <3>1. <<k - 1, k>> \in OpToRel(<, Nat)
      BY <2>3, <2>5 DEF OpToRel
    <3> HIDE DEF Bad
    <3> QED
      BY <2>2, <3>1
  <2>7. UpTo(q, k - 1) \in Seq(S) /\ q[k] \in Seq(S)
    BY <1>1, <2>5, <2>6 DEF n
  <2>8. Cat(UpTo(q, k - 1), q[k]) \in Seq(S)
    BY <2>7, CatSeq
  <2> QED
    BY <1>4, <2>3, <2>5, <2>8
<1>6. Flat(q) = UpTo(q, Len(q))
  <2>1. CASE n = 0
    <3>1. T!FlattenSeq(q) = q /\ q = <<>>
      BY <2>1, EmptySeq DEF T!FlattenSeq, n
    <3> QED
      BY <2>1, <3>1 DEF Flat, UpTo, n
  <2>2. CASE n # 0
    BY <2>2, FlattenIs DEF Flat, UpTo, n
  <2> QED
    BY <2>1, <2>2
<1> QED
  BY <1>1, <1>3, <1>4, <1>5, <1>6 DEF n

\* What grows by each of q is what q is one after the other.
LEMMA FlatIsPath ==
  ASSUME NEW S, NEW q \in Seq(Seq(S)), NEW u, u[0] = <<>>,
         \A k \in 1..Len(q) : u[k] = Cat(u[k - 1], q[k])
  PROVE  u[Len(q)] = Flat(q)
<1> DEFINE n == Len(q)
           Bad == {k \in Nat : k <= n /\ u[k] # UpTo(q, k)}
<1>1. /\ n \in Nat /\ UpTo(q, 0) = <<>> /\ Flat(q) = UpTo(q, n)
      /\ \A k \in 1..n : UpTo(q, k) = Cat(UpTo(q, k - 1), q[k])
  BY UpToIs
<1>2. \A k \in 1..n : u[k] = Cat(u[k - 1], q[k])
  OBVIOUS
<1> HIDE DEF n
<1>3. SUFFICES ASSUME Bad # {} PROVE FALSE
  BY <1>1 DEF n
<1>4. PICK k \in Bad : \A m \in Bad : ~(<<m, k>> \in OpToRel(<, Nat))
  BY <1>3, WFMin, NatLessThanWellFounded, Zenon
<1>5. k \in Nat /\ k <= n /\ u[k] # UpTo(q, k)
  OBVIOUS
<1>6. k # 0
  BY <1>1, <1>5
<1>7. k - 1 \in Nat /\ k - 1 <= n /\ k \in 1..n
  BY <1>1, <1>5, <1>6
<1>8. k - 1 \notin Bad
  <2>1. <<k - 1, k>> \in OpToRel(<, Nat)
    BY <1>5, <1>7 DEF OpToRel
  <2> HIDE DEF Bad
  <2> QED
    BY <1>4, <2>1
<1>9. u[k - 1] = UpTo(q, k - 1)
  BY <1>7, <1>8
<1> QED
  BY <1>1, <1>2, <1>5, <1>7, <1>9

LEMMA FlatSeq ==
  ASSUME NEW S, NEW q \in Seq(Seq(S))
  PROVE  Flat(q) \in Seq(S)
<1>1. Len(q) \in 0..Len(q)
  BY LenProperties
<1> QED
  BY <1>1, UpToIs

LEMMA FlatNone ==
  Flat(<<>>) = <<>>
BY DEF Flat, T!FlattenSeq

LEMMA FlatOne ==
  ASSUME NEW S, NEW c \in Seq(S)
  PROVE  <<c>> \in Seq(Seq(S)) /\ Flat(<<c>>) = c
<1> DEFINE q == <<c>>
<1>1. q \in Seq(Seq(S)) /\ Len(q) = 1 /\ q[1] = c
  OBVIOUS
<1> HIDE DEF q
<1>2. Flat(q) = UpTo(q, 1) /\ UpTo(q, 0) = <<>>
  BY <1>1, UpToIs
<1>3. UpTo(q, 1) = Cat(UpTo(q, 1 - 1), q[1])
  <2>1. 1 \in 1..Len(q)
    BY <1>1
  <2> QED
    BY <1>1, <2>1, UpToIs
<1>4. 1 - 1 = 0
  OBVIOUS
<1>5. Flat(q) = c
  BY <1>1, <1>2, <1>3, <1>4, CatNone
<1> QED
  BY <1>1, <1>5 DEF q

LEMMA FlatCat ==
  ASSUME NEW S, NEW q \in Seq(Seq(S)), NEW r \in Seq(Seq(S))
  PROVE  Flat(Cat(q, r)) = Cat(Flat(q), Flat(r)) /\ Cat(q, r) \in Seq(Seq(S))
<1> DEFINE n == Len(q)
           m == Len(r)
           s == Cat(q, r)
           u == [k \in 0..(n + m) |-> IF k <= n THEN UpTo(q, k) ELSE Cat(UpTo(q, n), UpTo(r, k - n))]
<1>1. /\ n \in Nat /\ UpTo(q, 0) = <<>> /\ Flat(q) = UpTo(q, n)
      /\ \A k \in 0..n : UpTo(q, k) \in Seq(S)
      /\ \A k \in 1..n : UpTo(q, k) = Cat(UpTo(q, k - 1), q[k])
  BY UpToIs
<1>2. /\ m \in Nat /\ UpTo(r, 0) = <<>> /\ Flat(r) = UpTo(r, m)
      /\ \A k \in 0..m : UpTo(r, k) \in Seq(S)
      /\ \A k \in 1..m : UpTo(r, k) = Cat(UpTo(r, k - 1), r[k]) /\ r[k] \in Seq(S)
  BY UpToIs
<1>3. /\ s \in Seq(Seq(S)) /\ Len(s) = n + m
      /\ \A k \in 1..(n + m) : s[k] = IF k <= n THEN q[k] ELSE r[k - n]
  BY CatSeq
<1> HIDE DEF n, m, s
<1>4. u[0] = <<>>
  BY <1>1, <1>2
<1>5. ASSUME NEW k \in 1..(n + m) PROVE u[k] = Cat(u[k - 1], s[k])
  <2>1. CASE k <= n
    <3>0. k \in 1..n /\ k - 1 <= n /\ k \in 0..(n + m) /\ k - 1 \in 0..(n + m) /\ s[k] = q[k]
      BY <1>1, <1>2, <1>3, <2>1
    <3>1. u[k] = UpTo(q, k) /\ u[k - 1] = UpTo(q, k - 1)
      BY <2>1, <3>0
    <3> HIDE DEF u
    <3> QED
      BY <1>1, <3>0, <3>1
  <2>2. CASE ~(k <= n)
    <3> DEFINE j == k - n
               a == UpTo(q, n)
    <3>0. j \in 1..m /\ j - 1 \in 0..m /\ k \in 0..(n + m) /\ s[k] = r[j]
      <4>1. n \in Nat /\ m \in Nat
        BY <1>1, <1>2
      <4>2. s[k] = r[k - n]
        BY <1>3, <2>2
      <4> HIDE DEF s
      <4> QED
        BY <2>2, <4>1, <4>2
    <3>1. u[k] = Cat(a, UpTo(r, j))
      BY <2>2, <3>0
    <3>2. a \in Seq(S)
      BY <1>1
    <3>3. u[k - 1] = Cat(a, UpTo(r, j - 1))
      <4>1. CASE k - 1 <= n
        <5>1. k - 1 = n /\ j - 1 = 0 /\ k - 1 \in 0..(n + m)
          BY <1>1, <1>2, <2>2, <4>1
        <5>2. u[k - 1] = a
          BY <4>1, <5>1
        <5> HIDE DEF a, u, j
        <5> QED
          BY <1>2, <3>2, <5>1, <5>2, CatNone
      <4>2. CASE ~(k - 1 <= n)
        <5>1. k - 1 - n = j - 1 /\ k - 1 \in 0..(n + m)
          BY <1>1, <1>2, <4>2
        <5> QED
          BY <4>2, <5>1
      <4> QED
        BY <4>1, <4>2
    <3> HIDE DEF u, a, j
    <3>4. UpTo(r, j) = Cat(UpTo(r, j - 1), r[j]) /\ UpTo(r, j - 1) \in Seq(S) /\ r[j] \in Seq(S)
      BY <1>2, <3>0
    <3>5. Cat(Cat(a, UpTo(r, j - 1)), r[j]) = Cat(a, Cat(UpTo(r, j - 1), r[j]))
      BY <3>2, <3>4, CatThree
    <3> QED
      BY <3>0, <3>1, <3>3, <3>4, <3>5
  <2> QED
    BY <2>1, <2>2
<1>6. u[n + m] = Cat(UpTo(q, n), UpTo(r, m))
  <2>1. CASE m = 0
    <3>0. n + m = n /\ n \in 0..(n + m) /\ n \in 0..n
      BY <1>1, <2>1
    <3>1. u[n + m] = UpTo(q, n) /\ UpTo(q, n) \in Seq(S)
      BY <1>1, <3>0
    <3>2. UpTo(r, m) = <<>>
      BY <1>2, <2>1
    <3> HIDE DEF u
    <3>3. Cat(UpTo(q, n), <<>>) = UpTo(q, n)
      BY <3>1, CatNone
    <3> QED
      BY <3>1, <3>2, <3>3
  <2>2. CASE m # 0
    <3> DEFINE k == n + m
    <3>1. ~(k <= n) /\ k - n = m /\ k \in 0..(n + m)
      BY <1>1, <1>2, <2>2
    <3> HIDE DEF k
    <3>2. u[k] = Cat(UpTo(q, n), UpTo(r, k - n))
      BY <3>1
    <3> HIDE DEF u
    <3>3. u[k] = Cat(UpTo(q, n), UpTo(r, m))
      BY <3>1, <3>2
    <3> QED
      BY <3>3 DEF k
  <2> QED
    BY <2>1, <2>2
<1> HIDE DEF u
<1>7. u[Len(s)] = Flat(s)
  BY <1>3, <1>4, <1>5, FlatIsPath
<1> QED
  BY <1>1, <1>2, <1>3, <1>6, <1>7 DEF s

LEMMA FlatTwo ==
  ASSUME NEW S, NEW a \in Seq(S), NEW b \in Seq(S)
  PROVE  <<a, b>> \in Seq(Seq(S)) /\ Flat(<<a, b>>) = Cat(a, b)
<1>1. <<a, b>> = Cat(<<a>>, <<b>>)
  <2>1. <<a>> \in Seq(Seq(S)) /\ <<b>> \in Seq(Seq(S)) /\ <<a, b>> \in Seq(Seq(S))
        /\ Len(<<a>>) = 1 /\ Len(<<b>>) = 1 /\ Len(<<a, b>>) = 2
    OBVIOUS
  <2>2. Append(<<a>>, b) = <<a, b>>
    <3> DEFINE p == Append(<<a>>, b)
    <3>1. p \in Seq(Seq(S)) /\ Len(p) = 2 /\ p[1] = a /\ p[2] = b
      BY <2>1, AppendProperties
    <3> HIDE DEF p
    <3>2. \A i \in 1..Len(p) : p[i] = <<a, b>>[i]
      BY <3>1
    <3>3. p = <<a, b>>
      BY <2>1, <3>1, <3>2, SeqEqual
    <3> QED
      BY <3>3 DEF p
  <2>3. Append(<<a>>, b) = <<a>> \o <<b>>
    BY <2>1, AppendIsConcat, Zenon
  <2> QED
    BY <2>2, <2>3 DEF Cat
<1>2. <<a>> \in Seq(Seq(S)) /\ <<b>> \in Seq(Seq(S)) /\ Flat(<<a>>) = a /\ Flat(<<b>>) = b
  BY FlatOne
<1> DEFINE p == <<a>>
           r == <<b>>
           s == <<a, b>>
<1> HIDE DEF p, r, s
<1>3. Flat(Cat(p, r)) = Cat(Flat(p), Flat(r)) /\ Cat(p, r) \in Seq(Seq(S))
  BY <1>2, FlatCat DEF p, r
<1>4. s = Cat(p, r) /\ Flat(p) = a /\ Flat(r) = b
  BY <1>1, <1>2 DEF p, r, s
<1> QED
  BY <1>3, <1>4 DEF s

LEMMA FlatFlat ==
  ASSUME NEW S, NEW Q \in Seq(Seq(Seq(S)))
  PROVE  LET q == [i \in 1..Len(Q) |-> Flat(Q[i])] IN
         /\ q \in Seq(Seq(S)) /\ Flat(Q) \in Seq(Seq(S)) /\ Flat(Flat(Q)) = Flat(q)
<1> DEFINE n == Len(Q)
           q == [i \in 1..n |-> Flat(Q[i])]
           u == [k \in 0..n |-> Flat(UpTo(Q, k))]
<1>1. /\ n \in Nat /\ UpTo(Q, 0) = <<>> /\ Flat(Q) = UpTo(Q, n)
      /\ \A k \in 0..n : UpTo(Q, k) \in Seq(Seq(S))
      /\ \A k \in 1..n : UpTo(Q, k) = Cat(UpTo(Q, k - 1), Q[k]) /\ Q[k] \in Seq(Seq(S))
  BY UpToIs
<1> HIDE DEF n
<1>2. \A k \in 1..n : Flat(Q[k]) \in Seq(S)
  BY <1>1, FlatSeq
<1>3. q \in Seq(Seq(S)) /\ Len(q) = n /\ \A k \in 1..n : q[k] = Flat(Q[k])
  <2>1. q \in Seq(Seq(S))
    BY <1>1, <1>2, IsASeq
  <2> QED
    BY <1>1, <2>1, LenProperties
<1>4. u[0] = <<>>
  BY <1>1, FlatNone
<1>5. ASSUME NEW k \in 1..n PROVE u[k] = Cat(u[k - 1], q[k])
  <2>1. k - 1 \in 0..n /\ k \in 0..n
    BY <1>1
  <2>2. u[k] = Flat(UpTo(Q, k)) /\ u[k - 1] = Flat(UpTo(Q, k - 1)) /\ q[k] = Flat(Q[k])
    BY <2>1
  <2> HIDE DEF u, q
  <2>3. UpTo(Q, k) = Cat(UpTo(Q, k - 1), Q[k]) /\ UpTo(Q, k - 1) \in Seq(Seq(S)) /\ Q[k] \in Seq(Seq(S))
    BY <1>1, <2>1
  <2>4. Flat(Cat(UpTo(Q, k - 1), Q[k])) = Cat(Flat(UpTo(Q, k - 1)), Flat(Q[k]))
    BY <2>3, FlatCat
  <2> QED
    BY <2>2, <2>3, <2>4
<1>6. u[n] = Flat(Flat(Q)) /\ Flat(Q) \in Seq(Seq(S))
  BY <1>1
<1> HIDE DEF q, u
<1>7. u[n] = Flat(q)
  BY <1>3, <1>4, <1>5, FlatIsPath
<1> QED
  BY <1>3, <1>6, <1>7 DEF q, n

-----------------------------------------------------------------------------
(* Reading.                                                                *)

\* As far as there are bytes on the wire from at on, they are p.
Comes(at, p) == \A i \in 1..Len(p) : at + i <= Len(wire) => wire[at + i] = p[i]

\* A reading of p at at gives v, or fails where some of p are missing.
Reads(r, at, v, p) ==
  /\ r = [ok |-> r.ok, v |-> r.v, at |-> r.at]
  /\ r.ok \in BOOLEAN /\ (r.ok <=> at + Len(p) <= Len(wire))
  /\ r.ok => r.v = v /\ r.at = at + Len(p)

LEMMA ComesIn ==
  ASSUME wire \in Codes, NEW at \in Nat, NEW a \in Codes, NEW b \in Codes, Comes(at, Cat(a, b))
  PROVE  Comes(at, a) /\ Comes(at + Len(a), b) /\ at + Len(a) \in Nat
<1>1. /\ Len(a) \in Nat /\ Len(b) \in Nat /\ Len(wire) \in Nat /\ Len(Cat(a, b)) = Len(a) + Len(b)
      /\ \A i \in 1..(Len(a) + Len(b)) : Cat(a, b)[i] = IF i <= Len(a) THEN a[i] ELSE b[i - Len(a)]
  BY CatSeq, LenProperties DEF Codes
<1> DEFINE n == Len(a)
           m == Len(b)
           l == Len(wire)
           c == Cat(a, b)
<1>2. \A i \in 1..(n + m) : at + i <= l => wire[at + i] = c[i]
  BY <1>1 DEF Comes
<1> HIDE DEF n, m, l, c
<1>3. ASSUME NEW i \in 1..n, at + i <= l PROVE wire[at + i] = a[i]
  <2>1. i \in 1..(n + m) /\ i <= n
    BY <1>1 DEF n, m
  <2> QED
    BY <1>1, <1>2, <1>3, <2>1 DEF n, m, c
<1>4. ASSUME NEW i \in 1..m, at + n + i <= l PROVE wire[at + n + i] = b[i]
  <2> DEFINE j == n + i
  <2>1. j \in 1..(n + m) /\ ~(j <= n) /\ j - n = i /\ at + j = at + n + i /\ at + j <= l
    BY <1>1, <1>4 DEF n, m, l
  <2> HIDE DEF j
  <2>2. wire[at + j] = c[j] /\ c[j] = b[j - n]
    BY <1>1, <1>2, <2>1 DEF n, m, c
  <2> QED
    BY <2>1, <2>2
<1> QED
  BY <1>1, <1>3, <1>4 DEF Comes, n, m, l

LEMMA ReadBytes ==
  ASSUME wire \in Codes, NEW at \in Nat, NEW p \in Codes, Comes(at, p)
  PROVE  Reads(P!unpack_bytes(at, Len(p)), at, p, p)
<1> DEFINE n == Len(p)
           s == SubSeq(wire, at + 1, at + n)
<1>1. n \in Nat /\ Len(wire) \in Nat
  BY LenProperties DEF Codes
<1>2. ASSUME at + n <= Len(wire) PROVE s = p
  <2>1. /\ s \in Codes
        /\ Len(s) = IF at + 1 <= at + n THEN at + n - (at + 1) + 1 ELSE 0
        /\ \A i \in 1..(at + n - (at + 1) + 1) : s[i] = wire[at + 1 + i - 1]
    <3>1. \A i \in (at + 1)..(at + n) : wire[i] \in Nat
      BY <1>1, <1>2, ElementOfSeq DEF Codes
    <3> DEFINE x == at + 1
               y == at + n
    <3>2. wire \in Seq(Nat) /\ x \in 1..(Len(wire) + 1) /\ y \in (x - 1)..Len(wire)
      BY <1>1, <1>2 DEF Codes
    <3> HIDE DEF x, y
    <3>3. /\ SubSeq(wire, x, y) \in Seq(Nat)
          /\ Len(SubSeq(wire, x, y)) = IF x <= y THEN y - x + 1 ELSE 0
          /\ \A i \in 1..(y - x + 1) : SubSeq(wire, x, y)[i] = wire[x + i - 1]
      BY <3>2, SubSeqProperties
    <3> QED
      BY <3>3 DEF x, y, Codes
  <2> HIDE DEF s
  <2>2. Len(s) = n
    BY <1>1, <2>1
  <2>3. ASSUME NEW i \in 1..n PROVE s[i] = p[i]
    <3>1. i \in 1..(at + n - (at + 1) + 1) /\ at + 1 + i - 1 = at + i /\ at + i <= Len(wire)
      BY <1>1, <1>2
    <3>2. s[i] = wire[at + i]
      BY <2>1, <3>1
    <3> QED
      BY <3>1, <3>2 DEF Comes
  <2> QED
    BY <2>1, <2>2, <2>3, SeqEqual DEF Codes
<1> HIDE DEF s
<1>3. P!unpack_bytes(at, n) = IF at + n <= Len(wire) THEN [ok |-> TRUE, v |-> s, at |-> at + n]
                              ELSE [ok |-> FALSE, v |-> <<>>, at |-> at]
  BY DEF P!unpack_bytes, s
<1> DEFINE r == P!unpack_bytes(at, n)
<1> HIDE DEF r
<1>4. /\ at + n <= Len(wire) => r = [ok |-> TRUE, v |-> p, at |-> at + n]
      /\ ~(at + n <= Len(wire)) => r = [ok |-> FALSE, v |-> <<>>, at |-> at]
  BY <1>2, <1>3 DEF r
<1> HIDE DEF n
<1>5. /\ r = [ok |-> r.ok, v |-> r.v, at |-> r.at]
      /\ r.ok \in BOOLEAN /\ (r.ok <=> at + n <= Len(wire))
      /\ r.ok => r.v = p /\ r.at = at + n
  <2>1. CASE at + n <= Len(wire)
    <3>1. r = [ok |-> TRUE, v |-> p, at |-> at + n]
      BY <1>4, <2>1
    <3> QED
      BY <2>1, <3>1
  <2>2. CASE ~(at + n <= Len(wire))
    <3>1. r = [ok |-> FALSE, v |-> <<>>, at |-> at]
      BY <1>4, <2>2
    <3> QED
      BY <2>2, <3>1
  <2> QED
    BY <2>1, <2>2
<1>6. Reads(r, at, p, p)
  BY <1>5 DEF Reads, n
<1> QED
  BY <1>6 DEF r, n

LEMMA ReadNumber ==
  ASSUME wire \in Codes, NEW at \in Nat, NEW w \in Nat, NEW v \in P!Number(w),
         Comes(at, P!Digits(v, w))
  PROVE  Reads(P!unpack_number(at, w), at, v, P!Digits(v, w))
<1> DEFINE p == P!Digits(v, w)
           r == P!unpack_bytes(at, w)
<1>1. v \in Nat /\ P!Value(p) = v
  BY ValueOfDigits
<1>2. p \in Codes /\ Len(p) = w
  BY <1>1, DigitsAre
<1> HIDE DEF p
<1>3. Reads(r, at, p, p)
  <2>1. Comes(at, p)
    BY DEF p
  <2> QED
    BY <1>2, <2>1, ReadBytes
<1> HIDE DEF r
<1>4. P!unpack_number(at, w) = [r EXCEPT !.v = P!Value(@)]
  BY DEF P!unpack_number, P!AsNumber, r
<1>5. Reads([r EXCEPT !.v = P!Value(@)], at, v, p)
  BY <1>1, <1>3 DEF Reads
<1> QED
  BY <1>4, <1>5 DEF p

LEMMA ComesUpTo ==
  ASSUME wire \in Codes, NEW at \in Nat, NEW q \in Seq(Codes), Comes(at, Flat(q))
  PROVE  \A k \in 0..Len(q) : Comes(at, UpTo(q, k))
<1> DEFINE n == Len(q)
           Bad == {k \in Nat : k <= n /\ ~Comes(at, UpTo(q, n - k))}
<1>1. /\ n \in Nat /\ Flat(q) = UpTo(q, n)
      /\ \A k \in 0..n : UpTo(q, k) \in Codes
      /\ \A k \in 1..n : UpTo(q, k) = Cat(UpTo(q, k - 1), q[k]) /\ q[k] \in Codes
  BY UpToIs DEF Codes
<1> HIDE DEF n
<1>2. Bad = {}
  <2>1. SUFFICES ASSUME Bad # {} PROVE FALSE
    OBVIOUS
  <2>2. PICK k \in Bad : \A m \in Bad : ~(<<m, k>> \in OpToRel(<, Nat))
    BY <2>1, WFMin, NatLessThanWellFounded, Zenon
  <2>3. k \in Nat /\ k <= n /\ ~Comes(at, UpTo(q, n - k))
    OBVIOUS
  <2>4. k # 0
    <3>1. n - 0 = n
      BY <1>1
    <3> QED
      BY <1>1, <2>3, <3>1
  <2>5. k - 1 \in Nat /\ k - 1 <= n
    BY <1>1, <2>3, <2>4
  <2>6. k - 1 \notin Bad
    <3>1. <<k - 1, k>> \in OpToRel(<, Nat)
      BY <2>3, <2>5 DEF OpToRel
    <3> HIDE DEF Bad
    <3> QED
      BY <2>2, <3>1
  <2> DEFINE m == n - (k - 1)
  <2>7. m \in 1..n /\ m - 1 = n - k /\ m - 1 \in 0..n
    BY <1>1, <2>3, <2>5
  <2>8. Comes(at, UpTo(q, m))
    BY <2>5, <2>6
  <2> HIDE DEF m
  <2>9. UpTo(q, m) = Cat(UpTo(q, m - 1), q[m]) /\ UpTo(q, m - 1) \in Codes /\ q[m] \in Codes
    BY <1>1, <2>7
  <2>10. Comes(at, UpTo(q, m - 1))
    BY <2>8, <2>9, ComesIn
  <2> QED
    BY <2>3, <2>7, <2>10
<1>3. ASSUME NEW k \in 0..n PROVE Comes(at, UpTo(q, k))
  <2>1. n - k \in Nat /\ n - k <= n /\ n - (n - k) = k
    BY <1>1
  <2>2. n - k \notin Bad
    BY <1>2
  <2> QED
    BY <2>1, <2>2
<1> QED
  BY <1>3 DEF n

\* Where each of q is.
LEMMA PlaceOf ==
  ASSUME wire \in Codes, NEW at \in Nat, NEW q \in Seq(Codes), Comes(at, Flat(q)),
         NEW k \in 1..Len(q)
  PROVE  LET a == at + Len(UpTo(q, k - 1)) IN
         /\ a \in Nat /\ Comes(a, q[k]) /\ q[k] \in Codes /\ Len(q[k]) \in Nat
         /\ at + Len(UpTo(q, k)) = a + Len(q[k])
<1>1. /\ UpTo(q, k - 1) \in Codes /\ q[k] \in Codes
      /\ UpTo(q, k) = Cat(UpTo(q, k - 1), q[k])
  <2>1. k - 1 \in 0..Len(q)
    BY LenProperties
  <2> QED
    BY <2>1, UpToIs DEF Codes
<1>2. Comes(at, UpTo(q, k))
  <2>1. k \in 0..Len(q)
    BY LenProperties
  <2> QED
    BY <2>1, ComesUpTo
<1> DEFINE u == UpTo(q, k - 1)
           c == q[k]
<1> HIDE DEF u, c
<1>3. u \in Codes /\ c \in Codes /\ Comes(at, Cat(u, c))
  BY <1>1, <1>2 DEF u, c
<1>4. Comes(at + Len(u), c) /\ at + Len(u) \in Nat /\ Len(Cat(u, c)) = Len(u) + Len(c)
      /\ Len(c) \in Nat /\ Len(u) \in Nat
  BY <1>3, ComesIn, CatSeq, LenProperties DEF Codes
<1>5. at + Len(Cat(u, c)) = at + Len(u) + Len(c)
  BY <1>4
<1> QED
  BY <1>1, <1>3, <1>4, <1>5 DEF u, c

LEMMA FirstSome ==
  ASSUME NEW V, NEW v \in Seq(V)
  PROVE  /\ SubSeq(v, 1, 0) = <<>> /\ SubSeq(v, 1, Len(v)) = v
         /\ \A k \in 1..Len(v) : SubSeq(v, 1, k) = Append(SubSeq(v, 1, k - 1), v[k])
<1>1. SubSeq(v, 1, 0) = <<>>
  BY SubSeqEmpty
<1>2. SubSeq(v, 1, Len(v)) = v
  BY SubSeqFull
<1>3. ASSUME NEW k \in 1..Len(v) PROVE SubSeq(v, 1, k) = Append(SubSeq(v, 1, k - 1), v[k])
  <2> DEFINE m == k - 1
             a == SubSeq(v, 1, m)
             b == Append(a, v[k])
             c == SubSeq(v, 1, k)
  <2>1. Len(v) \in Nat /\ \A i \in 1..Len(v) : v[i] \in V
    BY LenProperties, ElementOfSeq
  <2>2. m \in Nat /\ k \in Nat /\ k = m + 1 /\ \A i \in 1..m : v[i] \in V
    BY <2>1
  <2> HIDE DEF m
  <2>3. a \in Seq(V) /\ Len(a) = m /\ \A i \in 1..m : a[i] = v[i]
    <3>1. /\ SubSeq(v, 1, m) \in Seq(V)
          /\ Len(SubSeq(v, 1, m)) = IF 1 <= m THEN m - 1 + 1 ELSE 0
          /\ \A i \in 1..(m - 1 + 1) : SubSeq(v, 1, m)[i] = v[1 + i - 1]
      BY <2>2, SubSeqProperties
    <3>2. m - 1 + 1 = m /\ (~(1 <= m) => m = 0) /\ \A i \in 1..m : 1 + i - 1 = i
      BY <2>2
    <3> QED
      BY <3>1, <3>2
  <2>4. c \in Seq(V) /\ Len(c) = k /\ \A i \in 1..k : c[i] = v[i]
    <3>1. /\ SubSeq(v, 1, k) \in Seq(V)
          /\ Len(SubSeq(v, 1, k)) = IF 1 <= k THEN k - 1 + 1 ELSE 0
          /\ \A i \in 1..(k - 1 + 1) : SubSeq(v, 1, k)[i] = v[1 + i - 1]
      <4>1. \A i \in 1..k : v[i] \in V
        BY <2>1, <2>2
      <4> QED
        BY <2>2, <4>1, SubSeqProperties
    <3>2. k - 1 + 1 = k /\ 1 <= k /\ \A i \in 1..k : 1 + i - 1 = i
      BY <2>2
    <3> QED
      BY <3>1, <3>2
  <2> HIDE DEF a, c
  <2>5. b \in Seq(V) /\ Len(b) = m + 1 /\ (\A i \in 1..m : b[i] = a[i]) /\ b[m + 1] = v[k]
    BY <2>1, <2>3, AppendProperties
  <2> HIDE DEF b
  <2>6. \A i \in 1..k : b[i] = c[i]
    BY <2>2, <2>3, <2>4, <2>5
  <2>7. b = c
    BY <2>2, <2>4, <2>5, <2>6, SeqEqual
  <2> QED
    BY <2>7 DEF a, b, c, m
<1> QED
  BY <1>1, <1>2, <1>3

\* Readings one after the other, each from where the one before has ended.
LEMMA ReadsAll ==
  ASSUME wire \in Codes, NEW at \in 0..Len(wire), NEW q \in Seq(Codes), Comes(at, Flat(q)),
         NEW V, NEW v \in Seq(V), Len(v) = Len(q), NEW e,
         NEW f, f[0] = [ok |-> TRUE, v |-> <<>>, at |-> at],
         \A k \in 1..Len(q) : f[k] = IF f[k - 1].ok THEN P!Add(f[k - 1], e[k]) ELSE f[k - 1],
         \A k \in 1..Len(q) : \A a \in Nat :
            f[k - 1].at = a /\ Comes(a, q[k]) => Reads(e[k], a, v[k], q[k])
  PROVE  Reads(f[Len(q)], at, v, Flat(q))
<1> DEFINE n == Len(q)
           Good(k) == Reads(f[k], at, SubSeq(v, 1, k), UpTo(q, k))
           Bad == {k \in Nat : k <= n /\ ~Good(k)}
<1>1. n \in Nat /\ UpTo(q, 0) = <<>> /\ Flat(q) = UpTo(q, n) /\ at \in Nat /\ Len(wire) \in Nat
  BY UpToIs, LenProperties DEF Codes
<1>2. /\ SubSeq(v, 1, 0) = <<>> /\ SubSeq(v, 1, n) = v
      /\ \A k \in 1..n : SubSeq(v, 1, k) = Append(SubSeq(v, 1, k - 1), v[k])
  BY FirstSome
<1>3. \A k \in 1..n : f[k] = IF f[k - 1].ok THEN P!Add(f[k - 1], e[k]) ELSE f[k - 1]
  OBVIOUS
<1>4. ASSUME NEW k \in 1..n, Good(k - 1) PROVE Good(k)
  <2> DEFINE a == at + Len(UpTo(q, k - 1))
             r == f[k - 1]
             l == Len(q[k])
             x == e[k]
             w == SubSeq(v, 1, k - 1)
  <2>1. a \in Nat /\ Comes(a, q[k]) /\ l \in Nat /\ at + Len(UpTo(q, k)) = a + l
    BY <1>1, PlaceOf
  <2>2. /\ r = [ok |-> r.ok, v |-> r.v, at |-> r.at] /\ r.ok \in BOOLEAN
        /\ (r.ok <=> a <= Len(wire)) /\ (r.ok => r.v = w /\ r.at = a)
    BY <1>4 DEF Reads
  <2>3. f[k] = IF r.ok THEN P!Add(r, x) ELSE r
    BY <1>3
  <2>4. r.ok => Reads(x, a, v[k], q[k])
    BY <2>1, <2>2
  <2>5. SubSeq(v, 1, k) = Append(w, v[k])
    BY <1>2
  <2> HIDE DEF a, r, l, x, w
  <2>6. CASE r.ok
    <3>1. /\ x.ok \in BOOLEAN /\ (x.ok <=> a + l <= Len(wire))
          /\ x.ok => x.v = v[k] /\ x.at = a + l
      BY <2>4, <2>6 DEF Reads, l
    <3>2. f[k] = [ok |-> x.ok, v |-> Append(w, x.v), at |-> x.at]
      BY <2>2, <2>3, <2>6 DEF P!Add
    <3>3. /\ f[k] = [ok |-> f[k].ok, v |-> f[k].v, at |-> f[k].at]
          /\ f[k].ok = x.ok /\ f[k].v = Append(w, x.v) /\ f[k].at = x.at
      BY <3>2
    <3> QED
      BY <2>1, <2>5, <3>1, <3>3 DEF Reads
  <2>7. CASE ~r.ok
    <3>1. f[k] = r
      BY <2>3, <2>7
    <3>2. ~(a + l <= Len(wire))
      BY <1>1, <2>1, <2>2, <2>7
    <3> QED
      BY <2>1, <2>2, <2>7, <3>1, <3>2 DEF Reads
  <2> QED
    BY <2>2, <2>6, <2>7
<1>5. Good(0)
  <2>1. Len(<<>>) = 0 /\ at + 0 = at
    BY <1>1
  <2>2. f[0] = [ok |-> TRUE, v |-> <<>>, at |-> at]
    OBVIOUS
  <2> HIDE DEF n
  <2>3. Reads(f[0], at, <<>>, <<>>)
    BY <1>1, <2>1, <2>2 DEF Reads
  <2> QED
    BY <1>1, <1>2, <2>3
<1> HIDE DEF Good, n
<1>6. Bad = {}
  <2>1. SUFFICES ASSUME Bad # {} PROVE FALSE
    OBVIOUS
  <2>2. PICK k \in Bad : \A m \in Bad : ~(<<m, k>> \in OpToRel(<, Nat))
    BY <2>1, WFMin, NatLessThanWellFounded, Zenon
  <2>3. k \in Nat /\ k <= n /\ ~Good(k)
    OBVIOUS
  <2>4. k # 0
    BY <1>5, <2>3
  <2>5. k - 1 \in Nat /\ k - 1 <= n /\ k \in 1..n
    BY <1>1, <2>3, <2>4
  <2>6. k - 1 \notin Bad
    <3>1. <<k - 1, k>> \in OpToRel(<, Nat)
      BY <2>3, <2>5 DEF OpToRel
    <3> HIDE DEF Bad
    <3> QED
      BY <2>2, <3>1
  <2> QED
    BY <1>4, <2>3, <2>5, <2>6
<1>7. Good(n)
  BY <1>1, <1>6
<1> QED
  BY <1>1, <1>2, <1>7 DEF Good, n

-----------------------------------------------------------------------------
(* Readings one after the other, as the fold of Repeat and Fields has them.*)

\* What a reading is, and one of several values.
Result(V) == [ok : BOOLEAN, v : V, at : Nat]

\* h folds the readings rd, one per index, each at a place.
Runs(h, rd, V, base, n) ==
  /\ h \in [SUBSET (1..n) -> Result(Seq(V))]
  /\ \A t \in SUBSET (1..n) :
       h[t] = IF t = {} THEN base
              ELSE LET r == h[t \ {GreatestOf(t)}] IN
                   IF r.ok THEN P!Add(r, rd[<<GreatestOf(t), r.at>>]) ELSE r

LEMMA RunExists ==
  ASSUME NEW n \in Nat, NEW V, NEW rd \in [(1..n) \X Nat -> Result(V)],
         NEW base \in Result(Seq(V))
  PROVE  \E h : Runs(h, rd, V, base, n)
<1> DEFINE Type == Result(Seq(V))
           Then(r, i) == IF r.ok THEN P!Add(r, rd[<<i, r.at>>]) ELSE r
           F == [p \in Type \X (1..n) |-> Then(p[1], p[2])]
<1>1. ASSUME NEW r \in Type, NEW i \in 1..n PROVE Then(r, i) \in Type
  <2> DEFINE x == rd[<<i, r.at>>]
  <2>1. r.ok \in BOOLEAN /\ r.v \in Seq(V) /\ r.at \in Nat
    BY DEF Result
  <2>2. x \in Result(V)
    BY <2>1
  <2> HIDE DEF x
  <2>3. x.ok \in BOOLEAN /\ x.v \in V /\ x.at \in Nat
    BY <2>2 DEF Result
  <2>4. Append(r.v, x.v) \in Seq(V)
    BY <2>1, <2>3, AppendProperties
  <2>5. P!Add(r, x) \in Type
    BY <2>3, <2>4 DEF P!Add, Result
  <2> QED
    BY <2>5 DEF x
<1> HIDE DEF Type, Then
<1>2. F \in [Type \X (1..n) -> Type]
  BY <1>1
<1>3. base \in Type
  BY DEF Type
<1>4. PICK h : Folds(h, F, Type, base, n)
  <2> HIDE DEF F
  <2> QED
    BY <1>2, <1>3, FoldExists
<1>5. h \in [SUBSET (1..n) -> Type]
  BY <1>4 DEF Folds
<1>6. ASSUME NEW t \in SUBSET (1..n)
      PROVE  h[t] = IF t = {} THEN base ELSE Then(h[t \ {GreatestOf(t)}], GreatestOf(t))
  <2> DEFINE x == GreatestOf(t)
             r == h[t \ {x}]
  <2>1. h[t] = IF t = {} THEN base ELSE F[<<r, x>>]
    BY <1>4 DEF Folds
  <2>2. ASSUME t # {} PROVE x \in 1..n /\ r \in Type
    BY <1>5, <2>2, GreatestIn
  <2> HIDE DEF x, r
  <2>3. ASSUME t # {} PROVE F[<<r, x>>] = Then(r, x)
    BY <2>2, <2>3
  <2> QED
    BY <2>1, <2>3 DEF x, r
<1> QED
  BY <1>5, <1>6, Zenon DEF Runs, Type, Then

\* What is read after something else.
LEMMA ReadsThen ==
  ASSUME wire \in Codes, NEW at \in Nat, NEW x, NEW d \in Codes, NEW r0, Reads(r0, at, x, d),
         NEW v, NEW p \in Codes, NEW r,
         r0.ok => Reads(r, at + Len(d), v, p), ~r0.ok => r = r0
  PROVE  Reads(r, at, v, Cat(d, p))
<1> DEFINE m == Len(d)
           n == Len(p)
           l == Len(wire)
<1>1. m \in Nat /\ n \in Nat /\ l \in Nat /\ Len(Cat(d, p)) = m + n
  BY CatSeq, LenProperties DEF Codes
<1>2. r0.ok \in BOOLEAN /\ (r0.ok <=> at + m <= l)
  BY DEF Reads
<1>3. /\ r = [ok |-> r.ok, v |-> r.v, at |-> r.at] /\ r.ok \in BOOLEAN
      /\ r0.ok => /\ r.ok <=> at + m + n <= l
                  /\ r.ok => r.v = v /\ r.at = at + m + n
      /\ ~r0.ok => ~r.ok
  <2>1. CASE r0.ok
    BY <2>1 DEF Reads
  <2>2. CASE ~r0.ok
    BY <2>2 DEF Reads
  <2> QED
    BY <1>2, <2>1, <2>2
<1> HIDE DEF m, n, l
<1>4. at + (m + n) = at + m + n /\ (~(at + m <= l) => ~(at + m + n <= l))
  BY <1>1
<1>5. /\ r.ok <=> at + (m + n) <= l
      /\ r.ok => r.v = v /\ r.at = at + (m + n)
  BY <1>2, <1>3, <1>4
<1> QED
  BY <1>1, <1>3, <1>5 DEF Reads, l

LEMMA ValueNat ==
  ASSUME NEW s \in Codes
  PROVE  P!Value(s) \in Nat
<1> DEFINE n == Len(s)
           F == [p \in Nat \X (1..n) |-> p[1] * Base + s[p[2]]]
<1>1. n \in Nat /\ s \in [1..n -> Nat]
  BY LenProperties DEF Codes
<1>2. PICK f : /\ f[0] = 0 /\ f[n] = P!Value(s)
               /\ \A k \in 1..n : f[k] = f[k - 1] * Base + s[k]
  BY <1>1, ValueIsPath
<1> HIDE DEF n
<1>3. F \in [Nat \X (1..n) -> Nat]
  <2>1. \A a, b \in Nat : a * Base + b \in Nat
    BY BaseIs
  <2> QED
    BY <1>1, <2>1
<1>4. f[0] \in Nat /\ \A k \in 1..n : f[k - 1] \in Nat => f[k] = F[<<f[k - 1], k>>]
  BY <1>2
<1> HIDE DEF F
<1>5. \A k \in 0..n : f[k] \in Nat
  BY <1>1, <1>3, <1>4, PathTyped
<1>6. n \in 0..n
  BY <1>1
<1> QED
  BY <1>2, <1>5, <1>6

LEMMA BytesResult ==
  ASSUME wire \in Codes, NEW at \in Nat, NEW n \in Nat
  PROVE  P!unpack_bytes(at, n) \in Result(Codes)
<1>1. ASSUME at + n <= Len(wire) PROVE SubSeq(wire, at + 1, at + n) \in Codes
  <2> DEFINE x == at + 1
             y == at + n
  <2>1. x \in Int /\ y \in Int /\ \A i \in x..y : wire[i] \in Nat
    BY <1>1, ElementOfSeq, LenProperties DEF Codes
  <2> HIDE DEF x, y
  <2>2. SubSeq(wire, x, y) \in Seq(Nat)
    BY <2>1, SubSeqProperties
  <2> QED
    BY <2>2 DEF x, y, Codes
<1>2. <<>> \in Codes /\ at + n \in Nat
  BY EmptySeq DEF Codes
<1> QED
  BY <1>1, <1>2 DEF P!unpack_bytes, Result

LEMMA NumberResult ==
  ASSUME wire \in Codes, NEW at \in Nat, NEW w \in Nat
  PROVE  P!unpack_number(at, w) \in Result(Nat)
<1> DEFINE r == P!unpack_bytes(at, w)
<1>1. r \in Result(Codes)
  BY BytesResult
<1>2. P!unpack_number(at, w) = [r EXCEPT !.v = P!Value(@)]
  BY DEF P!unpack_number, P!AsNumber
<1> HIDE DEF r
<1>3. P!Value(r.v) \in Nat
  BY <1>1, ValueNat DEF Result
<1> QED
  BY <1>1, <1>2, <1>3 DEF Result

LEMMA HeaderResult ==
  ASSUME wire \in Codes, NEW at \in Nat, NEW w \in Nat
  PROVE  P!AsManyBytes(P!unpack_number(at, w)) \in Result(Codes \union Nat)
<1> DEFINE r == P!unpack_number(at, w)
<1>1. r \in Result(Nat)
  BY NumberResult
<1> HIDE DEF r
<1>2. r.at \in Nat /\ r.v \in Nat
  BY <1>1 DEF Result
<1>3. P!unpack_bytes(r.at, r.v) \in Result(Codes)
  BY <1>2, BytesResult
<1>4. P!AsManyBytes(r) \in Result(Codes \union Nat)
  BY <1>1, <1>3 DEF P!AsManyBytes, Result
<1> QED
  BY <1>4 DEF r

\* A reading of any kind tells whether it succeeded, what was read, and where it ended.
IsResult(r) == r = [ok |-> r.ok, v |-> r.v, at |-> r.at] /\ r.ok \in BOOLEAN /\ r.at \in Nat

\* From f[0] on, each of e adds to what was read before, as r has it when r0 is read.
PathOf(f, e, r0, r) ==
  /\ f[0] = [r0 EXCEPT !.v = <<>>] /\ (r0.ok => f[r0.v] = r) /\ (~r0.ok => r = r0)
  /\ \A k \in 1..r0.v : f[k] = IF f[k - 1].ok THEN P!Add(f[k - 1], e[k]) ELSE f[k - 1]

\* Each of e reads what comes where the one before has ended.
EachReads(f, e, v, q) ==
  \A k \in 1..Len(q) : \A a \in Nat :
     f[k - 1].at = a /\ Comes(a, q[k]) => Reads(e[k], a, v[k], q[k])

\* The bytes of a list whose elements have q for bytes.
ListBytes(q) == Cat(P!Digits(Len(q), U32_LEN), Flat(q))

\* What Unpack reads of a kind that is a list.
ManyBytes(at, size) == P!List(at, LAMBDA a : P!unpack_bytes(a, size))
ManyWithHeader(at) == P!List(at, P!unpack_bytes_with_header)
ManyIps(at) == P!List(at, P!unpack_ip)

LEMMA AddTyped ==
  ASSUME NEW V, NEW r \in Result(Seq(V)), NEW x \in Result(V)
  PROVE  P!Add(r, x) \in Result(Seq(V))
<1>1. r.v \in Seq(V) /\ x.ok \in BOOLEAN /\ x.v \in V /\ x.at \in Nat
  BY DEF Result
<1>2. Append(r.v, x.v) \in Seq(V)
  BY <1>1, AppendProperties
<1> QED
  BY <1>1, <1>2 DEF P!Add, Result

LEMMA RunTyped ==
  ASSUME NEW n \in Nat, NEW V, NEW rd \in [(1..n) \X Nat -> Result(V)], NEW f,
         f[0] \in Result(Seq(V)),
         \A k \in 1..n : f[k - 1] \in Result(Seq(V)) =>
            f[k] = IF f[k - 1].ok THEN P!Add(f[k - 1], rd[<<k, f[k - 1].at>>]) ELSE f[k - 1]
  PROVE  f[n] \in Result(Seq(V))
<1> DEFINE Type == Result(Seq(V))
           Then(r, i) == IF r.ok THEN P!Add(r, rd[<<i, r.at>>]) ELSE r
           F == [p \in Type \X (1..n) |-> Then(p[1], p[2])]
<1>1. ASSUME NEW r \in Type, NEW i \in 1..n PROVE Then(r, i) \in Type
  <2>1. r.at \in Nat
    BY DEF Result
  <2>2. rd[<<i, r.at>>] \in Result(V)
    BY <2>1
  <2> QED
    BY <2>2, AddTyped
<1>2. \A k \in 1..n : f[k - 1] \in Type => f[k] = Then(f[k - 1], k)
  OBVIOUS
<1> HIDE DEF Type, Then
<1>3. F \in [Type \X (1..n) -> Type]
  BY <1>1
<1>4. f[0] \in Type
  BY DEF Type
<1>5. \A k \in 1..n : f[k - 1] \in Type => f[k] = F[<<f[k - 1], k>>]
  BY <1>2
<1> HIDE DEF F
<1>6. \A k \in 0..n : f[k] \in Type
  BY <1>3, <1>4, <1>5, PathTyped
<1> QED
  BY <1>6 DEF Type

LEMMA IpResult ==
  ASSUME wire \in Codes, NEW at \in Nat
  PROVE  P!unpack_ip(at) \in Result({P!unpack_ip(a).v : a \in Nat})
<1> DEFINE a == P!unpack_bytes(at, IP_ADDR_LEN)
           b == P!unpack_number(at + IP_ADDR_LEN, U16_LEN)
           r == P!unpack_ip(at)
<1>1. a \in Result(Codes) /\ b \in Result(Nat)
  <2>1. IP_ADDR_LEN \in Nat /\ U16_LEN \in Nat
    BY WidthsAre
  <2>2. at + IP_ADDR_LEN \in Nat
    BY <2>1
  <2> QED
    BY <2>1, <2>2, BytesResult, NumberResult
<1>2. r = P!WithPort(a, b)
  BY DEF P!unpack_ip
<1>3. r.v \in {P!unpack_ip(i).v : i \in Nat}
  OBVIOUS
<1> DEFINE ip == [port |-> b.v, addr |-> IF P!IsV4(a.v) THEN SubSeq(a.v, P!V6_ONLY + 1, IP_ADDR_LEN) ELSE a.v]
<1> HIDE DEF a, b, r
<1>4. r = IF ~a.ok THEN a ELSE [b EXCEPT !.v = ip]
  BY <1>2 DEF P!WithPort
<1> HIDE DEF ip
<1>5. r = [ok |-> r.ok, v |-> r.v, at |-> r.at] /\ r.ok \in BOOLEAN /\ r.at \in Nat
  BY <1>1, <1>4 DEF Result
<1> QED
  BY <1>3, <1>5 DEF Result, r

LEMMA BytesRun ==
  ASSUME wire \in Codes, NEW size \in Nat, NEW at \in Nat
  PROVE  LET r0 == P!unpack_number(at, U32_LEN)
             r == ManyBytes(at, size)
         IN
         /\ r0 \in Result(Nat) /\ IsResult(r)
         /\ \E f, e : PathOf(f, e, r0, r) /\ \A k \in Nat : e[k] = P!unpack_bytes(f[k - 1].at, size)
<1> DEFINE V == Codes
           r0 == P!unpack_number(at, U32_LEN)
           r == ManyBytes(at, size)
           n == r0.v
           base == [r0 EXCEPT !.v = <<>>]
           rd == [p \in (1..n) \X Nat |-> P!unpack_bytes(p[2], size)]
           Then(x) == IF x.ok THEN P!Add(x, P!unpack_bytes(x.at, size)) ELSE x
           Is(h) == h = [t \in SUBSET (1..n) |->
                           IF t = {} THEN base ELSE Then(h[t \ {GreatestOf(t)}])]
           h == CHOOSE h : Is(h)
           f == [k \in 0..n |-> h[1..k]]
<1>0. r0 \in Result(Nat) /\ (~r0.ok => r = r0)
  <2>1. r0 \in Result(Nat)
    BY WidthsAre, NumberResult
  <2>2. ~r0.ok => r = r0
    BY DEF ManyBytes, P!List, P!Repeat
  <2> QED
    BY <2>1, <2>2
<1>1. n \in Nat /\ base \in Result(Seq(V))
  <2>1. r0.v \in Nat /\ <<>> \in Seq(V)
    BY <1>0, EmptySeq DEF Result
  <2> HIDE DEF V, r0
  <2> QED
    BY <1>0, <2>1 DEF Result
<1>2. ASSUME NEW i \in 1..n, NEW a \in Nat
      PROVE  rd[<<i, a>>] = P!unpack_bytes(a, size) /\ P!unpack_bytes(a, size) \in Result(V)
  BY BytesResult
<1>3. rd \in [(1..n) \X Nat -> Result(V)]
  BY <1>2
<1> HIDE DEF n, base, V, rd, r0
<1>4. PICK g : Runs(g, rd, V, base, n)
  BY <1>1, <1>3, RunExists
<1>5. Is(g)
  <2>1. ASSUME NEW t \in SUBSET (1..n), t # {}
        PROVE  g[t] = Then(g[t \ {GreatestOf(t)}])
    <3> DEFINE x == GreatestOf(t)
               z == g[t \ {x}]
    <3>1. x \in 1..n /\ z \in Result(Seq(V))
      BY <1>1, <1>4, <2>1, GreatestIn DEF Runs
    <3>2. g[t] = IF z.ok THEN P!Add(z, rd[<<x, z.at>>]) ELSE z
      BY <1>4, <2>1 DEF Runs
    <3> HIDE DEF x, z
    <3>3. z.at \in Nat
      BY <3>1 DEF Result
    <3>4. rd[<<x, z.at>>] = P!unpack_bytes(z.at, size)
      BY <1>2, <3>1, <3>3
    <3>5. g[t] = Then(z)
      BY <3>2, <3>4
    <3> QED
      BY <3>5 DEF z, x
  <2> HIDE DEF Then
  <2> QED
    BY <1>4, <2>1 DEF Runs
<1>6. Is(h)
  <2> HIDE DEF Is
  <2> QED
    BY <1>5
<1>7. r0.ok => r = h[1..n]
  <2>1. DOMAIN [i \in 1..n |-> i] = 1..n
    OBVIOUS
  <2> QED
    BY <2>1, Zenon DEF ManyBytes, P!List, P!Repeat, P!FoldLeft, P!MapThenFoldSet, P!Max, GreatestOf, n, base, r0
<1> HIDE DEF h
<1>8. f[0] = base /\ f[n] = h[1..n]
  <2>1. 0 \in 0..n /\ n \in 0..n
    BY <1>1
  <2>2. h[{}] = base /\ 1..0 = {}
    BY <1>1, <1>6, Ups
  <2> QED
    BY <2>1, <2>2
<1>9. ASSUME NEW k \in 1..n PROVE f[k] = Then(f[k - 1])
  <2> DEFINE Ks == 1..k
  <2>1. Ks \in SUBSET (1..n) /\ Ks # {} /\ GreatestOf(Ks) = k /\ Ks \ {k} = 1..(k - 1)
    BY <1>1, Ups
  <2>2. k \in 0..n /\ k - 1 \in 0..n
    BY <1>1
  <2>3. f[k] = h[Ks] /\ f[k - 1] = h[1..(k - 1)]
    BY <2>2
  <2> HIDE DEF Ks, f, Then
  <2>4. h[Ks] = Then(h[Ks \ {GreatestOf(Ks)}])
    BY <1>6, <2>1, Zenon
  <2> QED
    BY <2>1, <2>3, <2>4
<1> HIDE DEF f
<1>10. f[n] \in Result(Seq(V))
  <2>1. f[0] \in Result(Seq(V))
    BY <1>1, <1>8
  <2>2. ASSUME NEW k \in 1..n, f[k - 1] \in Result(Seq(V))
        PROVE  f[k] = IF f[k - 1].ok THEN P!Add(f[k - 1], rd[<<k, f[k - 1].at>>]) ELSE f[k - 1]
    <3> DEFINE z == f[k - 1]
    <3>1. z.at \in Nat
      BY <2>2 DEF Result
    <3>2. rd[<<k, z.at>>] = P!unpack_bytes(z.at, size)
      BY <1>2, <3>1
    <3>3. f[k] = Then(z)
      BY <1>9
    <3> HIDE DEF z
    <3>4. f[k] = IF z.ok THEN P!Add(z, rd[<<k, z.at>>]) ELSE z
      BY <3>2, <3>3
    <3> QED
      BY <3>4 DEF z
  <2> HIDE DEF Then
  <2> QED
    BY <1>1, <1>3, <2>1, <2>2, RunTyped, Zenon
<1> HIDE DEF r
<1>11. f[0] = [r0 EXCEPT !.v = <<>>] /\ (r0.ok => f[r0.v] = r)
  BY <1>7, <1>8 DEF n, base
<1> DEFINE e == [k \in Nat |-> P!unpack_bytes(f[k - 1].at, size)]
<1>12. PathOf(f, e, r0, r) /\ \A k \in Nat : e[k] = P!unpack_bytes(f[k - 1].at, size)
  <2>1. \A k \in Nat : e[k] = P!unpack_bytes(f[k - 1].at, size)
    OBVIOUS
  <2>2. 1..n \subseteq Nat /\ r0.v = n
    BY DEF n
  <2> HIDE DEF e, n
  <2>3. \A k \in 1..n : f[k] = IF f[k - 1].ok THEN P!Add(f[k - 1], e[k]) ELSE f[k - 1]
    BY <1>9, <2>1, <2>2
  <2>4. PathOf(f, e, r0, r)
    BY <1>0, <1>11, <2>2, <2>3 DEF PathOf
  <2> QED
    BY <2>1, <2>4
<1> HIDE DEF e
<1>13. IsResult(r)
  <2>1. CASE r0.ok
    BY <1>10, <1>11, <2>1 DEF IsResult, Result, n
  <2>2. CASE ~r0.ok
    BY <1>0, <2>2 DEF IsResult, Result
  <2> QED
    BY <2>1, <2>2
<1> QED
  BY <1>0, <1>12, <1>13, Zenon DEF r, r0

LEMMA HeaderRun ==
  ASSUME wire \in Codes, NEW at \in Nat
  PROVE  LET r0 == P!unpack_number(at, U32_LEN)
             r == ManyWithHeader(at)
         IN
         /\ r0 \in Result(Nat) /\ IsResult(r)
         /\ \E f, e : PathOf(f, e, r0, r) /\ \A k \in Nat : e[k] = P!unpack_bytes_with_header(f[k - 1].at)
<1> DEFINE V == Codes \union Nat
           r0 == P!unpack_number(at, U32_LEN)
           r == ManyWithHeader(at)
           n == r0.v
           base == [r0 EXCEPT !.v = <<>>]
           rd == [p \in (1..n) \X Nat |-> P!unpack_bytes_with_header(p[2])]
           Then(x) == IF x.ok THEN P!Add(x, P!unpack_bytes_with_header(x.at)) ELSE x
           Is(h) == h = [t \in SUBSET (1..n) |->
                           IF t = {} THEN base ELSE Then(h[t \ {GreatestOf(t)}])]
           h == CHOOSE h : Is(h)
           f == [k \in 0..n |-> h[1..k]]
<1>0. r0 \in Result(Nat) /\ (~r0.ok => r = r0)
  <2>1. r0 \in Result(Nat)
    BY WidthsAre, NumberResult
  <2>2. ~r0.ok => r = r0
    BY DEF ManyWithHeader, P!List, P!Repeat
  <2> QED
    BY <2>1, <2>2
<1>1. n \in Nat /\ base \in Result(Seq(V))
  <2>1. r0.v \in Nat /\ <<>> \in Seq(V)
    BY <1>0, EmptySeq DEF Result
  <2> HIDE DEF V, r0
  <2> QED
    BY <1>0, <2>1 DEF Result
<1>2. ASSUME NEW i \in 1..n, NEW a \in Nat
      PROVE  rd[<<i, a>>] = P!unpack_bytes_with_header(a) /\ P!unpack_bytes_with_header(a) \in Result(V)
  BY HeaderResult, WidthsAre DEF P!unpack_bytes_with_header
<1>3. rd \in [(1..n) \X Nat -> Result(V)]
  BY <1>2
<1> HIDE DEF n, base, V, rd, r0
<1>4. PICK g : Runs(g, rd, V, base, n)
  BY <1>1, <1>3, RunExists
<1>5. Is(g)
  <2>1. ASSUME NEW t \in SUBSET (1..n), t # {}
        PROVE  g[t] = Then(g[t \ {GreatestOf(t)}])
    <3> DEFINE x == GreatestOf(t)
               z == g[t \ {x}]
    <3>1. x \in 1..n /\ z \in Result(Seq(V))
      BY <1>1, <1>4, <2>1, GreatestIn DEF Runs
    <3>2. g[t] = IF z.ok THEN P!Add(z, rd[<<x, z.at>>]) ELSE z
      BY <1>4, <2>1 DEF Runs
    <3> HIDE DEF x, z
    <3>3. z.at \in Nat
      BY <3>1 DEF Result
    <3>4. rd[<<x, z.at>>] = P!unpack_bytes_with_header(z.at)
      BY <1>2, <3>1, <3>3
    <3>5. g[t] = Then(z)
      BY <3>2, <3>4
    <3> QED
      BY <3>5 DEF z, x
  <2> HIDE DEF Then
  <2> QED
    BY <1>4, <2>1 DEF Runs
<1>6. Is(h)
  <2> HIDE DEF Is
  <2> QED
    BY <1>5
<1>7. r0.ok => r = h[1..n]
  <2>1. DOMAIN [i \in 1..n |-> i] = 1..n
    OBVIOUS
  <2> QED
    BY <2>1, Zenon DEF ManyWithHeader, P!List, P!Repeat, P!FoldLeft, P!MapThenFoldSet, P!Max, GreatestOf, n, base, r0
<1> HIDE DEF h
<1>8. f[0] = base /\ f[n] = h[1..n]
  <2>1. 0 \in 0..n /\ n \in 0..n
    BY <1>1
  <2>2. h[{}] = base /\ 1..0 = {}
    BY <1>1, <1>6, Ups
  <2> QED
    BY <2>1, <2>2
<1>9. ASSUME NEW k \in 1..n PROVE f[k] = Then(f[k - 1])
  <2> DEFINE Ks == 1..k
  <2>1. Ks \in SUBSET (1..n) /\ Ks # {} /\ GreatestOf(Ks) = k /\ Ks \ {k} = 1..(k - 1)
    BY <1>1, Ups
  <2>2. k \in 0..n /\ k - 1 \in 0..n
    BY <1>1
  <2>3. f[k] = h[Ks] /\ f[k - 1] = h[1..(k - 1)]
    BY <2>2
  <2> HIDE DEF Ks, f, Then
  <2>4. h[Ks] = Then(h[Ks \ {GreatestOf(Ks)}])
    BY <1>6, <2>1, Zenon
  <2> QED
    BY <2>1, <2>3, <2>4
<1> HIDE DEF f
<1>10. f[n] \in Result(Seq(V))
  <2>1. f[0] \in Result(Seq(V))
    BY <1>1, <1>8
  <2>2. ASSUME NEW k \in 1..n, f[k - 1] \in Result(Seq(V))
        PROVE  f[k] = IF f[k - 1].ok THEN P!Add(f[k - 1], rd[<<k, f[k - 1].at>>]) ELSE f[k - 1]
    <3> DEFINE z == f[k - 1]
    <3>1. z.at \in Nat
      BY <2>2 DEF Result
    <3>2. rd[<<k, z.at>>] = P!unpack_bytes_with_header(z.at)
      BY <1>2, <3>1
    <3>3. f[k] = Then(z)
      BY <1>9
    <3> HIDE DEF z
    <3>4. f[k] = IF z.ok THEN P!Add(z, rd[<<k, z.at>>]) ELSE z
      BY <3>2, <3>3
    <3> QED
      BY <3>4 DEF z
  <2> HIDE DEF Then
  <2> QED
    BY <1>1, <1>3, <2>1, <2>2, RunTyped, Zenon
<1> HIDE DEF r
<1>11. f[0] = [r0 EXCEPT !.v = <<>>] /\ (r0.ok => f[r0.v] = r)
  BY <1>7, <1>8 DEF n, base
<1> DEFINE e == [k \in Nat |-> P!unpack_bytes_with_header(f[k - 1].at)]
<1>12. PathOf(f, e, r0, r) /\ \A k \in Nat : e[k] = P!unpack_bytes_with_header(f[k - 1].at)
  <2>1. \A k \in Nat : e[k] = P!unpack_bytes_with_header(f[k - 1].at)
    OBVIOUS
  <2>2. 1..n \subseteq Nat /\ r0.v = n
    BY DEF n
  <2> HIDE DEF e, n
  <2>3. \A k \in 1..n : f[k] = IF f[k - 1].ok THEN P!Add(f[k - 1], e[k]) ELSE f[k - 1]
    BY <1>9, <2>1, <2>2
  <2>4. PathOf(f, e, r0, r)
    BY <1>0, <1>11, <2>2, <2>3 DEF PathOf
  <2> QED
    BY <2>1, <2>4
<1> HIDE DEF e
<1>13. IsResult(r)
  <2>1. CASE r0.ok
    BY <1>10, <1>11, <2>1 DEF IsResult, Result, n
  <2>2. CASE ~r0.ok
    BY <1>0, <2>2 DEF IsResult, Result
  <2> QED
    BY <2>1, <2>2
<1> QED
  BY <1>0, <1>12, <1>13, Zenon DEF r, r0

LEMMA IpRun ==
  ASSUME wire \in Codes, NEW at \in Nat
  PROVE  LET r0 == P!unpack_number(at, U32_LEN)
             r == ManyIps(at)
         IN
         /\ r0 \in Result(Nat) /\ IsResult(r)
         /\ \E f, e : PathOf(f, e, r0, r) /\ \A k \in Nat : e[k] = P!unpack_ip(f[k - 1].at)
<1> DEFINE V == {P!unpack_ip(a).v : a \in Nat}
           r0 == P!unpack_number(at, U32_LEN)
           r == ManyIps(at)
           n == r0.v
           base == [r0 EXCEPT !.v = <<>>]
           rd == [p \in (1..n) \X Nat |-> P!unpack_ip(p[2])]
           Then(x) == IF x.ok THEN P!Add(x, P!unpack_ip(x.at)) ELSE x
           Is(h) == h = [t \in SUBSET (1..n) |->
                           IF t = {} THEN base ELSE Then(h[t \ {GreatestOf(t)}])]
           h == CHOOSE h : Is(h)
           f == [k \in 0..n |-> h[1..k]]
<1>0. r0 \in Result(Nat) /\ (~r0.ok => r = r0)
  <2>1. r0 \in Result(Nat)
    BY WidthsAre, NumberResult
  <2>2. ~r0.ok => r = r0
    BY DEF ManyIps, P!List, P!Repeat
  <2> QED
    BY <2>1, <2>2
<1>1. n \in Nat /\ base \in Result(Seq(V))
  <2>1. r0.v \in Nat /\ <<>> \in Seq(V)
    BY <1>0, EmptySeq DEF Result
  <2> HIDE DEF V, r0
  <2> QED
    BY <1>0, <2>1 DEF Result
<1>2. ASSUME NEW i \in 1..n, NEW a \in Nat
      PROVE  rd[<<i, a>>] = P!unpack_ip(a) /\ P!unpack_ip(a) \in Result(V)
  BY IpResult
<1>3. rd \in [(1..n) \X Nat -> Result(V)]
  BY <1>2
<1> HIDE DEF n, base, V, rd, r0
<1>4. PICK g : Runs(g, rd, V, base, n)
  BY <1>1, <1>3, RunExists
<1>5. Is(g)
  <2>1. ASSUME NEW t \in SUBSET (1..n), t # {}
        PROVE  g[t] = Then(g[t \ {GreatestOf(t)}])
    <3> DEFINE x == GreatestOf(t)
               z == g[t \ {x}]
    <3>1. x \in 1..n /\ z \in Result(Seq(V))
      BY <1>1, <1>4, <2>1, GreatestIn DEF Runs
    <3>2. g[t] = IF z.ok THEN P!Add(z, rd[<<x, z.at>>]) ELSE z
      BY <1>4, <2>1 DEF Runs
    <3> HIDE DEF x, z
    <3>3. z.at \in Nat
      BY <3>1 DEF Result
    <3>4. rd[<<x, z.at>>] = P!unpack_ip(z.at)
      BY <1>2, <3>1, <3>3
    <3>5. g[t] = Then(z)
      BY <3>2, <3>4
    <3> QED
      BY <3>5 DEF z, x
  <2> HIDE DEF Then
  <2> QED
    BY <1>4, <2>1 DEF Runs
<1>6. Is(h)
  <2> HIDE DEF Is
  <2> QED
    BY <1>5
<1>7. r0.ok => r = h[1..n]
  <2>1. DOMAIN [i \in 1..n |-> i] = 1..n
    OBVIOUS
  <2> QED
    BY <2>1, Zenon DEF ManyIps, P!List, P!Repeat, P!FoldLeft, P!MapThenFoldSet, P!Max, GreatestOf, n, base, r0
<1> HIDE DEF h
<1>8. f[0] = base /\ f[n] = h[1..n]
  <2>1. 0 \in 0..n /\ n \in 0..n
    BY <1>1
  <2>2. h[{}] = base /\ 1..0 = {}
    BY <1>1, <1>6, Ups
  <2> QED
    BY <2>1, <2>2
<1>9. ASSUME NEW k \in 1..n PROVE f[k] = Then(f[k - 1])
  <2> DEFINE Ks == 1..k
  <2>1. Ks \in SUBSET (1..n) /\ Ks # {} /\ GreatestOf(Ks) = k /\ Ks \ {k} = 1..(k - 1)
    BY <1>1, Ups
  <2>2. k \in 0..n /\ k - 1 \in 0..n
    BY <1>1
  <2>3. f[k] = h[Ks] /\ f[k - 1] = h[1..(k - 1)]
    BY <2>2
  <2> HIDE DEF Ks, f, Then
  <2>4. h[Ks] = Then(h[Ks \ {GreatestOf(Ks)}])
    BY <1>6, <2>1, Zenon
  <2> QED
    BY <2>1, <2>3, <2>4
<1> HIDE DEF f
<1>10. f[n] \in Result(Seq(V))
  <2>1. f[0] \in Result(Seq(V))
    BY <1>1, <1>8
  <2>2. ASSUME NEW k \in 1..n, f[k - 1] \in Result(Seq(V))
        PROVE  f[k] = IF f[k - 1].ok THEN P!Add(f[k - 1], rd[<<k, f[k - 1].at>>]) ELSE f[k - 1]
    <3> DEFINE z == f[k - 1]
    <3>1. z.at \in Nat
      BY <2>2 DEF Result
    <3>2. rd[<<k, z.at>>] = P!unpack_ip(z.at)
      BY <1>2, <3>1
    <3>3. f[k] = Then(z)
      BY <1>9
    <3> HIDE DEF z
    <3>4. f[k] = IF z.ok THEN P!Add(z, rd[<<k, z.at>>]) ELSE z
      BY <3>2, <3>3
    <3> QED
      BY <3>4 DEF z
  <2> HIDE DEF Then
  <2> QED
    BY <1>1, <1>3, <2>1, <2>2, RunTyped, Zenon
<1> HIDE DEF r
<1>11. f[0] = [r0 EXCEPT !.v = <<>>] /\ (r0.ok => f[r0.v] = r)
  BY <1>7, <1>8 DEF n, base
<1> DEFINE e == [k \in Nat |-> P!unpack_ip(f[k - 1].at)]
<1>12. PathOf(f, e, r0, r) /\ \A k \in Nat : e[k] = P!unpack_ip(f[k - 1].at)
  <2>1. \A k \in Nat : e[k] = P!unpack_ip(f[k - 1].at)
    OBVIOUS
  <2>2. 1..n \subseteq Nat /\ r0.v = n
    BY DEF n
  <2> HIDE DEF e, n
  <2>3. \A k \in 1..n : f[k] = IF f[k - 1].ok THEN P!Add(f[k - 1], e[k]) ELSE f[k - 1]
    BY <1>9, <2>1, <2>2
  <2>4. PathOf(f, e, r0, r)
    BY <1>0, <1>11, <2>2, <2>3 DEF PathOf
  <2> QED
    BY <2>1, <2>4
<1> HIDE DEF e
<1>13. IsResult(r)
  <2>1. CASE r0.ok
    BY <1>10, <1>11, <2>1 DEF IsResult, Result, n
  <2>2. CASE ~r0.ok
    BY <1>0, <2>2 DEF IsResult, Result
  <2> QED
    BY <2>1, <2>2
<1> QED
  BY <1>0, <1>12, <1>13, Zenon DEF r, r0

\* A list read as Repeat does: its length, and then one after the other.
LEMMA ListReads ==
  ASSUME wire \in Codes, NEW at \in Nat, NEW q \in Seq(Codes), Len(q) \in P!Number(U32_LEN),
         NEW V, NEW v \in Seq(V), Len(v) = Len(q),
         Comes(at, ListBytes(q)), NEW r0, r0 = P!unpack_number(at, U32_LEN), NEW r,
         NEW f, NEW e, PathOf(f, e, r0, r), EachReads(f, e, v, q)
  PROVE  Reads(r, at, v, ListBytes(q))
<1> DEFINE n == Len(q)
           d == P!Digits(n, U32_LEN)
           p == Flat(q)
           b == at + Len(d)
<1>1. U32_LEN \in Nat /\ n \in Nat /\ Len(wire) \in Nat
  BY WidthsAre, LenProperties DEF Codes
<1>2. d \in Codes /\ p \in Codes /\ Len(d) \in Nat
  <2>1. d \in Codes
    BY <1>1, DigitsAre
  <2>2. p \in Codes
    BY FlatSeq DEF Codes
  <2> QED
    BY <2>1, <2>2, LenProperties DEF Codes
<1> HIDE DEF d, p
<1>3. Comes(at, d) /\ Comes(b, p) /\ b \in Nat
  <2>1. Comes(at, Cat(d, p))
    BY DEF ListBytes, d, p
  <2> QED
    BY <1>2, <2>1, ComesIn
<1>4. Reads(r0, at, n, d)
  <2>1. Comes(at, P!Digits(n, U32_LEN))
    BY <1>3 DEF d
  <2>2. Reads(P!unpack_number(at, U32_LEN), at, n, P!Digits(n, U32_LEN))
    BY <1>1, <2>1, ReadNumber
  <2> QED
    BY <2>2 DEF d
<1>5. ASSUME r0.ok PROVE Reads(r, b, v, p)
  <2>1. r0.v = n /\ r0.at = b /\ b \in 0..Len(wire)
    BY <1>1, <1>3, <1>4, <1>5 DEF Reads
  <2>2. f[0] = [ok |-> TRUE, v |-> <<>>, at |-> b]
    <3>1. r0 = [ok |-> r0.ok, v |-> r0.v, at |-> r0.at] /\ r0.ok = TRUE
      BY <1>4, <1>5 DEF Reads
    <3>2. f[0] = [r0 EXCEPT !.v = <<>>]
      BY DEF PathOf
    <3> HIDE DEF b
    <3> QED
      BY <2>1, <3>1, <3>2
  <2>3. \A k \in 1..n : \A a \in Nat :
           f[k - 1].at = a /\ Comes(a, q[k]) => Reads(e[k], a, v[k], q[k])
    BY DEF EachReads
  <2>4. f[n] = r /\ \A k \in 1..n : f[k] = IF f[k - 1].ok THEN P!Add(f[k - 1], e[k]) ELSE f[k - 1]
    BY <1>5, <2>1 DEF PathOf
  <2>5. Comes(b, Flat(q))
    BY <1>3 DEF p
  <2> HIDE DEF b
  <2>6. Reads(f[Len(q)], b, v, Flat(q))
    BY <2>1, <2>2, <2>3, <2>4, <2>5, ReadsAll
  <2> QED
    BY <2>4, <2>6 DEF p
<1>6. Reads(r, at, v, Cat(d, p))
  <2>1. ~r0.ok => r = r0
    BY DEF PathOf
  <2> HIDE DEF n
  <2> QED
    BY <1>2, <1>4, <1>5, <2>1, ReadsThen
<1> QED
  BY <1>6 DEF ListBytes, d, p

LEMMA BytesList ==
  ASSUME wire \in Codes, NEW at \in Nat, NEW size \in Nat, NEW q \in Seq(Codes), Len(q) \in P!Number(U32_LEN),
         NEW V, NEW v \in Seq(V), Len(v) = Len(q), Comes(at, ListBytes(q)),
         \A k \in 1..Len(q) : \A a \in Nat :
            Comes(a, q[k]) => Reads(P!unpack_bytes(a, size), a, v[k], q[k])
  PROVE  Reads(ManyBytes(at, size), at, v, ListBytes(q))
<1> DEFINE r0 == P!unpack_number(at, U32_LEN)
           r == ManyBytes(at, size)
<1>1. PICK f, e : PathOf(f, e, r0, r) /\ \A k \in Nat : e[k] = P!unpack_bytes(f[k - 1].at, size)
  BY BytesRun, Zenon
<1>2. 1..Len(q) \subseteq Nat
  BY LenProperties
<1>3. ASSUME NEW k \in 1..Len(q), NEW a \in Nat, f[k - 1].at = a, Comes(a, q[k])
      PROVE  Reads(e[k], a, v[k], q[k])
  <2>1. e[k] = P!unpack_bytes(a, size)
    BY <1>1, <1>2, <1>3
  <2> QED
    BY <1>3, <2>1
<1>4. EachReads(f, e, v, q)
  BY <1>3 DEF EachReads
<1>5. r0 = P!unpack_number(at, U32_LEN)
  OBVIOUS
<1> HIDE DEF r0, r
<1>6. Reads(r, at, v, ListBytes(q))
  BY <1>1, <1>4, <1>5, ListReads
<1> QED
  BY <1>6 DEF r

LEMMA HeaderList ==
  ASSUME wire \in Codes, NEW at \in Nat, NEW q \in Seq(Codes), Len(q) \in P!Number(U32_LEN),
         NEW V, NEW v \in Seq(V), Len(v) = Len(q), Comes(at, ListBytes(q)),
         \A k \in 1..Len(q) : \A a \in Nat :
            Comes(a, q[k]) => Reads(P!unpack_bytes_with_header(a), a, v[k], q[k])
  PROVE  Reads(ManyWithHeader(at), at, v, ListBytes(q))
<1> DEFINE r0 == P!unpack_number(at, U32_LEN)
           r == ManyWithHeader(at)
<1>1. PICK f, e : PathOf(f, e, r0, r) /\ \A k \in Nat : e[k] = P!unpack_bytes_with_header(f[k - 1].at)
  BY HeaderRun, Zenon
<1>2. 1..Len(q) \subseteq Nat
  BY LenProperties
<1>3. ASSUME NEW k \in 1..Len(q), NEW a \in Nat, f[k - 1].at = a, Comes(a, q[k])
      PROVE  Reads(e[k], a, v[k], q[k])
  <2>1. e[k] = P!unpack_bytes_with_header(a)
    BY <1>1, <1>2, <1>3
  <2> QED
    BY <1>3, <2>1
<1>4. EachReads(f, e, v, q)
  BY <1>3 DEF EachReads
<1>5. r0 = P!unpack_number(at, U32_LEN)
  OBVIOUS
<1> HIDE DEF r0, r
<1>6. Reads(r, at, v, ListBytes(q))
  BY <1>1, <1>4, <1>5, ListReads
<1> QED
  BY <1>6 DEF r

LEMMA IpList ==
  ASSUME wire \in Codes, NEW at \in Nat, NEW q \in Seq(Codes), Len(q) \in P!Number(U32_LEN),
         NEW V, NEW v \in Seq(V), Len(v) = Len(q), Comes(at, ListBytes(q)),
         \A k \in 1..Len(q) : \A a \in Nat :
            Comes(a, q[k]) => Reads(P!unpack_ip(a), a, v[k], q[k])
  PROVE  Reads(ManyIps(at), at, v, ListBytes(q))
<1> DEFINE r0 == P!unpack_number(at, U32_LEN)
           r == ManyIps(at)
<1>1. PICK f, e : PathOf(f, e, r0, r) /\ \A k \in Nat : e[k] = P!unpack_ip(f[k - 1].at)
  BY IpRun, Zenon
<1>2. 1..Len(q) \subseteq Nat
  BY LenProperties
<1>3. ASSUME NEW k \in 1..Len(q), NEW a \in Nat, f[k - 1].at = a, Comes(a, q[k])
      PROVE  Reads(e[k], a, v[k], q[k])
  <2>1. e[k] = P!unpack_ip(a)
    BY <1>1, <1>2, <1>3
  <2> QED
    BY <1>3, <2>1
<1>4. EachReads(f, e, v, q)
  BY <1>3 DEF EachReads
<1>5. r0 = P!unpack_number(at, U32_LEN)
  OBVIOUS
<1> HIDE DEF r0, r
<1>6. Reads(r, at, v, ListBytes(q))
  BY <1>1, <1>4, <1>5, ListReads
<1> QED
  BY <1>6 DEF r

LEMMA ReadWithHeader ==
  ASSUME wire \in Codes, NEW at \in Nat, NEW w \in Nat, NEW v \in Codes, Len(v) \in P!Number(w),
         Comes(at, Cat(P!Digits(Len(v), w), v))
  PROVE  Reads(P!AsManyBytes(P!unpack_number(at, w)), at, v, Cat(P!Digits(Len(v), w), v))
<1> DEFINE d == P!Digits(Len(v), w)
           r0 == P!unpack_number(at, w)
           r == P!AsManyBytes(r0)
<1>1. d \in Codes
  BY DigitsAre, LenProperties DEF Codes
<1>2. r = IF r0.ok THEN P!unpack_bytes(r0.at, r0.v) ELSE r0
  BY DEF P!AsManyBytes
<1> HIDE DEF d, r
<1>3. Comes(at, d) /\ Comes(at + Len(d), v) /\ at + Len(d) \in Nat
  <2>1. Comes(at, Cat(d, v))
    BY DEF d
  <2> QED
    BY <1>1, <2>1, ComesIn
<1>4. Reads(r0, at, Len(v), d)
  BY <1>3, ReadNumber DEF d
<1> HIDE DEF r0
<1>5. r0.ok => Reads(r, at + Len(d), v, v)
  <2>1. r0.ok => r = P!unpack_bytes(at + Len(d), Len(v))
    BY <1>2, <1>4 DEF Reads
  <2> QED
    BY <1>3, <2>1, ReadBytes
<1>6. Reads(r, at, v, Cat(d, v))
  BY <1>1, <1>2, <1>4, <1>5, ReadsThen
<1> QED
  BY <1>6 DEF d, r, r0

\* A byte has the values of a BOOLEAN.
LEMMA ByteIs ==
  /\ P!Number(1) = 0..(Base - 1) /\ 0 \in P!Number(1) /\ 1 \in P!Number(1)
  /\ P!Byte \subseteq Nat /\ P!Byte = P!Number(1)
<1>1. P!Limit[0] = 1 /\ P!Limit[0 + 1] = Base * P!Limit[0]
  BY LimitIs
<1>2. P!Limit[1] = Base
  <2>1. 0 + 1 = 1 /\ Base * 1 = Base
    BY BaseIs
  <2> QED
    BY <1>1, <2>1
<1>3. P!Number(1) = 0..(Base - 1)
  BY <1>2 DEF P!Number
<1> QED
  BY <1>3, BaseIs DEF P!Byte

LEMMA ReadBool ==
  ASSUME wire \in Codes, NEW at \in Nat, NEW v \in BOOLEAN,
         Comes(at, P!Digits(IF v THEN 1 ELSE 0, 1))
  PROVE  Reads(P!unpack_bool(at), at, v, P!Digits(IF v THEN 1 ELSE 0, 1))
<1> DEFINE b == IF v THEN 1 ELSE 0
           d == P!Digits(b, 1)
           r == P!unpack_number(at, 1)
<1>1. b \in P!Number(1) /\ (b = 1 <=> v) /\ b \in {0, 1}
  BY ByteIs
<1> HIDE DEF b
<1>2. Reads(r, at, b, d)
  <2>1. Comes(at, d)
    BY DEF b
  <2> QED
    BY <1>1, <2>1, ReadNumber
<1>3. P!unpack_bool(at) = [r EXCEPT !.ok = @ /\ r.v \in {0, 1}, !.v = (r.v = 1)]
  BY DEF P!unpack_bool, P!AsBool
<1> HIDE DEF r, d
<1> DEFINE s == P!unpack_bool(at)
<1>4. s = [ok |-> s.ok, v |-> s.v, at |-> s.at] /\ s.ok = (r.ok /\ r.v \in {0, 1}) /\ s.v = (r.v = 1)
      /\ s.at = r.at
  BY <1>2, <1>3 DEF Reads
<1> HIDE DEF s
<1>5. r.ok \in BOOLEAN /\ (r.ok <=> at + Len(d) <= Len(wire)) /\ (r.ok => r.v = b /\ r.at = at + Len(d))
  BY <1>2 DEF Reads
<1>6. s.ok \in BOOLEAN /\ (s.ok <=> r.ok) /\ (s.ok => s.v = v /\ s.at = r.at)
  BY <1>1, <1>4, <1>5
<1>7. Reads(s, at, v, d)
  BY <1>4, <1>5, <1>6 DEF Reads
<1> QED
  BY <1>7 DEF s, d, b

\* The bytes of an address tell it.
LEMMA IpBytes ==
  ASSUME NEW a \in Codes,
         \/ Len(a) = V4_LEN /\ a[1] > 0
         \/ Len(a) = IP_ADDR_LEN /\ ~P!IsV4(a)
  PROVE  LET b == P!ip_bytes(a) IN
         /\ b \in Codes /\ Len(b) = IP_ADDR_LEN
         /\ (IF P!IsV4(b) THEN SubSeq(b, P!V6_ONLY + 1, IP_ADDR_LEN) ELSE b) = a
<1> DEFINE n == Len(a)
           l == IP_ADDR_LEN
           m == l - n
           z == [i \in 1..m |-> 0]
           b == Cat(z, a)
<1>1. l \in Nat /\ V4_LEN \in Nat /\ V4_LEN > 0 /\ V4_LEN < l
  BY WidthsAre
<1>2. n \in Nat /\ n > 0 /\ m \in Nat /\ m + n = l
  BY <1>1
<1>3. P!ip_bytes(a) = b
  BY DEF P!ip_bytes, Cat
<1>4. z \in Seq(Nat) /\ Len(z) = m /\ \A i \in 1..m : z[i] = 0
  <2> HIDE DEF m
  <2>1. z \in [1..m -> Nat]
    OBVIOUS
  <2> QED
    BY <1>2, <2>1, IsASeq, LenProperties
<1> HIDE DEF z, m, l
<1>5. b \in Codes /\ Len(b) = m + n /\ \A i \in 1..(m + n) : b[i] = IF i <= m THEN z[i] ELSE a[i - m]
  BY <1>4, CatSeq DEF Codes
<1> HIDE DEF b
<1>6. (IF P!IsV4(b) THEN SubSeq(b, P!V6_ONLY + 1, l) ELSE b) = a
  <2>1. CASE n = V4_LEN /\ a[1] > 0
    <3>1. P!V6_ONLY = m
      BY <1>1, <1>2, <2>1 DEF P!V6_ONLY, m, l
    <3>2. P!IsV4(b)
      <4>1. \A i \in 1..m : b[i] = 0
        BY <1>2, <1>4, <1>5
      <4>2. b[m + 1] = a[1]
        BY <1>2, <1>5
      <4> QED
        BY <2>1, <3>1, <4>1, <4>2 DEF P!IsV4
    <3>3. SubSeq(b, m + 1, l) = a
      <4>1. \A i \in (m + 1)..l : b[i] \in Nat
        BY <1>2, <1>5, ElementOfSeq DEF Codes
      <4>2. m + 1 \in Int /\ l \in Int /\ m + 1 <= l /\ l - (m + 1) + 1 = n
        BY <1>1, <1>2
      <4> DEFINE x == m + 1
                 s == SubSeq(b, x, l)
      <4> HIDE DEF x
      <4>3. s \in Seq(Nat) /\ Len(s) = (IF x <= l THEN l - x + 1 ELSE 0)
            /\ \A i \in 1..(l - x + 1) : s[i] = b[x + i - 1]
        BY <4>1, <4>2, SubSeqProperties DEF x
      <4> HIDE DEF s
      <4>4. Len(s) = n /\ \A i \in 1..n : s[i] = b[x + i - 1]
        BY <4>2, <4>3 DEF x
      <4>5. \A i \in 1..n : b[x + i - 1] = a[i]
        <5>1. ASSUME NEW i \in 1..n PROVE b[x + i - 1] = a[i]
          <6> DEFINE y == x + i - 1
          <6>1. y \in 1..(m + n) /\ ~(y <= m) /\ y - m = i
            BY <1>2 DEF x
          <6> HIDE DEF y, n
          <6>2. b[y] = a[y - m]
            BY <1>5, <6>1
          <6> QED
            BY <6>1, <6>2 DEF y
        <5> QED
          BY <5>1
      <4>6. s = a
        BY <4>3, <4>4, <4>5, SeqEqual DEF Codes
      <4> QED
        BY <4>6 DEF s, x
    <3> QED
      BY <3>1, <3>2, <3>3
  <2>2. CASE n = l /\ ~P!IsV4(a)
    <3>1. m = 0 /\ z = <<>>
      <4>1. m = 0
        BY <1>2, <2>2
      <4> QED
        BY <1>4, <4>1, EmptySeq
    <3>2. b = a
      BY <3>1, CatNone DEF b, Codes
    <3> QED
      BY <2>2, <3>2
  <2> QED
    BY <2>1, <2>2 DEF l
<1> QED
  BY <1>2, <1>3, <1>5, <1>6 DEF l

\* The bytes of an address and its port.
IpCode(ip) == Cat(P!ip_bytes(ip.addr), P!Digits(ip.port, U16_LEN))

LEMMA IpIs ==
  ASSUME NEW ip \in P!Ip
  PROVE  /\ ip = [addr |-> ip.addr, port |-> ip.port] /\ ip.port \in P!Number(U16_LEN)
         /\ ip.addr \in Codes
         /\ \/ Len(ip.addr) = V4_LEN /\ ip.addr[1] > 0
            \/ Len(ip.addr) = IP_ADDR_LEN /\ ~P!IsV4(ip.addr)
         /\ P!ip_bytes(ip.addr) \in Codes /\ P!Digits(ip.port, U16_LEN) \in Codes
         /\ IpCode(ip) \in Codes
<1> DEFINE a == ip.addr
<1>1. /\ ip = [addr |-> ip.addr, port |-> ip.port] /\ ip.port \in P!Number(U16_LEN)
      /\ a \in {x \in P!ByteString(V4_LEN) : x[1] > 0} \union {x \in P!ByteString(IP_ADDR_LEN) : ~P!IsV4(x)}
  BY DEF P!Ip
<1> HIDE DEF a
<1>2. a \in Seq(P!Byte) /\ (\/ Len(a) = V4_LEN /\ a[1] > 0
                            \/ Len(a) = IP_ADDR_LEN /\ ~P!IsV4(a))
  BY <1>1 DEF P!ByteString
<1>3. a \in Codes
  <2> DEFINE B == P!Byte
  <2>1. B \subseteq Nat
    BY ByteIs
  <2>2. a \in Seq(B)
    BY <1>2
  <2> HIDE DEF B
  <2> QED
    BY <2>1, <2>2, SeqMonotonic DEF Codes
<1>4. P!ip_bytes(a) \in Codes
  BY <1>2, <1>3, IpBytes
<1>5. P!Digits(ip.port, U16_LEN) \in Codes
  <2>1. ip.port \in Nat
    BY <1>1, WidthsAre, LimitIs DEF P!Number
  <2> QED
    BY <2>1, WidthsAre, DigitsAre
<1>6. IpCode(ip) \in Codes
  BY <1>4, <1>5, CatCode DEF IpCode, a
<1> QED
  BY <1>1, <1>2, <1>3, <1>4, <1>5, <1>6 DEF a

LEMMA ReadIp ==
  ASSUME wire \in Codes, NEW at \in Nat, NEW ip \in P!Ip, Comes(at, IpCode(ip))
  PROVE  Reads(P!unpack_ip(at), at, ip, IpCode(ip))
<1> DEFINE a == P!ip_bytes(ip.addr)
           d == P!Digits(ip.port, U16_LEN)
           l == IP_ADDR_LEN
           r0 == P!unpack_bytes(at, l)
           s == P!unpack_number(at + l, U16_LEN)
           r == P!unpack_ip(at)
<1>1. /\ a \in Codes /\ Len(a) = l
      /\ (IF P!IsV4(a) THEN SubSeq(a, P!V6_ONLY + 1, l) ELSE a) = ip.addr
  <2>1. /\ ip.addr \in Codes
        /\ \/ Len(ip.addr) = V4_LEN /\ ip.addr[1] > 0
           \/ Len(ip.addr) = IP_ADDR_LEN /\ ~P!IsV4(ip.addr)
    BY IpIs
  <2> QED
    BY <2>1, IpBytes
<1>2. d \in Codes /\ ip = [port |-> ip.port, addr |-> ip.addr] /\ ip.port \in P!Number(U16_LEN)
  BY IpIs
<1>3. r = P!WithPort(r0, s)
  BY DEF P!unpack_ip
<1>4. Comes(at, Cat(a, d))
  BY DEF IpCode
<1> HIDE DEF a, d, r
<1>5. Comes(at, a) /\ Comes(at + l, d) /\ at + l \in Nat
  BY <1>1, <1>2, <1>4, ComesIn
<1>6. Reads(r0, at, a, a)
  BY <1>1, <1>5, ReadBytes
<1>7. Reads(s, at + l, ip.port, d)
  <2>1. Comes(at + l, P!Digits(ip.port, U16_LEN))
    BY <1>5 DEF d
  <2>2. Reads(P!unpack_number(at + l, U16_LEN), at + l, ip.port, P!Digits(ip.port, U16_LEN))
    BY <1>2, <1>5, <2>1, WidthsAre, ReadNumber
  <2> QED
    BY <2>2 DEF d
<1> HIDE DEF r0, s, l
<1>8. ~r0.ok => r = r0
  BY <1>3 DEF P!WithPort
<1>9. ASSUME r0.ok PROVE Reads(r, at + l, ip, d)
  <2>1. r0.v = a
    BY <1>6, <1>9 DEF Reads
  <2>2. r = [s EXCEPT !.v = [port |-> s.v, addr |-> ip.addr]]
    BY <1>1, <1>3, <1>9, <2>1 DEF P!WithPort, l
  <2> DEFINE v == [port |-> s.v, addr |-> ip.addr]
  <2>3. s.ok => v = ip
    BY <1>2, <1>7 DEF Reads
  <2> HIDE DEF v
  <2>4. r = [s EXCEPT !.v = v]
    BY <2>2 DEF v
  <2>5. r = [ok |-> r.ok, v |-> r.v, at |-> r.at] /\ r.ok = s.ok /\ r.v = v /\ r.at = s.at
    BY <1>7, <2>4 DEF Reads
  <2> QED
    BY <1>7, <2>3, <2>5 DEF Reads
<1>10. Reads(r, at, ip, Cat(a, d))
  BY <1>1, <1>2, <1>6, <1>8, <1>9, ReadsThen
<1> QED
  BY <1>10 DEF IpCode, a, d, r

\* As PathOf, from at on where nothing is read yet.
FieldsPath(f, e, at, n, r) ==
  /\ f[0] = [ok |-> TRUE, v |-> <<>>, at |-> at] /\ f[n] = r
  /\ \A k \in 1..n : f[k] = IF f[k - 1].ok THEN P!Add(f[k - 1], e[k]) ELSE f[k - 1]

\* Whatever is read of kinds is a result.
AreResults(kinds) ==
  \A k \in DOMAIN kinds : \A a \in Nat : IsResult(P!Unpack(kinds[k][1], kinds[k][2], a))

LEMMA FieldsRun ==
  ASSUME NEW n \in Nat, NEW kinds, DOMAIN kinds = 1..n, NEW at \in Nat,
         AreResults(kinds)
  PROVE  /\ IsResult(P!Fields(at, kinds))
         /\ \E f, e : /\ FieldsPath(f, e, at, n, P!Fields(at, kinds))
                      /\ \A k \in 1..n : e[k] = P!Unpack(kinds[k][1], kinds[k][2], f[k - 1].at)
<1> DEFINE U(k, a) == P!Unpack(kinds[k][1], kinds[k][2], a)
           V == {U(p[1], p[2]).v : p \in (1..n) \X Nat}
           r == P!Fields(at, kinds)
           base == [ok |-> TRUE, v |-> <<>>, at |-> at]
           rd == [p \in (1..n) \X Nat |-> U(p[1], p[2])]
           Then(x, k) == IF x.ok THEN P!Add(x, P!Unpack(k[1], k[2], x.at)) ELSE x
           Is(h) == h = [t \in SUBSET (1..n) |->
                           IF t = {} THEN base ELSE Then(h[t \ {GreatestOf(t)}], kinds[GreatestOf(t)])]
           h == CHOOSE h : Is(h)
           f == [k \in 0..n |-> h[1..k]]
<1>1. base \in Result(Seq(V))
  <2>1. <<>> \in Seq(V)
    BY EmptySeq
  <2> HIDE DEF V
  <2> QED
    BY <2>1 DEF Result
<1>2. ASSUME NEW i \in 1..n, NEW a \in Nat
      PROVE  rd[<<i, a>>] = P!Unpack(kinds[i][1], kinds[i][2], a) /\ rd[<<i, a>>] \in Result(V)
  <2> DEFINE p == <<i, a>>
             u == U(i, a)
  <2>1. p \in (1..n) \X Nat /\ p[1] = i /\ p[2] = a
    OBVIOUS
  <2>2. rd[p] = u
    BY <2>1
  <2>3. u.v \in V
    BY <2>1
  <2>4. IsResult(u)
    BY DEF AreResults
  <2> HIDE DEF u, V
  <2>5. u \in Result(V)
    BY <2>3, <2>4 DEF IsResult, Result
  <2> QED
    BY <2>2, <2>5 DEF u
<1>3. rd \in [(1..n) \X Nat -> Result(V)]
  <2>1. ASSUME NEW p \in (1..n) \X Nat PROVE rd[p] \in Result(V)
    <3>1. p = <<p[1], p[2]>> /\ p[1] \in 1..n /\ p[2] \in Nat
      OBVIOUS
    <3> HIDE DEF rd, V
    <3> QED
      BY <1>2, <3>1
  <2> HIDE DEF V, U
  <2> QED
    BY <2>1
<1> HIDE DEF base, V, rd, U
<1>4. PICK g : Runs(g, rd, V, base, n)
  BY <1>1, <1>3, RunExists
<1>5. Is(g)
  <2>1. ASSUME NEW t \in SUBSET (1..n), t # {}
        PROVE  g[t] = Then(g[t \ {GreatestOf(t)}], kinds[GreatestOf(t)])
    <3> DEFINE x == GreatestOf(t)
               y == g[t \ {x}]
    <3>1. x \in 1..n /\ y \in Result(Seq(V))
      BY <1>4, <2>1, GreatestIn DEF Runs
    <3>2. g[t] = IF y.ok THEN P!Add(y, rd[<<x, y.at>>]) ELSE y
      BY <1>4, <2>1 DEF Runs
    <3> HIDE DEF x, y
    <3>3. y.at \in Nat
      BY <3>1 DEF Result
    <3>4. rd[<<x, y.at>>] = P!Unpack(kinds[x][1], kinds[x][2], y.at)
      BY <1>2, <3>1, <3>3
    <3>5. g[t] = Then(y, kinds[x])
      BY <3>2, <3>4
    <3> QED
      BY <3>5 DEF y, x
  <2> HIDE DEF Then
  <2> QED
    BY <1>4, <2>1 DEF Runs
<1>6. Is(h)
  <2> HIDE DEF Is
  <2> QED
    BY <1>5
<1>7. r = h[1..n]
  BY Zenon DEF P!Fields, P!FoldLeft, P!MapThenFoldSet, P!Max, GreatestOf, base
<1> HIDE DEF h
<1>8. f[0] = base /\ f[n] = h[1..n]
  <2>1. 0 \in 0..n /\ n \in 0..n
    OBVIOUS
  <2>2. h[{}] = base /\ 1..0 = {}
    BY <1>6, Ups
  <2> QED
    BY <2>1, <2>2
<1>9. ASSUME NEW k \in 1..n PROVE f[k] = Then(f[k - 1], kinds[k])
  <2> DEFINE Ks == 1..k
  <2>1. Ks \in SUBSET (1..n) /\ Ks # {} /\ GreatestOf(Ks) = k /\ Ks \ {k} = 1..(k - 1)
    BY Ups
  <2>2. k \in 0..n /\ k - 1 \in 0..n
    OBVIOUS
  <2>3. f[k] = h[Ks] /\ f[k - 1] = h[1..(k - 1)]
    BY <2>2
  <2> HIDE DEF Ks, f, Then
  <2>4. h[Ks] = Then(h[Ks \ {GreatestOf(Ks)}], kinds[GreatestOf(Ks)])
    BY <1>6, <2>1, Zenon
  <2> QED
    BY <2>1, <2>3, <2>4
<1> HIDE DEF f, r
<1>10. f[n] \in Result(Seq(V))
  <2>1. f[0] \in Result(Seq(V))
    BY <1>1, <1>8
  <2>2. ASSUME NEW k \in 1..n, f[k - 1] \in Result(Seq(V))
        PROVE  f[k] = IF f[k - 1].ok THEN P!Add(f[k - 1], rd[<<k, f[k - 1].at>>]) ELSE f[k - 1]
    <3> DEFINE x == f[k - 1]
    <3>1. x.at \in Nat
      BY <2>2 DEF Result
    <3>2. rd[<<k, x.at>>] = P!Unpack(kinds[k][1], kinds[k][2], x.at)
      BY <1>2, <3>1
    <3>3. f[k] = Then(x, kinds[k])
      BY <1>9
    <3> HIDE DEF x
    <3>4. f[k] = IF x.ok THEN P!Add(x, rd[<<k, x.at>>]) ELSE x
      BY <3>2, <3>3
    <3> QED
      BY <3>4 DEF x
  <2> HIDE DEF Then
  <2> QED
    BY <1>3, <2>1, <2>2, RunTyped, Zenon
<1> DEFINE e == [k \in 1..n |-> P!Unpack(kinds[k][1], kinds[k][2], f[k - 1].at)]
<1>11. \A k \in 1..n : e[k] = P!Unpack(kinds[k][1], kinds[k][2], f[k - 1].at)
  OBVIOUS
<1> HIDE DEF e
<1>12. FieldsPath(f, e, at, n, r)
  <2>1. f[0] = [ok |-> TRUE, v |-> <<>>, at |-> at] /\ f[n] = r
    BY <1>7, <1>8 DEF base
  <2>2. \A k \in 1..n : f[k] = IF f[k - 1].ok THEN P!Add(f[k - 1], e[k]) ELSE f[k - 1]
    BY <1>9, <1>11
  <2> QED
    BY <2>1, <2>2 DEF FieldsPath
<1>13. IsResult(r)
  BY <1>7, <1>8, <1>10 DEF IsResult, Result
<1> QED
  BY <1>11, <1>12, <1>13, Zenon DEF r

\* Fields are read one after the other.
LEMMA FieldsReads ==
  ASSUME wire \in Codes, NEW at \in 0..Len(wire), NEW q \in Seq(Codes), Comes(at, Flat(q)),
         NEW kinds, DOMAIN kinds = 1..Len(q), NEW V, NEW v \in Seq(V), Len(v) = Len(q),
         AreResults(kinds),
         \A k \in 1..Len(q) : \A a \in Nat :
            Comes(a, q[k]) => Reads(P!Unpack(kinds[k][1], kinds[k][2], a), a, v[k], q[k])
  PROVE  Reads(P!Fields(at, kinds), at, v, Flat(q))
<1> DEFINE n == Len(q)
           r == P!Fields(at, kinds)
<1>1. n \in Nat /\ at \in Nat
  BY LenProperties DEF Codes
<1>2. PICK f, e : /\ FieldsPath(f, e, at, n, r)
                  /\ \A k \in 1..n : e[k] = P!Unpack(kinds[k][1], kinds[k][2], f[k - 1].at)
  <2> HIDE DEF n
  <2>1. DOMAIN kinds = 1..n
    BY DEF n
  <2> QED
    BY <1>1, <2>1, FieldsRun
<1> HIDE DEF r
<1>3. ASSUME NEW k \in 1..Len(q), NEW a \in Nat, f[k - 1].at = a, Comes(a, q[k])
      PROVE  Reads(e[k], a, v[k], q[k])
  <2>1. e[k] = P!Unpack(kinds[k][1], kinds[k][2], a)
    BY <1>2, <1>3
  <2> QED
    BY <1>3, <2>1
<1>4. /\ f[0] = [ok |-> TRUE, v |-> <<>>, at |-> at] /\ f[Len(q)] = r
      /\ \A k \in 1..Len(q) : f[k] = IF f[k - 1].ok THEN P!Add(f[k - 1], e[k]) ELSE f[k - 1]
  BY <1>2 DEF FieldsPath
<1>5. \A k \in 1..Len(q) : \A a \in Nat :
         f[k - 1].at = a /\ Comes(a, q[k]) => Reads(e[k], a, v[k], q[k])
  BY <1>3
<1>6. Reads(f[Len(q)], at, v, Flat(q))
  BY <1>4, <1>5, ReadsAll
<1> QED
  BY <1>4, <1>6 DEF r

LEMMA UnpackIs ==
  ASSUME NEW n, NEW at
  PROVE  /\ P!Unpack("byte", n, at) = P!unpack_number(at, 1)
         /\ P!Unpack("u16", n, at) = P!unpack_number(at, U16_LEN)
         /\ P!Unpack("u32", n, at) = P!unpack_number(at, U32_LEN)
         /\ P!Unpack("u64", n, at) = P!unpack_number(at, U64_LEN)
         /\ P!Unpack("bool", n, at) = P!unpack_bool(at)
         /\ P!Unpack("bytes", n, at) = P!unpack_bytes(at, n)
         /\ P!Unpack("bytes_with_header", n, at) = P!AsManyBytes(P!unpack_number(at, U32_LEN))
         /\ P!Unpack("2d_bytes", n, at) = ManyBytes(at, n)
         /\ P!Unpack("2d_bytes_with_header", n, at) = ManyWithHeader(at)
         /\ P!Unpack("str", n, at) = P!AsManyBytes(P!unpack_number(at, U16_LEN))
         /\ P!Unpack("ips", n, at) = ManyIps(at)
<1>1. P!Unpack("byte", n, at) = P!unpack_number(at, 1)
  BY DEF P!Unpack
<1>2. P!Unpack("u16", n, at) = P!unpack_number(at, U16_LEN)
  BY DEF P!Unpack
<1>3. P!Unpack("u32", n, at) = P!unpack_number(at, U32_LEN)
  BY DEF P!Unpack
<1>4. P!Unpack("u64", n, at) = P!unpack_number(at, U64_LEN)
  BY DEF P!Unpack
<1>5. P!Unpack("bool", n, at) = P!unpack_bool(at)
  BY DEF P!Unpack
<1>6. P!Unpack("bytes", n, at) = P!unpack_bytes(at, n)
  BY DEF P!Unpack
<1>7. P!Unpack("bytes_with_header", n, at) = P!AsManyBytes(P!unpack_number(at, U32_LEN))
  BY DEF P!Unpack, P!unpack_bytes_with_header
<1>8. P!Unpack("2d_bytes", n, at) = ManyBytes(at, n)
  BY DEF P!Unpack, ManyBytes
<1>9. P!Unpack("2d_bytes_with_header", n, at) = ManyWithHeader(at)
  BY DEF P!Unpack, ManyWithHeader
<1>10. P!Unpack("str", n, at) = P!AsManyBytes(P!unpack_number(at, U16_LEN))
  BY DEF P!Unpack, P!unpack_str
<1>11. P!Unpack("ips", n, at) = ManyIps(at)
  BY DEF P!Unpack, ManyIps
<1> QED
  BY <1>1, <1>2, <1>3, <1>4, <1>5, <1>6, <1>7, <1>8, <1>9, <1>10, <1>11

FieldKinds == {"u16", "u32", "u64", "bytes", "2d_bytes", "2d_bytes_with_header"}

LEMMA FieldResult ==
  ASSUME wire \in Codes, NEW type \in FieldKinds, NEW n \in Nat, NEW at \in Nat
  PROVE  IsResult(P!Unpack(type, n, at))
<1>1. ASSUME NEW w \in {U16_LEN, U32_LEN, U64_LEN} PROVE IsResult(P!unpack_number(at, w))
  BY WidthsAre, NumberResult DEF IsResult, Result
<1>2. CASE type \in {"u16", "u32", "u64"}
  BY <1>1, <1>2, UnpackIs
<1>3. CASE type = "bytes"
  <2>1. P!Unpack(type, n, at) = P!unpack_bytes(at, n)
    BY <1>3, UnpackIs
  <2> QED
    BY <2>1, BytesResult DEF IsResult, Result
<1>4. CASE type = "2d_bytes"
  <2>1. P!Unpack(type, n, at) = ManyBytes(at, n)
    BY <1>4, UnpackIs
  <2> QED
    BY <2>1, BytesRun
<1>5. CASE type = "2d_bytes_with_header"
  <2>1. P!Unpack(type, n, at) = ManyWithHeader(at)
    BY <1>5, UnpackIs
  <2> QED
    BY <2>1, HeaderRun
<1> QED
  BY <1>2, <1>3, <1>4, <1>5 DEF FieldKinds

\* The bytes of each string with its length before it, and those of each address.
WithHeaders(v) == [i \in 1..Len(v) |-> Cat(P!Digits(Len(v[i]), U32_LEN), v[i])]
IpCodes(v) == [i \in 1..Len(v) |-> IpCode(v[i])]

LEMMA NumberIs ==
  ASSUME NEW w \in Nat
  PROVE  P!Number(w) \subseteq Nat /\ \A v \in P!Number(w) : P!Digits(v, w) \in Codes
<1>1. P!Number(w) \subseteq Nat
  BY LimitIs DEF P!Number
<1> QED
  BY <1>1, DigitsAre

LEMMA BytesAre ==
  ASSUME NEW w
  PROVE  /\ Seq(P!Byte) \subseteq Codes
         /\ \A n : \A v \in P!ByteString(n) : v \in Codes /\ Len(v) = n
         /\ \A v \in P!Counted(P!Byte, w) : v \in Codes /\ Len(v) \in P!Number(w)
<1>1. Seq(P!Byte) \subseteq Codes
  <2> DEFINE B == P!Byte
  <2>1. B \subseteq Nat
    BY ByteIs
  <2> HIDE DEF B
  <2>2. ASSUME NEW v \in Seq(B) PROVE v \in Codes
    BY <2>1, SeqMonotonic DEF Codes
  <2> QED
    BY <2>2 DEF B
<1> QED
  BY <1>1 DEF P!ByteString, P!Counted

\* A list of strings of one length.
LEMMA StringsAre ==
  ASSUME NEW n, NEW v \in P!Counted(P!ByteString(n), U32_LEN)
  PROVE  /\ v \in Seq(Codes) /\ Len(v) \in P!Number(U32_LEN)
         /\ \A k \in 1..Len(v) : Len(v[k]) = n /\ v[k] \in Codes
<1> DEFINE B == P!ByteString(n)
<1>1. v \in Seq(B) /\ Len(v) \in P!Number(U32_LEN)
  BY DEF P!Counted
<1>2. \A x \in B : x \in Codes /\ Len(x) = n
  BY BytesAre
<1> HIDE DEF B
<1>3. v \in Seq(Codes)
  BY <1>1, <1>2, SeqMonotonic
<1>4. \A k \in 1..Len(v) : v[k] \in B
  BY <1>1, ElementOfSeq
<1> QED
  BY <1>1, <1>2, <1>3, <1>4

\* A list of strings of any length.
LEMMA HeadersAre ==
  ASSUME NEW v \in P!Counted(P!WithLen, U32_LEN)
  PROVE  /\ v \in Seq(Codes) /\ Len(v) \in P!Number(U32_LEN)
         /\ \A k \in 1..Len(v) : v[k] \in Codes /\ Len(v[k]) \in P!Number(U32_LEN)
         /\ WithHeaders(v) \in Seq(Codes) /\ Len(WithHeaders(v)) = Len(v)
<1> DEFINE B == P!WithLen
           n == Len(v)
           q == WithHeaders(v)
<1>1. v \in Seq(B) /\ n \in P!Number(U32_LEN) /\ n \in Nat
  BY LenProperties DEF P!Counted
<1>2. \A x \in B : x \in Codes /\ Len(x) \in P!Number(U32_LEN)
  BY BytesAre DEF P!WithLen
<1> HIDE DEF B
<1>3. v \in Seq(Codes)
  BY <1>1, <1>2, SeqMonotonic
<1>4. \A k \in 1..n : v[k] \in B
  BY <1>1, ElementOfSeq
<1> HIDE DEF n
<1>5. ASSUME NEW k \in 1..n PROVE Cat(P!Digits(Len(v[k]), U32_LEN), v[k]) \in Codes
  BY <1>2, <1>4, NumberIs, WidthsAre, CatCode
<1>6. q \in [1..n -> Codes]
  BY <1>5 DEF WithHeaders, n
<1> HIDE DEF q
<1>7. q \in Seq(Codes) /\ Len(q) = n
  BY <1>1, <1>6
<1> QED
  BY <1>1, <1>2, <1>3, <1>4, <1>7 DEF n, q

LEMMA IpsAre ==
  ASSUME NEW v \in P!Counted(P!Ip, U32_LEN)
  PROVE  /\ v \in Seq(P!Ip) /\ Len(v) \in P!Number(U32_LEN) /\ \A k \in 1..Len(v) : v[k] \in P!Ip
         /\ IpCodes(v) \in Seq(Codes) /\ Len(IpCodes(v)) = Len(v)
<1> DEFINE B == P!Ip
           n == Len(v)
           q == IpCodes(v)
<1>1. v \in Seq(B) /\ n \in P!Number(U32_LEN) /\ n \in Nat
  BY LenProperties DEF P!Counted
<1>2. \A x \in B : IpCode(x) \in Codes
  BY IpIs
<1> HIDE DEF B
<1>3. \A k \in 1..n : v[k] \in B
  BY <1>1, ElementOfSeq
<1>4. q \in [1..n -> Codes]
  BY <1>2, <1>3 DEF IpCodes
<1> HIDE DEF q, n
<1>5. q \in Seq(Codes) /\ Len(q) = n
  BY <1>1, <1>4
<1> QED
  BY <1>1, <1>3, <1>5 DEF n, q, B

\* The bytes of a value of a kind.
KindCode(type, v) ==
  CASE type = "byte" -> P!Digits(v, 1)
    [] type = "u16" -> P!Digits(v, U16_LEN)
    [] type = "u32" -> P!Digits(v, U32_LEN)
    [] type = "u64" -> P!Digits(v, U64_LEN)
    [] type = "bool" -> P!Digits(IF v THEN 1 ELSE 0, 1)
    [] type = "bytes" -> v
    [] type = "bytes_with_header" -> Cat(P!Digits(Len(v), U32_LEN), v)
    [] type = "2d_bytes" -> ListBytes(v)
    [] type = "2d_bytes_with_header" -> ListBytes(WithHeaders(v))
    [] type = "str" -> Cat(P!Digits(Len(v), U16_LEN), v)
    [] type = "ips" -> ListBytes(IpCodes(v))

\* v is a value of a kind, and what the reader knows of it is n.
Fits(type, n, v) ==
  CASE type = "bytes" -> v \in P!ByteString(n)
    [] type = "2d_bytes" -> v \in P!Counted(P!ByteString(n), U32_LEN)
    [] OTHER -> v \in P!ValuesOf(type)

NumberKinds == {"byte", "u16", "u32", "u64"}
WidthOf(type) ==
  CASE type = "byte" -> 1 [] type = "u16" -> U16_LEN [] type = "u32" -> U32_LEN [] OTHER -> U64_LEN

LEMMA NumberKind ==
  ASSUME NEW type \in NumberKinds, NEW n, NEW v, Fits(type, n, v)
  PROVE  /\ WidthOf(type) \in Nat /\ v \in P!Number(WidthOf(type))
         /\ KindCode(type, v) = P!Digits(v, WidthOf(type))
         /\ \A at : P!Unpack(type, n, at) = P!unpack_number(at, WidthOf(type))
<1>1. WidthOf(type) \in Nat
  BY WidthsAre DEF WidthOf
<1>2. \A at : P!Unpack(type, n, at) = P!unpack_number(at, WidthOf(type))
  BY UnpackIs DEF NumberKinds, WidthOf
<1>3. KindCode(type, v) = P!Digits(v, WidthOf(type))
  BY DEF NumberKinds, WidthOf, KindCode
<1>4. v \in P!ValuesOf(type)
  BY DEF Fits, NumberKinds
<1>5. v \in P!Number(WidthOf(type))
  BY <1>4, ByteIs DEF P!ValuesOf, NumberKinds, WidthOf
<1> QED
  BY <1>1, <1>2, <1>3, <1>5

LEMMA LengthCode ==
  ASSUME NEW q \in Seq(Codes)
  PROVE  ListBytes(q) \in Codes
<1>1. Flat(q) \in Codes
  BY FlatSeq DEF Codes
<1>2. P!Digits(Len(q), U32_LEN) \in Codes
  BY WidthsAre, DigitsAre, LenProperties
<1> QED
  BY <1>1, <1>2, CatCode DEF ListBytes

\* What is read of a kind is what was packed of it.
LEMMA KindReads ==
  ASSUME wire \in Codes, NEW type \in P!Kinds \ {"utxo", "vertex"}, NEW n \in Nat, NEW v,
         Fits(type, n, v)
  PROVE  /\ KindCode(type, v) \in Codes
         /\ \A at \in Nat : Comes(at, KindCode(type, v))
                            => Reads(P!Unpack(type, n, at), at, v, KindCode(type, v))
<1>1. CASE type \in NumberKinds
  <2> DEFINE w == WidthOf(type)
  <2>1. /\ w \in Nat /\ v \in P!Number(w) /\ KindCode(type, v) = P!Digits(v, w)
        /\ \A at : P!Unpack(type, n, at) = P!unpack_number(at, w)
    BY <1>1, NumberKind
  <2> HIDE DEF w
  <2> QED
    BY <2>1, NumberIs, ReadNumber
<1>2. CASE type = "bool"
  <2>1. v \in BOOLEAN
    BY <1>2 DEF Fits, P!ValuesOf
  <2>2. KindCode(type, v) = P!Digits(IF v THEN 1 ELSE 0, 1) /\ \A at : P!Unpack(type, n, at) = P!unpack_bool(at)
    BY <1>2, UnpackIs DEF KindCode
  <2>3. P!Digits(IF v THEN 1 ELSE 0, 1) \in Codes
    BY <2>1, ByteIs, NumberIs
  <2> QED
    BY <2>1, <2>2, <2>3, ReadBool
<1>3. CASE type = "bytes"
  <2>1. v \in Codes /\ Len(v) = n
    BY <1>3, BytesAre DEF Fits
  <2>2. KindCode(type, v) = v /\ \A at : P!Unpack(type, n, at) = P!unpack_bytes(at, Len(v))
    BY <1>3, <2>1, UnpackIs DEF KindCode
  <2> QED
    BY <2>1, <2>2, ReadBytes
<1>4. CASE type \in {"bytes_with_header", "str"}
  <2> DEFINE w == IF type = "str" THEN U16_LEN ELSE U32_LEN
  <2>1. w \in Nat
    BY WidthsAre
  <2>2. v \in P!Counted(P!Byte, w)
    BY <1>4 DEF Fits, P!ValuesOf, P!WithLen
  <2>3. v \in Codes /\ Len(v) \in P!Number(w)
    BY <2>2, BytesAre
  <2>4. /\ KindCode(type, v) = Cat(P!Digits(Len(v), w), v)
        /\ \A at : P!Unpack(type, n, at) = P!AsManyBytes(P!unpack_number(at, w))
    BY <1>4, UnpackIs DEF KindCode
  <2> HIDE DEF w
  <2>5. Cat(P!Digits(Len(v), w), v) \in Codes
    BY <2>1, <2>3, NumberIs, CatCode
  <2> QED
    BY <2>1, <2>3, <2>4, <2>5, ReadWithHeader
<1>5. CASE type = "2d_bytes"
  <2>1. v \in P!Counted(P!ByteString(n), U32_LEN)
    BY <1>5 DEF Fits
  <2>2. /\ v \in Seq(Codes) /\ Len(v) \in P!Number(U32_LEN)
        /\ \A k \in 1..Len(v) : Len(v[k]) = n /\ v[k] \in Codes
    BY <2>1, StringsAre
  <2>3. KindCode(type, v) = ListBytes(v) /\ \A at : P!Unpack(type, n, at) = ManyBytes(at, n)
    BY <1>5, UnpackIs DEF KindCode
  <2>4. ASSUME NEW k \in 1..Len(v), NEW a \in Nat, Comes(a, v[k])
        PROVE  Reads(P!unpack_bytes(a, n), a, v[k], v[k])
    BY <2>2, <2>4, ReadBytes
  <2> QED
    BY <2>2, <2>3, <2>4, LengthCode, BytesList
<1>6. CASE type = "2d_bytes_with_header"
  <2> DEFINE q == WithHeaders(v)
  <2>1. v \in P!Counted(P!WithLen, U32_LEN)
    BY <1>6 DEF Fits, P!ValuesOf
  <2>2. /\ v \in Seq(Codes) /\ Len(v) \in P!Number(U32_LEN)
        /\ \A k \in 1..Len(v) : v[k] \in Codes /\ Len(v[k]) \in P!Number(U32_LEN)
        /\ q \in Seq(Codes) /\ Len(q) = Len(v)
    BY <2>1, HeadersAre
  <2>3. KindCode(type, v) = ListBytes(q) /\ \A at : P!Unpack(type, n, at) = ManyWithHeader(at)
    BY <1>6, UnpackIs DEF KindCode
  <2>4. ASSUME NEW k \in 1..Len(q), NEW a \in Nat, Comes(a, q[k])
        PROVE  Reads(P!unpack_bytes_with_header(a), a, v[k], q[k])
    <3>1. q[k] = Cat(P!Digits(Len(v[k]), U32_LEN), v[k])
      BY <2>2 DEF WithHeaders
    <3>2. P!unpack_bytes_with_header(a) = P!AsManyBytes(P!unpack_number(a, U32_LEN))
      BY DEF P!unpack_bytes_with_header
    <3> QED
      BY <2>2, <2>4, <3>1, <3>2, WidthsAre, ReadWithHeader
  <2> HIDE DEF q
  <2> QED
    BY <2>2, <2>3, <2>4, LengthCode, HeaderList
<1>7. CASE type = "ips"
  <2> DEFINE q == IpCodes(v)
             I == P!Ip
  <2>1. v \in P!Counted(I, U32_LEN)
    BY <1>7 DEF Fits, P!ValuesOf
  <2>2. /\ v \in Seq(I) /\ Len(v) \in P!Number(U32_LEN) /\ \A k \in 1..Len(v) : v[k] \in I
        /\ q \in Seq(Codes) /\ Len(q) = Len(v)
    BY <2>1, IpsAre
  <2>3. KindCode(type, v) = ListBytes(q) /\ \A at : P!Unpack(type, n, at) = ManyIps(at)
    BY <1>7, UnpackIs DEF KindCode
  <2>4. ASSUME NEW k \in 1..Len(q), NEW a \in Nat, Comes(a, q[k])
        PROVE  Reads(P!unpack_ip(a), a, v[k], q[k])
    <3>1. q[k] = IpCode(v[k])
      BY <2>2 DEF IpCodes
    <3> QED
      BY <2>2, <2>4, <3>1, ReadIp
  <2> HIDE DEF q, I
  <2> QED
    BY <2>2, <2>3, <2>4, LengthCode, IpList
<1> QED
  BY <1>1, <1>2, <1>3, <1>4, <1>5, <1>6, <1>7 DEF P!Kinds, NumberKinds

LEMMA ListParts ==
  ASSUME NEW q \in Seq(Codes), NEW p \in Seq(Codes), Flat(p) = Flat(q), NEW n, n = Len(q)
  PROVE  LET s == Cat(<<P!Digits(n, U32_LEN)>>, p) IN s \in Seq(Codes) /\ Flat(s) = ListBytes(q)
<1> DEFINE d == P!Digits(n, U32_LEN)
<1>1. d \in Codes
  BY WidthsAre, DigitsAre, LenProperties
<1> HIDE DEF d
<1>2. <<d>> \in Seq(Codes) /\ Flat(<<d>>) = d
  BY <1>1, FlatOne DEF Codes
<1>3. Cat(<<d>>, p) \in Seq(Codes) /\ Flat(Cat(<<d>>, p)) = Cat(Flat(<<d>>), Flat(p))
  BY <1>2, FlatCat DEF Codes
<1> QED
  BY <1>2, <1>3 DEF ListBytes, d

LEMMA HeaderParts ==
  ASSUME NEW v \in P!Counted(P!WithLen, U32_LEN)
  PROVE  LET p == P!FlattenSeq([i \in DOMAIN v |-> P!WithHeader(v[i])]) IN
         p \in Seq(Codes) /\ Flat(p) = Flat(WithHeaders(v))
<1> DEFINE Q == [i \in DOMAIN v |-> P!WithHeader(v[i])]
           n == Len(v)
<1>1. /\ DOMAIN v = 1..n /\ n \in Nat /\ Len(WithHeaders(v)) = n
      /\ \A k \in 1..n : v[k] \in Codes /\ Len(v[k]) \in P!Number(U32_LEN)
  BY HeadersAre, LenProperties
<1> HIDE DEF n
<1>2. ASSUME NEW k \in 1..n
      PROVE  /\ P!WithHeader(v[k]) \in Seq(Codes)
             /\ Flat(P!WithHeader(v[k])) = Cat(P!Digits(Len(v[k]), U32_LEN), v[k])
  <2> DEFINE d == P!Digits(Len(v[k]), U32_LEN)
  <2>1. d \in Codes /\ v[k] \in Codes
    BY <1>1, NumberIs, WidthsAre
  <2> HIDE DEF d
  <2>2. <<d, v[k]>> \in Seq(Codes) /\ Flat(<<d, v[k]>>) = Cat(d, v[k])
    BY <2>1, FlatTwo DEF Codes
  <2>3. P!WithHeader(v[k]) = <<d, v[k]>>
    BY DEF P!WithHeader, d
  <2> QED
    BY <2>2, <2>3 DEF d
<1>3. Q \in Seq(Seq(Codes)) /\ Len(Q) = n /\ \A k \in 1..n : Q[k] = P!WithHeader(v[k])
  <2>1. Q \in [1..n -> Seq(Codes)]
    BY <1>1, <1>2
  <2>2. \A k \in 1..n : Q[k] = P!WithHeader(v[k])
    BY <1>1
  <2> HIDE DEF Q
  <2> QED
    BY <1>1, <2>1, <2>2
<1> HIDE DEF Q
<1>4. WithHeaders(v) = [i \in 1..Len(Q) |-> Flat(Q[i])]
  BY <1>2, <1>3 DEF WithHeaders, n
<1>5. P!FlattenSeq(Q) = Flat(Q)
  BY FlattenIsFlat
<1>6. Flat(Q) \in Seq(Codes) /\ Flat(Flat(Q)) = Flat([i \in 1..Len(Q) |-> Flat(Q[i])])
  BY <1>3, FlatFlat DEF Codes
<1> QED
  BY <1>4, <1>5, <1>6 DEF Q

LEMMA IpParts ==
  ASSUME NEW v \in P!Counted(P!Ip, U32_LEN)
  PROVE  LET p == P!FlattenSeq([i \in DOMAIN v |-> P!pack_ip(v[i])]) IN
         p \in Seq(Codes) /\ Flat(p) = Flat(IpCodes(v))
<1> DEFINE Q == [i \in DOMAIN v |-> P!pack_ip(v[i])]
           n == Len(v)
           I == P!Ip
<1>1. /\ DOMAIN v = 1..n /\ n \in Nat /\ Len(IpCodes(v)) = n
      /\ \A k \in 1..n : v[k] \in I
  BY IpsAre, LenProperties
<1> HIDE DEF n
<1>2. ASSUME NEW k \in 1..n
      PROVE  P!pack_ip(v[k]) \in Seq(Codes) /\ Flat(P!pack_ip(v[k])) = IpCode(v[k])
  <2> DEFINE a == P!ip_bytes(v[k].addr)
             d == P!Digits(v[k].port, U16_LEN)
  <2>1. a \in Codes /\ d \in Codes
    BY <1>1, IpIs
  <2> HIDE DEF a, d
  <2>2. <<a, d>> \in Seq(Codes) /\ Flat(<<a, d>>) = Cat(a, d)
    BY <2>1, FlatTwo DEF Codes
  <2>3. P!pack_ip(v[k]) = <<a, d>>
    BY DEF P!pack_ip, a, d
  <2> QED
    BY <2>2, <2>3 DEF IpCode, a, d
<1> HIDE DEF I
<1>3. Q \in Seq(Seq(Codes)) /\ Len(Q) = n /\ \A k \in 1..n : Q[k] = P!pack_ip(v[k])
  <2>1. Q \in [1..n -> Seq(Codes)]
    BY <1>1, <1>2
  <2>2. \A k \in 1..n : Q[k] = P!pack_ip(v[k])
    BY <1>1
  <2> HIDE DEF Q
  <2> QED
    BY <1>1, <2>1, <2>2
<1> HIDE DEF Q
<1>4. IpCodes(v) = [i \in 1..Len(Q) |-> Flat(Q[i])]
  BY <1>2, <1>3 DEF IpCodes, n
<1>5. P!FlattenSeq(Q) = Flat(Q)
  BY FlattenIsFlat
<1>6. Flat(Q) \in Seq(Codes) /\ Flat(Flat(Q)) = Flat([i \in 1..Len(Q) |-> Flat(Q[i])])
  BY <1>3, FlatFlat DEF Codes
<1> QED
  BY <1>4, <1>5, <1>6 DEF Q

\* What is put for a value of a kind is its bytes.
LEMMA KindParts ==
  ASSUME NEW type \in P!Kinds \ {"utxo", "vertex"}, NEW n \in Nat, NEW v, Fits(type, n, v)
  PROVE  P!Parts(<<type, v>>) \in Seq(Codes) /\ Flat(P!Parts(<<type, v>>)) = KindCode(type, v)
<1> DEFINE p == P!Parts(<<type, v>>)
<1>1. CASE type \in NumberKinds
  <2> DEFINE d == P!Digits(v, WidthOf(type))
  <2>1. d \in Codes /\ KindCode(type, v) = d
    BY <1>1, NumberKind, NumberIs
  <2>2. p = <<d>>
    BY <1>1 DEF P!Parts, NumberKinds, WidthOf
  <2> HIDE DEF d, p
  <2>3. <<d>> \in Seq(Codes) /\ Flat(<<d>>) = d
    BY <2>1, FlatOne DEF Codes
  <2> QED
    BY <2>1, <2>2, <2>3 DEF p
<1>2. CASE type = "bool"
  <2> DEFINE d == P!Digits(IF v THEN 1 ELSE 0, 1)
  <2>1. d \in Codes
    BY ByteIs, NumberIs
  <2>2. p = <<d>> /\ KindCode(type, v) = d
    BY <1>2 DEF P!Parts, KindCode
  <2> HIDE DEF d, p
  <2>3. <<d>> \in Seq(Codes) /\ Flat(<<d>>) = d
    BY <2>1, FlatOne DEF Codes
  <2> QED
    BY <2>2, <2>3 DEF p
<1>3. CASE type = "bytes"
  <2>1. v \in Codes
    BY <1>3, BytesAre DEF Fits
  <2>2. p = <<v>> /\ KindCode(type, v) = v
    BY <1>3 DEF P!Parts, KindCode
  <2> HIDE DEF p
  <2>3. <<v>> \in Seq(Codes) /\ Flat(<<v>>) = v
    BY <2>1, FlatOne DEF Codes
  <2> QED
    BY <2>2, <2>3 DEF p
<1>4. CASE type \in {"bytes_with_header", "str"}
  <2> DEFINE w == IF type = "str" THEN U16_LEN ELSE U32_LEN
             d == P!Digits(Len(v), w)
  <2>1. w \in Nat
    BY WidthsAre
  <2>2. v \in P!Counted(P!Byte, w)
    BY <1>4 DEF Fits, P!ValuesOf, P!WithLen
  <2>3. v \in Codes /\ Len(v) \in P!Number(w)
    BY <2>2, BytesAre
  <2>4. p = <<d, v>> /\ KindCode(type, v) = Cat(d, v)
    BY <1>4 DEF P!Parts, P!WithHeader, KindCode
  <2> HIDE DEF w
  <2>5. d \in Codes
    BY <2>1, <2>3, NumberIs
  <2> HIDE DEF d, p
  <2>6. <<d, v>> \in Seq(Codes) /\ Flat(<<d, v>>) = Cat(d, v)
    BY <2>3, <2>5, FlatTwo DEF Codes
  <2> QED
    BY <2>4, <2>6 DEF p
<1>5. CASE type = "2d_bytes"
  <2>1. v \in Seq(Codes)
    BY <1>5, StringsAre DEF Fits
  <2>2. p = Cat(<<P!Digits(Len(v), U32_LEN)>>, v) /\ KindCode(type, v) = ListBytes(v)
    BY <1>5 DEF P!Parts, KindCode, Cat
  <2> HIDE DEF p
  <2> QED
    BY <2>1, <2>2, ListParts DEF p
<1>6. CASE type = "2d_bytes_with_header"
  <2> DEFINE q == WithHeaders(v)
             r == P!FlattenSeq([i \in DOMAIN v |-> P!WithHeader(v[i])])
  <2>1. v \in P!Counted(P!WithLen, U32_LEN)
    BY <1>6 DEF Fits, P!ValuesOf
  <2>2. q \in Seq(Codes) /\ Len(q) = Len(v)
    BY <2>1, HeadersAre
  <2>3. r \in Seq(Codes) /\ Flat(r) = Flat(q)
    BY <2>1, HeaderParts
  <2>4. p = Cat(<<P!Digits(Len(v), U32_LEN)>>, r) /\ KindCode(type, v) = ListBytes(q)
    BY <1>6, Zenon DEF P!Parts, P!Each, KindCode, Cat
  <2> HIDE DEF p, q, r
  <2> QED
    BY <2>2, <2>3, <2>4, ListParts DEF p
<1>7. CASE type = "ips"
  <2> DEFINE q == IpCodes(v)
             r == P!FlattenSeq([i \in DOMAIN v |-> P!pack_ip(v[i])])
  <2>1. v \in P!Counted(P!Ip, U32_LEN)
    BY <1>7 DEF Fits, P!ValuesOf
  <2>2. q \in Seq(Codes) /\ Len(q) = Len(v)
    BY <2>1, IpsAre
  <2>3. r \in Seq(Codes) /\ Flat(r) = Flat(q)
    BY <2>1, IpParts
  <2>4. p = Cat(<<P!Digits(Len(v), U32_LEN)>>, r) /\ KindCode(type, v) = ListBytes(q)
    BY <1>7, Zenon DEF P!Parts, P!Each, KindCode, Cat
  <2> HIDE DEF p, q, r
  <2> QED
    BY <2>2, <2>3, <2>4, ListParts DEF p
<1> QED
  BY <1>1, <1>2, <1>3, <1>4, <1>5, <1>6, <1>7 DEF P!Kinds, NumberKinds

LEMMA UtxoKinds ==
  LET k == P!utxo_fields(FALSE)
      l == P!utxo_fields(TRUE)
  IN
  /\ DOMAIN k = 1..9
  /\ k[1] = <<"u16", 0>> /\ k[2] = <<"bytes", IdLen>> /\ k[3] = <<"u32", 0>>
  /\ k[4] = <<"bytes", IdLen>> /\ k[5] = <<"u32", 0>> /\ k[6] = <<"u64", 0>>
  /\ k[7] = <<"u64", 0>> /\ k[8] = <<"u32", 0>> /\ k[9] = <<"2d_bytes", AddrLen>>
  /\ DOMAIN l = 1..11
  /\ l[1] = <<"u16", 0>> /\ l[2] = <<"bytes", IdLen>> /\ l[3] = <<"u32", 0>>
  /\ l[4] = <<"bytes", IdLen>> /\ l[5] = <<"u32", 0>> /\ l[6] = <<"u64", 0>>
  /\ l[7] = <<"u32", 0>> /\ l[8] = <<"u64", 0>>
  /\ l[9] = <<"u64", 0>> /\ l[10] = <<"u32", 0>> /\ l[11] = <<"2d_bytes", AddrLen>>
BY DEF P!utxo_fields

LEMMA VertexTuple ==
  ASSUME NEW a, NEW b, NEW c, NEW d, NEW e, NEW f
  PROVE  LET q == Append(Append(<<a, b, c, d>>, e), f) IN
         /\ q \in Seq({a, b, c, d, e, f}) /\ Len(q) = 6 /\ q[1] = a /\ q[2] = b /\ q[3] = c /\ q[4] = d
         /\ q[5] = e /\ q[6] = f
OBVIOUS

LEMMA FiveIs ==
  ASSUME NEW S, NEW a \in S, NEW b \in S, NEW c \in S, NEW d \in S, NEW e \in S
  PROVE  <<a, b, c, d, e>> = Cat(<<a, b, c, d>>, <<e>>)
<1> DEFINE x == <<a, b, c, d, e>>
           y == Cat(<<a, b, c, d>>, <<e>>)
<1>1. x \in Seq(S) /\ Len(x) = 5 /\ x[1] = a /\ x[2] = b /\ x[3] = c /\ x[4] = d /\ x[5] = e
  OBVIOUS
<1>2. y \in Seq(S) /\ Len(y) = 5 /\ y[1] = a /\ y[2] = b /\ y[3] = c /\ y[4] = d /\ y[5] = e
  BY DEF Cat
<1> HIDE DEF x, y
<1>3. \A k \in 1..5 : x[k] = y[k]
  BY <1>1, <1>2
<1>4. x = y
  BY <1>1, <1>2, <1>3, SeqEqual
<1> QED
  BY <1>4 DEF x, y

LEMMA ThreeIs ==
  ASSUME NEW S, NEW a \in S, NEW b \in S, NEW c \in S
  PROVE  <<a, b, c>> = Cat(<<a, b>>, <<c>>)
<1> DEFINE x == <<a, b, c>>
           y == Cat(<<a, b>>, <<c>>)
<1>1. x \in Seq(S) /\ Len(x) = 3 /\ x[1] = a /\ x[2] = b /\ x[3] = c
  OBVIOUS
<1>2. y \in Seq(S) /\ Len(y) = 3 /\ y[1] = a /\ y[2] = b /\ y[3] = c
  BY DEF Cat
<1> HIDE DEF x, y
<1>3. \A k \in 1..3 : x[k] = y[k]
  BY <1>1, <1>2
<1>4. x = y
  BY <1>1, <1>2, <1>3, SeqEqual
<1> QED
  BY <1>4 DEF x, y

LEMMA FlatLast ==
  ASSUME NEW q \in Seq(Codes), NEW c \in Codes
  PROVE  Append(q, c) \in Seq(Codes) /\ Flat(Append(q, c)) = Cat(Flat(q), c)
<1>1. <<c>> \in Seq(Codes) /\ Flat(<<c>>) = c
  BY FlatOne DEF Codes
<1>2. Append(q, c) = Cat(q, <<c>>)
  BY AppendIsConcat DEF Cat
<1> QED
  BY <1>1, <1>2, FlatCat DEF Codes

\* Each of v fits its field, and q are their bytes.
FieldsFit(kinds, n, v, q) ==
  \A k \in 1..n : /\ kinds[k][1] \in FieldKinds /\ kinds[k][2] \in Nat
                  /\ Fits(kinds[k][1], kinds[k][2], v[k]) /\ q[k] = KindCode(kinds[k][1], v[k])

LEMMA FieldsGive ==
  ASSUME wire \in Codes, NEW at \in 0..Len(wire), NEW n \in Nat, NEW kinds, DOMAIN kinds = 1..n,
         NEW V, NEW v \in Seq(V), Len(v) = n, NEW q \in Seq(Codes), Len(q) = n,
         FieldsFit(kinds, n, v, q), Comes(at, Flat(q))
  PROVE  Reads(P!Fields(at, kinds), at, v, Flat(q))
<1>1. FieldKinds \subseteq P!Kinds \ {"utxo", "vertex"}
  BY DEF FieldKinds, P!Kinds
<1>2. AreResults(kinds)
  BY FieldResult DEF AreResults, FieldsFit
<1>3. ASSUME NEW k \in 1..n, NEW a \in Nat, Comes(a, q[k])
      PROVE  Reads(P!Unpack(kinds[k][1], kinds[k][2], a), a, v[k], q[k])
  <2> DEFINE i == kinds[k][1]
             m == kinds[k][2]
  <2>1. i \in P!Kinds \ {"utxo", "vertex"} /\ m \in Nat /\ Fits(i, m, v[k]) /\ q[k] = KindCode(i, v[k])
    BY <1>1 DEF FieldsFit
  <2> HIDE DEF i, m
  <2>2. Reads(P!Unpack(i, m, a), a, v[k], q[k])
    BY <1>3, <2>1, KindReads
  <2> QED
    BY <2>2 DEF i, m
<1> QED
  BY <1>2, <1>3, FieldsReads

VertexValues(vtx) ==
  Append(Append(<<vtx.codec_version, vtx.chain_id, vtx.height, vtx.epoch>>, vtx.parent_ids), vtx.txs)

\* The bytes of each field of a vertex.
VertexCodes(vtx) ==
  Append(Append(<<P!Digits(vtx.codec_version, U16_LEN), vtx.chain_id, P!Digits(vtx.height, U64_LEN),
                  P!Digits(vtx.epoch, U32_LEN)>>,
                ListBytes(vtx.parent_ids)),
         ListBytes(WithHeaders(vtx.txs)))

LEMMA VertexIs ==
  ASSUME NEW vtx \in P!Vertex
  PROVE  /\ vtx = [codec_version |-> vtx.codec_version, chain_id |-> vtx.chain_id,
                   height |-> vtx.height, epoch |-> vtx.epoch,
                   parent_ids |-> vtx.parent_ids, txs |-> vtx.txs]
         /\ vtx.codec_version \in P!Number(U16_LEN) /\ vtx.chain_id \in P!ByteString(IdLen)
         /\ vtx.height \in P!Number(U64_LEN) /\ vtx.epoch \in P!Number(U32_LEN)
         /\ vtx.parent_ids \in P!Counted(P!ByteString(IdLen), U32_LEN)
         /\ vtx.txs \in P!Counted(P!WithLen, U32_LEN)
BY DEF P!Vertex

LEMMA VertexParts ==
  ASSUME NEW vtx \in P!Vertex
  PROVE  /\ VertexCodes(vtx) \in Seq(Codes) /\ P!pack_vertex(vtx) \in Seq(Codes)
         /\ Flat(P!pack_vertex(vtx)) = Flat(VertexCodes(vtx))
<1> DEFINE a == P!Digits(vtx.codec_version, U16_LEN)
           b == vtx.chain_id
           c == P!Digits(vtx.height, U64_LEN)
           d == P!Digits(vtx.epoch, U32_LEN)
           p == vtx.parent_ids
           t == vtx.txs
           e == P!Digits(Len(p), U32_LEN)
           g == P!Digits(Len(t), U32_LEN)
           h == P!FlattenSeq([i \in DOMAIN t |-> P!WithHeader(t[i])])
           w == WithHeaders(t)
           Xs == <<a, b, c, d>>
           E == Cat(<<e>>, p)
           Gs == Cat(<<g>>, h)
           Y == ListBytes(p)
           Z == ListBytes(w)
<1>1. a \in Codes /\ b \in Codes /\ c \in Codes /\ d \in Codes
  BY VertexIs, BytesAre, NumberIs, WidthsAre
<1>2. p \in Seq(Codes) /\ e \in Codes /\ E \in Seq(Codes) /\ Flat(E) = Y /\ Y \in Codes
  <2>1. p \in Seq(Codes) /\ Len(p) \in P!Number(U32_LEN)
    BY VertexIs, StringsAre
  <2> HIDE DEF p
  <2> QED
    BY <2>1, ListParts, LengthCode, NumberIs, WidthsAre
<1>3. /\ g \in Codes /\ h \in Seq(Codes) /\ Gs \in Seq(Codes) /\ Flat(Gs) = Z /\ Z \in Codes
  <2>1. t \in P!Counted(P!WithLen, U32_LEN)
    BY VertexIs
  <2>2. Len(t) \in P!Number(U32_LEN) /\ w \in Seq(Codes) /\ Len(w) = Len(t)
    BY <2>1, HeadersAre
  <2>3. h \in Seq(Codes) /\ Flat(h) = Flat(w)
    BY <2>1, HeaderParts
  <2> HIDE DEF t, h, w
  <2> QED
    BY <2>2, <2>3, ListParts, LengthCode, NumberIs, WidthsAre
<1>4. P!pack_vertex(vtx) = Cat(Cat(Cat(<<a, b, c, d, e>>, p), <<g>>), h)
  BY DEF P!pack_vertex, Cat
<1>5. VertexCodes(vtx) = Append(Append(Xs, Y), Z)
  BY DEF VertexCodes
<1> HIDE DEF a, b, c, d, e, g, p, t, h, w, Y, Z
<1>6. Xs \in Seq(Codes) /\ <<e>> \in Seq(Codes) /\ <<g>> \in Seq(Codes)
  BY <1>1, <1>2, <1>3
<1>7. P!pack_vertex(vtx) = Cat(Cat(Xs, E), Gs)
  <2> DEFINE y == <<e>>
             z == <<g>>
             D == Seq(Nat)
  <2>1. <<a, b, c, d, e>> = Cat(Xs, y)
    BY <1>1, <1>2, FiveIs
  <2>2. Xs \in Seq(D) /\ y \in Seq(D) /\ z \in Seq(D) /\ p \in Seq(D) /\ h \in Seq(D) /\ E \in Seq(D)
    BY <1>2, <1>3, <1>6 DEF Codes
  <2>3. P!pack_vertex(vtx) = Cat(Cat(Cat(Cat(Xs, y), p), z), h) /\ E = Cat(y, p) /\ Gs = Cat(z, h)
    BY <1>4, <2>1
  <2> HIDE DEF Xs, E, Gs, y, z, D
  <2>4. Cat(Cat(Xs, y), p) = Cat(Xs, E)
    BY <2>2, <2>3, CatThree
  <2>5. Cat(Xs, E) \in Seq(D)
    BY <2>2, CatSeq
  <2>6. Cat(Cat(Cat(Xs, E), z), h) = Cat(Cat(Xs, E), Gs)
    BY <2>2, <2>3, <2>5, CatThree
  <2> QED
    BY <2>3, <2>4, <2>6
<1> HIDE DEF Xs, E, Gs
<1>8. /\ P!pack_vertex(vtx) \in Seq(Codes)
      /\ Flat(P!pack_vertex(vtx)) = Cat(Cat(Flat(Xs), Y), Z)
  <2>1. Cat(Xs, E) \in Seq(Codes) /\ Flat(Cat(Xs, E)) = Cat(Flat(Xs), Y)
    BY <1>2, <1>6, FlatCat DEF Codes
  <2> QED
    BY <1>3, <1>7, <2>1, FlatCat DEF Codes
<1>9. VertexCodes(vtx) \in Seq(Codes) /\ Flat(VertexCodes(vtx)) = Cat(Cat(Flat(Xs), Y), Z)
  <2>1. Append(Xs, Y) \in Seq(Codes) /\ Flat(Append(Xs, Y)) = Cat(Flat(Xs), Y)
    BY <1>2, <1>6, FlatLast
  <2> QED
    BY <1>3, <1>5, <2>1, FlatLast
<1> QED
  BY <1>8, <1>9

VertexKinds ==
  <<<<"u16", 0>>, <<"bytes", IdLen>>, <<"u64", 0>>, <<"u32", 0>>,
    <<"2d_bytes", IdLen>>, <<"2d_bytes_with_header", 0>>>>

LEMMA VertexFits ==
  ASSUME NEW vtx \in P!Vertex
  PROVE  LET v == VertexValues(vtx)
             q == VertexCodes(vtx)
         IN
         /\ Len(v) = 6 /\ Len(q) = 6 /\ DOMAIN VertexKinds = 1..6
         /\ \E V : v \in Seq(V)
         /\ v[1] = vtx.codec_version /\ v[2] = vtx.chain_id /\ v[3] = vtx.height
         /\ v[4] = vtx.epoch /\ v[5] = vtx.parent_ids /\ v[6] = vtx.txs
         /\ FieldsFit(VertexKinds, 6, v, q)
<1> DEFINE v == VertexValues(vtx)
           q == VertexCodes(vtx)
           k == VertexKinds
<1>1. /\ Len(v) = 6 /\ v[1] = vtx.codec_version /\ v[2] = vtx.chain_id /\ v[3] = vtx.height
      /\ v[4] = vtx.epoch /\ v[5] = vtx.parent_ids /\ v[6] = vtx.txs /\ \E V : v \in Seq(V)
  <2> DEFINE a == vtx.codec_version
             b == vtx.chain_id
             c == vtx.height
             d == vtx.epoch
             e == vtx.parent_ids
             f == vtx.txs
             V == {a, b, c, d, e, f}
  <2>1. v = Append(Append(<<a, b, c, d>>, e), f)
    BY DEF VertexValues
  <2> HIDE DEF a, b, c, d, e, f, v
  <2>2. /\ v \in Seq(V) /\ Len(v) = 6 /\ v[1] = a /\ v[2] = b /\ v[3] = c /\ v[4] = d
        /\ v[5] = e /\ v[6] = f
    BY <2>1
  <2> HIDE DEF V
  <2> QED
    BY <2>2 DEF a, b, c, d, e, f
<1>2. /\ Len(q) = 6 /\ q[1] = P!Digits(vtx.codec_version, U16_LEN) /\ q[2] = vtx.chain_id
      /\ q[3] = P!Digits(vtx.height, U64_LEN) /\ q[4] = P!Digits(vtx.epoch, U32_LEN)
      /\ q[5] = ListBytes(vtx.parent_ids) /\ q[6] = ListBytes(WithHeaders(vtx.txs))
  BY VertexTuple DEF VertexCodes
<1>3. /\ DOMAIN k = 1..6 /\ k[1] = <<"u16", 0>> /\ k[2] = <<"bytes", IdLen>> /\ k[3] = <<"u64", 0>>
      /\ k[4] = <<"u32", 0>> /\ k[5] = <<"2d_bytes", IdLen>> /\ k[6] = <<"2d_bytes_with_header", 0>>
  BY DEF VertexKinds
<1> HIDE DEF v, q, k
<1>4. FieldsFit(k, 6, v, q)
  <2> DEFINE F(i, type, n) == /\ type \in FieldKinds /\ n \in Nat
                              /\ Fits(type, n, v[i]) /\ q[i] = KindCode(type, v[i])
  <2>1. F(1, "u16", 0) /\ F(3, "u64", 0) /\ F(4, "u32", 0)
    BY <1>1, <1>2, VertexIs DEF FieldKinds, Fits, KindCode, P!ValuesOf
  <2>2. F(2, "bytes", IdLen) /\ F(5, "2d_bytes", IdLen)
    BY <1>1, <1>2, VertexIs, WidthsAre DEF FieldKinds, Fits, KindCode
  <2>3. F(6, "2d_bytes_with_header", 0)
    BY <1>1, <1>2, VertexIs DEF FieldKinds, Fits, KindCode, P!ValuesOf
  <2>4. \A i \in 1..6 : i = 1 \/ i = 2 \/ i = 3 \/ i = 4 \/ i = 5 \/ i = 6
    OBVIOUS
  <2> HIDE DEF F
  <2>5. \A i \in 1..6 : F(i, k[i][1], k[i][2])
    BY <1>3, <2>1, <2>2, <2>3, <2>4
  <2> QED
    BY <2>5 DEF FieldsFit, F
<1> QED
  BY <1>1, <1>2, <1>3, <1>4 DEF v, q, k

LEMMA ReadVertex ==
  ASSUME wire \in Codes, NEW at \in 0..Len(wire), NEW vtx \in P!Vertex,
         Comes(at, Flat(P!pack_vertex(vtx)))
  PROVE  Reads(P!unpack_vertex(at), at, vtx, Flat(P!pack_vertex(vtx)))
<1> DEFINE v == VertexValues(vtx)
           q == VertexCodes(vtx)
           p == Flat(P!pack_vertex(vtx))
           r == P!Fields(at, VertexKinds)
           s == P!unpack_vertex(at)
<1>1. q \in Seq(Codes) /\ p = Flat(q)
  BY VertexParts
<1>2. /\ Len(v) = 6 /\ Len(q) = 6 /\ DOMAIN VertexKinds = 1..6
      /\ v[1] = vtx.codec_version /\ v[2] = vtx.chain_id /\ v[3] = vtx.height
      /\ v[4] = vtx.epoch /\ v[5] = vtx.parent_ids /\ v[6] = vtx.txs
      /\ FieldsFit(VertexKinds, 6, v, q)
  BY VertexFits
<1>3. PICK V : v \in Seq(V)
  BY VertexFits
<1>4. s = IF ~r.ok THEN r
          ELSE [r EXCEPT !.v = [codec_version |-> r.v[1], chain_id |-> r.v[2], height |-> r.v[3],
                                epoch |-> r.v[4], parent_ids |-> r.v[5], txs |-> r.v[6]]]
  BY DEF P!unpack_vertex, P!AsVertex, VertexKinds
<1> HIDE DEF v, q, p, r, s
<1>5. Reads(r, at, v, p)
  <2>1. Comes(at, Flat(q)) /\ 6 \in Nat
    BY <1>1 DEF p
  <2>2. Reads(P!Fields(at, VertexKinds), at, v, Flat(q))
    BY <1>1, <1>2, <1>3, <2>1, FieldsGive
  <2> QED
    BY <1>1, <2>2 DEF r
<1>6. Reads(s, at, vtx, p)
  <2>1. r = [ok |-> r.ok, v |-> r.v, at |-> r.at]
    BY <1>5 DEF Reads
  <2>2. CASE r.ok
    <3>1. r.v = v
      BY <1>5, <2>2 DEF Reads
    <3>2. s = [r EXCEPT !.v = vtx]
      BY <1>2, <1>4, <2>2, <3>1, VertexIs
    <3>3. s = [ok |-> s.ok, v |-> s.v, at |-> s.at] /\ s.ok = r.ok /\ s.v = vtx /\ s.at = r.at
      BY <2>1, <3>2
    <3> QED
      BY <1>5, <3>3 DEF Reads
  <2>3. CASE ~r.ok
    <3>1. s = r
      BY <1>4, <2>3
    <3> QED
      BY <1>5, <2>3, <3>1 DEF Reads
  <2> QED
    BY <2>2, <2>3
<1> QED
  BY <1>6 DEF s, p

LEMMA UpToShort ==
  ASSUME NEW S, NEW q \in Seq(Seq(S))
  PROVE  /\ Len(q) \in Nat /\ Len(Flat(q)) \in Nat
         /\ \A k \in 0..Len(q) : Len(UpTo(q, k)) \in Nat /\ Len(UpTo(q, k)) <= Len(Flat(q))
         /\ \A k \in 1..Len(q) : /\ Len(q[k]) \in Nat
                                 /\ Len(UpTo(q, k)) = Len(UpTo(q, k - 1)) + Len(q[k])
<1> DEFINE n == Len(q)
           L(k) == Len(UpTo(q, k))
           Bad == {k \in Nat : k <= n /\ ~(L(n - k) <= L(n))}
<1>1. /\ n \in Nat /\ Flat(q) = UpTo(q, n)
      /\ \A k \in 0..n : L(k) \in Nat
      /\ \A k \in 1..n : L(k) = L(k - 1) + Len(q[k]) /\ Len(q[k]) \in Nat
  <2>1. /\ n \in Nat /\ Flat(q) = UpTo(q, n)
        /\ \A k \in 0..n : UpTo(q, k) \in Seq(S)
        /\ \A k \in 1..n : UpTo(q, k) = Cat(UpTo(q, k - 1), q[k]) /\ q[k] \in Seq(S)
    BY UpToIs
  <2> HIDE DEF n
  <2>2. \A k \in 0..n : L(k) \in Nat
    BY <2>1, LenProperties
  <2>3. ASSUME NEW k \in 1..n PROVE L(k) = L(k - 1) + Len(q[k]) /\ Len(q[k]) \in Nat
    <3>1. k - 1 \in 0..n
      BY <2>1
    <3>2. UpTo(q, k - 1) \in Seq(S) /\ q[k] \in Seq(S) /\ UpTo(q, k) = Cat(UpTo(q, k - 1), q[k])
      BY <2>1, <3>1
    <3> DEFINE x == UpTo(q, k - 1)
               y == q[k]
    <3> HIDE DEF x, y
    <3>3. Len(Cat(x, y)) = Len(x) + Len(y) /\ Len(y) \in Nat
      BY <3>2, CatSeq, LenProperties DEF x, y
    <3> QED
      BY <3>2, <3>3 DEF x, y
  <2> QED
    BY <2>1, <2>2, <2>3
<1> HIDE DEF n, L
<1>2. Bad = {}
  <2>1. SUFFICES ASSUME Bad # {} PROVE FALSE
    OBVIOUS
  <2>2. PICK k \in Bad : \A m \in Bad : ~(<<m, k>> \in OpToRel(<, Nat))
    BY <2>1, WFMin, NatLessThanWellFounded, Zenon
  <2>3. k \in Nat /\ k <= n /\ ~(L(n - k) <= L(n))
    OBVIOUS
  <2>4. k # 0
    <3>1. n - 0 = n /\ L(n) <= L(n)
      BY <1>1
    <3> QED
      BY <2>3, <3>1
  <2>5. k - 1 \in Nat /\ k - 1 <= n
    BY <1>1, <2>3, <2>4
  <2>6. k - 1 \notin Bad
    <3>1. <<k - 1, k>> \in OpToRel(<, Nat)
      BY <2>3, <2>5 DEF OpToRel
    <3> HIDE DEF Bad
    <3> QED
      BY <2>2, <3>1
  <2> DEFINE m == n - (k - 1)
  <2>7. m \in 1..n /\ m - 1 = n - k /\ m - 1 \in 0..n /\ m \in 0..n /\ n \in 0..n
    BY <1>1, <2>3, <2>5
  <2>8. L(m) <= L(n)
    BY <2>5, <2>6
  <2> HIDE DEF m
  <2>9. L(m) = L(m - 1) + Len(q[m]) /\ Len(q[m]) \in Nat /\ L(m - 1) \in Nat /\ L(n) \in Nat
    BY <1>1, <2>7
  <2>10. L(m - 1) <= L(n)
    BY <2>8, <2>9
  <2> QED
    BY <2>3, <2>7, <2>10
<1>3. ASSUME NEW k \in 0..n PROVE L(k) <= L(n)
  <2>1. n - k \in Nat /\ n - k <= n /\ n - (n - k) = k
    BY <1>1
  <2>2. n - k \notin Bad
    BY <1>2
  <2> QED
    BY <2>1, <2>2
<1>4. L(n) \in Nat
  <2>1. n \in 0..n
    BY <1>1
  <2> QED
    BY <1>1, <2>1
<1> QED
  BY <1>1, <1>3, <1>4 DEF n, L

\* The type of a locked output and that of any other.
UtxoType(u) == IF u.lock = <<>> THEN 7 ELSE 22

UtxoValues(u) ==
  Append(Cat(Cat(Cat(<<0, u.tx_id, u.output_index, u.asset_id>>,
                     IF u.lock = <<>> THEN <<>> ELSE <<22, u.lock[1]>>),
                 <<7, u.amount>>),
             <<u.owners.locktime, u.owners.threshold>>),
         u.owners.addresses)

\* The bytes of each field of a UTXO.
UtxoCodes(u) ==
  Append(Cat(Cat(Cat(<<P!Digits(0, U16_LEN), u.tx_id, P!Digits(u.output_index, U32_LEN), u.asset_id>>,
                     IF u.lock = <<>> THEN <<>>
                     ELSE <<P!Digits(22, U32_LEN), P!Digits(u.lock[1], U64_LEN)>>),
                 <<P!Digits(7, U32_LEN), P!Digits(u.amount, U64_LEN)>>),
             <<P!Digits(u.owners.locktime, U64_LEN), P!Digits(u.owners.threshold, U32_LEN)>>),
         ListBytes(u.owners.addresses))

LEMMA UtxoIs ==
  ASSUME NEW u \in P!Utxo
  PROVE  /\ u = [tx_id |-> u.tx_id, output_index |-> u.output_index, asset_id |-> u.asset_id,
                 lock |-> u.lock, amount |-> u.amount, owners |-> u.owners]
         /\ u.owners = [locktime |-> u.owners.locktime, threshold |-> u.owners.threshold,
                        addresses |-> u.owners.addresses]
         /\ u.tx_id \in P!ByteString(IdLen) /\ u.output_index \in P!Number(U32_LEN)
         /\ u.asset_id \in P!ByteString(IdLen) /\ u.amount \in P!Number(U64_LEN)
         /\ u.owners.locktime \in P!Number(U64_LEN) /\ u.owners.threshold \in P!Number(U32_LEN)
         /\ u.owners.addresses \in P!Counted(P!ByteString(AddrLen), U32_LEN)
         /\ u.lock # <<>> => u.lock[1] \in P!Number(U64_LEN) /\ u.lock = <<u.lock[1]>>
<1>1. /\ u = [tx_id |-> u.tx_id, output_index |-> u.output_index, asset_id |-> u.asset_id,
              lock |-> u.lock, amount |-> u.amount, owners |-> u.owners]
      /\ u.tx_id \in P!ByteString(IdLen) /\ u.output_index \in P!Number(U32_LEN)
      /\ u.asset_id \in P!ByteString(IdLen) /\ u.amount \in P!Number(U64_LEN)
      /\ u.lock \in Seq(P!Number(U64_LEN)) /\ Len(u.lock) <= 1 /\ u.owners \in P!OutputOwners
  BY DEF P!Utxo
<1>2. /\ u.owners = [locktime |-> u.owners.locktime, threshold |-> u.owners.threshold,
                     addresses |-> u.owners.addresses]
      /\ u.owners.locktime \in P!Number(U64_LEN) /\ u.owners.threshold \in P!Number(U32_LEN)
      /\ u.owners.addresses \in P!Counted(P!ByteString(AddrLen), U32_LEN)
  BY <1>1 DEF P!OutputOwners
<1>3. ASSUME u.lock # <<>> PROVE u.lock[1] \in P!Number(U64_LEN) /\ u.lock = <<u.lock[1]>>
  <2> DEFINE l == u.lock
             Nums == P!Number(U64_LEN)
  <2>1. l \in Seq(Nums) /\ Len(l) <= 1 /\ l # <<>>
    BY <1>1, <1>3
  <2> HIDE DEF l, Nums
  <2>2. Len(l) = 1
    <3> DEFINE n == Len(l)
    <3>1. n \in Nat /\ n # 0 /\ n <= 1
      BY <2>1, EmptySeq, LenProperties
    <3> HIDE DEF n
    <3>2. n = 1
      BY <3>1
    <3> QED
      BY <3>2 DEF n
  <2>3. l[1] \in Nums
    BY <2>1, <2>2, ElementOfSeq
  <2>4. <<l[1]>> \in Seq(Nums) /\ Len(<<l[1]>>) = 1 /\ <<l[1]>>[1] = l[1]
    BY <2>3
  <2>5. \A i \in 1..1 : l[i] = <<l[1]>>[i]
    OBVIOUS
  <2>6. l = <<l[1]>>
    BY <2>1, <2>2, <2>4, <2>5, SeqEqual
  <2> QED
    BY <2>3, <2>6 DEF l, Nums
<1> QED
  BY <1>1, <1>2, <1>3

\* The bytes of the fields of a UTXO.
LEMMA UtxoBytes ==
  ASSUME NEW u \in P!Utxo
  PROVE  /\ P!Digits(0, U16_LEN) \in Codes /\ u.tx_id \in Codes
         /\ P!Digits(u.output_index, U32_LEN) \in Codes /\ u.asset_id \in Codes
         /\ P!Digits(7, U32_LEN) \in Codes /\ P!Digits(22, U32_LEN) \in Codes
         /\ P!Digits(u.amount, U64_LEN) \in Codes
         /\ P!Digits(u.owners.locktime, U64_LEN) \in Codes
         /\ P!Digits(u.owners.threshold, U32_LEN) \in Codes
         /\ u.lock # <<>> => P!Digits(u.lock[1], U64_LEN) \in Codes
         /\ ListBytes(u.owners.addresses) \in Codes
<1>1. P!Digits(0, U16_LEN) \in Codes /\ P!Digits(7, U32_LEN) \in Codes /\ P!Digits(22, U32_LEN) \in Codes
  BY DigitsAre, WidthsAre
<1>2. u.tx_id \in Codes /\ u.asset_id \in Codes
  BY UtxoIs, BytesAre
<1>3. /\ P!Digits(u.output_index, U32_LEN) \in Codes /\ P!Digits(u.amount, U64_LEN) \in Codes
      /\ P!Digits(u.owners.locktime, U64_LEN) \in Codes
      /\ P!Digits(u.owners.threshold, U32_LEN) \in Codes
      /\ u.lock # <<>> => P!Digits(u.lock[1], U64_LEN) \in Codes
  BY UtxoIs, NumberIs, WidthsAre
<1>4. ListBytes(u.owners.addresses) \in Codes
  <2>1. u.owners.addresses \in Seq(Codes)
    BY UtxoIs, StringsAre
  <2> QED
    BY <2>1, LengthCode
<1> QED
  BY <1>1, <1>2, <1>3, <1>4

LEMMA UtxoParts ==
  ASSUME NEW u \in P!Utxo
  PROVE  /\ UtxoCodes(u) \in Seq(Codes) /\ P!pack_utxo(u) \in Seq(Codes)
         /\ Flat(P!pack_utxo(u)) = Flat(UtxoCodes(u))
<1> DEFINE A == <<P!Digits(0, U16_LEN), u.tx_id, P!Digits(u.output_index, U32_LEN), u.asset_id>>
           L == IF u.lock = <<>> THEN <<>> ELSE <<P!Digits(22, U32_LEN), P!Digits(u.lock[1], U64_LEN)>>
           Ms == <<P!Digits(7, U32_LEN), P!Digits(u.amount, U64_LEN)>>
           g == P!Digits(u.owners.locktime, U64_LEN)
           h == P!Digits(u.owners.threshold, U32_LEN)
           O == <<g, h>>
           a == u.owners.addresses
           i == P!Digits(Len(a), U32_LEN)
           Y == ListBytes(a)
           D == Seq(Nat)
<1>1. A \in Seq(D) /\ L \in Seq(D) /\ Ms \in Seq(D) /\ O \in Seq(D) /\ Y \in Codes /\ g \in D /\ h \in D
  BY UtxoBytes DEF Codes
<1>2. a \in Seq(Codes) /\ i \in D
  <2>1. a \in Seq(Codes) /\ Len(a) \in P!Number(U32_LEN)
    BY UtxoIs, StringsAre
  <2> QED
    BY <2>1, NumberIs, WidthsAre DEF Codes
<1> DEFINE y == <<i>>
           E == Cat(y, a)
<1>3. /\ E \in Seq(D) /\ Flat(E) = Y /\ y \in Seq(D) /\ a \in Seq(D)
  <2> HIDE DEF a
  <2> QED
    BY <1>2, ListParts DEF Codes
<1>4. P!pack_utxo(u) = Cat(Cat(Cat(A, L), Ms), Cat(Cat(O, y), a))
  <2>1. <<g, h, i>> = Cat(O, y)
    BY <1>1, <1>2, ThreeIs
  <2>2. P!owners_parts(u.owners) = <<g, h, i>> \o a
    BY DEF P!owners_parts
  <2>3. P!pack_utxo(u) = Cat(Cat(Cat(A, L), Ms), P!owners_parts(u.owners))
    BY Zenon DEF P!pack_utxo, Cat
  <2> HIDE DEF A, L, Ms, O, y, a, g, h, i
  <2>4. P!owners_parts(u.owners) = Cat(Cat(O, y), a)
    BY <2>1, <2>2 DEF Cat
  <2> QED
    BY <2>3, <2>4
<1>5. UtxoCodes(u) = Append(Cat(Cat(Cat(A, L), Ms), O), Y)
  BY Zenon DEF UtxoCodes
<1>6. E = Cat(y, a)
  OBVIOUS
<1> HIDE DEF A, L, Ms, O, y, a, Y, E
<1> DEFINE Xs == Cat(Cat(A, L), Ms)
<1>7. Xs \in Seq(D) /\ Cat(Xs, O) \in Seq(D)
  BY <1>1, CatSeq
<1> HIDE DEF Xs
<1>8. P!pack_utxo(u) = Cat(Cat(Xs, O), E)
  <2>1. Cat(Cat(O, y), a) = Cat(O, E)
    BY <1>1, <1>3, <1>6, CatThree
  <2>2. Cat(Xs, Cat(O, E)) = Cat(Cat(Xs, O), E)
    BY <1>1, <1>3, <1>7, CatThree
  <2> QED
    BY <1>4, <2>1, <2>2 DEF Xs
<1>9. P!pack_utxo(u) \in Seq(D) /\ Flat(P!pack_utxo(u)) = Cat(Flat(Cat(Xs, O)), Y)
  BY <1>3, <1>7, <1>8, FlatCat
<1>10. UtxoCodes(u) \in Seq(D) /\ Flat(UtxoCodes(u)) = Cat(Flat(Cat(Xs, O)), Y)
  <2>1. UtxoCodes(u) = Append(Cat(Xs, O), Y)
    BY <1>5 DEF Xs
  <2> QED
    BY <1>1, <1>7, <2>1, FlatLast DEF Codes
<1> QED
  BY <1>9, <1>10 DEF Codes

LEMMA SmallNumbers ==
  /\ 0 \in P!Number(U16_LEN) /\ 7 \in P!Number(U32_LEN) /\ 22 \in P!Number(U32_LEN)
<1>1. P!Limit[U16_LEN] \in Nat \ {0} /\ P!Limit[U32_LEN] \in Nat
  BY WidthsAre, LimitIs
<1>2. P!Limit[U32_LEN] > 22
  BY PackAssumption
<1> QED
  BY <1>1, <1>2 DEF P!Number

\* What a field needs to be read.
FieldFits(type, n, v, q) ==
  type \in FieldKinds /\ n \in Nat /\ Fits(type, n, v) /\ q = KindCode(type, v)

LEMMA UtxoFieldFits ==
  ASSUME NEW u \in P!Utxo
  PROVE  /\ FieldFits("u16", 0, 0, P!Digits(0, U16_LEN))
         /\ FieldFits("bytes", IdLen, u.tx_id, u.tx_id)
         /\ FieldFits("u32", 0, u.output_index, P!Digits(u.output_index, U32_LEN))
         /\ FieldFits("bytes", IdLen, u.asset_id, u.asset_id)
         /\ FieldFits("u32", 0, 7, P!Digits(7, U32_LEN))
         /\ FieldFits("u32", 0, 22, P!Digits(22, U32_LEN))
         /\ u.lock # <<>> => FieldFits("u64", 0, u.lock[1], P!Digits(u.lock[1], U64_LEN))
         /\ FieldFits("u64", 0, u.amount, P!Digits(u.amount, U64_LEN))
         /\ FieldFits("u64", 0, u.owners.locktime, P!Digits(u.owners.locktime, U64_LEN))
         /\ FieldFits("u32", 0, u.owners.threshold, P!Digits(u.owners.threshold, U32_LEN))
         /\ FieldFits("2d_bytes", AddrLen, u.owners.addresses, ListBytes(u.owners.addresses))
<1>1. \A x \in P!Number(U16_LEN) : FieldFits("u16", 0, x, P!Digits(x, U16_LEN))
  BY DEF FieldFits, FieldKinds, Fits, KindCode, P!ValuesOf
<1>2. \A x \in P!Number(U32_LEN) : FieldFits("u32", 0, x, P!Digits(x, U32_LEN))
  BY DEF FieldFits, FieldKinds, Fits, KindCode, P!ValuesOf
<1>3. \A x \in P!Number(U64_LEN) : FieldFits("u64", 0, x, P!Digits(x, U64_LEN))
  BY DEF FieldFits, FieldKinds, Fits, KindCode, P!ValuesOf
<1>4. \A x \in P!ByteString(IdLen) : FieldFits("bytes", IdLen, x, x)
  BY WidthsAre DEF FieldFits, FieldKinds, Fits, KindCode
<1>5. \A x \in P!Counted(P!ByteString(AddrLen), U32_LEN) : FieldFits("2d_bytes", AddrLen, x, ListBytes(x))
  BY WidthsAre DEF FieldFits, FieldKinds, Fits, KindCode
<1> QED
  BY <1>1, <1>2, <1>3, <1>4, <1>5, UtxoIs, SmallNumbers

\* The fields of a UTXO fit, and give it.
UtxoGood(u, n) ==
  LET k == P!utxo_fields(u.lock # <<>>)
      v == UtxoValues(u)
      q == UtxoCodes(u)
  IN
  /\ Len(v) = n /\ Len(q) = n /\ DOMAIN k = 1..n /\ FieldsFit(k, n, v, q)
  /\ P!utxo_of(v, u.lock # <<>>) = u
  /\ q[1] = P!Digits(0, U16_LEN) /\ q[2] = u.tx_id /\ q[3] = P!Digits(u.output_index, U32_LEN)
  /\ q[4] = u.asset_id /\ q[5] = P!Digits(UtxoType(u), U32_LEN)

LEMMA PlainUtxo ==
  ASSUME NEW u \in P!Utxo, u.lock = <<>>
  PROVE  UtxoGood(u, 9) /\ \E V : UtxoValues(u) \in Seq(V)
<1> DEFINE k == P!utxo_fields(FALSE)
           v == UtxoValues(u)
           q == UtxoCodes(u)
<1>1. /\ Len(v) = 9 /\ v[1] = 0 /\ v[2] = u.tx_id /\ v[3] = u.output_index /\ v[4] = u.asset_id
      /\ v[5] = 7 /\ v[6] = u.amount /\ v[7] = u.owners.locktime /\ v[8] = u.owners.threshold
      /\ v[9] = u.owners.addresses /\ \E V : v \in Seq(V)
  <2> DEFINE a == u.tx_id
             b == u.output_index
             c == u.asset_id
             d == u.amount
             e == u.owners.locktime
             f == u.owners.threshold
             g == u.owners.addresses
             V == {0, a, b, c, 7, d, e, f, g}
  <2>1. v = Append(Cat(Cat(Cat(<<0, a, b, c>>, <<>>), <<7, d>>), <<e, f>>), g)
    BY DEF UtxoValues
  <2> HIDE DEF a, b, c, d, e, f, g, v
  <2>2. /\ v \in Seq(V) /\ Len(v) = 9 /\ v[1] = 0 /\ v[2] = a /\ v[3] = b /\ v[4] = c
        /\ v[5] = 7 /\ v[6] = d /\ v[7] = e /\ v[8] = f /\ v[9] = g
    BY <2>1 DEF Cat
  <2> HIDE DEF V
  <2> QED
    BY <2>2 DEF a, b, c, d, e, f, g
<1>2. /\ Len(q) = 9 /\ q[1] = P!Digits(0, U16_LEN) /\ q[2] = u.tx_id
      /\ q[3] = P!Digits(u.output_index, U32_LEN) /\ q[4] = u.asset_id /\ q[5] = P!Digits(7, U32_LEN)
      /\ q[6] = P!Digits(u.amount, U64_LEN) /\ q[7] = P!Digits(u.owners.locktime, U64_LEN)
      /\ q[8] = P!Digits(u.owners.threshold, U32_LEN) /\ q[9] = ListBytes(u.owners.addresses)
  <2> DEFINE z == P!Digits(0, U16_LEN)
             a == u.tx_id
             b == P!Digits(u.output_index, U32_LEN)
             c == u.asset_id
             t == P!Digits(7, U32_LEN)
             d == P!Digits(u.amount, U64_LEN)
             e == P!Digits(u.owners.locktime, U64_LEN)
             f == P!Digits(u.owners.threshold, U32_LEN)
             g == ListBytes(u.owners.addresses)
  <2>1. q = Append(Cat(Cat(Cat(<<z, a, b, c>>, <<>>), <<t, d>>), <<e, f>>), g)
    BY DEF UtxoCodes
  <2> HIDE DEF z, a, b, c, t, d, e, f, g, q
  <2>2. /\ Len(q) = 9 /\ q[1] = z /\ q[2] = a /\ q[3] = b /\ q[4] = c
        /\ q[5] = t /\ q[6] = d /\ q[7] = e /\ q[8] = f /\ q[9] = g
    BY <2>1 DEF Cat
  <2> QED
    BY <2>2 DEF z, a, b, c, t, d, e, f, g
<1>3. /\ DOMAIN k = 1..9 /\ k[1] = <<"u16", 0>> /\ k[2] = <<"bytes", IdLen>> /\ k[3] = <<"u32", 0>>
      /\ k[4] = <<"bytes", IdLen>> /\ k[5] = <<"u32", 0>> /\ k[6] = <<"u64", 0>>
      /\ k[7] = <<"u64", 0>> /\ k[8] = <<"u32", 0>> /\ k[9] = <<"2d_bytes", AddrLen>>
  BY UtxoKinds
<1> HIDE DEF v, q, k
<1>4. FieldsFit(k, 9, v, q)
  <2> DEFINE F(i) == FieldFits(k[i][1], k[i][2], v[i], q[i])
  <2>1. F(1) /\ F(2) /\ F(3) /\ F(4) /\ F(5) /\ F(6) /\ F(7) /\ F(8) /\ F(9)
    BY <1>1, <1>2, <1>3, UtxoFieldFits
  <2>2. \A i \in 1..9 : i = 1 \/ i = 2 \/ i = 3 \/ i = 4 \/ i = 5 \/ i = 6 \/ i = 7 \/ i = 8 \/ i = 9
    OBVIOUS
  <2> HIDE DEF F
  <2>3. \A i \in 1..9 : F(i)
    BY <2>1, <2>2
  <2> QED
    BY <2>3 DEF FieldsFit, FieldFits, F
<1>5. P!utxo_of(v, FALSE) = u
  <2>1. 9 - 3 = 6 /\ 9 - 2 = 7 /\ 9 - 1 = 8
    OBVIOUS
  <2>2. P!utxo_of(v, FALSE)
        = [tx_id |-> v[2], output_index |-> v[3], asset_id |-> v[4], lock |-> <<>>, amount |-> v[6],
           owners |-> [locktime |-> v[7], threshold |-> v[8], addresses |-> v[9]]]
    BY <1>1, <2>1, Zenon DEF P!utxo_of
  <2> QED
    BY <1>1, <2>2, UtxoIs
<1>6. (u.lock # <<>>) = FALSE /\ UtxoType(u) = 7
  BY DEF UtxoType
<1>7. UtxoGood(u, 9)
  <2>1. k = P!utxo_fields(u.lock # <<>>) /\ P!utxo_of(v, u.lock # <<>>) = u
    BY <1>5, <1>6, Zenon DEF k
  <2>2. q[5] = P!Digits(UtxoType(u), U32_LEN)
    BY <1>2, <1>6
  <2> QED
    BY <1>1, <1>2, <1>3, <1>4, <2>1, <2>2, Zenon DEF UtxoGood, v, q
<1> QED
  BY <1>1, <1>7 DEF v

LEMMA LockedUtxo ==
  ASSUME NEW u \in P!Utxo, u.lock # <<>>
  PROVE  UtxoGood(u, 11) /\ \E V : UtxoValues(u) \in Seq(V)
<1> DEFINE k == P!utxo_fields(TRUE)
           v == UtxoValues(u)
           q == UtxoCodes(u)
<1>1. /\ Len(v) = 11 /\ v[1] = 0 /\ v[2] = u.tx_id /\ v[3] = u.output_index /\ v[4] = u.asset_id
      /\ v[5] = 22 /\ v[6] = u.lock[1]
      /\ v[7] = 7 /\ v[8] = u.amount /\ v[9] = u.owners.locktime /\ v[10] = u.owners.threshold
      /\ v[11] = u.owners.addresses /\ \E V : v \in Seq(V)
  <2> DEFINE a == u.tx_id
             b == u.output_index
             c == u.asset_id
             l == u.lock[1]
             d == u.amount
             e == u.owners.locktime
             f == u.owners.threshold
             g == u.owners.addresses
             V == {0, a, b, c, 22, l, 7, d, e, f, g}
  <2>1. v = Append(Cat(Cat(Cat(<<0, a, b, c>>, <<22, l>>), <<7, d>>), <<e, f>>), g)
    BY DEF UtxoValues
  <2> HIDE DEF a, b, c, l, d, e, f, g, v
  <2>2. /\ v \in Seq(V) /\ Len(v) = 11 /\ v[1] = 0 /\ v[2] = a /\ v[3] = b /\ v[4] = c
        /\ v[5] = 22 /\ v[6] = l /\ v[7] = 7 /\ v[8] = d /\ v[9] = e /\ v[10] = f /\ v[11] = g
    BY <2>1 DEF Cat
  <2> HIDE DEF V
  <2> QED
    BY <2>2 DEF a, b, c, l, d, e, f, g
<1>2. /\ Len(q) = 11 /\ q[1] = P!Digits(0, U16_LEN) /\ q[2] = u.tx_id
      /\ q[3] = P!Digits(u.output_index, U32_LEN) /\ q[4] = u.asset_id
      /\ q[5] = P!Digits(22, U32_LEN) /\ q[6] = P!Digits(u.lock[1], U64_LEN)
      /\ q[7] = P!Digits(7, U32_LEN)
      /\ q[8] = P!Digits(u.amount, U64_LEN) /\ q[9] = P!Digits(u.owners.locktime, U64_LEN)
      /\ q[10] = P!Digits(u.owners.threshold, U32_LEN) /\ q[11] = ListBytes(u.owners.addresses)
  <2> DEFINE z == P!Digits(0, U16_LEN)
             a == u.tx_id
             b == P!Digits(u.output_index, U32_LEN)
             c == u.asset_id
             s == P!Digits(22, U32_LEN)
             l == P!Digits(u.lock[1], U64_LEN)
             t == P!Digits(7, U32_LEN)
             d == P!Digits(u.amount, U64_LEN)
             e == P!Digits(u.owners.locktime, U64_LEN)
             f == P!Digits(u.owners.threshold, U32_LEN)
             g == ListBytes(u.owners.addresses)
  <2>1. q = Append(Cat(Cat(Cat(<<z, a, b, c>>, <<s, l>>), <<t, d>>), <<e, f>>), g)
    BY DEF UtxoCodes
  <2> HIDE DEF z, a, b, c, s, l, t, d, e, f, g, q
  <2>2. /\ Len(q) = 11 /\ q[1] = z /\ q[2] = a /\ q[3] = b /\ q[4] = c
        /\ q[5] = s /\ q[6] = l /\ q[7] = t /\ q[8] = d /\ q[9] = e /\ q[10] = f /\ q[11] = g
    BY <2>1 DEF Cat
  <2> QED
    BY <2>2 DEF z, a, b, c, s, l, t, d, e, f, g
<1>3. /\ DOMAIN k = 1..11 /\ k[1] = <<"u16", 0>> /\ k[2] = <<"bytes", IdLen>> /\ k[3] = <<"u32", 0>>
      /\ k[4] = <<"bytes", IdLen>> /\ k[5] = <<"u32", 0>> /\ k[6] = <<"u64", 0>>
      /\ k[7] = <<"u32", 0>> /\ k[8] = <<"u64", 0>>
      /\ k[9] = <<"u64", 0>> /\ k[10] = <<"u32", 0>> /\ k[11] = <<"2d_bytes", AddrLen>>
  BY UtxoKinds
<1> HIDE DEF v, q, k
<1>4. FieldsFit(k, 11, v, q)
  <2> DEFINE F(i) == FieldFits(k[i][1], k[i][2], v[i], q[i])
  <2>1. F(1) /\ F(2) /\ F(3) /\ F(4) /\ F(5) /\ F(6) /\ F(7) /\ F(8) /\ F(9) /\ F(10) /\ F(11)
    BY <1>1, <1>2, <1>3, UtxoFieldFits
  <2>2. \A i \in 1..11 : \/ i = 1 \/ i = 2 \/ i = 3 \/ i = 4 \/ i = 5 \/ i = 6 \/ i = 7 \/ i = 8 \/ i = 9
                      \/ i = 10 \/ i = 11
    OBVIOUS
  <2> HIDE DEF F
  <2>3. \A i \in 1..11 : F(i)
    BY <2>1, <2>2
  <2> QED
    BY <2>3 DEF FieldsFit, FieldFits, F
<1>5. P!utxo_of(v, TRUE) = u
  <2>1. 11 - 3 = 8 /\ 11 - 2 = 9 /\ 11 - 1 = 10
    OBVIOUS
  <2>2. P!utxo_of(v, TRUE)
        = [tx_id |-> v[2], output_index |-> v[3], asset_id |-> v[4], lock |-> <<v[6]>>, amount |-> v[8],
           owners |-> [locktime |-> v[9], threshold |-> v[10], addresses |-> v[11]]]
    BY <1>1, <2>1, Zenon DEF P!utxo_of
  <2> QED
    BY <1>1, <2>2, UtxoIs
<1>6. (u.lock # <<>>) = TRUE /\ UtxoType(u) = 22
  BY DEF UtxoType
<1>7. UtxoGood(u, 11)
  <2>1. k = P!utxo_fields(u.lock # <<>>) /\ P!utxo_of(v, u.lock # <<>>) = u
    BY <1>5, <1>6, Zenon DEF k
  <2>2. q[5] = P!Digits(UtxoType(u), U32_LEN)
    BY <1>2, <1>6
  <2> QED
    BY <1>1, <1>2, <1>3, <1>4, <2>1, <2>2, Zenon DEF UtxoGood, v, q
<1> QED
  BY <1>1, <1>7 DEF v

LEMMA CutNumber ==
  ASSUME wire \in Codes, NEW at \in Nat, NEW w \in Nat, ~P!unpack_number(at, w).ok
  PROVE  P!unpack_number(at, w).v = 0
<1> DEFINE e == [i \in 1..0 |-> 0]
<1>1. 0 \in Nat /\ e \in [1..0 -> Nat]
  OBVIOUS
<1>2. P!Value(e) = 0
  <2> HIDE DEF e
  <2>1. PICK f : f[0] = 0 /\ f[0] = P!Value(e)
    BY <1>1, ValueIsPath
  <2> QED
    BY <2>1
<1>3. e = <<>>
  OBVIOUS
<1>4. P!unpack_number(at, w).v = P!Value(<<>>)
  BY DEF P!unpack_number, P!AsNumber, P!unpack_bytes
<1> QED
  BY <1>2, <1>3, <1>4

LEMMA UtxoResult ==
  ASSUME wire \in Codes, NEW locked \in BOOLEAN, NEW at \in Nat
  PROVE  IsResult(P!Fields(at, P!utxo_fields(locked)))
<1> DEFINE k == P!utxo_fields(locked)
           n == IF locked THEN 11 ELSE 9
<1>1. DOMAIN k = 1..n /\ \A i \in 1..n : k[i][1] \in FieldKinds /\ k[i][2] \in Nat
  <2>1. CASE locked
    <3>1. /\ DOMAIN k = 1..11 /\ k[1] = <<"u16", 0>> /\ k[2] = <<"bytes", IdLen>>
          /\ k[3] = <<"u32", 0>> /\ k[4] = <<"bytes", IdLen>> /\ k[5] = <<"u32", 0>>
          /\ k[6] = <<"u64", 0>> /\ k[7] = <<"u32", 0>> /\ k[8] = <<"u64", 0>>
          /\ k[9] = <<"u64", 0>> /\ k[10] = <<"u32", 0>> /\ k[11] = <<"2d_bytes", AddrLen>>
      BY <2>1, UtxoKinds
    <3> HIDE DEF k
    <3> DEFINE F(i) == k[i][1] \in FieldKinds /\ k[i][2] \in Nat
    <3>2. F(1) /\ F(2) /\ F(3) /\ F(4) /\ F(5) /\ F(6) /\ F(7) /\ F(8) /\ F(9) /\ F(10) /\ F(11)
      BY <3>1, WidthsAre DEF FieldKinds
    <3>3. \A i \in 1..11 : \/ i = 1 \/ i = 2 \/ i = 3 \/ i = 4 \/ i = 5 \/ i = 6 \/ i = 7 \/ i = 8
                           \/ i = 9 \/ i = 10 \/ i = 11
      OBVIOUS
    <3> HIDE DEF F
    <3>4. \A i \in 1..11 : F(i)
      BY <3>2, <3>3
    <3> QED
      BY <2>1, <3>1, <3>4 DEF F
  <2>2. CASE ~locked
    <3>1. /\ DOMAIN k = 1..9 /\ k[1] = <<"u16", 0>> /\ k[2] = <<"bytes", IdLen>>
          /\ k[3] = <<"u32", 0>> /\ k[4] = <<"bytes", IdLen>> /\ k[5] = <<"u32", 0>>
          /\ k[6] = <<"u64", 0>> /\ k[7] = <<"u64", 0>> /\ k[8] = <<"u32", 0>>
          /\ k[9] = <<"2d_bytes", AddrLen>>
      BY <2>2, UtxoKinds
    <3> HIDE DEF k
    <3> DEFINE F(i) == k[i][1] \in FieldKinds /\ k[i][2] \in Nat
    <3>2. F(1) /\ F(2) /\ F(3) /\ F(4) /\ F(5) /\ F(6) /\ F(7) /\ F(8) /\ F(9)
      BY <3>1, WidthsAre DEF FieldKinds
    <3>3. \A i \in 1..9 : i = 1 \/ i = 2 \/ i = 3 \/ i = 4 \/ i = 5 \/ i = 6 \/ i = 7 \/ i = 8 \/ i = 9
      OBVIOUS
    <3> HIDE DEF F
    <3>4. \A i \in 1..9 : F(i)
      BY <3>2, <3>3
    <3> QED
      BY <2>2, <3>1, <3>4 DEF F
  <2> QED
    BY <2>1, <2>2
<1> HIDE DEF k
<1>2. AreResults(k) /\ n \in Nat
  BY <1>1, FieldResult DEF AreResults
<1> HIDE DEF n
<1>3. IsResult(P!Fields(at, k))
  BY <1>1, <1>2, FieldsRun
<1> QED
  BY <1>3 DEF k

\* The fields of a UTXO, with those of a lock if it has one.
LEMMA ReadUtxoFields ==
  ASSUME wire \in Codes, NEW at \in 0..Len(wire), NEW u \in P!Utxo, Comes(at, Flat(UtxoCodes(u)))
  PROVE  LET v == UtxoValues(u)
             q == UtxoCodes(u)
             locked == u.lock # <<>>
         IN
         /\ Reads(P!Fields(at, P!utxo_fields(locked)), at, v, Flat(q))
         /\ P!utxo_of(v, locked) = u
         /\ Len(q) \in {9, 11} /\ q[1] = P!Digits(0, U16_LEN) /\ q[2] = u.tx_id
         /\ q[3] = P!Digits(u.output_index, U32_LEN)
         /\ q[4] = u.asset_id /\ q[5] = P!Digits(UtxoType(u), U32_LEN)
<1>1. PICK n \in {9, 11} : UtxoGood(u, n) /\ \E V : UtxoValues(u) \in Seq(V)
  BY PlainUtxo, LockedUtxo
<1>2. PICK V : UtxoValues(u) \in Seq(V)
  BY <1>1
<1> DEFINE v == UtxoValues(u)
           q == UtxoCodes(u)
           k == P!utxo_fields(u.lock # <<>>)
<1>3. /\ Len(v) = n /\ Len(q) = n /\ DOMAIN k = 1..n /\ FieldsFit(k, n, v, q)
      /\ P!utxo_of(v, u.lock # <<>>) = u
      /\ q[1] = P!Digits(0, U16_LEN) /\ q[2] = u.tx_id /\ q[3] = P!Digits(u.output_index, U32_LEN)
      /\ q[4] = u.asset_id /\ q[5] = P!Digits(UtxoType(u), U32_LEN)
  BY <1>1, Zenon DEF UtxoGood
<1>4. q \in Seq(Codes) /\ n \in Nat /\ v \in Seq(V) /\ Comes(at, Flat(q))
  BY <1>2, UtxoParts
<1> HIDE DEF v, q, k
<1>5. Reads(P!Fields(at, k), at, v, Flat(q))
  BY <1>3, <1>4, FieldsGive
<1> QED
  BY <1>3, <1>5, Zenon DEF v, q, k

\* The number that tells whether an output is locked.
LEMMA TypeNumber ==
  ASSUME wire \in Codes, NEW at \in 0..Len(wire), NEW u \in P!Utxo, Comes(at, Flat(UtxoCodes(u)))
  PROVE  LET a == at + U16_LEN + 2 * IdLen + U32_LEN
             r == P!unpack_number(a, U32_LEN)
         IN  /\ a \in Nat /\ UtxoType(u) \in {7, 22}
             /\ r.ok => r.v = UtxoType(u)
             /\ ~r.ok => r.v = 0 /\ ~(at + Len(Flat(UtxoCodes(u))) <= Len(wire))
<1> DEFINE q == UtxoCodes(u)
           t == UtxoType(u)
           L(k) == Len(UpTo(q, k))
           a == at + U16_LEN + 2 * IdLen + U32_LEN
           r == P!unpack_number(a, U32_LEN)
           F == Len(Flat(q))
           W == Len(wire)
<1>1. /\ Len(q) \in {9, 11} /\ q[1] = P!Digits(0, U16_LEN) /\ q[2] = u.tx_id
      /\ q[3] = P!Digits(u.output_index, U32_LEN)
      /\ q[4] = u.asset_id /\ q[5] = P!Digits(t, U32_LEN) /\ q \in Seq(Codes)
  BY ReadUtxoFields, UtxoParts
<1>2. t \in {7, 22} /\ t \in P!Number(U32_LEN)
  BY SmallNumbers DEF UtxoType
<1>3. /\ Len(q[1]) = U16_LEN /\ Len(q[2]) = IdLen /\ Len(q[3]) = U32_LEN /\ Len(q[4]) = IdLen
      /\ Len(q[5]) = U32_LEN
  <2>1. Len(u.tx_id) = IdLen /\ Len(u.asset_id) = IdLen
    BY UtxoIs, BytesAre
  <2>2. u.output_index \in Nat /\ t \in Nat /\ 0 \in Nat
    BY <1>2, UtxoIs, NumberIs, WidthsAre
  <2> QED
    BY <1>1, <2>1, <2>2, DigitsAre, WidthsAre
<1>4. Comes(at, Flat(q)) /\ W \in Nat /\ at \in Nat /\ at <= W
  <2>1. W \in Nat
    BY LenProperties DEF Codes
  <2> QED
    BY <2>1
<1> HIDE DEF q, t, W
<1>5. /\ F \in Nat /\ L(0) = 0 /\ L(1) = L(0) + U16_LEN /\ L(2) = L(1) + IdLen
      /\ L(3) = L(2) + U32_LEN /\ L(4) = L(3) + IdLen /\ L(5) = L(4) + U32_LEN /\ L(5) <= F
  <2>1. /\ F \in Nat /\ \A k \in 0..Len(q) : L(k) <= F
        /\ \A k \in 1..Len(q) : L(k) = L(k - 1) + Len(q[k])
    BY <1>1, UpToShort DEF Codes
  <2>2. L(0) = 0
    BY DEF UpTo
  <2>3. /\ 1 \in 1..Len(q) /\ 2 \in 1..Len(q) /\ 3 \in 1..Len(q) /\ 4 \in 1..Len(q) /\ 5 \in 1..Len(q)
        /\ 5 \in 0..Len(q) /\ 1 - 1 = 0 /\ 2 - 1 = 1 /\ 3 - 1 = 2 /\ 4 - 1 = 3 /\ 5 - 1 = 4
    BY <1>1
  <2> HIDE DEF L, F
  <2> QED
    BY <1>3, <2>1, <2>2, <2>3
<1>6. /\ at + L(4) \in Nat /\ Comes(at + L(4), q[5])
  <2>1. 5 \in 1..Len(q) /\ 5 - 1 = 4
    BY <1>1
  <2> QED
    BY <1>1, <1>4, <2>1, PlaceOf
<1> HIDE DEF L, F
<1>7. a = at + L(4) /\ a \in Nat
  BY <1>4, <1>5, WidthsAre
<1> HIDE DEF a
<1>8. Reads(r, a, t, P!Digits(t, U32_LEN)) /\ a + U32_LEN <= at + F
  <2>1. Reads(r, a, t, P!Digits(t, U32_LEN))
    BY <1>1, <1>2, <1>6, <1>7, ReadNumber, WidthsAre
  <2>2. a + U32_LEN <= at + F
    <3>1. L(4) \in Nat /\ at \in Nat /\ U32_LEN \in Nat
      BY <1>4, <1>5, WidthsAre
    <3>2. L(4) + U32_LEN <= F /\ F \in Nat
      BY <1>5
    <3>3. a = at + L(4)
      BY <1>7
    <3> QED
      BY <3>1, <3>2, <3>3
  <2> QED
    BY <2>1, <2>2
<1>9. Len(P!Digits(t, U32_LEN)) = U32_LEN
  BY <1>1, <1>3
<1>10. r.ok <=> a + U32_LEN <= W
  BY <1>8, <1>9 DEF Reads, W
<1>11. r.ok => r.v = t
  BY <1>8 DEF Reads
<1>12. ASSUME ~r.ok PROVE r.v = 0 /\ ~(at + F <= W)
  <2>1. r.v = 0
    BY <1>7, <1>12, CutNumber, WidthsAre
  <2> HIDE DEF r
  <2>2. ~(a + U32_LEN <= W)
    BY <1>10, <1>12
  <2>3. ~(at + F <= W)
    BY <1>4, <1>5, <1>7, <1>8, <2>2, WidthsAre
  <2> QED
    BY <2>1, <2>3
<1> HIDE DEF r
<1>13. a \in Nat /\ t \in {7, 22} /\ (r.ok => r.v = t) /\ (~r.ok => r.v = 0 /\ ~(at + F <= W))
  BY <1>2, <1>7, <1>11, <1>12
<1> QED
  BY <1>13, Zenon DEF r, a, F, W, q, t

LEMMA ReadUtxo ==
  ASSUME wire \in Codes, NEW at \in 0..Len(wire), NEW u \in P!Utxo,
         Comes(at, Flat(P!pack_utxo(u)))
  PROVE  Reads(P!unpack_utxo(at), at, u, Flat(P!pack_utxo(u)))
<1> DEFINE q == UtxoCodes(u)
           v == UtxoValues(u)
           p == Flat(P!pack_utxo(u))
           t == UtxoType(u)
           a == at + U16_LEN + 2 * IdLen + U32_LEN
           n == P!unpack_number(a, U32_LEN)
           s == P!unpack_utxo(at)
           W == Len(wire)
           E == at + Len(p)
           R(type) == P!Fields(at, P!utxo_fields(type = 22))
<1>1. p = Flat(q) /\ Comes(at, Flat(q))
  BY UtxoParts
<1>2. s = P!AsUtxo(n.v, R(n.v))
  BY Zenon DEF P!unpack_utxo, P!unpack_utxo_of
<1>9. \A m : m = n.v => s = P!AsUtxo(m, R(m))
  BY <1>2, Zenon
<1>3. /\ t \in {7, 22}
      /\ n.ok => n.v = t
      /\ ~n.ok => n.v = 0 /\ ~(E <= W)
  <2>1. Len(Flat(q)) = Len(p)
    BY <1>1
  <2> QED
    BY <1>1, <2>1, TypeNumber
<1>4. (t = 22) = (u.lock # <<>>)
  BY DEF UtxoType
<1>5. Reads(R(t), at, v, p) /\ P!utxo_of(v, t = 22) = u
  <2>1. Reads(P!Fields(at, P!utxo_fields(u.lock # <<>>)), at, v, Flat(q)) /\ P!utxo_of(v, u.lock # <<>>) = u
    BY <1>1, ReadUtxoFields
  <2> DEFINE b == u.lock # <<>>
             c == t = 22
  <2>2. b = c
    BY <1>4
  <2>3. Reads(P!Fields(at, P!utxo_fields(b)), at, v, Flat(q)) /\ P!utxo_of(v, b) = u
    BY <2>1
  <2> HIDE DEF v, q, p, t, b, c
  <2>4. Reads(P!Fields(at, P!utxo_fields(c)), at, v, p) /\ P!utxo_of(v, c) = u
    BY <1>1, <2>2, <2>3
  <2> QED
    BY <2>4 DEF c
<1>6. n.ok \in BOOLEAN
  <2>1. a \in Nat
    BY <1>1, TypeNumber
  <2>2. n \in Result(Nat)
    BY <2>1, NumberResult, WidthsAre
  <2> QED
    BY <2>2 DEF Result
<1> HIDE DEF q, v, p, t, a, n, s, R, W, E
<1> SUFFICES Reads(s, at, u, p)
  BY DEF s, p
<1>7. CASE n.ok
  <2> DEFINE r == R(t)
  <2>1. s = P!AsUtxo(t, r)
    BY <1>9, <1>3, <1>7
  <2>2. /\ r = [ok |-> r.ok, v |-> r.v, at |-> r.at] /\ r.ok \in BOOLEAN /\ (r.ok <=> at + Len(p) <= Len(wire))
        /\ r.ok => r.v = v /\ r.at = at + Len(p)
    BY <1>5 DEF Reads
  <2> HIDE DEF r
  <2>3. CASE r.ok
    <3>1. s = [r EXCEPT !.v = u]
      <4>1. s = [r EXCEPT !.v = P!utxo_of(@, t = 22)]
        BY <1>3, <2>1, <2>3, Zenon DEF P!AsUtxo
      <4>2. r.v = v /\ P!utxo_of(v, t = 22) = u
        BY <1>5, <2>2, <2>3
      <4> QED
        BY <4>1, <4>2, Zenon
    <3>2. s = [ok |-> s.ok, v |-> s.v, at |-> s.at] /\ s.ok = r.ok /\ s.v = u /\ s.at = r.at
      BY <2>2, <3>1
    <3> QED
      BY <2>2, <3>2 DEF Reads
  <2>4. CASE ~r.ok
    <3>1. s = [r EXCEPT !.ok = FALSE]
      BY <1>3, <2>1, <2>4, Zenon DEF P!AsUtxo
    <3>2. s = [ok |-> s.ok, v |-> s.v, at |-> s.at] /\ s.ok = FALSE
      BY <2>2, <3>1
    <3> QED
      BY <2>2, <2>4, <3>2 DEF Reads
  <2> QED
    BY <2>3, <2>4
<1>8. CASE ~n.ok
  <2> DEFINE r == R(0)
  <2>1. s = P!AsUtxo(0, r) /\ ~(E <= W)
    BY <1>9, <1>3, <1>8
  <2>2. r = [ok |-> r.ok, v |-> r.v, at |-> r.at]
    <3>1. at \in Nat
      BY LenProperties DEF Codes
    <3>2. IsResult(P!Fields(at, P!utxo_fields(0 = 22)))
      BY <3>1, UtxoResult
    <3>3. IsResult(r)
      BY <3>2 DEF R
    <3> HIDE DEF r
    <3> QED
      BY <3>3 DEF IsResult
  <2> HIDE DEF r
  <2>3. s = [r EXCEPT !.ok = FALSE]
    BY <2>1 DEF P!AsUtxo
  <2>4. s = [ok |-> s.ok, v |-> s.v, at |-> s.at] /\ s.ok = FALSE
    BY <2>2, <2>3
  <2> QED
    BY <2>1, <2>4 DEF Reads, E, W
<1> QED
  BY <1>6, <1>7, <1>8

\* What can be packed, and the bytes it becomes.
Packable == UNION {{type} \X P!ValuesOf(type) : type \in P!Kinds}
Code(item) == Flat(P!Parts(item))

\* What the reader knows of the length of bytes.
SizeOf(item) ==
  CASE item[1] = "bytes" -> Len(item[2])
    [] item[1] = "2d_bytes" -> Len(item[2][1])
    [] OTHER -> 0

LEMMA PackableIs ==
  ASSUME NEW item \in Packable
  PROVE  item = <<item[1], item[2]>> /\ item[1] \in P!Kinds /\ item[2] \in P!ValuesOf(item[1])
<1>1. PICK type \in P!Kinds : item \in {type} \X P!ValuesOf(type)
  BY DEF Packable
<1> DEFINE S == P!ValuesOf(type)
<1>2. item \in {type} \X S
  BY <1>1
<1> HIDE DEF S
<1>3. item = <<item[1], item[2]>> /\ item[1] = type /\ item[2] \in S
  BY <1>2
<1> QED
  BY <1>3 DEF S

LEMMA SizeFits ==
  ASSUME NEW type \in P!Kinds \ {"utxo", "vertex"}, NEW v \in P!ValuesOf(type)
  PROVE  SizeOf(<<type, v>>) \in Nat /\ Fits(type, SizeOf(<<type, v>>), v)
<1>1. CASE type = "bytes"
  <2>1. v \in Seq(P!Byte)
    BY <1>1 DEF P!ValuesOf
  <2>2. SizeOf(<<type, v>>) = Len(v) /\ Len(v) \in Nat
    BY <1>1, <2>1, LenProperties DEF SizeOf
  <2> QED
    BY <1>1, <2>1, <2>2 DEF Fits, P!ByteString
<1>2. CASE type = "2d_bytes"
  <2> DEFINE n == Len(v[1])
  <2>1. v \in P!Counted(Seq(P!Byte), U32_LEN) /\ v # <<>> /\ v \in Seq(P!ByteString(n))
    BY <1>2 DEF P!ValuesOf
  <2>2. SizeOf(<<type, v>>) = n
    BY <1>2 DEF SizeOf
  <2>3. n \in Nat
    <3>1. v[1] \in Seq(P!Byte)
      <4>1. v \in Seq(Seq(P!Byte)) /\ v # <<>>
        BY <2>1 DEF P!Counted
      <4>2. 1 \in 1..Len(v)
        <5> DEFINE m == Len(v)
        <5>1. m \in Nat /\ m # 0
          BY <4>1, EmptySeq, LenProperties
        <5> HIDE DEF m
        <5>2. 1 \in 1..m
          BY <5>1
        <5> QED
          BY <5>2 DEF m
      <4> QED
        BY <4>1, <4>2, ElementOfSeq
    <3> QED
      BY <3>1, LenProperties
  <2>4. Len(v) \in P!Number(U32_LEN)
    BY <2>1 DEF P!Counted
  <2> HIDE DEF n
  <2>5. v \in P!Counted(P!ByteString(n), U32_LEN)
    BY <2>1, <2>4 DEF P!Counted
  <2> QED
    BY <1>2, <2>2, <2>3, <2>5 DEF Fits
<1>3. CASE type \notin {"bytes", "2d_bytes"}
  BY <1>3 DEF SizeOf, Fits
<1> QED
  BY <1>1, <1>2, <1>3

\* Every item becomes bytes, put part by part.
LEMMA ItemCode ==
  ASSUME NEW item \in Packable
  PROVE  P!Parts(item) \in Seq(Codes) /\ Code(item) \in Codes
<1> DEFINE type == item[1]
           v == item[2]
<1>1. item = <<type, v>> /\ type \in P!Kinds /\ v \in P!ValuesOf(type)
  BY PackableIs
<1>2. P!Parts(item) \in Seq(Codes)
  <2>1. CASE type = "utxo"
    <3>1. P!Parts(item) = P!pack_utxo(v)
      BY <2>1 DEF P!Parts
    <3>2. v \in P!Utxo
      BY <1>1, <2>1 DEF P!ValuesOf
    <3> QED
      BY <3>1, <3>2, UtxoParts
  <2>2. CASE type = "vertex"
    <3>1. P!Parts(item) = P!pack_vertex(v)
      BY <2>2 DEF P!Parts
    <3>2. v \in P!Vertex
      BY <1>1, <2>2 DEF P!ValuesOf
    <3> QED
      BY <3>1, <3>2, VertexParts
  <2>3. CASE type \notin {"utxo", "vertex"}
    <3>1. type \in P!Kinds \ {"utxo", "vertex"}
      BY <1>1, <2>3
    <3> HIDE DEF type, v
    <3>2. P!Parts(<<type, v>>) \in Seq(Codes)
      BY <1>1, <3>1, SizeFits, KindParts
    <3> QED
      BY <1>1, <3>2
  <2> QED
    BY <2>1, <2>2, <2>3
<1>3. Code(item) \in Codes
  BY <1>2, FlatSeq DEF Code, Codes
<1> QED
  BY <1>2, <1>3

\* What an item became is read as the item.
LEMMA ItemReads ==
  ASSUME wire \in Codes, NEW item \in Packable, NEW at \in 0..Len(wire), Comes(at, Code(item))
  PROVE  Reads(P!UnpackLike(item, at), at, item[2], Code(item))
<1> DEFINE type == item[1]
           v == item[2]
           n == SizeOf(item)
           r == P!UnpackLike(item, at)
<1>1. item = <<type, v>> /\ type \in P!Kinds /\ v \in P!ValuesOf(type)
  BY PackableIs
<1>2. CASE type = "utxo"
  <2>1. P!Parts(item) = P!pack_utxo(v) /\ r = P!unpack_utxo(at)
    BY <1>2 DEF P!Parts, P!UnpackLike
  <2>2. v \in P!Utxo
    BY <1>1, <1>2 DEF P!ValuesOf
  <2>3. Code(item) = Flat(P!pack_utxo(v))
    BY <2>1 DEF Code
  <2> HIDE DEF v
  <2> QED
    BY <2>1, <2>2, <2>3, ReadUtxo DEF v
<1>3. CASE type = "vertex"
  <2>1. P!Parts(item) = P!pack_vertex(v) /\ r = P!unpack_vertex(at)
    BY <1>3 DEF P!Parts, P!UnpackLike
  <2>2. v \in P!Vertex
    BY <1>1, <1>3 DEF P!ValuesOf
  <2>3. Code(item) = Flat(P!pack_vertex(v))
    BY <2>1 DEF Code
  <2> HIDE DEF v
  <2> QED
    BY <2>1, <2>2, <2>3, ReadVertex DEF v
<1>4. CASE type \notin {"utxo", "vertex"}
  <2>1. type \in P!Kinds \ {"utxo", "vertex"}
    BY <1>1, <1>4
  <2>2. r = P!Unpack(type, n, at)
    BY <1>4, <1>1 DEF P!UnpackLike, SizeOf
  <2> HIDE DEF type, v
  <2>3. n = SizeOf(<<type, v>>)
    BY <1>1
  <2> HIDE DEF n, r
  <2>4. n \in Nat /\ Fits(type, n, v)
    BY <1>1, <2>1, <2>3, SizeFits
  <2>5. Code(item) = KindCode(type, v)
    BY <1>1, <2>1, <2>4, KindParts DEF Code
  <2>6. at \in Nat
    BY LenProperties DEF Codes
  <2>7. Reads(P!Unpack(type, n, at), at, v, KindCode(type, v))
    BY <2>1, <2>4, <2>5, <2>6, KindReads
  <2> QED
    BY <2>2, <2>5, <2>7 DEF v, r
<1> QED
  BY <1>2, <1>3, <1>4

IsPacker(p) ==
  /\ p = [max_size |-> p.max_size, header |-> p.header, made |-> p.made, bytes |-> p.bytes,
          offset |-> p.offset, ok |-> p.ok]
  /\ p.max_size \in Nat /\ p.header \in BOOLEAN /\ p.made \in Nat /\ p.bytes \in Codes
  /\ p.offset \in Nat /\ p.ok \in BOOLEAN

LEMMA PutTyped ==
  ASSUME NEW p, IsPacker(p), NEW c \in Codes
  PROVE  /\ IsPacker(P!Put(p, c))
         /\ P!Put(p, c).ok =>
              /\ p.ok /\ P!expand(p, Len(c))
              /\ P!Put(p, c).bytes = Cat(p.bytes, c)
              /\ P!Put(p, c).offset = p.offset + Len(c)
              /\ P!Put(p, c).max_size = p.max_size /\ P!Put(p, c).header = p.header
              /\ P!Put(p, c).made = p.made
<1> DEFINE r == P!Put(p, c)
           b == Cat(p.bytes, c)
           o == p.offset + Len(c)
<1>1. b \in Codes /\ o \in Nat
  <2> DEFINE x == p.bytes
  <2>1. x \in Seq(Nat) /\ c \in Seq(Nat) /\ p.offset \in Nat
    BY DEF IsPacker, Codes
  <2> HIDE DEF x
  <2>2. Cat(x, c) \in Seq(Nat)
    BY <2>1, CatSeq
  <2>3. Len(c) \in Nat
    BY <2>1, LenProperties
  <2>4. o \in Nat
    BY <2>1, <2>3
  <2> QED
    BY <2>2, <2>4 DEF x, Codes
<1>2. CASE p.ok /\ P!expand(p, Len(c))
  <2>1. r = [p EXCEPT !.bytes = b, !.offset = o]
    BY <1>2, Zenon DEF P!Put, Cat
  <2> HIDE DEF r, b, o
  <2>2. /\ r = [max_size |-> p.max_size, header |-> p.header, made |-> p.made, bytes |-> b,
                offset |-> o, ok |-> p.ok]
    BY <2>1 DEF IsPacker
  <2>3. IsPacker(r) /\ r.bytes = b /\ r.offset = o /\ r.max_size = p.max_size /\ r.header = p.header
        /\ r.made = p.made
    BY <1>1, <2>2 DEF IsPacker
  <2> QED
    BY <1>2, <2>3 DEF r, b, o
<1>3. CASE ~(p.ok /\ P!expand(p, Len(c)))
  <2>1. r = [p EXCEPT !.ok = FALSE]
    BY <1>3, Zenon DEF P!Put
  <2> HIDE DEF r
  <2>2. IsPacker(r) /\ r.ok = FALSE
    BY <2>1 DEF IsPacker
  <2> QED
    BY <2>2 DEF r
<1> QED
  BY <1>2, <1>3

\* The packers there are.
Packers ==
  [max_size : Nat, header : BOOLEAN, made : Nat, bytes : Codes, offset : Nat, ok : BOOLEAN]

LEMMA PackersAre ==
  ASSUME NEW p
  PROVE  p \in Packers <=> IsPacker(p)
BY DEF Packers, IsPacker

\* All parts put, one after the other.
AllPut(p, q) == P!FoldLeft(P!Put, p, q)

\* The packers while they are.
LEMMA PutPath ==
  ASSUME NEW p, IsPacker(p), NEW q \in Seq(Codes)
  PROVE  \E f : /\ f[0] = p /\ f[Len(q)] = AllPut(p, q)
                /\ \A k \in 1..Len(q) : f[k] = P!Put(f[k - 1], q[k])
                /\ \A k \in 0..Len(q) : IsPacker(f[k])
<1> DEFINE n == Len(q)
           F == [x \in Packers \X (1..n) |-> P!Put(x[1], q[x[2]])]
           Is(h) == h = [t \in SUBSET (1..n) |->
                           IF t = {} THEN p ELSE P!Put(h[t \ {GreatestOf(t)}], q[GreatestOf(t)])]
           h == CHOOSE h : Is(h)
           f == [k \in 0..n |-> h[1..k]]
           r == AllPut(p, q)
<1>1. n \in Nat /\ DOMAIN q = 1..n /\ p \in Packers /\ \A k \in 1..n : q[k] \in Codes
  BY PackersAre, LenProperties, ElementOfSeq
<1>2. r = h[1..n]
  BY <1>1, Zenon DEF AllPut, P!FoldLeft, P!MapThenFoldSet, P!Max, GreatestOf
<1> HIDE DEF n
<1>3. ASSUME NEW x \in Packers, NEW k \in 1..n
      PROVE  F[<<x, k>>] = P!Put(x, q[k]) /\ F[<<x, k>>] \in Packers
  <2>1. <<x, k>> \in Packers \X (1..n) /\ <<x, k>>[1] = x /\ <<x, k>>[2] = k
    OBVIOUS
  <2>2. P!Put(x, q[k]) \in Packers
    BY <1>1, PackersAre, PutTyped
  <2>3. F[<<x, k>>] = P!Put(x, q[k])
    BY <2>1
  <2> QED
    BY <2>2, <2>3
<1>4. F \in [Packers \X (1..n) -> Packers]
  <2>1. ASSUME NEW x \in Packers \X (1..n) PROVE F[x] \in Packers
    <3>1. x = <<x[1], x[2]>> /\ x[1] \in Packers /\ x[2] \in 1..n
      OBVIOUS
    <3> HIDE DEF F
    <3> QED
      BY <1>3, <3>1
  <2>2. F = [x \in Packers \X (1..n) |-> F[x]]
    OBVIOUS
  <2> HIDE DEF F
  <2> QED
    BY <2>1, <2>2
<1> HIDE DEF F
<1>5. PICK g : Folds(g, F, Packers, p, n)
  BY <1>1, <1>4, FoldExists
<1>6. Is(g)
  <2>1. ASSUME NEW t \in SUBSET (1..n), t # {}
        PROVE  g[t] = P!Put(g[t \ {GreatestOf(t)}], q[GreatestOf(t)])
    <3> DEFINE x == GreatestOf(t)
               y == g[t \ {x}]
    <3>1. x \in 1..n /\ y \in Packers
      BY <1>1, <1>5, <2>1, GreatestIn DEF Folds
    <3>2. g[t] = F[<<y, x>>]
      BY <1>5, <2>1 DEF Folds
    <3> HIDE DEF x, y
    <3>3. g[t] = P!Put(y, q[x])
      BY <1>3, <3>1, <3>2
    <3> QED
      BY <3>3 DEF y, x
  <2> QED
    BY <1>5, <2>1 DEF Folds
<1>7. Is(h)
  <2> HIDE DEF Is
  <2> QED
    BY <1>6
<1> HIDE DEF h
<1>8. f[0] = p /\ f[n] = h[1..n]
  <2>1. 0 \in 0..n /\ n \in 0..n
    BY <1>1
  <2>2. h[{}] = p /\ 1..0 = {}
    BY <1>1, <1>7, Ups
  <2> QED
    BY <2>1, <2>2
<1>9. ASSUME NEW k \in 1..n PROVE f[k] = P!Put(f[k - 1], q[k])
  <2> DEFINE Ks == 1..k
  <2>1. Ks \in SUBSET (1..n) /\ Ks # {} /\ GreatestOf(Ks) = k /\ Ks \ {k} = 1..(k - 1)
    BY <1>1, Ups
  <2>2. k \in 0..n /\ k - 1 \in 0..n
    BY <1>1
  <2>3. f[k] = h[Ks] /\ f[k - 1] = h[1..(k - 1)]
    BY <2>2
  <2> HIDE DEF Ks, f
  <2>4. h[Ks] = P!Put(h[Ks \ {GreatestOf(Ks)}], q[GreatestOf(Ks)])
    BY <1>7, <2>1, Zenon
  <2> QED
    BY <2>1, <2>3, <2>4
<1> HIDE DEF f, r
<1>10. \A k \in 0..n : f[k] \in Packers
  <2>1. ASSUME NEW k \in 1..n, f[k - 1] \in Packers PROVE f[k] = F[<<f[k - 1], k>>]
    BY <1>3, <1>9, <2>1
  <2> QED
    BY <1>1, <1>4, <1>8, <2>1, PathTyped
<1>11. \A k \in 0..n : IsPacker(f[k])
  BY <1>10, PackersAre
<1>12. /\ f[0] = p /\ f[n] = r /\ \A k \in 1..n : f[k] = P!Put(f[k - 1], q[k])
       /\ \A k \in 0..n : IsPacker(f[k])
  BY <1>2, <1>8, <1>9, <1>11
<1> QED
  BY <1>12 DEF n, r

\* r is p with more bytes, and no more than m of them.
PutOnto(p, b, r, m) ==
  /\ p.ok /\ r.bytes = Cat(p.bytes, b) /\ r.offset = Len(r.bytes) /\ Len(r.bytes) <= m
  /\ r.max_size = p.max_size /\ r.header = p.header /\ r.made = p.made

LEMMA PutOne ==
  ASSUME NEW p, IsPacker(p), NEW b \in Codes, NEW r, IsPacker(r), NEW m \in Nat, p.max_size <= m,
         r.ok => PutOnto(p, b, r, m), NEW c \in Codes, P!Put(r, c).ok
  PROVE  PutOnto(p, Cat(b, c), P!Put(r, c), m)
<1> DEFINE s == P!Put(r, c)
           x == p.bytes
           y == r.bytes
           z == s.bytes
           n == Len(c)
           l == Len(y)
           o == r.max_size
<1>1. /\ r.ok /\ P!expand(r, Len(c)) /\ s.bytes = Cat(r.bytes, c) /\ s.offset = r.offset + Len(c)
      /\ s.max_size = r.max_size /\ s.header = r.header /\ s.made = r.made
  BY PutTyped
<1>2. PutOnto(p, b, r, m)
  BY <1>1
<1>3. x \in Seq(Nat) /\ y \in Seq(Nat) /\ b \in Seq(Nat) /\ c \in Seq(Nat)
  BY DEF IsPacker, Codes
<1>4. y = Cat(x, b) /\ r.offset = l /\ l <= m /\ z = Cat(y, c)
  BY <1>1, <1>2 DEF PutOnto
<1>5. l + n <= l \/ l + n <= o
  BY <1>1, <1>4 DEF P!expand
<1>6. o = p.max_size
  BY <1>2 DEF PutOnto
<1> HIDE DEF s, x, y, z
<1>7. Cat(y, c) = Cat(x, Cat(b, c)) /\ Len(Cat(y, c)) = l + n /\ l \in Nat /\ n \in Nat
  <2>1. Len(Cat(y, c)) = l + n /\ l \in Nat /\ n \in Nat
    BY <1>3, CatSeq, LenProperties
  <2>2. Cat(y, c) = Cat(x, Cat(b, c))
    BY <1>3, <1>4, CatThree
  <2> QED
    BY <2>1, <2>2
<1> HIDE DEF l, n, o
<1>8. l + n <= m /\ o \in Nat
  <2>1. o \in Nat
    BY DEF o, IsPacker
  <2> QED
    BY <1>4, <1>5, <1>6, <1>7, <2>1
<1>9. s.bytes = Cat(p.bytes, Cat(b, c)) /\ s.offset = Len(s.bytes) /\ Len(s.bytes) <= m
  BY <1>1, <1>4, <1>7, <1>8 DEF z, x, l, n, y
<1>10. p.ok /\ s.max_size = p.max_size /\ s.header = p.header /\ s.made = p.made
  BY <1>1, <1>2 DEF PutOnto
<1>11. PutOnto(p, Cat(b, c), s, m)
  BY <1>9, <1>10 DEF PutOnto
<1> QED
  BY <1>11 DEF s

\* When no part fails, the bytes of all of them have come in order.
LEMMA PutAll ==
  ASSUME NEW p, IsPacker(p), p.offset = Len(p.bytes), NEW m \in Nat, p.max_size <= m,
         Len(p.bytes) <= m, NEW q \in Seq(Codes), AllPut(p, q).ok
  PROVE  /\ IsPacker(AllPut(p, q))
         /\ PutOnto(p, Flat(q), AllPut(p, q), m)
<1> DEFINE n == Len(q)
           Good(f, k) == f[k].ok => PutOnto(p, UpTo(q, k), f[k], m)
<1>1. PICK f : /\ f[0] = p /\ f[n] = AllPut(p, q)
               /\ \A k \in 1..n : f[k] = P!Put(f[k - 1], q[k])
               /\ \A k \in 0..n : IsPacker(f[k])
  BY PutPath
<1>2. /\ n \in Nat /\ UpTo(q, 0) = <<>> /\ Flat(q) = UpTo(q, n)
      /\ \A k \in 1..n : UpTo(q, k) = Cat(UpTo(q, k - 1), q[k]) /\ q[k] \in Codes
      /\ \A k \in 0..n : UpTo(q, k) \in Codes
  BY UpToIs DEF Codes
<1> HIDE DEF n
<1> DEFINE Bad == {k \in Nat : k <= n /\ ~Good(f, k)}
<1>3. Good(f, 0)
  <2> DEFINE x == p.bytes
  <2>1. x \in Seq(Nat)
    BY DEF IsPacker, Codes
  <2> HIDE DEF x
  <2>2. Cat(x, <<>>) = x
    BY <2>1, CatNone
  <2>3. Cat(p.bytes, <<>>) = p.bytes
    BY <2>2 DEF x
  <2> QED
    BY <1>1, <1>2, <2>3 DEF PutOnto
<1>4. ASSUME NEW k \in 1..n, Good(f, k - 1) PROVE Good(f, k)
  <2> DEFINE r == f[k - 1]
             b == UpTo(q, k - 1)
             c == q[k]
  <2>1. k - 1 \in 0..n
    BY <1>2
  <2>2. /\ IsPacker(r) /\ b \in Codes /\ c \in Codes /\ f[k] = P!Put(r, c) /\ UpTo(q, k) = Cat(b, c)
        /\ r.ok => PutOnto(p, b, r, m)
    BY <1>1, <1>2, <1>4, <2>1
  <2> HIDE DEF r, b, c
  <2>3. P!Put(r, c).ok => PutOnto(p, Cat(b, c), P!Put(r, c), m)
    BY <2>2, PutOne
  <2> QED
    BY <2>2, <2>3
<1> HIDE DEF Good
<1>5. Bad = {}
  <2>1. SUFFICES ASSUME Bad # {} PROVE FALSE
    OBVIOUS
  <2>2. PICK k \in Bad : \A i \in Bad : ~(<<i, k>> \in OpToRel(<, Nat))
    BY <2>1, WFMin, NatLessThanWellFounded, Zenon
  <2>3. k \in Nat /\ k <= n /\ ~Good(f, k)
    OBVIOUS
  <2>4. k # 0
    BY <1>3, <2>3
  <2>5. k - 1 \in Nat /\ k - 1 <= n /\ k \in 1..n
    BY <1>2, <2>3, <2>4
  <2>6. k - 1 \notin Bad
    <3>1. <<k - 1, k>> \in OpToRel(<, Nat)
      BY <2>3, <2>5 DEF OpToRel
    <3> HIDE DEF Bad
    <3> QED
      BY <2>2, <3>1
  <2>7. Good(f, k - 1)
    BY <2>5, <2>6
  <2> QED
    BY <1>4, <2>3, <2>5, <2>7
<1>6. n \in 0..n /\ n \in Nat /\ n <= n
  BY <1>2
<1>7. Good(f, n)
  BY <1>5, <1>6
<1> QED
  BY <1>1, <1>2, <1>6, <1>7 DEF Good

\* The ways to arrange s.
Arranged(s) == {[i \in DOMAIN s |-> s[p[i]]] : p \in P!Bijection(DOMAIN s, DOMAIN s)}

LEMMA SortByKey ==
  ASSUME NEW S, NEW Ks \in [S -> Int], NEW s \in Seq(S)
  PROVE  /\ \E t \in Arranged(s) : \A i, j \in DOMAIN s : i < j => Ks[t[i]] <= Ks[t[j]]
         /\ \A t \in Arranged(s) : /\ t \in Seq(S) /\ Len(t) = Len(s)
                                   /\ \A i \in DOMAIN s : t[i] \in S
<1> DEFINE R == {r \in S \X S : Ks[r[1]] < Ks[r[2]]}
           D == DOMAIN s
<1>1. \A a, b \in S : <<a, b>> \in R <=> Ks[a] < Ks[b]
  OBVIOUS
<1>2. \A a \in S : Ks[a] \in Int
  OBVIOUS
<1> HIDE DEF R
<1>3. Orders(R, S)
  <2>1. \A a, b \in S : <<a, b>> \in R => <<b, a>> \notin R
    BY <1>1, <1>2
  <2>2. \A a, b, c \in S : <<a, b>> \notin R /\ <<b, c>> \notin R => <<a, c>> \notin R
    BY <1>1, <1>2
  <2> QED
    BY <2>1, <2>2 DEF Orders
<1>4. P!Bijection(D, D) = T!Bijection(D, D)
  BY Zenon DEF P!Bijection, T!Bijection, P!Injection, T!Injection, P!Surjection, T!Surjection,
               P!IsInjective, T!IsInjective
<1>5. Arranged(s) = {[i \in DOMAIN s |-> s[p[i]]] : p \in T!Bijection(DOMAIN s, DOMAIN s)}
  BY <1>4, Zenon DEF Arranged
<1> DEFINE all == {[i \in DOMAIN s |-> s[p[i]]] : p \in T!Bijection(DOMAIN s, DOMAIN s)}
<1>6. /\ \E t \in Arranged(s) : \A i, j \in DOMAIN s : i < j => <<t[j], t[i]>> \notin R
      /\ \A t \in Arranged(s) : t \in Seq(S) /\ DOMAIN t = DOMAIN s
  <2>1. \E t \in all : \A i, j \in DOMAIN s : i < j => <<t[j], t[i]>> \notin R
    BY <1>3, SortedList
  <2>2. \A t \in all : t \in Seq(S) /\ DOMAIN t = DOMAIN s
    BY <1>3, SortedList
  <2> HIDE DEF all
  <2>3. Arranged(s) = all
    BY <1>5 DEF all
  <2> QED
    BY <2>1, <2>2, <2>3
<1>7. DOMAIN s = 1..Len(s) /\ \A j \in DOMAIN s : s[j] \in S
  BY LenProperties, ElementOfSeq
<1>8. ASSUME NEW t \in Arranged(s)
      PROVE  t \in Seq(S) /\ Len(t) = Len(s) /\ \A i \in DOMAIN s : t[i] \in S
  <2>1. t \in Seq(S) /\ DOMAIN t = DOMAIN s /\ \A i \in DOMAIN s : t[i] \in S
    BY <1>6, LenProperties, ElementOfSeq
  <2>2. Len(t) \in Nat /\ Len(s) \in Nat /\ DOMAIN t = 1..Len(t)
    BY <2>1, LenProperties
  <2> DEFINE m == Len(t)
             n == Len(s)
  <2>3. m \in Nat /\ n \in Nat /\ 1..m = 1..n
    BY <1>7, <2>1, <2>2
  <2> HIDE DEF m, n
  <2>4. m = n
    <3>1. \A i \in Nat : i \in 1..m <=> i \in 1..n
      BY <2>3
    <3>2. (m = 0 \/ m \in 1..m) /\ (n = 0 \/ n \in 1..n)
      BY <2>3
    <3> QED
      BY <2>3, <3>1, <3>2
  <2> QED
    BY <2>1, <2>4 DEF m, n
<1>9. \E t \in Arranged(s) : \A i, j \in DOMAIN s : i < j => Ks[t[i]] <= Ks[t[j]]
  <2>1. PICK t \in Arranged(s) : \A i, j \in DOMAIN s : i < j => <<t[j], t[i]>> \notin R
    BY <1>6
  <2>2. ASSUME NEW i \in DOMAIN s, NEW j \in DOMAIN s, i < j PROVE Ks[t[i]] <= Ks[t[j]]
    <3>1. t[i] \in S /\ t[j] \in S /\ <<t[j], t[i]>> \notin R
      BY <1>8, <2>1, <2>2
    <3> QED
      BY <1>1, <1>2, <3>1
  <2> QED
    BY <2>2
<1> QED
  BY <1>8, <1>9

\* What is packed of a vertex is a vertex, in the order of both keys.
LEMMA SortedVertex ==
  ASSUME NEW vtx \in P!Vertex
  PROVE  P!Sorted(vtx) \in P!Vertex
<1> DEFINE a == vtx.parent_ids
           b == vtx.txs
           x == CHOOSE t \in Arranged(a) : \A i, j \in DOMAIN a : i < j => P!Value(t[i]) <= P!Value(t[j])
           y == CHOOSE t \in Arranged(b) : \A i, j \in DOMAIN b : i < j => 0 - Len(t[i]) <= 0 - Len(t[j])
           A == P!ByteString(IdLen)
           B == P!WithLen
<1>1. P!Sorted(vtx) = [vtx EXCEPT !.parent_ids = x, !.txs = y]
  BY Zenon DEF P!Sorted, P!Ascending, Arranged
<1>2. a \in Seq(A) /\ Len(a) \in P!Number(U32_LEN) /\ b \in Seq(B) /\ Len(b) \in P!Number(U32_LEN)
  BY VertexIs DEF P!Counted
<1>3. \A v \in A : P!Value(v) \in Int
  <2>1. \A v \in A : v \in Codes
    BY BytesAre
  <2> QED
    BY <2>1, ValueNat
<1>4. \A v \in B : 0 - Len(v) \in Int
  BY LenProperties DEF P!WithLen, P!Counted
<1> HIDE DEF a, b, A, B
<1>5. x \in Seq(A) /\ Len(x) \in P!Number(U32_LEN)
  <2> DEFINE Ks == [v \in A |-> P!Value(v)]
  <2>1. Ks \in [A -> Int] /\ \A v \in A : Ks[v] = P!Value(v)
    BY <1>3
  <2> HIDE DEF Ks
  <2>2. PICK t \in Arranged(a) : \A i, j \in DOMAIN a : i < j => Ks[t[i]] <= Ks[t[j]]
    BY <1>2, <2>1, SortByKey
  <2>3. \A u \in Arranged(a) : u \in Seq(A) /\ Len(u) = Len(a) /\ \A i \in DOMAIN a : u[i] \in A
    BY <1>2, <2>1, SortByKey
  <2>4. \A i, j \in DOMAIN a : i < j => P!Value(t[i]) <= P!Value(t[j])
    <3>1. \A i \in DOMAIN a : Ks[t[i]] = P!Value(t[i])
      BY <2>1, <2>3
    <3> QED
      BY <2>2, <3>1, Zenon
  <2>5. x \in Arranged(a)
    BY <2>4, Zenon
  <2> HIDE DEF x
  <2> QED
    BY <1>2, <2>3, <2>5
<1>6. y \in Seq(B) /\ Len(y) \in P!Number(U32_LEN)
  <2> DEFINE Ks == [v \in B |-> 0 - Len(v)]
  <2>1. Ks \in [B -> Int] /\ \A v \in B : Ks[v] = 0 - Len(v)
    BY <1>4
  <2> HIDE DEF Ks
  <2>2. PICK t \in Arranged(b) : \A i, j \in DOMAIN b : i < j => Ks[t[i]] <= Ks[t[j]]
    BY <1>2, <2>1, SortByKey
  <2>3. \A u \in Arranged(b) : u \in Seq(B) /\ Len(u) = Len(b) /\ \A i \in DOMAIN b : u[i] \in B
    BY <1>2, <2>1, SortByKey
  <2>4. \A i, j \in DOMAIN b : i < j => 0 - Len(t[i]) <= 0 - Len(t[j])
    <3>1. \A i \in DOMAIN b : Ks[t[i]] = 0 - Len(t[i])
      BY <2>1, <2>3
    <3> QED
      BY <2>2, <3>1, Zenon
  <2>5. y \in Arranged(b)
    BY <2>4, Zenon
  <2> HIDE DEF y
  <2> QED
    BY <1>2, <2>3, <2>5
<1> HIDE DEF x, y
<1>7. x \in P!Counted(A, U32_LEN) /\ y \in P!Counted(B, U32_LEN)
  BY <1>5, <1>6 DEF P!Counted
<1> QED
  BY <1>1, <1>7 DEF P!Vertex, A, B

LEMMA ReadyIs ==
  ASSUME NEW item \in Packable
  PROVE  P!Ready(item) \in Packable
<1>1. item = <<item[1], item[2]>> /\ item[1] \in P!Kinds /\ item[2] \in P!ValuesOf(item[1])
  BY PackableIs
<1>2. CASE item[1] = "vertex"
  <2>1. P!Ready(item) = <<"vertex", P!Sorted(item[2])>>
    BY <1>2 DEF P!Ready
  <2>2. P!Sorted(item[2]) \in P!ValuesOf("vertex")
    BY <1>1, <1>2, SortedVertex DEF P!ValuesOf
  <2>3. <<"vertex", P!Sorted(item[2])>> \in {"vertex"} \X P!ValuesOf("vertex")
    BY <2>2
  <2>4. "vertex" \in P!Kinds
    BY DEF P!Kinds
  <2> QED
    BY <2>1, <2>3, <2>4 DEF Packable
<1>3. CASE item[1] # "vertex"
  BY <1>3 DEF P!Ready
<1> QED
  BY <1>2, <1>3

\* The bytes of several items, one after the other.
ItemCodes(items) == [i \in 1..Len(items) |-> Code(items[i])]
All(items) == Flat(ItemCodes(items))

LEMMA ItemCodesAre ==
  ASSUME NEW items \in Seq(Packable)
  PROVE  /\ Len(items) \in Nat /\ ItemCodes(items) \in Seq(Codes) /\ Len(ItemCodes(items)) = Len(items)
         /\ \A k \in 1..Len(items) : items[k] \in Packable /\ ItemCodes(items)[k] = Code(items[k])
         /\ All(items) \in Codes
<1> DEFINE n == Len(items)
           q == ItemCodes(items)
<1>1. n \in Nat /\ \A k \in 1..n : items[k] \in Packable
  BY LenProperties, ElementOfSeq
<1>2. q = [i \in 1..n |-> Code(items[i])]
  BY DEF ItemCodes
<1> HIDE DEF n, q
<1>3. \A k \in 1..n : Code(items[k]) \in Codes
  BY <1>1, ItemCode
<1>4. q \in [1..n -> Codes] /\ \A k \in 1..n : q[k] = Code(items[k])
  BY <1>2, <1>3
<1>5. q \in Seq(Codes)
  BY <1>1, <1>4, SeqDef
<1>6. Len(q) = n
  BY <1>1, <1>4, <1>5, LenProperties
<1>7. Flat(q) \in Codes
  BY <1>5, FlatSeq DEF Codes
<1> QED
  BY <1>1, <1>4, <1>5, <1>6, <1>7 DEF All, n, q

LEMMA AllNone ==
  All(<<>>) = <<>>
<1>1. <<>> \in Seq(Packable) /\ Len(<<>>) = 0
  BY EmptySeq
<1>2. ItemCodes(<<>>) \in Seq(Codes) /\ Len(ItemCodes(<<>>)) = 0
  BY <1>1, ItemCodesAre
<1>3. ItemCodes(<<>>) = <<>>
  BY <1>2, EmptySeq
<1> QED
  BY <1>3, FlatNone DEF All

LEMMA AllLast ==
  ASSUME NEW items \in Seq(Packable), NEW item \in Packable
  PROVE  /\ Append(items, item) \in Seq(Packable)
         /\ All(Append(items, item)) = Cat(All(items), Code(item))
<1> DEFINE n == Len(items)
           s == Append(items, item)
           q == ItemCodes(items)
           c == Code(item)
           r == ItemCodes(s)
           t == Append(q, c)
<1>1. s \in Seq(Packable) /\ Len(s) = n + 1 /\ s[n + 1] = item /\ \A k \in 1..n : s[k] = items[k]
  BY AppendProperties
<1>2. /\ n \in Nat /\ q \in Seq(Codes) /\ Len(q) = n /\ \A k \in 1..n : q[k] = Code(items[k])
      /\ c \in Codes
  BY ItemCodesAre, ItemCode
<1> HIDE DEF s
<1>3. r \in Seq(Codes) /\ Len(r) = n + 1 /\ \A k \in 1..(n + 1) : r[k] = Code(s[k])
  BY <1>1, ItemCodesAre
<1> HIDE DEF n, q, c, r
<1>4. t \in Seq(Codes) /\ Len(t) = n + 1 /\ t[n + 1] = c /\ \A k \in 1..n : t[k] = q[k]
  BY <1>2, AppendProperties
<1> HIDE DEF t
<1>5. \A k \in 1..(n + 1) : r[k] = t[k]
  <2>1. r[n + 1] = t[n + 1]
    <3>1. n + 1 \in 1..(n + 1)
      BY <1>2
    <3> QED
      BY <1>1, <1>3, <1>4, <3>1 DEF c
  <2>2. \A k \in 1..n : r[k] = t[k]
    <3>1. \A k \in 1..n : k \in 1..(n + 1)
      BY <1>2
    <3> QED
      BY <1>1, <1>2, <1>3, <1>4, <3>1
  <2>3. \A k \in 1..(n + 1) : k \in 1..n \/ k = n + 1
    BY <1>2
  <2> QED
    BY <2>1, <2>2, <2>3
<1>6. r = t
  BY <1>2, <1>3, <1>4, <1>5, SeqEqual
<1>7. Flat(r) = Cat(Flat(q), c)
  BY <1>2, <1>6, FlatLast DEF t
<1> QED
  BY <1>1, <1>7 DEF All, q, r, c, s

LEMMA AllFirst ==
  ASSUME NEW items \in Seq(Packable), NEW item \in Packable
  PROVE  /\ Cat(<<item>>, items) \in Seq(Packable)
         /\ All(Cat(<<item>>, items)) = Cat(Code(item), All(items))
<1> DEFINE n == Len(items)
           o == <<item>>
           s == Cat(o, items)
           q == ItemCodes(items)
           c == Code(item)
           e == <<c>>
           r == ItemCodes(s)
           t == Cat(e, q)
<1>1. o \in Seq(Packable) /\ Len(o) = 1 /\ o[1] = item
  OBVIOUS
<1>2. /\ n \in Nat /\ q \in Seq(Codes) /\ Len(q) = n /\ \A k \in 1..n : q[k] = Code(items[k])
      /\ c \in Codes
  BY ItemCodesAre, ItemCode
<1> HIDE DEF o, c
<1>3. e \in Seq(Codes) /\ Len(e) = 1 /\ e[1] = c /\ Flat(e) = c
  BY <1>2, FlatOne DEF Codes
<1>4. s \in Seq(Packable) /\ Len(s) = 1 + n
      /\ \A k \in 1..(1 + n) : s[k] = IF k <= 1 THEN o[k] ELSE items[k - 1]
  <2> DEFINE l == Len(o)
  <2>1. s \in Seq(Packable) /\ Len(s) = l + n
    BY <1>1, CatSeq
  <2>2. \A k \in 1..(l + n) : s[k] = IF k <= l THEN o[k] ELSE items[k - l]
    BY <1>1, CatSeq
  <2> HIDE DEF s, n
  <2> QED
    BY <1>1, <2>1, <2>2
<1> HIDE DEF s, e
<1>5. r \in Seq(Codes) /\ Len(r) = 1 + n /\ \A k \in 1..(1 + n) : r[k] = Code(s[k])
  BY <1>4, ItemCodesAre
<1> HIDE DEF n, q, r
<1>6. t \in Seq(Codes) /\ Len(t) = 1 + n
      /\ \A k \in 1..(1 + n) : t[k] = IF k <= 1 THEN e[k] ELSE q[k - 1]
  <2> DEFINE l == Len(e)
             m == Len(q)
  <2>1. t \in Seq(Codes) /\ Len(t) = l + m
    BY <1>2, <1>3, CatSeq
  <2>2. \A k \in 1..(l + m) : t[k] = IF k <= l THEN e[k] ELSE q[k - l]
    BY <1>2, <1>3, CatSeq
  <2> HIDE DEF t
  <2> QED
    BY <1>2, <1>3, <2>1, <2>2
<1>7. \A k \in 1..(1 + n) : r[k] = t[k]
  <2>1. 1 \in 1..(1 + n) /\ r[1] = Code(item) /\ t[1] = c
    <3>1. 1 \in 1..(1 + n)
      BY <1>2
    <3> QED
      BY <1>1, <1>3, <1>4, <1>5, <1>6, <3>1
  <2>2. ASSUME NEW k \in 1..(1 + n), k # 1 PROVE r[k] = t[k]
    <3>1. ~(k <= 1) /\ k - 1 \in 1..n
      BY <1>2, <2>2
    <3> QED
      BY <1>2, <1>4, <1>5, <1>6, <3>1
  <2> QED
    BY <2>1, <2>2 DEF c
<1> HIDE DEF t
<1>8. r = t
  BY <1>2, <1>5, <1>6, <1>7, SeqEqual
<1>9. Flat(r) = Cat(c, Flat(q))
  BY <1>2, <1>3, <1>8, FlatCat DEF t, Codes
<1> QED
  BY <1>4, <1>9 DEF All, q, r, c, s, o

LEMMA AllOne ==
  ASSUME NEW item \in Packable
  PROVE  <<item>> \in Seq(Packable) /\ All(<<item>>) = Code(item)
<1>1. <<>> \in Seq(Packable) /\ Append(<<>>, item) = <<item>>
  OBVIOUS
<1>2. <<item>> \in Seq(Packable) /\ All(<<item>>) = Cat(All(<<>>), Code(item))
  BY <1>1, AllLast
<1> DEFINE c == Code(item)
<1>3. c \in Seq(Nat)
  BY ItemCode DEF Codes
<1> HIDE DEF c
<1>4. Cat(<<>>, c) = c
  BY <1>3, CatNone
<1> QED
  BY <1>2, <1>4, AllNone DEF c

-----------------------------------------------------------------------------
(* The packer that writes.                                                 *)

\* p has the bytes of items after its header, and room for no more than a number
\* of U32_LEN bytes tells.
IsWritten(p, items) ==
  /\ IsPacker(p) /\ p.ok /\ p.offset = Len(p.bytes) /\ p.max_size \in P!Number(U32_LEN)
  /\ p.header => Len(p.bytes) <= U32_LEN \/ Len(p.bytes) <= p.max_size
  /\ \E head \in Codes : /\ Len(head) = IF p.header THEN U32_LEN ELSE 0
                         /\ p.bytes = Cat(head, All(items))

LEMMA PackingKeeps ==
  ASSUME NEW p, NEW items \in Seq(Packable), IsWritten(p, items), NEW item \in Packable,
         AllPut(p, P!Parts(item)).ok
  PROVE  IsWritten(AllPut(p, P!Parts(item)), Append(items, item))
<1> DEFINE q == P!Parts(item)
           r == AllPut(p, q)
           b == p.bytes
           l == Len(b)
           w == p.max_size
           m == IF ~p.header THEN l + w ELSE IF w <= U32_LEN THEN U32_LEN ELSE w
           c == Code(item)
           a == All(items)
           o == All(Append(items, item))
<1>1. /\ IsPacker(p) /\ p.ok /\ p.offset = l /\ w \in P!Number(U32_LEN)
      /\ p.header => l <= U32_LEN \/ l <= w
  BY DEF IsWritten
<1>2. PICK head \in Codes : Len(head) = (IF p.header THEN U32_LEN ELSE 0) /\ b = Cat(head, a)
  BY DEF IsWritten
<1>3. b \in Codes /\ l \in Nat /\ w \in Nat /\ p.header \in BOOLEAN
  BY <1>1, LenProperties DEF IsPacker, Codes
<1>4. q \in Seq(Codes) /\ Flat(q) = c /\ c \in Codes /\ a \in Codes /\ o = Cat(a, c)
  BY ItemCode, ItemCodesAre, AllLast DEF Code
<1> HIDE DEF q, b, l, w, c, a, o
<1>5. m \in Nat /\ w <= m /\ l <= m
  BY <1>1, <1>3, WidthsAre
<1> HIDE DEF m
<1>6. IsPacker(r) /\ PutOnto(p, c, r, m) /\ r.ok
  <2>1. p.max_size <= m /\ Len(p.bytes) <= m /\ p.offset = Len(p.bytes)
    BY <1>1, <1>5 DEF w, l, b
  <2>2. AllPut(p, q).ok
    BY DEF q
  <2> QED
    BY <1>1, <1>4, <1>5, <2>1, <2>2, PutAll
<1> HIDE DEF r
<1>7. /\ r.bytes = Cat(b, c) /\ r.offset = Len(r.bytes) /\ Len(r.bytes) <= m
      /\ r.max_size = w /\ r.header = p.header
  BY <1>6 DEF PutOnto, b, w
<1>8. Cat(b, c) = Cat(head, o)
  <2>1. head \in Seq(Nat) /\ a \in Seq(Nat) /\ c \in Seq(Nat)
    BY <1>4 DEF Codes
  <2> QED
    BY <1>2, <1>4, <2>1, CatThree
<1>9. ASSUME r.header PROVE Len(r.bytes) <= U32_LEN \/ Len(r.bytes) <= r.max_size
  BY <1>7, <1>9 DEF m
<1>10. Len(head) = (IF r.header THEN U32_LEN ELSE 0) /\ r.bytes = Cat(head, o)
  BY <1>2, <1>7, <1>8
<1>11. IsWritten(r, Append(items, item))
  BY <1>1, <1>6, <1>7, <1>9, <1>10 DEF IsWritten, o
<1> QED
  BY <1>11, Zenon DEF r, q

LEMMA AfterHead ==
  ASSUME NEW S, NEW a \in Seq(S), NEW b \in Seq(S)
  PROVE  SubSeq(Cat(a, b), Len(a) + 1, Len(Cat(a, b))) = b
<1> DEFINE m == Len(a)
           n == Len(b)
           c == Cat(a, b)
           s == SubSeq(c, m + 1, m + n)
<1>1. /\ m \in Nat /\ n \in Nat /\ c \in Seq(S) /\ Len(c) = m + n
      /\ \A i \in 1..(m + n) : c[i] = IF i <= m THEN a[i] ELSE b[i - m]
  BY CatSeq, LenProperties
<1> HIDE DEF m, n, c
<1>2. s \in Seq(S) /\ Len(s) = n /\ \A i \in 1..n : s[i] = c[m + i]
  <2> DEFINE x == m + 1
             y == m + n
  <2>1. x \in 1..(Len(c) + 1) /\ y \in (x - 1)..Len(c) /\ y - x + 1 = n
    BY <1>1
  <2>2. \A i \in 1..n : x + i - 1 = m + i
    BY <1>1
  <2> HIDE DEF x, y
  <2>3. /\ SubSeq(c, x, y) \in Seq(S) /\ Len(SubSeq(c, x, y)) = y - x + 1
        /\ \A i \in 1..(y - x + 1) : SubSeq(c, x, y)[i] = c[x + i - 1]
    BY <1>1, <2>1, SubSeqProperties
  <2> QED
    BY <2>1, <2>2, <2>3 DEF x, y
<1> HIDE DEF s
<1>3. \A i \in 1..n : s[i] = b[i]
  <2>1. m \in Nat /\ n \in Nat
    BY <1>1
  <2>2. ASSUME NEW i \in 1..n PROVE s[i] = b[i]
    <3> DEFINE j == m + i
    <3>1. j \in 1..(m + n) /\ ~(j <= m) /\ j - m = i
      BY <2>1
    <3>2. s[i] = c[j]
      BY <1>2
    <3> HIDE DEF j
    <3>3. c[j] = b[j - m]
      BY <1>1, <3>1
    <3> QED
      BY <3>1, <3>2, <3>3
  <2> QED
    BY <2>2
<1>4. s = b
  BY <1>1, <1>2, <1>3, SeqEqual DEF n
<1> QED
  BY <1>1, <1>4 DEF s, m, n, c

\* What is taken from a packer: its items, after the number of their bytes.
LEMMA TakeIs ==
  ASSUME NEW p, NEW items \in Seq(Packable), IsWritten(p, items)
  PROVE  /\ p.header => /\ Len(p.bytes) = U32_LEN + Len(All(items))
                        /\ Len(p.bytes) - U32_LEN = Len(All(items))
                        /\ Len(All(items)) \in P!Number(U32_LEN)
                        /\ P!take_bytes(p) = Cat(P!Digits(Len(All(items)), U32_LEN), All(items))
         /\ ~p.header => P!take_bytes(p) = All(items)
<1> DEFINE b == p.bytes
           a == All(items)
           n == Len(a)
           w == p.max_size
<1>1. a \in Seq(Nat) /\ n \in Nat
  BY ItemCodesAre, LenProperties DEF Codes
<1>2. PICK head \in Seq(Nat) : Len(head) = (IF p.header THEN U32_LEN ELSE 0) /\ b = Cat(head, a)
  BY DEF IsWritten, Codes
<1> HIDE DEF b, a
<1>3. Len(b) = Len(head) + n
  BY <1>1, <1>2, CatSeq
<1>4. CASE p.header
  <2>1. Len(head) = U32_LEN /\ Len(b) = U32_LEN + n /\ Len(b) - U32_LEN = n
    <3>1. Len(head) = U32_LEN
      BY <1>2, <1>4
    <3> HIDE DEF n
    <3> QED
      BY <1>1, <1>3, <3>1, WidthsAre
  <2>2. n \in P!Number(U32_LEN)
    <3>1. w \in P!Number(U32_LEN) /\ (Len(b) <= U32_LEN \/ Len(b) <= w)
      BY <1>4 DEF IsWritten, b
    <3>2. P!Number(U32_LEN) = 0..(P!Limit[U32_LEN] - 1) /\ P!Limit[U32_LEN] \in Nat \ {0}
      BY LimitIs, WidthsAre DEF P!Number
    <3> DEFINE x == P!Limit[U32_LEN]
    <3>3. x \in Nat \ {0} /\ w \in 0..(x - 1) /\ (U32_LEN + n <= U32_LEN \/ U32_LEN + n <= w)
      BY <2>1, <3>1, <3>2
    <3> HIDE DEF x, n, w
    <3>4. n \in 0..(x - 1)
      BY <1>1, <3>3, WidthsAre
    <3> QED
      BY <3>2, <3>4 DEF x
  <2>3. P!take_bytes(p) = Cat(P!Digits(Len(b) - U32_LEN, U32_LEN), SubSeq(b, U32_LEN + 1, Len(b)))
    BY <1>4, Zenon DEF P!take_bytes, Cat, b
  <2>4. SubSeq(b, U32_LEN + 1, Len(b)) = a
    BY <1>1, <1>2, <2>1, AfterHead
  <2> QED
    BY <1>4, <2>1, <2>2, <2>3, <2>4 DEF b, a
<1>5. CASE ~p.header
  <2>1. Len(head) = 0
    BY <1>2, <1>5
  <2>2. head = <<>>
    BY <2>1, EmptySeq
  <2>3. b = a
    BY <1>1, <1>2, <2>2, CatNone
  <2> QED
    BY <1>5, <2>3 DEF P!take_bytes, b, a
<1> QED
  BY <1>4, <1>5

\* Taking the bytes and setting them again writes the header and nothing else.
LEMMA TakeKeeps ==
  ASSUME NEW p, NEW items \in Seq(Packable), IsWritten(p, items), p.header
  PROVE  IsWritten([p EXCEPT !.bytes = P!take_bytes(p)], items)
<1> DEFINE b == P!take_bytes(p)
           a == All(items)
           d == P!Digits(Len(a), U32_LEN)
           r == [p EXCEPT !.bytes = b]
<1>1. Len(p.bytes) = U32_LEN + Len(a) /\ b = Cat(d, a) /\ Len(a) \in Nat /\ a \in Codes
  BY TakeIs, ItemCodesAre, LenProperties DEF Codes
<1>2. d \in Codes /\ Len(d) = U32_LEN
  <2> HIDE DEF a
  <2> QED
    BY <1>1, DigitsAre, WidthsAre
<1>3. b \in Codes /\ Len(b) = Len(p.bytes)
  <2> HIDE DEF a, d, b
  <2>1. a \in Seq(Nat) /\ d \in Seq(Nat)
    BY <1>1, <1>2 DEF Codes
  <2>2. Cat(d, a) \in Seq(Nat) /\ Len(Cat(d, a)) = Len(d) + Len(a)
    BY <2>1, CatSeq
  <2> QED
    BY <1>1, <1>2, <2>2 DEF Codes
<1> HIDE DEF b, a, d
<1>4. /\ IsPacker(p) /\ p.ok /\ p.offset = Len(p.bytes) /\ p.max_size \in P!Number(U32_LEN)
      /\ Len(p.bytes) <= U32_LEN \/ Len(p.bytes) <= p.max_size
  BY DEF IsWritten
<1> HIDE DEF r
<1>5. /\ r = [max_size |-> r.max_size, header |-> r.header, made |-> r.made, bytes |-> r.bytes,
              offset |-> r.offset, ok |-> r.ok]
      /\ r.max_size = p.max_size /\ r.header = p.header /\ r.made = p.made /\ r.bytes = b
      /\ r.offset = p.offset /\ r.ok = p.ok
  <2>1. r = [p EXCEPT !.bytes = b]
    BY DEF r
  <2>2. r = [max_size |-> p.max_size, header |-> p.header, made |-> p.made, bytes |-> b,
             offset |-> p.offset, ok |-> p.ok]
    BY <1>4, <2>1 DEF IsPacker
  <2> QED
    BY <2>2
<1>6. IsPacker(r)
  BY <1>3, <1>4, <1>5 DEF IsPacker
<1>7. Len(d) = (IF r.header THEN U32_LEN ELSE 0) /\ r.bytes = Cat(d, a)
  BY <1>1, <1>2, <1>5
<1>8. IsWritten(r, items)
  BY <1>2, <1>3, <1>4, <1>5, <1>6, <1>7 DEF IsWritten, a
<1> QED
  BY <1>8 DEF r, b

-----------------------------------------------------------------------------
(* The packer that reads.                                                  *)

\* The first bytes of a are on the wire, and all of them unless it is cut.
CameOver(w, c, a) ==
  /\ w \in Codes /\ Len(w) <= Len(a) /\ c = (Len(w) < Len(a))
  /\ \A i \in 1..Len(a) : i <= Len(w) => w[i] = a[i]

\* The first items are read, and at is the place of the next.
IsRead(items, some, at, w) ==
  /\ Len(some) \in 0..Len(items) /\ some = SubSeq(items, 1, Len(some))
  /\ at = Len(UpTo(ItemCodes(items), Len(some))) /\ at <= Len(w)

LEMMA SentArrives ==
  ASSUME NEW a \in Codes, NEW n \in 0..Len(a)
  PROVE  CameOver(SubSeq(a, 1, n), n < Len(a), a)
<1> DEFINE l == Len(a)
           w == SubSeq(a, 1, n)
<1>1. a \in Seq(Nat) /\ l \in Nat /\ n \in Nat /\ n <= l
  BY LenProperties DEF Codes
<1>2. w \in Seq(Nat) /\ Len(w) = n /\ \A i \in 1..n : w[i] = a[i]
  <2>1. 1 \in 1..(l + 1) /\ n \in (1 - 1)..l /\ n - 1 + 1 = n
    BY <1>1
  <2>2. \A i \in 1..n : 1 + i - 1 = i
    BY <1>1
  <2> HIDE DEF l
  <2>3. /\ w \in Seq(Nat) /\ Len(w) = n - 1 + 1
        /\ \A i \in 1..(n - 1 + 1) : w[i] = a[1 + i - 1]
    BY <1>1, <2>1, SubSeqProperties DEF l
  <2> HIDE DEF w
  <2> QED
    BY <2>1, <2>2, <2>3
<1> HIDE DEF w, l
<1>3. \A i \in 1..l : i <= n => w[i] = a[i]
  <2>1. \A i \in 1..l : i <= n => i \in 1..n
    BY <1>1
  <2> QED
    BY <1>2, <2>1
<1>4. Len(w) <= l /\ (n < l) = (Len(w) < l)
  BY <1>1, <1>2
<1>5. \A i \in 1..l : i <= Len(w) => w[i] = a[i]
  BY <1>2, <1>3
<1>6. CameOver(w, n < l, a)
  BY <1>2, <1>4, <1>5 DEF CameOver, Codes, l
<1> QED
  BY <1>6 DEF w, l

LEMMA NoneRead ==
  ASSUME NEW items \in Seq(Packable), NEW w \in Codes
  PROVE  IsRead(items, <<>>, 0, w)
<1>1. Len(items) \in Nat /\ Len(w) \in Nat /\ SubSeq(items, 1, 0) = <<>>
  BY LenProperties, FirstSome DEF Codes
<1>2. Len(<<>>) = 0 /\ UpTo(ItemCodes(items), 0) = <<>>
  BY DEF UpTo
<1> QED
  BY <1>1, <1>2 DEF IsRead

\* The next item is read as what it is, unless bytes of it are missing.
LEMMA NextRead ==
  ASSUME NEW items \in Seq(Packable), CameOver(wire, cut, All(items)),
         NEW some, NEW at, IsRead(items, some, at, wire), Len(some) < Len(items)
  PROVE  LET item == items[Len(some) + 1]
             r == P!UnpackLike(item, at)
         IN
         /\ r.ok \in BOOLEAN
         /\ r.ok => IsRead(items, Append(some, <<item[1], r.v>>), r.at, wire)
         /\ ~r.ok => cut
<1> DEFINE n == Len(items)
           m == Len(some)
           k == m + 1
           item == items[k]
           r == P!UnpackLike(item, at)
           q == ItemCodes(items)
           c == Code(item)
           a == Flat(q)
           W == Len(wire)
           L(i) == Len(UpTo(q, i))
           F == Len(a)
<1>1. /\ n \in Nat /\ q \in Seq(Codes) /\ Len(q) = n /\ a \in Codes
      /\ \A i \in 1..n : items[i] \in Packable /\ q[i] = Code(items[i])
  BY ItemCodesAre DEF All
<1>2. m \in 0..n /\ some = SubSeq(items, 1, m) /\ at = L(m) /\ at <= W /\ m < n
  BY DEF IsRead
<1>3. wire \in Codes /\ W <= F /\ cut = (W < F) /\ \A i \in 1..F : i <= W => wire[i] = a[i]
  BY DEF CameOver, All
<1>4. W \in Nat /\ F \in Nat
  BY <1>1, <1>3, LenProperties DEF Codes
<1> HIDE DEF n, m, q, W, F, a
<1>5. k \in 1..n /\ k - 1 = m /\ m \in Nat
  BY <1>1, <1>2
<1>6. item \in Packable /\ q[k] = c
  BY <1>1, <1>5
<1> HIDE DEF k
<1> HIDE DEF item, c
<1>7. Comes(0, a)
  <2>1. \A i \in 1..F : 0 + i = i
    BY <1>4
  <2>2. \A i \in 1..Len(a) : 0 + i <= Len(wire) => wire[0 + i] = a[i]
    BY <1>3, <2>1 DEF F, W
  <2> QED
    BY <2>2, Zenon DEF Comes
<1>8. at \in Nat /\ Comes(at, c) /\ c \in Codes /\ Len(c) \in Nat /\ L(k) = at + Len(c)
  <2>1. Comes(0, Flat(q)) /\ 0 \in Nat /\ k \in 1..Len(q)
    BY <1>1, <1>5, <1>7 DEF a
  <2>2. LET o == 0 + Len(UpTo(q, k - 1)) IN
        /\ o \in Nat /\ Comes(o, q[k]) /\ q[k] \in Codes /\ Len(q[k]) \in Nat
        /\ 0 + Len(UpTo(q, k)) = o + Len(q[k])
    BY <1>1, <1>3, <2>1, PlaceOf
  <2>3. /\ L(m) \in Nat /\ L(k) \in Nat
    BY <1>1, <1>2, <1>5, UpToShort DEF Codes
  <2> HIDE DEF L
  <2>4. 0 + L(m) = L(m) /\ 0 + L(k) = L(k)
    BY <2>3
  <2>5. L(k - 1) = L(m)
    BY <1>5
  <2>6. LET o == 0 + L(k - 1) IN
        /\ o \in Nat /\ Comes(o, q[k]) /\ q[k] \in Codes /\ Len(q[k]) \in Nat
        /\ 0 + L(k) = o + Len(q[k])
    BY <2>2 DEF L
  <2> QED
    BY <1>2, <1>6, <2>4, <2>5, <2>6
<1>9. L(k) \in Nat /\ L(k) <= F
  <2>1. k \in 0..Len(q)
    BY <1>1, <1>5
  <2> QED
    BY <1>1, <2>1, UpToShort DEF Codes, F, a
<1> HIDE DEF L
<1>10. at \in 0..W
  BY <1>2, <1>4, <1>8
<1>11. Reads(r, at, item[2], c)
  BY <1>3, <1>6, <1>8, <1>10, ItemReads DEF W, c
<1> HIDE DEF r
<1>12. /\ r.ok \in BOOLEAN /\ (r.ok <=> at + Len(c) <= W)
       /\ r.ok => r.v = item[2] /\ r.at = at + Len(c)
  BY <1>11 DEF Reads, W
<1>13. ASSUME r.ok PROVE IsRead(items, Append(some, <<item[1], r.v>>), r.at, wire)
  <2> DEFINE s == Append(some, <<item[1], r.v>>)
  <2>1. <<item[1], r.v>> = item
    BY <1>6, <1>12, <1>13, PackableIs
  <2>2. s = SubSeq(items, 1, k)
    <3>1. SubSeq(items, 1, k) = Append(SubSeq(items, 1, k - 1), items[k])
      BY <1>5, FirstSome DEF n
    <3> QED
      BY <1>2, <1>5, <2>1, <3>1 DEF item
  <2>3. Len(s) = k
    <3>1. 1 \in 1..(n + 1) /\ k \in (1 - 1)..n /\ k - 1 + 1 = k
      BY <1>1, <1>5
    <3>2. Len(SubSeq(items, 1, k)) = k - 1 + 1
      BY <3>1, SubSeqProperties DEF n
    <3> HIDE DEF s
    <3> QED
      BY <2>2, <3>1, <3>2
  <2> HIDE DEF s
  <2>4. r.at = L(k) /\ r.at <= W
    BY <1>8, <1>12, <1>13
  <2>5. k \in 0..n
    BY <1>1, <1>5
  <2>6. IsRead(items, s, r.at, wire)
    BY <2>2, <2>3, <2>4, <2>5 DEF IsRead, L, q, n, W
  <2> QED
    BY <2>6 DEF s
<1>14. ASSUME ~r.ok PROVE cut
  <2>1. W < L(k)
    BY <1>4, <1>8, <1>9, <1>12, <1>14
  <2>2. W < F
    BY <1>4, <1>9, <2>1
  <2>3. cut = (W < F)
    BY <1>3
  <2> QED
    BY <2>2, <2>3, Zenon
<1>15. /\ r.ok \in BOOLEAN
       /\ r.ok => IsRead(items, Append(some, <<item[1], r.v>>), r.at, wire)
       /\ ~r.ok => cut
  BY <1>12, <1>13, <1>14
<1> QED
  BY <1>15, Zenon DEF r, item, k, m

\* What the packer is packing, has on the wire, and has read.
PackInv ==
  /\ packed \in Seq(Packable)
  /\ packStage \in {"packing", "reading", "done", "failed"}
  /\ packStage = "packing" =>
       /\ IsWritten(packer, packed)
       /\ wire = <<>> /\ cut = FALSE /\ offset = 0 /\ unpacked = <<>>
  /\ packStage \in {"reading", "done"} =>
       CameOver(wire, cut, All(packed)) /\ IsRead(packed, unpacked, offset, wire)
  /\ packStage = "done" => Len(unpacked) = Len(packed)
  /\ packStage = "failed" =>
       /\ wire = <<>> \/ cut
       /\ Len(unpacked) \in 0..Len(packed) /\ unpacked = SubSeq(packed, 1, Len(unpacked))

LEMMA WhatIsPacked ==
  /\ Sizes \subseteq P!Number(U32_LEN) /\ P!Number(U32_LEN) \subseteq Nat
  /\ Items \subseteq Packable /\ \A b \in Loads : b \in Codes /\ <<"bytes", b>> \in Packable
<1>1. Sizes \subseteq P!Number(U32_LEN) /\ Loads \subseteq Seq(P!Byte)
  BY PackAssumption
<1>2. Items \subseteq Packable
  BY PackAssumption DEF Packable
<1>3. P!Number(U32_LEN) \subseteq Nat
  BY NumberIs, WidthsAre
<1>4. ASSUME NEW b \in Loads PROVE b \in Codes /\ <<"bytes", b>> \in Packable
  <2>1. b \in Seq(P!Byte) /\ P!ValuesOf("bytes") = Seq(P!Byte) /\ "bytes" \in P!Kinds
    BY <1>1 DEF P!ValuesOf, P!Kinds
  <2>2. <<"bytes", b>> \in {"bytes"} \X P!ValuesOf("bytes")
    BY <2>1
  <2> QED
    BY <2>1, <2>2, BytesAre DEF Packable
<1> QED
  BY <1>1, <1>2, <1>3, <1>4

LEMMA NewIsWritten ==
  ASSUME NEW n \in P!Number(U32_LEN), NEW header \in BOOLEAN, NEW head \in Codes,
         NEW b \in Codes, NEW items, All(items) = b,
         Len(head) = IF header THEN U32_LEN ELSE 0, header => b = <<>>
  PROVE  IsWritten(P!New(n, header, Cat(head, b)), items)
<1> DEFINE c == Cat(head, b)
           p == P!New(n, header, c)
<1>1. c \in Codes /\ Len(c) \in Nat /\ Len(c) = Len(head) + Len(b) /\ n \in Nat
  BY CatSeq, LenProperties, NumberIs, WidthsAre DEF Codes
<1> HIDE DEF c
<1>2. p = [max_size |-> n, header |-> header, made |-> Len(c), bytes |-> c, offset |-> Len(c), ok |-> TRUE]
  BY DEF P!New
<1> HIDE DEF p
<1>3. IsPacker(p) /\ p.ok /\ p.offset = Len(p.bytes) /\ p.max_size = n /\ p.header = header /\ p.bytes = c
  BY <1>1, <1>2 DEF IsPacker
<1>4. header => Len(c) <= U32_LEN
  <2>1. header => Len(head) = U32_LEN /\ Len(b) = 0
    OBVIOUS
  <2> QED
    BY <1>1, <2>1, WidthsAre
<1>5. IsWritten(p, items)
  BY <1>3, <1>4 DEF IsWritten, c
<1> QED
  BY <1>5 DEF p, c

LEMMA PackStarts ==
  P!Init => PackInv
<1> SUFFICES ASSUME P!Init PROVE PackInv
  OBVIOUS
<1>1. /\ wire = <<>> /\ cut = FALSE /\ offset = 0 /\ unpacked = <<>> /\ packStage = "packing"
  BY DEF P!Init
<1> DEFINE zeroes == [i \in 1..U32_LEN |-> 0]
<1>2. PICK n \in Sizes :
         \/ packer = P!New(n, FALSE, <<>>) /\ packed = <<>>
         \/ packer = P!New(n, TRUE, zeroes) /\ packed = <<>>
         \/ \E b \in Loads : packer = P!New(n, FALSE, b) /\ packed = <<<<"bytes", b>>>>
  BY DEF P!Init
<1>3. n \in P!Number(U32_LEN)
  BY WhatIsPacked
<1> DEFINE none == <<>>
<1>4. /\ none \in Codes /\ Len(none) = 0
      /\ Cat(none, none) = none
      /\ none \in Seq(Packable) /\ All(none) = none
  <2>1. none \in Seq(Nat) /\ none \in Seq(Packable) /\ Len(none) = 0
    OBVIOUS
  <2>2. All(none) = none
    BY AllNone
  <2> HIDE DEF none
  <2>3. Cat(none, none) = none
    BY <2>1, CatNone DEF none
  <2> QED
    BY <2>1, <2>2, <2>3 DEF Codes
<1>5. zeroes \in Codes /\ Len(zeroes) = U32_LEN /\ Cat(zeroes, <<>>) = zeroes
  <2>1. zeroes \in [1..U32_LEN -> Nat]
    OBVIOUS
  <2> HIDE DEF zeroes
  <2>2. zeroes \in Seq(Nat)
    BY <2>1, SeqDef, WidthsAre
  <2>3. Len(zeroes) = U32_LEN
    BY <2>1, <2>2, LenProperties, WidthsAre
  <2> QED
    BY <2>2, <2>3, CatNone DEF Codes
<1> HIDE DEF zeroes
<1>6. IsWritten(packer, packed) /\ packed \in Seq(Packable)
  <2>1. CASE packer = P!New(n, FALSE, <<>>) /\ packed = <<>>
    <3> DEFINE header == FALSE
    <3>1. header \in BOOLEAN /\ ~header /\ Len(none) = IF header THEN U32_LEN ELSE 0
      BY <1>4
    <3> HIDE DEF header, none
    <3>2. IsWritten(P!New(n, header, Cat(none, none)), none)
      BY <1>3, <1>4, <3>1, NewIsWritten
    <3>3. packer = P!New(n, header, Cat(none, none))
      BY <1>4, <2>1 DEF header, none
    <3>4. packed = none
      BY <2>1 DEF none
    <3> QED
      BY <1>4, <3>2, <3>3, <3>4
  <2>2. CASE packer = P!New(n, TRUE, zeroes) /\ packed = <<>>
    <3> DEFINE header == TRUE
    <3>1. header \in BOOLEAN /\ header /\ Len(zeroes) = IF header THEN U32_LEN ELSE 0
      BY <1>5
    <3>2. Cat(zeroes, none) = zeroes
      BY <1>5
    <3>5. none = <<>>
      OBVIOUS
    <3> HIDE DEF header, none
    <3>3. IsWritten(P!New(n, header, Cat(zeroes, none)), none)
      BY <1>3, <1>4, <1>5, <3>1, <3>5, NewIsWritten
    <3>4. packer = P!New(n, header, Cat(zeroes, none)) /\ packed = none
      BY <2>2, <3>2, <3>5 DEF header
    <3> QED
      BY <1>4, <3>3, <3>4
  <2>3. ASSUME NEW b \in Loads, packer = P!New(n, FALSE, b), packed = <<<<"bytes", b>>>>
        PROVE  IsWritten(packer, packed) /\ packed \in Seq(Packable)
    <3> DEFINE item == <<"bytes", b>>
    <3>1. b \in Codes /\ item \in Packable /\ Cat(<<>>, b) = b
      BY WhatIsPacked, CatNone DEF Codes
    <3>2. Code(item) = b
      <4>1. P!Parts(item) = <<b>>
        BY DEF P!Parts
      <4> QED
        BY <3>1, <4>1, FlatOne DEF Code, Codes
    <3> HIDE DEF item
    <3>3. <<item>> \in Seq(Packable) /\ All(<<item>>) = b
      BY <3>1, <3>2, AllOne
    <3> DEFINE header == FALSE
               items == <<item>>
    <3>4. header \in BOOLEAN /\ ~header /\ Len(none) = IF header THEN U32_LEN ELSE 0
      BY <1>4
    <3>5. packer = P!New(n, header, Cat(none, b)) /\ packed = items
      BY <2>3, <3>1 DEF item
    <3>6. items \in Seq(Packable) /\ All(items) = b
      BY <3>3
    <3> HIDE DEF header, none, items
    <3>7. IsWritten(P!New(n, header, Cat(none, b)), items)
      BY <1>3, <1>4, <3>1, <3>4, <3>6, NewIsWritten
    <3> QED
      BY <3>5, <3>6, <3>7
  <2> QED
    BY <1>2, <2>1, <2>2, <2>3
<1> QED
  BY <1>1, <1>6 DEF PackInv

LEMMA PackSteps ==
  PackInv /\ [P!Next]_packVars => PackInv'
<1> SUFFICES ASSUME PackInv, [P!Next]_packVars PROVE PackInv'
  OBVIOUS
<1>1. CASE UNCHANGED packVars
  BY <1>1 DEF PackInv, packVars
<1>2. ASSUME NEW item \in Items, P!Pack(item) PROVE PackInv'
  <2> DEFINE t == P!Ready(item)
             p == AllPut(packer, P!Parts(t))
  <2>1. /\ packStage = "packing"
        /\ wire' = wire /\ cut' = cut /\ offset' = offset /\ unpacked' = unpacked
    BY <1>2 DEF P!Pack
  <2>2. /\ packed \in Seq(Packable) /\ IsWritten(packer, packed)
        /\ wire = <<>> /\ cut = FALSE /\ offset = 0 /\ unpacked = <<>>
    BY <2>1 DEF PackInv
  <2>3. t \in Packable
    BY ReadyIs, WhatIsPacked
  <2>4. \/ p.ok /\ packer' = p /\ packed' = Append(packed, t) /\ packStage' = packStage
        \/ packed' = packed /\ packStage' = "failed"
    BY <1>2, Zenon DEF P!Pack, AllPut
  <2> HIDE DEF t
  <2>5. CASE p.ok /\ packer' = p /\ packed' = Append(packed, t) /\ packStage' = packStage
    <3>1. IsWritten(p, Append(packed, t))
      BY <2>2, <2>3, <2>5, PackingKeeps
    <3>2. Append(packed, t) \in Seq(Packable)
      BY <2>2, <2>3, AllLast
    <3> HIDE DEF p
    <3> QED
      BY <2>1, <2>2, <2>5, <3>1, <3>2 DEF PackInv
  <2>6. CASE packed' = packed /\ packStage' = "failed"
    <3>1. Len(packed) \in Nat /\ SubSeq(packed, 1, 0) = <<>> /\ Len(<<>>) = 0
      BY <2>2, LenProperties, FirstSome
    <3> QED
      BY <2>1, <2>2, <2>6, <3>1 DEF PackInv
  <2> QED
    BY <2>4, <2>5, <2>6
<1>3. CASE P!TakeAndSet
  <2>1. /\ packStage = "packing" /\ packer.header
        /\ packer' = [packer EXCEPT !.bytes = P!take_bytes(packer)]
        /\ packed' = packed /\ wire' = wire /\ cut' = cut /\ offset' = offset /\ unpacked' = unpacked
        /\ packStage' = packStage
    BY <1>3 DEF P!TakeAndSet
  <2>2. packed \in Seq(Packable) /\ IsWritten(packer, packed)
    BY <2>1 DEF PackInv
  <2>3. IsWritten(packer', packed')
    BY <2>1, <2>2, TakeKeeps
  <2> QED
    BY <2>1, <2>3 DEF PackInv
<1>4. CASE P!Send
  <2> DEFINE b == P!take_bytes(packer)
             n == Len(b) - U32_LEN
  <2>1. /\ packStage = "packing" /\ packStage' = "reading" /\ offset' = offset /\ unpacked' = unpacked
        /\ \E i \in 0..Len(b) : wire' = SubSeq(b, 1, i) /\ cut' = (i < Len(b))
        /\ packed' = IF packer.header THEN Cat(<<<<"u32", n>>>>, packed) ELSE packed
    BY <1>4, Zenon DEF P!Send, Cat
  <2>2. /\ packed \in Seq(Packable) /\ IsWritten(packer, packed) /\ offset = 0 /\ unpacked = <<>>
    BY <2>1 DEF PackInv
  <2>3. packed' \in Seq(Packable) /\ All(packed') = b
    <3> DEFINE a == All(packed)
    <3>1. CASE packer.header
      <4>1. Len(a) \in P!Number(U32_LEN) /\ b = Cat(P!Digits(Len(a), U32_LEN), a)
        BY <2>2, <3>1, TakeIs
      <4>2. n = Len(a)
        <5> DEFINE d == P!Digits(Len(a), U32_LEN)
                   l == Len(a)
        <5>1. a \in Seq(Nat) /\ l \in Nat
          BY <2>2, ItemCodesAre, LenProperties DEF Codes
        <5> HIDE DEF a
        <5>2. d \in Seq(Nat) /\ Len(d) = U32_LEN
          BY <5>1, DigitsAre, WidthsAre DEF Codes
        <5>3. Len(Cat(d, a)) = Len(d) + l
          BY <5>1, <5>2, CatSeq
        <5>4. Len(b) = U32_LEN + l
          BY <4>1, <5>2, <5>3
        <5> HIDE DEF l, b
        <5> QED
          BY <5>1, <5>4, WidthsAre DEF l
      <4> DEFINE item == <<"u32", Len(a)>>
      <4>3. item \in Packable /\ Code(item) = P!Digits(Len(a), U32_LEN)
        <5> DEFINE l == Len(a)
        <5>1. l \in P!ValuesOf("u32") /\ "u32" \in P!Kinds
          BY <4>1 DEF P!ValuesOf, P!Kinds
        <5> HIDE DEF l
        <5>2. <<"u32", l>> \in {"u32"} \X P!ValuesOf("u32")
          BY <5>1
        <5>3. P!Parts(<<"u32", l>>) = <<P!Digits(l, U32_LEN)>>
          BY DEF P!Parts
        <5>4. P!Digits(l, U32_LEN) \in Codes
          BY <4>1, NumberIs, WidthsAre DEF l
        <5>5. Code(<<"u32", l>>) = P!Digits(l, U32_LEN)
          BY <5>3, <5>4, FlatOne DEF Code, Codes
        <5> QED
          BY <5>1, <5>2, <5>5 DEF Packable, l
      <4>4. packed' = Cat(<<item>>, packed)
        BY <2>1, <3>1, <4>2
      <4> HIDE DEF item, a, b
      <4> QED
        BY <2>2, <4>1, <4>3, <4>4, AllFirst DEF a
    <3>2. CASE ~packer.header
      BY <2>1, <2>2, <3>2, TakeIs
    <3> QED
      BY <3>1, <3>2
  <2>4. PICK i \in 0..Len(b) : wire' = SubSeq(b, 1, i) /\ cut' = (i < Len(b))
    BY <2>1
  <2> HIDE DEF b
  <2>5. b \in Codes
    BY <2>3, ItemCodesAre
  <2>6. CameOver(wire', cut', All(packed'))
    BY <2>3, <2>4, <2>5, SentArrives
  <2>7. IsRead(packed', unpacked', offset', wire')
    <3>1. wire' \in Codes
      BY <2>6 DEF CameOver
    <3> QED
      BY <2>1, <2>2, <2>3, <3>1, NoneRead
  <2> QED
    BY <2>1, <2>3, <2>6, <2>7 DEF PackInv
<1>5. CASE P!UnpackNext
  <2> DEFINE item == packed[Len(unpacked) + 1]
             r == P!UnpackLike(item, offset)
  <2>1. /\ packStage = "reading" /\ Len(unpacked) < Len(packed) /\ offset' = r.at
        /\ IF r.ok THEN unpacked' = Append(unpacked, <<item[1], r.v>>) /\ packStage' = packStage
                   ELSE packStage' = "failed" /\ unpacked' = unpacked
        /\ packed' = packed /\ wire' = wire /\ cut' = cut
    BY <1>5, Zenon DEF P!UnpackNext, P!Read
  <2>2. packed \in Seq(Packable) /\ CameOver(wire, cut, All(packed)) /\ IsRead(packed, unpacked, offset, wire)
    BY <2>1 DEF PackInv
  <2>3. /\ r.ok \in BOOLEAN
        /\ r.ok => IsRead(packed, Append(unpacked, <<item[1], r.v>>), r.at, wire)
        /\ ~r.ok => cut
    BY <2>1, <2>2, NextRead
  <2> HIDE DEF r, item
  <2>4. CASE r.ok
    BY <2>1, <2>2, <2>3, <2>4 DEF PackInv
  <2>5. CASE ~r.ok
    <3>1. Len(unpacked) \in 0..Len(packed) /\ unpacked = SubSeq(packed, 1, Len(unpacked))
      BY <2>2 DEF IsRead
    <3> QED
      BY <2>1, <2>2, <2>3, <2>5, <3>1 DEF PackInv
  <2> QED
    BY <2>3, <2>4, <2>5
<1>6. CASE P!AllRead
  BY <1>6 DEF P!AllRead, PackInv
<1> QED
  BY <1>1, <1>2, <1>3, <1>4, <1>5, <1>6 DEF P!Next

LEMMA PackInvIsEnough ==
  PackInv => P!UnpackedIsPacked
<1> SUFFICES ASSUME PackInv PROVE P!UnpackedIsPacked
  OBVIOUS
<1>1. packed \in Seq(Packable) /\ Len(packed) \in Nat
  BY LenProperties DEF PackInv
<1>2. Len(unpacked) \in 0..Len(packed) /\ unpacked = SubSeq(packed, 1, Len(unpacked))
  <2>1. CASE packStage = "packing"
    <3>1. SubSeq(packed, 1, 0) = <<>> /\ Len(<<>>) = 0
      BY <1>1, FirstSome
    <3>2. unpacked = <<>>
      BY <2>1 DEF PackInv
    <3> QED
      BY <1>1, <3>1, <3>2
  <2>2. CASE packStage # "packing"
    BY <2>2 DEF PackInv, IsRead
  <2> QED
    BY <2>1, <2>2
<1>3. P!IsPrefix(unpacked, packed)
  <2> DEFINE m == Len(unpacked)
             s == SubSeq(unpacked, 1, m)
  <2>1. unpacked \in Seq(Packable)
    <3>1. 1 \in 1..(Len(packed) + 1) /\ m \in (1 - 1)..Len(packed)
      BY <1>1, <1>2
    <3>2. SubSeq(packed, 1, m) \in Seq(Packable)
      BY <1>1, <3>1, SubSeqProperties
    <3> HIDE DEF m
    <3> QED
      BY <1>2, <3>2 DEF m
  <2>2. s = unpacked
    BY <2>1, FirstSome
  <2> HIDE DEF s
  <2>3. m <= Len(packed) /\ s = SubSeq(packed, 1, m)
    BY <1>1, <1>2, <2>2
  <2> QED
    BY <2>3, Zenon DEF P!IsPrefix, s, m
<1>4. packStage = "failed" /\ wire # <<>> => cut
  BY DEF PackInv
<1>5. ASSUME packStage = "done" PROVE offset = Len(wire)
  <2> DEFINE q == ItemCodes(packed)
             n == Len(packed)
  <2>1. /\ offset = Len(UpTo(q, n)) /\ offset <= Len(wire)
        /\ wire \in Codes /\ Len(wire) <= Len(All(packed))
    BY <1>5 DEF PackInv, IsRead, CameOver
  <2>2. All(packed) = UpTo(q, n) /\ All(packed) \in Codes
    BY <1>1, ItemCodesAre, UpToIs DEF All, Codes
  <2> DEFINE w == Len(wire)
  <2>3. w \in Nat /\ offset \in Nat
    BY <2>1, <2>2, LenProperties DEF Codes
  <2> HIDE DEF q, n, w
  <2>4. offset <= w /\ w <= offset
    BY <2>1, <2>2 DEF w
  <2>5. offset = w
    BY <2>3, <2>4
  <2> QED
    BY <2>5 DEF w
<1> QED
  BY <1>3, <1>4, <1>5 DEF P!UnpackedIsPacked

\* UnpackedIsPacked, of every pack_ method of src/packer and the unpack_ of its
\* own kind, whatever lengths, values and lists they are given: what was read is
\* what was packed, the checked length that take_bytes and set_len leave in the
\* header is that of what follows, and an unpacker stops short only where bytes
\* were cut off.
THEOREM PackerReadsWhatItPacked == MCSpec => []UnpackedIsPacked
<1> DEFINE Inv == system = "pack" => PackInv
<1>1. MCInit => Inv
  BY PackStarts DEF MCInit
<1>2. Inv /\ [MCNext]_allVars => Inv'
  <2> SUFFICES ASSUME Inv, [MCNext]_allVars, system' = "pack" PROVE PackInv'
    OBVIOUS
  <2>1. system = "pack" /\ [P!Next]_packVars
    BY DEF MCNext, allVars
  <2>2. PackInv
    BY <2>1
  <2> HIDE DEF Inv
  <2> QED
    BY <2>1, <2>2, PackSteps
<1>3. Inv => UnpackedIsPacked
  BY PackInvIsEnough DEF UnpackedIsPacked
<1> QED
  BY <1>1, <1>2, <1>3, PTL DEF MCSpec
=============================================================================
