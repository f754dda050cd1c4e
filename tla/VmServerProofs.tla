--------------------------- MODULE VmServerProofs ----------------------------
(***************************************************************************)
(* Proofs about VmServer, for any number of calls, any capacity of the     *)
(* channel, any limits and any lengths of blocks: who holds the lock, what *)
(* the node hears of the engine's messages, and what get_ancestors         *)
(* collects.                                                               *)
(***************************************************************************)
EXTENDS VmServer, SequenceTheorems, FiniteSetTheorems, TLAPS

-----------------------------------------------------------------------------
(* The inductive invariant.                                                *)

Kinds ==
  /\ op \in [Calls -> {"new", "initialize", "read", "write", "handlers", "ancestors",
                       "walk", "shutdown"}]
  /\ at \in [Calls -> Places]
  /\ vm \in {"new", "starting", "ready", "failed"}
  /\ server \in {"serving", "told", "ended"}
  /\ handlers \in Seq({"serving", "told", "ended"})
  /\ limits \in [num : Nat, bytes : Nat]
  /\ lowest \in 0..Top + 1

\* Whom the lock is held by, and who waits for it.
Held ==
  /\ readers \cup writer = {c \in Calls : at[c] \in {"inside", "sending"}}
  /\ writer # {} => readers = {} /\ \E c \in Calls : writer = {c}
  /\ queue \in Seq(Calls) /\ IsInjective(queue)
  /\ ToSet(queue) = {c \in Calls : at[c] = "waiting"}

\* A call that is about to send has its number reserved.
Sending == {d \in Calls : at[d] = "sending"}
Reserved == sent \in Nat /\ sent + Cardinality(Sending) <= MaxSent

\* The messages that were not lost, from those the node has heard of to the
\* last one in the channel.
Ahead == heard \o notifying \o channel
Ascending(s) == \A i, j \in DOMAIN s : i < j => s[i] < s[j]

Messages ==
  /\ heard \in Seq(Nat) /\ notifying \in Seq(Nat) /\ channel \in Seq(Nat)
  /\ Len(channel) <= Capacity /\ Len(notifying) <= 1
  /\ Ascending(Ahead)
  /\ ToSet(Ahead) \cup lost = 1..sent /\ ToSet(Ahead) \cap lost = {}

\* A walk that has the lock, or waits for it, has room for a block.
Chain(s) ==
  /\ \A i \in DOMAIN s : s[i] = Top - i + 1 /\ s[i] >= lowest
  /\ Len(s) > 1 => Len(s) <= limits.num /\ Fits(s)

Chains ==
  /\ blocks \in [Calls -> Seq(Nat)]
  /\ \A c \in Calls :
       /\ Chain(blocks[c])
       /\ at[c] = "new" => blocks[c] = <<>>
       /\ at[c] \in {"waiting", "inside", "sending"} /\ blocks[c] # <<>>
            => Len(blocks[c]) < limits.num

VmInv == Kinds /\ Held /\ Reserved /\ Messages /\ Chains

-----------------------------------------------------------------------------
(* Lemmas about sequences.                                                 *)

LEMMA Elements ==
  ASSUME NEW S, NEW s \in Seq(S)
  PROVE  /\ DOMAIN s = 1..Len(s) /\ Len(s) \in Nat
         /\ ToSet(s) = {s[i] : i \in 1..Len(s)}
         /\ \A i \in 1..Len(s) : s[i] \in S
  BY DEF ToSet

\* A call that is not in a queue of distinct calls is added at its end.
LEMMA Queued ==
  ASSUME NEW S, NEW s \in Seq(S), IsInjective(s), NEW e \in S, e \notin ToSet(s)
  PROVE  /\ Append(s, e) \in Seq(S) /\ IsInjective(Append(s, e))
         /\ ToSet(Append(s, e)) = ToSet(s) \cup {e}
<1> DEFINE a == Append(s, e)
<1>1. /\ a \in Seq(S) /\ Len(a) = Len(s) + 1 /\ a[Len(s) + 1] = e
      /\ \A i \in 1..Len(s) : a[i] = s[i]
  BY AppendProperties
<1>2. DOMAIN s = 1..Len(s) /\ DOMAIN a = 1..Len(s) + 1 /\ Len(s) \in Nat
  BY <1>1
<1> HIDE DEF a
<1>3. ToSet(a) = ToSet(s) \cup {e}
  BY <1>1, <1>2 DEF ToSet
<1>4. ASSUME NEW i \in DOMAIN a, NEW j \in DOMAIN a, a[i] = a[j] PROVE i = j
  <2>1. \A k \in 1..Len(s) : s[k] # e
    BY <1>2 DEF ToSet
  <2>2. CASE i \in 1..Len(s) /\ j \in 1..Len(s)
    BY <1>1, <1>2, <1>4, <2>2 DEF IsInjective
  <2>3. CASE ~(i \in 1..Len(s) /\ j \in 1..Len(s))
    BY <1>1, <1>2, <1>4, <2>1, <2>3
  <2> QED BY <2>2, <2>3
<1> QED BY <1>1, <1>3, <1>4 DEF a, IsInjective

\* The first one leaves it.
LEMMA Dequeued ==
  ASSUME NEW S, NEW s \in Seq(S), IsInjective(s), s # <<>>
  PROVE  /\ Tail(s) \in Seq(S) /\ IsInjective(Tail(s))
         /\ Head(s) \in ToSet(s)
         /\ ToSet(Tail(s)) = ToSet(s) \ {Head(s)}
<1> DEFINE t == Tail(s)
<1>1. /\ t \in Seq(S) /\ Len(t) = Len(s) - 1 /\ Head(s) = s[1]
      /\ \A i \in 1..Len(t) : t[i] = s[i + 1]
      /\ Len(s) \in Nat \ {0}
  BY HeadTailProperties, EmptySeq
<1>2. DOMAIN s = 1..Len(s) /\ DOMAIN t = 1..Len(t) /\ Len(t) \in Nat
  BY <1>1
<1> HIDE DEF t
<1>3. IsInjective(t)
  <2> SUFFICES ASSUME NEW i \in DOMAIN t, NEW j \in DOMAIN t, t[i] = t[j] PROVE i = j
    BY DEF IsInjective
  <2>1. i + 1 \in DOMAIN s /\ j + 1 \in DOMAIN s /\ s[i + 1] = s[j + 1]
    BY <1>1, <1>2
  <2>2. i + 1 = j + 1
    BY <2>1 DEF IsInjective
  <2> QED BY <1>2, <2>2
<1>4. Head(s) \in ToSet(s)
  BY <1>1, <1>2 DEF ToSet
<1>5. \A i \in DOMAIN s : i = 1 \/ s[i] # s[1]
  BY <1>1, <1>2 DEF IsInjective
<1>6. ToSet(t) \subseteq ToSet(s) \ {Head(s)}
  <2> SUFFICES ASSUME NEW i \in 1..Len(t) PROVE t[i] \in ToSet(s) \ {Head(s)}
    BY <1>2 DEF ToSet
  <2>1. i + 1 \in DOMAIN s /\ i + 1 # 1 /\ t[i] = s[i + 1]
    BY <1>1, <1>2
  <2> QED BY <1>1, <1>5, <2>1 DEF ToSet
<1>7. ToSet(s) \ {Head(s)} \subseteq ToSet(t)
  <2> SUFFICES ASSUME NEW i \in DOMAIN s, s[i] # s[1] PROVE s[i] \in ToSet(t)
    BY <1>1 DEF ToSet
  <2>1. i # 1
    OBVIOUS
  <2>2. i - 1 \in 1..Len(t) /\ t[i - 1] = s[i]
    BY <1>1, <1>2, <2>1
  <2> QED BY <1>2, <2>2 DEF ToSet
<1> QED BY <1>1, <1>3, <1>4, <1>6, <1>7 DEF t

-----------------------------------------------------------------------------
(* The lock.                                                               *)

Inside == {c \in Calls : at[c] \in {"inside", "sending"}}
Waiting == {c \in Calls : at[c] = "waiting"}

LEMMA Enqueues ==
  ASSUME Held, at \in [Calls -> Places], NEW c \in Calls, at[c] \in {"new", "walking"},
         at' = [at EXCEPT ![c] = "waiting"], Enqueue(c)
  PROVE  Held'
<1>1. Inside' = Inside /\ Waiting' = Waiting \cup {c}
  BY DEF Inside, Waiting
<1>2. c \notin ToSet(queue)
  BY DEF Held
<1>3. queue' \in Seq(Calls) /\ IsInjective(queue') /\ ToSet(queue') = ToSet(queue) \cup {c}
  BY <1>2, Queued DEF Held, Enqueue
<1> QED BY <1>1, <1>3 DEF Held, Enqueue, Inside, Waiting

LEMMA Grants ==
  ASSUME Held, at \in [Calls -> Places], NEW c \in Calls, Grant(c)
  PROVE  Held' /\ at[c] = "waiting"
<1>1. /\ queue' \in Seq(Calls) /\ IsInjective(queue')
      /\ ToSet(queue') = ToSet(queue) \ {c} /\ c \in ToSet(queue)
  BY Dequeued DEF Held, Grant
<1>2. at[c] = "waiting"
  BY <1>1 DEF Held
<1>3. Inside' = Inside \cup {c} /\ Waiting' = Waiting \ {c}
  BY <1>2 DEF Inside, Waiting, Grant
<1>4. writer = {}
  BY DEF Grant
<1>5. CASE Writes(c)
  <2>1. readers = {} /\ writer' = {c} /\ readers' = {}
    BY <1>5 DEF Grant
  <2> QED BY <1>1, <1>2, <1>3, <1>4, <2>1 DEF Held, Inside, Waiting
<1>6. CASE ~Writes(c)
  <2>1. writer' = {} /\ readers' = readers \cup {c}
    BY <1>4, <1>6 DEF Grant
  <2> QED BY <1>1, <1>2, <1>3, <1>4, <2>1 DEF Held, Inside, Waiting
<1> QED BY <1>5, <1>6

LEMMA Releases ==
  ASSUME Held, at \in [Calls -> Places], NEW c \in Calls, at[c] = "inside", Release(c),
         NEW p \in {"walking", "answered"}, at' = [at EXCEPT ![c] = p]
  PROVE  Held'
<1>1. Inside' = Inside \ {c} /\ Waiting' = Waiting
  BY DEF Inside, Waiting
<1>2. writer' # {} => writer' = writer /\ readers' = {}
  BY DEF Held, Release
<1> QED BY <1>1, <1>2 DEF Held, Release, Inside, Waiting

\* A call that neither takes nor gives up anything.
LEMMA Elsewhere ==
  ASSUME Held, at \in [Calls -> Places], UNCHANGED lock, NEW c \in Calls, NEW p,
         at' = [at EXCEPT ![c] = p],
         \/ at[c] \in {"new", "walking"} /\ p = "answered"
         \/ at[c] \in {"inside", "sending"} /\ p \in {"inside", "sending"}
  PROVE  Held'
<1>1. Inside' = Inside /\ Waiting' = Waiting
  BY DEF Inside, Waiting
<1> QED BY <1>1 DEF Held, lock, Inside, Waiting

LEMMA HeldStays ==
  ASSUME Held, UNCHANGED <<at, lock>>
  PROVE  Held'
  BY DEF Held, lock

-----------------------------------------------------------------------------
(* The numbers of the messages.                                            *)

LEMMA ReservedStays ==
  ASSUME Reserved, at \in [Calls -> Places], UNCHANGED sent, NEW c \in Calls, NEW p,
         at' = [at EXCEPT ![c] = p], at[c] # "sending", p # "sending"
  PROVE  Reserved'
<1>1. Sending' = Sending
  BY DEF Sending
<1> QED BY <1>1 DEF Reserved

LEMMA Reserves ==
  ASSUME Reserved, at \in [Calls -> Places], NEW c \in Calls, BeginSend(c)
  PROVE  Reserved'
<1>1. Sending' = Sending \cup {c} /\ c \notin Sending
  BY DEF Sending, BeginSend
<1>2. IsFiniteSet(Sending) /\ Cardinality(Sending) \in Nat
  BY VmServerAssumption, FS_Subset, FS_CardinalityType DEF Sending
<1>3. Cardinality(Sending') = Cardinality(Sending) + 1
  BY <1>1, <1>2, FS_AddElement
<1>4. sent + Cardinality(Sending) < MaxSent /\ sent' = sent
  BY DEF BeginSend, Sending, engine
<1> QED BY <1>2, <1>3, <1>4, VmServerAssumption DEF Reserved

LEMMA Spends ==
  ASSUME Reserved, at \in [Calls -> Places], NEW c \in Calls, Send(c)
  PROVE  Reserved' /\ sent + 1 \in 0..MaxSent
<1>1. Sending' = Sending \ {c} /\ c \in Sending
  BY DEF Sending, Send
<1>2. IsFiniteSet(Sending) /\ Cardinality(Sending) \in Nat
  BY VmServerAssumption, FS_Subset, FS_CardinalityType DEF Sending
<1>3. Cardinality(Sending') = Cardinality(Sending) - 1 /\ Cardinality(Sending') \in Nat
  BY <1>1, <1>2, FS_RemoveElement, FS_CardinalityType
<1>4. sent' = sent + 1
  BY DEF Send
<1> QED BY <1>2, <1>3, <1>4, VmServerAssumption DEF Reserved

-----------------------------------------------------------------------------
(* What the node hears.                                                    *)

\* The next message comes last.
LEMMA SendIsLast ==
  ASSUME NEW s \in Seq(Nat), NEW n \in Nat, Ascending(s), ToSet(s) \subseteq 1..n
  PROVE  /\ Ascending(Append(s, n + 1))
         /\ ToSet(Append(s, n + 1)) = ToSet(s) \cup {n + 1}
<1> DEFINE a == Append(s, n + 1)
<1>1. /\ a \in Seq(Nat) /\ Len(a) = Len(s) + 1 /\ a[Len(s) + 1] = n + 1
      /\ \A i \in 1..Len(s) : a[i] = s[i]
  BY AppendProperties
<1>2. DOMAIN s = 1..Len(s) /\ DOMAIN a = 1..Len(s) + 1 /\ Len(s) \in Nat
  BY <1>1
<1>3. \A i \in 1..Len(s) : s[i] \in 1..n
  BY <1>2 DEF ToSet
<1> HIDE DEF a
<1>4. ToSet(a) = ToSet(s) \cup {n + 1}
  BY <1>1, <1>2 DEF ToSet
<1>5. Ascending(a)
  <2> SUFFICES ASSUME NEW i \in DOMAIN a, NEW j \in DOMAIN a, i < j PROVE a[i] < a[j]
    BY DEF Ascending
  <2>1. i \in 1..Len(s) /\ a[i] = s[i] /\ s[i] \in 1..n
    BY <1>1, <1>2, <1>3
  <2>2. CASE j \in 1..Len(s)
    BY <1>1, <1>2, <2>1, <2>2 DEF Ascending
  <2>3. CASE j = Len(s) + 1
    BY <1>1, <2>1, <2>3
  <2> QED BY <1>2, <2>2, <2>3
<1> QED BY <1>4, <1>5 DEF a

\* One that is lost leaves the others in their order.
LEMMA LostIsLeftOut ==
  ASSUME NEW s \in Seq(Nat), NEW e \in Nat, NEW t \in Seq(Nat),
         Ascending(s \o <<e>> \o t)
  PROVE  /\ Ascending(s \o t)
         /\ ToSet(s \o t) = ToSet(s \o <<e>> \o t) \ {e}
         /\ e \in ToSet(s \o <<e>> \o t)
<1> DEFINE a == s \o <<e>> \o t
           b == s \o t
<1>1. /\ Len(s) \in Nat /\ Len(t) \in Nat
      /\ s \o <<e>> \in Seq(Nat) /\ Len(s \o <<e>>) = Len(s) + 1
      /\ \A i \in 1..Len(s) + 1 : (s \o <<e>>)[i] = IF i <= Len(s) THEN s[i] ELSE e
  <2>1. <<e>> \in Seq(Nat) /\ Len(<<e>>) = 1 /\ <<e>>[1] = e
    OBVIOUS
  <2> HIDE DEF a, b
  <2>2. /\ s \o <<e>> \in Seq(Nat) /\ Len(s \o <<e>>) = Len(s) + 1
        /\ \A i \in 1..Len(s) + 1 :
             (s \o <<e>>)[i] = IF i <= Len(s) THEN s[i] ELSE <<e>>[i - Len(s)]
    BY <2>1, ConcatProperties
  <2> QED BY <2>1, <2>2
<1>2. /\ DOMAIN a = 1..Len(s) + 1 + Len(t)
      /\ \A i \in 1..Len(s) + 1 + Len(t) :
           a[i] = IF i <= Len(s) + 1 THEN (s \o <<e>>)[i] ELSE t[i - Len(s) - 1]
  BY <1>1, ConcatProperties
<1>3. /\ DOMAIN b = 1..Len(s) + Len(t)
      /\ \A i \in 1..Len(s) + Len(t) : b[i] = IF i <= Len(s) THEN s[i] ELSE t[i - Len(s)]
  BY <1>1, ConcatProperties
<1> HIDE DEF a, b
<1>4. /\ Len(s) + 1 \in DOMAIN a /\ a[Len(s) + 1] = e
      /\ \A i \in DOMAIN b : LET k == IF i <= Len(s) THEN i ELSE i + 1 IN
           k \in DOMAIN a /\ b[i] = a[k] /\ k # Len(s) + 1
  <2>1. Len(s) + 1 \in DOMAIN a /\ a[Len(s) + 1] = e
    BY <1>1, <1>2
  <2>2. ASSUME NEW i \in DOMAIN b, i <= Len(s)
        PROVE  i \in DOMAIN a /\ b[i] = a[i] /\ i # Len(s) + 1
    <3>1. i \in 1..Len(s) + 1 /\ i \in 1..Len(s) + 1 + Len(t) /\ i \in 1..Len(s) + Len(t)
      BY <1>1, <1>3, <2>2
    <3>2. b[i] = s[i] /\ a[i] = (s \o <<e>>)[i] /\ (s \o <<e>>)[i] = s[i]
      BY <1>1, <1>2, <1>3, <2>2, <3>1
    <3> QED BY <1>1, <1>2, <2>2, <3>1, <3>2
  <2>3. ASSUME NEW i \in DOMAIN b, ~(i <= Len(s))
        PROVE  i + 1 \in DOMAIN a /\ b[i] = a[i + 1] /\ i + 1 # Len(s) + 1
    <3>1. i + 1 \in 1..Len(s) + 1 + Len(t) /\ i \in 1..Len(s) + Len(t) /\ ~(i + 1 <= Len(s) + 1)
      BY <1>1, <1>3, <2>3
    <3>2. b[i] = t[i - Len(s)] /\ a[i + 1] = t[(i + 1) - Len(s) - 1]
      BY <1>2, <1>3, <2>3, <3>1
    <3>3. (i + 1) - Len(s) - 1 = i - Len(s)
      BY <1>1, <3>1
    <3> QED BY <1>1, <1>2, <2>3, <3>1, <3>2, <3>3
  <2> QED BY <2>1, <2>2, <2>3
<1>5. Ascending(a)
  BY DEF a
<1>6. Ascending(b)
  <2> SUFFICES ASSUME NEW i \in DOMAIN b, NEW j \in DOMAIN b, i < j PROVE b[i] < b[j]
    BY DEF Ascending
  <2> DEFINE k(n) == IF n <= Len(s) THEN n ELSE n + 1
  <2>1. k(i) \in DOMAIN a /\ k(j) \in DOMAIN a /\ b[i] = a[k(i)] /\ b[j] = a[k(j)]
    BY <1>4
  <2>2. k(i) < k(j)
    BY <1>1, <1>3
  <2> HIDE DEF k
  <2> QED BY <1>5, <2>1, <2>2 DEF Ascending
<1>7. \A i \in DOMAIN a : i # Len(s) + 1 => a[i] # e
  <2> SUFFICES ASSUME NEW i \in DOMAIN a, i # Len(s) + 1 PROVE a[i] # e
    OBVIOUS
  <2>1. i < Len(s) + 1 \/ Len(s) + 1 < i
    BY <1>1, <1>2
  <2>2. a[i] < e \/ e < a[i]
    BY <1>4, <1>5, <2>1 DEF Ascending
  <2> QED BY <2>2
<1>8. ToSet(b) \subseteq ToSet(a) \ {e}
  <2> SUFFICES ASSUME NEW i \in DOMAIN b PROVE b[i] \in ToSet(a) \ {e}
    BY DEF ToSet
  <2>1. PICK k \in DOMAIN a : b[i] = a[k] /\ k # Len(s) + 1
    BY <1>4
  <2> QED BY <1>7, <2>1 DEF ToSet
<1>9. ToSet(a) \ {e} \subseteq ToSet(b)
  <2> SUFFICES ASSUME NEW i \in DOMAIN a, a[i] # e PROVE a[i] \in ToSet(b)
    BY DEF ToSet
  <2>1. CASE i \in 1..Len(s)
    <3>1. i \in DOMAIN b /\ i <= Len(s)
      BY <1>1, <1>3, <2>1
    <3> QED BY <1>4, <3>1 DEF ToSet
  <2>2. CASE i \in Len(s) + 2..Len(s) + 1 + Len(t)
    <3>1. i - 1 \in DOMAIN b /\ ~(i - 1 <= Len(s)) /\ (i - 1) + 1 = i
      BY <1>1, <1>3, <2>2
    <3>2. i - 1 \in DOMAIN b /\ b[i - 1] = a[i]
      BY <1>4, <3>1
    <3> QED BY <3>2 DEF ToSet
  <2> QED BY <1>1, <1>2, <1>4, <2>1, <2>2
<1> QED BY <1>4, <1>6, <1>8, <1>9 DEF a, b, ToSet

LEMMA AheadIsASeq ==
  ASSUME Messages
  PROVE  /\ Ahead \in Seq(Nat) /\ heard \o notifying \in Seq(Nat)
         /\ Ahead = heard \o (notifying \o channel)
  BY ConcatProperties, ConcatAssociative DEF Messages, Ahead

LEMMA MessagesSend ==
  ASSUME Messages, sent \in Nat, NEW c \in Calls, Send(c)
  PROVE  Messages'
<1>1. sent + 1 \in Nat /\ sent' = sent + 1 /\ channel' = Append(channel, sent + 1)
      /\ UNCHANGED <<heard, notifying, lost>>
  BY DEF Send
<1>2. Ahead' = Append(Ahead, sent + 1)
  <2> DEFINE h == heard \o notifying
  <2>1. h \in Seq(Nat) /\ channel \in Seq(Nat) /\ <<sent + 1>> \in Seq(Nat)
    BY <1>1, AheadIsASeq DEF Messages
  <2>2. Ahead' = h \o Append(channel, sent + 1) /\ Ahead = h \o channel
    BY <1>1 DEF Ahead
  <2> HIDE DEF h
  <2>3. Append(channel, sent + 1) = channel \o <<sent + 1>>
    BY <1>1, <2>1, AppendIsConcat
  <2>4. h \o (channel \o <<sent + 1>>) = (h \o channel) \o <<sent + 1>>
    BY <2>1, ConcatAssociative
  <2>5. h \o channel \in Seq(Nat)
    BY <2>1, ConcatProperties
  <2>6. (h \o channel) \o <<sent + 1>> = Append(h \o channel, sent + 1)
    BY <1>1, <2>5, AppendIsConcat
  <2> QED BY <2>2, <2>3, <2>4, <2>6
<1>3. Ascending(Ahead) /\ ToSet(Ahead) \subseteq 1..sent /\ Ahead \in Seq(Nat)
  BY AheadIsASeq DEF Messages
<1>4. Ascending(Ahead') /\ ToSet(Ahead') = ToSet(Ahead) \cup {sent + 1}
  BY <1>2, <1>3, SendIsLast
<1>5. ToSet(Ahead') \cup lost' = 1..sent'
  <2>1. 1..sent + 1 = (1..sent) \cup {sent + 1}
    OBVIOUS
  <2> QED BY <1>1, <1>4, <2>1 DEF Messages
<1>6. ToSet(Ahead') \cap lost' = {}
  <2>1. sent + 1 \notin lost
    BY DEF Messages
  <2> QED BY <1>1, <1>4, <2>1 DEF Messages
<1>7. channel' \in Seq(Nat) /\ Len(channel') = Len(channel) + 1
  BY <1>1, AppendProperties DEF Messages
<1>8. Len(channel') <= Capacity
  <2>1. Len(channel) < Capacity
    BY DEF Send
  <2>2. Len(channel) \in Nat
    BY DEF Messages
  <2> QED BY <1>7, <2>1, <2>2, VmServerAssumption
<1>9. Ascending(Ahead)'
  BY <1>4 DEF Ascending
<1> QED BY <1>1, <1>5, <1>6, <1>7, <1>8, <1>9 DEF Messages, ToSet

LEMMA MessagesReceive ==
  ASSUME Messages, Receive
  PROVE  Messages'
<1>1. /\ notifying = <<>> /\ channel # <<>> /\ notifying' = <<Head(channel)>>
      /\ channel' = Tail(channel) /\ UNCHANGED <<sent, heard, lost>>
      /\ heard \in Seq(Nat) /\ channel \in Seq(Nat)
  BY DEF Receive, Messages
<1>2. /\ Head(channel) \in Nat /\ Tail(channel) \in Seq(Nat)
      /\ Len(channel) \in Nat /\ Len(Tail(channel)) = Len(channel) - 1
      /\ <<Head(channel)>> \in Seq(Nat) /\ Len(<<Head(channel)>>) = 1
  BY <1>1, HeadTailProperties
<1>3. <<Head(channel)>> \o Tail(channel) = channel
  <2> DEFINE h == <<Head(channel)>>  t == Tail(channel)  b == h \o t
  <2>1. b \in Seq(Nat) /\ Len(b) = Len(channel)
        /\ \A i \in 1..Len(channel) : b[i] = IF i <= 1 THEN h[1] ELSE t[i - 1]
    <3> HIDE DEF h, t, b
    <3>1. h \in Seq(Nat) /\ t \in Seq(Nat) /\ Len(h) = 1 /\ Len(h) + Len(t) = Len(channel)
      BY <1>2 DEF h, t
    <3>2. /\ b \in Seq(Nat) /\ Len(b) = Len(h) + Len(t)
          /\ \A i \in 1..Len(h) + Len(t) : b[i] = IF i <= Len(h) THEN h[i] ELSE t[i - Len(h)]
      <4> h \in Seq(Nat) /\ t \in Seq(Nat)
        BY <3>1
      <4> QED BY ConcatProperties DEF b
    <3>3. \A i \in 1..Len(channel) : i <= 1 => i = 1
      BY <1>2
    <3>4. /\ b \in Seq(Nat) /\ Len(b) = Len(channel)
          /\ \A i \in 1..Len(channel) : b[i] = IF i <= 1 THEN h[i] ELSE t[i - 1]
      BY <3>1, <3>2
    <3> QED BY <3>3, <3>4
  <2>2. \A i \in 1..Len(channel) : i <= 1 \/ t[i - 1] = channel[i]
    BY <1>1, <1>2, HeadTailProperties
  <2>3. h[1] = channel[1]
    BY <1>1
  <2>4. \A i \in 1..Len(channel) : i <= 1 => i = 1
    BY <1>2
  <2> HIDE DEF h, t, b
  <2>5. \A i \in 1..Len(channel) : b[i] = channel[i]
    BY <2>1, <2>2, <2>3, <2>4
  <2>6. b = channel
    BY <1>1, <2>1, <2>5, SeqEqual
  <2> QED BY <2>6 DEF b, h, t
<1>4. Ahead = heard \o channel
  BY <1>1, ConcatEmptySeq DEF Ahead
<1>5. Ahead' = heard \o (<<Head(channel)>> \o Tail(channel))
  <2>1. Ahead' = (heard \o <<Head(channel)>>) \o Tail(channel)
    BY <1>1 DEF Ahead
  <2> QED BY <1>1, <1>2, <2>1, ConcatAssociative, SMTT(60)
<1>6. Ahead' = Ahead
  BY <1>3, <1>4, <1>5
<1>7. Len(channel) <= Capacity /\ Capacity \in Nat
  BY VmServerAssumption DEF Messages
<1>8. Len(channel') <= Capacity
  BY <1>1, <1>2, <1>7
<1> QED BY <1>1, <1>2, <1>6, <1>8 DEF Messages, Ascending, ToSet

LEMMA MessagesNotify ==
  ASSUME Messages, Notify
  PROVE  Messages'
<1>1. /\ notifying # <<>> /\ notifying' = <<>> /\ UNCHANGED <<sent, channel>>
      /\ heard \in Seq(Nat) /\ channel \in Seq(Nat) /\ notifying \in Seq(Nat)
  BY DEF Notify, Messages
<1>2. PICK e \in Nat : notifying = <<e>> /\ notifying[1] = e
  <2>1. Len(notifying) \in Nat /\ Len(notifying) # 0 /\ Len(notifying) <= 1
    BY <1>1, EmptySeq DEF Messages
  <2>2. Len(notifying) = 1 /\ notifying[1] \in Nat
    <3>1. Len(notifying) = 1
      <4>1. \A n \in Nat : n # 0 /\ n <= 1 => n = 1
        OBVIOUS
      <4> QED BY <2>1, <4>1
    <3>2. 1 \in 1..Len(notifying)
      BY <3>1
    <3> QED BY <1>1, <3>1, <3>2, ElementOfSeq
  <2> DEFINE e == notifying[1]
  <2>3. <<e>> \in Seq(Nat) /\ Len(<<e>>) = 1 /\ <<e>>[1] = e
    BY <2>2
  <2>4. \A i \in 1..1 : i = 1
    OBVIOUS
  <2>5. notifying = <<e>>
    <3> HIDE DEF e
    <3>1. notifying[1] = e
      BY DEF e
    <3> QED BY <1>1, <2>2, <2>3, <2>4, <3>1, SeqEqual
  <2> QED BY <2>2, <2>5
<1>3. Ahead = heard \o <<e>> \o channel
  BY <1>2 DEF Ahead
<1>4. CASE heard' = heard \o notifying /\ UNCHANGED lost
  <2>1. heard' \in Seq(Nat)
    BY <1>4, AheadIsASeq
  <2>2. Ahead' = (heard' \o <<>>) \o channel
    BY <1>1 DEF Ahead
  <2>3. Ahead' = Ahead
    BY <1>4, <2>1, <2>2, ConcatEmptySeq DEF Ahead
  <2> QED BY <1>1, <1>4, <2>1, <2>3 DEF Messages, Ascending, ToSet
<1>5. CASE lost' = lost \cup {notifying[1]} /\ UNCHANGED heard
  <2>1. Ahead' = heard \o channel
    <3>1. Ahead' = (heard \o <<>>) \o channel
      BY <1>1, <1>5 DEF Ahead
    <3> QED BY <1>1, <3>1, ConcatEmptySeq
  <2>2. Ascending(heard \o <<e>> \o channel)
    BY <1>3 DEF Messages
  <2>3. /\ Ascending(Ahead')
        /\ ToSet(Ahead') = ToSet(Ahead) \ {e} /\ e \in ToSet(Ahead)
    BY <1>1, <1>3, <2>1, <2>2, LostIsLeftOut
  <2>4. Ascending(Ahead)'
    BY <2>3 DEF Ascending
  <2>5. ToSet(Ahead') \cup lost' = 1..sent' /\ ToSet(Ahead') \cap lost' = {}
    BY <1>1, <1>2, <1>5, <2>3 DEF Messages
  <2> QED BY <1>1, <1>5, <2>4, <2>5 DEF Messages, ToSet
<1> QED BY <1>4, <1>5 DEF Notify

LEMMA MessagesStay ==
  ASSUME Messages, UNCHANGED engine
  PROVE  Messages'
  BY DEF Messages, engine, Ahead, Ascending, ToSet

-----------------------------------------------------------------------------
(* What get_ancestors collects.                                            *)

\* A call that goes somewhere with what it has collected.
LEMMA ChainsMove ==
  ASSUME Chains, at \in [Calls -> Places], UNCHANGED <<blocks, static>>,
         NEW c \in Calls, NEW p \in Places, at' = [at EXCEPT ![c] = p],
         p # "new" \/ at[c] = "new",
         p \in {"waiting", "inside", "sending"} =>
            \/ at[c] \in {"waiting", "inside", "sending"} \/ blocks[c] = <<>>
            \/ Len(blocks[c]) < limits.num
  PROVE  Chains'
<1>1. ASSUME NEW d \in Calls
      PROVE  /\ Chain(blocks[d])'
             /\ at'[d] = "new" => blocks'[d] = <<>>
             /\ at'[d] \in {"waiting", "inside", "sending"} /\ blocks'[d] # <<>>
                  => Len(blocks'[d]) < limits'.num
  <2>1. Chain(blocks[d])'
    BY DEF Chains, Chain, Fits, static
  <2>2. CASE d = c
    BY <2>1, <2>2 DEF Chains, static
  <2>3. CASE d # c
    BY <2>1, <2>3 DEF Chains, static
  <2> QED BY <2>2, <2>3
<1>2. blocks' \in [Calls -> Seq(Nat)]
  BY DEF Chains
<1> QED BY <1>1, <1>2 DEF Chains

\* A walk that has a block more.
LEMMA ChainsGrow ==
  ASSUME Chains, at \in [Calls -> Places], UNCHANGED static,
         NEW c \in Calls, at' = [at EXCEPT ![c] = "walking"],
         NEW s \in Seq(Nat), blocks' = [blocks EXCEPT ![c] = s], Chain(s)
  PROVE  Chains'
<1>1. ASSUME NEW d \in Calls
      PROVE  /\ Chain(blocks[d])'
             /\ at'[d] = "new" => blocks'[d] = <<>>
             /\ at'[d] \in {"waiting", "inside", "sending"} /\ blocks'[d] # <<>>
                  => Len(blocks'[d]) < limits'.num
  <2>1. CASE d = c
    <3>1. blocks'[c] = s /\ at'[c] = "walking"
      BY DEF Chains
    <3> QED BY <2>1, <3>1 DEF Chain, Fits, static
  <2>2. CASE d # c
    <3>1. blocks'[d] = blocks[d] /\ at'[d] = at[d]
      BY <2>2 DEF Chains
    <3> QED BY <3>1 DEF Chains, Chain, Fits, static
  <2> QED BY <2>1, <2>2
<1>2. blocks' \in [Calls -> Seq(Nat)]
  BY DEF Chains
<1> QED BY <1>1, <1>2 DEF Chains

LEMMA ChainsStay ==
  ASSUME Chains, UNCHANGED <<at, blocks, static>>
  PROVE  Chains'
  BY DEF Chains, Chain, Fits, static

LEMMA ChainsFirst ==
  ASSUME Kinds, Chains, NEW c \in Calls, FirstBlock(c)
  PROVE  Chains'
<1>1. CASE Top >= lowest
  <2>1. Chain(<<Top>>) /\ <<Top>> \in Seq(Nat)
    BY <1>1, VmServerAssumption DEF Chain
  <2> QED BY <1>1, <2>1, ChainsGrow DEF FirstBlock, Kinds
<1>2. CASE ~(Top >= lowest)
  <2>1. at' = [at EXCEPT ![c] = "answered"] /\ UNCHANGED <<blocks, static>>
    BY <1>2 DEF FirstBlock, EndWalk, Answer
  <2> QED BY <2>1, ChainsMove DEF Kinds, Places
<1> QED BY <1>1, <1>2

LEMMA ChainsNext ==
  ASSUME Kinds, Chains, NEW c \in Calls, NextBlock(c)
  PROVE  Chains'
<1> DEFINE s == blocks[c]
           h == Last(s) - 1
           longer == Append(s, h)
<1>1. /\ s \in Seq(Nat) /\ s # <<>> /\ Chain(s) /\ Len(s) < limits.num
      /\ limits.num \in Nat /\ lowest \in Nat
  BY VmServerAssumption DEF Chains, NextBlock, Kinds
<1>2. Len(s) \in Nat \ {0} /\ Last(s) = s[Len(s)] /\ DOMAIN s = 1..Len(s)
  BY <1>1, EmptySeq DEF Last
<1>3. Last(s) = Top - Len(s) + 1 /\ Last(s) \in Nat /\ Top \in Nat
  <2>1. Len(s) \in DOMAIN s /\ Top \in Nat
    BY <1>2, VmServerAssumption
  <2>2. s[Len(s)] = Top - Len(s) + 1
    BY <1>1, <2>1 DEF Chain
  <2>3. s[Len(s)] \in Nat
    BY <1>1, <1>2, <2>1, ElementOfSeq
  <2> QED BY <1>2, <2>1, <2>2, <2>3
<1>4. CASE Last(s) = 0 \/ h < lowest \/ ~Fits(longer)
  <2>1. at' = [at EXCEPT ![c] = "answered"] /\ UNCHANGED <<blocks, static>>
    BY <1>4 DEF NextBlock, EndWalk, Answer
  <2> QED BY <2>1, ChainsMove DEF Kinds, Places
<1>5. CASE ~(Last(s) = 0 \/ h < lowest \/ ~Fits(longer))
  <2>1. /\ blocks' = [blocks EXCEPT ![c] = longer] /\ Fits(longer)
        /\ at' = [at EXCEPT ![c] = "walking"] /\ UNCHANGED static
    BY <1>5 DEF NextBlock
  <2>2. h \in Nat /\ h >= lowest /\ h = Top - (Len(s) + 1) + 1
    <3> DEFINE l == Last(s)  n == Len(s)
    <3>1. l \in Nat /\ l # 0 /\ ~(l - 1 < lowest) /\ l = Top - n + 1 /\ n \in Nat /\ lowest \in Nat
      BY <1>1, <1>2, <1>3, <1>5
    <3>2. h = l - 1
      OBVIOUS
    <3> HIDE DEF s, h, l, n
    <3>3. h \in Nat /\ h >= lowest /\ h = Top - (n + 1) + 1
      BY <1>3, <3>1, <3>2
    <3> QED BY <3>3 DEF n
  <2> HIDE DEF s, h
  <2>3. /\ longer \in Seq(Nat) /\ Len(longer) = Len(s) + 1 /\ longer[Len(s) + 1] = h
        /\ \A i \in 1..Len(s) : longer[i] = s[i]
    BY <1>1, <2>2, AppendProperties
  <2>4. DOMAIN longer = 1..Len(s) + 1
    BY <2>3
  <2> HIDE DEF longer
  <2>5. Chain(longer)
    <3>1. ASSUME NEW i \in DOMAIN longer
          PROVE  longer[i] = Top - i + 1 /\ longer[i] >= lowest
      <4>1. CASE i \in 1..Len(s)
        BY <1>1, <1>2, <2>3, <4>1 DEF Chain
      <4>2. CASE i = Len(s) + 1
        BY <2>2, <2>3, <4>2
      <4> QED BY <1>2, <2>4, <4>1, <4>2
    <3>2. Len(longer) <= limits.num
      BY <1>1, <1>2, <2>3
    <3> QED BY <2>1, <3>1, <3>2 DEF Chain
  <2> QED BY <2>1, <2>3, <2>5, ChainsGrow DEF Kinds
<1> QED BY <1>4, <1>5

-----------------------------------------------------------------------------
(* The invariant.                                                          *)

LEMMA VmInit == Init => VmInv
<1> SUFFICES ASSUME Init PROVE VmInv
  OBVIOUS
<1> <<>> \in Seq(Calls) /\ <<>> \in Seq(Nat) /\ Len(<<>>) = 0 /\ DOMAIN <<>> = {}
  OBVIOUS
<1>1. Kinds
  BY VmServerAssumption DEF Init, Kinds, Places
<1>2. Held
  BY DEF Init, Held, ToSet, IsInjective
<1>3. Reserved
  <2>1. Sending = {}
    BY DEF Init, Sending
  <2> QED BY <2>1, FS_EmptySet, VmServerAssumption DEF Init, Reserved
<1>4. Messages
  <2>1. Ahead = <<>>
    BY ConcatEmptySeq DEF Init, Ahead
  <2>2. heard = <<>> /\ notifying = <<>> /\ channel = <<>> /\ lost = {} /\ sent = 0
    BY DEF Init
  <2>3. 1..0 = {} /\ ToSet(<<>>) = {} /\ 0 <= Capacity /\ 0 <= 1
    BY VmServerAssumption DEF ToSet
  <2> QED BY <2>1, <2>2, <2>3 DEF Messages, Ascending
<1>5. Chains
  BY DEF Init, Chains, Chain
<1> QED BY <1>1, <1>2, <1>3, <1>4, <1>5 DEF VmInv

\* What a step does to the types does not depend on the lock.
LEMMA KindsNext == Kinds /\ [Next]_vars => Kinds'
<1> SUFFICES ASSUME Kinds, [Next]_vars PROVE Kinds'
  OBVIOUS
<1> USE DEF Kinds, static, calls, servers
<1>1. ASSUME NEW c \in Calls,
             NEW o \in {"initialize", "read", "write", "handlers", "ancestors"}, Call(c, o)
      PROVE  Kinds'
  BY <1>1 DEF Call, Places
<1>2. ASSUME NEW c \in Calls, Proceed(c) PROVE Kinds'
  <2>1. CASE Grant(c)
    BY <2>1 DEF Grant, Places
  <2>2. CASE Return(c)
    BY <2>2 DEF Return, Answer, Places
  <2>3. CASE Initialized(c)
    BY <2>3 DEF Initialized, Answer, Places
  <2>4. CASE Send(c)
    BY <2>4 DEF Send, Places
  <2>5. CASE Unsupported(c)
    BY <2>5 DEF Unsupported, Places
  <2>6. CASE BeginWalk(c)
    BY <2>6 DEF BeginWalk, Places
  <2>7. CASE FirstBlock(c)
    BY <2>7 DEF FirstBlock, EndWalk, Answer, Places
  <2>8. CASE Walk(c)
    BY <2>8 DEF Walk, EndWalk, Answer, Places
  <2>9. CASE NextBlock(c)
    BY <2>9 DEF NextBlock, EndWalk, Answer, Places
  <2> QED BY <1>2, <2>1, <2>2, <2>3, <2>4, <2>5, <2>6, <2>7, <2>8, <2>9 DEF Proceed
<1>3. ASSUME NEW c \in Calls, BeginSend(c) PROVE Kinds'
  BY <1>3 DEF BeginSend, Places
<1>4. ASSUME NEW c \in Calls, TimeOut(c) PROVE Kinds'
  BY <1>4 DEF TimeOut
<1>5. ASSUME NEW c \in Calls, StartHandler(c) PROVE Kinds'
  <2>1. handlers' \in Seq({"serving", "told", "ended"})
    BY <1>5, AppendProperties DEF StartHandler
  <2> QED BY <1>5, <2>1 DEF StartHandler
<1>6. ASSUME NEW c \in Calls, Shutdown(c) PROVE Kinds'
  <2> DEFINE S == {"serving", "told", "ended"}
  <2>1. Len(handlers) \in Nat /\ DOMAIN handlers = 1..Len(handlers)
    OBVIOUS
  <2>2. \A i \in 1..Len(handlers) : handlers[i] \in S
    BY <2>1, ElementOfSeq
  <2>3. \A i \in 1..Len(handlers) : Tell(handlers[i]) \in S
    BY <2>2 DEF Tell
  <2>4. handlers' = [i \in 1..Len(handlers) |-> Tell(handlers[i])]
    BY <1>6, <2>1 DEF Shutdown
  <2>5. handlers' \in Seq(S)
    BY <2>1, <2>3, <2>4, IsASeq
  <2> QED BY <1>6, <2>5 DEF Shutdown, Tell, Places
<1>7. CASE Receive
  BY <1>7 DEF Receive
<1>8. CASE Notify
  BY <1>8 DEF Notify
<1>9. ASSUME NEW i \in 1..MaxServers, EndHandler(i) PROVE Kinds'
  <2>1. handlers' \in Seq({"serving", "told", "ended"})
    BY <1>9, ExceptSeq DEF EndHandler
  <2> QED BY <1>9, <2>1 DEF EndHandler
<1>10. CASE EndServer
  BY <1>10 DEF EndServer
<1>11. CASE UNCHANGED vars
  BY <1>11 DEF vars
<1> QED
  BY <1>1, <1>2, <1>3, <1>4, <1>5, <1>6, <1>7, <1>8, <1>9, <1>10, <1>11 DEF Next

LEMMA VmNext == VmInv /\ [Next]_vars => VmInv'
<1> SUFFICES ASSUME VmInv, [Next]_vars PROVE VmInv'
  OBVIOUS
<1> Kinds /\ Held /\ Reserved /\ Messages /\ Chains /\ at \in [Calls -> Places] /\ sent \in Nat
  BY DEF VmInv, Kinds, Reserved
<1>a. Kinds'
  BY KindsNext
<1> DEFINE Others == Held' /\ Reserved' /\ Messages' /\ Chains'
<1> USE DEF Places
<1>1. ASSUME NEW c \in Calls,
             NEW o \in {"initialize", "read", "write", "handlers", "ancestors"}, Call(c, o)
      PROVE  Others
  <2>1. /\ at[c] = "new" /\ at' = [at EXCEPT ![c] = "waiting"] /\ Enqueue(c)
        /\ UNCHANGED <<static, blocks, sent, engine>>
    BY <1>1 DEF Call, walks, engine
  <2>2. blocks[c] = <<>>
    BY <2>1 DEF Chains
  <2> QED BY <2>1, <2>2, Enqueues, ReservedStays, MessagesStay, ChainsMove
<1>2. ASSUME NEW c \in Calls, Proceed(c) PROVE Others
  <2>1. CASE Grant(c)
    <3>1. Held' /\ at[c] = "waiting"
      BY <2>1, Grants
    <3>2. /\ at' = [at EXCEPT ![c] = "inside"] /\ UNCHANGED <<static, blocks, sent, engine>>
      BY <2>1 DEF Grant, walks, engine
    <3> QED BY <3>1, <3>2, ReservedStays, MessagesStay, ChainsMove
  <2>2. CASE Return(c) \/ Initialized(c)
    <3>1. /\ at[c] = "inside" /\ at' = [at EXCEPT ![c] = "answered"] /\ Release(c)
          /\ UNCHANGED <<static, blocks, sent, engine>>
      BY <2>2 DEF Return, Initialized, Answer, walks, engine
    <3> QED BY <3>1, Releases, ReservedStays, MessagesStay, ChainsMove
  <2>3. CASE Send(c)
    <3>1. /\ at[c] = "sending" /\ at' = [at EXCEPT ![c] = "inside"]
          /\ UNCHANGED <<lock, static, blocks>>
      BY <2>3 DEF Send, walks
    <3> QED BY <2>3, <3>1, Elsewhere, Spends, MessagesSend, ChainsMove
  <2>4. CASE Unsupported(c)
    <3>1. /\ at[c] = "inside" /\ at' = [at EXCEPT ![c] = "walking"] /\ Release(c)
          /\ UNCHANGED <<static, blocks, sent, engine>>
      BY <2>4 DEF Unsupported, walks, engine
    <3> QED BY <3>1, Releases, ReservedStays, MessagesStay, ChainsMove
  <2>5. CASE BeginWalk(c)
    <3>1. /\ at[c] = "walking" /\ at' = [at EXCEPT ![c] = "waiting"] /\ Enqueue(c)
          /\ blocks[c] = <<>> /\ UNCHANGED <<static, blocks, sent, engine>>
      BY <2>5 DEF BeginWalk, walks, engine
    <3> QED BY <3>1, Enqueues, ReservedStays, MessagesStay, ChainsMove
  <2>6. CASE FirstBlock(c)
    <3>1. PICK p \in {"walking", "answered"} : at' = [at EXCEPT ![c] = p]
      BY <2>6 DEF FirstBlock, EndWalk, Answer
    <3>2. at[c] = "inside" /\ Release(c) /\ UNCHANGED <<sent, engine>>
      BY <2>6 DEF FirstBlock, engine
    <3> QED BY <2>6, <3>1, <3>2, Releases, ReservedStays, MessagesStay, ChainsFirst
  <2>7. CASE Walk(c)
    <3>1. at[c] = "walking" /\ UNCHANGED <<static, blocks, sent, engine>>
      BY <2>7 DEF Walk, engine
    <3>2. CASE Len(blocks[c]) < limits.num /\ c \in late
      <4>1. at' = [at EXCEPT ![c] = "waiting"] /\ Enqueue(c)
        BY <2>7, <3>2 DEF Walk
      <4> QED BY <3>1, <3>2, <4>1, Enqueues, ReservedStays, MessagesStay, ChainsMove
    <3>3. CASE ~(Len(blocks[c]) < limits.num /\ c \in late)
      <4>1. at' = [at EXCEPT ![c] = "answered"] /\ UNCHANGED lock
        BY <2>7, <3>3 DEF Walk, EndWalk, Answer
      <4> QED BY <3>1, <4>1, Elsewhere, ReservedStays, MessagesStay, ChainsMove
    <3> QED BY <3>2, <3>3
  <2>8. CASE NextBlock(c)
    <3>1. PICK p \in {"walking", "answered"} : at' = [at EXCEPT ![c] = p]
      BY <2>8 DEF NextBlock, EndWalk, Answer
    <3>2. at[c] = "inside" /\ Release(c) /\ UNCHANGED <<sent, engine>>
      BY <2>8 DEF NextBlock, engine
    <3> QED BY <2>8, <3>1, <3>2, Releases, ReservedStays, MessagesStay, ChainsNext
  <2> QED BY <1>2, <2>1, <2>2, <2>3, <2>4, <2>5, <2>6, <2>7, <2>8 DEF Proceed
<1>3. ASSUME NEW c \in Calls, BeginSend(c) PROVE Others
  <2>1. /\ at[c] = "inside" /\ at' = [at EXCEPT ![c] = "sending"]
        /\ UNCHANGED <<lock, static, blocks, engine>>
    BY <1>3 DEF BeginSend, walks
  <2> QED BY <1>3, <2>1, Elsewhere, Reserves, MessagesStay, ChainsMove
<1>4. ASSUME UNCHANGED <<at, lock, blocks, static, sent>>, Messages' PROVE Others
  <2>1. Reserved'
    BY <1>4 DEF Reserved, Sending
  <2> QED BY <1>4, <2>1, HeldStays, ChainsStay
<1>5. ASSUME NEW c \in Calls, TimeOut(c) PROVE Others
  BY <1>4, <1>5, MessagesStay DEF TimeOut, calls, engine
<1>6. ASSUME NEW c \in Calls, StartHandler(c) PROVE Others
  BY <1>4, <1>6, MessagesStay DEF StartHandler, calls, engine, walks
<1>7. ASSUME NEW c \in Calls, Shutdown(c) PROVE Others
  <2>1. /\ at[c] = "new" /\ at' = [at EXCEPT ![c] = "answered"]
        /\ UNCHANGED <<lock, static, blocks, sent, engine>>
    BY <1>7 DEF Shutdown, walks, engine
  <2> QED BY <2>1, Elsewhere, ReservedStays, MessagesStay, ChainsMove
<1>8. ASSUME Receive PROVE Others
  BY <1>4, <1>8, MessagesReceive DEF Receive, calls, walks
<1>9. ASSUME Notify PROVE Others
  BY <1>4, <1>9, MessagesNotify DEF Notify, calls, walks
<1>10. ASSUME NEW i \in 1..MaxServers, EndHandler(i) PROVE Others
  BY <1>4, <1>10, MessagesStay DEF EndHandler, calls, engine, walks
<1>11. ASSUME EndServer PROVE Others
  BY <1>4, <1>11, MessagesStay DEF EndServer, calls, engine, walks
<1>12. ASSUME UNCHANGED vars PROVE Others
  BY <1>4, <1>12, MessagesStay DEF vars, lock, engine, static
<1>13. Others
  BY <1>1, <1>2, <1>3, <1>5, <1>6, <1>7, <1>8, <1>9, <1>10, <1>11, <1>12 DEF Next
<1> QED BY <1>a, <1>13 DEF VmInv

LEMMA VmAlways == Spec => []VmInv
  BY VmInit, VmNext, PTL DEF Spec

-----------------------------------------------------------------------------
(* The theorems.                                                           *)

\* The lock of the server (subnet/rpc/vm/server.rs) is held by exactly the
\* calls that look at the VM, by a writer alone; the channel to the engine
\* never overflows.
THEOREM TypeCorrect == Spec => []TypeOK
<1>1. VmInv => TypeOK
  <2> SUFFICES ASSUME VmInv PROVE TypeOK
    OBVIOUS
  <2>1. sent \in 0..MaxSent
    <3>1. Sending \subseteq Calls /\ IsFiniteSet(Sending)
      BY VmServerAssumption, FS_Subset DEF Sending
    <3>2. Cardinality(Sending) \in Nat
      BY <3>1, FS_CardinalityType
    <3> QED BY <3>2, VmServerAssumption DEF VmInv, Reserved
  <2> QED BY <2>1 DEF VmInv, Kinds, Held, Messages, TypeOK
<1> QED BY VmAlways, <1>1, PTL

\* The task that empties the channel (subnet/rpc/vm/server.rs, initialize) is
\* one, and waits for each notify: the node hears of the messages in the order
\* they were sent in, and every message is heard of, lost, or on its way.
THEOREM HeardInOrder == Spec => []EngineHearsInOrder
<1>1. VmInv => EngineHearsInOrder
  BY DEF VmInv, Messages, EngineHearsInOrder, Ahead, Ascending
<1> QED BY VmAlways, <1>1, PTL

\* get_ancestors takes the lock anew for each block and has other calls between
\* two of them: what it answers is a chain all the same, within the limits.
THEOREM AncestorsChain == Spec => []AncestorsAreAChain
<1>1. VmInv => AncestorsAreAChain
  <2> SUFFICES ASSUME VmInv, NEW c \in Calls
               PROVE  /\ blocks[c] = [i \in 1..Len(blocks[c]) |-> Top - i + 1]
                      /\ Len(blocks[c]) > 1 => Len(blocks[c]) <= limits.num /\ Fits(blocks[c])
                      /\ \A i \in DOMAIN blocks[c] : blocks[c][i] >= lowest
    BY DEF AncestorsAreAChain
  <2> DEFINE s == blocks[c]
  <2>1. s \in Seq(Nat) /\ Chain(s)
    BY DEF VmInv, Chains
  <2> HIDE DEF s
  <2>2. /\ \A i \in DOMAIN s : s[i] = Top - i + 1 /\ s[i] >= lowest
        /\ Len(s) > 1 => Len(s) <= limits.num /\ Fits(s)
    BY <2>1 DEF Chain
  <2>3. DOMAIN s = 1..Len(s) /\ s = [i \in DOMAIN s |-> s[i]]
    BY <2>1
  <2>4. s = [i \in 1..Len(s) |-> Top - i + 1]
    BY <2>2, <2>3
  <2> QED BY <2>2, <2>4 DEF s
<1> QED BY VmAlways, <1>1, PTL
=============================================================================
