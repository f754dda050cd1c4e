------------------------------- MODULE IdBags -------------------------------
(***************************************************************************)
(* Bags of ids, as a poll counts votes: a bag keeps with its counts their  *)
(* sum, an id counted most often and the ids that have met a threshold.    *)
(* filter and split make bags of ids that agree in some bits; a unique bag *)
(* keeps for each id the set of voters, and makes a bag of their numbers.  *)
(*                                                                         *)
(* An id is its bits.  The maps have no order, so whatever goes through    *)
(* one may do so in any.                                                   *)
(***************************************************************************)
EXTENDS Integers, Sequences, SequencesExt, FiniteSetsExt

CONSTANTS
  BITS_PER_BYTES, ID_LEN,  \* 8 and 32 in the code
  Ids, EmptyId,            \* ids in use; Id::empty()
  Counts, Thresholds, Voters,
  MaxVotes                 \* bound on the size of a bag, 2^32 - 1 in the code

NUM_BITS == BITS_PER_BYTES * ID_LEN

VARIABLES
  bags,    \* the bag there is, or none
  made,    \* history: the last call that made bags, what of, and these
  uniques  \* two unique bags, or none

vars == <<bags, made, uniques>>

-----------------------------------------------------------------------------
(* Bits.                                                                   *)

\* Mutant: the bytes in between are compared only where there are two.
equal_subset_SkipsOne(start, stop, id1, id2) ==
  LET last == stop - 1
      first_byte == start \div BITS_PER_BYTES
      last_byte == last \div BITS_PER_BYTES
      from == (start % BITS_PER_BYTES)..(BITS_PER_BYTES - 1)
      to == 0..(last % BITS_PER_BYTES)
      Same(byte, bits) ==
        \A b \in bits : id1[byte * BITS_PER_BYTES + b] = id2[byte * BITS_PER_BYTES + b]
  IN  \/ stop = 0 \/ start > last
      \/ /\ last < NUM_BITS
         /\ \A byte \in (first_byte + 1)..(last_byte - 2) : Same(byte, 0..(BITS_PER_BYTES - 1))
         /\ IF first_byte = last_byte THEN Same(first_byte, from \intersect to)
            ELSE Same(first_byte, from) /\ Same(last_byte, to)

\* Bits start to stop - 1 are the same: the bytes in between, and of the first
\* and the last byte the bits a mask leaves.  No range holds more than there are.
equal_subset(start, stop, id1, id2) ==
  LET last == stop - 1
      first_byte == start \div BITS_PER_BYTES
      last_byte == last \div BITS_PER_BYTES
      from == (start % BITS_PER_BYTES)..(BITS_PER_BYTES - 1)
      to == 0..(last % BITS_PER_BYTES)
      Same(byte, bits) ==
        \A b \in bits : id1[byte * BITS_PER_BYTES + b] = id2[byte * BITS_PER_BYTES + b]
  IN  \/ stop = 0 \/ start > last
      \/ /\ last < NUM_BITS
         /\ \A byte \in (first_byte + 1)..(last_byte - 1) : Same(byte, 0..(BITS_PER_BYTES - 1))
         /\ IF first_byte = last_byte THEN Same(first_byte, from \intersect to)
            ELSE Same(first_byte, from) /\ Same(last_byte, to)

-----------------------------------------------------------------------------
(* A bag.  counts has an id only once it was counted.                      *)

New == [counts |-> <<>>, size |-> 0, mode |-> EmptyId, mode_freq |-> 0,
        threshold |-> 0, met |-> {}]

count(b, id) == IF id \in DOMAIN b.counts THEN b.counts[id] ELSE 0

add_count(b, id, n) ==
  LET total == count(b, id) + n IN
  IF n = 0 THEN b
  ELSE [counts |-> [i \in DOMAIN b.counts \union {id} |->
                      IF i = id THEN total ELSE b.counts[i]],
        size |-> b.size + n,
        mode |-> IF total > b.mode_freq THEN id ELSE b.mode,
        mode_freq |-> IF total > b.mode_freq THEN total ELSE b.mode_freq,
        threshold |-> b.threshold,
        met |-> IF total >= b.threshold THEN b.met \union {id} ELSE b.met]

\* Bound: the bags one call has made are dropped before the next call.
Idle == made.by = "none"

Drop == ~Idle /\ made' = [by |-> "none", bags |-> <<>>] /\ UNCHANGED <<bags, uniques>>

\* Mutant: ids that have met the lower threshold stay.
set_threshold_NoClear(b, t) ==
  [b EXCEPT !.threshold = t,
            !.met = @ \union {id \in DOMAIN b.counts : b.counts[id] >= t}]

set_threshold(b, t) ==
  IF t = b.threshold THEN b
  ELSE [b EXCEPT !.threshold = t,
                 !.met = {id \in DOMAIN b.counts : b.counts[id] >= t}]

\* A new bag with threshold t, and n[id] counted for each id in S, in some order.
Counted(t, S, n) ==
  {FoldLeft(LAMBDA b, id : add_count(b, id, n[id]), set_threshold(New, t), order) :
     order \in SetToSeqs(S)}

Add ==
  /\ Idle
  /\ \E i \in DOMAIN bags, id \in Ids, n \in Counts :
       /\ bags[i].size + n <= MaxVotes
       /\ bags' = [bags EXCEPT ![i] = add_count(@, id, n)]
  /\ UNCHANGED <<made, uniques>>

SetThreshold ==
  /\ Idle
  /\ \E i \in DOMAIN bags, t \in Thresholds :
       bags' = [bags EXCEPT ![i] = set_threshold(@, t)]
  /\ UNCHANGED <<made, uniques>>

filter ==
  /\ Idle
  /\ \E i \in DOMAIN bags, start \in 0..NUM_BITS, stop \in 0..(NUM_BITS + 1), id \in Ids :
       LET c == bags[i].counts
           S == {v \in DOMAIN c : equal_subset(start, stop, id, v)} IN
       \E b \in Counted(0, S, c) :
         made' = [by |-> "filter", of |-> c, start |-> start, stop |-> stop,
                  id |-> id, bags |-> <<b>>]
  /\ UNCHANGED <<bags, uniques>>

split ==
  /\ Idle
  /\ \E i \in DOMAIN bags, index \in 0..(NUM_BITS - 1) :
       LET c == bags[i].counts
           With(bit) == Counted(0, {v \in DOMAIN c : v[index] = bit}, c)
       IN  \E b0 \in With(0), b1 \in With(1) :
             made' = [by |-> "split", of |-> c, index |-> index, bags |-> <<b0, b1>>]
  /\ UNCHANGED <<bags, uniques>>

-----------------------------------------------------------------------------
(* Unique bags.  An id with no voters left is still there.                 *)

union_set(u, id, set) ==
  [i \in DOMAIN u \union {id} |->
     IF i # id THEN u[i] ELSE IF id \in DOMAIN u THEN u[id] \union set ELSE set]

Vote ==
  /\ Idle
  /\ \E k \in DOMAIN uniques, voter \in Voters, ids \in SUBSET Ids \ {{}} :
       uniques' = [uniques EXCEPT
                     ![k] = FoldSet(LAMBDA id, u : union_set(u, id, {voter}), @, ids)]
  /\ UNCHANGED <<bags, made>>

difference_set ==
  /\ Idle
  /\ \E k \in DOMAIN uniques, voters \in SUBSET Voters :
       \E id \in DOMAIN uniques[k] :
         uniques' = [uniques EXCEPT ![k][id] = @ \ voters]
  /\ UNCHANGED <<bags, made>>

\* Of another bag: one taken from itself borrows its sets twice and panics.
difference ==
  /\ Idle
  /\ \E k \in DOMAIN uniques :
       LET diff == uniques[3 - k] IN
       uniques' = [uniques EXCEPT ![k] =
         [id \in DOMAIN @ |-> IF id \in DOMAIN diff THEN @[id] \ diff[id] ELSE @[id]]]
  /\ UNCHANGED <<bags, made>>

remove_set ==
  /\ Idle
  /\ \E k \in DOMAIN uniques, id \in Ids :
       uniques' = [uniques EXCEPT ![k] = [i \in DOMAIN @ \ {id} |-> @[i]]]
  /\ UNCHANGED <<bags, made>>

clear ==
  /\ Idle
  /\ \E k \in DOMAIN uniques : uniques' = [uniques EXCEPT ![k] = <<>>]
  /\ UNCHANGED <<bags, made>>

unique_bag ==
  /\ Idle
  /\ \E k \in DOMAIN uniques, alpha \in Thresholds :
       LET u == uniques[k]
           voters == [id \in DOMAIN u |-> Cardinality(u[id])]
       IN
       \E b \in Counted(alpha, DOMAIN u, voters) :
         made' = [by |-> "unique", of |-> u, alpha |-> alpha, bags |-> <<b>>]
  /\ UNCHANGED <<bags, uniques>>

-----------------------------------------------------------------------------
Init ==
  /\ \/ bags = <<New>> /\ uniques = <<>>
     \/ bags = <<>> /\ uniques = << <<>>, <<>> >>
  /\ made = [by |-> "none", bags |-> <<>>]

Next ==
  \/ Add \/ SetThreshold \/ filter \/ split
  \/ Vote \/ difference_set \/ difference \/ remove_set \/ clear \/ unique_bag
  \/ Drop

Spec == Init /\ [][Next]_vars

-----------------------------------------------------------------------------
\* What a bag keeps is that of its counts, in whatever order they came.
Consistent(b) ==
  LET all == {b.counts[id] : id \in DOMAIN b.counts} IN
  /\ b.size = FoldSet(LAMBDA id, sum : b.counts[id] + sum, 0, DOMAIN b.counts)
  /\ b.mode_freq = IF all = {} THEN 0 ELSE Max(all)
  /\ b.mode_freq = IF all = {} THEN 0 ELSE count(b, b.mode)
  /\ b.met = {id \in DOMAIN b.counts : b.counts[id] >= b.threshold}

Kept(b, S) == b.counts = [id \in S |-> made.of[id]]

\* Size, mode and the ids that have met the threshold agree with the counts,
\* whenever ids were counted and the threshold was changed, and of the bags that
\* were made, too: filter keeps the ids with the same bits in the range,
\* split sends each id to one of two, and a unique bag counts each voter once.
BagIsItsCounts ==
  /\ \A i \in DOMAIN bags : Consistent(bags[i])
  /\ \A i \in DOMAIN made.bags : Consistent(made.bags[i])
  /\ made.by = "filter" =>
       Kept(made.bags[1],
            {v \in DOMAIN made.of : \A i \in made.start..(made.stop - 1) :
                                      i < NUM_BITS /\ v[i] = made.id[i]})
  /\ made.by = "split" =>
       \A bit \in {0, 1} :
         Kept(made.bags[bit + 1], {v \in DOMAIN made.of : v[made.index] = bit})
  /\ made.by = "unique" =>
       made.bags[1].counts = [id \in {i \in DOMAIN made.of : made.of[i] # {}} |->
                                Cardinality(made.of[id])]
=============================================================================
