-------------------------- MODULE VersionDbIterator --------------------------
(***************************************************************************)
(* subnet/rpc/database/versiondb/iterator.rs: a scan over a versiondb,     *)
(* which merges a sorted copy of the entries staged in mem with an         *)
(* iterator of the underlying memdb, itself a sorted copy.  Keys are the   *)
(* numbers 1..N in the order of their bytes; 0 stands for the empty key.   *)
(* release, which clears all of it, is left out: nothing calls next after. *)
(***************************************************************************)
EXTENDS Integers, Sequences

CONSTANTS
  N,            \* number of keys
  Values,
  None, Unset, Deleted,
  AnyTombstones \* any key may be staged as deleted; else only keys that the
                \* underlying database has, and it stays open if there are any

Keys == 1..N
NoKey == 0

VARIABLES
  mem,        \* the entries staged when the scan was created
  db,         \* the content of the underlying database then
  keys,       \* staged keys the scan has not come to
  below,      \* keys left to the iterator of the underlying database
  initialized, exhausted,
  closed, dbClosed,
  err, dbErr, \* the scan, or the iterator below, recorded "database closed"
  key, value, \* the current pair
  phase,      \* "ready" for a call of next, "loop" in one, "ended", "panicked"
  out         \* the pairs next has returned true for

vars == <<mem, db, keys, below, initialized, exhausted, closed, dbClosed, err,
          dbErr, key, value, phase, out>>

-----------------------------------------------------------------------------
(* The iterator of the underlying memdb (memdb/iterator.rs).               *)

First(S) == CHOOSE k \in S : \A j \in S : k <= j

BelowKey   == IF below = {} THEN NoKey ELSE First(below)
BelowValue == IF below = {} THEN None ELSE db[First(below)]

\* Its next: the first call only looks, the others drop the current key; on
\* a closed database it drops everything and records the error.
StepBelow ==
  LET rest == IF dbClosed THEN {}
              ELSE IF initialized /\ below # {} THEN below \ {First(below)} ELSE below
  IN /\ below' = rest
     /\ dbErr' = (dbErr \/ dbClosed)
     /\ exhausted' = (rest = {})

-----------------------------------------------------------------------------
(* next: one action per branch of its loop.                                *)

Keep == UNCHANGED <<below, dbErr, exhausted>>
Always == UNCHANGED <<mem, db, initialized, closed, dbClosed, err>>

Yield(k, v) ==
  /\ key' = k /\ value' = v
  /\ out' = Append(out, <<k, v>>)
  /\ phase' = "ready"

Again == phase' = "loop" /\ UNCHANGED <<key, value, out>>

\* next on a closed versiondb.
NextClosed ==
  /\ phase = "ready" /\ closed
  /\ keys' = {}
  /\ err' = TRUE
  /\ phase' = "ended"
  /\ UNCHANGED <<mem, db, below, initialized, exhausted, closed, dbClosed, dbErr,
                 key, value, out>>

NextOpen ==
  /\ phase = "ready" /\ ~closed
  /\ phase' = "loop"
  /\ IF initialized THEN Keep ELSE StepBelow
  /\ initialized' = TRUE
  /\ UNCHANGED <<mem, db, keys, closed, dbClosed, err, key, value, out>>

Drained ==
  /\ phase = "loop" /\ exhausted /\ keys = {}
  /\ key' = NoKey /\ value' = None
  /\ phase' = "ended"
  /\ UNCHANGED <<out, keys>> /\ Keep /\ Always

\* What the loop does with the pair of the iterator below.
YieldBelow == Yield(BelowKey, BelowValue) /\ StepBelow

\* Nothing is left below: the first staged entry is next.  A staged delete
\* does not go round the loop: it falls through to the branches for a key
\* below that is smaller, and the exhausted iterator has the empty key.
OnlyStaged ==
  LET m == First(keys) IN
  /\ phase = "loop" /\ exhausted /\ keys # {}
  /\ keys' = keys \ {m}
  /\ \/ mem[m] # Deleted /\ Yield(m, mem[m]) /\ Keep
     \/ mem[m] = Deleted /\ YieldBelow
  /\ Always

OnlyBelow ==
  /\ phase = "loop" /\ ~exhausted /\ keys = {}
  /\ YieldBelow
  /\ UNCHANGED keys /\ Always

BelowFirst ==
  /\ phase = "loop" /\ ~exhausted /\ keys # {}
  /\ BelowKey < First(keys)
  /\ YieldBelow
  /\ UNCHANGED keys /\ Always

\* Mutant: the key below is not skipped when a staged entry replaces it.
SameKey_KeepBelow ==
  LET m == First(keys) IN
  /\ phase = "loop" /\ ~exhausted /\ keys # {}
  /\ BelowKey = m
  /\ keys' = keys \ {m}
  /\ IF mem[m] = Deleted THEN Again ELSE Yield(m, mem[m])
  /\ Keep /\ Always

SameKey ==
  LET m == First(keys) IN
  /\ phase = "loop" /\ ~exhausted /\ keys # {}
  /\ BelowKey = m
  /\ keys' = keys \ {m}
  /\ StepBelow
  /\ IF mem[m] = Deleted THEN Again ELSE Yield(m, mem[m])
  /\ Always

\* A staged delete of a key that is not below falls through here too: the
\* entry after it is dropped with it, unread, or the index is out of bounds
\* when there is none, and the iterator below moves on from a key that was
\* never returned.
StagedFirst ==
  LET m == First(keys) IN
  /\ phase = "loop" /\ ~exhausted /\ keys # {}
  /\ m < BelowKey
  /\ \/ mem[m] # Deleted /\ Yield(m, mem[m]) /\ Keep /\ keys' = keys \ {m}
     \/ /\ mem[m] = Deleted /\ keys # {m}
        /\ keys' = keys \ {m, First(keys \ {m})}
        /\ StepBelow
        /\ Again
     \/ /\ mem[m] = Deleted /\ keys = {m}
        /\ phase' = "panicked"
        /\ keys' = {}
        /\ Keep /\ UNCHANGED <<key, value, out>>
  /\ Always

-----------------------------------------------------------------------------
(* What others do meanwhile.                                               *)

Close ==
  /\ ~closed
  /\ closed' = TRUE
  /\ UNCHANGED <<mem, db, keys, below, initialized, exhausted, dbClosed, err,
                 dbErr, key, value, phase, out>>

CloseBelow ==
  /\ ~dbClosed
  /\ AnyTombstones \/ \A k \in Keys : mem[k] # Deleted
  /\ dbClosed' = TRUE
  /\ UNCHANGED <<mem, db, keys, below, initialized, exhausted, closed, err,
                 dbErr, key, value, phase, out>>

\* new_iterator copies mem and the database below while it holds the lock of
\* mem: later changes of either do not reach the scan.
Init ==
  /\ db \in [Keys -> Values \cup {None}]
  /\ mem \in [Keys -> Values \cup {Deleted, Unset}]
  /\ \A k \in Keys : mem[k] = Deleted =>
       AnyTombstones \/ db[k] # None
  /\ keys = {k \in Keys : mem[k] # Unset}
  /\ below = {k \in Keys : db[k] # None}
  /\ initialized = FALSE /\ exhausted = FALSE
  /\ closed = FALSE /\ dbClosed = FALSE
  /\ err = FALSE /\ dbErr = FALSE
  /\ key = NoKey /\ value = None
  /\ phase = "ready"
  /\ out = <<>>

Next == \/ NextClosed \/ NextOpen \/ Drained \/ OnlyStaged \/ OnlyBelow
        \/ BelowFirst \/ SameKey \/ StagedFirst \/ Close \/ CloseBelow

Spec == Init /\ [][Next]_vars

-----------------------------------------------------------------------------
(* Properties.                                                             *)

\* The database as the scan should show it: staged entries over the others.
View == [k \in Keys |-> IF mem[k] = Unset THEN db[k]
                        ELSE IF mem[k] = Deleted THEN None ELSE mem[k]]

\* The types; only keys the copies had are still to come, and exhausted says
\* whether the iterator below has any.
TypeOK ==
  /\ keys \subseteq {k \in Keys : mem[k] # Unset}
  /\ below \subseteq {k \in Keys : db[k] # None}
  /\ initialized => (exhausted <=> below = {})
  /\ key \in Keys \cup {NoKey} /\ value \in Values \cup {None}
  /\ phase \in {"ready", "loop", "ended", "panicked"}
  /\ {initialized, exhausted, closed, dbClosed, err, dbErr} \subseteq BOOLEAN
  /\ out \in Seq((Keys \cup {NoKey}) \X (Values \cup {None}))

\* Each time next returns true it has moved to the next larger key, one that
\* the view has, with its value in the view.
PairsOfTheView ==
  /\ \A i \in 1..Len(out) : out[i][1] \in Keys /\ out[i][2] = View[out[i][1]]
                            /\ out[i][2] # None
  /\ \A i \in 1..Len(out) - 1 : out[i][1] < out[i + 1][1]

\* A scan that ends has shown every pair of the view, or error() fails.
EndIsTheEnd ==
  /\ phase # "panicked"
  /\ phase = "ended" /\ ~err /\ ~dbErr =>
       {out[i][1] : i \in 1..Len(out)} = {k \in Keys : View[k] # None}

\* The two together: what next promises of the pairs it moves to.
ScanIsTheView == PairsOfTheView /\ EndIsTheEnd
=============================================================================
