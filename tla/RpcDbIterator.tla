---------------------------- MODULE RpcDbIterator ----------------------------
(***************************************************************************)
(* An iterator of the rpcdb client over a database another process serves. *)
(* The client holds a page of pairs and asks for the next one when it      *)
(* stands on the last pair of the page.  The server fills a page from the  *)
(* iterator it keeps.  Connections break, and a request whose caller was   *)
(* told so may still be served.                                            *)
(*                                                                         *)
(* The pairs of the served iterator are 1..N, copied when it was made.     *)
(***************************************************************************)
EXTENDS Naturals, Sequences

CONSTANTS
  N,         \* how many pairs there are
  PageSize,  \* no more pairs than this fit in MAX_BATCH_SIZE bytes
  MaxBroken  \* bound: calls that meet a broken connection

ASSUME RpcDbIteratorAssumption == /\ N \in Nat /\ MaxBroken \in Nat
                                  /\ PageSize \in Nat \ {0}

VARIABLES
  dbClosed,   \* the served database is closed
  left,       \* pairs the served iterator has not handed out
  dbErr,      \* the served iterator has met the closed database
  call,       \* the call of the client's iterator: "none" between two,
              \* "released" after the last
  net,        \* where it is: "none", "request", "reply"
  reply,      \* the reply on its way
  strays,     \* requests for a page whose caller saw the connection break
  broken,     \* calls that did
  closed,     \* the client has called close
  data,       \* the client's page, it stands on the first pair
  err,        \* the client's errors are not empty
  out,        \* the pairs the caller was given
  ended,      \* the last next returned false
  complete    \* and error returned Ok after that

vars == <<dbClosed, left, dbErr, call, net, reply, strays, broken, closed, data,
          err, out, ended, complete>>
served == <<dbClosed, left, dbErr>>
wire == <<call, net, reply>>

NoPair == 0
NoReply == [page |-> <<>>, ok |-> TRUE]

-----------------------------------------------------------------------------
(* The client.                                                             *)

\* key and value of an empty page are empty.
Current(page) == IF page = <<>> THEN NoPair ELSE Head(page)

Send(op) == call' = op /\ net' = "request" /\ UNCHANGED reply
Done(op) == call' = op /\ net' = "none" /\ reply' = NoReply

GiveFrom(page) == /\ data' = page
                  /\ out' = Append(out, Current(page))
                  /\ ended' = FALSE /\ complete' = FALSE
End == ended' = TRUE /\ complete' = FALSE /\ UNCHANGED out

\* Mutant: no error is recorded.
NextClosed_NoError ==
  /\ call = "none" /\ closed
  /\ End
  /\ UNCHANGED <<served, wire, strays, broken, closed, data, err>>

NextClosed ==
  /\ call = "none" /\ closed
  /\ err' = TRUE
  /\ End
  /\ UNCHANGED <<served, wire, strays, broken, closed, data>>

NextInPage ==
  /\ call = "none" /\ ~closed /\ Len(data) > 1
  /\ GiveFrom(Tail(data))
  /\ UNCHANGED <<served, wire, strays, broken, closed, err>>

CallNext ==
  /\ call = "none" /\ ~closed /\ Len(data) <= 1
  /\ Send("next")
  /\ UNCHANGED <<served, strays, broken, closed, data, err, out, ended, complete>>

\* Without an error of its own the client asks the server.
CallError ==
  /\ call = "none" /\ ~err
  /\ Send("error")
  /\ UNCHANGED <<served, strays, broken, closed, data, err, out, ended, complete>>

CallRelease ==
  /\ call = "none"
  /\ Send("release")
  /\ UNCHANGED <<served, strays, broken, closed, data, err, out, ended, complete>>

ReceivePage ==
  /\ net = "reply" /\ call = "next"
  /\ Done("none")
  /\ \/ reply.page # <<>> /\ GiveFrom(reply.page)
     \/ reply.page = <<>> /\ End /\ data' = <<>>
  /\ UNCHANGED <<served, strays, broken, closed, err>>

ReceiveError ==
  /\ net = "reply" /\ call = "error"
  /\ Done("none")
  /\ err' = ~reply.ok
  /\ complete' = (ended /\ reply.ok)
  /\ UNCHANGED <<served, strays, broken, closed, data, out, ended>>

ReceiveReleased ==
  /\ net = "reply" /\ call = "release"
  /\ Done("released")
  /\ err' = (err \/ ~reply.ok)
  /\ UNCHANGED <<served, strays, broken, closed, data, out, ended, complete>>

\* Mutant: next returns false without an error, as if there were no more pairs.
Break_NoError ==
  /\ net \in {"request", "reply"} /\ broken < MaxBroken
  /\ broken' = broken + 1
  /\ \/ UNCHANGED strays
     \/ net = "request" /\ call = "next" /\ strays' = strays + 1
  /\ Done(IF call = "release" THEN "released" ELSE "none")
  /\ IF call = "next" THEN End ELSE UNCHANGED <<out, ended, complete>>
  /\ UNCHANGED <<served, closed, data, err>>

\* The connection breaks.  Each of the calls records the error; next returns
\* false and keeps its page.
Break ==
  /\ net \in {"request", "reply"} /\ broken < MaxBroken
  /\ broken' = broken + 1
  /\ \/ UNCHANGED strays
     \/ net = "request" /\ call = "next" /\ strays' = strays + 1
  /\ Done(IF call = "release" THEN "released" ELSE "none")
  /\ err' = TRUE
  /\ IF call = "next" THEN End ELSE UNCHANGED <<out, ended, complete>>
  /\ UNCHANGED <<served, closed, data>>

\* close of the client sets the flag its iterators look at first.
Close ==
  /\ ~closed
  /\ closed' = TRUE
  /\ UNCHANGED <<served, wire, strays, broken, data, err, out, ended, complete>>

-----------------------------------------------------------------------------
(* The server, which works on a request under the lock of its iterators.   *)

\* A page ends when it is large enough, when there are no more pairs, or when
\* the database is closed, be it while the page is filled.
FillPage(page) ==
  \/ /\ ~dbClosed
     /\ \E n \in 1..PageSize :
          /\ n <= Len(left)
          /\ page = SubSeq(left, 1, n)
          /\ left' = SubSeq(left, n + 1, Len(left))
     /\ UNCHANGED <<dbClosed, dbErr>>
  \/ /\ ~dbClosed /\ left = <<>> /\ page = <<>>
     /\ UNCHANGED served
  \/ /\ \E n \in 0..PageSize :
          /\ n <= Len(left) /\ (dbClosed => n = 0)
          /\ page = SubSeq(left, 1, n)
     /\ left' = <<>> /\ dbErr' = TRUE /\ dbClosed' = TRUE

Pages == {SubSeq([i \in 1..N |-> i], a, b) : a \in 1..N + 1, b \in 0..N}

ServeNext ==
  /\ net = "request" /\ call = "next"
  /\ \E page \in Pages : FillPage(page) /\ reply' = [page |-> page, ok |-> TRUE]
  /\ net' = "reply"
  /\ UNCHANGED <<call, strays, broken, closed, data, err, out, ended, complete>>

ServeStray ==
  /\ strays > 0
  /\ strays' = strays - 1
  /\ \E page \in Pages : FillPage(page)
  /\ UNCHANGED <<wire, broken, closed, data, err, out, ended, complete>>

ServeError ==
  /\ net = "request" /\ call = "error"
  /\ reply' = [page |-> <<>>, ok |-> ~dbErr]
  /\ net' = "reply"
  /\ UNCHANGED <<served, call, strays, broken, closed, data, err, out, ended, complete>>

\* The served iterator drops its pairs, unless it has an error.
ServeRelease ==
  /\ net = "request" /\ call = "release"
  /\ reply' = [page |-> <<>>, ok |-> ~dbErr]
  /\ left' = IF dbErr THEN left ELSE <<>>
  /\ net' = "reply"
  /\ UNCHANGED <<dbClosed, dbErr, call, strays, broken, closed, data, err, out, ended,
                 complete>>

CloseServed ==
  /\ ~dbClosed
  /\ dbClosed' = TRUE
  /\ UNCHANGED <<left, dbErr, wire, strays, broken, closed, data, err, out, ended,
                 complete>>

Init ==
  /\ dbClosed = FALSE /\ dbErr = FALSE
  /\ left = [i \in 1..N |-> i]
  /\ call = "none" /\ net = "none" /\ reply = NoReply
  /\ strays = 0 /\ broken = 0
  /\ closed = FALSE /\ err = FALSE
  /\ data = <<>> /\ out = <<>>
  /\ ended = FALSE /\ complete = FALSE

Next ==
  \/ NextClosed \/ NextInPage \/ CallNext \/ CallError \/ CallRelease
  \/ ReceivePage \/ ReceiveError \/ ReceiveReleased \/ Break \/ Close
  \/ ServeNext \/ ServeStray \/ ServeError \/ ServeRelease \/ CloseServed

Spec == Init /\ [][Next]_vars

-----------------------------------------------------------------------------
(* Properties.                                                             *)

\* The types; a page the caller stands on is of pairs of the iterator.
TypeOK ==
  /\ {dbClosed, dbErr, closed, err, ended, complete} \subseteq BOOLEAN
  /\ {left, data, reply.page} \subseteq Pages /\ reply.ok \in BOOLEAN
  /\ call \in {"none", "next", "error", "release", "released"}
  /\ net \in {"none", "request", "reply"}
  /\ broken \in 0..MaxBroken /\ strays \in 0..broken
  /\ out \in Seq(1..N)

\* Without an error the caller was given the first pairs.
NoHole == ~err => out = SubSeq([i \in 1..N |-> i], 1, Len(out))

\* When next returned false and error then returned Ok, it was given all.
EndIsTheEnd == complete => out = [i \in 1..N |-> i]

\* No pair is given twice and none out of order, errors or not.
Ascending == \A i, j \in DOMAIN out : i < j => out[i] < out[j]

\* Whatever closed and broke: a pair that is missing shows in an error, none is
\* given twice or late, and the end of the scan is not taken for that of the data.
NoSilentHole == NoHole /\ EndIsTheEnd /\ Ascending
=============================================================================
