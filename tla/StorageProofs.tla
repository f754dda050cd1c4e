---------------------------- MODULE StorageProofs ----------------------------
(***************************************************************************)
(* Proofs about the parts of MCStorage: the iterator of the rpcdb client   *)
(* (RpcDbIterator), for any number of pairs, any page size and any number  *)
(* of broken connections; for any number of keys and operations, the scan  *)
(* over a versiondb (VersionDbIterator) and the write batches (Batches);   *)
(* and the calls between a VM and its node (Services, Serving).  None of   *)
(* them changes a variable of another.                                     *)
(***************************************************************************)
EXTENDS MCStorage, WellFoundedInduction, SequenceTheorems, TLAPS

-----------------------------------------------------------------------------
(* The iterator of the rpcdb client: the inductive invariant.              *)

\* The last pair the client has, which may be one the caller has not been given.
Newest == IF data # <<>> THEN data[Len(data)]
          ELSE IF out # <<>> THEN out[Len(out)] ELSE 0

\* The last one that is not with the server any more.
Sent == IF reply.page # <<>> THEN reply.page[Len(reply.page)] ELSE Newest

Run(s) == \A i \in DOMAIN s : s[i] = s[1] + i - 1

Types ==
  /\ dbClosed \in BOOLEAN /\ dbErr \in BOOLEAN /\ closed \in BOOLEAN
  /\ err \in BOOLEAN /\ ended \in BOOLEAN /\ complete \in BOOLEAN
  /\ reply.ok \in BOOLEAN /\ strays \in Nat /\ broken \in Nat
  /\ call \in {"none", "next", "error", "release", "released"}
  /\ net \in {"none", "request", "reply"}
  /\ net = "none" <=> call \in {"none", "released"}
  /\ net # "reply" \/ call # "next" => reply.page = <<>>

\* left is an end of the pairs, a page and a reply are runs of them.
Runs ==
  /\ left \in Seq(Nat) /\ data \in Seq(Nat) /\ out \in Seq(Nat)
  /\ reply.page \in Seq(Nat)
  /\ Len(left) <= N /\ \A i \in DOMAIN left : left[i] = N - Len(left) + i
  /\ Run(data) /\ Run(reply.page)

\* Of the pairs that were given, that wait with the client, that are on their
\* way and that are left each is larger than those before it.
Order ==
  /\ \A i, j \in DOMAIN out : i < j => out[i] < out[j]
  /\ data # <<>> => out # <<>> /\ data[1] = out[Len(out)]
  /\ reply.page # <<>> => Newest < reply.page[1]
  /\ Sent <= N - Len(left)

\* What breaks a connection, or follows a broken one, is an error of the client.
Broken ==
  /\ strays > 0 => err
  /\ call = "error" => ~err
  /\ call = "next" => Len(data) <= 1

\* Without an error nothing is missing so far, and what is left is all there is
\* to come, unless the served iterator was closed.
Whole ==
  ~err =>
    /\ \A i \in DOMAIN out : out[i] = i
    /\ reply.page # <<>> => reply.page[1] = Newest + 1
    /\ call \notin {"release", "released"} => dbErr \/ Len(left) = N - Sent
    /\ call = "next" /\ net = "reply" /\ reply.page = <<>> => dbErr \/ Len(out) = N
    /\ ended => dbErr \/ Len(out) = N

\* error returns Ok at the end only where everything was given.
Ends ==
  /\ dbErr => dbClosed
  /\ call = "error" /\ net = "reply" /\ reply.ok /\ ended => Len(out) = N
  /\ complete => Len(out) = N /\ \A i \in DOMAIN out : out[i] = i

ClientInv == Types /\ Runs /\ Order /\ Broken /\ Whole /\ Ends

-----------------------------------------------------------------------------
(* Lemmas about sequences.                                                 *)

LEMMA Appended ==
  ASSUME NEW s \in Seq(Nat), NEW e \in Nat
  PROVE  /\ Append(s, e) \in Seq(Nat)
         /\ Len(Append(s, e)) = Len(s) + 1
         /\ DOMAIN Append(s, e) = DOMAIN s \cup {Len(s) + 1}
         /\ Append(s, e)[Len(s) + 1] = e
         /\ \A i \in DOMAIN s : Append(s, e)[i] = s[i]
  OBVIOUS

LEMMA Nonempty ==
  ASSUME NEW s \in Seq(Nat), s # <<>>
  PROVE  /\ Len(s) \in Nat /\ Len(s) > 0 /\ DOMAIN s = 1..Len(s)
         /\ 1 \in DOMAIN s /\ Len(s) \in DOMAIN s /\ Head(s) = s[1]
         /\ s[1] \in Nat /\ s[Len(s)] \in Nat
  OBVIOUS

LEMMA EndOfRun ==
  ASSUME NEW s \in Seq(Nat), s # <<>>, Run(s)
  PROVE  s[Len(s)] = s[1] + Len(s) - 1
  BY Nonempty DEF Run

\* What the tail of a run is, which is how the page shrinks.
LEMMA TailOfRun ==
  ASSUME NEW s \in Seq(Nat), Run(s), Len(s) > 1
  PROVE  /\ Tail(s) \in Seq(Nat) /\ Len(Tail(s)) = Len(s) - 1
         /\ Run(Tail(s)) /\ Head(Tail(s)) = s[1] + 1 /\ Tail(s)[1] = s[1] + 1
         /\ Tail(s)[Len(Tail(s))] = s[Len(s)]
<1>1. /\ Tail(s) \in Seq(Nat) /\ Len(Tail(s)) = Len(s) - 1
      /\ \A i \in DOMAIN Tail(s) : Tail(s)[i] = s[i + 1]
  OBVIOUS
<1> QED
  BY <1>1, SMTT(60) DEF Run

\* A page is the beginning of what is left, and takes it away.
LEMMA Filled ==
  ASSUME Types, Runs, dbErr => dbClosed, NEW page, FillPage(page)
  PROVE  /\ page \in Seq(Nat) /\ left' \in Seq(Nat)
         /\ Len(left') <= Len(left) - Len(page)
         /\ \A i \in DOMAIN left' : left'[i] = N - Len(left') + i
         /\ \A i \in DOMAIN page : page[i] = N - Len(left) + i
         /\ dbClosed' \in BOOLEAN /\ dbErr' \in BOOLEAN
         /\ (dbErr => dbErr') /\ (dbErr' => dbClosed')
         /\ dbErr' \/ Len(left') = Len(left) - Len(page)
         /\ page = <<>> => dbErr' \/ left = <<>>
         /\ page # <<>> => ~dbErr
<1>1. /\ left \in Seq(Nat) /\ Len(left) \in Nat /\ Len(left) <= N /\ N \in Nat
      /\ dbClosed \in BOOLEAN /\ dbErr \in BOOLEAN
      /\ \A i \in DOMAIN left : left[i] = N - Len(left) + i
  BY RpcDbIteratorAssumption DEF Types, Runs
<1>2. ASSUME NEW n \in Nat, n <= Len(left)
      PROVE  /\ SubSeq(left, 1, n) \in Seq(Nat) /\ Len(SubSeq(left, 1, n)) = n
             /\ \A i \in 1..n : SubSeq(left, 1, n)[i] = left[i]
             /\ SubSeq(left, n + 1, Len(left)) \in Seq(Nat)
             /\ Len(SubSeq(left, n + 1, Len(left))) = Len(left) - n
             /\ \A i \in 1..Len(left) - n : SubSeq(left, n + 1, Len(left))[i] = left[n + i]
  BY <1>1, <1>2
<1>3. PageSize \in Nat
  BY RpcDbIteratorAssumption
<1>4. CASE /\ ~dbClosed
           /\ \E n \in 1..PageSize :
                /\ n <= Len(left)
                /\ page = SubSeq(left, 1, n)
                /\ left' = SubSeq(left, n + 1, Len(left))
           /\ UNCHANGED <<dbClosed, dbErr>>
  <2>1. PICK n \in 1..PageSize : /\ n <= Len(left)
                                 /\ page = SubSeq(left, 1, n)
                                 /\ left' = SubSeq(left, n + 1, Len(left))
    BY <1>4
  <2>2. n \in Nat /\ n > 0 /\ n <= Len(left)
    BY <1>3, <2>1
  <2>3. /\ page \in Seq(Nat) /\ Len(page) = n /\ \A i \in 1..n : page[i] = left[i]
        /\ left' \in Seq(Nat) /\ Len(left') = Len(left) - n
        /\ \A i \in 1..Len(left) - n : left'[i] = left[n + i]
    BY <1>2, <2>1, <2>2
  <2>4. DOMAIN left' = 1..Len(left) - n /\ DOMAIN page = 1..n /\ DOMAIN left = 1..Len(left)
    BY <1>1, <2>3
  <2>5. \A i \in DOMAIN left' : left'[i] = N - Len(left') + i
    <3> SUFFICES ASSUME NEW i \in DOMAIN left' PROVE left'[i] = N - Len(left') + i
      OBVIOUS
    <3>1. n + i \in DOMAIN left /\ i \in Nat
      BY <1>1, <2>2, <2>4
    <3>2. left'[i] = left[n + i]
      BY <2>3, <2>4
    <3>3. left[n + i] = N - Len(left) + (n + i)
      BY <1>1, <3>1
    <3> QED
      BY <1>1, <2>2, <2>3, <3>1, <3>2, <3>3
  <2>6. \A i \in DOMAIN page : page[i] = N - Len(left) + i
    <3> SUFFICES ASSUME NEW i \in DOMAIN page PROVE page[i] = N - Len(left) + i
      OBVIOUS
    <3>1. page[i] = left[i] /\ i \in DOMAIN left
      BY <1>1, <2>2, <2>3, <2>4
    <3> QED
      BY <1>1, <3>1
  <2>7. page # <<>>
    BY <2>2, <2>3
  <2>8. ~dbClosed /\ dbClosed' = dbClosed /\ dbErr' = dbErr
    BY <1>4
  <2> QED
    BY <1>1, <2>2, <2>3, <2>5, <2>6, <2>7, <2>8
<1>5. CASE ~dbClosed /\ left = <<>> /\ page = <<>> /\ UNCHANGED served
  BY <1>1, <1>5 DEF served
<1>6. CASE /\ \E n \in 0..PageSize :
                /\ n <= Len(left) /\ (dbClosed => n = 0)
                /\ page = SubSeq(left, 1, n)
           /\ left' = <<>> /\ dbErr' = TRUE /\ dbClosed' = TRUE
  <2>1. PICK n \in 0..PageSize : /\ n <= Len(left) /\ (dbClosed => n = 0)
                                 /\ page = SubSeq(left, 1, n)
    BY <1>6
  <2>2. page \in Seq(Nat) /\ Len(page) = n /\ \A i \in 1..n : page[i] = left[i]
    BY <1>2, <1>3, <2>1
  <2> QED
    BY <1>1, <1>3, <1>6, <2>1, <2>2
<1> QED
  BY <1>4, <1>5, <1>6 DEF FillPage

-----------------------------------------------------------------------------
LEMMA ScanInit == Init => ClientInv
<1> SUFFICES ASSUME Init PROVE ClientInv
  OBVIOUS
<1>1. /\ left \in Seq(Nat) /\ Len(left) = N /\ DOMAIN left = 1..N
      /\ \A i \in DOMAIN left : left[i] = i
  BY RpcDbIteratorAssumption DEF Init
<1>2. reply.page = <<>> /\ reply.ok = TRUE /\ Newest = 0 /\ Sent = 0
  BY DEF Init, NoReply, Newest, Sent
<1>3. Types
  BY <1>2 DEF Init, Types
<1>4. Runs
  <2>1. data = <<>> /\ out = <<>> /\ <<>> \in Seq(Nat) /\ Run(data) /\ Run(reply.page)
    BY <1>2 DEF Init, Run
  <2>2. Len(left) <= N /\ \A i \in DOMAIN left : left[i] = N - Len(left) + i
    BY <1>1, RpcDbIteratorAssumption
  <2> QED
    BY <1>1, <1>2, <2>1, <2>2 DEF Runs
<1> QED
  BY <1>1, <1>2, <1>3, <1>4, RpcDbIteratorAssumption
     DEF Init, ClientInv, Order, Broken, Whole, Ends

-----------------------------------------------------------------------------
\* Where the client and the wire are between what was given and what is left.
LEMMA Bounds ==
  ASSUME Runs, Order
  PROVE  /\ Len(left) \in Nat /\ Newest \in Nat /\ Sent \in Nat /\ Newest <= Sent
         /\ Sent <= N - Len(left)
         /\ out # <<>> => out[Len(out)] <= Newest
         /\ out = <<>> => Newest = 0
         /\ Len(data) <= 1 /\ out # <<>> => Newest = out[Len(out)]
<1>1. /\ data \in Seq(Nat) /\ out \in Seq(Nat) /\ reply.page \in Seq(Nat)
      /\ left \in Seq(Nat) /\ Run(data) /\ Run(reply.page)
  BY DEF Runs
<1>2. CASE data # <<>>
  <2>1. /\ data[Len(data)] \in Nat /\ Len(data) \in Nat /\ Len(data) > 0 /\ data[1] \in Nat
        /\ data[Len(data)] = data[1] + Len(data) - 1
    BY <1>1, <1>2, Nonempty, EndOfRun
  <2>2. Newest = data[Len(data)] /\ data[1] = out[Len(out)] /\ out # <<>>
    BY <1>2 DEF Newest, Order
  <2>3. Newest <= Sent /\ Sent \in Nat
    <3>1. CASE reply.page # <<>>
      BY <1>1, <2>1, <2>2, <3>1, Nonempty, EndOfRun, SMTT(60) DEF Order, Sent
    <3>2. CASE reply.page = <<>>
      BY <2>1, <2>2, <3>2 DEF Sent
    <3> QED
      BY <3>1, <3>2
  <2>4. Len(left) \in Nat /\ Sent <= N - Len(left)
    BY <1>1 DEF Order
  <2>5. out[Len(out)] <= Newest /\ (Len(data) <= 1 => Newest = out[Len(out)]) /\ Newest \in Nat
    BY <2>1, <2>2
  <2> QED
    BY <2>2, <2>3, <2>4, <2>5
<1>3. CASE data = <<>>
  <2>1. /\ out # <<>> => Newest = out[Len(out)]
        /\ out = <<>> => Newest = 0
        /\ Newest \in Nat
    BY <1>1, <1>3, Nonempty DEF Newest
  <2>2. Newest <= Sent /\ Sent \in Nat
    <3>1. CASE reply.page # <<>>
      BY <1>1, <2>1, <3>1, Nonempty, EndOfRun DEF Order, Sent
    <3>2. CASE reply.page = <<>>
      BY <2>1, <3>2 DEF Sent
    <3> QED
      BY <3>1, <3>2
  <2> QED
    BY <1>1, <2>1, <2>2 DEF Order
<1> QED
  BY <1>2, <1>3

-----------------------------------------------------------------------------
\* Steps that move no pair.
LEMMA NothingMoves ==
  ASSUME ClientInv, UNCHANGED <<left, data, out>>, reply'.page = reply.page
  PROVE  Runs' /\ Order' /\ Newest' = Newest /\ Sent' = Sent
<1>1. Newest' = Newest /\ Sent' = Sent
  BY DEF Newest, Sent
<1>2. Runs' /\ Order'
  BY <1>1 DEF ClientInv, Runs, Order, Run
<1> QED
  BY <1>1, <1>2

\* A page is handed out: to the client that asked for it or to nobody.
LEMMA PageIsNewer ==
  ASSUME ClientInv, NEW page, FillPage(page), reply.page = <<>>
  PROVE  /\ page # <<>> => Newest < page[1] /\ page[Len(page)] <= N - Len(left')
         /\ Newest <= N - Len(left')
         /\ Run(page)
         /\ ~err /\ call = "next" /\ net = "request" =>
              /\ page # <<>> => page[1] = Newest + 1
              /\ dbErr' \/ Len(left') = N - (IF page # <<>> THEN page[Len(page)] ELSE Newest)
              /\ page = <<>> => dbErr' \/ Newest = N
<1>1. /\ page \in Seq(Nat) /\ left' \in Seq(Nat)
      /\ Len(left') <= Len(left) - Len(page)
      /\ \A i \in DOMAIN page : page[i] = N - Len(left) + i
      /\ dbErr => dbErr'
      /\ dbErr' \/ Len(left') = Len(left) - Len(page)
      /\ page = <<>> => dbErr' \/ left = <<>>
      /\ page # <<>> => ~dbErr
  BY Filled DEF ClientInv, Ends
<1>2. N \in Nat /\ Len(left) \in Nat /\ Newest <= N - Len(left) /\ Newest \in Nat
  <2>1. data # <<>> => data[Len(data)] \in Nat
    BY DEF ClientInv, Runs
  <2>2. out # <<>> => out[Len(out)] \in Nat
    BY DEF ClientInv, Runs
  <2> QED
    BY <2>1, <2>2, RpcDbIteratorAssumption DEF ClientInv, Runs, Order, Sent, Newest
<1>3. /\ DOMAIN page = 1..Len(page) /\ Len(page) \in Nat /\ Len(left') \in Nat
      /\ page # <<>> => Len(page) > 0
  BY <1>1
<1>4. page # <<>> => page[1] = N - Len(left) + 1 /\ page[Len(page)] = N - Len(left) + Len(page)
  BY <1>1, <1>3
<1>5. Run(page)
  <2> SUFFICES ASSUME NEW i \in DOMAIN page PROVE page[i] = page[1] + i - 1
    BY DEF Run
  <2> QED
    BY <1>1, <1>2, <1>3, <1>4
<1>6. page # <<>> => Newest < page[1] /\ page[Len(page)] <= N - Len(left')
  BY <1>1, <1>2, <1>3, <1>4
<1>7. Newest <= N - Len(left')
  BY <1>1, <1>2, <1>3
<1>8. ASSUME ~err, call = "next" PROVE dbErr \/ Len(left) = N - Newest
  BY <1>8 DEF ClientInv, Whole, Sent
<1>9. left = <<>> => Len(left) = 0
  OBVIOUS
<1>10. ASSUME ~err, call = "next"
       PROVE  /\ page # <<>> => page[1] = Newest + 1
              /\ dbErr' \/ Len(left') = N - (IF page # <<>> THEN page[Len(page)] ELSE Newest)
              /\ page = <<>> => dbErr' \/ Newest = N
  <2>1. CASE dbErr
    BY <1>1, <2>1
  <2>2. CASE ~dbErr
    <3>1. Len(left) = N - Newest
      BY <1>8, <1>10, <2>2
    <3>2. page = <<>> => Len(page) = 0
      OBVIOUS
    <3> QED
      BY <1>1, <1>2, <1>3, <1>4, <1>9, <3>1, <3>2
  <2> QED
    BY <2>1, <2>2
<1> QED
  BY <1>5, <1>6, <1>7, <1>10

-----------------------------------------------------------------------------
LEMMA ScanNext == ClientInv /\ [Next]_vars => ClientInv'
<1> SUFFICES ASSUME ClientInv, [Next]_vars PROVE ClientInv'
  OBVIOUS
<1> USE DEF served, wire
<1>0. Types /\ Runs /\ Order /\ Broken /\ Whole /\ Ends
  BY DEF ClientInv
<1>1. ASSUME NextClosed PROVE ClientInv'
  <2>1. /\ UNCHANGED <<left, data, out, reply, dbClosed, dbErr, call, net, strays>>
        /\ call = "none" /\ err' = TRUE /\ complete' = FALSE
    BY <1>1 DEF NextClosed, End
  <2>2. Types'
    BY <1>0, <1>1 DEF NextClosed, End, Types
  <2>3. Runs' /\ Order'
    BY <2>1, NothingMoves
  <2>4. Broken' /\ Whole' /\ Ends'
    BY <1>0, <2>1 DEF Broken, Whole, Ends
  <2> QED
    BY <2>2, <2>3, <2>4 DEF ClientInv
<1>2. ASSUME NextInPage PROVE ClientInv'
  <2>1. /\ UNCHANGED <<left, reply, dbClosed, dbErr, call, net, strays, err>>
        /\ call = "none" /\ Len(data) > 1 /\ data' = Tail(data)
        /\ out' = Append(out, Current(Tail(data))) /\ ended' = FALSE /\ complete' = FALSE
    BY <1>2 DEF NextInPage, GiveFrom
  <2>2. Types'
    BY <1>0, <1>2 DEF NextInPage, GiveFrom, Types
  <2>3. /\ data' \in Seq(Nat) /\ Len(data') > 0 /\ data' # <<>> /\ Run(data')
        /\ data'[1] = data[1] + 1 /\ data'[Len(data')] = data[Len(data)]
        /\ out' = Append(out, data'[1]) /\ data'[1] \in Nat
    <3>1. data \in Seq(Nat) /\ Run(data)
      BY <1>0 DEF Runs
    <3>2. /\ Tail(data) \in Seq(Nat) /\ Len(Tail(data)) = Len(data) - 1 /\ Run(Tail(data))
          /\ Head(Tail(data)) = data[1] + 1 /\ Tail(data)[1] = data[1] + 1
          /\ Tail(data)[Len(Tail(data))] = data[Len(data)]
      BY <2>1, <3>1, TailOfRun
    <3>3. Tail(data) # <<>> /\ Current(Tail(data)) = Tail(data)[1]
      <4> DEFINE t == Tail(data)
      <4>1. t \in Seq(Nat) /\ Len(t) > 0
        <5>1. Len(data) \in Nat
          BY <3>1
        <5> QED
          BY <2>1, <3>2, <5>1
      <4>2. t # <<>>
        <5> HIDE DEF t
        <5> QED
          BY <4>1
      <4> QED
        BY <3>2, <4>2, Nonempty DEF Current
    <3>4. data'[1] \in Nat
      BY <2>1, <3>2, <3>3
    <3> QED
      BY <2>1, <3>1, <3>2, <3>3, <3>4 DEF Run
  <2>4. /\ out # <<>> /\ data[1] = out[Len(out)] /\ data # <<>> /\ reply.page = <<>>
        /\ data[1] \in Nat /\ Len(out) \in Nat /\ Len(out) > 0
    <3>1. data \in Seq(Nat) /\ out \in Seq(Nat) /\ reply.page = <<>>
      BY <1>0, <2>1 DEF Types, Runs
    <3>2. data # <<>>
      BY <2>1, <3>1
    <3> QED
      BY <1>0, <3>1, <3>2, Nonempty DEF Order
  <2>5. /\ out' \in Seq(Nat) /\ Len(out') = Len(out) + 1 /\ out' # <<>>
        /\ DOMAIN out' = DOMAIN out \cup {Len(out) + 1} /\ DOMAIN out = 1..Len(out)
        /\ out'[Len(out) + 1] = data'[1]
        /\ \A i \in DOMAIN out : out'[i] = out[i]
    <3>1. out \in Seq(Nat)
      BY <1>0 DEF Runs
    <3> DEFINE e == data'[1]
    <3>2. e \in Nat /\ out' = Append(out, e)
      BY <2>3
    <3> HIDE DEF e
    <3>3. /\ Append(out, e) \in Seq(Nat) /\ Len(Append(out, e)) = Len(out) + 1
          /\ DOMAIN Append(out, e) = DOMAIN out \cup {Len(out) + 1}
          /\ Append(out, e)[Len(out) + 1] = e
          /\ \A i \in DOMAIN out : Append(out, e)[i] = out[i]
      BY <3>1, <3>2, Appended
    <3>4. DOMAIN out = 1..Len(out) /\ Append(out, e) # <<>>
      BY <3>1, <3>2
    <3> QED
      BY <3>2, <3>3, <3>4 DEF e
  <2>6. Newest' = Newest /\ Sent' = Sent
    BY <2>1, <2>3, <2>4 DEF Newest, Sent
  <2>7. Runs'
    BY <1>0, <2>1, <2>3, <2>5 DEF Runs, Run
  <2>8. Order'
    <3>1. \A i, j \in DOMAIN out' : i < j => out'[i] < out'[j]
      <4> SUFFICES ASSUME NEW i \in DOMAIN out', NEW j \in DOMAIN out', i < j
                   PROVE  out'[i] < out'[j]
        OBVIOUS
      <4>1. i \in DOMAIN out /\ out'[i] = out[i] /\ out[i] \in Nat
        BY <1>0, <2>4, <2>5 DEF Runs
      <4>2. out[i] <= out[Len(out)]
        <5>1. i \in Nat /\ i <= Len(out) /\ Len(out) \in DOMAIN out /\ out[Len(out)] \in Nat
          BY <1>0, <2>4, <2>5, <4>1 DEF Runs
        <5>2. CASE i = Len(out)
          BY <4>1, <5>2
        <5>3. CASE i < Len(out)
          BY <1>0, <4>1, <5>1, <5>3 DEF Order
        <5> QED
          BY <2>4, <5>1, <5>2, <5>3
      <4>3. CASE j = Len(out) + 1
        BY <2>3, <2>4, <2>5, <4>1, <4>2, <4>3
      <4>4. CASE j \in DOMAIN out
        BY <1>0, <2>5, <4>1, <4>4 DEF Order
      <4> QED
        BY <2>5, <4>3, <4>4
    <3>2. data'[1] = out'[Len(out')]
      BY <2>5
    <3> QED
      BY <1>0, <2>1, <2>5, <2>6, <3>1, <3>2 DEF Order
  <2>9. Whole'
    <3> SUFFICES ASSUME ~err PROVE Whole'
      BY <2>1 DEF Whole
    <3>1. \A i \in DOMAIN out : out[i] = i
      BY <1>0 DEF Whole
    <3>2. data[1] = Len(out)
      BY <2>4, <2>5, <3>1
    <3>3. \A i \in DOMAIN out' : out'[i] = i
      BY <2>3, <2>4, <2>5, <3>1, <3>2
    <3> QED
      BY <1>0, <2>1, <2>4, <2>6, <3>3 DEF Whole
  <2>10. Broken' /\ Ends'
    BY <1>0, <2>1 DEF Broken, Ends
  <2> QED
    BY <2>2, <2>7, <2>8, <2>9, <2>10 DEF ClientInv
<1>3. ASSUME CallNext \/ CallError \/ CallRelease PROVE ClientInv'
  <2>1. /\ UNCHANGED <<left, data, out, reply, dbClosed, dbErr, strays, err, ended, complete>>
        /\ call = "none" /\ net' = "request"
        /\ \/ call' = "next" /\ Len(data) <= 1
           \/ call' = "error" /\ ~err
           \/ call' = "release"
    BY <1>3 DEF CallNext, CallError, CallRelease, Send
  <2>2. Types'
    BY <1>0, <1>3, <2>1 DEF CallNext, CallError, CallRelease, Types
  <2>3. Runs' /\ Order' /\ Newest' = Newest /\ Sent' = Sent
    BY <2>1, NothingMoves
  <2>4. Broken' /\ Whole' /\ Ends'
    BY <1>0, <2>1, <2>3 DEF Broken, Whole, Ends
  <2> QED
    BY <2>2, <2>3, <2>4 DEF ClientInv
<1>4. ASSUME ReceiveError \/ ReceiveReleased PROVE ClientInv'
  <2>1. /\ UNCHANGED <<left, data, out, dbClosed, dbErr, strays, ended>>
        /\ net = "reply" /\ net' = "none" /\ reply' = NoReply
        /\ call' \in {"none", "released"} /\ (call' = "released" => call = "release")
        /\ \/ call = "error" /\ err' = ~reply.ok /\ complete' = (ended /\ reply.ok)
              /\ call' = "none"
           \/ call = "release" /\ (err => err') /\ complete' = complete /\ call' = "released"
    BY <1>4 DEF ReceiveError, ReceiveReleased, Done
  <2>2. reply'.page = reply.page /\ reply.page = <<>>
    BY <1>0, <2>1 DEF Types, NoReply
  <2>3. Types'
    <3>1. reply'.ok = TRUE
      BY <2>1 DEF NoReply
    <3> QED
      BY <1>0, <1>4, <2>2, <3>1 DEF ReceiveError, ReceiveReleased, Done, Types
  <2>4. Runs' /\ Order' /\ Newest' = Newest /\ Sent' = Sent
    BY <2>1, <2>2, NothingMoves
  <2>5. Broken'
    BY <1>0, <2>1 DEF Broken, Types
  <2>6. ~err' => ~err
    BY <1>0, <2>1 DEF Broken, Types
  <2>7. Whole'
    BY <1>0, <2>1, <2>2, <2>4, <2>6 DEF Whole
  <2>8. Ends'
    <3>1. call' # "error"
      BY <2>1
    <3>2. ASSUME complete' PROVE Len(out) = N /\ \A i \in DOMAIN out : out[i] = i
      <4>1. CASE call = "error"
        <5>1. ~err /\ ended /\ reply.ok
          BY <1>0, <2>1, <3>2, <4>1 DEF Broken, Types
        <5> QED
          BY <1>0, <2>1, <4>1, <5>1 DEF Ends, Whole
      <4>2. CASE call = "release"
        BY <1>0, <2>1, <3>2, <4>2 DEF Ends
      <4> QED
        BY <2>1, <4>1, <4>2
    <3> QED
      BY <1>0, <2>1, <3>1, <3>2 DEF Ends
  <2> QED
    BY <2>3, <2>4, <2>5, <2>7, <2>8 DEF ClientInv
<1>5. ASSUME Close \/ CloseServed \/ ServeError PROVE ClientInv'
  <2>1. /\ UNCHANGED <<left, data, out, dbErr, strays, err, ended, complete, call>>
        /\ dbClosed => dbClosed'
        /\ reply'.page = reply.page
        /\ \/ UNCHANGED <<net, reply>>
           \/ /\ net = "request" /\ call = "error" /\ net' = "reply"
              /\ reply'.ok = ~dbErr
    <3>1. CASE Close \/ CloseServed
      BY <3>1 DEF Close, CloseServed
    <3>2. CASE ServeError
      BY <1>0, <3>2 DEF ServeError, Types
    <3> QED
      BY <1>5, <3>1, <3>2
  <2>2. Types'
    BY <1>0, <1>5, <2>1 DEF Close, CloseServed, ServeError, Types
  <2>3. Runs' /\ Order' /\ Newest' = Newest /\ Sent' = Sent
    BY <2>1, NothingMoves
  <2>4. Broken' /\ Whole'
    BY <1>0, <2>1, <2>3 DEF Broken, Whole
  <2>5. Ends'
    BY <1>0, <2>1 DEF Ends, Whole, Broken
  <2> QED
    BY <2>2, <2>3, <2>4, <2>5 DEF ClientInv
<1>6. ASSUME ServeRelease PROVE ClientInv'
  <2>1. /\ UNCHANGED <<data, out, dbErr, dbClosed, strays, err, ended, complete, call>>
        /\ net = "request" /\ call = "release" /\ net' = "reply"
        /\ reply'.page = <<>> /\ reply'.ok = ~dbErr
        /\ left' = left \/ left' = <<>>
    BY <1>6 DEF ServeRelease
  <2>2. reply.page = <<>>
    BY <1>0, <2>1 DEF Types
  <2>3. Types'
    BY <1>0, <1>6, <2>1 DEF ServeRelease, Types
  <2>4. Newest' = Newest /\ Sent' = Sent
    BY <2>1, <2>2 DEF Newest, Sent
  <2>5. left' \in Seq(Nat) /\ Len(left') <= Len(left) /\ Len(left') \in Nat /\ Len(left) \in Nat
        /\ \A i \in DOMAIN left' : left'[i] = N - Len(left') + i
    <3>1. left \in Seq(Nat) /\ Len(left) \in Nat
      BY <1>0 DEF Runs
    <3>2. CASE left' = left
      BY <1>0, <3>1, <3>2 DEF Runs
    <3>3. CASE left' = <<>>
      BY <3>1, <3>3
    <3> QED
      BY <2>1, <3>2, <3>3
  <2>6. Runs'
    BY <1>0, <2>1, <2>2, <2>5, RpcDbIteratorAssumption DEF Runs, Run
  <2>7. Order'
    <3>1. Sent <= N - Len(left')
      <4>1. Sent \in Nat
        BY <1>0, <2>2 DEF Sent, Newest, Runs
      <4> QED
        BY <1>0, <2>5, <4>1, RpcDbIteratorAssumption DEF Order
    <3> QED
      BY <1>0, <2>1, <2>2, <2>4, <3>1 DEF Order
  <2>8. Broken' /\ Whole' /\ Ends'
    BY <1>0, <2>1, <2>2, <2>4 DEF Broken, Whole, Ends
  <2> QED
    BY <2>3, <2>6, <2>7, <2>8 DEF ClientInv
<1>7. ASSUME ReceivePage PROVE ClientInv'
  <2>1. /\ UNCHANGED <<left, dbErr, dbClosed, strays, err>>
        /\ net = "reply" /\ call = "next" /\ net' = "none" /\ call' = "none"
        /\ reply' = NoReply /\ complete' = FALSE
        /\ \/ /\ reply.page # <<>> /\ data' = reply.page /\ ended' = FALSE
              /\ out' = Append(out, Current(reply.page))
           \/ /\ reply.page = <<>> /\ data' = <<>> /\ out' = out /\ ended' = TRUE
    BY <1>7 DEF ReceivePage, Done, GiveFrom, End
  <2>2. Types' /\ reply'.page = <<>>
    <3>1. reply'.page = <<>> /\ reply'.ok = TRUE
      BY <2>1 DEF NoReply
    <3> QED
      BY <1>0, <1>7, <2>1, <3>1 DEF ReceivePage, Types
  <2>3. Broken' /\ Ends'
    BY <1>0, <2>1 DEF Broken, Ends
  <2>4. out \in Seq(Nat) /\ Len(out) \in Nat /\ data \in Seq(Nat) /\ Len(data) <= 1
    BY <1>0, <2>1 DEF Runs, Broken
  <2>5. out # <<>> => Len(out) > 0 /\ Newest = out[Len(out)] /\ Newest \in Nat
    BY <1>0, <2>4, Bounds, Nonempty
  <2>6. out = <<>> => Len(out) = 0 /\ Newest = 0 /\ data = <<>>
    BY <1>0 DEF Newest, Order
  <2>7. CASE reply.page = <<>>
    <3>1. data' = <<>> /\ out' = out /\ <<>> \in Seq(Nat)
      BY <2>1, <2>7
    <3>2. Newest' = Newest /\ Sent' = Newest' /\ Sent = Newest
      BY <2>2, <2>5, <2>6, <2>7, <3>1 DEF Newest, Sent
    <3>3. Runs'
      BY <1>0, <2>1, <2>2, <3>1 DEF Runs, Run
    <3>4. Order'
      BY <1>0, <2>1, <2>2, <3>1, <3>2 DEF Order
    <3>5. Whole'
      BY <1>0, <2>1, <2>2, <2>7, <3>1, <3>2 DEF Whole
    <3> QED
      BY <2>2, <2>3, <3>3, <3>4, <3>5 DEF ClientInv
  <2>8. CASE reply.page # <<>>
    <3> DEFINE e == reply.page[1]
    <3>1. /\ reply.page \in Seq(Nat) /\ Len(reply.page) > 0 /\ e \in Nat
          /\ Current(reply.page) = e /\ Run(reply.page) /\ Newest < e
          /\ reply.page[Len(reply.page)] \in Nat
      BY <1>0, <2>8, SMTT(60) DEF Runs, Order, Current
    <3>2. data' = reply.page /\ out' = Append(out, e)
      BY <2>1, <2>8, <3>1
    <3> HIDE DEF e
    <3>3. /\ out' \in Seq(Nat) /\ Len(out') = Len(out) + 1 /\ out' # <<>>
          /\ DOMAIN out' = DOMAIN out \cup {Len(out) + 1} /\ DOMAIN out = 1..Len(out)
          /\ out'[Len(out) + 1] = e
          /\ \A i \in DOMAIN out : out'[i] = out[i]
      <4>1. /\ Append(out, e) \in Seq(Nat) /\ Len(Append(out, e)) = Len(out) + 1
            /\ DOMAIN Append(out, e) = DOMAIN out \cup {Len(out) + 1}
            /\ Append(out, e)[Len(out) + 1] = e
            /\ \A i \in DOMAIN out : Append(out, e)[i] = out[i]
        BY <2>4, <3>1, Appended
      <4>2. DOMAIN out = 1..Len(out) /\ Append(out, e) # <<>>
        BY <2>4, <4>1
      <4> QED
        BY <3>2, <4>1, <4>2
    <3>4. Newest' = reply.page[Len(reply.page)] /\ Sent' = Newest' /\ Sent = Newest'
      BY <2>2, <2>8, <3>2 DEF Newest, Sent
    <3>5. Runs'
      <4>1. Run(data') /\ Run(reply'.page) /\ data' \in Seq(Nat) /\ reply'.page \in Seq(Nat)
        BY <2>2, <3>1, <3>2 DEF Run
      <4>2. /\ left' \in Seq(Nat) /\ Len(left') <= N
            /\ \A i \in DOMAIN left' : left'[i] = N - Len(left') + i
        BY <1>0, <2>1 DEF Runs
      <4> QED
        BY <3>3, <4>1, <4>2 DEF Runs, Run
    <3>6. Order'
      <4>1. \A i, j \in DOMAIN out' : i < j => out'[i] < out'[j]
        <5> SUFFICES ASSUME NEW i \in DOMAIN out', NEW j \in DOMAIN out', i < j
                     PROVE  out'[i] < out'[j]
          OBVIOUS
        <5>1. i \in DOMAIN out /\ out'[i] = out[i] /\ out[i] \in Nat /\ out # <<>>
          BY <2>4, <3>3
        <5>2. out[i] <= Newest /\ Newest \in Nat
          <6>1. /\ i \in Nat /\ i <= Len(out) /\ Len(out) \in DOMAIN out
                /\ out[Len(out)] <= Newest /\ Newest \in Nat /\ out[Len(out)] \in Nat
            BY <1>0, <2>4, <3>3, <5>1, Nonempty, Bounds, SMTT(60)
          <6>2. i < Len(out) => out[i] < out[Len(out)]
            BY <1>0, <5>1, <6>1 DEF Order
          <6> QED
            BY <2>4, <5>1, <6>1, <6>2
        <5>3. CASE j = Len(out) + 1
          BY <3>1, <3>3, <5>1, <5>2, <5>3
        <5>4. CASE j \in DOMAIN out
          BY <1>0, <3>3, <5>1, <5>4 DEF Order
        <5> QED
          BY <3>3, <5>3, <5>4
      <4>2. data' # <<>> /\ data'[1] = out'[Len(out')]
        BY <2>8, <3>2, <3>3 DEF e
      <4> QED
        BY <1>0, <2>1, <2>2, <3>3, <3>4, <4>1, <4>2 DEF Order
    <3>7. Whole'
      <4> SUFFICES ASSUME ~err PROVE Whole'
        BY <2>1 DEF Whole
      <4>1. (\A i \in DOMAIN out : out[i] = i) /\ e = Newest + 1
        BY <1>0, <2>8 DEF Whole, e
      <4>2. Newest = Len(out)
        BY <1>0, <2>4, <2>6, <4>1, Bounds, Nonempty
      <4>3. \A i \in DOMAIN out' : out'[i] = i
        BY <3>3, <4>1, <4>2
      <4>4. ended' = FALSE
        BY <2>1, <2>8
      <4> QED
        BY <1>0, <2>1, <2>2, <3>4, <4>3, <4>4 DEF Whole
    <3> QED
      BY <2>2, <2>3, <3>5, <3>6, <3>7 DEF ClientInv
  <2> QED
    BY <2>7, <2>8
<1>8. ASSUME Break PROVE ClientInv'
  <2>1. /\ UNCHANGED <<left, data, out, dbErr, dbClosed>>
        /\ net' = "none" /\ call' \in {"none", "released"} /\ reply' = NoReply
        /\ err' = TRUE /\ (complete' => complete)
    BY <1>8 DEF Break, Done, End
  <2>2. reply'.page = <<>> /\ reply'.ok = TRUE
    BY <2>1 DEF NoReply
  <2>3. Types'
    <3>1. strays' \in Nat /\ broken' \in Nat
      BY <1>0, <1>8 DEF Break, Types
    <3>2. ended' \in BOOLEAN /\ complete' \in BOOLEAN
      BY <1>0, <1>8 DEF Break, End, Types
    <3>3. UNCHANGED <<dbClosed, dbErr, closed>>
      BY <1>8 DEF Break
    <3> QED
      BY <1>0, <2>1, <2>2, <3>1, <3>2, <3>3 DEF Types
  <2>4. Newest' = Newest /\ Sent' = Newest
    BY <2>1, <2>2 DEF Newest, Sent
  <2>5. Runs'
    BY <1>0, <2>1, <2>2 DEF Runs, Run
  <2>6. Newest <= Sent /\ Newest \in Nat /\ Sent \in Nat /\ Len(left) \in Nat
        /\ Sent <= N - Len(left)
    BY <1>0, Bounds
  <2>7. Order'
    BY <1>0, <2>1, <2>2, <2>4, <2>6, RpcDbIteratorAssumption DEF Order
  <2>8. Broken' /\ Whole' /\ Ends'
    BY <1>0, <2>1 DEF Broken, Whole, Ends
  <2> QED
    BY <2>3, <2>5, <2>7, <2>8 DEF ClientInv
<1>9. CASE UNCHANGED vars
  <2>1. UNCHANGED <<left, data, out>> /\ reply'.page = reply.page
    BY <1>9 DEF vars
  <2>2. Runs' /\ Order' /\ Newest' = Newest /\ Sent' = Sent
    BY <2>1, NothingMoves
  <2>3. Types'
    BY <1>0, <1>9 DEF vars, Types
  <2>4. Broken' /\ Whole' /\ Ends'
    BY <1>0, <1>9, <2>2 DEF vars, Broken, Whole, Ends
  <2> QED
    BY <2>2, <2>3, <2>4 DEF ClientInv
<1>10. ASSUME ServeNext PROVE ClientInv'
  <2>1. PICK page \in Pages : FillPage(page) /\ reply' = [page |-> page, ok |-> TRUE]
    BY <1>10 DEF ServeNext
  <2>2. /\ UNCHANGED <<data, out, strays, err, ended, complete, call>>
        /\ net = "request" /\ call = "next" /\ net' = "reply" /\ reply.page = <<>>
        /\ reply'.page = page /\ reply'.ok = TRUE
    BY <1>0, <1>10, <2>1 DEF ServeNext, Types
  <2>3. /\ page \in Seq(Nat) /\ left' \in Seq(Nat)
        /\ Len(left') <= Len(left) - Len(page)
        /\ \A i \in DOMAIN left' : left'[i] = N - Len(left') + i
        /\ dbClosed' \in BOOLEAN /\ dbErr' \in BOOLEAN /\ (dbErr' => dbClosed') /\ (dbErr => dbErr')
    BY <1>0, <2>1, Filled DEF Ends
  <2>4. /\ page # <<>> => Newest < page[1] /\ page[Len(page)] <= N - Len(left')
        /\ Newest <= N - Len(left') /\ Run(page)
        /\ ~err => /\ page # <<>> => page[1] = Newest + 1
                   /\ dbErr' \/ Len(left') = N - (IF page # <<>> THEN page[Len(page)] ELSE Newest)
                   /\ page = <<>> => dbErr' \/ Newest = N
    BY <2>1, <2>2, PageIsNewer
  <2>5. Types'
    BY <1>0, <1>10, <2>2, <2>3 DEF ServeNext, Types
  <2>6. Newest' = Newest /\ Sent' = (IF page # <<>> THEN page[Len(page)] ELSE Newest)
    BY <2>2 DEF Newest, Sent
  <2>7. Runs'
    <3>1. Len(left') <= N
      BY <1>0, <2>3, RpcDbIteratorAssumption DEF Runs
    <3> QED
      BY <1>0, <2>2, <2>3, <2>4, <3>1 DEF Runs, Run
  <2>8. Order'
    BY <1>0, <2>2, <2>4, <2>6 DEF Order
  <2>9. Broken' /\ Ends'
    BY <1>0, <2>2, <2>3 DEF Broken, Ends
  <2>10. Whole'
    <3> SUFFICES ASSUME ~err PROVE Whole'
      BY <2>2 DEF Whole
    <3>1. (\A i \in DOMAIN out : out[i] = i) /\ (ended => dbErr \/ Len(out) = N)
      BY <1>0 DEF Whole
    <3>2. Newest = Len(out)
      <4>1. out \in Seq(Nat) /\ Len(data) <= 1
        BY <1>0, <2>2 DEF Runs, Broken
      <4> QED
        BY <1>0, <3>1, <4>1, Bounds, Nonempty
    <3> QED
      BY <2>2, <2>3, <2>4, <2>6, <3>1, <3>2 DEF Whole
  <2> QED
    BY <2>5, <2>7, <2>8, <2>9, <2>10 DEF ClientInv
<1>11. ASSUME ServeStray PROVE ClientInv'
  <2>1. PICK page \in Pages : FillPage(page)
    BY <1>11 DEF ServeStray
  <2>2. /\ UNCHANGED <<data, out, reply, err, ended, complete, call, net>> /\ err
        /\ strays' \in Nat
    BY <1>0, <1>11 DEF ServeStray, Broken, Types
  <2>3. /\ page \in Seq(Nat) /\ left' \in Seq(Nat) /\ Len(left') \in Nat
        /\ Len(left') <= Len(left)
        /\ \A i \in DOMAIN left' : left'[i] = N - Len(left') + i
        /\ dbClosed' \in BOOLEAN /\ dbErr' \in BOOLEAN /\ (dbErr' => dbClosed')
    <3>1. /\ page \in Seq(Nat) /\ left' \in Seq(Nat)
          /\ Len(left') <= Len(left) - Len(page)
          /\ \A i \in DOMAIN left' : left'[i] = N - Len(left') + i
          /\ dbClosed' \in BOOLEAN /\ dbErr' \in BOOLEAN /\ (dbErr' => dbClosed')
      BY <1>0, <2>1, Filled DEF Ends
    <3>2. left \in Seq(Nat)
      BY <1>0 DEF Runs
    <3> QED
      BY <3>1, <3>2
  <2>4. Types'
    BY <1>0, <1>11, <2>2, <2>3 DEF ServeStray, Types
  <2>5. Newest' = Newest /\ Sent' = Sent
    BY <2>2 DEF Newest, Sent
  <2>6. Runs' /\ Order'
    <3>1. Len(left) \in Nat /\ Len(left) <= N /\ Sent <= N - Len(left) /\ Sent \in Nat
      <4>1. Newest \in Nat
        BY <1>0 DEF Newest, Runs
      <4>2. reply.page # <<>> => reply.page[Len(reply.page)] \in Nat
        BY <1>0 DEF Runs
      <4> QED
        BY <1>0, <4>1, <4>2 DEF Sent, Runs, Order
    <3>2. Len(left') <= N /\ Sent <= N - Len(left')
      BY <2>3, <3>1, RpcDbIteratorAssumption
    <3> QED
      BY <1>0, <2>2, <2>3, <2>5, <3>2 DEF Runs, Order, Run
  <2>7. Broken' /\ Whole' /\ Ends'
    BY <1>0, <2>2, <2>3 DEF Broken, Whole, Ends
  <2> QED
    BY <2>4, <2>6, <2>7 DEF ClientInv
<1> QED
  BY <1>1, <1>2, <1>3, <1>4, <1>5, <1>6, <1>7, <1>8, <1>9, <1>10, <1>11 DEF Next

-----------------------------------------------------------------------------
LEMMA ClientAlways == Spec => []ClientInv
  BY ScanInit, ScanNext, PTL DEF Spec

\* Whatever breaks or is closed, and whenever: a pair that is missing shows in
\* an error of the client, no pair is given twice or late, and where next
\* returned false and error then returned Ok the caller was given every pair.
THEOREM NoPairIsMissedSilently == Spec => []NoSilentHole
<1>1. ClientInv => NoSilentHole
  <2> SUFFICES ASSUME ClientInv PROVE NoSilentHole
    OBVIOUS
  <2>1. /\ out \in Seq(Nat) /\ Len(out) \in Nat /\ DOMAIN out = 1..Len(out) /\ N \in Nat
        /\ out # <<>> => Len(out) > 0
    BY RpcDbIteratorAssumption DEF ClientInv, Runs
  <2> DEFINE all == [i \in 1..N |-> i]
  <2>2. Ascending
    BY DEF ClientInv, Order, Ascending
  <2>3. EndIsTheEnd
    <3> SUFFICES ASSUME complete PROVE out = all
      BY DEF EndIsTheEnd
    <3>1. Len(out) = N /\ \A i \in DOMAIN out : out[i] = i
      BY DEF ClientInv, Ends
    <3>2. all \in Seq(Nat) /\ Len(all) = N /\ \A i \in 1..N : all[i] = i
      BY <2>1
    <3> HIDE DEF all
    <3> QED
      BY <2>1, <3>1, <3>2, SeqEqual
  <2>4. NoHole
    <3> SUFFICES ASSUME ~err PROVE out = SubSeq(all, 1, Len(out))
      BY DEF NoHole
    <3>1. \A i \in DOMAIN out : out[i] = i
      BY DEF ClientInv, Whole
    <3>2. Len(out) <= N
      <4>1. out # <<>> => out[Len(out)] = Len(out)
        BY <2>1, <3>1
      <4>2. /\ Sent <= N - Len(left) /\ Len(left) \in Nat /\ Newest <= Sent /\ Sent \in Nat
            /\ Newest \in Nat /\ (out # <<>> => out[Len(out)] <= Newest)
        BY Bounds DEF ClientInv
      <4> QED
        BY <2>1, <4>1, <4>2
    <3>3. /\ SubSeq(all, 1, Len(out)) \in Seq(Nat) /\ Len(SubSeq(all, 1, Len(out))) = Len(out)
          /\ \A i \in 1..Len(out) : SubSeq(all, 1, Len(out))[i] = i
      <4>1. all \in Seq(Nat) /\ Len(all) = N /\ \A i \in 1..N : all[i] = i
        BY <2>1
      <4> HIDE DEF all
      <4>2. /\ SubSeq(all, 1, Len(out)) \in Seq(Nat) /\ Len(SubSeq(all, 1, Len(out))) = Len(out)
            /\ \A i \in 1..Len(out) : SubSeq(all, 1, Len(out))[i] = all[i]
        BY <2>1, <3>2, <4>1
      <4> QED
        BY <2>1, <3>2, <4>1, <4>2
    <3> DEFINE first == SubSeq(all, 1, Len(out))
    <3> HIDE DEF first
    <3>4. first \in Seq(Nat) /\ Len(first) = Len(out) /\ \A i \in 1..Len(out) : first[i] = i
      BY <3>3 DEF first
    <3>5. out = first
      BY <2>1, <3>1, <3>4, SeqEqual
    <3> QED
      BY <3>5 DEF first
  <2> QED
    BY <2>2, <2>3, <2>4 DEF NoSilentHole
<1> QED
  BY <1>1, ClientAlways, PTL

-----------------------------------------------------------------------------
(* The smallest key of a set.                                              *)

\* First picks the least member of a set of keys.
LEMMA FirstIsLeast ==
  ASSUME NEW S, S \subseteq V!Keys, S # {}
  PROVE  /\ V!First(S) \in S /\ V!First(S) \in V!Keys
         /\ \A j \in S : V!First(S) <= j
<1>1. S \subseteq Nat
  BY RpcDbIteratorAssumption, SMT DEF V!Keys
<1>2. PICK x \in S : \A y \in S : ~(<<y, x>> \in OpToRel(<, Nat))
  BY <1>1, WFMin, NatLessThanWellFounded, Zenon
<1>3. ASSUME NEW y \in S PROVE x <= y
  <2>1. x \in Nat /\ y \in Nat /\ <<y, x>> \in Nat \X Nat
    BY <1>1
  <2>2. ~(y < x)
    BY <1>2, <2>1 DEF OpToRel
  <2> QED
    BY <2>1, <2>2
<1> QED
  BY <1>1, <1>3 DEF V!First

-----------------------------------------------------------------------------
(* The scan: its inductive invariant.                                      *)

\* The keys next has moved to.
Shown(s) == {s[i][1] : i \in 1..Len(s)}

ScanTypes ==
  /\ initialized \in BOOLEAN /\ exhausted \in BOOLEAN /\ scanErr \in BOOLEAN
  /\ innerClosed \in BOOLEAN /\ innerErr \in BOOLEAN
  /\ db \in [V!Keys -> Values \cup {None}]
  /\ mem \in [V!Keys -> Values \cup {Deleted, Unset}]
  /\ keys \subseteq V!Keys /\ \A k \in keys : mem[k] # Unset
  /\ below \subseteq V!Keys /\ \A k \in below : db[k] # None
  /\ pairs \in Seq(V!Keys \X Values)
  /\ phase \in {"ready", "loop", "ended"}

\* A staged key that is below too is still staged when the iterator below
\* comes to it, and a staged delete is met together with what it deletes.
Cursors ==
  /\ phase = "loop" => initialized
  /\ initialized => (exhausted <=> below = {})
  /\ innerClosed => \A k \in V!Keys : mem[k] # Deleted
  /\ phase # "ended" => /\ \A k \in keys : mem[k] = Deleted => k \in below
                        /\ \A k \in below : mem[k] # Unset => k \in keys

\* What was shown is the view's and lies before all that is to come.
Behind ==
  /\ \A i \in 1..Len(pairs) : pairs[i][2] = V!View[pairs[i][1]]
  /\ \A i \in 1..Len(pairs) - 1 : pairs[i][1] < pairs[i + 1][1]
  /\ \A j \in Shown(pairs), k \in keys \cup below : j < k

\* Without an error each pair of the view was shown or is to come.
Ahead ==
  ~scanErr /\ ~innerErr =>
    /\ \A k \in V!Keys : V!View[k] # None =>
         k \in Shown(pairs) \cup (IF mem[k] = Unset THEN below ELSE keys)
    /\ phase = "ended" => keys = {} /\ below = {}

ScanInv == ScanTypes /\ Cursors /\ Behind /\ Ahead

\* ScanInv is enough for the promise of next.
LEMMA ScanInvSuffices == ScanInv => V!ScanIsTheView
<1> SUFFICES ASSUME ScanInv PROVE V!ScanIsTheView
  OBVIOUS
<1>1. \A i \in 1..Len(pairs) : pairs[i] \in V!Keys \X Values
  BY ElementOfSeq DEF ScanInv, ScanTypes
<1>2. \A i \in 1..Len(pairs) : pairs[i][1] \in V!Keys /\ pairs[i][2] \in Values
  BY <1>1
<1>3. None \notin Values
  BY StorageAssumption
<1>4. V!PairsOfTheView
  BY <1>2, <1>3 DEF V!PairsOfTheView, ScanInv, Behind
<1>5. ASSUME phase = "ended", ~scanErr, ~innerErr
      PROVE  {pairs[i][1] : i \in 1..Len(pairs)} = {k \in V!Keys : V!View[k] # None}
  <2>1. \A k \in V!Keys : V!View[k] # None => k \in Shown(pairs)
    BY <1>5 DEF ScanInv, Ahead
  <2>2. \A j \in Shown(pairs) : j \in V!Keys /\ V!View[j] # None
    BY <1>2, <1>3 DEF Shown, ScanInv, Behind
  <2> QED
    BY <2>1, <2>2 DEF Shown
<1>6. phase # "panicked"
  BY DEF ScanInv, ScanTypes
<1> QED
  BY <1>4, <1>5, <1>6 DEF V!ScanIsTheView, V!EndIsTheEnd

\* The first state: nothing was shown, everything is to come.
LEMMA ScanStarts == ASSUME ~AnyTombstones, V!Init PROVE ScanInv
<1>1. pairs = <<>> /\ Len(pairs) = 0 /\ Shown(pairs) = {}
  BY DEF V!Init, Shown
<1>2. ScanTypes
  BY <1>1, EmptySeq DEF V!Init, ScanTypes
<1>3. Cursors
  BY DEF V!Init, Cursors
<1>4. Behind
  BY <1>1 DEF Behind
<1>5. Ahead
  BY DEF V!Init, Ahead, V!View
<1> QED
  BY <1>2, <1>3, <1>4, <1>5 DEF ScanInv

-----------------------------------------------------------------------------
(* The scan: its steps.                                                    *)

\* The copies a scan walks over do not change, and it only drops keys.
Narrows == /\ UNCHANGED <<mem, db>>
           /\ keys' \subseteq keys /\ below' \subseteq below

LEMMA ViewIsFixed == ASSUME UNCHANGED <<mem, db>> PROVE V!View' = V!View
  BY DEF V!View

\* One pair more at the end of what was shown.
OneMore(s, e, t) ==
  /\ t \in Seq(V!Keys \X Values)
  /\ Len(s) \in Nat /\ Len(t) = Len(s) + 1
  /\ \A i \in 1..Len(s) : t[i] = s[i]
  /\ t[Len(s) + 1] = e
  /\ Shown(t) = Shown(s) \cup {e[1]}

LEMMA ShownGrows ==
  ASSUME NEW s \in Seq(V!Keys \X Values), NEW e \in V!Keys \X Values
  PROVE  OneMore(s, e, Append(s, e))
<1> DEFINE t == Append(s, e)
<1>1. /\ t \in Seq(V!Keys \X Values)
      /\ Len(s) \in Nat /\ Len(t) = Len(s) + 1
      /\ \A i \in 1..Len(s) : t[i] = s[i]
      /\ t[Len(s) + 1] = e
  BY AppendProperties
<1> HIDE DEF t
<1>2. Shown(t) = Shown(s) \cup {e[1]}
  <2>1. 1..Len(t) = 1..Len(s) \cup {Len(s) + 1}
    BY <1>1
  <2>2. \A i \in 1..Len(s) : t[i][1] = s[i][1]
    BY <1>1
  <2>3. t[Len(s) + 1][1] = e[1]
    BY <1>1
  <2>4. ASSUME NEW x PROVE x \in Shown(t) <=> x \in Shown(s) \/ x = e[1]
    <3>1. x \in Shown(t) <=> \E i \in 1..Len(s) \cup {Len(s) + 1} : t[i][1] = x
      BY <2>1 DEF Shown
    <3>2. x \in Shown(s) <=> \E i \in 1..Len(s) : t[i][1] = x
      BY <2>2 DEF Shown
    <3> QED
      BY <3>1, <3>2, <2>3
  <2> QED
    BY <2>4
<1>3. OneMore(s, e, t)
  BY <1>1, <1>2 DEF OneMore
<1> QED
  BY <1>3 DEF t

\* A step that moves to the least of the keys to come, and drops it.
LEMMA ShowsTheNext ==
  ASSUME ScanInv, Narrows, NEW k \in keys \cup below, V!View[k] \in Values,
         \A j \in keys \cup below : k <= j,
         k \notin keys' \cup below',
         pairs' = Append(pairs, <<k, V!View[k]>>)
  PROVE  /\ pairs' \in Seq(V!Keys \X Values)
         /\ Shown(pairs') = Shown(pairs) \cup {k}
         /\ Behind'
<1>1. k \in V!Keys /\ pairs \in Seq(V!Keys \X Values)
  BY DEF ScanInv, ScanTypes
<1>2. /\ pairs' \in Seq(V!Keys \X Values)
      /\ Len(pairs) \in Nat /\ Len(pairs') = Len(pairs) + 1
      /\ \A i \in 1..Len(pairs) : pairs'[i] = pairs[i]
      /\ pairs'[Len(pairs')] = <<k, V!View[k]>>
      /\ Shown(pairs') = Shown(pairs) \cup {k}
  <2> DEFINE e == <<k, V!View[k]>>
  <2>1. e \in V!Keys \X Values /\ e[1] = k /\ pairs' = Append(pairs, e)
    BY <1>1
  <2> HIDE DEF e
  <2>2. OneMore(pairs, e, Append(pairs, e))
    BY <1>1, <2>1, ShownGrows
  <2>3. OneMore(pairs, e, pairs')
    BY <2>1, <2>2
  <2> QED
    BY <2>1, <2>3 DEF OneMore, e
<1>3. V!View' = V!View
  BY ViewIsFixed DEF Narrows
<1>4. V!Keys \subseteq Nat
  BY RpcDbIteratorAssumption, SMT DEF V!Keys
<1>5. ASSUME NEW i \in 1..Len(pairs')
      PROVE  pairs'[i][2] = V!View[pairs'[i][1]]
  <2>1. CASE i = Len(pairs')
    BY <2>1, <1>2
  <2>2. CASE i # Len(pairs')
    <3>1. i \in 1..Len(pairs)
      BY <1>2, <2>2
    <3> QED
      BY <3>1, <1>2 DEF ScanInv, Behind
  <2> QED
    BY <2>1, <2>2
<1>6. ASSUME NEW i \in 1..Len(pairs') - 1
      PROVE  pairs'[i][1] < pairs'[i + 1][1]
  <2>1. i \in 1..Len(pairs)
    BY <1>2
  <2>2. CASE i = Len(pairs)
    <3>1. pairs'[i][1] \in Shown(pairs)
      BY <2>1, <1>2 DEF Shown
    <3>2. pairs'[i + 1][1] = k
      BY <2>2, <1>2
    <3> QED
      BY <3>1, <3>2 DEF ScanInv, Behind
  <2>3. CASE i # Len(pairs)
    <3>1. i \in 1..Len(pairs) - 1 /\ i + 1 \in 1..Len(pairs)
      BY <2>1, <2>3, <1>2
    <3>2. pairs'[i] = pairs[i] /\ pairs'[i + 1] = pairs[i + 1]
      BY <3>1, <2>1, <1>2
    <3> QED
      BY <3>1, <3>2 DEF ScanInv, Behind
  <2> QED
    BY <2>2, <2>3
<1>7. ASSUME NEW j \in Shown(pairs'), NEW n \in keys' \cup below' PROVE j < n
  <2>1. n \in keys \cup below /\ n # k /\ n \in Nat /\ k \in Nat
    BY <1>1, <1>4 DEF Narrows, ScanInv, ScanTypes
  <2>2. CASE j = k
    BY <2>1, <2>2
  <2>3. CASE j \in Shown(pairs)
    BY <2>1, <2>3 DEF ScanInv, Behind
  <2> QED
    BY <2>2, <2>3, <1>2
<1>8. Behind'
  BY <1>3, <1>5, <1>6, <1>7 DEF Behind
<1> QED
  BY <1>2, <1>8

\* It leaves out no pair of the view, unless it met the closed database.
LEMMA ShowsWithoutLoss ==
  ASSUME ScanInv, Narrows, NEW k \in keys \cup below,
         Shown(pairs') = Shown(pairs) \cup {k}, UNCHANGED scanErr, phase' = "ready",
         ~innerErr' => ~innerErr /\ keys \subseteq keys' \cup {k}
                       /\ below \subseteq below' \cup {k}
  PROVE  Ahead'
<1>1. V!View' = V!View
  BY ViewIsFixed DEF Narrows
<1> QED
  BY <1>1 DEF ScanInv, Ahead, Narrows

\* Nor does a step that drops a staged delete together with what it deletes.
LEMMA SkipsWithoutLoss ==
  ASSUME ScanInv, Narrows, NEW m \in keys, mem[m] = Deleted,
         UNCHANGED <<pairs, scanErr>>, phase' = "loop",
         ~innerErr' => ~innerErr /\ keys \subseteq keys' \cup {m}
                       /\ below \subseteq below' \cup {m}
  PROVE  Behind' /\ Ahead'
<1>1. V!View' = V!View
  BY ViewIsFixed DEF Narrows
<1>2. V!View[m] = None /\ m \in V!Keys /\ mem[m] # Unset
  BY DEF ScanInv, ScanTypes, V!View
<1>3. Behind'
  BY <1>1 DEF ScanInv, Behind, Narrows
<1>4. Ahead'
  BY <1>1, <1>2 DEF ScanInv, Ahead, Narrows
<1> QED
  BY <1>3, <1>4

\* The iterator below drops its current key, or all of them with an error.
LEMMA BelowSteps ==
  ASSUME ScanInv, phase = "loop", V!StepBelow
  PROVE  /\ below' \subseteq below
         /\ exhausted' \in BOOLEAN /\ innerErr' \in BOOLEAN
         /\ exhausted' <=> below' = {}
         /\ below # {} => V!First(below) \notin below'
         /\ ~innerErr' => ~innerErr /\ \A j \in below : j \in below' \/ j = V!First(below)
  BY DEF ScanInv, ScanTypes, Cursors, V!StepBelow

\* The current pair below, when there is one.
LEMMA CurrentBelow ==
  ASSUME ScanInv, phase = "loop", ~exhausted
  PROVE  /\ below # {} /\ V!BelowKey = V!First(below) /\ V!BelowValue = db[V!First(below)]
         /\ V!First(below) \in below /\ V!First(below) \in V!Keys
         /\ \A j \in below : V!First(below) <= j
<1>1. below # {} /\ below \subseteq V!Keys
  BY DEF ScanInv, ScanTypes, Cursors
<1> QED
  BY <1>1, FirstIsLeast DEF V!BelowKey, V!BelowValue

\* A staged entry that is no delete is what the view has.
LEMMA StagedIsView ==
  ASSUME ScanInv, NEW m \in keys, mem[m] # Deleted
  PROVE  V!View[m] = mem[m] /\ V!View[m] \in Values
  BY DEF ScanInv, ScanTypes, V!View

\* And so is a pair below that nothing is staged for.
LEMMA BelowIsView ==
  ASSUME ScanInv, NEW k \in below, mem[k] = Unset
  PROVE  V!View[k] = db[k] /\ V!View[k] \in Values
  BY DEF ScanInv, ScanTypes, V!View

\* What the steps of the loop that show a pair have in common.
LEMMA ShowStep ==
  ASSUME ScanInv, phase = "loop", Narrows, NEW k \in keys \cup below,
         V!View[k] \in Values,
         \A j \in keys \cup below : k <= j,
         k \notin keys' \cup below',
         V!Yield(k, V!View[k]),
         UNCHANGED <<initialized, innerClosed, scanErr>>,
         exhausted' \in BOOLEAN, innerErr' \in BOOLEAN,
         exhausted' <=> below' = {},
         ~innerErr' => ~innerErr /\ keys \subseteq keys' \cup {k}
                       /\ below \subseteq below' \cup {k},
         \A j \in keys' : mem[j] = Deleted => j \in below',
         \A j \in below' : mem[j] # Unset => j \in keys'
  PROVE  ScanInv'
<1>1. pairs' = Append(pairs, <<k, V!View[k]>>) /\ phase' = "ready"
  BY DEF V!Yield
<1>2. /\ pairs' \in Seq(V!Keys \X Values)
      /\ Shown(pairs') = Shown(pairs) \cup {k}
      /\ Behind'
  BY <1>1, ShowsTheNext
<1>3. Ahead'
  BY <1>1, <1>2, ShowsWithoutLoss
<1>4. ScanTypes'
  BY <1>1, <1>2 DEF ScanInv, ScanTypes, Narrows
<1>5. Cursors'
  BY <1>1 DEF ScanInv, Cursors, Narrows
<1> QED
  BY <1>2, <1>3, <1>4, <1>5 DEF ScanInv

\* The branch of the loop for a pair below that is smaller than all staged ones.
LEMMA ShowsBelow ==
  ASSUME ScanInv, phase = "loop", ~exhausted, V!YieldBelow, V!Always, UNCHANGED keys,
         \A j \in keys : V!BelowKey < j
  PROVE  ScanInv'
<1> DEFINE b == V!First(below)
<1>1. /\ b \in below /\ b \in V!Keys /\ \A j \in below : b <= j
      /\ below # {} /\ V!BelowKey = b /\ V!BelowValue = db[b]
  BY CurrentBelow
<1>2. /\ below' \subseteq below
      /\ exhausted' \in BOOLEAN /\ innerErr' \in BOOLEAN
      /\ exhausted' <=> below' = {}
      /\ b \notin below'
      /\ ~innerErr' => ~innerErr /\ below \subseteq below' \cup {b}
  BY <1>1, BelowSteps DEF V!YieldBelow
<1> HIDE DEF b
<1>3. keys \subseteq Nat /\ below \subseteq Nat
  BY RpcDbIteratorAssumption, SMT DEF ScanInv, ScanTypes, V!Keys
<1>4. b \notin keys /\ mem[b] = Unset
  BY <1>1, <1>3 DEF ScanInv, Cursors
<1>5. V!View[b] = db[b] /\ V!View[b] \in Values
  BY <1>1, <1>4, BelowIsView
<1>6. \A j \in keys \cup below : b <= j
  BY <1>1, <1>3
<1>7. V!Yield(b, V!View[b])
  BY <1>1, <1>5 DEF V!YieldBelow
<1>8. /\ \A j \in keys' : mem[j] = Deleted => j \in below'
      /\ \A j \in below' : mem[j] # Unset => j \in keys'
  <2>1. ASSUME innerErr', NEW j \in keys PROVE mem[j] # Deleted \/ j \in below'
    <3>1. CASE innerClosed
      BY <3>1 DEF ScanInv, ScanTypes, Cursors
    <3>2. CASE ~innerClosed
      <4>1. below' = below \ {b}
        BY <1>1, <3>2 DEF V!YieldBelow, V!StepBelow, ScanInv, Cursors, b
      <4> QED
        BY <4>1, <1>4 DEF ScanInv, Cursors
    <3> QED
      BY <3>1, <3>2
  <2>2. ASSUME ~innerErr', NEW j \in keys PROVE mem[j] # Deleted \/ j \in below'
    BY <2>2, <1>2, <1>4 DEF ScanInv, Cursors
  <2>3. \A j \in keys' : mem[j] = Deleted => j \in below'
    BY <2>1, <2>2
  <2>4. \A j \in below' : mem[j] # Unset => j \in keys'
    BY <1>2 DEF ScanInv, Cursors
  <2> QED
    BY <2>3, <2>4
<1>9. Narrows /\ UNCHANGED <<initialized, innerClosed, scanErr>>
  BY <1>2 DEF Narrows, V!Always
<1> QED
  BY <1>1, <1>2, <1>4, <1>5, <1>6, <1>7, <1>8, <1>9, ShowStep

\* Nothing is left below.
LEMMA OnlyStagedKeeps == ASSUME ScanInv, V!OnlyStaged PROVE ScanInv'
<1> DEFINE m == V!First(keys)
<1>1. keys # {} /\ keys \subseteq V!Keys /\ phase = "loop" /\ exhausted /\ below = {}
  BY DEF V!OnlyStaged, ScanInv, ScanTypes, Cursors
<1>2. m \in keys /\ \A j \in keys : m <= j
  BY <1>1, FirstIsLeast
<1>3. mem[m] # Deleted
  BY <1>1, <1>2 DEF ScanInv, Cursors
<1>4. keys' = keys \ {m} /\ V!Yield(m, mem[m]) /\ V!Keep /\ V!Always
  BY <1>3 DEF V!OnlyStaged
<1> HIDE DEF m
<1>5. V!View[m] = mem[m] /\ V!View[m] \in Values
  BY <1>2, <1>3, StagedIsView
<1>6. /\ Narrows /\ UNCHANGED <<initialized, innerClosed, scanErr>>
      /\ below' = {} /\ exhausted' = exhausted /\ innerErr' = innerErr
  BY <1>1, <1>4 DEF Narrows, V!Always, V!Keep
<1>7. \A j \in keys' : mem[j] = Deleted => j \in below'
  BY <1>1, <1>4 DEF ScanInv, Cursors
<1>8. exhausted' \in BOOLEAN /\ innerErr' \in BOOLEAN
  BY <1>6 DEF ScanInv, ScanTypes
<1>9. V!Yield(m, V!View[m])
  BY <1>4, <1>5
<1> QED
  BY <1>1, <1>2, <1>4, <1>5, <1>6, <1>7, <1>8, <1>9, ShowStep

\* A staged entry for the key below.
LEMMA SameKeyKeeps == ASSUME ScanInv, V!SameKey PROVE ScanInv'
<1> DEFINE m == V!First(keys)
<1>1. keys # {} /\ keys \subseteq V!Keys /\ phase = "loop" /\ ~exhausted
  BY DEF V!SameKey, ScanInv, ScanTypes
<1>2. m \in keys /\ \A j \in keys : m <= j
  BY <1>1, FirstIsLeast
<1>3. /\ V!First(below) = m /\ keys' = keys \ {m} /\ V!StepBelow /\ V!Always
      /\ mem[m] = Deleted => V!Again
      /\ mem[m] # Deleted => V!Yield(m, mem[m])
  BY <1>1, CurrentBelow DEF V!SameKey
<1>4. below # {} /\ \A j \in below : m <= j
  BY <1>1, <1>3, CurrentBelow
<1>5. /\ below' \subseteq below
      /\ exhausted' \in BOOLEAN /\ innerErr' \in BOOLEAN
      /\ exhausted' <=> below' = {}
      /\ m \notin below'
      /\ ~innerErr' => ~innerErr /\ below \subseteq below' \cup {m}
  BY <1>1, <1>3, <1>4, BelowSteps
<1>6. innerClosed \/ below' = below \ {m}
  BY <1>1, <1>3, <1>4 DEF V!StepBelow, ScanInv, Cursors
<1> HIDE DEF m
<1>7. Narrows /\ UNCHANGED <<initialized, innerClosed, scanErr>>
  BY <1>3, <1>5 DEF Narrows, V!Always
<1>8. /\ \A j \in keys' : mem[j] = Deleted => j \in below'
      /\ \A j \in below' : mem[j] # Unset => j \in keys'
  <2>1. \A j \in keys' : mem[j] = Deleted => j \in below'
    <3> SUFFICES ASSUME NEW j \in keys, j # m, mem[j] = Deleted PROVE j \in below'
      BY <1>3
    <3>1. ~innerClosed /\ j \in below
      BY <1>1 DEF ScanInv, Cursors
    <3> QED
      BY <3>1, <1>6
  <2>2. \A j \in below' : mem[j] # Unset => j \in keys'
    BY <1>1, <1>3, <1>5 DEF ScanInv, Cursors
  <2> QED
    BY <2>1, <2>2
<1>9. CASE mem[m] # Deleted
  <2>1. V!View[m] = mem[m] /\ V!View[m] \in Values
    BY <1>2, <1>9, StagedIsView
  <2>2. V!Yield(m, V!View[m])
    BY <1>3, <1>9, <2>1
  <2> QED
    BY <1>1, <1>2, <1>3, <1>4, <1>5, <1>7, <1>8, <2>1, <2>2, ShowStep
<1>10. CASE mem[m] = Deleted
  <2>1. UNCHANGED pairs /\ phase' = "loop"
    BY <1>3, <1>10 DEF V!Again
  <2>2. Behind' /\ Ahead'
    BY <1>2, <1>3, <1>5, <1>7, <1>10, <2>1, SkipsWithoutLoss
  <2>3. ScanTypes'
    BY <1>5, <1>7, <2>1 DEF ScanInv, ScanTypes, Narrows
  <2>4. Cursors'
    BY <1>1, <1>5, <1>7, <1>8, <2>1 DEF ScanInv, Cursors, Narrows
  <2> QED
    BY <2>2, <2>3, <2>4 DEF ScanInv
<1> QED
  BY <1>9, <1>10

\* A staged entry before the key below: it deletes nothing, for there is
\* nothing to delete.
LEMMA StagedFirstKeeps == ASSUME ScanInv, V!StagedFirst PROVE ScanInv'
<1> DEFINE m == V!First(keys)
<1>1. /\ keys # {} /\ keys \subseteq V!Keys /\ phase = "loop" /\ ~exhausted
      /\ m < V!BelowKey
  BY DEF V!StagedFirst, ScanInv, ScanTypes
<1>2. m \in keys /\ \A j \in keys : m <= j
  BY <1>1, FirstIsLeast
<1>3. keys \subseteq Nat /\ below \subseteq Nat
  BY RpcDbIteratorAssumption, SMT DEF ScanInv, ScanTypes, V!Keys
<1>4. \A j \in below : m < j
  <2> DEFINE b == V!BelowKey
  <2>1. b \in below /\ \A j \in below : b <= j
    BY <1>1, CurrentBelow
  <2>2. m < b /\ m \in Nat /\ b \in Nat
    BY <1>1, <1>2, <1>3, <2>1
  <2> HIDE DEF b, m
  <2> QED
    BY <1>3, <2>1, <2>2
<1>5. m \notin below
  <2>1. m \in Nat
    BY <1>2, <1>3
  <2> HIDE DEF m
  <2> QED
    BY <1>4, <2>1
<1>6. \A j \in keys \cup below : m <= j
  <2>1. m \in Nat
    BY <1>2, <1>3
  <2> HIDE DEF m
  <2> QED
    BY <1>2, <1>3, <1>4, <2>1
<1>7. mem[m] # Deleted
  BY <1>1, <1>2, <1>5 DEF ScanInv, Cursors
<1>8. keys' = keys \ {m} /\ V!Yield(m, mem[m]) /\ V!Keep /\ V!Always
  BY <1>7 DEF V!StagedFirst
<1> HIDE DEF m
<1>9. V!View[m] = mem[m] /\ V!View[m] \in Values
  BY <1>2, <1>7, StagedIsView
<1>10. /\ Narrows /\ UNCHANGED <<initialized, innerClosed, scanErr>>
       /\ below' = below /\ exhausted' = exhausted /\ innerErr' = innerErr
  BY <1>8 DEF Narrows, V!Always, V!Keep
<1>11. /\ \A j \in keys' : mem[j] = Deleted => j \in below'
       /\ \A j \in below' : mem[j] # Unset => j \in keys'
  BY <1>1, <1>5, <1>8, <1>10 DEF ScanInv, Cursors
<1>12. exhausted' \in BOOLEAN /\ innerErr' \in BOOLEAN /\ (exhausted' <=> below' = {})
  BY <1>1, <1>10 DEF ScanInv, ScanTypes, Cursors
<1>13. V!Yield(m, V!View[m])
  BY <1>8, <1>9
<1> QED
  BY <1>1, <1>2, <1>5, <1>6, <1>8, <1>9, <1>10, <1>11, <1>12, <1>13, ShowStep

\* Each step of the scan keeps the invariant.
LEMMA ScanSteps == ASSUME ~AnyTombstones, ScanInv, [V!Next]_scanVars PROVE ScanInv'
<1>1. CASE UNCHANGED scanVars
  <2>1. V!View' = V!View
    BY <1>1, ViewIsFixed DEF scanVars
  <2> QED
    BY <1>1, <2>1 DEF scanVars, ScanInv, ScanTypes, Cursors, Behind, Ahead
<1>2. CASE V!NextClosed
  <2>1. V!View' = V!View
    BY <1>2, ViewIsFixed DEF V!NextClosed
  <2> QED
    BY <1>2, <2>1 DEF V!NextClosed, ScanInv, ScanTypes, Cursors, Behind, Ahead
<1>3. CASE V!NextOpen
  <2>1. V!View' = V!View
    BY <1>3, ViewIsFixed DEF V!NextOpen
  <2>2. /\ UNCHANGED <<mem, db, keys, innerClosed, scanErr, pairs>>
        /\ phase = "ready" /\ phase' = "loop" /\ initialized'
    BY <1>3 DEF V!NextOpen
  <2>3. /\ below' = below \/ (innerClosed /\ below' = {} /\ innerErr')
        /\ innerErr' \in BOOLEAN /\ exhausted' \in BOOLEAN
        /\ innerErr => innerErr'
        /\ exhausted' <=> below' = {}
    <3>1. CASE initialized
      BY <1>3, <3>1 DEF V!NextOpen, V!Keep, ScanInv, ScanTypes, Cursors
    <3>2. CASE ~initialized
      BY <1>3, <3>2 DEF V!NextOpen, V!StepBelow, ScanInv, ScanTypes, Cursors
    <3> QED
      BY <3>1, <3>2
  <2>4. ScanTypes'
    BY <2>2, <2>3 DEF ScanInv, ScanTypes
  <2>5. Cursors'
    BY <2>2, <2>3 DEF ScanInv, ScanTypes, Cursors
  <2>6. Behind'
    BY <2>1, <2>2, <2>3 DEF ScanInv, Behind
  <2>7. Ahead'
    BY <2>1, <2>2, <2>3 DEF ScanInv, ScanTypes, Ahead
  <2> QED
    BY <2>4, <2>5, <2>6, <2>7 DEF ScanInv
<1>4. CASE V!Drained
  <2>1. V!View' = V!View
    BY <1>4, ViewIsFixed DEF V!Drained, V!Always
  <2> QED
    BY <1>4, <2>1 DEF V!Drained, V!Always, V!Keep, ScanInv, ScanTypes, Cursors,
                      Behind, Ahead
<1>5. CASE V!OnlyBelow
  BY <1>5, ShowsBelow DEF V!OnlyBelow
<1>6. CASE V!BelowFirst
  <2>1. /\ keys # {} /\ keys \subseteq V!Keys /\ phase = "loop" /\ ~exhausted
        /\ V!BelowKey < V!First(keys)
    BY <1>6 DEF V!BelowFirst, ScanInv, ScanTypes
  <2> DEFINE b == V!BelowKey
             m == V!First(keys)
  <2>2. b \in V!Keys /\ b < m
    BY <2>1, CurrentBelow
  <2>3. m \in V!Keys /\ \A j \in keys : m <= j
    BY <2>1, FirstIsLeast
  <2> HIDE DEF b, m
  <2>4. V!Keys \subseteq Nat
    BY RpcDbIteratorAssumption, SMT DEF V!Keys
  <2>5. \A j \in keys : b < j
    BY <2>1, <2>2, <2>3, <2>4
  <2> QED
    BY <1>6, <2>1, <2>5, ShowsBelow DEF V!BelowFirst, b
<1>7. CASE V!Close
  <2>1. V!View' = V!View
    BY <1>7, ViewIsFixed DEF V!Close
  <2> QED
    BY <1>7, <2>1 DEF V!Close, ScanInv, ScanTypes, Cursors, Behind, Ahead
<1>8. CASE V!CloseBelow
  <2>1. V!View' = V!View
    BY <1>8, ViewIsFixed DEF V!CloseBelow
  <2>2. UNCHANGED <<mem, db, keys, below, initialized, exhausted, scanErr, innerErr,
                    phase, pairs>> /\ innerClosed'
    BY <1>8 DEF V!CloseBelow
  <2>3. \A k \in V!Keys : mem[k] # Deleted
    BY <1>8 DEF V!CloseBelow
  <2> QED
    BY <2>1, <2>2, <2>3 DEF ScanInv, ScanTypes, Cursors, Behind, Ahead
<1> QED
  BY <1>1, <1>2, <1>3, <1>4, <1>5, <1>6, <1>7, <1>8, OnlyStagedKeeps, SameKeyKeeps,
     StagedFirstKeeps DEF V!Next

\* A scan shows the pairs of the view in their order and ends when it has shown
\* them all, or error() fails: whatever the two copies hold and whenever either
\* database is closed, as long as a delete is staged only for a key that the
\* database below has and nothing closes that database while there is one
\* (versiondb/iterator.rs next; with other staged deletes it is not so, which
\* is the run scan_tombstones).
THEOREM ScanShowsTheView == ASSUME ~AnyTombstones PROVE MCSpec => []ScanIsTheView
<1>1. MCInit => ScanInv
  BY ScanStarts DEF MCInit
<1>2. ScanInv /\ [MCNext]_allVars => ScanInv'
  <2> SUFFICES ASSUME ScanInv, [MCNext]_allVars PROVE [V!Next]_scanVars
    BY ScanSteps
  <2> QED
    BY DEF MCNext, allVars
<1>3. ScanInv => ScanIsTheView
  BY ScanInvSuffices DEF ScanIsTheView
<1> QED
  BY <1>1, <1>2, <1>3, PTL DEF MCSpec

-----------------------------------------------------------------------------
(* The write batches.                                                      *)

\* What an operation leaves its key with.
Left(o) == IF o.value = Deleted THEN None ELSE o.value

\* A replay under way has left each key with the last of the operations it has
\* done for it, and no write is reported while it runs.
ReplayInv ==
  /\ kind \in Kinds
  /\ writes \in Seq(B!Op)
  /\ replay \in Int /\ -1 <= replay /\ replay <= Len(writes)
  /\ replay # -1 => ret # "written"
  /\ replay > 0 => store = [k \in DOMAIN store |-> store[k]]
  /\ \A i \in 1..replay :
       (\A j \in i + 1..replay : writes[j].key # writes[i].key) /\ writes[i].key \in DOMAIN store
         => store[writes[i].key] = Left(writes[i])

\* One more operation of a replay: it changes its own key.
LEMMA DoChangesOneKey ==
  ASSUME NEW s, NEW o
  PROVE  /\ DOMAIN B!Do(s, o) = DOMAIN s
         /\ B!Do(s, o) = [k \in DOMAIN s |-> B!Do(s, o)[k]]
         /\ \A k \in DOMAIN s : B!Do(s, o)[k] = IF k = o.key THEN Left(o) ELSE s[k]
  BY DEF B!Do, Left

\* A database that an operation would not change.
LEMMA DoAgain ==
  ASSUME NEW s, NEW o, s = [k \in DOMAIN s |-> s[k]],
         o.key \in DOMAIN s => s[o.key] = Left(o)
  PROVE  s = B!Do(s, o)
  BY DEF B!Do, Left

\* Each step of a batch keeps the invariant.
LEMMA ReplaySteps == ASSUME ReplayInv, [B!Next]_batchVars PROVE ReplayInv'
<1>1. CASE UNCHANGED batchVars
  BY <1>1 DEF batchVars, ReplayInv
<1>2. CASE \E o \in B!Op : B!Queue(o)
  <2> PICK o \in B!Op : B!Queue(o)
    BY <1>2
  <2>1. writes' \in Seq(B!Op) /\ Len(writes) \in Nat /\ Len(writes') = Len(writes) + 1
    BY AppendProperties DEF B!Queue, ReplayInv
  <2>2. kind' = kind /\ replay = -1 /\ replay' = -1
    BY DEF B!Queue
  <2> QED
    BY <2>1, <2>2 DEF ReplayInv
<1>3. CASE B!Reset
  <2>1. writes' \in Seq(B!Op) /\ Len(writes') = 0 /\ kind' = kind /\ replay' = -1
    BY <1>3, EmptySeq DEF B!Reset
  <2> QED
    BY <2>1 DEF ReplayInv
<1>4. CASE B!Write
  <2>1. replay = -1 /\ UNCHANGED <<kind, writes, replay>>
    BY <1>4 DEF B!Write
  <2> QED
    BY <2>1 DEF ReplayInv
<1>5. CASE B!StartReplay
  <2>1. replay' = 0 /\ ret' = "none" /\ UNCHANGED <<kind, writes>>
    BY <1>5 DEF B!StartReplay
  <2>2. Len(writes) \in Nat
    BY LenProperties DEF ReplayInv
  <2> QED
    BY <2>1, <2>2 DEF ReplayInv
<1>6. CASE B!Replay
  <2>1. CASE hostClosed
    <3>1. replay' = -1 /\ UNCHANGED <<kind, writes>>
      BY <1>6, <2>1 DEF B!Replay
    <3>2. Len(writes) \in Nat
      BY LenProperties DEF ReplayInv
    <3> QED
      BY <3>1, <3>2 DEF ReplayInv
  <2>2. CASE ~hostClosed
    <3> DEFINE o == writes[replay + 1]
    <3>1. /\ store' = B!Do(store, o)
          /\ replay' = replay + 1 /\ UNCHANGED <<kind, writes, ret>>
          /\ replay \in 0..Len(writes) - 1
      BY <1>6, <2>2 DEF B!Replay
    <3>2. Len(writes) \in Nat
      BY LenProperties DEF ReplayInv
    <3>3. /\ DOMAIN store' = DOMAIN store
          /\ store' = [k \in DOMAIN store' |-> store'[k]]
          /\ \A k \in DOMAIN store : store'[k] = IF k = o.key THEN Left(o) ELSE store[k]
      <4> DEFINE s == store'
      <4> HIDE DEF o
      <4>1. s = B!Do(store, o)
        BY <3>1
      <4> HIDE DEF s
      <4>2. /\ DOMAIN s = DOMAIN store
            /\ s = [k \in DOMAIN store |-> s[k]]
            /\ \A k \in DOMAIN store : s[k] = IF k = o.key THEN Left(o) ELSE store[k]
        BY <4>1, DoChangesOneKey
      <4> QED
        BY <4>2 DEF s
    <3>4. ASSUME NEW i \in 1..replay', writes[i].key \in DOMAIN store,
                 \A j \in i + 1..replay' : writes[j].key # writes[i].key
          PROVE  store'[writes[i].key] = Left(writes[i])
      <4>1. CASE i = replay + 1
        BY <4>1, <3>3, <3>4
      <4>2. CASE i # replay + 1
        <5>1. i \in 1..replay /\ replay + 1 \in i + 1..replay'
          BY <4>2, <3>1, <3>2
        <5>2. o.key # writes[i].key
          BY <5>1, <3>4
        <5>3. \A j \in i + 1..replay : j \in i + 1..replay'
          BY <3>1, <3>2
        <5>4. store[writes[i].key] = Left(writes[i])
          BY <5>1, <5>3, <3>4 DEF ReplayInv
        <5> QED
          BY <5>2, <5>4, <3>3, <3>4
      <4> QED
        BY <4>1, <4>2
    <3> QED
      BY <3>1, <3>2, <3>3, <3>4 DEF ReplayInv
  <2> QED
    BY <2>1, <2>2
<1>7. CASE B!EndReplay
  <2>1. replay' = -1 /\ UNCHANGED <<kind, writes>>
    BY <1>7 DEF B!EndReplay
  <2>2. Len(writes) \in Nat
    BY LenProperties DEF ReplayInv
  <2> QED
    BY <2>1, <2>2 DEF ReplayInv
<1>8. CASE B!CloseHost
  BY <1>8 DEF B!CloseHost, ReplayInv
<1> QED
  BY <1>1, <1>2, <1>3, <1>4, <1>5, <1>6, <1>7, <1>8 DEF B!Next

\* What the step of a batch that reports a write or a replay has done.
WrittenOrReplayed ==
  /\ ret' = "written" /\ ~hostClosed' => store' = B!InOrder(store, writes)
  /\ replay # -1 /\ replay' = -1 /\ ret' = "replayed" =>
       \A i \in 1..Len(writes) :
         (\A j \in i + 1..Len(writes) : writes[j].key # writes[i].key) =>
           store' = B!Do(store', writes[i])

LEMMA BatchSteps ==
  ASSUME "rpcdb" \notin Kinds, ReplayInv, B!Next PROVE WrittenOrReplayed
<1>1. CASE B!Write
  <2>1. replay = -1 /\ UNCHANGED <<hostClosed, replay>>
    BY <1>1 DEF B!Write
  <2>2. kind # "rpcdb"
    BY DEF ReplayInv
  <2>3. ASSUME ~hostClosed PROVE store' = B!InOrder(store, writes)
    BY <1>1, <2>2, <2>3 DEF B!Write, B!Applied
  <2> QED
    BY <2>1, <2>3 DEF WrittenOrReplayed
<1>2. CASE B!EndReplay
  <2>1. replay = Len(writes) /\ store' = store /\ ret' = "replayed"
    BY <1>2 DEF B!EndReplay
  <2>2. Len(writes) \in Nat
    BY LenProperties DEF ReplayInv
  <2>3. ASSUME NEW i \in 1..Len(writes),
               \A j \in i + 1..Len(writes) : writes[j].key # writes[i].key
        PROVE  store' = B!Do(store', writes[i])
    <3> DEFINE o == writes[i]
    <3>1. store = [k \in DOMAIN store |-> store[k]]
      BY <2>1, <2>2 DEF ReplayInv
    <3>2. o.key \in DOMAIN store => store[o.key] = Left(o)
      BY <2>1, <2>3 DEF ReplayInv
    <3> HIDE DEF o
    <3>3. store = B!Do(store, o)
      BY <3>1, <3>2, DoAgain
    <3> QED
      BY <2>1, <3>3 DEF o
  <2> QED
    BY <2>1, <2>3 DEF WrittenOrReplayed
<1>3. CASE B!Replay
  BY <1>3 DEF B!Replay, ReplayInv, WrittenOrReplayed
<1>4. CASE (\E o \in B!Op : B!Queue(o)) \/ B!Reset \/ B!StartReplay
  BY <1>4 DEF B!Queue, B!Reset, B!StartReplay, WrittenOrReplayed
<1>5. CASE B!CloseHost
  BY <1>5 DEF B!CloseHost, WrittenOrReplayed
<1> QED
  BY <1>1, <1>2, <1>3, <1>4, <1>5 DEF B!Next

\* write of a batch of memdb or of versiondb does what replaying its queue in
\* order would do, and a replay that says it is done has left each key as the
\* last operation for it wanted, for any number of keys, values and operations
\* (memdb/batch.rs and versiondb/batch.rs write and replay).
THEOREM BatchesReplay == ASSUME "rpcdb" \notin Kinds PROVE MCSpec => WriteIsReplay
<1>1. MCInit => ReplayInv
  <2> SUFFICES ASSUME MCInit PROVE ReplayInv
    OBVIOUS
  <2>1. kind \in Kinds /\ writes = <<>> /\ replay = -1
    BY DEF MCInit, B!Init
  <2>2. writes \in Seq(B!Op) /\ Len(writes) = 0
    BY <2>1, EmptySeq
  <2> QED
    BY <2>1, <2>2 DEF ReplayInv
<1>2. ReplayInv /\ [MCNext]_allVars => ReplayInv'
  <2> SUFFICES ASSUME ReplayInv, [MCNext]_allVars PROVE [B!Next]_batchVars
    BY ReplaySteps
  <2> QED
    BY DEF MCNext, allVars
<1>3. ReplayInv /\ [MCNext]_allVars => [WrittenOrReplayed]_batchVars
  <2> SUFFICES ASSUME ReplayInv, [MCNext]_allVars PROVE B!Next \/ UNCHANGED batchVars
    BY BatchSteps
  <2> QED
    BY DEF MCNext, allVars
<1> QED
  BY <1>1, <1>2, <1>3, PTL
     DEF MCSpec, WriteIsReplay, B!WriteIsReplay, WrittenOrReplayed, batchVars, B!vars

-----------------------------------------------------------------------------
(* The calls between a VM and its node: the tables of their services.       *)

\* No name is in two of the tables.
Apart(tables) ==
  \A i, j \in DOMAIN tables : \A name \in DOMAIN tables[i] :
    name \in DOMAIN tables[j] => j = i

\* What is in the table is in all, as it is there.
Within(table, all) == \A name \in DOMAIN table : name \in DOMAIN all /\ all[name] = table[name]

LEMMA JoinedIs ==
  ASSUME NEW tables, Apart(tables)
  PROVE  /\ \A i \in DOMAIN tables : Within(tables[i], P!Joined(tables))
         /\ \A name \in DOMAIN P!Joined(tables) :
              \E i \in DOMAIN tables : name \in DOMAIN tables[i]
<1>1. ASSUME NEW i \in DOMAIN tables, NEW name \in DOMAIN tables[i]
      PROVE  (CHOOSE j \in DOMAIN tables : name \in DOMAIN tables[j]) = i
  BY DEF Apart
<1> QED
  BY <1>1 DEF P!Joined, Within

LEMMA VmStubsAre ==
  LET all == P!Services["vm"].stubs IN
  /\ Within(P!VmLifeStubs, all) /\ Within(P!VmBlockStubs, all) /\
     Within(P!VmAppStubs, all) /\ Within(P!VmCrossChainStubs, all) /\
     Within(P!VmStateStubs, all) /\ Within(P!VmDecisionStubs, all)
  /\ \A name \in DOMAIN all :
       name \in DOMAIN P!VmLifeStubs \/ name \in DOMAIN P!VmBlockStubs \/
       name \in DOMAIN P!VmAppStubs \/ name \in DOMAIN P!VmCrossChainStubs \/
       name \in DOMAIN P!VmStateStubs \/ name \in DOMAIN P!VmDecisionStubs
<1> DEFINE all == P!Services["vm"].stubs
           tables == <<P!VmLifeStubs, P!VmBlockStubs, P!VmAppStubs, P!VmCrossChainStubs,
               P!VmStateStubs, P!VmDecisionStubs>>
<1>1. all = P!Joined(tables)
  BY DEF P!Services
<1>2. /\ DOMAIN tables = 1..6
      /\ tables[1] = P!VmLifeStubs /\ tables[2] = P!VmBlockStubs /\
         tables[3] = P!VmAppStubs /\ tables[4] = P!VmCrossChainStubs /\
         tables[5] = P!VmStateStubs /\ tables[6] = P!VmDecisionStubs
  OBVIOUS
<1>3. /\ DOMAIN P!VmLifeStubs = {"initialize", "set_state", "shutdown", "create_handlers",
           "create_static_handlers", "connected", "disconnected"}
      /\ DOMAIN P!VmBlockStubs = {"build_block", "parse_block", "get_block",
           "set_preference", "health", "version"}
      /\ DOMAIN P!VmAppStubs = {"app_request", "app_request_failed", "app_response",
           "app_gossip", "gather"}
      /\ DOMAIN P!VmCrossChainStubs = {"cross_chain_app_request",
           "cross_chain_app_request_failed", "cross_chain_app_response", "get_ancestors",
           "batched_parse_block"}
      /\ DOMAIN P!VmStateStubs = {"verify_height_index", "get_block_id_at_height",
           "state_sync_enabled", "get_ongoing_sync_state_summary",
           "get_last_state_summary", "parse_state_summary", "get_state_summary"}
      /\ DOMAIN P!VmDecisionStubs = {"block_verify", "block_accept", "block_reject",
           "state_summary_accept"}
  BY DEF P!VmLifeStubs, P!VmBlockStubs, P!VmAppStubs, P!VmCrossChainStubs, P!VmStateStubs,
         P!VmDecisionStubs
<1>4. \A i \in 1..6 : i = 1 \/ i = 2 \/ i = 3 \/ i = 4 \/ i = 5 \/ i = 6
  OBVIOUS
<1> HIDE DEF tables, all
<1>5. Apart(tables)
  BY <1>2, <1>3, <1>4 DEF Apart
<1>6. /\ \A i \in 1..6 : Within(tables[i], all)
      /\ \A name \in DOMAIN all : \E i \in 1..6 : name \in DOMAIN tables[i]
  BY <1>1, <1>2, <1>5, JoinedIs DEF Within
<1> QED
  BY <1>2, <1>4, <1>6 DEF all

LEMMA VmArmsAre ==
  LET all == P!Services["vm"].arms IN
  /\ Within(P!VmLifeArms, all) /\ Within(P!VmConnectArms, all) /\
     Within(P!VmBlockArms, all) /\ Within(P!VmHealthArms, all) /\
     Within(P!VmAppArms, all) /\ Within(P!VmGossipArms, all) /\
     Within(P!VmCrossChainArms, all) /\ Within(P!VmAncestorArms, all) /\
     Within(P!VmHeightArms, all) /\ Within(P!VmSyncArms, all) /\
     Within(P!VmSummaryArms, all) /\ Within(P!VmDecisionArms, all) /\
     Within(P!VmAcceptArms, all)
  /\ \A name \in DOMAIN all :
       name \in DOMAIN P!VmLifeArms \/ name \in DOMAIN P!VmConnectArms \/
       name \in DOMAIN P!VmBlockArms \/ name \in DOMAIN P!VmHealthArms \/
       name \in DOMAIN P!VmAppArms \/ name \in DOMAIN P!VmGossipArms \/
       name \in DOMAIN P!VmCrossChainArms \/ name \in DOMAIN P!VmAncestorArms \/
       name \in DOMAIN P!VmHeightArms \/ name \in DOMAIN P!VmSyncArms \/
       name \in DOMAIN P!VmSummaryArms \/ name \in DOMAIN P!VmDecisionArms \/
       name \in DOMAIN P!VmAcceptArms
<1> DEFINE all == P!Services["vm"].arms
           tables == <<P!VmLifeArms, P!VmConnectArms, P!VmBlockArms, P!VmHealthArms,
               P!VmAppArms, P!VmGossipArms, P!VmCrossChainArms, P!VmAncestorArms,
               P!VmHeightArms, P!VmSyncArms, P!VmSummaryArms, P!VmDecisionArms,
               P!VmAcceptArms>>
<1>1. all = P!Joined(tables)
  BY DEF P!Services
<1>2. /\ DOMAIN tables = 1..13
      /\ tables[1] = P!VmLifeArms /\ tables[2] = P!VmConnectArms /\
         tables[3] = P!VmBlockArms /\ tables[4] = P!VmHealthArms /\
         tables[5] = P!VmAppArms /\ tables[6] = P!VmGossipArms /\
         tables[7] = P!VmCrossChainArms /\ tables[8] = P!VmAncestorArms /\
         tables[9] = P!VmHeightArms /\ tables[10] = P!VmSyncArms /\
         tables[11] = P!VmSummaryArms /\ tables[12] = P!VmDecisionArms /\
         tables[13] = P!VmAcceptArms
  OBVIOUS
<1>3. /\ DOMAIN P!VmLifeArms = {"Initialize", "SetState", "Shutdown"}
      /\ DOMAIN P!VmConnectArms = {"CreateHandlers", "CreateStaticHandlers", "Connected",
           "Disconnected"}
      /\ DOMAIN P!VmBlockArms = {"BuildBlock", "ParseBlock", "GetBlock"}
      /\ DOMAIN P!VmHealthArms = {"SetPreference", "Health", "Version"}
      /\ DOMAIN P!VmAppArms = {"AppRequest", "AppRequestFailed", "AppResponse"}
      /\ DOMAIN P!VmGossipArms = {"AppGossip", "Gather"}
      /\ DOMAIN P!VmCrossChainArms = {"CrossChainAppRequest", "CrossChainAppRequestFailed",
           "CrossChainAppResponse"}
      /\ DOMAIN P!VmAncestorArms = {"GetAncestors", "BatchedParseBlock"}
      /\ DOMAIN P!VmHeightArms = {"VerifyHeightIndex", "GetBlockIDAtHeight"}
      /\ DOMAIN P!VmSyncArms = {"StateSyncEnabled", "GetOngoingSyncStateSummary",
           "GetLastStateSummary"}
      /\ DOMAIN P!VmSummaryArms = {"ParseStateSummary", "GetStateSummary"}
      /\ DOMAIN P!VmDecisionArms = {"BlockVerify", "BlockAccept", "BlockReject"}
      /\ DOMAIN P!VmAcceptArms = {"StateSummaryAccept"}
  BY DEF P!VmLifeArms, P!VmConnectArms, P!VmBlockArms, P!VmHealthArms, P!VmAppArms,
         P!VmGossipArms, P!VmCrossChainArms, P!VmAncestorArms, P!VmHeightArms,
         P!VmSyncArms, P!VmSummaryArms, P!VmDecisionArms, P!VmAcceptArms
<1>4. \A i \in 1..13 : i = 1 \/ i = 2 \/ i = 3 \/ i = 4 \/ i = 5 \/ i = 6 \/ i = 7 \/ i = 8 \/ i = 9 \/ i = 10 \/ i = 11 \/ i = 12 \/ i = 13
  OBVIOUS
<1> HIDE DEF tables, all
<1>5. Apart(tables)
  BY <1>2, <1>3, <1>4 DEF Apart
<1>6. /\ \A i \in 1..13 : Within(tables[i], all)
      /\ \A name \in DOMAIN all : \E i \in 1..13 : name \in DOMAIN tables[i]
  BY <1>1, <1>2, <1>5, JoinedIs DEF Within
<1> QED
  BY <1>2, <1>4, <1>6 DEF all

LEMMA VmMessagesAre ==
  LET all == P!Services["vm"].messages IN
  /\ Within(P!VmLifeMessages, all) /\ Within(P!VmBlockMessages, all) /\
     Within(P!VmAppMessages, all) /\ Within(P!VmStateMessages, all)
  /\ \A name \in DOMAIN all :
       name \in DOMAIN P!VmLifeMessages \/ name \in DOMAIN P!VmBlockMessages \/
       name \in DOMAIN P!VmAppMessages \/ name \in DOMAIN P!VmStateMessages
<1> DEFINE all == P!Services["vm"].messages
           tables == <<P!VmLifeMessages, P!VmBlockMessages, P!VmAppMessages,
               P!VmStateMessages>>
<1>1. all = P!Joined(tables)
  BY DEF P!Services
<1>2. /\ DOMAIN tables = 1..4
      /\ tables[1] = P!VmLifeMessages /\ tables[2] = P!VmBlockMessages /\
         tables[3] = P!VmAppMessages /\ tables[4] = P!VmStateMessages
  OBVIOUS
<1>3. /\ DOMAIN P!VmLifeMessages = {"InitializeRequest", "InitializeResponse",
           "VersionedDbServer", "SetStateRequest", "SetStateResponse",
           "CreateHandlersResponse", "CreateStaticHandlersResponse", "Handler"}
      /\ DOMAIN P!VmBlockMessages = {"BuildBlockRequest", "BuildBlockResponse",
           "ParseBlockRequest", "ParseBlockResponse", "GetBlockRequest",
           "GetBlockResponse", "SetPreferenceRequest", "BlockVerifyRequest",
           "BlockVerifyResponse", "BlockAcceptRequest", "BlockRejectRequest"}
      /\ DOMAIN P!VmAppMessages = {"HealthResponse", "VersionResponse", "AppRequestMsg",
           "AppRequestFailedMsg", "AppResponseMsg", "AppGossipMsg",
           "CrossChainAppRequestMsg", "CrossChainAppRequestFailedMsg",
           "CrossChainAppResponseMsg", "ConnectedRequest", "DisconnectedRequest"}
      /\ DOMAIN P!VmStateMessages = {"GetAncestorsRequest", "GetAncestorsResponse",
           "BatchedParseBlockRequest", "BatchedParseBlockResponse",
           "VerifyHeightIndexResponse", "GetBlockIdAtHeightRequest",
           "GetBlockIdAtHeightResponse", "GatherResponse", "StateSyncEnabledResponse",
           "GetOngoingSyncStateSummaryResponse", "GetLastStateSummaryResponse",
           "ParseStateSummaryRequest", "ParseStateSummaryResponse",
           "GetStateSummaryRequest", "GetStateSummaryResponse",
           "StateSummaryAcceptRequest", "StateSummaryAcceptResponse"}
  BY DEF P!VmLifeMessages, P!VmBlockMessages, P!VmAppMessages, P!VmStateMessages
<1>4. \A i \in 1..4 : i = 1 \/ i = 2 \/ i = 3 \/ i = 4
  OBVIOUS
<1> HIDE DEF tables, all
<1>5. Apart(tables)
  BY <1>2, <1>3, <1>4 DEF Apart
<1>6. /\ \A i \in 1..4 : Within(tables[i], all)
      /\ \A name \in DOMAIN all : \E i \in 1..4 : name \in DOMAIN tables[i]
  BY <1>1, <1>2, <1>5, JoinedIs DEF Within
<1> QED
  BY <1>2, <1>4, <1>6 DEF all

LEMMA VmTakesAre ==
  LET all == P!Takes["vm"] IN
  /\ Within(P!InitializeTakes, all) /\ Within(P!VmBlockTakes, all) /\
     Within(P!VmAppTakes, all) /\ Within(P!VmDecisionTakes, all) /\
     Within(P!VmCrossChainTakes, all)
  /\ \A name \in DOMAIN all :
       name \in DOMAIN P!InitializeTakes \/ name \in DOMAIN P!VmBlockTakes \/
       name \in DOMAIN P!VmAppTakes \/ name \in DOMAIN P!VmDecisionTakes \/
       name \in DOMAIN P!VmCrossChainTakes
<1> DEFINE all == P!Takes["vm"]
           tables == <<P!InitializeTakes, P!VmBlockTakes, P!VmAppTakes, P!VmDecisionTakes,
               P!VmCrossChainTakes>>
<1>1. all = P!Joined(tables)
  BY DEF P!Takes
<1>2. /\ DOMAIN tables = 1..5
      /\ tables[1] = P!InitializeTakes /\ tables[2] = P!VmBlockTakes /\
         tables[3] = P!VmAppTakes /\ tables[4] = P!VmDecisionTakes /\
         tables[5] = P!VmCrossChainTakes
  OBVIOUS
<1>3. /\ DOMAIN P!InitializeTakes = {"initialize"}
      /\ DOMAIN P!VmBlockTakes = {"build_block", "parse_block", "get_block", "set_state",
           "set_preference"}
      /\ DOMAIN P!VmAppTakes = {"connected", "disconnected", "app_request",
           "app_request_failed", "app_response", "app_gossip"}
      /\ DOMAIN P!VmDecisionTakes = {"block_verify", "block_accept", "block_reject",
           "get_ancestors"}
      /\ DOMAIN P!VmCrossChainTakes = {"cross_chain_app_request",
           "cross_chain_app_request_failed", "cross_chain_app_response"}
  BY DEF P!InitializeTakes, P!VmBlockTakes, P!VmAppTakes, P!VmDecisionTakes,
         P!VmCrossChainTakes
<1>4. \A i \in 1..5 : i = 1 \/ i = 2 \/ i = 3 \/ i = 4 \/ i = 5
  OBVIOUS
<1> HIDE DEF tables, all
<1>5. Apart(tables)
  BY <1>2, <1>3, <1>4 DEF Apart
<1>6. /\ \A i \in 1..5 : Within(tables[i], all)
      /\ \A name \in DOMAIN all : \E i \in 1..5 : name \in DOMAIN tables[i]
  BY <1>1, <1>2, <1>5, JoinedIs DEF Within
<1> QED
  BY <1>2, <1>4, <1>6 DEF all

LEMMA DatabaseStubsAre ==
  LET all == P!Services["database"].stubs IN
  /\ Within(P!DatabaseStubs, all) /\ Within(P!IteratorStubs, all)
  /\ \A name \in DOMAIN all :
       name \in DOMAIN P!DatabaseStubs \/ name \in DOMAIN P!IteratorStubs
<1> DEFINE all == P!Services["database"].stubs
           tables == <<P!DatabaseStubs, P!IteratorStubs>>
<1>1. all = P!Joined(tables)
  BY DEF P!Services
<1>2. /\ DOMAIN tables = 1..2
      /\ tables[1] = P!DatabaseStubs /\ tables[2] = P!IteratorStubs
  OBVIOUS
<1>3. /\ DOMAIN P!DatabaseStubs = {"has", "get", "put", "delete", "compact", "close"}
      /\ DOMAIN P!IteratorStubs = {"health_check", "write_batch",
           "new_iterator_with_start_and_prefix", "iterator_next", "iterator_error",
           "iterator_release"}
  BY DEF P!DatabaseStubs, P!IteratorStubs
<1>4. \A i \in 1..2 : i = 1 \/ i = 2
  OBVIOUS
<1> HIDE DEF tables, all
<1>5. Apart(tables)
  BY <1>2, <1>3, <1>4 DEF Apart
<1>6. /\ \A i \in 1..2 : Within(tables[i], all)
      /\ \A name \in DOMAIN all : \E i \in 1..2 : name \in DOMAIN tables[i]
  BY <1>1, <1>2, <1>5, JoinedIs DEF Within
<1> QED
  BY <1>2, <1>4, <1>6 DEF all

LEMMA DatabaseArmsAre ==
  LET all == P!Services["database"].arms IN
  /\ Within(P!DatabaseReadArms, all) /\ Within(P!DatabaseCloseArms, all) /\
     Within(P!DatabaseBatchArms, all) /\ Within(P!IteratorArms, all)
  /\ \A name \in DOMAIN all :
       name \in DOMAIN P!DatabaseReadArms \/ name \in DOMAIN P!DatabaseCloseArms \/
       name \in DOMAIN P!DatabaseBatchArms \/ name \in DOMAIN P!IteratorArms
<1> DEFINE all == P!Services["database"].arms
           tables == <<P!DatabaseReadArms, P!DatabaseCloseArms, P!DatabaseBatchArms,
               P!IteratorArms>>
<1>1. all = P!Joined(tables)
  BY DEF P!Services
<1>2. /\ DOMAIN tables = 1..4
      /\ tables[1] = P!DatabaseReadArms /\ tables[2] = P!DatabaseCloseArms /\
         tables[3] = P!DatabaseBatchArms /\ tables[4] = P!IteratorArms
  OBVIOUS
<1>3. /\ DOMAIN P!DatabaseReadArms = {"Has", "Get", "Put"}
      /\ DOMAIN P!DatabaseCloseArms = {"Delete", "Compact", "Close"}
      /\ DOMAIN P!DatabaseBatchArms = {"HealthCheck", "WriteBatch",
           "NewIteratorWithStartAndPrefix"}
      /\ DOMAIN P!IteratorArms = {"IteratorNext", "IteratorError", "IteratorRelease"}
  BY DEF P!DatabaseReadArms, P!DatabaseCloseArms, P!DatabaseBatchArms, P!IteratorArms
<1>4. \A i \in 1..4 : i = 1 \/ i = 2 \/ i = 3 \/ i = 4
  OBVIOUS
<1> HIDE DEF tables, all
<1>5. Apart(tables)
  BY <1>2, <1>3, <1>4 DEF Apart
<1>6. /\ \A i \in 1..4 : Within(tables[i], all)
      /\ \A name \in DOMAIN all : \E i \in 1..4 : name \in DOMAIN tables[i]
  BY <1>1, <1>2, <1>5, JoinedIs DEF Within
<1> QED
  BY <1>2, <1>4, <1>6 DEF all

LEMMA AppSenderArmsAre ==
  LET all == P!Services["appsender"].arms IN
  /\ Within(P!AppSenderArms, all) /\ Within(P!CrossChainSenderArms, all)
  /\ \A name \in DOMAIN all :
       name \in DOMAIN P!AppSenderArms \/ name \in DOMAIN P!CrossChainSenderArms
<1> DEFINE all == P!Services["appsender"].arms
           tables == <<P!AppSenderArms, P!CrossChainSenderArms>>
<1>1. all = P!Joined(tables)
  BY DEF P!Services
<1>2. /\ DOMAIN tables = 1..2
      /\ tables[1] = P!AppSenderArms /\ tables[2] = P!CrossChainSenderArms
  OBVIOUS
<1>3. /\ DOMAIN P!AppSenderArms = {"SendAppRequest", "SendAppResponse", "SendAppGossip"}
      /\ DOMAIN P!CrossChainSenderArms = {"SendAppGossipSpecific",
           "SendCrossChainAppRequest", "SendCrossChainAppResponse"}
  BY DEF P!AppSenderArms, P!CrossChainSenderArms
<1>4. \A i \in 1..2 : i = 1 \/ i = 2
  OBVIOUS
<1> HIDE DEF tables, all
<1>5. Apart(tables)
  BY <1>2, <1>3, <1>4 DEF Apart
<1>6. /\ \A i \in 1..2 : Within(tables[i], all)
      /\ \A name \in DOMAIN all : \E i \in 1..2 : name \in DOMAIN tables[i]
  BY <1>1, <1>2, <1>5, JoinedIs DEF Within
<1> QED
  BY <1>2, <1>4, <1>6 DEF all

LEMMA ValidatorArmsAre ==
  LET all == P!Services["validators"].arms IN
  /\ Within(P!HeightArms, all) /\ Within(P!ValidatorSetArms, all)
  /\ \A name \in DOMAIN all :
       name \in DOMAIN P!HeightArms \/ name \in DOMAIN P!ValidatorSetArms
<1> DEFINE all == P!Services["validators"].arms
           tables == <<P!HeightArms, P!ValidatorSetArms>>
<1>1. all = P!Joined(tables)
  BY DEF P!Services
<1>2. /\ DOMAIN tables = 1..2
      /\ tables[1] = P!HeightArms /\ tables[2] = P!ValidatorSetArms
  OBVIOUS
<1>3. /\ DOMAIN P!HeightArms = {"GetMinimumHeight", "GetCurrentHeight"}
      /\ DOMAIN P!ValidatorSetArms = {"GetSubnetID", "GetValidatorSet"}
  BY DEF P!HeightArms, P!ValidatorSetArms
<1>4. \A i \in 1..2 : i = 1 \/ i = 2
  OBVIOUS
<1> HIDE DEF tables, all
<1>5. Apart(tables)
  BY <1>2, <1>3, <1>4 DEF Apart
<1>6. /\ \A i \in 1..2 : Within(tables[i], all)
      /\ \A name \in DOMAIN all : \E i \in 1..2 : name \in DOMAIN tables[i]
  BY <1>1, <1>2, <1>5, JoinedIs DEF Within
<1> QED
  BY <1>2, <1>4, <1>6 DEF all

ServiceNames == DOMAIN P!Services

LEMMA ServicesAre ==
  ServiceNames = {"vm", "database", "appsender", "validators", "sharedmemory", "aliasreader",
                  "keystore", "messenger", "runtime", "http"}
BY DEF ServiceNames, P!Services

\* The path of a method leads to the method, and both ends have the same types.
Meets(service, method, stub) ==
  LET arms == P!Services[service].arms IN
  stub[1] \in DOMAIN arms /\ arms[stub[1]] = <<method, stub[2], stub[3]>>

LEMMA VmMeets ==
  ASSUME NEW m \in DOMAIN P!Services["vm"].stubs
  PROVE  Meets("vm", m, P!Services["vm"].stubs[m])
<1> DEFINE stubs == P!Services["vm"].stubs
<1>1. \A n \in DOMAIN P!VmLifeStubs : Meets("vm", n, P!VmLifeStubs[n])
  BY VmArmsAre DEF Within, Meets, P!VmLifeStubs, P!VmLifeArms, P!VmConnectArms
<1>2. \A n \in DOMAIN P!VmBlockStubs : Meets("vm", n, P!VmBlockStubs[n])
  BY VmArmsAre DEF Within, Meets, P!VmBlockStubs, P!VmBlockArms, P!VmHealthArms
<1>3. \A n \in DOMAIN P!VmAppStubs : Meets("vm", n, P!VmAppStubs[n])
  BY VmArmsAre DEF Within, Meets, P!VmAppStubs, P!VmAppArms, P!VmGossipArms
<1>4. \A n \in DOMAIN P!VmCrossChainStubs : Meets("vm", n, P!VmCrossChainStubs[n])
  BY VmArmsAre DEF Within, Meets, P!VmCrossChainStubs, P!VmCrossChainArms, P!VmAncestorArms
<1>5. \A n \in DOMAIN P!VmStateStubs : Meets("vm", n, P!VmStateStubs[n])
  BY VmArmsAre DEF Within, Meets, P!VmStateStubs, P!VmHeightArms, P!VmSyncArms, P!VmSummaryArms
<1>6. \A n \in DOMAIN P!VmDecisionStubs : Meets("vm", n, P!VmDecisionStubs[n])
  BY VmArmsAre DEF Within, Meets, P!VmDecisionStubs, P!VmDecisionArms, P!VmAcceptArms
<1> QED
  BY <1>1, <1>2, <1>3, <1>4, <1>5, <1>6, VmStubsAre DEF Within

LEMMA DatabaseMeets ==
  ASSUME NEW m \in DOMAIN P!Services["database"].stubs
  PROVE  Meets("database", m, P!Services["database"].stubs[m])
<1>1. \A n \in DOMAIN P!DatabaseStubs : Meets("database", n, P!DatabaseStubs[n])
  BY DatabaseArmsAre DEF Within, Meets, P!DatabaseStubs, P!DatabaseReadArms,
     P!DatabaseCloseArms
<1>2. \A n \in DOMAIN P!IteratorStubs : Meets("database", n, P!IteratorStubs[n])
  BY DatabaseArmsAre DEF Within, Meets, P!IteratorStubs, P!DatabaseBatchArms,
     P!IteratorArms
<1> QED
  BY <1>1, <1>2, DatabaseStubsAre DEF Within

LEMMA StubsMeetArms ==
  ASSUME NEW service \in ServiceNames, NEW m \in DOMAIN P!Services[service].stubs
  PROVE  Meets(service, m, P!Stub(service, m))
<1> DEFINE s == P!Services[service]
<1>1. CASE service = "vm"
  BY <1>1, VmMeets DEF P!Stub
<1>2. CASE service = "database"
  BY <1>2, DatabaseMeets DEF P!Stub
<1>3. CASE service = "appsender"
  <2>1. s.stubs = P!AppSenderStubs
    BY <1>3 DEF P!Services
  <2>2. \A n \in DOMAIN P!AppSenderStubs : Meets("appsender", n, P!AppSenderStubs[n])
    BY AppSenderArmsAre DEF Within, Meets, P!AppSenderStubs,
       P!AppSenderArms, P!CrossChainSenderArms
  <2> QED
    BY <1>3, <2>1, <2>2 DEF P!Stub
<1>4. CASE service = "validators"
  <2>1. s.stubs = P!ValidatorStateStubs
    BY <1>4 DEF P!Services
  <2>2. \A n \in DOMAIN P!ValidatorStateStubs :
          Meets("validators", n, P!ValidatorStateStubs[n])
    BY ValidatorArmsAre DEF Within, Meets, P!ValidatorStateStubs,
       P!HeightArms, P!ValidatorSetArms
  <2> QED
    BY <1>4, <2>1, <2>2 DEF P!Stub
<1>5. CASE service = "sharedmemory"
  <2>1. s.stubs = P!SharedMemoryStubs /\ s.arms = P!SharedMemoryArms
    BY <1>5 DEF P!Services
  <2>2. \A n \in DOMAIN P!SharedMemoryStubs : Meets("sharedmemory", n, P!SharedMemoryStubs[n])
    BY <1>5, <2>1 DEF Meets, P!SharedMemoryStubs, P!SharedMemoryArms
  <2> QED
    BY <1>5, <2>1, <2>2 DEF P!Stub
<1>6. CASE service = "aliasreader"
  <2>1. s.stubs = P!AliasReaderStubs /\ s.arms = P!AliasReaderArms
    BY <1>6 DEF P!Services
  <2>2. \A n \in DOMAIN P!AliasReaderStubs : Meets("aliasreader", n, P!AliasReaderStubs[n])
    BY <1>6, <2>1 DEF Meets, P!AliasReaderStubs, P!AliasReaderArms
  <2> QED
    BY <1>6, <2>1, <2>2 DEF P!Stub
<1>7. CASE service = "keystore"
  <2>1. s.stubs = P!KeystoreStubs /\ s.arms = P!KeystoreArms
    BY <1>7 DEF P!Services
  <2>2. \A n \in DOMAIN P!KeystoreStubs : Meets("keystore", n, P!KeystoreStubs[n])
    BY <1>7, <2>1 DEF Meets, P!KeystoreStubs, P!KeystoreArms
  <2> QED
    BY <1>7, <2>1, <2>2 DEF P!Stub
<1>8. CASE service = "messenger"
  <2>1. s.stubs = P!MessengerStubs /\ s.arms = P!MessengerArms
    BY <1>8 DEF P!Services
  <2>2. \A n \in DOMAIN P!MessengerStubs : Meets("messenger", n, P!MessengerStubs[n])
    BY <1>8, <2>1 DEF Meets, P!MessengerStubs, P!MessengerArms
  <2> QED
    BY <1>8, <2>1, <2>2 DEF P!Stub
<1>9. CASE service = "runtime"
  <2>1. s.stubs = P!RuntimeStubs /\ s.arms = P!RuntimeArms
    BY <1>9 DEF P!Services
  <2>2. \A n \in DOMAIN P!RuntimeStubs : Meets("runtime", n, P!RuntimeStubs[n])
    BY <1>9, <2>1 DEF Meets, P!RuntimeStubs, P!RuntimeArms
  <2> QED
    BY <1>9, <2>1, <2>2 DEF P!Stub
<1>10. CASE service = "http"
  <2>1. s.stubs = P!HttpStubs /\ s.arms = P!HttpArms
    BY <1>10 DEF P!Services
  <2>2. \A n \in DOMAIN P!HttpStubs : Meets("http", n, P!HttpStubs[n])
    BY <1>10, <2>1 DEF Meets, P!HttpStubs, P!HttpArms
  <2> QED
    BY <1>10, <2>1, <2>2 DEF P!Stub
<1> QED
  BY <1>1, <1>2, <1>3, <1>4, <1>5, <1>6, <1>7, <1>8, <1>9, <1>10, ServicesAre

LEMMA TablesAre ==
  /\ DOMAIN P!Sends = {"vm", "appsender", "validators", "database", "runtime", "http"}
  /\ DOMAIN P!Takes = {"vm", "appsender", "database", "http"}
  /\ P!Sends["vm"] = P!NodeSends /\ P!Sends["appsender"] = P!AppSenderSends
  /\ P!Sends["validators"] = P!ValidatorStateSends /\ P!Sends["runtime"] = P!RuntimeSends
  /\ P!Sends["http"] = P!HttpSends
  /\ P!Takes["appsender"] = P!AppSenderTakes /\ P!Takes["http"] = P!HttpTakes
BY DEF P!Sends, P!Takes

LEMMA VmArgumentsAgree ==
  ASSUME NEW m \in DOMAIN P!Services["vm"].stubs
  PROVE  P!Parameters(P!Sends, "vm", m) = P!Parameters(P!Takes, "vm", m)
<1> DEFINE stubs == P!Services["vm"].stubs
           all == P!Takes["vm"]
           FromFields(takes) ==
             \A n \in DOMAIN takes :
               n \in DOMAIN P!NodeSends \/ takes[n] = P!Fields("vm", stubs[n][2])
<1>1. DOMAIN P!NodeSends = {"initialize", "connected", "build_block", "block_verify"}
  BY DEF P!NodeSends
<1>2. \A n \in DOMAIN P!NodeSends : n \in DOMAIN all /\ all[n] = P!NodeSends[n]
  <2>1. /\ "initialize" \in DOMAIN all /\ all["initialize"] = P!InitializeTakes["initialize"]
        /\ "connected" \in DOMAIN all /\ all["connected"] = P!VmAppTakes["connected"]
        /\ "build_block" \in DOMAIN all /\ all["build_block"] = P!VmBlockTakes["build_block"]
        /\ "block_verify" \in DOMAIN all /\ all["block_verify"] = P!VmDecisionTakes["block_verify"]
    BY VmTakesAre DEF Within, P!InitializeTakes, P!VmAppTakes, P!VmBlockTakes, P!VmDecisionTakes
  <2>2. /\ P!InitializeTakes["initialize"] = P!NodeSends["initialize"]
        /\ P!VmAppTakes["connected"] = P!NodeSends["connected"]
        /\ P!VmBlockTakes["build_block"] = P!NodeSends["build_block"]
        /\ P!VmDecisionTakes["block_verify"] = P!NodeSends["block_verify"]
    BY DEF P!NodeSends, P!InitializeTakes, P!VmAppTakes, P!VmBlockTakes, P!VmDecisionTakes
  <2> QED
    BY <1>1, <2>1, <2>2
<1>3. FromFields(P!VmBlockTakes)
  <2>1. /\ stubs["parse_block"][2] = "ParseBlockRequest"
        /\ stubs["get_block"][2] = "GetBlockRequest"
        /\ stubs["set_state"][2] = "SetStateRequest"
        /\ stubs["set_preference"][2] = "SetPreferenceRequest"
    BY VmStubsAre DEF Within, P!VmLifeStubs, P!VmBlockStubs
  <2>2. /\ P!Fields("vm", "ParseBlockRequest") = <<"bytes">>
        /\ P!Fields("vm", "GetBlockRequest") = <<"id">>
        /\ P!Fields("vm", "SetStateRequest") = <<"state">>
        /\ P!Fields("vm", "SetPreferenceRequest") = <<"id">>
    BY VmMessagesAre DEF Within, P!Fields, P!VmLifeMessages, P!VmBlockMessages
  <2> QED
    BY <1>1, <2>1, <2>2 DEF P!VmBlockTakes
<1>4. FromFields(P!VmAppTakes)
  <2>1. /\ stubs["disconnected"][2] = "DisconnectedRequest"
        /\ stubs["app_request"][2] = "AppRequestMsg"
        /\ stubs["app_request_failed"][2] = "AppRequestFailedMsg"
        /\ stubs["app_response"][2] = "AppResponseMsg"
        /\ stubs["app_gossip"][2] = "AppGossipMsg"
    BY VmStubsAre DEF Within, P!VmLifeStubs, P!VmAppStubs
  <2>2. /\ P!Fields("vm", "DisconnectedRequest") = <<"node_id">>
        /\ P!Fields("vm", "AppRequestMsg") = <<"node_id", "request_id", "deadline", "request">>
        /\ P!Fields("vm", "AppRequestFailedMsg") = <<"node_id", "request_id">>
        /\ P!Fields("vm", "AppResponseMsg") = <<"node_id", "request_id", "response">>
        /\ P!Fields("vm", "AppGossipMsg") = <<"node_id", "msg">>
    BY VmMessagesAre DEF Within, P!Fields, P!VmAppMessages
  <2> QED
    BY <1>1, <2>1, <2>2 DEF P!VmAppTakes
<1>5. FromFields(P!VmDecisionTakes)
  <2>1. /\ stubs["block_accept"][2] = "BlockAcceptRequest"
        /\ stubs["block_reject"][2] = "BlockRejectRequest"
        /\ stubs["get_ancestors"][2] = "GetAncestorsRequest"
    BY VmStubsAre DEF Within, P!VmDecisionStubs, P!VmCrossChainStubs
  <2>2. /\ P!Fields("vm", "BlockAcceptRequest") = <<"id">>
        /\ P!Fields("vm", "BlockRejectRequest") = <<"id">>
        /\ P!Fields("vm", "GetAncestorsRequest") =
             <<"blk_id", "max_blocks_num", "max_blocks_size", "max_blocks_retrival_time">>
    BY VmMessagesAre DEF Within, P!Fields, P!VmBlockMessages, P!VmStateMessages
  <2> QED
    BY <1>1, <2>1, <2>2 DEF P!VmDecisionTakes
<1>6. FromFields(P!VmCrossChainTakes)
  <2>1. /\ stubs["cross_chain_app_request"][2] = "CrossChainAppRequestMsg"
        /\ stubs["cross_chain_app_request_failed"][2] = "CrossChainAppRequestFailedMsg"
        /\ stubs["cross_chain_app_response"][2] = "CrossChainAppResponseMsg"
    BY VmStubsAre DEF Within, P!VmCrossChainStubs
  <2>2. /\ P!Fields("vm", "CrossChainAppRequestMsg") =
             <<"chain_id", "request_id", "deadline", "request">>
        /\ P!Fields("vm", "CrossChainAppRequestFailedMsg") = <<"chain_id", "request_id">>
        /\ P!Fields("vm", "CrossChainAppResponseMsg") = <<"chain_id", "request_id", "response">>
    BY VmMessagesAre DEF Within, P!Fields, P!VmAppMessages
  <2> QED
    BY <1>1, <2>1, <2>2 DEF P!VmCrossChainTakes
<1>7. DOMAIN P!InitializeTakes = {"initialize"}
  BY DEF P!InitializeTakes
<1>8. m \notin DOMAIN P!NodeSends /\ m \in DOMAIN all => all[m] = P!Fields("vm", stubs[m][2])
  <2> HIDE DEF stubs
  <2> QED
    BY <1>1, <1>3, <1>4, <1>5, <1>6, <1>7, VmTakesAre DEF Within
<1> QED
  BY <1>2, <1>8, TablesAre DEF P!Parameters, P!Stub

LEMMA ArgumentsAgree ==
  ASSUME NEW service \in ServiceNames, NEW m \in DOMAIN P!Services[service].stubs
  PROVE  P!Parameters(P!Sends, service, m) = P!Parameters(P!Takes, service, m)
<1> DEFINE s == P!Services[service]
<1>1. CASE service = "vm"
  BY <1>1, VmArgumentsAgree
<1>2. CASE service = "database"
  <2>1. P!DatabaseSends = P!DatabaseTakes /\ P!IteratorSends = P!IteratorTakes
    BY DEF P!DatabaseSends, P!DatabaseTakes, P!IteratorSends, P!IteratorTakes
  <2>2. P!Sends["database"] = P!Takes["database"]
    BY <2>1 DEF P!Sends, P!Takes
  <2> QED
    BY <1>2, <2>2, TablesAre DEF P!Parameters
<1>3. CASE service = "appsender"
  <2>1. P!AppSenderSends = P!AppSenderTakes
    BY DEF P!AppSenderSends, P!AppSenderTakes
  <2> QED
    BY <1>3, <2>1, TablesAre DEF P!Parameters
<1>4. CASE service = "http"
  BY <1>4, TablesAre DEF P!Parameters, P!HttpSends, P!HttpTakes
<1>5. CASE service = "validators"
  <2>1. s.stubs = P!ValidatorStateStubs /\ s.messages = P!ValidatorStateMessages
    BY <1>5 DEF P!Services
  <2>2. \A n \in DOMAIN P!ValidatorStateSends :
          P!ValidatorStateSends[n] = P!Fields(service, P!ValidatorStateStubs[n][2])
    BY <2>1 DEF P!Fields, P!ValidatorStateSends, P!ValidatorStateStubs,
       P!ValidatorStateMessages
  <2> QED
    BY <1>5, <2>1, <2>2, TablesAre DEF P!Parameters, P!Stub
<1>6. CASE service = "runtime"
  <2>1. s.stubs = P!RuntimeStubs /\ s.messages = P!RuntimeMessages
    BY <1>6 DEF P!Services
  <2>2. \A n \in DOMAIN P!RuntimeSends :
          P!RuntimeSends[n] = P!Fields(service, P!RuntimeStubs[n][2])
    BY <2>1 DEF P!Fields, P!RuntimeSends, P!RuntimeStubs, P!RuntimeMessages
  <2> QED
    BY <1>6, <2>1, <2>2, TablesAre DEF P!Parameters, P!Stub
<1>7. CASE service \notin DOMAIN P!Sends
  BY <1>7, TablesAre DEF P!Parameters
<1> QED
  BY <1>1, <1>2, <1>3, <1>4, <1>5, <1>6, <1>7, ServicesAre, TablesAre

-----------------------------------------------------------------------------
(* One call: its invariant.                                                 *)

\* What was put into the fields of a message is read from them.
LEMMA WhatIsEncodedIsDecoded ==
  ASSUME NEW service, NEW type, NEW values, values = [f \in DOMAIN values |-> values[f]],
         DOMAIN values \subseteq P!FieldNames(service, type)
  PROVE  P!Decode(service, type, P!Encode(service, type, values)) = values
<1> DEFINE places == P!Fields(service, type)
           onWire == P!Encode(service, type, values)
<1>1. /\ DOMAIN onWire = {t \in DOMAIN places : places[t] \in DOMAIN values}
      /\ \A t \in DOMAIN onWire : onWire[t] = values[places[t]]
  BY DEF P!Encode
<1>2. \A f \in DOMAIN values : f # "-" /\ \E t \in DOMAIN places : places[t] = f
  BY DEF P!FieldNames
<1>3. {places[t] : t \in DOMAIN places \cap DOMAIN onWire} \ {"-"} = DOMAIN values
  BY <1>1, <1>2
<1>4. ASSUME NEW f \in DOMAIN values
      PROVE  onWire[CHOOSE t \in DOMAIN places : places[t] = f] = values[f]
  BY <1>1, <1>2
<1> HIDE DEF onWire
<1> QED
  BY <1>3, <1>4 DEF P!Decode, onWire

\* A sequence of one thing at least.
Some(r) == \E S : r \in Seq(S) /\ Len(r) \in Nat \ {0}

LEMMA FewAreSome ==
  ASSUME NEW a, NEW b, NEW c, NEW d
  PROVE  Some(<<a>>) /\ Some(<<a, b>>) /\ Some(<<a, b, c>>) /\ Some(<<a, b, c, d>>)
<1> DEFINE S == {a, b, c, d}
<1>1. /\ <<a>> \in Seq(S) /\ Len(<<a>>) \in Nat \ {0}
      /\ <<a, b>> \in Seq(S) /\ Len(<<a, b>>) \in Nat \ {0}
      /\ <<a, b, c>> \in Seq(S) /\ Len(<<a, b, c>>) \in Nat \ {0}
      /\ <<a, b, c, d>> \in Seq(S) /\ Len(<<a, b, c, d>>) \in Nat \ {0}
  OBVIOUS
<1> HIDE DEF S
<1> QED
  BY <1>1, Zenon DEF Some

LEMMA RunsAre ==
  ASSUME NEW service, NEW h
  PROVE  Some(P!Runs(service, h))
<1>1. \/ h \in DOMAIN P!VmRuns /\ P!Runs(service, h) = P!VmRuns[h]
      \/ h \in DOMAIN P!DatabaseRuns /\ P!Runs(service, h) = P!DatabaseRuns[h]
      \/ P!Runs(service, h) = <<h>>
  BY DEF P!Runs
<1>2. ASSUME NEW m \in DOMAIN P!VmRuns
      PROVE  Some(P!VmRuns[m])
  <2>1. \/ P!VmRuns[m] = <<"initialize", "last_accepted", "get_block">>
        \/ P!VmRuns[m] = <<"set_state", "last_accepted", "get_block">>
        \/ P!VmRuns[m] = <<"parse_block", "parse_block">>
        \/ P!VmRuns[m] = <<"health_check">>
        \/ P!VmRuns[m] = <<"parse_block", "verify">>
        \/ P!VmRuns[m] = <<"get_block", "accept">>
        \/ P!VmRuns[m] = <<"get_block", "reject">>
    BY DEF P!VmRuns
  <2> QED
    BY <2>1, FewAreSome
<1>3. ASSUME NEW m \in DOMAIN P!DatabaseRuns
      PROVE  Some(P!DatabaseRuns[m])
  <2>1. P!DatabaseRuns[m] = <<"new_batch", "put", "delete", "write">>
    BY DEF P!DatabaseRuns
  <2> QED
    BY <2>1, FewAreSome
<1> QED
  BY <1>1, <1>2, <1>3, FewAreSome

TheStub == P!Stub(rpc.service, rpc.method)
Meant == P!Runs(rpc.service, rpc.method)

\* What the implementation should be called with.
Asked ==
  LET sent == P!Parameters(P!Sends, rpc.service, rpc.method) IN
  [i \in DOMAIN sent |->
     IF sent[i] \in DOMAIN rpc.fields THEN rpc.fields[sent[i]] ELSE "default"]

IsCall ==
  /\ rpc.service \in ServiceNames /\ rpc.method \in DOMAIN P!Services[rpc.service].stubs
  /\ rpc.fields = [f \in DOMAIN rpc.fields |-> rpc.fields[f]]
  /\ DOMAIN rpc.fields \subseteq P!FieldNames(rpc.service, TheStub[2])
  /\ tags = P!Encode(rpc.service, TheStub[2], rpc.fields)

Answers ==
  /\ answer = "ok" => ran = Meant /\ fields = P!FieldNames(rpc.service, TheStub[3])
  /\ answer = "code" => ran # <<>>
  /\ answer = "unimplemented" =>
       /\ ran = <<>>
       /\ \/ rpc.method \in P!Unimplemented(rpc.service)
          \/ rpc.service = "vm" /\ port = "other"
  /\ answer = "not ready" => ran = <<>>

\* What was run is the first part of what should be, with the right arguments.
Progress ==
  /\ Len(ran) \in 0..Len(Meant) /\ ran = SubSeq(Meant, 1, Len(ran))
  /\ ran # <<>> => seen = Asked
  /\ \/ /\ stage = "sent" /\ answer \in {"waiting", "broken"} /\ ran = <<>>
        /\ rpc.service = "vm" => port # "none"
     \/ /\ stage = "running" /\ answer \in {"waiting", "broken"}
        /\ handler = rpc.method /\ seen = Asked /\ Len(ran) < Len(Meant)
     \/ stage = "over" /\ Answers

\* Once another process has the port the VM never has it.
CallInv ==
  /\ wired \subseteq ServiceNames
  /\ port \in {"none", "vm", "other"} /\ (life \in {"serving", "stopping"} => port = "vm")
  /\ life = "ended" => port = "none"
  /\ \/ stage = "none" /\ rpc = P!NoCall
     \/ IsCall /\ Progress

LEMMA CallInvIsEnough == CallInv => P!CallReachesItsMethod
<1> SUFFICES ASSUME CallInv PROVE P!CallReachesItsMethod
  OBVIOUS
<1>0. port = "other" => life \notin {"serving", "stopping", "ended"}
  BY DEF CallInv
<1> SUFFICES ASSUME rpc.service # "none" PROVE P!CallReachesItsMethod
  BY <1>0 DEF P!CallReachesItsMethod
<1>1. IsCall /\ Progress
  BY DEF CallInv, P!NoCall
<1>2. P!IsPrefix(ran, Meant)
  <2>1. PICK S : Meant \in Seq(S) /\ Len(Meant) \in Nat \ {0}
    BY RunsAre DEF Meant, Some
  <2>2. ran \in Seq(S) /\ Len(ran) <= Len(Meant)
    BY <1>1, <2>1 DEF Progress
  <2>3. SubSeq(ran, 1, Len(ran)) = ran
    BY <2>2
  <2> QED
    BY <1>1, <2>2, <2>3 DEF P!IsPrefix, Progress
<1>3. ran # <<>> => seen = Asked
  BY <1>1 DEF Progress
<1>4. \/ answer \in {"waiting", "broken"}
      \/ Answers
  BY <1>1 DEF Progress
<1>5. answer = "ok" => ran = Meant /\ fields = P!FieldNames(rpc.service, TheStub[3])
  BY <1>4 DEF Answers
<1>6. answer = "code" => ran # <<>>
  BY <1>4 DEF Answers
<1>7. answer = "unimplemented" =>
       /\ ran = <<>>
       /\ \/ rpc.method \in P!Unimplemented(rpc.service)
          \/ rpc.service = "vm" /\ port = "other"
  BY <1>4 DEF Answers
<1>8. answer = "not ready" => ran = <<>>
  BY <1>4 DEF Answers
<1> QED
  BY <1>0, <1>2, <1>3, <1>5, <1>6, <1>7, <1>8 DEF P!CallReachesItsMethod, Asked, Meant, TheStub

\* A request that was just filled in is one, and nothing has run of it.
LEMMA BeginIs ==
  ASSUME NEW service \in ServiceNames, NEW m \in DOMAIN P!Services[service].stubs,
         NEW filled \in P!Filled(service, m), P!Begin(service, m, filled)
  PROVE  /\ IsCall' /\ rpc'.service = service /\ rpc'.method = m
         /\ ran' = <<>> /\ Len(ran') \in 0..Len(Meant') /\ ran' = SubSeq(Meant', 1, Len(ran'))
<1> DEFINE values == [f \in filled |-> f]
           names == P!FieldNames(service, P!Stub(service, m)[2])
<1>1. filled \subseteq names
  BY DEF P!Filled
<1>2. rpc' = [service |-> service, method |-> m, fields |-> values] /\ ran' = <<>>
  BY DEF P!Begin
<1>3. tags' = P!Encode(service, P!Stub(service, m)[2], values)
  BY DEF P!Begin
<1>4. rpc'.service = service /\ rpc'.method = m /\ rpc'.fields = values
  BY <1>2
<1>5. DOMAIN values = filled /\ values = [f \in DOMAIN values |-> values[f]]
  OBVIOUS
<1>6. TheStub' = P!Stub(service, m)
  BY <1>4 DEF TheStub
<1>7. IsCall'
  <2> HIDE DEF values
  <2> QED
    BY <1>1, <1>3, <1>4, <1>5, <1>6 DEF IsCall
<1>8. PICK S : Meant' \in Seq(S) /\ Len(Meant') \in Nat \ {0}
  BY RunsAre DEF Meant, Some
<1>9. ran' = SubSeq(Meant', 1, Len(ran')) /\ Len(ran') = 0
  BY <1>2, <1>8
<1> QED
  BY <1>2, <1>4, <1>7, <1>8, <1>9

LEMMA MakeKeeps ==
  ASSUME NEW service \in ServiceNames, NEW m \in DOMAIN P!Services[service].stubs,
         NEW filled \in P!Filled(service, m), port' = port,
         P!NotReady(service, m, filled) \/ P!Sent(service, m, filled)
  PROVE  IsCall' /\ Progress'
<1>1. P!Begin(service, m, filled)
  BY DEF P!NotReady, P!Sent
<1>2. /\ IsCall' /\ rpc'.service = service /\ ran' = <<>>
      /\ Len(ran') \in 0..Len(Meant') /\ ran' = SubSeq(Meant', 1, Len(ran'))
  BY <1>1, BeginIs
<1>3. CASE P!NotReady(service, m, filled)
  <2>1. stage' = "over" /\ answer' = "not ready"
    BY <1>3 DEF P!NotReady
  <2> QED
    BY <1>2, <2>1 DEF Progress, Answers
<1>4. CASE P!Sent(service, m, filled)
  <2>1. stage' = "sent" /\ answer' = "waiting" /\ (service = "vm" => port # "none")
    BY <1>4 DEF P!Sent
  <2> QED
    BY <1>2, <2>1 DEF Progress
<1> QED
  BY <1>3, <1>4

\* The other end finds the method that was called, with the arguments it was sent.
LEMMA MethodIsFound ==
  ASSUME IsCall
  PROVE  LET arms == P!Services[rpc.service].arms IN
         /\ TheStub[1] \in DOMAIN arms
         /\ arms[TheStub[1]] = <<rpc.method, TheStub[2], TheStub[3]>>
         /\ P!Decode(rpc.service, TheStub[2], tags) = rpc.fields
         /\ P!Parameters(P!Sends, rpc.service, rpc.method)
              = P!Parameters(P!Takes, rpc.service, rpc.method)
<1>1. Meets(rpc.service, rpc.method, TheStub)
  BY StubsMeetArms DEF IsCall, TheStub
<1>2. P!Decode(rpc.service, TheStub[2], tags) = rpc.fields
  BY WhatIsEncodedIsDecoded DEF IsCall
<1> QED
  BY <1>1, <1>2, ArgumentsAgree DEF IsCall, Meets

LEMMA RouteKeeps ==
  ASSUME IsCall, Progress, port \in {"none", "vm", "other"}, P!Route
  PROVE  IsCall' /\ Progress'
<1> DEFINE service == rpc.service
           arms == P!Services[service].arms
           path == P!Stub(service, rpc.method)[1]
<1>1. /\ stage = "sent" /\ answer \in {"waiting", "broken"} /\ ran = <<>>
      /\ service = "vm" => port # "none"
  BY DEF Progress, P!Route
<1>2. /\ UNCHANGED <<port, rpc, tags, ran, fields>>
      /\ IF path \in DOMAIN arms /\ ~(service = "vm" /\ port # "vm")
         THEN P!Handle(service, arms[path][1], arms[path][2]) ELSE P!Refuse
  BY DEF P!Route, P!process
<1>3. IsCall'
  BY <1>2 DEF IsCall, TheStub
<1>4. Len(ran') \in 0..Len(Meant') /\ ran' = SubSeq(Meant', 1, Len(ran'))
  BY <1>2 DEF Progress, Meant
<1>5. path = TheStub[1]
  BY DEF TheStub
<1>6. /\ path \in DOMAIN arms /\ arms[path][1] = rpc.method /\ arms[path][2] = TheStub[2]
  BY <1>5, MethodIsFound
<1>7. CASE service = "vm" /\ port # "vm"
  <2>1. stage' = "over" /\ answer' \in {"unimplemented", "broken"}
    BY <1>1, <1>2, <1>7 DEF P!Refuse, P!Finish
  <2>2. rpc'.service = "vm" /\ port' = "other" /\ ran' = <<>>
    BY <1>1, <1>2, <1>7
  <2> QED
    BY <1>3, <1>4, <2>1, <2>2 DEF Progress, Answers
<1>8. CASE ~(service = "vm" /\ port # "vm")
  <2>1. P!Handle(service, rpc.method, TheStub[2])
    BY <1>2, <1>6, <1>8
  <2>2. CASE rpc.method \in P!Unimplemented(service) /\ P!Finish("unimplemented")
    <3>1. stage' = "over" /\ answer' \in {"unimplemented", "broken"} /\ ran' = <<>>
      BY <1>1, <1>2, <2>2 DEF P!Finish
    <3>2. rpc'.method \in P!Unimplemented(rpc'.service)
      BY <1>2, <2>2
    <3> QED
      BY <1>3, <1>4, <3>1, <3>2 DEF Progress, Answers
  <2>3. CASE P!Finish("error")
    <3>1. stage' = "over" /\ answer' \in {"error", "broken"} /\ ran' = <<>>
      BY <1>1, <1>2, <2>3 DEF P!Finish
    <3> QED
      BY <1>3, <1>4, <3>1 DEF Progress, Answers
  <2>4. CASE stage' = "running" /\ UNCHANGED answer
    <3> DEFINE taken == P!Parameters(P!Takes, service, rpc.method)
               values == P!Decode(service, TheStub[2], tags)
    <3>1. stage' # "over"
      BY <2>4
    <3>2. /\ handler' = rpc.method
          /\ seen' = [i \in DOMAIN taken |->
                        IF taken[i] \in DOMAIN values THEN values[taken[i]] ELSE "default"]
      BY <2>1, <3>1 DEF P!Handle, P!Finish
    <3>3. seen' = Asked'
      BY <1>2, <3>2, MethodIsFound DEF Asked
    <3>4. handler' = rpc'.method /\ answer' \in {"waiting", "broken"} /\ Len(ran') < Len(Meant')
      <4>1. Len(ran') = 0 /\ Len(Meant') \in Nat \ {0}
        BY <1>1, <1>2, RunsAre DEF Meant, Some
      <4> QED
        BY <1>1, <1>2, <2>4, <3>2, <4>1
    <3> QED
      BY <1>3, <1>4, <2>4, <3>3, <3>4 DEF Progress
  <2> QED
    BY <2>1, <2>2, <2>3, <2>4 DEF P!Handle
<1> QED
  BY <1>7, <1>8

\* One more of the methods was called.
LEMMA RunKeeps ==
  ASSUME IsCall, Progress, P!Run
  PROVE  IsCall' /\ Progress' /\ UNCHANGED <<life, port>>
<1> DEFINE service == rpc.service
           arm == P!Services[service].arms[P!Stub(service, rpc.method)[1]]
           runs == P!Runs(service, handler)
<1>1. /\ stage = "running" /\ answer \in {"waiting", "broken"} /\ handler = rpc.method
      /\ seen = Asked /\ Len(ran) \in 0..Len(Meant) /\ Len(ran) < Len(Meant)
      /\ ran = SubSeq(Meant, 1, Len(ran))
  BY DEF Progress, P!Run
<1>2. UNCHANGED <<life, port, rpc, tags, handler, seen>> /\ ran' = Append(ran, runs[Len(ran) + 1])
  BY DEF P!Run
<1>3. runs = Meant
  BY <1>1 DEF Meant
<1>4. IsCall' /\ Meant' = Meant /\ Asked' = Asked /\ TheStub' = TheStub
  BY <1>2 DEF IsCall, Meant, Asked, TheStub
<1>5. /\ Len(ran') \in 0..Len(Meant') /\ ran' = SubSeq(Meant', 1, Len(ran')) /\ ran' # <<>>
      /\ Len(ran') = Len(Meant) => ran' = Meant'
  <2>1. PICK S : Meant \in Seq(S) /\ Len(Meant) \in Nat \ {0}
    BY RunsAre DEF Meant, Some
  <2>2. ran \in Seq(S) /\ ran' = Append(ran, Meant[Len(ran) + 1]) /\ Meant[Len(ran) + 1] \in S
    BY <1>1, <1>2, <1>3, <2>1
  <2>3. ran' \in Seq(S) /\ Len(ran') = Len(ran) + 1
    BY <2>2
  <2>4. \A i \in 1..Len(ran') : ran'[i] = Meant[i]
    BY <1>1, <2>1, <2>2
  <2>5. SubSeq(Meant, 1, Len(ran')) \in Seq(S) /\ Len(SubSeq(Meant, 1, Len(ran'))) = Len(ran')
    BY <1>1, <2>1, <2>3
  <2>6. \A i \in 1..Len(ran') : SubSeq(Meant, 1, Len(ran'))[i] = Meant[i]
    BY <1>1, <2>1, <2>3
  <2>7. ran' = SubSeq(Meant, 1, Len(ran'))
    BY <2>3, <2>4, <2>5, <2>6
  <2>8. Len(ran') = Len(Meant) => SubSeq(Meant, 1, Len(ran')) = Meant
    BY <2>1
  <2> QED
    BY <1>1, <1>4, <2>3, <2>7, <2>8
<1>6. CASE P!Finish(P!Failure(service, handler))
  <2>1. stage' = "over" /\ answer' \in {"code", "error", "broken"}
    BY <1>1, <1>6 DEF P!Finish, P!Failure
  <2> QED
    BY <1>1, <1>2, <1>4, <1>5, <2>1 DEF Progress, Answers
<1>7. CASE Len(ran') < Len(runs) /\ UNCHANGED <<stage, answer>>
  <2>1. Len(ran') < Len(Meant')
    BY <1>3, <1>4, <1>7
  <2> QED
    BY <1>1, <1>2, <1>4, <1>5, <1>7, <2>1 DEF Progress
<1>8. CASE Len(ran') = Len(runs) /\ P!Finish("ok") /\ fields' = P!Replied(service, arm[3], handler)
  <2>1. stage' = "over" /\ answer' \in {"ok", "broken"}
    BY <1>1, <1>8 DEF P!Finish
  <2>2. arm[3] = TheStub[3]
    BY MethodIsFound DEF TheStub
  <2>3. fields' = P!FieldNames(service, TheStub[3])
    <3> DEFINE names == P!FieldNames(service, TheStub[3])
               values == [f \in names |-> handler]
    <3>1. DOMAIN values = names /\ values = [f \in DOMAIN values |-> values[f]]
      OBVIOUS
    <3>2. P!Replied(service, TheStub[3], handler)
            = DOMAIN P!Decode(service, TheStub[3], P!Encode(service, TheStub[3], values))
      BY DEF P!Replied, TheStub
    <3> HIDE DEF values
    <3>3. P!Decode(service, TheStub[3], P!Encode(service, TheStub[3], values)) = values
      BY <3>1, WhatIsEncodedIsDecoded
    <3> QED
      BY <1>8, <2>2, <3>1, <3>2, <3>3
  <2>4. ran' = Meant' /\ fields' = P!FieldNames(rpc'.service, TheStub'[3])
    BY <1>2, <1>3, <1>4, <1>5, <1>8, <2>3
  <2> QED
    BY <1>1, <1>2, <1>4, <1>5, <2>1, <2>4 DEF Progress, Answers
<1>9. CASE P!Finish("error")
  <2>1. stage' = "over" /\ answer' \in {"error", "broken"}
    BY <1>1, <1>9 DEF P!Finish
  <2> QED
    BY <1>1, <1>2, <1>4, <1>5, <2>1 DEF Progress, Answers
<1> QED
  BY <1>2, <1>6, <1>7, <1>8, <1>9 DEF P!Run

LEMMA BreakKeeps ==
  ASSUME IsCall, Progress, P!Break
  PROVE  IsCall' /\ Progress'
<1>1. /\ answer' = "broken" /\ stage' \in {stage, "over"} /\ stage \in {"sent", "running"}
      /\ UNCHANGED <<port, rpc, tags, handler, seen, ran, fields>>
  BY DEF P!Break, P!process
<1>2. IsCall' /\ Meant' = Meant /\ Asked' = Asked
  BY <1>1 DEF IsCall, Meant, Asked, TheStub
<1> QED
  BY <1>1, <1>2 DEF Progress, Answers

\* The process goes on and the call does not.
LEMMA ProcessKeeps ==
  ASSUME IsCall, Progress, UNCHANGED P!theCall,
         port = "other" => port' = "other",
         port # "none" /\ port' = "none" => ~(rpc.service = "vm" /\ stage \in {"sent", "running"})
  PROVE  IsCall' /\ Progress'
<1>1. UNCHANGED <<rpc, stage, tags, handler, seen, ran, answer, fields>>
  BY DEF P!theCall
<1>2. IsCall' /\ Meant' = Meant /\ Asked' = Asked /\ TheStub' = TheStub
  BY <1>1 DEF IsCall, Meant, Asked, TheStub
<1> QED
  BY <1>1, <1>2 DEF Progress, Answers
\* Every step of the process and of its calls.
LEMMA CallSteps ==
  CallInv /\ [P!Next]_processVars => CallInv'
<1> SUFFICES ASSUME CallInv, [P!Next]_processVars PROVE CallInv'
  OBVIOUS
<1> DEFINE Same == UNCHANGED <<port, life, wired>>
           Ports == port' \in {"none", "vm", "other"} /\ (life' \in {"serving", "stopping"} => port' = "vm")
<1>1. /\ wired \subseteq ServiceNames /\ port \in {"none", "vm", "other"}
      /\ life \in {"serving", "stopping"} => port = "vm"
      /\ life = "ended" => port = "none"
      /\ (stage = "none" /\ rpc = P!NoCall) \/ (IsCall /\ Progress)
  BY DEF CallInv
<1>2. CASE UNCHANGED processVars
  <2>1. UNCHANGED <<life, port, wired, rpc>> /\ UNCHANGED P!theCall
    BY <1>2 DEF processVars, P!theCall
  <2>2. stage' = stage
    BY <1>2 DEF processVars
  <2> QED
    BY <1>1, <2>1, <2>2, ProcessKeeps DEF CallInv
<1>3. CASE P!Route
  <2>1. UNCHANGED <<life, port, wired>> /\ stage = "sent"
    BY <1>3 DEF P!Route, P!process
  <2> QED
    BY <1>1, <1>3, <2>1, RouteKeeps DEF CallInv
<1>4. CASE P!Run
  <2>1. stage = "running"
    BY <1>4 DEF P!Run
  <2>2. IsCall' /\ Progress' /\ UNCHANGED <<life, port>>
    BY <1>1, <1>4, <2>1, RunKeeps
  <2>3. wired' \subseteq ServiceNames
    BY <1>1, <1>4, ServicesAre DEF P!Run, P!Effect, P!NodeServices
  <2> QED
    BY <1>1, <2>2, <2>3 DEF CallInv
<1>5. CASE P!Break
  <2>1. UNCHANGED <<life, port, wired>> /\ stage \in {"sent", "running"}
    BY <1>5 DEF P!Break, P!process
  <2> QED
    BY <1>1, <1>5, <2>1, BreakKeeps DEF CallInv
<1>6. CASE P!Return
  <2>1. UNCHANGED <<life, port, wired>> /\ stage' = "none" /\ rpc' = P!NoCall
    BY <1>6 DEF P!Return, P!process
  <2> QED
    BY <1>1, <2>1 DEF CallInv
<1>7. CASE \E service \in wired : \E m \in DOMAIN P!Services[service].stubs :
             \E filled \in P!Filled(service, m) : P!Call(service, m, filled)
  <2>1. PICK service \in wired : \E m \in DOMAIN P!Services[service].stubs :
               \E filled \in P!Filled(service, m) : P!Call(service, m, filled)
    BY <1>7
  <2>2. PICK m \in DOMAIN P!Services[service].stubs :
               \E filled \in P!Filled(service, m) : P!Call(service, m, filled)
    BY <2>1
  <2>3. PICK filled \in P!Filled(service, m) : P!Call(service, m, filled)
    BY <2>2
  <2>4. /\ UNCHANGED <<life, port, wired>> /\ service \in ServiceNames
        /\ P!NotReady(service, m, filled) \/ P!Sent(service, m, filled)
    BY <1>1, <2>3 DEF P!Call, P!process
  <2> QED
    BY <1>1, <2>4, MakeKeeps DEF CallInv
<1>8. CASE P!Tell
  <2>1. PICK filled \in P!Filled("runtime", "initialize") :
              \/ P!NotReady("runtime", "initialize", filled)
              \/ P!Sent("runtime", "initialize", filled)
    BY <1>8 DEF P!Tell
  <2>2. "initialize" \in DOMAIN P!Services["runtime"].stubs /\ "runtime" \in ServiceNames
    BY ServicesAre DEF P!Services, P!RuntimeStubs
  <2>3. UNCHANGED <<port, wired>> /\ life' = "telling"
    BY <1>8 DEF P!Tell
  <2>4. IsCall' /\ Progress'
    BY <2>1, <2>2, <2>3, MakeKeeps
  <2> QED
    BY <1>1, <2>3, <2>4 DEF CallInv
<1>9. CASE P!ReadEnv \/ P!Dial \/ P!Told \/ P!Bind \/ P!HearStop \/ P!End \/ P!SendStop \/ P!Take
  <2>1. UNCHANGED P!theCall /\ wired' = wired
    BY <1>9 DEF P!ReadEnv, P!Dial, P!Told, P!Bind, P!HearStop, P!End, P!SendStop, P!Take, P!GoOn,
       P!Fail
  <2>2. /\ port' \in {"none", "vm", "other"} /\ (life' \in {"serving", "stopping"} => port' = "vm")
        /\ life' = "ended" => port' = "none"
    BY <1>1, <1>9 DEF P!ReadEnv, P!Dial, P!Told, P!Bind, P!HearStop, P!End, P!SendStop, P!Take,
       P!GoOn, P!Fail
  <2>3. port = "other" => port' = "other"
    BY <1>1, <1>9 DEF P!ReadEnv, P!Dial, P!Told, P!Bind, P!HearStop, P!End, P!SendStop, P!Take,
       P!GoOn, P!Fail
  <2>4. port # "none" /\ port' = "none" => ~(rpc.service = "vm" /\ stage \in {"sent", "running"})
    BY <1>1, <1>9 DEF P!ReadEnv, P!Dial, P!Told, P!Bind, P!HearStop, P!End, P!SendStop, P!Take,
       P!GoOn, P!Fail
  <2>5. stage' = stage /\ rpc' = rpc
    BY <2>1 DEF P!theCall
  <2> QED
    BY <1>1, <2>1, <2>2, <2>3, <2>4, <2>5, ProcessKeeps DEF CallInv
<1> QED
  BY <1>2, <1>3, <1>4, <1>5, <1>6, <1>7, <1>8, <1>9 DEF P!Next, P!Proceed

\* A call that is answered has run the method it is of, with the arguments the
\* caller gave, once, and its reply can be read; one that is told there is no such
\* method, or no connection, has run nothing; and a VM whose port was taken does not
\* serve: for every method of the ten services and any course of the process
\* (proto/pb/*.tonic.rs, subnet/rpc).
THEOREM CallsReachTheirMethods == MCSpec => []CallReachesItsMethod
<1>1. MCInit => CallInv
  BY DEF MCInit, P!Init, CallInv
<1>2. CallInv /\ [MCNext]_allVars => CallInv'
  <2> SUFFICES ASSUME CallInv, [MCNext]_allVars PROVE [P!Next]_processVars
    BY CallSteps
  <2> QED
    BY DEF MCNext, allVars
<1>3. CallInv => CallReachesItsMethod
  BY CallInvIsEnough DEF CallReachesItsMethod
<1> QED
  BY <1>1, <1>2, <1>3, PTL DEF MCSpec
=============================================================================
