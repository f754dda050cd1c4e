------------------------------- MODULE Packer -------------------------------
(***************************************************************************)
(* The packer: values are put one after the other into a byte string and   *)
(* read back in the same order.  One packer writes, its bytes travel and   *)
(* may be cut short on the way, and another one reads them.                *)
(*                                                                         *)
(* A byte is a digit, 0..Base-1, and a number a fixed number of digits,    *)
(* the first the highest.  The widths are constants, so that the widest    *)
(* str and the length that no longer fits in a u16 are within reach.       *)
(***************************************************************************)
EXTENDS Integers, Sequences, SequencesExt

CONSTANTS
  Base,                              \* values of a byte, 256 in the code; more than one
  U16_LEN, U32_LEN, U64_LEN,         \* widths of numbers, in bytes
  IdLen, AddrLen,                    \* of an Id and of an address
  V4_LEN, IP_ADDR_LEN,               \* of an IPv4 address, and of any packed one
  Sizes,                             \* max_size of the packer that writes
  Loads,                             \* what load_bytes_for_pack starts from
  Items, MaxItems                    \* what is packed, and how many of them

VARIABLES
  packer,    \* the packer that writes: max_size, header, how long it was made,
             \* bytes, offset, and whether no call has failed so far
  packed,    \* what was packed
  wire,      \* the bytes that arrived
  cut,       \* some are missing at the end
  offset,    \* of the packer that reads
  unpacked,  \* what it has read
  stage      \* "packing", "reading", "done", and "failed" once a call fails

vars == <<packer, packed, wire, cut, offset, unpacked, stage>>

-----------------------------------------------------------------------------
(* Numbers.                                                                *)

\* How many numbers fit in w bytes.
Limit[w \in Nat] == IF w = 0 THEN 1 ELSE Base * Limit[w - 1]
Number(w) == 0..(Limit[w] - 1)
Byte == Number(1)

MAX_STR_LEN == Limit[U16_LEN] - 2

\* v as w bytes, the highest first; what does not fit is dropped as "as" does.
Digits(v, w) == [i \in 1..w |-> (v \div Limit[w - i]) % Base]

Value(bytes) == FoldLeft(LAMBDA v, d : v * Base + d, 0, bytes)

-----------------------------------------------------------------------------
(* The types of what is packed.                                            *)

ByteString(n) == {v \in Seq(Byte) : Len(v) = n}

\* As many as a number of w bytes can tell.
Counted(S, w) == {v \in Seq(S) : Len(v) \in Number(w)}
WithLen == Counted(Byte, U32_LEN)

\* Sixteen bytes that begin as an IPv4 address does are one.
V6_ONLY == IP_ADDR_LEN - V4_LEN
IsV4(a) == (\A i \in 1..V6_ONLY : a[i] = 0) /\ a[V6_ONLY + 1] > 0

Ip ==
  [addr : {a \in ByteString(V4_LEN) : a[1] > 0} \union {a \in ByteString(IP_ADDR_LEN) : ~IsV4(a)},
   port : Number(U16_LEN)]

OutputOwners ==
  [locktime : Number(U64_LEN), threshold : Number(U32_LEN),
   addresses : Counted(ByteString(AddrLen), U32_LEN)]

Utxo ==
  [tx_id : ByteString(IdLen), output_index : Number(U32_LEN), asset_id : ByteString(IdLen),
   lock : {lock \in Seq(Number(U64_LEN)) : Len(lock) <= 1}, amount : Number(U64_LEN),
   owners : OutputOwners]

Vertex ==
  [codec_version : Number(U16_LEN), chain_id : ByteString(IdLen), height : Number(U64_LEN),
   epoch : Number(U32_LEN), parent_ids : Counted(ByteString(IdLen), U32_LEN),
   txs : Counted(WithLen, U32_LEN)]

Kinds ==
  {"byte", "u16", "u32", "u64", "bool", "bytes", "bytes_with_header", "2d_bytes",
   "2d_bytes_with_header", "str", "ips", "utxo", "vertex"}

\* The values of a kind.  The byte strings of a 2d_bytes are of one length, which
\* the reader knows.
ValuesOf(kind) ==
  CASE kind = "byte" -> Byte
    [] kind = "u16" -> Number(U16_LEN)
    [] kind = "u32" -> Number(U32_LEN)
    [] kind = "u64" -> Number(U64_LEN)
    [] kind = "bool" -> BOOLEAN
    [] kind = "bytes" -> Seq(Byte)
    [] kind = "bytes_with_header" -> WithLen
    [] kind = "2d_bytes" ->
         {v \in Counted(Seq(Byte), U32_LEN) : v # <<>> /\ v \in Seq(ByteString(Len(v[1])))}
    [] kind = "2d_bytes_with_header" -> Counted(WithLen, U32_LEN)
    [] kind = "str" -> Counted(Byte, U16_LEN)
    [] kind = "ips" -> Counted(Ip, U32_LEN)
    [] kind = "utxo" -> Utxo
    [] kind = "vertex" -> Vertex

-----------------------------------------------------------------------------
(* Writing.                                                                *)

\* Mutant: what is already there is not counted.
expand_FromStart(p, n) == n <= Len(p.bytes) \/ n <= p.max_size

\* Whether n more bytes are let in.
expand(p, n) == p.offset + n <= Len(p.bytes) \/ p.offset + n <= p.max_size

Put(p, v) ==
  IF p.ok /\ expand(p, Len(v))
  THEN [p EXCEPT !.bytes = @ \o v, !.offset = @ + Len(v)]
  ELSE [p EXCEPT !.ok = FALSE]

WithHeader(v) == <<Digits(Len(v), U32_LEN), v>>

\* IPv4 addresses are filled up with zeroes, and not as in Rust.
ip_bytes(ip) == [i \in 1..(IP_ADDR_LEN - Len(ip)) |-> 0] \o ip
pack_ip(ip) == <<ip_bytes(ip.addr), Digits(ip.port, U16_LEN)>>

owners_parts(o) ==
  <<Digits(o.locktime, U64_LEN), Digits(o.threshold, U32_LEN),
    Digits(Len(o.addresses), U32_LEN)>> \o o.addresses

pack_utxo(u) ==
  <<Digits(0, U16_LEN), u.tx_id, Digits(u.output_index, U32_LEN), u.asset_id>>
  \o (IF u.lock = <<>> THEN <<>> ELSE <<Digits(22, U32_LEN), Digits(u.lock[1], U64_LEN)>>)
  \o <<Digits(7, U32_LEN), Digits(u.amount, U64_LEN)>> \o owners_parts(u.owners)

\* s in the order of key.
Ascending(s, key(_)) ==
  LET Orders == {[i \in DOMAIN s |-> s[p[i]]] : p \in Bijection(DOMAIN s, DOMAIN s)} IN
  CHOOSE t \in Orders : \A i, j \in DOMAIN s : i < j => key(t[i]) <= key(t[j])

\* Both lists are sorted before, which changes the vertex.  Raw data sort by
\* their hash, for which their length stands here.
Sorted(vtx) ==
  [vtx EXCEPT !.parent_ids = Ascending(@, Value),
              !.txs = Ascending(@, LAMBDA data : 0 - Len(data))]

Ready(item) == IF item[1] = "vertex" THEN <<"vertex", Sorted(item[2])>> ELSE item

pack_vertex(vtx) ==
  <<Digits(vtx.codec_version, U16_LEN), vtx.chain_id, Digits(vtx.height, U64_LEN),
    Digits(vtx.epoch, U32_LEN), Digits(Len(vtx.parent_ids), U32_LEN)>>
  \o vtx.parent_ids
  \o <<Digits(Len(vtx.txs), U32_LEN)>> \o FlattenSeq([i \in DOMAIN vtx.txs |-> WithHeader(vtx.txs[i])])

Each(part(_), s) == FlattenSeq([i \in DOMAIN s |-> part(s[i])])

\* What is put for a value, in order.
Parts(item) ==
  LET v == item[2] IN
  CASE item[1] = "byte" -> <<Digits(v, 1)>>
    [] item[1] = "u16" -> <<Digits(v, U16_LEN)>>
    [] item[1] = "u32" -> <<Digits(v, U32_LEN)>>
    [] item[1] = "u64" -> <<Digits(v, U64_LEN)>>
    [] item[1] = "bool" -> <<Digits(IF v THEN 1 ELSE 0, 1)>>
    [] item[1] = "bytes" -> <<v>>
    [] item[1] = "bytes_with_header" -> WithHeader(v)
    [] item[1] = "2d_bytes" -> <<Digits(Len(v), U32_LEN)>> \o v
    [] item[1] = "2d_bytes_with_header" -> <<Digits(Len(v), U32_LEN)>> \o Each(WithHeader, v)
    [] item[1] = "str" -> <<Digits(Len(v), U16_LEN), v>>
    [] item[1] = "ips" -> <<Digits(Len(v), U32_LEN)>> \o Each(pack_ip, v)
    [] item[1] = "utxo" -> pack_utxo(v)
    [] item[1] = "vertex" -> pack_vertex(v)

\* The length is cut to 16 bits and then compared.
TooLong(item) == item[1] = "str" /\ Len(item[2]) % Limit[U16_LEN] > MAX_STR_LEN

Pack(item) ==
  /\ stage = "packing" /\ Len(packed) < MaxItems
  /\ LET p == FoldLeft(Put, packer, Parts(Ready(item))) IN
     IF ~TooLong(item) /\ p.ok
     THEN packer' = p /\ packed' = Append(packed, Ready(item)) /\ UNCHANGED stage
     ELSE /\ packer' = IF TooLong(item) THEN packer ELSE p
          /\ stage' = "failed" /\ UNCHANGED packed
  /\ UNCHANGED <<wire, cut, offset, unpacked>>

\* The header becomes the number of bytes after it.
take_bytes(p) ==
  IF p.header
  THEN Digits(Len(p.bytes) - U32_LEN, U32_LEN) \o SubSeq(p.bytes, U32_LEN + 1, Len(p.bytes))
  ELSE p.bytes

\* As sign does between two parts of a transaction: the bytes are taken, used,
\* and set again; the offset stays.
TakeAndSet ==
  /\ stage = "packing" /\ packer.header
  /\ packer' = [packer EXCEPT !.bytes = take_bytes(packer)]
  /\ UNCHANGED <<packed, wire, cut, offset, unpacked, stage>>

\* The bytes are taken and sent; some may not arrive.
Send ==
  /\ stage = "packing"
  /\ LET bytes == take_bytes(packer) IN
     /\ \E n \in 0..Len(bytes) : wire' = SubSeq(bytes, 1, n) /\ cut' = (n < Len(bytes))
     /\ packed' = IF packer.header
                  THEN <<<<"u32", Len(bytes) - U32_LEN>>>> \o packed ELSE packed
  /\ stage' = "reading"
  /\ UNCHANGED <<packer, offset, unpacked>>

-----------------------------------------------------------------------------
(* Reading: each operator gives whether it succeeded, the value, and the   *)
(* offset after it.                                                        *)

\* n bytes, if there are as many.
unpack_bytes(at, n) ==
  IF at + n <= Len(wire)
  THEN [ok |-> TRUE, v |-> SubSeq(wire, at + 1, at + n), at |-> at + n]
  ELSE [ok |-> FALSE, v |-> <<>>, at |-> at]

AsNumber(r) == [r EXCEPT !.v = Value(@)]
unpack_number(at, w) == AsNumber(unpack_bytes(at, w))

AsBool(r) == [r EXCEPT !.ok = @ /\ r.v \in {0, 1}, !.v = (r.v = 1)]
unpack_bool(at) == AsBool(unpack_number(at, 1))

AsManyBytes(n) == IF n.ok THEN unpack_bytes(n.at, n.v) ELSE n
unpack_bytes_with_header(at) == AsManyBytes(unpack_number(at, U32_LEN))
unpack_str(at) == AsManyBytes(unpack_number(at, U16_LEN))

WithPort(a, port) ==
  IF ~a.ok THEN a
  ELSE [port EXCEPT !.v = [port |-> @,
          addr |-> IF IsV4(a.v) THEN SubSeq(a.v, V6_ONLY + 1, IP_ADDR_LEN) ELSE a.v]]
unpack_ip(at) == WithPort(unpack_bytes(at, IP_ADDR_LEN), unpack_number(at + IP_ADDR_LEN, U16_LEN))

\* As many as a number says, one after the other.
Add(r, e) == [ok |-> e.ok, v |-> Append(r.v, e.v), at |-> e.at]
Repeat(n, elem(_)) ==
  IF n.ok THEN FoldLeft(LAMBDA r, i : IF r.ok THEN Add(r, elem(r.at)) ELSE r,
                        [n EXCEPT !.v = <<>>], [i \in 1..n.v |-> i])
  ELSE n
List(at, elem(_)) == Repeat(unpack_number(at, U32_LEN), elem)

\* One value of a kind; of bytes the reader knows how many there are.
Unpack(kind, n, at) ==
  CASE kind = "byte" -> unpack_number(at, 1)
    [] kind = "u16" -> unpack_number(at, U16_LEN)
    [] kind = "u32" -> unpack_number(at, U32_LEN)
    [] kind = "u64" -> unpack_number(at, U64_LEN)
    [] kind = "bool" -> unpack_bool(at)
    [] kind = "bytes" -> unpack_bytes(at, n)
    [] kind = "bytes_with_header" -> unpack_bytes_with_header(at)
    [] kind = "2d_bytes" -> List(at, LAMBDA a : unpack_bytes(a, n))
    [] kind = "2d_bytes_with_header" -> List(at, unpack_bytes_with_header)
    [] kind = "str" -> unpack_str(at)
    [] kind = "ips" -> List(at, unpack_ip)

\* Several fields, each a kind and the length of its bytes.
Fields(at, kinds) ==
  FoldLeft(LAMBDA r, k : IF r.ok THEN Add(r, Unpack(k[1], k[2], r.at)) ELSE r,
           [ok |-> TRUE, v |-> <<>>, at |-> at], kinds)

AsVertex(r) ==
  IF ~r.ok THEN r
  ELSE [r EXCEPT !.v = [codec_version |-> @[1], chain_id |-> @[2], height |-> @[3],
                        epoch |-> @[4], parent_ids |-> @[5], txs |-> @[6]]]

unpack_vertex(at) ==
  AsVertex(Fields(at, <<<<"u16", 0>>, <<"bytes", IdLen>>, <<"u64", 0>>, <<"u32", 0>>,
                        <<"2d_bytes", IdLen>>, <<"2d_bytes_with_header", 0>>>>))

\* A locked output has a locktime of its own and the type of the output within.
utxo_fields(locked) ==
  <<<<"u16", 0>>, <<"bytes", IdLen>>, <<"u32", 0>>, <<"bytes", IdLen>>, <<"u32", 0>>>>
  \o (IF locked THEN <<<<"u64", 0>>, <<"u32", 0>>>> ELSE <<>>)
  \o <<<<"u64", 0>>, <<"u64", 0>>, <<"u32", 0>>, <<"2d_bytes", AddrLen>>>>

utxo_of(v, locked) ==
  LET n == Len(v) IN
  [tx_id |-> v[2], output_index |-> v[3], asset_id |-> v[4],
   lock |-> IF locked THEN <<v[6]>> ELSE <<>>, amount |-> v[n - 3],
   owners |-> [locktime |-> v[n - 2], threshold |-> v[n - 1], addresses |-> v[n]]]

AsUtxo(type, r) ==
  IF ~r.ok \/ type \notin {7, 22} THEN [r EXCEPT !.ok = FALSE]
  ELSE [r EXCEPT !.v = utxo_of(@, type = 22)]

\* The type after the ids tells whether the output is locked.
unpack_utxo_of(type, at) == AsUtxo(type, Fields(at, utxo_fields(type = 22)))
unpack_utxo(at) ==
  unpack_utxo_of(unpack_number(at + U16_LEN + 2 * IdLen + U32_LEN, U32_LEN).v, at)

\* The reader expects what was packed, and knows the lengths of fixed bytes.
UnpackLike(item, at) ==
  CASE item[1] = "utxo" -> unpack_utxo(at)
    [] item[1] = "vertex" -> unpack_vertex(at)
    [] item[1] = "bytes" -> Unpack("bytes", Len(item[2]), at)
    [] item[1] = "2d_bytes" -> Unpack("2d_bytes", Len(item[2][1]), at)
    [] OTHER -> Unpack(item[1], 0, at)

Read(item, r) ==
  /\ offset' = r.at
  /\ IF r.ok THEN unpacked' = Append(unpacked, <<item[1], r.v>>) /\ UNCHANGED stage
     ELSE stage' = "failed" /\ UNCHANGED unpacked

UnpackNext ==
  /\ stage = "reading" /\ Len(unpacked) < Len(packed)
  /\ LET item == packed[Len(unpacked) + 1] IN Read(item, UnpackLike(item, offset))
  /\ UNCHANGED <<packer, packed, wire, cut>>

AllRead ==
  /\ stage = "reading" /\ Len(unpacked) = Len(packed) /\ stage' = "done"
  /\ UNCHANGED <<packer, packed, wire, cut, offset, unpacked>>

-----------------------------------------------------------------------------
New(max_size, header, bytes) ==
  [max_size |-> max_size, header |-> header, made |-> Len(bytes),
   bytes |-> bytes, offset |-> Len(bytes), ok |-> TRUE]

Init ==
  /\ \E n \in Sizes :
       \/ packer = New(n, FALSE, <<>>) /\ packed = <<>>
       \/ packer = New(n, TRUE, [i \in 1..U32_LEN |-> 0]) /\ packed = <<>>
       \/ \E b \in Loads : packer = New(n, FALSE, b) /\ packed = <<<<"bytes", b>>>>
  /\ wire = <<>> /\ cut = FALSE /\ offset = 0 /\ unpacked = <<>> /\ stage = "packing"

Next == (\E item \in Items : Pack(item)) \/ TakeAndSet \/ Send \/ UnpackNext \/ AllRead

Spec == Init /\ [][Next]_vars

-----------------------------------------------------------------------------
\* What is read is what was packed, value for value; reading fails only where
\* bytes are missing, and leaves none when all is read.
UnpackedIsPacked ==
  /\ IsPrefix(unpacked, packed)
  /\ stage = "failed" /\ wire # <<>> => cut
  /\ stage = "done" => offset = Len(wire)
=============================================================================
