------------------------------- MODULE Texts --------------------------------
(***************************************************************************)
(* Values as texts: ids, addresses and keys (ids, formatting,              *)
(* key/secp256k1), and what JSON fields hold (codec/serde, txs/utxo.rs).   *)
(* Values are written, the texts copied, perhaps with damage, and read,    *)
(* maybe by the reader of another kind of value.                           *)
(*                                                                         *)
(* A text is its prefix and what it encodes, with blanks around it or not. *)
(* An encoding with a checksum has one more, last, element.  The lengths   *)
(* are scaled: 32 bytes to ID_LEN, 20 bytes to ADDR_LEN, four bytes of     *)
(* checksum to one element.                                                *)
(***************************************************************************)
EXTENDS Naturals, Sequences, SequencesExt

CONSTANTS
  Bytes,      \* what bytes are made of
  MaxTexts,   \* bound: texts of a list
  MaxDamages  \* bound: changes to the texts of a list

VARIABLES
  texts,    \* what was written, each with the value and what became of it
  damages,  \* how many there were
  missing,  \* whether the field is null instead
  got       \* what was read

vars == <<texts, damages, missing, got>>

ID_LEN == 3
ADDR_LEN == 2
U64_DIGITS == 2
U256_DIGITS == 3
HTTP_PORT == 1

-----------------------------------------------------------------------------
(* Codes.                                                                  *)

Checked(code) == code \in {"cb58", "bech32", "checked hex"}

SumOf(bytes) == FoldLeft(LAMBDA sum, b : 10 * sum + b, 10, bytes)

\* encode_cb58_with_checksum_string, encode_hex_with_checksum, bech32::encode.
Encode(code, bytes) == IF Checked(code) THEN Append(bytes, SumOf(bytes)) ELSE bytes

\* Mutant: without the comparison of the checksums.
Decode_Unchecked(code, bytes) ==
  IF ~Checked(code) THEN [is |-> "value", bytes |-> bytes]
  ELSE IF bytes = <<>>
  THEN [is |-> IF code = "checked hex" THEN "panic" ELSE "error", bytes |-> <<>>]
  ELSE [is |-> "value", bytes |-> Front(bytes)]

\* decode_cb58_with_checksum, bech32::decode and decode_hex_with_checksum, which
\* takes the checksum off without asking whether there are that many bytes.
Decode(code, bytes) ==
  IF ~Checked(code) THEN [is |-> "value", bytes |-> bytes]
  ELSE IF bytes = <<>>
  THEN [is |-> IF code = "checked hex" THEN "panic" ELSE "error", bytes |-> <<>>]
  ELSE [is |-> IF SumOf(Front(bytes)) = Last(bytes) THEN "value" ELSE "error",
        bytes |-> Front(bytes)]

\* 9 is a byte that nothing is made of, and not a digit or letter of a code that
\* has no checksum.
Legible(text) == Checked(text.code) \/ \A i \in DOMAIN text.bytes : text.bytes[i] # 9

-----------------------------------------------------------------------------
(* What is written and read, and by whom.                                  *)

\* The prefix, and how many bytes there are.
Written(prefix, code, lens) == [prefix |-> prefix, code |-> code, lens |-> lens]

\* What trims blanks, which prefixes it takes off, the lengths it has room for,
\* the length it fills to with zeros, and what it does with other lengths.
Reader(trim, prefixes, code, fits, pad, refuse) ==
  [trim |-> trim, prefixes |-> prefixes, code |-> code, fits |-> fits, pad |-> pad,
   refuse |-> refuse]

NODE_PREFIX == "NodeID-"
CB58_ENCODE_PREFIX == "PrivateKey-"
HEX_ENCODE_PREFIX == "0x"

Id_to_string == Written("", "cb58", {ID_LEN})
Id_from_str == Reader(TRUE, {""}, "cb58", 0..ID_LEN, ID_LEN, "panic")

node_to_string == Written(NODE_PREFIX, "cb58", {ADDR_LEN})
node_from_str == Reader(TRUE, {"", NODE_PREFIX}, "cb58", {ADDR_LEN}, 0, "panic")

short_to_string == Written("", "cb58", {ADDR_LEN})
short_from_str == Reader(TRUE, {""}, "cb58", 0..ADDR_LEN, ADDR_LEN, "panic")

\* An address begins with the alias of its chain.
address(chain_id_alias) == Written(chain_id_alias, "bech32", {ADDR_LEN})
avax_address_to_short_bytes(chain_alias) ==
  Reader(chain_alias = "", {"", chain_alias}, "bech32", 0..ID_LEN, 0, "error")

\* Id::deserialize of short ids: whatever is before a '-' is not looked at.
short_deserialize(text) ==
  IF text.prefix = "" THEN short_from_str
  ELSE Reader(TRUE, {text.prefix}, "bech32", 0..ADDR_LEN, ADDR_LEN, "panic")

to_cb58 == Written(CB58_ENCODE_PREFIX, "cb58", {ID_LEN})
from_cb58 == Reader(FALSE, {"", CB58_ENCODE_PREFIX}, "cb58", {ID_LEN}, 0, "error")

to_hex == Written(HEX_ENCODE_PREFIX, "hex", {ID_LEN})
from_hex == Reader(FALSE, {"", HEX_ENCODE_PREFIX}, "hex", {ID_LEN}, 0, "error")

\* Fields of JSON: what serialize writes, and what deserialize reads.
Field(prefix, code, lens, fits) ==
  [written |-> Written(prefix, code, lens),
   read |-> Reader(FALSE, {"", prefix}, code, fits, 0, "error")]

Hex0xUtxo == Field("0x", "checked hex", {ADDR_LEN}, {ADDR_LEN})
Hex0xBytes == Field("0x", "hex", 0..ID_LEN, 0..ID_LEN)
Hex0xH160 == Field("0x", "hex", {ADDR_LEN}, {ADDR_LEN})
Hex0xH256 == Field("0x", "hex", {ID_LEN}, {ID_LEN})
Hex0xU64 == Field("0x", "number", 1..U64_DIGITS, 1..U64_DIGITS)
Hex0xU256 == Field("0x", "number", 1..U256_DIGITS, 0..U256_DIGITS)
\* Of numbers that are not negative.
Hex0xBigInt == Field("0x", "number", 1..U256_DIGITS, 1..U256_DIGITS)
Base64Bytes == Field("", "base64", 0..ADDR_LEN, 0..ADDR_LEN)
\* Seconds, milliseconds and what is below them, which is not written.
DateTimeUtc == Field("", "time", {3}, {2})
\* Address and port, or a URL of them.
IpPort ==
  LET f == Field("", "ip", {2}, {2})
  IN [f EXCEPT !.read.prefixes = @ \union {"http://"}]

Writers ==
  [Id |-> Id_to_string, node_Id |-> node_to_string, short_Id |-> short_to_string,
   x_address |-> address("X-"), p_address |-> address("P-"),
   to_cb58 |-> to_cb58, to_hex |-> to_hex, cb58 |-> Written("", "cb58", {0, 1, ID_LEN + 1}),
   Hex0xUtxo |-> Hex0xUtxo.written, Hex0xBytes |-> Hex0xBytes.written,
   Hex0xH160 |-> Hex0xH160.written, Hex0xH256 |-> Hex0xH256.written,
   Hex0xU64 |-> Hex0xU64.written, Hex0xU256 |-> Hex0xU256.written,
   Hex0xBigInt |-> Hex0xBigInt.written, Base64Bytes |-> Base64Bytes.written,
   DateTimeUtc |-> DateTimeUtc.written, IpPort |-> IpPort.written]

Readers(text) ==
  [Id_from_str |-> Id_from_str, node_from_str |-> node_from_str,
   short_from_str |-> short_from_str, short_deserialize |-> short_deserialize(text),
   any_address |-> avax_address_to_short_bytes(""), x_address |-> avax_address_to_short_bytes("X-"),
   from_cb58 |-> from_cb58, from_hex |-> from_hex,
   Hex0xUtxo |-> Hex0xUtxo.read, Hex0xBytes |-> Hex0xBytes.read,
   Hex0xH160 |-> Hex0xH160.read, Hex0xH256 |-> Hex0xH256.read,
   Hex0xU64 |-> Hex0xU64.read, Hex0xU256 |-> Hex0xU256.read,
   Hex0xBigInt |-> Hex0xBigInt.read, Base64Bytes |-> Base64Bytes.read,
   DateTimeUtc |-> DateTimeUtc.read, IpPort |-> IpPort.read]

IsValue(who, v) ==
  /\ Len(v) \in Writers[who].lens
  /\ who \in {"to_cb58", "to_hex"} => \E i \in DOMAIN v : v[i] # 0
  /\ Writers[who].code = "number" => Len(v) = 1 \/ v[1] # 0

Values(who) == {v \in BoundedSeq(Bytes, ID_LEN + 1) : IsValue(who, v)}

\* to_rfc3339_opts of milliseconds.
Kept(who, v) == IF who = "DateTimeUtc" THEN SubSeq(v, 1, 2) ELSE v

Text(who, v) ==
  [by |-> who, value |-> v, damage |-> {},
   prefix |-> Writers[who].prefix, code |-> Writers[who].code,
   blanks |-> FALSE, bytes |-> Encode(Writers[who].code, Kept(who, v))]

\* Id::from_slice.
Pad(v, n) == v \o [i \in 1..(IF Len(v) < n THEN n - Len(v) ELSE 0) |-> 0]

\* A scalar is not zero, and a URL with the port of its scheme has none.
Accepted(name, text, v) ==
  CASE name \in {"from_cb58", "from_hex"} /\ v = Pad(<<>>, ID_LEN) -> [is |-> "error", bytes |-> v]
    [] name = "IpPort" /\ text.prefix = "http://" /\ v[2] = HTTP_PORT -> [is |-> "value", bytes |-> <<v[1], 0>>]
    [] OTHER -> [is |-> "value", bytes |-> v]

Read(name, text) ==
  LET r == Readers(text)[name]
      d == Decode(text.code, text.bytes)
  IN IF (text.blanks /\ ~r.trim) \/ text.prefix \notin r.prefixes \/ text.code # r.code
        \/ ~Legible(text)
     THEN [is |-> "error", bytes |-> <<>>]
     ELSE IF d.is # "value" THEN d
     ELSE IF Len(d.bytes) \notin r.fits THEN [is |-> r.refuse, bytes |-> <<>>]
     ELSE Accepted(name, text, Pad(d.bytes, r.pad))

-----------------------------------------------------------------------------
(* Fields.                                                                 *)

NotRead == [is |-> "not read", values |-> <<>>, how |-> "none", reader |-> "none"]
Got(is, values, how, reader) == [is |-> is, values |-> values, how |-> how, reader |-> reader]

\* collect: the first text that has no value decides.
ReadAll(name, ts) ==
  LET all == [i \in DOMAIN ts |-> Read(name, ts[i])]
      bad == {i \in DOMAIN ts : all[i].is # "value"}
  IN IF bad = {} THEN [is |-> "value", values |-> [i \in DOMAIN ts |-> all[i].bytes]]
     ELSE [is |-> all[CHOOSE i \in bad : \A j \in bad : i <= j].is, values |-> <<>>]

WriteText ==
  /\ got = NotRead /\ ~missing /\ damages = 0 /\ Len(texts) < MaxTexts
  /\ \E who \in DOMAIN Writers : \E v \in Values(who) :
       \* A list is of texts of one kind, with or without damage.
       /\ texts # <<>> => who = texts[1].by /\ who \in {"Id", "node_Id", "short_Id", "to_cb58"}
       /\ texts' = Append(texts, Text(who, v))
  /\ UNCHANGED <<damages, missing, got>>

LeaveOut ==
  /\ texts = <<>> /\ got = NotRead /\ missing' = TRUE
  /\ UNCHANGED <<texts, damages, got>>

\* What copying does to a text: a character that is another one, too few of
\* them, blanks, no prefix, or a URL where the text was an address and port.
Damage ==
  /\ got = NotRead /\ damages < MaxDamages /\ damages' = damages + 1
  /\ \E i \in DOMAIN texts : LET t == texts[i] IN
       \/ \E j \in DOMAIN t.bytes :
            texts' = [texts EXCEPT ![i].bytes[j] = 9, ![i].damage = @ \union {"bytes"}]
       \/ t.bytes # <<>> /\ texts' = [texts EXCEPT ![i].bytes = Front(@), ![i].damage = @ \union {"bytes"}]
       \/ texts' = [texts EXCEPT ![i].blanks = TRUE, ![i].damage = @ \union {"blanks"}]
       \/ t.prefix # "" /\ texts' = [texts EXCEPT ![i].prefix = "", ![i].damage = @ \union {"prefix"}]
       \/ t.by = "IpPort" /\ texts' = [texts EXCEPT ![i].prefix = "http://", ![i].damage = @ \union {"prefix"}]
  /\ UNCHANGED <<missing, got>>

\* from_str, deserialize and deserialize_as of a text.
ReadOne ==
  /\ got = NotRead /\ Len(texts) = 1
  /\ \E name \in DOMAIN Readers(texts[1]) :
       LET r == Read(name, texts[1]) IN got' = Got(r.is, <<r.bytes>>, "one", name)
  /\ UNCHANGED <<texts, damages, missing>>

\* deserialize_id and deserialize_ids, which are None for a field that is null,
\* and their must_ forms, which fail.
ReadField ==
  /\ got = NotRead
  /\ \E name \in {"Id_from_str", "node_from_str", "short_from_str"}, how \in {"option", "must"} :
       LET r == ReadAll(name, texts)
       IN got' = IF missing THEN Got(IF how = "option" THEN "none" ELSE "error", <<>>, how, name)
                 ELSE Got(r.is, r.values, how, name)
  /\ UNCHANGED <<texts, damages, missing>>

\* A line that is there twice is refused; one that is no key ends the process.
load_cb58_keys ==
  /\ got = NotRead /\ ~missing
  /\ LET twice == {i \in DOMAIN texts : \E j \in 1..(i - 1) : texts[i] = texts[j]}
         bad == {i \in DOMAIN texts : Read("from_cb58", texts[i]).is # "value"}
     IN \/ /\ \E i \in twice : \A j \in bad : i <= j
           /\ got' = Got("error", <<>>, "lines", "from_cb58")
        \/ /\ \E i \in bad : \A j \in twice : i < j
           /\ got' = Got("panic", <<>>, "lines", "from_cb58")
        \/ /\ bad = {} /\ twice = {}
           /\ \E permute_keys \in BOOLEAN :
                LET keys == ReadAll("from_cb58", texts).values
                IN got' = Got("value", IF permute_keys THEN Reverse(keys) ELSE keys, "lines", "from_cb58")
  /\ UNCHANGED <<texts, damages, missing>>

\* Info::to_private_key unwraps the text, which a key of a service has not, and
\* the key.
to_private_key ==
  /\ got = NotRead /\ (Len(texts) = 1 \/ missing)
  /\ LET r == ReadAll("from_cb58", texts)
     IN got' = IF ~missing /\ r.is = "value" THEN Got("value", r.values, "info", "from_cb58")
               ELSE Got("panic", <<>>, "info", "from_cb58")
  /\ UNCHANGED <<texts, damages, missing>>

-----------------------------------------------------------------------------
Init == texts = <<>> /\ damages = 0 /\ missing = FALSE /\ got = NotRead

Next ==
  \/ WriteText \/ LeaveOut \/ Damage
  \/ ReadOne \/ ReadField \/ load_cb58_keys \/ to_private_key

Spec == Init /\ [][Next]_vars

-----------------------------------------------------------------------------
\* Who reads what was written: the reader of the same name, and these.
Own(who) ==
  CASE who = "Id" -> {"Id_from_str"}
    [] who = "node_Id" -> {"node_from_str"}
    [] who = "short_Id" -> {"short_from_str", "short_deserialize"}
    [] who = "x_address" -> {"x_address", "short_deserialize"}
    [] who = "p_address" -> {"short_deserialize"}
    [] who = "to_cb58" -> {"from_cb58"}
    [] who = "to_hex" -> {"from_hex", "Hex0xBytes", "Hex0xH256"}
    [] who = "cb58" -> {}
    [] OTHER -> {who}

\* What is read is what was written, to the millisecond, and filled with zeros
\* at the end if it is shorter, whoever wrote the text and whoever reads it.
IsOf(v, text) ==
  LET w == Kept(text.by, text.value)
  IN \/ \E n \in {0, ADDR_LEN, ID_LEN} : v = Pad(w, n)
     \/ "bytes" \in text.damage /\ ~Checked(text.code)
     \/ text.prefix = "http://" /\ w[2] = HTTP_PORT /\ v[1] = w[1]

\* No value comes of a text that has a checksum and was damaged; a value that is
\* read is the one that was written; a text that was not changed is read by
\* those it is for; and the process ends only for a whole text of another kind,
\* for a UTXO cut short, and where keys are loaded.
TextIsRead ==
  /\ got.is = "value" /\ got.how # "lines" =>
       \A i \in DOMAIN texts :
         /\ IsOf(got.values[i], texts[i])
         /\ "bytes" \in texts[i].damage => ~Checked(texts[i].code)
  /\ got.is = "value" /\ got.how = "lines" =>
       /\ Len(got.values) = Len(texts)
       /\ \A i \in DOMAIN texts : \E j \in DOMAIN texts : IsOf(got.values[j], texts[i])
  /\ (\A i \in DOMAIN texts : texts[i].damage = {} /\ got.reader \in Own(texts[i].by)) =>
       \/ got.is \in {"not read", "value"}
       \/ missing
       \/ got.how = "lines" /\ \E i, j \in DOMAIN texts : i # j /\ texts[i].value = texts[j].value
  /\ got.is = "panic" /\ got.how \notin {"lines", "info"} =>
       \E i \in DOMAIN texts :
         \/ "bytes" \notin texts[i].damage /\ got.reader \notin Own(texts[i].by)
         \/ texts[i].code = "checked hex" /\ texts[i].bytes = <<>>
=============================================================================
