---------------------------- MODULE PeerMessages ----------------------------
(***************************************************************************)
(* The messages peers exchange: a module of src/message per type, all      *)
(* built alike.  A message is set up field by field, serialized, perhaps   *)
(* compressed, and read by the type the receiver expects, which nothing    *)
(* but the bytes tells it.                                                 *)
(*                                                                         *)
(* The addresses of version and peerlist are packed as in Packer.tla.      *)
(***************************************************************************)
EXTENDS Naturals

CONSTANTS
  Numbers,   \* values of fields, 0 is that of a field that is not set
  MaxCalls   \* bound: setters called on a message

VARIABLES
  built,     \* the message of the sender: its type, fields and gzip_compress
  calls,
  wire,      \* "none", or what the bytes hold, see below
  result     \* "none", "panicked", "refused", or the message that was read

vars == <<built, calls, wire, result>>

-----------------------------------------------------------------------------
(* The types: the variant serialize writes and deserialize takes, and what *)
(* can be set.  engine_type of five of them, accepted_container_ids of     *)
(* chits and subnet_uptimes of pong have no setter.                        *)

Message(variant, fields) == [variant |-> variant, fields |-> fields]

Asked == {"chain_id", "request_id"}

accepted == Message("Accepted", Asked \union {"container_ids"})
accepted_frontier == Message("AcceptedFrontier", Asked \union {"container_ids"})
accepted_state_summary == Message("AcceptedStateSummary", Asked \union {"summary_ids"})
ancestors == Message("Ancestors", Asked \union {"containers"})
app_gossip == Message("AppGossip", {"chain_id", "app_bytes"})
app_request == Message("AppRequest", Asked \union {"deadline", "app_bytes"})
app_response == Message("AppResponse", Asked \union {"app_bytes"})
chits == Message("Chits", Asked \union {"preferred_container_ids"})
get == Message("Get", Asked \union {"deadline", "container_id"})
get_accepted == Message("GetAccepted", Asked \union {"deadline", "container_ids"})
get_accepted_frontier == Message("GetAcceptedFrontier", Asked \union {"deadline"})
get_accepted_state_summary ==
  Message("GetAcceptedStateSummary", Asked \union {"deadline", "heights"})
get_ancestors == Message("GetAncestors", Asked \union {"deadline", "container_id"})
get_state_summary_frontier == Message("GetStateSummaryFrontier", Asked \union {"deadline"})
peerlist == Message("PeerList", {"claimed_ip_ports"})
ping == Message("Ping", {})
pong == Message("Pong", {"uptime_pct"})
pull_query == Message("PullQuery", Asked \union {"deadline", "container_id"})
push_query == Message("PushQuery", Asked \union {"deadline", "container"})
put == Message("Put", Asked \union {"container"})
state_summary_frontier == Message("StateSummaryFrontier", Asked \union {"summary"})
version == Message("Version", {"network_id", "my_time", "ip_addr", "ip_port", "my_version",
                               "my_version_time", "sig", "tracked_subnets"})

AllTypes ==
  {accepted, accepted_frontier, accepted_state_summary, ancestors, app_gossip,
   app_request, app_response, chits, get, get_accepted, get_accepted_frontier,
   get_accepted_state_summary, get_ancestors, get_state_summary_frontier, peerlist,
   ping, pong, pull_query, push_query, put, state_summary_frontier, version}

-----------------------------------------------------------------------------
(* What bytes hold: "empty" is a message without a variant, as no bytes    *)
(* are one, too; "broken" cannot be decoded; "plain" is a variant with its *)
(* fields; "gzip" is a message of compressed bytes.                        *)

Is(kind) == [is |-> kind]
Plain(variant, fields) == [is |-> "plain", variant |-> variant, fields |-> fields]
Gzip(bytes) == [is |-> "gzip", bytes |-> bytes]

serialize(m) ==
  LET encoded == Plain(m.type.variant, m.fields) IN
  IF m.gzip THEN Gzip(encoded) ELSE encoded

Read(type, fields) == [is |-> "read", type |-> type, fields |-> fields, gzip |-> FALSE]

\* What a type makes of a message that is not, or no longer, compressed.
take(type, bytes) ==
  CASE bytes.is = "empty" -> Is("panicked")
    [] bytes.is = "plain" /\ bytes.variant = type.variant -> Read(type, bytes.fields)
    [] OTHER -> Is("refused")

\* Mutant: what was compressed is not asked for its type.
deserialize_AnyType(type, bytes) ==
  IF bytes.is = "gzip" /\ bytes.bytes.is = "plain" THEN Read(type, bytes.bytes.fields)
  ELSE take(type, bytes)

\* It is decompressed once; what comes out is not decompressed again.
deserialize(type, bytes) ==
  take(type, IF bytes.is = "gzip" THEN bytes.bytes ELSE bytes)

-----------------------------------------------------------------------------
\* A field is set, also again; the last value stays.
set ==
  /\ wire = Is("none") /\ calls < MaxCalls
  /\ \E f \in built.type.fields, n \in Numbers : built' = [built EXCEPT !.fields[f] = n]
  /\ calls' = calls + 1
  /\ UNCHANGED <<wire, result>>

gzip_compress ==
  /\ wire = Is("none") /\ calls < MaxCalls
  /\ built' = [built EXCEPT !.gzip = ~@]
  /\ calls' = calls + 1
  /\ UNCHANGED <<wire, result>>

send ==
  /\ wire = Is("none") /\ wire' = serialize(built)
  /\ UNCHANGED <<built, calls, result>>

\* On the way, or by another sender: bytes are cut off or wrong, outside or in
\* what is compressed, or what is compressed is compressed once more.
garble ==
  /\ wire = serialize(built) /\ result = Is("none")
  /\ wire' \in {Is("empty"), Is("broken"), Gzip(Is("broken")), Gzip(Is("empty")), Gzip(wire)}
  /\ UNCHANGED <<built, calls, result>>

\* The receiver tries a type, and after that maybe another.
receive ==
  /\ wire # Is("none")
  /\ \E type \in AllTypes : result' = deserialize(type, wire)
  /\ UNCHANGED <<built, calls, wire>>

Init ==
  /\ built \in {[type |-> t, fields |-> [f \in t.fields |-> 0], gzip |-> FALSE] : t \in AllTypes}
  /\ calls = 0 /\ wire = Is("none") /\ result = Is("none")

Next == set \/ gzip_compress \/ send \/ garble \/ receive

Spec == Init /\ [][Next]_vars

-----------------------------------------------------------------------------
Sent == Plain(built.type.variant, built.fields)

\* A type reads a message only where it was sent as that type, and then every
\* field as it was set last, whether it was compressed or not; a receiver that
\* tries all types finds the one that was sent unless the bytes were tampered
\* with, and only a message that is empty makes it panic.
ReceivedIsSent ==
  /\ result.is = "read" =>
       /\ wire \in {Sent, Gzip(Sent)}
       /\ result.type = built.type /\ result.fields = built.fields
  /\ wire \in {Sent, Gzip(Sent)} =>
       \E type \in AllTypes : deserialize(type, wire).is = "read"
  /\ result.is = "panicked" => wire \in {Is("empty"), Gzip(Is("empty"))}
=============================================================================
