--------------------------- MODULE JsonRpcClient ----------------------------
(***************************************************************************)
(* The JSON-RPC clients of the P-chain, the X-chain, info and admin: a     *)
(* function per method, all built alike.  A call makes a URL of the        *)
(* endpoint it is given, posts its request there, waits for at most 15     *)
(* seconds, and decodes what comes back.  Calls run side by side; the      *)
(* request of one that was given up may still arrive.                      *)
(***************************************************************************)
EXTENDS Integers, Sequences

CONSTANTS
  Endpoints,    \* [valid, scheme, host, port]: scheme tells whether it begins
                \* with one, port is 0 where it has none
  Serves,       \* for the host and port of each node the services it has on
  MaxCalls      \* bound

HTTP_PORT == 80

VARIABLES
  calls,     \* each call: its function and endpoint, at which step it is, and
             \* what it returned
  requests,  \* for each call where its request is, and the answer
  done       \* history: calls carried out by a node

vars == <<calls, requests, done>>

-----------------------------------------------------------------------------
(* The functions: the path, and the service and method the request names.  *)

Function(path, service, method) == [path |-> path, service |-> service, method |-> method]

P(method) == Function("/ext/P", "platform", method)
X(method) == Function("/ext/bc/X", "avm", method)
Info(method) == Function("/ext/info", "info", method)

p_issue_tx == P("issueTx")
p_get_tx == P("getTx")
p_get_tx_status == P("getTxStatus")
p_get_height == P("getHeight")
p_get_balance == P("getBalance")
p_get_utxos == P("getUTXOs")
p_get_primary_network_validators == P("getCurrentValidators")
p_get_subnet_validators == P("getCurrentValidators")
p_get_subnets == P("getSubnets")
p_get_blockchains == P("getBlockchains")
p_get_blockchain_status == P("getBlockchainStatus")

x_issue_tx == X("issueTx")
x_get_tx_status == X("getTxStatus")
x_get_balance == X("getBalance")
x_get_asset_description == X("getAssetDescription")

\* Mutant: the function was copied from the client of the P-chain.
x_get_utxos_Copied == Function("/ext/P", "avm", "getUTXOs")
x_get_utxos == X("getUTXOs")
x_issue_stop_vertex == X("issueStopVertex")

info_get_network_name == Info("getNetworkName")
info_get_network_id == Info("getNetworkID")
info_get_blockchain_id == Info("getBlockchainID")
info_get_node_id == Info("getNodeID")
info_get_node_version == Info("getNodeVersion")
info_get_vms == Info("getVMs")
info_is_bootstrapped == Info("isBootstrapped")
info_get_tx_fee == Info("getTxFee")
info_peers == Info("peers")

alias_chain == Function("/ext/admin", "admin", "aliasChain")

AllFunctions ==
  {p_issue_tx, p_get_tx, p_get_tx_status, p_get_height, p_get_balance, p_get_utxos,
   p_get_primary_network_validators, p_get_subnet_validators, p_get_subnets,
   p_get_blockchains, p_get_blockchain_status,
   x_issue_tx, x_get_tx_status, x_get_balance, x_get_asset_description, x_get_utxos,
   x_issue_stop_vertex,
   info_get_network_name, info_get_network_id, info_get_blockchain_id, info_get_node_id,
   info_get_node_version, info_get_vms, info_is_bootstrapped, info_get_tx_fee, info_peers,
   alias_chain}

\* What a node serves under a path.
Service == [path \in {"/ext/P", "/ext/bc/X", "/ext/info", "/ext/admin"} |->
              CASE path = "/ext/P" -> "platform" [] path = "/ext/bc/X" -> "avm"
                [] path = "/ext/info" -> "info" [] path = "/ext/admin" -> "admin"]

-----------------------------------------------------------------------------
Returns(c, value) == calls' = [calls EXCEPT ![c].returned = value]

\* Where the request goes: a port counts only if the endpoint begins with a scheme.
url(c) ==
  LET e == calls[c].endpoint IN
  <<e.host, IF e.scheme /\ e.port # 0 THEN e.port ELSE HTTP_PORT>>

call(f, e) ==
  /\ Len(calls) < MaxCalls
  /\ calls' = Append(calls, [fn |-> f, endpoint |-> e,
                             returned |-> IF e.valid THEN "nothing" ELSE "Error::Other"])
  /\ requests' = Append(requests, IF e.valid THEN "sent" ELSE "none")
  /\ UNCHANGED done

\* The path is that of the service the method is of, and the service is on.
Served(c) ==
  LET f == calls[c].fn IN
  Service[f.path] = f.service /\ f.service \in Serves[url(c)]

Waiting(c) == calls[c].returned = "nothing"

\* Nothing listens there, or the connection breaks before the request is out.
send_fails(c) ==
  /\ Waiting(c) /\ requests[c] = "sent"
  /\ Returns(c, "Error::API") /\ requests' = [requests EXCEPT ![c] = "none"]
  /\ UNCHANGED done

\* A node has the request, also when the caller has given up.  It carries out
\* or refuses what it serves there, and finds nothing elsewhere.
arrive(c) ==
  /\ requests[c] = "sent" /\ url(c) \in DOMAIN Serves
  /\ IF ~Served(c)
     THEN requests' = [requests EXCEPT ![c] = "not found"] /\ UNCHANGED done
     ELSE \/ requests' = [requests EXCEPT ![c] = "result"] /\ done' = Append(done, c)
          \/ requests' = [requests EXCEPT ![c] = "error"] /\ UNCHANGED done
  /\ UNCHANGED calls

\* The time is over, or the connection breaks, before or within the answer.
give_up(c) ==
  /\ Waiting(c)
  /\ \/ Returns(c, "Error::API")
     \/ requests[c] # "sent" /\ Returns(c, "Error::Other")
  /\ UNCHANGED <<requests, done>>

\* The response these functions read has a result, which may be missing, and no
\* error.
WithoutError ==
  {info_get_network_id, info_get_blockchain_id, info_get_vms, info_get_tx_fee, info_peers}

\* What the caller may be told of an answer.  Of that to a stop vertex only the
\* status is looked at.  The response to an alias has room for neither a result nor an
\* error, and an answer that is none at all panics.  get_node_id has an error of its
\* own for the node's, and for a result without a proof or with a key in it that
\* does not load.
Told(f, request) ==
  CASE f = x_issue_stop_vertex -> {IF request = "not found" THEN "Error::API" ELSE "Ok"}
    [] f = alias_chain -> {IF request = "not found" THEN "panic" ELSE "Ok"}
    [] f = info_get_node_id ->
         {"Error::Other"} \cup (IF request = "result" THEN {"result"} ELSE {})
    [] f \in WithoutError /\ request = "error" -> {"empty"}
    [] OTHER -> {IF request = "not found" THEN "Error::Other" ELSE request}

decode(c) ==
  /\ Waiting(c) /\ requests[c] \in {"result", "error", "not found"}
  /\ \E value \in Told(calls[c].fn, requests[c]) : Returns(c, value)
  /\ UNCHANGED <<requests, done>>

-----------------------------------------------------------------------------
Init == calls = <<>> /\ requests = <<>> /\ done = <<>>

Next ==
  \/ \E f \in AllFunctions, e \in Endpoints : call(f, e)
  \/ \E c \in DOMAIN calls : send_fails(c) \/ arrive(c) \/ give_up(c) \/ decode(c)

Spec == Init /\ [][Next]_vars

-----------------------------------------------------------------------------
\* What a call returns is what became of it.  A node does not know a method
\* only where the service is off; no call is carried out twice; one that returns a
\* result was carried out, and one that returns an error of the node, or an answer with
\* nothing in it for an error, was not, whatever other calls do; one that returns an
\* error of its own may have been carried out, now or later, unless its endpoint is
\* not a URL.
AnsweredIsDone ==
  /\ \A c \in DOMAIN calls :
       requests[c] = "not found" => calls[c].fn.service \notin Serves[url(c)]
  /\ \A i, j \in DOMAIN done : done[i] = done[j] => i = j
  /\ \A c \in DOMAIN calls :
       LET was == \E i \in DOMAIN done : done[i] = c IN
       /\ calls[c].returned = "result" => was
       /\ calls[c].returned \in {"error", "empty"} => ~was
       /\ ~calls[c].endpoint.valid => ~was
=============================================================================
