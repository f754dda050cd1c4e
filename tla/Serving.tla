------------------------------- MODULE Serving -------------------------------
(***************************************************************************)
(* subnet/rpc: how the process of a VM comes up and goes, and how one of   *)
(* the calls that cross between it and its node is made, found its method, *)
(* and answered.                                                           *)
(*                                                                         *)
(* serve picks a port, tells the node its address, and binds the port only *)
(* then: another process may have taken it.  The node calls the VM there.  *)
(* The VM is given clients of the node's services by initialize, and the   *)
(* node those of the VM's handlers by create_handlers.  Whoever calls, a   *)
(* wrapper puts its arguments into the fields of a request, the other end  *)
(* finds a handler by the path, and the handler calls the implementation.  *)
(* The calls share nothing but the process they go to, so the model has    *)
(* one at a time.                                                          *)
(***************************************************************************)
EXTENDS Services, Naturals, Sequences, SequencesExt

VARIABLES
  life,    \* of the VM's process: "env", "dial", "tell", "telling", "bind",
           \* "serving", "stopping", "ended" or "failed"
  port,    \* who listens on the port it picked: "none", "vm" or "other"
  stop,    \* the stop signal was sent; the receiver of serve is older
  heard,   \* and the receiver has it to hand out
  wired,   \* the services whose callers have a client
  call,    \* the last call: the service, the method and the fields it filled
  stage,   \* the other end's part of it: "none", "sent", "running", "over"
  wire,    \* the request by tags
  handler, \* the one that was found
  seen,    \* the arguments it calls the implementation with
  ran,     \* the methods of the implementation it has called
  answer,  \* the caller's: "waiting" until it has one
  reply    \* the fields of it

vars == <<life, port, stop, heard, wired, call, stage, wire, handler, seen, ran,
          answer, reply>>
process == <<life, port, stop, heard>>
theCall == <<call, stage, wire, handler, seen, ran, answer, reply>>

-----------------------------------------------------------------------------
(* The arguments.  Each method has the fields that carry the parameters of  *)
(* the trait both ends implement, in the order of the trait.                *)

\* Where the caller puts them.  The node sends more than the VM's traits ask for.
NodeSends ==
  [initialize |->
     <<"network_id", "subnet_id", "chain_id", "node_id", "x_chain_id", "c_chain_id",
       "avax_asset_id", "server_addr", "server_addr", "server_addr", "chain_data_dir",
       "server_addr", "db_servers", "genesis_bytes", "upgrade_bytes", "config_bytes",
       "server_addr">>,
   connected |-> <<"node_id">>,
   build_block |-> <<>>,
   block_verify |-> <<"bytes">>]

AppSenderSends ==
  [send_app_request |-> <<"node_ids", "request_id", "request">>,
   send_app_response |-> <<"node_id", "request_id", "response">>,
   send_app_gossip |-> <<"msg">>,
   send_app_gossip_specific |-> <<"node_ids", "msg">>,
   send_cross_chain_app_request |-> <<"chain_id", "request_id", "request">>,
   send_cross_chain_app_response |-> <<"chain_id", "request_id", "response">>]

DatabaseSends ==
  [has |-> <<"key">>, get |-> <<"key">>, put |-> <<"key", "value">>, delete |-> <<"key">>,
   new_iterator_with_start_and_prefix |-> <<"start", "prefix">>]

IteratorSends == [iterator_next |-> <<"id">>, iterator_error |-> <<"id">>,
                  iterator_release |-> <<"id">>]

ValidatorStateSends ==
  [get_subnet_id |-> <<"chain_id">>, get_validator_set |-> <<"height", "subnet_id">>]

RuntimeSends == [initialize |-> <<"protocol_version", "addr">>]

\* The method and the url of a request are sent as well.
HttpSends == [handle_simple |-> <<"body", "headers">>]

Sends ==
  [vm |-> NodeSends, appsender |-> AppSenderSends, validators |-> ValidatorStateSends,
   database |-> Joined(<<DatabaseSends, IteratorSends>>), runtime |-> RuntimeSends,
   http |-> HttpSends]

\* Where the handler takes them from.  The context has the ids; the node's
\* services are at server_addr, and databases at those of db_servers.
InitializeTakes ==
  [initialize |->
     <<"network_id", "subnet_id", "chain_id", "node_id", "x_chain_id", "c_chain_id",
       "avax_asset_id", "server_addr", "server_addr", "server_addr", "chain_data_dir",
       "server_addr", "db_servers", "genesis_bytes", "upgrade_bytes", "config_bytes",
       "server_addr">>]

VmBlockTakes ==
  [build_block |-> <<>>, parse_block |-> <<"bytes">>, get_block |-> <<"id">>,
   set_state |-> <<"state">>, set_preference |-> <<"id">>]

VmAppTakes ==
  [connected |-> <<"node_id">>, disconnected |-> <<"node_id">>,
   app_request |-> <<"node_id", "request_id", "deadline", "request">>,
   app_request_failed |-> <<"node_id", "request_id">>,
   app_response |-> <<"node_id", "request_id", "response">>,
   app_gossip |-> <<"node_id", "msg">>]

VmDecisionTakes ==
  [block_verify |-> <<"bytes">>, block_accept |-> <<"id">>, block_reject |-> <<"id">>,
   get_ancestors |-> <<"blk_id", "max_blocks_num", "max_blocks_size",
                       "max_blocks_retrival_time">>]

VmCrossChainTakes ==
  [cross_chain_app_request |-> <<"chain_id", "request_id", "deadline", "request">>,
   cross_chain_app_request_failed |-> <<"chain_id", "request_id">>,
   cross_chain_app_response |-> <<"chain_id", "request_id", "response">>]

AppSenderTakes ==
  [send_app_request |-> <<"node_ids", "request_id", "request">>,
   send_app_response |-> <<"node_id", "request_id", "response">>,
   send_app_gossip |-> <<"msg">>,
   send_app_gossip_specific |-> <<"node_ids", "msg">>,
   send_cross_chain_app_request |-> <<"chain_id", "request_id", "request">>,
   send_cross_chain_app_response |-> <<"chain_id", "request_id", "response">>]

\* Mutant: the start and the prefix of an iterator are exchanged.
DatabaseTakes_Swapped ==
  [has |-> <<"key">>, get |-> <<"key">>, put |-> <<"key", "value">>, delete |-> <<"key">>,
   new_iterator_with_start_and_prefix |-> <<"prefix", "start">>]

DatabaseTakes ==
  [has |-> <<"key">>, get |-> <<"key">>, put |-> <<"key", "value">>, delete |-> <<"key">>,
   new_iterator_with_start_and_prefix |-> <<"start", "prefix">>]

IteratorTakes == [iterator_next |-> <<"id">>, iterator_error |-> <<"id">>,
                  iterator_release |-> <<"id">>]

HttpTakes == [handle_simple |-> <<"body", "headers">>]

Takes ==
  [vm |-> Joined(<<InitializeTakes, VmBlockTakes, VmAppTakes, VmDecisionTakes,
                   VmCrossChainTakes>>),
   appsender |-> AppSenderTakes, database |-> Joined(<<DatabaseTakes, IteratorTakes>>),
   http |-> HttpTakes]

Stub(service, method) == Services[service].stubs[method]

\* Where there is no wrapper the fields are the parameters.
Parameters(table, service, method) ==
  IF service \in DOMAIN table /\ method \in DOMAIN table[service]
  THEN table[service][method]
  ELSE Fields(service, Stub(service, method)[2])

-----------------------------------------------------------------------------
(* The handlers.                                                           *)

\* What a handler calls, in turn; the other handlers call one method.  A batch
\* is of two blocks.  What get_ancestors does without the VM is in VmServer.
VmRuns ==
  [initialize |-> <<"initialize", "last_accepted", "get_block">>,
   set_state |-> <<"set_state", "last_accepted", "get_block">>,
   batched_parse_block |-> <<"parse_block", "parse_block">>,
   health |-> <<"health_check">>,
   block_verify |-> <<"parse_block", "verify">>,
   block_accept |-> <<"get_block", "accept">>,
   block_reject |-> <<"get_block", "reject">>]

DatabaseRuns == [write_batch |-> <<"new_batch", "put", "delete", "write">>]

Runs(service, h) ==
  CASE service = "vm" /\ h \in DOMAIN VmRuns -> VmRuns[h]
    [] service = "database" /\ h \in DOMAIN DatabaseRuns -> DatabaseRuns[h]
    [] OTHER -> <<h>>

VmUnimplemented ==
  {"state_sync_enabled", "get_ongoing_sync_state_summary", "parse_state_summary",
   "get_state_summary", "get_last_state_summary", "state_summary_accept",
   "verify_height_index", "get_block_id_at_height"}

Unimplemented(service) ==
  CASE service = "vm" -> VmUnimplemented
    [] service = "database" -> {"compact"}
    [] service = "http" -> {"handle"}
    [] OTHER -> {}

\* An error of the database, or of get_block of the VM, is a code in the reply.
\* The others are errors of the call.
Failure(service, h) ==
  IF \/ service = "vm" /\ h = "get_block"
     \/ service = "database"
          /\ h \in {"has", "get", "put", "delete", "close", "write_batch",
                    "iterator_error", "iterator_release"}
  THEN "code" ELSE "error"

\* initialize dials the node and the databases and parses their versions, and
\* set_state reads the number of the state, before the VM is called.
MayRefuse(service, h) == service = "vm" /\ h \in {"initialize", "set_state"}

\* The wrapper refuses a set in which a validator has no key.
MayMisread(service, method) == service = "validators" /\ method = "get_validator_set"

-----------------------------------------------------------------------------
(* A call.                                                                 *)

NodeServices == {"database", "appsender", "validators", "sharedmemory", "aliasreader",
                 "keystore", "messenger"}

\* Ids, addresses and times have no default; any other field may be left at its.
AlwaysSent == {"node_id", "chain_id", "subnet_id", "id", "blk_id", "deadline",
               "server_addr", "protocol_version", "addr"}

Filled(service, method) ==
  LET all == FieldNames(service, Stub(service, method)[2]) IN
  {all, all \cap AlwaysSent} \cup {all \ {f} : f \in all \ AlwaysSent}

Begin(service, method, filled) ==
  /\ call' = [service |-> service, method |-> method,
              fields |-> [f \in filled |-> f]]
  /\ wire' = Encode(service, Stub(service, method)[2], [f \in filled |-> f])
  /\ handler' = "none" /\ seen' = <<>> /\ ran' = <<>> /\ reply' = {}

\* No connection: the client is never ready.
NotReady(service, method, filled) ==
  /\ Begin(service, method, filled)
  /\ stage' = "over" /\ answer' = "not ready"

Sent(service, method, filled) ==
  /\ service = "vm" => port # "none" /\ life # "stopping"
  /\ service = "http" => life = "serving"
  /\ Begin(service, method, filled)
  /\ stage' = "sent" /\ answer' = "waiting"

\* The node calls the VM and its handlers whenever it likes, the VM its node
\* while its process is there.
Call(service, method, filled) ==
  /\ stage = "none" /\ service \in wired
  /\ service \in NodeServices => life \in {"serving", "stopping"}
  /\ NotReady(service, method, filled) \/ Sent(service, method, filled)
  /\ UNCHANGED <<process, wired>>

\* The caller has its answer, unless the connection broke before.
Finish(a) ==
  /\ stage' = "over"
  /\ answer' = IF answer = "waiting" THEN a ELSE answer

Replied(service, type, h) ==
  DOMAIN Decode(service, Stub(service, call.method)[3],
                Encode(service, type, [f \in FieldNames(service, type) |-> h]))

\* A path the server does not know, a method that only says so, and a process
\* that is not a VM, all give the same answer.
Refuse ==
  /\ Finish("unimplemented")
  /\ UNCHANGED <<handler, seen>>

Handle(service, h, type) ==
  LET taken == Parameters(Takes, service, h)
      values == Decode(service, type, wire) IN
  /\ handler' = h
  /\ \/ /\ h \in Unimplemented(service)
        /\ Finish("unimplemented") /\ UNCHANGED seen
     \/ /\ MayRefuse(service, h)
        /\ Finish("error") /\ UNCHANGED seen
     \/ /\ h \notin Unimplemented(service)
        /\ stage' = "running" /\ UNCHANGED answer
        /\ seen' = [i \in DOMAIN taken |->
                      IF taken[i] \in DOMAIN values THEN values[taken[i]] ELSE "default"]

Route ==
  LET service == call.service
      path == Stub(service, call.method)[1]
      arms == Services[service].arms IN
  /\ stage = "sent"
  /\ IF path \in DOMAIN arms /\ ~(service = "vm" /\ port # "vm")
     THEN Handle(service, arms[path][1], arms[path][2])
     ELSE Refuse
  /\ UNCHANGED <<process, wired, call, wire, ran, reply>>

\* What the implementation's methods do for the processes; the VM has its
\* clients as soon as its initialize is called.
Effect(method) ==
  /\ wired' = CASE call.service = "runtime" -> wired \cup {"vm"}
                [] call.service = "vm" /\ method = "initialize" -> wired \cup NodeServices
                [] call.service = "vm" /\ method = "create_handlers" -> wired \cup {"http"}
                [] OTHER -> wired
  /\ IF call.service = "vm" /\ method = "shutdown"
     THEN stop' = TRUE /\ heard' = TRUE
     ELSE UNCHANGED <<stop, heard>>

Run ==
  LET service == call.service
      runs == Runs(service, handler)
      arm == Services[service].arms[Stub(service, call.method)[1]] IN
  /\ stage = "running"
  /\ ran' = Append(ran, runs[Len(ran) + 1])
  /\ \/ Finish(Failure(service, handler)) /\ UNCHANGED reply
     \/ /\ Len(ran') < Len(runs)
        /\ UNCHANGED <<stage, answer, reply>>
     \/ /\ Len(ran') = Len(runs)
        /\ Finish("ok")
        /\ reply' = Replied(service, arm[3], handler)
     \/ /\ Len(ran') = Len(runs) /\ MayMisread(service, call.method)
        /\ Finish("error") /\ UNCHANGED reply
  /\ Effect(ran'[Len(ran')])
  /\ UNCHANGED <<life, port, call, wire, handler, seen>>

\* The connection breaks: the caller hears of it, and the other end may go on
\* or may drop the request where it is.
Break ==
  /\ stage \in {"sent", "running"} /\ answer = "waiting"
  /\ answer' = "broken"
  /\ \/ UNCHANGED stage
     \/ stage' = "over"
  /\ UNCHANGED <<process, wired, call, wire, handler, seen, ran, reply>>

NoCall == [service |-> "none", method |-> "none", fields |-> [f \in {} |-> f]]

\* The caller goes on, and may call again.
Return ==
  /\ stage = "over" /\ life # "telling"
  /\ call' = NoCall /\ stage' = "none" /\ wire' = <<>> /\ handler' = "none"
  /\ seen' = <<>> /\ ran' = <<>> /\ answer' = "none" /\ reply' = {}
  /\ UNCHANGED <<process, wired>>

-----------------------------------------------------------------------------
(* The process.                                                            *)

Fail == life' = "failed" /\ UNCHANGED <<port, stop, heard, wired, theCall>>
GoOn(l) == life' = l /\ UNCHANGED <<port, stop, heard, wired, theCall>>

\* The address of the runtime is in the environment, and is dialed for at most
\* ten seconds.
ReadEnv == life = "env" /\ (GoOn("dial") \/ Fail)
Dial == life = "dial" /\ (GoOn("tell") \/ Fail)

Tell ==
  /\ life = "tell" /\ life' = "telling"
  /\ \E filled \in Filled("runtime", "initialize") :
       \/ NotReady("runtime", "initialize", filled)
       \/ Sent("runtime", "initialize", filled)
  /\ UNCHANGED <<port, stop, heard, wired>>

Told ==
  /\ life = "telling" /\ answer # "waiting"
  /\ IF answer = "ok" THEN GoOn("bind") ELSE Fail

\* Mutant: the server subscribes to the signal when it binds the port.
Bind_Subscribe ==
  /\ life = "bind"
  /\ IF port = "other" THEN Fail
     ELSE /\ life' = "serving" /\ port' = "vm" /\ heard' = FALSE
          /\ UNCHANGED <<stop, wired, theCall>>

Bind ==
  /\ life = "bind"
  /\ IF port = "other" THEN Fail
     ELSE /\ life' = "serving" /\ port' = "vm"
          /\ UNCHANGED <<stop, heard, wired, theCall>>

\* No new calls are taken after the signal, those under way are answered.
HearStop == life = "serving" /\ heard /\ GoOn("stopping")

End ==
  /\ life = "stopping"
  /\ ~(call.service = "vm" /\ stage \in {"sent", "running"})
  /\ life' = "ended" /\ port' = "none"
  /\ UNCHANGED <<stop, heard, wired, theCall>>

\* The program around the VM sends the signal as well.
SendStop ==
  /\ ~stop /\ stop' = TRUE /\ heard' = TRUE
  /\ UNCHANGED <<life, port, wired, theCall>>

\* The port was picked by binding a socket that was closed at once.
Take ==
  /\ port = "none" /\ life \in {"env", "dial", "tell", "telling", "bind"}
  /\ port' = "other"
  /\ UNCHANGED <<life, stop, heard, wired, theCall>>

Init ==
  /\ life = "env" /\ port = "none" /\ stop = FALSE /\ heard = FALSE /\ wired = {}
  /\ call = NoCall /\ stage = "none" /\ wire = <<>> /\ handler = "none"
  /\ seen = <<>> /\ ran = <<>> /\ answer = "none" /\ reply = {}

Proceed == ReadEnv \/ Dial \/ Tell \/ Told \/ Bind \/ HearStop \/ End

Next ==
  \/ Proceed \/ Route \/ Run \/ Break \/ Return \/ SendStop \/ Take
  \/ \E service \in wired : \E method \in DOMAIN Services[service].stubs :
       \E filled \in Filled(service, method) : Call(service, method, filled)

\* The runtime polls the process and the handlers; the node answers.
Fairness == WF_vars(Proceed) /\ WF_vars(Route) /\ WF_vars(Run)

Spec == Init /\ [][Next]_vars
FairSpec == Spec /\ Fairness

-----------------------------------------------------------------------------
(* Properties.                                                             *)

\* A call that is answered has run the method it is of, with the arguments the
\* caller gave, once and whole, and its reply can be read; one that is told
\* there is no such method or no connection has run nothing.  A node that
\* talks to another process on the port never has a VM on that address: the
\* VM does not serve there or elsewhere, and says so by failing.
CallReachesItsMethod ==
  /\ port = "other" => life \notin {"serving", "stopping", "ended"}
  /\ \/ call.service = "none"
     \/ LET service == call.service  method == call.method
            sent == Parameters(Sends, service, method)
            meant == Runs(service, method)
        IN /\ IsPrefix(ran, meant)
           /\ ran # <<>> =>
                seen = [i \in DOMAIN sent |->
                          IF sent[i] \in DOMAIN call.fields THEN call.fields[sent[i]]
                          ELSE "default"]
           /\ answer = "ok" =>
                ran = meant /\ reply = FieldNames(service, Stub(service, method)[3])
           /\ answer = "code" => ran # <<>>
           /\ answer = "unimplemented" =>
                ran = <<>> /\ (method \in Unimplemented(service)
                                 \/ (service = "vm" /\ port = "other"))
           /\ answer = "not ready" => ran = <<>>

\* A stop signal ends the process, however early it is sent.
StopIsHeard == stop ~> life \in {"ended", "failed"}
=============================================================================
