------------------------------ MODULE Services ------------------------------
(***************************************************************************)
(* proto/pb: the services that a VM and its node offer each other over     *)
(* gRPC, as the code that is built from their protocol buffers has them.   *)
(*                                                                         *)
(* Stubs: the path (its last part), the request and the reply of each      *)
(* method of a client.  Arms: what the server of the service does with a   *)
(* path, the method of the implementation it calls with the type it reads  *)
(* the request as and the type it writes the reply as.  Messages: the      *)
(* fields of each message, each at the place of its tag.                   *)
(***************************************************************************)
EXTENDS Naturals, Sequences

-----------------------------------------------------------------------------
(* vm.VM: the node's calls of the VM.                                        *)

VmLifeStubs ==
  [initialize |-> <<"Initialize", "InitializeRequest", "InitializeResponse">>,
   set_state |-> <<"SetState", "SetStateRequest", "SetStateResponse">>,
   shutdown |-> <<"Shutdown", "Empty", "Empty">>,
   create_handlers |-> <<"CreateHandlers", "Empty", "CreateHandlersResponse">>,
   create_static_handlers |->
     <<"CreateStaticHandlers", "Empty", "CreateStaticHandlersResponse">>,
   connected |-> <<"Connected", "ConnectedRequest", "Empty">>,
   disconnected |-> <<"Disconnected", "DisconnectedRequest", "Empty">>]

VmBlockStubs ==
  [build_block |-> <<"BuildBlock", "BuildBlockRequest", "BuildBlockResponse">>,
   parse_block |-> <<"ParseBlock", "ParseBlockRequest", "ParseBlockResponse">>,
   get_block |-> <<"GetBlock", "GetBlockRequest", "GetBlockResponse">>,
   set_preference |-> <<"SetPreference", "SetPreferenceRequest", "Empty">>,
   health |-> <<"Health", "Empty", "HealthResponse">>,
   version |-> <<"Version", "Empty", "VersionResponse">>]

VmAppStubs ==
  [app_request |-> <<"AppRequest", "AppRequestMsg", "Empty">>,
   app_request_failed |-> <<"AppRequestFailed", "AppRequestFailedMsg", "Empty">>,
   app_response |-> <<"AppResponse", "AppResponseMsg", "Empty">>,
   app_gossip |-> <<"AppGossip", "AppGossipMsg", "Empty">>,
   gather |-> <<"Gather", "Empty", "GatherResponse">>]

VmCrossChainStubs ==
  [cross_chain_app_request |->
     <<"CrossChainAppRequest", "CrossChainAppRequestMsg", "Empty">>,
   cross_chain_app_request_failed |->
     <<"CrossChainAppRequestFailed", "CrossChainAppRequestFailedMsg", "Empty">>,
   cross_chain_app_response |->
     <<"CrossChainAppResponse", "CrossChainAppResponseMsg", "Empty">>,
   get_ancestors |-> <<"GetAncestors", "GetAncestorsRequest", "GetAncestorsResponse">>,
   batched_parse_block |->
     <<"BatchedParseBlock", "BatchedParseBlockRequest", "BatchedParseBlockResponse">>]

VmStateStubs ==
  [verify_height_index |->
     <<"VerifyHeightIndex", "Empty", "VerifyHeightIndexResponse">>,
   get_block_id_at_height |->
     <<"GetBlockIDAtHeight", "GetBlockIdAtHeightRequest",
       "GetBlockIdAtHeightResponse">>,
   state_sync_enabled |-> <<"StateSyncEnabled", "Empty", "StateSyncEnabledResponse">>,
   get_ongoing_sync_state_summary |->
     <<"GetOngoingSyncStateSummary", "Empty", "GetOngoingSyncStateSummaryResponse">>,
   get_last_state_summary |->
     <<"GetLastStateSummary", "Empty", "GetLastStateSummaryResponse">>,
   parse_state_summary |->
     <<"ParseStateSummary", "ParseStateSummaryRequest", "ParseStateSummaryResponse">>,
   get_state_summary |->
     <<"GetStateSummary", "GetStateSummaryRequest", "GetStateSummaryResponse">>]

VmDecisionStubs ==
  [block_verify |-> <<"BlockVerify", "BlockVerifyRequest", "BlockVerifyResponse">>,
   block_accept |-> <<"BlockAccept", "BlockAcceptRequest", "Empty">>,
   block_reject |-> <<"BlockReject", "BlockRejectRequest", "Empty">>,
   state_summary_accept |->
     <<"StateSummaryAccept", "StateSummaryAcceptRequest",
       "StateSummaryAcceptResponse">>]

VmLifeArms ==
  [Initialize |-> <<"initialize", "InitializeRequest", "InitializeResponse">>,
   SetState |-> <<"set_state", "SetStateRequest", "SetStateResponse">>,
   Shutdown |-> <<"shutdown", "Empty", "Empty">>]

VmConnectArms ==
  [CreateHandlers |-> <<"create_handlers", "Empty", "CreateHandlersResponse">>,
   CreateStaticHandlers |->
     <<"create_static_handlers", "Empty", "CreateStaticHandlersResponse">>,
   Connected |-> <<"connected", "ConnectedRequest", "Empty">>,
   Disconnected |-> <<"disconnected", "DisconnectedRequest", "Empty">>]

VmBlockArms ==
  [BuildBlock |-> <<"build_block", "BuildBlockRequest", "BuildBlockResponse">>,
   ParseBlock |-> <<"parse_block", "ParseBlockRequest", "ParseBlockResponse">>,
   GetBlock |-> <<"get_block", "GetBlockRequest", "GetBlockResponse">>]

VmHealthArms ==
  [SetPreference |-> <<"set_preference", "SetPreferenceRequest", "Empty">>,
   Health |-> <<"health", "Empty", "HealthResponse">>,
   Version |-> <<"version", "Empty", "VersionResponse">>]

VmAppArms ==
  [AppRequest |-> <<"app_request", "AppRequestMsg", "Empty">>,
   AppRequestFailed |-> <<"app_request_failed", "AppRequestFailedMsg", "Empty">>,
   AppResponse |-> <<"app_response", "AppResponseMsg", "Empty">>]

VmGossipArms ==
  [AppGossip |-> <<"app_gossip", "AppGossipMsg", "Empty">>,
   Gather |-> <<"gather", "Empty", "GatherResponse">>]

VmCrossChainArms ==
  [CrossChainAppRequest |->
     <<"cross_chain_app_request", "CrossChainAppRequestMsg", "Empty">>,
   CrossChainAppRequestFailed |->
     <<"cross_chain_app_request_failed", "CrossChainAppRequestFailedMsg", "Empty">>,
   CrossChainAppResponse |->
     <<"cross_chain_app_response", "CrossChainAppResponseMsg", "Empty">>]

VmAncestorArms ==
  [GetAncestors |-> <<"get_ancestors", "GetAncestorsRequest", "GetAncestorsResponse">>,
   BatchedParseBlock |->
     <<"batched_parse_block", "BatchedParseBlockRequest",
       "BatchedParseBlockResponse">>]

VmHeightArms ==
  [VerifyHeightIndex |->
     <<"verify_height_index", "Empty", "VerifyHeightIndexResponse">>,
   GetBlockIDAtHeight |->
     <<"get_block_id_at_height", "GetBlockIdAtHeightRequest",
       "GetBlockIdAtHeightResponse">>]

VmSyncArms ==
  [StateSyncEnabled |-> <<"state_sync_enabled", "Empty", "StateSyncEnabledResponse">>,
   GetOngoingSyncStateSummary |->
     <<"get_ongoing_sync_state_summary", "Empty",
       "GetOngoingSyncStateSummaryResponse">>,
   GetLastStateSummary |->
     <<"get_last_state_summary", "Empty", "GetLastStateSummaryResponse">>]

VmSummaryArms ==
  [ParseStateSummary |->
     <<"parse_state_summary", "ParseStateSummaryRequest",
       "ParseStateSummaryResponse">>,
   GetStateSummary |->
     <<"get_state_summary", "GetStateSummaryRequest", "GetStateSummaryResponse">>]

VmDecisionArms ==
  [BlockVerify |-> <<"block_verify", "BlockVerifyRequest", "BlockVerifyResponse">>,
   BlockAccept |-> <<"block_accept", "BlockAcceptRequest", "Empty">>,
   BlockReject |-> <<"block_reject", "BlockRejectRequest", "Empty">>]

VmAcceptArms ==
  [StateSummaryAccept |->
     <<"state_summary_accept", "StateSummaryAcceptRequest",
       "StateSummaryAcceptResponse">>]

VmLifeMessages ==
  [InitializeRequest |->
     <<"network_id", "subnet_id", "chain_id", "node_id", "public_key", "x_chain_id",
       "c_chain_id", "avax_asset_id", "chain_data_dir", "genesis_bytes",
       "upgrade_bytes", "config_bytes", "db_servers", "server_addr">>,
   InitializeResponse |->
     <<"last_accepted_id", "last_accepted_parent_id", "height", "bytes",
       "timestamp">>,
   VersionedDbServer |-> <<"version", "server_addr">>,
   SetStateRequest |-> <<"state">>,
   SetStateResponse |->
     <<"last_accepted_id", "last_accepted_parent_id", "height", "bytes",
       "timestamp">>,
   CreateHandlersResponse |-> <<"handlers">>,
   CreateStaticHandlersResponse |-> <<"handlers">>,
   Handler |-> <<"prefix", "lock_options", "server_addr">>]

VmBlockMessages ==
  [BuildBlockRequest |-> <<"p_chain_height">>,
   BuildBlockResponse |->
     <<"id", "parent_id", "bytes", "height", "timestamp", "verify_with_context">>,
   ParseBlockRequest |-> <<"bytes">>,
   ParseBlockResponse |->
     <<"id", "parent_id", "status", "height", "timestamp", "verify_with_context">>,
   GetBlockRequest |-> <<"id">>,
   GetBlockResponse |->
     <<"parent_id", "bytes", "status", "height", "timestamp", "err",
       "verify_with_context">>,
   SetPreferenceRequest |-> <<"id">>,
   BlockVerifyRequest |-> <<"bytes", "p_chain_height">>,
   BlockVerifyResponse |-> <<"timestamp">>,
   BlockAcceptRequest |-> <<"id">>,
   BlockRejectRequest |-> <<"id">>]

VmAppMessages ==
  [HealthResponse |-> <<"details">>,
   VersionResponse |-> <<"version">>,
   AppRequestMsg |-> <<"node_id", "request_id", "deadline", "request">>,
   AppRequestFailedMsg |-> <<"node_id", "request_id">>,
   AppResponseMsg |-> <<"node_id", "request_id", "response">>,
   AppGossipMsg |-> <<"node_id", "msg">>,
   CrossChainAppRequestMsg |-> <<"chain_id", "request_id", "deadline", "request">>,
   CrossChainAppRequestFailedMsg |-> <<"chain_id", "request_id">>,
   CrossChainAppResponseMsg |-> <<"chain_id", "request_id", "response">>,
   ConnectedRequest |-> <<"node_id", "version">>,
   DisconnectedRequest |-> <<"node_id">>]

VmStateMessages ==
  [GetAncestorsRequest |->
     <<"blk_id", "max_blocks_num", "max_blocks_size", "max_blocks_retrival_time">>,
   GetAncestorsResponse |-> <<"blks_bytes">>,
   BatchedParseBlockRequest |-> <<"request">>,
   BatchedParseBlockResponse |-> <<"response">>,
   VerifyHeightIndexResponse |-> <<"err">>,
   GetBlockIdAtHeightRequest |-> <<"height">>,
   GetBlockIdAtHeightResponse |-> <<"blk_id", "err">>,
   GatherResponse |-> <<"metric_families">>,
   StateSyncEnabledResponse |-> <<"enabled", "err">>,
   GetOngoingSyncStateSummaryResponse |-> <<"id", "height", "bytes", "err">>,
   GetLastStateSummaryResponse |-> <<"id", "height", "bytes", "err">>,
   ParseStateSummaryRequest |-> <<"bytes">>,
   ParseStateSummaryResponse |-> <<"id", "height", "err">>,
   GetStateSummaryRequest |-> <<"height">>,
   GetStateSummaryResponse |-> <<"id", "bytes", "err">>,
   StateSummaryAcceptRequest |-> <<"bytes">>,
   StateSummaryAcceptResponse |-> <<"mode", "err">>]

-----------------------------------------------------------------------------
(* rpcdb.Database: the VM's calls of its database.                           *)

DatabaseStubs ==
  [has |-> <<"Has", "HasRequest", "HasResponse">>,
   get |-> <<"Get", "GetRequest", "GetResponse">>,
   put |-> <<"Put", "PutRequest", "PutResponse">>,
   delete |-> <<"Delete", "DeleteRequest", "DeleteResponse">>,
   compact |-> <<"Compact", "CompactRequest", "CompactResponse">>,
   close |-> <<"Close", "CloseRequest", "CloseResponse">>]

IteratorStubs ==
  [health_check |-> <<"HealthCheck", "Empty", "HealthCheckResponse">>,
   write_batch |-> <<"WriteBatch", "WriteBatchRequest", "WriteBatchResponse">>,
   new_iterator_with_start_and_prefix |->
     <<"NewIteratorWithStartAndPrefix", "NewIteratorWithStartAndPrefixRequest",
       "NewIteratorWithStartAndPrefixResponse">>,
   iterator_next |-> <<"IteratorNext", "IteratorNextRequest", "IteratorNextResponse">>,
   iterator_error |->
     <<"IteratorError", "IteratorErrorRequest", "IteratorErrorResponse">>,
   iterator_release |->
     <<"IteratorRelease", "IteratorReleaseRequest", "IteratorReleaseResponse">>]

DatabaseReadArms ==
  [Has |-> <<"has", "HasRequest", "HasResponse">>,
   Get |-> <<"get", "GetRequest", "GetResponse">>,
   Put |-> <<"put", "PutRequest", "PutResponse">>]

DatabaseCloseArms ==
  [Delete |-> <<"delete", "DeleteRequest", "DeleteResponse">>,
   Compact |-> <<"compact", "CompactRequest", "CompactResponse">>,
   Close |-> <<"close", "CloseRequest", "CloseResponse">>]

DatabaseBatchArms ==
  [HealthCheck |-> <<"health_check", "Empty", "HealthCheckResponse">>,
   WriteBatch |-> <<"write_batch", "WriteBatchRequest", "WriteBatchResponse">>,
   NewIteratorWithStartAndPrefix |->
     <<"new_iterator_with_start_and_prefix", "NewIteratorWithStartAndPrefixRequest",
       "NewIteratorWithStartAndPrefixResponse">>]

IteratorArms ==
  [IteratorNext |-> <<"iterator_next", "IteratorNextRequest", "IteratorNextResponse">>,
   IteratorError |->
     <<"iterator_error", "IteratorErrorRequest", "IteratorErrorResponse">>,
   IteratorRelease |->
     <<"iterator_release", "IteratorReleaseRequest", "IteratorReleaseResponse">>]

DatabaseMessages ==
  [HasRequest |-> <<"key">>,
   HasResponse |-> <<"has", "err">>,
   GetRequest |-> <<"key">>,
   GetResponse |-> <<"value", "err">>,
   PutRequest |-> <<"key", "value">>,
   PutResponse |-> <<"err">>,
   DeleteRequest |-> <<"key">>,
   DeleteResponse |-> <<"err">>,
   CompactRequest |-> <<"start", "limit">>,
   CompactResponse |-> <<"err">>,
   CloseRequest |-> <<>>,
   CloseResponse |-> <<"err">>,
   WriteBatchRequest |-> <<"puts", "deletes">>,
   WriteBatchResponse |-> <<"err">>,
   NewIteratorWithStartAndPrefixRequest |-> <<"start", "prefix">>,
   NewIteratorWithStartAndPrefixResponse |-> <<"id">>,
   IteratorNextRequest |-> <<"id">>,
   IteratorNextResponse |-> <<"data">>,
   IteratorErrorRequest |-> <<"id">>,
   IteratorErrorResponse |-> <<"err">>,
   IteratorReleaseRequest |-> <<"id">>,
   IteratorReleaseResponse |-> <<"err">>,
   HealthCheckResponse |-> <<"details">>]

-----------------------------------------------------------------------------
(* What the node serves at the address it gives initialize.                  *)

AppSenderStubs ==
  [send_app_request |-> <<"SendAppRequest", "SendAppRequestMsg", "Empty">>,
   send_app_response |-> <<"SendAppResponse", "SendAppResponseMsg", "Empty">>,
   send_app_gossip |-> <<"SendAppGossip", "SendAppGossipMsg", "Empty">>,
   send_app_gossip_specific |->
     <<"SendAppGossipSpecific", "SendAppGossipSpecificMsg", "Empty">>,
   send_cross_chain_app_request |->
     <<"SendCrossChainAppRequest", "SendCrossChainAppRequestMsg", "Empty">>,
   send_cross_chain_app_response |->
     <<"SendCrossChainAppResponse", "SendCrossChainAppResponseMsg", "Empty">>]

AppSenderArms ==
  [SendAppRequest |-> <<"send_app_request", "SendAppRequestMsg", "Empty">>,
   SendAppResponse |-> <<"send_app_response", "SendAppResponseMsg", "Empty">>,
   SendAppGossip |-> <<"send_app_gossip", "SendAppGossipMsg", "Empty">>]

CrossChainSenderArms ==
  [SendAppGossipSpecific |->
     <<"send_app_gossip_specific", "SendAppGossipSpecificMsg", "Empty">>,
   SendCrossChainAppRequest |->
     <<"send_cross_chain_app_request", "SendCrossChainAppRequestMsg", "Empty">>,
   SendCrossChainAppResponse |->
     <<"send_cross_chain_app_response", "SendCrossChainAppResponseMsg", "Empty">>]

AppSenderMessages ==
  [SendAppRequestMsg |-> <<"node_ids", "request_id", "request">>,
   SendAppResponseMsg |-> <<"node_id", "request_id", "response">>,
   SendAppGossipMsg |-> <<"msg">>,
   SendAppGossipSpecificMsg |-> <<"node_ids", "msg">>,
   SendCrossChainAppRequestMsg |-> <<"chain_id", "request_id", "request">>,
   SendCrossChainAppResponseMsg |-> <<"chain_id", "request_id", "response">>]

ValidatorStateStubs ==
  [get_minimum_height |-> <<"GetMinimumHeight", "Empty", "GetMinimumHeightResponse">>,
   get_current_height |-> <<"GetCurrentHeight", "Empty", "GetCurrentHeightResponse">>,
   get_subnet_id |-> <<"GetSubnetID", "GetSubnetIdRequest", "GetSubnetIdResponse">>,
   get_validator_set |->
     <<"GetValidatorSet", "GetValidatorSetRequest", "GetValidatorSetResponse">>]

HeightArms ==
  [GetMinimumHeight |-> <<"get_minimum_height", "Empty", "GetMinimumHeightResponse">>,
   GetCurrentHeight |-> <<"get_current_height", "Empty", "GetCurrentHeightResponse">>]

ValidatorSetArms ==
  [GetSubnetID |-> <<"get_subnet_id", "GetSubnetIdRequest", "GetSubnetIdResponse">>,
   GetValidatorSet |->
     <<"get_validator_set", "GetValidatorSetRequest", "GetValidatorSetResponse">>]

ValidatorStateMessages ==
  [GetMinimumHeightResponse |-> <<"height">>,
   GetCurrentHeightResponse |-> <<"height">>,
   GetSubnetIdRequest |-> <<"chain_id">>,
   GetSubnetIdResponse |-> <<"subnet_id">>,
   GetValidatorSetRequest |-> <<"height", "subnet_id">>,
   Validator |-> <<"node_id", "weight", "public_key">>,
   GetValidatorSetResponse |-> <<"validators">>]

SharedMemoryStubs ==
  [get |-> <<"Get", "GetRequest", "GetResponse">>,
   indexed |-> <<"Indexed", "IndexedRequest", "IndexedResponse">>,
   apply |-> <<"Apply", "ApplyRequest", "ApplyResponse">>]

SharedMemoryArms ==
  [Get |-> <<"get", "GetRequest", "GetResponse">>,
   Indexed |-> <<"indexed", "IndexedRequest", "IndexedResponse">>,
   Apply |-> <<"apply", "ApplyRequest", "ApplyResponse">>]

SharedMemoryMessages ==
  [GetRequest |-> <<"peer_chain_id", "keys">>,
   GetResponse |-> <<"values">>,
   IndexedRequest |->
     <<"peer_chain_id", "traits", "start_trait", "start_key", "limit">>,
   IndexedResponse |-> <<"values", "last_trait", "last_key">>,
   ApplyRequest |-> <<"requests", "batches">>,
   ApplyResponse |-> <<>>]

AliasReaderStubs ==
  [lookup |-> <<"Lookup", "Alias", "Id">>,
   primary_alias |-> <<"PrimaryAlias", "Id", "Alias">>,
   aliases |-> <<"Aliases", "Id", "AliasList">>]

AliasReaderArms ==
  [Lookup |-> <<"lookup", "Alias", "Id">>,
   PrimaryAlias |-> <<"primary_alias", "Id", "Alias">>,
   Aliases |-> <<"aliases", "Id", "AliasList">>]

AliasReaderMessages ==
  [Id |-> <<"id">>,
   Alias |-> <<"alias">>,
   AliasList |-> <<"aliases">>]

KeystoreStubs ==
  [get_database |-> <<"GetDatabase", "GetDatabaseRequest", "GetDatabaseResponse">>]

KeystoreArms ==
  [GetDatabase |-> <<"get_database", "GetDatabaseRequest", "GetDatabaseResponse">>]

KeystoreMessages ==
  [GetDatabaseRequest |-> <<"username", "password">>,
   GetDatabaseResponse |-> <<"-", "server_addr">>]

MessengerStubs ==
  [notify |-> <<"Notify", "NotifyRequest", "NotifyResponse">>]

MessengerArms ==
  [Notify |-> <<"notify", "NotifyRequest", "NotifyResponse">>]

MessengerMessages ==
  [NotifyRequest |-> <<"message">>,
   NotifyResponse |-> <<>>]

-----------------------------------------------------------------------------
(* What the VM tells the node when it starts, and the handlers of the VM.    *)

RuntimeStubs ==
  [initialize |-> <<"Initialize", "InitializeRequest", "Empty">>]

RuntimeArms ==
  [Initialize |-> <<"initialize", "InitializeRequest", "Empty">>]

RuntimeMessages ==
  [InitializeRequest |-> <<"protocol_version", "addr">>]

HttpStubs ==
  [handle |-> <<"Handle", "HttpRequest", "Empty">>,
   handle_simple |->
     <<"HandleSimple", "HandleSimpleHttpRequest", "HandleSimpleHttpResponse">>]

HttpArms ==
  [Handle |-> <<"handle", "HttpRequest", "Empty">>,
   HandleSimple |->
     <<"handle_simple", "HandleSimpleHttpRequest", "HandleSimpleHttpResponse">>]

HttpMessages ==
  [HttpRequest |-> <<"response_writer", "request">>,
   HandleSimpleHttpRequest |-> <<"method", "url", "headers", "body">>,
   HandleSimpleHttpResponse |-> <<"code", "headers", "body">>]

-----------------------------------------------------------------------------
(* The services, and what both ends do with a request.                      *)

\* Tables that have no name in common, as one.
Joined(tables) ==
  [name \in UNION {DOMAIN tables[i] : i \in DOMAIN tables} |->
     tables[CHOOSE i \in DOMAIN tables : name \in DOMAIN tables[i]][name]]

Services ==
  [vm |-> [stubs |-> Joined(<<VmLifeStubs, VmBlockStubs, VmAppStubs, VmCrossChainStubs,
                              VmStateStubs, VmDecisionStubs>>),
           arms |-> Joined(<<VmLifeArms, VmConnectArms, VmBlockArms, VmHealthArms,
                             VmAppArms, VmGossipArms, VmCrossChainArms, VmAncestorArms,
                             VmHeightArms, VmSyncArms, VmSummaryArms, VmDecisionArms,
                             VmAcceptArms>>),
           messages |-> Joined(<<VmLifeMessages, VmBlockMessages, VmAppMessages,
                                 VmStateMessages>>)],
   database |-> [stubs |-> Joined(<<DatabaseStubs, IteratorStubs>>),
                 arms |-> Joined(<<DatabaseReadArms, DatabaseCloseArms, DatabaseBatchArms,
                                   IteratorArms>>),
                 messages |-> DatabaseMessages],
   appsender |-> [stubs |-> AppSenderStubs,
                  arms |-> Joined(<<AppSenderArms, CrossChainSenderArms>>),
                  messages |-> AppSenderMessages],
   validators |-> [stubs |-> ValidatorStateStubs,
                   arms |-> Joined(<<HeightArms, ValidatorSetArms>>),
                   messages |-> ValidatorStateMessages],
   sharedmemory |-> [stubs |-> SharedMemoryStubs, arms |-> SharedMemoryArms,
                     messages |-> SharedMemoryMessages],
   aliasreader |-> [stubs |-> AliasReaderStubs, arms |-> AliasReaderArms,
                    messages |-> AliasReaderMessages],
   keystore |-> [stubs |-> KeystoreStubs, arms |-> KeystoreArms, messages |-> KeystoreMessages],
   messenger |-> [stubs |-> MessengerStubs, arms |-> MessengerArms,
                  messages |-> MessengerMessages],
   runtime |-> [stubs |-> RuntimeStubs, arms |-> RuntimeArms, messages |-> RuntimeMessages],
   http |-> [stubs |-> HttpStubs, arms |-> HttpArms, messages |-> HttpMessages]]

\* The fields of a message by their tags.
Fields(service, type) ==
  IF type = "Empty" THEN <<>> ELSE Services[service].messages[type]

FieldNames(service, type) ==
  {Fields(service, type)[t] : t \in DOMAIN Fields(service, type)} \ {"-"}

\* A field that has its default value takes no place on the wire.
Encode(service, type, values) ==
  LET fields == Fields(service, type) IN
  [t \in {u \in DOMAIN fields : fields[u] \in DOMAIN values} |-> values[fields[t]]]

\* The values of the fields that were on the wire; a tag the type does not
\* have is passed over.
Decode(service, type, wire) ==
  LET fields == Fields(service, type) IN
  [f \in {fields[t] : t \in DOMAIN fields \cap DOMAIN wire} \ {"-"} |->
     wire[CHOOSE t \in DOMAIN fields : fields[t] = f]]
=============================================================================
