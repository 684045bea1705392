---------------------------- MODULE RampClients -----------------------------
(***************************************************************************)
(* Generated Go clients of the Router, the ramps, the ramp registry and    *)
(* receivers: for each contract the types its client converts, a line for  *)
(* each method and for each event it can wait for.                         *)
(***************************************************************************)
EXTENDS Scval

-----------------------------------------------------------------------------
(* router                                                                  *)

RouterTokenAmount == Struct([amount |-> I128, token |-> Address])
RouterAnyToStellarMessage ==
    Struct([data |-> Bytes, dest_token_amounts |-> Vec(RouterTokenAmount),
        message_id |-> BytesN(32), sender |-> Bytes, source_chain_selector |-> U64])
RouterStellarToAnyMessage ==
    Struct([data |-> Bytes, extra_args |-> Bytes, fee_token |-> Address, receiver |-> Bytes,
        token_amounts |-> Vec(RouterTokenAmount)])
RouterOnRampEntry == Struct([dest_chain_selector |-> U64, onramp |-> Address])
RouterOffRampEntry == Struct([offramp |-> Address, source_chain_selector |-> U64])
RouterRouterConfig == Struct([rmn_proxy |-> Address])

RouterOwner == Simulate("owner", <<>>, Option(Address))
RouterGetFee == Simulate("get_fee", <<U64, RouterStellarToAnyMessage>>, I128)
RouterIsOwner == Simulate("is_owner", <<Address>>, Bool)
RouterCcipSend == Invoke("ccip_send", <<Address, U64, RouterStellarToAnyMessage, I128>>, BytesN(32))
RouterGetConfig == Simulate("get_config", <<>>, RouterRouterConfig)
RouterGetOnramp == Simulate("get_onramp", <<U64>>, Address)
RouterInitOwner == Invoke("init_owner", <<Address>>, Void)
RouterInitialize == Invoke("initialize", <<Address, Address>>, Void)
RouterIsOfframp == Simulate("is_offramp", <<U64, Address>>, Bool)
RouterSetOnramp == Invoke("set_onramp", <<U64, Address>>, Void)
RouterAddOfframp == Invoke("add_offramp", <<U64, Address>>, Void)
RouterGetOnramps == Simulate("get_onramps", <<>>, Vec(RouterOnRampEntry))
RouterGetOfframps == Simulate("get_offramps", <<>>, Vec(RouterOffRampEntry))
RouterRequireOwner == Invoke("require_owner", <<>>, Address)
RouterRouteMessage ==
    Invoke("route_message", <<Address, U64, Address, RouterAnyToStellarMessage>>, Void)
RouterSetNewOwner == Invoke("set_new_owner", <<Address>>, Void)
RouterRemoveOfframp == Invoke("remove_offramp", <<U64, Address>>, Void)
RouterAcceptOwnership == Invoke("accept_ownership", <<>>, Void)
RouterTypeAndVersion == Invoke("type_and_version", <<>>, Text)
RouterGetPendingOwner == Simulate("get_pending_owner", <<>>, Option(Address))
RouterApplyRampUpdates ==
    Invoke("apply_ramp_updates", <<Vec(RouterOnRampEntry), Vec(RouterOffRampEntry),
        Vec(RouterOffRampEntry)>>, Void)
RouterIsChainSupported == Simulate("is_chain_supported", <<U64>>, Bool)
RouterTransferOwnership == Invoke("transfer_ownership", <<Address>>, Void)
RouterCancelOwnershipTransfer == Invoke("cancel_ownership_transfer", <<>>, Void)

RouterRoleGrantedEvent ==
    Event("auth_RoleGranted", [role |-> Symbol, account |-> Address, sender |-> Address])
RouterRoleRevokedEvent ==
    Event("auth_RoleRevoked", [role |-> Symbol, account |-> Address, sender |-> Address])
RouterAuthorizedCallerAddedEvent == Event("auth_CallerAdded", [caller |-> Address])
RouterAuthorizedCallerRemovedEvent == Event("auth_CallerRemoved", [caller |-> Address])
RouterOwnershipTransferStartedEvent ==
    Event("auth_OwnerTransferStart", [previous_owner |-> Address, new_owner |-> Address])
RouterOnRampSetEvent == Event("router_OnRampSet", [dest_chain_selector |-> U64, onramp |-> Address])
RouterOffRampAddedEvent ==
    Event("router_OffRampAdded", [source_chain_selector |-> U64, offramp |-> Address])
RouterOffRampRemovedEvent ==
    Event("router_OffRampRemoved", [source_chain_selector |-> U64, offramp |-> Address])
RouterMessageExecutedEvent ==
    Event("router_MessageExecuted", [message_id |-> BytesN(32), source_chain_selector |-> U64,
        offramp |-> Address])
RouterCCIPSendRequestedEvent ==
    Event("router_CCIPSendRequested", [message_id |-> BytesN(32), dest_chain_selector |-> U64,
        sender |-> Address])

RouterKeys == <<>>

RouterMethods ==
    {RouterOwner, RouterGetFee, RouterIsOwner, RouterCcipSend, RouterGetConfig, RouterGetOnramp,
     RouterInitOwner, RouterInitialize, RouterIsOfframp, RouterSetOnramp, RouterAddOfframp,
     RouterGetOnramps, RouterGetOfframps, RouterRequireOwner, RouterRouteMessage,
     RouterSetNewOwner, RouterRemoveOfframp, RouterAcceptOwnership, RouterTypeAndVersion,
     RouterGetPendingOwner, RouterApplyRampUpdates, RouterIsChainSupported,
     RouterTransferOwnership, RouterCancelOwnershipTransfer}

RouterEvents ==
    [RoleGrantedEvent |-> RouterRoleGrantedEvent, RoleRevokedEvent |-> RouterRoleRevokedEvent,
     AuthorizedCallerAddedEvent |-> RouterAuthorizedCallerAddedEvent,
     AuthorizedCallerRemovedEvent |-> RouterAuthorizedCallerRemovedEvent,
     OwnershipTransferStartedEvent |-> RouterOwnershipTransferStartedEvent,
     OnRampSetEvent |-> RouterOnRampSetEvent, OffRampAddedEvent |-> RouterOffRampAddedEvent,
     OffRampRemovedEvent |-> RouterOffRampRemovedEvent,
     MessageExecutedEvent |-> RouterMessageExecutedEvent,
     CCIPSendRequestedEvent |-> RouterCCIPSendRequestedEvent]

-----------------------------------------------------------------------------
(* onramp                                                                  *)

OnrampTokenAmount == Struct([amount |-> I128, token |-> Address])
OnrampStellarToAnyMessage ==
    Struct([data |-> Bytes, extra_args |-> Bytes, fee_token |-> Address, receiver |-> Bytes,
        token_amounts |-> Vec(OnrampTokenAmount)])
OnrampReceipt ==
    Struct([dest_bytes_overhead |-> U32, dest_gas_limit |-> U32, extra_args |-> Bytes,
        fee_token_amount |-> I128, issuer |-> Address])
OnrampStaticConfig ==
    Struct([chain_selector |-> U64, max_usd_cents_per_message |-> U32, rmn_proxy |-> Address,
        token_admin_registry |-> Address])
OnrampDynamicConfig == Struct([fee_aggregator |-> Address, fee_quoter |-> Address])
OnrampDestChainConfig ==
    Struct([address_bytes_length |-> U32, base_execution_gas_cost |-> U32,
        default_ccvs |-> Vec(Address), default_executor |-> Address,
        execution_fee_usd_cents |-> U32, lane_mandated_ccvs |-> Vec(Address),
        message_network_fee_usd_cents |-> U32, message_number |-> U64, off_ramp |-> Bytes,
        router |-> Address, token_network_fee_usd_cents |-> U32, token_receiver_allowed |-> Bool])
OnrampDestChainConfigArgs ==
    Struct([address_bytes_length |-> U32, base_execution_gas_cost |-> U32,
        default_ccvs |-> Vec(Address), default_executor |-> Address, dest_chain_selector |-> U64,
        execution_fee_usd_cents |-> U32, lane_mandated_ccvs |-> Vec(Address),
        message_network_fee_usd_cents |-> U32, off_ramp |-> Bytes, router |-> Address,
        token_network_fee_usd_cents |-> U32, token_receiver_allowed |-> Bool])

OnrampInit == Invoke("init", <<Address>>, Void)
OnrampOwner == Simulate("owner", <<>>, Option(Address))
OnrampGetFee == Simulate("get_fee", <<U64, OnrampStellarToAnyMessage>>, I128)
OnrampIsOwner == Simulate("is_owner", <<Address>>, Bool)
OnrampIsCursed == Simulate("is_cursed", <<>>, Bool)
OnrampInitOwner == Invoke("init_owner", <<Address>>, Void)
OnrampInitialize == Invoke("initialize", <<Address, OnrampStaticConfig, OnrampDynamicConfig>>, Void)
OnrampRequireOwner == Invoke("require_owner", <<>>, Address)
OnrampSetNewOwner == Invoke("set_new_owner", <<Address>>, Void)
OnrampAcceptOwnership == Invoke("accept_ownership", <<>>, Void)
OnrampTypeAndVersion == Invoke("type_and_version", <<>>, Text)
OnrampGetPendingOwner == Simulate("get_pending_owner", <<>>, Option(Address))
OnrampGetStaticConfig == Simulate("get_static_config", <<>>, OnrampStaticConfig)
OnrampIsSubjectCursed == Simulate("is_subject_cursed", <<BytesN(16)>>, Bool)
OnrampGetDynamicConfig == Simulate("get_dynamic_config", <<>>, OnrampDynamicConfig)
OnrampRequireNotCursed == Invoke("require_not_cursed", <<>>, Void)
OnrampSetDynamicConfig == Invoke("set_dynamic_config", <<OnrampDynamicConfig>>, Void)
OnrampTransferOwnership == Invoke("transfer_ownership", <<Address>>, Void)
OnrampForwardFromRouter ==
    Invoke("forward_from_router", <<U64, OnrampStellarToAnyMessage, I128, Address>>, BytesN(32))
OnrampWithdrawFeeTokens == Invoke("withdraw_fee_tokens", <<Vec(Address)>>, Void)
OnrampGetDestChainConfig == Simulate("get_dest_chain_config", <<U64>>, OnrampDestChainConfig)
OnrampGetPoolBySourceToken == Simulate("get_pool_by_source_token", <<Address>>, Address)
OnrampRequireChainNotCursed == Invoke("require_chain_not_cursed", <<U64>>, Void)
OnrampCancelOwnershipTransfer == Invoke("cancel_ownership_transfer", <<>>, Void)
OnrampGetAllDestChainConfigs ==
    Simulate("get_all_dest_chain_configs", <<>>, Tuple(<<Vec(U64),
        Vec(OnrampDestChainConfig)>>))
OnrampRequireSubjectNotCursed == Invoke("require_subject_not_cursed", <<BytesN(16)>>, Void)
OnrampApplyDestChainConfigUpdates ==
    Invoke("apply_dest_chain_config_updates", <<Vec(OnrampDestChainConfigArgs)>>, Void)
OnrampGetExpectedNextMessageNumber == Simulate("get_expected_next_message_number", <<U64>>, U64)

OnrampRoleGrantedEvent ==
    Event("auth_RoleGranted", [role |-> Symbol, account |-> Address, sender |-> Address])
OnrampRoleRevokedEvent ==
    Event("auth_RoleRevoked", [role |-> Symbol, account |-> Address, sender |-> Address])
OnrampAuthorizedCallerAddedEvent == Event("auth_CallerAdded", [caller |-> Address])
OnrampAuthorizedCallerRemovedEvent == Event("auth_CallerRemoved", [caller |-> Address])
OnrampOwnershipTransferStartedEvent ==
    Event("auth_OwnerTransferStart", [previous_owner |-> Address, new_owner |-> Address])
OnrampConfigSetEvent ==
    Event("onramp_1_7_ConfigSet", [static_config |-> OnrampStaticConfig,
        dynamic_config |-> OnrampDynamicConfig])
OnrampCCIPMessageSentEvent ==
    Event("onramp_1_7_CCIPMessageSent", [dest_chain_selector |-> U64, sequence_number |-> U64,
        sender |-> Address, message_id |-> BytesN(32), fee_token |-> Address,
        token_amount_before_fees |-> I128, encoded_message |-> Bytes,
        receipts |-> Vec(OnrampReceipt), verifier_blobs |-> Vec(Bytes)])
OnrampDestChainConfigSetEvent ==
    Event("onramp_1_7_DestChainConfigSet", [dest_chain_selector |-> U64, message_number |-> U64,
        config |-> OnrampDestChainConfig])
OnrampOwnershipTransferredEvent == Event("onramp_1_7_OwnershipTransferred", [new_owner |-> Address])

OnrampKeys == <<>>

OnrampMethods ==
    {OnrampInit, OnrampOwner, OnrampGetFee, OnrampIsOwner, OnrampIsCursed, OnrampInitOwner,
     OnrampInitialize, OnrampRequireOwner, OnrampSetNewOwner, OnrampAcceptOwnership,
     OnrampTypeAndVersion, OnrampGetPendingOwner, OnrampGetStaticConfig, OnrampIsSubjectCursed,
     OnrampGetDynamicConfig, OnrampRequireNotCursed, OnrampSetDynamicConfig,
     OnrampTransferOwnership, OnrampForwardFromRouter, OnrampWithdrawFeeTokens,
     OnrampGetDestChainConfig, OnrampGetPoolBySourceToken, OnrampRequireChainNotCursed,
     OnrampCancelOwnershipTransfer, OnrampGetAllDestChainConfigs, OnrampRequireSubjectNotCursed,
     OnrampApplyDestChainConfigUpdates, OnrampGetExpectedNextMessageNumber}

OnrampEvents ==
    [RoleGrantedEvent |-> OnrampRoleGrantedEvent, RoleRevokedEvent |-> OnrampRoleRevokedEvent,
     AuthorizedCallerAddedEvent |-> OnrampAuthorizedCallerAddedEvent,
     AuthorizedCallerRemovedEvent |-> OnrampAuthorizedCallerRemovedEvent,
     OwnershipTransferStartedEvent |-> OnrampOwnershipTransferStartedEvent,
     ConfigSetEvent |-> OnrampConfigSetEvent,
     CCIPMessageSentEvent |-> OnrampCCIPMessageSentEvent,
     DestChainConfigSetEvent |-> OnrampDestChainConfigSetEvent,
     OwnershipTransferredEvent |-> OnrampOwnershipTransferredEvent]

-----------------------------------------------------------------------------
(* offramp                                                                 *)

OfframpStaticConfig ==
    Struct([chain_selector |-> U64, rmn_proxy |-> Address, token_admin_registry |-> Address])
OfframpSourceChainConfig ==
    Struct([default_ccvs |-> Vec(Address), is_enabled |-> Bool,
        lane_mandated_ccvs |-> Vec(Address), on_ramps |-> Vec(Bytes), router |-> Address])
OfframpSourceChainConfigArgs ==
    Struct([default_ccvs |-> Vec(Address), is_enabled |-> Bool,
        lane_mandated_ccvs |-> Vec(Address), on_ramps |-> Vec(Bytes), router |-> Address,
        source_chain_selector |-> U64])
OfframpMessageExecutionState ==
    Codes([Untouched |-> 0, InProgress |-> 1, Success |-> 2, Failure |-> 3])
OfframpDataKey == Union([ExecState |-> <<BytesN(32)>>])

OfframpInit == Invoke("init", <<Address>>, Void)
OfframpOwner == Simulate("owner", <<>>, Option(Address))
OfframpExecute == Invoke("execute", <<Bytes, Vec(Address), Vec(Bytes), U32>>, Void)
OfframpIsOwner == Simulate("is_owner", <<Address>>, Bool)
OfframpIsCursed == Simulate("is_cursed", <<>>, Bool)
OfframpInitOwner == Invoke("init_owner", <<Address>>, Void)
OfframpInitialize == Invoke("initialize", <<Address, OfframpStaticConfig>>, Void)
OfframpRequireOwner == Invoke("require_owner", <<>>, Address)
OfframpSetNewOwner == Invoke("set_new_owner", <<Address>>, Void)
OfframpAcceptOwnership == Invoke("accept_ownership", <<>>, Void)
OfframpTypeAndVersion == Invoke("type_and_version", <<>>, Text)
OfframpGetPendingOwner == Simulate("get_pending_owner", <<>>, Option(Address))
OfframpGetStaticConfig == Simulate("get_static_config", <<>>, OfframpStaticConfig)
OfframpIsSubjectCursed == Simulate("is_subject_cursed", <<BytesN(16)>>, Bool)
OfframpRequireNotCursed == Invoke("require_not_cursed", <<>>, Void)
OfframpTransferOwnership == Invoke("transfer_ownership", <<Address>>, Void)
OfframpGetExecutionState ==
    Simulate("get_execution_state", <<BytesN(32)>>, OfframpMessageExecutionState)
OfframpGetSourceChainConfig ==
    Simulate("get_source_chain_config", <<U64>>, OfframpSourceChainConfig)
OfframpRequireChainNotCursed == Invoke("require_chain_not_cursed", <<U64>>, Void)
OfframpCancelOwnershipTransfer == Invoke("cancel_ownership_transfer", <<>>, Void)
OfframpExtendExecutionStateTtl == Invoke("extend_execution_state_ttl", <<BytesN(32)>>, Void)
OfframpRequireSubjectNotCursed == Invoke("require_subject_not_cursed", <<BytesN(16)>>, Void)
OfframpGetAllSourceChainConfigs ==
    Simulate("get_all_source_chain_configs", <<>>, Tuple(<<Vec(U64),
        Vec(OfframpSourceChainConfig)>>))
OfframpApplySourceChainCfgUpdates ==
    Invoke("apply_source_chain_cfg_updates", <<Vec(OfframpSourceChainConfigArgs)>>, Void)

OfframpRoleGrantedEvent ==
    Event("auth_RoleGranted", [role |-> Symbol, account |-> Address, sender |-> Address])
OfframpRoleRevokedEvent ==
    Event("auth_RoleRevoked", [role |-> Symbol, account |-> Address, sender |-> Address])
OfframpAuthorizedCallerAddedEvent == Event("auth_CallerAdded", [caller |-> Address])
OfframpAuthorizedCallerRemovedEvent == Event("auth_CallerRemoved", [caller |-> Address])
OfframpOwnershipTransferStartedEvent ==
    Event("auth_OwnerTransferStart", [previous_owner |-> Address, new_owner |-> Address])
OfframpStaticConfigSetEvent ==
    Event("offramp_1_7_StaticConfigSet", [static_config |-> OfframpStaticConfig])
OfframpSourceChainConfigSetEvent ==
    Event("offramp_1_7_SrcChainCfgSet", [source_chain_selector |-> U64,
        source_config |-> OfframpSourceChainConfig])
OfframpExecutionStateChangedEvent ==
    Event("offramp_1_7_ExecStateChanged", [source_chain_selector |-> U64,
        sequence_number |-> U64, message_id |-> BytesN(32), state |-> OfframpMessageExecutionState,
        return_data |-> Bytes])

OfframpKeys == [DataKey |-> OfframpDataKey]

OfframpMethods ==
    {OfframpInit, OfframpOwner, OfframpExecute, OfframpIsOwner, OfframpIsCursed,
     OfframpInitOwner, OfframpInitialize, OfframpRequireOwner, OfframpSetNewOwner,
     OfframpAcceptOwnership, OfframpTypeAndVersion, OfframpGetPendingOwner,
     OfframpGetStaticConfig, OfframpIsSubjectCursed, OfframpRequireNotCursed,
     OfframpTransferOwnership, OfframpGetExecutionState, OfframpGetSourceChainConfig,
     OfframpRequireChainNotCursed, OfframpCancelOwnershipTransfer,
     OfframpExtendExecutionStateTtl, OfframpRequireSubjectNotCursed,
     OfframpGetAllSourceChainConfigs, OfframpApplySourceChainCfgUpdates}

OfframpEvents ==
    [RoleGrantedEvent |-> OfframpRoleGrantedEvent, RoleRevokedEvent |-> OfframpRoleRevokedEvent,
     AuthorizedCallerAddedEvent |-> OfframpAuthorizedCallerAddedEvent,
     AuthorizedCallerRemovedEvent |-> OfframpAuthorizedCallerRemovedEvent,
     OwnershipTransferStartedEvent |-> OfframpOwnershipTransferStartedEvent,
     StaticConfigSetEvent |-> OfframpStaticConfigSetEvent,
     SourceChainConfigSetEvent |-> OfframpSourceChainConfigSetEvent,
     ExecutionStateChangedEvent |-> OfframpExecutionStateChangedEvent]

-----------------------------------------------------------------------------
(* ramp registry                                                           *)

RampRegistryOnRampEntry == Struct([dest_chain_selector |-> U64, onramp |-> Address])
RampRegistryOffRampEntry == Struct([offramp |-> Address, source_chain_selector |-> U64])
RampRegistryOnRampUpdate == Struct([dest_chain_selector |-> U64, onramp |-> Option(Address)])
RampRegistryOffRampUpdate ==
    Struct([enabled |-> Bool, offramp |-> Address, source_chain_selector |-> U64])

RampRegistryOwner == Simulate("owner", <<>>, Option(Address))
RampRegistryIsOwner == Simulate("is_owner", <<Address>>, Bool)
RampRegistryGetOnramp == Simulate("get_onramp", <<U64>>, Address)
RampRegistryInitOwner == Invoke("init_owner", <<Address>>, Void)
RampRegistryInitialize == Invoke("initialize", <<Address>>, Void)
RampRegistryIsOfframp == Simulate("is_offramp", <<U64, Address>>, Bool)
RampRegistryGetOnramps == Simulate("get_onramps", <<>>, Vec(RampRegistryOnRampEntry))
RampRegistryGetOfframps == Simulate("get_offramps", <<>>, Vec(RampRegistryOffRampEntry))
RampRegistryRequireOwner == Invoke("require_owner", <<>>, Address)
RampRegistrySetNewOwner == Invoke("set_new_owner", <<Address>>, Void)
RampRegistryAcceptOwnership == Invoke("accept_ownership", <<>>, Void)
RampRegistryTypeAndVersion == Invoke("type_and_version", <<>>, Text)
RampRegistryGetPendingOwner == Simulate("get_pending_owner", <<>>, Option(Address))
RampRegistryTransferOwnership == Invoke("transfer_ownership", <<Address>>, Void)
RampRegistryApplyOnrampUpdates ==
    Invoke("apply_onramp_updates", <<Vec(RampRegistryOnRampUpdate)>>, Void)
RampRegistryApplyOfframpUpdates ==
    Invoke("apply_offramp_updates", <<Vec(RampRegistryOffRampUpdate)>>, Void)
RampRegistryCancelOwnershipTransfer == Invoke("cancel_ownership_transfer", <<>>, Void)

RampRegistryOnRampSetEvent ==
    Event("ramp_reg_OnRampSet", [dest_chain_selector |-> U64, onramp |-> Address])
RampRegistryOffRampAddedEvent ==
    Event("ramp_reg_OffRampAdded", [source_chain_selector |-> U64, offramp |-> Address])
RampRegistryOnRampRemovedEvent == Event("ramp_reg_OnRampRemoved", [dest_chain_selector |-> U64])
RampRegistryOffRampRemovedEvent ==
    Event("ramp_reg_OffRampRemoved", [source_chain_selector |-> U64, offramp |-> Address])

RampRegistryKeys == <<>>

RampRegistryMethods ==
    {RampRegistryOwner, RampRegistryIsOwner, RampRegistryGetOnramp, RampRegistryInitOwner,
     RampRegistryInitialize, RampRegistryIsOfframp, RampRegistryGetOnramps,
     RampRegistryGetOfframps, RampRegistryRequireOwner, RampRegistrySetNewOwner,
     RampRegistryAcceptOwnership, RampRegistryTypeAndVersion, RampRegistryGetPendingOwner,
     RampRegistryTransferOwnership, RampRegistryApplyOnrampUpdates,
     RampRegistryApplyOfframpUpdates, RampRegistryCancelOwnershipTransfer}

RampRegistryEvents ==
    [OnRampSetEvent |-> RampRegistryOnRampSetEvent,
     OffRampAddedEvent |-> RampRegistryOffRampAddedEvent,
     OnRampRemovedEvent |-> RampRegistryOnRampRemovedEvent,
     OffRampRemovedEvent |-> RampRegistryOffRampRemovedEvent]

-----------------------------------------------------------------------------
(* ccip receiver                                                           *)

CcipReceiverCcvConfigUpdate ==
    Struct([source_chain_selector |-> U64, required_ccvs |-> Vec(Address),
        optional_ccvs |-> Vec(Address), optional_threshold |-> U32])
CcipReceiverCcvChainConfig ==
    Struct([required_ccvs |-> Vec(Address), optional_ccvs |-> Vec(Address),
        optional_threshold |-> U32])
CcipReceiverRemoteChainConfig == Struct([extra_args |-> Bytes, allowed_finality_config |-> U32])
CcipReceiverCcvsAndFinalityConfig ==
    Struct([required_ccvs |-> Vec(Address), optional_ccvs |-> Vec(Address),
        optional_threshold |-> U32, allowed_finality_config |-> U32])
CcipReceiverTokenAmount == Struct([amount |-> I128, token |-> Address])
CcipReceiverAnyToStellarMessage ==
    Struct([data |-> Bytes, dest_token_amounts |-> Vec(CcipReceiverTokenAmount),
        message_id |-> BytesN(32), sender |-> Bytes, source_chain_selector |-> U64])

CcipReceiverOwner == Simulate("owner", <<>>, Option(Address))
CcipReceiverIsOwner == Simulate("is_owner", <<Address>>, Bool)
CcipReceiverGetRouter == Simulate("get_router", <<>>, Address)
CcipReceiverInitOwner == Invoke("init_owner", <<Address>>, Void)
CcipReceiverInitialize == Invoke("initialize", <<Address, Address>>, Void)
CcipReceiverCcipReceive == Invoke("ccip_receive", <<CcipReceiverAnyToStellarMessage>>, Void)
CcipReceiverRequireOwner == Invoke("require_owner", <<>>, Address)
CcipReceiverSetNewOwner == Invoke("set_new_owner", <<Address>>, Void)
CcipReceiverGetCcvConfig == Simulate("get_ccv_config", <<U64>>, CcipReceiverCcvChainConfig)
CcipReceiverLastMessageId == Invoke("last_message_id", <<>>, BytesN(32))
CcipReceiverAcceptOwnership == Invoke("accept_ownership", <<>>, Void)
CcipReceiverTypeAndVersion == Invoke("type_and_version", <<>>, Text)
CcipReceiverGetPendingOwner == Simulate("get_pending_owner", <<>>, Option(Address))
CcipReceiverTransferOwnership == Invoke("transfer_ownership", <<Address>>, Void)
CcipReceiverEnableRemoteChain == Invoke("enable_remote_chain", <<Address, U64, Bytes, U32>>, Void)
CcipReceiverDisableRemoteChain == Invoke("disable_remote_chain", <<Address, U64>>, Void)
CcipReceiverGetRemoteChainConfig ==
    Simulate("get_remote_chain_config", <<U64>>, CcipReceiverRemoteChainConfig)
CcipReceiverSendDataPayFeeToken ==
    Invoke("send_data_pay_fee_token", <<Address, U64, Bytes, Bytes, Address, I128>>, BytesN(32))
CcipReceiverApplyCcvConfigUpdates ==
    Invoke("apply_ccv_config_updates", <<Address, Vec(CcipReceiverCcvConfigUpdate)>>, Void)
CcipReceiverCancelOwnershipTransfer == Invoke("cancel_ownership_transfer", <<>>, Void)
CcipReceiverGetRemoteChainSelectors == Simulate("get_remote_chain_selectors", <<>>, Vec(U64))
CcipReceiverGetRemoteChainExtraArgs == Simulate("get_remote_chain_extra_args", <<U64>>, Bytes)
CcipReceiverGetCcvsAndFinalityConfig ==
    Simulate("get_ccvs_and_finality_config", <<U64, Bytes>>, CcipReceiverCcvsAndFinalityConfig)

CcipReceiverCcipCcvConfigSetEvent ==
    Event("example_CcvCfg", [source_chain_selector |-> U64, required_len |-> U32,
        optional_len |-> U32, optional_threshold |-> U32])
CcipReceiverCcipMessageReceivedEvent ==
    Event("example_CcipMessageReceived", [message_id |-> BytesN(32),
        source_chain_selector |-> U64, data_len |-> U32, sender_len |-> U32,
        dest_token_transfers |-> U32])
CcipReceiverCcipRemoteChainConfiguredEvent ==
    Event("example_RemChCfg", [dest_chain_selector |-> U64, extra_args_len |-> U32,
        allowed_finality_config |-> U32])

CcipReceiverKeys == <<>>

CcipReceiverMethods ==
    {CcipReceiverOwner, CcipReceiverIsOwner, CcipReceiverGetRouter, CcipReceiverInitOwner,
     CcipReceiverInitialize, CcipReceiverCcipReceive, CcipReceiverRequireOwner,
     CcipReceiverSetNewOwner, CcipReceiverGetCcvConfig, CcipReceiverLastMessageId,
     CcipReceiverAcceptOwnership, CcipReceiverTypeAndVersion, CcipReceiverGetPendingOwner,
     CcipReceiverTransferOwnership, CcipReceiverEnableRemoteChain,
     CcipReceiverDisableRemoteChain, CcipReceiverGetRemoteChainConfig,
     CcipReceiverSendDataPayFeeToken, CcipReceiverApplyCcvConfigUpdates,
     CcipReceiverCancelOwnershipTransfer, CcipReceiverGetRemoteChainSelectors,
     CcipReceiverGetRemoteChainExtraArgs, CcipReceiverGetCcvsAndFinalityConfig}

CcipReceiverEvents ==
    [CcipCcvConfigSetEvent |-> CcipReceiverCcipCcvConfigSetEvent,
     CcipMessageReceivedEvent |-> CcipReceiverCcipMessageReceivedEvent,
     CcipRemoteChainConfiguredEvent |-> CcipReceiverCcipRemoteChainConfiguredEvent]

-----------------------------------------------------------------------------

Clients ==
    [router |->
         [methods |-> RouterMethods, events |-> RouterEvents,
          keys |-> RouterKeys],
     onramp |->
         [methods |-> OnrampMethods, events |-> OnrampEvents,
          keys |-> OnrampKeys],
     offramp |->
         [methods |-> OfframpMethods, events |-> OfframpEvents,
          keys |-> OfframpKeys],
     ramp_registry |->
         [methods |-> RampRegistryMethods, events |-> RampRegistryEvents,
          keys |-> RampRegistryKeys],
     ccip_receiver |->
         [methods |-> CcipReceiverMethods, events |-> CcipReceiverEvents,
          keys |-> CcipReceiverKeys]]
=============================================================================
