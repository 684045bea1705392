--------------------------- MODULE RampInterfaces ---------------------------
(***************************************************************************)
(* Interfaces of the Router, the ramps, the ramp registry and receivers,   *)
(* as their callers see them: for each contract its types, its functions   *)
(* and its events.                                                         *)
(***************************************************************************)
EXTENDS Scval

-----------------------------------------------------------------------------
(* router                                                                  *)

RouterTokenAmount == Struct([amount |-> I128, token |-> Address])
RouterAnyToStellarMessage ==
    Struct([data |-> Bytes, dest_token_amounts |-> Vec(RouterTokenAmount),
        message_id |-> BytesN(32), sender |-> Bytes, source_chain_selector |-> U64])
RouterStellarToAnyMessage ==
    Struct([data |-> Bytes, extra_args |-> Bytes, fee_token |-> Address, receiver |-> Bytes,
        token_amounts |-> Vec(RouterTokenAmount)])
RouterOnRampEntry == Struct([dest_chain_selector |-> U64, onramp |-> Address])
RouterOffRampEntry == Struct([offramp |-> Address, source_chain_selector |-> U64])
RouterRouterConfig == Struct([rmn_proxy |-> Address])

RouterFunctions ==
    [owner |-> Fn(<<>>, Option(Address)),
     get_fee |-> Fn(<<U64, RouterStellarToAnyMessage>>, I128),
     is_owner |-> Fn(<<Address>>, Bool),
     ccip_send |-> Fn(<<Address, U64, RouterStellarToAnyMessage, I128>>, BytesN(32)),
     get_config |-> Fn(<<>>, RouterRouterConfig),
     get_onramp |-> Fn(<<U64>>, Address),
     init_owner |-> Fn(<<Address>>, Void),
     initialize |-> Fn(<<Address, Address>>, Void),
     is_offramp |-> Fn(<<U64, Address>>, Bool),
     set_onramp |-> Fn(<<U64, Address>>, Void),
     add_offramp |-> Fn(<<U64, Address>>, Void),
     get_onramps |-> Fn(<<>>, Vec(RouterOnRampEntry)),
     get_offramps |-> Fn(<<>>, Vec(RouterOffRampEntry)),
     require_owner |-> Fn(<<>>, Address),
     route_message |-> Fn(<<Address, U64, Address, RouterAnyToStellarMessage>>, Void),
     set_new_owner |-> Fn(<<Address>>, Void),
     remove_offramp |-> Fn(<<U64, Address>>, Void),
     accept_ownership |-> Fn(<<>>, Void),
     type_and_version |-> Fn(<<>>, Text),
     get_pending_owner |-> Fn(<<>>, Option(Address)),
     apply_ramp_updates |-> Fn(<<Vec(RouterOnRampEntry), Vec(RouterOffRampEntry),
         Vec(RouterOffRampEntry)>>, Void),
     is_chain_supported |-> Fn(<<U64>>, Bool),
     transfer_ownership |-> Fn(<<Address>>, Void),
     cancel_ownership_transfer |-> Fn(<<>>, Void)]

RouterEvents ==
    OwnableEvents @@
    [OnRampSetEvent |-> Event("router_OnRampSet", [dest_chain_selector |-> U64,
         onramp |-> Address]),
     OffRampAddedEvent |-> Event("router_OffRampAdded", [source_chain_selector |-> U64,
         offramp |-> Address]),
     OffRampRemovedEvent |-> Event("router_OffRampRemoved", [source_chain_selector |-> U64,
         offramp |-> Address]),
     MessageExecutedEvent |-> Event("router_MessageExecuted", [message_id |-> BytesN(32),
         source_chain_selector |-> U64, offramp |-> Address]),
     CCIPSendRequestedEvent |-> Event("router_CCIPSendRequested", [message_id |-> BytesN(32),
         dest_chain_selector |-> U64, sender |-> Address])]

RouterKeys == <<>>

-----------------------------------------------------------------------------
(* onramp                                                                  *)

OnrampReceipt ==
    Struct([dest_bytes_overhead |-> U32, dest_gas_limit |-> U32, extra_args |-> Bytes,
        fee_token_amount |-> I128, issuer |-> Address])
OnrampStaticConfig ==
    Struct([chain_selector |-> U64, max_usd_cents_per_message |-> U32, rmn_proxy |-> Address,
        token_admin_registry |-> Address])
OnrampDynamicConfig == Struct([fee_aggregator |-> Address, fee_quoter |-> Address])
OnrampDestChainConfig ==
    Struct([address_bytes_length |-> U32, base_execution_gas_cost |-> U32,
        default_ccvs |-> Vec(Address), default_executor |-> Address,
        execution_fee_usd_cents |-> U32, lane_mandated_ccvs |-> Vec(Address),
        message_network_fee_usd_cents |-> U32, message_number |-> U64, off_ramp |-> Bytes,
        router |-> Address, token_network_fee_usd_cents |-> U32, token_receiver_allowed |-> Bool])
OnrampDestChainConfigArgs ==
    Struct([address_bytes_length |-> U32, base_execution_gas_cost |-> U32,
        default_ccvs |-> Vec(Address), default_executor |-> Address, dest_chain_selector |-> U64,
        execution_fee_usd_cents |-> U32, lane_mandated_ccvs |-> Vec(Address),
        message_network_fee_usd_cents |-> U32, off_ramp |-> Bytes, router |-> Address,
        token_network_fee_usd_cents |-> U32, token_receiver_allowed |-> Bool])
OnrampTokenAmount == Struct([token |-> Address, amount |-> I128])
OnrampStellarToAnyMessage ==
    Struct([receiver |-> Bytes, data |-> Bytes, token_amounts |-> Vec(OnrampTokenAmount),
        fee_token |-> Address, extra_args |-> Bytes])

OnrampFunctions ==
    [init |-> Fn(<<Address>>, Void),
     owner |-> Fn(<<>>, Option(Address)),
     get_fee |-> Fn(<<U64, OnrampStellarToAnyMessage>>, I128),
     is_owner |-> Fn(<<Address>>, Bool),
     is_cursed |-> Fn(<<>>, Bool),
     init_owner |-> Fn(<<Address>>, Void),
     initialize |-> Fn(<<Address, OnrampStaticConfig, OnrampDynamicConfig>>, Void),
     require_owner |-> Fn(<<>>, Address),
     set_new_owner |-> Fn(<<Address>>, Void),
     accept_ownership |-> Fn(<<>>, Void),
     type_and_version |-> Fn(<<>>, Text),
     get_pending_owner |-> Fn(<<>>, Option(Address)),
     get_static_config |-> Fn(<<>>, OnrampStaticConfig),
     is_subject_cursed |-> Fn(<<BytesN(16)>>, Bool),
     get_dynamic_config |-> Fn(<<>>, OnrampDynamicConfig),
     require_not_cursed |-> Fn(<<>>, Void),
     set_dynamic_config |-> Fn(<<OnrampDynamicConfig>>, Void),
     transfer_ownership |-> Fn(<<Address>>, Void),
     forward_from_router |-> Fn(<<U64, OnrampStellarToAnyMessage, I128, Address>>, BytesN(32)),
     withdraw_fee_tokens |-> Fn(<<Vec(Address)>>, Void),
     get_dest_chain_config |-> Fn(<<U64>>, OnrampDestChainConfig),
     get_pool_by_source_token |-> Fn(<<Address>>, Address),
     require_chain_not_cursed |-> Fn(<<U64>>, Void),
     cancel_ownership_transfer |-> Fn(<<>>, Void),
     get_all_dest_chain_configs |-> Fn(<<>>, Tuple(<<Vec(U64), Vec(OnrampDestChainConfig)>>)),
     require_subject_not_cursed |-> Fn(<<BytesN(16)>>, Void),
     apply_dest_chain_config_updates |-> Fn(<<Vec(OnrampDestChainConfigArgs)>>, Void),
     get_expected_next_message_number |-> Fn(<<U64>>, U64)]

OnrampEvents ==
    OwnableEvents @@
    [ConfigSetEvent |-> Event("onramp_1_7_ConfigSet", [static_config |-> OnrampStaticConfig,
         dynamic_config |-> OnrampDynamicConfig]),
     CCIPMessageSentEvent |-> Event("onramp_1_7_CCIPMessageSent", [dest_chain_selector |-> U64,
         sequence_number |-> U64, sender |-> Address, message_id |-> BytesN(32),
         fee_token |-> Address, token_amount_before_fees |-> I128, encoded_message |-> Bytes,
         receipts |-> Vec(OnrampReceipt), verifier_blobs |-> Vec(Bytes)]),
     DestChainConfigSetEvent |-> Event("onramp_1_7_DestChainConfigSet",
         [dest_chain_selector |-> U64, message_number |-> U64, config |-> OnrampDestChainConfig])]

OnrampKeys == <<>>

-----------------------------------------------------------------------------
(* offramp                                                                 *)

OfframpStaticConfig ==
    Struct([chain_selector |-> U64, rmn_proxy |-> Address, token_admin_registry |-> Address])
OfframpSourceChainConfig ==
    Struct([default_ccvs |-> Vec(Address), is_enabled |-> Bool,
        lane_mandated_ccvs |-> Vec(Address), on_ramps |-> Vec(Bytes), router |-> Address])
OfframpSourceChainConfigArgs ==
    Struct([default_ccvs |-> Vec(Address), is_enabled |-> Bool,
        lane_mandated_ccvs |-> Vec(Address), on_ramps |-> Vec(Bytes), router |-> Address,
        source_chain_selector |-> U64])
OfframpDataKey == Union([ExecState |-> <<BytesN(32)>>])
OfframpMessageExecutionState ==
    Codes([Untouched |-> 0, InProgress |-> 1, Success |-> 2, Failure |-> 3])

OfframpFunctions ==
    [init |-> Fn(<<Address>>, Void),
     owner |-> Fn(<<>>, Option(Address)),
     execute |-> Fn(<<Bytes, Vec(Address), Vec(Bytes), U32>>, Void),
     is_owner |-> Fn(<<Address>>, Bool),
     is_cursed |-> Fn(<<>>, Bool),
     init_owner |-> Fn(<<Address>>, Void),
     initialize |-> Fn(<<Address, OfframpStaticConfig>>, Void),
     require_owner |-> Fn(<<>>, Address),
     set_new_owner |-> Fn(<<Address>>, Void),
     accept_ownership |-> Fn(<<>>, Void),
     type_and_version |-> Fn(<<>>, Text),
     get_pending_owner |-> Fn(<<>>, Option(Address)),
     get_static_config |-> Fn(<<>>, OfframpStaticConfig),
     is_subject_cursed |-> Fn(<<BytesN(16)>>, Bool),
     require_not_cursed |-> Fn(<<>>, Void),
     transfer_ownership |-> Fn(<<Address>>, Void),
     get_execution_state |-> Fn(<<BytesN(32)>>, OfframpMessageExecutionState),
     get_source_chain_config |-> Fn(<<U64>>, OfframpSourceChainConfig),
     require_chain_not_cursed |-> Fn(<<U64>>, Void),
     cancel_ownership_transfer |-> Fn(<<>>, Void),
     extend_execution_state_ttl |-> Fn(<<BytesN(32)>>, Void),
     require_subject_not_cursed |-> Fn(<<BytesN(16)>>, Void),
     get_all_source_chain_configs |-> Fn(<<>>, Tuple(<<Vec(U64),
         Vec(OfframpSourceChainConfig)>>)),
     apply_source_chain_cfg_updates |-> Fn(<<Vec(OfframpSourceChainConfigArgs)>>, Void)]

OfframpEvents ==
    OwnableEvents @@
    [StaticConfigSetEvent |-> Event("offramp_1_7_StaticConfigSet",
         [static_config |-> OfframpStaticConfig]),
     SourceChainConfigSetEvent |-> Event("offramp_1_7_SrcChainCfgSet",
         [source_chain_selector |-> U64, source_config |-> OfframpSourceChainConfig]),
     ExecutionStateChangedEvent |-> Event("offramp_1_7_ExecStateChanged",
         [source_chain_selector |-> U64, sequence_number |-> U64, message_id |-> BytesN(32),
         state |-> OfframpMessageExecutionState, return_data |-> Bytes])]

OfframpKeys == [DataKey |-> OfframpDataKey]

-----------------------------------------------------------------------------
(* ramp registry                                                           *)

RampRegistryOnRampEntry == Struct([dest_chain_selector |-> U64, onramp |-> Address])
RampRegistryOffRampEntry == Struct([offramp |-> Address, source_chain_selector |-> U64])
RampRegistryOnRampUpdate == Struct([dest_chain_selector |-> U64, onramp |-> Option(Address)])
RampRegistryOffRampUpdate ==
    Struct([enabled |-> Bool, offramp |-> Address, source_chain_selector |-> U64])

RampRegistryFunctions ==
    [owner |-> Fn(<<>>, Option(Address)),
     is_owner |-> Fn(<<Address>>, Bool),
     get_onramp |-> Fn(<<U64>>, Address),
     init_owner |-> Fn(<<Address>>, Void),
     initialize |-> Fn(<<Address>>, Void),
     is_offramp |-> Fn(<<U64, Address>>, Bool),
     get_onramps |-> Fn(<<>>, Vec(RampRegistryOnRampEntry)),
     get_offramps |-> Fn(<<>>, Vec(RampRegistryOffRampEntry)),
     require_owner |-> Fn(<<>>, Address),
     set_new_owner |-> Fn(<<Address>>, Void),
     accept_ownership |-> Fn(<<>>, Void),
     type_and_version |-> Fn(<<>>, Text),
     get_pending_owner |-> Fn(<<>>, Option(Address)),
     transfer_ownership |-> Fn(<<Address>>, Void),
     apply_onramp_updates |-> Fn(<<Vec(RampRegistryOnRampUpdate)>>, Void),
     apply_offramp_updates |-> Fn(<<Vec(RampRegistryOffRampUpdate)>>, Void),
     cancel_ownership_transfer |-> Fn(<<>>, Void)]

RampRegistryEvents ==
    OwnableEvents @@
    [OnRampSetEvent |-> Event("ramp_reg_OnRampSet", [dest_chain_selector |-> U64,
         onramp |-> Address]),
     OffRampAddedEvent |-> Event("ramp_reg_OffRampAdded", [source_chain_selector |-> U64,
         offramp |-> Address]),
     OnRampRemovedEvent |-> Event("ramp_reg_OnRampRemoved", [dest_chain_selector |-> U64]),
     OffRampRemovedEvent |-> Event("ramp_reg_OffRampRemoved", [source_chain_selector |-> U64,
         offramp |-> Address])]

RampRegistryKeys == <<>>

-----------------------------------------------------------------------------
(* ccip receiver                                                           *)

CcipReceiverCcvConfigUpdate ==
    Struct([source_chain_selector |-> U64, required_ccvs |-> Vec(Address),
        optional_ccvs |-> Vec(Address), optional_threshold |-> U32])
CcipReceiverCcvChainConfig ==
    Struct([required_ccvs |-> Vec(Address), optional_ccvs |-> Vec(Address),
        optional_threshold |-> U32])
CcipReceiverRemoteChainConfig == Struct([extra_args |-> Bytes, allowed_finality_config |-> U32])
CcipReceiverCcvsAndFinalityConfig ==
    Struct([required_ccvs |-> Vec(Address), optional_ccvs |-> Vec(Address),
        optional_threshold |-> U32, allowed_finality_config |-> U32])
CcipReceiverTokenAmount == Struct([amount |-> I128, token |-> Address])
CcipReceiverAnyToStellarMessage ==
    Struct([data |-> Bytes, dest_token_amounts |-> Vec(CcipReceiverTokenAmount),
        message_id |-> BytesN(32), sender |-> Bytes, source_chain_selector |-> U64])

CcipReceiverFunctions ==
    [owner |-> Fn(<<>>, Option(Address)),
     is_owner |-> Fn(<<Address>>, Bool),
     get_router |-> Fn(<<>>, Address),
     init_owner |-> Fn(<<Address>>, Void),
     initialize |-> Fn(<<Address, Address>>, Void),
     ccip_receive |-> Fn(<<CcipReceiverAnyToStellarMessage>>, Void),
     require_owner |-> Fn(<<>>, Address),
     set_new_owner |-> Fn(<<Address>>, Void),
     get_ccv_config |-> Fn(<<U64>>, CcipReceiverCcvChainConfig),
     last_message_id |-> Fn(<<>>, BytesN(32)),
     accept_ownership |-> Fn(<<>>, Void),
     type_and_version |-> Fn(<<>>, Text),
     get_pending_owner |-> Fn(<<>>, Option(Address)),
     transfer_ownership |-> Fn(<<Address>>, Void),
     enable_remote_chain |-> Fn(<<Address, U64, Bytes, U32>>, Void),
     disable_remote_chain |-> Fn(<<Address, U64>>, Void),
     get_remote_chain_config |-> Fn(<<U64>>, CcipReceiverRemoteChainConfig),
     send_data_pay_fee_token |-> Fn(<<Address, U64, Bytes, Bytes, Address, I128>>, BytesN(32)),
     apply_ccv_config_updates |-> Fn(<<Address, Vec(CcipReceiverCcvConfigUpdate)>>, Void),
     cancel_ownership_transfer |-> Fn(<<>>, Void),
     get_remote_chain_selectors |-> Fn(<<>>, Vec(U64)),
     get_remote_chain_extra_args |-> Fn(<<U64>>, Bytes),
     get_ccvs_and_finality_config |-> Fn(<<U64, Bytes>>, CcipReceiverCcvsAndFinalityConfig)]

CcipReceiverEvents ==
    OwnableEvents @@
    [CcipCcvConfigSetEvent |-> Event("example_CcvCfg", [source_chain_selector |-> U64,
         required_len |-> U32, optional_len |-> U32, optional_threshold |-> U32]),
     CcipMessageReceivedEvent |-> Event("example_CcipMessageReceived",
         [message_id |-> BytesN(32), source_chain_selector |-> U64, data_len |-> U32,
         sender_len |-> U32, dest_token_transfers |-> U32]),
     CcipRemoteChainConfiguredEvent |-> Event("example_RemChCfg", [dest_chain_selector |-> U64,
         extra_args_len |-> U32, allowed_finality_config |-> U32])]

CcipReceiverKeys == <<>>

-----------------------------------------------------------------------------

Interfaces ==
    [router |->
         [functions |-> RouterFunctions, events |-> RouterEvents,
          keys |-> RouterKeys],
     onramp |->
         [functions |-> OnrampFunctions, events |-> OnrampEvents,
          keys |-> OnrampKeys],
     offramp |->
         [functions |-> OfframpFunctions, events |-> OfframpEvents,
          keys |-> OfframpKeys],
     ramp_registry |->
         [functions |-> RampRegistryFunctions, events |-> RampRegistryEvents,
          keys |-> RampRegistryKeys],
     ccip_receiver |->
         [functions |-> CcipReceiverFunctions, events |-> CcipReceiverEvents,
          keys |-> CcipReceiverKeys]]
=============================================================================
