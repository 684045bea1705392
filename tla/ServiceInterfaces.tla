------------------------- MODULE ServiceInterfaces --------------------------
(***************************************************************************)
(* Interfaces of the fee quoter, RMN and the token admin registry, as      *)
(* their callers see them: for each contract its types, its functions and  *)
(* its events.                                                             *)
(***************************************************************************)
EXTENDS Scval

-----------------------------------------------------------------------------
(* fee quoter                                                              *)

FeeQuoterGasPriceUpdate == Struct([dest_chain_selector |-> U64, usd_per_unit_gas |-> U128])
FeeQuoterTokenPriceUpdate == Struct([token |-> Address, usd_per_token |-> U128])
FeeQuoterPriceUpdates ==
    Struct([gas_price_updates |-> Vec(FeeQuoterGasPriceUpdate),
        token_price_updates |-> Vec(FeeQuoterTokenPriceUpdate)])
FeeQuoterStaticConfig == Struct([link_token |-> Address, max_fee_juels_per_msg |-> I128])
FeeQuoterGasQuoteResult ==
    Struct([fee_token_price |-> U128, gas_cost_usd_cents |-> U128, premium_multiplier |-> U32,
        total_gas |-> U32])
FeeQuoterDestChainConfig ==
    Struct([default_token_dest_gas |-> U32, default_token_fee_usd |-> U32,
        default_tx_gas_limit |-> U32, dest_gas_overhead |-> U32, dest_gas_per_payload_byte |-> U32,
        is_enabled |-> Bool, link_premium_percent |-> U32, max_data_bytes |-> U32,
        max_per_msg_gas_limit |-> U32, network_fee_usd_cents |-> U32])
FeeQuoterMessageFeeResult ==
    Struct([fee_token_amount |-> I128, fee_token_price |-> U128, fee_usd_cents |-> U128])
FeeQuoterTimestampedPrice == Struct([timestamp |-> U64, value |-> U128])
FeeQuoterTokenTransferFeeConfig ==
    Struct([dest_bytes_overhead |-> U32, dest_gas_overhead |-> U32, fee_usd_cents |-> U32,
        is_enabled |-> Bool])
FeeQuoterTokenFeeConfigArgs ==
    Struct([config |-> FeeQuoterTokenTransferFeeConfig, dest_chain_selector |-> U64,
        token |-> Address])
FeeQuoterDestChainConfigArgs ==
    Struct([config |-> FeeQuoterDestChainConfig, dest_chain_selector |-> U64])
FeeQuoterTokenTransferFeeResult ==
    Struct([dest_bytes_overhead |-> U32, dest_gas_overhead |-> U32, fee_usd_cents |-> U32])
FeeQuoterTokenFeeConfigRemoveArgs == Struct([dest_chain_selector |-> U64, token |-> Address])
FeeQuoterTokenAmount == Struct([token |-> Address, amount |-> I128])
FeeQuoterStellarToAnyMessage ==
    Struct([receiver |-> Bytes, data |-> Bytes, token_amounts |-> Vec(FeeQuoterTokenAmount),
        fee_token |-> Address, extra_args |-> Bytes])

FeeQuoterFunctions ==
    [owner |-> Fn(<<>>, Option(Address)),
     is_owner |-> Fn(<<Address>>, Bool),
     init_owner |-> Fn(<<Address>>, Void),
     initialize |-> Fn(<<Address, FeeQuoterStaticConfig, Vec(Address)>>, Void),
     require_owner |-> Fn(<<>>, Address),
     set_new_owner |-> Fn(<<Address>>, Void),
     update_prices |-> Fn(<<Address, FeeQuoterPriceUpdates>>, Void),
     get_fee_tokens |-> Fn(<<>>, Vec(Address)),
     get_message_fee |-> Fn(<<U64, FeeQuoterStellarToAnyMessage>>, FeeQuoterMessageFeeResult),
     get_token_price |-> Fn(<<Address>>, FeeQuoterTimestampedPrice),
     accept_ownership |-> Fn(<<>>, Void),
     get_token_prices |-> Fn(<<Vec(Address)>>, Vec(FeeQuoterTimestampedPrice)),
     type_and_version |-> Fn(<<>>, Text),
     get_pending_owner |-> Fn(<<>>, Option(Address)),
     get_static_config |-> Fn(<<>>, FeeQuoterStaticConfig),
     remove_fee_tokens |-> Fn(<<Vec(Address)>>, Void),
     quote_gas_for_exec |-> Fn(<<U64, U32, U32, Address>>, FeeQuoterGasQuoteResult),
     transfer_ownership |-> Fn(<<Address>>, Void),
     convert_token_amount |-> Fn(<<Address, I128, Address>>, I128),
     get_all_dest_configs |-> Fn(<<>>, Tuple(<<Vec(U64), Vec(FeeQuoterDestChainConfig)>>)),
     get_token_fee_config |-> Fn(<<U64, Address>>, FeeQuoterTokenTransferFeeConfig),
     get_dest_chain_config |-> Fn(<<U64>>, FeeQuoterDestChainConfig),
     get_token_transfer_fee |-> Fn(<<U64, Address>>, FeeQuoterTokenTransferFeeResult),
     apply_token_fee_configs |-> Fn(<<Vec(FeeQuoterTokenFeeConfigArgs),
         Vec(FeeQuoterTokenFeeConfigRemoveArgs)>>, Void),
     apply_dest_chain_configs |-> Fn(<<Vec(FeeQuoterDestChainConfigArgs)>>, Void),
     get_dest_chain_gas_price |-> Fn(<<U64>>, FeeQuoterTimestampedPrice),
     cancel_ownership_transfer |-> Fn(<<>>, Void),
     get_validated_token_price |-> Fn(<<Address>>, U128)]

FeeQuoterEvents ==
    OwnableEvents @@
    [AuthorizedCallerAddedEvent |-> Event("auth_CallerAdded", [caller |-> Address]),
     FeeTokenAddedEvent |-> Event("fq_FeeTokenAdded", [fee_token |-> Address]),
     DestChainAddedEvent |-> Event("fq_DestChainAdded", [dest_chain_selector |-> U64,
         is_enabled |-> Bool, max_data_bytes |-> U32]),
     FeeTokenRemovedEvent |-> Event("fq_FeeTokenRemoved", [fee_token |-> Address]),
     UsdPerTokenUpdatedEvent |-> Event("fq_UsdPerTokenUpdated", [token |-> Address,
         value |-> U128, timestamp |-> U64]),
     UsdPerUnitGasUpdatedEvent |-> Event("fq_UsdPerUnitGasUpdated",
         [dest_chain_selector |-> U64, value |-> U128, timestamp |-> U64]),
     TokenFeeConfigDeletedEvent |-> Event("fq_TknTransferFeeDeleted",
         [dest_chain_selector |-> U64, token |-> Address]),
     TokenFeeConfigUpdatedEvent |-> Event("fq_TknTransferFeeUpdated",
         [dest_chain_selector |-> U64, token |-> Address, fee_usd_cents |-> U32,
         dest_gas_overhead |-> U32, dest_bytes_overhead |-> U32]),
     DestChainConfigUpdatedEvent |-> Event("fq_DestChainConfigUpdated",
         [dest_chain_selector |-> U64, is_enabled |-> Bool, max_data_bytes |-> U32])]

FeeQuoterKeys == <<>>

-----------------------------------------------------------------------------
(* rmn remote                                                              *)

RmnRemoteFunctions ==
    [curse |-> Fn(<<Address, Vec(BytesN(16))>>, Void),
     owner |-> Fn(<<>>, Option(Address)),
     uncurse |-> Fn(<<Vec(BytesN(16))>>, Void),
     is_owner |-> Fn(<<Address>>, Bool),
     is_cursed |-> Fn(<<>>, Bool),
     init_owner |-> Fn(<<Address>>, Void),
     initialize |-> Fn(<<Address, Vec(Address)>>, Void),
     require_owner |-> Fn(<<>>, Address),
     set_new_owner |-> Fn(<<Address>>, Void),
     accept_ownership |-> Fn(<<>>, Void),
     get_curse_admins |-> Fn(<<>>, Vec(Address)),
     type_and_version |-> Fn(<<>>, Text),
     get_pending_owner |-> Fn(<<>>, Option(Address)),
     transfer_ownership |-> Fn(<<Address>>, Void),
     get_cursed_subjects |-> Fn(<<>>, Vec(BytesN(16))),
     is_cursed_by_subject |-> Fn(<<BytesN(16)>>, Bool),
     apply_curse_admin_updates |-> Fn(<<Vec(Address), Vec(Address)>>, Void),
     cancel_ownership_transfer |-> Fn(<<>>, Void)]

RmnRemoteEvents ==
    OwnableEvents @@
    [AuthorizedCallerAddedEvent |-> Event("auth_CallerAdded", [caller |-> Address]),
     AuthorizedCallerRemovedEvent |-> Event("auth_CallerRemoved", [caller |-> Address]),
     CursedEvent |-> Event("rmn_Cursed", [subjects |-> Vec(BytesN(16))]),
     UncursedEvent |-> Event("rmn_Uncursed", [subjects |-> Vec(BytesN(16))])]

RmnRemoteKeys == <<>>

-----------------------------------------------------------------------------
(* rmn proxy                                                               *)

RmnProxyFunctions ==
    [owner |-> Fn(<<>>, Option(Address)),
     get_rmn |-> Fn(<<>>, Address),
     set_rmn |-> Fn(<<Address>>, Void),
     is_owner |-> Fn(<<Address>>, Bool),
     is_cursed |-> Fn(<<>>, Bool),
     init_owner |-> Fn(<<Address>>, Void),
     initialize |-> Fn(<<Address, Address>>, Void),
     require_owner |-> Fn(<<>>, Address),
     set_new_owner |-> Fn(<<Address>>, Void),
     accept_ownership |-> Fn(<<>>, Void),
     type_and_version |-> Fn(<<>>, Text),
     get_pending_owner |-> Fn(<<>>, Option(Address)),
     transfer_ownership |-> Fn(<<Address>>, Void),
     cancel_ownership_transfer |-> Fn(<<>>, Void)]

RmnProxyEvents ==
    OwnableEvents @@
    [RmnSetEvent |-> Event("rmn_proxy_RmnSet", [rmn |-> Address])]

RmnProxyKeys == <<>>

-----------------------------------------------------------------------------
(* token admin registry                                                    *)

TokenAdminRegistryTokenConfig ==
    Struct([administrator |-> Option(Address), pending_administrator |-> Option(Address),
        token_pool |-> Option(Address)])
TokenAdminRegistryDataKey == Union([TokenConfig |-> <<Address>>, TokenIndex |-> <<U32>>])

TokenAdminRegistryFunctions ==
    [owner |-> Fn(<<>>, Option(Address)),
     get_pool |-> Fn(<<Address>>, Option(Address)),
     is_owner |-> Fn(<<Address>>, Bool),
     set_pool |-> Fn(<<Address, Option(Address)>>, Void),
     get_pools |-> Fn(<<Vec(Address)>>, Vec(Option(Address))),
     init_owner |-> Fn(<<Address>>, Void),
     initialize |-> Fn(<<Address>>, Void),
     require_owner |-> Fn(<<>>, Address),
     set_new_owner |-> Fn(<<Address>>, Void),
     accept_ownership |-> Fn(<<>>, Void),
     get_token_config |-> Fn(<<Address>>, TokenAdminRegistryTokenConfig),
     is_administrator |-> Fn(<<Address, Address>>, Bool),
     type_and_version |-> Fn(<<>>, Text),
     accept_admin_role |-> Fn(<<Address>>, Void),
     get_pending_owner |-> Fn(<<>>, Option(Address)),
     is_registry_module |-> Fn(<<Address>>, Bool),
     transfer_ownership |-> Fn(<<Address>>, Void),
     add_registry_module |-> Fn(<<Address>>, Void),
     transfer_admin_role |-> Fn(<<Address, Option(Address)>>, Void),
     propose_administrator |-> Fn(<<Address, Address, Address>>, Void),
     remove_registry_module |-> Fn(<<Address>>, Void),
     cancel_ownership_transfer |-> Fn(<<>>, Void),
     get_all_configured_tokens |-> Fn(<<U32, U32>>, Vec(Address))]

TokenAdminRegistryEvents ==
    OwnableEvents @@
    [PoolSetEvent |-> Event("tar_PoolSet", [token |-> Address,
         previous_pool |-> Option(Address), new_pool |-> Option(Address)]),
     RegistryModuleAddedEvent |-> Event("tar_ModuleAdded", [module |-> Address]),
     RegistryModuleRemovedEvent |-> Event("tar_ModuleRemoved", [module |-> Address]),
     AdminTransferRequestedEvent |-> Event("tar_AdminTransferReq", [token |-> Address,
         current_admin |-> Option(Address), new_admin |-> Option(Address)]),
     AdministratorTransferredEvent |-> Event("tar_AdminTransferred", [token |-> Address,
         new_admin |-> Address])]

TokenAdminRegistryKeys == [DataKey |-> TokenAdminRegistryDataKey]

-----------------------------------------------------------------------------

Interfaces ==
    [fee_quoter |->
         [functions |-> FeeQuoterFunctions, events |-> FeeQuoterEvents,
          keys |-> FeeQuoterKeys],
     rmn_remote |->
         [functions |-> RmnRemoteFunctions, events |-> RmnRemoteEvents,
          keys |-> RmnRemoteKeys],
     rmn_proxy |->
         [functions |-> RmnProxyFunctions, events |-> RmnProxyEvents,
          keys |-> RmnProxyKeys],
     token_admin_registry |->
         [functions |-> TokenAdminRegistryFunctions, events |-> TokenAdminRegistryEvents,
          keys |-> TokenAdminRegistryKeys]]
=============================================================================
