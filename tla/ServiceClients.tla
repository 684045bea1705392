--------------------------- MODULE ServiceClients ---------------------------
(***************************************************************************)
(* Generated Go clients of the fee quoter, RMN and the token admin         *)
(* registry: for each contract the types its client converts, a line for   *)
(* each method and for each event it can wait for.                         *)
(***************************************************************************)
EXTENDS Scval

-----------------------------------------------------------------------------
(* fee quoter                                                              *)

FeeQuoterTokenAmount == Struct([amount |-> I128, token |-> Address])
FeeQuoterStellarToAnyMessage ==
    Struct([data |-> Bytes, extra_args |-> Bytes, fee_token |-> Address, receiver |-> Bytes,
        token_amounts |-> Vec(FeeQuoterTokenAmount)])
FeeQuoterGasPriceUpdate == Struct([dest_chain_selector |-> U64, usd_per_unit_gas |-> U128])
FeeQuoterTokenPriceUpdate == Struct([token |-> Address, usd_per_token |-> U128])
FeeQuoterPriceUpdates ==
    Struct([gas_price_updates |-> Vec(FeeQuoterGasPriceUpdate),
        token_price_updates |-> Vec(FeeQuoterTokenPriceUpdate)])
FeeQuoterStaticConfig == Struct([link_token |-> Address, max_fee_juels_per_msg |-> I128])
FeeQuoterGasQuoteResult ==
    Struct([fee_token_price |-> U128, gas_cost_usd_cents |-> U128, premium_multiplier |-> U32,
        total_gas |-> U32])
FeeQuoterDestChainConfig ==
    Struct([default_token_dest_gas |-> U32, default_token_fee_usd |-> U32,
        default_tx_gas_limit |-> U32, dest_gas_overhead |-> U32, dest_gas_per_payload_byte |-> U32,
        is_enabled |-> Bool, link_premium_percent |-> U32, max_data_bytes |-> U32,
        max_per_msg_gas_limit |-> U32, network_fee_usd_cents |-> U32])
FeeQuoterMessageFeeResult ==
    Struct([fee_token_amount |-> I128, fee_token_price |-> U128, fee_usd_cents |-> U128])
FeeQuoterTimestampedPrice == Struct([timestamp |-> U64, value |-> U128])
FeeQuoterTokenTransferFeeConfig ==
    Struct([dest_bytes_overhead |-> U32, dest_gas_overhead |-> U32, fee_usd_cents |-> U32,
        is_enabled |-> Bool])
FeeQuoterTokenFeeConfigArgs ==
    Struct([config |-> FeeQuoterTokenTransferFeeConfig, dest_chain_selector |-> U64,
        token |-> Address])
FeeQuoterDestChainConfigArgs ==
    Struct([config |-> FeeQuoterDestChainConfig, dest_chain_selector |-> U64])
FeeQuoterTokenTransferFeeResult ==
    Struct([dest_bytes_overhead |-> U32, dest_gas_overhead |-> U32, fee_usd_cents |-> U32])
FeeQuoterTokenFeeConfigRemoveArgs == Struct([dest_chain_selector |-> U64, token |-> Address])

FeeQuoterOwner == Simulate("owner", <<>>, Option(Address))
FeeQuoterIsOwner == Simulate("is_owner", <<Address>>, Bool)
FeeQuoterInitOwner == Invoke("init_owner", <<Address>>, Void)
FeeQuoterInitialize == Invoke("initialize", <<Address, FeeQuoterStaticConfig, Vec(Address)>>, Void)
FeeQuoterRequireOwner == Invoke("require_owner", <<>>, Address)
FeeQuoterSetNewOwner == Invoke("set_new_owner", <<Address>>, Void)
FeeQuoterUpdatePrices == Invoke("update_prices", <<Address, FeeQuoterPriceUpdates>>, Void)
FeeQuoterGetFeeTokens == Simulate("get_fee_tokens", <<>>, Vec(Address))
FeeQuoterGetMessageFee ==
    Simulate("get_message_fee", <<U64, FeeQuoterStellarToAnyMessage>>,
        FeeQuoterMessageFeeResult)
FeeQuoterGetTokenPrice == Simulate("get_token_price", <<Address>>, FeeQuoterTimestampedPrice)
FeeQuoterAcceptOwnership == Invoke("accept_ownership", <<>>, Void)
FeeQuoterGetTokenPrices ==
    Simulate("get_token_prices", <<Vec(Address)>>, Vec(FeeQuoterTimestampedPrice))
FeeQuoterTypeAndVersion == Invoke("type_and_version", <<>>, Text)
FeeQuoterGetPendingOwner == Simulate("get_pending_owner", <<>>, Option(Address))
FeeQuoterGetStaticConfig == Simulate("get_static_config", <<>>, FeeQuoterStaticConfig)
FeeQuoterRemoveFeeTokens == Invoke("remove_fee_tokens", <<Vec(Address)>>, Void)
FeeQuoterQuoteGasForExec ==
    Invoke("quote_gas_for_exec", <<U64, U32, U32, Address>>, FeeQuoterGasQuoteResult)
FeeQuoterTransferOwnership == Invoke("transfer_ownership", <<Address>>, Void)
FeeQuoterConvertTokenAmount == Invoke("convert_token_amount", <<Address, I128, Address>>, I128)
FeeQuoterGetAllDestConfigs ==
    Simulate("get_all_dest_configs", <<>>, Tuple(<<Vec(U64), Vec(FeeQuoterDestChainConfig)>>))
FeeQuoterGetTokenFeeConfig ==
    Simulate("get_token_fee_config", <<U64, Address>>, FeeQuoterTokenTransferFeeConfig)
FeeQuoterGetDestChainConfig == Simulate("get_dest_chain_config", <<U64>>, FeeQuoterDestChainConfig)
FeeQuoterGetTokenTransferFee ==
    Simulate("get_token_transfer_fee", <<U64, Address>>, FeeQuoterTokenTransferFeeResult)
FeeQuoterApplyTokenFeeConfigs ==
    Invoke("apply_token_fee_configs", <<Vec(FeeQuoterTokenFeeConfigArgs),
        Vec(FeeQuoterTokenFeeConfigRemoveArgs)>>, Void)
FeeQuoterApplyDestChainConfigs ==
    Invoke("apply_dest_chain_configs", <<Vec(FeeQuoterDestChainConfigArgs)>>, Void)
FeeQuoterGetDestChainGasPrice ==
    Simulate("get_dest_chain_gas_price", <<U64>>, FeeQuoterTimestampedPrice)
FeeQuoterCancelOwnershipTransfer == Invoke("cancel_ownership_transfer", <<>>, Void)
FeeQuoterGetValidatedTokenPrice == Simulate("get_validated_token_price", <<Address>>, U128)

FeeQuoterRoleGrantedEvent ==
    Event("auth_RoleGranted", [role |-> Symbol, account |-> Address, sender |-> Address])
FeeQuoterRoleRevokedEvent ==
    Event("auth_RoleRevoked", [role |-> Symbol, account |-> Address, sender |-> Address])
FeeQuoterAuthorizedCallerAddedEvent == Event("auth_CallerAdded", [caller |-> Address])
FeeQuoterAuthorizedCallerRemovedEvent == Event("auth_CallerRemoved", [caller |-> Address])
FeeQuoterOwnershipTransferStartedEvent ==
    Event("auth_OwnerTransferStart", [previous_owner |-> Address, new_owner |-> Address])
FeeQuoterFeeTokenAddedEvent == Event("fq_FeeTokenAdded", [fee_token |-> Address])
FeeQuoterDestChainAddedEvent ==
    Event("fq_DestChainAdded", [dest_chain_selector |-> U64, is_enabled |-> Bool,
        max_data_bytes |-> U32])
FeeQuoterFeeTokenRemovedEvent == Event("fq_FeeTokenRemoved", [fee_token |-> Address])
FeeQuoterUsdPerTokenUpdatedEvent ==
    Event("fq_UsdPerTokenUpdated", [token |-> Address, value |-> U128, timestamp |-> U64])
FeeQuoterUsdPerUnitGasUpdatedEvent ==
    Event("fq_UsdPerUnitGasUpdated", [dest_chain_selector |-> U64, value |-> U128,
        timestamp |-> U64])
FeeQuoterTokenFeeConfigDeletedEvent ==
    Event("fq_TknTransferFeeDeleted", [dest_chain_selector |-> U64, token |-> Address])
FeeQuoterTokenFeeConfigUpdatedEvent ==
    Event("fq_TknTransferFeeUpdated", [dest_chain_selector |-> U64, token |-> Address,
        fee_usd_cents |-> U32, dest_gas_overhead |-> U32, dest_bytes_overhead |-> U32])
FeeQuoterDestChainConfigUpdatedEvent ==
    Event("fq_DestChainConfigUpdated", [dest_chain_selector |-> U64, is_enabled |-> Bool,
        max_data_bytes |-> U32])

FeeQuoterKeys == <<>>

FeeQuoterMethods ==
    {FeeQuoterOwner, FeeQuoterIsOwner, FeeQuoterInitOwner, FeeQuoterInitialize,
     FeeQuoterRequireOwner, FeeQuoterSetNewOwner, FeeQuoterUpdatePrices, FeeQuoterGetFeeTokens,
     FeeQuoterGetMessageFee, FeeQuoterGetTokenPrice, FeeQuoterAcceptOwnership,
     FeeQuoterGetTokenPrices, FeeQuoterTypeAndVersion, FeeQuoterGetPendingOwner,
     FeeQuoterGetStaticConfig, FeeQuoterRemoveFeeTokens, FeeQuoterQuoteGasForExec,
     FeeQuoterTransferOwnership, FeeQuoterConvertTokenAmount, FeeQuoterGetAllDestConfigs,
     FeeQuoterGetTokenFeeConfig, FeeQuoterGetDestChainConfig, FeeQuoterGetTokenTransferFee,
     FeeQuoterApplyTokenFeeConfigs, FeeQuoterApplyDestChainConfigs,
     FeeQuoterGetDestChainGasPrice, FeeQuoterCancelOwnershipTransfer,
     FeeQuoterGetValidatedTokenPrice}

FeeQuoterEvents ==
    [RoleGrantedEvent |-> FeeQuoterRoleGrantedEvent,
     RoleRevokedEvent |-> FeeQuoterRoleRevokedEvent,
     AuthorizedCallerAddedEvent |-> FeeQuoterAuthorizedCallerAddedEvent,
     AuthorizedCallerRemovedEvent |-> FeeQuoterAuthorizedCallerRemovedEvent,
     OwnershipTransferStartedEvent |-> FeeQuoterOwnershipTransferStartedEvent,
     FeeTokenAddedEvent |-> FeeQuoterFeeTokenAddedEvent,
     DestChainAddedEvent |-> FeeQuoterDestChainAddedEvent,
     FeeTokenRemovedEvent |-> FeeQuoterFeeTokenRemovedEvent,
     UsdPerTokenUpdatedEvent |-> FeeQuoterUsdPerTokenUpdatedEvent,
     UsdPerUnitGasUpdatedEvent |-> FeeQuoterUsdPerUnitGasUpdatedEvent,
     TokenFeeConfigDeletedEvent |-> FeeQuoterTokenFeeConfigDeletedEvent,
     TokenFeeConfigUpdatedEvent |-> FeeQuoterTokenFeeConfigUpdatedEvent,
     DestChainConfigUpdatedEvent |-> FeeQuoterDestChainConfigUpdatedEvent]

-----------------------------------------------------------------------------
(* rmn remote                                                              *)

RmnRemoteCurse == Invoke("curse", <<Address, Vec(BytesN(16))>>, Void)
RmnRemoteOwner == Simulate("owner", <<>>, Option(Address))
RmnRemoteUncurse == Invoke("uncurse", <<Vec(BytesN(16))>>, Void)
RmnRemoteIsOwner == Simulate("is_owner", <<Address>>, Bool)
RmnRemoteIsCursed == Simulate("is_cursed", <<>>, Bool)
RmnRemoteInitOwner == Invoke("init_owner", <<Address>>, Void)
RmnRemoteInitialize == Invoke("initialize", <<Address, Vec(Address)>>, Void)
RmnRemoteRequireOwner == Invoke("require_owner", <<>>, Address)
RmnRemoteSetNewOwner == Invoke("set_new_owner", <<Address>>, Void)
RmnRemoteAcceptOwnership == Invoke("accept_ownership", <<>>, Void)
RmnRemoteGetCurseAdmins == Simulate("get_curse_admins", <<>>, Vec(Address))
RmnRemoteTypeAndVersion == Invoke("type_and_version", <<>>, Text)
RmnRemoteGetPendingOwner == Simulate("get_pending_owner", <<>>, Option(Address))
RmnRemoteTransferOwnership == Invoke("transfer_ownership", <<Address>>, Void)
RmnRemoteGetCursedSubjects == Simulate("get_cursed_subjects", <<>>, Vec(BytesN(16)))
RmnRemoteIsCursedBySubject == Simulate("is_cursed_by_subject", <<BytesN(16)>>, Bool)
RmnRemoteApplyCurseAdminUpdates ==
    Invoke("apply_curse_admin_updates", <<Vec(Address), Vec(Address)>>, Void)
RmnRemoteCancelOwnershipTransfer == Invoke("cancel_ownership_transfer", <<>>, Void)

RmnRemoteAuthorizedCallerAddedEvent == Event("auth_CallerAdded", [caller |-> Address])
RmnRemoteAuthorizedCallerRemovedEvent == Event("auth_CallerRemoved", [caller |-> Address])
RmnRemoteOwnershipTransferStartedEvent ==
    Event("auth_OwnerTransferStart", [previous_owner |-> Address, new_owner |-> Address])
RmnRemoteCursedEvent == Event("rmn_Cursed", [subjects |-> Vec(BytesN(16))])
RmnRemoteUncursedEvent == Event("rmn_Uncursed", [subjects |-> Vec(BytesN(16))])

RmnRemoteKeys == <<>>

RmnRemoteMethods ==
    {RmnRemoteCurse, RmnRemoteOwner, RmnRemoteUncurse, RmnRemoteIsOwner, RmnRemoteIsCursed,
     RmnRemoteInitOwner, RmnRemoteInitialize, RmnRemoteRequireOwner, RmnRemoteSetNewOwner,
     RmnRemoteAcceptOwnership, RmnRemoteGetCurseAdmins, RmnRemoteTypeAndVersion,
     RmnRemoteGetPendingOwner, RmnRemoteTransferOwnership, RmnRemoteGetCursedSubjects,
     RmnRemoteIsCursedBySubject, RmnRemoteApplyCurseAdminUpdates,
     RmnRemoteCancelOwnershipTransfer}

RmnRemoteEvents ==
    [AuthorizedCallerAddedEvent |-> RmnRemoteAuthorizedCallerAddedEvent,
     AuthorizedCallerRemovedEvent |-> RmnRemoteAuthorizedCallerRemovedEvent,
     OwnershipTransferStartedEvent |-> RmnRemoteOwnershipTransferStartedEvent,
     CursedEvent |-> RmnRemoteCursedEvent, UncursedEvent |-> RmnRemoteUncursedEvent]

-----------------------------------------------------------------------------
(* rmn proxy                                                               *)

RmnProxyOwner == Simulate("owner", <<>>, Option(Address))
RmnProxyGetRmn == Simulate("get_rmn", <<>>, Address)
RmnProxySetRmn == Invoke("set_rmn", <<Address>>, Void)
RmnProxyIsOwner == Simulate("is_owner", <<Address>>, Bool)
RmnProxyIsCursed == Simulate("is_cursed", <<>>, Bool)
RmnProxyInitOwner == Invoke("init_owner", <<Address>>, Void)
RmnProxyInitialize == Invoke("initialize", <<Address, Address>>, Void)
RmnProxyRequireOwner == Invoke("require_owner", <<>>, Address)
RmnProxySetNewOwner == Invoke("set_new_owner", <<Address>>, Void)
RmnProxyAcceptOwnership == Invoke("accept_ownership", <<>>, Void)
RmnProxyTypeAndVersion == Invoke("type_and_version", <<>>, Text)
RmnProxyGetPendingOwner == Simulate("get_pending_owner", <<>>, Option(Address))
RmnProxyTransferOwnership == Invoke("transfer_ownership", <<Address>>, Void)
RmnProxyCancelOwnershipTransfer == Invoke("cancel_ownership_transfer", <<>>, Void)

RmnProxyRoleGrantedEvent ==
    Event("auth_RoleGranted", [role |-> Symbol, account |-> Address, sender |-> Address])
RmnProxyRoleRevokedEvent ==
    Event("auth_RoleRevoked", [role |-> Symbol, account |-> Address, sender |-> Address])
RmnProxyAuthorizedCallerAddedEvent == Event("auth_CallerAdded", [caller |-> Address])
RmnProxyAuthorizedCallerRemovedEvent == Event("auth_CallerRemoved", [caller |-> Address])
RmnProxyOwnershipTransferStartedEvent ==
    Event("auth_OwnerTransferStart", [previous_owner |-> Address, new_owner |-> Address])
RmnProxyRmnSetEvent == Event("rmn_proxy_RmnSet", [rmn |-> Address])

RmnProxyKeys == <<>>

RmnProxyMethods ==
    {RmnProxyOwner, RmnProxyGetRmn, RmnProxySetRmn, RmnProxyIsOwner, RmnProxyIsCursed,
     RmnProxyInitOwner, RmnProxyInitialize, RmnProxyRequireOwner, RmnProxySetNewOwner,
     RmnProxyAcceptOwnership, RmnProxyTypeAndVersion, RmnProxyGetPendingOwner,
     RmnProxyTransferOwnership, RmnProxyCancelOwnershipTransfer}

RmnProxyEvents ==
    [RoleGrantedEvent |-> RmnProxyRoleGrantedEvent,
     RoleRevokedEvent |-> RmnProxyRoleRevokedEvent,
     AuthorizedCallerAddedEvent |-> RmnProxyAuthorizedCallerAddedEvent,
     AuthorizedCallerRemovedEvent |-> RmnProxyAuthorizedCallerRemovedEvent,
     OwnershipTransferStartedEvent |-> RmnProxyOwnershipTransferStartedEvent,
     RmnSetEvent |-> RmnProxyRmnSetEvent]

-----------------------------------------------------------------------------
(* token admin registry                                                    *)

TokenAdminRegistryTokenConfig ==
    Struct([administrator |-> Option(Address), pending_administrator |-> Option(Address),
        token_pool |-> Option(Address)])
TokenAdminRegistryDataKey == Union([TokenConfig |-> <<Address>>, TokenIndex |-> <<U32>>])

TokenAdminRegistryOwner == Simulate("owner", <<>>, Option(Address))
TokenAdminRegistryGetPool == Simulate("get_pool", <<Address>>, Option(Address))
TokenAdminRegistryIsOwner == Simulate("is_owner", <<Address>>, Bool)
TokenAdminRegistrySetPool == Invoke("set_pool", <<Address, Option(Address)>>, Void)
TokenAdminRegistryGetPools == Simulate("get_pools", <<Vec(Address)>>, Vec(Option(Address)))
TokenAdminRegistryInitOwner == Invoke("init_owner", <<Address>>, Void)
TokenAdminRegistryInitialize == Invoke("initialize", <<Address>>, Void)
TokenAdminRegistryRequireOwner == Invoke("require_owner", <<>>, Address)
TokenAdminRegistrySetNewOwner == Invoke("set_new_owner", <<Address>>, Void)
TokenAdminRegistryAcceptOwnership == Invoke("accept_ownership", <<>>, Void)
TokenAdminRegistryGetTokenConfig ==
    Simulate("get_token_config", <<Address>>, TokenAdminRegistryTokenConfig)
TokenAdminRegistryIsAdministrator == Simulate("is_administrator", <<Address, Address>>, Bool)
TokenAdminRegistryTypeAndVersion == Invoke("type_and_version", <<>>, Text)
TokenAdminRegistryAcceptAdminRole == Invoke("accept_admin_role", <<Address>>, Void)
TokenAdminRegistryGetPendingOwner == Simulate("get_pending_owner", <<>>, Option(Address))
TokenAdminRegistryIsRegistryModule == Simulate("is_registry_module", <<Address>>, Bool)
TokenAdminRegistryTransferOwnership == Invoke("transfer_ownership", <<Address>>, Void)
TokenAdminRegistryAddRegistryModule == Invoke("add_registry_module", <<Address>>, Void)
TokenAdminRegistryTransferAdminRole ==
    Invoke("transfer_admin_role", <<Address, Option(Address)>>, Void)
TokenAdminRegistryProposeAdministrator ==
    Invoke("propose_administrator", <<Address, Address, Address>>, Void)
TokenAdminRegistryRemoveRegistryModule == Invoke("remove_registry_module", <<Address>>, Void)
TokenAdminRegistryCancelOwnershipTransfer == Invoke("cancel_ownership_transfer", <<>>, Void)
TokenAdminRegistryGetAllConfiguredTokens ==
    Simulate("get_all_configured_tokens", <<U32, U32>>, Vec(Address))

TokenAdminRegistryRoleGrantedEvent ==
    Event("auth_RoleGranted", [role |-> Symbol, account |-> Address, sender |-> Address])
TokenAdminRegistryRoleRevokedEvent ==
    Event("auth_RoleRevoked", [role |-> Symbol, account |-> Address, sender |-> Address])
TokenAdminRegistryAuthorizedCallerAddedEvent == Event("auth_CallerAdded", [caller |-> Address])
TokenAdminRegistryAuthorizedCallerRemovedEvent == Event("auth_CallerRemoved", [caller |-> Address])
TokenAdminRegistryOwnershipTransferStartedEvent ==
    Event("auth_OwnerTransferStart", [previous_owner |-> Address, new_owner |-> Address])
TokenAdminRegistryPoolSetEvent ==
    Event("tar_PoolSet", [token |-> Address, previous_pool |-> Option(Address),
        new_pool |-> Option(Address)])
TokenAdminRegistryRegistryModuleAddedEvent == Event("tar_ModuleAdded", [module |-> Address])
TokenAdminRegistryRegistryModuleRemovedEvent == Event("tar_ModuleRemoved", [module |-> Address])
TokenAdminRegistryAdminTransferRequestedEvent ==
    Event("tar_AdminTransferReq", [token |-> Address, current_admin |-> Option(Address),
        new_admin |-> Option(Address)])
TokenAdminRegistryAdministratorTransferredEvent ==
    Event("tar_AdminTransferred", [token |-> Address, new_admin |-> Address])

TokenAdminRegistryKeys == [DataKey |-> TokenAdminRegistryDataKey]

TokenAdminRegistryMethods ==
    {TokenAdminRegistryOwner, TokenAdminRegistryGetPool, TokenAdminRegistryIsOwner,
     TokenAdminRegistrySetPool, TokenAdminRegistryGetPools, TokenAdminRegistryInitOwner,
     TokenAdminRegistryInitialize, TokenAdminRegistryRequireOwner, TokenAdminRegistrySetNewOwner,
     TokenAdminRegistryAcceptOwnership, TokenAdminRegistryGetTokenConfig,
     TokenAdminRegistryIsAdministrator, TokenAdminRegistryTypeAndVersion,
     TokenAdminRegistryAcceptAdminRole, TokenAdminRegistryGetPendingOwner,
     TokenAdminRegistryIsRegistryModule, TokenAdminRegistryTransferOwnership,
     TokenAdminRegistryAddRegistryModule, TokenAdminRegistryTransferAdminRole,
     TokenAdminRegistryProposeAdministrator, TokenAdminRegistryRemoveRegistryModule,
     TokenAdminRegistryCancelOwnershipTransfer, TokenAdminRegistryGetAllConfiguredTokens}

TokenAdminRegistryEvents ==
    [RoleGrantedEvent |-> TokenAdminRegistryRoleGrantedEvent,
     RoleRevokedEvent |-> TokenAdminRegistryRoleRevokedEvent,
     AuthorizedCallerAddedEvent |-> TokenAdminRegistryAuthorizedCallerAddedEvent,
     AuthorizedCallerRemovedEvent |-> TokenAdminRegistryAuthorizedCallerRemovedEvent,
     OwnershipTransferStartedEvent |-> TokenAdminRegistryOwnershipTransferStartedEvent,
     PoolSetEvent |-> TokenAdminRegistryPoolSetEvent,
     RegistryModuleAddedEvent |-> TokenAdminRegistryRegistryModuleAddedEvent,
     RegistryModuleRemovedEvent |-> TokenAdminRegistryRegistryModuleRemovedEvent,
     AdminTransferRequestedEvent |-> TokenAdminRegistryAdminTransferRequestedEvent,
     AdministratorTransferredEvent |-> TokenAdminRegistryAdministratorTransferredEvent]

-----------------------------------------------------------------------------

Clients ==
    [fee_quoter |->
         [methods |-> FeeQuoterMethods, events |-> FeeQuoterEvents,
          keys |-> FeeQuoterKeys],
     rmn_remote |->
         [methods |-> RmnRemoteMethods, events |-> RmnRemoteEvents,
          keys |-> RmnRemoteKeys],
     rmn_proxy |->
         [methods |-> RmnProxyMethods, events |-> RmnProxyEvents,
          keys |-> RmnProxyKeys],
     token_admin_registry |->
         [methods |-> TokenAdminRegistryMethods, events |-> TokenAdminRegistryEvents,
          keys |-> TokenAdminRegistryKeys]]
=============================================================================
