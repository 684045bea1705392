---------------------------- MODULE SiloClients -----------------------------
(***************************************************************************)
(* Generated Go clients of the siloed token pool and the lock box: for     *)
(* each contract the types its client converts, a line for each method and *)
(* for each event it can wait for.                                         *)
(***************************************************************************)
EXTENDS Scval

-----------------------------------------------------------------------------
(* siloed lock release pool                                                *)

SiloedLockReleasePoolRateLimitConfig ==
    Struct([capacity |-> U128, is_enabled |-> Bool, rate |-> U128])
SiloedLockReleasePoolChainUpdate ==
    Struct([inbound_rate_limiter_config |-> SiloedLockReleasePoolRateLimitConfig,
        outbound_rate_limiter_config |-> SiloedLockReleasePoolRateLimitConfig,
        remote_chain_selector |-> U64, remote_pool_addresses |-> Bytes,
        remote_token_address |-> Bytes])
SiloedLockReleasePoolTokenBucket ==
    Struct([capacity |-> U128, is_enabled |-> Bool, last_updated |-> U64, rate |-> U128,
        tokens |-> U128])
SiloedLockReleasePoolLockOrBurnIn ==
    Struct([amount |-> I128, local_token |-> Address, original_sender |-> Address,
        receiver |-> Bytes, remote_chain_selector |-> U64])
SiloedLockReleasePoolLockOrBurnOut ==
    Struct([dest_pool_data |-> Bytes, dest_token_address |-> Bytes])
SiloedLockReleasePoolPoolFeeConfig == Struct([fee_usd_cents |-> U32, is_enabled |-> Bool])
SiloedLockReleasePoolPoolFeeResult == Struct([fee_usd_cents |-> U32])
SiloedLockReleasePoolReleaseOrMintIn ==
    Struct([amount |-> I128, local_token |-> Address, original_sender |-> Bytes,
        receiver |-> Address, remote_chain_selector |-> U64, source_pool_address |-> Bytes,
        source_pool_data |-> Bytes])
SiloedLockReleasePoolPoolRequiredCCVs == Struct([ccvs |-> Vec(Address), include_defaults |-> Bool])
SiloedLockReleasePoolRateLimiterState ==
    Struct([inbound |-> SiloedLockReleasePoolTokenBucket,
        outbound |-> SiloedLockReleasePoolTokenBucket])
SiloedLockReleasePoolReleaseOrMintOut == Struct([destination_amount |-> I128])
SiloedLockReleasePoolRemoteChainConfig ==
    Struct([remote_pool_address |-> Bytes, remote_token_address |-> Bytes])
SiloedLockReleasePoolLockBoxEntry == Struct([lock_box |-> Address, remote_chain_selector |-> U64])
SiloedLockReleasePoolMessageDirection == Codes([Outbound |-> 0, Inbound |-> 1])
SiloedLockReleasePoolPoolDataKey ==
    Union([Token |-> <<>>, RemoteChainConfig |-> <<U64>>, SupportedChains |-> <<>>,
        TokenDecimals |-> <<>>, OutboundRateLimit |-> <<U64>>, InboundRateLimit |-> <<U64>>,
        RateLimitAdmin |-> <<>>, FtfOutboundRateLimit |-> <<U64>>, FtfInboundRateLimit |-> <<U64>>,
        AllowedFinalityConfig |-> <<>>, RampRegistry |-> <<>>, AdvancedPoolHooks |-> <<>>,
        PoolFeeConfig |-> <<U64>>, Router |-> <<>>])

SiloedLockReleasePoolOwner == Simulate("owner", <<>>, Option(Address))
SiloedLockReleasePoolGetFee == Simulate("get_fee", <<U64>>, SiloedLockReleasePoolPoolFeeResult)
SiloedLockReleasePoolIsOwner == Simulate("is_owner", <<Address>>, Bool)
SiloedLockReleasePoolGetToken == Simulate("get_token", <<>>, Address)
SiloedLockReleasePoolGetRouter == Simulate("get_router", <<>>, Option(Address))
SiloedLockReleasePoolInitOwner == Invoke("init_owner", <<Address>>, Void)
SiloedLockReleasePoolInitialize ==
    Invoke("initialize", <<Address, Address, U32, Address, Address>>, Void)
SiloedLockReleasePoolSetRouter == Invoke("set_router", <<Address>>, Void)
SiloedLockReleasePoolGetLockBox == Simulate("get_lock_box", <<U64>>, Address)
SiloedLockReleasePoolLockOrBurn ==
    Invoke("lock_or_burn", <<Address, SiloedLockReleasePoolLockOrBurnIn, U32>>,
        SiloedLockReleasePoolLockOrBurnOut)
SiloedLockReleasePoolRequireOwner == Invoke("require_owner", <<>>, Address)
SiloedLockReleasePoolSetNewOwner == Invoke("set_new_owner", <<Address>>, Void)
SiloedLockReleasePoolGetRemotePool == Simulate("get_remote_pool", <<U64>>, Bytes)
SiloedLockReleasePoolReleaseOrMint ==
    Invoke("release_or_mint", <<Address, SiloedLockReleasePoolReleaseOrMintIn, U32>>,
        SiloedLockReleasePoolReleaseOrMintOut)
SiloedLockReleasePoolAcceptOwnership == Invoke("accept_ownership", <<>>, Void)
SiloedLockReleasePoolGetRemoteToken == Simulate("get_remote_token", <<U64>>, Bytes)
SiloedLockReleasePoolTypeAndVersion == Invoke("type_and_version", <<>>, Text)
SiloedLockReleasePoolGetPendingOwner == Simulate("get_pending_owner", <<>>, Option(Address))
SiloedLockReleasePoolGetRampRegistry == Simulate("get_ramp_registry", <<>>, Option(Address))
SiloedLockReleasePoolGetRequiredCcvs ==
    Simulate("get_required_ccvs", <<Address, U64, I128, U32, Bytes,
        SiloedLockReleasePoolMessageDirection>>, SiloedLockReleasePoolPoolRequiredCCVs)
SiloedLockReleasePoolSetRampRegistry == Invoke("set_ramp_registry", <<Address>>, Void)
SiloedLockReleasePoolGetTokenDecimals == Simulate("get_token_decimals", <<>>, U32)
SiloedLockReleasePoolIsSupportedChain == Simulate("is_supported_chain", <<U64>>, Bool)
SiloedLockReleasePoolIsSupportedToken == Simulate("is_supported_token", <<Address>>, Bool)
SiloedLockReleasePoolTransferOwnership == Invoke("transfer_ownership", <<Address>>, Void)
SiloedLockReleasePoolApplyChainUpdates ==
    Invoke("apply_chain_updates", <<Vec(SiloedLockReleasePoolChainUpdate), Vec(U64)>>, Void)
SiloedLockReleasePoolSetPoolFeeConfig ==
    Invoke("set_pool_fee_config", <<U64, SiloedLockReleasePoolPoolFeeConfig>>, Void)
SiloedLockReleasePoolConfigureLockBoxes ==
    Invoke("configure_lock_boxes", <<Vec(SiloedLockReleasePoolLockBoxEntry)>>, Void)
SiloedLockReleasePoolGetRateLimitAdmin == Simulate("get_rate_limit_admin", <<>>, Option(Address))
SiloedLockReleasePoolSetRateLimitAdmin == Invoke("set_rate_limit_admin", <<Address>>, Void)
SiloedLockReleasePoolSetRateLimitConfig ==
    Invoke("set_rate_limit_config", <<U64, SiloedLockReleasePoolRateLimitConfig,
        SiloedLockReleasePoolRateLimitConfig, Bool>>, Void)
SiloedLockReleasePoolGetAdvancedPoolHooks ==
    Simulate("get_advanced_pool_hooks", <<>>, Option(Address))
SiloedLockReleasePoolSetAdvancedPoolHooks == Invoke("set_advanced_pool_hooks", <<Address>>, Void)
SiloedLockReleasePoolGetAllLockBoxConfigs ==
    Simulate("get_all_lock_box_configs", <<>>, Vec(SiloedLockReleasePoolLockBoxEntry))
SiloedLockReleasePoolCancelOwnershipTransfer == Invoke("cancel_ownership_transfer", <<>>, Void)
SiloedLockReleasePoolRemoveAdvancedPoolHooks == Invoke("remove_advanced_pool_hooks", <<>>, Void)
SiloedLockReleasePoolGetAllowedFinalityConfig == Simulate("get_allowed_finality_config", <<>>, U32)
SiloedLockReleasePoolSetAllowedFinalityConfig ==
    Invoke("set_allowed_finality_config", <<U32>>, Void)
SiloedLockReleasePoolGetCurrentRateLimiterState ==
    Simulate("get_current_rate_limiter_state", <<U64, Bool>>,
        SiloedLockReleasePoolRateLimiterState)

SiloedLockReleasePoolRoleGrantedEvent ==
    Event("auth_RoleGranted", [role |-> Symbol, account |-> Address, sender |-> Address])
SiloedLockReleasePoolRoleRevokedEvent ==
    Event("auth_RoleRevoked", [role |-> Symbol, account |-> Address, sender |-> Address])
SiloedLockReleasePoolAuthorizedCallerAddedEvent == Event("auth_CallerAdded", [caller |-> Address])
SiloedLockReleasePoolAuthorizedCallerRemovedEvent ==
    Event("auth_CallerRemoved", [caller |-> Address])
SiloedLockReleasePoolOwnershipTransferStartedEvent ==
    Event("auth_OwnerTransferStart", [previous_owner |-> Address, new_owner |-> Address])
SiloedLockReleasePoolBurnedEvent == Event("pool_Burned", [sender |-> Address, amount |-> I128])
SiloedLockReleasePoolLockedEvent == Event("pool_Locked", [sender |-> Address, amount |-> I128])
SiloedLockReleasePoolMintedEvent ==
    Event("pool_Minted", [sender |-> Address, recipient |-> Address, amount |-> I128])
SiloedLockReleasePoolReleasedEvent ==
    Event("pool_Released", [sender |-> Address, recipient |-> Address, amount |-> I128])
SiloedLockReleasePoolChainRemovedEvent ==
    Event("pool_ChainRemoved", [remote_chain_selector |-> U64])
SiloedLockReleasePoolChainConfiguredEvent ==
    Event("pool_ChainConfigured", [remote_chain_selector |-> U64, remote_pool_address |-> Bytes,
        remote_token_address |-> Bytes,
        outbound_rate_limiter_config |-> SiloedLockReleasePoolRateLimitConfig,
        inbound_rate_limiter_config |-> SiloedLockReleasePoolRateLimitConfig])
SiloedLockReleasePoolFinalityConfigSetEvent ==
    Event("pool_FinalityConfigSet", [allowed_finality |-> U32])
SiloedLockReleasePoolFtfInboundConsumedEvent ==
    Event("pool_FtfInboundConsumed", [remote_chain_selector |-> U64, amount |-> I128])
SiloedLockReleasePoolFtfOutboundConsumedEvent ==
    Event("pool_FtfOutboundConsumed", [remote_chain_selector |-> U64, amount |-> I128])
SiloedLockReleasePoolRateLimitConfiguredEvent ==
    Event("pool_RateLimitConfigured", [remote_chain_selector |-> U64, fast_finality |-> Bool,
        outbound_config |-> SiloedLockReleasePoolRateLimitConfig,
        inbound_config |-> SiloedLockReleasePoolRateLimitConfig])
SiloedLockReleasePoolAdvancedPoolHooksUpdatedEvent ==
    Event("pool_HooksUpdated", [old_hooks |-> Option(Address), new_hooks |-> Option(Address)])
SiloedLockReleasePoolInboundRateLimitConsumedEvent ==
    Event("pool_InboundRateLimitConsumed", [remote_chain_selector |-> U64, amount |-> I128])
SiloedLockReleasePoolOutboundRateLimitConsumedEvent ==
    Event("pool_OutboundRateLimitConsumed", [remote_chain_selector |-> U64, amount |-> I128])
SiloedLockReleasePoolLockBoxConfiguredEvent ==
    Event("pool_LockBoxConfigured", [remote_chain_selector |-> U64, lock_box |-> Address])

SiloedLockReleasePoolKeys == [PoolDataKey |-> SiloedLockReleasePoolPoolDataKey]

SiloedLockReleasePoolMethods ==
    {SiloedLockReleasePoolOwner, SiloedLockReleasePoolGetFee, SiloedLockReleasePoolIsOwner,
     SiloedLockReleasePoolGetToken, SiloedLockReleasePoolGetRouter,
     SiloedLockReleasePoolInitOwner, SiloedLockReleasePoolInitialize,
     SiloedLockReleasePoolSetRouter, SiloedLockReleasePoolGetLockBox,
     SiloedLockReleasePoolLockOrBurn, SiloedLockReleasePoolRequireOwner,
     SiloedLockReleasePoolSetNewOwner, SiloedLockReleasePoolGetRemotePool,
     SiloedLockReleasePoolReleaseOrMint, SiloedLockReleasePoolAcceptOwnership,
     SiloedLockReleasePoolGetRemoteToken, SiloedLockReleasePoolTypeAndVersion,
     SiloedLockReleasePoolGetPendingOwner, SiloedLockReleasePoolGetRampRegistry,
     SiloedLockReleasePoolGetRequiredCcvs, SiloedLockReleasePoolSetRampRegistry,
     SiloedLockReleasePoolGetTokenDecimals, SiloedLockReleasePoolIsSupportedChain,
     SiloedLockReleasePoolIsSupportedToken, SiloedLockReleasePoolTransferOwnership,
     SiloedLockReleasePoolApplyChainUpdates, SiloedLockReleasePoolSetPoolFeeConfig,
     SiloedLockReleasePoolConfigureLockBoxes, SiloedLockReleasePoolGetRateLimitAdmin,
     SiloedLockReleasePoolSetRateLimitAdmin, SiloedLockReleasePoolSetRateLimitConfig,
     SiloedLockReleasePoolGetAdvancedPoolHooks, SiloedLockReleasePoolSetAdvancedPoolHooks,
     SiloedLockReleasePoolGetAllLockBoxConfigs, SiloedLockReleasePoolCancelOwnershipTransfer,
     SiloedLockReleasePoolRemoveAdvancedPoolHooks, SiloedLockReleasePoolGetAllowedFinalityConfig,
     SiloedLockReleasePoolSetAllowedFinalityConfig,
     SiloedLockReleasePoolGetCurrentRateLimiterState}

SiloedLockReleasePoolEvents ==
    [RoleGrantedEvent |-> SiloedLockReleasePoolRoleGrantedEvent,
     RoleRevokedEvent |-> SiloedLockReleasePoolRoleRevokedEvent,
     AuthorizedCallerAddedEvent |-> SiloedLockReleasePoolAuthorizedCallerAddedEvent,
     AuthorizedCallerRemovedEvent |-> SiloedLockReleasePoolAuthorizedCallerRemovedEvent,
     OwnershipTransferStartedEvent |-> SiloedLockReleasePoolOwnershipTransferStartedEvent,
     BurnedEvent |-> SiloedLockReleasePoolBurnedEvent,
     LockedEvent |-> SiloedLockReleasePoolLockedEvent,
     MintedEvent |-> SiloedLockReleasePoolMintedEvent,
     ReleasedEvent |-> SiloedLockReleasePoolReleasedEvent,
     ChainRemovedEvent |-> SiloedLockReleasePoolChainRemovedEvent,
     ChainConfiguredEvent |-> SiloedLockReleasePoolChainConfiguredEvent,
     FinalityConfigSetEvent |-> SiloedLockReleasePoolFinalityConfigSetEvent,
     FtfInboundConsumedEvent |-> SiloedLockReleasePoolFtfInboundConsumedEvent,
     FtfOutboundConsumedEvent |-> SiloedLockReleasePoolFtfOutboundConsumedEvent,
     RateLimitConfiguredEvent |-> SiloedLockReleasePoolRateLimitConfiguredEvent,
     AdvancedPoolHooksUpdatedEvent |-> SiloedLockReleasePoolAdvancedPoolHooksUpdatedEvent,
     InboundRateLimitConsumedEvent |-> SiloedLockReleasePoolInboundRateLimitConsumedEvent,
     OutboundRateLimitConsumedEvent |-> SiloedLockReleasePoolOutboundRateLimitConsumedEvent,
     LockBoxConfiguredEvent |-> SiloedLockReleasePoolLockBoxConfiguredEvent]

-----------------------------------------------------------------------------
(* token lock box                                                          *)

TokenLockBoxOwner == Simulate("owner", <<>>, Option(Address))
TokenLockBoxDeposit == Invoke("deposit", <<Address, I128>>, Void)
TokenLockBoxIsOwner == Simulate("is_owner", <<Address>>, Bool)
TokenLockBoxWithdraw == Invoke("withdraw", <<Address, I128, Address>>, Void)
TokenLockBoxGetToken == Simulate("get_token", <<>>, Address)
TokenLockBoxInitOwner == Invoke("init_owner", <<Address>>, Void)
TokenLockBoxInitialize == Invoke("initialize", <<Address, Address>>, Void)
TokenLockBoxRequireOwner == Invoke("require_owner", <<>>, Address)
TokenLockBoxSetNewOwner == Invoke("set_new_owner", <<Address>>, Void)
TokenLockBoxAcceptOwnership == Invoke("accept_ownership", <<>>, Void)
TokenLockBoxGetPendingOwner == Simulate("get_pending_owner", <<>>, Option(Address))
TokenLockBoxIsTokenSupported == Simulate("is_token_supported", <<Address>>, Bool)
TokenLockBoxTransferOwnership == Invoke("transfer_ownership", <<Address>>, Void)
TokenLockBoxAddAllowedCallers == Invoke("add_allowed_callers", <<Vec(Address)>>, Void)
TokenLockBoxGetAllowedCallers == Simulate("get_allowed_callers", <<>>, Vec(Address))
TokenLockBoxRemoveAllowedCallers == Invoke("remove_allowed_callers", <<Vec(Address)>>, Void)
TokenLockBoxCancelOwnershipTransfer == Invoke("cancel_ownership_transfer", <<>>, Void)

TokenLockBoxRoleGrantedEvent ==
    Event("auth_RoleGranted", [role |-> Symbol, account |-> Address, sender |-> Address])
TokenLockBoxRoleRevokedEvent ==
    Event("auth_RoleRevoked", [role |-> Symbol, account |-> Address, sender |-> Address])
TokenLockBoxAuthorizedCallerAddedEvent == Event("auth_CallerAdded", [caller |-> Address])
TokenLockBoxAuthorizedCallerRemovedEvent == Event("auth_CallerRemoved", [caller |-> Address])
TokenLockBoxOwnershipTransferStartedEvent ==
    Event("auth_OwnerTransferStart", [previous_owner |-> Address, new_owner |-> Address])
TokenLockBoxDepositEvent ==
    Event("lockbox_Deposit", [token |-> Address, depositor |-> Address, amount |-> I128])
TokenLockBoxWithdrawalEvent ==
    Event("lockbox_Withdrawal", [token |-> Address, recipient |-> Address, amount |-> I128])

TokenLockBoxKeys == <<>>

TokenLockBoxMethods ==
    {TokenLockBoxOwner, TokenLockBoxDeposit, TokenLockBoxIsOwner, TokenLockBoxWithdraw,
     TokenLockBoxGetToken, TokenLockBoxInitOwner, TokenLockBoxInitialize,
     TokenLockBoxRequireOwner, TokenLockBoxSetNewOwner, TokenLockBoxAcceptOwnership,
     TokenLockBoxGetPendingOwner, TokenLockBoxIsTokenSupported, TokenLockBoxTransferOwnership,
     TokenLockBoxAddAllowedCallers, TokenLockBoxGetAllowedCallers,
     TokenLockBoxRemoveAllowedCallers, TokenLockBoxCancelOwnershipTransfer}

TokenLockBoxEvents ==
    [RoleGrantedEvent |-> TokenLockBoxRoleGrantedEvent,
     RoleRevokedEvent |-> TokenLockBoxRoleRevokedEvent,
     AuthorizedCallerAddedEvent |-> TokenLockBoxAuthorizedCallerAddedEvent,
     AuthorizedCallerRemovedEvent |-> TokenLockBoxAuthorizedCallerRemovedEvent,
     OwnershipTransferStartedEvent |-> TokenLockBoxOwnershipTransferStartedEvent,
     DepositEvent |-> TokenLockBoxDepositEvent, WithdrawalEvent |-> TokenLockBoxWithdrawalEvent]

-----------------------------------------------------------------------------

Clients ==
    [siloed_lock_release_pool |->
         [methods |-> SiloedLockReleasePoolMethods, events |-> SiloedLockReleasePoolEvents,
          keys |-> SiloedLockReleasePoolKeys],
     token_lock_box |->
         [methods |-> TokenLockBoxMethods, events |-> TokenLockBoxEvents,
          keys |-> TokenLockBoxKeys]]
=============================================================================
