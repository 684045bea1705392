---------------------------- MODULE PoolClients -----------------------------
(***************************************************************************)
(* Generated Go clients of the token pools but the siloed one: for each    *)
(* contract the types its client converts, a line for each method and for  *)
(* each event it can wait for.                                             *)
(***************************************************************************)
EXTENDS Scval

-----------------------------------------------------------------------------
(* token pool                                                              *)

TokenPoolPoolRequiredCCVs == Struct([ccvs |-> Vec(Address), include_defaults |-> Bool])
TokenPoolPoolFeeResult == Struct([fee_usd_cents |-> U32])
TokenPoolLockOrBurnIn ==
    Struct([receiver |-> Bytes, remote_chain_selector |-> U64, original_sender |-> Address,
        amount |-> I128, local_token |-> Address])
TokenPoolLockOrBurnOut == Struct([dest_token_address |-> Bytes, dest_pool_data |-> Bytes])
TokenPoolReleaseOrMintIn ==
    Struct([original_sender |-> Bytes, remote_chain_selector |-> U64, receiver |-> Address,
        amount |-> I128, local_token |-> Address, source_pool_address |-> Bytes,
        source_pool_data |-> Bytes])
TokenPoolReleaseOrMintOut == Struct([destination_amount |-> I128])
TokenPoolRateLimitConfig == Struct([is_enabled |-> Bool, capacity |-> U128, rate |-> U128])
TokenPoolTokenBucket ==
    Struct([tokens |-> U128, last_updated |-> U64, is_enabled |-> Bool, capacity |-> U128,
        rate |-> U128])
TokenPoolRateLimiterState ==
    Struct([outbound |-> TokenPoolTokenBucket, inbound |-> TokenPoolTokenBucket])
TokenPoolChainUpdate ==
    Struct([remote_chain_selector |-> U64, remote_pool_addresses |-> Bytes,
        remote_token_address |-> Bytes, outbound_rate_limiter_config |-> TokenPoolRateLimitConfig,
        inbound_rate_limiter_config |-> TokenPoolRateLimitConfig])
TokenPoolMessageDirection == Codes([Outbound |-> 0, Inbound |-> 1])

TokenPoolInitialize == Invoke("initialize", <<Address, Address, U32, Address, Address>>, Void)
TokenPoolTypeAndVersion == Invoke("type_and_version", <<>>, Text)
TokenPoolLockOrBurn ==
    Invoke("lock_or_burn", <<Address, TokenPoolLockOrBurnIn, U32>>, TokenPoolLockOrBurnOut)
TokenPoolReleaseOrMint ==
    Invoke("release_or_mint", <<Address, TokenPoolReleaseOrMintIn, U32>>,
        TokenPoolReleaseOrMintOut)
TokenPoolGetFee == Simulate("get_fee", <<U64>>, TokenPoolPoolFeeResult)
TokenPoolIsSupportedToken == Simulate("is_supported_token", <<Address>>, Bool)
TokenPoolIsSupportedChain == Simulate("is_supported_chain", <<U64>>, Bool)
TokenPoolGetToken == Simulate("get_token", <<>>, Address)
TokenPoolGetTokenDecimals == Simulate("get_token_decimals", <<>>, U32)
TokenPoolGetRemotePool == Simulate("get_remote_pool", <<U64>>, Bytes)
TokenPoolGetRemoteToken == Simulate("get_remote_token", <<U64>>, Bytes)
TokenPoolApplyChainUpdates ==
    Invoke("apply_chain_updates", <<Vec(TokenPoolChainUpdate), Vec(U64)>>, Void)
TokenPoolSetRateLimitConfig ==
    Invoke("set_rate_limit_config", <<U64, TokenPoolRateLimitConfig, TokenPoolRateLimitConfig,
        Bool>>, Void)
TokenPoolSetRateLimitAdmin == Invoke("set_rate_limit_admin", <<Address>>, Void)
TokenPoolGetCurrentRateLimiterState ==
    Simulate("get_current_rate_limiter_state", <<U64, Bool>>, TokenPoolRateLimiterState)
TokenPoolGetRateLimitAdmin == Simulate("get_rate_limit_admin", <<>>, Option(Address))
TokenPoolSetAllowedFinalityConfig == Invoke("set_allowed_finality_config", <<U32>>, Void)
TokenPoolGetAllowedFinalityConfig == Simulate("get_allowed_finality_config", <<>>, U32)
TokenPoolGetAdvancedPoolHooks == Simulate("get_advanced_pool_hooks", <<>>, Option(Address))
TokenPoolSetAdvancedPoolHooks == Invoke("set_advanced_pool_hooks", <<Address>>, Void)
TokenPoolRemoveAdvancedPoolHooks == Invoke("remove_advanced_pool_hooks", <<>>, Void)
TokenPoolGetRequiredCcvs ==
    Simulate("get_required_ccvs", <<Address, U64, I128, U32, Bytes, TokenPoolMessageDirection>>,
        TokenPoolPoolRequiredCCVs)
TokenPoolSetRouter == Invoke("set_router", <<Address>>, Void)
TokenPoolGetRouter == Simulate("get_router", <<>>, Option(Address))
TokenPoolSetRampRegistry == Invoke("set_ramp_registry", <<Address>>, Void)
TokenPoolGetRampRegistry == Simulate("get_ramp_registry", <<>>, Option(Address))

TokenPoolKeys == <<>>

TokenPoolMethods ==
    {TokenPoolInitialize, TokenPoolTypeAndVersion, TokenPoolLockOrBurn, TokenPoolReleaseOrMint,
     TokenPoolGetFee, TokenPoolIsSupportedToken, TokenPoolIsSupportedChain, TokenPoolGetToken,
     TokenPoolGetTokenDecimals, TokenPoolGetRemotePool, TokenPoolGetRemoteToken,
     TokenPoolApplyChainUpdates, TokenPoolSetRateLimitConfig, TokenPoolSetRateLimitAdmin,
     TokenPoolGetCurrentRateLimiterState, TokenPoolGetRateLimitAdmin,
     TokenPoolSetAllowedFinalityConfig, TokenPoolGetAllowedFinalityConfig,
     TokenPoolGetAdvancedPoolHooks, TokenPoolSetAdvancedPoolHooks,
     TokenPoolRemoveAdvancedPoolHooks, TokenPoolGetRequiredCcvs, TokenPoolSetRouter,
     TokenPoolGetRouter, TokenPoolSetRampRegistry, TokenPoolGetRampRegistry}

TokenPoolEvents == <<>>

-----------------------------------------------------------------------------
(* burn mint pool                                                          *)

BurnMintPoolRateLimitConfig == Struct([capacity |-> U128, is_enabled |-> Bool, rate |-> U128])
BurnMintPoolChainUpdate ==
    Struct([inbound_rate_limiter_config |-> BurnMintPoolRateLimitConfig,
        outbound_rate_limiter_config |-> BurnMintPoolRateLimitConfig, remote_chain_selector |-> U64,
        remote_pool_addresses |-> Bytes, remote_token_address |-> Bytes])
BurnMintPoolTokenBucket ==
    Struct([capacity |-> U128, is_enabled |-> Bool, last_updated |-> U64, rate |-> U128,
        tokens |-> U128])
BurnMintPoolLockOrBurnIn ==
    Struct([amount |-> I128, local_token |-> Address, original_sender |-> Address,
        receiver |-> Bytes, remote_chain_selector |-> U64])
BurnMintPoolLockOrBurnOut == Struct([dest_pool_data |-> Bytes, dest_token_address |-> Bytes])
BurnMintPoolPoolFeeConfig == Struct([fee_usd_cents |-> U32, is_enabled |-> Bool])
BurnMintPoolPoolFeeResult == Struct([fee_usd_cents |-> U32])
BurnMintPoolReleaseOrMintIn ==
    Struct([amount |-> I128, local_token |-> Address, original_sender |-> Bytes,
        receiver |-> Address, remote_chain_selector |-> U64, source_pool_address |-> Bytes,
        source_pool_data |-> Bytes])
BurnMintPoolPoolRequiredCCVs == Struct([ccvs |-> Vec(Address), include_defaults |-> Bool])
BurnMintPoolRateLimiterState ==
    Struct([inbound |-> BurnMintPoolTokenBucket, outbound |-> BurnMintPoolTokenBucket])
BurnMintPoolReleaseOrMintOut == Struct([destination_amount |-> I128])
BurnMintPoolRemoteChainConfig ==
    Struct([remote_pool_address |-> Bytes, remote_token_address |-> Bytes])
BurnMintPoolMessageDirection == Codes([Outbound |-> 0, Inbound |-> 1])
BurnMintPoolPoolDataKey ==
    Union([Token |-> <<>>, RemoteChainConfig |-> <<U64>>, SupportedChains |-> <<>>,
        TokenDecimals |-> <<>>, OutboundRateLimit |-> <<U64>>, InboundRateLimit |-> <<U64>>,
        RateLimitAdmin |-> <<>>, FtfOutboundRateLimit |-> <<U64>>, FtfInboundRateLimit |-> <<U64>>,
        AllowedFinalityConfig |-> <<>>, RampRegistry |-> <<>>, AdvancedPoolHooks |-> <<>>,
        PoolFeeConfig |-> <<U64>>, Router |-> <<>>])

BurnMintPoolOwner == Simulate("owner", <<>>, Option(Address))
BurnMintPoolGetFee == Simulate("get_fee", <<U64>>, BurnMintPoolPoolFeeResult)
BurnMintPoolIsOwner == Simulate("is_owner", <<Address>>, Bool)
BurnMintPoolGetToken == Simulate("get_token", <<>>, Address)
BurnMintPoolGetRouter == Simulate("get_router", <<>>, Option(Address))
BurnMintPoolInitOwner == Invoke("init_owner", <<Address>>, Void)
BurnMintPoolInitialize == Invoke("initialize", <<Address, Address, U32, Address, Address>>, Void)
BurnMintPoolSetRouter == Invoke("set_router", <<Address>>, Void)
BurnMintPoolLockOrBurn ==
    Invoke("lock_or_burn", <<Address, BurnMintPoolLockOrBurnIn, U32>>,
        BurnMintPoolLockOrBurnOut)
BurnMintPoolRequireOwner == Invoke("require_owner", <<>>, Address)
BurnMintPoolSetNewOwner == Invoke("set_new_owner", <<Address>>, Void)
BurnMintPoolGetRemotePool == Simulate("get_remote_pool", <<U64>>, Bytes)
BurnMintPoolReleaseOrMint ==
    Invoke("release_or_mint", <<Address, BurnMintPoolReleaseOrMintIn, U32>>,
        BurnMintPoolReleaseOrMintOut)
BurnMintPoolAcceptOwnership == Invoke("accept_ownership", <<>>, Void)
BurnMintPoolGetRemoteToken == Simulate("get_remote_token", <<U64>>, Bytes)
BurnMintPoolTypeAndVersion == Invoke("type_and_version", <<>>, Text)
BurnMintPoolGetPendingOwner == Simulate("get_pending_owner", <<>>, Option(Address))
BurnMintPoolGetRampRegistry == Simulate("get_ramp_registry", <<>>, Option(Address))
BurnMintPoolGetRequiredCcvs ==
    Simulate("get_required_ccvs", <<Address, U64, I128, U32, Bytes,
        BurnMintPoolMessageDirection>>, BurnMintPoolPoolRequiredCCVs)
BurnMintPoolSetRampRegistry == Invoke("set_ramp_registry", <<Address>>, Void)
BurnMintPoolGetTokenDecimals == Simulate("get_token_decimals", <<>>, U32)
BurnMintPoolIsSupportedChain == Simulate("is_supported_chain", <<U64>>, Bool)
BurnMintPoolIsSupportedToken == Simulate("is_supported_token", <<Address>>, Bool)
BurnMintPoolTransferOwnership == Invoke("transfer_ownership", <<Address>>, Void)
BurnMintPoolApplyChainUpdates ==
    Invoke("apply_chain_updates", <<Vec(BurnMintPoolChainUpdate), Vec(U64)>>, Void)
BurnMintPoolSetPoolFeeConfig ==
    Invoke("set_pool_fee_config", <<U64, BurnMintPoolPoolFeeConfig>>, Void)
BurnMintPoolGetRateLimitAdmin == Simulate("get_rate_limit_admin", <<>>, Option(Address))
BurnMintPoolSetRateLimitAdmin == Invoke("set_rate_limit_admin", <<Address>>, Void)
BurnMintPoolSetRateLimitConfig ==
    Invoke("set_rate_limit_config", <<U64, BurnMintPoolRateLimitConfig,
        BurnMintPoolRateLimitConfig, Bool>>, Void)
BurnMintPoolGetAdvancedPoolHooks == Simulate("get_advanced_pool_hooks", <<>>, Option(Address))
BurnMintPoolSetAdvancedPoolHooks == Invoke("set_advanced_pool_hooks", <<Address>>, Void)
BurnMintPoolCancelOwnershipTransfer == Invoke("cancel_ownership_transfer", <<>>, Void)
BurnMintPoolRemoveAdvancedPoolHooks == Invoke("remove_advanced_pool_hooks", <<>>, Void)
BurnMintPoolGetAllowedFinalityConfig == Simulate("get_allowed_finality_config", <<>>, U32)
BurnMintPoolSetAllowedFinalityConfig == Invoke("set_allowed_finality_config", <<U32>>, Void)
BurnMintPoolGetCurrentRateLimiterState ==
    Simulate("get_current_rate_limiter_state", <<U64, Bool>>, BurnMintPoolRateLimiterState)

BurnMintPoolRoleGrantedEvent ==
    Event("auth_RoleGranted", [role |-> Symbol, account |-> Address, sender |-> Address])
BurnMintPoolRoleRevokedEvent ==
    Event("auth_RoleRevoked", [role |-> Symbol, account |-> Address, sender |-> Address])
BurnMintPoolAuthorizedCallerAddedEvent == Event("auth_CallerAdded", [caller |-> Address])
BurnMintPoolAuthorizedCallerRemovedEvent == Event("auth_CallerRemoved", [caller |-> Address])
BurnMintPoolOwnershipTransferStartedEvent ==
    Event("auth_OwnerTransferStart", [previous_owner |-> Address, new_owner |-> Address])
BurnMintPoolBurnedEvent == Event("pool_Burned", [sender |-> Address, amount |-> I128])
BurnMintPoolLockedEvent == Event("pool_Locked", [sender |-> Address, amount |-> I128])
BurnMintPoolMintedEvent ==
    Event("pool_Minted", [sender |-> Address, recipient |-> Address, amount |-> I128])
BurnMintPoolReleasedEvent ==
    Event("pool_Released", [sender |-> Address, recipient |-> Address, amount |-> I128])
BurnMintPoolChainRemovedEvent == Event("pool_ChainRemoved", [remote_chain_selector |-> U64])
BurnMintPoolChainConfiguredEvent ==
    Event("pool_ChainConfigured", [remote_chain_selector |-> U64, remote_pool_address |-> Bytes,
        remote_token_address |-> Bytes,
        outbound_rate_limiter_config |-> BurnMintPoolRateLimitConfig,
        inbound_rate_limiter_config |-> BurnMintPoolRateLimitConfig])
BurnMintPoolFinalityConfigSetEvent == Event("pool_FinalityConfigSet", [allowed_finality |-> U32])
BurnMintPoolFtfInboundConsumedEvent ==
    Event("pool_FtfInboundConsumed", [remote_chain_selector |-> U64, amount |-> I128])
BurnMintPoolFtfOutboundConsumedEvent ==
    Event("pool_FtfOutboundConsumed", [remote_chain_selector |-> U64, amount |-> I128])
BurnMintPoolRateLimitConfiguredEvent ==
    Event("pool_RateLimitConfigured", [remote_chain_selector |-> U64, fast_finality |-> Bool,
        outbound_config |-> BurnMintPoolRateLimitConfig,
        inbound_config |-> BurnMintPoolRateLimitConfig])
BurnMintPoolAdvancedPoolHooksUpdatedEvent ==
    Event("pool_HooksUpdated", [old_hooks |-> Option(Address), new_hooks |-> Option(Address)])
BurnMintPoolInboundRateLimitConsumedEvent ==
    Event("pool_InboundRateLimitConsumed", [remote_chain_selector |-> U64, amount |-> I128])
BurnMintPoolOutboundRateLimitConsumedEvent ==
    Event("pool_OutboundRateLimitConsumed", [remote_chain_selector |-> U64, amount |-> I128])

BurnMintPoolKeys == [PoolDataKey |-> BurnMintPoolPoolDataKey]

BurnMintPoolMethods ==
    {BurnMintPoolOwner, BurnMintPoolGetFee, BurnMintPoolIsOwner, BurnMintPoolGetToken,
     BurnMintPoolGetRouter, BurnMintPoolInitOwner, BurnMintPoolInitialize, BurnMintPoolSetRouter,
     BurnMintPoolLockOrBurn, BurnMintPoolRequireOwner, BurnMintPoolSetNewOwner,
     BurnMintPoolGetRemotePool, BurnMintPoolReleaseOrMint, BurnMintPoolAcceptOwnership,
     BurnMintPoolGetRemoteToken, BurnMintPoolTypeAndVersion, BurnMintPoolGetPendingOwner,
     BurnMintPoolGetRampRegistry, BurnMintPoolGetRequiredCcvs, BurnMintPoolSetRampRegistry,
     BurnMintPoolGetTokenDecimals, BurnMintPoolIsSupportedChain, BurnMintPoolIsSupportedToken,
     BurnMintPoolTransferOwnership, BurnMintPoolApplyChainUpdates, BurnMintPoolSetPoolFeeConfig,
     BurnMintPoolGetRateLimitAdmin, BurnMintPoolSetRateLimitAdmin,
     BurnMintPoolSetRateLimitConfig, BurnMintPoolGetAdvancedPoolHooks,
     BurnMintPoolSetAdvancedPoolHooks, BurnMintPoolCancelOwnershipTransfer,
     BurnMintPoolRemoveAdvancedPoolHooks, BurnMintPoolGetAllowedFinalityConfig,
     BurnMintPoolSetAllowedFinalityConfig, BurnMintPoolGetCurrentRateLimiterState}

BurnMintPoolEvents ==
    [RoleGrantedEvent |-> BurnMintPoolRoleGrantedEvent,
     RoleRevokedEvent |-> BurnMintPoolRoleRevokedEvent,
     AuthorizedCallerAddedEvent |-> BurnMintPoolAuthorizedCallerAddedEvent,
     AuthorizedCallerRemovedEvent |-> BurnMintPoolAuthorizedCallerRemovedEvent,
     OwnershipTransferStartedEvent |-> BurnMintPoolOwnershipTransferStartedEvent,
     BurnedEvent |-> BurnMintPoolBurnedEvent, LockedEvent |-> BurnMintPoolLockedEvent,
     MintedEvent |-> BurnMintPoolMintedEvent, ReleasedEvent |-> BurnMintPoolReleasedEvent,
     ChainRemovedEvent |-> BurnMintPoolChainRemovedEvent,
     ChainConfiguredEvent |-> BurnMintPoolChainConfiguredEvent,
     FinalityConfigSetEvent |-> BurnMintPoolFinalityConfigSetEvent,
     FtfInboundConsumedEvent |-> BurnMintPoolFtfInboundConsumedEvent,
     FtfOutboundConsumedEvent |-> BurnMintPoolFtfOutboundConsumedEvent,
     RateLimitConfiguredEvent |-> BurnMintPoolRateLimitConfiguredEvent,
     AdvancedPoolHooksUpdatedEvent |-> BurnMintPoolAdvancedPoolHooksUpdatedEvent,
     InboundRateLimitConsumedEvent |-> BurnMintPoolInboundRateLimitConsumedEvent,
     OutboundRateLimitConsumedEvent |-> BurnMintPoolOutboundRateLimitConsumedEvent]

-----------------------------------------------------------------------------
(* lock release pool                                                       *)

LockReleasePoolRateLimitConfig == Struct([capacity |-> U128, is_enabled |-> Bool, rate |-> U128])
LockReleasePoolChainUpdate ==
    Struct([inbound_rate_limiter_config |-> LockReleasePoolRateLimitConfig,
        outbound_rate_limiter_config |-> LockReleasePoolRateLimitConfig,
        remote_chain_selector |-> U64, remote_pool_addresses |-> Bytes,
        remote_token_address |-> Bytes])
LockReleasePoolTokenBucket ==
    Struct([capacity |-> U128, is_enabled |-> Bool, last_updated |-> U64, rate |-> U128,
        tokens |-> U128])
LockReleasePoolLockOrBurnIn ==
    Struct([amount |-> I128, local_token |-> Address, original_sender |-> Address,
        receiver |-> Bytes, remote_chain_selector |-> U64])
LockReleasePoolLockOrBurnOut == Struct([dest_pool_data |-> Bytes, dest_token_address |-> Bytes])
LockReleasePoolPoolFeeConfig == Struct([fee_usd_cents |-> U32, is_enabled |-> Bool])
LockReleasePoolPoolFeeResult == Struct([fee_usd_cents |-> U32])
LockReleasePoolReleaseOrMintIn ==
    Struct([amount |-> I128, local_token |-> Address, original_sender |-> Bytes,
        receiver |-> Address, remote_chain_selector |-> U64, source_pool_address |-> Bytes,
        source_pool_data |-> Bytes])
LockReleasePoolPoolRequiredCCVs == Struct([ccvs |-> Vec(Address), include_defaults |-> Bool])
LockReleasePoolRateLimiterState ==
    Struct([inbound |-> LockReleasePoolTokenBucket, outbound |-> LockReleasePoolTokenBucket])
LockReleasePoolReleaseOrMintOut == Struct([destination_amount |-> I128])
LockReleasePoolRemoteChainConfig ==
    Struct([remote_pool_address |-> Bytes, remote_token_address |-> Bytes])
LockReleasePoolMessageDirection == Codes([Outbound |-> 0, Inbound |-> 1])
LockReleasePoolPoolDataKey ==
    Union([Token |-> <<>>, RemoteChainConfig |-> <<U64>>, SupportedChains |-> <<>>,
        TokenDecimals |-> <<>>, OutboundRateLimit |-> <<U64>>, InboundRateLimit |-> <<U64>>,
        RateLimitAdmin |-> <<>>, FtfOutboundRateLimit |-> <<U64>>, FtfInboundRateLimit |-> <<U64>>,
        AllowedFinalityConfig |-> <<>>, RampRegistry |-> <<>>, AdvancedPoolHooks |-> <<>>,
        PoolFeeConfig |-> <<U64>>, Router |-> <<>>])

LockReleasePoolOwner == Simulate("owner", <<>>, Option(Address))
LockReleasePoolGetFee == Simulate("get_fee", <<U64>>, LockReleasePoolPoolFeeResult)
LockReleasePoolIsOwner == Simulate("is_owner", <<Address>>, Bool)
LockReleasePoolGetToken == Simulate("get_token", <<>>, Address)
LockReleasePoolGetRouter == Simulate("get_router", <<>>, Option(Address))
LockReleasePoolInitOwner == Invoke("init_owner", <<Address>>, Void)
LockReleasePoolInitialize == Invoke("initialize", <<Address, Address, U32, Address, Address>>, Void)
LockReleasePoolSetRouter == Invoke("set_router", <<Address>>, Void)
LockReleasePoolLockOrBurn ==
    Invoke("lock_or_burn", <<Address, LockReleasePoolLockOrBurnIn, U32>>,
        LockReleasePoolLockOrBurnOut)
LockReleasePoolRequireOwner == Invoke("require_owner", <<>>, Address)
LockReleasePoolSetNewOwner == Invoke("set_new_owner", <<Address>>, Void)
LockReleasePoolGetRemotePool == Simulate("get_remote_pool", <<U64>>, Bytes)
LockReleasePoolReleaseOrMint ==
    Invoke("release_or_mint", <<Address, LockReleasePoolReleaseOrMintIn, U32>>,
        LockReleasePoolReleaseOrMintOut)
LockReleasePoolAcceptOwnership == Invoke("accept_ownership", <<>>, Void)
LockReleasePoolGetRemoteToken == Simulate("get_remote_token", <<U64>>, Bytes)
LockReleasePoolTypeAndVersion == Invoke("type_and_version", <<>>, Text)
LockReleasePoolGetPendingOwner == Simulate("get_pending_owner", <<>>, Option(Address))
LockReleasePoolGetRampRegistry == Simulate("get_ramp_registry", <<>>, Option(Address))
LockReleasePoolGetRequiredCcvs ==
    Simulate("get_required_ccvs", <<Address, U64, I128, U32, Bytes,
        LockReleasePoolMessageDirection>>, LockReleasePoolPoolRequiredCCVs)
LockReleasePoolSetRampRegistry == Invoke("set_ramp_registry", <<Address>>, Void)
LockReleasePoolGetTokenDecimals == Simulate("get_token_decimals", <<>>, U32)
LockReleasePoolIsSupportedChain == Simulate("is_supported_chain", <<U64>>, Bool)
LockReleasePoolIsSupportedToken == Simulate("is_supported_token", <<Address>>, Bool)
LockReleasePoolTransferOwnership == Invoke("transfer_ownership", <<Address>>, Void)
LockReleasePoolApplyChainUpdates ==
    Invoke("apply_chain_updates", <<Vec(LockReleasePoolChainUpdate), Vec(U64)>>, Void)
LockReleasePoolSetPoolFeeConfig ==
    Invoke("set_pool_fee_config", <<U64, LockReleasePoolPoolFeeConfig>>, Void)
LockReleasePoolGetRateLimitAdmin == Simulate("get_rate_limit_admin", <<>>, Option(Address))
LockReleasePoolSetRateLimitAdmin == Invoke("set_rate_limit_admin", <<Address>>, Void)
LockReleasePoolSetRateLimitConfig ==
    Invoke("set_rate_limit_config", <<U64, LockReleasePoolRateLimitConfig,
        LockReleasePoolRateLimitConfig, Bool>>, Void)
LockReleasePoolGetAdvancedPoolHooks == Simulate("get_advanced_pool_hooks", <<>>, Option(Address))
LockReleasePoolSetAdvancedPoolHooks == Invoke("set_advanced_pool_hooks", <<Address>>, Void)
LockReleasePoolCancelOwnershipTransfer == Invoke("cancel_ownership_transfer", <<>>, Void)
LockReleasePoolRemoveAdvancedPoolHooks == Invoke("remove_advanced_pool_hooks", <<>>, Void)
LockReleasePoolGetAllowedFinalityConfig == Simulate("get_allowed_finality_config", <<>>, U32)
LockReleasePoolSetAllowedFinalityConfig == Invoke("set_allowed_finality_config", <<U32>>, Void)
LockReleasePoolGetCurrentRateLimiterState ==
    Simulate("get_current_rate_limiter_state", <<U64, Bool>>, LockReleasePoolRateLimiterState)

LockReleasePoolRoleGrantedEvent ==
    Event("auth_RoleGranted", [role |-> Symbol, account |-> Address, sender |-> Address])
LockReleasePoolRoleRevokedEvent ==
    Event("auth_RoleRevoked", [role |-> Symbol, account |-> Address, sender |-> Address])
LockReleasePoolAuthorizedCallerAddedEvent == Event("auth_CallerAdded", [caller |-> Address])
LockReleasePoolAuthorizedCallerRemovedEvent == Event("auth_CallerRemoved", [caller |-> Address])
LockReleasePoolOwnershipTransferStartedEvent ==
    Event("auth_OwnerTransferStart", [previous_owner |-> Address, new_owner |-> Address])
LockReleasePoolBurnedEvent == Event("pool_Burned", [sender |-> Address, amount |-> I128])
LockReleasePoolLockedEvent == Event("pool_Locked", [sender |-> Address, amount |-> I128])
LockReleasePoolMintedEvent ==
    Event("pool_Minted", [sender |-> Address, recipient |-> Address, amount |-> I128])
LockReleasePoolReleasedEvent ==
    Event("pool_Released", [sender |-> Address, recipient |-> Address, amount |-> I128])
LockReleasePoolChainRemovedEvent == Event("pool_ChainRemoved", [remote_chain_selector |-> U64])
LockReleasePoolChainConfiguredEvent ==
    Event("pool_ChainConfigured", [remote_chain_selector |-> U64, remote_pool_address |-> Bytes,
        remote_token_address |-> Bytes,
        outbound_rate_limiter_config |-> LockReleasePoolRateLimitConfig,
        inbound_rate_limiter_config |-> LockReleasePoolRateLimitConfig])
LockReleasePoolFinalityConfigSetEvent == Event("pool_FinalityConfigSet", [allowed_finality |-> U32])
LockReleasePoolFtfInboundConsumedEvent ==
    Event("pool_FtfInboundConsumed", [remote_chain_selector |-> U64, amount |-> I128])
LockReleasePoolFtfOutboundConsumedEvent ==
    Event("pool_FtfOutboundConsumed", [remote_chain_selector |-> U64, amount |-> I128])
LockReleasePoolRateLimitConfiguredEvent ==
    Event("pool_RateLimitConfigured", [remote_chain_selector |-> U64, fast_finality |-> Bool,
        outbound_config |-> LockReleasePoolRateLimitConfig,
        inbound_config |-> LockReleasePoolRateLimitConfig])
LockReleasePoolAdvancedPoolHooksUpdatedEvent ==
    Event("pool_HooksUpdated", [old_hooks |-> Option(Address), new_hooks |-> Option(Address)])
LockReleasePoolInboundRateLimitConsumedEvent ==
    Event("pool_InboundRateLimitConsumed", [remote_chain_selector |-> U64, amount |-> I128])
LockReleasePoolOutboundRateLimitConsumedEvent ==
    Event("pool_OutboundRateLimitConsumed", [remote_chain_selector |-> U64, amount |-> I128])

LockReleasePoolKeys == [PoolDataKey |-> LockReleasePoolPoolDataKey]

LockReleasePoolMethods ==
    {LockReleasePoolOwner, LockReleasePoolGetFee, LockReleasePoolIsOwner,
     LockReleasePoolGetToken, LockReleasePoolGetRouter, LockReleasePoolInitOwner,
     LockReleasePoolInitialize, LockReleasePoolSetRouter, LockReleasePoolLockOrBurn,
     LockReleasePoolRequireOwner, LockReleasePoolSetNewOwner, LockReleasePoolGetRemotePool,
     LockReleasePoolReleaseOrMint, LockReleasePoolAcceptOwnership, LockReleasePoolGetRemoteToken,
     LockReleasePoolTypeAndVersion, LockReleasePoolGetPendingOwner,
     LockReleasePoolGetRampRegistry, LockReleasePoolGetRequiredCcvs,
     LockReleasePoolSetRampRegistry, LockReleasePoolGetTokenDecimals,
     LockReleasePoolIsSupportedChain, LockReleasePoolIsSupportedToken,
     LockReleasePoolTransferOwnership, LockReleasePoolApplyChainUpdates,
     LockReleasePoolSetPoolFeeConfig, LockReleasePoolGetRateLimitAdmin,
     LockReleasePoolSetRateLimitAdmin, LockReleasePoolSetRateLimitConfig,
     LockReleasePoolGetAdvancedPoolHooks, LockReleasePoolSetAdvancedPoolHooks,
     LockReleasePoolCancelOwnershipTransfer, LockReleasePoolRemoveAdvancedPoolHooks,
     LockReleasePoolGetAllowedFinalityConfig, LockReleasePoolSetAllowedFinalityConfig,
     LockReleasePoolGetCurrentRateLimiterState}

LockReleasePoolEvents ==
    [RoleGrantedEvent |-> LockReleasePoolRoleGrantedEvent,
     RoleRevokedEvent |-> LockReleasePoolRoleRevokedEvent,
     AuthorizedCallerAddedEvent |-> LockReleasePoolAuthorizedCallerAddedEvent,
     AuthorizedCallerRemovedEvent |-> LockReleasePoolAuthorizedCallerRemovedEvent,
     OwnershipTransferStartedEvent |-> LockReleasePoolOwnershipTransferStartedEvent,
     BurnedEvent |-> LockReleasePoolBurnedEvent, LockedEvent |-> LockReleasePoolLockedEvent,
     MintedEvent |-> LockReleasePoolMintedEvent, ReleasedEvent |-> LockReleasePoolReleasedEvent,
     ChainRemovedEvent |-> LockReleasePoolChainRemovedEvent,
     ChainConfiguredEvent |-> LockReleasePoolChainConfiguredEvent,
     FinalityConfigSetEvent |-> LockReleasePoolFinalityConfigSetEvent,
     FtfInboundConsumedEvent |-> LockReleasePoolFtfInboundConsumedEvent,
     FtfOutboundConsumedEvent |-> LockReleasePoolFtfOutboundConsumedEvent,
     RateLimitConfiguredEvent |-> LockReleasePoolRateLimitConfiguredEvent,
     AdvancedPoolHooksUpdatedEvent |-> LockReleasePoolAdvancedPoolHooksUpdatedEvent,
     InboundRateLimitConsumedEvent |-> LockReleasePoolInboundRateLimitConsumedEvent,
     OutboundRateLimitConsumedEvent |-> LockReleasePoolOutboundRateLimitConsumedEvent]

-----------------------------------------------------------------------------

Clients ==
    [token_pool |->
         [methods |-> TokenPoolMethods, events |-> TokenPoolEvents,
          keys |-> TokenPoolKeys],
     burn_mint_pool |->
         [methods |-> BurnMintPoolMethods, events |-> BurnMintPoolEvents,
          keys |-> BurnMintPoolKeys],
     lock_release_pool |->
         [methods |-> LockReleasePoolMethods, events |-> LockReleasePoolEvents,
          keys |-> LockReleasePoolKeys]]
=============================================================================
