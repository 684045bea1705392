--------------------------- MODULE PoolInterfaces ---------------------------
(***************************************************************************)
(* Interfaces of the token pools but the siloed one, as their callers see  *)
(* them: for each contract its types, its functions and its events.        *)
(***************************************************************************)
EXTENDS Scval

-----------------------------------------------------------------------------
(* what every pool publishes beside its transfers                         *)

RateLimitConfig == Struct([capacity |-> U128, is_enabled |-> Bool, rate |-> U128])

BaseTokenPoolEvents ==
    [ChainRemovedEvent |-> Event("pool_ChainRemoved", [remote_chain_selector |-> U64]),
     ChainConfiguredEvent |-> Event("pool_ChainConfigured", [remote_chain_selector |-> U64,
         remote_pool_address |-> Bytes, remote_token_address |-> Bytes,
         outbound_rate_limiter_config |-> RateLimitConfig,
         inbound_rate_limiter_config |-> RateLimitConfig]),
     RateLimitConfiguredEvent |-> Event("pool_RateLimitConfigured",
         [remote_chain_selector |-> U64, fast_finality |-> Bool,
         outbound_config |-> RateLimitConfig,
         inbound_config |-> RateLimitConfig]),
     FinalityConfigSetEvent |-> Event("pool_FinalityConfigSet", [allowed_finality |-> U32]),
     AdvancedPoolHooksUpdatedEvent |-> Event("pool_HooksUpdated",
         [old_hooks |-> Option(Address), new_hooks |-> Option(Address)]),
     OutboundRateLimitConsumedEvent |-> Event("pool_OutboundRateLimitConsumed",
         [remote_chain_selector |-> U64, amount |-> I128]),
     InboundRateLimitConsumedEvent |-> Event("pool_InboundRateLimitConsumed",
         [remote_chain_selector |-> U64, amount |-> I128]),
     FtfOutboundConsumedEvent |-> Event("pool_FtfOutboundConsumed",
         [remote_chain_selector |-> U64, amount |-> I128]),
     FtfInboundConsumedEvent |-> Event("pool_FtfInboundConsumed",
         [remote_chain_selector |-> U64, amount |-> I128])]

-----------------------------------------------------------------------------
(* token pool                                                              *)

TokenPoolPoolRequiredCCVs == Struct([ccvs |-> Vec(Address), include_defaults |-> Bool])
TokenPoolPoolFeeResult == Struct([fee_usd_cents |-> U32])
TokenPoolLockOrBurnIn ==
    Struct([receiver |-> Bytes, remote_chain_selector |-> U64, original_sender |-> Address,
        amount |-> I128, local_token |-> Address])
TokenPoolLockOrBurnOut == Struct([dest_token_address |-> Bytes, dest_pool_data |-> Bytes])
TokenPoolReleaseOrMintIn ==
    Struct([original_sender |-> Bytes, remote_chain_selector |-> U64, receiver |-> Address,
        amount |-> I128, local_token |-> Address, source_pool_address |-> Bytes,
        source_pool_data |-> Bytes])
TokenPoolReleaseOrMintOut == Struct([destination_amount |-> I128])
TokenPoolRateLimitConfig == Struct([is_enabled |-> Bool, capacity |-> U128, rate |-> U128])
TokenPoolTokenBucket ==
    Struct([tokens |-> U128, last_updated |-> U64, is_enabled |-> Bool, capacity |-> U128,
        rate |-> U128])
TokenPoolRateLimiterState ==
    Struct([outbound |-> TokenPoolTokenBucket, inbound |-> TokenPoolTokenBucket])
TokenPoolChainUpdate ==
    Struct([remote_chain_selector |-> U64, remote_pool_addresses |-> Bytes,
        remote_token_address |-> Bytes, outbound_rate_limiter_config |-> TokenPoolRateLimitConfig,
        inbound_rate_limiter_config |-> TokenPoolRateLimitConfig])
TokenPoolMessageDirection == Union([Outbound |-> <<>>, Inbound |-> <<>>])

TokenPoolFunctions ==
    [initialize |-> Fn(<<Address, Address, U32, Address, Address>>, Void),
     type_and_version |-> Fn(<<>>, Text),
     lock_or_burn |-> Fn(<<Address, TokenPoolLockOrBurnIn, U32>>, TokenPoolLockOrBurnOut),
     release_or_mint |-> Fn(<<Address, TokenPoolReleaseOrMintIn, U32>>,
         TokenPoolReleaseOrMintOut),
     get_fee |-> Fn(<<U64>>, TokenPoolPoolFeeResult),
     is_supported_token |-> Fn(<<Address>>, Bool),
     is_supported_chain |-> Fn(<<U64>>, Bool),
     get_token |-> Fn(<<>>, Address),
     get_token_decimals |-> Fn(<<>>, U32),
     get_remote_pool |-> Fn(<<U64>>, Bytes),
     get_remote_token |-> Fn(<<U64>>, Bytes),
     apply_chain_updates |-> Fn(<<Vec(TokenPoolChainUpdate), Vec(U64)>>, Void),
     set_rate_limit_config |-> Fn(<<U64, TokenPoolRateLimitConfig, TokenPoolRateLimitConfig,
         Bool>>, Void),
     set_rate_limit_admin |-> Fn(<<Address>>, Void),
     get_current_rate_limiter_state |-> Fn(<<U64, Bool>>, TokenPoolRateLimiterState),
     get_rate_limit_admin |-> Fn(<<>>, Option(Address)),
     set_allowed_finality_config |-> Fn(<<U32>>, Void),
     get_allowed_finality_config |-> Fn(<<>>, U32),
     get_advanced_pool_hooks |-> Fn(<<>>, Option(Address)),
     set_advanced_pool_hooks |-> Fn(<<Address>>, Void),
     remove_advanced_pool_hooks |-> Fn(<<>>, Void),
     get_required_ccvs |-> Fn(<<Address, U64, I128, U32, Bytes, TokenPoolMessageDirection>>,
         TokenPoolPoolRequiredCCVs),
     set_router |-> Fn(<<Address>>, Void),
     get_router |-> Fn(<<>>, Option(Address)),
     set_ramp_registry |-> Fn(<<Address>>, Void),
     get_ramp_registry |-> Fn(<<>>, Option(Address))]

TokenPoolEvents == <<>>

TokenPoolKeys == <<>>

-----------------------------------------------------------------------------
(* burn mint pool                                                          *)

BurnMintPoolRateLimitConfig == Struct([capacity |-> U128, is_enabled |-> Bool, rate |-> U128])
BurnMintPoolChainUpdate ==
    Struct([inbound_rate_limiter_config |-> BurnMintPoolRateLimitConfig,
        outbound_rate_limiter_config |-> BurnMintPoolRateLimitConfig, remote_chain_selector |-> U64,
        remote_pool_addresses |-> Bytes, remote_token_address |-> Bytes])
BurnMintPoolTokenBucket ==
    Struct([capacity |-> U128, is_enabled |-> Bool, last_updated |-> U64, rate |-> U128,
        tokens |-> U128])
BurnMintPoolLockOrBurnIn ==
    Struct([amount |-> I128, local_token |-> Address, original_sender |-> Address,
        receiver |-> Bytes, remote_chain_selector |-> U64])
BurnMintPoolLockOrBurnOut == Struct([dest_pool_data |-> Bytes, dest_token_address |-> Bytes])
BurnMintPoolPoolFeeConfig == Struct([fee_usd_cents |-> U32, is_enabled |-> Bool])
BurnMintPoolPoolFeeResult == Struct([fee_usd_cents |-> U32])
BurnMintPoolReleaseOrMintIn ==
    Struct([amount |-> I128, local_token |-> Address, original_sender |-> Bytes,
        receiver |-> Address, remote_chain_selector |-> U64, source_pool_address |-> Bytes,
        source_pool_data |-> Bytes])
BurnMintPoolPoolRequiredCCVs == Struct([ccvs |-> Vec(Address), include_defaults |-> Bool])
BurnMintPoolRateLimiterState ==
    Struct([inbound |-> BurnMintPoolTokenBucket, outbound |-> BurnMintPoolTokenBucket])
BurnMintPoolReleaseOrMintOut == Struct([destination_amount |-> I128])
BurnMintPoolRemoteChainConfig ==
    Struct([remote_pool_address |-> Bytes, remote_token_address |-> Bytes])
BurnMintPoolPoolDataKey ==
    Union([Token |-> <<>>, RemoteChainConfig |-> <<U64>>, SupportedChains |-> <<>>,
        TokenDecimals |-> <<>>, OutboundRateLimit |-> <<U64>>, InboundRateLimit |-> <<U64>>,
        RateLimitAdmin |-> <<>>, FtfOutboundRateLimit |-> <<U64>>, FtfInboundRateLimit |-> <<U64>>,
        AllowedFinalityConfig |-> <<>>, RampRegistry |-> <<>>, AdvancedPoolHooks |-> <<>>,
        PoolFeeConfig |-> <<U64>>, Router |-> <<>>])
BurnMintPoolMessageDirection == Union([Outbound |-> <<>>, Inbound |-> <<>>])

BurnMintPoolFunctions ==
    [owner |-> Fn(<<>>, Option(Address)),
     get_fee |-> Fn(<<U64>>, BurnMintPoolPoolFeeResult),
     is_owner |-> Fn(<<Address>>, Bool),
     get_token |-> Fn(<<>>, Address),
     get_router |-> Fn(<<>>, Option(Address)),
     init_owner |-> Fn(<<Address>>, Void),
     initialize |-> Fn(<<Address, Address, U32, Address, Address>>, Void),
     set_router |-> Fn(<<Address>>, Void),
     lock_or_burn |-> Fn(<<Address, BurnMintPoolLockOrBurnIn, U32>>, BurnMintPoolLockOrBurnOut),
     require_owner |-> Fn(<<>>, Address),
     set_new_owner |-> Fn(<<Address>>, Void),
     get_remote_pool |-> Fn(<<U64>>, Bytes),
     release_or_mint |-> Fn(<<Address, BurnMintPoolReleaseOrMintIn, U32>>,
         BurnMintPoolReleaseOrMintOut),
     accept_ownership |-> Fn(<<>>, Void),
     get_remote_token |-> Fn(<<U64>>, Bytes),
     type_and_version |-> Fn(<<>>, Text),
     get_pending_owner |-> Fn(<<>>, Option(Address)),
     get_ramp_registry |-> Fn(<<>>, Option(Address)),
     get_required_ccvs |-> Fn(<<Address, U64, I128, U32, Bytes, BurnMintPoolMessageDirection>>,
         BurnMintPoolPoolRequiredCCVs),
     set_ramp_registry |-> Fn(<<Address>>, Void),
     get_token_decimals |-> Fn(<<>>, U32),
     is_supported_chain |-> Fn(<<U64>>, Bool),
     is_supported_token |-> Fn(<<Address>>, Bool),
     transfer_ownership |-> Fn(<<Address>>, Void),
     apply_chain_updates |-> Fn(<<Vec(BurnMintPoolChainUpdate), Vec(U64)>>, Void),
     set_pool_fee_config |-> Fn(<<U64, BurnMintPoolPoolFeeConfig>>, Void),
     get_rate_limit_admin |-> Fn(<<>>, Option(Address)),
     set_rate_limit_admin |-> Fn(<<Address>>, Void),
     set_rate_limit_config |-> Fn(<<U64, BurnMintPoolRateLimitConfig,
         BurnMintPoolRateLimitConfig, Bool>>, Void),
     get_advanced_pool_hooks |-> Fn(<<>>, Option(Address)),
     set_advanced_pool_hooks |-> Fn(<<Address>>, Void),
     cancel_ownership_transfer |-> Fn(<<>>, Void),
     remove_advanced_pool_hooks |-> Fn(<<>>, Void),
     get_allowed_finality_config |-> Fn(<<>>, U32),
     set_allowed_finality_config |-> Fn(<<U32>>, Void),
     get_current_rate_limiter_state |-> Fn(<<U64, Bool>>, BurnMintPoolRateLimiterState)]

BurnMintPoolEvents ==
    OwnableEvents @@ BaseTokenPoolEvents @@
    [BurnedEvent |-> Event("pool_Burned", [sender |-> Address, amount |-> I128]),
     MintedEvent |-> Event("pool_Minted", [sender |-> Address, recipient |-> Address,
         amount |-> I128])]

BurnMintPoolKeys == [PoolDataKey |-> BurnMintPoolPoolDataKey]

-----------------------------------------------------------------------------
(* lock release pool                                                       *)

LockReleasePoolRateLimitConfig == Struct([capacity |-> U128, is_enabled |-> Bool, rate |-> U128])
LockReleasePoolChainUpdate ==
    Struct([inbound_rate_limiter_config |-> LockReleasePoolRateLimitConfig,
        outbound_rate_limiter_config |-> LockReleasePoolRateLimitConfig,
        remote_chain_selector |-> U64, remote_pool_addresses |-> Bytes,
        remote_token_address |-> Bytes])
LockReleasePoolTokenBucket ==
    Struct([capacity |-> U128, is_enabled |-> Bool, last_updated |-> U64, rate |-> U128,
        tokens |-> U128])
LockReleasePoolLockOrBurnIn ==
    Struct([amount |-> I128, local_token |-> Address, original_sender |-> Address,
        receiver |-> Bytes, remote_chain_selector |-> U64])
LockReleasePoolLockOrBurnOut == Struct([dest_pool_data |-> Bytes, dest_token_address |-> Bytes])
LockReleasePoolPoolFeeConfig == Struct([fee_usd_cents |-> U32, is_enabled |-> Bool])
LockReleasePoolPoolFeeResult == Struct([fee_usd_cents |-> U32])
LockReleasePoolReleaseOrMintIn ==
    Struct([amount |-> I128, local_token |-> Address, original_sender |-> Bytes,
        receiver |-> Address, remote_chain_selector |-> U64, source_pool_address |-> Bytes,
        source_pool_data |-> Bytes])
LockReleasePoolPoolRequiredCCVs == Struct([ccvs |-> Vec(Address), include_defaults |-> Bool])
LockReleasePoolRateLimiterState ==
    Struct([inbound |-> LockReleasePoolTokenBucket, outbound |-> LockReleasePoolTokenBucket])
LockReleasePoolReleaseOrMintOut == Struct([destination_amount |-> I128])
LockReleasePoolRemoteChainConfig ==
    Struct([remote_pool_address |-> Bytes, remote_token_address |-> Bytes])
LockReleasePoolPoolDataKey ==
    Union([Token |-> <<>>, RemoteChainConfig |-> <<U64>>, SupportedChains |-> <<>>,
        TokenDecimals |-> <<>>, OutboundRateLimit |-> <<U64>>, InboundRateLimit |-> <<U64>>,
        RateLimitAdmin |-> <<>>, FtfOutboundRateLimit |-> <<U64>>, FtfInboundRateLimit |-> <<U64>>,
        AllowedFinalityConfig |-> <<>>, RampRegistry |-> <<>>, AdvancedPoolHooks |-> <<>>,
        PoolFeeConfig |-> <<U64>>, Router |-> <<>>])
LockReleasePoolMessageDirection == Union([Outbound |-> <<>>, Inbound |-> <<>>])

LockReleasePoolFunctions ==
    [owner |-> Fn(<<>>, Option(Address)),
     get_fee |-> Fn(<<U64>>, LockReleasePoolPoolFeeResult),
     is_owner |-> Fn(<<Address>>, Bool),
     get_token |-> Fn(<<>>, Address),
     get_router |-> Fn(<<>>, Option(Address)),
     init_owner |-> Fn(<<Address>>, Void),
     initialize |-> Fn(<<Address, Address, U32, Address, Address>>, Void),
     set_router |-> Fn(<<Address>>, Void),
     lock_or_burn |-> Fn(<<Address, LockReleasePoolLockOrBurnIn, U32>>,
         LockReleasePoolLockOrBurnOut),
     require_owner |-> Fn(<<>>, Address),
     set_new_owner |-> Fn(<<Address>>, Void),
     get_remote_pool |-> Fn(<<U64>>, Bytes),
     release_or_mint |-> Fn(<<Address, LockReleasePoolReleaseOrMintIn, U32>>,
         LockReleasePoolReleaseOrMintOut),
     accept_ownership |-> Fn(<<>>, Void),
     get_remote_token |-> Fn(<<U64>>, Bytes),
     type_and_version |-> Fn(<<>>, Text),
     get_pending_owner |-> Fn(<<>>, Option(Address)),
     get_ramp_registry |-> Fn(<<>>, Option(Address)),
     get_required_ccvs |-> Fn(<<Address, U64, I128, U32, Bytes,
         LockReleasePoolMessageDirection>>, LockReleasePoolPoolRequiredCCVs),
     set_ramp_registry |-> Fn(<<Address>>, Void),
     get_token_decimals |-> Fn(<<>>, U32),
     is_supported_chain |-> Fn(<<U64>>, Bool),
     is_supported_token |-> Fn(<<Address>>, Bool),
     transfer_ownership |-> Fn(<<Address>>, Void),
     apply_chain_updates |-> Fn(<<Vec(LockReleasePoolChainUpdate), Vec(U64)>>, Void),
     set_pool_fee_config |-> Fn(<<U64, LockReleasePoolPoolFeeConfig>>, Void),
     get_rate_limit_admin |-> Fn(<<>>, Option(Address)),
     set_rate_limit_admin |-> Fn(<<Address>>, Void),
     set_rate_limit_config |-> Fn(<<U64, LockReleasePoolRateLimitConfig,
         LockReleasePoolRateLimitConfig, Bool>>, Void),
     get_advanced_pool_hooks |-> Fn(<<>>, Option(Address)),
     set_advanced_pool_hooks |-> Fn(<<Address>>, Void),
     cancel_ownership_transfer |-> Fn(<<>>, Void),
     remove_advanced_pool_hooks |-> Fn(<<>>, Void),
     get_allowed_finality_config |-> Fn(<<>>, U32),
     set_allowed_finality_config |-> Fn(<<U32>>, Void),
     get_current_rate_limiter_state |-> Fn(<<U64, Bool>>, LockReleasePoolRateLimiterState)]

LockReleasePoolEvents ==
    OwnableEvents @@ BaseTokenPoolEvents @@
    [LockedEvent |-> Event("pool_Locked", [sender |-> Address, amount |-> I128]),
     ReleasedEvent |-> Event("pool_Released", [sender |-> Address, recipient |-> Address,
         amount |-> I128])]

LockReleasePoolKeys == [PoolDataKey |-> LockReleasePoolPoolDataKey]

-----------------------------------------------------------------------------

Interfaces ==
    [token_pool |->
         [functions |-> TokenPoolFunctions, events |-> TokenPoolEvents,
          keys |-> TokenPoolKeys],
     burn_mint_pool |->
         [functions |-> BurnMintPoolFunctions, events |-> BurnMintPoolEvents,
          keys |-> BurnMintPoolKeys],
     lock_release_pool |->
         [functions |-> LockReleasePoolFunctions, events |-> LockReleasePoolEvents,
          keys |-> LockReleasePoolKeys]]
=============================================================================
