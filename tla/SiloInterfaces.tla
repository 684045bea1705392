--------------------------- MODULE SiloInterfaces ---------------------------
(***************************************************************************)
(* Interfaces of the siloed token pool and the lock box, as their callers  *)
(* see them: for each contract its types, its functions and its events.    *)
(***************************************************************************)
EXTENDS Scval

-----------------------------------------------------------------------------
(* what every pool publishes beside its transfers                         *)

RateLimitConfig == Struct([capacity |-> U128, is_enabled |-> Bool, rate |-> U128])

BaseTokenPoolEvents ==
    [ChainRemovedEvent |-> Event("pool_ChainRemoved", [remote_chain_selector |-> U64]),
     ChainConfiguredEvent |-> Event("pool_ChainConfigured", [remote_chain_selector |-> U64,
         remote_pool_address |-> Bytes, remote_token_address |-> Bytes,
         outbound_rate_limiter_config |-> RateLimitConfig,
         inbound_rate_limiter_config |-> RateLimitConfig]),
     RateLimitConfiguredEvent |-> Event("pool_RateLimitConfigured",
         [remote_chain_selector |-> U64, fast_finality |-> Bool,
         outbound_config |-> RateLimitConfig,
         inbound_config |-> RateLimitConfig]),
     FinalityConfigSetEvent |-> Event("pool_FinalityConfigSet", [allowed_finality |-> U32]),
     AdvancedPoolHooksUpdatedEvent |-> Event("pool_HooksUpdated",
         [old_hooks |-> Option(Address), new_hooks |-> Option(Address)]),
     OutboundRateLimitConsumedEvent |-> Event("pool_OutboundRateLimitConsumed",
         [remote_chain_selector |-> U64, amount |-> I128]),
     InboundRateLimitConsumedEvent |-> Event("pool_InboundRateLimitConsumed",
         [remote_chain_selector |-> U64, amount |-> I128]),
     FtfOutboundConsumedEvent |-> Event("pool_FtfOutboundConsumed",
         [remote_chain_selector |-> U64, amount |-> I128]),
     FtfInboundConsumedEvent |-> Event("pool_FtfInboundConsumed",
         [remote_chain_selector |-> U64, amount |-> I128])]

-----------------------------------------------------------------------------
(* siloed lock release pool                                                *)

SiloedLockReleasePoolRateLimitConfig ==
    Struct([capacity |-> U128, is_enabled |-> Bool, rate |-> U128])
SiloedLockReleasePoolChainUpdate ==
    Struct([inbound_rate_limiter_config |-> SiloedLockReleasePoolRateLimitConfig,
        outbound_rate_limiter_config |-> SiloedLockReleasePoolRateLimitConfig,
        remote_chain_selector |-> U64, remote_pool_addresses |-> Bytes,
        remote_token_address |-> Bytes])
SiloedLockReleasePoolTokenBucket ==
    Struct([capacity |-> U128, is_enabled |-> Bool, last_updated |-> U64, rate |-> U128,
        tokens |-> U128])
SiloedLockReleasePoolLockOrBurnIn ==
    Struct([amount |-> I128, local_token |-> Address, original_sender |-> Address,
        receiver |-> Bytes, remote_chain_selector |-> U64])
SiloedLockReleasePoolLockOrBurnOut ==
    Struct([dest_pool_data |-> Bytes, dest_token_address |-> Bytes])
SiloedLockReleasePoolPoolFeeConfig == Struct([fee_usd_cents |-> U32, is_enabled |-> Bool])
SiloedLockReleasePoolPoolFeeResult == Struct([fee_usd_cents |-> U32])
SiloedLockReleasePoolReleaseOrMintIn ==
    Struct([amount |-> I128, local_token |-> Address, original_sender |-> Bytes,
        receiver |-> Address, remote_chain_selector |-> U64, source_pool_address |-> Bytes,
        source_pool_data |-> Bytes])
SiloedLockReleasePoolPoolRequiredCCVs == Struct([ccvs |-> Vec(Address), include_defaults |-> Bool])
SiloedLockReleasePoolRateLimiterState ==
    Struct([inbound |-> SiloedLockReleasePoolTokenBucket,
        outbound |-> SiloedLockReleasePoolTokenBucket])
SiloedLockReleasePoolReleaseOrMintOut == Struct([destination_amount |-> I128])
SiloedLockReleasePoolRemoteChainConfig ==
    Struct([remote_pool_address |-> Bytes, remote_token_address |-> Bytes])
SiloedLockReleasePoolLockBoxEntry == Struct([lock_box |-> Address, remote_chain_selector |-> U64])
SiloedLockReleasePoolPoolDataKey ==
    Union([Token |-> <<>>, RemoteChainConfig |-> <<U64>>, SupportedChains |-> <<>>,
        TokenDecimals |-> <<>>, OutboundRateLimit |-> <<U64>>, InboundRateLimit |-> <<U64>>,
        RateLimitAdmin |-> <<>>, FtfOutboundRateLimit |-> <<U64>>, FtfInboundRateLimit |-> <<U64>>,
        AllowedFinalityConfig |-> <<>>, RampRegistry |-> <<>>, AdvancedPoolHooks |-> <<>>,
        PoolFeeConfig |-> <<U64>>, Router |-> <<>>])
SiloedLockReleasePoolMessageDirection == Union([Outbound |-> <<>>, Inbound |-> <<>>])

SiloedLockReleasePoolFunctions ==
    [owner |-> Fn(<<>>, Option(Address)),
     get_fee |-> Fn(<<U64>>, SiloedLockReleasePoolPoolFeeResult),
     is_owner |-> Fn(<<Address>>, Bool),
     get_token |-> Fn(<<>>, Address),
     get_router |-> Fn(<<>>, Option(Address)),
     init_owner |-> Fn(<<Address>>, Void),
     initialize |-> Fn(<<Address, Address, U32, Address, Address>>, Void),
     set_router |-> Fn(<<Address>>, Void),
     get_lock_box |-> Fn(<<U64>>, Address),
     lock_or_burn |-> Fn(<<Address, SiloedLockReleasePoolLockOrBurnIn, U32>>,
         SiloedLockReleasePoolLockOrBurnOut),
     require_owner |-> Fn(<<>>, Address),
     set_new_owner |-> Fn(<<Address>>, Void),
     get_remote_pool |-> Fn(<<U64>>, Bytes),
     release_or_mint |-> Fn(<<Address, SiloedLockReleasePoolReleaseOrMintIn, U32>>,
         SiloedLockReleasePoolReleaseOrMintOut),
     accept_ownership |-> Fn(<<>>, Void),
     get_remote_token |-> Fn(<<U64>>, Bytes),
     type_and_version |-> Fn(<<>>, Text),
     get_pending_owner |-> Fn(<<>>, Option(Address)),
     get_ramp_registry |-> Fn(<<>>, Option(Address)),
     get_required_ccvs |-> Fn(<<Address, U64, I128, U32, Bytes,
         SiloedLockReleasePoolMessageDirection>>, SiloedLockReleasePoolPoolRequiredCCVs),
     set_ramp_registry |-> Fn(<<Address>>, Void),
     get_token_decimals |-> Fn(<<>>, U32),
     is_supported_chain |-> Fn(<<U64>>, Bool),
     is_supported_token |-> Fn(<<Address>>, Bool),
     transfer_ownership |-> Fn(<<Address>>, Void),
     apply_chain_updates |-> Fn(<<Vec(SiloedLockReleasePoolChainUpdate), Vec(U64)>>, Void),
     set_pool_fee_config |-> Fn(<<U64, SiloedLockReleasePoolPoolFeeConfig>>, Void),
     configure_lock_boxes |-> Fn(<<Vec(SiloedLockReleasePoolLockBoxEntry)>>, Void),
     get_rate_limit_admin |-> Fn(<<>>, Option(Address)),
     set_rate_limit_admin |-> Fn(<<Address>>, Void),
     set_rate_limit_config |-> Fn(<<U64, SiloedLockReleasePoolRateLimitConfig,
         SiloedLockReleasePoolRateLimitConfig, Bool>>, Void),
     get_advanced_pool_hooks |-> Fn(<<>>, Option(Address)),
     set_advanced_pool_hooks |-> Fn(<<Address>>, Void),
     get_all_lock_box_configs |-> Fn(<<>>, Vec(SiloedLockReleasePoolLockBoxEntry)),
     cancel_ownership_transfer |-> Fn(<<>>, Void),
     remove_advanced_pool_hooks |-> Fn(<<>>, Void),
     get_allowed_finality_config |-> Fn(<<>>, U32),
     set_allowed_finality_config |-> Fn(<<U32>>, Void),
     get_current_rate_limiter_state |-> Fn(<<U64, Bool>>,
         SiloedLockReleasePoolRateLimiterState)]

SiloedLockReleasePoolEvents ==
    OwnableEvents @@ BaseTokenPoolEvents @@
    [LockedEvent |-> Event("pool_Locked", [sender |-> Address, amount |-> I128]),
     ReleasedEvent |-> Event("pool_Released", [sender |-> Address, recipient |-> Address,
         amount |-> I128]),
     LockBoxConfiguredEvent |-> Event("pool_LockBoxConfigured", [remote_chain_selector |-> U64,
         lock_box |-> Address])]

SiloedLockReleasePoolKeys == [PoolDataKey |-> SiloedLockReleasePoolPoolDataKey]

-----------------------------------------------------------------------------
(* token lock box                                                          *)

TokenLockBoxFunctions ==
    [owner |-> Fn(<<>>, Option(Address)),
     deposit |-> Fn(<<Address, I128>>, Void),
     is_owner |-> Fn(<<Address>>, Bool),
     withdraw |-> Fn(<<Address, I128, Address>>, Void),
     get_token |-> Fn(<<>>, Address),
     init_owner |-> Fn(<<Address>>, Void),
     initialize |-> Fn(<<Address, Address>>, Void),
     require_owner |-> Fn(<<>>, Address),
     set_new_owner |-> Fn(<<Address>>, Void),
     accept_ownership |-> Fn(<<>>, Void),
     get_pending_owner |-> Fn(<<>>, Option(Address)),
     is_token_supported |-> Fn(<<Address>>, Bool),
     transfer_ownership |-> Fn(<<Address>>, Void),
     add_allowed_callers |-> Fn(<<Vec(Address)>>, Void),
     get_allowed_callers |-> Fn(<<>>, Vec(Address)),
     remove_allowed_callers |-> Fn(<<Vec(Address)>>, Void),
     cancel_ownership_transfer |-> Fn(<<>>, Void)]

TokenLockBoxEvents ==
    OwnableEvents @@
    [DepositEvent |-> Event("lockbox_Deposit", [token |-> Address, depositor |-> Address,
         amount |-> I128]),
     WithdrawalEvent |-> Event("lockbox_Withdrawal", [token |-> Address, recipient |-> Address,
         amount |-> I128])]

TokenLockBoxKeys == <<>>

-----------------------------------------------------------------------------

Interfaces ==
    [siloed_lock_release_pool |->
         [functions |-> SiloedLockReleasePoolFunctions, events |-> SiloedLockReleasePoolEvents,
          keys |-> SiloedLockReleasePoolKeys],
     token_lock_box |->
         [functions |-> TokenLockBoxFunctions, events |-> TokenLockBoxEvents,
          keys |-> TokenLockBoxKeys]]
=============================================================================
