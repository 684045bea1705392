-------------------------- MODULE AuthorityClients --------------------------
(***************************************************************************)
(* Generated Go clients of the verifiers, the timelock and MCMS: for each  *)
(* contract the types its client converts, a line for each method and for  *)
(* each event it can wait for.                                             *)
(***************************************************************************)
EXTENDS Scval

-----------------------------------------------------------------------------
(* committee verifier                                                      *)

CommitteeVerifierFeeResponse ==
    Struct([dest_bytes_overhead |-> U32, dest_gas_limit |-> U32, fee |-> U32])
CommitteeVerifierDynamicConfig ==
    Struct([allowlist_admin |-> Option(Address), fee_aggregator |-> Option(Address)])
CommitteeVerifierRemoteChainConfig ==
    Struct([allowlist_enabled |-> Bool, fee_usd_cents |-> U32, gas_for_verification |-> U32,
        payload_size_bytes |-> U32, remote_chain_selector |-> U64, router |-> Option(Address)])
CommitteeVerifierAllowListEntry == Struct([allowlist |-> Vec(Address), allowlist_enabled |-> Bool])
CommitteeVerifierAllowListUpdate ==
    Struct([added_allowlisted_senders |-> Vec(Address), allowlist_enabled |-> Bool,
        dest_chain_selector |-> U64, removed_allowlisted_senders |-> Vec(Address)])
CommitteeVerifierSignatureQuorumConfig ==
    Struct([signers |-> Vec(BytesN(32)), source_chain_selector |-> U64, threshold |-> U32])

CommitteeVerifierOwner == Simulate("owner", <<>>, Option(Address))
CommitteeVerifierGetFee ==
    Simulate("get_fee", <<U64, Bytes, Bytes, U32>>, CommitteeVerifierFeeResponse)
CommitteeVerifierIsOwner == Simulate("is_owner", <<Address>>, Bool)
CommitteeVerifierInitOwner == Invoke("init_owner", <<Address>>, Void)
CommitteeVerifierInitialize ==
    Invoke("initialize", <<Address, CommitteeVerifierDynamicConfig, Vec(Bytes), Address,
        BytesN(4)>>, Void)
CommitteeVerifierVersionTag == Invoke("version_tag", <<>>, BytesN(4))
CommitteeVerifierRequireOwner == Invoke("require_owner", <<>>, Address)
CommitteeVerifierSetNewOwner == Invoke("set_new_owner", <<Address>>, Void)
CommitteeVerifierVerifyMessage == Invoke("verify_message", <<U64, BytesN(32), Bytes>>, Void)
CommitteeVerifierIsInAllowlist == Simulate("is_in_allowlist", <<U64, Address>>, Bool)
CommitteeVerifierAcceptOwnership == Invoke("accept_ownership", <<>>, Void)
CommitteeVerifierTypeAndVersion == Invoke("type_and_version", <<>>, Text)
CommitteeVerifierGetPendingOwner == Simulate("get_pending_owner", <<>>, Option(Address))
CommitteeVerifierGetDynamicConfig ==
    Simulate("get_dynamic_config", <<>>, CommitteeVerifierDynamicConfig)
CommitteeVerifierSetDynamicConfig ==
    Invoke("set_dynamic_config", <<CommitteeVerifierDynamicConfig>>, Void)
CommitteeVerifierTransferOwnership == Invoke("transfer_ownership", <<Address>>, Void)
CommitteeVerifierExtractVersionTag == Invoke("extract_version_tag", <<Bytes>>, BytesN(4))
CommitteeVerifierForwardToVerifier ==
    Invoke("forward_to_verifier", <<U64, Address, BytesN(32), Address, I128, Bytes>>, Bytes)
CommitteeVerifierGetAllowlistEntry ==
    Simulate("get_allowlist_entry", <<U64>>, Option(CommitteeVerifierAllowListEntry))
CommitteeVerifierValidateSignatures ==
    Invoke("validate_signatures", <<U64, BytesN(32), Bytes>>, Void)
CommitteeVerifierWithdrawFeeTokens == Invoke("withdraw_fee_tokens", <<Vec(Address)>>, Void)
CommitteeVerifierGetSignatureConfig ==
    Simulate("get_signature_config", <<U64>>, CommitteeVerifierSignatureQuorumConfig)
CommitteeVerifierIsAllowlistEnabled == Simulate("is_allowlist_enabled", <<U64>>, Bool)
CommitteeVerifierRequireInAllowlist == Invoke("require_in_allowlist", <<U64, Address>>, Void)
CommitteeVerifierExtractSignatureLen == Invoke("extract_signature_len", <<Bytes>>, U32)
CommitteeVerifierGetStorageLocations == Simulate("get_storage_locations", <<>>, Vec(Bytes))
CommitteeVerifierApplyAllowlistUpdates ==
    Invoke("apply_allowlist_updates", <<Vec(CommitteeVerifierAllowListUpdate)>>, Void)
CommitteeVerifierApplySignatureConfigs ==
    Invoke("apply_signature_configs", <<Vec(U64), Vec(CommitteeVerifierSignatureQuorumConfig)>>,
        Void)
CommitteeVerifierGetRemoteChainConfig ==
    Simulate("get_remote_chain_config", <<U64>>, CommitteeVerifierRemoteChainConfig)
CommitteeVerifierUpdateStorageLocations == Invoke("update_storage_locations", <<Vec(Bytes)>>, Void)
CommitteeVerifierCancelOwnershipTransfer == Invoke("cancel_ownership_transfer", <<>>, Void)
CommitteeVerifierGetAllSignatureConfigs ==
    Simulate("get_all_signature_configs", <<>>, Vec(CommitteeVerifierSignatureQuorumConfig))
CommitteeVerifierGetStorageLocationsAdmin == Simulate("get_storage_locations_admin", <<>>, Address)
CommitteeVerifierGetPendingStorageLocAdmin ==
    Simulate("get_pending_storage_loc_admin", <<>>, Option(Address))
CommitteeVerifierAcceptStorageLocationsAdmin == Invoke("accept_storage_locations_admin", <<>>, Void)
CommitteeVerifierApplyRemoteChainCfgUpdates ==
    Invoke("apply_remote_chain_cfg_updates", <<Vec(CommitteeVerifierRemoteChainConfig)>>, Void)
CommitteeVerifierTransferStorageLocationsAdmin ==
    Invoke("transfer_storage_locations_admin", <<Address>>, Void)

CommitteeVerifierConfigSetEvent ==
    Event("ccv_ConfigSet", [dynamic_config |-> CommitteeVerifierDynamicConfig])
CommitteeVerifierSignatureConfigSetEvent ==
    Event("ccv_SignatureConfigSet", [source_chain_selector |-> U64, signers |-> Vec(BytesN(32)),
        threshold |-> U32])
CommitteeVerifierRemoteChainConfigSetEvent ==
    Event("ccv_RemoteChainConfigSet", [remote_chain_selector |-> U64,
        router |-> Option(Address), allowlist_enabled |-> Bool])
CommitteeVerifierAllowListSendersAddedEvent ==
    Event("ccv_AllowListSendersAdded", [dest_chain_selector |-> U64, sender |-> Address])
CommitteeVerifierAllowListStateChangedEvent ==
    Event("ccv_AllowListStateChanged", [dest_chain_selector |-> U64,
        allowlist_enabled |-> Bool])
CommitteeVerifierAllowListSendersRemovedEvent ==
    Event("ccv_AllowListSendersRemoved", [dest_chain_selector |-> U64, sender |-> Address])
CommitteeVerifierStorageAdminTransferredEvent ==
    Event("ccv_StorageAdminTransferred", [from |-> Address, to |-> Address])
CommitteeVerifierStorageAdminTransferReqEvent ==
    Event("ccv_StorageAdminTransferReq", [from |-> Address, to |-> Address])
CommitteeVerifierStorageLocationsUpdatedEvent ==
    Event("ccv_StorageLocationsUpdated", [old_locations |-> Vec(Bytes),
        new_locations |-> Vec(Bytes)])
CommitteeVerifierRoleGrantedEvent ==
    Event("auth_RoleGranted", [role |-> Symbol, account |-> Address, sender |-> Address])
CommitteeVerifierRoleRevokedEvent ==
    Event("auth_RoleRevoked", [role |-> Symbol, account |-> Address, sender |-> Address])
CommitteeVerifierAuthorizedCallerAddedEvent == Event("auth_CallerAdded", [caller |-> Address])
CommitteeVerifierAuthorizedCallerRemovedEvent == Event("auth_CallerRemoved", [caller |-> Address])
CommitteeVerifierOwnershipTransferStartedEvent ==
    Event("auth_OwnerTransferStart", [previous_owner |-> Address, new_owner |-> Address])

CommitteeVerifierKeys == <<>>

CommitteeVerifierMethods ==
    {CommitteeVerifierOwner, CommitteeVerifierGetFee, CommitteeVerifierIsOwner,
     CommitteeVerifierInitOwner, CommitteeVerifierInitialize, CommitteeVerifierVersionTag,
     CommitteeVerifierRequireOwner, CommitteeVerifierSetNewOwner, CommitteeVerifierVerifyMessage,
     CommitteeVerifierIsInAllowlist, CommitteeVerifierAcceptOwnership,
     CommitteeVerifierTypeAndVersion, CommitteeVerifierGetPendingOwner,
     CommitteeVerifierGetDynamicConfig, CommitteeVerifierSetDynamicConfig,
     CommitteeVerifierTransferOwnership, CommitteeVerifierExtractVersionTag,
     CommitteeVerifierForwardToVerifier, CommitteeVerifierGetAllowlistEntry,
     CommitteeVerifierValidateSignatures, CommitteeVerifierWithdrawFeeTokens,
     CommitteeVerifierGetSignatureConfig, CommitteeVerifierIsAllowlistEnabled,
     CommitteeVerifierRequireInAllowlist, CommitteeVerifierExtractSignatureLen,
     CommitteeVerifierGetStorageLocations, CommitteeVerifierApplyAllowlistUpdates,
     CommitteeVerifierApplySignatureConfigs, CommitteeVerifierGetRemoteChainConfig,
     CommitteeVerifierUpdateStorageLocations, CommitteeVerifierCancelOwnershipTransfer,
     CommitteeVerifierGetAllSignatureConfigs, CommitteeVerifierGetStorageLocationsAdmin,
     CommitteeVerifierGetPendingStorageLocAdmin, CommitteeVerifierAcceptStorageLocationsAdmin,
     CommitteeVerifierApplyRemoteChainCfgUpdates, CommitteeVerifierTransferStorageLocationsAdmin}

CommitteeVerifierEvents ==
    [ConfigSetEvent |-> CommitteeVerifierConfigSetEvent,
     SignatureConfigSetEvent |-> CommitteeVerifierSignatureConfigSetEvent,
     RemoteChainConfigSetEvent |-> CommitteeVerifierRemoteChainConfigSetEvent,
     AllowListSendersAddedEvent |-> CommitteeVerifierAllowListSendersAddedEvent,
     AllowListStateChangedEvent |-> CommitteeVerifierAllowListStateChangedEvent,
     AllowListSendersRemovedEvent |-> CommitteeVerifierAllowListSendersRemovedEvent,
     StorageAdminTransferredEvent |-> CommitteeVerifierStorageAdminTransferredEvent,
     StorageAdminTransferReqEvent |-> CommitteeVerifierStorageAdminTransferReqEvent,
     StorageLocationsUpdatedEvent |-> CommitteeVerifierStorageLocationsUpdatedEvent,
     RoleGrantedEvent |-> CommitteeVerifierRoleGrantedEvent,
     RoleRevokedEvent |-> CommitteeVerifierRoleRevokedEvent,
     AuthorizedCallerAddedEvent |-> CommitteeVerifierAuthorizedCallerAddedEvent,
     AuthorizedCallerRemovedEvent |-> CommitteeVerifierAuthorizedCallerRemovedEvent,
     OwnershipTransferStartedEvent |-> CommitteeVerifierOwnershipTransferStartedEvent]

-----------------------------------------------------------------------------
(* versioned verifier resolver                                             *)

VersionedVerifierResolverInboundImplementationArgs ==
    Struct([verifier |-> Address, version |-> BytesN(4)])
VersionedVerifierResolverOutboundImplementationArgs ==
    Struct([dest_chain_selector |-> U64, verifier |-> Address])
VersionedVerifierResolverInboundImplementationUpdate ==
    Struct([verifier |-> Option(Address), version |-> BytesN(4)])
VersionedVerifierResolverOutboundImplementationUpdate ==
    Struct([dest_chain_selector |-> U64, verifier |-> Option(Address)])

VersionedVerifierResolverOwner == Simulate("owner", <<>>, Option(Address))
VersionedVerifierResolverIsOwner == Simulate("is_owner", <<Address>>, Bool)
VersionedVerifierResolverInitOwner == Invoke("init_owner", <<Address>>, Void)
VersionedVerifierResolverInitialize == Invoke("initialize", <<Address, Address>>, Void)
VersionedVerifierResolverRequireOwner == Invoke("require_owner", <<>>, Address)
VersionedVerifierResolverSetNewOwner == Invoke("set_new_owner", <<Address>>, Void)
VersionedVerifierResolverAcceptOwnership == Invoke("accept_ownership", <<>>, Void)
VersionedVerifierResolverTypeAndVersion == Invoke("type_and_version", <<>>, Text)
VersionedVerifierResolverGetPendingOwner == Simulate("get_pending_owner", <<>>, Option(Address))
VersionedVerifierResolverGetFeeAggregator == Simulate("get_fee_aggregator", <<>>, Address)
VersionedVerifierResolverSetFeeAggregator == Invoke("set_fee_aggregator", <<Address>>, Void)
VersionedVerifierResolverTransferOwnership == Invoke("transfer_ownership", <<Address>>, Void)
VersionedVerifierResolverWithdrawFeeTokens == Invoke("withdraw_fee_tokens", <<Vec(Address)>>, Void)
VersionedVerifierResolverCancelOwnershipTransfer == Invoke("cancel_ownership_transfer", <<>>, Void)
VersionedVerifierResolverApplyInboundImplUpdates ==
    Invoke("apply_inbound_impl_updates",
        <<Vec(VersionedVerifierResolverInboundImplementationUpdate)>>, Void)
VersionedVerifierResolverGetInboundImplementation ==
    Simulate("get_inbound_implementation", <<Bytes>>, Address)
VersionedVerifierResolverApplyOutboundImplUpdates ==
    Invoke("apply_outbound_impl_updates",
        <<Vec(VersionedVerifierResolverOutboundImplementationUpdate)>>, Void)
VersionedVerifierResolverGetOutboundImplementation ==
    Simulate("get_outbound_implementation", <<U64, Bytes>>, Address)
VersionedVerifierResolverGetAllInboundImplementations ==
    Simulate("get_all_inbound_implementations", <<>>,
        Vec(VersionedVerifierResolverInboundImplementationArgs))
VersionedVerifierResolverGetAllOutboundImplementations ==
    Simulate("get_all_outbound_implementations", <<>>,
        Vec(VersionedVerifierResolverOutboundImplementationArgs))

VersionedVerifierResolverInboundImplSetEvent ==
    Event("vvr_InboundImplSet", [version |-> BytesN(4), verifier |-> Address])
VersionedVerifierResolverOutboundImplSetEvent ==
    Event("vvr_OutboundImplSet", [dest_chain_selector |-> U64, verifier |-> Address])
VersionedVerifierResolverFeeAggregatorSetEvent ==
    Event("vvr_FeeAggregatorSet", [fee_aggregator |-> Address])
VersionedVerifierResolverInboundImplRemovedEvent ==
    Event("vvr_InboundImplRemoved", [version |-> BytesN(4)])
VersionedVerifierResolverOutboundImplRemovedEvent ==
    Event("vvr_OutboundImplRemoved", [dest_chain_selector |-> U64])
VersionedVerifierResolverOwnershipTransferredEvent ==
    Event("vvr_OwnerTransferred", [new_owner |-> Address])
VersionedVerifierResolverRoleGrantedEvent ==
    Event("auth_RoleGranted", [role |-> Symbol, account |-> Address, sender |-> Address])
VersionedVerifierResolverRoleRevokedEvent ==
    Event("auth_RoleRevoked", [role |-> Symbol, account |-> Address, sender |-> Address])
VersionedVerifierResolverAuthorizedCallerAddedEvent ==
    Event("auth_CallerAdded", [caller |-> Address])
VersionedVerifierResolverAuthorizedCallerRemovedEvent ==
    Event("auth_CallerRemoved", [caller |-> Address])
VersionedVerifierResolverOwnershipTransferStartedEvent ==
    Event("auth_OwnerTransferStart", [previous_owner |-> Address, new_owner |-> Address])

VersionedVerifierResolverKeys == <<>>

VersionedVerifierResolverMethods ==
    {VersionedVerifierResolverOwner, VersionedVerifierResolverIsOwner,
     VersionedVerifierResolverInitOwner, VersionedVerifierResolverInitialize,
     VersionedVerifierResolverRequireOwner, VersionedVerifierResolverSetNewOwner,
     VersionedVerifierResolverAcceptOwnership, VersionedVerifierResolverTypeAndVersion,
     VersionedVerifierResolverGetPendingOwner, VersionedVerifierResolverGetFeeAggregator,
     VersionedVerifierResolverSetFeeAggregator, VersionedVerifierResolverTransferOwnership,
     VersionedVerifierResolverWithdrawFeeTokens,
     VersionedVerifierResolverCancelOwnershipTransfer,
     VersionedVerifierResolverApplyInboundImplUpdates,
     VersionedVerifierResolverGetInboundImplementation,
     VersionedVerifierResolverApplyOutboundImplUpdates,
     VersionedVerifierResolverGetOutboundImplementation,
     VersionedVerifierResolverGetAllInboundImplementations,
     VersionedVerifierResolverGetAllOutboundImplementations}

VersionedVerifierResolverEvents ==
    [InboundImplSetEvent |-> VersionedVerifierResolverInboundImplSetEvent,
     OutboundImplSetEvent |-> VersionedVerifierResolverOutboundImplSetEvent,
     FeeAggregatorSetEvent |-> VersionedVerifierResolverFeeAggregatorSetEvent,
     InboundImplRemovedEvent |-> VersionedVerifierResolverInboundImplRemovedEvent,
     OutboundImplRemovedEvent |-> VersionedVerifierResolverOutboundImplRemovedEvent,
     OwnershipTransferredEvent |-> VersionedVerifierResolverOwnershipTransferredEvent,
     RoleGrantedEvent |-> VersionedVerifierResolverRoleGrantedEvent,
     RoleRevokedEvent |-> VersionedVerifierResolverRoleRevokedEvent,
     AuthorizedCallerAddedEvent |-> VersionedVerifierResolverAuthorizedCallerAddedEvent,
     AuthorizedCallerRemovedEvent |-> VersionedVerifierResolverAuthorizedCallerRemovedEvent,
     OwnershipTransferStartedEvent |-> VersionedVerifierResolverOwnershipTransferStartedEvent]

-----------------------------------------------------------------------------
(* timelock                                                                *)

TimelockCall == Struct([data |-> Bytes, to |-> BytesN(32)])
TimelockCalls == Struct([inner |-> Vec(TimelockCall)])
TimelockTimelockDataKey == Union([OpTime |-> <<BytesN(32)>>])

TimelockCancel == Invoke("cancel", <<Address, BytesN(32)>>, Void)
TimelockHasRole == Invoke("has_role", <<Symbol, Address>>, Bool)
TimelockGrantRole == Invoke("grant_role", <<Address, Symbol, Address>>, Void)
TimelockInitialize ==
    Invoke("initialize", <<U64, Address, Vec(Address), Vec(Address), Vec(Address),
        Vec(Address)>>, Void)
TimelockRevokeRole == Invoke("revoke_role", <<Address, Symbol, Address>>, Void)
TimelockIsOperation == Simulate("is_operation", <<BytesN(32)>>, Bool)
TimelockUpdateDelay == Invoke("update_delay", <<Address, U64>>, Void)
TimelockExecuteBatch ==
    Invoke("execute_batch", <<Address, TimelockCalls, BytesN(32), BytesN(32)>>, Void)
TimelockGetMinDelay == Simulate("get_min_delay", <<>>, U64)
TimelockGetTimestamp == Simulate("get_timestamp", <<BytesN(32)>>, U64)
TimelockRenounceRole == Invoke("renounce_role", <<Address, Symbol>>, Void)
TimelockScheduleBatch ==
    Invoke("schedule_batch", <<Address, TimelockCalls, BytesN(32), BytesN(32), U64>>, Void)
TimelockExtendAllTtls == Invoke("extend_all_ttls", <<>>, Void)
TimelockGetRoleMember == Simulate("get_role_member", <<Symbol, U32>>, Address)
TimelockIsOperationDone == Simulate("is_operation_done", <<BytesN(32)>>, Bool)
TimelockExtendOpTimeTtl == Invoke("extend_op_time_ttl", <<BytesN(32)>>, Void)
TimelockIsOperationReady == Simulate("is_operation_ready", <<BytesN(32)>>, Bool)
TimelockHashOperationBatch ==
    Invoke("hash_operation_batch", <<TimelockCalls, BytesN(32), BytesN(32)>>, BytesN(32))
TimelockIsOperationPending == Simulate("is_operation_pending", <<BytesN(32)>>, Bool)
TimelockGetRoleMemberCount == Simulate("get_role_member_count", <<Symbol>>, U32)
TimelockBypasserExecuteBatch == Invoke("bypasser_execute_batch", <<Address, TimelockCalls>>, Void)
TimelockBlockFunctionSelector == Invoke("block_function_selector", <<Address, Symbol>>, Void)
TimelockGetBlockedSelectorAt == Simulate("get_blocked_selector_at", <<U32>>, Symbol)
TimelockUnblockFunctionSelector == Invoke("unblock_function_selector", <<Address, Symbol>>, Void)
TimelockGetBlockedSelectorCount == Simulate("get_blocked_selector_count", <<>>, U32)

TimelockCancelledEvent == Event("tl_Cancelled", [id |-> BytesN(32)])
TimelockRoleGrantedEvent ==
    Event("tl_RoleGranted", [role |-> Symbol, account |-> Address, sender |-> Address])
TimelockRoleRevokedEvent ==
    Event("tl_RoleRevoked", [role |-> Symbol, account |-> Address, sender |-> Address])
TimelockCallExecutedEvent ==
    Event("tl_CallExecuted", [id |-> BytesN(32), index |-> U32, to |-> BytesN(32),
        data |-> Bytes])
TimelockCallScheduledEvent ==
    Event("tl_CallScheduled", [id |-> BytesN(32), index |-> U32, to |-> BytesN(32),
        data |-> Bytes, predecessor |-> BytesN(32), salt |-> BytesN(32), delay |-> U64])
TimelockMinDelayChangeEvent == Event("tl_MinDelay", [old_duration |-> U64, new_duration |-> U64])
TimelockBypasserCallExecutedEvent ==
    Event("tl_BypCallExec", [index |-> U32, to |-> BytesN(32), data |-> Bytes])
TimelockFunctionSelectorBlockedEvent == Event("tl_SelBlocked", [selector |-> Symbol])
TimelockFunctionSelectorUnblockedEvent == Event("tl_SelUnblock", [selector |-> Symbol])

TimelockKeys == [TimelockDataKey |-> TimelockTimelockDataKey]

TimelockMethods ==
    {TimelockCancel, TimelockHasRole, TimelockGrantRole, TimelockInitialize, TimelockRevokeRole,
     TimelockIsOperation, TimelockUpdateDelay, TimelockExecuteBatch, TimelockGetMinDelay,
     TimelockGetTimestamp, TimelockRenounceRole, TimelockScheduleBatch, TimelockExtendAllTtls,
     TimelockGetRoleMember, TimelockIsOperationDone, TimelockExtendOpTimeTtl,
     TimelockIsOperationReady, TimelockHashOperationBatch, TimelockIsOperationPending,
     TimelockGetRoleMemberCount, TimelockBypasserExecuteBatch, TimelockBlockFunctionSelector,
     TimelockGetBlockedSelectorAt, TimelockUnblockFunctionSelector,
     TimelockGetBlockedSelectorCount}

TimelockEvents ==
    [CancelledEvent |-> TimelockCancelledEvent, RoleGrantedEvent |-> TimelockRoleGrantedEvent,
     RoleRevokedEvent |-> TimelockRoleRevokedEvent,
     CallExecutedEvent |-> TimelockCallExecutedEvent,
     CallScheduledEvent |-> TimelockCallScheduledEvent,
     MinDelayChangeEvent |-> TimelockMinDelayChangeEvent,
     BypasserCallExecutedEvent |-> TimelockBypasserCallExecutedEvent,
     FunctionSelectorBlockedEvent |-> TimelockFunctionSelectorBlockedEvent,
     FunctionSelectorUnblockedEvent |-> TimelockFunctionSelectorUnblockedEvent]

-----------------------------------------------------------------------------
(* mcms                                                                    *)

McmsSigner == Struct([addr |-> BytesN(32), group |-> U32, index |-> U32])
McmsConfig ==
    Struct([group_parents |-> BytesN(32), group_quorums |-> BytesN(32),
        signers |-> Vec(McmsSigner)])
McmsSignature == Struct([r |-> BytesN(32), s |-> BytesN(32), v |-> U32])
McmsStellarOp ==
    Struct([chain_id |-> BytesN(32), data |-> Bytes, multisig |-> BytesN(32), nonce |-> U64,
        to |-> BytesN(32), value |-> BytesN(32)])
McmsMerkleProof == Struct([inner |-> Vec(BytesN(32))])
McmsSignatureVec == Struct([inner |-> Vec(McmsSignature)])
McmsSignerGroups == Struct([inner |-> Vec(U32)])
McmsSignerAddresses == Struct([inner |-> Vec(BytesN(32))])
McmsStellarRootMetadata ==
    Struct([chain_id |-> BytesN(32), multisig |-> BytesN(32), override_previous_root |-> Bool,
        post_op_count |-> U64, pre_op_count |-> U64])

McmsOwner == Simulate("owner", <<>>, Option(Address))
McmsExecute == Invoke("execute", <<McmsStellarOp, McmsMerkleProof>>, Void)
McmsGetRoot == Simulate("get_root", <<>>, Tuple(<<BytesN(32), U32>>))
McmsIsOwner == Simulate("is_owner", <<Address>>, Bool)
McmsSetRoot ==
    Invoke("set_root", <<BytesN(32), U32, McmsStellarRootMetadata, McmsMerkleProof,
        McmsSignatureVec>>, Void)
McmsGetConfig == Simulate("get_config", <<>>, McmsConfig)
McmsInitOwner == Invoke("init_owner", <<Address>>, Void)
McmsInitialize == Invoke("initialize", <<Address, BytesN(32)>>, Void)
McmsSetConfig ==
    Invoke("set_config", <<McmsSignerAddresses, McmsSignerGroups, BytesN(32), BytesN(32),
        Bool>>, Void)
McmsGetOpCount == Simulate("get_op_count", <<>>, U64)
McmsRequireOwner == Invoke("require_owner", <<>>, Address)
McmsSetNewOwner == Invoke("set_new_owner", <<Address>>, Void)
McmsExtendAllTtls == Invoke("extend_all_ttls", <<>>, Void)
McmsAcceptOwnership == Invoke("accept_ownership", <<>>, Void)
McmsChainNetworkId == Invoke("chain_network_id", <<>>, BytesN(32))
McmsGetPendingOwner == Simulate("get_pending_owner", <<>>, Option(Address))
McmsGetRootMetadata == Simulate("get_root_metadata", <<>>, McmsStellarRootMetadata)
McmsTransferOwnership == Invoke("transfer_ownership", <<Address>>, Void)
McmsGetMinSecsPerLedger == Simulate("get_min_secs_per_ledger", <<>>, U64)
McmsSetMinSecsPerLedger == Invoke("set_min_secs_per_ledger", <<U64>>, Void)
McmsCancelOwnershipTransfer == Invoke("cancel_ownership_transfer", <<>>, Void)

McmsRoleGrantedEvent ==
    Event("auth_RoleGranted", [role |-> Symbol, account |-> Address, sender |-> Address])
McmsRoleRevokedEvent ==
    Event("auth_RoleRevoked", [role |-> Symbol, account |-> Address, sender |-> Address])
McmsAuthorizedCallerAddedEvent == Event("auth_CallerAdded", [caller |-> Address])
McmsAuthorizedCallerRemovedEvent == Event("auth_CallerRemoved", [caller |-> Address])
McmsOwnershipTransferStartedEvent ==
    Event("auth_OwnerTransferStart", [previous_owner |-> Address, new_owner |-> Address])
McmsNewRootEvent ==
    Event("mcms_NewRoot", [root |-> BytesN(32), valid_until |-> U32,
        metadata |-> McmsStellarRootMetadata])
McmsConfigSetEvent == Event("mcms_ConfigSet", [config |-> McmsConfig, is_root_cleared |-> Bool])
McmsOpExecutedEvent ==
    Event("mcms_OpExecuted", [nonce |-> U64, to |-> BytesN(32), data |-> Bytes,
        value |-> BytesN(32)])
McmsMinSecsPerLedgerSetEvent == Event("mcms_MinSecsPerLedgerSet", [min_secs_per_ledger |-> U64])

McmsKeys == <<>>

McmsMethods ==
    {McmsOwner, McmsExecute, McmsGetRoot, McmsIsOwner, McmsSetRoot, McmsGetConfig,
     McmsInitOwner, McmsInitialize, McmsSetConfig, McmsGetOpCount, McmsRequireOwner,
     McmsSetNewOwner, McmsExtendAllTtls, McmsAcceptOwnership, McmsChainNetworkId,
     McmsGetPendingOwner, McmsGetRootMetadata, McmsTransferOwnership, McmsGetMinSecsPerLedger,
     McmsSetMinSecsPerLedger, McmsCancelOwnershipTransfer}

McmsEvents ==
    [RoleGrantedEvent |-> McmsRoleGrantedEvent, RoleRevokedEvent |-> McmsRoleRevokedEvent,
     AuthorizedCallerAddedEvent |-> McmsAuthorizedCallerAddedEvent,
     AuthorizedCallerRemovedEvent |-> McmsAuthorizedCallerRemovedEvent,
     OwnershipTransferStartedEvent |-> McmsOwnershipTransferStartedEvent,
     NewRootEvent |-> McmsNewRootEvent, ConfigSetEvent |-> McmsConfigSetEvent,
     OpExecutedEvent |-> McmsOpExecutedEvent,
     MinSecsPerLedgerSetEvent |-> McmsMinSecsPerLedgerSetEvent]

-----------------------------------------------------------------------------

Clients ==
    [committee_verifier |->
         [methods |-> CommitteeVerifierMethods, events |-> CommitteeVerifierEvents,
          keys |-> CommitteeVerifierKeys],
     versioned_verifier_resolver |->
         [methods |-> VersionedVerifierResolverMethods, events |-> VersionedVerifierResolverEvents,
          keys |-> VersionedVerifierResolverKeys],
     timelock |->
         [methods |-> TimelockMethods, events |-> TimelockEvents,
          keys |-> TimelockKeys],
     mcms |->
         [methods |-> McmsMethods, events |-> McmsEvents,
          keys |-> McmsKeys]]
=============================================================================
