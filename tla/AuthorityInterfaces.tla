------------------------ MODULE AuthorityInterfaces -------------------------
(***************************************************************************)
(* Interfaces of the verifiers, the timelock and MCMS, as their callers    *)
(* see them: for each contract its types, its functions and its events.    *)
(***************************************************************************)
EXTENDS Scval

-----------------------------------------------------------------------------
(* committee verifier                                                      *)

CommitteeVerifierFeeResponse ==
    Struct([dest_bytes_overhead |-> U32, dest_gas_limit |-> U32, fee |-> U32])
CommitteeVerifierDynamicConfig ==
    Struct([allowlist_admin |-> Option(Address), fee_aggregator |-> Option(Address)])
CommitteeVerifierRemoteChainConfig ==
    Struct([allowlist_enabled |-> Bool, fee_usd_cents |-> U32, gas_for_verification |-> U32,
        payload_size_bytes |-> U32, remote_chain_selector |-> U64, router |-> Option(Address)])
CommitteeVerifierAllowListEntry == Struct([allowlist |-> Vec(Address), allowlist_enabled |-> Bool])
CommitteeVerifierAllowListUpdate ==
    Struct([added_allowlisted_senders |-> Vec(Address), allowlist_enabled |-> Bool,
        dest_chain_selector |-> U64, removed_allowlisted_senders |-> Vec(Address)])
CommitteeVerifierSignatureQuorumConfig ==
    Struct([signers |-> Vec(BytesN(32)), source_chain_selector |-> U64, threshold |-> U32])

CommitteeVerifierFunctions ==
    [owner |-> Fn(<<>>, Option(Address)),
     get_fee |-> Fn(<<U64, Bytes, Bytes, U32>>, CommitteeVerifierFeeResponse),
     is_owner |-> Fn(<<Address>>, Bool),
     init_owner |-> Fn(<<Address>>, Void),
     initialize |-> Fn(<<Address, CommitteeVerifierDynamicConfig, Vec(Bytes), Address,
         BytesN(4)>>, Void),
     version_tag |-> Fn(<<>>, BytesN(4)),
     require_owner |-> Fn(<<>>, Address),
     set_new_owner |-> Fn(<<Address>>, Void),
     init_allowlist |-> Fn(<<MapOf(U64, Vec(Address))>>, Void),
     verify_message |-> Fn(<<U64, BytesN(32), Bytes>>, Void),
     is_in_allowlist |-> Fn(<<U64, Address>>, Bool),
     accept_ownership |-> Fn(<<>>, Void),
     type_and_version |-> Fn(<<>>, Text),
     get_pending_owner |-> Fn(<<>>, Option(Address)),
     get_dynamic_config |-> Fn(<<>>, CommitteeVerifierDynamicConfig),
     set_dynamic_config |-> Fn(<<CommitteeVerifierDynamicConfig>>, Void),
     transfer_ownership |-> Fn(<<Address>>, Void),
     extract_version_tag |-> Fn(<<Bytes>>, BytesN(4)),
     forward_to_verifier |-> Fn(<<U64, Address, BytesN(32), Address, I128, Bytes>>, Bytes),
     get_allowlist_entry |-> Fn(<<U64>>, Option(CommitteeVerifierAllowListEntry)),
     validate_signatures |-> Fn(<<U64, BytesN(32), Bytes>>, Void),
     withdraw_fee_tokens |-> Fn(<<Vec(Address)>>, Void),
     get_signature_config |-> Fn(<<U64>>, CommitteeVerifierSignatureQuorumConfig),
     is_allowlist_enabled |-> Fn(<<U64>>, Bool),
     require_in_allowlist |-> Fn(<<U64, Address>>, Void),
     extract_signature_len |-> Fn(<<Bytes>>, U32),
     get_storage_locations |-> Fn(<<>>, Vec(Bytes)),
     apply_allowlist_updates |-> Fn(<<Vec(CommitteeVerifierAllowListUpdate)>>, Void),
     apply_signature_configs |-> Fn(<<Vec(U64), Vec(CommitteeVerifierSignatureQuorumConfig)>>,
         Void),
     get_remote_chain_config |-> Fn(<<U64>>, CommitteeVerifierRemoteChainConfig),
     update_storage_locations |-> Fn(<<Vec(Bytes)>>, Void),
     cancel_ownership_transfer |-> Fn(<<>>, Void),
     emit_signature_config_set |-> Fn(<<U64, Vec(BytesN(32)), U32>>, Void),
     get_all_signature_configs |-> Fn(<<>>, Vec(CommitteeVerifierSignatureQuorumConfig)),
     get_storage_locations_admin |-> Fn(<<>>, Address),
     emit_allowlist_updated_event |-> Fn(<<U64, Vec(Address), Vec(Address)>>, Void),
     get_pending_storage_loc_admin |-> Fn(<<>>, Option(Address)),
     accept_storage_locations_admin |-> Fn(<<>>, Void),
     apply_remote_chain_cfg_updates |-> Fn(<<Vec(CommitteeVerifierRemoteChainConfig)>>, Void),
     transfer_storage_locations_admin |-> Fn(<<Address>>, Void)]

CommitteeVerifierEvents ==
    OwnableEvents @@
    [ConfigSetEvent |-> Event("ccv_ConfigSet",
         [dynamic_config |-> CommitteeVerifierDynamicConfig]),
     SignatureConfigSetEvent |-> Event("ccv_SignatureConfigSet",
         [source_chain_selector |-> U64, signers |-> Vec(BytesN(32)), threshold |-> U32]),
     RemoteChainConfigSetEvent |-> Event("ccv_RemoteChainConfigSet",
         [remote_chain_selector |-> U64, router |-> Option(Address), allowlist_enabled |-> Bool]),
     AllowListStateChangedEvent |-> Event("ccv_AllowListStateChanged",
         [dest_chain_selector |-> U64, allowlist_enabled |-> Bool]),
     StorageAdminTransferredEvent |-> Event("ccv_StorageAdminTransferred", [from |-> Address,
         to |-> Address]),
     StorageAdminTransferReqEvent |-> Event("ccv_StorageAdminTransferReq", [from |-> Address,
         to |-> Address]),
     StorageLocationsUpdatedEvent |-> Event("ccv_StorageLocationsUpdated",
         [old_locations |-> Vec(Bytes), new_locations |-> Vec(Bytes)])]

CommitteeVerifierKeys == <<>>

-----------------------------------------------------------------------------
(* versioned verifier resolver                                             *)

VersionedVerifierResolverInboundImplementationArgs ==
    Struct([verifier |-> Address, version |-> BytesN(4)])
VersionedVerifierResolverOutboundImplementationArgs ==
    Struct([dest_chain_selector |-> U64, verifier |-> Address])
VersionedVerifierResolverInboundImplementationUpdate ==
    Struct([verifier |-> Option(Address), version |-> BytesN(4)])
VersionedVerifierResolverOutboundImplementationUpdate ==
    Struct([dest_chain_selector |-> U64, verifier |-> Option(Address)])

VersionedVerifierResolverFunctions ==
    [owner |-> Fn(<<>>, Option(Address)),
     is_owner |-> Fn(<<Address>>, Bool),
     init_owner |-> Fn(<<Address>>, Void),
     initialize |-> Fn(<<Address, Address>>, Void),
     require_owner |-> Fn(<<>>, Address),
     set_new_owner |-> Fn(<<Address>>, Void),
     accept_ownership |-> Fn(<<>>, Void),
     type_and_version |-> Fn(<<>>, Text),
     get_pending_owner |-> Fn(<<>>, Option(Address)),
     get_fee_aggregator |-> Fn(<<>>, Address),
     set_fee_aggregator |-> Fn(<<Address>>, Void),
     transfer_ownership |-> Fn(<<Address>>, Void),
     withdraw_fee_tokens |-> Fn(<<Vec(Address)>>, Void),
     cancel_ownership_transfer |-> Fn(<<>>, Void),
     apply_inbound_impl_updates |-> Fn(<<Vec(VersionedVerifierResolverInboundImplementationUpdate)>>,
         Void),
     get_inbound_implementation |-> Fn(<<Bytes>>, Address),
     apply_outbound_impl_updates |-> Fn(<<Vec(VersionedVerifierResolverOutboundImplementationUpdate)>>,
         Void),
     get_outbound_implementation |-> Fn(<<U64, Bytes>>, Address),
     get_all_inbound_implementations |-> Fn(<<>>,
         Vec(VersionedVerifierResolverInboundImplementationArgs)),
     get_all_outbound_implementations |-> Fn(<<>>,
         Vec(VersionedVerifierResolverOutboundImplementationArgs))]

VersionedVerifierResolverEvents ==
    OwnableEvents @@
    [InboundImplSetEvent |-> Event("vvr_InboundImplSet", [version |-> BytesN(4),
         verifier |-> Address]),
     OutboundImplSetEvent |-> Event("vvr_OutboundImplSet", [dest_chain_selector |-> U64,
         verifier |-> Address]),
     FeeAggregatorSetEvent |-> Event("vvr_FeeAggregatorSet", [fee_aggregator |-> Address]),
     InboundImplRemovedEvent |-> Event("vvr_InboundImplRemoved", [version |-> BytesN(4)]),
     OutboundImplRemovedEvent |-> Event("vvr_OutboundImplRemoved",
         [dest_chain_selector |-> U64])]

VersionedVerifierResolverKeys == <<>>

-----------------------------------------------------------------------------
(* timelock                                                                *)

TimelockCall == Struct([data |-> Bytes, to |-> BytesN(32)])
TimelockCalls == Struct([inner |-> Vec(TimelockCall)])
TimelockTimelockDataKey == Union([OpTime |-> <<BytesN(32)>>])

TimelockFunctions ==
    [cancel |-> Fn(<<Address, BytesN(32)>>, Void),
     has_role |-> Fn(<<Symbol, Address>>, Bool),
     grant_role |-> Fn(<<Address, Symbol, Address>>, Void),
     initialize |-> Fn(<<U64, Address, Vec(Address), Vec(Address), Vec(Address),
         Vec(Address)>>, Void),
     revoke_role |-> Fn(<<Address, Symbol, Address>>, Void),
     is_operation |-> Fn(<<BytesN(32)>>, Bool),
     update_delay |-> Fn(<<Address, U64>>, Void),
     execute_batch |-> Fn(<<Address, TimelockCalls, BytesN(32), BytesN(32)>>, Void),
     get_min_delay |-> Fn(<<>>, U64),
     get_timestamp |-> Fn(<<BytesN(32)>>, U64),
     renounce_role |-> Fn(<<Address, Symbol>>, Void),
     schedule_batch |-> Fn(<<Address, TimelockCalls, BytesN(32), BytesN(32), U64>>, Void),
     extend_all_ttls |-> Fn(<<>>, Void),
     get_role_member |-> Fn(<<Symbol, U32>>, Address),
     is_operation_done |-> Fn(<<BytesN(32)>>, Bool),
     extend_op_time_ttl |-> Fn(<<BytesN(32)>>, Void),
     is_operation_ready |-> Fn(<<BytesN(32)>>, Bool),
     hash_operation_batch |-> Fn(<<TimelockCalls, BytesN(32), BytesN(32)>>, BytesN(32)),
     is_operation_pending |-> Fn(<<BytesN(32)>>, Bool),
     get_role_member_count |-> Fn(<<Symbol>>, U32),
     bypasser_execute_batch |-> Fn(<<Address, TimelockCalls>>, Void),
     block_function_selector |-> Fn(<<Address, Symbol>>, Void),
     get_blocked_selector_at |-> Fn(<<U32>>, Symbol),
     unblock_function_selector |-> Fn(<<Address, Symbol>>, Void),
     get_blocked_selector_count |-> Fn(<<>>, U32)]

TimelockEvents ==
    [CancelledEvent |-> Event("tl_Cancelled", [id |-> BytesN(32)]),
     RoleGrantedEvent |-> Event("tl_RoleGranted", [role |-> Symbol, account |-> Address,
         sender |-> Address]),
     RoleRevokedEvent |-> Event("tl_RoleRevoked", [role |-> Symbol, account |-> Address,
         sender |-> Address]),
     CallExecutedEvent |-> Event("tl_CallExecuted", [id |-> BytesN(32), index |-> U32,
         to |-> BytesN(32), data |-> Bytes]),
     CallScheduledEvent |-> Event("tl_CallScheduled", [id |-> BytesN(32), index |-> U32,
         to |-> BytesN(32), data |-> Bytes, predecessor |-> BytesN(32), salt |-> BytesN(32),
         delay |-> U64]),
     MinDelayChangeEvent |-> Event("tl_MinDelay", [old_duration |-> U64, new_duration |-> U64]),
     BypasserCallExecutedEvent |-> Event("tl_BypCallExec", [index |-> U32, to |-> BytesN(32),
         data |-> Bytes]),
     FunctionSelectorBlockedEvent |-> Event("tl_SelBlocked", [selector |-> Symbol]),
     FunctionSelectorUnblockedEvent |-> Event("tl_SelUnblock", [selector |-> Symbol])]

TimelockKeys == [TimelockDataKey |-> TimelockTimelockDataKey]

-----------------------------------------------------------------------------
(* mcms                                                                    *)

McmsSigner == Struct([addr |-> BytesN(32), group |-> U32, index |-> U32])
McmsConfig ==
    Struct([group_parents |-> BytesN(32), group_quorums |-> BytesN(32),
        signers |-> Vec(McmsSigner)])
McmsSignature == Struct([r |-> BytesN(32), s |-> BytesN(32), v |-> U32])
McmsStellarOp ==
    Struct([chain_id |-> BytesN(32), data |-> Bytes, multisig |-> BytesN(32), nonce |-> U64,
        to |-> BytesN(32), value |-> BytesN(32)])
McmsMerkleProof == Struct([inner |-> Vec(BytesN(32))])
McmsSignatureVec == Struct([inner |-> Vec(McmsSignature)])
McmsSignerGroups == Struct([inner |-> Vec(U32)])
McmsSignerAddresses == Struct([inner |-> Vec(BytesN(32))])
McmsStellarRootMetadata ==
    Struct([chain_id |-> BytesN(32), multisig |-> BytesN(32), override_previous_root |-> Bool,
        post_op_count |-> U64, pre_op_count |-> U64])

McmsFunctions ==
    [owner |-> Fn(<<>>, Option(Address)),
     execute |-> Fn(<<McmsStellarOp, McmsMerkleProof>>, Void),
     get_root |-> Fn(<<>>, Tuple(<<BytesN(32), U32>>)),
     is_owner |-> Fn(<<Address>>, Bool),
     set_root |-> Fn(<<BytesN(32), U32, McmsStellarRootMetadata, McmsMerkleProof,
         McmsSignatureVec>>, Void),
     get_config |-> Fn(<<>>, McmsConfig),
     init_owner |-> Fn(<<Address>>, Void),
     initialize |-> Fn(<<Address, BytesN(32)>>, Void),
     set_config |-> Fn(<<McmsSignerAddresses, McmsSignerGroups, BytesN(32), BytesN(32), Bool>>,
         Void),
     get_op_count |-> Fn(<<>>, U64),
     require_owner |-> Fn(<<>>, Address),
     set_new_owner |-> Fn(<<Address>>, Void),
     extend_all_ttls |-> Fn(<<>>, Void),
     accept_ownership |-> Fn(<<>>, Void),
     chain_network_id |-> Fn(<<>>, BytesN(32)),
     get_pending_owner |-> Fn(<<>>, Option(Address)),
     get_root_metadata |-> Fn(<<>>, McmsStellarRootMetadata),
     transfer_ownership |-> Fn(<<Address>>, Void),
     get_min_secs_per_ledger |-> Fn(<<>>, U64),
     set_min_secs_per_ledger |-> Fn(<<U64>>, Void),
     cancel_ownership_transfer |-> Fn(<<>>, Void)]

McmsEvents ==
    OwnableEvents @@
    [NewRootEvent |-> Event("mcms_NewRoot", [root |-> BytesN(32), valid_until |-> U32,
         metadata |-> McmsStellarRootMetadata]),
     ConfigSetEvent |-> Event("mcms_ConfigSet", [config |-> McmsConfig,
         is_root_cleared |-> Bool]),
     OpExecutedEvent |-> Event("mcms_OpExecuted", [nonce |-> U64, to |-> BytesN(32),
         data |-> Bytes, value |-> BytesN(32)]),
     MinSecsPerLedgerSetEvent |-> Event("mcms_MinSecsPerLedgerSet",
         [min_secs_per_ledger |-> U64])]

McmsKeys == <<>>

-----------------------------------------------------------------------------

Interfaces ==
    [committee_verifier |->
         [functions |-> CommitteeVerifierFunctions, events |-> CommitteeVerifierEvents,
          keys |-> CommitteeVerifierKeys],
     versioned_verifier_resolver |->
         [functions |-> VersionedVerifierResolverFunctions, events |-> VersionedVerifierResolverEvents,
          keys |-> VersionedVerifierResolverKeys],
     timelock |->
         [functions |-> TimelockFunctions, events |-> TimelockEvents,
          keys |-> TimelockKeys],
     mcms |->
         [functions |-> McmsFunctions, events |-> McmsEvents,
          keys |-> McmsKeys]]
=============================================================================
