------------------------------ MODULE Ownable -------------------------------
(***************************************************************************)
(* The owner of a contract: the transfer in two steps, which the new owner *)
(* has to accept, and the one in a single step.                            *)
(***************************************************************************)
CONSTANT People

VARIABLES
    owner,          \* OWNER
    pendingOwner,   \* PENDING_OWNER
    open            \* ghost: a transfer was started and neither accepted nor cancelled since

ownerVars == <<owner, pendingOwner, open>>
Nobody == "nobody"

OwnerInit == owner \in People /\ pendingOwner = Nobody /\ open = FALSE

TransferOwnership(caller, newOwner) ==
    /\ caller = owner
    /\ pendingOwner' = newOwner
    /\ open' = TRUE
    /\ UNCHANGED owner

AcceptOwnership(caller) ==
    /\ caller = pendingOwner
    /\ owner' = pendingOwner
    /\ pendingOwner' = Nobody
    /\ open' = FALSE

CancelOwnershipTransfer(caller) ==
    /\ caller = owner
    /\ pendingOwner' = Nobody
    /\ open' = FALSE
    /\ UNCHANGED owner

\* At once; a transfer that is pending stays so.
SetNewOwner(caller, newOwner) ==
    /\ caller = owner
    /\ owner' = newOwner
    /\ UNCHANGED <<pendingOwner, open>>

OwnerNext ==
    \E caller \in People :
        \/ AcceptOwnership(caller)
        \/ CancelOwnershipTransfer(caller)
        \/ \E p \in People : TransferOwnership(caller, p) \/ SetNewOwner(caller, p)

-----------------------------------------------------------------------------

\* A transfer that was started makes an owner once: after it was accepted or cancelled
\* (accept_ownership, cancel_ownership_transfer) nobody can become the owner by it again,
\* though a direct change of owner leaves a transfer that is under way standing.
TransferOnce == pendingOwner # Nobody => open
=============================================================================
