------------------------------- MODULE Tables -------------------------------
(***************************************************************************)
(* The tables the contracts of a chain keep of each other, with the lists  *)
(* they give of them: the Router's, the ramp registry's and the token      *)
(* admin registry's, with its owner.                                       *)
(***************************************************************************)
EXTENDS Ramps, TokenAdminRegistry

rampVars == <<routerVars, registryVars>>
adminVars == <<ownerVars, tokenVars>>

TablesInit == RampsInit /\ OwnerInit /\ TokensInit

TablesNext ==
    \/ (RouterNext \/ RegistryNext) /\ UNCHANGED adminVars
    \/ TokensNext /\ UNCHANGED rampVars

TablesSpec == TablesInit /\ [][TablesNext]_<<rampVars, adminVars>>

-----------------------------------------------------------------------------
(* Properties.                                                             *)

\* What the contracts list is what they hold: the Router's offramps, the ramp registry's
\* keys, the token admin registry's index, and what a reader gets of it page by page
\* (apply_ramp_updates, apply_updates, add_token_to_index, get_all_configured_tokens).
ListsExact == OfframpListsClean /\ RegistryListsAll /\ IndexExact /\ PagedReadComplete

\* The administrator of a token that changes is the one his predecessor named, ...
Succeeds ==
    \A t \in Tokens :
        LET before == tokenConfig[t].administrator
            after == tokenConfig'[t].administrator
        IN before # Nobody /\ after # before => after = named[t]

\* Only a token's administrator names whoever follows him, whatever the registry's owner and
\* modules propose; and a transfer of ownership that was accepted or cancelled makes no
\* owner again (propose_administrator, accept_admin_role, accept_ownership).
SuccessorsNamed == [][Succeeds /\ TransferOnce']_adminVars
=============================================================================
