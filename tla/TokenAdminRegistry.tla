------------------------- MODULE TokenAdminRegistry -------------------------
(***************************************************************************)
(* The token admin registry: a token's administrator and pool, the modules *)
(* that may propose an administrator, and the index of tokens, which a     *)
(* reader goes through page by page while it grows.                        *)
(***************************************************************************)
EXTENDS Ownable, Naturals, Sequences, SequencesExt

CONSTANTS
    Tokens, Pools,
    PageSizes,      \* max_count of a reader's calls
    MaxU32          \* 2^32 - 1

ASSUME TokensAssumption ==
    Nobody \notin People \cup Pools /\ PageSizes \subseteq Nat \ {0} /\ MaxU32 \in Nat

VARIABLES
    tokenConfig,    \* TokenConfig of each token
    modules,        \* REGISTRY_MODULES, without its order
    index,          \* TokenIndex(0 .. TOKEN_COUNT - 1)
    reader,         \* a caller of get_all_configured_tokens: what it asks for next and has got
    named           \* ghost: whom the administrator of a token last named to follow him

tokenVars == <<tokenConfig, modules, index, reader, named>>

Idle == [reads |-> FALSE, at |-> 0, got |-> <<>>, since |-> <<>>, over |-> FALSE]
Unconfigured == [administrator |-> Nobody, pending_administrator |-> Nobody, token_pool |-> Nobody]

TokensInit ==
    /\ tokenConfig = [t \in Tokens |-> Unconfigured]
    /\ modules = {} /\ index = <<>> /\ reader = Idle
    /\ named = [t \in Tokens |-> Nobody]

SetPool(caller, t, pool) ==
    /\ caller = tokenConfig[t].administrator
    /\ tokenConfig' = [tokenConfig EXCEPT ![t].token_pool = pool]
    /\ UNCHANGED <<ownerVars, modules, index, reader, named>>

TransferAdminRole(caller, t, newAdmin) ==
    /\ caller = tokenConfig[t].administrator
    /\ tokenConfig' = [tokenConfig EXCEPT ![t].pending_administrator = newAdmin]
    /\ named' = [named EXCEPT ![t] = newAdmin]
    /\ UNCHANGED <<ownerVars, modules, index, reader>>

AcceptAdminRole(caller, t) ==
    /\ caller = tokenConfig[t].pending_administrator
    /\ tokenConfig' = [tokenConfig EXCEPT ![t].administrator = caller,
                                          ![t].pending_administrator = Nobody]
    /\ named' = [named EXCEPT ![t] = Nobody]
    /\ UNCHANGED <<ownerVars, modules, index, reader>>

\* add_token_to_index.
AddedToIndex(t) == IF Contains(index, t) THEN index ELSE Append(index, t)

\* Mutated: a token that has an administrator can be proposed again.
Anything(t) == TRUE

Unregistered(t) == tokenConfig[t].administrator = Nobody

ProposeAdministrator(caller, t, administrator) ==
    /\ caller \in modules \cup {owner}
    /\ Unregistered(t)
    /\ tokenConfig' = [tokenConfig EXCEPT
          ![t] = [Unconfigured EXCEPT !.pending_administrator = administrator]]
    /\ index' = AddedToIndex(t)
    /\ UNCHANGED <<ownerVars, modules, reader, named>>

AddRegistryModule(caller, module) ==
    /\ caller = owner
    /\ modules' = modules \cup {module}
    /\ UNCHANGED <<ownerVars, tokenConfig, index, reader, named>>

RemoveRegistryModule(caller, module) ==
    /\ caller = owner
    /\ modules' = modules \ {module}
    /\ UNCHANGED <<ownerVars, tokenConfig, index, reader, named>>

-----------------------------------------------------------------------------
(* get_all_configured_tokens.                                              *)

\* count + start_index traps past MaxU32.
Traps(start, count) == start < Len(index) /\ count + start > MaxU32

Page(start, count) ==
    SubSeq(index, start + 1, IF count + start > Len(index) THEN Len(index) ELSE start + count)

StartReading ==
    /\ ~reader.reads
    /\ reader' = [Idle EXCEPT !.reads = TRUE, !.since = index]
    /\ UNCHANGED <<ownerVars, tokenConfig, modules, index, named>>

ReadPage(size) ==
    LET page == Page(reader.at, size) IN
    /\ reader.reads /\ ~reader.over
    /\ reader' = IF Traps(reader.at, size) THEN Idle
                 ELSE [reader EXCEPT !.at = @ + size, !.got = @ \o page, !.over = page = <<>>]
    /\ UNCHANGED <<ownerVars, tokenConfig, modules, index, named>>

FinishReading ==
    /\ reader.over
    /\ reader' = Idle
    /\ UNCHANGED <<ownerVars, tokenConfig, modules, index, named>>

TokensNext ==
    \/ \E caller \in People, t \in Tokens :
          \/ \E pool \in Pools \cup {Nobody} : SetPool(caller, t, pool)
          \/ \E p \in People \cup {Nobody} : TransferAdminRole(caller, t, p)
          \/ AcceptAdminRole(caller, t)
          \/ \E p \in People : ProposeAdministrator(caller, t, p)
    \/ \E caller, module \in People : AddRegistryModule(caller, module) \/ RemoveRegistryModule(caller, module)
    \/ \E size \in PageSizes : ReadPage(size)
    \/ StartReading \/ FinishReading
    \/ OwnerNext /\ UNCHANGED tokenVars

-----------------------------------------------------------------------------
(* Properties.                                                             *)

\* The index lists every token that has or is offered an administrator, and a token with a
\* pool has one, through proposals that are repeated or replaced before they are accepted.
IndexExact ==
    /\ IsInjective(index)
    /\ ToSet(index) = {t \in Tokens : tokenConfig[t] # Unconfigured}
    /\ \A t \in Tokens : tokenConfig[t].token_pool # Nobody => tokenConfig[t].administrator # Nobody

\* A reader that pages through the index while tokens are proposed has, at its first empty
\* page, got every token that was there when it started, once.
PagedReadComplete ==
    reader.over => IsInjective(reader.got) /\ IsPrefix(reader.since, reader.got)
=============================================================================
