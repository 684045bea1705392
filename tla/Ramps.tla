------------------------------- MODULE Ramps --------------------------------
(***************************************************************************)
(* The tables of ramps: the Router's, through which messages are sent and  *)
(* delivered, and the ramp registry's, which the token pools ask.  Each    *)
(* has its own owner's calls; nothing updates both.                        *)
(***************************************************************************)
EXTENDS Naturals, Sequences, SequencesExt, FiniteSets

CONSTANTS
    Chains,         \* chain selectors
    Ramps,          \* addresses of onramps and offramps
    MaxBatch        \* bound on the entries of a batch of updates

ASSUME RampsAssumption == MaxBatch \in Nat

VARIABLES
    onramps,        \* Router: ONRAMPS, a chain's onramp
    offramps,       \* Router: OFFRAMPS, a chain's list of offramps
    regOnramps,     \* registry: ONRAMPS and ONRAMP_KEYS
    regOfframps     \* registry: OFFRAMPS and OFFRAMP_KEYS, keys are <<chain, ramp>>

routerVars == <<onramps, offramps>>
registryVars == <<regOnramps, regOfframps>>

None == "none"
Empty == [c \in {} |-> None]
Set(map, key, value) == [k \in DOMAIN map \cup {key} |-> IF k = key THEN value ELSE map[k]]
Drop(map, key) == [k \in DOMAIN map \ {key} |-> map[k]]

RampsInit ==
    /\ onramps = Empty /\ offramps = Empty
    /\ regOnramps = [map |-> Empty, keys |-> <<>>]
    /\ regOfframps = [map |-> Empty, keys |-> <<>>]

-----------------------------------------------------------------------------
(* The Router.                                                             *)

OfframpsOf(table, c) == IF c \in DOMAIN table THEN table[c] ELSE <<>>

\* An error is a table that is not stored.
Failed == [failed |-> <<>>]

\* The loop that copies a list but for one offramp.
Without(list, ramp) == FoldLeft(LAMBDA l, r : IF r = ramp THEN l ELSE Append(l, r), <<>>, list)

RemovedOfframp(table, c, ramp) ==
    LET left == Without(OfframpsOf(table, c), ramp) IN
    IF left = OfframpsOf(table, c) THEN Failed
    ELSE IF left = <<>> THEN Drop(table, c) ELSE Set(table, c, left)

AddedOfframp(table, c, ramp) ==
    IF Contains(OfframpsOf(table, c), ramp) THEN table
    ELSE Set(table, c, Append(OfframpsOf(table, c), ramp))

SetOnramp(c, ramp) ==
    /\ onramps' = Set(onramps, c, ramp)
    /\ UNCHANGED <<offramps, registryVars>>

AddOfframp(c, ramp) ==
    /\ ~Contains(OfframpsOf(offramps, c), ramp)
    /\ offramps' = AddedOfframp(offramps, c, ramp)
    /\ UNCHANGED <<onramps, registryVars>>

RemoveOfframp(c, ramp) ==
    /\ RemovedOfframp(offramps, c, ramp) # Failed
    /\ offramps' = RemovedOfframp(offramps, c, ramp)
    /\ UNCHANGED <<onramps, registryVars>>

AllRemoved(table, removes) ==
    FoldLeft(LAMBDA t, e : IF t = Failed THEN t ELSE RemovedOfframp(t, e[1], e[2]), table, removes)
AllAdded(table, adds) == FoldLeft(LAMBDA t, e : AddedOfframp(t, e[1], e[2]), table, adds)

\* Onramps, then removals, which must be there when their turn comes, then additions,
\* which may be there already.
ApplyRampUpdates(sets, removes, adds) ==
    /\ AllRemoved(offramps, removes) # Failed
    /\ onramps' = FoldLeft(LAMBDA t, e : Set(t, e[1], e[2]), onramps, sets)
    /\ offramps' = AllAdded(AllRemoved(offramps, removes), adds)
    /\ UNCHANGED registryVars

-----------------------------------------------------------------------------
(* The registry: a map and the list of its keys, updated one entry after   *)
(* the other (MapUpdater).                                                 *)

\* Mutated: a removal leaves the key.
UpdatedKeepsKey(table, key, value) ==
    IF value = None
    THEN [map |-> Drop(table.map, key), keys |-> table.keys]
    ELSE [map |-> Set(table.map, key, value),
          keys |-> IF Contains(table.keys, key) THEN table.keys ELSE Append(table.keys, key)]

Updated(table, key, value) ==
    IF value = None
    THEN [map |-> Drop(table.map, key), keys |-> RemoveFirst(table.keys, key)]
    ELSE [map |-> Set(table.map, key, value),
          keys |-> IF Contains(table.keys, key) THEN table.keys ELSE Append(table.keys, key)]

ApplyUpdates(table, updates) == FoldLeft(LAMBDA t, u : Updated(t, u[1], u[2]), table, updates)

ApplyOnrampUpdates(updates) ==
    /\ regOnramps' = ApplyUpdates(regOnramps, updates)
    /\ UNCHANGED <<routerVars, regOfframps>>

ApplyOfframpUpdates(updates) ==
    /\ regOfframps' = ApplyUpdates(regOfframps, updates)
    /\ UNCHANGED <<routerVars, regOnramps>>

\* require_authorized_onramp and require_authorized_offramp of a pool.
AuthorizedOnramp(c, ramp) == c \in DOMAIN regOnramps.map /\ regOnramps.map[c] = ramp
AuthorizedOfframp(c, ramp) == <<c, ramp>> \in DOMAIN regOfframps.map

-----------------------------------------------------------------------------

Entries == Chains \X Ramps
Batches(set) == UNION {[1 .. n -> set] : n \in 0 .. MaxBatch}

RouterNext ==
    \/ \E c \in Chains, ramp \in Ramps :
          SetOnramp(c, ramp) \/ AddOfframp(c, ramp) \/ RemoveOfframp(c, ramp)
    \/ \E sets, removes, adds \in Batches(Entries) : ApplyRampUpdates(sets, removes, adds)

RegistryNext ==
    \/ \E updates \in Batches(Chains \X (Ramps \cup {None})) : ApplyOnrampUpdates(updates)
    \/ \E updates \in Batches(Entries \X {"enabled", None}) : ApplyOfframpUpdates(updates)

-----------------------------------------------------------------------------
(* Properties.                                                             *)

\* The lists of the Router name an offramp at most once and are never empty, whatever
\* removals and additions one update mixes: a removal takes the offramp out for good.
OfframpListsClean ==
    \A c \in DOMAIN offramps : offramps[c] # <<>> /\ IsInjective(offramps[c])

\* What get_onramps and get_offramps of the registry list is what its pools are told:
\* each entry of the maps once, and nothing else, after any batch that names a key twice.
RegistryListsAll ==
    \A table \in {regOnramps, regOfframps} :
        IsInjective(table.keys) /\ ToSet(table.keys) = DOMAIN table.map
=============================================================================
