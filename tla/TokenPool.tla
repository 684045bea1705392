----------------------------- MODULE TokenPool ------------------------------
(***************************************************************************)
(* A token pool - lock and release, burn and mint, or siloed over lock     *)
(* boxes - with the chains it serves, their rate limits and the tokens it  *)
(* holds, and what holders on the remote chains can send back.             *)
(*                                                                         *)
(* A call that ends with an error changes nothing and is no step.  That a  *)
(* caller is the registered ramp, and that a hook consents, are taken as   *)
(* given: they only turn a step into an error.                             *)
(***************************************************************************)
EXTENDS RateLimit, FiniteSets, FiniteSetsExt, Functions

CONSTANTS
    Chains,           \* remote chain selectors
    Boxes,            \* token lock boxes
    Kinds,            \* kinds of pool to consider
    PoolConfigs,          \* rate limit configurations the owner sets for each chain
    Limited,          \* bound: chains whose limits are set after they are added
    Finalities,       \* [flags : SUBSET Nat, depth : Nat], 0 is WAIT_FOR_FINALITY
    Supply,           \* local tokens there are
    Decimals,         \* of the local token
    RemoteDecimals,   \* of each chain's token
    Radix,            \* of decimals: 10
    MaxDiff,          \* MAX_DECIMALS_DIFF
    MaxI128, MaxPoolTime

\* An address of a lock box is neither a user's nor the pool's.
ASSUME PoolAssumption ==
    /\ IsFiniteSet(Chains)
    /\ Boxes \cap {"users", "pool", "none"} = {}
    /\ Kinds \subseteq {"lock_release", "burn_mint", "siloed"}
    /\ PoolConfigs \in [Chains -> SUBSET [is_enabled : BOOLEAN, capacity : Nat, rate : Nat]]
    /\ RemoteDecimals \in [Chains -> Nat]
    /\ {Supply, Decimals, MaxDiff} \subseteq Nat /\ Radix \in Nat \ {0}

VARIABLES
    kind, poolNow,
    listed,           \* SupportedChains
    remote,           \* chains with a RemoteChainConfig
    buckets,          \* the rate limit buckets stored, by key
    allowedFinality,  \* AllowedFinalityConfig
    box,              \* LOCKBOX: the lock box a chain is mapped to
    remapped,         \* ghost: a chain was mapped away from a box that holds its tokens
    callers,          \* lock boxes that have the pool among their allowed callers
    held,             \* token balances: of users, of the pool, of each lock box
    claim             \* remote units of each chain that stand for tokens from here

config == <<listed, remote, buckets, allowedFinality, box, remapped, callers>>
poolVars == <<kind, poolNow, config, held, claim>>

None == "none"
Holders == {"users", "pool"} \cup Boxes
Finality == [flags |-> {}, depth |-> 0]

Keys == {"out", "in"} \X {"default", "ftf"} \X Chains
Get(k) == IF k \in DOMAIN buckets THEN buckets[k] ELSE Disabled
Put(k, b) == [j \in DOMAIN buckets \cup {k} |-> IF j = k THEN b ELSE buckets[j]]

PoolInit ==
    /\ kind \in Kinds
    /\ poolNow = 0
    /\ listed = {} /\ remote = {} /\ buckets = [k \in {} |-> Disabled]
    /\ allowedFinality = Finality
    /\ box = [c \in Chains |-> None]
    /\ remapped = FALSE
    /\ callers = {}
    /\ held = [h \in Holders |-> IF h = "users" THEN Supply ELSE 0]
    /\ claim = [c \in Chains |-> 0]

-----------------------------------------------------------------------------
(* Configuration.                                                          *)

\* Mutated: only the default buckets of a removed chain are removed.
FtfStay(removes) == {k \in DOMAIN buckets : k[2] = "ftf" \/ k[3] \notin removes}

\* The buckets remove_buckets leaves.
Remaining(removes) == {k \in DOMAIN buckets : k[3] \notin removes}

\* Removals first, then additions, which write a chain that is listed already anew.
ApplyChainUpdates(removes, adds, out, in) ==
    /\ adds # {} => ValidConfig(out) /\ ValidConfig(in)
    /\ listed' = (listed \ removes) \cup adds
    /\ remote' = (remote \ removes) \cup adds
    /\ LET new == {"out", "in"} \X {"default"} \X adds IN
       buckets' = [k \in Remaining(removes) \cup new |->
                     IF k \in new THEN Configured(IF k[1] = "out" THEN out ELSE in, poolNow)
                     ELSE buckets[k]]
    /\ UNCHANGED <<kind, poolNow, allowedFinality, box, remapped, callers, held, claim>>

SetRateLimitConfig(c, out, in, speed) ==
    /\ c \in listed
    /\ ValidConfig(out) /\ ValidConfig(in)
    /\ buckets' = [k \in DOMAIN buckets \cup {<<"out", speed, c>>, <<"in", speed, c>>} |->
                     IF k = <<"out", speed, c>> THEN Configured(out, poolNow)
                     ELSE IF k = <<"in", speed, c>> THEN Configured(in, poolNow) ELSE buckets[k]]
    /\ UNCHANGED <<kind, poolNow, listed, remote, allowedFinality, box, remapped, callers, held, claim>>

SetAllowedFinalityConfig(f) ==
    /\ allowedFinality' = f
    /\ UNCHANGED <<kind, poolNow, listed, remote, buckets, box, remapped, callers, held, claim>>

\* Any chain, listed or not, and however much its old lock box holds.
ConfigureLockBoxes(c, b) ==
    /\ kind = "siloed"
    /\ box' = [box EXCEPT ![c] = b]
    /\ remapped' = (remapped \/ (box[c] # b /\ claim[c] # 0))
    /\ UNCHANGED <<kind, poolNow, listed, remote, buckets, allowedFinality, callers, held, claim>>

\* add_allowed_callers and remove_allowed_callers of a lock box.
SetAllowedCaller(b, allowed) ==
    /\ kind = "siloed"
    /\ callers' = IF allowed THEN callers \cup {b} ELSE callers \ {b}
    /\ UNCHANGED <<kind, poolNow, listed, remote, buckets, allowedFinality, box, remapped, held, claim>>

-----------------------------------------------------------------------------
(* Finality, decimals and rate limits of a transfer.                       *)

IsFast(f) == f # Finality

OneMode(f) == Cardinality(f.flags) + (IF f.depth > 0 THEN 1 ELSE 0) = 1

EnsureRequestedFinalityAllowed(f) ==
    IsFast(f) => /\ OneMode(f)
                 /\ \/ f.flags \cap allowedFinality.flags # {}
                    \/ allowedFinality.depth # 0 /\ f.depth >= allowedFinality.depth

Pow[n \in Nat] == IF n = 0 THEN 1 ELSE Radix * Pow[n - 1]

Overflow == -1

\* Mutated: rounded up.
RoundedUp(amount, from, to) ==
    IF from = to THEN amount
    ELSE IF from > to
         THEN IF from - to > MaxDiff THEN Overflow
              ELSE (amount + Pow[from - to] - 1) \div Pow[from - to]
         ELSE IF to - from > MaxDiff \/ amount * Pow[to - from] > MaxI128 THEN Overflow
              ELSE amount * Pow[to - from]

\* An amount in units of 'from' decimals in units of 'to' decimals, rounded down.
CalculateLocalAmount(amount, from, to) ==
    IF from = to THEN amount
    ELSE IF from > to
         THEN IF from - to > MaxDiff THEN Overflow ELSE amount \div Pow[from - to]
         ELSE IF to - from > MaxDiff \/ amount * Pow[to - from] > MaxI128 THEN Overflow
              ELSE amount * Pow[to - from]

\* Mutated: without a fast bucket a fast transfer is charged to none.
ChargedNowhere(dir, c, f) == <<dir, IF IsFast(f) THEN "ftf" ELSE "default", c>>

\* The bucket a transfer is charged to: consume_outbound, consume_ftf_outbound, and inbound.
Charged(dir, c, f) ==
    <<dir, IF IsFast(f) /\ Get(<<dir, "ftf", c>>).is_enabled THEN "ftf" ELSE "default", c>>

Charge(dir, c, f, amount) ==
    LET k == Charged(dir, c, f) IN
    /\ Admits(Get(k), amount, poolNow)
    /\ buckets' = IF amount = 0 \/ ~Get(k).is_enabled THEN buckets
                 ELSE Put(k, Consume(Get(k), amount, poolNow))

Move(from, to, amount) == [held EXCEPT ![from] = @ - amount, ![to] = @ + amount]

-----------------------------------------------------------------------------
(* Transfers.                                                              *)

\* Mutated: the lock box is stored under a key that leaves the chain out.
PlaceShared(c) ==
    IF kind = "siloed" THEN box[CHOOSE d \in Chains : box[d] # None] ELSE "pool"

\* Where the tokens of a chain are, and whether the pool may use the place.
Place(c) == IF kind = "siloed" THEN box[c] ELSE "pool"
Open(c, amount) ==
    kind = "siloed" => box[c] # None /\ box[c] \in callers /\ amount > 0

\* lock_or_burn, and what the remote pool mints or releases for it (none if it overflows).
LockOrBurn(c, amount, f) ==
    /\ c \in listed /\ c \in remote
    /\ EnsureRequestedFinalityAllowed(f)
    /\ Charge("out", c, f, amount)
    /\ amount <= held["users"]
    /\ Open(c, amount)
    /\ held' = IF kind = "burn_mint" THEN [held EXCEPT !["users"] = @ - amount]
               ELSE Move("users", Place(c), amount)
    /\ LET minted == CalculateLocalAmount(amount, Decimals, RemoteDecimals[c]) IN
       claim' = [claim EXCEPT ![c] = IF minted = Overflow THEN @ ELSE @ + minted]
    /\ UNCHANGED <<kind, poolNow, listed, remote, allowedFinality, box, remapped, callers>>

\* release_or_mint, for what the remote pool has locked or burnt; the remote pool is trusted
\* to report its decimals with it (without a report the code takes the local ones).
ReleaseOrMint(c, amount, f) ==
    /\ c \in listed
    /\ amount <= claim[c]
    /\ LET released == CalculateLocalAmount(amount, RemoteDecimals[c], Decimals) IN
       /\ released # Overflow
       /\ Charge("in", c, f, released)
       /\ Open(c, released)
       /\ IF kind = "burn_mint" THEN held' = [held EXCEPT !["users"] = @ + released]
          ELSE /\ released <= held[Place(c)]
               /\ held' = Move(Place(c), "users", released)
    /\ claim' = [claim EXCEPT ![c] = @ - amount]
    /\ UNCHANGED <<kind, poolNow, listed, remote, allowedFinality, box, remapped, callers>>

\* A plain transfer of the token: how a pool or a lock box gets liquidity.
Fund(h) ==
    /\ kind # "burn_mint" /\ h # "users" /\ held["users"] > 0
    /\ held' = Move("users", h, 1)
    /\ UNCHANGED <<kind, poolNow, config, claim>>

PoolTick ==
    /\ poolNow < MaxPoolTime
    /\ poolNow' = poolNow + 1
    /\ UNCHANGED <<kind, config, held, claim>>

PoolNext ==
    \/ \E removes \in SUBSET Chains : ApplyChainUpdates(removes, {}, Disabled, Disabled)
    \/ \E c \in Chains : \E removes \in {{}, {c}}, out, in \in PoolConfigs[c] :
          ApplyChainUpdates(removes, {c}, out, in)
    \/ \E c \in Chains :
          \/ \E l \in PoolConfigs[c], speed \in {"default", "ftf"} :
                c \in Limited /\ SetRateLimitConfig(c, l, l, speed)
          \/ \E b \in Boxes : ConfigureLockBoxes(c, b)
          \/ \E amount \in 0 .. Supply, f \in Finalities : LockOrBurn(c, amount, f)
          \/ \E amount \in 0 .. claim[c], f \in Finalities : ReleaseOrMint(c, amount, f)
    \/ \E f \in Finalities : SetAllowedFinalityConfig(f)
    \/ \E b \in Boxes, allowed \in BOOLEAN : SetAllowedCaller(b, allowed)
    \/ \E h \in Holders : Fund(h)
    \/ PoolTick

PoolSpec == PoolInit /\ [][PoolNext]_poolVars

-----------------------------------------------------------------------------
(* Properties.                                                             *)

\* A listed chain has its remote configuration and both default buckets, and a chain that
\* is not listed has none of the four: no removal leaves a bucket that would limit, or
\* let pass, the transfers of a later addition.
ListedConsistent ==
    /\ remote = listed
    /\ \A k \in Keys : /\ k \in DOMAIN buckets => k[3] \in listed
                       /\ k[2] = "default" /\ k[3] \in listed => k \in DOMAIN buckets

Finest == Max({Decimals} \cup {RemoteDecimals[c] : c \in Chains})
Worth(amount, decimals) == amount * Pow[Finest - decimals]
Claims(chains) == SumFunctionOnSet([c \in Chains |-> Worth(claim[c], RemoteDecimals[c])], chains)

\* Tokens there and tokens here are never worth more than what there was: no conversion
\* of decimals, in either direction, rounds in favour of a transfer.
NoInflation == Worth(held["users"], Decimals) + Claims(Chains) <= Worth(Supply, Decimals)

\* What holders of remote tokens can send back is covered by what is locked: by the pool,
\* and in a siloed pool by the lock box of their own chains, whatever the other chains do,
\* until a chain is mapped away from a lock box that holds its tokens.
Solvent ==
    /\ kind = "lock_release" => Claims(Chains) <= Worth(held["pool"], Decimals)
    /\ kind = "siloed" /\ ~remapped =>
           \A b \in Boxes :
               Claims({c \in Chains : box[c] = b}) <= Worth(held[b], Decimals)

\* What a transfer has to be charged.
Charging ==
    \A c \in Chains :
          claim'[c] # claim[c] =>
              LET dir == IF claim'[c] > claim[c] THEN "out" ELSE "in"
                  moved == IF dir = "out" THEN held["users"] - held'["users"]
                           ELSE held'["users"] - held["users"]
                  limits == {k \in Keys : k[1] = dir /\ k[3] = c /\ Get(k).is_enabled}
              IN Get(<<dir, "default", c>>).is_enabled /\ moved > 0 =>
                     \E k \in limits :
                         /\ buckets'[k].tokens = Refilled(buckets[k], poolNow).tokens - moved
                         /\ \A j \in DOMAIN buckets \ {k} : buckets'[j] = buckets[j]

\* A transfer that has an enabled default limit is always charged: to that bucket, or to
\* the fast one, by the amount in local units; and to no other (consume_ftf_outbound).
AlwaysCharged == [][Charging]_poolVars
=============================================================================
