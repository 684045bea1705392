-------------------------------- MODULE Mcms --------------------------------
(***************************************************************************)
(* McmsContract (contracts/mcms): a quorum of signers approves a Merkle    *)
(* root with set_root, then anyone runs its operations, in nonce order,    *)
(* with execute.  Every entry point is one atomic Soroban invocation: an   *)
(* error leaves no trace, so a refusal is the absence of a step.  The host *)
(* forbids re-entry, so a called contract cannot come back.                *)
(*                                                                         *)
(* A root is a name; MetaOf and OpsOf give the leaves that have a proof    *)
(* under it (of this chain and this contract; others are refused).  The    *)
(* signed hash of a root and its expiry is the pair of the two.            *)
(*                                                                         *)
(* Ledgers have a number, which time-to-live counts in, and a timestamp,   *)
(* which roots expire by; a ledger takes at least Pace seconds.  An entry  *)
(* of the seen hashes that outlives its time to live reads as missing, as  *)
(* the comments of the contract take it.  The fixed keys are kept alive by *)
(* the bump at the end of every entry point.                               *)
(***************************************************************************)
EXTENDS GroupTree

CONSTANTS
    Configs,         \* arguments of set_config
    Signatures,      \* lists of addresses that signatures recover to
    Roots,           \* Merkle roots
    MetaOf,          \* metadata leaves under each root
    OpsOf,           \* operation leaves under each root
    ZeroRoot, None,  \* the root of 32 zero bytes; an absent entry
    Expiries,        \* values of valid_until
    U40,             \* 2^40: counts and nonces that can be hashed are below
    MaxValidity,     \* MAX_ROOT_VALIDITY_SECS
    Threshold, Bump, \* LEDGER_THRESHOLD, LEDGER_BUMP
    Margin,          \* SEEN_TTL_SAFETY_MARGIN_SECS
    SplLow, SplHigh, \* bounds of min_secs_per_ledger
    SplDefault,      \* MIN_SECS_PER_LEDGER_DEFAULT
    FreshTTL,        \* time to live the network gives a new persistent entry
    Pace,            \* least seconds a ledger of the network takes
    MaxTime          \* bound of the model: the last timestamp

Metadata == [pre : Nat, post : Nat, override : BOOLEAN]
Operations == [nonce : Nat, call : Nat]

ASSUME McmsAssumption ==
    /\ ZeroRoot \notin Roots
    /\ None \notin Configs \cup Metadata
    /\ \A c \in Configs : /\ c.quorum \in [Groups -> Nat] /\ c.parent \in [Groups -> Groups]
                          /\ IsFiniteSet(Signers(c)) /\ c.group \in [Signers(c) -> Groups]
    /\ MetaOf \in [Roots -> SUBSET Metadata]
    /\ OpsOf \in [Roots -> SUBSET Operations]
    /\ Expiries \subseteq Nat
    /\ Signatures \subseteq Seq(Nat)
    /\ U40 \in Nat \ {0} /\ SplLow \in Nat \ {0} /\ SplHigh \in Nat
    /\ MaxValidity \in Nat /\ Margin \in Nat
    /\ Threshold \in Nat /\ Bump \in Nat /\ FreshTTL \in Nat
    /\ SplDefault \in SplLow .. SplHigh
    /\ Pace \in Nat /\ MaxTime \in Nat

Hashes == Roots \X Expiries

VARIABLES
    initialized,
    config,      \* CONFIG, with SIGNER_MAP
    root,        \* EXPIRING_ROOT.root
    validUntil,  \* EXPIRING_ROOT.valid_until
    opCount,     \* EXPIRING_ROOT.op_count
    meta,        \* ROOT_META_STORE
    minSpl,      \* MIN_SPL
    seen,        \* ledger from which the entry of a hash reads as missing
    ledger,      \* ledger sequence
    now,         \* ledger timestamp
    installs,    \* history: how often set_root accepted each hash
    floor,       \* history: minSpl when set_root first accepted the hash
    revoked,     \* history: hashes accepted before the last clear_root
    runs         \* history: how often an operation of each nonce was executed

stored == <<initialized, config, root, validUntil, opCount, meta, minSpl, seen>>
history == <<installs, floor, revoked, runs>>
vars == <<stored, ledger, now, history>>

Min2(m, n) == IF m < n THEN m ELSE n
Max2(m, n) == IF m > n THEN m ELSE n

-----------------------------------------------------------------------------
Initialize ==
    /\ ~initialized
    /\ initialized' = TRUE
    /\ UNCHANGED <<config, root, validUntil, opCount, meta, minSpl, seen,
                   ledger, now, history>>

\* Mutated: clear_root is ignored.
ClearNothing(c, clear) ==
    /\ initialized
    /\ ValidConfig(c)
    /\ config' = c
    /\ revoked' = IF clear THEN {h \in Hashes : installs[h] > 0} ELSE revoked
    /\ UNCHANGED <<initialized, root, validUntil, opCount, meta, minSpl, seen,
                   ledger, now, installs, floor, runs>>

\* set_config, called by the owner.
SetConfig(c, clear) ==
    /\ initialized
    /\ ValidConfig(c)
    /\ config' = c
    /\ IF clear
       THEN /\ root' = ZeroRoot
            /\ validUntil' = 0
            /\ meta' = [pre |-> opCount, post |-> opCount, override |-> TRUE]
            /\ revoked' = {h \in Hashes : installs[h] > 0}
       ELSE UNCHANGED <<root, validUntil, meta, revoked>>
    /\ UNCHANGED <<initialized, opCount, minSpl, seen, ledger, now,
                   installs, floor, runs>>

-----------------------------------------------------------------------------
(* set_root.                                                               *)

IsSeen(h) == ledger < seen[h]

\* Mutated: the static bound alone, whatever the pace of the network.
StaticCap == MaxValidity

\* The horizon of valid_until: within the life of a seen entry at minSpl seconds
\* a ledger (saturating), less a margin, and within the static bound.
EffectiveCap == Min2(MaxValidity, Max2(Bump * minSpl - Margin, 0))

\* A new entry lives for FreshTTL ledgers, this one included; extend_ttl gives it
\* Bump more than this one if that leaves fewer than Threshold.
LiveUntil == IF FreshTTL - 1 < Threshold THEN ledger + Bump + 1 ELSE ledger + FreshTTL

StoredPost == IF meta = None THEN 0 ELSE meta.post

\* Mutated: the operation count is set to what the metadata says, unchecked.
FitsAnyPre(m) ==
    /\ m.pre < U40 /\ m.post < U40
    /\ opCount = StoredPost \/ m.override
    /\ m.pre <= m.post

\* A root goes on from the operation count, and only an overriding one may leave
\* operations of the last one behind.
Fits(m) ==
    /\ m.pre < U40 /\ m.post < U40
    /\ opCount = StoredPost \/ m.override
    /\ opCount = m.pre
    /\ m.pre <= m.post

SetRoot(r, expiry, m, signatures) ==
    LET h == <<r, expiry>>
    IN  /\ initialized
        /\ ~IsSeen(h)
        /\ config # None
        /\ VerifySignatures(config, signatures)
        /\ now <= expiry /\ expiry <= now + EffectiveCap
        /\ m \in MetaOf[r]
        /\ Fits(m)
        /\ seen' = [seen EXCEPT ![h] = LiveUntil]
        /\ root' = r
        /\ validUntil' = expiry
        /\ opCount' = m.pre
        /\ meta' = m
        /\ installs' = [installs EXCEPT ![h] = @ + 1]
        /\ floor' = IF installs[h] = 0 THEN [floor EXCEPT ![h] = minSpl] ELSE floor
        /\ UNCHANGED <<initialized, config, minSpl, ledger, now, revoked, runs>>

-----------------------------------------------------------------------------
(* execute.                                                                *)

InWindow == meta # None /\ opCount < meta.post

\* The called contract may fail, and then nothing changes.
Execute(op) ==
    /\ initialized
    /\ InWindow
    /\ now <= validUntil
    /\ op.nonce = opCount
    /\ op.nonce < U40
    /\ root # ZeroRoot /\ op \in OpsOf[root]
    /\ opCount' = opCount + 1
    /\ runs' = [runs EXCEPT ![op.nonce] = @ + 1]
    /\ UNCHANGED <<initialized, config, root, validUntil, meta, minSpl, seen,
                   ledger, now, installs, floor, revoked>>

\* set_min_secs_per_ledger, called by the owner.
SetMinSecsPerLedger(secs) ==
    /\ initialized
    /\ SplLow <= secs /\ secs <= SplHigh
    /\ minSpl' = secs
    /\ UNCHANGED <<initialized, config, root, validUntil, opCount, meta, seen,
                   ledger, now, history>>

\* A ledger closes (external).
Close(secs) ==
    /\ secs >= Pace
    /\ now + secs <= MaxTime
    /\ now' = now + secs
    /\ ledger' = ledger + 1
    /\ UNCHANGED <<stored, history>>

-----------------------------------------------------------------------------
Init ==
    /\ initialized = FALSE
    /\ config = None
    /\ root = ZeroRoot
    /\ validUntil = 0
    /\ opCount = 0
    /\ meta = None
    /\ minSpl = SplDefault
    /\ seen = [h \in Hashes |-> 0]
    /\ ledger = 1
    /\ now = 0
    /\ installs = [h \in Hashes |-> 0]
    /\ floor = [h \in Hashes |-> 0]
    /\ revoked = {}
    /\ runs = [n \in 0 .. U40 - 1 |-> 0]

Next ==
    \/ Initialize
    \/ \E c \in Configs, clear \in BOOLEAN : SetConfig(c, clear)
    \/ \E r \in Roots, expiry \in Expiries, signatures \in Signatures :
          \E m \in MetaOf[r] : SetRoot(r, expiry, m, signatures)
    \/ \E r \in Roots : \E op \in OpsOf[r] : Execute(op)
    \/ \E secs \in 0 .. SplHigh + 1 : SetMinSecsPerLedger(secs)
    \/ \E secs \in Pace .. MaxTime : Close(secs)

Spec == Init /\ [][Next]_vars

-----------------------------------------------------------------------------
(* Properties.                                                             *)

TypeOK ==
    /\ initialized \in BOOLEAN
    /\ config \in Configs \cup {None}
    /\ root \in Roots \cup {ZeroRoot}
    /\ validUntil \in Expiries \cup {0}
    /\ opCount \in 0 .. U40 - 1
    /\ meta \in Metadata \cup {None}
    /\ minSpl \in SplLow .. SplHigh
    /\ seen \in [Hashes -> Nat]
    /\ ledger \in Nat
    /\ now \in 0 .. MaxTime
    /\ installs \in [Hashes -> Nat]
    /\ floor \in [Hashes -> Nat]
    /\ revoked \subseteq Hashes
    /\ runs \in [0 .. U40 - 1 -> Nat]

\* lib.rs:256-265 and 329: every nonce is executed once and in order, whichever
\* roots are installed, overridden, cleared or installed again.
NonceOnce ==
    \A n \in 0 .. U40 - 1 : runs[n] = IF n < opCount THEN 1 ELSE 0

\* lib.rs:310-312: the operation count stays within the window of the root's
\* metadata, so no root runs more operations than were signed for.
InSignedWindow ==
    meta # None => meta.pre <= opCount /\ opCount <= meta.post

\* lib.rs:471-475, "replay is impossible regardless of archive state": a signed hash
\* is accepted once, although its entry disappears after its time to live, provided
\* min_secs_per_ledger was no more than the network's pace when it was accepted.
NoReplay ==
    \A h \in Hashes : installs[h] > 1 => floor[h] > Pace

\* lib.rs:143-170: set_config with clear_root takes back every signature given so
\* far: no hash accepted before it is ever in force again.
ClearRevokes ==
    \A h \in revoked : floor[h] <= Pace => h # <<root, validUntil>>

\* The inductive invariants of the theorems: what needs nothing of the network ...
CountInv ==
    /\ TypeOK
    /\ NonceOnce
    /\ InSignedWindow
    /\ meta # None => meta.post < U40

\* ... and what rests on the life of the seen entries: a hash expires before its
\* entry can be gone, at the slowest count of seconds for the ledgers left to it.
SeenCovers ==
    \A h \in Hashes : installs[h] > 0 /\ floor[h] <= Pace =>
        h[2] < now + Pace * (seen[h] - ledger)

ReplayInv ==
    /\ TypeOK
    /\ SeenCovers
    /\ NoReplay
    /\ ClearRevokes
    /\ \A h \in revoked : installs[h] > 0

=============================================================================
