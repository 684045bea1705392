------------------------------- MODULE OffRamp -------------------------------
(***************************************************************************)
(* OffRampContract (contracts/offramp): anyone may execute a message that  *)
(* cross-chain verifiers (CCVs) have attested.  execute is one atomic      *)
(* Soroban invocation, but not all or nothing: an error of its inner part  *)
(* (execute_single_message) is caught, recorded as Failure and committed   *)
(* together with whatever the inner part did before it.  An error returned *)
(* early, or a trap, which is what an error of a called contract (verifier,*)
(* pool, router, receiver) becomes, undoes everything: that is the absence *)
(* of a step.                                                              *)
(*                                                                         *)
(* The specification starts after initialize.                              *)
(* A message stands for its id.  Verifiers, token registry, pools, RMN and *)
(* receivers are other contracts, modelled by the answers execute reads.   *)
(***************************************************************************)
EXTENDS Integers, Sequences, FiniteSets

CONSTANTS
    Messages,
    Chains,       \* source chain selectors
    SourceOf,     \* source chain of each message
    OnRamps,      \* onramp addresses
    OnRampOf,     \* onramp each message names
    Misaddressed, \* messages that name another offramp or destination chain
    WithToken,    \* messages that carry a token
    LostTokens,   \* messages whose token's receiver is no address
    WithCall,     \* messages with data or a receive gas limit: the receiver is called
    Ccvs,         \* verifier resolvers
    CcvLists,     \* lists of them that callers pass
    PoolCcvs,     \* CCVs the pool of the message's token requires ...
    PoolDefaults, \* ... and messages for which it asks for the default ones as well
    Attestable,   \* pairs of a message and a CCV that may attest it
    LaneConfigs,  \* configurations of a source chain
    None, Global  \* no configuration; the global curse subject

ASSUME OffRampAssumption ==
    /\ SourceOf \in [Messages -> Chains]
    /\ OnRampOf \in [Messages -> OnRamps]
    /\ CcvLists \subseteq Seq(Ccvs)
    /\ PoolCcvs \in [Messages -> SUBSET Ccvs]
    /\ Attestable \subseteq Messages \X Ccvs
    /\ LaneConfigs \subseteq [enabled : BOOLEAN, onRamps : SUBSET OnRamps,
                              defaults : SUBSET Ccvs, mandated : Seq(Ccvs)]
    /\ None \notin LaneConfigs
    /\ Global \notin Chains

VARIABLES
    lane,       \* SRCCHNS: configuration of each source chain
    state,      \* ExecState(id)
    cursed,     \* RMN: cursed subjects
    pooled,     \* token registry: messages whose token has a pool
    deployed,   \* messages whose receiver is a Wasm contract on the ledger
    attested,   \* messages each CCV can show a valid attestation for
    released,   \* history: times release_or_mint succeeded for a message, up to 2
    delivered,  \* history: times the receiver got the message, up to 2
    proof       \* history: CCVs and configuration of the last verified execution

vars == <<lane, state, cursed, pooled, deployed, attested, released, delivered, proof>>

Elements(s) == {s[i] : i \in 1 .. Len(s)}
UpToTwo(n) == IF n < 2 THEN n + 1 ELSE 2

-----------------------------------------------------------------------------
(* execute: what is checked first.                                         *)

\* Mutated: any message may be executed, whatever its state.
RetryableAlways(m) == state[m] \in {"Untouched", "Failure", "Success"}

Retryable(m) == state[m] \in {"Untouched", "Failure"}

Config(m) == lane[SourceOf[m]]

Admitted(m) ==
    /\ Global \notin cursed /\ SourceOf[m] \notin cursed
    /\ Config(m) # None /\ Config(m).enabled
    /\ OnRampOf[m] \in Config(m).onRamps
    /\ m \notin Misaddressed
    /\ Retryable(m)

-----------------------------------------------------------------------------
(* execute_single_message.                                                 *)

\* What the pool of the message's token asks for under a lane's configuration.
PoolRequires(m, config) ==
    PoolCcvs[m] \cup (IF m \in PoolDefaults THEN config.defaults ELSE {})

PoolSatisfied(m, ccvs) ==
    /\ ccvs # <<>>
    /\ m \in WithToken => m \in pooled /\ PoolRequires(m, Config(m)) \subseteq Elements(ccvs)

\* Entries of the caller's list that are in set: an entry given twice counts twice.
Entries(ccvs, set) == Cardinality({i \in 1 .. Len(ccvs) : ccvs[i] \in set})

\* Mutated: a lane without mandated CCVs takes any.
QuorumOpen(m, ccvs) ==
    Entries(ccvs, Elements(Config(m).mandated)) >= Len(Config(m).mandated)

Quorum(m, ccvs) ==
    /\ Entries(ccvs, Elements(Config(m).mandated)) >= Len(Config(m).mandated)
    /\ Config(m).mandated = <<>> => Entries(ccvs, Config(m).defaults) > 0

AllAttested(m, ccvs) == \A i \in 1 .. Len(ccvs) : <<m, ccvs[i]>> \in attested

Verified(m, ccvs) == PoolSatisfied(m, ccvs) /\ AllAttested(m, ccvs) /\ Quorum(m, ccvs)

\* The token transfer of a verified message can be carried out.
Releasable(m) == m \in WithToken => m \notin LostTokens

\* release_or_mint, once the message is verified.
Release(m, ccvs) ==
    /\ released' = IF m \in WithToken THEN [released EXCEPT ![m] = UpToTwo(@)] ELSE released
    /\ proof' = [proof EXCEPT ![m] = [ccvs |-> Elements(ccvs), config |-> Config(m)]]

-----------------------------------------------------------------------------
(* The three ways execute can end with Ok.                                 *)

\* verify_ccv_quorum, or release_or_mint_single_token before it calls the pool, returns
\* an error.
ExecuteFails(m, ccvs) ==
    /\ Admitted(m)
    /\ \/ ~PoolSatisfied(m, ccvs)
       \/ PoolSatisfied(m, ccvs) /\ AllAttested(m, ccvs) /\ ~Quorum(m, ccvs)
       \/ Verified(m, ccvs) /\ ~Releasable(m)
    /\ state' = [state EXCEPT ![m] = "Failure"]
    /\ UNCHANGED <<lane, cursed, pooled, deployed, attested, released, delivered, proof>>

\* The token is released before the receiver turns out not to be there.
ExecuteUndelivered(m, ccvs) ==
    /\ Admitted(m)
    /\ Verified(m, ccvs) /\ Releasable(m)
    /\ m \in WithCall /\ m \notin deployed
    /\ state' = [state EXCEPT ![m] = "Failure"]
    /\ Release(m, ccvs)
    /\ UNCHANGED <<lane, cursed, pooled, deployed, attested, delivered>>

ExecuteSucceeds(m, ccvs) ==
    /\ Admitted(m)
    /\ Verified(m, ccvs) /\ Releasable(m)
    /\ m \in WithCall => m \in deployed
    /\ state' = [state EXCEPT ![m] = "Success"]
    /\ Release(m, ccvs)
    /\ delivered' = IF m \in WithCall THEN [delivered EXCEPT ![m] = UpToTwo(@)]
                                      ELSE delivered
    /\ UNCHANGED <<lane, cursed, pooled, deployed, attested>>

-----------------------------------------------------------------------------
(* The owner and the other contracts.                                      *)

ValidConfig(c) == c.onRamps # {} /\ (c.defaults # {} \/ c.mandated # <<>>)

ApplySourceChainCfg(chain, c) ==
    /\ ValidConfig(c)
    /\ lane' = [lane EXCEPT ![chain] = c]
    /\ UNCHANGED <<state, cursed, pooled, deployed, attested, released, delivered, proof>>

\* RMN curses a subject or lifts its curse (external).
Curse(subject) ==
    /\ cursed' = IF subject \in cursed THEN cursed \ {subject} ELSE cursed \cup {subject}
    /\ UNCHANGED <<lane, state, pooled, deployed, attested, released, delivered, proof>>

\* The registry sets or drops the pool of a message's token (external).
SetPool(m) ==
    /\ m \in WithToken
    /\ pooled' = IF m \in pooled THEN pooled \ {m} ELSE pooled \cup {m}
    /\ UNCHANGED <<lane, state, cursed, deployed, attested, released, delivered, proof>>

\* Somebody deploys the receiver of a message (external).
Deploy(m) ==
    /\ m \in WithCall \ deployed
    /\ deployed' = deployed \cup {m}
    /\ UNCHANGED <<lane, state, cursed, pooled, attested, released, delivered, proof>>

\* A CCV attests a message (external).
Attest(m, ccv) ==
    /\ <<m, ccv>> \in Attestable \ attested
    /\ attested' = attested \cup {<<m, ccv>>}
    /\ UNCHANGED <<lane, state, cursed, pooled, deployed, released, delivered, proof>>

-----------------------------------------------------------------------------
Init ==
    /\ lane = [c \in Chains |-> None]
    /\ state = [m \in Messages |-> "Untouched"]
    /\ cursed = {}
    /\ pooled = {}
    /\ deployed = {}
    /\ attested = {}
    /\ released = [m \in Messages |-> 0]
    /\ delivered = [m \in Messages |-> 0]
    /\ proof = [m \in Messages |-> None]

Execute(m, ccvs) ==
    \/ ExecuteFails(m, ccvs)
    \/ ExecuteUndelivered(m, ccvs)
    \/ ExecuteSucceeds(m, ccvs)

Next ==
    \/ \E m \in Messages, ccvs \in CcvLists : Execute(m, ccvs)
    \/ \E chain \in Chains, c \in LaneConfigs : ApplySourceChainCfg(chain, c)
    \/ \E subject \in Chains \cup {Global} : Curse(subject)
    \/ \E m \in Messages : SetPool(m) \/ Deploy(m)
    \/ \E m \in Messages, ccv \in Ccvs : Attest(m, ccv)

Spec == Init /\ [][Next]_vars

-----------------------------------------------------------------------------
(* Properties.                                                             *)

\* InProgress (lib.rs:195-197) is a state of no message between two invocations.
TypeOK ==
    /\ lane \in [Chains -> LaneConfigs \cup {None}]
    /\ state \in [Messages -> {"Untouched", "Success", "Failure"}]
    /\ cursed \subseteq Chains \cup {Global}
    /\ pooled \subseteq WithToken
    /\ deployed \subseteq WithCall
    /\ attested \subseteq Messages \X Ccvs
    /\ released \in [Messages -> 0 .. 2]
    /\ delivered \in [Messages -> 0 .. 2]
    /\ proof \in [Messages -> [ccvs : SUBSET Ccvs, config : LaneConfigs] \cup {None}]

\* lib.rs:186-222: whatever fails and is tried again, a message takes effect once, and
\* exactly then ends as Success: its receiver is called once or, if it is for no
\* receiver, its token is released once.
EffectOnce ==
    \A m \in Messages :
        LET once == IF state[m] = "Success" THEN 1 ELSE 0
        IN  IF m \in WithCall THEN delivered[m] = once
                              ELSE m \in WithToken => released[m] = once

\* The CCVs of the last verified execution that attested the message.
By(m) == {ccv \in proof[m].ccvs : <<m, ccv>> \in attested}

BackedOne(m) ==
    /\ By(m) \cap (Elements(proof[m].config.mandated) \cup proof[m].config.defaults) # {}
    /\ m \in WithToken => PoolRequires(m, proof[m].config) \subseteq By(m)

\* lib.rs:513-600: nothing is done on the word of strangers. A message that succeeded,
\* or whose token was released, was attested by a CCV that the lane's configuration of
\* that moment names, and by every CCV its token's pool asked for under it.
Backed == \A m \in Messages : state[m] = "Success" \/ released[m] > 0 => BackedOne(m)

\* lib.rs:195, "(replay protection)": the token of a message is released once.
ReleasedOnce == \A m \in Messages : released[m] <= 1

\* lib.rs:518-519, "The quorum requires that all lane-mandated CCVs have verified".
AllMandatedVerified ==
    \A m \in Messages : state[m] = "Success" =>
        Elements(proof[m].config.mandated) \subseteq proof[m].ccvs

=============================================================================
