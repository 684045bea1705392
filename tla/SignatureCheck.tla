--------------------------- MODULE SignatureCheck ---------------------------
(***************************************************************************)
(* The loop of verify_signatures (contracts/mcms), one signature a step,   *)
(* over every config that set_config accepts and every list of signatures. *)
(***************************************************************************)
EXTENDS GroupTree

CONSTANTS
    Addresses,  \* addresses signatures can recover to, signers or not
    MaxQuorum   \* bound on the quorums of a config

ASSUME CountAssumption ==
    Addresses \subseteq Nat /\ IsFiniteSet(Addresses) /\ MaxQuorum \in Nat

VARIABLES
    cfg,      \* CONFIG
    sigs,     \* addresses recovered so far
    votes,    \* group_vote_counts
    result    \* "running", "accepted" or "refused"

countVars == <<cfg, sigs, votes, result>>

CountInit ==
    /\ \E S \in SUBSET Addresses, quorum \in [Groups -> 0 .. MaxQuorum],
          parent \in [Groups -> Groups] :
          \E group \in [S -> Groups] :
             cfg = [group |-> group, quorum |-> quorum, parent |-> parent]
    /\ ValidConfig(cfg)
    /\ sigs = <<>>
    /\ votes = NoVotes
    /\ result = IF Enabled(cfg, 0) THEN "running" ELSE "refused"

InOrder(address) == Len(sigs) > 0 => sigs[Len(sigs)] < address

Count(address) ==
    /\ result = "running"
    /\ InOrder(address)
    /\ address \in Signers(cfg)
    /\ sigs' = Append(sigs, address)
    /\ votes' = Vote(cfg, votes, address)
    /\ UNCHANGED <<cfg, result>>

Refuse(address) ==
    /\ result = "running"
    /\ ~InOrder(address) \/ address \notin Signers(cfg)
    /\ result' = "refused"
    /\ UNCHANGED <<cfg, sigs, votes>>

Conclude ==
    /\ result = "running"
    /\ result' = IF votes[0] >= cfg.quorum[0] THEN "accepted" ELSE "refused"
    /\ UNCHANGED <<cfg, sigs, votes>>

CountNext == (\E a \in Addresses : Count(a) \/ Refuse(a)) \/ Conclude

CountSpec == CountInit /\ [][CountNext]_countVars

-----------------------------------------------------------------------------
Signed == {sigs[i] : i \in 1 .. Len(sigs)}

\* lib.rs:620-633: raising only the parent of a quorum just completed counts every
\* group once. At each point of the loop a group's count has reached its quorum
\* exactly when the group agrees by the recursive definition.
QuorumsExact ==
    \A g \in Groups : Enabled(cfg, g) =>
        (votes[g] >= cfg.quorum[g] <=> Agrees(cfg, Signed)[g])

\* lib.rs:587-644 returns Ok only for distinct signers of the config that make the
\* root group agree.
AcceptedAgrees ==
    result = "accepted" =>
        /\ Cardinality(Signed) = Len(sigs)
        /\ Signed \subseteq Signers(cfg)
        /\ Agrees(cfg, Signed)[0]

\* lib.rs:587-644: at each point of the loop a group's count has reached its quorum exactly
\* when the group agrees, and only distinct signers that make the root agree are accepted.
CountAgrees == QuorumsExact /\ AcceptedAgrees

\* lib.rs:541-585: a config that passes validate_group_tree never locks its
\* signers out: the root group is enabled, and all of them together make it agree.
NeverLocked == Agrees(cfg, Signers(cfg))[0]

=============================================================================
