----------------------------- MODULE GroupTree -----------------------------
(***************************************************************************)
(* The signer groups of MCMS (contracts/mcms): a forest of groups encoded  *)
(* as an array of parents and one of quorums, with every signer in one     *)
(* group.  A group of quorum 0 is disabled.  Group 0 is the root.          *)
(*                                                                         *)
(* An address is a natural number: only their order matters.  A config is  *)
(* a record of the signers' groups, the quorums and the parents.           *)
(***************************************************************************)
EXTENDS Integers, FiniteSets, Sequences

CONSTANTS
    NumGroups,  \* NUM_GROUPS
    MaxSigners  \* MAX_NUM_SIGNERS

ASSUME GroupTreeAssumption == NumGroups \in Nat \ {0} /\ MaxSigners \in Nat

Groups == 0 .. NumGroups - 1

Signers(c) == DOMAIN c.group
Enabled(c, g) == c.quorum[g] # 0

-----------------------------------------------------------------------------
(* validate_group_tree.                                                    *)

\* Members counted below g when the loop, which goes from the last group to
\* the first, comes to g: its signers and the enabled groups naming it as parent.
Members(c, g) ==
    Cardinality({s \in Signers(c) : c.group[s] = g})
    + Cardinality({h \in Groups : h > g /\ Enabled(c, h) /\ c.parent[h] = g})

\* Mutated: a disabled group may have members.
ValidateLax(c) ==
    /\ c.parent[0] = 0
    /\ \A g \in Groups : g # 0 => c.parent[g] < g
    /\ \A g \in Groups : Members(c, g) >= c.quorum[g]

ValidateGroupTree(c) ==
    /\ c.parent[0] = 0
    /\ \A g \in Groups : g # 0 => c.parent[g] < g
    /\ \A g \in Groups : IF Enabled(c, g)
                         THEN Members(c, g) >= c.quorum[g]
                         ELSE Members(c, g) = 0

\* What set_config asks of its arguments.
ValidConfig(c) ==
    /\ Cardinality(Signers(c)) \in 1 .. MaxSigners
    /\ ValidateGroupTree(c)

-----------------------------------------------------------------------------
(* verify_signatures.                                                      *)

\* Mutated: a vote goes on to the parent whenever the quorum is met, not only
\* when it has just been met.
RaisedAgain(c, votes, group) ==
    LET climb[g \in Groups] ==
            IF votes[g] + 1 < c.quorum[g] \/ g = 0
            THEN {g}
            ELSE {g} \cup climb[c.parent[g]]
    IN  climb[group]

\* The groups whose count one more vote in group raises: it climbs to the
\* parent when it has just completed a quorum.
Raised(c, votes, group) ==
    LET climb[g \in Groups] ==
            IF votes[g] + 1 # c.quorum[g] \/ g = 0
            THEN {g}
            ELSE {g} \cup climb[c.parent[g]]
    IN  climb[group]

NoVotes == [g \in Groups |-> 0]

Vote(c, votes, signer) ==
    LET raised == Raised(c, votes, c.group[signer])
    IN  [g \in Groups |-> IF g \in raised THEN votes[g] + 1 ELSE votes[g]]

Increasing(signatures) ==
    \A i, j \in 1 .. Len(signatures) : i < j => signatures[i] < signatures[j]

\* The counts after a list of recovered addresses.
Tally(c, signatures) ==
    LET tally[i \in 0 .. Len(signatures)] ==
            IF i = 0 THEN NoVotes ELSE Vote(c, tally[i - 1], signatures[i])
    IN  tally[Len(signatures)]

VerifySignatures(c, signatures) ==
    /\ Enabled(c, 0)
    /\ Increasing(signatures)
    /\ \A i \in 1 .. Len(signatures) : signatures[i] \in Signers(c)
    /\ Tally(c, signatures)[0] >= c.quorum[0]

-----------------------------------------------------------------------------
(* What the two are for.                                                   *)

\* A group agrees when as many of its signers and of its enabled child groups
\* agree as its quorum asks for: the definition by recursion on the tree.
Agrees(c, signed) ==
    LET agrees[g \in Groups] ==
            /\ Enabled(c, g)
            /\ Cardinality({s \in signed : c.group[s] = g})
               + Cardinality({h \in Groups : h > g /\ c.parent[h] = g /\ agrees[h]})
               >= c.quorum[g]
    IN  agrees

=============================================================================
