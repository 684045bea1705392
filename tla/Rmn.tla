-------------------------------- MODULE Rmn ---------------------------------
(***************************************************************************)
(* RMN: the remotes, of which the proxy names one, and the curses each     *)
(* keeps.  The owner is the same for all; curse admins may curse.          *)
(***************************************************************************)
EXTENDS FiniteSets

CONSTANTS
    Rmns,           \* RMN remote contracts
    Subjects,       \* what can be cursed: chains and Global
    Global,         \* GLOBAL_CURSE_SUBJECT
    Admins          \* who may become a curse admin

VARIABLES
    rmn,            \* the remote the proxy names
    cursed,         \* CURSED of each remote
    admins          \* curse admins of each remote

rmnVars == <<rmn, cursed, admins>>
Owner == "owner"

RmnInit ==
    /\ rmn \in Rmns
    /\ cursed = [r \in Rmns |-> {}]
    /\ admins = [r \in Rmns |-> {}]

\* Subjects that are cursed already are passed over.
Curse(r, caller, subjects) ==
    /\ caller = Owner \/ caller \in admins[r]
    /\ cursed' = [cursed EXCEPT ![r] = @ \cup subjects]
    /\ UNCHANGED <<rmn, admins>>

\* All of them, or none.
Uncurse(r, subjects) ==
    /\ subjects \subseteq cursed[r]
    /\ cursed' = [cursed EXCEPT ![r] = @ \ subjects]
    /\ UNCHANGED <<rmn, admins>>

\* Removals first: one that is in both lists is an admin afterwards.
ApplyCurseAdminUpdates(r, added, removed) ==
    /\ admins' = [admins EXCEPT ![r] = (@ \ removed) \cup added]
    /\ UNCHANGED <<rmn, cursed>>

SetRmn(r) ==
    /\ rmn' = r
    /\ UNCHANGED <<cursed, admins>>

\* is_cursed, through the proxy.
IsCursed == Global \in cursed[rmn]
IsCursedBySubject(subject) == subject \in cursed[rmn] \/ Global \in cursed[rmn]

\* require_not_cursed of the Router with a chain's subject, and require_chain_not_cursed.
ChainNotCursed(chain) == ~IsCursed /\ ~IsCursedBySubject(chain)

RmnNext ==
    \/ \E r \in Rmns, subjects \in SUBSET Subjects :
          \/ \E caller \in Admins \cup {Owner} : Curse(r, caller, subjects)
          \/ Uncurse(r, subjects)
    \/ \E r \in Rmns, added, removed \in SUBSET Admins : ApplyCurseAdminUpdates(r, added, removed)
    \/ \E r \in Rmns : SetRmn(r)
=============================================================================
