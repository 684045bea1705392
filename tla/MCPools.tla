------------------------------ MODULE MCPools -------------------------------
(***************************************************************************)
(* The rate limiter's bucket alone, and the token pools that use it.  A    *)
(* behaviour is of one of three things: the bucket; pools with limits,     *)
(* where a siloed pool has one lock box; and siloed pools without limits.  *)
(* The variables of what it is not of stay at their initial values.        *)
(***************************************************************************)
EXTENDS Bucket, TokenPool, TLC

CONSTANTS
    a, b,             \* remote chains
    b1, b2            \* lock boxes

VARIABLE focus        \* which of the three

Off == [is_enabled |-> FALSE, capacity |-> 0, rate |-> 0]

\* Capacities and rates that bind, that never bind, and that differ in one second.
MCConfigs == [is_enabled : {TRUE}, capacity : 0 .. 3, rate : 0 .. 2] \cup {Off}

\* The limits of the coarser chain let all tokens pass once and not twice, and take seconds
\* to recover; the finer chain has none.
MCPoolConfigs ==
    [c \in {a, b} |->
        {Off} \cup IF c = a THEN {[is_enabled |-> TRUE, capacity |-> 3, rate |-> 1]} ELSE {}]
MCRemoteDecimals == [c \in {a, b} |-> IF c = a THEN 0 ELSE 2]
MCFinalities == {[flags |-> {}, depth |-> 0], [flags |-> {}, depth |-> 1]}

\* Lock boxes are alike.
BoxSymmetry == Permutations(Boxes)

MCInit ==
    /\ focus \in {"bucket", "limits", "boxes"}
    /\ Init /\ PoolInit
    /\ focus = "bucket" => kind = "burn_mint"
    /\ focus = "boxes" => kind = "siloed"

Unlimited == \A k \in DOMAIN buckets : ~buckets[k].is_enabled
OneBox ==
    \E x \in Boxes : /\ callers \subseteq {x}
                     /\ \A c \in Chains : box[c] \in {None} \cup (IF c \in Limited THEN {x} ELSE {})

MCNext ==
    /\ UNCHANGED focus
    /\ \/ focus = "bucket" /\ Next /\ UNCHANGED poolVars
       \/ focus = "limits" /\ PoolNext /\ OneBox' /\ UNCHANGED vars
       \/ focus = "boxes" /\ PoolNext /\ Unlimited' /\ UNCHANGED vars

MCSpec == MCInit /\ [][MCNext]_<<focus, vars, poolVars>>
=============================================================================
