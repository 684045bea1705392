------------------------------ MODULE MCMcms ------------------------------
(***************************************************************************)
(* What signers sign: MCMS with two configs with disjoint signers and two  *)
(* roots that compete for the first nonces, one of them with two metadata  *)
(* leaves; and the count of its signatures, over every config of four      *)
(* groups and four addresses.  A behaviour is of one of the two.           *)
(***************************************************************************)
EXTENDS Mcms, SignatureCheck, TLC

CONSTANTS r1, r2

VARIABLE focus  \* which of the two

OneSigner(s) == [group |-> [a \in {s} |-> 0], quorum |-> [g \in Groups |-> IF g = 0 THEN 1 ELSE 0],
                 parent |-> [g \in Groups |-> 0]]

TwoConfigs == {OneSigner(1), OneSigner(2)}

SomeSignatures == {<<1>>, <<2>>}

Window(pre, post, override) == [pre |-> pre, post |-> post, override |-> override]

TwoMetas == [r \in {r1, r2} |->
    IF r = r1 THEN {Window(0, 1, TRUE), Window(1, 0, TRUE)}
              ELSE {Window(0, 2, FALSE), Window(1, 2, FALSE)}]

TwoOps == [r \in {r1, r2} |->
    IF r = r1 THEN {[nonce |-> 0, call |-> 0], [nonce |-> 1, call |-> 1]}
              ELSE {[nonce |-> n, call |-> 2] : n \in 0 .. 1}]

MCInit ==
    /\ Init
    /\ \/ focus = "count" /\ CountInit
       \/ /\ focus = "root"
          /\ cfg = OneSigner(1) /\ sigs = <<>> /\ votes = NoVotes /\ result = "running"

MCNext ==
    /\ UNCHANGED focus
    /\ \/ focus = "root" /\ Next /\ UNCHANGED countVars
       \/ focus = "count" /\ CountNext /\ UNCHANGED vars

MCSpec == MCInit /\ [][MCNext]_<<focus, vars, countVars>>
=============================================================================
