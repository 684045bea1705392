---------------------------- MODULE MCOffRamp ----------------------------
(***************************************************************************)
(* What is delivered on the word of others: the offramp, with one lane,    *)
(* three CCVs of which the third belongs to no lane, a message with a      *)
(* token and a call, one with a token alone and one whose token has        *)
(* nowhere to go; and the CRE forwarder with the reports it delivers.  A   *)
(* behaviour is of one of the two.                                         *)
(***************************************************************************)
EXTENDS OffRamp, Forwarder

CONSTANTS
    m1, m2, m3, v1, v2, v3, eth, ramp,
    k1, k2, k3, k4, k5      \* keys of the forwarder's signers; k1 and k5 are faulty

VARIABLE focus              \* which of the two

OneSource == [m \in {m1, m2, m3} |-> eth]
OneRamp == [m \in {m1, m2, m3} |-> ramp]

\* Lists of up to two CCVs, repetitions included.
ShortLists == {<<>>} \cup {<<x>> : x \in {v1, v2, v3}} \cup ({v1, v2, v3} \X {v1, v2, v3})

Lane(on, defaults, mandated) ==
    [enabled |-> on, onRamps |-> {ramp}, defaults |-> defaults, mandated |-> mandated]

\* Both kinds of lane, one switched off, and one that validate() refuses.
SomeLanes == {Lane(TRUE, {v1}, <<>>), Lane(TRUE, {v1}, <<v1, v2>>),
              Lane(FALSE, {v1}, <<>>), Lane(TRUE, {}, <<>>)}

\* The pool of the first token asks for v2, that of the second for nothing of its own.
SomePoolCcvs == [m \in {m1, m2, m3} |-> IF m = m1 THEN {v2} ELSE {}]

\* All three can attest the first message; fewer the others, to keep the space small.
SomeAttest == ({m1} \X {v1, v2, v3}) \cup ({m2} \X {v1, v3}) \cup {<<m3, v1>>}
-----------------------------------------------------------------------------
ReportOf(i, c, payload) == [id |-> i, config |-> c, payload |-> payload]

\* Two reports for one transmission, of which honest signers sign one, and another.
GenuineReports == {ReportOf(1, "c1", "honest"), ReportOf(2, "c2", "honest")}
SomeReports == GenuineReports \cup {ReportOf(1, "c1", "other")}

\* Lists that tolerate one faulty signer, with one of the two, and lists that are refused:
\* too short for it, with a key twice.  No list tolerates none.
SomeOracles ==
    [f : 0 .. 1, signers : {<<k1, k2, k3, k4>>, <<k2, k3, k4, k5>>, <<k1, k2, k5>>, <<k2, k2, k3, k4>>}]

-----------------------------------------------------------------------------
MCInit ==
    /\ focus \in {"message", "report"}
    /\ Init
    /\ ForwarderInit /\ (focus = "message" => receiverIsWasm)

MCNext ==
    /\ UNCHANGED focus
    /\ \/ focus = "message" /\ Next /\ UNCHANGED forwarderVars
       \/ focus = "report" /\ ForwarderNext /\ UNCHANGED vars

MCSpec == MCInit /\ [][MCNext]_<<focus, vars, forwarderVars>>
=============================================================================
