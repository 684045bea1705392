----------------------------- MODULE MCBindings -----------------------------
(***************************************************************************)
(* What crosses between the chain and the programs beside it: the          *)
(* generated clients against the contracts, with an int64 of 16 values,    *)
(* and the poller of the OffRamp's events, with pages that the events of   *)
(* three ledgers overflow and a node that keeps one ledger more than the   *)
(* poller looks back.  A behaviour is of one of them.                      *)
(***************************************************************************)
EXTENDS Bindings, Poller, TLC

RampGo == INSTANCE RampClients
PoolGo == INSTANCE PoolClients
SiloGo == INSTANCE SiloClients
ServiceGo == INSTANCE ServiceClients
AuthorityGo == INSTANCE AuthorityClients

RampRust == INSTANCE RampInterfaces
PoolRust == INSTANCE PoolInterfaces
SiloRust == INSTANCE SiloInterfaces
ServiceRust == INSTANCE ServiceInterfaces
AuthorityRust == INSTANCE AuthorityInterfaces

\* What the clients know, and what the contracts are.
MCGo ==
    RampGo!Clients @@ PoolGo!Clients @@ SiloGo!Clients @@ ServiceGo!Clients @@ AuthorityGo!Clients

MCRust ==
    RampRust!Interfaces @@ PoolRust!Interfaces @@ SiloRust!Interfaces @@ ServiceRust!Interfaces
    @@ AuthorityRust!Interfaces

-----------------------------------------------------------------------------
(* Values to try.  A shape says what a type leaves open: which option, how *)
(* many items, which number, which code.  A leaf is the place it stands    *)
(* at, so that two values in exchanged places differ.                      *)

Shapes == {"least", "plain", "negative", "wide"}

Length(shape) == IF shape = "least" THEN 0 ELSE IF shape = "plain" THEN 2 ELSE 1

Number(shape) ==
    CASE shape = "least" -> 0
      [] shape = "plain" -> Word \div 2 - 1
      [] shape = "negative" -> -(Word \div 2)
      [] shape = "wide" -> Word \div 2 + 1

PickCode(names, shape) == LET s == Sorted(names) IN IF shape = "least" THEN s[1] ELSE Last(s)

\* The variants of the unions of a type; a union of a value has the given one.
Variants(t) == UNION {DOMAIN t[q].arity : q \in {q \in DOMAIN t : t[q].k = "union"}}

NodeValue(node, at, shape, variant) ==
    CASE node.opt /\ shape = "least" -> Nil
      [] node.k \in Leaves -> [at |-> at, len |-> IF node.k = "bytesN" THEN node.n ELSE 0]
      [] node.k = "i128" -> [at |-> at, n |-> Number(shape)]
      [] node.k = "void" -> Nil
      [] node.k = "vec" -> [len |-> Length(shape)]
      [] node.k = "tuple" -> [len |-> node.n]
      [] node.k = "struct" -> Here
      [] node.k = "codes" -> [code |-> node.of[PickCode(DOMAIN node.of, shape)]]
      [] node.k = "union" -> [variant |-> variant]

\* Nothing is below an option that is not there, nor in another variant.
Reached(t, q, shape, variant) ==
    \A i \in DOMAIN q : LET above == SubSeq(q, 1, i - 1) IN
        above \in DOMAIN t => /\ t[above].opt => shape # "least"
                              /\ t[above].k = "union" => q[i] = variant

\* The places of the items a place of the type stands for.
Items(q, n) ==
    LET stars == {i \in DOMAIN q : q[i] = "*"} IN
    {[i \in DOMAIN q |-> IF i \in stars THEN Nth[ix[i]] ELSE q[i]] : ix \in [stars -> 1 .. n]}

Value(t, at, shape, variant) ==
    [p \in UNION {Items(q, Length(shape)) : q \in {q \in DOMAIN t : Reached(t, q, shape, variant)}}
        |-> NodeValue(NodeAt(t, p), at \o p, shape, variant)]

MCSamples(types) ==
    {[i \in DOMAIN types |-> Value(types[i], <<Nth[i]>>, shape, variant)] :
        shape \in Shapes,
        variant \in {""} \cup UNION {Variants(types[i]) : i \in DOMAIN types}}

-----------------------------------------------------------------------------

VARIABLE focus      \* which of them

MCInit ==
    /\ focus \in {"bindings", "poller"}
    /\ BindingsInit /\ PollerInit
    /\ focus = "bindings" => latest = 1

MCNext ==
    /\ UNCHANGED focus
    /\ \/ focus = "bindings" /\ BindingsNext /\ UNCHANGED pollerVars
       \/ focus = "poller" /\ PollerNext /\ UNCHANGED bindingsVars

\* Ticks come for ever and the node answers some of them; a poller that ended is not
\* started again for ever.
MCSpec ==
    /\ MCInit /\ [][MCNext]_<<focus, bindingsVars, pollerVars>>
    /\ WF_pollerVars(focus = "poller" /\ Poll(latest, {}))
=============================================================================
