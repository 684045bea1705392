------------------------------- MODULE MCLane -------------------------------
(***************************************************************************)
(* The lane, with a behaviour's attention on one of six things: fees and   *)
(* CCVs while prices, hooks and configurations change; the fee a sender    *)
(* was told, while the same change or while RMN is cursed, replaced and    *)
(* its admins change; the Router's tables; the ramp registry's; and the    *)
(* token admin registry's, with its owner.                                 *)
(***************************************************************************)
EXTENDS Lane, Tables, TLC

CONSTANTS d, e, v1, v2, o1, o2

VARIABLE focus

\* Data, a bare token transfer, and a token with data, a CCV the sender names twice, and with
\* or without another receiver of the token.
MCMessages ==
    {[token |-> t, bare |-> t, ccvs |-> <<>>, token_receiver |-> FALSE] : t \in BOOLEAN}
    \cup {[token |-> TRUE, bare |-> FALSE, ccvs |-> <<v1, v1>>, token_receiver |-> r] : r \in BOOLEAN}

Config(router, mandated, defaults, fee) ==
    [router |-> router, message_number |-> 0, token_receiver_allowed |-> mandated = <<>>,
     message_network_fee |-> fee, token_network_fee |-> fee + 1, execution_fee |-> 1,
     lane_mandated_ccvs |-> mandated, default_ccvs |-> defaults]

\* With a mandated CCV, with defaults only, and for another Router.
MCLaneConfigs ==
    {Config(Router, <<v2>>, <<v1>>, 2), Config(Router, <<>>, <<v1, v2>>, 0),
     Config("elsewhere", <<v2>>, <<>>, 0)}

MCHooks ==
    {[ccvs |-> <<>>, include_defaults |-> TRUE], [ccvs |-> <<>>, include_defaults |-> FALSE],
     [ccvs |-> <<v2>>, include_defaults |-> FALSE]}

\* A fee of the quoter's below and above the OnRamp's, and prices that divide unevenly.
MCQuotes == {[network |-> 1, price |-> 3], [network |-> 3, price |-> 2]}

\* Ramps are alike.
RampSymmetry == Permutations(Ramps)

MCInit ==
    /\ Init /\ OwnerInit /\ TokensInit
    /\ focus \in {"fees", "quotes", "curses", "router", "registry", "tokens"}
    /\ focus \notin {"fees", "quotes"} => required = [ccvs |-> <<>>, include_defaults |-> TRUE] /\ quote.network = 3
    /\ focus # "curses" => rmn = CHOOSE r \in Rmns : TRUE
    /\ focus # "tokens" => owner = CHOOSE p \in People : TRUE

\* One message less is sent where a fee is told.
MCNext ==
    /\ UNCHANGED focus
    /\ \/ /\ \/ /\ focus \in {"fees", "quotes", "curses"} /\ Operate
                /\ focus # "fees" => Cardinality(sent') < MaxSent
             \/ focus \in {"fees", "quotes"} /\ Reprice
             \/ focus = "curses" /\ RmnNext /\ UNCHANGED <<routerVars, registryVars, laneVars>>
             \/ focus = "router" /\ RouterNext /\ UNCHANGED <<rmnVars, laneVars>>
             \/ focus = "registry" /\ RegistryNext /\ UNCHANGED <<rmnVars, laneVars>>
          /\ Stands
          /\ UNCHANGED adminVars
       \/ focus \in {"quotes", "curses"} /\ Ask /\ UNCHANGED adminVars
       \/ focus = "tokens" /\ TokensNext /\ UNCHANGED vars

MCSpec == MCInit /\ [][MCNext]_<<focus, vars, adminVars>>
=============================================================================
