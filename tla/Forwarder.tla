----------------------------- MODULE Forwarder ------------------------------
(***************************************************************************)
(* The CRE forwarder: a signed report is delivered to the receiver it      *)
(* names, once, by a transmitter that is registered; a delivery that fails *)
(* can be tried again.  route delivers without signatures, under an id the *)
(* transmitter names.                                                      *)
(***************************************************************************)
EXTENDS Naturals, Sequences, SequencesExt, FiniteSets

CONSTANTS
    Transmitters,   \* who may be registered
    Keys,           \* signing keys
    Faulty,         \* the keys whose holders sign anything
    Reports,        \* [id, config, payload]: id stands for receiver, execution and report id
    Genuine,        \* the reports an honest signer signs
    ConfigIds,      \* DON id and config version
    OracleConfigs,  \* what set_config is called with: f and a list of keys
    MaxOracles,     \* MAX_ORACLES
    MaxAttempts     \* bound of attempts at delivery

ValidOracles(a) ==
    a.f > 0 /\ Len(a.signers) <= MaxOracles /\ Len(a.signers) >= 3 * a.f + 1 /\ IsInjective(a.signers)

\* The owner configures no more faulty signers than f, which is what f is for.
ASSUME ForwarderAssumption ==
    /\ OracleConfigs \subseteq [f : Nat, signers : Seq(Keys)]
    /\ \A a \in OracleConfigs : ValidOracles(a) => Cardinality(ToSet(a.signers) \cap Faulty) <= a.f
    /\ \A r \in Reports : r.config \in ConfigIds
    /\ Faulty \subseteq Keys /\ MaxOracles \in Nat /\ MaxAttempts \in Nat

VARIABLES
    forwarders,     \* Forwarder(address)
    configs,        \* Config(id): f and signers
    transmissions,  \* state of Transmission(id)
    receiverIsWasm, \* environment: the receiver is a contract that runs Wasm
    attempts,       \* attempts at delivery so far
    accepted        \* ghost: what on_report returned from cleanly, by transmission id

forwarderVars == <<forwarders, configs, transmissions, receiverIsWasm, attempts, accepted>>

Cleared == [f |-> 0, signers |-> <<>>]
Ids == {r.id : r \in Reports}
Final == {"Succeeded", "InvalidReceiver"}

ForwarderInit ==
    /\ forwarders = {}
    /\ configs = [c \in ConfigIds |-> Cleared]
    /\ transmissions = [i \in Ids |-> "NotAttempted"]
    /\ receiverIsWasm \in BOOLEAN
    /\ attempts = 0
    /\ accepted = [i \in Ids |-> <<>>]

\* The calls of the owner (Ownable): the registered transmitters, and the configurations.
AddForwarder(t) ==
    /\ forwarders' = forwarders \cup {t}
    /\ UNCHANGED <<configs, transmissions, receiverIsWasm, attempts, accepted>>

\* The contract's own entry, which initialize makes, cannot be removed.
RemoveForwarder(t) ==
    /\ forwarders' = forwarders \ {t}
    /\ UNCHANGED <<configs, transmissions, receiverIsWasm, attempts, accepted>>

SetConfig(c, a) ==
    /\ ValidOracles(a)
    /\ configs' = [configs EXCEPT ![c] = a]
    /\ UNCHANGED <<forwarders, transmissions, receiverIsWasm, attempts, accepted>>

ClearConfig(c) ==
    /\ configs[c] # Cleared
    /\ configs' = [configs EXCEPT ![c] = Cleared]
    /\ UNCHANGED <<forwarders, transmissions, receiverIsWasm, attempts, accepted>>

-----------------------------------------------------------------------------
(* Delivery.                                                               *)

\* What is recorded: the receiver returns, fails, or has no on_report.
Outcomes == IF receiverIsWasm THEN {"Succeeded", "Failed", "InvalidReceiver"} ELSE {"InvalidReceiver"}

AlreadyProcessed(i) == transmissions[i] \in Final

DispatchToReceiver(i, entry, outcome) ==
    /\ ~AlreadyProcessed(i)
    /\ outcome \in Outcomes
    /\ transmissions' = [transmissions EXCEPT ![i] = outcome]
    /\ accepted' = [accepted EXCEPT ![i] = IF outcome = "Succeeded" THEN Append(@, entry) ELSE @]
    /\ attempts' = attempts + 1
    /\ UNCHANGED <<forwarders, configs, receiverIsWasm>>

\* Mutated: a signer may sign twice.
VerifiesAnyway(config, signatures) ==
    /\ Len(signatures) = config.f + 1
    /\ ToSet(signatures) \subseteq ToSet(config.signers)

\* Exactly f + 1 signatures, by different signers of the configuration.
VerifySignatures(config, signatures) ==
    /\ Len(signatures) = config.f + 1
    /\ ToSet(signatures) \subseteq ToSet(config.signers)
    /\ IsInjective(signatures)

Report(transmitter, r, signatures, outcome) ==
    /\ ~AlreadyProcessed(r.id)
    /\ configs[r.config] # Cleared
    /\ VerifySignatures(configs[r.config], signatures)
    /\ transmitter \in forwarders
    /\ DispatchToReceiver(r.id, [path |-> "report", report |-> r], outcome)

Route(transmitter, i, r, outcome) ==
    /\ transmitter \in forwarders
    /\ DispatchToReceiver(i, [path |-> "route", report |-> r], outcome)

\* The receiver's address comes to hold, or to hold no more, a Wasm contract.
Exchange ==
    /\ receiverIsWasm' = ~receiverIsWasm
    /\ UNCHANGED <<forwarders, configs, transmissions, attempts, accepted>>

\* Signatures there can be for a report: of faulty keys, and of all if it is genuine.
SignaturesFor(r) ==
    LET keys == IF r \in Genuine THEN Keys ELSE Faulty IN
    UNION {[1 .. n -> keys] : n \in {configs[r.config].f, configs[r.config].f + 1} \ {0}}

Attempt ==
    \E t \in Transmitters, r \in Reports, outcome \in Outcomes :
        /\ attempts < MaxAttempts
        /\ \/ \E signatures \in SignaturesFor(r) : Report(t, r, signatures, outcome)
           \/ \E i \in Ids : Route(t, i, r, outcome)

ForwarderNext ==
    \/ Attempt
    \/ \E t \in Transmitters : AddForwarder(t) \/ RemoveForwarder(t)
    \/ \E c \in ConfigIds :
          \/ \E a \in OracleConfigs : SetConfig(c, a)
          \/ ClearConfig(c)
    \/ Exchange

ForwarderSpec == ForwarderInit /\ [][ForwarderNext]_forwarderVars

-----------------------------------------------------------------------------
(* Properties.                                                             *)

\* A receiver returns cleanly from at most one delivery per transmission id, whichever of
\* report and route makes it, with whatever payload and after however many failures.
DeliveredOnce == \A i \in Ids : Len(accepted[i]) <= 1

\* As long as no configuration names more than f faulty signers, what report delivers was
\* signed by an honest one, through replaced and cleared configurations.
GenuineOnly ==
    \A i \in Ids : \A k \in DOMAIN accepted[i] :
        accepted[i][k].path = "report" => accepted[i][k].report \in Genuine

\* dispatch_to_receiver and report (lib.rs:171-252, 493-540): a receiver accepts a
\* transmission at most once, and what report delivers has an honest signature, over
\* retries, routes and configurations.
ReportsGenuineOnce == DeliveredOnce /\ GenuineOnly
=============================================================================
