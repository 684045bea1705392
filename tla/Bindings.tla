------------------------------ MODULE Bindings ------------------------------
(***************************************************************************)
(* A Go program and the contracts: the program calls a method of a         *)
(* generated client, the host hands the arguments to the contract, the     *)
(* contract answers, and the client reads the answer.  Apart from calls,   *)
(* the client waits for an event, and builds the key of a ledger entry.    *)
(*                                                                         *)
(* What the clients know of the contracts is a table, and what the         *)
(* contracts are, another: MCBindings has those of the repository, from    *)
(* the modules ...Clients and ...Interfaces.                               *)
(***************************************************************************)
EXTENDS Scval

CONSTANTS
    Go,         \* what each contract's client knows: methods, events, keys
    Rust        \* what each contract is: functions, events, keys

Contracts == DOMAIN Go

-----------------------------------------------------------------------------
(* What the tables have in common.                                         *)

\* The function a method calls takes and returns the method's types.  For
\* get_required_ccvs the client has a number where the contract has a name.
FunctionsAgree(c) ==
    \A method \in Go[c].methods :
        /\ method.fn \in DOMAIN Rust[c].functions
        /\ LET f == Rust[c].functions[method.fn] IN
           /\ method.returns = f.returns
           /\ DOMAIN method.args = DOMAIN f.args
           /\ \A i \in DOMAIN f.args :
                 \/ method.args[i] = f.args[i]
                 \/ /\ method.fn = "get_required_ccvs"
                    /\ NodeAt(method.args[i], <<>>).k = "codes" /\ ~NodeAt(method.args[i], <<>>).opt
                    /\ NodeAt(f.args[i], <<>>).k = "union"

\* No client waits for the end of a transfer of ownership: accept_ownership publishes it
\* under a topic that none has.  Two clients do not know of the start either.
Unheard(c, topic) ==
    \/ topic = "auth_OwnerTransferred"
    \/ topic = "auth_OwnerTransferStart" /\ c \in {"ramp_registry", "ccip_receiver"}

\* Every event but those has a wait, and a wait has the name and the fields of the event
\* its topic is of.
TopicsAgree(c) ==
    /\ \A name \in DOMAIN Rust[c].events :
          \/ Unheard(c, Rust[c].events[name].topic)
          \/ \E other \in DOMAIN Go[c].events :
                Go[c].events[other].topic = Rust[c].events[name].topic
    /\ \A name \in DOMAIN Rust[c].events, other \in DOMAIN Go[c].events :
          Go[c].events[other].topic = Rust[c].events[name].topic =>
              other = name /\ Go[c].events[other].fields = Rust[c].events[name].fields

ASSUME TablesAgree ==
    \A c \in Contracts :
        /\ FunctionsAgree(c) /\ TopicsAgree(c)
        /\ \A name \in DOMAIN Go[c].keys : Go[c].keys[name] = Rust[c].keys[name]

-----------------------------------------------------------------------------

CONSTANTS
    Nothing,    \* no value
    Samples(_)  \* for a list of types, the lists of values that are tried

VARIABLES
    phase,      \* of the exchange
    call,       \* the contract, the method and the arguments a program gives it
    heard,      \* the arguments the contract's function gets
    answer,     \* what the contract returns
    got,        \* what the program gets back
    event,      \* the event on the ledger
    seen        \* the event a wait returns

bindingsVars == <<phase, call, heard, answer, got, event, seen>>

BindingsInit ==
    /\ phase = "idle"
    /\ call = Nothing /\ heard = Nothing /\ answer = Nothing /\ got = Nothing
    /\ event = Nothing /\ seen = Nothing

-----------------------------------------------------------------------------
(* A call.                                                                 *)

\* Lists of values of a list of types.
Values(types, Ints) ==
    {vs \in Samples(types) : /\ vs = [i \in DOMAIN types |-> vs[i]]
                             /\ \A i \in DOMAIN types : ValueOf(types[i], vs[i], Ints)}

\* A method of a client, called with any arguments of its types.
Call(c, method, given) ==
    /\ phase = "idle"
    /\ phase' = "sent"
    /\ call' = [contract |-> c, method |-> method, given |-> given,
                sent |-> [i \in DOMAIN method.args |-> ToScVal(method.args[i], given[i])]]
    /\ UNCHANGED <<heard, answer, got, event, seen>>

Called == Rust[call.contract].functions[call.method.fn]

\* The function there is, with as many arguments and each of its type.
Accepted ==
    /\ call.method.fn \in DOMAIN Rust[call.contract].functions
    /\ DOMAIN call.sent = DOMAIN Called.args
    /\ \A i \in DOMAIN call.sent : SdkDecodes(Called.args[i], call.sent[i])

Dispatch ==
    /\ phase = "sent" /\ Accepted
    /\ phase' = "running"
    /\ heard' = [i \in DOMAIN call.sent |-> SdkFromScVal(Called.args[i], call.sent[i])]
    /\ UNCHANGED <<call, answer, got, event, seen>>

Trap ==
    /\ phase = "sent" /\ ~Accepted
    /\ phase' = "trapped"
    /\ UNCHANGED <<call, heard, answer, got, event, seen>>

Return(value) ==
    /\ phase = "running"
    /\ phase' = "answered"
    /\ answer' = [value |-> value, sent |-> SdkToScVal(Called.returns, value)]
    /\ UNCHANGED <<call, heard, got, event, seen>>

\* The generated code converts the return value, or gives the error of the conversion.
Receive ==
    /\ phase = "answered"
    /\ IF Decodes(call.method.returns, answer.sent)
       THEN phase' = "received" /\ got' = FromScVal(call.method.returns, answer.sent)
       ELSE phase' = "garbled" /\ got' = got
    /\ UNCHANGED <<call, heard, answer, event, seen>>

-----------------------------------------------------------------------------
(* An event, published by whatever call, and a key.                        *)

Publish(c, name, value) ==
    LET e == Rust[c].events[name] IN
    /\ phase = "idle"
    /\ phase' = "published"
    /\ event' = [contract |-> c, name |-> name, topic |-> e.topic, value |-> value,
                 sent |-> SdkToScVal(e.fields, value)]
    /\ UNCHANGED <<call, heard, answer, got, seen>>

\* WaitFor...: GetEvents of the contract and the topic gives the event.
WaitFor(name) ==
    /\ phase = "published"
    /\ Go[event.contract].events[name].topic = event.topic
    /\ phase' = "seen"
    /\ seen' = [name |-> name,
                value |-> EventFromScVal(Go[event.contract].events[name].fields, event.sent)]
    /\ UNCHANGED <<call, heard, answer, got, event>>

\* A wait for another event of the contract, or for one of another contract, ends with
\* its time.
WaitTimesOut ==
    /\ phase = "published"
    /\ phase' = "missed"
    /\ UNCHANGED <<call, heard, answer, got, event, seen>>

\* The key a client builds, and the one the contract stores the entry under.
BuildKey(c, name, key) ==
    /\ phase = "idle"
    /\ phase' = "keyed"
    /\ call' = [contract |-> c, key |-> name, given |-> key,
                sent |-> ToScVal(Go[c].keys[name], key)]
    /\ heard' = SdkToScVal(Rust[c].keys[name], key)
    /\ UNCHANGED <<answer, got, event, seen>>

-----------------------------------------------------------------------------

Ended == phase \in {"trapped", "garbled", "received", "seen", "missed", "keyed"}

Again ==
    /\ Ended \/ phase = "running"     \* a contract that ends with an error answers nothing
    /\ phase' = "idle"
    /\ call' = Nothing /\ heard' = Nothing /\ answer' = Nothing /\ got' = Nothing
    /\ event' = Nothing /\ seen' = Nothing

BindingsNext ==
    \/ phase = "idle" /\ \E c \in Contracts :
          \/ \E method \in Go[c].methods : \E given \in Values(method.args, Int64) :
                Call(c, method, given)
          \/ \E name \in DOMAIN Rust[c].events :
                \E vs \in Values(<<Rust[c].events[name].fields>>, Int128) : Publish(c, name, vs[1])
          \/ \E name \in DOMAIN Go[c].keys :
                \E vs \in Values(<<Go[c].keys[name]>>, Int64) : BuildKey(c, name, vs[1])
    \/ Dispatch
    \/ Trap
    \/ phase = "running" /\ \E vs \in Values(<<Called.returns>>, Int128) : Return(vs[1])
    \/ Receive
    \/ phase = "published" /\ \E name \in DOMAIN Go[event.contract].events : WaitFor(name)
    \/ WaitTimesOut
    \/ Again

BindingsSpec == BindingsInit /\ [][BindingsNext]_bindingsVars

-----------------------------------------------------------------------------
(* Properties.                                                             *)

\* What a program hands to a generated method is what the contract's function gets, and
\* the host refuses no call, except those of get_required_ccvs (see HostAccepts): the
\* functions, the number and order of arguments, and every conversion on the way agree.
ArgumentsUnderstood ==
    /\ phase \in {"running", "answered", "received"} => heard = call.given
    /\ phase = "trapped" => call.method.fn = "get_required_ccvs"

\* Read as written, but for the i128s beyond an int64, which are cut (the code says so).
Understood(x, v) ==
    /\ DOMAIN x = DOMAIN v
    /\ \A p \in DOMAIN v : ("n" \in DOMAIN v[p] => v[p].n \in Int64) => x[p] = v[p]

\* What a contract returns is what the generated method gives its caller, and a number too
\* large for it never turns into an error.
AnswersUnderstood ==
    /\ phase # "garbled"
    /\ phase = "received" => Understood(got, answer.value)

\* The key the bindings build is the key the contract stores the entry under.
KeysAgree == phase = "keyed" => call.sent = heard

\* A generated client and its contract understand each other: arguments, answers and keys
\* (the methods generateMethod emits, against the functions of the contract).
CallsUnderstood == ArgumentsUnderstood /\ AnswersUnderstood /\ KeysAgree

\* Some wait of the client returns the event that is published.
Awaited ==
    \E name \in DOMAIN Go[event.contract].events :
        Go[event.contract].events[name].topic = event.topic

\* A wait ends with the event of its name and with all its fields, although a parser
\* passes over a field it cannot convert (generateEventParser, generateEventHelpers); and
\* what a contract publishes, itself or through the traits it implements, some wait
\* returns, but for the events of ownership that Unheard names.
EventsUnderstood ==
    /\ phase = "seen" => seen.name = event.name /\ Understood(seen.value, event.value)
    /\ phase = "published" => Unheard(event.contract, event.topic) \/ Awaited

\* The comment on implicit discriminants says that the u32 of a unit-only enum is what is
\* on the wire, so that the host accepts every call.
HostAccepts == phase # "trapped"

\* No event of a contract is out of reach of its client.
EveryEventAwaited == phase = "published" => Awaited
=============================================================================
