-------------------------------- MODULE Lane --------------------------------
(***************************************************************************)
(* Sending a message: the Router, the OnRamp it finds in its table, the    *)
(* fee quoter's price, the pool's required CCVs and its registry, and RMN. *)
(* ccip_send and everything it calls commit together or not at all.        *)
(***************************************************************************)
EXTENDS Ramps, Rmn

CONSTANTS
    Dests,          \* chains messages are sent to
    Ccvs,           \* addresses of CCVs
    Messages,       \* messages and their extra args
    LaneConfigs,    \* DestChainConfigArgs the owner of an OnRamp applies
    Hooks,          \* PoolRequiredCCVs the pool of the token may answer
    Quotes,         \* what the fee quoter is set to
    Unit,           \* 10^16: a cent, in the unit a price is for
    GasCents, TokenCents, PoolCents, CcvCents,    \* cents of the other parts of a fee
    Premium,        \* percentage
    MaxSent         \* bound of messages sent

\* No list is checked for repetitions: neither the sender's nor the owner's.
DestChainConfig ==
    [router : STRING, message_number : Nat, token_receiver_allowed : BOOLEAN,
     message_network_fee : Nat, token_network_fee : Nat, execution_fee : Nat,
     lane_mandated_ccvs : Seq(Ccvs), default_ccvs : Seq(Ccvs)]

ASSUME LaneAssumption ==
    /\ Messages \subseteq [token : BOOLEAN, bare : BOOLEAN, ccvs : Seq(Ccvs),
                           token_receiver : BOOLEAN]
    /\ LaneConfigs \subseteq DestChainConfig
    /\ Hooks \subseteq [ccvs : Seq(Ccvs), include_defaults : BOOLEAN]
    /\ Quotes \subseteq [network : Nat, price : Nat \ {0}]
    /\ {GasCents, TokenCents, PoolCents, CcvCents, Premium, Unit, MaxSent} \subseteq Nat

VARIABLES
    lanes,          \* DEST_CHAINS of each OnRamp: DestChainConfig by <<onramp, chain>>
    required,       \* what the pool's get_required_ccvs answers
    quote,          \* the fee quoter's network fee and fee token price
    balance,        \* fee tokens of each OnRamp
    sent,           \* messages sent, with what their plan of CCVs had to be
    owed,           \* ghost: fee tokens of the receipts issued since the last withdrawal
    mismatched,     \* ghost: a message's network fee was beyond the fee quoter's
    told            \* the fee a sender was told last, while what it was computed from stands

laneVars == <<lanes, required, quote, balance, sent, owed, mismatched>>
vars == <<routerVars, registryVars, rmnVars, laneVars, told>>

Router == "router"

Init ==
    /\ RampsInit /\ RmnInit
    /\ lanes = Empty
    /\ required \in Hooks /\ quote \in Quotes
    /\ balance = [o \in Ramps |-> 0]
    /\ sent = {}
    /\ owed = [o \in Ramps |-> 0]
    /\ mismatched = FALSE
    /\ told = {}

-----------------------------------------------------------------------------
(* The CCVs of a message.                                                  *)

AppendUnique(list, more) ==
    FoldLeft(LAMBDA l, ccv : IF Contains(l, ccv) THEN l ELSE Append(l, ccv), list, more)

\* Mutated: a sender's list replaces the lane's.
MergeUserFirst(user, mandated, fallback) ==
    IF user # <<>> THEN user ELSE IF mandated # <<>> THEN mandated ELSE fallback

Merge(user, mandated, fallback) ==
    IF user = <<>> /\ mandated = <<>> THEN fallback ELSE AppendUnique(user, mandated)

TokenOnly(m) == m.token /\ m.bare

Plan(m, config) ==
    LET merged == Merge(m.ccvs, config.lane_mandated_ccvs,
                        IF TokenOnly(m) THEN <<>> ELSE config.default_ccvs)
        pool == AppendUnique(merged, required.ccvs)
    IN IF ~m.token THEN merged
       ELSE IF required.include_defaults THEN AppendUnique(pool, config.default_ccvs) ELSE pool

\* Ghost: the CCVs a message has to have: the sender's, the lane's, the pool's, and the
\* defaults where the sender and the lane name none or the pool asks for them.
Wanted(m, config) ==
    ToSet(m.ccvs) \cup ToSet(config.lane_mandated_ccvs)
    \cup (IF m.token THEN ToSet(required.ccvs) ELSE {})
    \cup (IF \/ m.token /\ required.include_defaults
             \/ m.ccvs = <<>> /\ config.lane_mandated_ccvs = <<>> /\ ~TokenOnly(m)
          THEN ToSet(config.default_ccvs) ELSE {})

\* Ghost: the list a plan begins with.
Given(m, config) ==
    IF m.ccvs = <<>> /\ config.lane_mandated_ccvs = <<>> /\ ~TokenOnly(m)
    THEN config.default_ccvs ELSE m.ccvs

-----------------------------------------------------------------------------
(* Fees.                                                                   *)

InFeeToken(cents) == (cents * Unit) \div quote.price

\* Mutated: the network fee is left to the OnRamp.
FeeWithoutNetwork(m) ==
    InFeeToken(((GasCents + IF m.token THEN TokenCents ELSE 0) * Premium) \div 100)

MessageFee(m) ==
    InFeeToken(((GasCents + quote.network + IF m.token THEN TokenCents ELSE 0) * Premium) \div 100)

\* Receipts of the CCVs, the pool and the executor.
Additional(m, config) ==
    InFeeToken(CcvCents * Len(Plan(m, config)) + (IF m.token THEN PoolCents ELSE 0)
                   + config.execution_fee)

\* What get_fee tells, and what forward_from_router asks for before anything is done.
RequiredFee(m, config) == MessageFee(m) + Additional(m, config)

NetworkCents(m, config) == IF m.token THEN config.token_network_fee ELSE config.message_network_fee

\* The receipts after those of the CCVs: the pool's, the executor's, and the network fee's.
OtherReceipts(m, config) ==
    (IF m.token THEN <<PoolCents>> ELSE <<>>) \o <<config.execution_fee, NetworkCents(m, config)>>

\* Mutated: every receipt is summed, the last one, which the fee quoter has included, too.
AllReceiptsFee(m, config) ==
    MessageFee(m) + InFeeToken(CcvCents * Len(Plan(m, config)) + FoldSeq(+, 0, OtherReceipts(m, config)))

\* What forward_from_router asks for once it has the receipts, which it finds by position.
ReceiptsFee(m, config) ==
    MessageFee(m) + InFeeToken(CcvCents * Len(Plan(m, config))
                                   + (IF m.token THEN OtherReceipts(m, config)[1] ELSE 0)
                                   + config.execution_fee)

-----------------------------------------------------------------------------
(* Sending.                                                                *)

Forward(o, c, m, fee) ==
    LET config == lanes[<<o, c>>]
        network == IF fee > 0 THEN InFeeToken(NetworkCents(m, config)) ELSE 0
        number == config.message_number + 1
    IN
    /\ ~IsCursed
    /\ config.router = Router
    /\ m.token_receiver => config.token_receiver_allowed
    /\ m.token => AuthorizedOnramp(c, o)
    /\ fee >= RequiredFee(m, config) /\ fee >= ReceiptsFee(m, config)
    /\ network <= balance[o] + fee
    /\ lanes' = [lanes EXCEPT ![<<o, c>>].message_number = number]
    /\ balance' = [balance EXCEPT ![o] = @ + fee - network]
    /\ sent' = sent \cup {[onramp |-> o, dest |-> c, number |-> number,
                           plan |-> Plan(m, config), given |-> Given(m, config),
                           wanted |-> Wanted(m, config)]}
    /\ owed' = [owed EXCEPT ![o] = @ + Additional(m, config)]
    /\ mismatched' = (mismatched \/ NetworkCents(m, config) > (quote.network * Premium) \div 100)
    /\ UNCHANGED <<routerVars, registryVars, rmnVars, required, quote>>

\* ccip_send: the Router passes the fee on and calls the OnRamp of the chain.
CcipSend(c, m, fee) ==
    /\ ChainNotCursed(c)
    /\ c \in DOMAIN onramps
    /\ <<onramps[c], c>> \in DOMAIN lanes
    /\ Forward(onramps[c], c, m, fee)

\* Mutated: a lane that is configured again starts again.
StartAgain(o, c) == 0

\* existing_message_number.
ExistingNumber(o, c) == IF <<o, c>> \in DOMAIN lanes THEN lanes[<<o, c>>].message_number ELSE 0

Valid(config) == config.default_ccvs # <<>> \/ config.lane_mandated_ccvs # <<>>

ApplyDestChainConfigUpdates(o, c, config) ==
    /\ Valid(config)
    /\ lanes' = Set(lanes, <<o, c>>, [config EXCEPT !.message_number = ExistingNumber(o, c)])
    /\ UNCHANGED <<routerVars, registryVars, rmnVars, required, quote, balance, sent, owed, mismatched>>

\* Anyone's call; it leaves with the aggregator what the receipts are paid from.
WithdrawFeeTokens(o) ==
    /\ balance[o] > 0
    /\ balance' = [balance EXCEPT ![o] = 0]
    /\ owed' = [owed EXCEPT ![o] = 0]
    /\ UNCHANGED <<routerVars, registryVars, rmnVars, lanes, required, quote, sent, mismatched>>

\* update_prices and apply_dest_chain_configs of the fee quoter.
SetQuote(q) ==
    /\ quote' = q
    /\ UNCHANGED <<routerVars, registryVars, rmnVars, lanes, required, balance, sent, owed, mismatched>>

\* The pool is given other hooks, or its hooks another policy.
SetHooks(h) ==
    /\ required' = h
    /\ UNCHANGED <<routerVars, registryVars, rmnVars, lanes, quote, balance, sent, owed, mismatched>>

\* get_fee of the Router and of the OnRamp of the chain.  The OnRamp looks at the global
\* curse only, and neither at who its Router is.
GetFee(c, m) ==
    /\ c \in DOMAIN onramps /\ <<onramps[c], c>> \in DOMAIN lanes
    /\ ~IsCursed
    /\ m.token_receiver => lanes[<<onramps[c], c>>].token_receiver_allowed
    /\ told' = {[onramp |-> onramps[c], dest |-> c, message |-> m,
                 fee |-> RequiredFee(m, lanes[<<onramps[c], c>>])]}
    /\ UNCHANGED <<routerVars, registryVars, rmnVars, laneVars>>

\* Ghost: what a fee is computed from, and the fees for which a step leaves that as it was.
Basis(q) ==
    <<onramps[q.dest], [lanes[<<q.onramp, q.dest>>] EXCEPT !.message_number = 0], quote, required>>
Stands == told' = {q \in told : q.dest \in DOMAIN onramps' /\ Basis(q)' = Basis(q)}

Fees(c, m) ==
    IF c \in DOMAIN onramps /\ <<onramps[c], c>> \in DOMAIN lanes
    THEN LET fee == RequiredFee(m, lanes[<<onramps[c], c>>]) IN {f \in {fee - 1, fee} : f >= 0}
    ELSE {}

Operate ==
    \/ \E c \in Dests, m \in Messages : \E fee \in Fees(c, m) :
          Cardinality(sent) < MaxSent /\ CcipSend(c, m, fee)
    \/ \E o \in Ramps, c \in Dests, config \in LaneConfigs : ApplyDestChainConfigUpdates(o, c, config)
    \/ \E c \in Dests, o \in Ramps :
          (SetOnramp(c, o) \/ ApplyOnrampUpdates(<< <<c, o>> >>)) /\ UNCHANGED <<rmnVars, laneVars>>

Reprice ==
    \/ \E o \in Ramps : WithdrawFeeTokens(o)
    \/ \E q \in Quotes : SetQuote(q)
    \/ \E h \in Hooks : SetHooks(h)

Ask == \E c \in Dests, m \in Messages : GetFee(c, m)

Next ==
    \/ /\ \/ Operate
          \/ Reprice
          \/ RmnNext /\ UNCHANGED <<routerVars, registryVars, laneVars>>
          \/ (RouterNext \/ RegistryNext) /\ UNCHANGED <<rmnVars, laneVars>>
       /\ Stands
    \/ Ask

Spec == Init /\ [][Next]_vars

-----------------------------------------------------------------------------
(* Properties.                                                             *)

\* On each lane of each OnRamp the messages are numbered 1, 2, ... without a gap and
\* without a repetition, whatever is configured, routed elsewhere and back, in between:
\* with the OnRamp's address and the destination the number makes a message id unique.
Numbered ==
    \A o \in Ramps, c \in Dests :
        LET here == {m \in sent : m.onramp = o /\ m.dest = c} IN
        IF <<o, c>> \in DOMAIN lanes
        THEN /\ {m.number : m \in here} = 1 .. lanes[<<o, c>>].message_number
             /\ Cardinality(here) = lanes[<<o, c>>].message_number
        ELSE here = {}

\* The plan a message is sent with names exactly the CCVs it has to.  It begins with the
\* sender's list, in its order (the arguments are matched by position), and names no CCV
\* again, through a merge and two appends that each look for duplicates: only what that
\* list repeats itself is repeated.
PlanExact ==
    \A m \in sent :
        /\ ToSet(m.plan) = m.wanted
        /\ IsPrefix(m.given, m.plan)
        /\ IsInjective(m.given) => IsInjective(m.plan)

\* As long as the fee quoter's network fee covers the OnRamp's, what an OnRamp holds pays
\* for the receipts it has issued since the last withdrawal: the network fee that is
\* passed on at once is never taken from them, though each part is rounded for itself.
ReceiptsCovered == ~mismatched => \A o \in Ramps : owed[o] <= balance[o]

\* A fee that get_fee told is honoured: until the chain's OnRamp, the lane's configuration,
\* the fee quoter or the hooks are changed it is still the least that will do, and it will
\* do, whoever sends, withdraws or curses in between.  It passes both of the OnRamp's checks,
\* the one over the receipts too, and it brings the network fee that is paid out at once,
\* from a balance anyone may have emptied, where the fee quoter's covers the OnRamp's.
QuoteHonoured ==
    \A q \in told :
        LET config == lanes[<<q.onramp, q.dest>>]
            cents == NetworkCents(q.message, config)
        IN /\ onramps[q.dest] = q.onramp
           /\ q.fee = RequiredFee(q.message, config)
           /\ q.fee >= ReceiptsFee(q.message, config)
           /\ cents <= (quote.network * Premium) \div 100 => InFeeToken(cents) <= balance[q.onramp] + q.fee

\* The comment on the sum of the receipts: the fee quoter has included the network fee.
NetworkFeeIncluded == \A o \in Ramps : owed[o] <= balance[o]

\* The comment on a pool's required CCVs: an empty answer falls back to the defaults.
NeverWithoutCcv == \A m \in sent : m.plan # <<>>
=============================================================================
