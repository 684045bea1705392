# TLA+ models of chainlink-stellar

A verification project for the Stellar integration of Chainlink: the relayer's
transaction manager and the programs beside it (Go: `relayer/txm`,
`ccv/destination_reader`, `bindings`) and the Soroban contracts (Rust: `contracts`).
Every definition is written from the source; `PROJECT.json` maps it to the lines it
models.

1. [Inventory of the system](#1-inventory-of-the-system)
2. [The modules and the code](#2-the-modules-and-the-code)
3. [The runs](#3-the-runs)
4. [Fairness](#4-fairness)
5. [The proofs](#5-the-proofs)
6. [Where the code and its words disagree](#6-where-the-code-and-its-words-disagree)
7. [What is not modelled](#7-what-is-not-modelled)
8. [Plan](#8-plan)

To check a run: `tlc -config MCTxm.cfg MCTxm`. To check a proof:
`tlapm TxStoreProofs.tla`.

## 1. Inventory of the system

Two halves meet at the ledger: an off-chain relayer that submits transactions, and
contracts that receive and send cross-chain messages.

| component | state | operations | hard behaviours | what makes it correct |
|---|---|---|---|---|
| TXM sequence store (`txstore.go`) | next sequence, in-flight and recyclable sequences, last resync | GetNextSequence, AddUnconfirmed, Confirm, Release, ResyncNonce | two loops interleave between its calls; RPC nodes lag | no gap, no sequence in both maps, a sequence read stays usable |
| TXM (`txm.go`, `broadcast.go`, `restore.go`) | registered transactions, broadcast channel, retry counts, loops | Enqueue(AndWait), broadcastLoop, confirmLoop, pruneLoop, Close | backpressure, retries racing expiries, lost answers, shutdown | nothing is lost, nothing is broadcast after its end, budgets hold, everything ends |
| Timelock | roles, operation timestamps, minimum delay, blocked selectors | schedule, execute, cancel, bypass, roles, parameters | sentinel values in a u64, cancel and reschedule, chains of predecessors | once, after the delay, in order |
| MCMS | signer config, expiring root, operation count, seen hashes | set_config, set_root, execute, set_min_secs_per_ledger | entries that age out of the ledger, overriding and cleared roots | each nonce once, no signed hash twice, quorums exact |
| OffRamp | lane configs, execution states | execute, apply_source_chain_cfg_updates | an error that commits half of its effects, retries under changed configuration | takes effect once, only when attested |
| OnRamp, Router, ramp registry | message numbers, lane configs, tables of ramps | get_fee, ccip_send down to forward_from_router, configure, withdraw | ramps replaced, lanes configured again, a fee asked in one transaction and paid in another, two tables nobody updates together | numbers without gaps, complete CCVs, paid receipts, honoured quotes, exact tables |
| Fee quoter | prices, fee configuration | quote, update prices | fixed-point rounding, prices that move between messages | what is collected covers what is promised |
| Token pools, rate limiter, lock box | buckets, liquidity, remote configs, lock boxes | lock/burn, release/mint, chain updates, rate limits, lock boxes | refill over time, two speeds, reconfiguration, decimals | no more and no less than the bucket allows; nothing created, nothing out of reach |
| Committee verifier, verifier resolver | signer sets, versions | verify a message, configure | threshold counting, version changes | only a threshold of signers attests |
| RMN remote and proxy | cursed subjects, curse admins, the remote in force | curse, uncurse, replace the remote | the remote is replaced, with curses and admins of its own | every guarded call asks the remote in force |
| Ownership, allow lists, token admin registry | owners, pending owners, tokens with administrator and pool, index | transfer, accept, cancel, set; propose, set pool, list | two-step transfers crossing direct ones, repeated proposals, paged reads | only who was named follows; the index is exact |
| CRE forwarder | transmissions, configurations, forwarders | report, route, configure | failed transmissions retried, receivers not yet deployed, configurations replaced | a report is delivered once, and honestly signed |
| Execution attempt poller | last polled ledger, attempt cache | start, backfill, poll, close | lagging nodes, failing polls, retention, pages | every window once, catching up |
| Bindings | none: what client and contract know of each other | call, answer, event, key | clients and contracts are built apart, lenient parsers | both sides read what the other wrote |
| CCV source reader, transmitter, accessors; relayer service, deployment, binaries | little or none | glue | - | - |

How they interact: the relayer service and the CCV transmitter call the TXM's `Enqueue`;
the TXM talks to RPC nodes through `getClient`. On chain, MCMS calls the Timelock, which
calls whatever contract it administers; the OffRamp calls verifier resolvers, the token
registry, pools, RMN and the receiver. A message leaves through Router, OnRamp, fee
quoter, verifiers and pool; the destination reader polls the OffRamp's events through
the generated bindings, as every Go program reads contracts. The only shared memory is
inside the TXM (maps under locks, one channel); the contracts share the ledger, one
atomic invocation at a time.

The hazards of this code, each at its line and with the properties aimed at it, are
the list `hazards` of `PROJECT.json`.

## 2. The modules and the code

| module | models | extends / used by |
|---|---|---|
| `TxStore` | `txstore.go` and how `txm.go` drives it | instantiated by `Txm` as its abstract specification |
| `Txm` | `txm.go`, `broadcast.go`, `restore.go`, `failed_result.go` | refines `TxStore` |
| `Timelock` | `contracts/timelock` | |
| `GroupTree` | the signers' tree: validation and vote counting of `contracts/mcms` | extended by `Mcms`, `SignatureCheck` |
| `SignatureCheck` | the loop of `verify_signatures`, a signature a step | extended by `MCMcms` |
| `Mcms` | `contracts/mcms` | |
| `OffRamp` | `contracts/offramp` | |
| `RateLimit` | `contracts/common/pool/src/rate_limit.rs`: a bucket as pure operators | extended by `Bucket`, `TokenPool` |
| `Bucket` | one bucket over time, with what passed through it | extended by `MCPools` |
| `TokenPool` | `contracts/common/pool`, the three kinds of pool, the lock box | extended by `MCPools` |
| `Ramps` | tables of the Router and of the ramp registry (`map_updater.rs`) | extended by `Lane`, `Tables` |
| `Rmn` | RMN remotes, proxy | extended by `Lane` |
| `Lane` | Router, OnRamp, fee quoter, ramp registry and RMN when a message is sent | extended by `MCLane` |
| `Ownable`, `TokenAdminRegistry` | `ownable.rs`; `contracts/token-admin-registry` | extended by `Tables` |
| `Tables` | the tables side by side: router, ramp registry, tokens and owners | extended by `MCLane` |
| `Forwarder` | `contracts/cre/forwarder` | extended by `MCOffRamp` |
| `Poller` | `ccv/destination_reader/execution_attempt_poller.go` | extended by `MCBindings` |
| `Scval` | conversions: `bindings/scval`, what `bindings/generator` emits, what the contract SDK does | extended by `Bindings` and the tables |
| `{Ramp,Pool,Silo,Service,Authority}Clients` | `bindings/contracts/*`: what each Go client sends, expects, waits for | tables, instantiated by `MCBindings` |
| `{Ramp,Pool,Silo,Service,Authority}Interfaces` | the contracts' functions and types (`contracts/common/interfaces`) and the events they publish | tables, instantiated by `MCBindings` |
| `Bindings` | a call, an event, a key, from one side to the other | extended by `MCBindings` |
| `TxStoreProofs`, `TxmProofs`, `TimelockProofs` | theorems | extend the module named |
| `McmsProofs` | theorems about `Mcms`, `GroupTree`, `SignatureCheck` | extends them |
| `OffRampProofs` | theorems about `OffRamp`, `Forwarder`, `Poller`, `Bindings` | extends them |
| `PoolProofs` | theorems about `Bucket`, `TokenPool` | extends them |
| `LaneProofs` | theorems about `Lane`, `Tables` and their parts | extends them |
| `FoldTheorems` | lemmas: folds over sets and lists, sums, smallest and largest | extended by the proof modules that need them |
| `MC...` | instances for TLC | extend the module named |

Five MC modules put several components side by side (`MCMcms`, `MCOffRamp`, `MCPools`,
`MCLane`, `MCBindings`). Their variable `focus`, chosen in the initial state, says which of them
moves; the others stay at their initial values. So one run asks related questions
without multiplying state spaces that have nothing to say to each other. Components
that do interact (Router, OnRamp, fee quoter, registry and RMN in `Lane`) move together.

A definition marked "Mutated" is a wrong variant of the one after it. No specification
uses it; it is substituted for its neighbour to see that a property notices.

**TxStore.** The store's fields are variables of the same names; an in-flight entry is
the envelope `[seq, hash]`. Each method is an operator that stands for one critical
section. The actions are the call sequences of `txm.go`: `Allocate` (GetNextSequence
into the local `seq`, here `held`), `Send`, `Accept` (AddUnconfirmed), `Abort`
(Release), `Resync`, and for the confirmer `Settle` and `Expire`. The ledger applies
an envelope only at the account's next sequence; account reads return any value up to
the true one, which models nodes that lag; `ForeignUse` is a second user.

**Txm.** One account. Actors: one caller per transaction (`Enqueue`, `Push`, `Evict`,
`Repush`), broadcastLoop (`bcast.pc`), confirmLoop (`confirm.pc`), pruneLoop
(`Prune`), `Close` and the network. An action ends where the code waits for an RPC or
lets go of a lock whose data another goroutine can change. `Faults` selects, per
instance, what goes wrong around the TXM: unreachable nodes, failing or lagging reads,
failing simulations, archived entries, send errors before or after delivery, retryable
and fatal rejections, reverts, resource exhaustion, expiry by wall clock, a second
account user, and Close. A request's envelopes are records with their ledger bound;
an envelope without one (`NoBounds`) is a RestoreFootprint. The batch of broadcastLoop and
the snapshot of confirmLoop are sets, taken in the order of time stamps and of sequences;
`Rounds` is how often a transaction can be broadcast anew.

**Timelock.** One action per entry point. `timestamp[o]` is the stored entry with its
sentinels 0 and `DONE` = 1; `now + delay` saturates at `U64Max`, a constant. History
variables record when an operation was last scheduled, the minimum delay then, and its
runs. A refused call is the absence of a step, since Soroban undoes it.

**GroupTree, SignatureCheck, Mcms.** `GroupTree` has `validate_group_tree` and the
vote count that climbs the tree, next to the reference definition `Agrees` (a group
agrees if enough of its signers and child groups do). `Mcms` keeps the expiring root,
its metadata, the operation count and, for every signed hash, the ledger from which its
seen entry reads as missing. Merkle roots are names; `MetaOf` and `OpsOf` say which
leaves have a proof. Ledger numbers (time to live) and timestamps (validity) advance
together, at no less than `Pace` seconds a ledger.

**OffRamp.** `execute` ends in one of four ways: it traps or returns early (no step),
it records Failure before anything was released (`ExecuteFails`), it records Failure
after the token was released (`ExecuteUndelivered`), or it succeeds
(`ExecuteSucceeds`). The other contracts are sets that change at any time: curses,
pools, deployed receivers, attestations.

**RateLimit, Bucket, TokenPool.** `RateLimit` has the bucket's arithmetic, saturation
included, with `MaxU128` a constant. `Bucket` adds time and two ghosts: what passed
since a moment that may be chosen anywhere (`Watch`), and what passed at each second
since the configuration. `TokenPool` is a pool of one of the three kinds: chains, the
four buckets of a chain (two directions, two speeds), finality configuration, decimals
as powers of `Radix`, lock boxes with their allowed callers. The remote pool is trusted to
report the decimals it has. Tokens move between users,
pool and boxes; `claim` counts the remote units a chain's holders can send back. What
users are given in addition (`Fund`) never enters `claim`.

**Lane.** `CcipSend` is the Router's and the OnRamp's part in one step, as the host
commits them together; the guards are the early returns on the way. A message is four
facts (a token or not, data or not, the sender's CCVs, another token receiver), a fee
is computed with the code's divisions, and `Plan` follows the two merges and two
appends of `build_merged_outbound_ccv_lists`. `Wanted` is what the plan has to be.
The fee is asked for twice while a message is sent, before anything is done
(`RequiredFee`, which get_fee tells) and again from the receipts, by their positions
(`ReceiptsFee`). `told` is the fee a sender was told last; the ghost `Stands` drops it when
a step changes what it was computed from (`Basis`). That a cursed chain is sent nothing is one
guard of `CcipSend`, evaluated in the step that sends, so no property repeats it. The
owners' calls are actions of their own, so a message may find any mixture of old and
new configuration.

**Ramps, Rmn, Ownable, TokenAdminRegistry.** One action per entry point that changes
something; batches are sequences of up to `MaxBatch` entries, repeated or contradicting
ones included. Refused calls are no steps. A reader of the token index is a process that asks
for page after page while tokens are added.

**Forwarder.** `report` needs f + 1 signatures of a configuration; a receiver returns,
fails, or has no `on_report`. Honest keys sign genuine reports only, `Faulty` keys
anything. The owner installs configurations of `OracleConfigs`, those `set_config` accepts.
`route` needs no signatures, under an id its caller names.

**Poller.** A node with a latest ledger, a retention and a page limit, behind which it
may lag from one answer to the next; a poller that starts, fills back, polls, misses
single events (a transaction it cannot fetch or decode) and is closed and started anew.
Whole polls that fail are the absence of a step.

**Scval, tables, Bindings.** The conversions of the code call themselves for the parts of a
value: a struct's for its fields, a vector's for its items. In `Scval` a type, a value and
an ScVal are functions from places (sequences of field names and item numbers) to what
stands there, so each conversion is an operator on what stands at one place (`ToScValAt`,
`DecodesAt`, `FromScValAt`, for the SDK `SdkToScValAt` and so on) and the conversion of a
value applies it to every place. A place that a type does not have is an entry the parser
passes over (`Known`); a field or item of an event that does not decode is left out with
all that is below it (`Part`). A table line names a method, its argument and result types,
in order, or an event and its fields; the lines were read off the generated clients and,
independently, off the contracts: an event is in the table of a contract that publishes it,
the ownership events of `Ownable` included (`OwnableEvents`), and not where one is merely
declared. `Bindings` takes the two tables as constants `Go` and
`Rust`, and `MCBindings` gives it those of the 18 contracts. TLC sends every method of
every client with four shapes of arguments (least, plain, negative, wide) through both
sides.

## 3. The runs

| run | question | distinct states | bounds |
|---|---|---|---|
| `txstore` | Is the sequence bookkeeping gapless and consistent under every interleaving, lagging reads included? | 64 593 | 3 hashes, so up to three envelopes; a foreign user moves the sequence twice |
| `txm` | Are transactions lost, finalized without execution, broadcast after their end, or without an end? | 195 294 | 2 transactions, channel of one (evictions and full retries happen), two retries |
| `txm_sequences` | Is every step of the TXM one the store allows? | 1 403 433 | 2 transactions, two submit attempts, two retries, two ledgers |
| `txm_close` | Is one of two calls with one ID in progress at a time, does a broadcast restore once, does Close return? | 59 373 | shared ID, asynchronous pruning, two submit attempts |
| `timelock` | Once, after the delay, in order; frozen without an admin? | 2 225 156 | a chain of two operations, one account that may hold every role or none, u64 of four values: both ends are met |
| `mcms` | MCMS: each nonce once, no signed hash twice, clear_root final? The vote count: equal to the recursive quorum, and no config that locks out? | 1 226 185 | two disjoint signer sets and two roots that compete, both bounds of the pace; every config of 4 groups and 4 addresses with quorums up to 2 |
| `offramp` | Once, and only when attested? The forwarder: once, and honestly signed? | 409 108 | three messages (token and call; token; token without an address), three CCVs, lists of up to two with repetitions; three reports of which two share an id, five keys of which two are faulty, f up to 1, four attempts |
| `bindings` | Do clients and contracts understand each other; does the poller read every window once and catch up? | 41 872 | 18 contracts, every method, event and key, four shapes of values, an int64 of 16 values; six ledgers, pages of two events, retention of three ledgers, one restart |
| `pools` | Does a bucket let through what its capacity and rate promise, no more and no less; are a pool's chains, buckets, decimals and boxes consistent? | 480 598 | u128 of 5 values and 4 seconds, all capacities up to 3 and rates up to 2; two chains, coarser and finer than the local token, two local units; limits of capacity 3 and rate 1 on the coarser chain with one box, or two boxes without limits |
| `lane` | Numbers, CCVs, receipts and quoted fees while everything around a message changes; exact tables and named successors? | 754 396 | two OnRamps, one destination, three lane configs, two quotes, two messages, or one and a fee that was told; two RMN remotes; batches of two over two chains and two ramps; two tokens and two people |
| `txm_done`, `offramp_mandated` | sentences of the code that do not hold, section 6 | - | |

Why the bounds are enough. A race in the TXM needs two transactions and one full
channel. The safety properties are also proved for every bound, `NeverLost` under two
hypotheses (section 5). The timelock's arithmetic has its edges at 0, 1
and the largest u64; four values keep the edges one step apart, and the theorems cover
every width. Group trees differ by how a vote can climb: four groups give chains,
stars and mixed trees. A mistake in a table update takes a batch of
two entries for one key; one in a merge of CCVs takes two CCVs; one in a window of the
poller two polls and a failure between them.

What the runs show, beyond the invariants' text:

- `txm` checks `NeverLost` and `EventuallyDone` with a channel that fills up, while
  transactions revert, exhaust their resources and expire. Faults that release the
  next sequence (failing simulations, send errors, rejections, archived entries) are
  not in this instance: they break `NeverLost` (section 6).
- `txm_sequences` is a refinement: `DrivesStore` says `Spec` implements `TxStore!Spec`
  with `landed` mapped to the envelopes that have a result. Lagging nodes are not in the
  instance: with the other faults they exceed what TLC can enumerate. The proof of the
  refinement (`TxmDrivesStore`) has them, and every bound.
- `txm_close` closes the service at every point of both loops, backoffs and restore
  polls included.

`CHECK_DEADLOCK FALSE` is set in all: a TXM with nothing to do and contracts nobody
calls do stop, and the bounded clocks stop too.

- `pools` checks the bucket from both sides: `WindowBound` that no window gets more than
  capacity and rate allow, `NoStarvation` that a request is refused only if some window
  since the configuration would exceed its bound. In a limited pool transfers of both
  directions and both speeds, of all three kinds, are let through and charged, and others
  are refused: a bucket of three units takes a transfer of two and not a second one at once.
- `lane`: `ReceiptsCovered` holds while the fee quoter's network fee is at least the
  OnRamp's; they are configured apart (section 6). `QuoteHonoured` has the same
  condition for the payment of the network fee: without it, a withdrawal between get_fee and
  ccip_send can leave a sender who pays what he was told with a transfer that fails.
- `bindings`: `CallsUnderstood` excepts `get_required_ccvs`, whose argument the host
  refuses (section 6); it is the one exception among all methods. `EventsUnderstood`
  excepts ownership events no client waits for (section 6).

The type invariants `TypeOK` of TxStore, Txm, Timelock, Mcms, OffRamp and Bucket are
proved, so no run repeats them.

Symmetry is used for the hashes of `txstore`, the boxes of `pools` and the ramps of
`lane` (safety only).

## 4. Fairness

The TXM and the poller have liveness properties. The TXM's fairness is

- weak fairness of each caller between `Enqueue` and its result, of broadcastLoop and
  of confirmLoop: goroutines that can run do run, and RPC calls return, because every
  call carries a context with a timeout;
- weak fairness of `Age`: TxTimeoutSecs pass;
- strong fairness of the two exits: Go's `select` chooses at random among its ready
  cases, so a closed `stop` channel is not passed over for ever although the ticker or
  the channel keeps being ready.

Nothing is assumed of the network: no envelope ever has to land and no ledger has to
close. `EventuallyDone` rests on the wall clock and the retry budgets alone.
confirmLoop needs a live client to notice an expiry; the model lets its `getClient`
succeed, so the property is about a relayer that reaches some node again and again.

The poller's fairness is weak fairness of a poll that is answered by an up-to-date node
and in which no event fails: its ticker never stops while it runs, and a node that is
reachable answers. `AttemptsCatchUp` says that it then catches up for good, unless what
it asks for has become older than what the node keeps. Nothing is assumed of restarts.

## 5. The proofs

TLAPS checks the theorems for every value of the constants under the named assumptions
of the modules. These give the constants their types and keep sentinels outside the sets
they stand beside; the ones with more content are named below. Thirty-seven of the forty
properties of the passing runs are stated by a theorem.

**TxStore** (`IInv`): `NoGap` alone is not inductive: whether releasing or expiring a
sequence leaves a gap depends on `lastOnchainSequence`, which the store compares with.
`ChainKnowledge` supplies it: a resync never runs ahead of the ledger, and nothing
recyclable lies behind the last resync. With `StoreConsistent` and what the broadcaster
holds, the conjunction is inductive, one lemma per conjunct and one step per action.
Theorems: `TypeCorrect`, `GapsArePlugged`, `MapsAgree`, `HeldStaysValid`.

**Txm** (`TxmInv`, defined in `Txm`): callers, broadcaster and confirmer share
transactions without a lock, so the induction says where a transaction is.
`OnePlace`: in the channel, in the batch, in the broadcaster's hands or in one entry of
the confirmer, never in two. `Alive`: whoever has it finds it accepted, unfinished and
within its rounds. `Registered`: the map forgets it only once it is done. `LoopPoints`:
what each loop knows at each of its points. `EnvelopesKept`: hashes are unique and serial
numbers grow. `Budget`: what a transaction has used, by the place it is in. Every step of
a loop is one of a few moves between places (`BroadcastMoves`, `ConfirmMoves`), and each
conjunct is shown for the moves. Theorems: `TxmTypes`, `FinalizedIsExecuted`,
`BroadcastsBounded`, `RestoresBounded`, `OneLive`, `DoneIsFinal` (an action property) and
the refinement `TxmDrivesStore`: initial states map to initial states of `TxStore`, every
step to one of its steps or to none.

`NeverLost` is false in general (section 6). `LostNowhereElse` proves it from two
hypotheses on the behaviour, and thereby says that there are two causes and no third:
`NextUnused`, that the store's counter names no sequence in flight, and `RoomForRetry`,
that retryGetClientOrFail does not meet a full channel. The first keeps sequences in
flight apart from those recyclable and held (`Unshared`), so that no Release takes
another's entry out; `Kept` is `NeverLost` without the transaction that is only still to
be marked Unconfirmed, which makes it inductive. The instance of run `txm` satisfies both.

**Timelock** (`IInv`): that an operation which ran had waited needs the same of one
that is still pending: its ready time covers the minimum delay of its scheduling
(`PendingCovered`), saturation included. `PredecessorsFirst` needs that a DONE mark
never goes away, which `DoneMeansRan` carries. Theorems: `TypeCorrect`, `RunsOnce`,
`DelayHolds`, `OrderHolds` and the action property `FrozenWithoutAdmin`.

**Mcms**: two invariants. `CountInv` needs nothing of the network: nonces below the
operation count ran once, the count is in the window, and the window fits 40 bits.
Hence `EachNonceOnce` and `WindowHolds`. `ReplayInv` relates time to ledgers: a hash
accepted while min_secs_per_ledger was no higher than the network's pace expires
before `Pace * (seen - ledger)` seconds are over (`SeenCovers`), which every closing
ledger preserves because it costs at least `Pace` seconds. Hence `ReplaySafe` and
`ClearedForGood`, under the hypothesis `FreshIsExtended` that the network gives a new
entry less than the threshold, so that `extend_ttl` extends it (see section 6).

**Vote count** (`TallyInv`): a signature raises the count of its group and, where that
completes a quorum, of the parents in turn. `Counted` says that after each signature
every group's count is the number of its own signers and of its child groups that have
reached their quorum, although the loop never looks at the tree as a whole. It is kept
because the groups raised form a path upwards that ends at the first group not completed
by it, or at the root. `Agrees` is a recursive function that looks at child groups of
larger numbers, where `validate_group_tree` puts all of them, so the set of groups that
agree is the only one closed in its sense (`AgreesIsFixed`), and `Counted` shows that of
the groups that met their quorum. Theorems: `CountIsExact`, `SignersNeverLocked`, and, of `Mcms`,
the action property `RootsAgreed`: a new root comes with signatures that make the root
group of the config in force agree, which needs that the stored config was validated.

**OffRamp** (`IInv`): `EffectOnce` and `Backed` with the types. The lemmas
`EntriesWitness` and `QuorumNames` say what the count of entries does guarantee, in
spite of repetitions: a passed quorum names at least one CCV of the lane. Theorems:
`TypeCorrect`, `TakesEffectOnce`, `AlwaysBacked`.

**Forwarder** (`ForwarderInv`): what was accepted has state Succeeded, which `report` and
`route` do not touch again, and what `set_config` stored is valid. f + 1 distinct
signatures leave an honest one when at most f signers are faulty (`HonestSigned`, by
counting). That the owner configures signer lists with at most f faulty keys is an
assumption (`ForwarderAssumption`): it is what the parameter f means, and no code checks
it. Theorem: `ReportsAreGenuine`.

**Poller** (`PollerInv`): the log is in order and not ahead of the node; what is cached
lies before `lastPolledLedger`, so that the next window only appends later events;
`lastPolledLedger` is not ahead of the node unless it is the first ledger to poll, so that a
new ledger lies behind no window. `WindowExact`, `PageExact` and `ProcessedExact` say what
the folds compute: the window in order, a prefix of it, and for each message what the
cache had and the page adds. Theorem: `AttemptsAreExact`.

**Bindings** (`BindingsInv`): of one node first. Both sides write the same for it, and each
reads what the other wrote: a lemma for each kind of node (`LeafCarried`, `ListCarried`,
`StructCarried`, `CodeCarried`, `VariantCarried`, `NilCarried`), and `NumberCarried` for the
i128, whose halves the client takes from the sign and the contract by division; they agree
on an int64 of any width (`WordAssumption`: it has a value). As a value is a function of its
places, no induction over its depth is needed to say it of the whole: `ValueHeard` for what
a client sends, `ValueAnswered` for what a contract returns or publishes. The invariant then
says where the value that is on its way came from. What makes the types of the two ends the
same is the assumption `TablesAgree`: each method has a function of its name with equal
types, each event one wait by its topic, each key its twin. It is about constants, and TLC
evaluates it on the tables of the repository in the run `bindings`; it names the exceptions:
`get_required_ccvs`, of which `CodeRefused` proves that the host refuses it, and ownership
events that have no wait (`Unheard`). `Samples`
may be any sets of values, so the theorems are about all of them. Theorems:
`CallsAreUnderstood`, `EventsAreUnderstood`, `ValueHeard`, `ValueAnswered`.

**Bucket** (`BucketInv`, `TightInv`): `WindowBound` alone is not inductive: a refill is
computed when it is needed, so what may still pass depends on when the stored tokens were
counted. `Metered` says it: what passed plus what is stored is at most the capacity and
the rate for the time from the watched moment to the last refill. For the other
direction `Tight` says that some window since the configuration is used to the full, the
one that began when the bucket was last full. The products of rate and time are kept
opaque and added by lemmas (`RateAdds`, `AddUp`). Theorems: `TypeCorrect`, `Filled`,
`Windows`, `NotStarved`.

**TokenPool** (`PoolInv`): the claims of several chains add up to what the pool and the
boxes have to cover, in units of the finest token; a transfer changes one claim and one
holder, and rounding only ever takes away. Theorems: `ListsConsistent`, `NothingMade`,
`PoolStaysSolvent`, and the action property `TransfersCharged`. Chains are finitely many
(`PoolAssumption`).

**Lane** (`LaneInv`): the merges are folds over lists; what `AppendUnique` keeps gives what
the plan contains, in which order, and that nothing is added twice. Receipts and what is
collected are sums over the same plan, rounded part by part. `QuoteInv` says of a fee that
was told that it is exactly what would be asked for now; a step that keeps its basis keeps
it (`SameBasis`), and it suffices because both sums agree (`SumsAgree`) and the fee
quoter's part alone pays the network fee (`FeeParts`). Theorems: `LaneNumbered`,
`LanePlanExact`, `LaneReceiptsCovered`, `LaneQuoteHonoured`.
A fee token has a price (`LaneAssumption`).

**Tables** (`RampsInv`, `TokensInv`): a batch is a fold over its entries, so it keeps what
each entry keeps: no ramp listed twice, keys and map of the registry the same. For the
reader of the token index the invariant says what it has got so far: of the tokens that
were there when it began, those before its place, and nothing twice. Theorems:
`TablesListsExact`, and the action property `TablesSuccessorsNamed`.

**FoldTheorems** has the lemmas these share: a fold over a set is the value of a function
on its subsets, a fold over a list the one on sets of positions. The library's induction
theorems take an operator as a parameter, which none of the installed provers can
instantiate, so an induction is here the choice of a smallest set, or position, for which
the claim fails.

Only model-checked is liveness (`EventuallyDone`, `CloseTerminates`, `AttemptsCatchUp`),
which TLAPS does not cover. That the tables of clients and contracts agree is evaluated by
TLC, which goes through them completely.

## 6. Where the code and its words disagree

Two sentences of the code are refuted by a run; `findings` quotes them.

- `txm_done`: confirmLoop can finish a transaction between `AddUnconfirmed` and the
  update to Unconfirmed (txm.go:726): EnqueueAndWait then returns a status that is not
  terminal, and pruning never evicts the transaction.
- `offramp_mandated`: the quorum counts entries of the caller's list, so one mandated
  CCV named twice stands for two (offramp lib.rs:581).

Others have a formula in a module but no configuration of their own; naming the formula
as INVARIANT, with the constants given here, shows them.

- txstore.go:151, `NeverLost` of `Txm` with three transactions and `Faults` = {"sim"}:
  `Release` puts the never-used next sequence among the recyclable ones.
  `AddUnconfirmed` of a recyclable sequence does not advance `nextSequence`, so the
  following transaction reads the sequence of one in flight, is refused, and its release
  deletes the other's entry. That transaction's waiter is never told, although "Done is
  closed when the transaction reaches a terminal state" (tx.go:37).
- offramp lib.rs:394, `ReleasedOnce` in `MCOffRamp.cfg`: the token is released before
  the receiver is looked at; an absent receiver commits Failure, and Failure may be
  tried again (lib.rs:416-422, 186-193), in spite of "replay protection" (lib.rs:195).
- bindings/generator/parser.go:195, `HostAccepts` in `MCBindings.cfg`: the number of an
  implicit discriminant "must match the on-chain ScVal::U32 wire value". The contract SDK
  writes a u32 only for enums with explicit values; `MessageDirection`
  (interfaces token_pool.rs:203) has none and is a vector of its name. The host traps on
  every `get_required_ccvs` of the generated client.
- onramp lib.rs:625-627, `NetworkFeeIncluded` in `MCLane.cfg`: "the FeeQuoter already
  includes" the network fee, but the fee quoter's is a setting of its own. If it is the
  lower one, the network fee that leaves at once is paid from the receipts of others.
- offramp lib.rs:500, `NeverWithoutCcv` in `MCLane.cfg`: an empty answer of a pool's
  hooks does not bring in the lane's default CCVs, for all that lib.rs:465-468 says of
  "empty list => use defaults"; a pool without hooks asks for them (common/pool
  lib.rs:519-523). The OnRamp's own comment says it too: "Empty hook output falls back to
  destination `default_ccvs`" (onramp lib.rs:1063), which only `include_defaults` does. A
  bare token transfer may leave with no CCV at all.
- common/authorization ownable.rs:133, `EveryEventAwaited` in `MCBindings.cfg`:
  `accept_ownership` publishes `auth_OwnerTransferred` (events.rs:18; recorded in router
  test_snapshots/test/test_transfer_ownership_two_step.1.json:357), for which no generated
  client has a wait. The clients of the ramp registry and the receiver, which are Ownable
  (ccip-ramp-registry lib.rs:43), have none for `auth_OwnerTransferStart` either. Clients of
  the OnRamp and the verifier resolver wait instead for an ownership event of the contract's
  own that it declares (onramp events.rs:44, versioned-verifier-resolver events.rs:48) and
  never publishes.
- txm.go:1253: retryGetClientOrFail meets a full channel and drops the transaction
  without a terminal status. To see it, check `EventuallyDone` with `Faults` =
  {"client", "clock"} and `MaxGetClientRetryAttempts` = 3.
- mcms lib.rs:267-270: `extend_ttl` does nothing for an entry that already has
  LEDGER_THRESHOLD ledgers to live, so on a network whose fresh entries have that many,
  but fewer than LEDGER_BUMP, the horizon of lib.rs:471-475 is too long. `FreshTTL` = 2
  in `MCMcms.cfg` shows `NoReplay` fail; the theorems name the hypothesis.

And some were only noted.

- txm.go:973-999: an envelope that lands between GetTransaction and GetLatestLedger
  counts as expired and its request is sent once more, with another sequence: it may
  execute twice. The callers' requests must be idempotent on chain, and the OffRamp's
  are.
- execution_attempt_poller.go:197-199: a poll "processes each event, and advances the
  cursor"; it advances past events that failed, and past those beyond one page. Once the
  ledger it wants is older than the node's retention every poll fails, for ever: "Initial
  backfill failed, continuing without complete history" (line 96) does not continue.
- forwarder lib.rs:254: `route` can use up the id of a report that `report` is still to
  deliver, and lib.rs:515: a report that arrives before its receiver is deployed is
  recorded as undeliverable for good.
- ownable.rs:164: `set_new_owner` leaves a pending transfer standing; whom the former
  owner named can still accept.
- token-admin-registry lib.rs:113: `count + start_index` overflows, and traps, for a
  page size near 2^32.
- common/pool: the fee configuration of a chain and its lock box survive the chain's
  removal; adding a listed chain again refills its default buckets; the rate limit admin
  alone never passes `require_owner_or_rate_limit_admin`, which asks for the owner's
  authorization. The siloed pool cannot release an amount that rounds to 0, and a lock
  box mapped away keeps its tokens out of the chain's reach until it is mapped back.

## 7. What is not modelled

- In the TXM: several accounts (each has its own store), Enqueue after Close (a send
  on a closed channel), the second look-up of EnqueueAndWait by ID (txm.go:209), fees
  and their bumping, XDR, signatures, metrics, health reports.
- In the contracts: archival of fixed keys, which every entry point extends (only the
  seen hashes of MCMS read as missing, as the contract's comments assume), the TTL
  entry points, events, hashing and Merkle proofs, gas_limit_override, re-entry (the
  host forbids it), what called contracts do. Ownership is modelled once, in `Ownable`,
  with the token admin registry; the other contracts use the same trait.
- In the lane: several fee tokens, gas prices, per-token fee configuration, staleness of
  prices, u128 overflow (checked in the code, so a refused call), `route_message`.
- In the pools: fees of a transfer, hooks, remote pool addresses, and a remote pool that
  sends no decimals: `parse_remote_decimals` then takes the local ones (common/pool
  decimals.rs:32-34), which is right only for a token with as many. `NoInflation` is about
  remote pools that report theirs.
- Off-chain readers of curses: `GetRMNCursedSubjects` of the CCV readers asks the remote
  it was configured with (destination_reader.go:186, source_reader.go:575), and not the
  proxy, so after `set_rmn` it reads one that is no longer in force.
- In the bindings: transport, polling for a result, the parser of Rust sources; the
  committee verifier's functions that return nothing.
- TXM fees (`fee.go`): floating point (math.Pow, math.Ceil), which TLA+ has no model
  of; a percentile above 2^63 wraps there (fee.go:66).
- The other components of section 1. `components` in `PROJECT.json` gives the reason
  for each: planned, glue or pure conversion.

## 8. Plan

Done: TxStore, Txm, Timelock, GroupTree and SignatureCheck, Mcms, OffRamp, the token
pools and their bucket, the sending lane with RMN, ramp tables and token admin registry,
the forwarder, the poller, the bindings, and the theorems of section 5: every safety
property of the runs is stated by one, `NeverLost` with its two hypotheses. Next, in this order:

1. MCMS, Timelock and a target composed: what a quorum signs happens once, after the
   delay. `RootsAgreed`, `EachNonceOnce`, `RunsOnce` and `DelayHolds` are its parts.
2. The lane end to end: `Lane`, verifiers and `OffRamp` composed, with an abstract lane
   (a message is delivered at most once, only if sent) that the composition refines.
3. Committee verifier and resolver: threshold counting over sorted signatures, in the
   way of `SignatureCheck`, and the version a message is verified under.
4. The source reader: finality and the range of ledgers read per call.
