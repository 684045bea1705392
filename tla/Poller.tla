------------------------------- MODULE Poller -------------------------------
(***************************************************************************)
(* The execution attempt poller of the destination reader: it asks an RPC  *)
(* node for the OffRamp's events window by window and keeps the attempts   *)
(* it finds in a cache whose entries expire.  A poll that fails leaves the *)
(* window for the next one; an event that fails is passed over.            *)
(***************************************************************************)
EXTENDS Naturals, Sequences, SequencesExt, FiniteSets

CONSTANTS
    MessageIds,
    MinLedger,      \* minStellarLedger
    Lookback,       \* lookbackWindow, in ledgers
    Retention,      \* ledgers the node keeps
    PageLimit,      \* events the node answers with at most
    MaxPerLedger, MaxLedger, MaxStarts      \* bounds

ASSUME PollerAssumption ==
    {MinLedger, Lookback, Retention, PageLimit, MaxPerLedger, MaxLedger, MaxStarts} \subseteq Nat

VARIABLES
    latest,         \* the node's latest ledger
    log,            \* ExecutionStateChanged events, in order
    running, starts,
    startLedger, lastPolledLedger,
    attemptCache,   \* attempts by message, as the events they were read from
    gone            \* ghost: events passed over, cut off by the page, or expired from the cache

pollerVars == <<latest, log, running, starts, startLedger, lastPolledLedger, attemptCache, gone>>

NoAttempts == [i \in MessageIds |-> <<>>]

PollerInit ==
    /\ latest \in 1 .. MinLedger + 1
    /\ log = <<>>
    /\ running = FALSE /\ starts = 0
    /\ startLedger = 0 /\ lastPolledLedger = 0
    /\ attemptCache = NoAttempts /\ gone = {}

-----------------------------------------------------------------------------
(* The node: ledgers close with events of the OffRamp in them, and old     *)
(* ones are forgotten; a query outside of what it keeps is an error.       *)

CloseLedger(ids) ==
    /\ latest < MaxLedger
    /\ latest' = latest + 1
    /\ log' = log \o [k \in DOMAIN ids |-> [ledger |-> latest + 1, nth |-> k, id |-> ids[k]]]
    /\ UNCHANGED <<running, starts, startLedger, lastPolledLedger, attemptCache, gone>>

Oldest == IF latest > Retention THEN latest - Retention ELSE 1

\* The end of the window is not in it.
InWindow(e, from, to) == from <= e.ledger /\ e.ledger < to
Window(from, to) == FoldLeft(LAMBDA l, e : IF InWindow(e, from, to) THEN Append(l, e) ELSE l, <<>>, log)
GetEvents(from, to) ==
    LET events == Window(from, to) IN
    IF Len(events) <= PageLimit THEN events ELSE SubSeq(events, 1, PageLimit)

-----------------------------------------------------------------------------
(* The poller.                                                             *)

\* Mutated: one ledger further.
NextWindow(to) == to + 1

\* What lastPolledLedger becomes.
Advanced(to) == to

\* processExecutionStateChanged for each event but the ones that fail.
Cached(cache, e) == [cache EXCEPT ![e.id] = Append(@, e)]
Processed(cache, events, failed) ==
    FoldLeft(LAMBDA c, e : IF e \in failed THEN c ELSE Cached(c, e), cache, events)

\* Mutated: one more ledger is waited for.
NotYet(from, to) == to <= from + 1

NothingNew(from, to) == to <= from

\* pollForEvents from a ledger to the one it was told is the latest, with what is in the
\* cache and what is gone.
PollForEvents(from, to, cache, lost, failed) ==
    IF NothingNew(from, to)
    THEN lastPolledLedger' = from /\ attemptCache' = cache /\ gone' = lost /\ failed = {}
    ELSE LET events == GetEvents(from, to) IN
         /\ from >= Oldest
         /\ failed \subseteq ToSet(events)
         /\ lastPolledLedger' = Advanced(to)
         /\ attemptCache' = Processed(cache, events, failed)
         /\ gone' = lost \cup failed \cup (ToSet(Window(from, to)) \ ToSet(events))

\* getStartLedger.
GetStartLedger ==
    IF Lookback >= latest \/ latest - Lookback < MinLedger THEN MinLedger ELSE latest - Lookback

\* Start of a new poller: the backfill is a poll, and its failure is only logged.
Start(to, failed) ==
    /\ ~running /\ starts < MaxStarts
    /\ running' = TRUE /\ starts' = starts + 1
    /\ startLedger' = GetStartLedger
    /\ \/ PollForEvents(GetStartLedger, to, NoAttempts, {}, failed)
       \/ lastPolledLedger' = GetStartLedger /\ attemptCache' = NoAttempts /\ gone' = {} /\ failed = {}
    /\ UNCHANGED <<latest, log>>

\* GetLatestLedger may be answered by a node that is behind.  A tick of runPolling
\* that does not fail as a whole; one that does changes nothing.
Poll(to, failed) ==
    /\ running
    /\ PollForEvents(lastPolledLedger, to, attemptCache, gone, failed)
    /\ UNCHANGED <<latest, log, running, starts, startLedger>>

\* Close, or the end of the process: the cache is gone with it.
Close ==
    /\ running
    /\ running' = FALSE
    /\ UNCHANGED <<latest, log, starts, startLedger, lastPolledLedger, attemptCache, gone>>

Expire(i) ==
    /\ running /\ attemptCache[i] # <<>>
    /\ attemptCache' = [attemptCache EXCEPT ![i] = <<>>]
    /\ gone' = gone \cup ToSet(attemptCache[i])
    /\ UNCHANGED <<latest, log, running, starts, startLedger, lastPolledLedger>>

PollerNext ==
    \/ \E n \in 0 .. MaxPerLedger : \E ids \in [1 .. n -> MessageIds] : CloseLedger(ids)
    \/ \E to \in 1 .. latest, failed \in SUBSET ToSet(log) : Start(to, failed) \/ Poll(to, failed)
    \/ Close
    \/ \E i \in MessageIds : Expire(i)

PollerSpec == PollerInit /\ [][PollerNext]_pollerVars

-----------------------------------------------------------------------------
(* Properties.                                                             *)

\* The windows of successive polls leave out no ledger: an event of a ledger before
\* lastPolledLedger is in the cache, has expired from it, failed, or was beyond a page.
NoneMissed ==
    running => \A e \in ToSet(log) :
        startLedger <= e.ledger /\ e.ledger < lastPolledLedger =>
            e \in gone \/ Contains(attemptCache[e.id], e)

\* Events in the order of the ledger, none twice.
Precedes(e, f) == e.ledger < f.ledger \/ (e.ledger = f.ledger /\ e.nth < f.nth)
InOrder(s) == \A j, k \in DOMAIN s : j < k => Precedes(s[j], s[k])

\* The windows do not overlap either: no attempt is in the cache twice, and the attempts at
\* a message are in the order they were made, across failed polls and restarts.
AttemptsOnce == \A i \in MessageIds : InOrder(attemptCache[i])

\* Successive windows leave out no ledger and take none twice (pollForEvents).
AttemptsExact == NoneMissed /\ AttemptsOnce

\* The poller catches up with the node, for as long as what it wants next has not become
\* older than what the node keeps: then it never does again (runPolling asks for the same
\* window at every tick).
AttemptsCatchUp == <>[](running => lastPolledLedger >= latest \/ lastPolledLedger < Oldest)
=============================================================================
