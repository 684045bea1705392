-------------------------------- MODULE Txm --------------------------------
(***************************************************************************)
(* The Stellar transaction manager (relayer/txm: txm.go, broadcast.go,     *)
(* restore.go, failed_result.go) on one account.  Its actors are           *)
(*                                                                         *)
(*   - the callers of Enqueue / EnqueueAndWait, one per transaction;       *)
(*   - broadcastLoop, which works through a batch: client, store, resync,  *)
(*     sequence, simulate, (restore), send, AddUnconfirmed, status;        *)
(*   - confirmLoop, which works through a snapshot of the in-flight        *)
(*     entries: GetTransaction, then GetLatestLedger, then Confirm;        *)
(*   - pruneLoop;                                                          *)
(*   - the network: the ledger and the RPC nodes in front of it.           *)
(*                                                                         *)
(* Steps are split wherever the code waits for an RPC, and between two     *)
(* critical sections when another goroutine can get hold of what they      *)
(* change.  Fees, XDR, signatures and metrics carry no control and are     *)
(* left out; every result code is kept as the class the code sorts it      *)
(* into.  Sequence bookkeeping is TxStore.                                 *)
(***************************************************************************)
EXTENDS Integers, Sequences, FiniteSets, SequencesExt

CONSTANTS
    Txs,                       \* transaction objects, one per Enqueue call
    IdOf,                      \* their TxRequest.ID: two calls may carry the same one
    BroadcastChanSize,         \* capacity of broadcastChan
    MaxSubmitRetryAttempts,
    MaxTxRetryAttempts,
    MaxGetClientRetryAttempts,
    LedgerBoundsOffset,
    SyncPrune,                 \* PruneInterval = 0: terminal txs are evicted at once
    Faults,                    \* what may go wrong around the TXM in this instance
    MaxLedger                  \* bound: ledgers closed during a behaviour

\* client  - getClient finds no live node      rpc     - reads (ledger, account) fail
\* stale   - a node lags behind the ledger     sim     - simulation fails for good
\* archived- simulation asks for a restore     senderr - SendTransaction never arrives
\* lost    - it arrives but its answer is lost again   - TRY_AGAIN_LATER, fee, internal
\* reject  - any fatal submit result           revert  - the ledger reverts the tx
\* exhaust - it fails for lack of resources    clock   - TxTimeoutSecs can pass
\* foreign - the account has another user      close   - the service is closed
\* ahead   - a node refuses a sequence beyond the account's next one
FaultKinds == {"client", "rpc", "stale", "sim", "archived", "senderr", "lost",
               "again", "reject", "revert", "exhaust", "clock", "foreign", "close",
               "ahead"}

ASSUME TxmAssumption ==
    /\ Faults \subseteq FaultKinds
    /\ {BroadcastChanSize, MaxSubmitRetryAttempts, MaxTxRetryAttempts,
        MaxGetClientRetryAttempts, LedgerBoundsOffset, MaxLedger} \subseteq Nat
    /\ SyncPrune \in BOOLEAN
    /\ "none" \notin Txs

VARIABLES
    caller,         \* where the Enqueue call of each transaction stands
    transactions,   \* StellarTxm.transactions: the registered objects
    status,         \* StellarTx.Status
    done,           \* transactions whose Done channel is closed
    attempt,        \* StellarTx.Attempt
    infraAttempts,  \* StellarTx.InfraAttempts
    broadcastChan,  \* StellarTxm.broadcastChan
    enqueued,       \* transactions in the order of their Timestamp
    bcast,          \* broadcastLoop: pc, current tx with its locals, rest of the batch
    confirm,        \* confirmLoop: pc and the rest of its snapshot
    stopped,        \* StellarTxm.stop is closed
    nextSequence, unconfirmedSequences, failedSequences, lastOnchainSequence,
    held, signed,   \* see TxStore
    seqNum, sent,
    result,         \* envelopes on the ledger and how they ended
    ledger,         \* sequence of the latest closed ledger
    old             \* transactions older than TxTimeoutSecs

storeVars == <<nextSequence, unconfirmedSequences, failedSequences, lastOnchainSequence>>
seqVars == <<held, signed>>
netVars == <<seqNum, sent, result, ledger, old>>
txVars == <<transactions, status, done>>
retryVars == <<attempt, infraAttempts>>
vars == <<caller, txVars, retryVars, broadcastChan, enqueued, bcast, confirm,
          stopped, storeVars, seqVars, netVars>>

\* The rounds of broadcasting a transaction can have: a budget of 0 allows the first.
Rounds == IF MaxTxRetryAttempts = 0 THEN 1 ELSE MaxTxRetryAttempts

\* A RestoreFootprint envelope has no LedgerBounds.
NoBounds == -1

\* One signed envelope: whose it is, its LedgerBounds and a serial number. Ledgers are
\* counted from the one the relayer starts at.
Hashes == [tx : Txs, max : NoBounds .. MaxLedger + LedgerBoundsOffset,
           n : 0 .. Rounds * (MaxSubmitRetryAttempts + 1)]

Store == INSTANCE TxStore
    WITH InitialSeqNum <- 0, MaxSeqNum <- MaxLedger, landed <- DOMAIN result

Terminal == {"Finalized", "Failed"}
Full == Len(broadcastChan) >= BroadcastChanSize

\* An RPC call of the given kind may fail; with its context cancelled it does.
MayFail(kind) == kind \in Faults \/ stopped

\* What a node answers when asked for the account sequence or the latest ledger.
SeqNumRead == IF "stale" \in Faults THEN 0 .. seqNum ELSE {seqNum}
LedgerRead == IF "stale" \in Faults THEN 0 .. ledger ELSE {ledger}

-----------------------------------------------------------------------------
(* Status helpers.                                                         *)

\* delete(s.transactions, tx.ID): whichever object has the ID.
Forget(t) == {u \in transactions : IdOf[u] # IdOf[t]}

\* updateTransactionStatus with maybeEvictTerminalTx and closeDone.
UpdateStatus(t, s) ==
    /\ status' = [status EXCEPT ![t] = s]
    /\ done' = IF s \in Terminal THEN done \cup {t} ELSE done
    /\ transactions' = IF s \in Terminal /\ SyncPrune
                       THEN Forget(t) ELSE transactions

-----------------------------------------------------------------------------
(* Enqueue.                                                                *)

\* enqueueTransaction up to the registration in the map: an id that is tracked
\* already is not enqueued again.
Enqueue(t) ==
    /\ caller[t] = "idle"
    /\ \/ /\ \E u \in transactions : IdOf[u] = IdOf[t]
          /\ caller' = [caller EXCEPT ![t] = "duplicate"]
          /\ done' = done \cup {t}
          /\ UNCHANGED <<transactions, enqueued>>
       \/ /\ \A u \in transactions : IdOf[u] # IdOf[t]
          /\ caller' = [caller EXCEPT ![t] = "push"]
          /\ transactions' = transactions \cup {t}
          /\ enqueued' = Append(enqueued, t)
          /\ UNCHANGED done
    /\ UNCHANGED <<status, retryVars, broadcastChan, bcast, confirm, stopped,
                   storeVars, seqVars, netVars>>

\* The fast path; a full channel leads to the eviction of its oldest entry.
Push(t) ==
    /\ caller[t] = "push"
    /\ \/ /\ ~Full
          /\ broadcastChan' = Append(broadcastChan, t)
          /\ caller' = [caller EXCEPT ![t] = "enqueued"]
       \/ /\ Full
          /\ caller' = [caller EXCEPT ![t] = "evict"]
          /\ UNCHANGED broadcastChan
    /\ UNCHANGED <<txVars, retryVars, enqueued, bcast, confirm, stopped,
                   storeVars, seqVars, netVars>>

\* Mutated: the evicted transaction is not marked Failed.
EvictSilently(t) ==
    /\ caller[t] = "evict"
    /\ caller' = [caller EXCEPT ![t] = "repush"]
    /\ broadcastChan' = IF broadcastChan = <<>> THEN <<>> ELSE Tail(broadcastChan)
    /\ UNCHANGED <<txVars, retryVars, enqueued, bcast, confirm, stopped,
                   storeVars, seqVars, netVars>>

\* dropOldestForBackpressure, unless the channel has been drained meanwhile.
Evict(t) ==
    /\ caller[t] = "evict"
    /\ caller' = [caller EXCEPT ![t] = "repush"]
    /\ \/ /\ broadcastChan = <<>>
          /\ UNCHANGED <<broadcastChan, txVars>>
       \/ /\ broadcastChan # <<>>
          /\ broadcastChan' = Tail(broadcastChan)
          /\ IF Head(broadcastChan) \in transactions
             THEN UpdateStatus(Head(broadcastChan), "Failed")
             ELSE UNCHANGED txVars
    /\ UNCHANGED <<retryVars, enqueued, bcast, confirm, stopped, storeVars,
                   seqVars, netVars>>

\* The second try; if somebody refilled the slot the new transaction is dropped
\* and the caller gets an error.
Repush(t) ==
    /\ caller[t] = "repush"
    /\ \/ /\ ~Full
          /\ broadcastChan' = Append(broadcastChan, t)
          /\ caller' = [caller EXCEPT ![t] = "enqueued"]
          /\ UNCHANGED transactions
       \/ /\ Full
          /\ transactions' = Forget(t)
          /\ caller' = [caller EXCEPT ![t] = "rejected"]
          /\ UNCHANGED broadcastChan
    /\ UNCHANGED <<status, done, retryVars, enqueued, bcast, confirm, stopped,
                   storeVars, seqVars, netVars>>

-----------------------------------------------------------------------------
(* broadcastLoop.                                                          *)

NoTx == "none"
Idle == [pc |-> "idle", tx |-> NoTx, batch |-> {}, tries |-> 0, restored |-> FALSE,
         max |-> 0]
Cur == bcast.tx
Timestamp(t) == CHOOSE i \in DOMAIN enqueued : enqueued[i] = t

\* simulateAssembleSignAndSend is called for the next transaction of the batch, which
\* is sorted by Timestamp, or, after the last one, the loop is back at its select.
NextInBatch ==
    \/ /\ bcast.batch = {}
       /\ bcast' = Idle
    \/ \E t \in bcast.batch :
          /\ \A u \in bcast.batch : Timestamp(t) <= Timestamp(u)
          /\ bcast' = [Idle EXCEPT !.pc = "client", !.tx = t,
                                   !.batch = bcast.batch \ {t}]

\* txStore.Release(seq): the broadcaster gives its sequence up.
Release ==
    /\ Store!Release(held)
    /\ held' = Store!NoSeq
    /\ signed' = {}

\* releaseSeqAndFailTx and the return that follows it.
ReleaseAndFail ==
    /\ Release
    /\ UpdateStatus(Cur, "Failed")
    /\ NextInBatch

\* Blocking receive, then non-blocking receives until the channel is empty. No
\* transaction is in the channel or in the batch twice (TxmProofs), so a set will do.
Receive ==
    /\ bcast.pc \in {"idle", "drain"}
    /\ broadcastChan # <<>>
    /\ bcast' = [bcast EXCEPT !.pc = "drain", !.batch = @ \cup {Head(broadcastChan)}]
    /\ broadcastChan' = Tail(broadcastChan)
    /\ UNCHANGED <<caller, txVars, retryVars, enqueued, confirm, stopped,
                   storeVars, seqVars, netVars>>

\* The batch is complete.
SortBatch ==
    /\ bcast.pc = "drain"
    /\ broadcastChan = <<>>
    /\ NextInBatch
    /\ UNCHANGED <<caller, txVars, retryVars, broadcastChan, enqueued, confirm,
                   stopped, storeVars, seqVars, netVars>>

GetClient ==
    /\ bcast.pc = "client"
    /\ bcast' = [bcast EXCEPT !.pc = IF ~Store!StoreExists THEN "create"
                                     ELSE IF attempt[Cur] > 0 THEN "resync" ELSE "seq"]
    /\ UNCHANGED <<caller, txVars, retryVars, broadcastChan, enqueued, confirm,
                   stopped, storeVars, seqVars, netVars>>

\* retryGetClientOrFail: re-enqueue within the infra budget, or fail. A full
\* channel, or the context cancelled during the backoff, drops the transaction.
RetryGetClientOrFail ==
    /\ bcast.pc = "client"
    /\ MayFail("client")
    /\ infraAttempts' = [infraAttempts EXCEPT ![Cur] = @ + 1]
    /\ \/ /\ infraAttempts[Cur] + 1 < MaxGetClientRetryAttempts
          /\ \/ ~Full /\ broadcastChan' = Append(broadcastChan, Cur)
             \/ (Full \/ stopped) /\ UNCHANGED broadcastChan
          /\ UNCHANGED txVars
       \/ /\ infraAttempts[Cur] + 1 >= MaxGetClientRetryAttempts
          /\ UpdateStatus(Cur, "Failed")
          /\ UNCHANGED broadcastChan
    /\ NextInBatch
    /\ UNCHANGED <<caller, attempt, enqueued, confirm, stopped, storeVars,
                   seqVars, netVars>>

\* The first transaction of the account creates its TxStore.
CreateStore ==
    /\ bcast.pc = "create"
    /\ \/ /\ \E n \in SeqNumRead : Store!CreateTxStore(n + 1)
          /\ bcast' = [bcast EXCEPT !.pc = IF attempt[Cur] > 0 THEN "resync" ELSE "seq"]
          /\ UNCHANGED txVars
       \/ /\ MayFail("rpc")
          /\ UpdateStatus(Cur, "Failed")
          /\ NextInBatch
          /\ UNCHANGED storeVars
    /\ UNCHANGED <<caller, retryVars, broadcastChan, enqueued, confirm, stopped,
                   seqVars, netVars>>

\* Mutated: goes on with the sequence read before the resync.
ResyncWithoutReread ==
    /\ bcast.pc = "resync"
    /\ bcast' = [bcast EXCEPT !.pc = IF held = Store!NoSeq THEN "seq" ELSE "simulate"]
    /\ \E n \in SeqNumRead : Store!ResyncNonce(n + 1)
    /\ UNCHANGED <<caller, txVars, retryVars, broadcastChan, enqueued, confirm,
                   stopped, seqVars, netVars>>

\* Best-effort resyncSequence, before a rebroadcast and after bad_seq.
Resync ==
    /\ bcast.pc = "resync"
    /\ bcast' = [bcast EXCEPT !.pc = "seq"]
    /\ \/ /\ \E n \in SeqNumRead : Store!ResyncNonce(n + 1)
          /\ held' = Store!NoSeq
          /\ signed' = {}
       \/ /\ MayFail("rpc")
          /\ UNCHANGED <<storeVars, seqVars>>
    /\ UNCHANGED <<caller, txVars, retryVars, broadcastChan, enqueued, confirm,
                   stopped, netVars>>

ReadSequence ==
    /\ bcast.pc = "seq"
    /\ \E s \in {nextSequence} \cup failedSequences :
          Store!GetNextSequence(s) /\ held' = s
    /\ signed' = {}
    /\ bcast' = [bcast EXCEPT !.pc = "simulate"]
    /\ UNCHANGED <<caller, txVars, retryVars, broadcastChan, enqueued, confirm,
                   stopped, storeVars, netVars>>

\* Mutated: restores as often as simulation asks for it.
SimulateRestoresAgain ==
    /\ bcast.pc = "simulate"
    /\ bcast.tries < MaxSubmitRetryAttempts
    /\ bcast' = [bcast EXCEPT !.pc = "restore"]
    /\ UNCHANGED <<caller, txVars, retryVars, broadcastChan, enqueued, confirm,
                   stopped, storeVars, seqVars, netVars>>

\* The head of the submit loop and prepareAndSimulateWithRetry. Its own retries
\* change nothing but the ledger the bounds are computed from.
Simulate ==
    /\ bcast.pc = "simulate"
    /\ bcast.tries < MaxSubmitRetryAttempts
    /\ \/ /\ \E l \in LedgerRead :
                bcast' = [bcast EXCEPT !.pc = "send", !.max = l + LedgerBoundsOffset]
          /\ UNCHANGED <<txVars, storeVars, seqVars>>
       \/ /\ "archived" \in Faults
          /\ ~bcast.restored
          /\ bcast' = [bcast EXCEPT !.pc = "restore"]
          /\ UNCHANGED <<txVars, storeVars, seqVars>>
       \/ /\ \/ MayFail("sim") \/ MayFail("rpc")
             \/ "archived" \in Faults /\ bcast.restored
          /\ ReleaseAndFail
    /\ UNCHANGED <<caller, retryVars, broadcastChan, enqueued, confirm, stopped,
                   netVars>>

\* MaxSubmitRetryAttempts is used up.
SubmitExhausted ==
    /\ bcast.pc = "simulate"
    /\ bcast.tries >= MaxSubmitRetryAttempts
    /\ ReleaseAndFail
    /\ UNCHANGED <<caller, retryVars, broadcastChan, enqueued, confirm, stopped,
                   netVars>>

\* The network takes the envelope that has just been signed for held: a new one, or,
\* when nothing changed since the last attempt, byte by byte the same (DUPLICATE).
Deliver(max) ==
    /\ \E n \in {Cardinality({e \in sent : e.hash.tx = Cur})} \cup
                 {e.hash.n : e \in {d \in sent : d.seq = held /\ d.hash.tx = Cur
                                                            /\ d.hash.max = max}} :
          signed' = {[seq |-> held, hash |-> [tx |-> Cur, max |-> max, n |-> n]]}
    /\ sent' = sent \cup signed'
    /\ UNCHANGED <<held, seqNum, result, ledger, old>>

\* SendTransaction answers PENDING or DUPLICATE.
SendAccepted ==
    /\ bcast.pc = "send"
    /\ held > seqNum
    /\ Deliver(bcast.max)
    /\ bcast' = [bcast EXCEPT !.pc = "accepted"]
    /\ UNCHANGED <<caller, txVars, retryVars, broadcastChan, enqueued, confirm,
                   stopped, storeVars>>

\* The call fails, before or after the node took the envelope; out of attempts, the
\* submit loop is left without a pause.
SendFails ==
    /\ bcast.pc = "send"
    /\ \/ MayFail("senderr") /\ UNCHANGED <<seqVars, netVars>>
       \/ "lost" \in Faults /\ held > seqNum /\ Deliver(bcast.max)
    /\ bcast' = [bcast EXCEPT !.tries = @ + 1,
                    !.pc = IF bcast.tries + 1 < MaxSubmitRetryAttempts
                           THEN "backoff" ELSE "simulate"]
    /\ UNCHANGED <<caller, txVars, retryVars, broadcastChan, enqueued, confirm,
                   stopped, storeVars>>

\* TRY_AGAIN_LATER, insufficient fee (bumped for the next attempt), internal error.
SendRetryable ==
    /\ bcast.pc = "send"
    /\ "again" \in Faults
    /\ bcast' = [bcast EXCEPT !.pc = "backoff", !.tries = @ + 1]
    /\ UNCHANGED <<seqVars, netVars>>
    /\ UNCHANGED <<caller, txVars, retryVars, broadcastChan, enqueued, confirm,
                   stopped, storeVars>>

\* SubmitRetryDelay, cut short by the end of the context.
Backoff ==
    /\ bcast.pc = "backoff"
    /\ \/ /\ bcast' = [bcast EXCEPT !.pc = "simulate"]
          /\ UNCHANGED <<storeVars, seqVars>>
       \/ /\ stopped
          /\ Release
          /\ NextInBatch
    /\ UNCHANGED <<caller, txVars, retryVars, broadcastChan, enqueued, confirm,
                   stopped, netVars>>

\* bad_seq: the sequence is used, or ahead of the account.
SendBadSeq ==
    /\ bcast.pc = "send"
    /\ \/ held <= seqNum
       \/ held > seqNum + 1 /\ "ahead" \in Faults
    /\ bcast' = [bcast EXCEPT !.pc = "resync", !.tries = @ + 1]
    /\ UNCHANGED <<caller, txVars, retryVars, broadcastChan, enqueued, confirm,
                   stopped, storeVars, seqVars, netVars>>

\* Any other result is fatal, as are errors of assembly, signing and encoding.
SendRejected ==
    /\ bcast.pc = "send"
    /\ "reject" \in Faults
    /\ ReleaseAndFail
    /\ UNCHANGED <<caller, retryVars, broadcastChan, enqueued, confirm, stopped,
                   netVars>>

\* handleSendResult: AddUnconfirmed, whose refusal is fatal; so is an accepted
\* response without a hash.
AddUnconfirmed ==
    /\ bcast.pc = "accepted"
    /\ \/ /\ \E e \in signed : Store!AddUnconfirmed(e)
          /\ held' = Store!NoSeq
          /\ signed' = {}
          /\ bcast' = [bcast EXCEPT !.pc = "mark"]
          /\ UNCHANGED txVars
       \/ /\ Store!AddUnconfirmedRefused(held) \/ "reject" \in Faults
          /\ ReleaseAndFail
    /\ UNCHANGED <<caller, retryVars, broadcastChan, enqueued, confirm, stopped,
                   netVars>>

\* updateTransactionStatus(tx, Unconfirmed), after AddUnconfirmed let go of the lock.
MarkUnconfirmed ==
    /\ bcast.pc = "mark"
    /\ UpdateStatus(Cur, "Unconfirmed")
    /\ NextInBatch
    /\ UNCHANGED <<caller, retryVars, broadcastChan, enqueued, confirm, stopped,
                   storeVars, seqVars, netVars>>

-----------------------------------------------------------------------------
(* handleRestore: a RestoreFootprint envelope, without LedgerBounds, uses  *)
(* the sequence meant for the transaction.                                 *)

RestoreSend ==
    /\ bcast.pc = "restore"
    /\ held > seqNum
    /\ Deliver(NoBounds)
    /\ bcast' = [bcast EXCEPT !.pc = "poll"]
    /\ UNCHANGED <<caller, txVars, retryVars, broadcastChan, enqueued, confirm,
                   stopped, storeVars>>

\* pollRestoreTransaction sees it succeed.
RestorePoll ==
    /\ bcast.pc = "poll"
    /\ \E e \in signed : e \in DOMAIN result /\ result[e] = "success"
    /\ bcast' = [bcast EXCEPT !.pc = "restored"]
    /\ UNCHANGED <<caller, txVars, retryVars, broadcastChan, enqueued, confirm,
                   stopped, storeVars, seqVars, netVars>>

\* resyncSequence must succeed here; then the loop starts over with a new sequence.
RestoreResync ==
    /\ bcast.pc = "restored"
    /\ \E n \in SeqNumRead : Store!ResyncNonce(n + 1)
    /\ held' = Store!NoSeq
    /\ signed' = {}
    /\ bcast' = [bcast EXCEPT !.pc = "seq", !.restored = TRUE]
    /\ UNCHANGED <<caller, txVars, retryVars, broadcastChan, enqueued, confirm,
                   stopped, netVars>>

\* Mutated: polls without a timeout.
RestoreFailsNotPolling ==
    /\ bcast.pc = "restore"
    /\ ReleaseAndFail
    /\ UNCHANGED <<caller, retryVars, broadcastChan, enqueued, confirm, stopped,
                   netVars>>

\* Rejected, out of attempts, polled until the timeout, failed on the ledger, or
\* followed by a failing resync.
RestoreFails ==
    /\ \/ bcast.pc \in {"restore", "poll"}
       \/ bcast.pc = "restored" /\ MayFail("rpc")
    /\ ReleaseAndFail
    /\ UNCHANGED <<caller, retryVars, broadcastChan, enqueued, confirm, stopped,
                   netVars>>

-----------------------------------------------------------------------------
(* confirmLoop.                                                            *)

\* Mutated: no budget.
RetryForever(t) ==
    /\ attempt' = [attempt EXCEPT ![t] = @ + 1]
    /\ ~Full
    /\ broadcastChan' = Append(broadcastChan, t)
    /\ UNCHANGED txVars

\* Mutated: the last attempt fails the transaction and queues it all the same.
RetryAndFail(t) ==
    /\ attempt' = [attempt EXCEPT ![t] = @ + 1]
    /\ ~Full
    /\ broadcastChan' = Append(broadcastChan, t)
    /\ IF attempt[t] + 1 < MaxTxRetryAttempts THEN UNCHANGED txVars
       ELSE UpdateStatus(t, "Failed")

\* Mutated: a full channel drops the transaction without failing it.
RetryOrDrop(t) ==
    /\ attempt' = [attempt EXCEPT ![t] = @ + 1]
    /\ IF attempt[t] + 1 < MaxTxRetryAttempts
       THEN /\ broadcastChan' = IF Full THEN broadcastChan ELSE Append(broadcastChan, t)
            /\ UNCHANGED txVars
       ELSE UpdateStatus(t, "Failed") /\ UNCHANGED broadcastChan

\* maybeRetry after the attempt was counted: back into the channel, or Failed.
RetryOrFail(t) ==
    /\ attempt' = [attempt EXCEPT ![t] = @ + 1]
    /\ \/ /\ attempt[t] + 1 < MaxTxRetryAttempts
          /\ ~Full
          /\ broadcastChan' = Append(broadcastChan, t)
          /\ UNCHANGED txVars
       \/ /\ attempt[t] + 1 >= MaxTxRetryAttempts \/ Full
          /\ UpdateStatus(t, "Failed")
          /\ UNCHANGED broadcastChan

\* The entries are worked through in the order of their sequences.
CurEntry == CHOOSE e \in confirm.queue : \A d \in confirm.queue : e.seq <= d.seq
NextEntry ==
    confirm' = [pc |-> IF confirm.queue = {CurEntry} THEN "idle" ELSE "get",
                queue |-> confirm.queue \ {CurEntry}]

\* checkUnconfirmed takes its snapshot of the store.
Snapshot ==
    /\ confirm.pc = "idle"
    /\ unconfirmedSequences # {}
    /\ confirm' = [pc |-> "get", queue |-> unconfirmedSequences]
    /\ UNCHANGED <<caller, txVars, retryVars, broadcastChan, enqueued, bcast,
                   stopped, storeVars, seqVars, netVars>>

\* Mutated: whatever is on the ledger counts as a success.
FoundIsSuccess ==
    /\ confirm.pc = "get"
    /\ CurEntry \in DOMAIN result
    /\ Store!Confirm(CurEntry, FALSE)
    /\ confirm' = [confirm EXCEPT !.pc = "finalize"]
    /\ UNCHANGED <<caller, txVars, retryVars, broadcastChan, enqueued, bcast,
                   stopped, seqVars, netVars>>

\* What becomes of the transaction of an envelope that is on the ledger
\* (classifyFailedTransactionResult): only a lack of resources is retried.
Verdict(r) == CASE r = "success" -> "finalize"
                [] r = "revert" -> "fail"
                [] r = "exhaust" -> "retry"

\* GetTransaction finds the envelope on the ledger. An entry that is gone from the
\* store meanwhile is skipped.
Found ==
    /\ confirm.pc = "get"
    /\ CurEntry \in DOMAIN result
    /\ \/ /\ CurEntry \notin unconfirmedSequences
          /\ NextEntry
          /\ UNCHANGED storeVars
       \/ /\ Store!Confirm(CurEntry, FALSE)
          /\ confirm' = [confirm EXCEPT !.pc = Verdict(result[CurEntry])]
    /\ UNCHANGED <<caller, txVars, retryVars, broadcastChan, enqueued, bcast,
                   stopped, seqVars, netVars>>

\* NOT_FOUND, or the call failed: go on to the expiry check.
NotFound ==
    /\ confirm.pc = "get"
    /\ CurEntry \notin DOMAIN result \/ MayFail("rpc") \/ "stale" \in Faults
    /\ confirm' = [confirm EXCEPT !.pc = "expiry"]
    /\ UNCHANGED <<caller, txVars, retryVars, broadcastChan, enqueued, bcast,
                   stopped, storeVars, seqVars, netVars>>

Expired(l) == l > CurEntry.hash.max \/ CurEntry.hash.tx \in old

\* GetLatestLedger is past MaxLedger, or the wall clock past TxTimeoutSecs: the
\* sequence is recycled and the transaction retried.
Expire ==
    /\ confirm.pc = "expiry"
    /\ \/ \E l \in LedgerRead : Expired(l)
       \/ MayFail("rpc") /\ CurEntry.hash.tx \in old
    /\ \/ /\ CurEntry \notin unconfirmedSequences
          /\ confirm' = [confirm EXCEPT !.pc = "fail"]
          /\ UNCHANGED storeVars
       \/ /\ Store!Confirm(CurEntry, TRUE)
          /\ confirm' = [confirm EXCEPT !.pc = "retry"]
    /\ UNCHANGED <<caller, txVars, retryVars, broadcastChan, enqueued, bcast,
                   stopped, seqVars, netVars>>

\* The entry has left the store; now its transaction gets its status, or another
\* attempt.
Conclude ==
    /\ confirm.pc \in {"finalize", "fail", "retry"}
    /\ \/ /\ confirm.pc = "finalize"
          /\ UpdateStatus(CurEntry.hash.tx, "Finalized")
          /\ UNCHANGED <<attempt, broadcastChan>>
       \/ /\ confirm.pc = "fail"
          /\ UpdateStatus(CurEntry.hash.tx, "Failed")
          /\ UNCHANGED <<attempt, broadcastChan>>
       \/ /\ confirm.pc = "retry"
          /\ RetryOrFail(CurEntry.hash.tx)
    /\ NextEntry
    /\ UNCHANGED <<caller, infraAttempts, enqueued, bcast, stopped, storeVars,
                   seqVars, netVars>>

StillPending ==
    /\ confirm.pc = "expiry"
    /\ \/ \E l \in LedgerRead : ~Expired(l)
       \/ MayFail("rpc") /\ CurEntry.hash.tx \notin old
    /\ NextEntry
    /\ UNCHANGED <<caller, txVars, retryVars, broadcastChan, enqueued, bcast,
                   stopped, storeVars, seqVars, netVars>>

-----------------------------------------------------------------------------
(* pruneLoop, Close.                                                       *)

\* Mutated: retention is measured for every transaction.
PruneInFlight(t) ==
    /\ ~SyncPrune
    /\ t \in transactions
    /\ transactions' = transactions \ {t}
    /\ UNCHANGED <<caller, status, done, retryVars, broadcastChan, enqueued,
                   bcast, confirm, stopped, storeVars, seqVars, netVars>>

\* pruneTerminal: a terminal transaction is past its retention.
Prune(t) ==
    /\ ~SyncPrune
    /\ t \in transactions
    /\ status[t] \in Terminal
    /\ transactions' = Forget(t)
    /\ UNCHANGED <<caller, status, done, retryVars, broadcastChan, enqueued,
                   bcast, confirm, stopped, storeVars, seqVars, netVars>>

Close ==
    /\ "close" \in Faults
    /\ ~stopped
    /\ stopped' = TRUE
    /\ UNCHANGED <<caller, txVars, retryVars, broadcastChan, enqueued, bcast,
                   confirm, storeVars, seqVars, netVars>>

\* The loops return at their select.
BroadcastExit ==
    /\ stopped
    /\ bcast.pc = "idle"
    /\ bcast' = [bcast EXCEPT !.pc = "exit"]
    /\ UNCHANGED <<caller, txVars, retryVars, broadcastChan, enqueued, confirm,
                   stopped, storeVars, seqVars, netVars>>

ConfirmExit ==
    /\ stopped
    /\ confirm.pc = "idle"
    /\ confirm' = [confirm EXCEPT !.pc = "exit"]
    /\ UNCHANGED <<caller, txVars, retryVars, broadcastChan, enqueued, bcast,
                   stopped, storeVars, seqVars, netVars>>

-----------------------------------------------------------------------------
(* The network (external).                                                 *)

netFrame == <<caller, txVars, retryVars, broadcastChan, enqueued, bcast, confirm,
              stopped, storeVars, seqVars>>

CloseLedger ==
    /\ ledger < MaxLedger
    /\ ledger' = ledger + 1
    /\ UNCHANGED <<netFrame, seqNum, sent, result, old>>

\* A ledger closes with an envelope of the account in it.
Land ==
    /\ ledger < MaxLedger
    /\ \E e \in sent, r \in {"success"} \cup (Faults \cap {"revert", "exhaust"}) :
          /\ e.seq = seqNum + 1
          /\ e.hash.max = NoBounds \/ ledger + 1 <= e.hash.max
          /\ result' = [d \in DOMAIN result \cup {e} |->
                           IF d = e THEN r ELSE result[d]]
    /\ seqNum' = seqNum + 1
    /\ ledger' = ledger + 1
    /\ UNCHANGED <<netFrame, sent, old>>

ForeignUse ==
    /\ "foreign" \in Faults
    /\ seqNum < MaxLedger
    /\ seqNum' = seqNum + 1
    /\ UNCHANGED <<netFrame, sent, result, ledger, old>>

\* TxTimeoutSecs have passed since t was enqueued.
Age(t) ==
    /\ "clock" \in Faults
    /\ t \in ToSet(enqueued) \ old
    /\ old' = old \cup {t}
    /\ UNCHANGED <<netFrame, seqNum, sent, result, ledger>>

-----------------------------------------------------------------------------
Init ==
    /\ caller = [t \in Txs |-> "idle"]
    /\ transactions = {}
    /\ status = [t \in Txs |-> "Pending"]
    /\ done = {}
    /\ attempt = [t \in Txs |-> 0]
    /\ infraAttempts = [t \in Txs |-> 0]
    /\ broadcastChan = <<>>
    /\ enqueued = <<>>
    /\ bcast = Idle
    /\ confirm = [pc |-> "idle", queue |-> {}]
    /\ stopped = FALSE
    /\ result = << >>
    /\ ledger = 0
    /\ old = {}
    /\ Store!Init

CallerStep(t) == Enqueue(t) \/ Push(t) \/ Evict(t) \/ Repush(t)

BroadcastStep ==
    \/ Receive \/ SortBatch \/ GetClient \/ RetryGetClientOrFail \/ CreateStore
    \/ Resync \/ ReadSequence \/ Simulate \/ SubmitExhausted
    \/ SendAccepted \/ SendFails \/ SendRetryable \/ Backoff \/ SendBadSeq \/ SendRejected
    \/ AddUnconfirmed \/ MarkUnconfirmed
    \/ RestoreSend \/ RestorePoll \/ RestoreResync \/ RestoreFails
    \/ BroadcastExit

ConfirmStep ==
    Snapshot \/ Found \/ NotFound \/ Expire \/ StillPending \/ Conclude \/ ConfirmExit

NetworkStep == CloseLedger \/ Land \/ ForeignUse \/ \E t \in Txs : Age(t)

Next ==
    \/ \E t \in Txs : CallerStep(t) \/ Prune(t)
    \/ BroadcastStep
    \/ ConfirmStep
    \/ Close
    \/ NetworkStep

Spec == Init /\ [][Next]_vars

\* The goroutines run, the calls that were made return (RPC calls time out), and
\* time passes. A select picks among its ready cases at random, so a closed stop
\* channel is not overlooked forever. Nothing is assumed of Land: the network may ignore an envelope.
Fairness ==
    /\ \A t \in Txs : WF_vars(Push(t) \/ Evict(t) \/ Repush(t)) /\ WF_vars(Age(t))
    /\ WF_vars(BroadcastStep)
    /\ WF_vars(ConfirmStep)
    /\ SF_vars(BroadcastExit) /\ SF_vars(ConfirmExit)

FairSpec == Spec /\ Fairness

-----------------------------------------------------------------------------
(* Properties.                                                             *)

\* Somebody in the TXM still works for t: it is queued, in the batch of the
\* broadcaster, tracked in flight, or about to be concluded.
Owned(t) ==
    \/ t \in ToSet(broadcastChan) \cup bcast.batch \cup {bcast.tx}
    \/ confirm.pc \in {"finalize", "fail", "retry"} /\ CurEntry.hash.tx = t
    \/ \E e \in unconfirmedSequences : e.hash.tx = t

\* The envelopes of t itself; a restore done on its behalf has no LedgerBounds.
Restores(t) == {e \in sent : e.hash.tx = t /\ e.hash.max = NoBounds}
Broadcasts(t) == {e \in sent : e.hash.tx = t /\ e.hash.max # NoBounds}

BroadcastPcs ==
    {"idle", "drain", "client", "create", "resync", "seq", "simulate", "send",
     "backoff", "accepted", "mark", "restore", "poll", "restored", "exit"}
ConfirmPcs == {"idle", "get", "expiry", "finalize", "fail", "retry", "exit"}

TxTypes ==
    /\ caller \in [Txs -> {"idle", "push", "evict", "repush", "enqueued",
                           "duplicate", "rejected"}]
    /\ transactions \subseteq Txs
    /\ status \in [Txs -> {"Pending", "Unconfirmed"} \cup Terminal]
    /\ done \subseteq Txs
    /\ attempt \in [Txs -> Nat]
    /\ infraAttempts \in [Txs -> Nat]
    /\ broadcastChan \in Seq(Txs)
    /\ enqueued \in Seq(Txs)

LoopTypes ==
    /\ bcast \in [pc : BroadcastPcs, tx : Txs \cup {NoTx}, batch : SUBSET Txs,
                  tries : Nat, restored : BOOLEAN,
                  max : 0 .. MaxLedger + LedgerBoundsOffset]
    /\ confirm \in [pc : ConfirmPcs, queue : SUBSET Store!Envelope]
    /\ stopped \in BOOLEAN

StoreTypes ==
    /\ nextSequence \in Nat /\ lastOnchainSequence \in Nat
    /\ failedSequences \subseteq Nat \ {0}
    /\ held \in Nat
    /\ unconfirmedSequences \cup confirm.queue \subseteq sent

NetTypes ==
    /\ seqNum \in Nat
    /\ sent \subseteq Store!Envelope
    /\ DOMAIN result \subseteq sent
    /\ \A e \in DOMAIN result : result[e] \in {"success", "revert", "exhaust"}
    /\ ledger \in 0 .. MaxLedger
    /\ old \subseteq Txs

\* Every variable keeps the type the Go code gives it.
TypeOK == TxTypes /\ LoopTypes /\ StoreTypes /\ NetTypes

\* The TXM drives its TxStore the way the store expects: every step of the two
\* loops is a step of TxStore, or none. What is proved of TxStore (no gap in the
\* account's sequence, maps that agree) thereby holds inside the TXM.
DrivesStore == Store!Spec

\* Finalized is reported only for a transaction the ledger executed.
FinalizedExecuted ==
    \A t \in Txs : status[t] = "Finalized" =>
        \E e \in Broadcasts(t) \cap DOMAIN result : result[e] = "success"

\* Once the waiters of a transaction have been told that it is over, the TXM
\* never broadcasts it again, in spite of retries racing evictions and expiries.
NoBroadcastAfterDone ==
    [][\A t \in done : Broadcasts(t)' = Broadcasts(t)]_vars

\* The retry budgets bound the envelopes that can ever carry one request.
BoundedBroadcasts ==
    \A t \in Txs : Cardinality(Broadcasts(t))
                        <= Rounds * MaxSubmitRetryAttempts

\* txm.go:655-661: one restore per broadcast, "instead of looping restore ->
\* simulate forever", however often the network asks for one.
BoundedRestores ==
    \A t \in Txs : Cardinality(Restores(t)) <= Rounds

\* txm.go:160-163, "idempotent": two Enqueue calls with one ID never lead to two
\* transactions in progress, though pruning forgets IDs.
OneLivePerId ==
    \A t, u \in Txs :
        t # u /\ IdOf[t] = IdOf[u] /\ Owned(t) /\ Owned(u) => {t, u} \cap done # {}

\* tx.go:38, "Done is closed when the transaction reaches a terminal state": a
\* transaction that is not over is not forgotten by everybody.
NeverLost ==
    ~stopped => \A t \in Txs : caller[t] = "enqueued" /\ t \notin done => Owned(t)

\* txm.go:201-202, EnqueueAndWait "blocks until it reaches a terminal state
\* (Finalized, Failed)": the status it reports after Done is a terminal one.
DoneIsTerminal ==
    \A t \in done : caller[t] = "enqueued" => status[t] \in Terminal

\* Every transaction that was accepted for broadcasting comes to its end, unless the
\* service is closed first.
EventuallyDone == \A t \in Txs : caller[t] = "enqueued" ~> t \in done \/ stopped

\* Close returns: both loops leave, whatever they were doing when it was called.
CloseTerminates == stopped ~> bcast.pc = "exit" /\ confirm.pc = "exit"

-----------------------------------------------------------------------------
(* The inductive invariant behind the safety properties. A transaction is  *)
(* in one place at a time: the channel, the batch, the hands of the        *)
(* broadcaster, or the entry the confirmer tracks.                         *)

Queued == ToSet(broadcastChan) \cup bcast.batch

\* AddUnconfirmed hands the transaction to the confirmer, before MarkUnconfirmed.
InHand == IF bcast.pc \in {"idle", "drain", "mark", "exit"} THEN {} ELSE {bcast.tx}

Entries == unconfirmedSequences \cup confirm.queue
Tracked == {e.hash.tx : e \in Entries}

OnePlace ==
    /\ \A i, j \in DOMAIN broadcastChan : broadcastChan[i] = broadcastChan[j] => i = j
    /\ ToSet(broadcastChan) \cap bcast.batch = {}
    /\ InHand \cap Queued = {}
    /\ Tracked \cap (Queued \cup InHand) = {}
    /\ \A d, e \in Entries : d.hash.tx = e.hash.tx => d = e

\* Whoever works on a transaction finds it accepted, unfinished and within its budget.
Alive ==
    /\ \A t \in Queued \cup InHand \cup Tracked :
          caller[t] = "enqueued" /\ t \notin done /\ attempt[t] < Rounds
    /\ bcast.pc \notin {"idle", "drain", "exit"} =>
          bcast.tx \in Txs /\ caller[bcast.tx] = "enqueued"

\* The map forgets a transaction only once it is done or was never accepted.
Registered ==
    /\ \A t, u \in transactions : IdOf[t] = IdOf[u] => t = u
    /\ \A t \in Txs \ done :
          caller[t] \in {"push", "evict", "repush", "enqueued"} => t \in transactions
    /\ \A t \in done : caller[t] \in {"enqueued", "duplicate"}
    /\ \A t \in Txs : status[t] \in Terminal => t \in done

\* What the two loops know at each of their points.
BroadcastPoints ==
    /\ bcast.pc \in {"idle", "drain", "exit"} => bcast.tx = NoTx
    /\ bcast.pc \in {"idle", "drain", "client", "create", "exit"} =>
          bcast.tries = 0 /\ ~bcast.restored
    /\ bcast.tries <= MaxSubmitRetryAttempts
    /\ bcast.pc \in {"send", "accepted"} => bcast.tries < MaxSubmitRetryAttempts
    /\ bcast.pc \in {"restore", "poll", "restored"} => ~bcast.restored
    /\ bcast.pc \in {"resync", "seq"} => Store!StoreExists
    /\ bcast.pc \in {"simulate", "send", "backoff", "accepted", "restore", "poll",
                     "restored"} => held # Store!NoSeq /\ Store!StoreExists
    /\ bcast.pc = "accepted" =>
          \A e \in signed : e \in Broadcasts(bcast.tx)

ConfirmPoints ==
    /\ confirm.pc \in {"idle", "exit"} <=> confirm.queue = {}
    /\ confirm.pc \in {"finalize", "fail", "retry"} => CurEntry \notin unconfirmedSequences
    /\ confirm.pc = "finalize" => CurEntry \in DOMAIN result /\ result[CurEntry] = "success"

LoopPoints == BroadcastPoints /\ ConfirmPoints

\* Envelopes: a hash belongs to one, serial numbers grow, what landed is used, and
\* only envelopes with LedgerBounds are tracked.
EnvelopesKept ==
    /\ IsFiniteSet(sent)
    /\ \A e \in sent : e.seq # Store!NoSeq
    /\ \A d, e \in sent : d.hash = e.hash => d = e
    /\ \A e \in sent : e.hash.n < Cardinality({d \in sent : d.hash.tx = e.hash.tx})
    /\ \A e \in DOMAIN result : e.seq <= seqNum
    /\ \A e \in Entries : e.hash.max # NoBounds

\* What a round may have used of the budgets of t.
WithinRounds(t, rounds, sends, restores) ==
    /\ Cardinality(Broadcasts(t)) <= rounds * MaxSubmitRetryAttempts + sends
    /\ Cardinality(Restores(t)) <= rounds + restores

Budget ==
    /\ \A t \in Txs : attempt[t] <= Rounds /\ WithinRounds(t, Rounds, 0, 0)
    /\ \A t \in Txs : caller[t] \in {"idle", "push", "evict", "repush"} =>
          attempt[t] = 0 /\ WithinRounds(t, 0, 0, 0)
    /\ \A t \in Queued : WithinRounds(t, attempt[t], 0, 0)
    /\ \A t \in InHand :
          WithinRounds(t, attempt[t],
             bcast.tries + (IF bcast.pc = "accepted" THEN 1 ELSE 0),
             IF bcast.restored \/ bcast.pc \in {"poll", "restored"} THEN 1 ELSE 0)
    /\ \A t \in Tracked : WithinRounds(t, attempt[t] + 1, 0, 0)

TxmInv ==
    /\ TypeOK /\ OnePlace /\ Alive /\ Registered /\ LoopPoints /\ EnvelopesKept
    /\ Budget /\ FinalizedExecuted

=============================================================================
