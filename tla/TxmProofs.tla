----------------------------- MODULE TxmProofs -----------------------------
(***************************************************************************)
(* The transaction manager (Txm) keeps its safety properties for every set *)
(* of transactions, every size of its channel and every retry budget.  The *)
(* induction rests on TxmInv: a transaction is in one place at a time, so  *)
(* that the loops, which share it without a lock, never both act on it.    *)
(***************************************************************************)
EXTENDS Txm, FiniteSetTheorems, WellFoundedInduction, TLAPS

-----------------------------------------------------------------------------
(* Helpers.                                                                *)

\* Appending keeps a sequence's type.
LEMMA SeqAppend ==
    ASSUME NEW S, NEW s \in Seq(S), NEW x \in S
    PROVE  Append(s, x) \in Seq(S)
  OBVIOUS

\* So does taking its head off.
LEMMA SeqTail ==
    ASSUME NEW S, NEW s \in Seq(S), s # <<>>
    PROVE  Head(s) \in S /\ Tail(s) \in Seq(S)
  OBVIOUS

BroadcastState ==
    [pc : BroadcastPcs, tx : Txs \cup {NoTx}, batch : SUBSET Txs, tries : Nat,
     restored : BOOLEAN, max : 0 .. MaxLedger + LedgerBoundsOffset]

\* What is left of the broadcaster's state when it turns to the next of its batch.
LEMMA NextInBatchEffect ==
    ASSUME bcast \in BroadcastState, NextInBatch
    PROVE  /\ bcast' \in BroadcastState
           /\ bcast'.tries = 0
           /\ bcast'.restored = FALSE
           /\ \/ /\ bcast'.pc = "idle"
                 /\ bcast'.tx = NoTx
                 /\ bcast.batch = {} /\ bcast'.batch = {}
              \/ /\ bcast'.pc = "client"
                 /\ bcast'.tx \in bcast.batch
                 /\ bcast'.batch = bcast.batch \ {bcast'.tx}
<1>0. 0 \in 0 .. MaxLedger + LedgerBoundsOffset
  BY TxmAssumption
<1>1. CASE bcast.batch = {} /\ bcast' = Idle
  BY <1>0, <1>1 DEF Idle, BroadcastPcs, BroadcastState
<1>2. ASSUME NEW t \in bcast.batch,
             bcast' = [Idle EXCEPT !.pc = "client", !.tx = t, !.batch = bcast.batch \ {t}]
      PROVE  /\ bcast' \in BroadcastState
             /\ bcast'.tries = 0
             /\ bcast'.restored = FALSE
             /\ bcast'.pc = "client"
             /\ bcast'.tx = t
             /\ bcast'.batch = bcast.batch \ {t}
  BY <1>0, <1>2 DEF Idle, BroadcastPcs, BroadcastState
<1> QED
  BY <1>1, <1>2 DEF NextInBatch

\* A set of entries that is not empty has one with the smallest sequence.
LEMMA SmallestEntry ==
    ASSUME NEW Q \in SUBSET Store!Envelope, Q # {}
    PROVE  \E e \in Q : \A d \in Q : e.seq <= d.seq
<1> DEFINE S == {e.seq : e \in Q}
<1>1. S \subseteq Nat /\ S # {}
  BY DEF Store!Envelope
<1> HIDE DEF S
<1>2. PICK m \in S : \A s \in S : <<s, m>> \notin OpToRel(<, Nat)
  BY <1>1, NatLessThanWellFounded, WFMin, Zenon
<1>3. ASSUME NEW s \in S
      PROVE  m <= s
  <2>1. <<s, m>> \in Nat \X Nat /\ s \in Nat /\ m \in Nat
    BY <1>1
  <2>2. s < m => <<s, m>> \in OpToRel(<, Nat)
    BY <2>1, Zenon DEF OpToRel
  <2>3. ~(s < m)
    BY <1>2, <2>2, Zenon
  <2> QED
    BY <2>1, <2>3
<1> QED
  BY <1>3 DEF S

\* The entry at hand is one of those left to be worked through.
LEMMA CurEntryLeft ==
    ASSUME LoopTypes, confirm.queue # {}
    PROVE  CurEntry \in confirm.queue
<1>1. \E e \in confirm.queue : \A d \in confirm.queue : e.seq <= d.seq
  BY SmallestEntry DEF LoopTypes
<1> QED
  BY <1>1 DEF CurEntry

\* A change of status keeps the types.
LEMMA UpdateStatusTypes ==
    ASSUME TxTypes, NEW t \in Txs, NEW s \in {"Pending", "Unconfirmed"} \cup Terminal,
           UpdateStatus(t, s)
    PROVE  /\ transactions' \subseteq Txs /\ done' \subseteq Txs
           /\ status' \in [Txs -> {"Pending", "Unconfirmed"} \cup Terminal]
  BY DEF TxTypes, UpdateStatus, Forget

-----------------------------------------------------------------------------
(* Types.                                                                  *)

\* The broadcaster's own state keeps its type.
LEMMA BroadcastStateKept ==
    ASSUME TxTypes, LoopTypes, NetTypes, BroadcastStep
    PROVE  bcast' \in BroadcastState
<1>a. bcast \in BroadcastState
  BY DEF LoopTypes, BroadcastState
<1>b. bcast.tries + 1 \in Nat
  BY DEF LoopTypes
<1>c. \A l \in LedgerRead : l + LedgerBoundsOffset \in 0 .. MaxLedger + LedgerBoundsOffset
  BY TxmAssumption DEF LedgerRead, NetTypes
<1>1. CASE Receive
  BY <1>a, <1>1, SeqTail DEF Receive, TxTypes, BroadcastPcs, BroadcastState
<1>2. CASE SortBatch
  BY <1>a, NextInBatchEffect, <1>2 DEF SortBatch, BroadcastPcs, BroadcastState
<1>3. CASE GetClient
  BY <1>a, <1>3 DEF GetClient, BroadcastPcs, BroadcastState
<1>4. CASE RetryGetClientOrFail
  BY <1>a, NextInBatchEffect, <1>4 DEF RetryGetClientOrFail, BroadcastPcs, BroadcastState
<1>5. CASE CreateStore
  BY <1>a, NextInBatchEffect, <1>5 DEF CreateStore, BroadcastPcs, BroadcastState
<1>6. CASE Resync
  BY <1>a, <1>6 DEF Resync, BroadcastPcs, BroadcastState
<1>7. CASE ReadSequence
  BY <1>a, <1>7 DEF ReadSequence, BroadcastPcs, BroadcastState
<1>8. CASE Simulate
  BY <1>a, <1>c, NextInBatchEffect, <1>8 DEF Simulate, BroadcastPcs, BroadcastState, ReleaseAndFail
<1>9. CASE SubmitExhausted
  BY <1>a, NextInBatchEffect, <1>9 DEF SubmitExhausted, BroadcastPcs, BroadcastState, ReleaseAndFail
<1>10. CASE SendAccepted
  BY <1>a, <1>10 DEF SendAccepted, BroadcastPcs, BroadcastState
<1>11. CASE SendFails
  BY <1>a, <1>b, <1>11 DEF SendFails, BroadcastPcs, BroadcastState
<1>12. CASE SendRetryable
  BY <1>a, <1>b, <1>12 DEF SendRetryable, BroadcastPcs, BroadcastState
<1>13. CASE Backoff
  BY <1>a, NextInBatchEffect, <1>13 DEF Backoff, BroadcastPcs, BroadcastState
<1>14. CASE SendBadSeq
  BY <1>a, <1>b, <1>14 DEF SendBadSeq, BroadcastPcs, BroadcastState
<1>15. CASE SendRejected
  BY <1>a, NextInBatchEffect, <1>15 DEF SendRejected, BroadcastPcs, BroadcastState, ReleaseAndFail
<1>16. CASE AddUnconfirmed
  BY <1>a, NextInBatchEffect, <1>16 DEF AddUnconfirmed, BroadcastPcs, BroadcastState, ReleaseAndFail
<1>17. CASE MarkUnconfirmed
  BY <1>a, NextInBatchEffect, <1>17 DEF MarkUnconfirmed, BroadcastPcs, BroadcastState
<1>18. CASE RestoreSend
  BY <1>a, <1>18 DEF RestoreSend, BroadcastPcs, BroadcastState
<1>19. CASE RestorePoll
  BY <1>a, <1>19 DEF RestorePoll, BroadcastPcs, BroadcastState
<1>20. CASE RestoreResync
  BY <1>a, <1>20 DEF RestoreResync, BroadcastPcs, BroadcastState
<1>21. CASE RestoreFails
  BY <1>a, NextInBatchEffect, <1>21 DEF RestoreFails, BroadcastPcs, BroadcastState, ReleaseAndFail
<1>22. CASE BroadcastExit
  BY <1>a, <1>22 DEF BroadcastExit, BroadcastPcs, BroadcastState
<1> QED
  BY <1>1, <1>2, <1>3, <1>4, <1>5, <1>6, <1>7, <1>8, <1>9, <1>10, <1>11, <1>12, <1>13, <1>14, <1>15, <1>16, <1>17, <1>18, <1>19, <1>20, <1>21, <1>22 DEF BroadcastStep

txFrame == <<caller, txVars, retryVars, broadcastChan, enqueued>>

\* Transactions, their callers and the channel keep their types when nothing touches
\* them.
LEMMA TxFrame ==
    ASSUME TxTypes, UNCHANGED txFrame
    PROVE  TxTypes'
  BY DEF txFrame, TxTypes, txVars, retryVars

\* ... through the steps of callers and of the pruning loop,
LEMMA CallerTxTypes ==
    ASSUME TxTypes, NEW t \in Txs, CallerStep(t) \/ Prune(t)
    PROVE  TxTypes'
<1>a. broadcastChan \in Seq(Txs) /\ enqueued \in Seq(Txs)
  BY DEF TxTypes
<1>b. Append(broadcastChan, t) \in Seq(Txs) /\ Append(enqueued, t) \in Seq(Txs)
  BY <1>a, SeqAppend
<1>c. broadcastChan # <<>> =>
        Tail(broadcastChan) \in Seq(Txs) /\ Head(broadcastChan) \in Txs
  BY <1>a, SeqTail
<1>d. "Failed" \in {"Pending", "Unconfirmed"} \cup Terminal
  BY DEF Terminal
<1>1. CASE Enqueue(t)
  <2>1. enqueued' \in Seq(Txs)
    BY <1>1, <1>a, <1>b DEF Enqueue
  <2>2. broadcastChan' = broadcastChan
    BY <1>1 DEF Enqueue
  <2> QED
    BY <1>1, <1>a, <2>1, <2>2 DEF Enqueue, TxTypes, retryVars
<1>2. CASE Push(t)
  <2>1. broadcastChan' \in Seq(Txs)
    BY <1>2, <1>a, <1>b DEF Push
  <2>2. enqueued' = enqueued
    BY <1>2 DEF Push
  <2> QED
    BY <1>2, <1>a, <2>1, <2>2 DEF Push, TxTypes, retryVars, txVars
<1>3. CASE Evict(t)
  <2>1. broadcastChan' \in Seq(Txs)
    BY <1>3, <1>a, <1>c DEF Evict
  <2>2. enqueued' = enqueued
    BY <1>3 DEF Evict
  <2>3. /\ transactions' \subseteq Txs /\ done' \subseteq Txs
        /\ status' \in [Txs -> {"Pending", "Unconfirmed"} \cup Terminal]
    <3>1. CASE broadcastChan # <<>> /\ UpdateStatus(Head(broadcastChan), "Failed")
      BY <1>c, <1>d, <3>1, UpdateStatusTypes
    <3>2. CASE UNCHANGED txVars
      BY <3>2 DEF txVars, TxTypes
    <3> QED
      BY <1>3, <3>1, <3>2 DEF Evict
  <2> QED
    BY <1>3, <1>a, <2>1, <2>2, <2>3 DEF Evict, TxTypes, retryVars
<1>4. CASE Repush(t)
  <2>1. broadcastChan' \in Seq(Txs)
    BY <1>4, <1>a, <1>b DEF Repush
  <2>2. enqueued' = enqueued
    BY <1>4 DEF Repush
  <2> QED
    BY <1>4, <1>a, <2>1, <2>2 DEF Repush, TxTypes, retryVars, Forget
<1>5. CASE Prune(t)
  BY <1>5 DEF Prune, TxTypes, retryVars, Forget
<1> QED
  BY <1>1, <1>2, <1>3, <1>4, <1>5 DEF CallerStep

\* ... of the broadcaster,
LEMMA BroadcastTxTypes ==
    ASSUME TxTypes, BroadcastStep,
           bcast.pc \notin {"idle", "drain", "exit"} => bcast.tx \in Txs
    PROVE  TxTypes'
<1>a. broadcastChan \in Seq(Txs)
  BY DEF TxTypes
<1>b. "Failed" \in {"Pending", "Unconfirmed"} \cup Terminal
  BY DEF Terminal
<1>c. ASSUME bcast.tx \in Txs, UpdateStatus(Cur, "Failed") \/ UpdateStatus(Cur, "Unconfirmed"),
             UNCHANGED <<caller, retryVars, broadcastChan, enqueued>>
      PROVE  TxTypes'
  <2>1. /\ transactions' \subseteq Txs /\ done' \subseteq Txs
        /\ status' \in [Txs -> {"Pending", "Unconfirmed"} \cup Terminal]
    BY <1>b, <1>c, UpdateStatusTypes DEF Cur
  <2> QED
    BY <1>c, <2>1 DEF TxTypes, retryVars
<1>1. CASE Receive
  <2>1. broadcastChan' \in Seq(Txs)
    BY <1>1, <1>a, SeqTail DEF Receive
  <2>2. UNCHANGED <<caller, txVars, retryVars, enqueued>>
    BY <1>1 DEF Receive
  <2> QED
    BY <2>1, <2>2 DEF TxTypes, txVars, retryVars
<1>2. CASE SortBatch
  BY <1>2, TxFrame DEF SortBatch, txFrame
<1>3. CASE GetClient
  BY <1>3, TxFrame DEF GetClient, txFrame
<1>4. CASE RetryGetClientOrFail
  <2>1. bcast.tx \in Txs /\ UNCHANGED <<caller, attempt, enqueued>>
    BY <1>4 DEF RetryGetClientOrFail
  <2>2. infraAttempts' \in [Txs -> Nat]
    BY <1>4, <2>1 DEF RetryGetClientOrFail, TxTypes, Cur
  <2>3. broadcastChan' \in Seq(Txs)
    BY <1>4, <1>a, <2>1, SeqAppend DEF RetryGetClientOrFail, Cur
  <2>4. CASE UNCHANGED txVars
    BY <2>1, <2>2, <2>3, <2>4 DEF TxTypes, txVars
  <2>5. CASE UpdateStatus(Cur, "Failed")
    <3>1. /\ transactions' \subseteq Txs /\ done' \subseteq Txs
          /\ status' \in [Txs -> {"Pending", "Unconfirmed"} \cup Terminal]
      BY <1>b, <2>1, <2>5, UpdateStatusTypes DEF Cur
    <3> QED
      BY <2>1, <2>2, <2>3, <3>1 DEF TxTypes
  <2> QED
    BY <1>4, <2>4, <2>5 DEF RetryGetClientOrFail
<1>5. CASE CreateStore
  BY <1>c, <1>5, TxFrame DEF CreateStore, txFrame
<1>6. CASE Resync
  BY <1>6, TxFrame DEF Resync, txFrame
<1>7. CASE ReadSequence
  BY <1>7, TxFrame DEF ReadSequence, txFrame
<1>8. CASE Simulate
  BY <1>c, <1>8, TxFrame DEF Simulate, ReleaseAndFail, txFrame
<1>9. CASE SubmitExhausted
  BY <1>c, <1>9 DEF SubmitExhausted, ReleaseAndFail
<1>10. CASE SendAccepted
  BY <1>10, TxFrame DEF SendAccepted, txFrame
<1>11. CASE SendFails
  BY <1>11, TxFrame DEF SendFails, txFrame
<1>12. CASE SendRetryable
  BY <1>12, TxFrame DEF SendRetryable, txFrame
<1>13. CASE Backoff
  BY <1>13, TxFrame DEF Backoff, txFrame
<1>14. CASE SendBadSeq
  BY <1>14, TxFrame DEF SendBadSeq, txFrame
<1>15. CASE SendRejected
  BY <1>c, <1>15 DEF SendRejected, ReleaseAndFail
<1>16. CASE AddUnconfirmed
  BY <1>c, <1>16, TxFrame DEF AddUnconfirmed, ReleaseAndFail, txFrame
<1>17. CASE MarkUnconfirmed
  BY <1>c, <1>17 DEF MarkUnconfirmed
<1>18. CASE RestoreSend
  BY <1>18, TxFrame DEF RestoreSend, txFrame
<1>19. CASE RestorePoll
  BY <1>19, TxFrame DEF RestorePoll, txFrame
<1>20. CASE RestoreResync
  BY <1>20, TxFrame DEF RestoreResync, txFrame
<1>21. CASE RestoreFails
  BY <1>c, <1>21 DEF RestoreFails, ReleaseAndFail
<1>22. CASE BroadcastExit
  BY <1>22, TxFrame DEF BroadcastExit, txFrame
<1> QED
  BY <1>1, <1>2, <1>3, <1>4, <1>5, <1>6, <1>7, <1>8, <1>9, <1>10, <1>11, <1>12, <1>13, <1>14, <1>15, <1>16, <1>17, <1>18, <1>19, <1>20, <1>21, <1>22 DEF BroadcastStep

\* ... and of the confirmer.
LEMMA ConfirmTxTypes ==
    ASSUME TypeOK, ConfirmStep, confirm.pc \in {"idle", "exit"} <=> confirm.queue = {}
    PROVE  TxTypes'
<1>1. CASE Snapshot
  BY <1>1, TxFrame DEF Snapshot, txFrame, TypeOK
<1>2. CASE Found
  BY <1>2, TxFrame DEF Found, txFrame, TypeOK
<1>3. CASE NotFound
  BY <1>3, TxFrame DEF NotFound, txFrame, TypeOK
<1>4. CASE Expire
  BY <1>4, TxFrame DEF Expire, txFrame, TypeOK
<1>5. CASE StillPending
  BY <1>5, TxFrame DEF StillPending, txFrame, TypeOK
<1>6. CASE Conclude
  <2> DEFINE t == CurEntry.hash.tx
  <2>1. t \in Txs
    BY <1>6, CurEntryLeft DEF Conclude, TypeOK, LoopTypes, Store!Envelope, Hashes
  <2>2. UNCHANGED <<caller, infraAttempts, enqueued>>
    BY <1>6 DEF Conclude
  <2> HIDE DEF t
  <2>3. ASSUME UpdateStatus(t, "Failed") \/ UpdateStatus(t, "Finalized")
        PROVE  /\ transactions' \subseteq Txs /\ done' \subseteq Txs
               /\ status' \in [Txs -> {"Pending", "Unconfirmed"} \cup Terminal]
    BY <2>1, <2>3, UpdateStatusTypes DEF TypeOK, Terminal
  <2>4. CASE UNCHANGED <<attempt, broadcastChan>> /\ (UpdateStatus(t, "Failed") \/ UpdateStatus(t, "Finalized"))
    BY <2>2, <2>3, <2>4 DEF TypeOK, TxTypes
  <2>5. CASE RetryOrFail(t)
    <3>1. attempt' \in [Txs -> Nat]
      BY <2>1, <2>5 DEF RetryOrFail, TypeOK, TxTypes
    <3>2. broadcastChan \in Seq(Txs)
      BY DEF TypeOK, TxTypes
    <3>3. broadcastChan' \in Seq(Txs)
      BY <2>1, <2>5, <3>2, SeqAppend DEF RetryOrFail
    <3>4. /\ transactions' \subseteq Txs /\ done' \subseteq Txs
          /\ status' \in [Txs -> {"Pending", "Unconfirmed"} \cup Terminal]
      BY <2>3, <2>5 DEF RetryOrFail, TypeOK, TxTypes, txVars
    <3> QED
      BY <2>2, <3>1, <3>3, <3>4 DEF TypeOK, TxTypes
  <2> QED
    BY <1>6, <2>4, <2>5 DEF Conclude, t
<1>7. CASE ConfirmExit
  BY <1>7, TxFrame DEF ConfirmExit, txFrame, TypeOK
<1> QED
  BY <1>1, <1>2, <1>3, <1>4, <1>5, <1>6, <1>7 DEF ConfirmStep

\* The confirmer's own state keeps its type.
LEMMA ConfirmStateKept ==
    ASSUME TypeOK, ConfirmStep
    PROVE  confirm' \in [pc : ConfirmPcs, queue : SUBSET Store!Envelope]
<1>a. confirm \in [pc : ConfirmPcs, queue : SUBSET Store!Envelope]
  BY DEF TypeOK, LoopTypes
<1>b. ASSUME NextEntry
      PROVE  confirm' \in [pc : ConfirmPcs, queue : SUBSET Store!Envelope]
  BY <1>a, <1>b DEF NextEntry, ConfirmPcs
<1>c. ASSUME CurEntry \in DOMAIN result
      PROVE  Verdict(result[CurEntry]) \in ConfirmPcs
  BY <1>c DEF TypeOK, NetTypes, Verdict, ConfirmPcs
<1>1. CASE Snapshot
  BY <1>1 DEF Snapshot, TypeOK, StoreTypes, NetTypes, ConfirmPcs
<1>2. CASE Found
  BY <1>a, <1>b, <1>c, <1>2 DEF Found, ConfirmPcs
<1>3. CASE NotFound
  BY <1>a, <1>3 DEF NotFound, ConfirmPcs
<1>4. CASE Expire
  BY <1>a, <1>b, <1>4 DEF Expire, ConfirmPcs
<1>5. CASE StillPending
  BY <1>a, <1>b, <1>5 DEF StillPending, ConfirmPcs
<1>6. CASE Conclude
  BY <1>a, <1>b, <1>6 DEF Conclude, ConfirmPcs
<1>7. CASE ConfirmExit
  BY <1>a, <1>7 DEF ConfirmExit, ConfirmPcs
<1> QED
  BY <1>1, <1>2, <1>3, <1>4, <1>5, <1>6, <1>7 DEF ConfirmStep

-----------------------------------------------------------------------------
(* Envelopes and their numbers.                                            *)

Carrying(t) == {e \in sent : e.hash.tx = t}

\* The envelopes that carry a transaction are its broadcasts and its restores.
LEMMA CarryingSplit ==
    ASSUME IsFiniteSet(sent), NEW t
    PROVE  /\ IsFiniteSet(Carrying(t))
           /\ IsFiniteSet(Broadcasts(t)) /\ IsFiniteSet(Restores(t))
           /\ Cardinality(Broadcasts(t)) \in Nat /\ Cardinality(Restores(t)) \in Nat
           /\ Cardinality(Carrying(t)) = Cardinality(Broadcasts(t)) + Cardinality(Restores(t))
<1>1. /\ IsFiniteSet(Carrying(t)) /\ IsFiniteSet(Broadcasts(t)) /\ IsFiniteSet(Restores(t))
  BY FS_Subset DEF Carrying, Broadcasts, Restores
<1>2. /\ Cardinality(Broadcasts(t)) \in Nat /\ Cardinality(Restores(t)) \in Nat
      /\ Cardinality({}) = 0
  BY <1>1, FS_CardinalityType, FS_EmptySet
<1>3. /\ Carrying(t) = Broadcasts(t) \cup Restores(t)
      /\ Broadcasts(t) \cap Restores(t) = {}
  BY DEF Carrying, Broadcasts, Restores
<1>4. Cardinality(Carrying(t))
        = Cardinality(Broadcasts(t)) + Cardinality(Restores(t)) - Cardinality({})
  BY <1>1, <1>3, FS_Union
<1> QED
  BY <1>1, <1>2, <1>4

\* No serial number leaves its range: the budgets bound what a transaction can send.
LEMMA SerialsInRange ==
    ASSUME TypeOK, EnvelopesKept, Budget, NEW t \in Txs
    PROVE  Cardinality(Carrying(t)) \in 0 .. Rounds * (MaxSubmitRetryAttempts + 1)
<1>1. MaxSubmitRetryAttempts \in Nat /\ Rounds \in Nat
  BY TxmAssumption DEF Rounds
<1>2. PICK m \in Nat : m = MaxSubmitRetryAttempts
  BY <1>1
<1>3. PICK r \in Nat : r = Rounds
  BY <1>1
<1>4. PICK p \in Nat : p = r * m
  OBVIOUS
<1>5. r * (m + 1) = p + r
  BY <1>4
<1>6. Cardinality(Broadcasts(t)) <= p + 0 /\ Cardinality(Restores(t)) <= r + 0
  BY <1>2, <1>3, <1>4 DEF Budget, WithinRounds
<1> QED
  BY <1>2, <1>3, <1>5, <1>6, CarryingSplit DEF EnvelopesKept

\* What reaches the network is one envelope for the held sequence: the same as before,
\* byte by byte, or one with a hash of its own.
LEMMA Delivered ==
    ASSUME TypeOK, EnvelopesKept, Budget, bcast.tx \in Txs,
           NEW max \in NoBounds .. MaxLedger + LedgerBoundsOffset, Deliver(max)
    PROVE  \E e \in Store!Envelope :
              /\ signed' = {e} /\ sent' = sent \cup {e}
              /\ e.seq = held /\ e.hash.tx = bcast.tx /\ e.hash.max = max
              /\ \A d \in sent : d.hash = e.hash => d = e
              /\ e \in sent \/ e.hash.n = Cardinality(Carrying(bcast.tx))
<1> DEFINE N == Cardinality(Carrying(bcast.tx))
           Same == {d \in sent : d.seq = held /\ d.hash.tx = Cur /\ d.hash.max = max}
<1>1. N = Cardinality({e \in sent : e.hash.tx = Cur})
  BY DEF Carrying, Cur
<1>2. N \in 0 .. Rounds * (MaxSubmitRetryAttempts + 1)
  BY SerialsInRange
<1>3. PICK n \in {N} \cup {e.hash.n : e \in Same} :
        signed' = {[seq |-> held, hash |-> [tx |-> Cur, max |-> max, n |-> n]]}
  BY <1>1 DEF Deliver
<1> DEFINE e == [seq |-> held, hash |-> [tx |-> Cur, max |-> max, n |-> n]]
<1>4. sent' = sent \cup {e}
  BY <1>3 DEF Deliver
<1>5. \A d \in sent : /\ d = [seq |-> d.seq, hash |-> d.hash]
                      /\ d.hash = [tx |-> d.hash.tx, max |-> d.hash.max, n |-> d.hash.n]
                      /\ d.hash.n \in 0 .. Rounds * (MaxSubmitRetryAttempts + 1)
  BY DEF TypeOK, NetTypes, Store!Envelope, Hashes
<1>6. e.seq = held /\ e.hash.tx = bcast.tx /\ e.hash.max = max /\ e.hash.n = n
  BY DEF Cur
<1>7. n \in 0 .. Rounds * (MaxSubmitRetryAttempts + 1)
  BY <1>2, <1>3, <1>5
<1>8. e \in Store!Envelope
  BY <1>7 DEF TypeOK, StoreTypes, Store!Envelope, Hashes, Cur
<1>9. CASE n = N
  <2>1. ASSUME NEW d \in sent, d.hash = e.hash
        PROVE  FALSE
    <3>1. d.hash.tx = bcast.tx /\ d.hash.n = N
      BY <1>6, <1>9, <2>1
    <3>2. d.hash.n < Cardinality(Carrying(d.hash.tx))
      BY DEF EnvelopesKept, Carrying
    <3> QED
      BY <1>2, <3>1, <3>2
  <2> QED
    BY <1>3, <1>4, <1>6, <1>8, <1>9, <2>1
<1>10. ASSUME NEW d \in Same, n = d.hash.n
       PROVE  d = e /\ d \in sent
  BY <1>5, <1>10
<1>11. CASE \E d \in Same : n = d.hash.n
  <2>1. e \in sent
    BY <1>10, <1>11
  <2>2. \A d \in sent : d.hash = e.hash => d = e
    BY <2>1 DEF EnvelopesKept
  <2> QED
    BY <1>3, <1>4, <1>6, <1>8, <2>1, <2>2
<1> QED
  BY <1>3, <1>9, <1>11

-----------------------------------------------------------------------------
(* How the steps of the loops move transactions from place to place.       *)

\* Points of the broadcaster at which it has its transaction in hand.
Away == {"idle", "drain", "mark", "exit"}

Stays ==
    /\ bcast.pc \notin Away /\ bcast'.pc \notin Away
    /\ bcast'.tx = bcast.tx /\ bcast'.batch = bcast.batch
    /\ Entries' \subseteq Entries
    /\ UNCHANGED <<broadcastChan, txVars>>
Takes ==
    /\ bcast.pc \in {"idle", "drain"} /\ bcast'.pc = "drain" /\ bcast'.tx = bcast.tx
    /\ broadcastChan # <<>>
    /\ bcast'.batch = bcast.batch \cup {Head(broadcastChan)}
    /\ broadcastChan' = Tail(broadcastChan)
    /\ Entries' = Entries
    /\ UNCHANGED txVars
Starts ==
    /\ bcast.pc = "drain" /\ NextInBatch /\ Entries' = Entries
    /\ UNCHANGED <<broadcastChan, txVars>>
Fails ==
    /\ bcast.pc \notin Away /\ NextInBatch /\ Entries' \subseteq Entries
    /\ UpdateStatus(bcast.tx, "Failed")
    /\ UNCHANGED broadcastChan
Requeues ==
    /\ bcast.pc = "client" /\ NextInBatch /\ Entries' \subseteq Entries
    /\ broadcastChan' = Append(broadcastChan, bcast.tx)
    /\ UNCHANGED txVars
\* The retry that getClient's failure within the infra budget calls for.
WouldRequeue ==
    /\ bcast.pc = "client" /\ MayFail("client")
    /\ infraAttempts[bcast.tx] + 1 < MaxGetClientRetryAttempts
Drops ==
    /\ bcast.pc \notin Away /\ NextInBatch /\ Entries' \subseteq Entries
    /\ stopped \/ (WouldRequeue /\ Full)
    /\ UNCHANGED <<broadcastChan, txVars>>
HandsOver ==
    /\ bcast.pc = "accepted" /\ bcast'.pc = "mark"
    /\ bcast'.tx = bcast.tx /\ bcast'.batch = bcast.batch
    /\ \E e \in signed : Entries' = Entries \cup {e}
    /\ UNCHANGED <<broadcastChan, txVars>>
Marks ==
    /\ bcast.pc = "mark" /\ NextInBatch /\ Entries' = Entries
    /\ UpdateStatus(bcast.tx, "Unconfirmed")
    /\ UNCHANGED broadcastChan
Leaves ==
    /\ bcast.pc = "idle" /\ bcast'.pc = "exit"
    /\ bcast'.tx = bcast.tx /\ bcast'.batch = bcast.batch
    /\ Entries' = Entries
    /\ UNCHANGED <<broadcastChan, txVars>>

\* Every step of the broadcaster is one of these; callers and attempts are not its.
LEMMA BroadcastMoves ==
    ASSUME LoopTypes, BroadcastStep
    PROVE  /\ UNCHANGED <<caller, attempt, confirm>>
           /\ \/ Stays \/ Takes \/ Starts \/ Fails \/ Requeues \/ Drops
              \/ HandsOver \/ Marks \/ Leaves
<1>a. bcast \in BroadcastState
  BY DEF LoopTypes, BroadcastState
<1>b. ASSUME UNCHANGED <<confirm, unconfirmedSequences>>
      PROVE  Entries' = Entries
  BY <1>b DEF Entries
<1>c. ASSUME confirm' = confirm, unconfirmedSequences' \subseteq unconfirmedSequences
      PROVE  Entries' \subseteq Entries
  BY <1>c DEF Entries
<1>d. ASSUME bcast.pc \notin Away, ReleaseAndFail, UNCHANGED <<confirm, broadcastChan>>
      PROVE  Fails
  BY <1>c, <1>d DEF ReleaseAndFail, Release, Store!Release, Fails, Cur
<1>1. CASE Receive
  BY <1>a, <1>b, <1>1 DEF Receive, Takes, BroadcastState, storeVars, retryVars
<1>2. CASE SortBatch
  BY <1>b, <1>2 DEF SortBatch, Starts, storeVars, retryVars
<1>3. CASE GetClient
  BY <1>a, <1>b, <1>3 DEF GetClient, Stays, Away, BroadcastState, storeVars, retryVars
<1>4. CASE RetryGetClientOrFail
  <2>1. Entries' = Entries /\ NextInBatch /\ bcast.pc = "client" /\ bcast.pc \notin Away
    BY <1>b, <1>4 DEF RetryGetClientOrFail, storeVars, Away
  <2>2. UNCHANGED <<caller, attempt, confirm>>
    BY <1>4 DEF RetryGetClientOrFail
  <2>3. \/ UNCHANGED txVars /\ broadcastChan' = Append(broadcastChan, Cur)
        \/ /\ UNCHANGED txVars /\ UNCHANGED broadcastChan
           /\ stopped \/ (WouldRequeue /\ Full)
        \/ UpdateStatus(Cur, "Failed") /\ UNCHANGED broadcastChan
    BY <1>4 DEF RetryGetClientOrFail, WouldRequeue, Cur
  <2>4. Requeues \/ Drops \/ Fails
    BY <2>1, <2>3 DEF Requeues, Drops, Fails, Cur
  <2> QED
    BY <2>2, <2>4
<1>5. CASE CreateStore
  <2>1. CASE NextInBatch /\ UpdateStatus(Cur, "Failed") /\ UNCHANGED storeVars
    BY <1>b, <2>1, <1>5 DEF CreateStore, Fails, Away, Cur, storeVars, retryVars
  <2>2. CASE ~(NextInBatch /\ UpdateStatus(Cur, "Failed") /\ UNCHANGED storeVars)
    <3>1. unconfirmedSequences' = {}
      BY <2>2, <1>5 DEF CreateStore, Store!CreateTxStore
    <3> QED
      BY <1>a, <1>c, <2>2, <3>1, <1>5 DEF CreateStore, Stays, Away, BroadcastState, storeVars, retryVars
  <2> QED
    BY <2>1, <2>2
<1>6. CASE Resync
  BY <1>a, <1>b, <1>6 DEF Resync, Store!ResyncNonce, Stays, Away, BroadcastState, storeVars, retryVars
<1>7. CASE ReadSequence
  BY <1>a, <1>b, <1>7 DEF ReadSequence, Stays, Away, BroadcastState, storeVars, retryVars
<1>8. CASE Simulate
  <2>1. CASE ReleaseAndFail
    BY <1>d, <2>1, <1>8 DEF Simulate, Away, retryVars
  <2>2. CASE ~ReleaseAndFail
    BY <1>a, <1>b, <2>2, <1>8 DEF Simulate, Stays, Away, BroadcastState, storeVars, retryVars
  <2> QED
    BY <2>1, <2>2
<1>9. CASE SubmitExhausted
  BY <1>d, <1>9 DEF SubmitExhausted, Away, storeVars, retryVars
<1>10. CASE SendAccepted
  BY <1>a, <1>b, <1>10 DEF SendAccepted, Stays, Away, BroadcastState, storeVars, retryVars
<1>11. CASE SendFails
  BY <1>a, <1>b, <1>11 DEF SendFails, Stays, Away, BroadcastState, storeVars, retryVars
<1>12. CASE SendRetryable
  BY <1>a, <1>b, <1>12 DEF SendRetryable, Stays, Away, BroadcastState, storeVars, retryVars
<1>13. CASE Backoff
  <2>1. CASE stopped /\ Release /\ NextInBatch
    BY <1>c, <2>1, <1>13 DEF Backoff, Drops, Away, Release, Store!Release, storeVars, retryVars
  <2>2. CASE ~(stopped /\ Release /\ NextInBatch)
    BY <1>a, <1>b, <2>2, <1>13 DEF Backoff, Stays, Away, BroadcastState, storeVars, retryVars
  <2> QED
    BY <2>1, <2>2
<1>14. CASE SendBadSeq
  BY <1>a, <1>b, <1>14 DEF SendBadSeq, Stays, Away, BroadcastState, storeVars, retryVars
<1>15. CASE SendRejected
  BY <1>d, <1>15 DEF SendRejected, Away, storeVars, retryVars
<1>16. CASE AddUnconfirmed
  <2>0. UNCHANGED <<caller, attempt, confirm, broadcastChan>> /\ bcast.pc = "accepted"
    BY <1>16 DEF AddUnconfirmed, retryVars
  <2>1. CASE ReleaseAndFail
    BY <1>d, <2>0, <2>1 DEF Away
  <2>2. CASE ~ReleaseAndFail
    <3>1. PICK e \in signed : Store!AddUnconfirmed(e)
      BY <2>2, <1>16 DEF AddUnconfirmed
    <3>2. Entries' = Entries \cup {e}
      BY <2>0, <3>1 DEF Store!AddUnconfirmed, Entries
    <3>3. bcast' = [bcast EXCEPT !.pc = "mark"] /\ UNCHANGED txVars
      BY <2>2, <1>16 DEF AddUnconfirmed
    <3> QED
      BY <1>a, <2>0, <3>2, <3>3 DEF HandsOver, BroadcastState
  <2> QED
    BY <2>1, <2>2
<1>17. CASE MarkUnconfirmed
  BY <1>b, <1>17 DEF MarkUnconfirmed, Marks, Cur, storeVars, retryVars
<1>18. CASE RestoreSend
  BY <1>a, <1>b, <1>18 DEF RestoreSend, Stays, Away, BroadcastState, storeVars, retryVars
<1>19. CASE RestorePoll
  BY <1>a, <1>b, <1>19 DEF RestorePoll, Stays, Away, BroadcastState, storeVars, retryVars
<1>20. CASE RestoreResync
  BY <1>a, <1>b, <1>20 DEF RestoreResync, Store!ResyncNonce, Stays, Away, BroadcastState, storeVars, retryVars
<1>21. CASE RestoreFails
  BY <1>d, <1>21 DEF RestoreFails, Away, storeVars, retryVars
<1>22. CASE BroadcastExit
  BY <1>a, <1>b, <1>22 DEF BroadcastExit, Leaves, BroadcastState, storeVars, retryVars
<1> QED
  BY <1>1, <1>2, <1>3, <1>4, <1>5, <1>6, <1>7, <1>8, <1>9, <1>10, <1>11, <1>12, <1>13, <1>14, <1>15, <1>16, <1>17, <1>18, <1>19, <1>20, <1>21, <1>22 DEF BroadcastStep

Keeps ==
    /\ Entries' \subseteq Entries
    /\ UNCHANGED <<attempt, broadcastChan, txVars>>
Concludes ==
    /\ confirm.pc \in {"finalize", "fail", "retry"}
    /\ \/ /\ confirm.pc = "finalize"
          /\ UpdateStatus(CurEntry.hash.tx, "Finalized")
          /\ UNCHANGED attempt
       \/ /\ UpdateStatus(CurEntry.hash.tx, "Failed")
          /\ \/ UNCHANGED attempt
             \/ attempt' = [attempt EXCEPT ![CurEntry.hash.tx] = @ + 1]
    /\ Entries' = Entries \ {CurEntry}
    /\ UNCHANGED broadcastChan
Retries ==
    /\ confirm.pc = "retry"
    /\ attempt[CurEntry.hash.tx] + 1 < MaxTxRetryAttempts
    /\ attempt' = [attempt EXCEPT ![CurEntry.hash.tx] = @ + 1]
    /\ Entries' = Entries \ {CurEntry}
    /\ broadcastChan' = Append(broadcastChan, CurEntry.hash.tx)
    /\ UNCHANGED txVars

\* Every step of the confirmer is one of these; it leaves callers and the broadcaster
\* alone.
LEMMA ConfirmMoves ==
    ASSUME LoopTypes, ConfirmStep,
           confirm.pc \in {"finalize", "fail", "retry"} => CurEntry \notin unconfirmedSequences
    PROVE  /\ UNCHANGED <<caller, bcast>>
           /\ Keeps \/ Concludes \/ Retries
<1>a. ASSUME confirm'.queue \subseteq confirm.queue,
             unconfirmedSequences' \subseteq unconfirmedSequences
      PROVE  Entries' \subseteq Entries
  BY <1>a DEF Entries
<1>b. ASSUME NextEntry
      PROVE  confirm'.queue \subseteq confirm.queue
  BY <1>b DEF NextEntry
<1>1. CASE Snapshot
  BY <1>1 DEF Snapshot, Keeps, Entries, storeVars, retryVars
<1>2. CASE Found
  <2>1. UNCHANGED <<caller, bcast, attempt, broadcastChan, txVars>>
    BY <1>2 DEF Found, retryVars
  <2>2. unconfirmedSequences' \subseteq unconfirmedSequences
    BY <1>2 DEF Found, Store!Confirm, storeVars
  <2>3. confirm'.queue \subseteq confirm.queue
    BY <1>b, <1>2 DEF Found, LoopTypes
  <2> QED
    BY <1>a, <2>1, <2>2, <2>3 DEF Keeps
<1>3. CASE NotFound
  BY <1>a, <1>3 DEF NotFound, Keeps, storeVars, retryVars
<1>4. CASE Expire
  <2>1. UNCHANGED <<caller, bcast, attempt, broadcastChan, txVars>>
    BY <1>4 DEF Expire, retryVars
  <2>2. unconfirmedSequences' \subseteq unconfirmedSequences
    BY <1>4 DEF Expire, Store!Confirm, storeVars
  <2>3. confirm'.queue \subseteq confirm.queue
    BY <1>b, <1>4 DEF Expire, LoopTypes
  <2> QED
    BY <1>a, <2>1, <2>2, <2>3 DEF Keeps
<1>5. CASE StillPending
  BY <1>a, <1>b, <1>5 DEF StillPending, Keeps, storeVars, retryVars
<1>6. CASE Conclude
  <2>1. /\ CurEntry \notin unconfirmedSequences
        /\ unconfirmedSequences' = unconfirmedSequences
        /\ confirm'.queue = confirm.queue \ {CurEntry}
    BY <1>6 DEF Conclude, NextEntry, storeVars
  <2>2. Entries' = Entries \ {CurEntry}
    BY <2>1 DEF Entries
  <2>3. CASE confirm.pc \in {"finalize", "fail"}
    BY <2>2, <2>3, <1>6 DEF Conclude, Concludes
  <2>4. CASE confirm.pc = "retry"
    BY <2>2, <2>4, <1>6 DEF Conclude, Concludes, Retries, RetryOrFail
  <2> QED
    BY <2>3, <2>4, <1>6 DEF Conclude
<1>7. CASE ConfirmExit
  BY <1>a, <1>7 DEF ConfirmExit, Keeps, storeVars, retryVars
<1> QED
  BY <1>1, <1>2, <1>3, <1>4, <1>5, <1>6, <1>7 DEF ConfirmStep

-----------------------------------------------------------------------------
(* A transaction is in one place.                                          *)

Distinct(s) == \A i, j \in DOMAIN s : s[i] = s[j] => i = j

Apart(queue, batch, hand, entries) ==
    /\ queue \cap batch = {}
    /\ hand \cap (queue \cup batch) = {}
    /\ \A e \in entries : e.hash.tx \notin queue \cup batch \cup hand
    /\ \A d, e \in entries : d.hash.tx = e.hash.tx => d = e

\* OnePlace, with the places as sets.
LEMMA OnePlaceIs ==
    OnePlace <=> /\ Distinct(broadcastChan)
                 /\ Apart(ToSet(broadcastChan), bcast.batch, InHand, Entries)
  BY DEF OnePlace, Distinct, Apart, Queued, Tracked

\* The same of the next state.
LEMMA OnePlaceNextIs ==
    OnePlace' <=> /\ Distinct(broadcastChan')
                  /\ Apart(ToSet(broadcastChan'), bcast'.batch, InHand', Entries')
  BY DEF OnePlace, Distinct, Apart, Queued, Tracked

\* Sending to the channel adds one transaction to those in it.
LEMMA ChannelSend ==
    ASSUME NEW S, NEW s \in Seq(S), NEW x \in S
    PROVE  /\ ToSet(Append(s, x)) = ToSet(s) \cup {x}
           /\ Distinct(s) /\ x \notin ToSet(s) => Distinct(Append(s, x))
<1> DEFINE a == Append(s, x)
<1>1. /\ a \in Seq(S) /\ Len(a) = Len(s) + 1 /\ Len(s) \in Nat
      /\ \A i \in 1 .. Len(s) : a[i] = s[i]
      /\ a[Len(s) + 1] = x
  OBVIOUS
<1>2. DOMAIN a = 1 .. Len(s) + 1 /\ DOMAIN s = 1 .. Len(s)
  BY <1>1
<1> HIDE DEF a
<1>3. ToSet(a) = ToSet(s) \cup {x}
  BY <1>1, <1>2 DEF ToSet
<1>4. ASSUME Distinct(s), x \notin ToSet(s)
      PROVE  Distinct(a)
  <2>1. \A i \in 1 .. Len(s) : s[i] # x
    BY <1>2, <1>4 DEF ToSet
  <2>2. \A i, j \in 1 .. Len(s) : s[i] = s[j] => i = j
    BY <1>2, <1>4 DEF Distinct
  <2>3. \A i \in 1 .. Len(s) + 1 : i \in 1 .. Len(s) \/ i = Len(s) + 1
    BY <1>1
  <2>4. \A i, j \in 1 .. Len(s) + 1 : a[i] = a[j] => i = j
    BY <1>1, <2>1, <2>2, <2>3
  <2> QED
    BY <1>2, <2>4 DEF Distinct
<1> QED
  BY <1>3, <1>4 DEF a

\* Receiving from it takes one out.
LEMMA ChannelReceive ==
    ASSUME NEW S, NEW s \in Seq(S), s # <<>>, Distinct(s)
    PROVE  /\ Head(s) \in ToSet(s)
           /\ ToSet(Tail(s)) = ToSet(s) \ {Head(s)}
           /\ Distinct(Tail(s))
<1> DEFINE a == Tail(s)
<1>1. /\ a \in Seq(S) /\ Len(s) \in Nat /\ Len(s) > 0 /\ Len(a) = Len(s) - 1
      /\ \A i \in 1 .. Len(s) - 1 : a[i] = s[i + 1]
      /\ Head(s) = s[1]
  OBVIOUS
<1>2. DOMAIN a = 1 .. Len(s) - 1 /\ DOMAIN s = 1 .. Len(s)
  BY <1>1
<1> HIDE DEF a
<1>3. \A i, j \in 1 .. Len(s) : s[i] = s[j] => i = j
  BY <1>2 DEF Distinct
<1>4. Distinct(a)
  <2>1. \A i, j \in 1 .. Len(s) - 1 : a[i] = a[j] => i = j
    BY <1>1, <1>3
  <2> QED
    BY <1>2, <2>1 DEF Distinct
<1>5. ASSUME NEW y \in ToSet(a)
      PROVE  y \in ToSet(s) \ {Head(s)}
  <2>1. PICK i \in 1 .. Len(s) - 1 : y = a[i]
    BY <1>2 DEF ToSet
  <2>2. y = s[i + 1] /\ i + 1 \in 1 .. Len(s) /\ i + 1 # 1 /\ 1 \in 1 .. Len(s)
    BY <1>1, <2>1
  <2> QED
    BY <1>1, <1>2, <1>3, <2>2 DEF ToSet
<1>6. ASSUME NEW y \in ToSet(s) \ {Head(s)}
      PROVE  y \in ToSet(a)
  <2>1. PICK i \in 1 .. Len(s) : y = s[i]
    BY <1>2 DEF ToSet
  <2>2. i # 1
    BY <1>1, <1>6, <2>1
  <2>3. i - 1 \in 1 .. Len(s) - 1 /\ a[i - 1] = s[i]
    BY <1>1, <2>2
  <2> QED
    BY <1>2, <2>1, <2>3 DEF ToSet
<1>7. Head(s) \in ToSet(s)
  BY <1>1, <1>2 DEF ToSet
<1> QED
  BY <1>4, <1>5, <1>6, <1>7 DEF a

\* The hand of the broadcaster after it turned to the next transaction.
LEMMA NextInBatchHand ==
    ASSUME LoopTypes, NextInBatch
    PROVE  InHand' \subseteq bcast.batch /\ bcast'.batch = bcast.batch \ InHand'
<1>1. bcast \in BroadcastState
  BY DEF LoopTypes, BroadcastState
<1> QED
  BY <1>1, NextInBatchEffect DEF InHand

\* The broadcaster keeps transactions in one place,
LEMMA BroadcastOnePlace ==
    ASSUME TypeOK, OnePlace, Alive, LoopPoints, BroadcastStep
    PROVE  OnePlace'
<1> DEFINE q == ToSet(broadcastChan)
           b == bcast.batch
           h == InHand
           E == Entries
<1>0. Distinct(broadcastChan) /\ Apart(q, b, h, E)
  BY OnePlaceIs
<1>t. LoopTypes /\ broadcastChan \in Seq(Txs)
  BY DEF TypeOK, TxTypes
<1>n. ASSUME NextInBatch
      PROVE  InHand' \subseteq b /\ bcast'.batch = b \ InHand'
  BY <1>t, <1>n, NextInBatchHand
<1>h. ASSUME bcast.pc \notin Away
      PROVE  h = {bcast.tx} /\ bcast.tx \in Txs
  BY <1>h DEF Away, InHand, Alive
<1>1. CASE Stays
  <2>1. h = {bcast.tx} /\ InHand' = {bcast.tx}
    BY <1>1 DEF Stays, Away, InHand
  <2>2. ToSet(broadcastChan') = q /\ bcast'.batch = b /\ InHand' = h /\ Entries' \subseteq E
    BY <1>1, <2>1 DEF Stays
  <2>3. Distinct(broadcastChan')
    BY <1>0, <1>1 DEF Stays
  <2> QED
    BY <1>0, <2>2, <2>3, OnePlaceNextIs DEF Apart
<1>2. CASE Takes
  <2>1. /\ Head(broadcastChan) \in q
        /\ ToSet(broadcastChan') = q \ {Head(broadcastChan)}
        /\ Distinct(broadcastChan')
    BY <1>0, <1>2, <1>t, ChannelReceive DEF Takes
  <2>2. h = {} /\ InHand' = {}
    BY <1>2 DEF Takes, InHand
  <2>3. bcast'.batch = b \cup {Head(broadcastChan)} /\ Entries' = E
    BY <1>2 DEF Takes
  <2>4. PICK x : x = Head(broadcastChan)
    OBVIOUS
  <2> QED
    BY <1>0, <2>1, <2>2, <2>3, <2>4, OnePlaceNextIs DEF Apart
<1>3. CASE Starts \/ Fails \/ Drops \/ Marks
  <2>1. /\ broadcastChan' = broadcastChan /\ Entries' \subseteq E
        /\ InHand' \subseteq b /\ bcast'.batch = b \ InHand'
    BY <1>3, <1>n DEF Starts, Fails, Drops, Marks
  <2>2. Distinct(broadcastChan') /\ ToSet(broadcastChan') = q
    BY <1>0, <2>1
  <2> QED
    BY <1>0, <2>1, <2>2, OnePlaceNextIs DEF Apart
<1>4. CASE Requeues
  <2>1. h = {bcast.tx} /\ bcast.tx \in Txs
    BY <1>4, <1>h DEF Requeues, Away
  <2>2. bcast.tx \notin q /\ bcast.tx \notin b
    BY <1>0, <2>1 DEF Apart
  <2>3. Distinct(broadcastChan') /\ ToSet(broadcastChan') = q \cup {bcast.tx}
    BY <1>0, <1>4, <1>t, <2>1, <2>2, ChannelSend DEF Requeues
  <2>4. /\ Entries' \subseteq E
        /\ InHand' \subseteq b /\ bcast'.batch = b \ InHand'
    BY <1>4, <1>n DEF Requeues
  <2> QED
    BY <1>0, <2>1, <2>2, <2>3, <2>4, OnePlaceNextIs DEF Apart
<1>5. CASE HandsOver
  <2>1. h = {bcast.tx} /\ InHand' = {}
    BY <1>5 DEF HandsOver, InHand
  <2>2. PICK e \in signed : Entries' = E \cup {e}
    BY <1>5 DEF HandsOver
  <2>3. e.hash.tx = bcast.tx
    BY <1>5, <2>2 DEF HandsOver, LoopPoints, BroadcastPoints, ConfirmPoints, Broadcasts
  <2>4. ToSet(broadcastChan') = q /\ Distinct(broadcastChan') /\ bcast'.batch = b
    BY <1>0, <1>5 DEF HandsOver
  <2> QED
    BY <1>0, <2>1, <2>2, <2>3, <2>4, OnePlaceNextIs DEF Apart
<1>6. CASE Leaves
  <2>1. InHand' = {} /\ ToSet(broadcastChan') = q /\ bcast'.batch = b /\ Entries' = E
    BY <1>6 DEF Leaves, InHand
  <2>2. Distinct(broadcastChan')
    BY <1>0, <1>6 DEF Leaves
  <2> QED
    BY <1>0, <2>1, <2>2, OnePlaceNextIs DEF Apart
<1> QED
  BY <1>1, <1>2, <1>3, <1>4, <1>5, <1>6, <1>t, BroadcastMoves

\* ... and so does the confirmer,
LEMMA ConfirmOnePlace ==
    ASSUME TypeOK, OnePlace, LoopPoints, ConfirmStep
    PROVE  OnePlace'
<1> DEFINE q == ToSet(broadcastChan)
           b == bcast.batch
           h == InHand
           E == Entries
<1>0. Distinct(broadcastChan) /\ Apart(q, b, h, E)
  BY OnePlaceIs
<1>1. bcast' = bcast /\ (Keeps \/ Concludes \/ Retries)
  BY ConfirmMoves DEF TypeOK, LoopPoints, BroadcastPoints, ConfirmPoints
<1>2. InHand' = h /\ bcast'.batch = b
  BY <1>1 DEF InHand
<1>3. CASE Keeps \/ Concludes
  <2>1. broadcastChan' = broadcastChan /\ Entries' \subseteq E
    BY <1>3 DEF Keeps, Concludes
  <2>2. Distinct(broadcastChan') /\ ToSet(broadcastChan') = q
    BY <1>0, <2>1
  <2> QED
    BY <1>0, <1>2, <2>1, <2>2, OnePlaceNextIs DEF Apart
<1>4. CASE Retries
  <2>1. CurEntry \in E
    BY <1>4, CurEntryLeft DEF Retries, LoopPoints, BroadcastPoints, ConfirmPoints, TypeOK, Entries
  <2>2. PICK c \in E : c = CurEntry
    BY <2>1
  <2>3. c.hash.tx \notin q /\ c.hash.tx \in Txs /\ broadcastChan \in Seq(Txs)
    BY <1>0, <2>2 DEF Apart, TypeOK, StoreTypes, NetTypes, TxTypes, Entries,
                      Store!Envelope, Hashes
  <2>4. /\ Distinct(broadcastChan') /\ ToSet(broadcastChan') = q \cup {c.hash.tx}
        /\ Entries' = E \ {c}
    BY <1>0, <1>4, <2>2, <2>3, ChannelSend DEF Retries
  <2> HIDE DEF q, b, h, E
  <2>5. Apart(ToSet(broadcastChan'), bcast'.batch, InHand', Entries')
    BY <1>0, <1>2, <2>2, <2>4 DEF Apart
  <2> QED
    BY <2>4, <2>5, OnePlaceNextIs
<1> QED
  BY <1>1, <1>3, <1>4

\* ... and the callers, who send only what is nowhere yet.
LEMMA CallerOnePlace ==
    ASSUME TypeOK, OnePlace, Alive, NEW t \in Txs, CallerStep(t) \/ Prune(t)
    PROVE  OnePlace'
<1> DEFINE q == ToSet(broadcastChan)
           b == bcast.batch
           h == InHand
           E == Entries
<1>0. Distinct(broadcastChan) /\ Apart(q, b, h, E) /\ broadcastChan \in Seq(Txs)
  BY OnePlaceIs DEF TypeOK, TxTypes
<1>1. InHand' = h /\ bcast'.batch = b /\ Entries' = E
  BY DEF CallerStep, Enqueue, Push, Evict, Repush, Prune, InHand, Entries, storeVars
<1>2. CASE broadcastChan' = broadcastChan
  <2>1. Distinct(broadcastChan') /\ ToSet(broadcastChan') = q
    BY <1>0, <1>2
  <2> QED
    BY <1>0, <1>1, <2>1, OnePlaceNextIs
<1>3. CASE caller[t] \in {"push", "repush"} /\ broadcastChan' = Append(broadcastChan, t)
  <2>1. t \notin q \cup b \cup h /\ \A e \in E : e.hash.tx # t
    BY <1>3 DEF Alive, Queued, Tracked
  <2>2. Distinct(broadcastChan') /\ ToSet(broadcastChan') = q \cup {t}
    BY <1>0, <1>3, <2>1, ChannelSend
  <2> QED
    BY <1>0, <1>1, <2>1, <2>2, OnePlaceNextIs DEF Apart
<1>4. CASE broadcastChan # <<>> /\ broadcastChan' = Tail(broadcastChan)
  <2>1. Distinct(broadcastChan') /\ ToSet(broadcastChan') \subseteq q
    BY <1>0, <1>4, ChannelReceive
  <2> QED
    BY <1>0, <1>1, <2>1, OnePlaceNextIs DEF Apart
<1> QED
  BY <1>2, <1>3, <1>4 DEF CallerStep, Enqueue, Push, Evict, Repush, Prune

-----------------------------------------------------------------------------
(* What is being worked on is accepted, unfinished and within its budget.  *)

Working == Queued \cup InHand \cup Tracked

\* Only transactions are worked on.
LEMMA WorkingTypes ==
    ASSUME TypeOK, Alive
    PROVE  /\ ToSet(broadcastChan) \subseteq Txs /\ bcast.batch \subseteq Txs
           /\ InHand \subseteq Txs
           /\ \A e \in Entries : e.hash.tx \in Txs
<1>1. ToSet(broadcastChan) \subseteq Txs
  <2>1. broadcastChan \in Seq(Txs)
    BY DEF TypeOK, TxTypes
  <2> QED
    BY <2>1 DEF ToSet
<1>2. InHand \subseteq Txs
  BY DEF InHand, Alive
<1>3. bcast.batch \subseteq Txs
  BY DEF TypeOK, LoopTypes
<1> QED
  BY <1>1, <1>2, <1>3 DEF TypeOK, StoreTypes, NetTypes, Entries, Store!Envelope, Hashes

\* The broadcaster keeps it so,
LEMMA BroadcastAlive ==
    ASSUME TypeOK, OnePlace, Alive, LoopPoints, BroadcastStep
    PROVE  Alive'
<1> DEFINE q == ToSet(broadcastChan)
           b == bcast.batch
           h == InHand
           E == Entries
<1>0. Apart(q, b, h, E) /\ Distinct(broadcastChan)
  BY OnePlaceIs
<1>t. LoopTypes /\ bcast \in BroadcastState /\ broadcastChan \in Seq(Txs) /\ b \subseteq Txs
  BY DEF TypeOK, TxTypes, LoopTypes, BroadcastState
<1>f. caller' = caller /\ attempt' = attempt
  BY <1>t, BroadcastMoves
<1>a. ASSUME NEW t \in Txs, t \in q \/ t \in b \/ t \in h \/ \E e \in E : e.hash.tx = t
      PROVE  caller[t] = "enqueued" /\ t \notin done /\ attempt[t] < Rounds
  BY <1>a DEF Alive, Queued, Tracked
<1>b. q \subseteq Txs /\ h \subseteq Txs /\ \A e \in E : e.hash.tx \in Txs
  BY WorkingTypes
<1>w. ASSUME /\ ToSet(broadcastChan') \cup bcast'.batch \cup InHand'
                  \subseteq q \cup b \cup h
             /\ \A e \in Entries' : e \in E \/ e.hash.tx \in h
             /\ \A t \in ToSet(broadcastChan') \cup bcast'.batch \cup InHand' : t \notin done'
             /\ \A e \in Entries' : e.hash.tx \notin done'
      PROVE  \A t \in Working' : caller'[t] = "enqueued" /\ t \notin done' /\ attempt'[t] < Rounds
  <2>1. ASSUME NEW t \in Working'
        PROVE  t \in ToSet(broadcastChan') \cup bcast'.batch \cup InHand'
               \/ \E e \in Entries' : t = e.hash.tx
    BY <2>1 DEF Working, Queued, Tracked
  <2>2. ASSUME NEW t \in Working'
        PROVE  /\ t \in Txs /\ t \notin done'
               /\ t \in q \/ t \in b \/ t \in h \/ \E e \in E : e.hash.tx = t
    BY <1>b, <1>t, <1>w, <2>1
  <2> QED
    BY <1>a, <1>f, <2>2
<1>n. ASSUME NextInBatch
      PROVE  /\ InHand' \subseteq b /\ bcast'.batch \subseteq b
             /\ bcast'.pc \notin {"idle", "drain", "exit"} => bcast'.tx \in b
  BY <1>t, <1>n, NextInBatchHand, NextInBatchEffect
<1>m. ASSUME bcast'.pc \notin {"idle", "drain", "exit"} =>
                bcast'.tx \in b \/ (bcast'.tx = bcast.tx /\ bcast.pc \notin {"idle", "drain", "exit"})
      PROVE  bcast'.pc \notin {"idle", "drain", "exit"} =>
                bcast'.tx \in Txs /\ caller'[bcast'.tx] = "enqueued"
  BY <1>a, <1>f, <1>m, <1>t DEF Alive
<1>d. ASSUME done' = done
      PROVE  /\ \A t \in q \cup b \cup h : t \notin done'
             /\ \A e \in E : e.hash.tx \notin done'
  BY <1>a, <1>b, <1>d, <1>t
<1>s. Alive' <=> /\ \A t \in Working' : caller'[t] = "enqueued" /\ t \notin done' /\ attempt'[t] < Rounds
                 /\ bcast'.pc \notin {"idle", "drain", "exit"} =>
                       bcast'.tx \in Txs /\ caller'[bcast'.tx] = "enqueued"
  BY DEF Alive, Working
<1>1. CASE Stays
  <2>1. h = {bcast.tx} /\ InHand' = {bcast.tx} /\ bcast.pc \notin {"idle", "drain", "exit"}
    BY <1>1 DEF Stays, Away, InHand
  <2>2. /\ ToSet(broadcastChan') = q /\ bcast'.batch = b /\ Entries' \subseteq E
        /\ done' = done /\ bcast'.tx = bcast.tx
    BY <1>1 DEF Stays, txVars
  <2> QED
    BY <1>d, <1>m, <1>s, <1>w, <2>1, <2>2
<1>2. CASE Takes
  <2>1. Head(broadcastChan) \in q /\ ToSet(broadcastChan') \subseteq q
    BY <1>0, <1>2, <1>t, ChannelReceive DEF Takes
  <2>2. InHand' = {} /\ bcast'.pc = "drain" /\ done' = done
    BY <1>2 DEF Takes, InHand, txVars
  <2>3. bcast'.batch = b \cup {Head(broadcastChan)} /\ Entries' = E
    BY <1>2 DEF Takes
  <2> QED
    BY <1>d, <1>m, <1>s, <1>w, <2>1, <2>2, <2>3
<1>3. CASE Starts \/ Drops \/ Marks
  <2>1. /\ ToSet(broadcastChan') = q /\ Entries' \subseteq E /\ NextInBatch
    BY <1>3 DEF Starts, Drops, Marks
  <2>2. done' = done
    BY <1>3 DEF Starts, Drops, Marks, txVars, UpdateStatus, Terminal
  <2> QED
    BY <1>d, <1>m, <1>n, <1>s, <1>w, <2>1, <2>2
<1>4. CASE Fails
  <2>1. /\ ToSet(broadcastChan') = q /\ Entries' \subseteq E /\ NextInBatch
        /\ done' = done \cup {bcast.tx}
    BY <1>4 DEF Fails, UpdateStatus, Terminal
  <2>2. h = {bcast.tx}
    BY <1>4 DEF Fails, Away, InHand
  <2>3. /\ \A t \in q \cup b : t \notin done'
        /\ \A e \in E : e.hash.tx \notin done'
    BY <1>0, <1>a, <1>b, <1>t, <2>1, <2>2 DEF Apart
  <2> QED
    BY <1>m, <1>n, <1>s, <1>w, <2>1, <2>3
<1>5. CASE Requeues
  <2>1. h = {bcast.tx} /\ bcast.tx \in Txs /\ done' = done
    BY <1>5, <1>b DEF Requeues, InHand, txVars
  <2>2. ToSet(broadcastChan') = q \cup {bcast.tx}
    BY <1>5, <1>t, <2>1, ChannelSend DEF Requeues
  <2>3. Entries' \subseteq E /\ NextInBatch
    BY <1>5 DEF Requeues
  <2> QED
    BY <1>d, <1>m, <1>n, <1>s, <1>w, <2>1, <2>2, <2>3
<1>6. CASE HandsOver
  <2>1. h = {bcast.tx} /\ InHand' = {} /\ bcast.pc \notin {"idle", "drain", "exit"}
    BY <1>6 DEF HandsOver, InHand
  <2>2. PICK e \in signed : Entries' = E \cup {e}
    BY <1>6 DEF HandsOver
  <2>3. e.hash.tx = bcast.tx
    BY <1>6, <2>2 DEF HandsOver, LoopPoints, BroadcastPoints, ConfirmPoints, Broadcasts
  <2>4. ToSet(broadcastChan') = q /\ bcast'.batch = b /\ bcast'.tx = bcast.tx /\ done' = done
    BY <1>6 DEF HandsOver, txVars
  <2> QED
    BY <1>d, <1>m, <1>s, <1>w, <2>1, <2>2, <2>3, <2>4
<1>7. CASE Leaves
  <2>1. /\ InHand' = {} /\ ToSet(broadcastChan') = q /\ bcast'.batch = b /\ Entries' = E
        /\ done' = done /\ bcast'.pc = "exit"
    BY <1>7 DEF Leaves, InHand, txVars
  <2> QED
    BY <1>d, <1>m, <1>s, <1>w, <2>1
<1> QED
  BY <1>1, <1>2, <1>3, <1>4, <1>5, <1>6, <1>7, <1>t, BroadcastMoves

\* ... the confirmer counts an attempt before it queues the next,
LEMMA ConfirmAlive ==
    ASSUME TypeOK, OnePlace, Alive, LoopPoints, ConfirmStep
    PROVE  Alive'
<1> DEFINE q == ToSet(broadcastChan)
           b == bcast.batch
           h == InHand
           E == Entries
<1>0. Apart(q, b, h, E) /\ broadcastChan \in Seq(Txs) /\ attempt \in [Txs -> Nat]
  BY OnePlaceIs DEF TypeOK, TxTypes
<1>f. bcast' = bcast /\ caller' = caller /\ (Keeps \/ Concludes \/ Retries)
  BY ConfirmMoves DEF TypeOK, LoopPoints, BroadcastPoints, ConfirmPoints
<1>g. InHand' = h /\ bcast'.batch = b
  BY <1>f DEF InHand
<1>a. ASSUME NEW t, t \in q \/ t \in b \/ t \in h \/ \E e \in E : t = e.hash.tx
      PROVE  caller[t] = "enqueued" /\ t \notin done /\ attempt[t] < Rounds
  BY <1>a DEF Alive, Queued, Tracked
<1>b. ASSUME NEW t, t \in q \/ t \in b \/ t \in h \/ \E e \in E : t = e.hash.tx
      PROVE  t \in Txs
  BY <1>b, WorkingTypes
<1>s. ASSUME \A t : t \in ToSet(broadcastChan') \/ t \in b \/ t \in h \/ (\E e \in Entries' : t = e.hash.tx)
                => caller[t] = "enqueued" /\ t \notin done' /\ attempt'[t] < Rounds
      PROVE  Alive'
  <2>1. \A t \in Working' : caller'[t] = "enqueued" /\ t \notin done' /\ attempt'[t] < Rounds
    BY <1>f, <1>g, <1>s DEF Working, Queued, Tracked
  <2>2. bcast'.pc \notin {"idle", "drain", "exit"} =>
                       bcast'.tx \in Txs /\ caller'[bcast'.tx] = "enqueued"
    BY <1>f DEF Alive
  <2> QED
    BY <2>1, <2>2 DEF Alive, Working
<1>1. CASE Keeps
  <2>1. /\ ToSet(broadcastChan') = q /\ Entries' \subseteq E
        /\ done' = done /\ attempt' = attempt
    BY <1>1 DEF Keeps, txVars
  <2> QED
    BY <1>a, <1>s, <2>1
<1>c. ASSUME Concludes \/ Retries
      PROVE  CurEntry \in E /\ CurEntry.hash.tx \in Txs
  <2>1. CurEntry \in E
    BY <1>c, CurEntryLeft DEF Concludes, Retries, LoopPoints, BroadcastPoints, ConfirmPoints, TypeOK, Entries
  <2> QED
    BY <2>1 DEF TypeOK, StoreTypes, NetTypes, Entries, Store!Envelope, Hashes
<1>2. CASE Concludes
  <2>1. PICK c \in E : c = CurEntry /\ c.hash.tx \in Txs
    BY <1>2, <1>c
  <2>2. /\ ToSet(broadcastChan') = q /\ Entries' = E \ {c}
        /\ done' = done \cup {c.hash.tx}
        /\ attempt' = attempt \/ attempt' = [attempt EXCEPT ![c.hash.tx] = @ + 1]
    BY <1>2, <2>1 DEF Concludes, UpdateStatus, Terminal
  <2>3. ASSUME NEW t, t \in q \/ t \in b \/ t \in h \/ \E e \in E \ {c} : t = e.hash.tx
        PROVE  t # c.hash.tx
    BY <1>0, <2>1, <2>3 DEF Apart
  <2>4. ASSUME NEW t \in Txs, t # c.hash.tx
        PROVE  attempt'[t] = attempt[t]
    BY <1>0, <2>2, <2>4
  <2> HIDE DEF q, b, h, E
  <2> QED
    BY <1>a, <1>b, <1>s, <2>2, <2>3, <2>4
<1>3. CASE Retries
  <2>1. PICK c \in E : c = CurEntry /\ c.hash.tx \in Txs
    BY <1>3, <1>c
  <2>2. /\ ToSet(broadcastChan') = q \cup {c.hash.tx} /\ Entries' = E \ {c}
        /\ done' = done
        /\ attempt' = [attempt EXCEPT ![c.hash.tx] = @ + 1]
        /\ attempt[c.hash.tx] + 1 < MaxTxRetryAttempts
    BY <1>0, <1>3, <2>1, ChannelSend DEF Retries, txVars
  <2>3. ASSUME NEW t, t \in q \/ t \in b \/ t \in h \/ \E e \in E \ {c} : t = e.hash.tx
        PROVE  t # c.hash.tx
    BY <1>0, <2>1, <2>3 DEF Apart
  <2>4. ASSUME NEW t \in Txs, t # c.hash.tx
        PROVE  attempt'[t] = attempt[t]
    BY <1>0, <2>2, <2>4
  <2>5. attempt'[c.hash.tx] < Rounds
    BY <1>0, <2>1, <2>2, TxmAssumption DEF Rounds
  <2>6. caller[c.hash.tx] = "enqueued" /\ c.hash.tx \notin done
    BY <1>a, <2>1
  <2> HIDE DEF q, b, h, E
  <2> QED
    BY <1>a, <1>b, <1>s, <2>2, <2>3, <2>4, <2>5, <2>6
<1> QED
  BY <1>1, <1>2, <1>3, <1>f

\* ... and a caller that evicts another's transaction takes it out of the channel.
LEMMA CallerAlive ==
    ASSUME TypeOK, OnePlace, Alive, Registered, Budget,
           NEW t \in Txs, CallerStep(t) \/ Prune(t)
    PROVE  Alive'
<1> DEFINE q == ToSet(broadcastChan)
           b == bcast.batch
           h == InHand
           E == Entries
<1>0. /\ Distinct(broadcastChan) /\ Apart(q, b, h, E) /\ broadcastChan \in Seq(Txs)
      /\ caller \in [Txs -> {"idle", "push", "evict", "repush", "enqueued",
                           "duplicate", "rejected"}]
  BY OnePlaceIs DEF TypeOK, TxTypes
<1>g. InHand' = h /\ bcast' = bcast /\ Entries' = E /\ attempt' = attempt
  BY DEF CallerStep, Enqueue, Push, Evict, Repush, Prune, InHand, Entries, storeVars, retryVars
<1>a. ASSUME NEW u, u \in q \/ u \in b \/ u \in h \/ \E e \in E : u = e.hash.tx
      PROVE  caller[u] = "enqueued" /\ u \notin done /\ attempt[u] < Rounds
  BY <1>a DEF Alive, Queued, Tracked
<1>b. ASSUME NEW u, u \in q \/ u \in b \/ u \in h \/ \E e \in E : u = e.hash.tx
      PROVE  u \in Txs
  BY <1>b, WorkingTypes
<1>e. ASSUME NEW u \in Txs, caller[u] = "enqueued"
      PROVE  caller'[u] = "enqueued"
  BY <1>0, <1>e DEF CallerStep, Enqueue, Push, Evict, Repush, Prune
<1>s. ASSUME \A u : u \in ToSet(broadcastChan') \/ u \in b \/ u \in h \/ (\E e \in E : u = e.hash.tx)
                => caller'[u] = "enqueued" /\ u \notin done' /\ attempt[u] < Rounds
      PROVE  Alive'
  <2>1. \A u \in Working' : caller'[u] = "enqueued" /\ u \notin done' /\ attempt'[u] < Rounds
    BY <1>g, <1>s DEF Working, Queued, Tracked
  <2>2. bcast'.pc \notin {"idle", "drain", "exit"} =>
                       bcast'.tx \in Txs /\ caller'[bcast'.tx] = "enqueued"
    BY <1>e, <1>g DEF Alive
  <2> QED
    BY <2>1, <2>2 DEF Alive, Working
<1>1. CASE broadcastChan' = broadcastChan /\ (done' = done \/ (done' = done \cup {t} /\ caller[t] = "idle"))
  <2>1. ToSet(broadcastChan') = q
    BY <1>1
  <2> QED
    BY <1>1, <1>a, <1>b, <1>e, <1>s, <2>1
<1>2. CASE /\ caller[t] \in {"push", "repush"}
           /\ caller' = [caller EXCEPT ![t] = "enqueued"]
           /\ broadcastChan' = Append(broadcastChan, t)
           /\ done' = done
  <2>1. ToSet(broadcastChan') = q \cup {t}
    BY <1>0, <1>2, ChannelSend
  <2>2. caller'[t] = "enqueued" /\ t \notin done
    BY <1>0, <1>2 DEF Registered
  <2>3. attempt[t] < Rounds
    <3>1. Rounds \in Nat \ {0}
      BY TxmAssumption DEF Rounds
    <3>2. attempt[t] = 0
      BY <1>2 DEF Budget
    <3> QED
      BY <3>1, <3>2
  <2> QED
    BY <1>2, <1>a, <1>b, <1>e, <1>s, <2>1, <2>2, <2>3
<1>3. CASE /\ broadcastChan # <<>> /\ broadcastChan' = Tail(broadcastChan)
           /\ done' = done \/ done' = done \cup {Head(broadcastChan)}
  <2>1. PICK x : x = Head(broadcastChan)
    OBVIOUS
  <2>2. x \in q /\ ToSet(broadcastChan') = q \ {x}
    BY <1>0, <1>3, <2>1, ChannelReceive
  <2>3. \A u : u \in q \ {x} \/ u \in b \/ u \in h \/ (\E e \in E : u = e.hash.tx) => u # x
    BY <1>0, <2>2 DEF Apart
  <2> QED
    BY <1>3, <1>a, <1>b, <1>e, <1>s, <2>1, <2>2, <2>3
<1>4. ASSUME Evict(t)
      PROVE  \/ broadcastChan' = broadcastChan /\ done' = done
             \/ /\ broadcastChan # <<>> /\ broadcastChan' = Tail(broadcastChan)
                /\ done' = done \/ done' = done \cup {Head(broadcastChan)}
  BY <1>4 DEF Evict, UpdateStatus, Terminal, txVars
<1>5. ASSUME Enqueue(t) \/ Push(t) \/ Repush(t) \/ Prune(t)
      PROVE  \/ /\ broadcastChan' = broadcastChan
                /\ done' = done \/ (done' = done \cup {t} /\ caller[t] = "idle")
             \/ /\ caller[t] \in {"push", "repush"}
                /\ caller' = [caller EXCEPT ![t] = "enqueued"]
                /\ broadcastChan' = Append(broadcastChan, t)
                /\ done' = done
  BY <1>5 DEF Enqueue, Push, Repush, Prune, txVars
<1> QED
  BY <1>1, <1>2, <1>3, <1>4, <1>5 DEF CallerStep

-----------------------------------------------------------------------------
(* The map of transactions.                                                *)

\* Nothing changes for it unless a transaction, its status or its caller does.
LEMMA RegisteredFrame ==
    ASSUME Registered, UNCHANGED <<caller, txVars>>
    PROVE  Registered'
  BY DEF Registered, txVars

\* A transaction that comes to its end leaves the map, if at all, alone.
LEMMA FinishRegistered ==
    ASSUME TxTypes, Registered, caller' = caller,
           NEW x \in Txs \ done, caller[x] = "enqueued",
           NEW s \in Terminal, UpdateStatus(x, s)
    PROVE  Registered'
<1>1. x \in transactions
  BY DEF Registered
<1>2. /\ done' = done \cup {x}
      /\ status' = [status EXCEPT ![x] = s]
      /\ transactions' \subseteq transactions
      /\ \A u \in transactions : u \in transactions' \/ IdOf[u] = IdOf[x]
  BY DEF UpdateStatus, Forget
<1>3. \A u \in transactions : u \in transactions' \/ u = x
  BY <1>1, <1>2 DEF Registered
<1>4. \A u \in Txs : status'[u] \in Terminal => u \in done'
  BY <1>2 DEF Registered, TxTypes
<1> QED
  BY <1>2, <1>3, <1>4 DEF Registered

\* A step of the broadcaster keeps it,
LEMMA BroadcastRegistered ==
    ASSUME TypeOK, Alive, Registered, BroadcastStep
    PROVE  Registered'
<1>1. caller' = caller /\ LoopTypes /\ TxTypes
  BY BroadcastMoves DEF TypeOK
<1>2. CASE UNCHANGED txVars
  BY <1>1, <1>2, RegisteredFrame
<1>3. CASE Fails
  <2>1. bcast.tx \in Txs \ done /\ caller[bcast.tx] = "enqueued"
    BY <1>3 DEF Fails, Away, Alive, InHand
  <2> QED
    BY <1>1, <1>3, <2>1, FinishRegistered DEF Fails, Terminal
<1>4. CASE Marks
  <2>1. /\ transactions' = transactions /\ done' = done
        /\ status' = [status EXCEPT ![bcast.tx] = "Unconfirmed"]
    BY <1>4 DEF Marks, UpdateStatus, Terminal
  <2>2. \A u \in Txs : status'[u] \in Terminal => u \in done'
    BY <1>1, <2>1 DEF Registered, TxTypes, Terminal
  <2> QED
    BY <1>1, <2>1, <2>2 DEF Registered
<1> QED
  BY <1>1, <1>2, <1>3, <1>4, BroadcastMoves
      DEF Stays, Takes, Starts, Requeues, Drops, HandsOver, Leaves

\* ... so does one of the confirmer,
LEMMA ConfirmRegistered ==
    ASSUME TypeOK, Alive, Registered, LoopPoints, ConfirmStep
    PROVE  Registered'
<1>1. caller' = caller /\ (Keeps \/ Concludes \/ Retries)
  BY ConfirmMoves DEF TypeOK, LoopPoints, BroadcastPoints, ConfirmPoints
<1>2. CASE UNCHANGED txVars
  BY <1>1, <1>2, RegisteredFrame
<1>3. CASE Concludes
  <2>1. CurEntry \in Entries
    BY <1>3, CurEntryLeft DEF Concludes, LoopPoints, BroadcastPoints, ConfirmPoints, TypeOK, Entries
  <2>2. PICK x : x = CurEntry.hash.tx
    OBVIOUS
  <2>3. x \in Txs
    BY <2>1, <2>2, WorkingTypes
  <2>4. caller[x] = "enqueued" /\ x \notin done
    BY <2>1, <2>2 DEF Alive, Tracked
  <2>5. UpdateStatus(x, "Finalized") \/ UpdateStatus(x, "Failed")
    BY <1>3, <2>2 DEF Concludes
  <2> QED
    BY <1>1, <2>3, <2>4, <2>5, FinishRegistered DEF TypeOK, Terminal
<1> QED
  BY <1>1, <1>2, <1>3 DEF Keeps, Retries

\* ... and one of a caller or of the pruning loop.
LEMMA CallerRegistered ==
    ASSUME TypeOK, OnePlace, Alive, Registered, NEW t \in Txs, CallerStep(t) \/ Prune(t)
    PROVE  Registered'
<1>t. TxTypes /\ broadcastChan \in Seq(Txs) /\ Distinct(broadcastChan)
  BY OnePlaceIs DEF TypeOK, TxTypes
<1>1. CASE Enqueue(t)
  BY <1>1, <1>t DEF Enqueue, Registered, TxTypes
<1>2. CASE Push(t)
  BY <1>2, <1>t DEF Push, Registered, TxTypes, txVars
<1>3. CASE Evict(t)
  <2>1. CASE UNCHANGED txVars
    BY <1>3, <1>t, <2>1 DEF Evict, Registered, TxTypes, txVars
  <2>2. CASE broadcastChan # <<>> /\ UpdateStatus(Head(broadcastChan), "Failed")
    <3>1. PICK x : x = Head(broadcastChan)
      OBVIOUS
    <3>2. x \in ToSet(broadcastChan)
      BY <1>t, <2>2, <3>1, ChannelReceive
    <3>3. x \in Txs \ done /\ caller[x] = "enqueued"
      BY <3>2, WorkingTypes DEF Alive, Queued
    <3>4. x \in transactions
      BY <3>3 DEF Registered
    <3>5. /\ done' = done \cup {x}
          /\ status' = [status EXCEPT ![x] = "Failed"]
          /\ transactions' \subseteq transactions
          /\ \A u \in transactions : u \in transactions' \/ IdOf[u] = IdOf[x]
      BY <2>2, <3>1 DEF UpdateStatus, Forget, Terminal
    <3>6. \A u \in transactions : u \in transactions' \/ u = x
      BY <3>4, <3>5 DEF Registered
    <3>7. \A u \in Txs : status'[u] \in Terminal => u \in done'
      BY <1>t, <3>5 DEF Registered, TxTypes
    <3>8. caller[t] = "evict" /\ caller' = [caller EXCEPT ![t] = "repush"]
      BY <1>3 DEF Evict
    <3>9. \A u \in Txs \ {t} : caller'[u] = caller[u]
      BY <1>t, <3>8 DEF TxTypes
    <3>10. caller'[t] = "repush" /\ t \notin done /\ t # x
      BY <1>t, <3>3, <3>8 DEF TxTypes, Registered
    <3> QED
      BY <1>t, <3>3, <3>5, <3>6, <3>7, <3>8, <3>9, <3>10 DEF Registered, TxTypes
  <2> QED
    BY <1>3, <2>1, <2>2 DEF Evict
<1>4. CASE Repush(t)
  <2>1. CASE UNCHANGED transactions
    BY <1>4, <1>t, <2>1 DEF Repush, Registered, TxTypes
  <2>2. CASE transactions' = Forget(t) /\ caller' = [caller EXCEPT ![t] = "rejected"]
    <3>1. t \in transactions /\ t \notin done
      BY <1>4 DEF Repush, Registered
    <3>2. transactions' = transactions \ {t}
      BY <2>2, <3>1 DEF Forget, Registered
    <3>3. UNCHANGED <<status, done>>
      BY <1>4 DEF Repush
    <3> QED
      BY <1>t, <2>2, <3>1, <3>2, <3>3 DEF Registered, TxTypes
  <2> QED
    BY <1>4, <2>1, <2>2 DEF Repush
<1>5. CASE Prune(t)
  <2>1. t \in transactions /\ t \in done
    BY <1>5 DEF Prune, Registered
  <2>2. transactions' = transactions \ {t}
    BY <1>5, <2>1 DEF Prune, Forget, Registered
  <2> QED
    BY <1>5, <2>1, <2>2 DEF Prune, Registered
<1> QED
  BY <1>1, <1>2, <1>3, <1>4, <1>5 DEF CallerStep

-----------------------------------------------------------------------------
(* The points of the loops.                                                *)

\* Sends and releases of the broadcaster hold a sequence; what was accepted is a
\* broadcast of its transaction.
LEMMA BroadcastPointsKept ==
    ASSUME TypeOK, Alive, BroadcastPoints, EnvelopesKept, Budget, BroadcastStep
    PROVE  BroadcastPoints'
<1>a. bcast \in BroadcastState /\ MaxSubmitRetryAttempts \in Nat
  BY TxmAssumption DEF TypeOK, LoopTypes, BroadcastState
<1>b. ASSUME NextInBatch
      PROVE  BroadcastPoints'
  <2>1. /\ bcast'.tries = 0 /\ bcast'.restored = FALSE
        /\ \/ bcast'.pc = "idle" /\ bcast'.tx = NoTx
           \/ bcast'.pc = "client"
    BY <1>a, <1>b, NextInBatchEffect
  <2> QED
    BY <1>a, <2>1 DEF BroadcastPoints
<1>c. /\ nextSequence \in Nat /\ failedSequences \subseteq Nat \ {0} /\ held \in Nat
      /\ seqNum \in Nat /\ SeqNumRead \subseteq Nat
  BY DEF TypeOK, StoreTypes, NetTypes, SeqNumRead
<1>d. ASSUME bcast.pc \in {"send", "restore"},
             NEW max \in NoBounds .. MaxLedger + LedgerBoundsOffset, Deliver(max)
      PROVE  /\ held' = held
             /\ \A e \in signed' : e \in sent' /\ e.hash.tx = bcast.tx /\ e.hash.max = max
  <2>1. bcast.tx \in Txs
    BY <1>d DEF Alive
  <2>2. PICK e : signed' = {e} /\ sent' = sent \cup {e} /\ e.hash.tx = bcast.tx /\ e.hash.max = max
    BY <1>d, <2>1, Delivered
  <2> QED
    BY <1>d, <2>2 DEF Deliver
<1>e. bcast.max \in NoBounds .. MaxLedger + LedgerBoundsOffset /\ bcast.max # NoBounds
      /\ NoBounds \in NoBounds .. MaxLedger + LedgerBoundsOffset
  BY <1>a, TxmAssumption DEF BroadcastState, NoBounds
<1>1. CASE Receive
  BY <1>a, <1>1 DEF Receive, BroadcastPoints, BroadcastState, NoTx
<1>2. CASE SortBatch
  BY <1>b, <1>2 DEF SortBatch
<1>3. CASE GetClient
  BY <1>a, <1>3 DEF GetClient, BroadcastPoints, BroadcastState, Store!StoreExists, Store!NoSeq, storeVars, seqVars, netVars
<1>4. CASE RetryGetClientOrFail
  BY <1>b, <1>4 DEF RetryGetClientOrFail
<1>5. CASE CreateStore
  <2>1. CASE NextInBatch
    BY <1>b, <2>1
  <2>2. CASE ~NextInBatch
    BY <1>a, <1>c, <1>5, <2>2 DEF CreateStore, BroadcastPoints, BroadcastState, Store!StoreExists, Store!NoSeq, Store!CreateTxStore
  <2> QED
    BY <2>1, <2>2
<1>6. CASE Resync
  <2>1. nextSequence' # 0 /\ bcast.pc \in {"resync", "restored"}
    BY <1>c, <1>6 DEF Resync, Store!ResyncNonce, BroadcastPoints, Store!StoreExists, Store!NoSeq, storeVars
  <2> QED
    BY <1>a, <1>6, <2>1 DEF Resync, BroadcastPoints, BroadcastState, Store!StoreExists, Store!NoSeq
<1>7. CASE ReadSequence
  <2>1. held' # 0 /\ nextSequence' = nextSequence /\ nextSequence # 0
    BY <1>c, <1>7 DEF ReadSequence, BroadcastPoints, Store!StoreExists, Store!NoSeq, storeVars
  <2> QED
    BY <1>a, <1>7, <2>1 DEF ReadSequence, BroadcastPoints, BroadcastState, Store!StoreExists, Store!NoSeq
<1>8. CASE Simulate
  <2>1. CASE ReleaseAndFail
    BY <1>b, <2>1 DEF ReleaseAndFail
  <2>2. CASE ~ReleaseAndFail
    BY <1>a, <1>8, <2>2 DEF Simulate, BroadcastPoints, BroadcastState, Store!StoreExists, Store!NoSeq, storeVars, seqVars, netVars
  <2> QED
    BY <2>1, <2>2
<1>9. CASE SubmitExhausted
  BY <1>b, <1>9 DEF SubmitExhausted, ReleaseAndFail
<1>10. CASE SendAccepted
  <2>1. /\ bcast' = [bcast EXCEPT !.pc = "accepted"] /\ bcast.pc = "send"
        /\ nextSequence' = nextSequence
    BY <1>10 DEF SendAccepted, storeVars
  <2>2. /\ held' = held
        /\ \A e \in signed' : e \in sent' /\ e.hash.tx = bcast.tx /\ e.hash.max # NoBounds
    BY <1>d, <1>e, <1>10 DEF SendAccepted
  <2>3. bcast'.tx = bcast.tx
    BY <1>a, <2>1 DEF BroadcastState
  <2>4. \A e \in signed' : e \in Broadcasts(bcast.tx)'
    BY <2>2, <2>3 DEF Broadcasts
  <2> QED
    BY <1>a, <2>1, <2>2, <2>3, <2>4 DEF BroadcastPoints, BroadcastState, Store!StoreExists
<1>11. CASE SendFails
  <2>1. held' = held
    BY <1>d, <1>e, <1>11 DEF SendFails, seqVars, Deliver
  <2> QED
    BY <1>a, <1>11, <2>1 DEF SendFails, BroadcastPoints, BroadcastState, Store!StoreExists, Store!NoSeq, storeVars
<1>12. CASE SendRetryable
  BY <1>a, <1>12 DEF SendRetryable, BroadcastPoints, BroadcastState, Store!StoreExists, Store!NoSeq, storeVars, seqVars, netVars
<1>13. CASE Backoff
  <2>1. CASE NextInBatch
    BY <1>b, <2>1
  <2>2. CASE ~NextInBatch
    BY <1>a, <1>13, <2>2 DEF Backoff, BroadcastPoints, BroadcastState, Store!StoreExists, Store!NoSeq, storeVars, seqVars, netVars
  <2> QED
    BY <2>1, <2>2
<1>14. CASE SendBadSeq
  BY <1>a, <1>14 DEF SendBadSeq, BroadcastPoints, BroadcastState, Store!StoreExists, Store!NoSeq, storeVars, seqVars, netVars
<1>15. CASE SendRejected
  BY <1>b, <1>15 DEF SendRejected, ReleaseAndFail
<1>16. CASE AddUnconfirmed
  <2>1. CASE ReleaseAndFail
    BY <1>b, <2>1 DEF ReleaseAndFail
  <2>2. CASE ~ReleaseAndFail
    BY <1>a, <1>16, <2>2 DEF AddUnconfirmed, BroadcastPoints, BroadcastState, Store!StoreExists, Store!NoSeq
  <2> QED
    BY <2>1, <2>2
<1>17. CASE MarkUnconfirmed
  BY <1>b, <1>17 DEF MarkUnconfirmed
<1>18. CASE RestoreSend
  <2>1. held' = held
    BY <1>18 DEF RestoreSend, Deliver
  <2> QED
    BY <1>a, <1>18, <2>1 DEF RestoreSend, BroadcastPoints, BroadcastState, Store!StoreExists, Store!NoSeq, storeVars
<1>19. CASE RestorePoll
  BY <1>a, <1>19 DEF RestorePoll, BroadcastPoints, BroadcastState, Store!StoreExists, Store!NoSeq, storeVars, seqVars, netVars
<1>20. CASE RestoreResync
  <2>1. nextSequence' # 0 /\ bcast.pc \in {"resync", "restored"}
    BY <1>c, <1>20 DEF RestoreResync, Store!ResyncNonce, BroadcastPoints, Store!StoreExists, Store!NoSeq, storeVars
  <2> QED
    BY <1>a, <1>20, <2>1 DEF RestoreResync, BroadcastPoints, BroadcastState, Store!StoreExists, Store!NoSeq
<1>21. CASE RestoreFails
  BY <1>b, <1>21 DEF RestoreFails, ReleaseAndFail
<1>22. CASE BroadcastExit
  BY <1>a, <1>22 DEF BroadcastExit, BroadcastPoints, BroadcastState, NoTx
<1> QED
  BY <1>1, <1>2, <1>3, <1>4, <1>5, <1>6, <1>7, <1>8, <1>9, <1>10, <1>11, <1>12, <1>13, <1>14, <1>15, <1>16, <1>17, <1>18, <1>19, <1>20, <1>21, <1>22 DEF BroadcastStep

\* What the broadcaster does to the entries in flight: only AddUnconfirmed adds one.
LEMMA BroadcastUnconfirmed ==
    ASSUME BroadcastStep
    PROVE  /\ UNCHANGED <<confirm, seqNum, result, ledger, old>>
           /\ \/ unconfirmedSequences' \subseteq unconfirmedSequences
              \/ /\ bcast.pc = "accepted"
                 /\ sent' = sent
                 /\ \E e \in signed : unconfirmedSequences' = unconfirmedSequences \cup {e}
<1>a. ASSUME ReleaseAndFail
      PROVE  unconfirmedSequences' \subseteq unconfirmedSequences
  BY <1>a DEF ReleaseAndFail, Release, Store!Release
<1>1. CASE Receive
  BY <1>1 DEF Receive, storeVars, netVars
<1>2. CASE SortBatch
  BY <1>2 DEF SortBatch, storeVars, netVars
<1>3. CASE GetClient
  BY <1>3 DEF GetClient, storeVars, netVars
<1>4. CASE RetryGetClientOrFail
  BY <1>4 DEF RetryGetClientOrFail, storeVars, netVars
<1>5. CASE CreateStore
  BY <1>5 DEF CreateStore, storeVars, netVars, Store!CreateTxStore
<1>6. CASE Resync
  BY <1>6 DEF Resync, storeVars, netVars, Store!ResyncNonce
<1>7. CASE ReadSequence
  BY <1>7 DEF ReadSequence, storeVars, netVars
<1>8. CASE Simulate
  BY <1>a, <1>8 DEF Simulate, storeVars, netVars
<1>9. CASE SubmitExhausted
  BY <1>a, <1>9 DEF SubmitExhausted, storeVars, netVars
<1>10. CASE SendAccepted
  BY <1>10 DEF SendAccepted, storeVars, netVars, Deliver
<1>11. CASE SendFails
  BY <1>11 DEF SendFails, storeVars, netVars, Deliver
<1>12. CASE SendRetryable
  BY <1>12 DEF SendRetryable, storeVars, netVars
<1>13. CASE Backoff
  BY <1>13 DEF Backoff, storeVars, netVars, Release, Store!Release
<1>14. CASE SendBadSeq
  BY <1>14 DEF SendBadSeq, storeVars, netVars
<1>15. CASE SendRejected
  BY <1>a, <1>15 DEF SendRejected, storeVars, netVars
<1>16. CASE AddUnconfirmed
  BY <1>a, <1>16 DEF AddUnconfirmed, storeVars, netVars, Store!AddUnconfirmed
<1>17. CASE MarkUnconfirmed
  BY <1>17 DEF MarkUnconfirmed, storeVars, netVars
<1>18. CASE RestoreSend
  BY <1>18 DEF RestoreSend, storeVars, netVars, Deliver
<1>19. CASE RestorePoll
  BY <1>19 DEF RestorePoll, storeVars, netVars
<1>20. CASE RestoreResync
  BY <1>20 DEF RestoreResync, storeVars, netVars, Store!ResyncNonce
<1>21. CASE RestoreFails
  BY <1>a, <1>21 DEF RestoreFails, storeVars, netVars
<1>22. CASE BroadcastExit
  BY <1>22 DEF BroadcastExit, storeVars, netVars
<1> QED
  BY <1>1, <1>2, <1>3, <1>4, <1>5, <1>6, <1>7, <1>8, <1>9, <1>10, <1>11, <1>12, <1>13, <1>14, <1>15, <1>16, <1>17, <1>18, <1>19, <1>20, <1>21, <1>22 DEF BroadcastStep

\* Nothing of it disturbs the confirmer at its point,
LEMMA BroadcastConfirmPoints ==
    ASSUME TypeOK, OnePlace, BroadcastPoints, ConfirmPoints, BroadcastStep
    PROVE  ConfirmPoints'
<1>1. UNCHANGED <<confirm, result>>
  BY BroadcastUnconfirmed
<1>2. CurEntry' = CurEntry
  BY <1>1 DEF CurEntry
<1>3. ASSUME confirm.pc \in {"finalize", "fail", "retry"}
      PROVE  CurEntry \notin unconfirmedSequences'
  <2>1. CurEntry \in Entries /\ CurEntry \notin unconfirmedSequences
    BY <1>3, CurEntryLeft DEF ConfirmPoints, TypeOK, Entries
  <2>2. CASE unconfirmedSequences' \subseteq unconfirmedSequences
    BY <2>1, <2>2
  <2>3. ASSUME bcast.pc = "accepted", NEW e \in signed,
               unconfirmedSequences' = unconfirmedSequences \cup {e}
        PROVE  CurEntry \notin unconfirmedSequences'
    <3>1. e.hash.tx = bcast.tx /\ InHand = {bcast.tx}
      BY <2>3 DEF BroadcastPoints, Broadcasts, InHand
    <3>2. CurEntry.hash.tx # bcast.tx
      BY <2>1, <3>1 DEF OnePlace, Tracked
    <3> QED
      BY <2>1, <2>3, <3>1, <3>2
  <2> QED
    BY <2>2, <2>3, BroadcastUnconfirmed
<1> QED
  BY <1>1, <1>2, <1>3 DEF ConfirmPoints

\* ... which knows what it is about to conclude.
LEMMA ConfirmPointsKept ==
    ASSUME TypeOK, ConfirmPoints, ConfirmStep
    PROVE  ConfirmPoints'
<1>a. /\ confirm \in [pc : ConfirmPcs, queue : SUBSET Store!Envelope]
      /\ confirm.queue # {} => CurEntry \in confirm.queue
  BY CurEntryLeft DEF TypeOK, LoopTypes
<1>b. ASSUME NextEntry, confirm.queue # {}
      PROVE  ConfirmPoints'
  <2>1. confirm'.pc \in {"idle", "get"} /\ (confirm'.pc = "idle" <=> confirm'.queue = {})
    BY <1>a, <1>b DEF NextEntry
  <2> QED
    BY <2>1 DEF ConfirmPoints
<1>c. ASSUME confirm' = [confirm EXCEPT !.pc = confirm'.pc],
             confirm'.pc \notin {"idle", "exit"}, confirm.pc \notin {"idle", "exit"},
             confirm'.pc \in {"finalize", "fail", "retry"} => CurEntry \notin unconfirmedSequences',
             confirm'.pc = "finalize" => CurEntry \in DOMAIN result' /\ result'[CurEntry] = "success"
      PROVE  ConfirmPoints'
  <2>1. confirm'.queue = confirm.queue
    BY <1>a, <1>c
  <2>2. CurEntry' = CurEntry
    BY <2>1 DEF CurEntry
  <2> QED
    BY <1>c, <2>1, <2>2 DEF ConfirmPoints
<1>1. CASE Snapshot
  <2>1. confirm'.pc = "get" /\ confirm'.queue # {}
    BY <1>1 DEF Snapshot
  <2> QED
    BY <2>1 DEF ConfirmPoints
<1>2. CASE Found
  <2>0. confirm.queue # {} /\ confirm.pc = "get" /\ result' = result /\ CurEntry \in DOMAIN result
    BY <1>2 DEF Found, ConfirmPoints, netVars
  <2>1. CASE NextEntry
    BY <1>b, <2>0, <2>1
  <2>2. CASE ~NextEntry
    <3>1. /\ CurEntry \notin unconfirmedSequences'
          /\ confirm' = [confirm EXCEPT !.pc = Verdict(result[CurEntry])]
      BY <1>2, <2>2 DEF Found, Store!Confirm
    <3>2. /\ Verdict(result[CurEntry]) \in {"finalize", "fail", "retry"}
          /\ Verdict(result[CurEntry]) = "finalize" => result[CurEntry] = "success"
      BY <2>0 DEF Verdict, TypeOK, NetTypes
    <3>3. confirm'.pc = Verdict(result[CurEntry])
      BY <1>a, <3>1
    <3> QED
      BY <1>c, <2>0, <3>1, <3>2, <3>3
  <2> QED
    BY <2>1, <2>2
<1>3. CASE NotFound
  <2>1. /\ confirm.pc = "get" /\ confirm' = [confirm EXCEPT !.pc = "expiry"]
        /\ unconfirmedSequences' = unconfirmedSequences
    BY <1>3 DEF NotFound, storeVars
  <2>2. confirm'.pc = "expiry"
    BY <1>a, <2>1
  <2> QED
    BY <1>c, <2>1, <2>2
<1>4. CASE Expire
  <2>1. /\ confirm.pc = "expiry"
        /\ \/ confirm' = [confirm EXCEPT !.pc = "fail"]
           \/ confirm' = [confirm EXCEPT !.pc = "retry"]
        /\ CurEntry \notin unconfirmedSequences'
    BY <1>4 DEF Expire, Store!Confirm, storeVars
  <2>2. confirm'.pc \in {"fail", "retry"} /\ confirm' = [confirm EXCEPT !.pc = confirm'.pc]
    BY <1>a, <2>1
  <2> QED
    BY <1>c, <2>1, <2>2
<1>5. CASE StillPending
  BY <1>b, <1>5 DEF StillPending, ConfirmPoints
<1>6. CASE Conclude
  BY <1>b, <1>6 DEF Conclude, ConfirmPoints
<1>7. CASE ConfirmExit
  <2>1. confirm'.pc = "exit" /\ confirm'.queue = {}
    BY <1>a, <1>7 DEF ConfirmExit, ConfirmPoints
  <2> QED
    BY <2>1 DEF ConfirmPoints
<1> QED
  BY <1>1, <1>2, <1>3, <1>4, <1>5, <1>6, <1>7 DEF ConfirmStep

\* Both loops stand where they stood while nobody moves them.
LEMMA PointsFrame ==
    ASSUME LoopPoints, UNCHANGED <<bcast, confirm, storeVars, seqVars, sent, result>>
    PROVE  LoopPoints'
  BY DEF LoopPoints, BroadcastPoints, ConfirmPoints, CurEntry, Broadcasts, storeVars,
         seqVars, Store!StoreExists

\* A confirming step leaves the broadcaster where it is.
LEMMA ConfirmBroadcastPoints ==
    ASSUME BroadcastPoints, ConfirmStep
    PROVE  BroadcastPoints'
<1>1. UNCHANGED <<bcast, held, signed, sent, nextSequence>>
  BY DEF ConfirmStep, Snapshot, Found, NotFound, Expire, StillPending, Conclude, ConfirmExit,
         Store!Confirm, storeVars, seqVars, netVars
<1> QED
  BY <1>1 DEF BroadcastPoints, Broadcasts, Store!StoreExists

-----------------------------------------------------------------------------
(* Envelopes.                                                              *)

\* The envelope that lands next has not landed before.
LEMMA LandExtends ==
    ASSUME TypeOK, EnvelopesKept, Land
    PROVE  /\ \A d \in DOMAIN result : d \in DOMAIN result' /\ result'[d] = result[d]
           /\ NetTypes'
           /\ \A d \in DOMAIN result' : d.seq <= seqNum'
           /\ UNCHANGED <<netFrame, sent, old>>
<1>1. PICK e \in sent, r \in {"success"} \cup (Faults \cap {"revert", "exhaust"}) :
        /\ e.seq = seqNum + 1
        /\ result' = [d \in DOMAIN result \cup {e} |-> IF d = e THEN r ELSE result[d]]
  BY DEF Land
<1>2. seqNum \in Nat /\ seqNum' = seqNum + 1 /\ ledger' = ledger + 1 /\ ledger < MaxLedger
      /\ UNCHANGED <<netFrame, sent, old>> /\ ledger \in 0 .. MaxLedger /\ MaxLedger \in Nat
  BY TxmAssumption DEF Land, TypeOK, NetTypes
<1>3. e \notin DOMAIN result
  BY <1>1, <1>2 DEF EnvelopesKept
<1>4. ledger' \in 0 .. MaxLedger
  BY <1>2
<1>5. DOMAIN result' = DOMAIN result \cup {e}
  BY <1>1
<1>6. \A d \in DOMAIN result : d \in DOMAIN result' /\ result'[d] = result[d]
  BY <1>1, <1>3, <1>5
<1>7. \A d \in DOMAIN result' : result'[d] \in {"success", "revert", "exhaust"}
  BY <1>1, <1>5 DEF TypeOK, NetTypes
<1>8. sent \subseteq Store!Envelope /\ DOMAIN result' \subseteq sent
  BY <1>1, <1>5 DEF TypeOK, NetTypes
<1>9. NetTypes'
  BY <1>2, <1>4, <1>7, <1>8 DEF TypeOK, NetTypes
<1>10. \A d \in DOMAIN result' : d.seq <= seqNum'
  <2>1. \A d \in DOMAIN result : d.seq \in Nat /\ d.seq <= seqNum
    BY DEF EnvelopesKept, TypeOK, NetTypes, Store!Envelope
  <2> QED
    BY <1>1, <1>2, <1>5, <2>1
<1> QED
  BY <1>2, <1>6, <1>9, <1>10

\* Envelopes stay as they are while none is sent, added or applied.
LEMMA EnvelopesFrame ==
    ASSUME EnvelopesKept, UNCHANGED <<sent, result, seqNum>>,
           \A e \in Entries' : e \in Entries \/ e.hash.max # NoBounds
    PROVE  EnvelopesKept'
  BY DEF EnvelopesKept

\* One more envelope adds at most one to what its transaction has used.
LEMMA DeliveredCounts ==
    ASSUME IsFiniteSet(sent), NEW e, sent' = sent \cup {e}, NEW u
    PROVE  /\ IsFiniteSet(sent')
           /\ Cardinality(Carrying(u)) \in Nat /\ Cardinality(Carrying(u)') \in Nat
           /\ Cardinality(Carrying(u)) <= Cardinality(Carrying(u)')
           /\ (e \notin sent /\ u = e.hash.tx) =>
                 Cardinality(Carrying(u)') = Cardinality(Carrying(u)) + 1
           /\ (u # e.hash.tx \/ e.hash.max = NoBounds) => Broadcasts(u)' = Broadcasts(u)
           /\ (u # e.hash.tx \/ e.hash.max # NoBounds) => Restores(u)' = Restores(u)
           /\ Cardinality(Broadcasts(u)) \in Nat
           /\ Cardinality(Restores(u)) \in Nat
           /\ Cardinality(Broadcasts(u)') \in Nat
           /\ Cardinality(Restores(u)') \in Nat
           /\ Cardinality(Broadcasts(u)') <= Cardinality(Broadcasts(u)) + 1
           /\ Cardinality(Restores(u)') <= Cardinality(Restores(u)) + 1
<1>1. IsFiniteSet(sent')
  BY FS_AddElement
<1>2. /\ IsFiniteSet(Carrying(u)) /\ IsFiniteSet(Carrying(u)')
      /\ IsFiniteSet(Broadcasts(u)) /\ IsFiniteSet(Restores(u))
  BY <1>1, FS_Subset DEF Carrying, Broadcasts, Restores
<1>3. /\ Cardinality(Carrying(u)) \in Nat /\ Cardinality(Carrying(u)') \in Nat
      /\ Cardinality(Carrying(u)) <= Cardinality(Carrying(u)')
      /\ (e \notin sent /\ u = e.hash.tx) =>
            Cardinality(Carrying(u)') = Cardinality(Carrying(u)) + 1
  <2>1. Cardinality(Carrying(u)) \in Nat /\ Cardinality(Carrying(u)') \in Nat
    BY <1>2, FS_CardinalityType
  <2>2. Carrying(u) \in SUBSET (Carrying(u)')
    BY DEF Carrying
  <2>3. Cardinality(Carrying(u)) <= Cardinality(Carrying(u)')
    BY <1>2, <2>2, FS_Subset
  <2>4. ASSUME e \notin sent, u = e.hash.tx
        PROVE  Cardinality(Carrying(u)') = Cardinality(Carrying(u)) + 1
    <3>1. Carrying(u)' = Carrying(u) \cup {e} /\ e \notin Carrying(u)
      BY <2>4 DEF Carrying
    <3> QED
      BY <1>2, <3>1, FS_AddElement
  <2> QED
    BY <2>1, <2>3, <2>4
<1>4. /\ (u # e.hash.tx \/ e.hash.max = NoBounds) => Broadcasts(u)' = Broadcasts(u)
      /\ (u # e.hash.tx \/ e.hash.max # NoBounds) => Restores(u)' = Restores(u)
      /\ Broadcasts(u)' = Broadcasts(u) \/ Broadcasts(u)' = Broadcasts(u) \cup {e}
      /\ Restores(u)' = Restores(u) \/ Restores(u)' = Restores(u) \cup {e}
  BY DEF Broadcasts, Restores
<1>5. ASSUME NEW S, IsFiniteSet(S)
      PROVE  /\ Cardinality(S) \in Nat /\ Cardinality(S \cup {e}) \in Nat
             /\ Cardinality(S \cup {e}) <= Cardinality(S) + 1
  <2>1. Cardinality(S) \in Nat
    BY <1>5, FS_CardinalityType
  <2>2. Cardinality(S \cup {e}) = IF e \in S THEN Cardinality(S) ELSE Cardinality(S) + 1
    BY <1>5, FS_AddElement
  <2>3. PICK n \in Nat : n = Cardinality(S)
    BY <2>1
  <2> QED
    BY <2>2, <2>3
<1>6. /\ Cardinality(Broadcasts(u)) \in Nat
      /\ Cardinality(Restores(u)) \in Nat
      /\ Cardinality(Broadcasts(u)') \in Nat
      /\ Cardinality(Restores(u)') \in Nat
      /\ Cardinality(Broadcasts(u)') <= Cardinality(Broadcasts(u)) + 1
      /\ Cardinality(Restores(u)') <= Cardinality(Restores(u)) + 1
  <2>1. PICK S : S = Broadcasts(u)
    OBVIOUS
  <2>2. PICK T : T = Restores(u)
    OBVIOUS
  <2>3. /\ IsFiniteSet(S) /\ IsFiniteSet(T)
        /\ Broadcasts(u)' = S \/ Broadcasts(u)' = S \cup {e}
        /\ Restores(u)' = T \/ Restores(u)' = T \cup {e}
    BY <1>2, <1>4, <2>1, <2>2
  <2>4. /\ Cardinality(S) \in Nat /\ Cardinality(S \cup {e}) \in Nat
        /\ Cardinality(S \cup {e}) <= Cardinality(S) + 1
        /\ Cardinality(T) \in Nat /\ Cardinality(T \cup {e}) \in Nat
        /\ Cardinality(T \cup {e}) <= Cardinality(T) + 1
    BY <1>5, <2>3
  <2>5. /\ Cardinality(Broadcasts(u)') \in Nat
        /\ Cardinality(Broadcasts(u)') <= Cardinality(S) + 1
    BY <2>3, <2>4
  <2>6. /\ Cardinality(Restores(u)') \in Nat
        /\ Cardinality(Restores(u)') <= Cardinality(T) + 1
    BY <2>3, <2>4
  <2> QED
    BY <2>1, <2>2, <2>4, <2>5, <2>6
<1> QED
  BY <1>1, <1>3, <1>4, <1>6

-----------------------------------------------------------------------------
(* What the broadcaster sends.                                             *)

SendsUsed == bcast.tries + (IF bcast.pc = "accepted" THEN 1 ELSE 0)
RestoresUsed == IF bcast.restored \/ bcast.pc \in {"poll", "restored"} THEN 1 ELSE 0

\* Every envelope is counted: as a try of the submit loop, or as the one restore.
LEMMA BroadcastSends ==
    ASSUME LoopTypes, BroadcastPoints, BroadcastStep
    PROVE  /\ UNCHANGED <<seqNum, result, ledger, old, stopped>>
           /\ \/ /\ sent' = sent
                 /\ \/ NextInBatch \/ bcast.pc \in Away \/ bcast'.pc \in Away
                    \/ SendsUsed <= SendsUsed' /\ RestoresUsed <= RestoresUsed'
              \/ /\ bcast.pc = "send" /\ Deliver(bcast.max)
                 /\ bcast'.pc \notin Away /\ bcast'.batch = bcast.batch
                 /\ SendsUsed' = SendsUsed + 1 /\ RestoresUsed' = RestoresUsed
              \/ /\ bcast.pc = "restore" /\ Deliver(NoBounds)
                 /\ bcast'.pc \notin Away /\ bcast'.batch = bcast.batch
                 /\ SendsUsed' = SendsUsed /\ RestoresUsed' = RestoresUsed + 1
<1>a. bcast \in BroadcastState
  BY DEF LoopTypes, BroadcastState
<1>b. ASSUME ReleaseAndFail
      PROVE  NextInBatch
  BY <1>b DEF ReleaseAndFail
<1>1. CASE Receive
  BY <1>1 DEF Receive, netVars, Away
<1>2. CASE SortBatch
  BY <1>2 DEF SortBatch, netVars
<1>3. CASE GetClient
  BY <1>a, <1>3 DEF GetClient, SendsUsed, RestoresUsed, Away, BroadcastState, netVars
<1>4. CASE RetryGetClientOrFail
  BY <1>4 DEF RetryGetClientOrFail, netVars
<1>5. CASE CreateStore
  BY <1>a, <1>5 DEF CreateStore, SendsUsed, RestoresUsed, Away, BroadcastState, netVars
<1>6. CASE Resync
  BY <1>a, <1>6 DEF Resync, SendsUsed, RestoresUsed, Away, BroadcastState, netVars
<1>7. CASE ReadSequence
  BY <1>a, <1>7 DEF ReadSequence, SendsUsed, RestoresUsed, Away, BroadcastState, netVars
<1>8. CASE Simulate
  <2>1. bcast.pc = "simulate" /\ UNCHANGED <<seqNum, sent, result, ledger, old, stopped>>
    BY <1>8 DEF Simulate, netVars
  <2>2. CASE ReleaseAndFail
    BY <1>b, <2>1, <2>2
  <2>3. ASSUME NEW l \in LedgerRead, bcast' = [bcast EXCEPT !.pc = "send", !.max = l + LedgerBoundsOffset]
        PROVE  SendsUsed <= SendsUsed' /\ RestoresUsed <= RestoresUsed'
    BY <1>a, <2>1, <2>3 DEF SendsUsed, RestoresUsed, BroadcastState
  <2>4. CASE bcast' = [bcast EXCEPT !.pc = "restore"]
    BY <1>a, <2>1, <2>4 DEF SendsUsed, RestoresUsed, BroadcastState
  <2> QED
    BY <2>1, <2>2, <2>3, <2>4, <1>8 DEF Simulate
<1>9. CASE SubmitExhausted
  BY <1>b, <1>9 DEF SubmitExhausted, netVars
<1>10. CASE SendAccepted
  <2>1. /\ bcast.pc = "send" /\ Deliver(bcast.max) /\ bcast' = [bcast EXCEPT !.pc = "accepted"]
        /\ UNCHANGED <<seqNum, result, ledger, old, stopped>>
    BY <1>10 DEF SendAccepted, Deliver
  <2>2. SendsUsed' = SendsUsed + 1 /\ RestoresUsed' = RestoresUsed
    BY <1>a, <2>1 DEF SendsUsed, RestoresUsed, BroadcastState
  <2>3. bcast'.pc \notin Away /\ bcast'.batch = bcast.batch
    BY <1>a, <2>1 DEF Away, BroadcastState
  <2> QED
    BY <2>1, <2>2, <2>3
<1>11. CASE SendFails
  <2>1. /\ bcast.pc = "send" /\ ((UNCHANGED <<seqVars, netVars>>) \/ Deliver(bcast.max))
        /\ bcast' = [bcast EXCEPT !.tries = @ + 1,
                    !.pc = IF bcast.tries + 1 < MaxSubmitRetryAttempts
                           THEN "backoff" ELSE "simulate"]
        /\ UNCHANGED <<seqNum, result, ledger, old, stopped>>
    BY <1>11 DEF SendFails, Deliver, netVars
  <2>2. SendsUsed' = SendsUsed + 1 /\ RestoresUsed' = RestoresUsed
        /\ SendsUsed \in Nat /\ RestoresUsed \in Nat
    BY <1>a, <2>1 DEF SendsUsed, RestoresUsed, BroadcastState
  <2>3. SendsUsed <= SendsUsed' /\ RestoresUsed <= RestoresUsed'
    BY <2>2
  <2>4. bcast'.pc \notin Away /\ bcast'.batch = bcast.batch
    BY <1>a, <2>1 DEF Away, BroadcastState
  <2> QED
    BY <2>1, <2>2, <2>3, <2>4 DEF netVars
<1>12. CASE SendRetryable
  BY <1>a, <1>12 DEF SendRetryable, SendsUsed, RestoresUsed, Away, BroadcastState, netVars
<1>13. CASE Backoff
  BY <1>a, <1>13 DEF Backoff, SendsUsed, RestoresUsed, Away, BroadcastState, netVars
<1>14. CASE SendBadSeq
  BY <1>a, <1>14 DEF SendBadSeq, SendsUsed, RestoresUsed, Away, BroadcastState, netVars
<1>15. CASE SendRejected
  BY <1>b, <1>15 DEF SendRejected, netVars
<1>16. CASE AddUnconfirmed
  BY <1>a, <1>b, <1>16 DEF AddUnconfirmed, SendsUsed, RestoresUsed, Away, BroadcastState, netVars
<1>17. CASE MarkUnconfirmed
  BY <1>17 DEF MarkUnconfirmed, netVars
<1>18. CASE RestoreSend
  <2>1. /\ bcast.pc = "restore" /\ Deliver(NoBounds) /\ bcast' = [bcast EXCEPT !.pc = "poll"]
        /\ UNCHANGED <<seqNum, result, ledger, old, stopped>> /\ ~bcast.restored
    BY <1>18 DEF RestoreSend, Deliver, BroadcastPoints
  <2>2. SendsUsed' = SendsUsed /\ RestoresUsed' = RestoresUsed + 1
    BY <1>a, <2>1 DEF SendsUsed, RestoresUsed, BroadcastState
  <2>3. bcast'.pc \notin Away /\ bcast'.batch = bcast.batch
    BY <1>a, <2>1 DEF Away, BroadcastState
  <2> QED
    BY <2>1, <2>2, <2>3
<1>19. CASE RestorePoll
  BY <1>a, <1>19 DEF RestorePoll, SendsUsed, RestoresUsed, Away, BroadcastState, netVars
<1>20. CASE RestoreResync
  BY <1>a, <1>20 DEF RestoreResync, SendsUsed, RestoresUsed, Away, BroadcastState, netVars
<1>21. CASE RestoreFails
  BY <1>b, <1>21 DEF RestoreFails, netVars
<1>22. CASE BroadcastExit
  BY <1>22 DEF BroadcastExit, netVars, Away
<1> QED
  BY <1>1, <1>2, <1>3, <1>4, <1>5, <1>6, <1>7, <1>8, <1>9, <1>10, <1>11, <1>12, <1>13, <1>14, <1>15, <1>16, <1>17, <1>18, <1>19, <1>20, <1>21, <1>22 DEF BroadcastStep

\* Its transaction in hand is one that is not over: nothing is sent for another.
LEMMA Sending ==
    ASSUME TypeOK, Alive, EnvelopesKept, Budget, bcast.pc \in {"send", "restore"},
           NEW max \in NoBounds .. MaxLedger + LedgerBoundsOffset, Deliver(max)
    PROVE  /\ InHand = {bcast.tx} /\ bcast.tx \in Txs
           /\ \E e \in Store!Envelope :
              /\ signed' = {e} /\ sent' = sent \cup {e}
              /\ e.seq = held /\ e.hash.tx = bcast.tx /\ e.hash.max = max
              /\ \A d \in sent : d.hash = e.hash => d = e
              /\ e \in sent \/ e.hash.n = Cardinality(Carrying(bcast.tx))
<1>1. InHand = {bcast.tx} /\ bcast.tx \in Txs
  BY DEF InHand, Alive
<1> QED
  BY <1>1, Delivered

\* The bounds the broadcaster computes are LedgerBounds.
LEMMA BoundsKnown ==
    ASSUME LoopTypes
    PROVE  /\ bcast.max \in NoBounds .. MaxLedger + LedgerBoundsOffset /\ bcast.max # NoBounds
           /\ NoBounds \in NoBounds .. MaxLedger + LedgerBoundsOffset
  BY TxmAssumption DEF LoopTypes, NoBounds

\* A step of the broadcaster keeps the envelopes in order,
LEMMA BroadcastEnvelopes ==
    ASSUME TypeOK, Alive, LoopPoints, EnvelopesKept, Budget, BroadcastStep
    PROVE  EnvelopesKept'
<1>1. LoopTypes /\ BroadcastPoints
  BY DEF TypeOK, LoopPoints
<1>2. UNCHANGED <<seqNum, result>>
  BY <1>1, BroadcastSends
<1>3. \A e \in Entries' : e \in Entries \/ e.hash.max # NoBounds
  <2>1. CASE HandsOver
    BY <1>1, <2>1 DEF HandsOver, BroadcastPoints, Broadcasts
  <2>2. CASE Entries' \subseteq Entries
    BY <2>2
  <2> QED
    BY <1>1, <2>1, <2>2, BroadcastMoves
        DEF Stays, Takes, Starts, Fails, Requeues, Drops, Marks, Leaves
<1>4. CASE sent' = sent
  BY <1>2, <1>3, <1>4, EnvelopesFrame
<1>5. ASSUME bcast.pc \in {"send", "restore"},
             NEW max \in NoBounds .. MaxLedger + LedgerBoundsOffset, Deliver(max)
      PROVE  EnvelopesKept'
  <2>1. PICK e \in Store!Envelope :
              /\ sent' = sent \cup {e} /\ e.seq = held /\ e.hash.tx = bcast.tx
              /\ \A d \in sent : d.hash = e.hash => d = e
              /\ e \in sent \/ e.hash.n = Cardinality(Carrying(bcast.tx))
    BY <1>5, Sending
  <2>2. \A c, d \in sent' : c.hash = d.hash => c = d
    BY <2>1 DEF EnvelopesKept
  <2>0. IsFiniteSet(sent)
    BY DEF EnvelopesKept
  <2>3. IsFiniteSet(sent')
    BY <2>0, <2>1, DeliveredCounts
  <2>4. ASSUME NEW u
        PROVE  /\ Cardinality(Carrying(u)) \in Nat /\ Cardinality(Carrying(u)') \in Nat
               /\ Cardinality(Carrying(u)) <= Cardinality(Carrying(u)')
               /\ (e \notin sent /\ u = e.hash.tx) =>
                     Cardinality(Carrying(u)') = Cardinality(Carrying(u)) + 1
    BY <2>0, <2>1, DeliveredCounts
  <2>5. \A d \in sent : d.hash.n \in Nat
    <3>1. \A d \in sent : d.hash.n \in 0 .. Rounds * (MaxSubmitRetryAttempts + 1)
      BY DEF TypeOK, NetTypes, Store!Envelope, Hashes
    <3> QED
      BY <3>1
  <2>6. ASSUME NEW d \in sent'
        PROVE  d.hash.n < Cardinality(Carrying(d.hash.tx)')
    <3>1. CASE d \in sent
      <4>1. d.hash.n < Cardinality(Carrying(d.hash.tx))
        BY <3>1 DEF EnvelopesKept, Carrying
      <4>2. PICK m \in Nat : m = Cardinality(Carrying(d.hash.tx))
        BY <2>4
      <4>3. PICK n \in Nat : n = Cardinality(Carrying(d.hash.tx)')
        BY <2>4
      <4>4. m <= n
        BY <2>4, <4>2, <4>3
      <4> QED
        BY <2>5, <3>1, <4>1, <4>2, <4>3, <4>4
    <3>2. CASE d = e /\ e \notin sent
      <4>1. PICK n \in Nat : n = Cardinality(Carrying(e.hash.tx))
        BY <2>4
      <4>2. e.hash.n = n /\ Cardinality(Carrying(e.hash.tx)') = n + 1
        BY <2>1, <2>4, <3>2, <4>1
      <4> QED
        BY <3>2, <4>2
    <3> QED
      BY <2>1, <3>1, <3>2
  <2>7. \A d \in sent' : d.hash.n < Cardinality({c \in sent' : c.hash.tx = d.hash.tx})
    BY <2>6 DEF Carrying
  <2>8. \A d \in sent' : d.seq # Store!NoSeq
    BY <1>1, <1>5, <2>1 DEF BroadcastPoints, EnvelopesKept
  <2> QED
    BY <1>2, <1>3, <2>2, <2>3, <2>7, <2>8 DEF EnvelopesKept
<1> QED
  BY <1>1, <1>4, <1>5, BroadcastSends, BoundsKnown

\* ... as does everybody else.
LEMMA OthersEnvelopes ==
    ASSUME TypeOK, LoopPoints, EnvelopesKept,
           \/ ConfirmStep
           \/ \E t \in Txs : CallerStep(t) \/ Prune(t)
           \/ Close
           \/ NetworkStep
    PROVE  EnvelopesKept'
<1>1. CASE ConfirmStep
  <2>1. UNCHANGED <<sent, result, seqNum>>
    BY <1>1 DEF ConfirmStep, Snapshot, Found, NotFound, Expire, StillPending, Conclude,
                ConfirmExit, netVars
  <2>2. Entries' \subseteq Entries
    BY <1>1, ConfirmMoves DEF TypeOK, LoopPoints, ConfirmPoints, Keeps, Concludes, Retries
  <2> QED
    BY <2>1, <2>2, EnvelopesFrame
<1>2. ASSUME NEW t \in Txs, CallerStep(t) \/ Prune(t)
      PROVE  EnvelopesKept'
  BY <1>2, EnvelopesFrame DEF CallerStep, Enqueue, Push, Evict, Repush, Prune, netVars,
                              storeVars, Entries
<1>3. CASE Close
  BY <1>3, EnvelopesFrame DEF Close, netVars, storeVars, Entries
<1>4. CASE Land
  <2>1. /\ UNCHANGED <<netFrame, sent>>
        /\ \A d \in DOMAIN result' : d.seq <= seqNum'
    BY <1>4, LandExtends
  <2>2. Entries' = Entries
    BY <2>1 DEF netFrame, storeVars, Entries
  <2> QED
    BY <2>1, <2>2 DEF EnvelopesKept
<1>5. CASE ForeignUse
  <2>1. UNCHANGED <<netFrame, sent, result>> /\ seqNum' = seqNum + 1 /\ seqNum \in Nat
    BY <1>5 DEF ForeignUse, TypeOK, NetTypes
  <2>2. \A d \in DOMAIN result : d.seq \in Nat
    BY DEF TypeOK, NetTypes, Store!Envelope
  <2>3. \A d \in DOMAIN result' : d.seq <= seqNum'
    BY <2>1, <2>2 DEF EnvelopesKept
  <2>4. Entries' = Entries
    BY <2>1 DEF netFrame, storeVars, Entries
  <2> QED
    BY <2>1, <2>3, <2>4 DEF EnvelopesKept
<1>6. CASE CloseLedger \/ \E t \in Txs : Age(t)
  BY <1>6, EnvelopesFrame DEF CloseLedger, Age, netFrame, storeVars, Entries
<1> QED
  BY <1>1, <1>2, <1>3, <1>4, <1>5, <1>6 DEF NetworkStep

-----------------------------------------------------------------------------
(* The budgets.                                                            *)

Spent(sends, restores, round, tries, extra) ==
    sends <= round * MaxSubmitRetryAttempts + tries /\ restores <= round + extra

Sends(t) == Cardinality(Broadcasts(t))
RestoresOf(t) == Cardinality(Restores(t))
Fresh == {"idle", "push", "evict", "repush"}

\* Budget, place by place.
LEMMA BudgetIs ==
    Budget <=>
      /\ \A t \in Txs : attempt[t] <= Rounds /\ Spent(Sends(t), RestoresOf(t), Rounds, 0, 0)
      /\ \A t \in Txs : caller[t] \in Fresh =>
            attempt[t] = 0 /\ Spent(Sends(t), RestoresOf(t), 0, 0, 0)
      /\ \A t \in ToSet(broadcastChan) \cup bcast.batch :
            Spent(Sends(t), RestoresOf(t), attempt[t], 0, 0)
      /\ \A t \in InHand : Spent(Sends(t), RestoresOf(t), attempt[t], SendsUsed, RestoresUsed)
      /\ \A e \in Entries : Spent(Sends(e.hash.tx), RestoresOf(e.hash.tx), attempt[e.hash.tx] + 1, 0, 0)
  BY DEF Budget, WithinRounds, Spent, Sends, RestoresOf, Fresh, Queued, Tracked, SendsUsed, RestoresUsed

\* The same of the next state.
LEMMA BudgetNextIs ==
    Budget' <=>
      /\ \A t \in Txs : attempt'[t] <= Rounds /\ Spent(Sends(t)', RestoresOf(t)', Rounds, 0, 0)
      /\ \A t \in Txs : caller'[t] \in Fresh =>
            attempt'[t] = 0 /\ Spent(Sends(t)', RestoresOf(t)', 0, 0, 0)
      /\ \A t \in ToSet(broadcastChan') \cup bcast'.batch :
            Spent(Sends(t)', RestoresOf(t)', attempt'[t], 0, 0)
      /\ \A t \in InHand' : Spent(Sends(t)', RestoresOf(t)', attempt'[t], SendsUsed', RestoresUsed')
      /\ \A e \in Entries' :
            Spent(Sends(e.hash.tx)', RestoresOf(e.hash.tx)', attempt'[e.hash.tx] + 1, 0, 0)
  BY DEF Budget, WithinRounds, Spent, Sends, RestoresOf, Fresh, Queued, Tracked, SendsUsed, RestoresUsed

\* A round that has used all its tries is a round that is over, and there are Rounds.
LEMMA RoundOver ==
    ASSUME NEW n \in Nat, NEW r \in Nat, NEW a \in Nat, NEW s \in Nat, NEW x \in Nat,
           s <= MaxSubmitRetryAttempts, x <= 1, Spent(n, r, a, s, x)
    PROVE  /\ Spent(n, r, a + 1, 0, 0)
           /\ a < Rounds => Spent(n, r, Rounds, 0, 0)
<1>1. PICK m \in Nat : m = MaxSubmitRetryAttempts
  BY TxmAssumption
<1>2. PICK p \in Nat : p = a * m
  OBVIOUS
<1>3. (a + 1) * m = p + m
  BY <1>2
<1>4. n <= p + s /\ r <= a + x /\ s <= m
  BY <1>1, <1>2 DEF Spent
<1>5. n <= p + m + 0 /\ r <= a + 1 + 0
  BY <1>4
<1>6. Spent(n, r, a + 1, 0, 0)
  BY <1>1, <1>3, <1>5 DEF Spent
<1>7. ASSUME a < Rounds
      PROVE  Spent(n, r, Rounds, 0, 0)
  <2>1. PICK k \in Nat : Rounds = a + 1 + k
    <3>1. Rounds \in Nat
      BY TxmAssumption DEF Rounds
    <3>2. Rounds - a - 1 \in Nat /\ Rounds = a + 1 + (Rounds - a - 1)
      BY <1>7, <3>1
    <3> QED
      BY <3>2
  <2>2. PICK q \in Nat : q = k * m
    OBVIOUS
  <2>3. (a + 1 + k) * m = p + m + q
    BY <1>2, <2>2
  <2>4. n <= p + m + q + 0 /\ r <= a + 1 + k + 0
    BY <1>5
  <2> QED
    BY <1>1, <2>1, <2>3, <2>4 DEF Spent
<1> QED
  BY <1>6, <1>7

\* What has been sent for a transaction is counted by a natural number.
LEMMA SpentNat ==
    ASSUME EnvelopesKept, NEW t
    PROVE  Sends(t) \in Nat /\ RestoresOf(t) \in Nat
  BY CarryingSplit DEF EnvelopesKept, Sends, RestoresOf

\* More tries, more room.
LEMMA SpentMore ==
    ASSUME NEW n \in Nat, NEW r \in Nat, NEW a \in Nat, NEW s \in Nat, NEW x \in Nat,
           NEW s1 \in Nat, NEW x1 \in Nat, s <= s1, x <= x1, Spent(n, r, a, s, x)
    PROVE  Spent(n, r, a, s1, x1)
<1>1. PICK p \in Nat : p = a * MaxSubmitRetryAttempts
  BY TxmAssumption
<1>2. n <= p + s /\ r <= a + x
  BY <1>1 DEF Spent
<1>3. n <= p + s1 /\ r <= a + x1
  BY <1>2
<1> QED
  BY <1>1, <1>3 DEF Spent

\* One more envelope, one more of the tries it was counted by.
LEMMA SpentNext ==
    ASSUME NEW n \in Nat, NEW r \in Nat, NEW a \in Nat, NEW s \in Nat, NEW x \in Nat,
           NEW n1 \in Nat, NEW r1 \in Nat, NEW i \in Nat, NEW j \in Nat,
           n1 <= n + i, r1 <= r + j, Spent(n, r, a, s, x)
    PROVE  Spent(n1, r1, a, s + i, x + j)
<1>1. PICK p \in Nat : p = a * MaxSubmitRetryAttempts
  BY TxmAssumption
<1>2. n <= p + s /\ r <= a + x
  BY <1>1 DEF Spent
<1>3. n1 <= p + (s + i) /\ r1 <= a + (x + j)
  BY <1>2
<1> QED
  BY <1>1, <1>3 DEF Spent

\* Who keeps a transaction keeps its account; nothing is sent.
LEMMA QuietBudget ==
    ASSUME EnvelopesKept, Budget, sent' = sent,
           UNCHANGED <<caller, attempt>>,
           ToSet(broadcastChan') \cup bcast'.batch \subseteq ToSet(broadcastChan) \cup bcast.batch,
           \A t \in InHand' : Spent(Sends(t), RestoresOf(t), attempt[t], SendsUsed', RestoresUsed'),
           \A e \in Entries' :
              Spent(Sends(e.hash.tx), RestoresOf(e.hash.tx), attempt[e.hash.tx] + 1, 0, 0)
    PROVE  Budget'
<1>1. ASSUME NEW t
      PROVE  Sends(t)' = Sends(t) /\ RestoresOf(t)' = RestoresOf(t)
  BY DEF Sends, RestoresOf, Broadcasts, Restores
<1>2. \A t \in Txs : attempt'[t] <= Rounds /\ Spent(Sends(t)', RestoresOf(t)', Rounds, 0, 0)
  BY <1>1, BudgetIs
<1>3. \A t \in Txs : caller'[t] \in Fresh =>
            attempt'[t] = 0 /\ Spent(Sends(t)', RestoresOf(t)', 0, 0, 0)
  BY <1>1, BudgetIs
<1>4. \A t \in ToSet(broadcastChan') \cup bcast'.batch :
            Spent(Sends(t)', RestoresOf(t)', attempt'[t], 0, 0)
  BY <1>1, BudgetIs
<1>5. \A t \in InHand' : Spent(Sends(t)', RestoresOf(t)', attempt'[t], SendsUsed', RestoresUsed')
  BY <1>1
<1>6. \A e \in Entries' :
            Spent(Sends(e.hash.tx)', RestoresOf(e.hash.tx)', attempt'[e.hash.tx] + 1, 0, 0)
  BY <1>1
<1> QED
  BY <1>2, <1>3, <1>4, <1>5, <1>6, BudgetNextIs

\* The meters of the transaction in hand.
LEMMA Meters ==
    ASSUME LoopTypes, BroadcastPoints
    PROVE  /\ SendsUsed \in Nat /\ RestoresUsed \in Nat
           /\ SendsUsed <= MaxSubmitRetryAttempts /\ RestoresUsed <= 1
           /\ bcast.pc = "client" => SendsUsed = 0 /\ RestoresUsed = 0
<1>1. bcast \in BroadcastState /\ MaxSubmitRetryAttempts \in Nat
  BY TxmAssumption DEF LoopTypes, BroadcastState
<1>2. /\ SendsUsed \in Nat /\ SendsUsed <= MaxSubmitRetryAttempts
      /\ bcast.pc = "client" => SendsUsed = 0
  BY <1>1 DEF SendsUsed, BroadcastPoints, BroadcastState
<1>3. /\ RestoresUsed \in Nat /\ RestoresUsed <= 1
      /\ bcast.pc = "client" => RestoresUsed = 0
  BY <1>1 DEF RestoresUsed, BroadcastPoints, BroadcastState
<1> QED
  BY <1>2, <1>3

\* The next transaction of the batch starts a round with nothing used.
LEMMA StartsFresh ==
    ASSUME LoopTypes, Budget, NextInBatch
    PROVE  \A t \in InHand' : Spent(Sends(t), RestoresOf(t), attempt[t], SendsUsed', RestoresUsed')
<1>1. bcast \in BroadcastState
  BY DEF LoopTypes, BroadcastState
<1>2. SendsUsed' = 0 /\ RestoresUsed' = 0
  <2>1. bcast'.tries = 0 /\ bcast'.restored = FALSE /\ bcast'.pc \in {"idle", "client"}
    BY <1>1, NextInBatchEffect
  <2> QED
    BY <2>1 DEF SendsUsed, RestoresUsed
<1>3. InHand' \subseteq bcast.batch
  BY NextInBatchHand
<1> QED
  BY <1>2, <1>3, BudgetIs

\* A broadcaster that still has its batch has not turned to the next of it.
LEMMA StillInHand ==
    ASSUME LoopTypes, bcast'.pc \notin Away, bcast'.batch = bcast.batch
    PROVE  ~NextInBatch
<1>1. InHand' = {bcast'.tx}
  BY DEF InHand, Away
<1> QED
  BY <1>1, NextInBatchHand

\* A step of the broadcaster stays within the budgets,
LEMMA BroadcastBudget ==
    ASSUME TypeOK, OnePlace, Alive, LoopPoints, EnvelopesKept, Budget, BroadcastStep
    PROVE  Budget'
<1> DEFINE q == ToSet(broadcastChan)
           b == bcast.batch
           h == InHand
           E == Entries
<1>t. /\ LoopTypes /\ BroadcastPoints /\ broadcastChan \in Seq(Txs)
      /\ attempt \in [Txs -> Nat] /\ Distinct(broadcastChan)
  BY OnePlaceIs DEF TypeOK, TxTypes, LoopPoints
<1>f. UNCHANGED <<caller, attempt, confirm>>
  BY <1>t, BroadcastMoves
<1>m. /\ SendsUsed \in Nat /\ RestoresUsed \in Nat
      /\ SendsUsed <= MaxSubmitRetryAttempts /\ RestoresUsed <= 1
      /\ bcast.pc = "client" => SendsUsed = 0 /\ RestoresUsed = 0
  BY <1>t, Meters
<1>n. /\ SendsUsed' \in Nat /\ RestoresUsed' \in Nat
      /\ SendsUsed' <= MaxSubmitRetryAttempts /\ RestoresUsed' <= 1
  <2>1. bcast' \in BroadcastState
    BY BroadcastStateKept DEF TypeOK
  <2>2. BroadcastPoints'
    BY <1>t, BroadcastPointsKept
  <2>3. MaxSubmitRetryAttempts \in Nat
    BY TxmAssumption
  <2> QED
    BY <2>1, <2>2, <2>3 DEF SendsUsed, RestoresUsed, BroadcastPoints, BroadcastState
<1>s. ASSUME NEW t \in Txs
      PROVE  Sends(t) \in Nat /\ RestoresOf(t) \in Nat /\ attempt[t] \in Nat
  BY <1>t, SpentNat
<1>e. \A e \in E : Spent(Sends(e.hash.tx), RestoresOf(e.hash.tx), attempt[e.hash.tx] + 1, 0, 0)
  BY BudgetIs
<1>1. CASE Stays /\ sent' = sent /\ ~NextInBatch
  <2>1. SendsUsed <= SendsUsed' /\ RestoresUsed <= RestoresUsed'
    <3>1. bcast.pc \notin Away /\ bcast'.pc \notin Away
      BY <1>1 DEF Stays
    <3> QED
      BY <1>1, <1>m, <1>t, <3>1, BroadcastSends
  <2>2. h = {bcast.tx} /\ InHand' = {bcast.tx} /\ bcast.tx \in Txs
    BY <1>1 DEF Stays, Away, InHand, Alive
  <2>3. Spent(Sends(bcast.tx), RestoresOf(bcast.tx), attempt[bcast.tx], SendsUsed, RestoresUsed)
    BY <2>2, BudgetIs
  <2>4. Spent(Sends(bcast.tx), RestoresOf(bcast.tx), attempt[bcast.tx], SendsUsed', RestoresUsed')
    BY <1>m, <1>n, <1>s, <2>1, <2>2, <2>3, SpentMore
  <2>5. ToSet(broadcastChan') = q /\ bcast'.batch = b /\ Entries' \subseteq E
    BY <1>1 DEF Stays
  <2> QED
    BY <1>1, <1>e, <1>f, <2>2, <2>4, <2>5, QuietBudget
<1>2. CASE Takes /\ sent' = sent
  <2>1. Head(broadcastChan) \in q /\ ToSet(broadcastChan') \subseteq q
    BY <1>2, <1>t, ChannelReceive DEF Takes
  <2>2. InHand' = {} /\ bcast'.batch = b \cup {Head(broadcastChan)} /\ Entries' = E
    BY <1>2 DEF Takes, InHand
  <2> QED
    BY <1>2, <1>e, <1>f, <2>1, <2>2, QuietBudget
<1>3. CASE (Starts \/ Fails \/ Drops \/ Marks) /\ sent' = sent
  <2>1. ToSet(broadcastChan') = q /\ Entries' \subseteq E /\ NextInBatch
    BY <1>3 DEF Starts, Fails, Drops, Marks
  <2>2. bcast'.batch \subseteq b
    BY <1>t, <2>1, NextInBatchHand
  <2> QED
    BY <1>3, <1>e, <1>f, <1>t, <2>1, <2>2, QuietBudget, StartsFresh
<1>4. CASE Requeues /\ sent' = sent
  <2>1. h = {bcast.tx} /\ bcast.tx \in Txs
    BY <1>4 DEF Requeues, InHand, Alive
  <2>2. ToSet(broadcastChan') = q \cup {bcast.tx}
    BY <1>4, <1>t, <2>1, ChannelSend DEF Requeues
  <2>3. Spent(Sends(bcast.tx), RestoresOf(bcast.tx), attempt[bcast.tx], 0, 0)
    BY <1>4, <1>m, <2>1, BudgetIs DEF Requeues
  <2>4. Entries' \subseteq E /\ NextInBatch
    BY <1>4 DEF Requeues
  <2>5. bcast'.batch \subseteq b
    BY <1>t, <2>4, NextInBatchHand
  <2>6. ASSUME NEW t
        PROVE  Sends(t)' = Sends(t) /\ RestoresOf(t)' = RestoresOf(t)
    BY <1>4 DEF Sends, RestoresOf, Broadcasts, Restores
  <2>7. \A t \in Txs : attempt'[t] <= Rounds /\ Spent(Sends(t)', RestoresOf(t)', Rounds, 0, 0)
    BY <1>f, <2>6, BudgetIs
  <2>8. \A t \in Txs : caller'[t] \in Fresh =>
              attempt'[t] = 0 /\ Spent(Sends(t)', RestoresOf(t)', 0, 0, 0)
    BY <1>f, <2>6, BudgetIs
  <2>9. \A t \in ToSet(broadcastChan') \cup bcast'.batch :
              Spent(Sends(t)', RestoresOf(t)', attempt'[t], 0, 0)
    BY <1>f, <2>2, <2>3, <2>5, <2>6, BudgetIs
  <2>10. \A t \in InHand' : Spent(Sends(t)', RestoresOf(t)', attempt'[t], SendsUsed', RestoresUsed')
    BY <1>f, <1>t, <2>4, <2>6, StartsFresh
  <2>11. \A e \in Entries' :
              Spent(Sends(e.hash.tx)', RestoresOf(e.hash.tx)', attempt'[e.hash.tx] + 1, 0, 0)
    BY <1>e, <1>f, <2>4, <2>6
  <2> QED
    BY <2>7, <2>8, <2>9, <2>10, <2>11, BudgetNextIs
<1>5. CASE HandsOver /\ sent' = sent
  <2>1. h = {bcast.tx} /\ InHand' = {} /\ bcast.tx \in Txs
    BY <1>5 DEF HandsOver, InHand, Alive
  <2>2. PICK e \in signed : Entries' = E \cup {e}
    BY <1>5 DEF HandsOver
  <2>3. e.hash.tx = bcast.tx
    BY <1>5, <1>t, <2>2 DEF HandsOver, BroadcastPoints, Broadcasts
  <2>4. Spent(Sends(bcast.tx), RestoresOf(bcast.tx), attempt[bcast.tx], SendsUsed, RestoresUsed)
    BY <2>1, BudgetIs
  <2>5. Spent(Sends(bcast.tx), RestoresOf(bcast.tx), attempt[bcast.tx] + 1, 0, 0)
    BY <1>m, <1>s, <2>1, <2>4, RoundOver
  <2>6. ToSet(broadcastChan') = q /\ bcast'.batch = b
    BY <1>5 DEF HandsOver
  <2> QED
    BY <1>5, <1>e, <1>f, <2>1, <2>2, <2>3, <2>5, <2>6, QuietBudget
<1>6. CASE Leaves /\ sent' = sent
  <2>1. InHand' = {} /\ ToSet(broadcastChan') = q /\ bcast'.batch = b /\ Entries' = E
    BY <1>6 DEF Leaves, InHand
  <2> QED
    BY <1>6, <1>e, <1>f, <2>1, QuietBudget
<1>7. ASSUME Stays, bcast.pc \in {"send", "restore"},
             NEW max \in NoBounds .. MaxLedger + LedgerBoundsOffset, Deliver(max),
             NEW i \in Nat, NEW j \in Nat,
             SendsUsed' = SendsUsed + i, RestoresUsed' = RestoresUsed + j,
             max = NoBounds => j = 1, max # NoBounds => i = 1
      PROVE  Budget'
  <2>0. PICK x : x = bcast.tx
    OBVIOUS
  <2>1. h = {x} /\ InHand' = {x} /\ x \in Txs
    BY <1>7, <2>0 DEF Stays, Away, InHand, Alive
  <2>2. PICK e \in Store!Envelope :
              sent' = sent \cup {e} /\ e.hash.tx = x /\ e.hash.max = max
    BY <1>7, <2>0, Sending
  <2>3. IsFiniteSet(sent)
    BY DEF EnvelopesKept
  <2>4. ASSUME NEW t \in Txs
        PROVE  /\ (t # x \/ max = NoBounds) => Sends(t)' = Sends(t)
               /\ (t # x \/ max # NoBounds) => RestoresOf(t)' = RestoresOf(t)
               /\ Sends(t)' \in Nat /\ RestoresOf(t)' \in Nat
               /\ Sends(t)' <= Sends(t) + 1 /\ RestoresOf(t)' <= RestoresOf(t) + 1
    BY <2>2, <2>3, DeliveredCounts DEF Sends, RestoresOf
  <2>5. Sends(x)' <= Sends(x) + i /\ RestoresOf(x)' <= RestoresOf(x) + j
        /\ Sends(x)' \in Nat /\ RestoresOf(x)' \in Nat
    BY <1>7, <1>s, <2>1, <2>4
  <2>6. Spent(Sends(x), RestoresOf(x), attempt[x], SendsUsed, RestoresUsed)
    BY <2>1, BudgetIs
  <2>7. Spent(Sends(x)', RestoresOf(x)', attempt[x], SendsUsed', RestoresUsed')
    <3>1. PICK s \in Nat, z \in Nat : s = SendsUsed /\ z = RestoresUsed
      BY <1>m
    <3>2. PICK n \in Nat, r \in Nat, a \in Nat :
            n = Sends(x) /\ r = RestoresOf(x) /\ a = attempt[x]
      BY <1>s, <2>1
    <3>3. PICK n1 \in Nat, r1 \in Nat : n1 = Sends(x)' /\ r1 = RestoresOf(x)'
      BY <2>5
    <3>4. n1 <= n + i /\ r1 <= r + j /\ Spent(n, r, a, s, z)
      BY <2>5, <2>6, <3>1, <3>2, <3>3
    <3>5. Spent(n1, r1, a, s + i, z + j)
      BY <3>4, SpentNext
    <3> QED
      BY <1>7, <3>1, <3>2, <3>3, <3>5
  <2>8. attempt[x] < Rounds /\ caller[x] = "enqueued"
    BY <2>1 DEF Alive
  <2>9. Spent(Sends(x)', RestoresOf(x)', Rounds, 0, 0)
    BY <1>n, <1>s, <2>1, <2>5, <2>7, <2>8, RoundOver
  <2>10. ToSet(broadcastChan') = q /\ bcast'.batch = b /\ Entries' \subseteq E
    BY <1>7 DEF Stays
  <2>11. x \notin q \cup b /\ \A d \in E : d.hash.tx # x
    BY <2>1, OnePlaceIs DEF Apart
  <2>12. q \subseteq Txs /\ b \subseteq Txs /\ \A d \in E : d.hash.tx \in Txs
    BY WorkingTypes
  <2>13. \A t \in Txs \ {x} : Sends(t)' = Sends(t) /\ RestoresOf(t)' = RestoresOf(t)
    BY <2>4
  <2>14. \A t \in Txs : attempt'[t] <= Rounds /\ Spent(Sends(t)', RestoresOf(t)', Rounds, 0, 0)
    BY <1>f, <2>9, <2>13, BudgetIs
  <2>15. \A t \in Txs : caller'[t] \in Fresh =>
              attempt'[t] = 0 /\ Spent(Sends(t)', RestoresOf(t)', 0, 0, 0)
    BY <1>f, <2>8, <2>13, BudgetIs DEF Fresh
  <2>16. \A t \in ToSet(broadcastChan') \cup bcast'.batch :
              Spent(Sends(t)', RestoresOf(t)', attempt'[t], 0, 0)
    BY <1>f, <2>10, <2>11, <2>12, <2>13, BudgetIs
  <2>17. \A t \in InHand' : Spent(Sends(t)', RestoresOf(t)', attempt'[t], SendsUsed', RestoresUsed')
    BY <1>f, <2>1, <2>7
  <2>18. \A d \in Entries' :
              Spent(Sends(d.hash.tx)', RestoresOf(d.hash.tx)', attempt'[d.hash.tx] + 1, 0, 0)
    BY <1>e, <1>f, <2>10, <2>11, <2>12, <2>13
  <2> QED
    BY <2>14, <2>15, <2>16, <2>17, <2>18, BudgetNextIs
<1>8. CASE sent' = sent
  <2>1. ~(Stays /\ NextInBatch)
    BY <1>t, StillInHand DEF Stays
  <2> QED
    BY <1>1, <1>2, <1>3, <1>4, <1>5, <1>6, <1>8, <1>t, <2>1, BroadcastMoves
<1>9. ASSUME bcast.pc \in {"send", "restore"}, bcast'.pc \notin Away, bcast'.batch = b
      PROVE  Stays
  <2>1. ~NextInBatch
    BY <1>9, <1>t, StillInHand
  <2> QED
    BY <1>9, <1>t, <2>1, BroadcastMoves
       DEF Takes, Starts, Fails, Requeues, Drops, HandsOver, Marks, Leaves, Away
<1>10. CASE /\ bcast.pc = "send" /\ Deliver(bcast.max)
            /\ bcast'.pc \notin Away /\ bcast'.batch = b
            /\ SendsUsed' = SendsUsed + 1 /\ RestoresUsed' = RestoresUsed
  <2>1. Stays /\ RestoresUsed' = RestoresUsed + 0
    BY <1>10, <1>9, <1>m
  <2>2. bcast.max \in NoBounds .. MaxLedger + LedgerBoundsOffset /\ bcast.max # NoBounds
    BY <1>t, BoundsKnown
  <2> QED
    BY <1>7, <1>10, <2>1, <2>2
<1>11. CASE /\ bcast.pc = "restore" /\ Deliver(NoBounds)
            /\ bcast'.pc \notin Away /\ bcast'.batch = b
            /\ SendsUsed' = SendsUsed /\ RestoresUsed' = RestoresUsed + 1
  <2>1. Stays /\ SendsUsed' = SendsUsed + 0
    BY <1>11, <1>9, <1>m
  <2>2. NoBounds \in NoBounds .. MaxLedger + LedgerBoundsOffset
    BY <1>t, BoundsKnown
  <2> QED
    BY <1>7, <1>11, <2>1, <2>2
<1> QED
  BY <1>8, <1>10, <1>11, <1>t, BroadcastSends

\* ... a confirmer that retries starts the next round,
LEMMA ConfirmBudget ==
    ASSUME TypeOK, OnePlace, Alive, LoopPoints, EnvelopesKept, Budget, ConfirmStep
    PROVE  Budget'
<1> DEFINE q == ToSet(broadcastChan)
           b == bcast.batch
           h == InHand
           E == Entries
<1>0. Apart(q, b, h, E) /\ broadcastChan \in Seq(Txs) /\ attempt \in [Txs -> Nat]
  BY OnePlaceIs DEF TypeOK, TxTypes
<1>f. bcast' = bcast /\ caller' = caller /\ (Keeps \/ Concludes \/ Retries)
  BY ConfirmMoves DEF TypeOK, LoopPoints, ConfirmPoints
<1>g. /\ InHand' = h /\ bcast'.batch = b
      /\ SendsUsed' = SendsUsed /\ RestoresUsed' = RestoresUsed
  BY <1>f DEF InHand, SendsUsed, RestoresUsed
<1>h. sent' = sent
  BY DEF ConfirmStep, Snapshot, Found, NotFound, Expire, StillPending, Conclude, ConfirmExit, netVars
<1>s. ASSUME NEW t
      PROVE  Sends(t)' = Sends(t) /\ RestoresOf(t)' = RestoresOf(t)
  BY <1>h DEF Sends, RestoresOf, Broadcasts, Restores
<1>i. /\ \A t \in h : Spent(Sends(t), RestoresOf(t), attempt[t], SendsUsed, RestoresUsed)
      /\ \A e \in E : Spent(Sends(e.hash.tx), RestoresOf(e.hash.tx), attempt[e.hash.tx] + 1, 0, 0)
  BY BudgetIs
<1>1. CASE Keeps
  <2>1. ToSet(broadcastChan') = q /\ Entries' \subseteq E /\ attempt' = attempt
    BY <1>1 DEF Keeps
  <2> QED
    BY <1>f, <1>g, <1>h, <1>i, <2>1, QuietBudget
<1>2. CASE Concludes \/ Retries
  <2>1. CurEntry \in E
    BY <1>2, CurEntryLeft DEF Concludes, Retries, LoopPoints, ConfirmPoints, TypeOK, Entries
  <2>2. PICK c \in E : c = CurEntry
    BY <2>1
  <2>3. PICK x \in Txs : x = c.hash.tx
    BY <2>2, WorkingTypes
  <2>4. caller[x] = "enqueued" /\ attempt[x] < Rounds /\ attempt[x] \in Nat /\ Rounds \in Nat
    BY <1>0, <2>2, <2>3, TxmAssumption DEF Alive, Tracked, Rounds
  <2>5. /\ Entries' = E \ {c}
        /\ \/ ToSet(broadcastChan') = q /\ attempt' = attempt
           \/ ToSet(broadcastChan') = q /\ attempt' = [attempt EXCEPT ![x] = @ + 1]
           \/ ToSet(broadcastChan') = q \cup {x} /\ attempt' = [attempt EXCEPT ![x] = @ + 1]
    <3>1. CASE Concludes
      BY <3>1, <2>2, <2>3 DEF Concludes
    <3>2. CASE Retries
      BY <1>0, <3>2, <2>2, <2>3, ChannelSend DEF Retries
    <3> QED
      BY <1>2, <3>1, <3>2
  <2>6. x \notin q \cup b \cup h /\ \A e \in E \ {c} : e.hash.tx # x
    BY <1>0, <2>2, <2>3 DEF Apart
  <2>7. q \subseteq Txs /\ b \subseteq Txs /\ h \subseteq Txs /\ \A e \in E : e.hash.tx \in Txs
    BY WorkingTypes
  <2>8. \A t \in Txs \ {x} : attempt'[t] = attempt[t]
    BY <1>0, <2>5
  <2>9. /\ attempt'[x] <= Rounds
        /\ x \in ToSet(broadcastChan') => attempt'[x] = attempt[x] + 1
    BY <1>0, <2>3, <2>4, <2>5, <2>6
  <2>10. Spent(Sends(x), RestoresOf(x), attempt[x] + 1, 0, 0)
    BY <1>i, <2>2, <2>3
  <2>11. \A t \in Txs : attempt'[t] <= Rounds /\ Spent(Sends(t)', RestoresOf(t)', Rounds, 0, 0)
    BY <1>s, <2>8, <2>9, BudgetIs
  <2>12. \A t \in Txs : caller'[t] \in Fresh =>
              attempt'[t] = 0 /\ Spent(Sends(t)', RestoresOf(t)', 0, 0, 0)
    BY <1>f, <1>s, <2>4, <2>8, BudgetIs DEF Fresh
  <2>13. \A t \in q \cup b : Spent(Sends(t), RestoresOf(t), attempt[t], 0, 0)
    BY BudgetIs
  <2> HIDE DEF q, b, h, E
  <2>14. ASSUME NEW t \in ToSet(broadcastChan') \cup b
         PROVE  Spent(Sends(t)', RestoresOf(t)', attempt'[t], 0, 0)
    <3>1. CASE t = x
      BY <1>s, <2>6, <2>9, <2>10, <2>14, <3>1
    <3>2. CASE t # x
      <4>1. t \in q \cup b /\ t \in Txs
        BY <2>5, <2>7, <2>14, <3>2
      <4> QED
        BY <1>s, <2>8, <2>13, <3>2, <4>1
    <3> QED
      BY <3>1, <3>2
  <2>15. ASSUME NEW t \in h
         PROVE  Spent(Sends(t)', RestoresOf(t)', attempt'[t], SendsUsed', RestoresUsed')
    BY <1>g, <1>i, <1>s, <2>6, <2>7, <2>8
  <2>16. ASSUME NEW e \in Entries'
         PROVE  Spent(Sends(e.hash.tx)', RestoresOf(e.hash.tx)', attempt'[e.hash.tx] + 1, 0, 0)
    BY <1>i, <1>s, <2>5, <2>6, <2>7, <2>8
  <2> QED
    BY <1>g, <2>11, <2>12, <2>14, <2>15, <2>16, BudgetNextIs
<1> QED
  BY <1>1, <1>2, <1>f

\* ... and callers bring transactions for which nothing was sent.
LEMMA CallerBudget ==
    ASSUME TypeOK, OnePlace, EnvelopesKept, Budget, NEW t \in Txs, CallerStep(t) \/ Prune(t)
    PROVE  Budget'
<1> DEFINE q == ToSet(broadcastChan)
<1>0. /\ broadcastChan \in Seq(Txs) /\ Distinct(broadcastChan)
      /\ caller \in [Txs -> {"idle", "push", "evict", "repush", "enqueued",
                           "duplicate", "rejected"}]
  BY OnePlaceIs DEF TypeOK, TxTypes
<1>1. bcast' = bcast /\ Entries' = Entries /\ attempt' = attempt /\ sent' = sent
  BY DEF CallerStep, Enqueue, Push, Evict, Repush, Prune, Entries, storeVars, retryVars, netVars
<1>2. /\ bcast'.batch = bcast.batch /\ InHand' = InHand
      /\ SendsUsed' = SendsUsed /\ RestoresUsed' = RestoresUsed
  BY <1>1 DEF InHand, SendsUsed, RestoresUsed
<1>3. ASSUME NEW u
      PROVE  Sends(u)' = Sends(u) /\ RestoresOf(u)' = RestoresOf(u)
  BY <1>1 DEF Sends, RestoresOf, Broadcasts, Restores
<1>4. ASSUME NEW u \in Txs, caller'[u] \in Fresh
      PROVE  caller[u] \in Fresh
  BY <1>0, <1>4 DEF CallerStep, Enqueue, Push, Evict, Repush, Prune, Fresh
<1>5. ASSUME NEW u \in ToSet(broadcastChan')
      PROVE  u \in q \/ (u = t /\ caller[t] \in Fresh)
  <2>1. CASE broadcastChan' = broadcastChan
    BY <1>5, <2>1
  <2>2. CASE caller[t] \in {"push", "repush"} /\ broadcastChan' = Append(broadcastChan, t)
    BY <1>0, <1>5, <2>2, ChannelSend DEF Fresh
  <2>3. CASE broadcastChan # <<>> /\ broadcastChan' = Tail(broadcastChan)
    BY <1>0, <1>5, <2>3, ChannelReceive
  <2> QED
    BY <2>1, <2>2, <2>3 DEF CallerStep, Enqueue, Push, Evict, Repush, Prune
<1>6. \A u \in Txs : attempt'[u] <= Rounds /\ Spent(Sends(u)', RestoresOf(u)', Rounds, 0, 0)
  BY <1>1, <1>3, BudgetIs
<1>7. \A u \in Txs : caller'[u] \in Fresh =>
            attempt'[u] = 0 /\ Spent(Sends(u)', RestoresOf(u)', 0, 0, 0)
  BY <1>1, <1>3, <1>4, BudgetIs
<1>8. ASSUME NEW u \in ToSet(broadcastChan') \cup bcast'.batch
      PROVE  Spent(Sends(u)', RestoresOf(u)', attempt'[u], 0, 0)
  <2>1. CASE u \in q \cup bcast.batch
    BY <1>1, <1>3, <2>1, BudgetIs
  <2>2. CASE u = t /\ caller[t] \in Fresh
    <3>1. attempt[t] = 0 /\ Spent(Sends(t), RestoresOf(t), 0, 0, 0)
      BY <2>2, BudgetIs
    <3> QED
      BY <1>1, <1>3, <2>2, <3>1
  <2> QED
    BY <1>2, <1>5, <1>8, <2>1, <2>2
<1>9. \A u \in InHand' : Spent(Sends(u)', RestoresOf(u)', attempt'[u], SendsUsed', RestoresUsed')
  BY <1>1, <1>2, <1>3, BudgetIs
<1>10. \A e \in Entries' :
            Spent(Sends(e.hash.tx)', RestoresOf(e.hash.tx)', attempt'[e.hash.tx] + 1, 0, 0)
  BY <1>1, <1>3, BudgetIs
<1> QED
  BY <1>6, <1>7, <1>8, <1>9, <1>10, BudgetNextIs

-----------------------------------------------------------------------------
(* Every step of the TXM is one its store expects, or none of the store's. *)

\* A step that touches neither the store, nor a sequence, nor the ledger.
LEMMA StoreFrame ==
    ASSUME UNCHANGED <<storeVars, seqVars, seqNum, sent, result>>
    PROVE  UNCHANGED Store!vars
  BY DEF storeVars, seqVars, Store!vars, Store!store, Store!broadcaster, Store!network

\* The broadcaster creates the store, allocates, sends, adds, releases and resyncs.
LEMMA BroadcastDrives ==
    ASSUME TypeOK, Alive, LoopPoints, EnvelopesKept, Budget, BroadcastStep
    PROVE  Store!Next \/ UNCHANGED Store!vars
<1>a. BroadcastPoints /\ LoopTypes
  BY DEF LoopPoints, TypeOK
<1>b. SeqNumRead \subseteq 0 .. seqNum
  BY DEF SeqNumRead, TypeOK, NetTypes
<1>c. ASSUME Release, held # Store!NoSeq, UNCHANGED <<seqNum, sent, result>>
      PROVE  Store!Next
  BY <1>c DEF Release, Store!Next, Store!Abort, Store!network
<1>d. ASSUME ReleaseAndFail, held # Store!NoSeq, UNCHANGED <<seqNum, sent, result>>
      PROVE  Store!Next
  BY <1>c, <1>d DEF ReleaseAndFail
<1>e. ASSUME bcast.pc \in {"send", "restore"}, UNCHANGED storeVars,
             NEW max \in NoBounds .. MaxLedger + LedgerBoundsOffset, Deliver(max)
      PROVE  Store!Next
  <2>1. PICK e \in Store!Envelope :
              /\ signed' = {e} /\ sent' = sent \cup {e} /\ e.seq = held
              /\ \A d \in sent : d.hash = e.hash => d = e
    BY <1>e, Sending
  <2>2. held # Store!NoSeq /\ UNCHANGED <<held, seqNum, result>>
    BY <1>a, <1>e DEF BroadcastPoints, Deliver
  <2>3. e.hash \in Hashes /\ e = [seq |-> held, hash |-> e.hash]
    BY <2>1 DEF Store!Envelope
  <2>4. \A d \in sent : d.hash = e.hash => d.seq = held
    BY <2>1
  <2>5. UNCHANGED <<Store!store, DOMAIN result>>
    BY <1>e, <2>2 DEF storeVars, Store!store
  <2>6. Store!Send
    BY <2>1, <2>2, <2>3, <2>4, <2>5 DEF Store!Send
  <2> QED
    BY <2>6 DEF Store!Next
<1>f. ASSUME NEW n \in SeqNumRead, Store!ResyncNonce(n + 1), held' = Store!NoSeq, signed' = {},
             Store!StoreExists, UNCHANGED <<seqNum, sent, result>>
      PROVE  Store!Next
  BY <1>b, <1>f DEF Store!Next, Store!Resync, Store!network
<1>1. CASE Receive
  BY <1>1, StoreFrame DEF Receive, netVars
<1>2. CASE SortBatch
  BY <1>2, StoreFrame DEF SortBatch, netVars
<1>3. CASE GetClient
  BY <1>3, StoreFrame DEF GetClient, netVars
<1>4. CASE RetryGetClientOrFail
  BY <1>4, StoreFrame DEF RetryGetClientOrFail, netVars
<1>5. CASE CreateStore
  <2>1. CASE UNCHANGED storeVars
    BY <1>5, <2>1, StoreFrame DEF CreateStore, netVars
  <2>2. ASSUME NEW n \in SeqNumRead, Store!CreateTxStore(n + 1)
        PROVE  Store!Next
    BY <1>b, <1>5, <2>2 DEF CreateStore, Store!Next, Store!Create, Store!broadcaster,
                          Store!network, seqVars, netVars
  <2> QED
    BY <1>5, <2>1, <2>2 DEF CreateStore
<1>6. CASE Resync
  <2>1. CASE UNCHANGED <<storeVars, seqVars>>
    BY <1>6, <2>1, StoreFrame DEF Resync, netVars
  <2> QED
    BY <1>a, <1>f, <1>6, <2>1 DEF Resync, BroadcastPoints, netVars
<1>7. CASE ReadSequence
  BY <1>a, <1>7 DEF ReadSequence, BroadcastPoints, Store!Next, Store!Allocate, Store!store,
                  Store!network, storeVars, netVars
<1>8. CASE Simulate
  <2>1. CASE UNCHANGED <<storeVars, seqVars>>
    BY <1>8, <2>1, StoreFrame DEF Simulate, netVars
  <2> QED
    BY <1>a, <1>c, <1>d, <1>8, <2>1 DEF Simulate, netVars, BroadcastPoints
<1>9. CASE SubmitExhausted
  BY <1>a, <1>d, <1>9 DEF SubmitExhausted, netVars, BroadcastPoints
<1>10. CASE SendAccepted
  BY <1>a, <1>e, <1>10, BoundsKnown DEF SendAccepted
<1>11. CASE SendFails
  <2>1. CASE UNCHANGED <<seqVars, netVars>>
    BY <1>11, <2>1, StoreFrame DEF SendFails, netVars
  <2> QED
    BY <1>a, <1>e, <1>11, <2>1, BoundsKnown DEF SendFails
<1>12. CASE SendRetryable
  BY <1>12, StoreFrame DEF SendRetryable, netVars
<1>13. CASE Backoff
  <2>1. CASE UNCHANGED <<storeVars, seqVars>>
    BY <1>13, <2>1, StoreFrame DEF Backoff, netVars
  <2> QED
    BY <1>a, <1>c, <1>d, <1>13, <2>1 DEF Backoff, netVars, BroadcastPoints
<1>14. CASE SendBadSeq
  BY <1>14, StoreFrame DEF SendBadSeq, netVars
<1>15. CASE SendRejected
  BY <1>a, <1>d, <1>15 DEF SendRejected, netVars, BroadcastPoints
<1>16. CASE AddUnconfirmed
  <2>1. CASE ReleaseAndFail
    BY <1>a, <1>d, <1>16, <2>1 DEF AddUnconfirmed, netVars, BroadcastPoints
  <2>2. CASE ~ReleaseAndFail
    BY <1>16, <2>2 DEF AddUnconfirmed, netVars, Store!Next, Store!Accept, Store!network
  <2> QED
    BY <2>1, <2>2
<1>17. CASE MarkUnconfirmed
  BY <1>17, StoreFrame DEF MarkUnconfirmed, netVars
<1>18. CASE RestoreSend
  BY <1>a, <1>e, <1>18, BoundsKnown DEF RestoreSend
<1>19. CASE RestorePoll
  BY <1>19, StoreFrame DEF RestorePoll, netVars
<1>20. CASE RestoreResync
  BY <1>a, <1>f, <1>20 DEF RestoreResync, BroadcastPoints, netVars
<1>21. CASE RestoreFails
  BY <1>a, <1>d, <1>21 DEF RestoreFails, netVars, BroadcastPoints
<1>22. CASE BroadcastExit
  BY <1>22, StoreFrame DEF BroadcastExit, netVars
<1> QED
  BY <1>1, <1>2, <1>3, <1>4, <1>5, <1>6, <1>7, <1>8, <1>9, <1>10, <1>11, <1>12, <1>13, <1>14, <1>15, <1>16, <1>17, <1>18, <1>19, <1>20, <1>21, <1>22 DEF BroadcastStep

\* The confirmer settles or expires what it finds.
LEMMA ConfirmDrives ==
    ASSUME TypeOK, LoopPoints, ConfirmStep
    PROVE  Store!Next \/ UNCHANGED Store!vars
<1>1. CASE UNCHANGED storeVars
  <2>1. UNCHANGED <<seqVars, seqNum, sent, result>>
    BY DEF ConfirmStep, Snapshot, Found, NotFound, Expire, StillPending, Conclude, ConfirmExit, netVars
  <2> QED
    BY <1>1, <2>1, StoreFrame
<1>2. CASE Found /\ ~UNCHANGED storeVars
  <2>1. CurEntry \in DOMAIN result /\ Store!Confirm(CurEntry, FALSE)
    BY <1>2 DEF Found
  <2> QED
    BY <1>2, <2>1 DEF Found, Store!Next, Store!Settle, Store!broadcaster, Store!network, seqVars, netVars
<1>3. CASE Expire /\ ~UNCHANGED storeVars
  <2>1. CurEntry \in confirm.queue
    BY <1>3, CurEntryLeft DEF Expire, LoopPoints, ConfirmPoints, TypeOK
  <2>2. CurEntry \in sent /\ Store!Confirm(CurEntry, TRUE)
    BY <1>3, <2>1 DEF Expire, TypeOK, StoreTypes
  <2> QED
    BY <1>3, <2>2 DEF Expire, Store!Next, Store!Expire, Store!broadcaster, Store!network, seqVars, netVars
<1> QED
  BY <1>1, <1>2, <1>3 DEF ConfirmStep, Snapshot, NotFound, StillPending, Conclude, ConfirmExit

\* Callers, pruning and closing are not the store's business; the network is the ledger.
LEMMA OthersDrive ==
    ASSUME TypeOK,
           \/ \E t \in Txs : CallerStep(t) \/ Prune(t)
           \/ Close
           \/ NetworkStep
    PROVE  Store!Next \/ UNCHANGED Store!vars
<1>1. ASSUME NEW t \in Txs, CallerStep(t) \/ Prune(t)
      PROVE  UNCHANGED Store!vars
  BY <1>1, StoreFrame DEF CallerStep, Enqueue, Push, Evict, Repush, Prune, netVars
<1>2. CASE Close \/ CloseLedger \/ \E t \in Txs : Age(t)
  BY <1>2, StoreFrame DEF Close, CloseLedger, Age, netVars, netFrame
<1>3. CASE Land
  <2>1. PICK e \in sent, r \in {"success"} \cup (Faults \cap {"revert", "exhaust"}) :
          /\ e.seq = seqNum + 1
          /\ result' = [d \in DOMAIN result \cup {e} |-> IF d = e THEN r ELSE result[d]]
    BY <1>3 DEF Land
  <2>2. DOMAIN result' = DOMAIN result \cup {e}
    BY <2>1
  <2>3. seqNum' = seqNum + 1 /\ UNCHANGED <<storeVars, seqVars, sent>>
    BY <1>3 DEF Land, netFrame
  <2> QED
    BY <2>1, <2>2, <2>3 DEF Store!Next, Store!Land, Store!store, Store!broadcaster, storeVars, seqVars
<1>4. CASE ForeignUse
  BY <1>4 DEF ForeignUse, netFrame, Store!Next, Store!ForeignUse, Store!store,
              Store!broadcaster, storeVars, seqVars
<1> QED
  BY <1>1, <1>2, <1>3, <1>4 DEF NetworkStep

-----------------------------------------------------------------------------
(* The types of the store, the loops and the network.                      *)

\* Steps of the store keep its numbers.
LEMMA StoreNumbers ==
    ASSUME StoreTypes, NetTypes, EnvelopesKept,
           Store!Next \/ UNCHANGED Store!vars
    PROVE  /\ nextSequence' \in Nat /\ lastOnchainSequence' \in Nat /\ held' \in Nat
           /\ seqNum' \in Nat /\ failedSequences' \subseteq Nat \ {0}
<1>a. /\ nextSequence \in Nat /\ lastOnchainSequence \in Nat /\ held \in Nat
      /\ seqNum \in Nat /\ failedSequences \subseteq Nat \ {0}
      /\ \A e \in sent : e.seq \in Nat \ {0}
      /\ 0 .. seqNum \subseteq Nat
  BY DEF StoreTypes, NetTypes, EnvelopesKept, Store!Envelope, Store!NoSeq
<1>1. CASE UNCHANGED Store!vars
  BY <1>a, <1>1 DEF Store!vars, Store!store, Store!broadcaster, Store!network
<1>2. CASE Store!Create
  BY <1>a, <1>2 DEF Store!Create, Store!CreateTxStore, Store!broadcaster, Store!network
<1>3. CASE Store!Allocate
  BY <1>a, <1>3 DEF Store!Allocate, Store!store, Store!network
<1>4. CASE Store!Send
  BY <1>a, <1>4 DEF Store!Send, Store!store
<1>5. CASE Store!Accept
  <2>1. PICK e \in signed : Store!AddUnconfirmed(e)
    BY <1>5 DEF Store!Accept
  <2>2. /\ failedSequences' \subseteq failedSequences /\ lastOnchainSequence' = lastOnchainSequence
        /\ nextSequence' = nextSequence \/ nextSequence' = nextSequence + 1
    BY <2>1 DEF Store!AddUnconfirmed
  <2>3. held' = 0 /\ seqNum' = seqNum
    BY <1>5 DEF Store!Accept, Store!NoSeq, Store!network
  <2> QED
    BY <1>a, <2>2, <2>3
<1>6. CASE Store!Abort
  BY <1>a, <1>6 DEF Store!Abort, Store!Release, Store!NoSeq, Store!network
<1>7. CASE Store!Resync
  <2>1. PICK n \in 0 .. seqNum : Store!ResyncNonce(n + 1)
    BY <1>7 DEF Store!Resync
  <2>2. n + 1 \in Nat
    BY <1>a
  <2>3. /\ failedSequences' \subseteq failedSequences /\ lastOnchainSequence' = n + 1
        /\ nextSequence' = nextSequence \/ nextSequence' = n + 1
    BY <2>1 DEF Store!ResyncNonce
  <2>4. held' = 0 /\ seqNum' = seqNum
    BY <1>7 DEF Store!Resync, Store!NoSeq, Store!network
  <2> QED
    BY <1>a, <2>2, <2>3, <2>4
<1>8. CASE Store!Settle
  BY <1>a, <1>8 DEF Store!Settle, Store!Confirm, Store!broadcaster, Store!network
<1>9. CASE Store!Expire
  <2>1. PICK e \in sent : Store!Confirm(e, TRUE)
    BY <1>9 DEF Store!Expire
  <2> QED
    BY <1>a, <1>9, <2>1 DEF Store!Expire, Store!Confirm, Store!broadcaster, Store!network
<1>10. CASE Store!Land \/ Store!ForeignUse
  <2>1. /\ seqNum' = seqNum + 1
        /\ UNCHANGED <<nextSequence, lastOnchainSequence, held, failedSequences>>
    BY <1>10 DEF Store!Land, Store!ForeignUse, Store!store, Store!broadcaster
  <2> QED
    BY <1>a, <2>1
<1> QED
  BY <1>1, <1>2, <1>3, <1>4, <1>5, <1>6, <1>7, <1>8, <1>9, <1>10 DEF Store!Next

\* What is tracked has been sent.
LEMMA TrackedSent ==
    ASSUME TypeOK, LoopPoints,
           \/ BroadcastStep \/ ConfirmStep \/ Close \/ NetworkStep
           \/ \E t \in Txs : CallerStep(t) \/ Prune(t)
    PROVE  sent \subseteq sent' /\ unconfirmedSequences' \cup confirm'.queue \subseteq sent'
<1>0. unconfirmedSequences \cup confirm.queue \subseteq sent
  BY DEF TypeOK, StoreTypes
<1>1. CASE BroadcastStep
  <2>1. sent \subseteq sent'
    BY <1>1, BroadcastSends DEF TypeOK, LoopPoints, Deliver
  <2>2. confirm' = confirm
    BY <1>1, BroadcastUnconfirmed
  <2>3. CASE unconfirmedSequences' \subseteq unconfirmedSequences
    BY <1>0, <2>1, <2>2, <2>3
  <2>4. CASE bcast.pc = "accepted" /\ \E e \in signed : unconfirmedSequences' = unconfirmedSequences \cup {e}
    BY <1>0, <2>1, <2>2, <2>4 DEF LoopPoints, BroadcastPoints, Broadcasts
  <2> QED
    BY <1>1, <2>3, <2>4, BroadcastUnconfirmed
<1>2. CASE ConfirmStep
  <2>1. sent' = sent
    BY <1>2 DEF ConfirmStep, Snapshot, Found, NotFound, Expire, StillPending, Conclude,
                ConfirmExit, netVars
  <2>2. Entries' \subseteq Entries
    BY <1>2, ConfirmMoves DEF TypeOK, LoopPoints, ConfirmPoints, Keeps, Concludes, Retries
  <2> QED
    BY <1>0, <2>1, <2>2 DEF Entries
<1>3. CASE Close \/ NetworkStep
  BY <1>0, <1>3 DEF Close, NetworkStep, CloseLedger, Land, ForeignUse, Age, netFrame, storeVars, netVars
<1>4. ASSUME NEW t \in Txs, CallerStep(t) \/ Prune(t)
      PROVE  UNCHANGED <<sent, unconfirmedSequences, confirm>>
  BY <1>4 DEF CallerStep, Enqueue, Push, Evict, Repush, Prune, storeVars, netVars
<1> QED
  BY <1>0, <1>1, <1>2, <1>3, <1>4

\* Every step keeps every type.
LEMMA TypesKept ==
    ASSUME TxmInv, Next
    PROVE  TypeOK'
<1>a. TypeOK /\ Alive /\ LoopPoints /\ EnvelopesKept /\ Budget
  BY DEF TxmInv
<1>b. TxTypes /\ LoopTypes /\ StoreTypes /\ NetTypes
  BY <1>a DEF TypeOK
<1>1. Store!Next \/ UNCHANGED Store!vars
  BY <1>a, BroadcastDrives, ConfirmDrives, OthersDrive DEF Next
<1>2. StoreTypes' /\ seqNum' \in Nat /\ sent \subseteq sent'
  BY <1>1, <1>a, <1>b, StoreNumbers, TrackedSent DEF Next, StoreTypes
<1>3. TxTypes'
  <2>1. CASE BroadcastStep
    BY <1>a, <1>b, <2>1, BroadcastTxTypes DEF Alive
  <2>2. CASE ConfirmStep
    BY <1>a, <2>2, ConfirmTxTypes DEF LoopPoints, ConfirmPoints
  <2>3. CASE Close \/ NetworkStep
    BY <1>b, <2>3, TxFrame DEF Close, NetworkStep, CloseLedger, Land, ForeignUse, Age, netFrame, txFrame
  <2> QED
    BY <1>b, <2>1, <2>2, <2>3, CallerTxTypes DEF Next
<1>4. LoopTypes'
  <2>1. CASE BroadcastStep
    <3>1. bcast' \in BroadcastState
      BY <1>b, <2>1, BroadcastStateKept
    <3>2. confirm' = confirm
      BY <1>b, <2>1, BroadcastMoves
    <3>3. stopped' = stopped
      BY <1>a, <1>b, <2>1, BroadcastSends DEF LoopPoints
    <3> QED
      BY <1>b, <3>1, <3>2, <3>3 DEF LoopTypes, BroadcastState
  <2>2. CASE ConfirmStep
    <3>1. confirm' \in [pc : ConfirmPcs, queue : SUBSET Store!Envelope]
      BY <1>a, <2>2, ConfirmStateKept
    <3>2. UNCHANGED <<bcast, stopped>>
      BY <2>2 DEF ConfirmStep, Snapshot, Found, NotFound, Expire, StillPending, Conclude, ConfirmExit
    <3> QED
      BY <1>b, <3>1, <3>2 DEF LoopTypes
  <2>3. CASE ~BroadcastStep /\ ~ConfirmStep
    BY <1>b, <2>3 DEF Next, Close, NetworkStep, CloseLedger, Land, ForeignUse, Age, netFrame,
       CallerStep, Enqueue, Push, Evict, Repush, Prune, LoopTypes
  <2> QED
    BY <2>1, <2>2, <2>3
<1>5. NetTypes'
  <2>1. CASE BroadcastStep
    <3>1. UNCHANGED <<seqNum, result, ledger, old>>
      BY <1>a, <1>b, <2>1, BroadcastSends DEF LoopPoints
    <3>2. sent' \subseteq Store!Envelope
      <4>1. CASE sent' = sent
        BY <1>b, <4>1 DEF NetTypes
      <4>2. ASSUME bcast.pc \in {"send", "restore"},
                   NEW max \in NoBounds .. MaxLedger + LedgerBoundsOffset, Deliver(max)
            PROVE  sent' \subseteq Store!Envelope
        BY <1>a, <1>b, <4>2, Sending DEF NetTypes
      <4> QED
        BY <1>a, <1>b, <2>1, <4>1, <4>2, BroadcastSends, BoundsKnown DEF LoopPoints
    <3> QED
      BY <1>2, <1>b, <3>1, <3>2 DEF NetTypes
  <2>2. CASE ConfirmStep \/ Close \/ \E t \in Txs : CallerStep(t) \/ Prune(t)
    <3>1. UNCHANGED netVars
      BY <2>2 DEF ConfirmStep, Snapshot, Found, NotFound, Expire, StillPending, Conclude, ConfirmExit,
                  Close, CallerStep, Enqueue, Push, Evict, Repush, Prune
    <3> QED
      BY <1>b, <3>1 DEF NetTypes, netVars
  <2>3. CASE Land
    BY <1>a, <2>3, LandExtends
  <2>4. CASE CloseLedger
    <3>1. ledger' = ledger + 1 /\ ledger < MaxLedger /\ UNCHANGED <<seqNum, sent, result, old>>
      BY <2>4 DEF CloseLedger
    <3>2. ledger' \in 0 .. MaxLedger
      BY <1>b, <3>1, TxmAssumption DEF NetTypes
    <3> QED
      BY <1>b, <3>1, <3>2 DEF NetTypes
  <2>5. CASE ForeignUse
    BY <1>2, <1>b, <2>5 DEF ForeignUse, NetTypes
  <2>6. CASE \E t \in Txs : Age(t)
    BY <1>b, <2>6 DEF Age, NetTypes
  <2> QED
    BY <2>1, <2>2, <2>3, <2>4, <2>5, <2>6 DEF Next, NetworkStep
<1> QED
  BY <1>2, <1>3, <1>4, <1>5 DEF TypeOK

-----------------------------------------------------------------------------
(* Finalized means executed.                                               *)

\* Statuses that are not newly Finalized, envelopes and results that stay.
LEMMA FinalizedFrame ==
    ASSUME FinalizedExecuted, \A t \in Txs : status'[t] = "Finalized" => status[t] = "Finalized",
           sent \subseteq sent',
           \A d \in DOMAIN result : d \in DOMAIN result' /\ result'[d] = result[d]
    PROVE  FinalizedExecuted'
<1>1. ASSUME NEW t \in Txs, status'[t] = "Finalized"
      PROVE  \E e \in (Broadcasts(t) \cap DOMAIN result)' : result'[e] = "success"
  <2>1. PICK e \in Broadcasts(t) \cap DOMAIN result : result[e] = "success"
    BY <1>1 DEF FinalizedExecuted
  <2>2. e \in Broadcasts(t)' /\ e \in DOMAIN result' /\ result'[e] = "success"
    BY <2>1 DEF Broadcasts
  <2> QED
    BY <2>2
<1> QED
  BY <1>1 DEF FinalizedExecuted

\* Only the confirmer finalizes, for an envelope it has found.
LEMMA FinalizedKept ==
    ASSUME TxmInv, Next
    PROVE  FinalizedExecuted'
<1>a. TypeOK /\ Alive /\ LoopPoints /\ EnvelopesKept /\ FinalizedExecuted
  BY DEF TxmInv
<1>b. LoopTypes /\ status \in [Txs -> {"Pending", "Unconfirmed"} \cup Terminal]
  BY <1>a DEF TypeOK, TxTypes
<1>c. sent \subseteq sent'
  BY <1>a, TrackedSent DEF Next
<1>d. ASSUME NEW x, NEW s, s # "Finalized", UpdateStatus(x, s)
      PROVE  \A t \in Txs : status'[t] = "Finalized" => status[t] = "Finalized"
  BY <1>b, <1>d DEF UpdateStatus
<1>1. CASE BroadcastStep
  <2>1. result' = result
    BY <1>a, <1>1, BroadcastUnconfirmed
  <2>2. status' = status \/ UpdateStatus(bcast.tx, "Failed") \/ UpdateStatus(bcast.tx, "Unconfirmed")
    BY <1>b, <1>1, BroadcastMoves DEF Stays, Takes, Starts, Fails, Requeues, Drops, HandsOver,
                                      Marks, Leaves, txVars
  <2>3. \A t \in Txs : status'[t] = "Finalized" => status[t] = "Finalized"
    BY <1>d, <2>2
  <2> QED
    BY <1>a, <1>c, <2>1, <2>3, FinalizedFrame
<1>2. CASE ConfirmStep
  <2>1. UNCHANGED <<sent, result>>
    BY <1>2 DEF ConfirmStep, Snapshot, Found, NotFound, Expire, StillPending, Conclude,
                ConfirmExit, netVars
  <2>2. CASE \A t \in Txs : status'[t] = "Finalized" => status[t] = "Finalized"
    BY <1>a, <1>c, <2>1, <2>2, FinalizedFrame
  <2>3. CASE confirm.pc = "finalize" /\ UpdateStatus(CurEntry.hash.tx, "Finalized")
    <3>1. CurEntry \in confirm.queue
      BY <1>a, <1>b, <2>3, CurEntryLeft DEF LoopPoints, ConfirmPoints
    <3>2. PICK c \in confirm.queue : c = CurEntry
      BY <3>1
    <3>3. c \in DOMAIN result /\ result[c] = "success"
      BY <1>a, <2>3, <3>2 DEF LoopPoints, ConfirmPoints
    <3>4. c \in sent /\ c.hash.max # NoBounds
      BY <1>a, <3>2 DEF TypeOK, StoreTypes, EnvelopesKept, Entries
    <3>5. c \in Broadcasts(c.hash.tx)
      BY <3>4 DEF Broadcasts
    <3>6. \A t \in Txs : status'[t] = "Finalized" => t = c.hash.tx \/ status[t] = "Finalized"
      BY <1>b, <2>3, <3>2 DEF UpdateStatus
    <3>7. \A t \in Txs : status'[t] = "Finalized" =>
              \E e \in Broadcasts(t) \cap DOMAIN result : result[e] = "success"
      BY <1>a, <3>3, <3>5, <3>6 DEF FinalizedExecuted
    <3> QED
      BY <2>1, <3>7 DEF FinalizedExecuted, Broadcasts
  <2>4. \/ status' = status \/ UpdateStatus(CurEntry.hash.tx, "Failed")
        \/ confirm.pc = "finalize" /\ UpdateStatus(CurEntry.hash.tx, "Finalized")
    BY <1>a, <1>b, <1>2, ConfirmMoves DEF LoopPoints, ConfirmPoints, Keeps, Concludes, Retries, txVars
  <2> QED
    BY <1>d, <2>2, <2>3, <2>4
<1>3. ASSUME NEW t \in Txs, CallerStep(t) \/ Prune(t)
      PROVE  FinalizedExecuted'
  <2>1. result' = result
    BY <1>3 DEF CallerStep, Enqueue, Push, Evict, Repush, Prune, netVars
  <2>2. status' = status \/ UpdateStatus(Head(broadcastChan), "Failed")
    BY <1>3 DEF CallerStep, Enqueue, Push, Evict, Repush, Prune, txVars
  <2>3. \A u \in Txs : status'[u] = "Finalized" => status[u] = "Finalized"
    BY <1>d, <2>2
  <2> QED
    BY <1>a, <1>c, <2>1, <2>3, FinalizedFrame
<1>4. CASE Close \/ NetworkStep
  <2>1. status' = status
    BY <1>4 DEF Close, NetworkStep, CloseLedger, Land, ForeignUse, Age, netFrame, txVars
  <2>2. CASE Land
    BY <1>a, <1>c, <2>1, <2>2, LandExtends, FinalizedFrame
  <2>3. CASE ~Land
    <3>1. result' = result
      BY <1>4, <2>3 DEF Close, NetworkStep, CloseLedger, ForeignUse, Age, netVars
    <3> QED
      BY <1>a, <1>c, <2>1, <3>1, FinalizedFrame
  <2> QED
    BY <2>2, <2>3
<1> QED
  BY <1>1, <1>2, <1>3, <1>4 DEF Next

-----------------------------------------------------------------------------
(* The invariant.                                                          *)

\* Closing the service and the network move no transaction.
LEMMA OthersKeep ==
    ASSUME TypeOK, OnePlace, Alive, Registered, LoopPoints, EnvelopesKept, Budget,
           Close \/ NetworkStep
    PROVE  OnePlace' /\ Alive' /\ Registered' /\ LoopPoints' /\ Budget'
<1>1. /\ UNCHANGED <<caller, txVars, retryVars, broadcastChan, bcast, confirm, storeVars,
                     seqVars, sent>>
      /\ \A d \in DOMAIN result : d \in DOMAIN result' /\ result'[d] = result[d]
  <2>1. CASE Land
    BY <2>1, LandExtends DEF netFrame
  <2>2. CASE ~Land
    BY <2>2 DEF Close, NetworkStep, CloseLedger, ForeignUse, Age, netFrame, netVars
  <2> QED
    BY <2>1, <2>2
<1>2. InHand' = InHand /\ Entries' = Entries /\ Queued' = Queued /\ Tracked' = Tracked
  BY <1>1 DEF InHand, Entries, Queued, Tracked, storeVars
<1>3. OnePlace'
  BY <1>1, <1>2 DEF OnePlace
<1>4. Alive'
  BY <1>1, <1>2 DEF Alive, txVars, retryVars
<1>5. Registered'
  BY <1>1, RegisteredFrame
<1>6. LoopPoints'
  <2>1. CurEntry' = CurEntry
    BY <1>1 DEF CurEntry
  <2>2. ConfirmPoints'
    BY <1>1, <2>1 DEF LoopPoints, ConfirmPoints, storeVars
  <2>3. BroadcastPoints'
    BY <1>1 DEF LoopPoints, BroadcastPoints, Broadcasts, storeVars, seqVars, Store!StoreExists
  <2> QED
    BY <2>2, <2>3 DEF LoopPoints
<1>7. Budget'
  <2>1. UNCHANGED <<caller, attempt, ToSet(broadcastChan), bcast.batch, SendsUsed, RestoresUsed>>
    BY <1>1 DEF SendsUsed, RestoresUsed, retryVars
  <2> QED
    BY <1>1, <1>2, <2>1, BudgetIs, QuietBudget
<1> QED
  BY <1>3, <1>4, <1>5, <1>6, <1>7

\* Nothing has happened yet.
LEMMA TxmInit ==
    Init => TxmInv
<1> SUFFICES ASSUME Init PROVE TxmInv
  OBVIOUS
<1>1. /\ caller = [t \in Txs |-> "idle"] /\ status = [t \in Txs |-> "Pending"]
      /\ attempt = [t \in Txs |-> 0] /\ infraAttempts = [t \in Txs |-> 0]
      /\ transactions = {} /\ done = {} /\ broadcastChan = <<>> /\ enqueued = <<>>
      /\ bcast = Idle /\ confirm = [pc |-> "idle", queue |-> {}] /\ stopped = FALSE
      /\ result = << >> /\ ledger = 0 /\ old = {}
  BY DEF Init
<1>2. /\ nextSequence = 0 /\ lastOnchainSequence = 0 /\ held = 0 /\ seqNum = 0
      /\ unconfirmedSequences = {} /\ failedSequences = {} /\ signed = {} /\ sent = {}
      /\ DOMAIN result = {}
  BY DEF Init, Store!Init, Store!NoSeq
<1>3. /\ bcast.pc = "idle" /\ bcast.tx = NoTx /\ bcast.batch = {} /\ bcast.tries = 0
      /\ bcast.restored = FALSE /\ bcast.max = 0 /\ bcast \in BroadcastState
  BY <1>1, TxmAssumption DEF Idle, BroadcastState, BroadcastPcs
<1>4. InHand = {} /\ Entries = {} /\ Tracked = {} /\ Queued = {}
  <2>1. ToSet(broadcastChan) = {}
    BY <1>1 DEF ToSet
  <2> QED
    BY <1>1, <1>2, <1>3, <2>1 DEF InHand, Entries, Tracked, Queued
<1>5. TypeOK
  <2>1. TxTypes
    BY <1>1 DEF TxTypes
  <2>2. LoopTypes
    BY <1>1, <1>3 DEF LoopTypes, BroadcastState, ConfirmPcs
  <2>3. StoreTypes
    BY <1>1, <1>2 DEF StoreTypes
  <2>4. NetTypes
    BY <1>1, <1>2, TxmAssumption DEF NetTypes
  <2> QED
    BY <2>1, <2>2, <2>3, <2>4 DEF TypeOK
<1>6. OnePlace
  BY <1>1, <1>4 DEF OnePlace, Queued
<1>7. Alive
  BY <1>3, <1>4 DEF Alive
<1>8. Registered
  BY <1>1 DEF Registered, Terminal
<1>9. LoopPoints
  <2>1. BroadcastPoints
    BY <1>3, TxmAssumption DEF BroadcastPoints
  <2>2. ConfirmPoints
    BY <1>1 DEF ConfirmPoints
  <2> QED
    BY <2>1, <2>2 DEF LoopPoints
<1>10. EnvelopesKept
  BY <1>2, <1>4, FS_EmptySet DEF EnvelopesKept
<1>11. ASSUME NEW t
       PROVE  Cardinality(Broadcasts(t)) = 0 /\ Cardinality(Restores(t)) = 0
  <2>1. Broadcasts(t) = {} /\ Restores(t) = {}
    BY <1>2 DEF Broadcasts, Restores
  <2> QED
    BY <2>1, FS_EmptySet
<1>12. Budget
  <2>1. Rounds \in Nat /\ MaxSubmitRetryAttempts \in Nat
    BY TxmAssumption DEF Rounds
  <2>2. PICK p \in Nat : p = Rounds * MaxSubmitRetryAttempts
    BY <2>1
  <2>3. 0 * MaxSubmitRetryAttempts = 0
    BY <2>1
  <2>4. \A t \in Txs : WithinRounds(t, Rounds, 0, 0) /\ WithinRounds(t, 0, 0, 0)
    BY <1>11, <2>1, <2>2, <2>3 DEF WithinRounds
  <2> QED
    BY <1>1, <1>4, <2>1, <2>4 DEF Budget
<1>13. FinalizedExecuted
  BY <1>1 DEF FinalizedExecuted
<1> QED
  BY <1>5, <1>6, <1>7, <1>8, <1>9, <1>10, <1>12, <1>13 DEF TxmInv

\* Every step of the callers, the loops, the service and the network keeps it.
LEMMA TxmStep ==
    TxmInv /\ [Next]_vars => TxmInv'
<1> SUFFICES ASSUME TxmInv, [Next]_vars PROVE TxmInv'
  OBVIOUS
<1>a. /\ TypeOK /\ OnePlace /\ Alive /\ Registered /\ LoopPoints /\ EnvelopesKept /\ Budget
      /\ BroadcastPoints /\ ConfirmPoints
  BY DEF TxmInv, LoopPoints
<1>1. CASE BroadcastStep
  <2>1. OnePlace' /\ Alive' /\ Registered'
    BY <1>a, <1>1, BroadcastOnePlace, BroadcastAlive, BroadcastRegistered
  <2>2. LoopPoints'
    BY <1>a, <1>1, BroadcastPointsKept, BroadcastConfirmPoints DEF LoopPoints
  <2>3. EnvelopesKept' /\ Budget'
    BY <1>a, <1>1, BroadcastEnvelopes, BroadcastBudget
  <2>4. TypeOK' /\ FinalizedExecuted'
    BY <1>1, TypesKept, FinalizedKept DEF Next
  <2> QED
    BY <2>1, <2>2, <2>3, <2>4 DEF TxmInv
<1>2. CASE ConfirmStep
  <2>1. OnePlace' /\ Alive' /\ Registered'
    BY <1>a, <1>2, ConfirmOnePlace, ConfirmAlive, ConfirmRegistered
  <2>2. LoopPoints'
    BY <1>a, <1>2, ConfirmPointsKept, ConfirmBroadcastPoints DEF LoopPoints
  <2>3. EnvelopesKept' /\ Budget'
    BY <1>a, <1>2, OthersEnvelopes, ConfirmBudget
  <2>4. TypeOK' /\ FinalizedExecuted'
    BY <1>2, TypesKept, FinalizedKept DEF Next
  <2> QED
    BY <2>1, <2>2, <2>3, <2>4 DEF TxmInv
<1>3. ASSUME NEW t \in Txs, CallerStep(t) \/ Prune(t)
      PROVE  TxmInv'
  <2>1. OnePlace' /\ Alive' /\ Registered'
    BY <1>a, <1>3, CallerOnePlace, CallerAlive, CallerRegistered
  <2>2. LoopPoints'
    BY <1>a, <1>3, PointsFrame DEF CallerStep, Enqueue, Push, Evict, Repush, Prune, netVars
  <2>3. EnvelopesKept' /\ Budget'
    BY <1>a, <1>3, OthersEnvelopes, CallerBudget
  <2>4. TypeOK' /\ FinalizedExecuted'
    BY <1>3, TypesKept, FinalizedKept DEF Next
  <2> QED
    BY <2>1, <2>2, <2>3, <2>4 DEF TxmInv
<1>4. CASE Close \/ NetworkStep
  <2>1. OnePlace' /\ Alive' /\ Registered' /\ LoopPoints' /\ Budget'
    BY <1>a, <1>4, OthersKeep
  <2>2. EnvelopesKept'
    BY <1>a, <1>4, OthersEnvelopes
  <2>3. TypeOK' /\ FinalizedExecuted'
    BY <1>4, TypesKept, FinalizedKept DEF Next
  <2> QED
    BY <2>1, <2>2, <2>3 DEF TxmInv
<1>5. CASE UNCHANGED vars
  <2>1. /\ UNCHANGED <<caller, txVars, retryVars, broadcastChan, enqueued, bcast, confirm, stopped>>
        /\ UNCHANGED <<storeVars, seqVars, seqNum, sent, result, ledger, old>>
    BY <1>5 DEF vars, netVars
  <2>2. /\ UNCHANGED <<caller, transactions, status, done, attempt, infraAttempts>>
        /\ UNCHANGED <<nextSequence, unconfirmedSequences, failedSequences, lastOnchainSequence,
                       held, signed>>
    BY <2>1 DEF txVars, retryVars, storeVars, seqVars
  <2>3. TypeOK'
    BY <1>a, <2>1, <2>2 DEF TypeOK, TxTypes, LoopTypes, StoreTypes, NetTypes
  <2>4. InHand' = InHand /\ Entries' = Entries /\ Queued' = Queued /\ Tracked' = Tracked
    BY <2>1, <2>2 DEF InHand, Entries, Queued, Tracked
  <2>5. OnePlace' /\ Alive' /\ Registered'
    BY <1>a, <2>1, <2>2, <2>4 DEF OnePlace, Alive, Registered
  <2>6. LoopPoints'
    BY <1>a, <2>1, PointsFrame
  <2>7. EnvelopesKept'
    BY <1>a, <2>1, <2>4, EnvelopesFrame
  <2>8. Budget'
    <3>1. UNCHANGED <<caller, attempt, ToSet(broadcastChan), bcast.batch, SendsUsed, RestoresUsed>>
      BY <2>1, <2>2 DEF SendsUsed, RestoresUsed
    <3> QED
      BY <1>a, <2>1, <2>4, <3>1, BudgetIs, QuietBudget
  <2>9. FinalizedExecuted'
    BY <2>1, <2>2, FinalizedFrame DEF TxmInv
  <2> QED
    BY <2>3, <2>5, <2>6, <2>7, <2>8, <2>9 DEF TxmInv
<1> QED
  BY <1>1, <1>2, <1>3, <1>4, <1>5 DEF Next

-----------------------------------------------------------------------------
(* Where a transaction can be lost.                                        *)

\* GetNextSequence's counter names no sequence in flight.
NextUnused == \A e \in unconfirmedSequences : e.seq # nextSequence

\* retryGetClientOrFail finds room in the channel for what it means to send again.
RoomForRetry == ~(WouldRequeue /\ Full)

\* Then sequences in flight are not recyclable, not next, not held and not shared.
Unshared ==
    /\ \A e \in unconfirmedSequences :
          e.seq < nextSequence /\ e.seq \notin failedSequences /\ e.seq # held
    /\ \A d, e \in unconfirmedSequences : d.seq = e.seq => d = e
    /\ \A s \in failedSequences : s <= nextSequence
    /\ held <= nextSequence
    /\ signed \subseteq sent

Concluding == IF confirm.pc \in {"finalize", "fail", "retry"} THEN {CurEntry.hash.tx} ELSE {}
InFlightTxs == {e.hash.tx : e \in unconfirmedSequences}

\* NeverLost without the transaction that is only to be marked Unconfirmed.
Kept ==
    ~stopped => \A t \in Txs : caller[t] = "enqueued" /\ t \notin done =>
                    t \in Queued \cup InHand \cup InFlightTxs \cup Concluding

\* Steps of the store keep sequences apart, for as long as none is next and in flight.
LEMMA UnsharedKept ==
    ASSUME StoreTypes, NetTypes, EnvelopesKept, Unshared, NextUnused',
           Store!Next \/ UNCHANGED Store!vars
    PROVE  Unshared'
<1>a. /\ nextSequence \in Nat /\ held \in Nat /\ failedSequences \subseteq Nat \ {0}
      /\ \A e \in unconfirmedSequences : e.seq \in Nat \ {0}
      /\ \A e \in sent : e.seq \in Nat \ {0}
  BY DEF StoreTypes, NetTypes, Store!Envelope, EnvelopesKept, Store!NoSeq
<1>b. /\ \A e \in unconfirmedSequences :
            e.seq < nextSequence /\ e.seq \notin failedSequences /\ e.seq # held
      /\ \A d, e \in unconfirmedSequences : d.seq = e.seq => d = e
      /\ \A s \in failedSequences : s <= nextSequence
      /\ held <= nextSequence
      /\ signed \subseteq sent
  BY DEF Unshared
<1>c. ASSUME UNCHANGED Store!store, UNCHANGED held, signed' \subseteq sent'
      PROVE  Unshared'
  BY <1>b, <1>c DEF Unshared, Store!store
<1>1. CASE Store!Create
  <2>1. PICK n \in 0 .. seqNum : Store!CreateTxStore(n + 1)
    BY <1>1 DEF Store!Create
  <2>2. unconfirmedSequences' = {} /\ failedSequences' = {} /\ nextSequence' = n + 1 /\ nextSequence = 0
    BY <2>1 DEF Store!CreateTxStore, Store!StoreExists, Store!NoSeq
  <2>3. held' = held /\ n + 1 >= 0 /\ signed' \subseteq sent'
    BY <1>1, <1>b, <2>1 DEF Store!Create, Store!broadcaster, Store!network, NetTypes
  <2> QED
    BY <1>a, <1>b, <2>2, <2>3 DEF Unshared
<1>2. CASE Store!Allocate
  <2>1. /\ held' \in {nextSequence} \cup failedSequences /\ signed' = {}
        /\ UNCHANGED <<nextSequence, unconfirmedSequences, failedSequences>>
    BY <1>2 DEF Store!Allocate, Store!store
  <2>2. held' <= nextSequence /\ \A e \in unconfirmedSequences : e.seq # held'
    BY <1>a, <1>b, <2>1
  <2> QED
    BY <1>b, <2>1, <2>2 DEF Unshared
<1>3. CASE Store!Send \/ Store!Land \/ Store!ForeignUse \/ UNCHANGED Store!vars
  <2>1. UNCHANGED Store!store /\ UNCHANGED held
    BY <1>3 DEF Store!Send, Store!Land, Store!ForeignUse, Store!vars, Store!broadcaster
  <2>2. signed' \subseteq sent'
    BY <1>3, <1>b DEF Store!Send, Store!Land, Store!ForeignUse, Store!vars, Store!broadcaster, Store!network
  <2> QED
    BY <1>c, <2>1, <2>2
<1>4. CASE Store!Accept
  <2>1. PICK e \in signed : Store!AddUnconfirmed(e)
    BY <1>4 DEF Store!Accept
  <2>2. unconfirmedSequences' = unconfirmedSequences \cup {e} /\ held' = 0 /\ signed' = {}
    BY <1>4, <2>1 DEF Store!Accept, Store!AddUnconfirmed, Store!NoSeq
  <2>3. \A d \in unconfirmedSequences : d.seq # e.seq
    BY <2>1 DEF Store!AddUnconfirmed, Store!InFlight
  <2>4. CASE e.seq \in failedSequences
    <3>1. failedSequences' = failedSequences \ {e.seq} /\ nextSequence' = nextSequence
      BY <2>1, <2>4 DEF Store!AddUnconfirmed
    <3>2. e.seq \in Nat \ {0} /\ e.seq <= nextSequence /\ e.seq # nextSequence
      BY <1>a, <1>b, <2>2, <2>4, <3>1 DEF NextUnused
    <3> QED
      BY <1>a, <1>b, <2>2, <2>3, <3>1, <3>2 DEF Unshared
  <2>5. CASE e.seq \notin failedSequences
    <3>1. failedSequences' = failedSequences /\ nextSequence' = nextSequence + 1 /\ e.seq = nextSequence
      BY <2>1, <2>5 DEF Store!AddUnconfirmed
    <3>2. nextSequence # 0
      BY <1>a, <1>b, <2>1, <3>1
    <3> QED
      BY <1>a, <1>b, <2>2, <2>3, <2>5, <3>1, <3>2 DEF Unshared
  <2> QED
    BY <2>4, <2>5
<1>5. CASE Store!Abort
  <2>1. /\ unconfirmedSequences' = {u \in unconfirmedSequences : u.seq # held}
        /\ failedSequences' \subseteq failedSequences \cup {held}
        /\ nextSequence' = nextSequence /\ held' = 0 /\ signed' = {}
    BY <1>5 DEF Store!Abort, Store!Release, Store!NoSeq
  <2> QED
    BY <1>a, <1>b, <2>1 DEF Unshared
<1>6. CASE Store!Resync
  <2>1. PICK n \in 0 .. seqNum : Store!ResyncNonce(n + 1)
    BY <1>6 DEF Store!Resync
  <2>2. /\ failedSequences' \subseteq failedSequences /\ unconfirmedSequences' = unconfirmedSequences
        /\ nextSequence' \in Nat /\ nextSequence <= nextSequence' /\ held' = 0 /\ signed' = {}
    BY <1>6, <1>a, <2>1 DEF Store!Resync, Store!ResyncNonce, Store!NoSeq, NetTypes
  <2> QED
    BY <1>a, <1>b, <2>2 DEF Unshared
<1>7. ASSUME NEW e, NEW f, Store!Confirm(e, f), UNCHANGED <<held, signed, sent>>
      PROVE  Unshared'
  <2>1. /\ e \in unconfirmedSequences /\ unconfirmedSequences' = unconfirmedSequences \ {e}
        /\ failedSequences' \subseteq failedSequences \cup {e.seq}
        /\ nextSequence' = nextSequence
    BY <1>7 DEF Store!Confirm
  <2> QED
    BY <1>7, <1>a, <1>b, <2>1 DEF Unshared
<1>8. CASE Store!Settle \/ Store!Expire
  BY <1>7, <1>8 DEF Store!Settle, Store!Expire, Store!broadcaster, Store!network
<1> QED
  BY <1>1, <1>2, <1>3, <1>4, <1>5, <1>6, <1>8 DEF Store!Next

\* With sequences apart, the broadcaster takes nothing from the confirmer: what it creates
\* finds nothing in flight, and what it releases neither.
LEMMA BroadcastLeavesInFlight ==
    ASSUME StoreTypes, NetTypes, Unshared, BroadcastStep
    PROVE  unconfirmedSequences \subseteq unconfirmedSequences'
<1>a. ASSUME Release
      PROVE  unconfirmedSequences \subseteq unconfirmedSequences'
  BY <1>a DEF Release, Store!Release, Unshared
<1>b. ASSUME ReleaseAndFail
      PROVE  unconfirmedSequences \subseteq unconfirmedSequences'
  BY <1>a, <1>b DEF ReleaseAndFail
<1>c. ASSUME NEW n, Store!CreateTxStore(n)
      PROVE  unconfirmedSequences \subseteq unconfirmedSequences'
  <2>1. nextSequence = 0
    BY <1>c DEF Store!CreateTxStore, Store!StoreExists, Store!NoSeq
  <2>2. \A e \in unconfirmedSequences : e.seq \in Nat /\ e.seq < 0
    BY <2>1 DEF Unshared, StoreTypes, NetTypes, Store!Envelope
  <2> QED
    BY <2>2
<1>1. CASE Receive \/ SortBatch \/ GetClient \/ RetryGetClientOrFail \/ ReadSequence
  BY <1>1 DEF Receive, SortBatch, GetClient, RetryGetClientOrFail, ReadSequence, storeVars
<1>2. CASE CreateStore
  BY <1>c, <1>2 DEF CreateStore, storeVars
<1>3. CASE Resync \/ RestoreResync
  BY <1>3 DEF Resync, RestoreResync, Store!ResyncNonce, storeVars
<1>4. CASE Simulate \/ SubmitExhausted \/ SendRejected \/ RestoreFails
  BY <1>b, <1>4 DEF Simulate, SubmitExhausted, SendRejected, RestoreFails, storeVars
<1>5. CASE Backoff
  BY <1>a, <1>5 DEF Backoff, storeVars
<1>6. CASE AddUnconfirmed
  BY <1>b, <1>6 DEF AddUnconfirmed, Store!AddUnconfirmed
<1>7. CASE SendAccepted \/ SendFails \/ SendRetryable \/ SendBadSeq \/ MarkUnconfirmed
  BY <1>7 DEF SendAccepted, SendFails, SendRetryable, SendBadSeq, MarkUnconfirmed, storeVars
<1>8. CASE RestoreSend \/ RestorePoll \/ BroadcastExit
  BY <1>8 DEF RestoreSend, RestorePoll, BroadcastExit, storeVars
<1> QED
  BY <1>1, <1>2, <1>3, <1>4, <1>5, <1>6, <1>7, <1>8 DEF BroadcastStep

\* What the broadcaster has in hand it passes on, or fails.
LEMMA BroadcastKeeps ==
    ASSUME TypeOK, OnePlace, Alive, LoopPoints, Unshared, Kept, RoomForRetry, BroadcastStep
    PROVE  Kept'
<1> SUFFICES ASSUME ~stopped', NEW t \in Txs, caller'[t] = "enqueued", t \notin done'
             PROVE  t \in Queued' \cup InHand' \cup InFlightTxs' \cup Concluding'
  BY DEF Kept
<1> DEFINE q == ToSet(broadcastChan)
           b == bcast.batch
<1>a. LoopTypes /\ broadcastChan \in Seq(Txs) /\ StoreTypes /\ NetTypes /\ Distinct(broadcastChan)
  BY OnePlaceIs DEF TypeOK, TxTypes
<1>b. ~stopped
  BY DEF BroadcastStep, Receive, SortBatch, GetClient, RetryGetClientOrFail, CreateStore, Resync,
         ReadSequence, Simulate, SubmitExhausted, SendAccepted, SendFails, SendRetryable, Backoff,
         SendBadSeq, SendRejected, AddUnconfirmed, MarkUnconfirmed, RestoreSend, RestorePoll,
         RestoreResync, RestoreFails, BroadcastExit
<1>c. /\ UNCHANGED <<caller, confirm>>
      /\ \/ Stays \/ Takes \/ Starts \/ Fails \/ Requeues \/ Drops
         \/ HandsOver \/ Marks \/ Leaves
  BY <1>a, BroadcastMoves
<1>d. t \notin done
  BY <1>c DEF Stays, Takes, Starts, Fails, Requeues, Drops, HandsOver, Marks, Leaves, UpdateStatus,
              txVars
<1>e. t \in Queued \cup InHand \cup InFlightTxs \cup Concluding
  BY <1>b, <1>c, <1>d DEF Kept
<1>n. ASSUME NextInBatch
      PROVE  b = bcast'.batch \cup InHand'
  BY <1>a, <1>n, NextInBatchHand
<1>1. CASE t \in InFlightTxs
  BY <1>1, <1>a, BroadcastLeavesInFlight DEF InFlightTxs
<1>2. CASE t \in Concluding
  BY <1>2, <1>c DEF Concluding, CurEntry
<1>3. CASE t \in Queued \cup InHand
  <2>1. CASE Stays
    <3>1. InHand = {bcast.tx} /\ InHand' = {bcast.tx}
      BY <2>1 DEF Stays, Away, InHand
    <3> QED
      BY <1>3, <2>1, <3>1 DEF Stays, Queued
  <2>2. CASE Takes
    <3>1. InHand = {} /\ ToSet(broadcastChan') = q \ {Head(broadcastChan)}
      BY <2>2, <1>a, ChannelReceive DEF Takes, InHand
    <3> QED
      BY <1>3, <2>2, <3>1 DEF Takes, Queued
  <2>3. CASE Starts \/ Marks
    <3>1. InHand = {} /\ NextInBatch /\ broadcastChan' = broadcastChan
      BY <2>3 DEF Starts, Marks, InHand
    <3> QED
      BY <1>3, <1>n, <3>1 DEF Queued
  <2>4. CASE Fails
    <3>1. InHand \subseteq {bcast.tx} /\ bcast.tx \in done' /\ NextInBatch /\ broadcastChan' = broadcastChan
      BY <2>4 DEF Fails, InHand, UpdateStatus, Terminal
    <3> QED
      BY <1>3, <1>n, <3>1 DEF Queued
  <2>5. CASE Requeues
    <3>1. InHand = {bcast.tx} /\ bcast.tx \in Txs /\ NextInBatch
      BY <2>5 DEF Requeues, InHand, Alive
    <3>2. ToSet(broadcastChan') = q \cup {bcast.tx}
      BY <1>a, <2>5, <3>1, ChannelSend DEF Requeues
    <3> QED
      BY <1>3, <1>n, <3>1, <3>2 DEF Queued
  <2>6. CASE Drops
    BY <1>b, <2>6 DEF Drops, RoomForRetry
  <2>7. CASE HandsOver
    <3>1. InHand = {bcast.tx} /\ bcast'.batch = b /\ broadcastChan' = broadcastChan
      BY <2>7 DEF HandsOver, InHand
    <3>2. PICK e \in signed : Entries' = Entries \cup {e}
      BY <2>7 DEF HandsOver
    <3>3. e.hash.tx = bcast.tx
      BY <2>7, <3>2 DEF HandsOver, LoopPoints, BroadcastPoints, Broadcasts
    <3>4. e \notin Entries
      BY <3>1, <3>3 DEF OnePlace, Tracked
    <3>5. e \in unconfirmedSequences'
      BY <1>c, <3>2, <3>4 DEF Entries
    <3>6. bcast.tx \in InFlightTxs'
      BY <3>3, <3>5 DEF InFlightTxs
    <3> QED
      BY <1>3, <3>1, <3>6 DEF Queued
  <2>8. CASE Leaves
    BY <1>3, <2>8 DEF Leaves, InHand, Queued
  <2> QED
    BY <1>c, <2>1, <2>2, <2>3, <2>4, <2>5, <2>6, <2>7, <2>8
<1> QED
  BY <1>e, <1>1, <1>2, <1>3

\* What the confirmer takes out of the store it concludes.
LEMMA ConfirmKeeps ==
    ASSUME TypeOK, OnePlace, Alive, LoopPoints, Kept, ConfirmStep
    PROVE  Kept'
<1> SUFFICES ASSUME ~stopped', NEW t \in Txs, caller'[t] = "enqueued", t \notin done'
             PROVE  t \in Queued' \cup InHand' \cup InFlightTxs' \cup Concluding'
  BY DEF Kept
<1>a. LoopTypes /\ broadcastChan \in Seq(Txs) /\ ConfirmPoints
  BY DEF TypeOK, TxTypes, LoopPoints
<1>b. ~stopped /\ UNCHANGED <<caller, bcast>>
  <2>1. UNCHANGED stopped
    BY DEF ConfirmStep, Snapshot, Found, NotFound, Expire, StillPending, Conclude, ConfirmExit
  <2>2. UNCHANGED <<caller, bcast>>
    BY <1>a, ConfirmMoves DEF ConfirmPoints
  <2> QED
    BY <2>1, <2>2
<1>c. InHand' = InHand
  BY <1>b DEF InHand
<1>1. CASE Snapshot \/ NotFound \/ StillPending \/ ConfirmExit
  <2>1. UNCHANGED <<broadcastChan, done, unconfirmedSequences>> /\ Concluding = {}
    BY <1>1 DEF Snapshot, NotFound, StillPending, ConfirmExit, storeVars, txVars, Concluding
  <2> QED
    BY <1>b, <1>c, <2>1 DEF Kept, Queued, InFlightTxs
<1>2. CASE Found \/ Expire
  <2>1. UNCHANGED <<broadcastChan, done>> /\ confirm.pc \in {"get", "expiry"}
    BY <1>2 DEF Found, Expire, txVars
  <2>2. \/ unconfirmedSequences' = unconfirmedSequences
        \/ /\ unconfirmedSequences' = unconfirmedSequences \ {CurEntry}
           /\ confirm'.queue = confirm.queue /\ confirm'.pc \in {"finalize", "fail", "retry"}
    <3>1. CASE Found
      <4>1. CurEntry \in DOMAIN result
        BY <3>1 DEF Found
      <4>2. Verdict(result[CurEntry]) \in {"finalize", "fail", "retry"}
        BY <4>1 DEF Verdict, TypeOK, NetTypes
      <4> QED
        BY <1>a, <3>1, <4>2 DEF Found, Store!Confirm, storeVars, LoopTypes
    <3>2. CASE Expire
      BY <1>a, <3>2 DEF Expire, Store!Confirm, storeVars, LoopTypes
    <3> QED
      BY <1>2, <3>1, <3>2
  <2>3. t \in Queued \cup InHand \cup InFlightTxs
    BY <1>b, <2>1 DEF Kept, Concluding
  <2>4. t \in Queued \cup InHand => t \in Queued' \cup InHand'
    BY <1>b, <1>c, <2>1 DEF Queued
  <2>5. t \in InFlightTxs => t \in InFlightTxs' \cup Concluding'
    BY <2>2 DEF InFlightTxs, Concluding, CurEntry
  <2> QED
    BY <2>3, <2>4, <2>5
<1>3. CASE Conclude
  <2>1. unconfirmedSequences' = unconfirmedSequences /\ Concluding = {CurEntry.hash.tx}
    BY <1>3 DEF Conclude, storeVars, Concluding
  <2>2. CurEntry \in Entries
    BY <1>3, <1>a, CurEntryLeft DEF Conclude, ConfirmPoints, Entries
  <2>3. PICK x \in Txs : x = CurEntry.hash.tx
    BY <2>2 DEF TypeOK, StoreTypes, NetTypes, Entries, Store!Envelope, Hashes
  <2>4. \/ broadcastChan' = broadcastChan /\ done' = done \cup {x}
        \/ broadcastChan' = Append(broadcastChan, x) /\ done' = done
    BY <1>3, <2>3 DEF Conclude, RetryOrFail, UpdateStatus, Terminal, txVars
  <2>5. ToSet(Append(broadcastChan, x)) = ToSet(broadcastChan) \cup {x}
    BY <1>a, ChannelSend
  <2>6. t \in Queued \cup InHand \cup InFlightTxs \cup {x}
    BY <1>b, <2>1, <2>3, <2>4 DEF Kept
  <2> QED
    BY <1>b, <1>c, <2>1, <2>4, <2>5, <2>6 DEF Queued, InFlightTxs
<1> QED
  BY <1>1, <1>2, <1>3 DEF ConfirmStep

\* Callers add to the channel, and what they evict is failed.
LEMMA CallerKeeps ==
    ASSUME TypeOK, OnePlace, Alive, Registered, Kept, NEW u \in Txs, CallerStep(u) \/ Prune(u)
    PROVE  Kept'
<1> SUFFICES ASSUME ~stopped', NEW t \in Txs, caller'[t] = "enqueued", t \notin done'
             PROVE  t \in Queued' \cup InHand' \cup InFlightTxs' \cup Concluding'
  BY DEF Kept
<1>a. /\ broadcastChan \in Seq(Txs) /\ Distinct(broadcastChan)
      /\ caller \in [Txs -> {"idle", "push", "evict", "repush", "enqueued", "duplicate", "rejected"}]
  BY OnePlaceIs DEF TypeOK, TxTypes
<1>b. ~stopped /\ UNCHANGED <<bcast, confirm, unconfirmedSequences>>
  BY DEF CallerStep, Enqueue, Push, Evict, Repush, Prune, storeVars
<1>c. InHand' = InHand /\ InFlightTxs' = InFlightTxs /\ Concluding' = Concluding
  BY <1>b DEF InHand, InFlightTxs, Concluding, CurEntry
<1>d. caller[t] = "enqueued" /\ t \notin done =>
         t \in Queued \cup InHand \cup InFlightTxs \cup Concluding
  BY <1>b DEF Kept
<1>1. CASE Enqueue(u) \/ Prune(u)
  <2>1. broadcastChan' = broadcastChan /\ caller[t] = "enqueued" /\ t \notin done
    BY <1>1, <1>a DEF Enqueue, Prune
  <2> QED
    BY <1>b, <1>c, <1>d, <2>1 DEF Queued
<1>2. CASE Push(u) \/ Repush(u)
  <2>1. done' = done
    BY <1>2 DEF Push, Repush, txVars
  <2>2. \/ broadcastChan' = Append(broadcastChan, u) /\ (caller[t] = "enqueued" \/ t = u)
        \/ broadcastChan' = broadcastChan /\ caller[t] = "enqueued"
    BY <1>2, <1>a DEF Push, Repush
  <2>3. ToSet(Append(broadcastChan, u)) = ToSet(broadcastChan) \cup {u}
    BY <1>a, ChannelSend
  <2> QED
    BY <1>b, <1>c, <1>d, <2>1, <2>2, <2>3 DEF Queued
<1>3. CASE Evict(u)
  <2>1. caller[t] = "enqueued"
    BY <1>3, <1>a DEF Evict
  <2>2. CASE broadcastChan = <<>>
    BY <1>3, <1>b, <1>c, <1>d, <2>1, <2>2 DEF Evict, txVars, Queued
  <2>3. CASE broadcastChan # <<>>
    <3>1. PICK x : x = Head(broadcastChan)
      OBVIOUS
    <3>2. x \in ToSet(broadcastChan) /\ ToSet(broadcastChan') = ToSet(broadcastChan) \ {x}
      BY <1>3, <1>a, <2>3, <3>1, ChannelReceive DEF Evict
    <3>3. x \in Txs /\ caller[x] = "enqueued" /\ x \notin done
      BY <1>a, <2>3, <3>1, <3>2, SeqTail DEF Alive, Queued
    <3>4. x \in transactions
      BY <3>3 DEF Registered
    <3>5. done' = done \cup {x}
      BY <1>3, <2>3, <3>1, <3>4 DEF Evict, UpdateStatus, Terminal
    <3> QED
      BY <1>b, <1>c, <1>d, <2>1, <3>2, <3>5 DEF Queued
  <2> QED
    BY <2>2, <2>3
<1> QED
  BY <1>1, <1>2, <1>3 DEF CallerStep

-----------------------------------------------------------------------------
(* Theorems.                                                               *)

\* The invariant holds in every behaviour: whatever the network, the nodes and the
\* callers do, a transaction is in one place, unfinished while it is worked on, and
\* within its budgets.
THEOREM TxmInvariant == Spec => []TxmInv
<1> QED
  BY TxmInit, TxmStep, PTL DEF Spec

\* The variables of the TXM keep the types of its Go declarations.
THEOREM TxmTypes == Spec => []TypeOK
<1>1. TxmInv => TypeOK
  BY DEF TxmInv
<1> QED
  BY <1>1, TxmInvariant, PTL

\* EnqueueAndWait never reports Finalized for a request the ledger did not execute,
\* though expiry checks, retries and landings race.
THEOREM FinalizedIsExecuted == Spec => []FinalizedExecuted
<1>1. TxmInv => FinalizedExecuted
  BY DEF TxmInv
<1> QED
  BY <1>1, TxmInvariant, PTL

\* The retry budgets of the submit loop and of the confirmer multiply, and nothing
\* else adds to them: no request is ever carried by more envelopes.
THEOREM BroadcastsBounded == Spec => []BoundedBroadcasts
<1>1. ASSUME TxmInv
      PROVE  BoundedBroadcasts
  <2>1. ASSUME NEW t \in Txs
        PROVE  Cardinality(Broadcasts(t)) <= Rounds * MaxSubmitRetryAttempts
    <3>1. Cardinality(Broadcasts(t)) <= Rounds * MaxSubmitRetryAttempts + 0
      BY <1>1, <2>1 DEF TxmInv, Budget, WithinRounds
    <3>2. Rounds \in Nat /\ MaxSubmitRetryAttempts \in Nat
      BY TxmAssumption DEF Rounds
    <3>3. PICK p \in Nat : p = Rounds * MaxSubmitRetryAttempts
      BY <3>2
    <3> QED
      BY <3>1, <3>3
  <2> QED
    BY <2>1 DEF BoundedBroadcasts
<1> QED
  BY <1>1, TxmInvariant, PTL

\* One restore per round of broadcasting, however often simulation asks for one.
THEOREM RestoresBounded == Spec => []BoundedRestores
<1>1. ASSUME TxmInv
      PROVE  BoundedRestores
  <2>1. Rounds \in Nat
    BY TxmAssumption DEF Rounds
  <2>2. ASSUME NEW t \in Txs
        PROVE  Cardinality(Restores(t)) <= Rounds
    <3>1. Cardinality(Restores(t)) <= Rounds + 0
      BY <1>1, <2>2 DEF TxmInv, Budget, WithinRounds
    <3> QED
      BY <2>1, <3>1
  <2> QED
    BY <2>2 DEF BoundedRestores
<1> QED
  BY <1>1, TxmInvariant, PTL

\* Two Enqueue calls with one ID never lead to two transactions in progress: what is
\* worked on is registered, and the map keeps one object per ID until it is done.
THEOREM OneLive == Spec => []OneLivePerId
<1>1. ASSUME TxmInv, NEW t \in Txs, Owned(t)
      PROVE  caller[t] = "enqueued"
  <2>1. CASE t \in ToSet(broadcastChan) \cup bcast.batch
    BY <1>1, <2>1 DEF TxmInv, Alive, Queued
  <2>2. CASE t = bcast.tx
    <3>1. bcast.pc \notin {"idle", "drain", "exit"}
      BY <1>1, <2>2, TxmAssumption DEF TxmInv, LoopPoints, BroadcastPoints, NoTx
    <3> QED
      BY <1>1, <2>2, <3>1 DEF TxmInv, Alive
  <2>3. CASE confirm.pc \in {"finalize", "fail", "retry"} /\ CurEntry.hash.tx = t
    <3>1. CurEntry \in Entries
      BY <1>1, <2>3, CurEntryLeft DEF TxmInv, LoopPoints, ConfirmPoints, TypeOK, Entries
    <3> QED
      BY <1>1, <2>3, <3>1 DEF TxmInv, Alive, Tracked
  <2>4. CASE \E e \in unconfirmedSequences : e.hash.tx = t
    BY <1>1, <2>4 DEF TxmInv, Alive, Tracked, Entries
  <2> QED
    BY <1>1, <2>1, <2>2, <2>3, <2>4 DEF Owned
<1>2. ASSUME TxmInv
      PROVE  OneLivePerId
  <2>1. ASSUME NEW t \in Txs, NEW u \in Txs, IdOf[t] = IdOf[u], Owned(t), Owned(u),
               {t, u} \cap done = {}
        PROVE  t = u
    <3>1. t \in transactions /\ u \in transactions
      BY <1>1, <1>2, <2>1 DEF TxmInv, Registered
    <3> QED
      BY <1>2, <2>1, <3>1 DEF TxmInv, Registered
  <2> QED
    BY <2>1 DEF OneLivePerId
<1> QED
  BY <1>2, TxmInvariant, PTL

\* Once its Done channel is closed a transaction is in nobody's hands: neither a
\* retry nor a submit loop that is still running broadcasts it again.
THEOREM DoneIsFinal == Spec => NoBroadcastAfterDone
<1>1. ASSUME TxmInv, [Next]_vars
      PROVE  [\A t \in done : Broadcasts(t)' = Broadcasts(t)]_vars
  <2>a. TypeOK /\ Alive /\ LoopTypes /\ BroadcastPoints /\ EnvelopesKept /\ Budget
    BY <1>1 DEF TxmInv, TypeOK, LoopPoints
  <2>1. CASE sent' = sent
    BY <2>1 DEF Broadcasts
  <2>2. ASSUME bcast.pc \in {"send", "restore"},
               NEW max \in NoBounds .. MaxLedger + LedgerBoundsOffset, Deliver(max)
        PROVE  \A t \in done : Broadcasts(t)' = Broadcasts(t)
    <3>1. PICK e : sent' = sent \cup {e} /\ e.hash.tx = bcast.tx
      BY <2>2, <2>a, Sending
    <3>2. bcast.tx \notin done
      BY <2>2, <2>a, Sending DEF Alive
    <3> QED
      BY <3>1, <3>2 DEF Broadcasts
  <2>3. CASE BroadcastStep
    BY <2>1, <2>2, <2>3, <2>a, BroadcastSends, BoundsKnown
  <2>4. CASE ~BroadcastStep
    <3>1. sent' = sent
      BY <1>1, <2>4 DEF Next, ConfirmStep, Snapshot, Found, NotFound, Expire, StillPending, Conclude,
         ConfirmExit, Close, CallerStep, Enqueue, Push, Evict, Repush, Prune, NetworkStep,
         CloseLedger, Land, ForeignUse, Age, netVars, vars
    <3> QED
      BY <2>1, <3>1
  <2> QED
    BY <2>3, <2>4
<1> QED
  BY <1>1, TxmInvariant, PTL DEF Spec, NoBroadcastAfterDone

\* The TXM is a correct driver of its TxStore: the two loops, the callers and the
\* network only ever do to it what TxStore allows.
THEOREM TxmDrivesStore == Spec => DrivesStore
<1>1. Init => Store!Init
  BY DEF Init
<1>2. ASSUME TxmInv, [Next]_vars
      PROVE  [Store!Next]_(Store!vars)
  <2>1. TypeOK /\ Alive /\ LoopPoints /\ EnvelopesKept /\ Budget
    BY <1>2 DEF TxmInv
  <2>2. CASE UNCHANGED vars
    BY <2>2, StoreFrame DEF vars, netVars
  <2>3. CASE Next
    BY <2>1, <2>3, BroadcastDrives, ConfirmDrives, OthersDrive DEF Next
  <2> QED
    BY <1>2, <2>2, <2>3
<1> QED
  BY <1>1, <1>2, TxmInvariant, PTL DEF Spec, DrivesStore, Store!Spec

\* There are two places where a transaction can be lost, and no others, whatever the faults:
\* GetNextSequence hands out a sequence in flight, because Release made the never-used next
\* one recyclable (txstore.go), or retryGetClientOrFail meets a full channel (txm.go).
\* Behaviours that avoid both lose nothing.
THEOREM LostNowhereElse == Spec /\ []NextUnused /\ []RoomForRetry => []NeverLost
<1> DEFINE I == TxmInv /\ Unshared /\ Kept
<1>1. Init => Unshared /\ Kept
  BY DEF Init, Store!Init, Unshared, Kept, Store!NoSeq
<1>2. I /\ RoomForRetry /\ NextUnused' /\ [Next]_vars => Unshared' /\ Kept'
  <2> SUFFICES ASSUME I, RoomForRetry, NextUnused', [Next]_vars PROVE Unshared' /\ Kept'
    OBVIOUS
  <2>a. /\ TypeOK /\ OnePlace /\ Alive /\ Registered /\ LoopPoints /\ EnvelopesKept /\ Budget
        /\ StoreTypes /\ NetTypes
    BY DEF TxmInv, TypeOK
  <2>b. Store!Next \/ UNCHANGED Store!vars
    <3>1. CASE UNCHANGED vars
      BY <3>1, StoreFrame DEF vars, netVars
    <3>2. CASE Next
      BY <2>a, <3>2, BroadcastDrives, ConfirmDrives, OthersDrive DEF Next
    <3> QED
      BY <3>1, <3>2
  <2>1. Unshared'
    BY <2>a, <2>b, UnsharedKept
  <2>2. CASE BroadcastStep
    BY <2>2, <2>a, <2>1, BroadcastKeeps
  <2>3. CASE ConfirmStep
    BY <2>3, <2>a, <2>1, ConfirmKeeps
  <2>4. ASSUME NEW u \in Txs, CallerStep(u) \/ Prune(u) PROVE Kept'
    BY <2>4, <2>a, CallerKeeps
  <2>5. CASE Close \/ NetworkStep \/ UNCHANGED vars
    <3>1. UNCHANGED <<caller, txVars, broadcastChan, bcast, confirm, storeVars>>
      BY <2>5 DEF Close, NetworkStep, CloseLedger, Land, ForeignUse, Age, netFrame, vars
    <3>2. UNCHANGED <<InHand, Queued, InFlightTxs, Concluding, caller, done>>
      BY <3>1 DEF InHand, Queued, InFlightTxs, Concluding, CurEntry, storeVars, txVars
    <3>3. UNCHANGED stopped \/ stopped' = TRUE
      BY <2>5 DEF Close, NetworkStep, CloseLedger, Land, ForeignUse, Age, netFrame, vars
    <3>4. ASSUME ~stopped', NEW t \in Txs, caller'[t] = "enqueued", t \notin done'
          PROVE  t \in Queued' \cup InHand' \cup InFlightTxs' \cup Concluding'
      <4>1. ~stopped
        BY <3>3, <3>4
      <4> QED
        BY <3>2, <3>4, <4>1 DEF Kept
    <3> QED
      BY <2>1, <3>4 DEF Kept
  <2> QED
    BY <2>1, <2>2, <2>3, <2>4, <2>5 DEF Next
<1>3. Kept => NeverLost
  <2> SUFFICES ASSUME Kept, ~stopped, NEW t \in Txs, caller[t] = "enqueued", t \notin done
               PROVE  Owned(t)
    BY DEF NeverLost
  <2>1. t \in Queued \cup InHand \cup InFlightTxs \cup Concluding
    BY DEF Kept
  <2>2. InHand \subseteq {bcast.tx}
    BY DEF InHand
  <2>3. t \in Concluding => confirm.pc \in {"finalize", "fail", "retry"} /\ CurEntry.hash.tx = t
    BY DEF Concluding
  <2> QED
    BY <2>1, <2>2, <2>3 DEF Owned, Queued, InFlightTxs
<1> QED
  BY <1>1, <1>2, <1>3, TxmInvariant, PTL DEF Spec
=============================================================================
