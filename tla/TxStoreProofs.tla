--------------------------- MODULE TxStoreProofs ---------------------------
(***************************************************************************)
(* The sequence bookkeeping of TxStore is correct for every set of hashes  *)
(* and every history of the account.  The argument: IInv holds initially   *)
(* and every call of the broadcaster, the confirmer and the ledger         *)
(* preserves it.  TypeOK and StoreConsistent concern the store alone;      *)
(* NoGap needs ChainKnowledge, since an entry is dropped without being     *)
(* recycled only when the ledger is known to have used its sequence.       *)
(***************************************************************************)
EXTENDS TxStore, TLAPS

\* Before the store exists there is nothing to get wrong.
LEMMA InitIInv == Init => IInv
  BY SeqAssumption
  DEF Init, IInv, TypeOK, StoreConsistent, ChainKnowledge, NoGap, HeldUsable,
      HeldNotBehindChain, InFlight, NoSeq, StoreExists, Envelope

\* Every step keeps the types.
LEMMA TypeStep == IInv /\ [Next]_vars => TypeOK'
<1> SUFFICES ASSUME IInv, [Next]_vars PROVE TypeOK'
    OBVIOUS
<1> USE SeqAssumption DEF IInv, TypeOK, NoSeq, StoreExists, Envelope
<1>0. CASE Create
  BY <1>0 DEF Create, CreateTxStore, broadcaster, network
<1>1. CASE Allocate
  BY <1>1 DEF Allocate, GetNextSequence, store, network
<1>2. CASE Send
  BY <1>2 DEF Send, store, network
<1>3. CASE Accept
  <2>1. PICK e \in signed : AddUnconfirmed(e)
    BY <1>3 DEF Accept
  <2>2. e \in Envelope /\ nextSequence' \in Nat \ {0} /\ StoreExists
    BY <2>1 DEF AddUnconfirmed
  <2>3. unconfirmedSequences' \in SUBSET Envelope
    BY <2>1, <2>2 DEF AddUnconfirmed
  <2>4. failedSequences' \in SUBSET (Nat \ {0})
    BY <2>1 DEF AddUnconfirmed
  <2>5. lastOnchainSequence' = lastOnchainSequence
    BY <2>1 DEF AddUnconfirmed
  <2> QED BY <1>3, <2>2, <2>3, <2>4, <2>5 DEF Accept, network
<1>4. CASE Abort
  BY <1>4 DEF Abort, Release, network
<1>5. CASE Resync
  <2>1. PICK n \in 0..seqNum : ResyncNonce(n + 1)
    BY <1>5 DEF Resync
  <2>2. nextSequence' \in Nat \ {0} /\ lastOnchainSequence' \in Nat \ {0} /\ StoreExists'
    BY <2>1 DEF ResyncNonce
  <2>3. failedSequences' \in SUBSET (Nat \ {0})
    BY <2>1 DEF ResyncNonce
  <2>4. unconfirmedSequences' = unconfirmedSequences
    BY <2>1 DEF ResyncNonce
  <2> QED BY <1>5, <2>2, <2>3, <2>4 DEF Resync, network
<1>6. CASE Settle
  BY <1>6 DEF Settle, Confirm, broadcaster, network
<1>7. CASE Expire
  <2>1. PICK e \in sent : Confirm(e, TRUE)
    BY <1>7 DEF Expire
  <2>2. unconfirmedSequences' \in SUBSET Envelope /\ e.seq \in Nat /\ StoreExists
    BY <2>1 DEF Confirm
  <2>3. \/ failedSequences' = failedSequences
        \/ failedSequences' = failedSequences \cup {e.seq} /\ e.seq >= lastOnchainSequence
    BY <2>1 DEF Confirm
  <2>4. e.seq >= lastOnchainSequence => e.seq \in Nat \ {0}
    BY <2>2
  <2>5. failedSequences' \in SUBSET (Nat \ {0})
    BY <2>3, <2>4
  <2> QED BY <1>7, <2>1, <2>2, <2>5 DEF Expire, Confirm, broadcaster, network
<1>8. CASE Land
  BY <1>8 DEF Land, store, broadcaster
<1>9. CASE ForeignUse
  BY <1>9 DEF ForeignUse, store, broadcaster
<1>10. CASE UNCHANGED vars
  BY <1>10 DEF vars, store, broadcaster, network
<1> QED BY <1>0, <1>1, <1>2, <1>3, <1>4, <1>5, <1>6, <1>7, <1>8, <1>9, <1>10 DEF Next

-----------------------------------------------------------------------------

\* The two maps stay disjoint, functional and below nextSequence.
LEMMA ConsistentStep == IInv /\ [Next]_vars => StoreConsistent'
<1> SUFFICES ASSUME IInv, [Next]_vars PROVE StoreConsistent'
    OBVIOUS
<1> USE DEF IInv, TypeOK, StoreConsistent, InFlight, NoSeq, StoreExists, Envelope
<1>0. CASE Create
  BY <1>0 DEF Create, CreateTxStore, broadcaster, network
<1>1. CASE Allocate
  BY <1>1 DEF Allocate, store
<1>2. CASE Send
  BY <1>2 DEF Send, store
<1>3. CASE Accept
  <2>1. PICK e \in signed : AddUnconfirmed(e)
    BY <1>3 DEF Accept
  <2>2. e \in Envelope
    OBVIOUS
  <2>3. CASE e.seq \in failedSequences
    BY <2>1, <2>2, <2>3 DEF AddUnconfirmed
  <2>4. CASE e.seq \notin failedSequences
    <3>1. /\ failedSequences' = failedSequences /\ e.seq = nextSequence
          /\ nextSequence' = nextSequence + 1 /\ e.seq \notin InFlight
          /\ unconfirmedSequences' = unconfirmedSequences \cup {e}
      BY <2>1, <2>4 DEF AddUnconfirmed
    <3>2. InFlight' = InFlight \cup {e.seq}
      BY <3>1
    <3>3. \A u, v \in unconfirmedSequences' : u.seq = v.seq => u = v
      BY <3>1
    <3>4. \A s \in InFlight' \cup failedSequences' : s <= nextSequence'
      <4>1. \A s \in InFlight \cup failedSequences : s \in Nat /\ s <= nextSequence
        OBVIOUS
      <4> QED BY <3>1, <3>2, <4>1
    <3>5. InFlight' \cap failedSequences' = {}
      BY <2>4, <3>1, <3>2
    <3> QED BY <3>3, <3>4, <3>5
  <2> QED BY <2>3, <2>4
<1>4. CASE Abort
  BY <1>4 DEF Abort, Release, HeldUsable
<1>5. CASE Resync
  <2>1. PICK n \in 0..seqNum : ResyncNonce(n + 1)
    BY <1>5 DEF Resync
  <2>2. InFlight' = InFlight /\ nextSequence <= nextSequence'
    BY <2>1 DEF ResyncNonce
  <2>3. failedSequences' \subseteq failedSequences
        /\ unconfirmedSequences' = unconfirmedSequences
    BY <2>1 DEF ResyncNonce
  <2>4. \A s \in InFlight \cup failedSequences : s \in Nat /\ s <= nextSequence
    OBVIOUS
  <2>5. nextSequence' \in Nat
    BY <2>1 DEF ResyncNonce
  <2>6. \A s \in InFlight' \cup failedSequences' : s <= nextSequence'
    <3> SUFFICES ASSUME NEW s \in InFlight' \cup failedSequences'
                 PROVE  s <= nextSequence'
      OBVIOUS
    <3>1. s \in InFlight \cup failedSequences
      BY <2>2, <2>3
    <3> QED BY <3>1, <2>2, <2>4, <2>5
  <2> QED BY <2>2, <2>3, <2>6
<1>6. CASE Settle
  BY <1>6 DEF Settle, Confirm
<1>7. CASE Expire
  <2>1. PICK e \in sent : Confirm(e, TRUE)
    BY <1>7 DEF Expire
  <2>2. e.seq \notin InFlight'
    BY <2>1 DEF Confirm
  <2> QED BY <2>1, <2>2 DEF Confirm
<1>8. CASE Land
  BY <1>8 DEF Land, store
<1>9. CASE ForeignUse
  BY <1>9 DEF ForeignUse, store
<1>10. CASE UNCHANGED vars
  BY <1>10 DEF vars, store
<1> QED BY <1>0, <1>1, <1>2, <1>3, <1>4, <1>5, <1>6, <1>7, <1>8, <1>9, <1>10 DEF Next

\* Resyncs and landings keep the store's view behind the ledger.
LEMMA ChainStep == IInv /\ [Next]_vars => ChainKnowledge'
<1> SUFFICES ASSUME IInv, [Next]_vars PROVE ChainKnowledge'
    OBVIOUS
<1> USE DEF IInv, TypeOK, ChainKnowledge, NoSeq, StoreExists, Envelope
<1>0. CASE Create
  BY <1>0 DEF Create, CreateTxStore, broadcaster, network
<1>1. CASE Allocate
  BY <1>1 DEF Allocate, store, network
<1>2. CASE Send
  BY <1>2 DEF Send, store
<1>3. CASE Accept
  <2>1. PICK e \in signed : AddUnconfirmed(e)
    BY <1>3 DEF Accept
  <2>2. /\ lastOnchainSequence' = lastOnchainSequence
        /\ failedSequences' \subseteq failedSequences
        /\ nextSequence <= nextSequence'
    BY <2>1 DEF AddUnconfirmed
  <2>3. nextSequence' \in Nat /\ seqNum' = seqNum /\ landed' = landed
    BY <1>3, <2>1 DEF Accept, AddUnconfirmed, network
  <2> QED BY <2>2, <2>3
<1>4. CASE Abort
  BY <1>4 DEF Abort, Release, network, HeldNotBehindChain
<1>5. CASE Resync
  BY <1>5 DEF Resync, ResyncNonce, network
<1>6. CASE Settle
  BY <1>6 DEF Settle, Confirm, network
<1>7. CASE Expire
  BY <1>7 DEF Expire, Confirm, network
<1>8. CASE Land
  <2>1. PICK e \in sent : e.seq = seqNum + 1 /\ landed' = landed \cup {e}
    BY <1>8 DEF Land
  <2> QED BY <1>8, <2>1 DEF Land, store
<1>9. CASE ForeignUse
  BY <1>9 DEF ForeignUse, store
<1>10. CASE UNCHANGED vars
  BY <1>10 DEF vars, store, network
<1> QED BY <1>0, <1>1, <1>2, <1>3, <1>4, <1>5, <1>6, <1>7, <1>8, <1>9, <1>10 DEF Next

\* No step opens a gap: a sequence leaves the in-flight map only for the failed
\* set or because the ledger has used it, and nextSequence grows only over a
\* sequence that becomes tracked or that the ledger has used.
LEMMA NoGapStep == IInv /\ [Next]_vars => NoGap'
<1> SUFFICES ASSUME IInv, [Next]_vars PROVE NoGap'
    OBVIOUS
<1> USE DEF IInv, TypeOK, NoGap, InFlight, NoSeq, StoreExists, Envelope
<1>0. CASE Create
  BY <1>0 DEF Create, CreateTxStore, broadcaster, network
<1>1. CASE Allocate
  BY <1>1 DEF Allocate, store, network
<1>2. CASE Send
  BY <1>2 DEF Send, store
<1>3. CASE Accept
  <2>1. PICK e \in signed : AddUnconfirmed(e)
    BY <1>3 DEF Accept
  <2>2. seqNum' = seqNum
    BY <1>3 DEF Accept, network
  <2>3. CASE e.seq \in failedSequences
    BY <2>1, <2>2, <2>3 DEF AddUnconfirmed
  <2>4. CASE e.seq \notin failedSequences
    BY <2>1, <2>2, <2>4 DEF AddUnconfirmed
  <2> QED BY <2>3, <2>4
<1>4. CASE Abort
  <2> SUFFICES ASSUME NEW s \in 1 .. nextSequence' - 1, s > seqNum'
               PROVE  s \in InFlight' \cup failedSequences'
    OBVIOUS
  <2>1. s \in InFlight \cup failedSequences
    BY <1>4 DEF Abort, Release, network
  <2>2. CASE s = held
    BY <1>4, <2>2 DEF Abort, Release, network, ChainKnowledge, HeldNotBehindChain
  <2>3. CASE s # held
    BY <1>4, <2>1, <2>3 DEF Abort, Release
  <2> QED BY <2>2, <2>3
<1>5. CASE Resync
  <2> SUFFICES ASSUME NEW s \in 1 .. nextSequence' - 1, s > seqNum'
               PROVE  s \in InFlight' \cup failedSequences'
    OBVIOUS
  <2>1. PICK n \in 0..seqNum : ResyncNonce(n + 1)
    BY <1>5 DEF Resync
  <2>2. s < nextSequence
    BY <1>5, <2>1 DEF Resync, ResyncNonce, network
  <2> QED BY <1>5, <2>1, <2>2 DEF Resync, ResyncNonce, network
<1>6. CASE Settle
  <2> SUFFICES ASSUME NEW s \in 1 .. nextSequence' - 1, s > seqNum'
               PROVE  s \in InFlight' \cup failedSequences'
    OBVIOUS
  <2>1. PICK e \in landed : Confirm(e, FALSE)
    BY <1>6 DEF Settle
  <2>2. s # e.seq
    BY <1>6 DEF Settle, network, ChainKnowledge
  <2> QED BY <1>6, <2>1, <2>2 DEF Settle, Confirm, network
<1>7. CASE Expire
  <2> SUFFICES ASSUME NEW s \in 1 .. nextSequence' - 1, s > seqNum'
               PROVE  s \in InFlight' \cup failedSequences'
    OBVIOUS
  <2>1. PICK e \in sent : Confirm(e, TRUE)
    BY <1>7 DEF Expire
  <2>2. s \in InFlight \cup failedSequences /\ lastOnchainSequence <= seqNum + 1
    BY <1>7, <2>1 DEF Expire, Confirm, network, ChainKnowledge
  <2>3. CASE s = e.seq
    BY <1>7, <2>1, <2>2, <2>3 DEF Expire, Confirm, network
  <2>4. CASE s # e.seq
    BY <2>1, <2>2, <2>4 DEF Confirm
  <2> QED BY <2>3, <2>4
<1>8. CASE Land
  BY <1>8 DEF Land, store
<1>9. CASE ForeignUse
  BY <1>9 DEF ForeignUse, store
<1>10. CASE UNCHANGED vars
  BY <1>10 DEF vars, store, network
<1> QED BY <1>0, <1>1, <1>2, <1>3, <1>4, <1>5, <1>6, <1>7, <1>8, <1>9, <1>10 DEF Next

\* The broadcaster's sequence stays usable while the confirmer works.
LEMMA HeldStep == IInv /\ [Next]_vars => HeldUsable' /\ HeldNotBehindChain'
<1> SUFFICES ASSUME IInv, [Next]_vars PROVE HeldUsable' /\ HeldNotBehindChain'
    OBVIOUS
<1> USE DEF IInv, TypeOK, HeldUsable, HeldNotBehindChain, ChainKnowledge,
            InFlight, NoSeq, StoreExists, Envelope
<1>0. CASE Create
  BY <1>0 DEF Create, CreateTxStore, broadcaster, network
<1>1. CASE Allocate
  BY <1>1 DEF Allocate, GetNextSequence, store
<1>2. CASE Send
  BY <1>2 DEF Send, store
<1>3. CASE Accept
  BY <1>3 DEF Accept
<1>4. CASE Abort
  BY <1>4 DEF Abort
<1>5. CASE Resync
  BY <1>5 DEF Resync
<1>6. CASE Settle
  <2>1. PICK e \in landed : Confirm(e, FALSE)
    BY <1>6 DEF Settle
  <2>2. /\ held' = held /\ nextSequence' = nextSequence
        /\ lastOnchainSequence' = lastOnchainSequence
        /\ failedSequences' = failedSequences
    BY <1>6, <2>1 DEF Settle, Confirm, broadcaster
  <2>3. CASE held = e.seq
    BY <2>1, <2>2, <2>3 DEF Confirm
  <2>4. CASE held # e.seq
    BY <2>1, <2>2, <2>4 DEF Confirm
  <2> QED BY <2>3, <2>4
<1>7. CASE Expire
  <2>1. PICK e \in sent : Confirm(e, TRUE)
    BY <1>7 DEF Expire
  <2>2. held' = held /\ lastOnchainSequence' = lastOnchainSequence
    BY <1>7, <2>1 DEF Expire, Confirm, broadcaster
  <2>3. CASE held = e.seq
    BY <2>1, <2>2, <2>3 DEF Confirm
  <2>4. CASE held # e.seq
    BY <2>1, <2>2, <2>4 DEF Confirm
  <2> QED BY <2>3, <2>4
<1>8. CASE Land
  BY <1>8 DEF Land, store, broadcaster
<1>9. CASE ForeignUse
  BY <1>9 DEF ForeignUse, store, broadcaster
<1>10. CASE UNCHANGED vars
  BY <1>10 DEF vars, store, broadcaster
<1> QED BY <1>0, <1>1, <1>2, <1>3, <1>4, <1>5, <1>6, <1>7, <1>8, <1>9, <1>10 DEF Next

-----------------------------------------------------------------------------

\* The inductive invariant holds of every behaviour of the store.
LEMMA Invariance == Spec => []IInv
<1>1. IInv /\ [Next]_vars => IInv'
  BY TypeStep, ConsistentStep, ChainStep, NoGapStep, HeldStep DEF IInv
<1> QED BY InitIInv, <1>1, PTL DEF Spec

\* The store is always well typed.
THEOREM TypeCorrect == Spec => []TypeOK
<1>1. IInv => TypeOK
  BY DEF IInv
<1> QED BY Invariance, <1>1, PTL

\* The recycling logic of txstore.go plugs every gap: no interleaving of
\* resyncs, expiries, releases and landings leaves a sequence the ledger still
\* waits for that is neither in flight nor about to be handed out again.
THEOREM GapsArePlugged == Spec => []NoGap
<1>1. IInv => NoGap
  BY DEF IInv
<1> QED BY Invariance, <1>1, PTL

\* A sequence is never both in flight and recyclable, one envelope is tracked
\* per sequence, and nothing tracked is ahead of nextSequence.
THEOREM MapsAgree == Spec => []StoreConsistent
<1>1. IInv => StoreConsistent
  BY DEF IInv
<1> QED BY Invariance, <1>1, PTL

\* Between GetNextSequence and AddUnconfirmed the held sequence is neither
\* overtaken by nextSequence nor behind the last resync.
THEOREM HeldStaysValid == Spec => [](HeldUsable /\ HeldNotBehindChain)
<1>1. IInv => HeldUsable /\ HeldNotBehindChain
  BY DEF IInv
<1> QED BY Invariance, <1>1, PTL

=============================================================================
