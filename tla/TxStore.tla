------------------------------ MODULE TxStore ------------------------------
(***************************************************************************)
(* Sequence-number bookkeeping of one Stellar account                      *)
(* (relayer/txm/txstore.go), driven the way txm.go drives it:              *)
(*                                                                         *)
(*   - one broadcaster (broadcastLoop is a single goroutine) reads a       *)
(*     sequence, talks to the network, and then adds, releases or          *)
(*     re-reads it.  Every TxStore call takes the lock, nothing holds it   *)
(*     across two calls;                                                   *)
(*   - one confirmer (confirmLoop) confirms envelopes at any moment        *)
(*     between two calls of the broadcaster;                               *)
(*   - the ledger, which applies an envelope only when its sequence is     *)
(*     the account's last used sequence plus one, whose answers may lag    *)
(*     behind, and whose account may also be used by somebody else.        *)
(*                                                                         *)
(* An in-flight entry is the envelope [seq, hash] it tracks; the map keyed *)
(* by sequence of the code is the set of its entries.                      *)
(***************************************************************************)
EXTENDS Integers

CONSTANTS
    Hashes,        \* hashes an envelope can have; a hash commits to the sequence
    InitialSeqNum, \* sequence the account has used last when the relayer starts
    MaxSeqNum      \* bound: how far other users of the account move its sequence

ASSUME SeqAssumption == InitialSeqNum \in Nat /\ MaxSeqNum \in Nat

VARIABLES
    nextSequence,          \* TxStore.nextSequence
    unconfirmedSequences,  \* TxStore.unconfirmedSequences
    failedSequences,       \* TxStore.failedSequences
    lastOnchainSequence,   \* TxStore.lastOnchainSequence
    held,                  \* the local variable seq of simulateAssembleSignAndSend
    signed,                \* the envelope it has sent last, if any
    seqNum,                \* account.SeqNum on the ledger: the last used sequence
    sent,                  \* envelopes handed to the network
    landed                 \* envelopes the ledger has applied

store == <<nextSequence, unconfirmedSequences, failedSequences, lastOnchainSequence>>
network == <<seqNum, sent, landed>>
broadcaster == <<held, signed>>
vars == <<store, broadcaster, network>>

Envelope == [seq : Nat, hash : Hashes]

\* The broadcaster holds no sequence, or the account has no store yet. Real
\* sequences start at 1.
NoSeq == 0

StoreExists == nextSequence # NoSeq

InFlight == {u.seq : u \in unconfirmedSequences}

-----------------------------------------------------------------------------
(* Mutated forms of the methods below, for the sensitivity runs only.      *)

ConfirmNeverRecycles(e, failed) ==
    /\ e \in unconfirmedSequences
    /\ unconfirmedSequences' = unconfirmedSequences \ {e}
    /\ UNCHANGED <<nextSequence, failedSequences, lastOnchainSequence>>

AddUnconfirmedKeepsFailed(e) ==
    /\ e.seq \notin InFlight
    /\ \/ e.seq \in failedSequences /\ UNCHANGED nextSequence
       \/ /\ e.seq \notin failedSequences
          /\ e.seq = nextSequence
          /\ nextSequence' = nextSequence + 1
    /\ unconfirmedSequences' = unconfirmedSequences \cup {e}
    /\ UNCHANGED <<failedSequences, lastOnchainSequence>>

ResyncWithoutReread ==
    /\ StoreExists
    /\ \E n \in 0..seqNum :
          /\ failedSequences' = {s \in failedSequences : s > n}
          /\ nextSequence' = IF nextSequence < n + 1 THEN n + 1 ELSE nextSequence
          /\ lastOnchainSequence' = n + 1
    /\ UNCHANGED <<unconfirmedSequences, broadcaster, network>>

-----------------------------------------------------------------------------
(* The methods of TxStore, each one critical section of its lock.          *)

\* s is what GetNextSequence returns: the smallest candidate. Nothing is reserved.
GetNextSequence(s) ==
    /\ s \in {nextSequence} \cup failedSequences
    /\ \A t \in {nextSequence} \cup failedSequences : s <= t

ResyncNonce(nextExpectedSequence) ==
    /\ failedSequences' = {s \in failedSequences : s >= nextExpectedSequence}
    /\ nextSequence' = IF nextSequence < nextExpectedSequence
                       THEN nextExpectedSequence ELSE nextSequence
    /\ lastOnchainSequence' = nextExpectedSequence
    /\ UNCHANGED unconfirmedSequences

AddUnconfirmed(e) ==
    /\ e.seq \notin InFlight
    /\ \/ /\ e.seq \in failedSequences
          /\ failedSequences' = failedSequences \ {e.seq}
          /\ UNCHANGED nextSequence
       \/ /\ e.seq \notin failedSequences
          /\ e.seq = nextSequence
          /\ nextSequence' = nextSequence + 1
          /\ UNCHANGED failedSequences
    /\ unconfirmedSequences' = unconfirmedSequences \cup {e}
    /\ UNCHANGED lastOnchainSequence

\* "sequence used", "old sequence" or "future sequence".
AddUnconfirmedRefused(seq) ==
    \/ seq \in InFlight
    \/ seq \notin failedSequences /\ seq # nextSequence

Confirm(e, failed) ==
    /\ e \in unconfirmedSequences
    /\ unconfirmedSequences' = unconfirmedSequences \ {e}
    /\ failedSequences' = IF failed /\ e.seq >= lastOnchainSequence
                          THEN failedSequences \cup {e.seq} ELSE failedSequences
    /\ UNCHANGED <<nextSequence, lastOnchainSequence>>

Release(seq) ==
    /\ unconfirmedSequences' = {u \in unconfirmedSequences : u.seq # seq}
    /\ failedSequences' = IF seq >= lastOnchainSequence
                          THEN failedSequences \cup {seq} ELSE failedSequences
    /\ UNCHANGED <<nextSequence, lastOnchainSequence>>

\* AccountStore.CreateTxStore with the sequence read from a node that may lag; it
\* refuses to replace an existing store.
CreateTxStore(initialSequence) ==
    /\ ~StoreExists
    /\ nextSequence' = initialSequence
    /\ lastOnchainSequence' = initialSequence
    /\ unconfirmedSequences' = {}
    /\ failedSequences' = {}

-----------------------------------------------------------------------------
(* The broadcaster.                                                        *)

Create ==
    /\ \E n \in 0..seqNum : CreateTxStore(n + 1)
    /\ UNCHANGED <<broadcaster, network>>

\* seq := txStore.GetNextSequence(), at first and again after bad_seq or a restore.
Allocate ==
    /\ StoreExists
    /\ \E s \in {nextSequence} \cup failedSequences :
          GetNextSequence(s) /\ held' = s
    /\ signed' = {}
    /\ UNCHANGED <<store, network>>

\* SendTransaction reaches the network; whether the answer comes back is another
\* matter. RestoreFootprint envelopes are sent the same way and never added.
Send ==
    /\ held # NoSeq
    /\ \E h \in Hashes :
          /\ \A e \in sent : e.hash = h => e.seq = held
          /\ signed' = {[seq |-> held, hash |-> h]}
    /\ sent' = sent \cup signed'
    /\ UNCHANGED <<store, held, seqNum, landed>>

\* PENDING or DUPLICATE: the envelope is recorded.
Accept ==
    /\ \E e \in signed : AddUnconfirmed(e)
    /\ held' = NoSeq
    /\ signed' = {}
    /\ UNCHANGED network

\* Every error path, a refused AddUnconfirmed among them.
Abort ==
    /\ held # NoSeq
    /\ Release(held)
    /\ held' = NoSeq
    /\ signed' = {}
    /\ UNCHANGED network

\* resyncSequence: before a rebroadcast, after bad_seq and after a restore. The
\* RPC node may lag behind the ledger. txm.go re-reads the sequence afterwards.
Resync ==
    /\ StoreExists
    /\ \E n \in 0..seqNum : ResyncNonce(n + 1)
    /\ held' = NoSeq
    /\ signed' = {}
    /\ UNCHANGED network

-----------------------------------------------------------------------------
(* The confirmer. It works on a snapshot, so the entry may be gone: the    *)
(* refusal of Confirm is the absence of a step here.                       *)

\* GetTransaction says SUCCESS or FAILED: the envelope is on the ledger.
Settle ==
    /\ \E e \in landed : Confirm(e, FALSE)
    /\ UNCHANGED <<broadcaster, network>>

\* The envelope is taken to have expired.
Expire ==
    /\ \E e \in sent : Confirm(e, TRUE)
    /\ UNCHANGED <<broadcaster, network>>

-----------------------------------------------------------------------------
(* The ledger (external).                                                  *)

Land ==
    /\ \E e \in sent :
          /\ e.seq = seqNum + 1
          /\ landed' = landed \cup {e}
    /\ seqNum' = seqNum + 1
    /\ UNCHANGED <<store, broadcaster, sent>>

ForeignUse ==
    /\ seqNum < MaxSeqNum
    /\ seqNum' = seqNum + 1
    /\ UNCHANGED <<store, broadcaster, sent, landed>>

-----------------------------------------------------------------------------
Init ==
    /\ nextSequence = NoSeq
    /\ lastOnchainSequence = NoSeq
    /\ unconfirmedSequences = {}
    /\ failedSequences = {}
    /\ held = NoSeq
    /\ signed = {}
    /\ seqNum = InitialSeqNum
    /\ sent = {}
    /\ landed = {}

Next ==
    \/ Create \/ Allocate \/ Send \/ Accept \/ Abort \/ Resync
    \/ Settle \/ Expire
    \/ Land \/ ForeignUse

Spec == Init /\ [][Next]_vars

-----------------------------------------------------------------------------
(* Properties.                                                             *)

\* Every variable keeps the type txstore.go gives it.
TypeOK ==
    /\ nextSequence \in Nat
    /\ lastOnchainSequence \in Nat
    /\ StoreExists <=> lastOnchainSequence # NoSeq
    /\ ~StoreExists => /\ unconfirmedSequences = {} /\ failedSequences = {}
                       /\ held = NoSeq /\ signed = {}
    /\ unconfirmedSequences \in SUBSET Envelope
    /\ failedSequences \in SUBSET (Nat \ {0})
    /\ held \in Nat
    /\ signed \in SUBSET sent
    /\ \A e \in signed : e.seq = held
    /\ seqNum \in Nat
    /\ sent \in SUBSET Envelope
    /\ landed \in SUBSET sent

\* "Sequence numbers are strictly sequential: a gap blocks all subsequent
\* transactions. The failed-sequence recycling logic ensures gaps are plugged"
\* (txstore.go:21-23): every sequence below nextSequence that the ledger has not
\* used yet is either tracked in flight or waiting to be recycled, whatever the
\* order of resyncs from lagging nodes, expiries and releases.
NoGap ==
    \A s \in 1 .. nextSequence - 1 :
        s > seqNum => s \in InFlight \cup failedSequences

\* The two maps never disagree: a sequence is not both in flight and recyclable,
\* at most one envelope is tracked per sequence, and nothing tracked lies ahead
\* of nextSequence, though calls of the two loops interleave.
StoreConsistent ==
    /\ InFlight \cap failedSequences = {}
    /\ \A u, v \in unconfirmedSequences : u.seq = v.seq => u = v
    /\ \A s \in InFlight \cup failedSequences : s <= nextSequence

\* A sequence the broadcaster holds across its RPC calls stays acceptable to
\* AddUnconfirmed ("old sequence" and "future sequence" cannot happen), whatever
\* the confirmer recycles meanwhile.
HeldUsable ==
    held # NoSeq => held \in failedSequences \cup {nextSequence}

\* What a resync has learned to be used on-chain is never handed out again: the
\* retry after bad_seq is not doomed to the same bad_seq.
HeldNotBehindChain ==
    held # NoSeq => held >= lastOnchainSequence

\* What links the store to the ledger: resyncs never run ahead of it, nothing
\* recyclable or next lies behind the last resync, and what has landed is used.
ChainKnowledge ==
    /\ lastOnchainSequence <= seqNum + 1
    /\ lastOnchainSequence <= nextSequence
    /\ \A s \in failedSequences : lastOnchainSequence <= s
    /\ \A e \in landed : e.seq <= seqNum

\* The inductive invariant behind the properties above.
IInv ==
    /\ TypeOK
    /\ StoreConsistent
    /\ ChainKnowledge
    /\ NoGap
    /\ HeldUsable
    /\ HeldNotBehindChain

=============================================================================
