----------------------------- MODULE McmsProofs -----------------------------
(* The theorems about Mcms, for any configs, roots, leaves, expiries and   *)
(* parameters of the contract and of the network.                          *)
EXTENDS Mcms, SignatureCheck, FoldTheorems

\* Every behaviour starts with the counts in order.
LEMMA InitCountInv == Init => CountInv
<1> SUFFICES ASSUME Init PROVE CountInv
  OBVIOUS
<1> USE McmsAssumption DEF Init
<1>1. 0 \in Nat /\ 1 \in Nat /\ 0 \in 0 .. MaxTime /\ 0 \in 0 .. U40 - 1
  OBVIOUS
<1>2. /\ seen \in [Hashes -> Nat] /\ installs \in [Hashes -> Nat]
      /\ floor \in [Hashes -> Nat] /\ runs \in [0 .. U40 - 1 -> Nat]
  BY <1>1
<1>3. TypeOK
  BY <1>1, <1>2 DEF TypeOK
<1>4. NonceOnce /\ InSignedWindow
  BY DEF NonceOnce, InSignedWindow
<1> QED
  BY <1>3, <1>4 DEF CountInv

\* set_config keeps the counts in order.
LEMMA SetConfigCounts ==
    ASSUME CountInv, NEW c \in Configs, NEW clear \in BOOLEAN, SetConfig(c, clear)
    PROVE  CountInv'
<1> USE McmsAssumption
<1>1. /\ config' = c
      /\ UNCHANGED <<initialized, opCount, minSpl, seen, ledger, now, installs, floor, runs>>
  BY DEF SetConfig
<1>2. CASE clear
  <2>1. /\ root' = ZeroRoot /\ validUntil' = 0
        /\ meta' = [pre |-> opCount, post |-> opCount, override |-> TRUE]
        /\ revoked' \subseteq Hashes
    BY <1>2 DEF SetConfig
  <2>2. opCount \in Nat /\ opCount < U40
    BY DEF CountInv, TypeOK
  <2>3. meta' \in Metadata /\ meta'.pre = opCount /\ meta'.post = opCount
    BY <2>1, <2>2 DEF Metadata
  <2>4. TypeOK'
    BY <1>1, <2>1, <2>3 DEF CountInv, TypeOK
  <2> QED
    BY <1>1, <2>2, <2>3, <2>4 DEF CountInv, NonceOnce, InSignedWindow
<1>3. CASE ~clear
  <2>1. UNCHANGED <<root, validUntil, meta, revoked>>
    BY <1>3 DEF SetConfig
  <2> QED
    BY <1>1, <2>1 DEF CountInv, TypeOK, NonceOnce, InSignedWindow
<1> QED
  BY <1>2, <1>3

\* The ledger from which a new entry is gone is a number.
LEMMA LiveUntilNat == ASSUME ledger \in Nat PROVE LiveUntil \in Nat
BY McmsAssumption DEF LiveUntil

\* set_root keeps the counts in order: it goes on from the count.
LEMMA SetRootCounts ==
    ASSUME CountInv, NEW r \in Roots, NEW expiry \in Expiries, NEW m \in MetaOf[r],
           NEW signatures, SetRoot(r, expiry, m, signatures)
    PROVE  CountInv'
<1> USE McmsAssumption
<1> DEFINE h == <<r, expiry>>
<1>1. /\ seen' = [seen EXCEPT ![h] = LiveUntil]
      /\ root' = r /\ validUntil' = expiry /\ opCount' = m.pre /\ meta' = m
      /\ installs' = [installs EXCEPT ![h] = @ + 1]
      /\ floor' = IF installs[h] = 0 THEN [floor EXCEPT ![h] = minSpl] ELSE floor
      /\ UNCHANGED <<initialized, config, minSpl, ledger, now, revoked, runs>>
  BY DEF SetRoot
<1>2. m \in Metadata /\ m.pre = opCount /\ m.pre <= m.post /\ m.post < U40
  BY DEF SetRoot, Fits
<1>3. TypeOK
  BY DEF CountInv
<1>4. LiveUntil \in Nat
  BY <1>3, LiveUntilNat DEF TypeOK
<1>5. minSpl \in Nat
  BY <1>3 DEF TypeOK
<1>6. seen' \in [Hashes -> Nat]
  BY <1>1, <1>3, <1>4 DEF TypeOK
<1>7. installs' \in [Hashes -> Nat]
  <2>1. h \in Hashes /\ installs \in [Hashes -> Nat]
    BY <1>3 DEF TypeOK, Hashes
  <2>2. installs[h] + 1 \in Nat
    BY <2>1
  <2> QED
    BY <1>1, <2>1, <2>2
<1>8. floor' \in [Hashes -> Nat]
  BY <1>1, <1>3, <1>5 DEF TypeOK
<1>9. TypeOK'
  BY <1>1, <1>2, <1>3, <1>6, <1>7, <1>8 DEF TypeOK
<1> QED
  BY <1>1, <1>2, <1>9 DEF CountInv, NonceOnce, InSignedWindow, Metadata

\* execute keeps the counts in order: it takes the next nonce of the window.
LEMMA ExecuteCounts ==
    ASSUME CountInv, NEW r \in Roots, NEW op \in OpsOf[r], Execute(op)
    PROVE  CountInv'
<1> USE McmsAssumption
<1>1. /\ meta # None /\ opCount < meta.post /\ op.nonce = opCount
      /\ opCount' = opCount + 1
      /\ runs' = [runs EXCEPT ![op.nonce] = @ + 1]
      /\ UNCHANGED <<initialized, config, root, validUntil, meta, minSpl, seen,
                     ledger, now, installs, floor, revoked>>
  BY DEF Execute, InWindow
<1>2. TypeOK /\ meta \in Metadata /\ meta.post < U40
  BY <1>1 DEF CountInv, TypeOK
<1>3. opCount \in 0 .. U40 - 1 /\ opCount' \in 0 .. U40 - 1
  BY <1>1, <1>2 DEF TypeOK, Metadata
<1>4. /\ runs' \in [0 .. U40 - 1 -> Nat]
      /\ \A n \in 0 .. U40 - 1 : runs'[n] = IF n = opCount THEN runs[n] + 1 ELSE runs[n]
  BY <1>1, <1>2, <1>3 DEF TypeOK
<1>5. TypeOK'
  BY <1>1, <1>2, <1>3, <1>4 DEF TypeOK
<1>6. NonceOnce'
  <2> SUFFICES ASSUME NEW n \in 0 .. U40 - 1
               PROVE  runs'[n] = IF n < opCount' THEN 1 ELSE 0
    BY DEF NonceOnce
  <2>1. runs[n] = IF n < opCount THEN 1 ELSE 0
    BY DEF CountInv, NonceOnce
  <2> QED
    BY <1>1, <1>3, <1>4, <2>1
<1>7. InSignedWindow'
  BY <1>1, <1>2, <1>3 DEF CountInv, InSignedWindow, Metadata
<1> QED
  BY <1>1, <1>2, <1>5, <1>6, <1>7 DEF CountInv

\* The other steps leave the counts and the window alone.
LEMMA OtherCounts ==
    ASSUME CountInv,
           \/ Initialize
           \/ \E secs \in 0 .. SplHigh + 1 : SetMinSecsPerLedger(secs)
           \/ \E secs \in Pace .. MaxTime : Close(secs)
           \/ UNCHANGED vars
    PROVE  CountInv'
<1> USE McmsAssumption DEF CountInv, TypeOK, NonceOnce, InSignedWindow
<1>1. CASE Initialize
  BY <1>1 DEF Initialize, history
<1>2. CASE \E secs \in 0 .. SplHigh + 1 : SetMinSecsPerLedger(secs)
  BY <1>2 DEF SetMinSecsPerLedger, history
<1>3. CASE \E secs \in Pace .. MaxTime : Close(secs)
  <2> PICK secs \in Pace .. MaxTime : Close(secs)
    BY <1>3
  <2>1. now' = now + secs /\ now' <= MaxTime /\ ledger' = ledger + 1
    BY DEF Close
  <2>2. now' \in 0 .. MaxTime /\ ledger' \in Nat
    BY <2>1
  <2>3. UNCHANGED <<initialized, config, root, validUntil, opCount, meta, minSpl, seen,
                    installs, floor, revoked, runs>>
    BY DEF Close, stored, history
  <2> QED
    BY <2>2, <2>3
<1>4. CASE UNCHANGED vars
  BY <1>4 DEF vars, stored, history
<1> QED
  BY <1>1, <1>2, <1>3, <1>4

\* The counts are in order in every reachable state.
LEMMA CountsHold == Spec => []CountInv
<1>1. CountInv /\ [Next]_vars => CountInv'
  <2> SUFFICES ASSUME CountInv, [Next]_vars PROVE CountInv'
    OBVIOUS
  <2>1. CASE \E c \in Configs, clear \in BOOLEAN : SetConfig(c, clear)
    BY <2>1, SetConfigCounts
  <2>2. CASE \E r \in Roots, expiry \in Expiries, signatures \in Signatures :
                \E m \in MetaOf[r] : SetRoot(r, expiry, m, signatures)
    BY <2>2, SetRootCounts
  <2>3. CASE \E r \in Roots : \E op \in OpsOf[r] : Execute(op)
    BY <2>3, ExecuteCounts
  <2> QED
    BY <2>1, <2>2, <2>3, OtherCounts DEF Next
<1> QED
  BY <1>1, InitCountInv, PTL DEF Spec

\* Every variable keeps its type: the operation count, in particular, stays a number
\* that can be hashed, for any metadata set_root is given.
THEOREM TypeCorrect == Spec => []TypeOK
<1>1. CountInv => TypeOK
  BY DEF CountInv
<1> QED
  BY <1>1, CountsHold, PTL

\* No nonce is executed twice and none is skipped, whatever roots are installed,
\* overridden, cleared or replayed (lib.rs:256-265, 329).
THEOREM EachNonceOnce == Spec => []NonceOnce
<1>1. CountInv => NonceOnce
  BY DEF CountInv
<1> QED
  BY <1>1, CountsHold, PTL

\* The operation count stays in the signed window of the root (lib.rs:310-312).
THEOREM WindowHolds == Spec => []InSignedWindow
<1>1. CountInv => InSignedWindow
  BY DEF CountInv
<1> QED
  BY <1>1, CountsHold, PTL

-----------------------------------------------------------------------------
(* Replay.                                                                 *)

\* The network gives a new entry so little that set_root extends it.
FreshIsExtended == FreshTTL - 1 < Threshold

\* A hash accepted with a floor the network keeps to cannot be accepted again: as
\* long as its entry lives it is seen, and after that it has expired.
LEMMA AcceptedOnce ==
    ASSUME ReplayInv, NEW r \in Roots, NEW expiry \in Expiries, NEW m, NEW signatures,
           SetRoot(r, expiry, m, signatures), installs[<<r, expiry>>] > 0
    PROVE  floor[<<r, expiry>>] > Pace
<1> USE McmsAssumption
<1> DEFINE h == <<r, expiry>>
<1>1. h \in Hashes /\ h[2] = expiry
  BY DEF Hashes
<1>2. ~(ledger < seen[h]) /\ now <= expiry
  BY DEF SetRoot, IsSeen
<1>3. now \in Nat /\ ledger \in Nat /\ seen[h] \in Nat /\ floor[h] \in Nat /\ expiry \in Nat
  BY <1>1 DEF ReplayInv, TypeOK
<1>4. SUFFICES ASSUME floor[h] <= Pace PROVE FALSE
  BY <1>3
<1>5. expiry < now + Pace * (seen[h] - ledger)
  BY <1>1, <1>4 DEF ReplayInv, SeenCovers
<1>6. Pace * (seen[h] - ledger) <= 0
  <2>1. seen[h] - ledger \in Int /\ seen[h] - ledger <= 0
    BY <1>2, <1>3
  <2>2. \A x \in Int : x <= 0 => Pace * x <= 0
    OBVIOUS
  <2> QED
    BY <2>1, <2>2
<1>7. Pace * (seen[h] - ledger) \in Int
  BY <1>3
<1> QED
  BY <1>2, <1>3, <1>5, <1>6, <1>7

\* set_root keeps the expiry of what it accepts within the life of the new entry.
LEMMA NewEntryCovers ==
    ASSUME TypeOK, FreshIsExtended, NEW expiry \in Nat, expiry <= now + EffectiveCap,
           minSpl <= Pace
    PROVE  expiry < now + Pace * (LiveUntil - ledger)
<1> USE McmsAssumption
<1>1. minSpl \in Nat /\ minSpl >= 1 /\ now \in Nat /\ ledger \in Nat
  BY DEF TypeOK
<1>2. LiveUntil - ledger = Bump + 1
  BY <1>1 DEF LiveUntil, FreshIsExtended
<1>3. Bump * minSpl \in Nat /\ Bump * minSpl <= Bump * Pace
  BY <1>1
<1>4. EffectiveCap <= Bump * minSpl /\ EffectiveCap \in Int
  BY <1>3 DEF EffectiveCap, Min2, Max2
<1>5. Pace * (Bump + 1) = Bump * Pace + Pace
  OBVIOUS
<1> QED
  BY <1>1, <1>2, <1>3, <1>4, <1>5

\* set_root preserves the invariant.
LEMMA SetRootReplay ==
    ASSUME ReplayInv, TypeOK', FreshIsExtended,
           NEW r \in Roots, NEW expiry \in Expiries, NEW m \in MetaOf[r], NEW signatures,
           SetRoot(r, expiry, m, signatures)
    PROVE  ReplayInv'
<1> USE McmsAssumption
<1> DEFINE h == <<r, expiry>>
<1>1. /\ seen' = [seen EXCEPT ![h] = LiveUntil]
      /\ root' = r /\ validUntil' = expiry
      /\ installs' = [installs EXCEPT ![h] = @ + 1]
      /\ floor' = IF installs[h] = 0 THEN [floor EXCEPT ![h] = minSpl] ELSE floor
      /\ UNCHANGED <<minSpl, ledger, now, revoked>>
      /\ expiry <= now + EffectiveCap
  BY DEF SetRoot
<1>2. h \in Hashes /\ h[2] = expiry /\ expiry \in Nat
  BY DEF Hashes
<1>3. TypeOK
  BY DEF ReplayInv
<1>4. installs[h] > 0 => floor[h] > Pace
  BY AcceptedOnce
<1>5. \A g \in Hashes : g # h => /\ seen'[g] = seen[g] /\ installs'[g] = installs[g]
                                 /\ floor'[g] = floor[g]
  BY <1>1, <1>2, <1>3 DEF TypeOK
<1>6. /\ seen'[h] = LiveUntil /\ installs'[h] = installs[h] + 1
      /\ floor'[h] = IF installs[h] = 0 THEN minSpl ELSE floor[h]
      /\ installs[h] \in Nat /\ floor[h] \in Nat /\ minSpl \in Nat
  BY <1>1, <1>2, <1>3 DEF TypeOK
<1>7. SeenCovers'
  <2> SUFFICES ASSUME NEW g \in Hashes, installs'[g] > 0, floor'[g] <= Pace
               PROVE  g[2] < now' + Pace * (seen'[g] - ledger')
    BY DEF SeenCovers
  <2>1. CASE g = h
    <3>1. floor'[h] = minSpl /\ minSpl <= Pace
      BY <1>4, <1>6, <2>1
    <3> QED
      BY <1>1, <1>2, <1>3, <1>6, <2>1, <3>1, NewEntryCovers
  <2>2. CASE g # h
    BY <1>1, <1>5, <2>2 DEF ReplayInv, SeenCovers
  <2> QED
    BY <2>1, <2>2
<1>8. NoReplay'
  <2> SUFFICES ASSUME NEW g \in Hashes, installs'[g] > 1 PROVE floor'[g] > Pace
    BY DEF NoReplay
  <2>1. CASE g = h
    BY <1>4, <1>6, <2>1
  <2>2. CASE g # h
    BY <1>5, <2>2 DEF ReplayInv, NoReplay
  <2> QED
    BY <2>1, <2>2
<1>9. ClearRevokes' /\ \A g \in revoked' : installs'[g] > 0
  <2> SUFFICES ASSUME NEW g \in revoked
               PROVE  installs'[g] > 0 /\ (floor'[g] <= Pace => g # h)
    BY <1>1 DEF ClearRevokes
  <2>1. g \in Hashes /\ installs[g] > 0
    BY <1>3 DEF ReplayInv, TypeOK
  <2>2. CASE g = h
    BY <1>4, <1>6, <2>1, <2>2
  <2>3. CASE g # h
    BY <1>5, <2>1, <2>3
  <2> QED
    BY <2>2, <2>3
<1> QED
  BY <1>7, <1>8, <1>9 DEF ReplayInv

\* set_config preserves the invariant: clear_root leaves no hash in force.
LEMMA SetConfigReplay ==
    ASSUME ReplayInv, TypeOK', NEW c \in Configs, NEW clear \in BOOLEAN,
           SetConfig(c, clear)
    PROVE  ReplayInv'
<1> USE McmsAssumption
<1>1. UNCHANGED <<seen, ledger, now, installs, floor>>
  BY DEF SetConfig
<1>2. SeenCovers' /\ NoReplay'
  BY <1>1 DEF ReplayInv, SeenCovers, NoReplay
<1>3. CASE clear
  <2>1. root' = ZeroRoot /\ revoked' = {h \in Hashes : installs[h] > 0}
    BY <1>3 DEF SetConfig
  <2>2. \A h \in Hashes : h # <<root', validUntil'>>
    BY <2>1 DEF Hashes
  <2> QED
    BY <1>1, <1>2, <2>1, <2>2 DEF ReplayInv, ClearRevokes
<1>4. CASE ~clear
  <2>1. UNCHANGED <<root, validUntil, revoked>>
    BY <1>4 DEF SetConfig
  <2> QED
    BY <1>1, <1>2, <2>1 DEF ReplayInv, ClearRevokes
<1> QED
  BY <1>3, <1>4

\* One factor less.
LEMMA OneLess == ASSUME NEW k \in Int, NEW d \in Int PROVE k * (d - 1) = k * d - k
OBVIOUS

\* One ledger less to live.
LEMMA OneLedgerLess ==
    ASSUME NEW s \in Nat, NEW l \in Nat, NEW n, n = l + 1
    PROVE  s - l \in Int /\ s - n = (s - l) - 1
OBVIOUS

\* A ledger takes at least Pace seconds, so a hash comes nearer to its expiry than its
\* entry to the end of its life.
LEMMA CloseReplay ==
    ASSUME ReplayInv, TypeOK', NEW secs \in Pace .. MaxTime, Close(secs)
    PROVE  ReplayInv'
<1>0. Pace \in Nat /\ MaxTime \in Nat /\ Expiries \subseteq Nat
  BY McmsAssumption DEF McmsAssumption
<1>1. now' = now + secs /\ ledger' = ledger + 1 /\ secs >= Pace /\ secs \in Nat
  BY <1>0 DEF Close
<1>2. UNCHANGED <<root, validUntil, seen, installs, floor, revoked>>
  BY DEF Close, stored, history
<1>3. SeenCovers'
  <2> SUFFICES ASSUME NEW h \in Hashes, installs[h] > 0, floor[h] <= Pace
               PROVE  h[2] < now' + Pace * (seen[h] - ledger')
    BY <1>2 DEF SeenCovers
  <2>1. h[2] < now + Pace * (seen[h] - ledger)
    BY DEF ReplayInv, SeenCovers
  <2>2. h[2] \in Nat
    BY <1>0 DEF Hashes
  <2>3. now \in Nat /\ seen[h] \in Nat /\ ledger \in Nat
    BY <1>0 DEF ReplayInv, TypeOK
  <2> DEFINE d == seen[h] - ledger
  <2>4. d \in Int /\ seen[h] - ledger' = d - 1
    BY <1>1, <2>3, OneLedgerLess DEF d
  <2> HIDE DEF d
  <2>5. Pace * (d - 1) = Pace * d - Pace
    BY <1>0, <2>4, OneLess
  <2>6. PICK p \in Int : p = Pace * d
    BY <1>0, <2>4
  <2>7. Pace \in Nat /\ h[2] < now + p
    BY <1>0, <2>1, <2>4, <2>6 DEF d
  <2>8. h[2] < now' + (p - Pace)
    BY <1>1, <2>2, <2>3, <2>7
  <2> QED
    BY <2>4, <2>5, <2>6, <2>8
<1> QED
  BY <1>2, <1>3 DEF ReplayInv, NoReplay, ClearRevokes

\* Where new entries are extended, the seen entries protect every reachable state.
LEMMA Protected == ASSUME FreshIsExtended PROVE Spec => []ReplayInv
<1>1. Init => ReplayInv
  <2> SUFFICES ASSUME Init PROVE ReplayInv
    OBVIOUS
  <2>1. TypeOK
    BY InitCountInv DEF CountInv
  <2>2. revoked = {} /\ \A h \in Hashes : installs[h] = 0
    BY DEF Init
  <2> QED
    BY <2>1, <2>2 DEF ReplayInv, SeenCovers, NoReplay, ClearRevokes
<1>2. ReplayInv /\ TypeOK' /\ [Next]_vars => ReplayInv'
  <2> SUFFICES ASSUME ReplayInv, TypeOK', [Next]_vars PROVE ReplayInv'
    OBVIOUS
  <2>1. CASE \E c \in Configs, clear \in BOOLEAN : SetConfig(c, clear)
    BY <2>1, SetConfigReplay
  <2>2. CASE \E r \in Roots, expiry \in Expiries, signatures \in Signatures :
                \E m \in MetaOf[r] : SetRoot(r, expiry, m, signatures)
    BY <2>2, SetRootReplay, FreshIsExtended
  <2>3. CASE \E secs \in Pace .. MaxTime : Close(secs)
    BY <2>3, CloseReplay
  <2>4. CASE \/ Initialize
             \/ \E r \in Roots : \E op \in OpsOf[r] : Execute(op)
             \/ \E secs \in 0 .. SplHigh + 1 : SetMinSecsPerLedger(secs)
             \/ UNCHANGED vars
    <3>1. UNCHANGED <<root, validUntil, seen, ledger, now, installs, floor, revoked>>
      BY <2>4 DEF Initialize, Execute, SetMinSecsPerLedger, vars, stored, history
    <3> QED
      BY <3>1 DEF ReplayInv, SeenCovers, NoReplay, ClearRevokes
  <2> QED
    BY <2>1, <2>2, <2>3, <2>4 DEF Next
<1> QED
  BY <1>1, <1>2, TypeCorrect, PTL DEF Spec

\* The replay protection needs no archived entry (lib.rs:471-475), on a network whose
\* new entries set_root extends: a hash is accepted once unless it was accepted with a
\* min_secs_per_ledger that the network's ledgers undercut.
THEOREM ReplaySafe == ASSUME FreshIsExtended PROVE Spec => []NoReplay
<1>1. ReplayInv => NoReplay
  BY DEF ReplayInv
<1> QED
  BY <1>1, Protected, FreshIsExtended, PTL

\* There, what clear_root takes back stays taken back (lib.rs:143-170).
THEOREM ClearedForGood == ASSUME FreshIsExtended PROVE Spec => []ClearRevokes
<1>1. ReplayInv => ClearRevokes
  BY DEF ReplayInv
<1> QED
  BY <1>1, Protected, FreshIsExtended, PTL

-----------------------------------------------------------------------------
(* The vote count.                                                         *)

\* Induction over the groups, from the last to the first.
LEMMA GroupsDown ==
    ASSUME NEW G \in SUBSET Groups,
           \A g \in Groups : (\A h \in Groups : h > g => h \in G) => g \in G
    PROVE  G = Groups
<1> USE GroupTreeAssumption
<1> DEFINE B == Groups \ G
<1>1. SUFFICES ASSUME B # {} PROVE FALSE
  OBVIOUS
<1>2. IsFiniteSet(Groups) /\ \A x \in Groups : x \in Int
  BY FS_Interval DEF Groups
<1>3. IsFiniteSet(B) /\ \A x \in B : x \in Int
  BY <1>2, FS_Subset
<1>4. Max(B) \in B /\ \A x \in B : Max(B) >= x
  BY <1>1, <1>3, MaxIsIn
<1> QED
  BY <1>2, <1>4

\* And from the first to the last.
LEMMA GroupsUp ==
    ASSUME NEW G \in SUBSET Groups,
           \A g \in Groups : (\A h \in Groups : h < g => h \in G) => g \in G
    PROVE  G = Groups
<1> USE GroupTreeAssumption DEF Groups
<1> DEFINE H == {g \in Groups : NumGroups - 1 - g \in G}
<1>1. ASSUME NEW g \in Groups, \A h \in Groups : h > g => h \in H PROVE g \in H
  <2>1. NumGroups - 1 - g \in Groups
    OBVIOUS
  <2>2. ASSUME NEW k \in Groups, k < NumGroups - 1 - g PROVE k \in G
    <3>1. NumGroups - 1 - k \in Groups /\ NumGroups - 1 - k > g
      BY <2>2
    <3>2. NumGroups - 1 - k \in H
      BY <1>1, <3>1
    <3>3. NumGroups - 1 - (NumGroups - 1 - k) = k
      OBVIOUS
    <3> QED
      BY <3>2, <3>3
  <2> QED
    BY <2>1, <2>2
<1>2. H = Groups
  <2> HIDE DEF H
  <2>1. H \in SUBSET Groups
    BY DEF H
  <2> QED
    BY <1>1, <2>1, GroupsDown
<1>3. ASSUME NEW g \in Groups PROVE g \in G
  <2>1. NumGroups - 1 - g \in Groups
    OBVIOUS
  <2>2. NumGroups - 1 - (NumGroups - 1 - g) = g
    OBVIOUS
  <2> QED
    BY <1>2, <2>1, <2>2
<1> QED
  BY <1>3

\* What set_config stores: validate_group_tree has accepted it.
Configured(c) ==
    /\ IsFiniteSet(Signers(c)) /\ Signers(c) # {}
    /\ c.group \in [Signers(c) -> Groups]
    /\ c.quorum \in [Groups -> Nat]
    /\ c.parent \in [Groups -> Groups]
    /\ ValidateGroupTree(c)

-----------------------------------------------------------------------------
(* The groups a vote raises.                                               *)

\* The vote completes the quorum of g and goes on to its parent.
Passes(c, v, g) == v[g] + 1 = c.quorum[g] /\ g # 0

IsClimb(c, v, f) ==
    f = [g \in Groups |-> IF v[g] + 1 # c.quorum[g] \/ g = 0 THEN {g}
                          ELSE {g} \cup f[c.parent[g]]]

\* The inner loop of verify_signatures, as the function it computes.
LEMMA RaisedIs ==
    ASSUME NEW c, NEW v, NEW g PROVE Raised(c, v, g) = (CHOOSE f : IsClimb(c, v, f))[g]
BY DEF Raised, IsClimb

Closed(c, v, R) == \A h \in R : Passes(c, v, h) => c.parent[h] \in R
Reach(c, v, g) == {k \in Groups : \A R \in SUBSET Groups : g \in R /\ Closed(c, v, R) => k \in R}

\* There is such a function: the groups reached from a group.
LEMMA ClimbExists ==
    ASSUME NEW c, c.parent \in [Groups -> Groups], NEW v
    PROVE  \E f : IsClimb(c, v, f)
<1> DEFINE f == [g \in Groups |-> Reach(c, v, g)]
<1>1. ASSUME NEW g \in Groups PROVE g \in Reach(c, v, g) /\ Closed(c, v, Reach(c, v, g))
  BY DEF Reach, Closed
<1>2. ASSUME NEW g \in Groups, ~Passes(c, v, g) PROVE Reach(c, v, g) = {g}
  <2>1. Closed(c, v, {g})
    BY <1>2 DEF Closed
  <2> QED
    BY <1>1, <2>1 DEF Reach
<1>3. ASSUME NEW g \in Groups, Passes(c, v, g)
      PROVE  Reach(c, v, g) = {g} \cup Reach(c, v, c.parent[g])
  <2>1. c.parent[g] \in Groups
    OBVIOUS
  <2>2. Closed(c, v, {g} \cup Reach(c, v, c.parent[g]))
    BY <1>1, <2>1 DEF Closed
  <2>3. {g} \cup Reach(c, v, c.parent[g]) \in SUBSET Groups
    BY DEF Reach
  <2>4. Reach(c, v, g) \subseteq {g} \cup Reach(c, v, c.parent[g])
    BY <2>2, <2>3 DEF Reach
  <2>5. ASSUME NEW k \in Reach(c, v, c.parent[g]) PROVE k \in Reach(c, v, g)
    BY <1>3, <2>1 DEF Reach, Closed
  <2> QED
    BY <1>1, <2>4, <2>5
<1>4. f = [g \in Groups |-> IF v[g] + 1 # c.quorum[g] \/ g = 0 THEN {g}
                            ELSE {g} \cup f[c.parent[g]]]
  <2>1. ASSUME NEW g \in Groups
        PROVE  Reach(c, v, g) = IF v[g] + 1 # c.quorum[g] \/ g = 0 THEN {g}
                                ELSE {g} \cup f[c.parent[g]]
    BY <1>2, <1>3 DEF Passes
  <2> QED
    BY <2>1
<1> QED
  BY <1>4 DEF IsClimb

\* One turn of the loop.
LEMMA RaisedUnfold ==
    ASSUME NEW c, c.parent \in [Groups -> Groups], NEW v, NEW g \in Groups
    PROVE  Raised(c, v, g) = IF Passes(c, v, g) THEN {g} \cup Raised(c, v, c.parent[g]) ELSE {g}
<1> DEFINE f == CHOOSE f : IsClimb(c, v, f)
<1>1. IsClimb(c, v, f)
  BY ClimbExists
<1>2. c.parent[g] \in Groups
  OBVIOUS
<1>3. Raised(c, v, g) = f[g] /\ Raised(c, v, c.parent[g]) = f[c.parent[g]]
  BY RaisedIs
<1> HIDE DEF f
<1>4. f[g] = IF v[g] + 1 # c.quorum[g] \/ g = 0 THEN {g} ELSE {g} \cup f[c.parent[g]]
  BY <1>1 DEF IsClimb
<1> QED
  BY <1>3, <1>4 DEF Passes

\* What the loop raises from g: g, nothing above it in number, and each other group by
\* exactly one child whose quorum the vote completes.
IsPath(c, v, g, R) ==
    /\ g \in R /\ R \in SUBSET Groups /\ \A k \in R : k <= g
    /\ \A k \in R : Passes(c, v, k) => c.parent[k] \in R
    /\ \A k \in R : k # g => \E h \in R : Passes(c, v, h) /\ c.parent[h] = k
    /\ \A h, k \in R : Passes(c, v, h) /\ Passes(c, v, k) /\ c.parent[h] = c.parent[k] => h = k

\* The loop goes up one path of the tree.
LEMMA RaisedIsPath ==
    ASSUME NEW c, Configured(c), NEW v
    PROVE  \A g \in Groups : IsPath(c, v, g, Raised(c, v, g))
<1> USE GroupTreeAssumption
<1> DEFINE G == {g \in Groups : IsPath(c, v, g, Raised(c, v, g))}
<1>0. c.parent \in [Groups -> Groups] /\ \A g \in Groups : g # 0 => c.parent[g] < g
  BY DEF Configured, ValidateGroupTree
<1>n. \A g \in Groups : g \in Nat
  BY DEF Groups
<1>1. ASSUME NEW g \in Groups, \A h \in Groups : h < g => h \in G PROVE g \in G
  <2>1. CASE ~Passes(c, v, g)
    <3>1. Raised(c, v, g) = {g}
      BY <1>0, <2>1, RaisedUnfold
    <3> QED
      BY <1>n, <2>1, <3>1 DEF IsPath
  <2>2. CASE Passes(c, v, g)
    <3> DEFINE p == c.parent[g]
               S == Raised(c, v, p)
               R == Raised(c, v, g)
    <3>1. R = {g} \cup S
      BY <1>0, <2>2, RaisedUnfold
    <3>2. p \in Groups /\ p < g
      BY <1>0, <2>2 DEF Passes
    <3>3. IsPath(c, v, p, S)
      BY <1>1, <3>2
    <3> HIDE DEF S, R
    <3>4. p \in S /\ S \in SUBSET Groups /\ \A k \in S : k <= p
      BY <3>3 DEF IsPath
    <3>5. R \in SUBSET Groups /\ g \in R /\ \A k \in R : k <= g
      BY <1>n, <3>1, <3>2, <3>4
    <3>6. \A k \in R : Passes(c, v, k) => c.parent[k] \in R
      BY <3>1, <3>3, <3>4 DEF IsPath
    <3>7. \A k \in R : k # g => \E h \in R : Passes(c, v, h) /\ c.parent[h] = k
      BY <2>2, <3>1, <3>3 DEF IsPath
    <3>8. ASSUME NEW h \in S, Passes(c, v, h) PROVE c.parent[h] # p
      <4>1. h \in Groups /\ h <= p /\ h # 0
        BY <3>4, <3>8 DEF Passes
      <4>2. c.parent[h] < h /\ c.parent[h] \in Groups
        BY <1>0, <4>1
      <4> QED
        BY <1>n, <3>2, <4>1, <4>2
    <3>9. \A h, k \in R : Passes(c, v, h) /\ Passes(c, v, k) /\ c.parent[h] = c.parent[k] => h = k
      BY <3>1, <3>3, <3>8 DEF IsPath
    <3> QED
      BY <3>5, <3>6, <3>7, <3>9 DEF IsPath, R
  <2> QED
    BY <2>1, <2>2
<1>2. G = Groups
  <2> HIDE DEF G
  <2>1. G \in SUBSET Groups
    BY DEF G
  <2> QED
    BY <1>1, <2>1, GroupsUp
<1> QED
  BY <1>2
-----------------------------------------------------------------------------
(* The reference: who agrees.                                              *)

Own(c, signed, g) == {s \in signed : c.group[s] = g}
Below(c, g, A) == {h \in Groups : h > g /\ c.parent[h] = g /\ h \in A}

\* The groups that agree if those of A do below them.
Agreeing(c, signed, A) ==
    {g \in Groups : Enabled(c, g)
                    /\ Cardinality(Own(c, signed, g)) + Cardinality(Below(c, g, A)) >= c.quorum[g]}

IsAgrees(c, signed, f) ==
    f = [g \in Groups |->
            /\ Enabled(c, g)
            /\ Cardinality({s \in signed : c.group[s] = g})
               + Cardinality({h \in Groups : h > g /\ c.parent[h] = g /\ f[h]})
               >= c.quorum[g]]

\* The recursive definition, as the function it defines.
LEMMA AgreesIs ==
    ASSUME NEW c, NEW signed PROVE Agrees(c, signed) = CHOOSE f : IsAgrees(c, signed, f)
BY DEF Agrees, IsAgrees

\* Members are counted by natural numbers, and more of them count more.
LEMMA BelowFinite ==
    ASSUME NEW c, NEW g, NEW A, NEW B, A \subseteq B
    PROVE  /\ IsFiniteSet(Below(c, g, A)) /\ Cardinality(Below(c, g, A)) \in Nat
           /\ Cardinality(Below(c, g, B)) \in Nat
           /\ Cardinality(Below(c, g, A)) <= Cardinality(Below(c, g, B))
<1>1. IsFiniteSet(Groups)
  BY FS_Interval, GroupTreeAssumption DEF Groups
<1>2. IsFiniteSet(Below(c, g, B))
  BY <1>1, FS_Subset DEF Below
<1>3. Below(c, g, A) \subseteq Below(c, g, B)
  BY DEF Below
<1> QED
  BY <1>2, <1>3, FS_Subset, FS_CardinalityType

\* So do the signers of a group.
LEMMA OwnFinite ==
    ASSUME NEW c, NEW g, NEW signed, IsFiniteSet(signed)
    PROVE  IsFiniteSet(Own(c, signed, g)) /\ Cardinality(Own(c, signed, g)) \in Nat
BY FS_Subset, FS_CardinalityType DEF Own

\* If more groups agree, more groups agree.
LEMMA AgreeingMonotone ==
    ASSUME NEW c, c.quorum \in [Groups -> Nat], NEW signed, IsFiniteSet(signed),
           NEW A, NEW B, A \subseteq B
    PROVE  Agreeing(c, signed, A) \subseteq Agreeing(c, signed, B)
<1> SUFFICES ASSUME NEW g \in Agreeing(c, signed, A) PROVE g \in Agreeing(c, signed, B)
  OBVIOUS
<1>1. g \in Groups /\ c.quorum[g] \in Nat
  BY DEF Agreeing
<1>2. Cardinality(Own(c, signed, g)) \in Nat
  BY OwnFinite
<1>3. /\ Cardinality(Below(c, g, A)) \in Nat /\ Cardinality(Below(c, g, B)) \in Nat
      /\ Cardinality(Below(c, g, A)) <= Cardinality(Below(c, g, B))
  BY BelowFinite
<1> QED
  BY <1>1, <1>2, <1>3 DEF Agreeing

\* The definition defines something: the smallest set of groups with every group that
\* agrees if the set's do.
LEMMA AgreesExists ==
    ASSUME NEW c, c.quorum \in [Groups -> Nat], NEW signed, IsFiniteSet(signed)
    PROVE  \E f : IsAgrees(c, signed, f)
<1> DEFINE Pre == {A \in SUBSET Groups : Agreeing(c, signed, A) \subseteq A}
           L == {g \in Groups : \A A \in Pre : g \in A}
           f == [g \in Groups |-> g \in L]
<1>1. \A A \in SUBSET Groups : Agreeing(c, signed, A) \in SUBSET Groups
  BY DEF Agreeing
<1>2. Agreeing(c, signed, L) \subseteq L
  <2>1. ASSUME NEW A \in Pre PROVE Agreeing(c, signed, L) \subseteq A
    <3>1. L \subseteq A
      OBVIOUS
    <3>2. Agreeing(c, signed, L) \subseteq Agreeing(c, signed, A)
      <4> HIDE DEF L, Pre
      <4> QED
        BY <3>1, AgreeingMonotone
    <3> QED
      BY <3>2
  <2>2. Agreeing(c, signed, L) \subseteq Groups
    BY DEF Agreeing
  <2> QED
    BY <2>1, <2>2
<1>3. Agreeing(c, signed, L) \in Pre
  <2>1. Agreeing(c, signed, Agreeing(c, signed, L)) \subseteq Agreeing(c, signed, L)
    <3> HIDE DEF L
    <3> QED
      BY <1>2, AgreeingMonotone
  <2> QED
    BY <1>1, <2>1
<1>4. L = Agreeing(c, signed, L)
  BY <1>2, <1>3
<1> HIDE DEF L
<1>5. ASSUME NEW g \in Groups
      PROVE  {h \in Groups : h > g /\ c.parent[h] = g /\ f[h]} = Below(c, g, L)
  BY DEF Below
<1>6. f = [g \in Groups |->
            /\ Enabled(c, g)
            /\ Cardinality({s \in signed : c.group[s] = g})
               + Cardinality({h \in Groups : h > g /\ c.parent[h] = g /\ f[h]})
               >= c.quorum[g]]
  <2> HIDE DEF f
  <2> DEFINE Here(g) == /\ Enabled(c, g)
                        /\ Cardinality({s \in signed : c.group[s] = g})
                           + Cardinality({h \in Groups : h > g /\ c.parent[h] = g /\ f[h]})
                           >= c.quorum[g]
  <2>1. ASSUME NEW g \in Groups PROVE (g \in L) <=> Here(g)
    BY <1>4, <1>5 DEF Agreeing, Own
  <2>2. \A g \in Groups : Here(g) \in BOOLEAN
    OBVIOUS
  <2>3. f = [g \in Groups |-> g \in L]
    BY DEF f
  <2> HIDE DEF Here
  <2>4. \A g \in Groups : (g \in L) = Here(g)
    BY <2>1, <2>2
  <2>5. f = [g \in Groups |-> Here(g)]
    BY <2>3, <2>4
  <2> QED
    BY <2>5 DEF Here
<1> QED
  BY <1>6 DEF IsAgrees

\* A set of groups that is what agrees if it does is the set of those that agree.
LEMMA AgreesIsFixed ==
    ASSUME NEW c, c.quorum \in [Groups -> Nat], NEW signed, IsFiniteSet(signed),
           NEW A \in SUBSET Groups, A = Agreeing(c, signed, A)
    PROVE  \A g \in Groups : Agrees(c, signed)[g] <=> g \in A
<1> DEFINE f == Agrees(c, signed)
           G == {g \in Groups : f[g] <=> g \in A}
<1>1. IsAgrees(c, signed, f)
  BY AgreesExists, AgreesIs
<1> HIDE DEF f
<1>2. ASSUME NEW g \in Groups, \A h \in Groups : h > g => h \in G PROVE g \in G
  <2>1. {h \in Groups : h > g /\ c.parent[h] = g /\ f[h]} = Below(c, g, A)
    BY <1>2 DEF Below
  <2>2. f[g] <=> (/\ Enabled(c, g)
                  /\ Cardinality({s \in signed : c.group[s] = g})
                     + Cardinality({h \in Groups : h > g /\ c.parent[h] = g /\ f[h]})
                     >= c.quorum[g])
    BY <1>1 DEF IsAgrees
  <2>3. f[g] <=> g \in Agreeing(c, signed, A)
    BY <2>1, <2>2 DEF Agreeing, Own
  <2> QED
    BY <2>3
<1>3. G = Groups
  <2> HIDE DEF G
  <2>1. G \in SUBSET Groups
    BY DEF G
  <2> QED
    BY <1>2, <2>1, GroupsDown
<1> QED
  BY <1>3 DEF f

-----------------------------------------------------------------------------
(* The count.                                                              *)

Met(c, v) == {h \in Groups : Enabled(c, h) /\ v[h] >= c.quorum[h]}

\* A group's count is that of its own signers and of its child groups that reached their
\* quorum, whichever signature completed it.
Counted(c, signed, v) ==
    \A g \in Groups :
        v[g] = Cardinality(Own(c, signed, g)) + Cardinality(Below(c, g, Met(c, v)))

\* Then the groups that reached their quorum are those that agree.
LEMMA CountedAgrees ==
    ASSUME NEW c, c.quorum \in [Groups -> Nat], NEW signed, IsFiniteSet(signed),
           NEW v, Counted(c, signed, v)
    PROVE  \A g \in Groups : Agrees(c, signed)[g] <=> g \in Met(c, v)
<1>1. Met(c, v) \in SUBSET Groups
  BY DEF Met
<1>2. Met(c, v) = Agreeing(c, signed, Met(c, v))
  BY DEF Met, Agreeing, Counted
<1> QED
  BY <1>1, <1>2, AgreesIsFixed
\* One signature: its group's count rises, and each other count on the path for the one
\* child whose quorum it completes.
LEMMA VoteCounts ==
    ASSUME NEW c, Configured(c), NEW signed, IsFiniteSet(signed), NEW v \in [Groups -> Nat],
           Counted(c, signed, v), NEW s \in Signers(c), s \notin signed
    PROVE  /\ Vote(c, v, s) \in [Groups -> Nat]
           /\ Counted(c, signed \cup {s}, Vote(c, v, s))
<1> USE GroupTreeAssumption
<1> DEFINE g0 == c.group[s]
           R == Raised(c, v, g0)
           w == Vote(c, v, s)
<1>0. /\ c.quorum \in [Groups -> Nat] /\ c.parent \in [Groups -> Groups] /\ g0 \in Groups
      /\ \A g \in Groups : g # 0 => c.parent[g] < g
  BY DEF Configured, ValidateGroupTree
<1>n. 0 \in Groups /\ \A g \in Groups : g \in Nat
  BY DEF Groups
<1>p. c.parent[0] = 0
  BY DEF Configured, ValidateGroupTree
<1>1. IsPath(c, v, g0, R)
  BY <1>0, RaisedIsPath
<1>2. w = [g \in Groups |-> IF g \in R THEN v[g] + 1 ELSE v[g]]
  BY DEF Vote
<1>3. w \in [Groups -> Nat]
  BY <1>2
<1> HIDE DEF w, R, g0
<1>4. ASSUME NEW h \in Groups
      PROVE  h \in Met(c, w) <=> h \in Met(c, v) \/ (h \in R /\ v[h] + 1 = c.quorum[h])
  <2>1. v[h] \in Nat /\ c.quorum[h] \in Nat /\ w[h] = IF h \in R THEN v[h] + 1 ELSE v[h]
    BY <1>0, <1>2
  <2> QED
    BY <2>1 DEF Met, Enabled
<1>5. ASSUME NEW g \in Groups
      PROVE  w[g] = Cardinality(Own(c, signed \cup {s}, g)) + Cardinality(Below(c, g, Met(c, w)))
  <2> DEFINE own == Own(c, signed, g)
             below == Below(c, g, Met(c, v))
  <2>1. v[g] = Cardinality(own) + Cardinality(below)
    BY <1>5 DEF Counted
  <2>2. /\ IsFiniteSet(own) /\ Cardinality(own) \in Nat
        /\ IsFiniteSet(below) /\ Cardinality(below) \in Nat
    BY OwnFinite, BelowFinite
  <2>4. CASE g = g0
    <3>1. Own(c, signed \cup {s}, g) = own \cup {s} /\ s \notin own
      BY <2>4 DEF Own, g0
    <3>2. Below(c, g, Met(c, w)) = below
      <4>1. ASSUME NEW h \in Groups, h > g PROVE h \notin R
        BY <1>0, <1>1, <1>n, <2>4, <4>1 DEF IsPath
      <4> QED
        BY <1>4, <4>1 DEF Below
    <3>3. Cardinality(own \cup {s}) = Cardinality(own) + 1
      BY <2>2, <3>1, FS_AddElement
    <3>4. w[g] = v[g] + 1
      BY <1>1, <1>2, <2>4 DEF IsPath
    <3> HIDE DEF own, below
    <3>5. v[g] + 1 = (Cardinality(own) + 1) + Cardinality(below)
      BY <2>1, <2>2
    <3> QED
      BY <3>1, <3>2, <3>3, <3>4, <3>5
  <2>5. CASE g # g0
    <3>1. Own(c, signed \cup {s}, g) = own
      BY <2>5 DEF Own, g0
    <3>2. CASE g \in R
      <4>1. PICK h \in R : Passes(c, v, h) /\ c.parent[h] = g
        BY <1>1, <2>5, <3>2 DEF IsPath
      <4>2. h \in Groups /\ h > g /\ v[h] + 1 = c.quorum[h]
        <5>1. h \in Groups
          BY <1>1 DEF IsPath
        <5> QED
          BY <1>0, <1>n, <4>1, <5>1 DEF Passes
      <4>3. h \notin Met(c, v)
        BY <1>0, <4>2 DEF Met
      <4>4. ASSUME NEW k \in Groups, k > g, c.parent[k] = g, k \in R, v[k] + 1 = c.quorum[k]
            PROVE  k = h
        <5>1. Passes(c, v, k)
          BY <1>n, <4>4 DEF Passes
        <5> QED
          BY <1>1, <4>1, <4>4, <5>1 DEF IsPath
      <4>5. Below(c, g, Met(c, w)) = below \cup {h} /\ h \notin below
        BY <1>4, <4>1, <4>2, <4>3, <4>4 DEF Below
      <4>6. Cardinality(below \cup {h}) = Cardinality(below) + 1
        BY <2>2, <4>5, FS_AddElement
      <4>7. w[g] = v[g] + 1
        BY <1>2, <3>2
      <4> HIDE DEF own, below
      <4> QED
        BY <2>1, <2>2, <3>1, <4>5, <4>6, <4>7
    <3>3. CASE g \notin R
      <4>1. ASSUME NEW k \in Groups, k > g, c.parent[k] = g, k \in R, v[k] + 1 = c.quorum[k]
            PROVE  FALSE
        <5>1. Passes(c, v, k)
          BY <1>n, <4>1 DEF Passes
        <5> QED
          BY <1>1, <3>3, <4>1, <5>1 DEF IsPath
      <4>2. Below(c, g, Met(c, w)) = below
        BY <1>4, <4>1 DEF Below
      <4>3. w[g] = v[g]
        BY <1>2, <3>3
      <4> QED
        BY <2>1, <3>1, <4>2, <4>3
    <3> QED
      BY <3>2, <3>3
  <2> QED
    BY <2>4, <2>5
<1> QED
  BY <1>3, <1>5 DEF Counted, w

\* In a config that was accepted the parent of an enabled group is enabled, hence the root.
LEMMA RootEnabled == ASSUME NEW c, Configured(c) PROVE Enabled(c, 0)
<1> USE GroupTreeAssumption
<1> DEFINE A == {h \in Groups : Enabled(c, h)}
<1>0. /\ c.quorum \in [Groups -> Nat] /\ c.parent \in [Groups -> Groups]
      /\ \A g \in Groups : g # 0 => c.parent[g] < g
      /\ \A g \in Groups : ~Enabled(c, g) => Members(c, g) = 0
  BY DEF Configured, ValidateGroupTree
<1>n. 0 \in Groups /\ \A g \in Groups : g \in Nat
  BY DEF Groups
<1>1. ASSUME NEW g \in Groups
      PROVE  /\ IsFiniteSet(Own(c, Signers(c), g)) /\ Cardinality(Own(c, Signers(c), g)) \in Nat
             /\ IsFiniteSet(Below(c, g, A))
             /\ Cardinality(Below(c, g, A)) \in Nat
             /\ Members(c, g) = Cardinality(Own(c, Signers(c), g))
                                + Cardinality(Below(c, g, A))
  <2>1. {h \in Groups : h > g /\ Enabled(c, h) /\ c.parent[h] = g}
            = Below(c, g, A)
    BY DEF Below
  <2>2. Members(c, g) = Cardinality(Own(c, Signers(c), g))
                        + Cardinality(Below(c, g, A))
    BY <2>1 DEF Members, Own
  <2> QED
    BY <2>2, OwnFinite, BelowFinite DEF Configured
<1> HIDE DEF A
<1>2. ASSUME NEW g \in Groups, Enabled(c, g), g # 0 PROVE Enabled(c, c.parent[g])
  <2> DEFINE p == c.parent[g]
  <2>1. p \in Groups /\ g > p
    BY <1>0, <1>2, <1>n
  <2>2. g \in Below(c, p, A)
    BY <1>2, <2>1 DEF Below, A
  <2>3. Cardinality(Below(c, p, A)) # 0
    BY <1>1, <2>1, <2>2, FS_EmptySet
  <2>4. Members(c, p) # 0
    BY <1>1, <2>1, <2>3
  <2> QED
    BY <1>0, <2>1, <2>4
<1>3. PICK g \in Groups : Enabled(c, g)
  <2>1. PICK s \in Signers(c) : TRUE
    BY DEF Configured
  <2>2. PICK g \in Groups : s \in Own(c, Signers(c), g)
    BY <2>1 DEF Configured, Own
  <2>3. Cardinality(Own(c, Signers(c), g)) # 0
    BY <1>1, <2>2, FS_EmptySet
  <2>4. Members(c, g) # 0
    BY <1>1, <2>2, <2>3
  <2> QED
    BY <1>0, <2>2, <2>4
<1> DEFINE G == {h \in Groups : Enabled(c, h) => Enabled(c, 0)}
<1>4. ASSUME NEW k \in Groups, \A h \in Groups : h < k => h \in G PROVE k \in G
  <2>1. ASSUME Enabled(c, k), k # 0 PROVE Enabled(c, 0)
    <3>1. Enabled(c, c.parent[k]) /\ c.parent[k] \in Groups /\ c.parent[k] < k
      BY <1>0, <1>2, <2>1
    <3> QED
      BY <1>4, <3>1
  <2> QED
    BY <2>1
<1>5. G = Groups
  <2> HIDE DEF G
  <2>1. G \in SUBSET Groups
    BY DEF G
  <2> QED
    BY <1>4, <2>1, GroupsUp
<1> QED
  BY <1>3, <1>5

\* If all signers of an accepted config sign, the enabled groups agree.
LEMMA AllAgree ==
    ASSUME NEW c, Configured(c)
    PROVE  \A g \in Groups : Agrees(c, Signers(c))[g] <=> Enabled(c, g)
<1> DEFINE A == {h \in Groups : Enabled(c, h)}
<1>1. IsFiniteSet(Signers(c)) /\ c.quorum \in [Groups -> Nat]
  BY DEF Configured
<1>2. ASSUME NEW g \in A PROVE g \in Agreeing(c, Signers(c), A)
  <2>1. Members(c, g) >= c.quorum[g]
    BY DEF Configured, ValidateGroupTree
  <2>2. {h \in Groups : h > g /\ Enabled(c, h) /\ c.parent[h] = g} = Below(c, g, A)
    BY DEF Below
  <2>3. Members(c, g) = Cardinality(Own(c, Signers(c), g)) + Cardinality(Below(c, g, A))
    BY <2>2 DEF Members, Own
  <2> QED
    BY <2>1, <2>3 DEF Agreeing
<1>3. A = Agreeing(c, Signers(c), A)
  BY <1>2 DEF Agreeing
<1>4. A \in SUBSET Groups
  OBVIOUS
<1> HIDE DEF A
<1>5. \A g \in Groups : Agrees(c, Signers(c))[g] <=> g \in A
  BY <1>1, <1>3, <1>4, AgreesIsFixed
<1> QED
  BY <1>5 DEF A
-----------------------------------------------------------------------------
(* The loop of verify_signatures.                                          *)

\* What the loop knows when it turns to the next signature.
TallyInv ==
    /\ Configured(cfg)
    /\ sigs \in Seq(Nat) /\ Increasing(sigs)
    /\ Signed \subseteq Signers(cfg) /\ Cardinality(Signed) = Len(sigs)
    /\ votes \in [Groups -> Nat]
    /\ Counted(cfg, Signed, votes)
    /\ result = "accepted" => votes[0] >= cfg.quorum[0]

\* With no signature nothing is counted.
LEMMA NothingCounted ==
    ASSUME NEW c, Configured(c) PROVE NoVotes \in [Groups -> Nat] /\ Counted(c, {}, NoVotes)
<1>1. ASSUME NEW g \in Groups PROVE Own(c, {}, g) = {} /\ Below(c, g, Met(c, NoVotes)) = {}
  BY DEF Own, Below, Met, Enabled, NoVotes, Configured
<1>2. Cardinality({}) = 0
  BY FS_EmptySet
<1> QED
  BY <1>1, <1>2 DEF Counted, NoVotes

\* A configuration stored by set_config starts the loop.
LEMMA TallyInit == CountInit => TallyInv
<1> SUFFICES ASSUME CountInit PROVE TallyInv
  OBVIOUS
<1>1. Configured(cfg)
  <2>1. PICK S \in SUBSET Addresses, quorum \in [Groups -> 0 .. MaxQuorum],
             parent \in [Groups -> Groups] :
          \E group \in [S -> Groups] :
             cfg = [group |-> group, quorum |-> quorum, parent |-> parent]
    BY DEF CountInit
  <2>2. PICK group \in [S -> Groups] :
             cfg = [group |-> group, quorum |-> quorum, parent |-> parent]
    BY <2>1
  <2>3. Signers(cfg) = S /\ IsFiniteSet(S)
    BY <2>2, CountAssumption, FS_Subset DEF Signers
  <2>4. ValidateGroupTree(cfg) /\ Cardinality(Signers(cfg)) \in 1 .. MaxSigners
    BY DEF CountInit, ValidConfig
  <2>5. S # {}
    BY <2>3, <2>4, FS_EmptySet
  <2>6. quorum \in [Groups -> Nat]
    BY CountAssumption
  <2> QED
    BY <2>2, <2>3, <2>4, <2>5, <2>6 DEF Configured
<1>2. sigs = <<>> /\ votes = NoVotes /\ result # "accepted" /\ Signed = {}
  BY DEF CountInit, Signed
<1>3. sigs \in Seq(Nat) /\ Increasing(sigs) /\ Cardinality(Signed) = Len(sigs)
  BY <1>2, FS_EmptySet DEF Increasing
<1> QED
  BY <1>1, <1>2, <1>3, NothingCounted DEF TallyInv

\* A signature whose address is above the last one is of a signer not counted yet.
LEMMA NewSigner ==
    ASSUME NEW s \in Seq(Nat), Increasing(s), NEW a \in Nat, Len(s) > 0 => s[Len(s)] < a
    PROVE  /\ a \notin {s[i] : i \in 1 .. Len(s)}
           /\ Append(s, a) \in Seq(Nat) /\ Increasing(Append(s, a))
           /\ {Append(s, a)[i] : i \in 1 .. Len(Append(s, a))} = {s[i] : i \in 1 .. Len(s)} \cup {a}
<1>1. \A i \in 1 .. Len(s) : s[i] \in Nat /\ s[i] < a
  BY DEF Increasing
<1>2. /\ Append(s, a) \in Seq(Nat) /\ Len(Append(s, a)) = Len(s) + 1
      /\ \A i \in 1 .. Len(s) : Append(s, a)[i] = s[i]
      /\ Append(s, a)[Len(s) + 1] = a
  OBVIOUS
<1>3. Increasing(Append(s, a))
  BY <1>1, <1>2 DEF Increasing
<1>4. {Append(s, a)[i] : i \in 1 .. Len(Append(s, a))} = {s[i] : i \in 1 .. Len(s)} \cup {a}
  BY <1>2
<1> QED
  BY <1>1, <1>2, <1>3, <1>4

\* A signature that is counted keeps what the loop knows.
LEMMA CountKeeps == ASSUME TallyInv, NEW a \in Addresses, Count(a) PROVE TallyInv'
<1>1. a \in Nat /\ a \in Signers(cfg) /\ sigs \in Seq(Nat) /\ Increasing(sigs)
  BY CountAssumption DEF TallyInv, Count
<1>2. Len(sigs) > 0 => sigs[Len(sigs)] < a
  BY DEF Count, InOrder
<1>3. sigs' = Append(sigs, a) /\ votes' = Vote(cfg, votes, a) /\ cfg' = cfg /\ result' = "running"
  BY DEF Count
<1>4. a \notin Signed /\ Signed' = Signed \cup {a} /\ sigs' \in Seq(Nat) /\ Increasing(sigs')
  BY <1>1, <1>2, <1>3, NewSigner DEF Signed
<1>5. IsFiniteSet(Signed)
  BY FS_Subset DEF TallyInv, Configured
<1>6. Cardinality(Signed') = Len(sigs')
  <2>1. Cardinality(Signed') = Cardinality(Signed) + 1
    BY <1>4, <1>5, FS_AddElement
  <2> QED
    BY <1>1, <1>3, <2>1 DEF TallyInv
<1>7. votes' \in [Groups -> Nat] /\ Counted(cfg, Signed', votes')
  <2>1. Configured(cfg) /\ votes \in [Groups -> Nat] /\ Counted(cfg, Signed, votes)
    BY DEF TallyInv
  <2> QED
    BY <1>1, <1>3, <1>4, <1>5, <2>1, VoteCounts
<1> QED
  BY <1>1, <1>3, <1>4, <1>6, <1>7 DEF TallyInv

\* The loop counts a group exactly when it agrees, over any config and any signatures.
THEOREM CountInvariant == CountSpec => []TallyInv
<1>1. TallyInv /\ [CountNext]_countVars => TallyInv'
  <2> SUFFICES ASSUME TallyInv, [CountNext]_countVars PROVE TallyInv'
    OBVIOUS
  <2>1. ASSUME UNCHANGED <<cfg, sigs, votes>>, result' = "accepted" => votes[0] >= cfg.quorum[0]
        PROVE  TallyInv'
    <3>1. Signed' = Signed
      BY <2>1 DEF Signed
    <3> QED
      BY <2>1, <3>1 DEF TallyInv
  <2>2. CASE UNCHANGED countVars
    BY <2>1, <2>2 DEF countVars, TallyInv
  <2>3. ASSUME NEW a \in Addresses, Refuse(a) PROVE TallyInv'
    BY <2>1, <2>3 DEF Refuse
  <2>4. CASE Conclude
    BY <2>1, <2>4 DEF Conclude
  <2> QED
    BY <2>2, <2>3, <2>4, CountKeeps DEF CountNext
<1> QED
  BY <1>1, TallyInit, PTL DEF CountSpec

\* lib.rs:587-644: for any tree of groups and any signatures, a group's count has reached
\* its quorum exactly when the group agrees, and what is accepted is a quorum of the root.
THEOREM CountIsExact == CountSpec => []CountAgrees
<1>1. ASSUME TallyInv PROVE CountAgrees
  <2>a. 0 \in Groups
    BY GroupTreeAssumption DEF Groups
  <2>b. IsFiniteSet(Signers(cfg)) /\ Signed \subseteq Signers(cfg)
    BY <1>1 DEF TallyInv, Configured
  <2>c. IsFiniteSet(Signed)
    BY <2>b, FS_Subset
  <2>0. /\ 0 \in Groups /\ cfg.quorum \in [Groups -> Nat] /\ IsFiniteSet(Signed)
        /\ votes \in [Groups -> Nat]
    BY <1>1, <2>a, <2>c DEF TallyInv, Configured
  <2>1. \A g \in Groups : Agrees(cfg, Signed)[g] <=> g \in Met(cfg, votes)
    BY <1>1, <2>0, CountedAgrees DEF TallyInv
  <2>2. QuorumsExact
    BY <2>1 DEF QuorumsExact, Met
  <2>3. Enabled(cfg, 0)
    BY <1>1, RootEnabled DEF TallyInv
  <2>4. AcceptedAgrees
    BY <1>1, <2>0, <2>1, <2>3 DEF AcceptedAgrees, TallyInv, Met
  <2> QED
    BY <2>2, <2>4 DEF CountAgrees
<1> QED
  BY <1>1, CountInvariant, PTL

\* lib.rs:541-585: for any tree that validate_group_tree accepts, the root is enabled and
\* all signers together make it agree.
THEOREM SignersNeverLocked == CountSpec => []NeverLocked
<1>1. ASSUME TallyInv PROVE NeverLocked
  <2>1. 0 \in Groups
    BY GroupTreeAssumption DEF Groups
  <2> QED
    BY <1>1, <2>1, AllAgree, RootEnabled DEF TallyInv, NeverLocked
<1> QED
  BY <1>1, CountInvariant, PTL
-----------------------------------------------------------------------------
(* The loop as the function of its signatures that set_root uses.          *)

IsTally(c, s, f) ==
    f = [i \in 0 .. Len(s) |-> IF i = 0 THEN NoVotes ELSE Vote(c, f[i - 1], s[i])]

\* verify_signatures, as the function it computes.
LEMMA TallyIs ==
    ASSUME NEW c, NEW s PROVE Tally(c, s) = (CHOOSE f : IsTally(c, s, f))[Len(s)]
BY DEF Tally, IsTally

\* There is such a function.
LEMMA TallyExists ==
    ASSUME NEW c, NEW s \in Seq(Nat) PROVE \E f : IsTally(c, s, f)
<1> DEFINE n == Len(s)
           Val == [Groups -> Nat]
           step == [p \in (1 .. n) \X Val |-> Vote(c, p[2], s[p[1]])]
           pick == LastOf(1 .. n)
<1>0. n \in Nat /\ IsFiniteSet(1 .. n) /\ Picks(pick, 1 .. n)
  BY FS_Interval, LastPicks
<1>1. PICK g : IsFold(step, pick, NoVotes, 1 .. n, g)
  <2> HIDE DEF step, pick, n
  <2>1. PICK S : S = 1 .. n
    OBVIOUS
  <2> QED
    BY <1>0, <2>1, FoldExists
<1>2. NoVotes \in Val /\ \A x \in 1 .. n, v \in Val : step[<<x, v>>] \in Val
  BY DEF NoVotes, Vote
<1>3. \A t \in SUBSET (1 .. n) : g[t] \in Val
  <2> HIDE DEF step, pick, n, Val
  <2>1. PICK S : S = 1 .. n
    OBVIOUS
  <2> QED
    BY <1>0, <1>1, <1>2, <2>1, FoldTyped
<1> DEFINE f == [i \in 0 .. n |-> g[1 .. i]]
<1>4. ASSUME NEW i \in 0 .. n
      PROVE  f[i] = IF i = 0 THEN NoVotes ELSE Vote(c, f[i - 1], s[i])
  <2>1. CASE i = 0
    BY <1>1, <2>1 DEF IsFold
  <2>2. CASE i # 0
    <3>1. i \in Nat /\ i \in 1 .. n /\ i - 1 \in 0 .. n
      BY <2>2
    <3>2. Max(1 .. i) = i /\ (1 .. i) \ {i} = 1 .. (i - 1)
      BY <2>2, <3>1, MaxOfInterval
    <3>3. 1 .. i \in SUBSET (1 .. n) /\ 1 .. i # {} /\ 1 .. (i - 1) \in SUBSET (1 .. n)
      <4> HIDE DEF n
      <4>1. i \in 1 .. i /\ (\A k \in 1 .. i : k \in 1 .. n)
        BY <1>0, <3>1
      <4>2. \A k \in 1 .. (i - 1) : k \in 1 .. n
        BY <1>0, <3>1
      <4> QED
        BY <4>1, <4>2
    <3>4. pick[1 .. i] = i
      BY <3>2, <3>3 DEF LastOf
    <3>5. g[1 .. i] = step[<<i, g[1 .. (i - 1)]>>]
      <4> HIDE DEF step, pick
      <4> QED
        BY <1>1, <3>2, <3>3, <3>4 DEF IsFold
    <3>6. g[1 .. (i - 1)] \in Val
      BY <1>3, <3>3
    <3>7. step[<<i, g[1 .. (i - 1)]>>] = Vote(c, g[1 .. (i - 1)], s[i])
      <4> HIDE DEF Val
      <4> QED
        BY <3>1, <3>6
    <3>8. f[i] = g[1 .. i] /\ f[i - 1] = g[1 .. (i - 1)]
      BY <3>1
    <3> HIDE DEF f, step
    <3> QED
      BY <2>2, <3>5, <3>7, <3>8
  <2> QED
    BY <2>1, <2>2
<1>5. f = [i \in 0 .. Len(s) |-> IF i = 0 THEN NoVotes ELSE Vote(c, f[i - 1], s[i])]
  <2> HIDE DEF f
  <2>1. f = [i \in 0 .. n |-> f[i]]
    BY DEF f
  <2> QED
    BY <1>4, <2>1
<1> QED
  BY <1>5 DEF IsTally

Given(s) == {s[i] : i \in 1 .. Len(s)}

\* The counts are those of the signers, after any increasing list of them.
LEMMA TallyCounts ==
    ASSUME NEW c, Configured(c), NEW s \in Seq(Nat), Increasing(s), Given(s) \subseteq Signers(c)
    PROVE  Tally(c, s) \in [Groups -> Nat] /\ Counted(c, Given(s), Tally(c, s))
<1> DEFINE f == CHOOSE f : IsTally(c, s, f)
           First(i) == {s[k] : k \in 1 .. i}
           G == {i \in 0 .. Len(s) : f[i] \in [Groups -> Nat] /\ Counted(c, First(i), f[i])}
<1>1. IsTally(c, s, f)
  BY TallyExists
<1> HIDE DEF f
<1>2. 0 \in G
  <2>1. f[0] = NoVotes /\ First(0) = {} /\ 0 \in 0 .. Len(s)
    BY <1>1 DEF IsTally
  <2> QED
    BY <2>1, NothingCounted
<1>3. ASSUME NEW i \in 0 .. (Len(s) - 1), i \in G PROVE i + 1 \in G
  <2>1. i \in Nat /\ i + 1 \in 1 .. Len(s) /\ (i + 1) - 1 = i /\ i + 1 \in 0 .. Len(s) /\ i + 1 # 0
    OBVIOUS
  <2>2. f[i + 1] = Vote(c, f[i], s[i + 1])
    BY <1>1, <2>1 DEF IsTally
  <2>3. First(i + 1) = First(i) \cup {s[i + 1]} /\ s[i + 1] \notin First(i)
    <3>1. \A k \in 1 .. i : s[k] \in Nat /\ s[i + 1] \in Nat /\ s[k] < s[i + 1]
      BY <2>1 DEF Increasing
    <3>2. 1 .. (i + 1) = (1 .. i) \cup {i + 1}
      BY <2>1
    <3> QED
      BY <3>1, <3>2
  <2>4. s[i + 1] \in Signers(c) /\ First(i) \subseteq Signers(c)
    BY <2>1 DEF Given
  <2>5. IsFiniteSet(First(i))
    BY <2>4, FS_Subset DEF Configured
  <2>6. f[i] \in [Groups -> Nat] /\ Counted(c, First(i), f[i])
    BY <1>3
  <2>7. f[i + 1] \in [Groups -> Nat] /\ Counted(c, First(i + 1), f[i + 1])
    <3>1. PICK signed : signed = First(i)
      OBVIOUS
    <3>2. PICK v : v = f[i]
      OBVIOUS
    <3>3. PICK who : who = s[i + 1]
      OBVIOUS
    <3> HIDE DEF First
    <3>4. /\ v \in [Groups -> Nat] /\ Counted(c, signed, v) /\ IsFiniteSet(signed)
          /\ signed \subseteq Signers(c) /\ who \in Signers(c) /\ who \notin signed
      BY <2>3, <2>4, <2>5, <2>6, <3>1, <3>2, <3>3
    <3>5. Vote(c, v, who) \in [Groups -> Nat] /\ Counted(c, signed \cup {who}, Vote(c, v, who))
      BY <3>4, VoteCounts
    <3>6. f[i + 1] = Vote(c, v, who) /\ First(i + 1) = signed \cup {who}
      BY <2>2, <2>3, <3>1, <3>2, <3>3
    <3> QED
      BY <3>5, <3>6
  <2> QED
    BY <2>1, <2>7
<1>4. Len(s) \in G
  <2> HIDE DEF G
  <2>1. Len(s) \in Nat /\ Len(s) \in 0 .. Len(s)
    OBVIOUS
  <2>2. PICK n \in Nat : n = Len(s)
    BY <2>1
  <2>3. \A i \in 0 .. (n - 1) : i \in G => i + 1 \in G
    BY <1>3, <2>2
  <2>4. \A i \in 0 .. n : i \in G
    BY <1>2, <2>3, IntervalInduction
  <2> QED
    BY <2>1, <2>2, <2>4
<1>5. Tally(c, s) = f[Len(s)]
  BY TallyIs DEF f
<1> QED
  BY <1>4, <1>5 DEF Given

\* Signatures of the signers of a config that make its root group agree.
Agreed(c, s) == Given(s) \subseteq Signers(c) /\ Agrees(c, Given(s))[0]

\* verify_signatures accepts a quorum, for any tree and any number of signatures.
LEMMA VerifiedAgreed ==
    ASSUME NEW c, Configured(c), NEW s \in Seq(Nat), VerifySignatures(c, s)
    PROVE  Agreed(c, s)
<1>1. Increasing(s) /\ Given(s) \subseteq Signers(c) /\ Enabled(c, 0) /\ Tally(c, s)[0] >= c.quorum[0]
  BY DEF VerifySignatures, Given
<1>2. Counted(c, Given(s), Tally(c, s))
  BY <1>1, TallyCounts
<1>a. IsFiniteSet(Signers(c)) /\ c.quorum \in [Groups -> Nat]
  BY DEF Configured
<1>b. 0 \in Groups
  BY GroupTreeAssumption DEF Groups
<1>3. IsFiniteSet(Given(s)) /\ c.quorum \in [Groups -> Nat] /\ 0 \in Groups
  BY <1>1, <1>a, <1>b, FS_Subset
<1>4. Agrees(c, Given(s))[0] <=> 0 \in Met(c, Tally(c, s))
  BY <1>2, <1>3, CountedAgrees
<1> QED
  BY <1>1, <1>3, <1>4 DEF Agreed, Met

-----------------------------------------------------------------------------
(* The roots of the contract.                                              *)

\* What set_config has stored, validate_group_tree has accepted.
StoredValid == config # None => config \in Configs /\ ValidConfig(config)

\* A config of the contract is one the vote count is exact for.
LEMMA StoredConfigured ==
    ASSUME StoredValid, config # None PROVE Configured(config)
<1>1. config \in Configs /\ ValidConfig(config)
  BY DEF StoredValid
<1>2. /\ config.quorum \in [Groups -> Nat] /\ config.parent \in [Groups -> Groups]
      /\ IsFiniteSet(Signers(config)) /\ config.group \in [Signers(config) -> Groups]
  BY <1>1, McmsAssumption
<1>3. ValidateGroupTree(config) /\ Cardinality(Signers(config)) >= 1
  BY <1>1, GroupTreeAssumption DEF ValidConfig
<1>4. Signers(config) # {}
  BY <1>3, FS_EmptySet
<1> QED
  BY <1>2, <1>3, <1>4 DEF Configured

\* Only set_config writes the config.
LEMMA ConfigValid == Spec => []StoredValid
<1>1. Init => StoredValid
  BY DEF Init, StoredValid
<1>2. StoredValid /\ [Next]_vars => StoredValid'
  <2> SUFFICES ASSUME StoredValid, [Next]_vars PROVE StoredValid'
    OBVIOUS
  <2>1. CASE \E c \in Configs, clear \in BOOLEAN : SetConfig(c, clear)
    <3>1. \E c \in Configs : config' = c /\ ValidConfig(c)
      BY <2>1 DEF SetConfig
    <3> QED
      BY <3>1 DEF StoredValid
  <2>2. CASE \E r \in Roots, expiry \in Expiries, signatures \in Signatures :
                \E m \in MetaOf[r] : SetRoot(r, expiry, m, signatures)
    BY <2>2 DEF SetRoot, StoredValid
  <2>3. CASE \/ Initialize
             \/ \E r \in Roots : \E op \in OpsOf[r] : Execute(op)
             \/ \E secs \in 0 .. SplHigh + 1 : SetMinSecsPerLedger(secs)
             \/ \E secs \in Pace .. MaxTime : Close(secs)
             \/ UNCHANGED vars
    <3>1. config' = config
      BY <2>3 DEF Initialize, Execute, SetMinSecsPerLedger, Close, vars, stored
    <3> QED
      BY <3>1 DEF StoredValid
  <2> QED
    BY <2>1, <2>2, <2>3 DEF Next
<1> QED
  BY <1>1, <1>2, PTL DEF Spec

\* set_root and verify_signatures (lib.rs:182-290, 587-644): a new root is one that signers
\* of the config in force agreed on, by the definition of a quorum on the tree of groups.
RootAgreed ==
    root' # root /\ root' # ZeroRoot => \E s \in Signatures : Agreed(config, s)

\* For any tree of groups, whatever configs, roots and signatures came before.
THEOREM RootsAgreed == Spec => [][RootAgreed]_vars
<1>1. StoredValid /\ [Next]_vars => [RootAgreed]_vars
  <2> SUFFICES ASSUME StoredValid, Next PROVE RootAgreed
    OBVIOUS
  <2>1. ASSUME NEW r \in Roots, NEW expiry \in Expiries, NEW s \in Signatures,
               NEW m \in MetaOf[r], SetRoot(r, expiry, m, s)
        PROVE  Agreed(config, s)
    <3>1. config # None /\ VerifySignatures(config, s)
      BY <2>1 DEF SetRoot
    <3>2. s \in Seq(Nat)
      BY McmsAssumption
    <3>3. Configured(config)
      BY <3>1, StoredConfigured
    <3> QED
      BY <3>1, <3>2, <3>3, VerifiedAgreed
  <2>2. CASE \E c \in Configs, clear \in BOOLEAN : SetConfig(c, clear)
    BY <2>2 DEF SetConfig, RootAgreed
  <2>3. CASE \E r \in Roots, expiry \in Expiries, s \in Signatures :
                \E m \in MetaOf[r] : SetRoot(r, expiry, m, s)
    BY <2>1, <2>3 DEF RootAgreed
  <2>4. CASE \/ Initialize
             \/ \E r \in Roots : \E op \in OpsOf[r] : Execute(op)
             \/ \E secs \in 0 .. SplHigh + 1 : SetMinSecsPerLedger(secs)
             \/ \E secs \in Pace .. MaxTime : Close(secs)
    BY <2>4 DEF Initialize, Execute, SetMinSecsPerLedger, Close, stored, RootAgreed
  <2> QED
    BY <2>2, <2>3, <2>4 DEF Next
<1> QED
  BY <1>1, ConfigValid, PTL DEF Spec
=============================================================================
