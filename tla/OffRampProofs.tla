---------------------------- MODULE OffRampProofs ----------------------------
(* The theorems about OffRamp, for any messages, lanes, verifiers, pools   *)
(* and lists of verifiers that callers pass, about Forwarder, for any      *)
(* reports, configurations and faulty signers that these tolerate, about   *)
(* Poller, for any messages, windows and pages, and about Bindings, for    *)
(* any values of the types of the clients and a word of any size.          *)
EXTENDS OffRamp, Forwarder, Poller, Bindings, FoldTheorems, SequenceTheorems,
        FiniteSetTheorems, TLAPS

\* The inductive invariant.
IInv == TypeOK /\ EffectOnce /\ Backed

Proofs == [ccvs : SUBSET Ccvs, config : LaneConfigs]

\* A positive count of entries has one to show.
LEMMA EntriesWitness ==
    ASSUME NEW ccvs, NEW set, NEW n \in Nat, n > 0, Entries(ccvs, set) >= n
    PROVE  \E i \in 1 .. Len(ccvs) : ccvs[i] \in set
<1> DEFINE S == {i \in 1 .. Len(ccvs) : ccvs[i] \in set}
<1> SUFFICES S # {}
  OBVIOUS
<1>1. Cardinality(S) >= n
  BY DEF Entries
<1> HIDE DEF S
<1>2. S = {} => Cardinality(S) = 0
  BY FS_EmptySet
<1> QED
  BY <1>1, <1>2

\* A verified list has an entry that the lane names: a lane with mandated CCVs asks
\* for at least one entry among them, a lane without for one among the defaults.
LEMMA QuorumNames ==
    ASSUME NEW m \in Messages, NEW ccvs, Config(m) \in LaneConfigs, Quorum(m, ccvs)
    PROVE  \E i \in 1 .. Len(ccvs) :
              ccvs[i] \in Elements(Config(m).mandated) \cup Config(m).defaults
<1> DEFINE mandated == Config(m).mandated
           defaults == Config(m).defaults
<1>1. mandated \in Seq(Ccvs)
  BY OffRampAssumption
<1>2. Entries(ccvs, Elements(mandated)) >= Len(mandated)
  BY DEF Quorum
<1>3. mandated = <<>> => Entries(ccvs, defaults) > 0
  BY DEF Quorum
<1> HIDE DEF mandated, defaults
<1>4. CASE mandated = <<>>
  <2> DEFINE S == {i \in 1 .. Len(ccvs) : ccvs[i] \in defaults}
  <2>1. Cardinality(S) > 0
    BY <1>3, <1>4 DEF Entries
  <2> HIDE DEF S
  <2>2. S # {}
    BY <2>1, FS_EmptySet
  <2> QED
    BY <2>2 DEF S, defaults
<1>5. CASE mandated # <<>>
  <2>1. Len(mandated) \in Nat /\ Len(mandated) > 0
    BY <1>1, <1>5
  <2>2. \E i \in 1 .. Len(ccvs) : ccvs[i] \in Elements(mandated)
    BY <1>2, <2>1, EntriesWitness
  <2> QED
    BY <2>2 DEF mandated
<1> QED
  BY <1>4, <1>5

\* What a list that passes verification shows of the message.
LEMMA VerifiedBacks ==
    ASSUME TypeOK, NEW m \in Messages, NEW ccvs \in CcvLists, Admitted(m), Verified(m, ccvs)
    PROVE  /\ Config(m) \in LaneConfigs /\ Elements(ccvs) \subseteq Ccvs
           /\ \A ccv \in Elements(ccvs) : <<m, ccv>> \in attested
           /\ \E ccv \in Elements(ccvs) :
                 ccv \in Elements(Config(m).mandated) \cup Config(m).defaults
           /\ m \in WithToken => PoolRequires(m, Config(m)) \subseteq Elements(ccvs)
<1>1. ccvs \in Seq(Ccvs)
  BY OffRampAssumption
<1>2. Elements(ccvs) \subseteq Ccvs
  BY <1>1 DEF Elements
<1>3. Config(m) \in LaneConfigs
  BY OffRampAssumption DEF Admitted, Config, TypeOK
<1>4. \A ccv \in Elements(ccvs) : <<m, ccv>> \in attested
  BY DEF Verified, AllAttested, Elements
<1>5. \E ccv \in Elements(ccvs) : ccv \in Elements(Config(m).mandated) \cup Config(m).defaults
  <2>1. PICK i \in 1 .. Len(ccvs) :
           ccvs[i] \in Elements(Config(m).mandated) \cup Config(m).defaults
    BY <1>3, QuorumNames DEF Verified
  <2>2. ccvs[i] \in Elements(ccvs)
    BY DEF Elements
  <2> QED
    BY <2>1, <2>2
<1>6. m \in WithToken => PoolRequires(m, Config(m)) \subseteq Elements(ccvs)
  BY DEF Verified, PoolSatisfied
<1> QED
  BY <1>2, <1>3, <1>4, <1>5, <1>6

\* Every behaviour starts with nothing done.
LEMMA InitIInv == Init => IInv
<1> SUFFICES ASSUME Init PROVE IInv
  OBVIOUS
<1> USE OffRampAssumption DEF Init
<1>1. TypeOK
  BY DEF TypeOK
<1>2. EffectOnce
  BY DEF EffectOnce
<1>3. Backed
  BY DEF Backed
<1> QED
  BY <1>1, <1>2, <1>3 DEF IInv

\* An execution that fails before the pool is called only marks the message.
LEMMA FailsStep ==
    ASSUME IInv, NEW m \in Messages, NEW ccvs \in CcvLists, ExecuteFails(m, ccvs)
    PROVE  IInv'
<1>1. /\ state[m] # "Success"
      /\ state' = [state EXCEPT ![m] = "Failure"]
      /\ UNCHANGED <<lane, cursed, pooled, deployed, attested, released, delivered, proof>>
  BY DEF ExecuteFails, Admitted, Retryable
<1>2. TypeOK /\ TypeOK'
  BY <1>1 DEF IInv, TypeOK
<1>3. \A n \in Messages : state'[n] = "Success" <=> state[n] = "Success"
  BY <1>1, <1>2 DEF TypeOK
<1>4. EffectOnce'
  BY <1>1, <1>3 DEF IInv, EffectOnce
<1>5. Backed'
  BY <1>1, <1>3 DEF IInv, Backed, BackedOne, By
<1> QED
  BY <1>2, <1>4, <1>5 DEF IInv

\* What Release leaves in the histories.
LEMMA ReleaseEffect ==
    ASSUME TypeOK, NEW m \in Messages, NEW ccvs \in CcvLists, Admitted(m),
           Verified(m, ccvs), Release(m, ccvs)
    PROVE  /\ proof' \in [Messages -> Proofs \cup {None}]
           /\ proof'[m] = [ccvs |-> Elements(ccvs), config |-> Config(m)]
           /\ \A n \in Messages : n # m => proof'[n] = proof[n]
           /\ released' \in [Messages -> 0 .. 2]
           /\ \A n \in Messages : n # m => released'[n] = released[n]
           /\ m \in WithToken => released'[m] = UpToTwo(released[m])
<1>1. [ccvs |-> Elements(ccvs), config |-> Config(m)] \in Proofs
  BY VerifiedBacks DEF Proofs
<1>2. proof \in [Messages -> Proofs \cup {None}] /\ released \in [Messages -> 0 .. 2]
  BY DEF TypeOK, Proofs
<1>3. proof' = [proof EXCEPT ![m] = [ccvs |-> Elements(ccvs), config |-> Config(m)]]
  BY DEF Release
<1> HIDE DEF Proofs
<1>4. /\ proof' \in [Messages -> Proofs \cup {None}]
      /\ proof'[m] = [ccvs |-> Elements(ccvs), config |-> Config(m)]
      /\ \A n \in Messages : n # m => proof'[n] = proof[n]
  BY <1>1, <1>2, <1>3
<1>5. /\ released' \in [Messages -> 0 .. 2]
      /\ \A n \in Messages : n # m => released'[n] = released[n]
      /\ m \in WithToken => released'[m] = UpToTwo(released[m])
  BY <1>2 DEF Release, UpToTwo
<1> QED
  BY <1>4, <1>5

\* The message's proof, after Release, backs it; the other messages keep theirs.
LEMMA ReleaseBacks ==
    ASSUME IInv, NEW m \in Messages, NEW ccvs \in CcvLists, Admitted(m), Verified(m, ccvs),
           Release(m, ccvs), attested' = attested,
           \A n \in Messages : n # m => state'[n] = state[n]
    PROVE  Backed'
<1>1. TypeOK /\ Backed
  BY DEF IInv
<1> SUFFICES ASSUME NEW n \in Messages, state'[n] = "Success" \/ released'[n] > 0
             PROVE  BackedOne(n)'
  BY DEF Backed
<1>2. CASE n = m
  <2>1. proof'[m] = [ccvs |-> Elements(ccvs), config |-> Config(m)]
    BY <1>1, ReleaseEffect
  <2>2. proof'[m].ccvs = Elements(ccvs) /\ proof'[m].config = Config(m)
    BY <2>1
  <2>3. By(m)' = Elements(ccvs)
    BY <1>1, <2>2, VerifiedBacks DEF By
  <2>4. By(m)' \cap (Elements(Config(m).mandated) \cup Config(m).defaults) # {}
    BY <1>1, <2>3, VerifiedBacks
  <2>5. m \in WithToken => PoolRequires(m, Config(m)) \subseteq By(m)'
    BY <1>1, <2>3, VerifiedBacks
  <2> QED
    BY <1>2, <2>2, <2>4, <2>5 DEF BackedOne, PoolRequires
<1>3. CASE n # m
  <2>1. proof'[n] = proof[n] /\ released'[n] = released[n] /\ state'[n] = state[n]
    BY <1>1, <1>3, ReleaseEffect
  <2>2. BackedOne(n)
    BY <1>1, <2>1 DEF Backed
  <2> QED
    BY <2>1, <2>2 DEF BackedOne, By, PoolRequires
<1> QED
  BY <1>2, <1>3

\* An execution whose receiver is missing releases the token and leaves the rest.
LEMMA UndeliveredStep ==
    ASSUME IInv, NEW m \in Messages, NEW ccvs \in CcvLists, ExecuteUndelivered(m, ccvs)
    PROVE  IInv'
<1>1. /\ Admitted(m) /\ Verified(m, ccvs) /\ Release(m, ccvs) /\ m \in WithCall
      /\ state[m] # "Success" /\ state' = [state EXCEPT ![m] = "Failure"]
      /\ UNCHANGED <<lane, cursed, pooled, deployed, attested, delivered>>
  BY DEF ExecuteUndelivered, Admitted, Retryable
<1>2. TypeOK
  BY DEF IInv
<1>3. /\ proof' \in [Messages -> Proofs \cup {None}]
      /\ released' \in [Messages -> 0 .. 2]
      /\ \A n \in Messages : n # m => released'[n] = released[n]
  BY <1>1, <1>2, ReleaseEffect
<1>4. TypeOK'
  BY <1>1, <1>2, <1>3 DEF TypeOK, Proofs
<1>5. \A n \in Messages : /\ state'[n] = "Success" <=> state[n] = "Success"
                          /\ n # m => state'[n] = state[n]
  BY <1>1, <1>2 DEF TypeOK
<1>6. EffectOnce'
  BY <1>1, <1>3, <1>5 DEF IInv, EffectOnce
<1>7. Backed'
  BY <1>1, <1>5, ReleaseBacks
<1> QED
  BY <1>4, <1>6, <1>7 DEF IInv

\* A successful execution is the only one that calls the receiver.
LEMMA SuccessStep ==
    ASSUME IInv, NEW m \in Messages, NEW ccvs \in CcvLists, ExecuteSucceeds(m, ccvs)
    PROVE  IInv'
<1>1. /\ Admitted(m) /\ Verified(m, ccvs) /\ Release(m, ccvs)
      /\ state[m] # "Success" /\ state' = [state EXCEPT ![m] = "Success"]
      /\ delivered' = IF m \in WithCall THEN [delivered EXCEPT ![m] = UpToTwo(@)]
                                        ELSE delivered
      /\ UNCHANGED <<lane, cursed, pooled, deployed, attested>>
  BY DEF ExecuteSucceeds, Admitted, Retryable
<1>2. TypeOK
  BY DEF IInv
<1>3. /\ proof' \in [Messages -> Proofs \cup {None}]
      /\ released' \in [Messages -> 0 .. 2]
      /\ \A n \in Messages : n # m => released'[n] = released[n]
      /\ m \in WithToken => released'[m] = UpToTwo(released[m])
  BY <1>1, <1>2, ReleaseEffect
<1>4. /\ delivered' \in [Messages -> 0 .. 2]
      /\ \A n \in Messages : n # m => delivered'[n] = delivered[n]
      /\ m \in WithCall => delivered'[m] = UpToTwo(delivered[m])
  BY <1>1, <1>2 DEF TypeOK, UpToTwo
<1>5. /\ state' \in [Messages -> {"Untouched", "Success", "Failure"}]
      /\ state'[m] = "Success" /\ \A n \in Messages : n # m => state'[n] = state[n]
  BY <1>1, <1>2 DEF TypeOK
<1>6. TypeOK'
  BY <1>1, <1>2, <1>3, <1>4, <1>5 DEF TypeOK, Proofs
<1>7. EffectOnce'
  <2>1. /\ m \in WithCall => delivered'[m] = 1
        /\ m \notin WithCall /\ m \in WithToken => released'[m] = 1
    BY <1>1, <1>3, <1>4 DEF IInv, EffectOnce, UpToTwo
  <2> QED
    BY <1>3, <1>4, <1>5, <2>1 DEF IInv, EffectOnce
<1>8. Backed'
  BY <1>1, <1>5, ReleaseBacks
<1> QED
  BY <1>6, <1>7, <1>8 DEF IInv

\* The owner and the other contracts change no message.
LEMMA OtherStep ==
    ASSUME IInv,
           \/ \E chain \in Chains, c \in LaneConfigs : ApplySourceChainCfg(chain, c)
           \/ \E subject \in Chains \cup {Global} : Curse(subject)
           \/ \E m \in Messages : SetPool(m) \/ Deploy(m)
           \/ \E m \in Messages, ccv \in Ccvs : Attest(m, ccv)
           \/ UNCHANGED vars
    PROVE  IInv'
<1>1. UNCHANGED <<state, released, delivered, proof>> /\ attested \subseteq attested'
  BY DEF ApplySourceChainCfg, Curse, SetPool, Deploy, Attest, vars
<1>2. TypeOK
  BY DEF IInv
<1>3. lane' \in [Chains -> LaneConfigs \cup {None}]
  BY <1>2 DEF TypeOK, ApplySourceChainCfg, Curse, SetPool, Deploy, Attest, vars
<1>4. cursed' \subseteq Chains \cup {Global}
  BY <1>2 DEF TypeOK, ApplySourceChainCfg, Curse, SetPool, Deploy, Attest, vars
<1>5. pooled' \subseteq WithToken /\ deployed' \subseteq WithCall
  BY <1>2 DEF TypeOK, ApplySourceChainCfg, Curse, SetPool, Deploy, Attest, vars
<1>6. attested' \subseteq Messages \X Ccvs
  BY <1>2, OffRampAssumption DEF TypeOK, ApplySourceChainCfg, Curse, SetPool, Deploy, Attest, vars
<1>7. TypeOK'
  BY <1>1, <1>2, <1>3, <1>4, <1>5, <1>6 DEF TypeOK
<1>8. EffectOnce'
  BY <1>1 DEF IInv, EffectOnce
<1>9. Backed'
  BY <1>1 DEF IInv, Backed, BackedOne, By
<1> QED
  BY <1>7, <1>8, <1>9 DEF IInv

\* The invariant holds in every reachable state.
LEMMA Reachable == Spec => []IInv
<1>1. IInv /\ [Next]_vars => IInv'
  <2> SUFFICES ASSUME IInv, [Next]_vars PROVE IInv'
    OBVIOUS
  <2>1. CASE \E m \in Messages, ccvs \in CcvLists : Execute(m, ccvs)
    BY <2>1, FailsStep, UndeliveredStep, SuccessStep DEF Execute
  <2> QED
    BY <2>1, OtherStep DEF Next
<1> QED
  BY <1>1, InitIInv, PTL DEF Spec

\* Every variable keeps its type; no message is left InProgress.
THEOREM TypeCorrect == Spec => []TypeOK
<1>1. IInv => TypeOK
  BY DEF IInv
<1> QED
  BY <1>1, Reachable, PTL

\* A receiver is called once per message, and a token that comes alone is released
\* once, however often execution fails and is tried again (lib.rs:186-222).
THEOREM TakesEffectOnce == Spec => []EffectOnce
<1>1. IInv => EffectOnce
  BY DEF IInv
<1> QED
  BY <1>1, Reachable, PTL

\* Nothing is executed or released that no CCV of the lane, or not every CCV of the
\* pool, attested (lib.rs:513-600).
THEOREM AlwaysBacked == Spec => []Backed
<1>1. IInv => Backed
  BY DEF IInv
<1> QED
  BY <1>1, Reachable, PTL

-----------------------------------------------------------------------------
(* The forwarder.                                                          *)

Deliveries == [path : {"report", "route"}, report : Reports]

\* What is accepted has a final state, so that dispatch_to_receiver does not run again, and
\* what set_config stores has more honest signers than it takes to leave one out.
ForwarderInv ==
    /\ configs \in [ConfigIds -> OracleConfigs \cup {Cleared}]
    /\ \A c \in ConfigIds : configs[c] # Cleared => ValidOracles(configs[c])
    /\ transmissions \in [Ids -> {"NotAttempted", "Failed"} \cup Final]
    /\ accepted \in [Ids -> Seq(Deliveries)]
    /\ \A i \in Ids : accepted[i] # <<>> => transmissions[i] = "Succeeded"
    /\ ReportsGenuineOnce

\* A list without repetitions has as many elements as entries.
LEMMA InjectiveLength ==
    ASSUME NEW n \in Nat, NEW S, NEW s \in [1 .. n -> S], IsInjective(s)
    PROVE  IsFiniteSet(ToSet(s)) /\ Cardinality(ToSet(s)) = n
<1>1. s \in Bijection(1 .. n, ToSet(s))
  BY DEF Bijection, Injection, Surjection, IsInjective, ToSet
<1>2. IsFiniteSet(1 .. n) /\ Cardinality(1 .. n) = n
  BY FS_Interval
<1> QED
  BY <1>1, <1>2, FS_Bijection DEF ExistsBijection

\* f + 1 different signers of a configuration are not all faulty: one that is not has
\* signed the report.
LEMMA HonestSigned ==
    ASSUME ForwarderInv, NEW r \in Reports, NEW signatures \in SignaturesFor(r),
           configs[r.config] # Cleared, VerifySignatures(configs[r.config], signatures)
    PROVE  r \in Genuine
<1>1. SUFFICES ASSUME r \notin Genuine PROVE FALSE
  OBVIOUS
<1>2. PICK a \in OracleConfigs : a = configs[r.config] /\ ValidOracles(a)
  BY ForwarderAssumption DEF ForwarderInv
<1>3. a.f \in Nat /\ a.signers \in Seq(Keys) /\ Cardinality(ToSet(a.signers) \cap Faulty) <= a.f
  BY <1>2, ForwarderAssumption
<1>4. PICK n \in Nat : signatures \in [1 .. n -> Faulty]
  <2>1. \E n \in {a.f, a.f + 1} \ {0} : signatures \in [1 .. n -> Faulty]
    BY <1>1, <1>2, Zenon DEF SignaturesFor
  <2> QED
    BY <1>3, <2>1
<1>5. Len(signatures) = n
  BY <1>4
<1>6. n = a.f + 1 /\ ToSet(signatures) \subseteq ToSet(a.signers) /\ IsInjective(signatures)
  BY <1>2, <1>5 DEF VerifySignatures
<1>7. ToSet(signatures) \subseteq ToSet(a.signers) \cap Faulty
  BY <1>4, <1>6 DEF ToSet
<1>8. IsFiniteSet(ToSet(signatures)) /\ Cardinality(ToSet(signatures)) = n
  BY <1>4, <1>6, InjectiveLength
<1>9. IsFiniteSet(ToSet(a.signers))
  <2>1. PICK k \in Nat : a.signers \in [1 .. k -> Keys]
    BY <1>3
  <2>2. IsInjective(a.signers)
    BY <1>2 DEF ValidOracles
  <2> QED
    BY <2>1, <2>2, InjectiveLength
<1>10. IsFiniteSet(ToSet(a.signers) \cap Faulty)
  BY <1>9, FS_Subset
<1>11. n <= Cardinality(ToSet(a.signers) \cap Faulty)
  BY <1>7, <1>8, <1>10, FS_Subset
<1>12. Cardinality(ToSet(a.signers) \cap Faulty) \in Nat
  BY <1>10, FS_CardinalityType
<1> QED
  BY <1>3, <1>6, <1>11, <1>12

\* A delivery preserves the invariant, if what report delivers is genuine.
LEMMA DispatchStep ==
    ASSUME ForwarderInv, NEW i \in Ids, NEW e \in Deliveries, NEW outcome,
           e.path = "report" => e.report \in Genuine, DispatchToReceiver(i, e, outcome)
    PROVE  ForwarderInv'
<1>1. /\ transmissions[i] \notin Final /\ outcome \in {"Succeeded", "Failed", "InvalidReceiver"}
      /\ transmissions' = [transmissions EXCEPT ![i] = outcome]
      /\ accepted' = [accepted EXCEPT ![i] = IF outcome = "Succeeded" THEN Append(@, e) ELSE @]
      /\ UNCHANGED configs
  BY DEF DispatchToReceiver, AlreadyProcessed, Outcomes
<1>2. accepted[i] = <<>>
  BY <1>1 DEF ForwarderInv, Final
<1>3. transmissions' \in [Ids -> {"NotAttempted", "Failed"} \cup Final]
  BY <1>1 DEF ForwarderInv, Final
<1>4. accepted'[i] = IF outcome = "Succeeded" THEN <<e>> ELSE <<>>
  BY <1>1, <1>2 DEF ForwarderInv
<1>5. \A j \in Ids : j # i => accepted'[j] = accepted[j] /\ transmissions'[j] = transmissions[j]
  BY <1>1 DEF ForwarderInv
<1>6. accepted' \in [Ids -> Seq(Deliveries)]
  <2>1. accepted' = [j \in Ids |-> accepted'[j]]
    BY <1>1 DEF ForwarderInv
  <2>2. accepted'[i] \in Seq(Deliveries)
    BY <1>4
  <2>3. \A j \in Ids : accepted[j] \in Seq(Deliveries)
    BY DEF ForwarderInv
  <2>4. \A j \in Ids : accepted'[j] \in Seq(Deliveries)
    BY <1>5, <2>2, <2>3
  <2> QED
    BY <2>1, <2>4
<1>7. \A j \in Ids : accepted'[j] # <<>> => transmissions'[j] = "Succeeded"
  BY <1>1, <1>4, <1>5 DEF ForwarderInv
<1>8. DeliveredOnce'
  <2>1. Len(<<e>>) = 1 /\ Len(<<>>) = 0
    OBVIOUS
  <2>2. Len(accepted'[i]) <= 1
    BY <1>4, <2>1
  <2> QED
    BY <1>5, <2>2 DEF ForwarderInv, ReportsGenuineOnce, DeliveredOnce
<1>9. GenuineOnly'
  <2> SUFFICES ASSUME NEW j \in Ids, NEW k \in DOMAIN accepted'[j], accepted'[j][k].path = "report"
               PROVE  accepted'[j][k].report \in Genuine
    BY DEF GenuineOnly
  <2>1. CASE j = i
    BY <1>4, <2>1
  <2>2. CASE j # i
    BY <1>5, <2>2 DEF ForwarderInv, ReportsGenuineOnce, GenuineOnly
  <2> QED
    BY <2>1, <2>2
<1> QED
  BY <1>1, <1>3, <1>6, <1>7, <1>8, <1>9 DEF ForwarderInv, ReportsGenuineOnce

\* The owner's calls and the receiver's exchange change no delivery.
LEMMA ForwarderOtherStep ==
    ASSUME ForwarderInv,
           \/ \E t \in Transmitters : AddForwarder(t) \/ RemoveForwarder(t)
           \/ \E c \in ConfigIds : (\E a \in OracleConfigs : SetConfig(c, a)) \/ ClearConfig(c)
           \/ Exchange
           \/ UNCHANGED forwarderVars
    PROVE  ForwarderInv'
<1>1. UNCHANGED <<transmissions, accepted>>
  BY DEF AddForwarder, RemoveForwarder, SetConfig, ClearConfig, Exchange, forwarderVars
<1>2. ReportsGenuineOnce'
  BY <1>1 DEF ForwarderInv, ReportsGenuineOnce, DeliveredOnce, GenuineOnly
<1>3. CASE UNCHANGED configs
  BY <1>1, <1>2, <1>3 DEF ForwarderInv
<1>4. CASE \E c \in ConfigIds : (\E a \in OracleConfigs : SetConfig(c, a)) \/ ClearConfig(c)
  <2>1. PICK c \in ConfigIds, d \in OracleConfigs \cup {Cleared} :
           configs' = [configs EXCEPT ![c] = d] /\ (d # Cleared => ValidOracles(d))
    BY <1>4 DEF SetConfig, ClearConfig
  <2>2. configs' \in [ConfigIds -> OracleConfigs \cup {Cleared}]
    BY <2>1 DEF ForwarderInv
  <2>3. \A b \in ConfigIds : configs'[b] # Cleared => ValidOracles(configs'[b])
    BY <2>1 DEF ForwarderInv
  <2> QED
    BY <1>1, <1>2, <2>2, <2>3 DEF ForwarderInv
<1> QED
  BY <1>3, <1>4 DEF AddForwarder, RemoveForwarder, Exchange, forwarderVars

\* For any reports, configurations and faulty keys the configurations tolerate, a
\* receiver accepts a transmission at most once, and nothing over signatures that no honest
\* signer gave (lib.rs:171-252, 493-540).
THEOREM ReportsAreGenuine == ForwarderSpec => []ReportsGenuineOnce
<1>1. ForwarderInit => ForwarderInv
  <2> SUFFICES ASSUME ForwarderInit PROVE ForwarderInv
    OBVIOUS
  <2>1. \A i \in Ids : accepted[i] = <<>>
    BY DEF ForwarderInit
  <2>2. accepted \in [Ids -> Seq(Deliveries)]
    BY DEF ForwarderInit
  <2>3. ReportsGenuineOnce
    BY <2>1 DEF ReportsGenuineOnce, DeliveredOnce, GenuineOnly
  <2> QED
    BY <2>1, <2>2, <2>3 DEF ForwarderInit, ForwarderInv
<1>2. ForwarderInv /\ [ForwarderNext]_forwarderVars => ForwarderInv'
  <2> SUFFICES ASSUME ForwarderInv, [ForwarderNext]_forwarderVars PROVE ForwarderInv'
    OBVIOUS
  <2>1. CASE Attempt
    <3>1. PICK t \in Transmitters, r \in Reports, outcome \in Outcomes :
             \/ \E signatures \in SignaturesFor(r) : Report(t, r, signatures, outcome)
             \/ \E i \in Ids : Route(t, i, r, outcome)
      BY <2>1 DEF Attempt
    <3>2. CASE \E signatures \in SignaturesFor(r) : Report(t, r, signatures, outcome)
      <4>1. /\ \E signatures \in SignaturesFor(r) :
                  /\ configs[r.config] # Cleared
                  /\ VerifySignatures(configs[r.config], signatures)
            /\ DispatchToReceiver(r.id, [path |-> "report", report |-> r], outcome)
        BY <3>2 DEF Report
      <4>2. r \in Genuine
        BY <4>1, HonestSigned
      <4>3. r.id \in Ids /\ [path |-> "report", report |-> r] \in Deliveries
        BY DEF Ids, Deliveries
      <4> QED
        BY <4>1, <4>2, <4>3, DispatchStep
    <3>3. CASE \E i \in Ids : Route(t, i, r, outcome)
      <4>1. PICK i \in Ids : DispatchToReceiver(i, [path |-> "route", report |-> r], outcome)
        BY <3>3 DEF Route
      <4>2. [path |-> "route", report |-> r] \in Deliveries
        BY DEF Deliveries
      <4> QED
        BY <4>1, <4>2, DispatchStep
    <3> QED
      BY <3>1, <3>2, <3>3
  <2> QED
    BY <2>1, ForwarderOtherStep DEF ForwarderNext
<1>3. ForwarderInv => ReportsGenuineOnce
  BY DEF ForwarderInv
<1> QED
  BY <1>1, <1>2, <1>3, PTL DEF ForwarderSpec

-----------------------------------------------------------------------------
(* The execution attempt poller.                                           *)

Events == [ledger : Nat, nth : Nat, id : MessageIds]

\* An event that follows all events of a list is put at its end.
LEMMA InOrderAppend ==
    ASSUME NEW l \in Seq(Events), InOrder(l), NEW e \in Events,
           \A f \in ToSet(l) : Precedes(f, e)
    PROVE  /\ Append(l, e) \in Seq(Events) /\ InOrder(Append(l, e))
           /\ ToSet(Append(l, e)) = ToSet(l) \cup {e}
<1>0. PICK n \in Nat : n = Len(l) /\ DOMAIN l = 1 .. n
  OBVIOUS
<1>1. PICK k : k = Append(l, e)
  OBVIOUS
<1>2. /\ k \in Seq(Events) /\ DOMAIN k = 1 .. (n + 1) /\ k[n + 1] = e
      /\ \A i \in 1 .. n : k[i] = l[i]
  BY <1>0, <1>1
<1>3. \A i \in 1 .. n : Precedes(l[i], e)
  BY <1>0 DEF ToSet
<1>4. InOrder(k)
  <2> SUFFICES ASSUME NEW i \in 1 .. (n + 1), NEW j \in 1 .. (n + 1), i < j
               PROVE  Precedes(k[i], k[j])
    BY <1>2 DEF InOrder
  <2>1. CASE j = n + 1
    <3>1. i \in 1 .. n
      BY <1>0, <2>1
    <3> QED
      BY <1>2, <1>3, <2>1, <3>1
  <2>2. CASE j # n + 1
    <3>1. i \in 1 .. n /\ j \in 1 .. n
      BY <1>0, <2>2
    <3>2. Precedes(l[i], l[j])
      BY <1>0, <3>1 DEF InOrder
    <3> QED
      BY <1>2, <3>1, <3>2
  <2> QED
    BY <2>1, <2>2
<1>5. ToSet(k) = ToSet(l) \cup {e}
  BY <1>0, <1>2 DEF ToSet
<1> QED
  BY <1>1, <1>2, <1>4, <1>5

IsWindow(from, to, g) ==
    g = [s \in SUBSET (DOMAIN log) |->
            IF s = {} THEN <<>>
            ELSE IF InWindow(log[Max(s)], from, to) THEN Append(g[s \ {Max(s)}], log[Max(s)])
                                                    ELSE g[s \ {Max(s)}]]

\* The events of a window, as the function of the positions passed.
LEMMA WindowIs ==
    ASSUME NEW from, NEW to
    PROVE  Window(from, to) = (CHOOSE g : IsWindow(from, to, g))[DOMAIN log]
BY DEF Window, FoldLeft, MapThenFoldSet, IsWindow

\* The recursion has its solution.
LEMMA WindowExists ==
    ASSUME log \in Seq(Events), NEW from, NEW to PROVE \E g : IsWindow(from, to, g)
<1> DEFINE n == Len(log)
           step == [p \in (1 .. n) \X Seq(Events) |->
                       IF InWindow(log[p[1]], from, to) THEN Append(p[2], log[p[1]]) ELSE p[2]]
<1>1. n \in Nat /\ DOMAIN log = 1 .. n /\ \A i \in 1 .. n : log[i] \in Events
  OBVIOUS
<1>2. \A x \in 1 .. n, v \in Seq(Events) :
          /\ step[<<x, v>>] = IF InWindow(log[x], from, to) THEN Append(v, log[x]) ELSE v
          /\ step[<<x, v>>] \in Seq(Events)
  BY <1>1
<1>a. PICK Val : Val = Seq(Events)
  OBVIOUS
<1>b. PICK none : none = <<>>
  OBVIOUS
<1>3. none \in Val
  BY <1>a, <1>b
<1> HIDE DEF step, n
<1>4. PICK g : IsListFold(step, none, Val, n, g)
  <2>1. \A x \in 1 .. n, v \in Val : step[<<x, v>>] \in Val
    BY <1>2, <1>a
  <2> QED
    BY <1>1, <1>3, <2>1, ListFold
<1>5. ASSUME NEW s \in SUBSET (1 .. n)
      PROVE  g[s] = IF s = {} THEN <<>>
                    ELSE IF InWindow(log[Max(s)], from, to) THEN Append(g[s \ {Max(s)}], log[Max(s)])
                                                            ELSE g[s \ {Max(s)}]
  <2>1. CASE s = {}
    BY <1>b, <1>4, <2>1 DEF IsListFold
  <2>2. CASE s # {}
    <3>0. PICK m : m = Max(s)
      OBVIOUS
    <3>1. PICK l : l = g[s \ {m}]
      OBVIOUS
    <3>2. m \in 1 .. n /\ l \in Seq(Events) /\ g[s] = step[<<m, l>>]
      BY <1>a, <1>4, <2>2, <3>0, <3>1 DEF IsListFold
    <3>3. g[s] = IF InWindow(log[m], from, to) THEN Append(l, log[m]) ELSE l
      BY <1>2, <3>2
    <3> QED
      BY <2>2, <3>0, <3>1, <3>3
  <2> QED
    BY <2>1, <2>2
<1>6. PICK D : D = 1 .. n
  OBVIOUS
<1>7. g = [s \in SUBSET D |-> g[s]] /\ DOMAIN log = D
  BY <1>1, <1>4, <1>6 DEF IsListFold
<1>8. \A s \in SUBSET D :
          g[s] = IF s = {} THEN <<>>
                 ELSE IF InWindow(log[Max(s)], from, to) THEN Append(g[s \ {Max(s)}], log[Max(s)])
                                                         ELSE g[s \ {Max(s)}]
  BY <1>5, <1>6
<1>9. IsWindow(from, to, g)
  BY <1>7, <1>8 DEF IsWindow
<1> QED
  BY <1>9

\* The empty list.
LEMMA EmptyInOrder ==
    <<>> \in Seq(Events) /\ InOrder(<<>>) /\ ToSet(<<>>) = {}
<1>1. <<>> \in Seq(Events) /\ DOMAIN <<>> = {}
  OBVIOUS
<1> QED
  BY <1>1 DEF InOrder, ToSet

\* A window of an ordered log is ordered, and has the events of its ledgers.
LEMMA WindowExact ==
    ASSUME log \in Seq(Events), InOrder(log), NEW from, NEW to
    PROVE  /\ Window(from, to) \in Seq(Events) /\ InOrder(Window(from, to))
           /\ ToSet(Window(from, to)) = {e \in ToSet(log) : InWindow(e, from, to)}
<1> DEFINE n == Len(log)
           g == CHOOSE f : IsWindow(from, to, f)
           Of(s) == {log[j] : j \in {x \in s : InWindow(log[x], from, to)}}
           G == {s \in SUBSET (1 .. n) : g[s] \in Seq(Events) /\ InOrder(g[s]) /\ ToSet(g[s]) = Of(s)}
<1>1. n \in Nat /\ DOMAIN log = 1 .. n /\ \A i \in 1 .. n : log[i] \in Events
  OBVIOUS
<1>2. IsWindow(from, to, g)
  BY WindowExists
<1> HIDE DEF g, n
<1>3. {} \in G
  <2>1. g[{}] = <<>>
    BY <1>2 DEF IsWindow
  <2>2. g[{}] \in Seq(Events) /\ InOrder(g[{}]) /\ ToSet(g[{}]) = {}
    BY <2>1, EmptyInOrder
  <2> QED
    BY <2>2
<1>4. ASSUME NEW s \in SUBSET (1 .. n), s # {}, s \ {Max(s)} \in G PROVE s \in G
  <2>1. Max(s) \in s /\ \A x \in s : Max(s) >= x
    BY <1>1, <1>4, LastIsIn
  <2>2. PICK m \in s : m = Max(s)
    BY <2>1
  <2>3. PICK l : l = g[s \ {m}]
    OBVIOUS
  <2>4. g[s] = IF InWindow(log[m], from, to) THEN Append(l, log[m]) ELSE l
    BY <1>1, <1>2, <1>4, <2>2, <2>3 DEF IsWindow
  <2>5. l \in Seq(Events) /\ InOrder(l) /\ ToSet(l) = Of(s \ {m})
    BY <1>4, <2>2, <2>3
  <2>6. m \in 1 .. n /\ log[m] \in Events
    BY <1>1
  <2>7. \A f \in ToSet(l) : Precedes(f, log[m])
    <3> SUFFICES ASSUME NEW f \in ToSet(l) PROVE Precedes(f, log[m])
      OBVIOUS
    <3>1. PICK j \in s \ {m} : f = log[j]
      BY <2>5
    <3>2. j < m /\ j \in 1 .. n
      BY <1>1, <2>1, <2>2, <2>6, <3>1
    <3> QED
      BY <1>1, <2>6, <3>1, <3>2 DEF InOrder
  <2>8. CASE InWindow(log[m], from, to)
    <3>1. /\ Append(l, log[m]) \in Seq(Events) /\ InOrder(Append(l, log[m]))
          /\ ToSet(Append(l, log[m])) = ToSet(l) \cup {log[m]}
      BY <2>5, <2>6, <2>7, InOrderAppend
    <3>2. Of(s) = Of(s \ {m}) \cup {log[m]}
      BY <2>8
    <3>3. g[s] = Append(l, log[m])
      BY <2>4, <2>8
    <3> QED
      BY <2>5, <3>1, <3>2, <3>3
  <2>9. CASE ~InWindow(log[m], from, to)
    <3>1. Of(s) = Of(s \ {m})
      BY <2>9
    <3> QED
      BY <2>4, <2>5, <2>9, <3>1
  <2> QED
    BY <2>8, <2>9
<1>5. \A s \in SUBSET (1 .. n) : s \in G
  <2> HIDE DEF G
  <2>1. G \in SUBSET (SUBSET (1 .. n))
    BY DEF G
  <2> QED
    BY <1>1, <1>3, <1>4, <2>1, LastInduction
<1>6. /\ g[1 .. n] \in Seq(Events) /\ InOrder(g[1 .. n])
      /\ ToSet(g[1 .. n]) = Of(1 .. n)
  BY <1>5
<1>7. Of(1 .. n) = {e \in ToSet(log) : InWindow(e, from, to)}
  BY <1>1 DEF ToSet
<1>8. Window(from, to) = g[1 .. n]
  BY <1>1, WindowIs DEF g
<1> QED
  BY <1>6, <1>7, <1>8

\* A page is a part of the window, from its beginning.
LEMMA PageExact ==
    ASSUME log \in Seq(Events), InOrder(log), NEW from, NEW to
    PROVE  /\ GetEvents(from, to) \in Seq(Events) /\ InOrder(GetEvents(from, to))
           /\ ToSet(GetEvents(from, to)) \subseteq ToSet(Window(from, to))
<1>1. PICK w \in Seq(Events) : w = Window(from, to) /\ InOrder(w)
  BY WindowExact
<1>2. CASE Len(w) <= PageLimit
  BY <1>1, <1>2 DEF GetEvents
<1>3. CASE ~(Len(w) <= PageLimit)
  <2>1. PICK p : p = SubSeq(w, 1, PageLimit)
    OBVIOUS
  <2>2. PageLimit \in Nat /\ Len(w) \in Nat /\ PageLimit < Len(w)
    BY <1>3, PollerAssumption
  <2>3. \A i \in 1 .. PageLimit : w[i] \in Events
    BY <1>1, <2>2
  <2>4. /\ p \in Seq(Events)
        /\ Len(p) = IF 1 <= PageLimit THEN PageLimit - 1 + 1 ELSE 0
        /\ \A i \in 1 .. PageLimit - 1 + 1 : p[i] = w[1 + i - 1]
    BY <2>1, <2>2, <2>3, SubSeqProperties
  <2>5. DOMAIN p = 1 .. PageLimit /\ DOMAIN w = 1 .. Len(w) /\ \A i \in 1 .. PageLimit : p[i] = w[i]
    <3>1. Len(p) = PageLimit /\ p \in Seq(Events) /\ w \in Seq(Events)
      BY <1>1, <2>2, <2>4
    <3>2. DOMAIN p = 1 .. PageLimit /\ DOMAIN w = 1 .. Len(w)
      BY <3>1
    <3>3. ASSUME NEW i \in 1 .. PageLimit PROVE p[i] = w[i]
      <4>1. i \in 1 .. PageLimit - 1 + 1 /\ 1 + i - 1 = i
        BY <2>2
      <4> QED
        BY <2>4, <4>1
    <3> QED
      BY <3>2, <3>3
  <2>6. InOrder(p)
    BY <1>1, <2>2, <2>5 DEF InOrder
  <2>7. ToSet(p) \subseteq ToSet(w)
    BY <2>2, <2>5 DEF ToSet
  <2>8. GetEvents(from, to) = p
    BY <1>1, <1>3, <2>1 DEF GetEvents
  <2> QED
    BY <1>1, <2>4, <2>6, <2>7, <2>8
<1> QED
  BY <1>2, <1>3

Caches == [MessageIds -> Seq(Events)]
ProcessedNext(c, e, failed) == IF e \in failed THEN c ELSE Cached(c, e)

IsProcessed(cache, events, failed, g) ==
    g = [s \in SUBSET (DOMAIN events) |->
            IF s = {} THEN cache ELSE ProcessedNext(g[s \ {Max(s)}], events[Max(s)], failed)]

\* The loop over the events of a page.
LEMMA ProcessedIs ==
    ASSUME NEW cache, NEW events, NEW failed
    PROVE  Processed(cache, events, failed)
           = (CHOOSE g : IsProcessed(cache, events, failed, g))[DOMAIN events]
BY DEF Processed, FoldLeft, MapThenFoldSet, IsProcessed, ProcessedNext

\* One event.
LEMMA CachedIs ==
    ASSUME NEW c \in Caches, NEW e \in Events
    PROVE  /\ Cached(c, e) \in Caches
           /\ \A i \in MessageIds : Cached(c, e)[i] = IF i = e.id THEN Append(c[i], e) ELSE c[i]
<1>1. e.id \in MessageIds
  BY DEF Events
<1>2. c[e.id] \in Seq(Events)
  BY <1>1 DEF Caches
<1>3. Append(c[e.id], e) \in Seq(Events)
  BY <1>2
<1> QED
  BY <1>1, <1>3 DEF Cached, Caches

\* The recursion has its solution.
LEMMA ProcessedExists ==
    ASSUME NEW cache \in Caches, NEW events \in Seq(Events), NEW failed
    PROVE  \E g : IsProcessed(cache, events, failed, g)
<1> DEFINE n == Len(events)
           step == [p \in (1 .. n) \X Caches |-> ProcessedNext(p[2], events[p[1]], failed)]
<1>1. n \in Nat /\ DOMAIN events = 1 .. n /\ \A i \in 1 .. n : events[i] \in Events
  OBVIOUS
<1>2. \A x \in 1 .. n, v \in Caches :
          step[<<x, v>>] = ProcessedNext(v, events[x], failed) /\ step[<<x, v>>] \in Caches
  BY <1>1, CachedIs DEF ProcessedNext
<1> HIDE DEF step, n
<1>3. PICK g : IsListFold(step, cache, Caches, n, g)
  BY <1>1, <1>2, ListFold
<1>4. ASSUME NEW s \in SUBSET (1 .. n)
      PROVE  g[s] = IF s = {} THEN cache
                    ELSE ProcessedNext(g[s \ {Max(s)}], events[Max(s)], failed)
  <2>1. CASE s = {}
    BY <1>3, <2>1 DEF IsListFold
  <2>2. CASE s # {}
    BY <1>2, <1>3, <2>2 DEF IsListFold
  <2> QED
    BY <2>1, <2>2
<1>5. PICK D : D = 1 .. n
  OBVIOUS
<1>6. g = [s \in SUBSET D |-> g[s]] /\ DOMAIN events = D
  BY <1>1, <1>3, <1>5 DEF IsListFold
<1>7. \A s \in SUBSET D :
          g[s] = IF s = {} THEN cache
                 ELSE ProcessedNext(g[s \ {Max(s)}], events[Max(s)], failed)
  BY <1>4, <1>5
<1>8. IsProcessed(cache, events, failed, g)
  BY <1>6, <1>7 DEF IsProcessed
<1> QED
  BY <1>8

\* A page of events that follow all the cache has: afterwards it has them too, but for the
\* failed ones, each under its message and in order.
LEMMA ProcessedExact ==
    ASSUME NEW cache \in Caches, \A i \in MessageIds : InOrder(cache[i]),
           NEW events \in Seq(Events), InOrder(events), NEW failed,
           \A i \in MessageIds : \A f \in ToSet(cache[i]) : \A e \in ToSet(events) : Precedes(f, e)
    PROVE  /\ Processed(cache, events, failed) \in Caches
           /\ \A i \in MessageIds :
                 /\ InOrder(Processed(cache, events, failed)[i])
                 /\ ToSet(Processed(cache, events, failed)[i])
                    = ToSet(cache[i]) \cup {e \in ToSet(events) \ failed : e.id = i}
<1> DEFINE n == Len(events)
           g == CHOOSE f : IsProcessed(cache, events, failed, f)
           Of(i, s) == {events[j] : j \in {x \in s : events[x] \notin failed /\ events[x].id = i}}
           Good(c, s) == \A i \in MessageIds :
                            InOrder(c[i]) /\ ToSet(c[i]) = ToSet(cache[i]) \cup Of(i, s)
           G == {s \in SUBSET (1 .. n) : g[s] \in Caches /\ Good(g[s], s)}
<1>1. n \in Nat /\ DOMAIN events = 1 .. n /\ \A i \in 1 .. n : events[i] \in Events
  OBVIOUS
<1>2. IsProcessed(cache, events, failed, g)
  BY ProcessedExists
<1> HIDE DEF g, n
<1>3. {} \in G
  <2>1. g[{}] = cache
    BY <1>2 DEF IsProcessed
  <2> QED
    BY <2>1
<1>4. ASSUME NEW s \in SUBSET (1 .. n), s # {}, s \ {Max(s)} \in G PROVE s \in G
  <2>1. Max(s) \in s /\ \A x \in s : Max(s) >= x
    BY <1>1, <1>4, LastIsIn
  <2>2. PICK m \in s : m = Max(s)
    BY <2>1
  <2>3. PICK c : c = g[s \ {m}]
    OBVIOUS
  <2>4. g[s] = ProcessedNext(c, events[m], failed)
    BY <1>1, <1>2, <1>4, <2>2, <2>3 DEF IsProcessed
  <2>5. c \in Caches /\ Good(c, s \ {m})
    BY <1>4, <2>2, <2>3
  <2>6. PICK e \in Events : e = events[m] /\ e \in ToSet(events)
    BY <1>1 DEF ToSet
  <2>7. m \in 1 .. n /\ \A j \in s \ {m} : j < m /\ j \in 1 .. n
    BY <1>1, <2>1, <2>2
  <2>8. CASE e \in failed
    <3>1. \A i : Of(i, s) = Of(i, s \ {m})
      BY <2>6, <2>8
    <3>2. g[s] = c
      BY <2>4, <2>6, <2>8 DEF ProcessedNext
    <3> QED
      BY <2>5, <3>1, <3>2
  <2>9. CASE e \notin failed
    <3>1. g[s] = Cached(c, e)
      BY <2>4, <2>6, <2>9 DEF ProcessedNext
    <3>2. Cached(c, e) \in Caches
          /\ \A i \in MessageIds : Cached(c, e)[i] = IF i = e.id THEN Append(c[i], e) ELSE c[i]
      BY <2>5, <2>6, CachedIs
    <3>3. ASSUME NEW i \in MessageIds
          PROVE  InOrder(Cached(c, e)[i]) /\ ToSet(Cached(c, e)[i]) = ToSet(cache[i]) \cup Of(i, s)
      <4>0. c[i] \in Seq(Events) /\ InOrder(c[i]) /\ ToSet(c[i]) = ToSet(cache[i]) \cup Of(i, s \ {m})
        BY <2>5 DEF Caches
      <4>1. CASE i = e.id
        <5>1. ASSUME NEW f \in ToSet(c[i]) PROVE Precedes(f, e)
          <6>1. CASE f \in ToSet(cache[i])
            BY <2>6, <6>1
          <6>2. CASE f \in Of(i, s \ {m})
            <7>1. PICK j \in s \ {m} : f = events[j]
              BY <6>2
            <7> QED
              BY <1>1, <2>6, <2>7, <7>1 DEF InOrder
          <6> QED
            BY <4>0, <5>1, <6>1, <6>2
        <5>2. PICK l : l = c[i]
          OBVIOUS
        <5>3. InOrder(Append(l, e)) /\ ToSet(Append(l, e)) = ToSet(l) \cup {e}
          BY <2>6, <4>0, <5>1, <5>2, InOrderAppend
        <5>4. Of(i, s) = Of(i, s \ {m}) \cup {e}
          BY <2>6, <2>9, <4>1
        <5> QED
          BY <3>2, <4>0, <4>1, <5>2, <5>3, <5>4
      <4>2. CASE i # e.id
        <5>1. Of(i, s) = Of(i, s \ {m})
          BY <2>6, <4>2
        <5> QED
          BY <3>2, <4>0, <4>2, <5>1
      <4> QED
        BY <4>1, <4>2
    <3> QED
      BY <3>1, <3>2, <3>3
  <2> QED
    BY <2>8, <2>9
<1>5. \A s \in SUBSET (1 .. n) : s \in G
  <2> HIDE DEF G
  <2>1. G \in SUBSET (SUBSET (1 .. n))
    BY DEF G
  <2> QED
    BY <1>1, <1>3, <1>4, <2>1, LastInduction
<1>6. g[1 .. n] \in Caches /\ Good(g[1 .. n], 1 .. n)
  BY <1>5
<1>7. \A i : Of(i, 1 .. n) = {e \in ToSet(events) \ failed : e.id = i}
  BY <1>1 DEF ToSet
<1>8. Processed(cache, events, failed) = g[1 .. n]
  BY <1>1, ProcessedIs DEF g
<1> QED
  BY <1>6, <1>7, <1>8

-----------------------------------------------------------------------------
(* Polls.                                                                  *)

\* What is known between polls: the log is in order and has nothing ahead of the node, the
\* cache has nothing of the window that comes next, and that window begins behind the node's
\* latest ledger or where the poller began.
PollerInv ==
    /\ latest \in Nat /\ startLedger \in Nat /\ lastPolledLedger \in Nat
    /\ log \in Seq(Events) /\ InOrder(log)
    /\ \A e \in ToSet(log) : e.ledger <= latest
    /\ attemptCache \in Caches
    /\ \A i \in MessageIds : \A e \in ToSet(attemptCache[i]) : e.ledger < lastPolledLedger
    /\ lastPolledLedger <= latest \/ lastPolledLedger = startLedger
    /\ AttemptsExact

\* What a poll from a ledger leaves behind.
Polled(from, begun) ==
    /\ lastPolledLedger' \in Nat /\ attemptCache' \in Caches
    /\ \A i \in MessageIds :
          InOrder(attemptCache'[i]) /\ \A e \in ToSet(attemptCache'[i]) : e.ledger < lastPolledLedger'
    /\ lastPolledLedger' <= latest \/ lastPolledLedger' = begun
    /\ \A e \in ToSet(log) :
          begun <= e.ledger /\ e.ledger < lastPolledLedger'
          => e \in gone' \/ e \in ToSet(attemptCache'[e.id])

\* A cache of what came before some ledger, and what it lacks of it.
Holds(cache, lost, begun, from) ==
    /\ cache \in Caches
    /\ \A i \in MessageIds : InOrder(cache[i]) /\ \A e \in ToSet(cache[i]) : e.ledger < from
    /\ \A e \in ToSet(log) :
          begun <= e.ledger /\ e.ledger < from => e \in lost \/ e \in ToSet(cache[e.id])

\* pollForEvents: the window begins where the last one ended.
LEMMA PollKeeps ==
    ASSUME latest \in Nat, log \in Seq(Events), InOrder(log),
           NEW begun \in Nat, NEW from \in Nat, from <= latest \/ from = begun,
           NEW to \in 1 .. latest, NEW cache, NEW lost, NEW failed, Holds(cache, lost, begun, from),
           PollForEvents(from, to, cache, lost, failed)
    PROVE  Polled(from, begun)
<1>1. CASE NothingNew(from, to)
  <2>1. lastPolledLedger' = from /\ attemptCache' = cache /\ gone' = lost
    BY <1>1 DEF PollForEvents
  <2> QED
    BY <2>1 DEF Holds, Polled
<1>2. CASE ~NothingNew(from, to)
  <2>1. PICK events : events = GetEvents(from, to)
    OBVIOUS
  <2>2. /\ lastPolledLedger' = to
        /\ attemptCache' = Processed(cache, events, failed)
        /\ gone' = lost \cup failed \cup (ToSet(Window(from, to)) \ ToSet(events))
    BY <1>2, <2>1 DEF PollForEvents, Advanced
  <2>3. to \in Nat /\ to <= latest /\ from < to
    BY <1>2 DEF NothingNew
  <2>4. ToSet(Window(from, to)) = {e \in ToSet(log) : InWindow(e, from, to)}
    BY WindowExact
  <2>5. events \in Seq(Events) /\ InOrder(events) /\ ToSet(events) \subseteq ToSet(Window(from, to))
    BY <2>1, PageExact
  <2>6. \A e \in ToSet(log) : e \in Events
    BY DEF ToSet
  <2>7. \A e \in ToSet(events) : e \in Events /\ from <= e.ledger /\ e.ledger < to
    BY <2>4, <2>5, <2>6 DEF InWindow
  <2>8. ASSUME NEW i \in MessageIds, NEW f \in ToSet(cache[i]), NEW e \in ToSet(events)
        PROVE  Precedes(f, e)
    <3>1. cache[i] \in Seq(Events)
      BY DEF Holds, Caches
    <3>2. f \in Events /\ f.ledger < from
      BY <3>1 DEF ToSet, Holds
    <3>3. f.ledger \in Nat /\ e.ledger \in Nat
      BY <2>7, <3>2 DEF Events
    <3>4. f.ledger < e.ledger
      BY <2>7, <3>2, <3>3
    <3> QED
      BY <3>4 DEF Precedes
  <2>9. PICK c : c = Processed(cache, events, failed)
    OBVIOUS
  <2>10. /\ c \in Caches
         /\ \A i \in MessageIds :
               /\ InOrder(c[i])
               /\ ToSet(c[i]) = ToSet(cache[i]) \cup {e \in ToSet(events) \ failed : e.id = i}
    BY <2>5, <2>8, <2>9, ProcessedExact DEF Holds
  <2>11. ASSUME NEW i \in MessageIds, NEW e \in ToSet(c[i]) PROVE e.ledger < to
    <3>1. CASE e \in ToSet(cache[i])
      <4>1. cache[i] \in Seq(Events)
        BY DEF Holds, Caches
      <4>2. e \in Events /\ e.ledger < from
        BY <3>1, <4>1 DEF ToSet, Holds
      <4>3. e.ledger \in Nat
        BY <4>2 DEF Events
      <4> QED
        BY <2>3, <4>2, <4>3
    <3>2. CASE e \in ToSet(events)
      BY <2>7, <3>2
    <3> QED
      BY <2>10, <2>11, <3>1, <3>2
  <2>12. ASSUME NEW e \in ToSet(log), begun <= e.ledger, e.ledger < to
         PROVE  e \in gone' \/ e \in ToSet(c[e.id])
    <3>1. e \in Events /\ e.id \in MessageIds /\ e.ledger \in Nat
      BY <2>6 DEF Events
    <3>2. CASE e.ledger < from
      <4>1. e \in lost \/ e \in ToSet(cache[e.id])
        BY <2>12, <3>2 DEF Holds
      <4> QED
        BY <2>2, <2>10, <3>1, <4>1
    <3>3. CASE ~(e.ledger < from)
      <4>1. e \in ToSet(Window(from, to))
        BY <2>4, <2>12, <3>1, <3>3 DEF InWindow
      <4> QED
        BY <2>2, <2>10, <3>1, <4>1
    <3> QED
      BY <3>2, <3>3
  <2> QED
    BY <2>2, <2>3, <2>9, <2>10, <2>11, <2>12 DEF Polled
<1> QED
  BY <1>1, <1>2

\* The listed events are those contained.
LEMMA ContainsIs == ASSUME NEW l \in Seq(Events), NEW e PROVE Contains(l, e) <=> e \in ToSet(l)
BY DEF Contains, ToSet

\* What a list of events lists.
LEMMA ListedEvent ==
    ASSUME NEW l \in Seq(Events), NEW e \in ToSet(l)
    PROVE  e \in Events /\ e.ledger \in Nat /\ e.id \in MessageIds
<1>1. PICK k \in DOMAIN l : e = l[k]
  BY DEF ToSet
<1>2. e \in Events
  BY <1>1
<1> QED
  BY <1>2 DEF Events

\* A poll leaves the invariant behind.
LEMMA PolledKeeps ==
    ASSUME PollerInv, UNCHANGED <<latest, log>>, startLedger' \in Nat,
           NEW from, Polled(from, startLedger')
    PROVE  PollerInv'
<1>1. attemptCache' \in Caches
  BY DEF Polled
<1>2. \A e \in ToSet(log) : e.id \in MessageIds
  BY ListedEvent DEF PollerInv
<1>3. NoneMissed'
  <2> SUFFICES ASSUME NEW e \in ToSet(log), startLedger' <= e.ledger, e.ledger < lastPolledLedger'
               PROVE  e \in gone' \/ Contains(attemptCache'[e.id], e)
    BY DEF NoneMissed
  <2>1. e \in gone' \/ e \in ToSet(attemptCache'[e.id])
    BY DEF Polled
  <2>2. attemptCache'[e.id] \in Seq(Events)
    BY <1>1, <1>2 DEF Caches
  <2> QED
    BY <2>1, <2>2, ContainsIs
<1>4. AttemptsOnce'
  BY DEF AttemptsOnce, Polled
<1>5. lastPolledLedger' \in Nat /\ (lastPolledLedger' <= latest' \/ lastPolledLedger' = startLedger')
  BY DEF Polled
<1>6. \A i \in MessageIds : \A e \in ToSet(attemptCache'[i]) : e.ledger < lastPolledLedger'
  BY DEF Polled
<1>7. /\ latest' \in Nat /\ log' \in Seq(Events) /\ InOrder(log')
      /\ \A e \in ToSet(log') : e.ledger <= latest'
  BY DEF PollerInv
<1> QED
  BY <1>1, <1>3, <1>4, <1>5, <1>6, <1>7 DEF PollerInv, AttemptsExact

\* Nothing polled yet.
LEMMA EmptyHolds ==
    ASSUME log \in Seq(Events), NEW from \in Nat, NEW lost PROVE Holds(NoAttempts, lost, from, from)
<1>1. NoAttempts \in Caches /\ \A i \in MessageIds : NoAttempts[i] = <<>>
  BY DEF NoAttempts, Caches
<1>2. \A i \in MessageIds : InOrder(NoAttempts[i]) /\ ToSet(NoAttempts[i]) = {}
  BY <1>1, EmptyInOrder
<1>3. \A e \in ToSet(log) : e.ledger \in Nat
  BY ListedEvent
<1>4. \A e \in ToSet(log) : ~(from <= e.ledger /\ e.ledger < from)
  BY <1>3
<1> QED
  BY <1>1, <1>2, <1>4 DEF Holds

\* Start, with a backfill that works and with one that fails.
LEMMA StartKeeps ==
    ASSUME PollerInv, NEW to \in 1 .. latest, NEW failed, Start(to, failed) PROVE PollerInv'
<1>1. latest \in Nat /\ log \in Seq(Events) /\ InOrder(log)
  BY DEF PollerInv
<1>2. PICK begun \in Nat : begun = GetStartLedger
  <2>1. MinLedger \in Nat /\ Lookback \in Nat
    BY PollerAssumption
  <2>2. CASE Lookback >= latest
    BY <2>1, <2>2 DEF GetStartLedger
  <2>3. CASE ~(Lookback >= latest)
    <3>1. latest - Lookback \in Nat
      BY <1>1, <2>1, <2>3
    <3> QED
      BY <2>1, <3>1 DEF GetStartLedger
  <2> QED
    BY <2>2, <2>3
<1>3. startLedger' = begun /\ UNCHANGED <<latest, log>>
  BY <1>2 DEF Start
<1>4. Holds(NoAttempts, {}, begun, begun)
  BY <1>1, <1>2, EmptyHolds
<1>5. Polled(begun, begun)
  <2>1. CASE PollForEvents(GetStartLedger, to, NoAttempts, {}, failed)
    BY <1>1, <1>2, <1>4, <2>1, PollKeeps
  <2>2. CASE lastPolledLedger' = GetStartLedger /\ attemptCache' = NoAttempts /\ gone' = {}
    BY <1>2, <1>4, <2>2 DEF Holds, Polled
  <2> QED
    BY <2>1, <2>2 DEF Start
<1> QED
  BY <1>2, <1>3, <1>5, PolledKeeps

\* A tick of runPolling.
LEMMA TickKeeps ==
    ASSUME PollerInv, NEW to \in 1 .. latest, NEW failed, Poll(to, failed) PROVE PollerInv'
<1>1. /\ latest \in Nat /\ log \in Seq(Events) /\ InOrder(log) /\ running
      /\ startLedger \in Nat /\ lastPolledLedger \in Nat
      /\ lastPolledLedger <= latest \/ lastPolledLedger = startLedger
      /\ attemptCache \in Caches
  BY DEF PollerInv, Poll
<1>2. \A e \in ToSet(log) : e.id \in MessageIds
  BY <1>1, ListedEvent
<1>3. ASSUME NEW e \in ToSet(log), startLedger <= e.ledger, e.ledger < lastPolledLedger
      PROVE  e \in gone \/ e \in ToSet(attemptCache[e.id])
  <2>1. e \in gone \/ Contains(attemptCache[e.id], e)
    BY <1>1, <1>3 DEF PollerInv, AttemptsExact, NoneMissed
  <2>2. attemptCache[e.id] \in Seq(Events)
    BY <1>1, <1>2 DEF Caches
  <2> QED
    BY <2>1, <2>2, ContainsIs
<1>4. Holds(attemptCache, gone, startLedger, lastPolledLedger)
  BY <1>1, <1>3 DEF Holds, PollerInv, AttemptsExact, AttemptsOnce
<1>5. UNCHANGED <<latest, log, startLedger>>
  BY DEF Poll
<1>6. Polled(lastPolledLedger, startLedger)
  BY <1>1, <1>4, PollKeeps DEF Poll
<1> QED
  BY <1>1, <1>5, <1>6, PolledKeeps

\* A ledger closes: its events come after all others, and after the next window's beginning.
LEMMA LedgerKeeps ==
    ASSUME PollerInv, NEW n \in Nat, NEW ids \in [1 .. n -> MessageIds], CloseLedger(ids)
    PROVE  PollerInv'
<1>1. /\ latest \in Nat /\ log \in Seq(Events) /\ InOrder(log)
      /\ startLedger \in Nat /\ lastPolledLedger \in Nat
      /\ lastPolledLedger <= latest \/ lastPolledLedger = startLedger
      /\ \A e \in ToSet(log) : e.ledger <= latest
  BY DEF PollerInv
<1>2. PICK new : new = [k \in 1 .. n |-> [ledger |-> latest + 1, nth |-> k, id |-> ids[k]]]
  OBVIOUS
<1>3. \A k \in 1 .. n : new[k] \in Events /\ new[k].ledger = latest + 1 /\ new[k].nth = k
  BY <1>1, <1>2 DEF Events
<1>4. new \in Seq(Events) /\ Len(new) = n /\ DOMAIN new = 1 .. n
  BY <1>2, <1>3
<1>5. log' = log \o new /\ latest' = latest + 1
  BY <1>2 DEF CloseLedger
<1>6. UNCHANGED <<running, startLedger, lastPolledLedger, attemptCache, gone>>
  BY DEF CloseLedger
<1>7. PICK m \in Nat : m = Len(log) /\ DOMAIN log = 1 .. m
  BY <1>1
<1>8. PICK all : all = log \o new
  OBVIOUS
<1>9. /\ all \in Seq(Events) /\ DOMAIN all = 1 .. (m + n)
      /\ \A i \in 1 .. (m + n) : all[i] = IF i <= m THEN log[i] ELSE new[i - m]
  <2>1. /\ log \o new \in Seq(Events) /\ Len(log \o new) = Len(log) + Len(new)
        /\ \A i \in 1 .. Len(log) + Len(new) :
              (log \o new)[i] = IF i <= Len(log) THEN log[i] ELSE new[i - Len(log)]
    BY <1>1, <1>4, ConcatProperties
  <2> QED
    BY <1>4, <1>7, <1>8, <2>1
<1>10. ASSUME NEW i \in 1 .. m PROVE i \in 1 .. (m + n) /\ all[i] = log[i] /\ all[i].ledger <= latest
                                     /\ all[i].ledger \in Nat
  <2>1. i \in 1 .. (m + n) /\ i <= m
    BY <1>7
  <2>2. log[i] \in ToSet(log) /\ log[i] \in Events
    BY <1>1, <1>7 DEF ToSet
  <2> QED
    BY <1>1, <1>9, <2>1, <2>2 DEF Events
<1>11. ASSUME NEW i \in 1 .. (m + n), i > m PROVE all[i].ledger = latest + 1 /\ all[i].nth = i - m
  <2>1. i - m \in 1 .. n /\ ~(i <= m)
    BY <1>7, <1>11
  <2> QED
    BY <1>3, <1>9, <2>1
<1>12. InOrder(all)
  <2> SUFFICES ASSUME NEW i \in 1 .. (m + n), NEW j \in 1 .. (m + n), i < j
               PROVE  Precedes(all[i], all[j])
    BY <1>9 DEF InOrder
  <2>1. CASE j <= m
    <3>1. i \in 1 .. m /\ j \in 1 .. m
      BY <1>7, <2>1
    <3>2. Precedes(log[i], log[j])
      BY <1>1, <1>7, <3>1 DEF InOrder
    <3> QED
      BY <1>10, <3>1, <3>2
  <2>2. CASE i <= m /\ j > m
    <3>1. i \in 1 .. m
      BY <1>7, <2>2
    <3>2. all[i].ledger < all[j].ledger
      BY <1>1, <1>10, <1>11, <2>2, <3>1
    <3> QED
      BY <3>2 DEF Precedes
  <2>3. CASE i > m /\ j > m
    <3>1. all[i].ledger = all[j].ledger /\ all[i].nth = i - m /\ all[j].nth = j - m
      BY <1>11, <2>3
    <3>2. i - m < j - m
      BY <1>7
    <3> QED
      BY <3>1, <3>2 DEF Precedes
  <2> QED
    BY <1>7, <2>1, <2>2, <2>3
<1>13. ASSUME NEW e \in ToSet(all) PROVE e \in ToSet(log) \/ e.ledger = latest + 1
  <2>1. PICK i \in 1 .. (m + n) : e = all[i]
    BY <1>9 DEF ToSet
  <2>2. CASE i <= m
    <3>1. i \in 1 .. m
      BY <1>7, <2>2
    <3> QED
      BY <1>7, <1>10, <2>1, <3>1 DEF ToSet
  <2>3. CASE i > m
    BY <1>11, <2>1, <2>3
  <2> QED
    BY <1>7, <2>2, <2>3
<1>14. \A e \in ToSet(all) : e.ledger <= latest + 1
  <2> SUFFICES ASSUME NEW e \in ToSet(all) PROVE e.ledger <= latest + 1
    OBVIOUS
  <2>1. e.ledger \in Nat
    BY <1>9, ListedEvent
  <2> QED
    BY <1>1, <1>13, <2>1
<1>15. NoneMissed'
  <2> SUFFICES ASSUME running, NEW e \in ToSet(all),
                      startLedger <= e.ledger, e.ledger < lastPolledLedger
               PROVE  e \in gone \/ Contains(attemptCache[e.id], e)
    BY <1>5, <1>6, <1>8 DEF NoneMissed
  <2>1. e \in ToSet(log)
    BY <1>1, <1>13
  <2> QED
    BY <2>1 DEF PollerInv, AttemptsExact, NoneMissed
<1>16. AttemptsOnce'
  BY <1>6 DEF PollerInv, AttemptsExact, AttemptsOnce
<1>17. lastPolledLedger <= latest + 1 \/ lastPolledLedger = startLedger
  BY <1>1
<1>18. latest + 1 \in Nat
  BY <1>1
<1> QED
  BY <1>1, <1>5, <1>6, <1>8, <1>9, <1>12, <1>14, <1>15, <1>16, <1>17, <1>18 DEF PollerInv, AttemptsExact

\* An entry expires: what it held is gone.
LEMMA ExpireKeeps ==
    ASSUME PollerInv, NEW i \in MessageIds, Expire(i) PROVE PollerInv'
<1>1. attemptCache \in Caches /\ log \in Seq(Events)
  BY DEF PollerInv
<1>2. PICK none : none = <<>>
  OBVIOUS
<1>3. none \in Seq(Events) /\ InOrder(none) /\ ToSet(none) = {}
  BY <1>2, EmptyInOrder
<1>4. attemptCache' = [attemptCache EXCEPT ![i] = none] /\ gone' = gone \cup ToSet(attemptCache[i])
  BY <1>2 DEF Expire
<1>5. UNCHANGED <<latest, log, running, startLedger, lastPolledLedger>>
  BY DEF Expire
<1>6. /\ attemptCache' \in Caches
      /\ \A k \in MessageIds : attemptCache'[k] = IF k = i THEN none ELSE attemptCache[k]
  BY <1>1, <1>3, <1>4 DEF Caches
<1>7. \A k \in MessageIds : InOrder(attemptCache'[k])
  BY <1>3, <1>6 DEF PollerInv, AttemptsExact, AttemptsOnce
<1>8. \A k \in MessageIds : \A e \in ToSet(attemptCache'[k]) : e.ledger < lastPolledLedger
  BY <1>3, <1>6 DEF PollerInv
<1>9. NoneMissed'
  <2> SUFFICES ASSUME running, NEW e \in ToSet(log),
                      startLedger <= e.ledger, e.ledger < lastPolledLedger
               PROVE  e \in gone' \/ Contains(attemptCache'[e.id], e)
    BY <1>5 DEF NoneMissed
  <2>1. e \in gone \/ Contains(attemptCache[e.id], e)
    BY DEF PollerInv, AttemptsExact, NoneMissed
  <2>2. e.id \in MessageIds
    BY <1>1, ListedEvent
  <2>3. CASE e.id = i
    <3>1. attemptCache[i] \in Seq(Events)
      BY <1>1 DEF Caches
    <3> QED
      BY <1>4, <2>1, <2>3, <3>1, ContainsIs
  <2>4. CASE e.id # i
    BY <1>4, <1>6, <2>1, <2>2, <2>4
  <2> QED
    BY <2>3, <2>4
<1> QED
  BY <1>5, <1>6, <1>7, <1>8, <1>9 DEF PollerInv, AttemptsExact, AttemptsOnce

\* The invariant of the poller, whatever the node answers, fails and forgets.
THEOREM PollerInvariant == PollerSpec => []PollerInv
<1>1. PollerInit => PollerInv
  <2> SUFFICES ASSUME PollerInit PROVE PollerInv
    OBVIOUS
  <2>1. PICK none : none = <<>>
    OBVIOUS
  <2>2. none \in Seq(Events) /\ InOrder(none) /\ ToSet(none) = {}
    BY <2>1, EmptyInOrder
  <2>3. log = none /\ attemptCache = NoAttempts /\ ~running /\ startLedger = 0 /\ lastPolledLedger = 0
    BY <2>1 DEF PollerInit
  <2>4. latest \in Nat
    BY PollerAssumption DEF PollerInit
  <2>5. Holds(NoAttempts, {}, 0, 0)
    BY <2>2, <2>3, EmptyHolds
  <2> QED
    BY <2>2, <2>3, <2>4, <2>5 DEF PollerInv, Holds, AttemptsExact, NoneMissed, AttemptsOnce
<1>2. PollerInv /\ [PollerNext]_pollerVars => PollerInv'
  <2> SUFFICES ASSUME PollerInv, [PollerNext]_pollerVars PROVE PollerInv'
    OBVIOUS
  <2>1. ASSUME NEW n \in 0 .. MaxPerLedger, NEW ids \in [1 .. n -> MessageIds], CloseLedger(ids)
        PROVE  PollerInv'
    <3>1. n \in Nat
      BY PollerAssumption
    <3> QED
      BY <2>1, <3>1, LedgerKeeps
  <2>2. ASSUME NEW to \in 1 .. latest, NEW failed, Start(to, failed) \/ Poll(to, failed)
        PROVE  PollerInv'
    BY <2>2, StartKeeps, TickKeeps
  <2>3. CASE Close
    BY <2>3 DEF Close, PollerInv, AttemptsExact, NoneMissed, AttemptsOnce
  <2>4. ASSUME NEW i \in MessageIds, Expire(i) PROVE PollerInv'
    BY <2>4, ExpireKeeps
  <2>5. CASE UNCHANGED pollerVars
    BY <2>5 DEF pollerVars, PollerInv, AttemptsExact, NoneMissed, AttemptsOnce
  <2> QED
    BY <2>1, <2>2, <2>3, <2>4, <2>5 DEF PollerNext
<1> QED
  BY <1>1, <1>2, PTL DEF PollerSpec

\* Whatever polls fail, nodes lag, entries expire and pollers are started anew, no event of
\* a ledger that was polled is unaccounted for and no attempt is listed twice or out of order
\* (pollForEvents, Start).
THEOREM AttemptsAreExact == PollerSpec => []AttemptsExact
<1>1. PollerInv => AttemptsExact
  BY DEF PollerInv
<1> QED
  BY <1>1, PollerInvariant, PTL

-----------------------------------------------------------------------------
(* Bindings.                                                               *)

\* Half of a word is less than the word.
LEMMA HalfWord ==
    /\ Word \in Int /\ Word > 0
    /\ Word \div 2 \in Int /\ 0 <= Word \div 2 /\ Word \div 2 < Word
BY WordAssumption

\* Quotient and remainder put a number together.
LEMMA Reduced ==
    ASSUME NEW n \in Int
    PROVE  n % Word \in 0 .. Word - 1 /\ n \div Word \in Int /\ n = (n \div Word) * Word + (n % Word)
BY WordAssumption, Z3

\* A number below the word is its own remainder.
LEMMA ReducedOnce ==
    ASSUME NEW n \in Int, 0 <= n, n < Word PROVE n % Word = n /\ n \div Word = 0
BY HalfWord, Reduced, Z3

\* A negative one is off by one word.
LEMMA ReducedBelow ==
    ASSUME NEW n \in Int, -Word <= n, n < 0 PROVE n % Word = n + Word /\ n \div Word = -1
BY HalfWord, Reduced, Z3

\* The kinds of nodes, one by one, and how both sides write and read what stands there.
\* A leaf travels as it is.
LEMMA LeafCarried ==
    ASSUME NEW node, node.k \in Leaves, NEW x, x \in [at : Seq(STRING), len : Nat],
           node.k = "bytesN" => x.len = node.n
    PROVE  LET w == [arm |-> Arm(node), v |-> x] IN
           /\ ToScValAt(node, x) = w /\ SdkToScValAt(node, x) = w
           /\ SdkDecodesAt(node, w) /\ SdkFromScValAt(node, w) = x
           /\ DecodesAt(node, w) /\ FromScValAt(node, w) = x
<1>1. x # Nil
  BY DEF Nil
<1>2. Arm(node) # "void" /\ node.k # "void"
  BY DEF Arm, Leaves
<1>3. node.k \notin {"i128", "vec", "tuple", "struct", "codes", "union"}
  BY DEF Leaves
<1> DEFINE w == [arm |-> Arm(node), v |-> x]
<1>4. ToScValAt(node, x) = w /\ SdkToScValAt(node, x) = w
  BY <1>1, <1>3 DEF ToScValAt, SdkToScValAt
<1>5. SdkDecodesAt(node, w) /\ DecodesAt(node, w)
  BY DEF SdkDecodesAt, DecodesAt
<1>6. SdkFromScValAt(node, w) = x /\ FromScValAt(node, w) = x
  BY <1>2, <1>3 DEF SdkFromScValAt, FromScValAt
<1> QED
  BY <1>4, <1>5, <1>6

\* An option without a value.
LEMMA NilCarried ==
    ASSUME NEW node, node.opt \/ node.k = "void"
    PROVE  LET w == VoidScVal IN
           /\ ToScValAt(node, Nil) = w /\ SdkToScValAt(node, Nil) = w
           /\ SdkDecodesAt(node, w) /\ SdkFromScValAt(node, w) = Nil
           /\ DecodesAt(node, w) /\ FromScValAt(node, w) = Nil
BY DEF VoidScVal, SdkDecodesAt, ToScValAt, SdkFromScValAt, SdkToScValAt, DecodesAt, FromScValAt

\* A vector or a tuple, by its length.
LEMMA ListCarried ==
    ASSUME NEW node, NEW n,
           node.k = "vec" \/ (node.k = "tuple" /\ n = node.n)
    PROVE  LET w == VecToScVal(n) x == [len |-> n] IN
           /\ ToScValAt(node, x) = w /\ SdkToScValAt(node, x) = w
           /\ SdkDecodesAt(node, w) /\ SdkFromScValAt(node, w) = x
           /\ DecodesAt(node, w) /\ FromScValAt(node, w) = x
<1>1. [len |-> n] # Nil
  BY DEF Nil
<1>2. node.k \notin Leaves
  BY DEF Leaves
<1> QED
  BY <1>1, <1>2 DEF VecToScVal, SdkDecodesAt, ToScValAt, SdkFromScValAt, SdkToScValAt, DecodesAt,
     FromScValAt

\* A struct, by the sorted names of its fields.
LEMMA StructCarried ==
    ASSUME NEW node, node.k = "struct"
    PROVE  LET w == BuildStructScVal(node.names) IN
           /\ ToScValAt(node, Here) = w /\ SdkToScValAt(node, Here) = w
           /\ SdkDecodesAt(node, w) /\ SdkFromScValAt(node, w) = Here
           /\ DecodesAt(node, w) /\ FromScValAt(node, w) = Here
<1>1. Here # Nil
  BY DEF Nil, Here
<1>2. node.k \notin Leaves
  BY DEF Leaves
<1> QED
  BY <1>1, <1>2 DEF BuildStructScVal, SdkDecodesAt, ToScValAt, SdkFromScValAt, SdkToScValAt,
     DecodesAt, FromScValAt

\* An enum by number.
LEMMA CodeCarried ==
    ASSUME NEW node, node.k = "codes", NEW c \in DOMAIN node.of
    PROVE  LET x == [code |-> node.of[c]] w == [arm |-> "u32", v |-> x] IN
           /\ ToScValAt(node, x) = w /\ SdkToScValAt(node, x) = w
           /\ SdkDecodesAt(node, w) /\ SdkFromScValAt(node, w) = x
           /\ DecodesAt(node, w) /\ FromScValAt(node, w) = x
<1>1. [code |-> node.of[c]] # Nil
  BY DEF Nil
<1>2. node.k \notin Leaves
  BY DEF Leaves
<1> QED
  BY <1>1, <1>2 DEF SdkDecodesAt, ToScValAt, SdkFromScValAt, SdkToScValAt, DecodesAt, FromScValAt

\* An enum by name, with the items the variant has.
LEMMA VariantCarried ==
    ASSUME NEW node, node.k = "union", NEW c \in DOMAIN node.arity
    PROVE  LET x == [variant |-> c] w == UnionToScVal(node, c) IN
           /\ ToScValAt(node, x) = w /\ SdkToScValAt(node, x) = w
           /\ SdkDecodesAt(node, w) /\ SdkFromScValAt(node, w) = x
           /\ DecodesAt(node, w) /\ FromScValAt(node, w) = x
<1>1. [variant |-> c] # Nil
  BY DEF Nil
<1>2. node.k \notin Leaves
  BY DEF Leaves
<1> QED
  BY <1>1, <1>2 DEF UnionToScVal, Variant, SdkDecodesAt, ToScValAt, SdkFromScValAt, SdkToScValAt,
     DecodesAt, FromScValAt

\* A number is two halves, of which the upper one has the sign: both sides split an int64
\* alike, and each puts together what the other split.
LEMMA NumberCarried ==
    ASSUME NEW node, node.k = "i128", NEW x, NEW Ints \in SUBSET Int,
           x \in [at : Seq(STRING), n : Ints]
    PROVE  LET w == SdkToScValAt(node, x) IN
           /\ w = [arm |-> "i128", at |-> x.at, hi |-> x.n \div Word, lo |-> x.n % Word]
           /\ SdkDecodesAt(node, w) /\ SdkFromScValAt(node, w) = x
           /\ DecodesAt(node, w) /\ w.arm # "void"
           /\ x.n \in Int64 => ToScValAt(node, x) = w /\ FromScValAt(node, w) = x
<1> DEFINE w == SdkToScValAt(node, x)
<1>1. x # Nil
  BY DEF Nil
<1>2. node.k \notin Leaves
  BY DEF Leaves
<1>3. w = [arm |-> "i128", at |-> x.at, hi |-> x.n \div Word, lo |-> x.n % Word]
  BY <1>1, <1>2 DEF SdkToScValAt
<1>4. x = [at |-> x.at, n |-> x.n] /\ x.n \in Int
  OBVIOUS
<1>5. SdkFromScValAt(node, w) = [at |-> w.at, n |-> w.hi * Word + w.lo]
  BY <1>2, <1>3 DEF SdkFromScValAt, Leaves
<1>6. SdkFromScValAt(node, w) = x
  BY <1>3, <1>4, <1>5, Reduced
<1>7. ASSUME x.n \in Int64 PROVE ToScValAt(node, x) = w /\ FromScValAt(node, w) = x
  <2>1. ToScValAt(node, x) =
          [arm |-> "i128", at |-> x.at, hi |-> IF x.n < 0 THEN -1 ELSE 0, lo |-> x.n % Word]
    BY <1>1, <1>2 DEF ToScValAt, I128ToScVal
  <2>2. FromScValAt(node, w) =
          [at |-> w.at, n |-> IF w.lo < Word - Word \div 2 THEN w.lo ELSE w.lo - Word]
    BY <1>2, <1>3 DEF FromScValAt, I128FromScVal, Leaves
  <2>3. CASE x.n < 0
    <3>1. -Word <= x.n
      BY <1>7, <1>4, HalfWord DEF Int64
    <3>2. x.n % Word = x.n + Word /\ x.n \div Word = -1
      BY <1>4, <2>3, <3>1, ReducedBelow
    <3>3. ~ (x.n + Word < Word - Word \div 2)
      BY <1>7, <1>4, HalfWord DEF Int64
    <3> QED
      BY <1>3, <1>4, <2>1, <2>2, <2>3, <3>2, <3>3, HalfWord
  <2>4. CASE ~ x.n < 0
    <3>1. x.n < Word /\ x.n < Word - Word \div 2
      BY <1>7, <1>4, HalfWord DEF Int64
    <3>2. x.n % Word = x.n /\ x.n \div Word = 0
      BY <1>4, <2>4, <3>1, ReducedOnce
    <3> QED
      BY <1>3, <1>4, <2>1, <2>2, <2>4, <3>1, <3>2, HalfWord
  <2> QED
    BY <2>3, <2>4
<1>8. SdkDecodesAt(node, w) /\ DecodesAt(node, w) /\ w.arm # "void"
  BY <1>3 DEF SdkDecodesAt, DecodesAt
<1> QED
  BY <1>3, <1>6, <1>7, <1>8

\* What stands at one place, from the contract to the client: it decodes, and to what it
\* was unless it is a number beyond an int64.
LEMMA PartAnswered ==
    ASSUME NEW node, NEW x, NEW Ints \in SUBSET Int, ValueAt(node, x, Ints)
    PROVE  /\ DecodesAt(node, SdkToScValAt(node, x))
           /\ ("n" \in DOMAIN x => x.n \in Int64) =>
                  FromScValAt(node, SdkToScValAt(node, x)) = x
<1>1. CASE x = Nil /\ (node.opt \/ node.k = "void")
  BY <1>1, NilCarried
<1>2. CASE /\ node.k \in Leaves
           /\ x \in [at : Seq(STRING), len : Nat] /\ (node.k = "bytesN" => x.len = node.n)
  BY <1>2, LeafCarried
<1>3. CASE node.k = "i128" /\ x \in [at : Seq(STRING), n : Ints]
  <2>1. "n" \in DOMAIN x
    BY <1>3
  <2> QED
    BY <1>3, <2>1, NumberCarried
<1>4. CASE node.k = "vec" /\ \E n \in 0 .. Len(Nth) : x = [len |-> n]
  <2>1. PICK n \in 0 .. Len(Nth) : x = [len |-> n]
    BY <1>4
  <2>2. LET w == VecToScVal(n) IN
        /\ ToScValAt(node, [len |-> n]) = w /\ SdkToScValAt(node, [len |-> n]) = w
        /\ SdkDecodesAt(node, w) /\ SdkFromScValAt(node, w) = [len |-> n]
        /\ DecodesAt(node, w) /\ FromScValAt(node, w) = [len |-> n]
    BY <1>4, ListCarried
  <2> QED
    BY <2>1, <2>2
<1>5. CASE node.k = "tuple" /\ x = [len |-> node.n]
  BY <1>5, ListCarried
<1>6. CASE node.k = "struct" /\ x = Here
  BY <1>6, StructCarried
<1>7. CASE node.k = "codes" /\ \E c \in DOMAIN node.of : x = [code |-> node.of[c]]
  BY <1>7, CodeCarried
<1>8. CASE node.k = "union" /\ \E c \in DOMAIN node.arity : x = [variant |-> c]
  BY <1>8, VariantCarried
<1> QED
  BY <1>1, <1>2, <1>3, <1>4, <1>5, <1>6, <1>7, <1>8 DEF ValueAt

\* And from the client to the contract: the client writes what the contract would, and
\* the contract reads what it was.
LEMMA PartHeard ==
    ASSUME NEW node, NEW x, ValueAt(node, x, Int64)
    PROVE  /\ ToScValAt(node, x) = SdkToScValAt(node, x)
           /\ SdkDecodesAt(node, ToScValAt(node, x))
           /\ SdkFromScValAt(node, ToScValAt(node, x)) = x
<1>1. CASE x = Nil /\ (node.opt \/ node.k = "void")
  BY <1>1, NilCarried
<1>2. CASE /\ node.k \in Leaves
           /\ x \in [at : Seq(STRING), len : Nat] /\ (node.k = "bytesN" => x.len = node.n)
  <2>1. LET w == [arm |-> Arm(node), v |-> x] IN
        /\ ToScValAt(node, x) = w /\ SdkToScValAt(node, x) = w
        /\ SdkDecodesAt(node, w) /\ SdkFromScValAt(node, w) = x
    BY <1>2, LeafCarried
  <2> QED
    BY <2>1
<1>3. CASE node.k = "i128" /\ x \in [at : Seq(STRING), n : Int64]
  <2>1. Int64 \in SUBSET Int
    BY HalfWord DEF Int64
  <2>2. x.n \in Int64
    BY <1>3
  <2> QED
    BY <1>3, <2>1, <2>2, NumberCarried
<1>4. CASE node.k = "vec" /\ \E n \in 0 .. Len(Nth) : x = [len |-> n]
  <2>1. PICK n \in 0 .. Len(Nth) : x = [len |-> n]
    BY <1>4
  <2>2. LET w == VecToScVal(n) IN
        /\ ToScValAt(node, [len |-> n]) = w /\ SdkToScValAt(node, [len |-> n]) = w
        /\ SdkDecodesAt(node, w) /\ SdkFromScValAt(node, w) = [len |-> n]
        /\ DecodesAt(node, w) /\ FromScValAt(node, w) = [len |-> n]
    BY <1>4, ListCarried
  <2> QED
    BY <2>1, <2>2
<1>5. CASE node.k = "tuple" /\ x = [len |-> node.n]
  BY <1>5, ListCarried
<1>6. CASE node.k = "struct" /\ x = Here
  BY <1>6, StructCarried
<1>7. CASE node.k = "codes" /\ \E c \in DOMAIN node.of : x = [code |-> node.of[c]]
  BY <1>7, CodeCarried
<1>8. CASE node.k = "union" /\ \E c \in DOMAIN node.arity : x = [variant |-> c]
  BY <1>8, VariantCarried
<1> QED
  BY <1>1, <1>2, <1>3, <1>4, <1>5, <1>6, <1>7, <1>8 DEF ValueAt

\* A value of any type and depth, from the client to the contract: what the client writes
\* is what the contract would have written, the host takes it, and the contract reads the
\* value that was given (getToScValConverter, BuildStructScVal, I128ToScVal).
THEOREM ValueHeard ==
    ASSUME NEW t, NEW v, ValueOf(t, v, Int64)
    PROVE  /\ ToScVal(t, v) = SdkToScVal(t, v)
           /\ SdkDecodes(t, ToScVal(t, v))
           /\ SdkFromScVal(t, ToScVal(t, v)) = v
<1> DEFINE w == ToScVal(t, v)
<1>1. \A p \in DOMAIN v : Typed(t, p) /\ ValueAt(NodeAt(t, p), v[p], Int64)
  BY DEF ValueOf
<1>2. DOMAIN w = DOMAIN v /\ \A p \in DOMAIN v : w[p] = ToScValAt(NodeAt(t, p), v[p])
  BY DEF ToScVal
<1>3. w = SdkToScVal(t, v)
  BY <1>1, PartHeard DEF ToScVal, SdkToScVal
<1> HIDE DEF w
<1>4. SdkDecodes(t, w)
  BY <1>1, <1>2, PartHeard DEF SdkDecodes
<1>5. SdkFromScVal(t, w) = [p \in DOMAIN v |-> v[p]]
  BY <1>1, <1>2, PartHeard DEF SdkFromScVal
<1> QED
  BY <1>3, <1>4, <1>5 DEF ValueOf, w

\* Everything a contract writes with a type has a place in the type.
LEMMA AllKnown ==
    ASSUME NEW t, NEW v, NEW Ints, ValueOf(t, v, Ints)
    PROVE  Known(t, SdkToScVal(t, v)) = DOMAIN v
BY DEF Known, SdkToScVal, ValueOf

\* The range of an i128.
LEMMA Int128IsInt == Int128 \in SUBSET Int
<1>1. Word * Word \in Int /\ (Word * Word) \div 2 \in Int
  BY WordAssumption
<1> QED
  BY <1>1 DEF Int128

\* And from the contract to the client, as an answer and as an event: it decodes, and every
\* part is read as written but i128s beyond an int64 (generateFromScValField,
\* generateEventParser, I128FromScVal).
THEOREM ValueAnswered ==
    ASSUME NEW t, NEW v, ValueOf(t, v, Int128)
    PROVE  /\ Decodes(t, SdkToScVal(t, v))
           /\ Understood(FromScVal(t, SdkToScVal(t, v)), v)
           /\ Understood(EventFromScVal(t, SdkToScVal(t, v)), v)
<1> DEFINE w == SdkToScVal(t, v)
<1>1. \A p \in DOMAIN v : ValueAt(NodeAt(t, p), v[p], Int128)
  BY DEF ValueOf
<1>2. Known(t, w) = DOMAIN v
  BY AllKnown
<1>3. \A p \in DOMAIN v : w[p] = SdkToScValAt(NodeAt(t, p), v[p])
  BY DEF SdkToScVal
<1> HIDE DEF w
<1>4. \A p \in DOMAIN v : DecodesAt(NodeAt(t, p), w[p])
  BY <1>1, <1>3, PartAnswered, Int128IsInt
<1>5. Decodes(t, w)
  BY <1>2, <1>4 DEF Decodes
<1>6. ASSUME NEW p \in DOMAIN v, "n" \in DOMAIN v[p] => v[p].n \in Int64
      PROVE  FromScValAt(NodeAt(t, p), w[p]) = v[p]
  BY <1>1, <1>3, <1>6, PartAnswered, Int128IsInt
<1>7. Understood(FromScVal(t, w), v)
  BY <1>2, <1>6 DEF FromScVal, Understood
<1>8. EventFromScVal(t, w) = [p \in DOMAIN v |-> FromScValAt(NodeAt(t, p), w[p])]
  <2>1. {p \in Known(t, w) : ~DecodesAt(NodeAt(t, p), w[p])} = {}
    BY <1>2, <1>4
  <2> QED
    BY <1>2, <2>1 DEF EventFromScVal
<1>9. Understood(EventFromScVal(t, w), v)
  BY <1>6, <1>8 DEF Understood
<1> QED
  BY <1>5, <1>7, <1>9 DEF w

\* The call under way: a method of the client, arguments of its types, as sent.
CallKept ==
    phase \in {"sent", "running", "answered", "received", "trapped"} =>
        /\ call.contract \in Contracts /\ call.method \in Go[call.contract].methods
        /\ call.given \in Values(call.method.args, Int64)
        /\ call.sent =
              [i \in DOMAIN call.method.args |-> ToScVal(call.method.args[i], call.given[i])]

\* The answer, of the type the client expects, as sent.
AnswerKept ==
    phase \in {"answered", "received"} =>
        /\ ValueOf(call.method.returns, answer.value, Int128)
        /\ answer.sent = SdkToScVal(call.method.returns, answer.value)

\* The event on the ledger, one of the contract's, as sent.
EventKept ==
    phase \in {"published", "seen"} =>
        /\ event.contract \in Contracts /\ event.name \in DOMAIN Rust[event.contract].events
        /\ LET e == Rust[event.contract].events[event.name] IN
           /\ event.topic = e.topic
           /\ ValueOf(e.fields, event.value, Int128)
           /\ event.sent = SdkToScVal(e.fields, event.value)

BindingsInv == CallKept /\ AnswerKept /\ EventKept /\ CallsUnderstood /\ EventsUnderstood

\* The function of a method, from the tables.
LEMMA FunctionKnown ==
    ASSUME NEW c \in Contracts, NEW method \in Go[c].methods
    PROVE  LET f == Rust[c].functions[method.fn] IN
           /\ method.fn \in DOMAIN Rust[c].functions
           /\ method.returns = f.returns
           /\ DOMAIN method.args = DOMAIN f.args
           /\ \A i \in DOMAIN f.args :
                 \/ method.args[i] = f.args[i]
                 \/ /\ method.fn = "get_required_ccvs"
                    /\ NodeAt(method.args[i], <<>>).k = "codes" /\ ~NodeAt(method.args[i], <<>>).opt
                    /\ NodeAt(f.args[i], <<>>).k = "union"
BY TablesAgree DEF FunctionsAgree

\* A number where the contract has a name: the host refuses it.
LEMMA CodeRefused ==
    ASSUME NEW t, NEW v, ValueOf(t, v, Int64), NEW u,
           NodeAt(t, <<>>).k = "codes", ~NodeAt(t, <<>>).opt, NodeAt(u, <<>>).k = "union"
    PROVE  ~SdkDecodes(u, ToScVal(t, v))
<1> DEFINE node == NodeAt(t, <<>>)
           w == ToScVal(t, v)
<1>1. <<>> \in DOMAIN v /\ ValueAt(node, v[<<>>], Int64)
  BY DEF ValueOf
<1>2. DOMAIN w = DOMAIN v /\ w[<<>>] = ToScValAt(node, v[<<>>])
  BY <1>1 DEF ToScVal
<1> HIDE DEF node, w
<1>3. PICK c \in DOMAIN node.of : v[<<>>] = [code |-> node.of[c]]
  BY <1>1 DEF ValueAt, Leaves, node
<1>4. w[<<>>].arm = "u32"
  <2>1. node.k = "codes"
    BY DEF node
  <2>2. ToScValAt(node, [code |-> node.of[c]]) = [arm |-> "u32", v |-> [code |-> node.of[c]]]
    BY <2>1, CodeCarried
  <2>3. w[<<>>] = [arm |-> "u32", v |-> [code |-> node.of[c]]]
    BY <1>2, <1>3, <2>2
  <2> QED
    BY <2>3
<1>5. ~SdkDecodesAt(NodeAt(u, <<>>), w[<<>>])
  BY <1>4 DEF SdkDecodesAt, Variant, Leaves
<1> QED
  BY <1>1, <1>2, <1>5 DEF SdkDecodes, w

\* What the host does with a call: unless it has a number for a name it is heard as given.
LEMMA Dispatched ==
    ASSUME phase = "sent", CallKept
    PROVE  /\ Accepted => [i \in DOMAIN call.sent |->
                              SdkFromScVal(Called.args[i], call.sent[i])] = call.given
           /\ ~Accepted => call.method.fn = "get_required_ccvs"
           /\ Called.returns = call.method.returns
<1> DEFINE c == call.contract
           m == call.method
           f == Rust[c].functions[m.fn]
<1>1. c \in Contracts /\ m \in Go[c].methods /\ call.given \in Values(m.args, Int64)
  BY DEF CallKept
<1>2. /\ DOMAIN call.sent = DOMAIN m.args
      /\ \A i \in DOMAIN m.args : call.sent[i] = ToScVal(m.args[i], call.given[i])
  BY DEF CallKept
<1>3. /\ call.given = [i \in DOMAIN m.args |-> call.given[i]]
      /\ \A i \in DOMAIN m.args : ValueOf(m.args[i], call.given[i], Int64)
  BY <1>1 DEF Values
<1>4. Called = f
  BY DEF Called
<1> HIDE DEF c, m, f
<1>5. /\ m.fn \in DOMAIN Rust[c].functions /\ m.returns = f.returns /\ DOMAIN m.args = DOMAIN f.args
      /\ \A i \in DOMAIN f.args :
            \/ m.args[i] = f.args[i]
            \/ /\ m.fn = "get_required_ccvs"
               /\ NodeAt(m.args[i], <<>>).k = "codes" /\ ~NodeAt(m.args[i], <<>>).opt
               /\ NodeAt(f.args[i], <<>>).k = "union"
  BY <1>1, FunctionKnown DEF f
<1>6. ASSUME NEW i \in DOMAIN f.args, m.args[i] = f.args[i]
      PROVE  /\ SdkDecodes(f.args[i], call.sent[i])
             /\ SdkFromScVal(f.args[i], call.sent[i]) = call.given[i]
  <2>1. i \in DOMAIN m.args /\ ValueOf(m.args[i], call.given[i], Int64)
    BY <1>3, <1>5
  <2>2. /\ SdkDecodes(m.args[i], ToScVal(m.args[i], call.given[i]))
        /\ SdkFromScVal(m.args[i], ToScVal(m.args[i], call.given[i])) = call.given[i]
    BY <2>1, ValueHeard, Zenon
  <2>3. call.sent[i] = ToScVal(m.args[i], call.given[i])
    BY <1>2, <2>1
  <2> QED
    BY <1>6, <2>2, <2>3, Zenon
<1>7. ASSUME Accepted, NEW i \in DOMAIN f.args PROVE m.args[i] = f.args[i]
  <2>1. SdkDecodes(f.args[i], call.sent[i])
    <3>1. i \in DOMAIN call.sent
      BY <1>2, <1>5
    <3> QED
      BY <1>7, <1>4, <3>1, Zenon DEF Accepted
  <2>2. i \in DOMAIN m.args /\ ValueOf(m.args[i], call.given[i], Int64)
    BY <1>3, <1>5
  <2>3. call.sent[i] = ToScVal(m.args[i], call.given[i])
    BY <1>2, <2>2
  <2>4. ASSUME NodeAt(m.args[i], <<>>).k = "codes", ~NodeAt(m.args[i], <<>>).opt,
               NodeAt(f.args[i], <<>>).k = "union"
        PROVE  FALSE
    <3>1. ~SdkDecodes(f.args[i], ToScVal(m.args[i], call.given[i]))
      BY <2>2, <2>4, CodeRefused, Zenon
    <3> QED
      BY <2>1, <2>3, <3>1
  <2> QED
    BY <2>4, <1>5
<1>8. ASSUME Accepted
      PROVE  [i \in DOMAIN call.sent |-> SdkFromScVal(Called.args[i], call.sent[i])] = call.given
  <2>1. \A i \in DOMAIN m.args : SdkFromScVal(f.args[i], call.sent[i]) = call.given[i]
    BY <1>5, <1>6, <1>7, <1>8
  <2> QED
    BY <1>2, <1>3, <1>4, <2>1
<1>9. ASSUME ~Accepted PROVE m.fn = "get_required_ccvs"
  <2>1. SUFFICES ASSUME m.fn # "get_required_ccvs" PROVE FALSE
    OBVIOUS
  <2>2. \A i \in DOMAIN f.args : SdkDecodes(f.args[i], call.sent[i])
    BY <1>5, <1>6, <2>1
  <2> QED
    BY <1>2, <1>4, <1>5, <1>9, <2>2 DEF Accepted, c, m
<1> QED
  BY <1>4, <1>5, <1>8, <1>9 DEF m

\* A list of one value has it.
LEMMA OneValue ==
    ASSUME NEW t, NEW Ints, NEW vs \in Values(<<t>>, Ints)
    PROVE  ValueOf(t, vs[1], Ints)
<1>1. \A i \in DOMAIN <<t>> : ValueOf(<<t>>[i], vs[i], Ints)
  BY Zenon DEF Values
<1>2. 1 \in DOMAIN <<t>> /\ <<t>>[1] = t
  OBVIOUS
<1> QED
  BY <1>1, <1>2

\* A call is sent as given.
LEMMA CallStep ==
    ASSUME BindingsInv, NEW c \in Contracts, NEW method \in Go[c].methods,
           NEW given \in Values(method.args, Int64), Call(c, method, given)
    PROVE  BindingsInv'
<1>1. phase' = "sent"
  BY DEF Call
<1>2. call' = [contract |-> c, method |-> method, given |-> given,
               sent |-> [i \in DOMAIN method.args |-> ToScVal(method.args[i], given[i])]]
  BY DEF Call
<1>3. CallKept'
  <2>1. /\ call'.contract = c /\ call'.method = method /\ call'.given = given
        /\ call'.sent = [i \in DOMAIN method.args |-> ToScVal(method.args[i], given[i])]
    BY <1>2
  <2> QED
    BY <2>1, Zenon DEF CallKept
<1>4. AnswerKept' /\ EventKept'
  BY <1>1 DEF AnswerKept, EventKept
<1>5. CallsUnderstood' /\ EventsUnderstood'
  BY <1>1 DEF CallsUnderstood, ArgumentsUnderstood, AnswersUnderstood, KeysAgree, EventsUnderstood
<1> QED
  BY <1>3, <1>4, <1>5 DEF BindingsInv

\* The host gives the contract what the program handed to the method.
LEMMA HostStep ==
    ASSUME BindingsInv, Dispatch
    PROVE  BindingsInv'
<1>1. phase = "sent" /\ phase' = "running" /\ call' = call
  BY DEF Dispatch
<1>2. CallKept
  BY DEF BindingsInv
<1>3. heard' = call.given
  BY <1>1, <1>2, Dispatched DEF Dispatch
<1>4. CallKept'
  BY <1>1, <1>2 DEF CallKept
<1>5. AnswerKept' /\ EventKept'
  BY <1>1 DEF AnswerKept, EventKept
<1>6. CallsUnderstood' /\ EventsUnderstood'
  BY <1>1, <1>3
     DEF CallsUnderstood, ArgumentsUnderstood, AnswersUnderstood, KeysAgree, EventsUnderstood
<1> QED
  BY <1>4, <1>5, <1>6 DEF BindingsInv

\* The host refuses a call only where a number stands for a name.
LEMMA TrapStep ==
    ASSUME BindingsInv, Trap
    PROVE  BindingsInv'
<1>1. phase = "sent" /\ phase' = "trapped" /\ call' = call
  BY DEF Trap
<1>2. CallKept
  BY DEF BindingsInv
<1>3. call.method.fn = "get_required_ccvs"
  BY <1>1, <1>2, Dispatched DEF Trap
<1>4. CallKept'
  BY <1>1, <1>2 DEF CallKept
<1>5. AnswerKept' /\ EventKept'
  BY <1>1 DEF AnswerKept, EventKept
<1>6. CallsUnderstood' /\ EventsUnderstood'
  BY <1>1, <1>3
     DEF CallsUnderstood, ArgumentsUnderstood, AnswersUnderstood, KeysAgree, EventsUnderstood
<1> QED
  BY <1>4, <1>5, <1>6 DEF BindingsInv

\* The contract answers with a value of the type the method expects.
LEMMA ReturnStep ==
    ASSUME BindingsInv, NEW vs \in Values(<<Called.returns>>, Int128), Return(vs[1])
    PROVE  BindingsInv'
<1>1. phase = "running" /\ phase' = "answered" /\ call' = call /\ heard' = heard
  BY DEF Return
<1>2. CallKept /\ heard = call.given
  BY <1>1 DEF BindingsInv, CallsUnderstood, ArgumentsUnderstood
<1>3. Called.returns = call.method.returns
  BY <1>1, <1>2, FunctionKnown DEF CallKept, Called
<1>4. ValueOf(call.method.returns, vs[1], Int128)
  BY <1>3, OneValue
<1>5. AnswerKept'
  <2>1. answer' = [value |-> vs[1], sent |-> SdkToScVal(call.method.returns, vs[1])]
    BY <1>3 DEF Return
  <2>2. /\ answer'.value = vs[1]
        /\ answer'.sent = SdkToScVal(call.method.returns, vs[1])
    BY <2>1
  <2> QED
    BY <1>1, <1>4, <2>2, Zenon DEF AnswerKept
<1>6. CallKept' /\ EventKept'
  BY <1>1, <1>2 DEF CallKept, EventKept
<1>7. CallsUnderstood' /\ EventsUnderstood'
  BY <1>1, <1>2
     DEF CallsUnderstood, ArgumentsUnderstood, AnswersUnderstood, KeysAgree, EventsUnderstood
<1> QED
  BY <1>5, <1>6, <1>7 DEF BindingsInv

\* The method reads the answer as the contract wrote it, and no answer garbles.
LEMMA ReceiveStep ==
    ASSUME BindingsInv, Receive
    PROVE  BindingsInv'
<1>1. /\ phase = "answered" /\ call' = call /\ heard' = heard
      /\ answer' = answer
  BY DEF Receive
<1>2. CallKept /\ AnswerKept /\ heard = call.given
  BY <1>1 DEF BindingsInv, CallsUnderstood, ArgumentsUnderstood
<1>3. /\ ValueOf(call.method.returns, answer.value, Int128)
      /\ answer.sent = SdkToScVal(call.method.returns, answer.value)
  BY <1>1, <1>2 DEF AnswerKept
<1>4. /\ Decodes(call.method.returns, answer.sent)
      /\ Understood(FromScVal(call.method.returns, answer.sent), answer.value)
  <2>1. /\ Decodes(call.method.returns, SdkToScVal(call.method.returns, answer.value))
        /\ Understood(FromScVal(call.method.returns,
                                 SdkToScVal(call.method.returns, answer.value)), answer.value)
    BY <1>3, ValueAnswered, Zenon
  <2> QED
    BY <1>3, <2>1, Zenon
<1>5. phase' = "received" /\ got' = FromScVal(call.method.returns, answer.sent)
  BY <1>4, Zenon DEF Receive
<1>6. CallKept' /\ AnswerKept' /\ EventKept'
  BY <1>1, <1>2, <1>5 DEF CallKept, AnswerKept, EventKept
<1>7. CallsUnderstood' /\ EventsUnderstood'
  <2>1. Understood(got, answer.value)'
    BY <1>1, <1>4, <1>5 DEF Understood
  <2> QED
    BY <1>1, <1>2, <1>5, <2>1
       DEF CallsUnderstood, ArgumentsUnderstood, AnswersUnderstood, KeysAgree, EventsUnderstood
<1> QED
  BY <1>6, <1>7 DEF BindingsInv

\* The client has a wait for what is published.
LEMMA PublishStep ==
    ASSUME BindingsInv, NEW c \in Contracts, NEW name \in DOMAIN Rust[c].events,
           NEW vs \in Values(<<Rust[c].events[name].fields>>, Int128), Publish(c, name, vs[1])
    PROVE  BindingsInv'
<1> DEFINE e == Rust[c].events[name]
<1>1. phase' = "published"
  BY DEF Publish
<1>2. event' = [contract |-> c, name |-> name, topic |-> e.topic, value |-> vs[1],
                sent |-> SdkToScVal(e.fields, vs[1])]
  BY DEF Publish
<1>3. /\ event'.contract = c /\ event'.name = name /\ event'.topic = e.topic
      /\ event'.value = vs[1] /\ event'.sent = SdkToScVal(e.fields, vs[1])
  BY <1>2
<1>4. ValueOf(e.fields, vs[1], Int128)
  BY OneValue
<1>5. EventKept'
  BY <1>3, <1>4, Zenon DEF EventKept
<1>6. CallKept' /\ AnswerKept'
  BY <1>1 DEF CallKept, AnswerKept
<1>7. EventsUnderstood'
  <2>1. \/ Unheard(c, e.topic)
        \/ \E other \in DOMAIN Go[c].events : Go[c].events[other].topic = e.topic
    BY TablesAgree DEF TopicsAgree
  <2>2. Unheard(c, e.topic) => Unheard(event.contract, event.topic)'
    BY <1>3 DEF Unheard
  <2> QED
    BY <1>1, <1>3, <2>1, <2>2 DEF EventsUnderstood, Awaited
<1>8. CallsUnderstood'
  BY <1>1 DEF CallsUnderstood, ArgumentsUnderstood, AnswersUnderstood, KeysAgree
<1> QED
  BY <1>5, <1>6, <1>7, <1>8 DEF BindingsInv

\* The wait that answers to the event's topic is the one of its name, and reads it as written.
LEMMA WaitStep ==
    ASSUME BindingsInv, NEW name \in DOMAIN Go[event.contract].events, WaitFor(name)
    PROVE  BindingsInv'
<1> DEFINE c == event.contract
           e == Rust[c].events[event.name]
<1>1. /\ phase = "published" /\ phase' = "seen" /\ event' = event
      /\ Go[c].events[name].topic = event.topic
  BY DEF WaitFor
<1>2. EventKept
  BY DEF BindingsInv
<1>3. /\ c \in Contracts /\ event.name \in DOMAIN Rust[c].events /\ event.topic = e.topic
      /\ ValueOf(e.fields, event.value, Int128) /\ event.sent = SdkToScVal(e.fields, event.value)
  BY <1>1, <1>2 DEF EventKept
<1>4. name = event.name /\ Go[c].events[name].fields = e.fields
  BY <1>1, <1>3, TablesAgree DEF TopicsAgree
<1>5. Understood(EventFromScVal(e.fields, SdkToScVal(e.fields, event.value)), event.value)
  BY <1>3, ValueAnswered, Zenon
<1>6. seen' = [name |-> name, value |-> EventFromScVal(e.fields, SdkToScVal(e.fields, event.value))]
  BY <1>3, <1>4 DEF WaitFor
<1>7. EventKept'
  BY <1>1, <1>2 DEF EventKept
<1>8. EventsUnderstood'
  <2>1. /\ seen'.name = event'.name
        /\ seen'.value = EventFromScVal(e.fields, SdkToScVal(e.fields, event.value))
    BY <1>1, <1>4, <1>6
  <2>2. Understood(seen.value, event.value)'
    BY <1>1, <1>5, <2>1 DEF Understood
  <2> QED
    BY <1>1, <2>1, <2>2 DEF EventsUnderstood
<1>9. CallKept' /\ AnswerKept' /\ CallsUnderstood'
  BY <1>1
     DEF CallKept, AnswerKept, CallsUnderstood, ArgumentsUnderstood, AnswersUnderstood, KeysAgree
<1> QED
  BY <1>7, <1>8, <1>9 DEF BindingsInv

\* The two sides build one key.
LEMMA KeyStep ==
    ASSUME BindingsInv, NEW c \in Contracts, NEW name \in DOMAIN Go[c].keys,
           NEW vs \in Values(<<Go[c].keys[name]>>, Int64), BuildKey(c, name, vs[1])
    PROVE  BindingsInv'
<1>1. phase' = "keyed"
  BY DEF BuildKey
<1>2. ValueOf(Go[c].keys[name], vs[1], Int64)
  BY OneValue
<1>3. ToScVal(Go[c].keys[name], vs[1]) = SdkToScVal(Go[c].keys[name], vs[1])
  BY <1>2, ValueHeard, Zenon
<1>4. Go[c].keys[name] = Rust[c].keys[name]
  BY TablesAgree
<1>5. call'.sent = heard'
  <2>1. call'.sent = ToScVal(Go[c].keys[name], vs[1])
    BY DEF BuildKey
  <2>2. heard' = SdkToScVal(Go[c].keys[name], vs[1])
    BY <1>4 DEF BuildKey
  <2> QED
    BY <1>3, <2>1, <2>2
<1>6. CallsUnderstood'
  BY <1>1, <1>5 DEF CallsUnderstood, ArgumentsUnderstood, AnswersUnderstood, KeysAgree
<1>7. CallKept' /\ AnswerKept' /\ EventKept' /\ EventsUnderstood'
  BY <1>1 DEF CallKept, AnswerKept, EventKept, EventsUnderstood
<1> QED
  BY <1>6, <1>7 DEF BindingsInv

\* The steps that end an exchange without an answer or an event.
LEMMA EndingStep ==
    ASSUME BindingsInv, WaitTimesOut \/ Again
    PROVE  BindingsInv'
<1>1. phase' \in {"missed", "idle"}
  BY DEF WaitTimesOut, Again
<1> QED
  BY <1>1 DEF BindingsInv, CallKept, AnswerKept, EventKept, CallsUnderstood, ArgumentsUnderstood,
              AnswersUnderstood, KeysAgree, EventsUnderstood

\* Every step.
LEMMA BindingsInductive ==
    ASSUME BindingsInv, [BindingsNext]_bindingsVars
    PROVE  BindingsInv'
<1>1. ASSUME NEW c \in Contracts, NEW method \in Go[c].methods,
             NEW given \in Values(method.args, Int64), Call(c, method, given)
      PROVE  BindingsInv'
  BY <1>1, CallStep
<1>2. ASSUME NEW c \in Contracts, NEW name \in DOMAIN Rust[c].events,
             NEW vs \in Values(<<Rust[c].events[name].fields>>, Int128), Publish(c, name, vs[1])
      PROVE  BindingsInv'
  BY <1>2, PublishStep
<1>3. ASSUME NEW c \in Contracts, NEW name \in DOMAIN Go[c].keys,
             NEW vs \in Values(<<Go[c].keys[name]>>, Int64), BuildKey(c, name, vs[1])
      PROVE  BindingsInv'
  BY <1>3, KeyStep
<1>4. CASE Dispatch
  BY <1>4, HostStep
<1>5. CASE Trap
  BY <1>5, TrapStep
<1>6. ASSUME NEW vs \in Values(<<Called.returns>>, Int128), Return(vs[1])
      PROVE  BindingsInv'
  BY <1>6, ReturnStep
<1>7. CASE Receive
  BY <1>7, ReceiveStep
<1>8. ASSUME NEW name \in DOMAIN Go[event.contract].events, WaitFor(name)
      PROVE  BindingsInv'
  BY <1>8, WaitStep
<1>9. CASE WaitTimesOut \/ Again
  BY <1>9, EndingStep
<1>10. CASE UNCHANGED bindingsVars
  BY <1>10 DEF bindingsVars, BindingsInv, CallKept, AnswerKept, EventKept, CallsUnderstood,
               ArgumentsUnderstood, AnswersUnderstood, KeysAgree, EventsUnderstood, Understood,
               Unheard, Awaited
<1> QED
  BY <1>1, <1>2, <1>3, <1>4, <1>5, <1>6, <1>7, <1>8, <1>9, <1>10, Zenon DEF BindingsNext

\* The inductive invariant.
LEMMA BindingsInvariant == BindingsSpec => []BindingsInv
<1>1. BindingsInit => BindingsInv
  BY DEF BindingsInit, BindingsInv, CallKept, AnswerKept, EventKept, CallsUnderstood,
         ArgumentsUnderstood, AnswersUnderstood, KeysAgree, EventsUnderstood
<1>2. BindingsInv /\ [BindingsNext]_bindingsVars => BindingsInv'
  BY BindingsInductive
<1> QED
  BY <1>1, <1>2, PTL DEF BindingsSpec

\* Whatever a program gives to a method of a generated client and whatever the contract
\* answers, arguments are heard as given and answers read as written, both sides build the
\* same keys, and the host refuses no call but those of get_required_ccvs (generateMethod).
THEOREM CallsAreUnderstood == BindingsSpec => []CallsUnderstood
<1>1. BindingsInv => CallsUnderstood
  BY DEF BindingsInv
<1> QED
  BY <1>1, BindingsInvariant, PTL

\* Every event a contract publishes has a wait that sees it, but for the end of a transfer of
\* ownership everywhere (accept_ownership) and its start in two clients; and a wait returns the
\* event of its name with all its fields (generateEventHelpers, generateEventParser).
THEOREM EventsAreUnderstood == BindingsSpec => []EventsUnderstood
<1>1. BindingsInv => EventsUnderstood
  BY DEF BindingsInv
<1> QED
  BY <1>1, BindingsInvariant, PTL
=============================================================================
