----------------------------- MODULE LaneProofs -----------------------------
(***************************************************************************)
(* Sending on a lane, for every list of CCVs, configuration, quote and     *)
(* sequence of calls: the plan of CCVs, the message numbers, what pays for *)
(* the receipts, and curses; and the tables of ramps and tokens behind it, *)
(* for every batch of updates and every reader.                            *)
(***************************************************************************)
EXTENDS Lane, Tables, FoldTheorems, SequenceTheorems, TLAPS

-----------------------------------------------------------------------------
(* The plan of CCVs.                                                       *)

\* One CCV is appended unless it is there.
Appended(l, ccv) == IF Contains(l, ccv) THEN l ELSE Append(l, ccv)

IsAppending(list, more, g) ==
    g = [s \in SUBSET (DOMAIN more) |->
            IF s = {} THEN list ELSE Appended(g[s \ {Max(s)}], more[Max(s)])]

\* append_unique_pool_ccvs, as its loop defines it: entry after entry, from the first.
LEMMA AppendUniqueIs ==
    ASSUME NEW list, NEW more
    PROVE  AppendUnique(list, more) = (CHOOSE g : IsAppending(list, more, g))[DOMAIN more]
BY DEF AppendUnique, FoldLeft, MapThenFoldSet, IsAppending, Appended

\* What the plan has to be after the first entries of a list are appended.
Extends(list, l, ccvs) ==
    /\ l \in Seq(Ccvs)
    /\ ToSet(l) = ToSet(list) \cup ccvs
    /\ IsPrefix(list, l)
    /\ IsInjective(list) => IsInjective(l)

\* Nothing is appended.
LEMMA ExtendsItself == ASSUME NEW list \in Seq(Ccvs) PROVE Extends(list, list, {})
BY DEF Extends, IsPrefix

\* One iteration of the loop: the next entry is there afterwards, once.
LEMMA AppendedExtends ==
    ASSUME NEW list \in Seq(Ccvs), NEW l, NEW ccvs, Extends(list, l, ccvs), NEW ccv \in Ccvs
    PROVE  Extends(list, Appended(l, ccv), ccvs \cup {ccv})
<1>0. l \in Seq(Ccvs)
  BY DEF Extends
<1>1. CASE Contains(l, ccv)
  <2>1. ccv \in ToSet(l)
    BY <1>0, <1>1 DEF Contains, ToSet
  <2>2. QED
    BY <1>1, <2>1 DEF Appended, Extends
<1>2. CASE ~Contains(l, ccv)
  <2> DEFINE k == Append(l, ccv)
  <2>1. Appended(l, ccv) = k
    BY <1>2 DEF Appended
  <2>2. k \in Seq(Ccvs) /\ Len(k) = Len(l) + 1 /\ k[Len(l) + 1] = ccv
        /\ \A i \in 1 .. Len(l) : k[i] = l[i]
    BY <1>0
  <2>3. ccv \notin ToSet(l)
    BY <1>0, <1>2 DEF Contains, ToSet
  <2>4. ToSet(k) = ToSet(l) \cup {ccv}
    BY <1>0, <2>2 DEF ToSet
  <2>5. IsPrefix(list, k)
    <3>1. IsPrefix(list, l)
      BY DEF Extends
    <3>2. QED
      BY <1>0, <2>2, <3>1 DEF IsPrefix
  <2>6. IsInjective(l) => IsInjective(k)
    BY <1>0, <2>2, <2>3 DEF IsInjective, ToSet
  <2> HIDE DEF k
  <2>7. QED
    BY <2>1, <2>2, <2>4, <2>5, <2>6 DEF Extends
<1>3. QED
  BY <1>1, <1>2

\* The recursion of the fold has its solution.
LEMMA AppendingExists ==
    ASSUME NEW list \in Seq(Ccvs), NEW more \in Seq(Ccvs)
    PROVE  \E g : IsAppending(list, more, g)
<1> DEFINE n == Len(more)
           D == 1 .. n
           step == [p \in D \X Seq(Ccvs) |-> Appended(p[2], more[p[1]])]
<1>1. n \in Nat /\ DOMAIN more = D /\ IsFiniteSet(D)
  BY FS_Interval
<1>2. Picks(LastOf(D), D)
  BY <1>1, LastPicks
<1>3. \A x \in D, v \in Seq(Ccvs) :
          step[<<x, v>>] = Appended(v, more[x]) /\ step[<<x, v>>] \in Seq(Ccvs)
  <2>1. ASSUME NEW x \in D, NEW v \in Seq(Ccvs)
        PROVE  Appended(v, more[x]) \in Seq(Ccvs)
    <3>1. more[x] \in Ccvs
      BY <1>1
    <3>2. QED
      BY <3>1 DEF Appended
  <2>2. QED
    BY <2>1
<1> HIDE DEF step, D
<1>4. PICK g : IsFold(step, LastOf(D), list, D, g)
  BY <1>1, <1>2, FoldExists
<1>5. \A s \in SUBSET D : g[s] \in Seq(Ccvs)
  BY <1>1, <1>2, <1>3, <1>4, FoldTyped
<1>6. ASSUME NEW s \in SUBSET D
      PROVE  g[s] = IF s = {} THEN list ELSE Appended(g[s \ {Max(s)}], more[Max(s)])
  <2>1. CASE s = {}
    BY <1>4, <2>1 DEF IsFold
  <2>2. CASE s # {}
    <3>1. LastOf(D)[s] = Max(s) /\ LastOf(D)[s] \in s
      BY <1>2, <2>2 DEF Picks, LastOf
    <3>2. g[s] = step[<<Max(s), g[s \ {Max(s)}]>>]
      BY <1>4, <2>2, <3>1 DEF IsFold
    <3>3. QED
      BY <1>3, <1>5, <2>2, <3>1, <3>2
  <2>3. QED
    BY <2>1, <2>2
<1>7. g = [s \in SUBSET D |-> g[s]]
  BY <1>4 DEF IsFold
<1>8. QED
  BY <1>1, <1>6, <1>7 DEF IsAppending

\* append_unique_pool_ccvs, for lists of any length.
LEMMA AppendUniqueExtends ==
    ASSUME NEW list \in Seq(Ccvs), NEW more \in Seq(Ccvs)
    PROVE  Extends(list, AppendUnique(list, more), ToSet(more))
<1> DEFINE n == Len(more)
           upTo(i) == {more[j] : j \in 1 .. i}
<1>0. n \in Nat /\ DOMAIN more = 1 .. n
  OBVIOUS
<1>1. PICK g : g = CHOOSE f : IsAppending(list, more, f)
  OBVIOUS
<1>2. IsAppending(list, more, g)
  BY <1>1, AppendingExists
<1> DEFINE G == {i \in 0 .. n : Extends(list, g[1 .. i], upTo(i))}
<1>3. 0 \in G
  <2>1. g[{}] = list
    BY <1>2 DEF IsAppending
  <2>2. Extends(list, list, {})
    BY ExtendsItself
  <2>3. 1 .. 0 = {}
    OBVIOUS
  <2>4. upTo(0) = {}
    BY <2>3
  <2>5. 0 \in 0 .. n
    BY <1>0
  <2> HIDE DEF upTo, n
  <2>6. Extends(list, g[1 .. 0], upTo(0))
    BY <2>1, <2>2, <2>3, <2>4
  <2>7. QED
    BY <2>5, <2>6
<1>4. ASSUME NEW i \in 0 .. (n - 1), i \in G PROVE i + 1 \in G
  <2>1. i + 1 \in Nat /\ i + 1 # 0 /\ i + 1 \in 1 .. n /\ (i + 1) - 1 = i /\ i + 1 \in 0 .. n
    BY <1>0
  <2>2. Max(1 .. (i + 1)) = i + 1 /\ (1 .. (i + 1)) \ {i + 1} = 1 .. i
    BY <2>1, MaxOfInterval
  <2>3. PICK s : s = 1 .. (i + 1)
    OBVIOUS
  <2>4. s \subseteq DOMAIN more
    BY <1>0, <2>1, <2>3
  <2>5. i + 1 \in s
    BY <2>1, <2>3
  <2>6. g[s] = Appended(g[s \ {Max(s)}], more[Max(s)])
    BY <1>2, <2>4, <2>5 DEF IsAppending
  <2>7. g[1 .. (i + 1)] = Appended(g[1 .. i], more[i + 1])
    BY <2>2, <2>3, <2>6
  <2>8. more[i + 1] \in Ccvs
    BY <2>1
  <2>9. Extends(list, g[1 .. i], upTo(i))
    BY <1>4
  <2>10. upTo(i + 1) = upTo(i) \cup {more[i + 1]}
    <3>1. 1 .. (i + 1) = (1 .. i) \cup {i + 1}
      BY <2>1
    <3>2. QED
      BY <3>1
  <2> HIDE DEF upTo
  <2>11. QED
    BY <2>1, <2>7, <2>8, <2>9, <2>10, AppendedExtends
<1>5. \A i \in 0 .. n : i \in G
  <2> HIDE DEF G
  <2>1. QED
    BY <1>0, <1>3, <1>4, IntervalInduction
<1>6. Extends(list, g[1 .. n], upTo(n))
  <2>1. n \in G
    <3> HIDE DEF G
    <3>1. n \in 0 .. n
      BY <1>0
    <3>2. QED
      BY <1>5, <3>1
  <2> HIDE DEF upTo, n
  <2>2. QED
    BY <2>1
<1>7. upTo(n) = ToSet(more)
  BY <1>0 DEF ToSet
<1>8. QED
  BY <1>0, <1>1, <1>6, <1>7, AppendUniqueIs

\* A list that extends one that extends another.
LEMMA ExtendsTwice ==
    ASSUME NEW a \in Seq(Ccvs), NEW b, NEW s, Extends(a, b, s), NEW c, NEW t, Extends(b, c, t)
    PROVE  Extends(a, c, s \cup t)
<1>1. a \in Seq(Ccvs) /\ b \in Seq(Ccvs) /\ c \in Seq(Ccvs)
  BY DEF Extends
<1>2. IsPrefix(a, c)
  <2>1. IsPrefix(a, b) /\ IsPrefix(b, c)
    BY DEF Extends
  <2>2. QED
    BY <1>1, <2>1 DEF IsPrefix
<1>3. QED
  BY <1>1, <1>2 DEF Extends

\* get_ccvs_for_message: the plan of a message, whatever the sender, the owner of the lane
\* and the pool name.
LEMMA PlanExtends ==
    ASSUME LaneAssumption, required \in Hooks, NEW m \in Messages, NEW config \in DestChainConfig
    PROVE  /\ Given(m, config) \in Seq(Ccvs)
           /\ Plan(m, config) \in Seq(Ccvs)
           /\ ToSet(Plan(m, config)) = Wanted(m, config)
           /\ IsPrefix(Given(m, config), Plan(m, config))
           /\ IsInjective(Given(m, config)) => IsInjective(Plan(m, config))
<1> DEFINE user == m.ccvs
           mandated == config.lane_mandated_ccvs
           default == config.default_ccvs
           fallback == IF TokenOnly(m) THEN <<>> ELSE default
           given == Given(m, config)
           merged == Merge(user, mandated, fallback)
           pool == AppendUnique(merged, required.ccvs)
           both == AppendUnique(pool, default)
<1>1. /\ m.token \in BOOLEAN /\ m.bare \in BOOLEAN /\ required.include_defaults \in BOOLEAN
      /\ user \in Seq(Ccvs) /\ required.ccvs \in Seq(Ccvs)
  BY DEF LaneAssumption
<1>2. mandated \in Seq(Ccvs) /\ default \in Seq(Ccvs)
  BY DEF DestChainConfig
<1>3. given \in Seq(Ccvs)
  BY <1>1, <1>2 DEF Given
<1>4. PICK first : /\ Extends(given, merged, first)
                   /\ ToSet(given) \cup first = ToSet(user) \cup ToSet(mandated)
                          \cup (IF user = <<>> /\ mandated = <<>> /\ ~TokenOnly(m)
                                THEN ToSet(default) ELSE {})
  <2>0. ToSet(<<>>) = {} /\ Extends(<<>>, <<>>, {})
    BY DEF ToSet, Extends, IsPrefix
  <2>1. CASE user = <<>> /\ mandated = <<>>
    <3>1. given = fallback /\ merged = fallback
      BY <2>1 DEF Given, Merge
    <3>2. Extends(given, merged, {})
      BY <1>3, <3>1, ExtendsItself
    <3>3. ToSet(given) = IF TokenOnly(m) THEN {} ELSE ToSet(default)
      BY <2>0, <3>1
    <3>4. QED
      BY <2>0, <2>1, <3>2, <3>3
  <2>2. CASE ~(user = <<>> /\ mandated = <<>>)
    <3>1. given = user /\ merged = AppendUnique(user, mandated)
      BY <2>2 DEF Given, Merge
    <3>2. Extends(given, merged, ToSet(mandated))
      BY <1>1, <1>2, <3>1, AppendUniqueExtends
    <3>3. QED
      BY <2>2, <3>1, <3>2
  <2>3. QED
    BY <2>1, <2>2
<1>5. merged \in Seq(Ccvs)
  BY <1>4 DEF Extends
<1> HIDE DEF merged, given, user, mandated, default, fallback
<1>6. Extends(merged, pool, ToSet(required.ccvs))
  BY <1>1, <1>5, AppendUniqueExtends
<1>7. pool \in Seq(Ccvs)
  BY <1>6 DEF Extends
<1>8. Extends(given, pool, first \cup ToSet(required.ccvs))
  BY <1>3, <1>4, <1>6, ExtendsTwice
<1> HIDE DEF pool
<1>9. Extends(pool, both, ToSet(default))
  BY <1>2, <1>7, AppendUniqueExtends
<1>10. Extends(given, both, (first \cup ToSet(required.ccvs)) \cup ToSet(default))
  BY <1>3, <1>8, <1>9, ExtendsTwice
<1> HIDE DEF both
<1>11. Plan(m, config) = IF ~m.token THEN merged
                         ELSE IF required.include_defaults THEN both ELSE pool
  BY DEF Plan, merged, pool, both, user, mandated, default, fallback
<1>12. Wanted(m, config) = ToSet(user) \cup ToSet(mandated)
          \cup (IF m.token THEN ToSet(required.ccvs) ELSE {})
          \cup (IF \/ m.token /\ required.include_defaults
                   \/ user = <<>> /\ mandated = <<>> /\ ~TokenOnly(m)
                THEN ToSet(default) ELSE {})
  BY DEF Wanted, user, mandated, default
<1>13. PICK s : Extends(given, Plan(m, config), s) /\ ToSet(given) \cup s = Wanted(m, config)
  <2>1. CASE ~m.token
    BY <1>4, <1>11, <1>12, <2>1
  <2>2. CASE m.token /\ required.include_defaults
    <3>1. Plan(m, config) = both
      BY <1>11, <2>2
    <3>2. (\/ m.token /\ required.include_defaults
           \/ user = <<>> /\ mandated = <<>> /\ ~TokenOnly(m)) = TRUE
      BY <2>2
    <3>3. Wanted(m, config) = ToSet(user) \cup ToSet(mandated) \cup ToSet(required.ccvs)
                                  \cup ToSet(default)
      BY <1>12, <2>2, <3>2
    <3>4. QED
      BY <1>4, <1>10, <3>1, <3>3
  <2>3. CASE m.token /\ ~required.include_defaults
    <3>1. Plan(m, config) = pool
      BY <1>11, <2>3
    <3>2. QED
      BY <1>4, <1>8, <1>12, <2>3, <3>1
  <2>4. QED
    BY <1>1, <2>1, <2>2, <2>3
<1>14. QED
  BY <1>3, <1>13 DEF Extends, given

-----------------------------------------------------------------------------
(* Fees.                                                                   *)

\* A division rounds in one direction.
LEMMA DivMonotone ==
    ASSUME NEW a \in Nat, NEW b \in Nat, a <= b, NEW d \in Nat \ {0}
    PROVE  a \div d \in Nat /\ b \div d \in Nat /\ a \div d <= b \div d
<1> DEFINE q == a \div d
           r == b \div d
<1>1. q \in Int /\ r \in Int /\ d * q <= a /\ a < d * (q + 1) /\ d * r <= b /\ b < d * (r + 1)
  OBVIOUS
<1> HIDE DEF q, r
<1>2. d * q < d * (r + 1) /\ 0 < d * (q + 1) /\ 0 < d * (r + 1)
  BY <1>1
<1>3. q < r + 1 /\ 0 < q + 1 /\ 0 < r + 1
  BY <1>1, <1>2
<1>4. QED
  BY <1>1, <1>3 DEF q, r

\* A price in fee tokens is a number and grows with what is paid for.
LEMMA InFeeTokenMonotone ==
    ASSUME LaneAssumption, quote \in Quotes, NEW a \in Nat, NEW b \in Nat, a <= b
    PROVE  InFeeToken(a) \in Nat /\ InFeeToken(b) \in Nat /\ InFeeToken(a) <= InFeeToken(b)
<1>1. Unit \in Nat /\ quote.price \in Nat \ {0}
  BY DEF LaneAssumption
<1>2. a * Unit \in Nat /\ b * Unit \in Nat /\ a * Unit <= b * Unit
  BY <1>1
<1>3. QED
  BY <1>1, <1>2, DivMonotone DEF InFeeToken

\* The parts of a fee, and that what the fee quoter asks for the network pays the OnRamp's
\* network fee when it is not below it.
LEMMA FeeParts ==
    ASSUME LaneAssumption, quote \in Quotes, required \in Hooks,
           NEW m \in Messages, NEW config \in DestChainConfig
    PROVE  /\ MessageFee(m) \in Nat /\ Additional(m, config) \in Nat
           /\ InFeeToken(NetworkCents(m, config)) \in Nat
           /\ NetworkCents(m, config) <= (quote.network * Premium) \div 100
                 => InFeeToken(NetworkCents(m, config)) <= MessageFee(m)
           /\ NetworkCents(m, config) \in Nat /\ (quote.network * Premium) \div 100 \in Nat
<1> DEFINE cents == NetworkCents(m, config)
           token == IF m.token THEN TokenCents ELSE 0
           asked == (quote.network * Premium) \div 100
           all == ((GasCents + quote.network + token) * Premium) \div 100
           more == CcvCents * Len(Plan(m, config)) + (IF m.token THEN PoolCents ELSE 0)
                       + config.execution_fee
<1>1. /\ quote.network \in Nat /\ Premium \in Nat /\ GasCents \in Nat /\ TokenCents \in Nat
      /\ CcvCents \in Nat /\ PoolCents \in Nat
  BY DEF LaneAssumption
<1>2. config.execution_fee \in Nat /\ cents \in Nat
  BY DEF DestChainConfig, NetworkCents
<1>3. token \in Nat
  BY <1>1
<1>4. Len(Plan(m, config)) \in Nat
  BY PlanExtends
<1>5. more \in Nat
  <2>1. PICK k \in Nat : k = Len(Plan(m, config))
    BY <1>4
  <2>2. PICK x \in Nat : x = CcvCents * k
    BY <1>1
  <2>3. PICK p \in Nat : p = IF m.token THEN PoolCents ELSE 0
    BY <1>1
  <2>4. x + p + config.execution_fee \in Nat
    BY <1>2
  <2>5. QED
    BY <2>1, <2>2, <2>3, <2>4
<1>6. asked \in Nat /\ all \in Nat /\ asked <= all
  <2> HIDE DEF token
  <2>1. PICK x \in Nat : x = quote.network * Premium
    BY <1>1
  <2>2. PICK y \in Nat : y = (GasCents + quote.network + token) * Premium
    BY <1>1, <1>3
  <2>3. quote.network <= GasCents + quote.network + token
    BY <1>1, <1>3
  <2>4. x <= y
    BY <1>1, <1>3, <2>1, <2>2, <2>3
  <2>5. x \div 100 \in Nat /\ y \div 100 \in Nat /\ x \div 100 <= y \div 100
    BY <2>4, DivMonotone
  <2>6. QED
    BY <2>1, <2>2, <2>5
<1>7. MessageFee(m) = InFeeToken(all) /\ Additional(m, config) = InFeeToken(more)
  BY DEF MessageFee, Additional
<1> HIDE DEF cents, asked, all, more
<1>8. InFeeToken(all) \in Nat /\ InFeeToken(more) \in Nat /\ InFeeToken(cents) \in Nat
  <2>1. \A k \in Nat : k <= k
    OBVIOUS
  <2>2. QED
    BY <1>2, <1>5, <1>6, <2>1, InFeeTokenMonotone
<1>9. cents <= asked => InFeeToken(cents) <= InFeeToken(all)
  <2>1. SUFFICES ASSUME cents <= asked PROVE InFeeToken(cents) <= InFeeToken(all)
    OBVIOUS
  <2>2. cents <= all
    BY <1>2, <1>6, <2>1
  <2>3. QED
    BY <1>2, <1>6, <2>2, InFeeTokenMonotone
<1>10. QED
  BY <1>2, <1>6, <1>7, <1>8, <1>9 DEF cents, asked

-----------------------------------------------------------------------------
(* Sending, step by step.                                                  *)

LaneTypes ==
    /\ required \in Hooks /\ quote \in Quotes
    /\ DOMAIN lanes \subseteq Ramps \X Dests
    /\ \A k \in DOMAIN lanes : lanes[k] \in DestChainConfig
    /\ balance \in [Ramps -> Nat] /\ owed \in [Ramps -> Nat]
    /\ mismatched \in BOOLEAN
    /\ IsFiniteSet(sent)

LaneInv == LaneTypes /\ PlanExact /\ Numbered /\ ReceiptsCovered

\* A deployed OnRamp without lanes and messages satisfies the invariant.
LEMMA LaneInit == ASSUME LaneAssumption, Init PROVE LaneInv
<1>1. lanes = Empty /\ sent = {} /\ DOMAIN lanes = {}
  BY DEF Init, Empty
<1>2. LaneTypes
  BY <1>1, FS_EmptySet DEF LaneTypes, Init
<1>3. PlanExact /\ Numbered /\ ReceiptsCovered
  BY <1>1 DEF PlanExact, Numbered, ReceiptsCovered, Init
<1>4. QED
  BY <1>2, <1>3 DEF LaneInv

\* What a step that sends does to the lane, and what it leaves alone.
LEMMA SendKeeps ==
    ASSUME LaneAssumption, LaneInv, NEW c \in Dests, NEW m \in Messages, NEW fee \in Fees(c, m),
           CcipSend(c, m, fee)
    PROVE  LaneInv'
<1> DEFINE o == onramps[c]
           k == <<o, c>>
           config == lanes[k]
           n == config.message_number
           number == n + 1
           cents == NetworkCents(m, config)
           network == IF fee > 0 THEN InFeeToken(cents) ELSE 0
           extra == Additional(m, config)
           new == [onramp |-> o, dest |-> c, number |-> number, plan |-> Plan(m, config),
                   given |-> Given(m, config), wanted |-> Wanted(m, config)]
<1>1. k \in DOMAIN lanes /\ o \in Ramps /\ config \in DestChainConfig
  BY DEF CcipSend, LaneInv, LaneTypes
<1>2. n \in Nat /\ number \in Nat /\ number # 0
  BY <1>1 DEF DestChainConfig
<1>3. /\ fee >= RequiredFee(m, config) /\ network <= balance[o] + fee
      /\ lanes' = [lanes EXCEPT ![k].message_number = number]
      /\ balance' = [balance EXCEPT ![o] = @ + fee - network]
      /\ sent' = sent \cup {new}
      /\ owed' = [owed EXCEPT ![o] = @ + extra]
      /\ mismatched' = (mismatched \/ cents > (quote.network * Premium) \div 100)
      /\ required' = required /\ quote' = quote
  BY DEF CcipSend, Forward
<1>4. required \in Hooks /\ quote \in Quotes /\ IsFiniteSet(sent) /\ mismatched \in BOOLEAN
  BY DEF LaneInv, LaneTypes
<1>5. /\ MessageFee(m) \in Nat /\ extra \in Nat /\ InFeeToken(cents) \in Nat
      /\ cents <= (quote.network * Premium) \div 100 => InFeeToken(cents) <= MessageFee(m)
      /\ cents \in Nat /\ (quote.network * Premium) \div 100 \in Nat
  BY <1>1, <1>4, FeeParts
<1>6. RequiredFee(m, config) = MessageFee(m) + extra
  BY DEF RequiredFee
<1>7. fee \in Int
  <2>1. fee \in {RequiredFee(m, config) - 1, RequiredFee(m, config)}
    BY DEF Fees, CcipSend
  <2>2. QED
    BY <1>5, <1>6, <2>1
<1>8. network \in Nat
  BY <1>5
<1>9. /\ lanes'[k] = [config EXCEPT !.message_number = number]
      /\ DOMAIN lanes' = DOMAIN lanes
      /\ \A j \in DOMAIN lanes : j # k => lanes'[j] = lanes[j]
  BY <1>1, <1>3
<1>10. lanes'[k] \in DestChainConfig /\ lanes'[k].message_number = number
  BY <1>1, <1>2, <1>9 DEF DestChainConfig
<1>11. PICK owes \in Nat, holds \in Nat : owes = owed[o] /\ holds = balance[o]
  BY <1>1 DEF LaneInv, LaneTypes
<1> HIDE DEF o, config, cents, network, extra, new
<1>12. holds + fee - network \in Nat /\ owes + extra \in Nat
  <2>1. extra \in Nat
    BY <1>5
  <2>2. network <= holds + fee
    BY <1>3, <1>11
  <2>3. QED
    BY <1>7, <1>8, <2>1, <2>2
<1>13. /\ balance' \in [Ramps -> Nat] /\ balance'[o] = holds + fee - network
       /\ owed' \in [Ramps -> Nat] /\ owed'[o] = owes + extra
       /\ \A p \in Ramps : p # o => balance'[p] = balance[p] /\ owed'[p] = owed[p]
  BY <1>1, <1>3, <1>11, <1>12 DEF LaneInv, LaneTypes
<1>14. LaneTypes'
  <2>1. IsFiniteSet(sent')
    BY <1>3, <1>4, FS_AddElement
  <2>2. mismatched' \in BOOLEAN
    BY <1>3
  <2>3. \A j \in DOMAIN lanes' : lanes'[j] \in DestChainConfig
    BY <1>9, <1>10 DEF LaneInv, LaneTypes
  <2>4. QED
    BY <1>3, <1>9, <1>13, <2>1, <2>2, <2>3 DEF LaneInv, LaneTypes
<1>15. PlanExact'
  <2>1. /\ ToSet(new.plan) = new.wanted
        /\ IsPrefix(new.given, new.plan)
        /\ IsInjective(new.given) => IsInjective(new.plan)
    BY <1>1, <1>4, PlanExtends DEF new
  <2>2. QED
    BY <1>3, <2>1 DEF LaneInv, PlanExact
<1>16. Numbered'
  <2> DEFINE Here(p, d) == {x \in sent : x.onramp = p /\ x.dest = d}
             There(p, d) == {x \in sent' : x.onramp = p /\ x.dest = d}
  <2>0. new.onramp = o /\ new.dest = c /\ new.number = number
    BY DEF new
  <2>1. SUFFICES ASSUME NEW p \in Ramps, NEW d \in Dests
                 PROVE  IF <<p, d>> \in DOMAIN lanes'
                        THEN /\ {x.number : x \in There(p, d)} = 1 .. lanes'[<<p, d>>].message_number
                             /\ Cardinality(There(p, d)) = lanes'[<<p, d>>].message_number
                        ELSE There(p, d) = {}
    BY DEF Numbered
  <2>2. IF <<p, d>> \in DOMAIN lanes
        THEN /\ {x.number : x \in Here(p, d)} = 1 .. lanes[<<p, d>>].message_number
             /\ Cardinality(Here(p, d)) = lanes[<<p, d>>].message_number
        ELSE Here(p, d) = {}
    BY DEF LaneInv, Numbered
  <2>3. CASE <<p, d>> # k
    <3>1. There(p, d) = Here(p, d)
      BY <1>3, <2>0, <2>3
    <3>2. QED
      BY <1>9, <2>2, <2>3, <3>1
  <2>4. CASE <<p, d>> = k
    <3>1. There(p, d) = Here(p, d) \cup {new}
      BY <1>3, <2>0, <2>4
    <3>2. /\ {x.number : x \in Here(p, d)} = 1 .. n
          /\ Cardinality(Here(p, d)) = n
      BY <1>1, <2>2, <2>4 DEF config
    <3>3. new \notin Here(p, d)
      <4>1. number \notin 1 .. n
        BY <1>2
      <4>2. QED
        BY <2>0, <3>2, <4>1
    <3>4. IsFiniteSet(Here(p, d))
      BY <1>4, FS_Subset
    <3>5. Cardinality(There(p, d)) = number
      <4> HIDE DEF Here, There
      <4>1. QED
        BY <3>1, <3>2, <3>3, <3>4, FS_AddElement
    <3>6. {x.number : x \in There(p, d)} = 1 .. number
      <4>1. {x.number : x \in There(p, d)} = {x.number : x \in Here(p, d)} \cup {number}
        BY <2>0, <3>1
      <4>2. 1 .. number = (1 .. n) \cup {number}
        BY <1>2
      <4>3. QED
        BY <3>2, <4>1, <4>2
    <3>7. QED
      BY <1>1, <1>9, <1>10, <2>4, <3>5, <3>6
  <2>5. QED
    BY <2>3, <2>4
<1>17. ReceiptsCovered'
  <2>1. SUFFICES ASSUME ~mismatched', NEW p \in Ramps PROVE owed'[p] <= balance'[p]
    BY DEF ReceiptsCovered
  <2>2. ~mismatched /\ cents <= (quote.network * Premium) \div 100
    <3>1. ~mismatched /\ ~(cents > (quote.network * Premium) \div 100)
      BY <1>3, <2>1
    <3>2. QED
      BY <1>5, <3>1
  <2>3. owed[p] <= balance[p] /\ owes <= holds
    BY <1>1, <1>11, <2>2 DEF LaneInv, ReceiptsCovered
  <2>4. network <= MessageFee(m)
    BY <1>5, <2>2 DEF network
  <2>5. owes + extra <= holds + fee - network
    <3>1. PICK asked \in Nat : asked = MessageFee(m)
      BY <1>5
    <3>2. extra \in Nat /\ fee >= asked + extra
      BY <1>3, <1>5, <1>6, <3>1
    <3>3. QED
      BY <1>7, <1>8, <2>3, <2>4, <3>1, <3>2
  <2>6. QED
    BY <1>13, <2>3, <2>5
<1>18. QED
  BY <1>14, <1>15, <1>16, <1>17 DEF LaneInv

\* Configuring a lane keeps its number.
LEMMA ConfigureKeeps ==
    ASSUME LaneAssumption, LaneInv, NEW o \in Ramps, NEW c \in Dests, NEW config \in LaneConfigs,
           ApplyDestChainConfigUpdates(o, c, config)
    PROVE  LaneInv'
<1> DEFINE k == <<o, c>>
           number == ExistingNumber(o, c)
           new == [config EXCEPT !.message_number = number]
<1>0. k \in Ramps \X Dests /\ config \in DestChainConfig
  BY DEF LaneAssumption
<1>1. number \in Nat
  BY DEF LaneInv, LaneTypes, ExistingNumber, DestChainConfig
<1>2. new \in DestChainConfig /\ new.message_number = number
  BY <1>0, <1>1 DEF DestChainConfig
<1> HIDE DEF new
<1>3. /\ lanes' = Set(lanes, k, new)
      /\ UNCHANGED <<required, quote, balance, sent, owed, mismatched>>
  BY DEF ApplyDestChainConfigUpdates, new
<1>4. /\ DOMAIN lanes' = DOMAIN lanes \cup {k} /\ lanes'[k] = new
      /\ \A j \in DOMAIN lanes : j # k => lanes'[j] = lanes[j]
  BY <1>3 DEF Set
<1>5. LaneTypes'
  BY <1>0, <1>2, <1>3, <1>4 DEF LaneInv, LaneTypes
<1>6. PlanExact' /\ ReceiptsCovered'
  BY <1>3 DEF LaneInv, PlanExact, ReceiptsCovered
<1>7. Numbered'
  <2> DEFINE Here(p, d) == {x \in sent : x.onramp = p /\ x.dest = d}
  <2>1. SUFFICES ASSUME NEW p \in Ramps, NEW d \in Dests
                 PROVE  IF <<p, d>> \in DOMAIN lanes'
                        THEN /\ {x.number : x \in Here(p, d)} = 1 .. lanes'[<<p, d>>].message_number
                             /\ Cardinality(Here(p, d)) = lanes'[<<p, d>>].message_number
                        ELSE Here(p, d) = {}
    BY <1>3 DEF Numbered
  <2>2. IF <<p, d>> \in DOMAIN lanes
        THEN /\ {x.number : x \in Here(p, d)} = 1 .. lanes[<<p, d>>].message_number
             /\ Cardinality(Here(p, d)) = lanes[<<p, d>>].message_number
        ELSE Here(p, d) = {}
    BY DEF LaneInv, Numbered
  <2>3. CASE <<p, d>> # k
    BY <1>4, <2>2, <2>3
  <2>4. CASE <<p, d>> = k /\ k \in DOMAIN lanes
    <3>1. number = lanes[k].message_number
      BY <2>4 DEF ExistingNumber
    <3>2. QED
      BY <1>2, <1>4, <2>2, <2>4, <3>1
  <2>5. CASE <<p, d>> = k /\ k \notin DOMAIN lanes
    <3>1. Here(p, d) = {} /\ number = 0
      BY <2>2, <2>5 DEF ExistingNumber
    <3>2. {x.number : x \in Here(p, d)} = {} /\ Cardinality(Here(p, d)) = 0
      BY <3>1, FS_EmptySet
    <3>3. lanes'[<<p, d>>].message_number = 0 /\ <<p, d>> \in DOMAIN lanes'
      BY <1>2, <1>4, <2>5, <3>1
    <3>4. 1 .. 0 = {}
      OBVIOUS
    <3>5. QED
      BY <3>2, <3>3, <3>4
  <2>6. QED
    BY <2>3, <2>4, <2>5
<1>8. QED
  BY <1>5, <1>6, <1>7 DEF LaneInv

\* A withdrawal settles what is owed.
LEMMA WithdrawKeeps ==
    ASSUME LaneInv, NEW o \in Ramps, WithdrawFeeTokens(o)
    PROVE  LaneInv'
<1>1. /\ balance' = [balance EXCEPT ![o] = 0] /\ owed' = [owed EXCEPT ![o] = 0]
      /\ UNCHANGED <<lanes, required, quote, sent, mismatched>>
  BY DEF WithdrawFeeTokens
<1>2. LaneTypes'
  BY <1>1 DEF LaneInv, LaneTypes
<1>3. PlanExact' /\ Numbered'
  BY <1>1 DEF LaneInv, PlanExact, Numbered
<1>4. ReceiptsCovered'
  BY <1>1 DEF LaneInv, LaneTypes, ReceiptsCovered
<1>5. QED
  BY <1>2, <1>3, <1>4 DEF LaneInv

\* Prices and hooks are read when a message is sent, and not again.
LEMMA SettingKeeps ==
    ASSUME LaneInv, required' \in Hooks, quote' \in Quotes,
           UNCHANGED <<lanes, balance, sent, owed, mismatched>>
    PROVE  LaneInv'
<1>1. LaneTypes'
  BY DEF LaneInv, LaneTypes
<1>2. PlanExact' /\ Numbered' /\ ReceiptsCovered'
  BY DEF LaneInv, PlanExact, Numbered, ReceiptsCovered
<1>3. QED
  BY <1>1, <1>2 DEF LaneInv

\* The three invariants and the types they need: the number of a lane is that of its last
\* message, a plan is what its message wanted, and fees pay for receipts.
THEOREM LaneInvariant == Spec => []LaneInv
<1>1. Init => LaneInv
  BY LaneInit, LaneAssumption
<1>2. LaneInv /\ [Next]_vars => LaneInv'
  <2> SUFFICES ASSUME LaneInv, [Next]_vars PROVE LaneInv'
    OBVIOUS
  <2> USE LaneAssumption
  <2>0. required \in Hooks /\ quote \in Quotes
    BY DEF LaneInv, LaneTypes
  <2>1. ASSUME UNCHANGED laneVars PROVE LaneInv'
    BY <2>0, <2>1, SettingKeeps DEF laneVars
  <2>2. CASE Operate
    BY <2>1, <2>2, SendKeeps, ConfigureKeeps DEF Operate
  <2>3. CASE Reprice
    <3>1. ASSUME NEW q \in Quotes, SetQuote(q) PROVE LaneInv'
      BY <2>0, <3>1, SettingKeeps DEF SetQuote
    <3>2. ASSUME NEW h \in Hooks, SetHooks(h) PROVE LaneInv'
      BY <2>0, <3>2, SettingKeeps DEF SetHooks
    <3>3. QED
      BY <2>3, <3>1, <3>2, WithdrawKeeps DEF Reprice
  <2>4. CASE Ask
    BY <2>1, <2>4 DEF Ask, GetFee
  <2>5. QED
    BY <2>1, <2>2, <2>3, <2>4 DEF Next, vars
<1>3. QED
  BY <1>1, <1>2, PTL DEF Spec

\* The messages of a lane are numbered 1, 2, ... without a gap and without a repetition,
\* whatever is configured, set elsewhere and back in between.
THEOREM LaneNumbered == Spec => []Numbered
<1>1. LaneInv => Numbered
  BY DEF LaneInv
<1>2. QED
  BY <1>1, LaneInvariant, PTL

\* The plan of CCVs of every message that was sent is exactly what the sender, the lane and
\* the pool want, begins with the list it was given, and repeats none that list does not.
THEOREM LanePlanExact == Spec => []PlanExact
<1>1. LaneInv => PlanExact
  BY DEF LaneInv
<1>2. QED
  BY <1>1, LaneInvariant, PTL

\* While the fee quoter's network fee covers the OnRamp's, an OnRamp can pay for the
\* receipts it issued since the last withdrawal, for any fees, prices and premium.
THEOREM LaneReceiptsCovered == Spec => []ReceiptsCovered
<1>1. LaneInv => ReceiptsCovered
  BY DEF LaneInv
<1>2. QED
  BY <1>1, LaneInvariant, PTL

ToldExactly(q) ==
    /\ q.message \in Messages
    /\ q.dest \in DOMAIN onramps /\ onramps[q.dest] = q.onramp
    /\ <<q.onramp, q.dest>> \in DOMAIN lanes
    /\ q.fee = RequiredFee(q.message, lanes[<<q.onramp, q.dest>>])

QuoteInv == \A q \in told : ToldExactly(q)

\* The sum over the receipts is the one get_fee made without them.
LEMMA SumsAgree ==
    ASSUME NEW m, NEW config PROVE ReceiptsFee(m, config) = RequiredFee(m, config)
<1>1. m.token => OtherReceipts(m, config)[1] = PoolCents
  BY DEF OtherReceipts
<1>2. QED
  BY <1>1 DEF ReceiptsFee, RequiredFee, Additional

\* The fee that is asked for passes the second check and brings the network fee along.
LEMMA FeeSuffices ==
    ASSUME LaneAssumption, LaneInv, NEW m \in Messages, NEW config \in DestChainConfig,
           NEW o \in Ramps
    PROVE  LET fee == RequiredFee(m, config)
               cents == NetworkCents(m, config)
           IN /\ fee >= ReceiptsFee(m, config)
              /\ cents <= (quote.network * Premium) \div 100 => InFeeToken(cents) <= balance[o] + fee
<1> DEFINE cents == NetworkCents(m, config)
<1>1. /\ MessageFee(m) \in Nat /\ Additional(m, config) \in Nat /\ InFeeToken(cents) \in Nat
      /\ cents <= (quote.network * Premium) \div 100 => InFeeToken(cents) <= MessageFee(m)
  BY FeeParts DEF LaneInv, LaneTypes
<1>2. RequiredFee(m, config) = MessageFee(m) + Additional(m, config)
  BY DEF RequiredFee
<1>3. RequiredFee(m, config) \in Nat /\ RequiredFee(m, config) >= MessageFee(m)
  BY <1>1, <1>2
<1>4. balance[o] \in Nat
  BY DEF LaneInv, LaneTypes
<1>5. ReceiptsFee(m, config) = RequiredFee(m, config)
  BY SumsAgree
<1>6. QED
  BY <1>1, <1>3, <1>4, <1>5

\* Lanes are configured again and never taken away.
LEMMA LanesStay == ASSUME [Next]_vars PROVE DOMAIN lanes \subseteq DOMAIN lanes'
<1>1. ASSUME NEW c, NEW m, NEW fee, CcipSend(c, m, fee) PROVE DOMAIN lanes \subseteq DOMAIN lanes'
  BY <1>1 DEF CcipSend, Forward
<1>2. ASSUME NEW o, NEW c, NEW config, ApplyDestChainConfigUpdates(o, c, config)
      PROVE  DOMAIN lanes \subseteq DOMAIN lanes'
  BY <1>2 DEF ApplyDestChainConfigUpdates, Set
<1>3. QED
  BY <1>1, <1>2 DEF Next, vars, laneVars, Operate, Reprice, WithdrawFeeTokens, SetQuote, SetHooks,
                    Ask, GetFee

\* A fee depends on nothing but its basis.
LEMMA SameBasis ==
    ASSUME LaneInv, LaneInv', NEW q, <<q.onramp, q.dest>> \in DOMAIN lanes,
           <<q.onramp, q.dest>> \in DOMAIN lanes', Basis(q)' = Basis(q)
    PROVE  RequiredFee(q.message, lanes[<<q.onramp, q.dest>>])'
               = RequiredFee(q.message, lanes[<<q.onramp, q.dest>>])
<1> DEFINE k == <<q.onramp, q.dest>>
           m == q.message
<1>1. lanes[k] \in DestChainConfig /\ lanes'[k] \in DestChainConfig
  BY DEF LaneInv, LaneTypes
<1>2. /\ [lanes'[k] EXCEPT !.message_number = 0] = [lanes[k] EXCEPT !.message_number = 0]
      /\ quote' = quote /\ required' = required
  BY DEF Basis
<1>3. /\ lanes'[k].lane_mandated_ccvs = lanes[k].lane_mandated_ccvs
      /\ lanes'[k].default_ccvs = lanes[k].default_ccvs
      /\ lanes'[k].execution_fee = lanes[k].execution_fee
  BY <1>1, <1>2 DEF DestChainConfig
<1>4. Plan(m, lanes[k])' = Plan(m, lanes[k])
  BY <1>2, <1>3 DEF Plan, Merge
<1>5. MessageFee(m)' = MessageFee(m)
  BY <1>2 DEF MessageFee, InFeeToken
<1>6. Additional(m, lanes[k])' = Additional(m, lanes[k])
  BY <1>2, <1>3, <1>4 DEF Additional, InFeeToken
<1>7. QED
  BY <1>5, <1>6 DEF RequiredFee

\* A fee that was told stays what the OnRamp asks for, and suffices, until what it was
\* computed from changes: for any fees, prices and premium, whoever does what in between.
THEOREM LaneQuoteHonoured == Spec => []QuoteHonoured
<1>1. Init => QuoteInv
  BY DEF Init, QuoteInv
<1>2. QuoteInv /\ LaneInv /\ LaneInv' /\ [Next]_vars => QuoteInv'
  <2> SUFFICES ASSUME QuoteInv, LaneInv, LaneInv', [Next]_vars PROVE QuoteInv'
    OBVIOUS
  <2>1. CASE Ask
    <3>1. PICK c \in Dests, m \in Messages : GetFee(c, m)
      BY <2>1 DEF Ask
    <3>2. SUFFICES ASSUME NEW q \in told' PROVE ToldExactly(q)'
      BY DEF QuoteInv
    <3>3. /\ onramps' = onramps /\ lanes' = lanes /\ quote' = quote /\ required' = required
          /\ c \in DOMAIN onramps /\ <<onramps[c], c>> \in DOMAIN lanes
          /\ q.onramp = onramps[c] /\ q.dest = c /\ q.message = m
          /\ q.fee = RequiredFee(m, lanes[<<onramps[c], c>>])
      BY <3>1 DEF GetFee, routerVars, laneVars
    <3>4. ToldExactly(q)
      BY <3>3 DEF ToldExactly
    <3>5. Basis(q)' = Basis(q)
      BY <3>3 DEF Basis
    <3>6. RequiredFee(q.message, lanes[<<q.onramp, q.dest>>])'
              = RequiredFee(q.message, lanes[<<q.onramp, q.dest>>])
      BY <3>3, <3>5, SameBasis
    <3>7. QED
      BY <3>3, <3>4, <3>6 DEF ToldExactly
  <2>2. CASE UNCHANGED vars \/ Stands
    <3>1. SUFFICES ASSUME NEW q \in told' PROVE ToldExactly(q)'
      BY DEF QuoteInv
    <3>2. q \in told /\ q.dest \in DOMAIN onramps' /\ Basis(q)' = Basis(q)
      BY <2>2 DEF Stands, vars, routerVars, laneVars, Basis, QuoteInv, ToldExactly
    <3>3. ToldExactly(q)
      BY <3>2 DEF QuoteInv
    <3>4. <<q.onramp, q.dest>> \in DOMAIN lanes /\ <<q.onramp, q.dest>> \in DOMAIN lanes'
      BY <3>3, LanesStay DEF ToldExactly
    <3>5. RequiredFee(q.message, lanes[<<q.onramp, q.dest>>])'
              = RequiredFee(q.message, lanes[<<q.onramp, q.dest>>])
      BY <3>2, <3>4, SameBasis
    <3>6. onramps'[q.dest] = onramps[q.dest]
      BY <3>2 DEF Basis
    <3>7. QED
      BY <3>2, <3>3, <3>4, <3>5, <3>6 DEF ToldExactly
  <2>3. QED
    BY <2>1, <2>2 DEF Next
<1>3. QuoteInv /\ LaneInv => QuoteHonoured
  <2> SUFFICES ASSUME QuoteInv, LaneInv, NEW q \in told
               PROVE  LET config == lanes[<<q.onramp, q.dest>>]
                          cents == NetworkCents(q.message, config)
                      IN /\ onramps[q.dest] = q.onramp
                         /\ q.fee = RequiredFee(q.message, config)
                         /\ q.fee >= ReceiptsFee(q.message, config)
                         /\ cents <= (quote.network * Premium) \div 100
                               => InFeeToken(cents) <= balance[q.onramp] + q.fee
    BY DEF QuoteHonoured
  <2>1. ToldExactly(q)
    BY DEF QuoteInv
  <2>2. lanes[<<q.onramp, q.dest>>] \in DestChainConfig /\ q.onramp \in Ramps
    BY <2>1 DEF ToldExactly, LaneInv, LaneTypes
  <2>3. QED
    BY <2>1, <2>2, FeeSuffices, LaneAssumption DEF ToldExactly
<1>4. QED
  BY <1>1, <1>2, <1>3, LaneInvariant, PTL DEF Spec

-----------------------------------------------------------------------------
(* The Router's lists of offramps.                                         *)

Lists == {l \in Seq(Ramps) : IsInjective(l)}
CleanTables == UNION {[C -> Lists \ {<<>>}] : C \in SUBSET Chains}

IsWithout(list, ramp, g) ==
    g = [s \in SUBSET (DOMAIN list) |->
            IF s = {} THEN <<>>
            ELSE IF list[Max(s)] = ramp THEN g[s \ {Max(s)}]
                                        ELSE Append(g[s \ {Max(s)}], list[Max(s)])]

\* The copying loop, as the function of the positions it has passed.
LEMMA WithoutIs ==
    ASSUME NEW list, NEW ramp
    PROVE  Without(list, ramp) = (CHOOSE g : IsWithout(list, ramp, g))[DOMAIN list]
BY DEF Without, FoldLeft, MapThenFoldSet, IsWithout

\* There is such a function.
LEMMA WithoutExists ==
    ASSUME NEW list \in Seq(Ramps), NEW ramp PROVE \E g : IsWithout(list, ramp, g)
<1> DEFINE n == Len(list)
           step == [p \in (1 .. n) \X Seq(Ramps) |->
                       IF list[p[1]] = ramp THEN p[2] ELSE Append(p[2], list[p[1]])]
<1>1. n \in Nat /\ DOMAIN list = 1 .. n /\ \A i \in 1 .. n : list[i] \in Ramps
  OBVIOUS
<1>2. \A x \in 1 .. n, v \in Seq(Ramps) :
          /\ step[<<x, v>>] = IF list[x] = ramp THEN v ELSE Append(v, list[x])
          /\ step[<<x, v>>] \in Seq(Ramps)
  BY <1>1
<1>a. PICK Val : Val = Seq(Ramps)
  OBVIOUS
<1>b. PICK none : none = <<>>
  OBVIOUS
<1>3. none \in Val
  BY <1>a, <1>b
<1> HIDE DEF step, n
<1>4. PICK g : IsListFold(step, none, Val, n, g)
  <2>1. \A x \in 1 .. n, v \in Val : step[<<x, v>>] \in Val
    BY <1>2, <1>a
  <2> QED
    BY <1>1, <1>3, <2>1, ListFold
<1>5. ASSUME NEW s \in SUBSET (1 .. n)
      PROVE  g[s] = IF s = {} THEN <<>>
                    ELSE IF list[Max(s)] = ramp THEN g[s \ {Max(s)}]
                                                ELSE Append(g[s \ {Max(s)}], list[Max(s)])
  <2>1. CASE s = {}
    BY <1>b, <1>4, <2>1 DEF IsListFold
  <2>2. CASE s # {}
    <3>0. PICK m : m = Max(s)
      OBVIOUS
    <3>1. PICK l : l = g[s \ {m}]
      OBVIOUS
    <3>2. m \in 1 .. n /\ l \in Seq(Ramps) /\ g[s] = step[<<m, l>>]
      BY <1>a, <1>4, <2>2, <3>0, <3>1 DEF IsListFold
    <3>3. g[s] = IF list[m] = ramp THEN l ELSE Append(l, list[m])
      BY <1>2, <3>2
    <3> QED
      BY <2>2, <3>0, <3>1, <3>3
  <2> QED
    BY <2>1, <2>2
<1>6. PICK D : D = 1 .. n
  OBVIOUS
<1>7. g = [s \in SUBSET D |-> g[s]] /\ DOMAIN list = D
  BY <1>1, <1>4, <1>6 DEF IsListFold
<1>8. \A s \in SUBSET D :
          g[s] = IF s = {} THEN <<>>
                 ELSE IF list[Max(s)] = ramp THEN g[s \ {Max(s)}]
                                             ELSE Append(g[s \ {Max(s)}], list[Max(s)])
  BY <1>5, <1>6
<1>9. IsWithout(list, ramp, g)
  BY <1>7, <1>8 DEF IsWithout
<1> QED
  BY <1>9

\* A list with no offramp twice has none twice when one is left out.
LEMMA WithoutClean ==
    ASSUME NEW list \in Lists, NEW ramp PROVE Without(list, ramp) \in Lists
<1> DEFINE n == Len(list)
           g == CHOOSE f : IsWithout(list, ramp, f)
           G == {s \in SUBSET (1 .. n) : g[s] \in Lists /\ ToSet(g[s]) \subseteq {list[j] : j \in s}}
<1>1. n \in Nat /\ DOMAIN list = 1 .. n /\ list \in Seq(Ramps) /\ IsInjective(list)
  BY DEF Lists
<1>2. IsWithout(list, ramp, g)
  BY <1>1, WithoutExists
<1> HIDE DEF g, n
<1>3. {} \in G
  <2>1. g[{}] = <<>>
    BY <1>2 DEF IsWithout
  <2>2. <<>> \in Seq(Ramps) /\ DOMAIN <<>> = {}
    OBVIOUS
  <2>3. <<>> \in Lists /\ ToSet(<<>>) = {}
    BY <2>2 DEF Lists, IsInjective, ToSet
  <2>4. g[{}] \in Lists /\ ToSet(g[{}]) \subseteq {list[j] : j \in {}}
    BY <2>1, <2>3
  <2> QED
    BY <2>4
<1>4. ASSUME NEW s \in SUBSET (1 .. n), s # {}, s \ {Max(s)} \in G PROVE s \in G
  <2>1. Max(s) \in s
    BY <1>1, <1>4, LastPicks DEF Picks, LastOf
  <2>2. PICK m \in s : m = Max(s)
    BY <2>1
  <2>3. PICK l : l = g[s \ {m}]
    OBVIOUS
  <2>4. g[s] = IF list[m] = ramp THEN l ELSE Append(l, list[m])
    BY <1>1, <1>2, <1>4, <2>2, <2>3 DEF IsWithout
  <2>5. l \in Seq(Ramps) /\ IsInjective(l) /\ ToSet(l) \subseteq {list[j] : j \in s \ {m}}
    BY <1>4, <2>2, <2>3 DEF Lists
  <2>6. m \in 1 .. n /\ list[m] \in Ramps /\ list[m] \notin ToSet(l)
    <3>1. m \in 1 .. n /\ list[m] \in Ramps
      BY <1>1
    <3>2. \A j \in s \ {m} : list[j] # list[m]
      BY <1>1, <3>1 DEF IsInjective
    <3> QED
      BY <2>5, <3>1, <3>2
  <2>7. CASE list[m] = ramp
    BY <2>4, <2>5, <2>7 DEF Lists
  <2>8. CASE list[m] # ramp
    <3> DEFINE k == Append(l, list[m])
    <3>1. k \in Seq(Ramps) /\ Len(k) = Len(l) + 1 /\ k[Len(l) + 1] = list[m]
          /\ \A i \in 1 .. Len(l) : k[i] = l[i]
      BY <2>5, <2>6
    <3>2. IsInjective(k)
      BY <2>5, <2>6, <3>1 DEF IsInjective, ToSet
    <3>3. ToSet(k) = ToSet(l) \cup {list[m]}
      BY <2>5, <3>1 DEF ToSet
    <3>4. g[s] = k
      BY <2>4, <2>8
    <3> HIDE DEF k
    <3> QED
      BY <2>2, <2>5, <3>1, <3>2, <3>3, <3>4 DEF Lists
  <2> QED
    BY <2>7, <2>8
<1>5. \A s \in SUBSET (1 .. n) : s \in G
  <2> HIDE DEF G
  <2>1. G \in SUBSET (SUBSET (1 .. n))
    BY DEF G
  <2> QED
    BY <1>1, <1>3, <1>4, <2>1, LastInduction
<1>6. g[1 .. n] \in Lists
  BY <1>5
<1> QED
  BY <1>1, <1>6, WithoutIs DEF g

\* An entry of a table is a member of it.
LEMMA OfframpsOfClean ==
    ASSUME NEW t \in CleanTables, NEW c PROVE OfframpsOf(t, c) \in Lists
<1>1. PICK C \in SUBSET Chains : t \in [C -> Lists \ {<<>>}]
  BY DEF CleanTables
<1>2. <<>> \in Seq(Ramps) /\ DOMAIN <<>> = {}
  OBVIOUS
<1>3. <<>> \in Lists
  BY <1>2 DEF Lists, IsInjective
<1> QED
  BY <1>1, <1>3 DEF OfframpsOf

\* A table with a clean list more.
LEMMA SetClean ==
    ASSUME NEW t \in CleanTables, NEW c \in Chains, NEW l \in Lists, l # <<>>
    PROVE  Set(t, c, l) \in CleanTables
<1>1. PICK C \in SUBSET Chains : t \in [C -> Lists \ {<<>>}]
  BY DEF CleanTables
<1>2. Set(t, c, l) \in [C \cup {c} -> Lists \ {<<>>}]
  BY <1>1 DEF Set
<1>3. C \cup {c} \in SUBSET Chains
  BY <1>1
<1> QED
  BY <1>2, <1>3 DEF CleanTables

\* And with one less.
LEMMA DropClean ==
    ASSUME NEW t \in CleanTables, NEW c PROVE Drop(t, c) \in CleanTables
<1>1. PICK C \in SUBSET Chains : t \in [C -> Lists \ {<<>>}]
  BY DEF CleanTables
<1>2. Drop(t, c) \in [C \ {c} -> Lists \ {<<>>}]
  BY <1>1 DEF Drop
<1>3. C \ {c} \in SUBSET Chains
  BY <1>1
<1> QED
  BY <1>2, <1>3 DEF CleanTables

MaybeTables == CleanTables \cup {Failed}
RemovedNext(t, e) == IF t = Failed THEN t ELSE RemovedOfframp(t, e[1], e[2])
AddedNext(t, e) == AddedOfframp(t, e[1], e[2])

\* One removal.
LEMMA RemovedStays ==
    ASSUME NEW t \in MaybeTables, NEW e \in Entries PROVE RemovedNext(t, e) \in MaybeTables
<1>1. CASE t = Failed
  BY <1>1 DEF RemovedNext
<1>2. CASE t # Failed
  <2>1. t \in CleanTables /\ e[1] \in Chains
    BY <1>2 DEF MaybeTables, Entries
  <2>2. PICK left : left = Without(OfframpsOf(t, e[1]), e[2])
    OBVIOUS
  <2>3. left \in Lists
    BY <2>1, <2>2, OfframpsOfClean, WithoutClean
  <2>4. \/ RemovedNext(t, e) = Failed
        \/ RemovedNext(t, e) = Drop(t, e[1])
        \/ left # <<>> /\ RemovedNext(t, e) = Set(t, e[1], left)
    <3>1. PICK list : list = OfframpsOf(t, e[1])
      OBVIOUS
    <3>2. RemovedNext(t, e) = IF left = list THEN Failed
                              ELSE IF left = <<>> THEN Drop(t, e[1]) ELSE Set(t, e[1], left)
      BY <1>2, <2>2, <3>1, Zenon DEF RemovedNext, RemovedOfframp
    <3> QED
      BY <3>2, Zenon
  <2>5. Drop(t, e[1]) \in CleanTables
    BY <2>1, DropClean
  <2>6. left # <<>> => Set(t, e[1], left) \in CleanTables
    BY <2>1, <2>3, SetClean
  <2> QED
    BY <2>4, <2>5, <2>6 DEF MaybeTables
<1> QED
  BY <1>1, <1>2

\* A list with a new element.
LEMMA NewElement ==
    ASSUME NEW S, NEW l \in Seq(S), IsInjective(l), NEW x \in S, ~Contains(l, x)
    PROVE  /\ Append(l, x) \in Seq(S)
           /\ IsInjective(Append(l, x))
           /\ Append(l, x) # <<>>
           /\ ToSet(Append(l, x)) = ToSet(l) \cup {x}
<1>0. PICK k : k = Append(l, x)
  OBVIOUS
<1>1. k \in Seq(S) /\ Len(k) = Len(l) + 1 /\ k[Len(l) + 1] = x /\ \A i \in 1 .. Len(l) : k[i] = l[i]
  BY <1>0
<1>2. x \notin ToSet(l)
  BY DEF Contains, ToSet
<1>3. IsInjective(k) /\ k # <<>>
  BY <1>1, <1>2 DEF IsInjective, ToSet
<1>4. ToSet(k) = ToSet(l) \cup {x}
  BY <1>1 DEF ToSet
<1> QED
  BY <1>0, <1>1, <1>3, <1>4

\* One addition.
LEMMA AddedStays ==
    ASSUME NEW t \in CleanTables, NEW e \in Entries PROVE AddedNext(t, e) \in CleanTables
<1>1. e[1] \in Chains /\ e[2] \in Ramps
  BY DEF Entries
<1>2. PICK l : l = OfframpsOf(t, e[1])
  OBVIOUS
<1>3. l \in Seq(Ramps) /\ IsInjective(l)
  BY <1>2, OfframpsOfClean DEF Lists
<1>4. CASE Contains(l, e[2])
  BY <1>2, <1>4 DEF AddedNext, AddedOfframp
<1>5. CASE ~Contains(l, e[2])
  <2>1. PICK k : k = Append(l, e[2])
    OBVIOUS
  <2>2. k \in Lists /\ k # <<>>
    BY <1>1, <1>3, <1>5, <2>1, NewElement DEF Lists
  <2>3. AddedNext(t, e) = Set(t, e[1], k)
    BY <1>2, <1>5, <2>1 DEF AddedNext, AddedOfframp
  <2> QED
    BY <1>1, <2>2, <2>3, SetClean
<1> QED
  BY <1>4, <1>5

IsAllRemoved(table, removes, g) ==
    g = [s \in SUBSET (DOMAIN removes) |->
            IF s = {} THEN table ELSE RemovedNext(g[s \ {Max(s)}], removes[Max(s)])]

\* The removals of a batch, one after the other.
LEMMA AllRemovedIs ==
    ASSUME NEW table, NEW removes
    PROVE  AllRemoved(table, removes) = (CHOOSE g : IsAllRemoved(table, removes, g))[DOMAIN removes]
BY DEF AllRemoved, FoldLeft, MapThenFoldSet, IsAllRemoved, RemovedNext

\* The recursion has its solution.
LEMMA AllRemovedExists ==
    ASSUME NEW table \in MaybeTables, NEW removes \in Seq(Entries)
    PROVE  \E g : IsAllRemoved(table, removes, g)
<1> DEFINE n == Len(removes)
           step == [p \in (1 .. n) \X MaybeTables |-> RemovedNext(p[2], removes[p[1]])]
<1>1. n \in Nat /\ DOMAIN removes = 1 .. n /\ \A i \in 1 .. n : removes[i] \in Entries
  OBVIOUS
<1>2. \A x \in 1 .. n, v \in MaybeTables :
          step[<<x, v>>] = RemovedNext(v, removes[x]) /\ step[<<x, v>>] \in MaybeTables
  BY <1>1, RemovedStays
<1> HIDE DEF step, n
<1>3. PICK g : IsListFold(step, table, MaybeTables, n, g)
  BY <1>1, <1>2, ListFold
<1>4. ASSUME NEW s \in SUBSET (1 .. n)
      PROVE  g[s] = IF s = {} THEN table ELSE RemovedNext(g[s \ {Max(s)}], removes[Max(s)])
  <2>1. CASE s = {}
    BY <1>3, <2>1 DEF IsListFold
  <2>2. CASE s # {}
    BY <1>2, <1>3, <2>2 DEF IsListFold
  <2> QED
    BY <2>1, <2>2
<1>5. PICK D : D = 1 .. n
  OBVIOUS
<1>6. g = [s \in SUBSET D |-> g[s]] /\ DOMAIN removes = D
  BY <1>1, <1>3, <1>5 DEF IsListFold
<1>7. \A s \in SUBSET D :
          g[s] = IF s = {} THEN table ELSE RemovedNext(g[s \ {Max(s)}], removes[Max(s)])
  BY <1>4, <1>5
<1>8. IsAllRemoved(table, removes, g)
  BY <1>6, <1>7 DEF IsAllRemoved
<1> QED
  BY <1>8

\* Any number of removals leaves a clean table, or fails.
LEMMA AllRemovedStays ==
    ASSUME NEW table \in MaybeTables, NEW removes \in Seq(Entries)
    PROVE  AllRemoved(table, removes) \in MaybeTables
<1> DEFINE n == Len(removes)
           g == CHOOSE f : IsAllRemoved(table, removes, f)
           G == {s \in SUBSET (1 .. n) : g[s] \in MaybeTables}
<1>1. n \in Nat /\ DOMAIN removes = 1 .. n /\ \A i \in 1 .. n : removes[i] \in Entries
  OBVIOUS
<1>2. IsAllRemoved(table, removes, g)
  BY AllRemovedExists
<1> HIDE DEF g, n
<1>3. {} \in G
  BY <1>1, <1>2 DEF IsAllRemoved
<1>4. ASSUME NEW s \in SUBSET (1 .. n), s # {}, s \ {Max(s)} \in G PROVE s \in G
  <2>1. Max(s) \in s
    BY <1>1, <1>4, LastPicks DEF Picks, LastOf
  <2>2. g[s] = RemovedNext(g[s \ {Max(s)}], removes[Max(s)])
    BY <1>1, <1>2, <1>4 DEF IsAllRemoved
  <2> QED
    BY <1>1, <1>4, <2>1, <2>2, RemovedStays
<1>5. \A s \in SUBSET (1 .. n) : s \in G
  <2> HIDE DEF G
  <2>1. G \in SUBSET (SUBSET (1 .. n))
    BY DEF G
  <2> QED
    BY <1>1, <1>3, <1>4, <2>1, LastInduction
<1> QED
  BY <1>1, <1>5, AllRemovedIs DEF g

IsAllAdded(table, adds, g) ==
    g = [s \in SUBSET (DOMAIN adds) |->
            IF s = {} THEN table ELSE AddedNext(g[s \ {Max(s)}], adds[Max(s)])]

\* The additions of a batch, one after the other.
LEMMA AllAddedIs ==
    ASSUME NEW table, NEW adds
    PROVE  AllAdded(table, adds) = (CHOOSE g : IsAllAdded(table, adds, g))[DOMAIN adds]
BY DEF AllAdded, FoldLeft, MapThenFoldSet, IsAllAdded, AddedNext

\* The recursion has its solution.
LEMMA AllAddedExists ==
    ASSUME NEW table \in CleanTables, NEW adds \in Seq(Entries)
    PROVE  \E g : IsAllAdded(table, adds, g)
<1> DEFINE n == Len(adds)
           step == [p \in (1 .. n) \X CleanTables |-> AddedNext(p[2], adds[p[1]])]
<1>1. n \in Nat /\ DOMAIN adds = 1 .. n /\ \A i \in 1 .. n : adds[i] \in Entries
  OBVIOUS
<1>2. \A x \in 1 .. n, v \in CleanTables :
          step[<<x, v>>] = AddedNext(v, adds[x]) /\ step[<<x, v>>] \in CleanTables
  BY <1>1, AddedStays
<1> HIDE DEF step, n
<1>3. PICK g : IsListFold(step, table, CleanTables, n, g)
  BY <1>1, <1>2, ListFold
<1>4. ASSUME NEW s \in SUBSET (1 .. n)
      PROVE  g[s] = IF s = {} THEN table ELSE AddedNext(g[s \ {Max(s)}], adds[Max(s)])
  <2>1. CASE s = {}
    BY <1>3, <2>1 DEF IsListFold
  <2>2. CASE s # {}
    BY <1>2, <1>3, <2>2 DEF IsListFold
  <2> QED
    BY <2>1, <2>2
<1>5. PICK D : D = 1 .. n
  OBVIOUS
<1>6. g = [s \in SUBSET D |-> g[s]] /\ DOMAIN adds = D
  BY <1>1, <1>3, <1>5 DEF IsListFold
<1>7. \A s \in SUBSET D :
          g[s] = IF s = {} THEN table ELSE AddedNext(g[s \ {Max(s)}], adds[Max(s)])
  BY <1>4, <1>5
<1>8. IsAllAdded(table, adds, g)
  BY <1>6, <1>7 DEF IsAllAdded
<1> QED
  BY <1>8

\* Any number of additions leaves a clean table.
LEMMA AllAddedStays ==
    ASSUME NEW table \in CleanTables, NEW adds \in Seq(Entries)
    PROVE  AllAdded(table, adds) \in CleanTables
<1> DEFINE n == Len(adds)
           g == CHOOSE f : IsAllAdded(table, adds, f)
           G == {s \in SUBSET (1 .. n) : g[s] \in CleanTables}
<1>1. n \in Nat /\ DOMAIN adds = 1 .. n /\ \A i \in 1 .. n : adds[i] \in Entries
  OBVIOUS
<1>2. IsAllAdded(table, adds, g)
  BY AllAddedExists
<1> HIDE DEF g, n
<1>3. {} \in G
  BY <1>1, <1>2 DEF IsAllAdded
<1>4. ASSUME NEW s \in SUBSET (1 .. n), s # {}, s \ {Max(s)} \in G PROVE s \in G
  <2>1. Max(s) \in s
    BY <1>1, <1>4, LastPicks DEF Picks, LastOf
  <2>2. g[s] = AddedNext(g[s \ {Max(s)}], adds[Max(s)])
    BY <1>1, <1>2, <1>4 DEF IsAllAdded
  <2> QED
    BY <1>1, <1>4, <2>1, <2>2, AddedStays
<1>5. \A s \in SUBSET (1 .. n) : s \in G
  <2> HIDE DEF G
  <2>1. G \in SUBSET (SUBSET (1 .. n))
    BY DEF G
  <2> QED
    BY <1>1, <1>3, <1>4, <2>1, LastInduction
<1> QED
  BY <1>1, <1>5, AllAddedIs DEF g

-----------------------------------------------------------------------------
(* The registry's maps and lists of keys.                                  *)

Keyed(K, W) ==
    {t \in [map : UNION {[C -> W] : C \in SUBSET K}, keys : Seq(K)] :
        IsInjective(t.keys) /\ ToSet(t.keys) = DOMAIN t.map}
UpdatedNext(t, u) == Updated(t, u[1], u[2])

\* A list with no element twice, without the first that equals e.
LEMMA RemoveFirstExact ==
    ASSUME NEW S, NEW l \in Seq(S), IsInjective(l), NEW e
    PROVE  /\ RemoveFirst(l, e) \in Seq(S) /\ IsInjective(RemoveFirst(l, e))
           /\ ToSet(RemoveFirst(l, e)) = ToSet(l) \ {e}
<1> DEFINE n == Len(l)
           I == {i \in 1 .. n : l[i] = e}
<1>0. n \in Nat /\ DOMAIN l = 1 .. n /\ \A i \in 1 .. n : l[i] \in S
  OBVIOUS
<1>1. CASE I = {}
  <2>1. RemoveFirst(l, e) = l
    BY <1>1 DEF RemoveFirst
  <2>2. e \notin ToSet(l)
    BY <1>0, <1>1 DEF ToSet
  <2> QED
    BY <2>1, <2>2
<1>2. CASE I # {}
  <2>1. Min(I) \in I
    <3> HIDE DEF n
    <3>1. I \in SUBSET (1 .. n)
      OBVIOUS
    <3> HIDE DEF I
    <3> QED
      BY <1>0, <1>2, <3>1, MinIsIn
  <2>2. PICK m \in 1 .. n : m = Min(I) /\ l[m] = e
    BY <2>1
  <2>3. SelectInSeq(l, LAMBDA v : v = e) = m
    BY <1>2, <2>2 DEF SelectInSeq
  <2>4. RemoveFirst(l, e) = SubSeq(l, 1, m - 1) \o SubSeq(l, m + 1, n)
    BY <2>2, <2>3 DEF RemoveFirst, RemoveAt
  <2> DEFINE k == SubSeq(l, 1, m - 1) \o SubSeq(l, m + 1, n)
  <2>5. /\ k \in Seq(S) /\ Len(k) = n - 1
        /\ \A i \in 1 .. (n - 1) : k[i] = IF i < m THEN l[i] ELSE l[i + 1]
    <3>1. PICK a : a = SubSeq(l, 1, m - 1)
      OBVIOUS
    <3>2. PICK b : b = SubSeq(l, m + 1, n)
      OBVIOUS
    <3>3. a \in Seq(S) /\ Len(a) = m - 1 /\ \A i \in 1 .. (m - 1) : a[i] = l[i]
      <4> HIDE DEF n, I, k
      <4>1. m - 1 \in Int /\ \A i \in 1 .. (m - 1) : l[i] \in S
        BY <1>0, <2>2
      <4>2. SubSeq(l, 1, m - 1) \in Seq(S)
            /\ Len(SubSeq(l, 1, m - 1)) = (IF 1 <= m - 1 THEN (m - 1) - 1 + 1 ELSE 0)
            /\ \A i \in 1 .. (m - 1) - 1 + 1 : SubSeq(l, 1, m - 1)[i] = l[1 + i - 1]
        BY <4>1, SubSeqProperties
      <4> QED
        BY <1>0, <2>2, <3>1, <4>2
    <3>4. b \in Seq(S) /\ Len(b) = n - m /\ \A i \in 1 .. (n - m) : b[i] = l[m + i]
      <4> HIDE DEF n, I, k
      <4>1. m + 1 \in Int /\ n \in Int /\ \A i \in (m + 1) .. n : l[i] \in S
        BY <1>0, <2>2
      <4>2. SubSeq(l, m + 1, n) \in Seq(S)
            /\ Len(SubSeq(l, m + 1, n)) = (IF m + 1 <= n THEN n - (m + 1) + 1 ELSE 0)
            /\ \A i \in 1 .. n - (m + 1) + 1 : SubSeq(l, m + 1, n)[i] = l[(m + 1) + i - 1]
        BY <4>1, SubSeqProperties
      <4> QED
        BY <1>0, <2>2, <3>2, <4>2
    <3>5. k = a \o b
      BY <3>1, <3>2
    <3> HIDE DEF k, n
    <3>6. /\ a \o b \in Seq(S) /\ Len(a \o b) = Len(a) + Len(b)
          /\ \A i \in 1 .. Len(a) + Len(b) :
                (a \o b)[i] = IF i <= Len(a) THEN a[i] ELSE b[i - Len(a)]
      BY <3>3, <3>4, ConcatProperties
    <3>7. k \in Seq(S) /\ Len(k) = n - 1
      BY <1>0, <2>2, <3>3, <3>4, <3>5, <3>6
    <3>8. ASSUME NEW i \in 1 .. (n - 1) PROVE k[i] = IF i < m THEN l[i] ELSE l[i + 1]
      <4>1. k[i] = IF i <= m - 1 THEN a[i] ELSE b[i - (m - 1)]
        <5>1. i \in 1 .. Len(a) + Len(b) /\ Len(a) = m - 1
          BY <1>0, <2>2, <3>3, <3>4
        <5>2. (a \o b)[i] = IF i <= Len(a) THEN a[i] ELSE b[i - Len(a)]
          BY <3>6, <5>1
        <5> QED
          BY <3>5, <5>1, <5>2
      <4>2. CASE i < m
        BY <1>0, <2>2, <3>3, <4>1, <4>2
      <4>3. CASE ~(i < m)
        <5>1. i - (m - 1) \in 1 .. (n - m) /\ m + (i - (m - 1)) = i + 1 /\ ~(i <= m - 1)
          BY <1>0, <2>2, <4>3
        <5> QED
          BY <3>4, <4>1, <4>3, <5>1
      <4> QED
        BY <4>2, <4>3
    <3> QED
      BY <3>7, <3>8
  <2> HIDE DEF k, n, I
  <2>6. IsInjective(k)
    <3>1. DOMAIN k = 1 .. (n - 1)
      BY <1>0, <2>5
    <3> SUFFICES ASSUME NEW i \in 1 .. (n - 1), NEW j \in 1 .. (n - 1), k[i] = k[j] PROVE i = j
      BY <3>1 DEF IsInjective
    <3>2. PICK x \in 1 .. n : x = IF i < m THEN i ELSE i + 1
      BY <1>0, <2>2
    <3>3. PICK y \in 1 .. n : y = IF j < m THEN j ELSE j + 1
      BY <1>0, <2>2
    <3>4. l[x] = l[y]
      BY <2>5, <3>2, <3>3
    <3>5. x = y
      BY <1>0, <3>4 DEF IsInjective
    <3> QED
      BY <1>0, <2>2, <3>2, <3>3, <3>5
  <2>7. ToSet(k) = ToSet(l) \ {e}
    <3>1. DOMAIN k = 1 .. (n - 1)
      BY <1>0, <2>5
    <3>2. ASSUME NEW x \in ToSet(k) PROVE x \in ToSet(l) \ {e}
      <4>1. PICK i \in 1 .. (n - 1) : x = k[i]
        BY <3>1 DEF ToSet
      <4>2. PICK j \in 1 .. n : x = l[j] /\ j # m
        BY <1>0, <2>2, <2>5, <4>1
      <4> QED
        BY <1>0, <2>2, <4>2 DEF ToSet, IsInjective
    <3>3. ASSUME NEW x \in ToSet(l) \ {e} PROVE x \in ToSet(k)
      <4>1. PICK j \in 1 .. n : x = l[j] /\ j # m
        BY <1>0, <2>2 DEF ToSet
      <4>2. PICK i \in 1 .. (n - 1) : i = IF j < m THEN j ELSE j - 1
        BY <1>0, <2>2, <4>1
      <4>3. k[i] = x
        BY <1>0, <2>2, <2>5, <4>1, <4>2
      <4> QED
        BY <3>1, <4>3 DEF ToSet
    <3> QED
      BY <3>2, <3>3
  <2> QED
    BY <2>4, <2>5, <2>6, <2>7 DEF k
<1> QED
  BY <1>1, <1>2

\* A map and the list of its keys make a table.
LEMMA IsKeyed ==
    ASSUME NEW K, NEW W, NEW C \in SUBSET K, NEW f \in [C -> W], NEW k \in Seq(K),
           IsInjective(k), ToSet(k) = C
    PROVE  [map |-> f, keys |-> k] \in Keyed(K, W)
<1>1. PICK M : M = UNION {[D -> W] : D \in SUBSET K}
  OBVIOUS
<1>2. f \in M /\ DOMAIN f = C
  BY <1>1
<1>3. PICK t : t = [map |-> f, keys |-> k]
  OBVIOUS
<1>4. t \in [map : M, keys : Seq(K)] /\ t.map = f /\ t.keys = k
  BY <1>2, <1>3
<1>5. IsInjective(t.keys) /\ ToSet(t.keys) = DOMAIN t.map
  BY <1>2, <1>4
<1> QED
  BY <1>1, <1>3, <1>4, <1>5 DEF Keyed

\* One update.
LEMMA UpdatedStays ==
    ASSUME NEW K, NEW W, NEW t \in Keyed(K, W), NEW u \in K \X (W \cup {None})
    PROVE  UpdatedNext(t, u) \in Keyed(K, W)
<1>1. PICK C \in SUBSET K : t.map \in [C -> W]
  BY DEF Keyed
<1>2. t.keys \in Seq(K) /\ IsInjective(t.keys) /\ ToSet(t.keys) = C
  BY <1>1 DEF Keyed
<1>3. u[1] \in K /\ u[2] \in W \cup {None}
  OBVIOUS
<1>4. CASE u[2] = None
  <2>1. UpdatedNext(t, u) = [map |-> Drop(t.map, u[1]), keys |-> RemoveFirst(t.keys, u[1])]
    BY <1>4 DEF UpdatedNext, Updated
  <2>2. Drop(t.map, u[1]) \in [C \ {u[1]} -> W]
    BY <1>1 DEF Drop
  <2>3. PICK k : k = RemoveFirst(t.keys, u[1])
    OBVIOUS
  <2>4. k \in Seq(K) /\ IsInjective(k) /\ ToSet(k) = C \ {u[1]}
    BY <1>2, <2>3, RemoveFirstExact
  <2>5. C \ {u[1]} \in SUBSET K
    BY <1>1
  <2>6. PICK f : f = Drop(t.map, u[1])
    OBVIOUS
  <2>7. PICK D : D = C \ {u[1]}
    OBVIOUS
  <2>8. D \in SUBSET K /\ f \in [D -> W] /\ k \in Seq(K) /\ IsInjective(k) /\ ToSet(k) = D
    BY <2>2, <2>4, <2>5, <2>6, <2>7
  <2>9. [map |-> f, keys |-> k] \in Keyed(K, W)
    BY <2>8, IsKeyed
  <2> QED
    BY <2>1, <2>3, <2>6, <2>9
<1>5. CASE u[2] # None
  <2>1. PICK k : k = IF Contains(t.keys, u[1]) THEN t.keys ELSE Append(t.keys, u[1])
    OBVIOUS
  <2>2. UpdatedNext(t, u) = [map |-> Set(t.map, u[1], u[2]), keys |-> k]
    BY <1>5, <2>1 DEF UpdatedNext, Updated
  <2>3. Set(t.map, u[1], u[2]) \in [C \cup {u[1]} -> W]
    BY <1>1, <1>3, <1>5 DEF Set
  <2>4. k \in Seq(K) /\ IsInjective(k) /\ ToSet(k) = C \cup {u[1]}
    <3>1. CASE Contains(t.keys, u[1])
      <4>1. u[1] \in ToSet(t.keys)
        BY <1>2, <3>1 DEF Contains, ToSet
      <4> QED
        BY <1>2, <2>1, <3>1, <4>1
    <3>2. CASE ~Contains(t.keys, u[1])
      BY <1>2, <1>3, <2>1, <3>2, NewElement
    <3> QED
      BY <3>1, <3>2
  <2>5. C \cup {u[1]} \in SUBSET K
    BY <1>1, <1>3
  <2>6. PICK f : f = Set(t.map, u[1], u[2])
    OBVIOUS
  <2>7. PICK D : D = C \cup {u[1]}
    OBVIOUS
  <2>8. D \in SUBSET K /\ f \in [D -> W] /\ k \in Seq(K) /\ IsInjective(k) /\ ToSet(k) = D
    BY <2>3, <2>4, <2>5, <2>6, <2>7
  <2>9. [map |-> f, keys |-> k] \in Keyed(K, W)
    BY <2>8, IsKeyed
  <2> QED
    BY <2>2, <2>6, <2>9
<1> QED
  BY <1>4, <1>5

IsApplyUpdates(table, updates, g) ==
    g = [s \in SUBSET (DOMAIN updates) |->
            IF s = {} THEN table ELSE UpdatedNext(g[s \ {Max(s)}], updates[Max(s)])]

\* apply_updates, one update after the other.
LEMMA ApplyUpdatesIs ==
    ASSUME NEW table, NEW updates
    PROVE  ApplyUpdates(table, updates) = (CHOOSE g : IsApplyUpdates(table, updates, g))[DOMAIN updates]
BY DEF ApplyUpdates, FoldLeft, MapThenFoldSet, IsApplyUpdates, UpdatedNext

\* The recursion has its solution.
LEMMA ApplyUpdatesExists ==
    ASSUME NEW K, NEW W, NEW table \in Keyed(K, W), NEW updates \in Seq(K \X (W \cup {None}))
    PROVE  \E g : IsApplyUpdates(table, updates, g)
<1> DEFINE n == Len(updates)
           step == [p \in (1 .. n) \X Keyed(K, W) |-> UpdatedNext(p[2], updates[p[1]])]
<1>1. n \in Nat /\ DOMAIN updates = 1 .. n /\ \A i \in 1 .. n : updates[i] \in (K \X (W \cup {None}))
  OBVIOUS
<1>2. \A x \in 1 .. n, v \in Keyed(K, W) :
          step[<<x, v>>] = UpdatedNext(v, updates[x]) /\ step[<<x, v>>] \in Keyed(K, W)
  BY <1>1, UpdatedStays
<1> HIDE DEF step, n
<1>3. PICK g : IsListFold(step, table, Keyed(K, W), n, g)
  BY <1>1, <1>2, ListFold
<1>4. ASSUME NEW s \in SUBSET (1 .. n)
      PROVE  g[s] = IF s = {} THEN table ELSE UpdatedNext(g[s \ {Max(s)}], updates[Max(s)])
  <2>1. CASE s = {}
    BY <1>3, <2>1 DEF IsListFold
  <2>2. CASE s # {}
    BY <1>2, <1>3, <2>2 DEF IsListFold
  <2> QED
    BY <2>1, <2>2
<1>5. PICK D : D = 1 .. n
  OBVIOUS
<1>6. g = [s \in SUBSET D |-> g[s]] /\ DOMAIN updates = D
  BY <1>1, <1>3, <1>5 DEF IsListFold
<1>7. \A s \in SUBSET D :
          g[s] = IF s = {} THEN table ELSE UpdatedNext(g[s \ {Max(s)}], updates[Max(s)])
  BY <1>4, <1>5
<1>8. IsApplyUpdates(table, updates, g)
  BY <1>6, <1>7 DEF IsApplyUpdates
<1> QED
  BY <1>8

\* After any batch, whatever keys it names twice, the keys are those of the map.
LEMMA ApplyUpdatesStays ==
    ASSUME NEW K, NEW W, NEW table \in Keyed(K, W), NEW updates \in Seq(K \X (W \cup {None}))
    PROVE  ApplyUpdates(table, updates) \in Keyed(K, W)
<1> DEFINE n == Len(updates)
           g == CHOOSE f : IsApplyUpdates(table, updates, f)
           G == {s \in SUBSET (1 .. n) : g[s] \in Keyed(K, W)}
<1>1. n \in Nat /\ DOMAIN updates = 1 .. n /\ \A i \in 1 .. n : updates[i] \in (K \X (W \cup {None}))
  OBVIOUS
<1>2. IsApplyUpdates(table, updates, g)
  BY ApplyUpdatesExists
<1> HIDE DEF g, n
<1>3. {} \in G
  BY <1>1, <1>2 DEF IsApplyUpdates
<1>4. ASSUME NEW s \in SUBSET (1 .. n), s # {}, s \ {Max(s)} \in G PROVE s \in G
  <2>1. Max(s) \in s
    BY <1>1, <1>4, LastPicks DEF Picks, LastOf
  <2>2. g[s] = UpdatedNext(g[s \ {Max(s)}], updates[Max(s)])
    BY <1>1, <1>2, <1>4 DEF IsApplyUpdates
  <2> QED
    BY <1>1, <1>4, <2>1, <2>2, UpdatedStays
<1>5. \A s \in SUBSET (1 .. n) : s \in G
  <2> HIDE DEF G
  <2>1. G \in SUBSET (SUBSET (1 .. n))
    BY DEF G
  <2> QED
    BY <1>1, <1>3, <1>4, <2>1, LastInduction
<1> QED
  BY <1>1, <1>5, ApplyUpdatesIs DEF g

-----------------------------------------------------------------------------
(* The Router and the registry keep their tables in order.                 *)

RampsInv ==
    /\ offramps \in CleanTables
    /\ regOnramps \in Keyed(Chains, Ramps)
    /\ regOfframps \in Keyed(Entries, {"enabled"})

\* A batch is a list.
LEMMA BatchIsList == ASSUME NEW S, NEW b \in Batches(S) PROVE b \in Seq(S)
<1>1. PICK n \in 0 .. MaxBatch : b \in [1 .. n -> S]
  BY DEF Batches
<1>2. n \in Nat
  BY <1>1, RampsAssumption
<1> QED
  BY <1>1, <1>2

\* A failure is no table.
LEMMA FailedIsNone == Failed \notin CleanTables
<1> SUFFICES ASSUME Failed \in CleanTables PROVE FALSE
  OBVIOUS
<1>1. PICK C \in SUBSET Chains : Failed \in [C -> Lists \ {<<>>}]
  BY DEF CleanTables
<1>2. PICK f : f = Failed
  OBVIOUS
<1>3. DOMAIN f = {"failed"} /\ f["failed"] = <<>>
  BY <1>2 DEF Failed
<1> QED
  BY <1>1, <1>2, <1>3

\* Empty tables are in order.
LEMMA RampsStart == RampsInit => RampsInv
<1> SUFFICES ASSUME RampsInit PROVE RampsInv
  OBVIOUS
<1>1. \A W : Empty \in [{} -> W]
  BY DEF Empty
<1>2. offramps \in CleanTables
  <2>1. offramps \in [{} -> Lists \ {<<>>}] /\ {} \in SUBSET Chains
    BY <1>1 DEF RampsInit
  <2> QED
    BY <2>1 DEF CleanTables
<1>3. \A S : <<>> \in Seq(S)
  OBVIOUS
<1>4. DOMAIN <<>> = {}
  OBVIOUS
<1>5. IsInjective(<<>>) /\ ToSet(<<>>) = {}
  BY <1>4 DEF IsInjective, ToSet
<1>6. PICK none : none = <<>>
  OBVIOUS
<1>7. \A K, W : [map |-> Empty, keys |-> none] \in Keyed(K, W)
  <2> SUFFICES ASSUME NEW K, NEW W PROVE [map |-> Empty, keys |-> none] \in Keyed(K, W)
    OBVIOUS
  <2>1. PICK C : C = {}
    OBVIOUS
  <2>2. C \in SUBSET K /\ Empty \in [C -> W] /\ none \in Seq(K) /\ IsInjective(none) /\ ToSet(none) = C
    BY <1>1, <1>3, <1>5, <1>6, <2>1
  <2> QED
    BY <2>2, IsKeyed
<1> QED
  BY <1>2, <1>6, <1>7 DEF RampsInit, RampsInv

\* Every call of the two owners keeps them so.
LEMMA RampsStep ==
    ASSUME RampsInv, RouterNext \/ RegistryNext PROVE RampsInv'
<1>0. offramps \in CleanTables /\ offramps # Failed /\ offramps \in MaybeTables
  BY FailedIsNone DEF RampsInv, MaybeTables
<1>1. ASSUME NEW c \in Chains, NEW ramp \in Ramps, SetOnramp(c, ramp) PROVE RampsInv'
  BY <1>1 DEF SetOnramp, registryVars, RampsInv
<1>2. ASSUME NEW c \in Chains, NEW ramp \in Ramps, AddOfframp(c, ramp) PROVE RampsInv'
  <2>1. PICK e \in Entries : e = <<c, ramp>>
    BY DEF Entries
  <2>2. offramps' = AddedNext(offramps, e)
    BY <1>2, <2>1 DEF AddOfframp, AddedNext
  <2>3. offramps' \in CleanTables
    BY <1>0, <2>2, AddedStays
  <2> QED
    BY <1>2, <2>3 DEF AddOfframp, registryVars, RampsInv
<1>3. ASSUME NEW c \in Chains, NEW ramp \in Ramps, RemoveOfframp(c, ramp) PROVE RampsInv'
  <2>1. PICK e \in Entries : e = <<c, ramp>>
    BY DEF Entries
  <2>2. offramps' = RemovedNext(offramps, e) /\ offramps' # Failed
    BY <1>0, <1>3, <2>1 DEF RemoveOfframp, RemovedNext
  <2>3. offramps' \in CleanTables
    BY <1>0, <2>2, RemovedStays DEF MaybeTables
  <2> QED
    BY <1>3, <2>3 DEF RemoveOfframp, registryVars, RampsInv
<1>4. ASSUME NEW sets \in Batches(Entries), NEW removes \in Batches(Entries),
             NEW adds \in Batches(Entries), ApplyRampUpdates(sets, removes, adds)
      PROVE  RampsInv'
  <2>1. removes \in Seq(Entries) /\ adds \in Seq(Entries)
    BY BatchIsList
  <2>2. AllRemoved(offramps, removes) \in MaybeTables /\ AllRemoved(offramps, removes) # Failed
    BY <1>0, <1>4, <2>1, AllRemovedStays DEF ApplyRampUpdates
  <2>3. AllRemoved(offramps, removes) \in CleanTables
    BY <2>2 DEF MaybeTables
  <2>4. offramps' \in CleanTables
    BY <1>4, <2>1, <2>3, AllAddedStays DEF ApplyRampUpdates
  <2> QED
    BY <1>4, <2>4 DEF ApplyRampUpdates, registryVars, RampsInv
<1>5. ASSUME NEW updates \in Batches(Chains \X (Ramps \cup {None})), ApplyOnrampUpdates(updates)
      PROVE  RampsInv'
  <2>1. updates \in Seq(Chains \X (Ramps \cup {None}))
    BY BatchIsList
  <2>2. regOnramps' \in Keyed(Chains, Ramps)
    BY <1>5, <2>1, ApplyUpdatesStays DEF ApplyOnrampUpdates, RampsInv
  <2> QED
    BY <1>5, <2>2 DEF ApplyOnrampUpdates, routerVars, RampsInv
<1>6. ASSUME NEW updates \in Batches(Entries \X {"enabled", None}), ApplyOfframpUpdates(updates)
      PROVE  RampsInv'
  <2>1. PICK W : W = {"enabled"}
    OBVIOUS
  <2>2. {"enabled", None} = W \cup {None}
    BY <2>1
  <2>3. updates \in Seq(Entries \X (W \cup {None}))
    BY <2>2, BatchIsList
  <2>4. regOfframps \in Keyed(Entries, W)
    BY <2>1 DEF RampsInv
  <2>5. ApplyUpdates(regOfframps, updates) \in Keyed(Entries, W)
    BY <2>3, <2>4, ApplyUpdatesStays
  <2>6. regOfframps' \in Keyed(Entries, {"enabled"})
    BY <1>6, <2>1, <2>5 DEF ApplyOfframpUpdates
  <2> QED
    BY <1>6, <2>6 DEF ApplyOfframpUpdates, routerVars, RampsInv
<1> QED
  BY <1>1, <1>2, <1>3, <1>4, <1>5, <1>6 DEF RouterNext, RegistryNext

\* In order, the tables list what they hold.
LEMMA RampsExact == ASSUME RampsInv PROVE OfframpListsClean /\ RegistryListsAll
<1>1. ASSUME NEW c \in DOMAIN offramps PROVE offramps[c] # <<>> /\ IsInjective(offramps[c])
  <2>1. PICK C \in SUBSET Chains : offramps \in [C -> Lists \ {<<>>}]
    BY DEF RampsInv, CleanTables
  <2>2. offramps[c] \in Lists \ {<<>>}
    BY <2>1
  <2> QED
    BY <2>2 DEF Lists
<1>2. RegistryListsAll
  BY DEF RampsInv, Keyed, RegistryListsAll
<1> QED
  BY <1>1, <1>2 DEF OfframpListsClean

-----------------------------------------------------------------------------
(* The token admin registry: its configurations, its index and a reader.   *)

TokenConfig ==
    [administrator : People \cup {Nobody}, pending_administrator : People \cup {Nobody},
     token_pool : Pools \cup {Nobody}]

\* Everything is in its type, and an administrator's successor is the one he named.
ConfigsInv ==
    /\ tokenConfig \in [Tokens -> TokenConfig]
    /\ index \in Seq(Tokens)
    /\ named \in [Tokens -> People \cup {Nobody}]
    /\ IndexExact
    /\ \A t \in Tokens :
          /\ tokenConfig[t].administrator # Nobody
          /\ tokenConfig[t].pending_administrator # Nobody
          => tokenConfig[t].pending_administrator = named[t]

\* What a reader r has got so far of the index ix: what r.since lists before its place, and
\* otherwise only what stands before it, nothing twice.
Reads(r, ix) ==
    /\ r \in [reads : BOOLEAN, at : Nat, got : Seq(Tokens), since : Seq(Tokens), over : BOOLEAN]
    /\ Len(r.since) <= Len(ix) /\ \A i \in 1 .. Len(r.since) : r.since[i] = ix[i]
    /\ IsInjective(r.got)
    /\ \A k \in 1 .. Len(r.got) : \E j \in 1 .. Len(ix) : j <= r.at /\ r.got[k] = ix[j]
    /\ r.at <= Len(r.since) => Len(r.got) = r.at
    /\ \A i \in 1 .. Len(r.since) : i <= r.at => i <= Len(r.got) /\ r.got[i] = r.since[i]
    /\ r.over => r.at > Len(r.since)

TokensInv == ConfigsInv /\ Reads(reader, index) /\ TransferOnce

\* Some token has a field of its configuration changed.
LEMMA ConfigTyped ==
    ASSUME NEW a \in People \cup {Nobody}, NEW p \in People \cup {Nobody}, NEW q \in Pools \cup {Nobody}
    PROVE  [administrator |-> a, pending_administrator |-> p, token_pool |-> q] \in TokenConfig
BY DEF TokenConfig

\* A reader that has not begun.
LEMMA IdleReads == ASSUME NEW ix \in Seq(Tokens) PROVE Reads(Idle, ix)
<1>1. PICK none : none = <<>>
  OBVIOUS
<1>2. none \in Seq(Tokens) /\ Len(none) = 0 /\ DOMAIN none = {}
  BY <1>1
<1>3. Len(ix) \in Nat
  OBVIOUS
<1>4. IsInjective(none)
  BY <1>2 DEF IsInjective
<1>5. PICK r : r = [reads |-> FALSE, at |-> 0, got |-> none, since |-> none, over |-> FALSE]
  OBVIOUS
<1>6. /\ r \in [reads : BOOLEAN, at : Nat, got : Seq(Tokens), since : Seq(Tokens), over : BOOLEAN]
      /\ r.at = 0 /\ r.got = none /\ r.since = none /\ r.over = FALSE
  BY <1>2, <1>5
<1>7. Reads(r, ix)
  BY <1>2, <1>3, <1>4, <1>6 DEF Reads
<1> QED
  BY <1>1, <1>5, <1>7 DEF Idle

\* A reader that begins.
LEMMA StartReads ==
    ASSUME NEW ix \in Seq(Tokens) PROVE Reads([Idle EXCEPT !.reads = TRUE, !.since = ix], ix)
<1>1. PICK none : none = <<>>
  OBVIOUS
<1>2. none \in Seq(Tokens) /\ Len(none) = 0 /\ DOMAIN none = {}
  BY <1>1
<1>3. Len(ix) \in Nat
  OBVIOUS
<1>4. IsInjective(none)
  BY <1>2 DEF IsInjective
<1>5. PICK idle : idle = [reads |-> FALSE, at |-> 0, got |-> none, since |-> none, over |-> FALSE]
  OBVIOUS
<1>6. idle = Idle
  BY <1>1, <1>5 DEF Idle
<1>7. PICK r : r = [idle EXCEPT !.reads = TRUE, !.since = ix]
  OBVIOUS
<1>8. /\ r \in [reads : BOOLEAN, at : Nat, got : Seq(Tokens), since : Seq(Tokens), over : BOOLEAN]
      /\ r.at = 0 /\ r.got = none /\ r.since = ix /\ r.over = FALSE
  BY <1>2, <1>5, <1>7
<1>9. Reads(r, ix)
  BY <1>2, <1>3, <1>4, <1>8 DEF Reads
<1> QED
  BY <1>6, <1>7, <1>9

\* The index grows behind a reader's back.
LEMMA GrownReads ==
    ASSUME NEW ix \in Seq(Tokens), NEW t \in Tokens, NEW r, Reads(r, ix)
    PROVE  Reads(r, Append(ix, t))
<1>1. PICK k : k = Append(ix, t)
  OBVIOUS
<1>2. Len(k) = Len(ix) + 1 /\ \A i \in 1 .. Len(ix) : k[i] = ix[i]
  BY <1>1
<1>3. Len(ix) \in Nat /\ Len(r.since) \in Nat
  BY DEF Reads
<1>4. Len(r.since) <= Len(k) /\ \A i \in 1 .. Len(r.since) : r.since[i] = k[i]
  BY <1>2, <1>3 DEF Reads
<1>5. ASSUME NEW i \in 1 .. Len(r.got) PROVE \E j \in 1 .. Len(k) : j <= r.at /\ r.got[i] = k[j]
  <2>1. PICK j \in 1 .. Len(ix) : j <= r.at /\ r.got[i] = ix[j]
    BY DEF Reads
  <2> QED
    BY <1>2, <1>3, <2>1
<1>6. Reads(r, k)
  BY <1>4, <1>5 DEF Reads
<1> QED
  BY <1>1, <1>6

\* The page at a place of an index: the entries after it, up to the page's size.
LEMMA PageIs ==
    ASSUME index \in Seq(Tokens), NEW at \in Nat, NEW size \in Nat \ {0}
    PROVE  LET end == IF size + at > Len(index) THEN Len(index) ELSE at + size
               page == Page(at, size)
           IN  /\ page \in Seq(Tokens)
               /\ Len(page) = IF at < end THEN end - at ELSE 0
               /\ \A i \in 1 .. Len(page) : page[i] = index[at + i]
<1> DEFINE n == Len(index)
<1>0. n \in Nat /\ \A i \in 1 .. n : index[i] \in Tokens
  OBVIOUS
<1>1. PICK end \in Nat : end = IF size + at > n THEN n ELSE at + size
  BY <1>0
<1>2. PICK page : page = SubSeq(index, at + 1, end)
  OBVIOUS
<1>3. Page(at, size) = page
  BY <1>1, <1>2 DEF Page
<1> HIDE DEF n
<1>4. at + 1 \in Int /\ end \in Int /\ \A i \in (at + 1) .. end : index[i] \in Tokens
  <2>1. end <= n
    BY <1>0, <1>1
  <2> QED
    BY <1>0, <2>1
<1>5. /\ page \in Seq(Tokens)
      /\ Len(page) = IF at + 1 <= end THEN end - (at + 1) + 1 ELSE 0
      /\ \A i \in 1 .. end - (at + 1) + 1 : page[i] = index[(at + 1) + i - 1]
  BY <1>2, <1>4, SubSeqProperties
<1>6. Len(page) = IF at < end THEN end - at ELSE 0
  BY <1>1, <1>5
<1>7. ASSUME NEW i \in 1 .. Len(page) PROVE page[i] = index[at + i]
  <2>1. i \in 1 .. end - (at + 1) + 1 /\ (at + 1) + i - 1 = at + i
    BY <1>1, <1>6
  <2> QED
    BY <1>5, <2>1
<1> QED
  BY <1>1, <1>3, <1>5, <1>6, <1>7 DEF n

\* A page is read.
LEMMA PageReads ==
    ASSUME index \in Seq(Tokens), IsInjective(index), NEW r, Reads(r, index), NEW size \in Nat \ {0}
    PROVE  LET page == Page(r.at, size)
           IN  Reads([r EXCEPT !.at = @ + size, !.got = @ \o page, !.over = page = <<>>], index)
<1>0. PICK n \in Nat : n = Len(index)
  OBVIOUS
<1>1. r.at \in Nat /\ r.got \in Seq(Tokens) /\ r.since \in Seq(Tokens) /\ Len(r.since) <= n
  BY <1>0 DEF Reads
<1>a. PICK at \in Nat : at = r.at
  BY <1>1
<1>b. PICK old \in Seq(Tokens) : old = r.got
  BY <1>1
<1>c. PICK since \in Seq(Tokens) : since = r.since
  BY <1>1
<1>d. PICK m \in Nat : m = Len(old)
  OBVIOUS
<1>e. PICK l \in Nat : l = Len(since) /\ l <= n
  BY <1>1, <1>c
<1>f. /\ \A i \in 1 .. l : since[i] = index[i]
      /\ IsInjective(old)
      /\ \A k \in 1 .. m : \E j \in 1 .. n : j <= at /\ old[k] = index[j]
      /\ at <= l => m = at
      /\ \A i \in 1 .. l : i <= at => i <= m /\ old[i] = since[i]
  BY <1>0, <1>a, <1>b, <1>c, <1>d, <1>e DEF Reads
<1>2. PICK page : page = Page(at, size)
  OBVIOUS
<1>3. PICK end \in Nat : end = IF size + at > n THEN n ELSE at + size
  BY <1>0, <1>a
<1>4. /\ page \in Seq(Tokens)
      /\ Len(page) = IF at < end THEN end - at ELSE 0
      /\ \A i \in 1 .. Len(page) : page[i] = index[at + i]
  BY <1>0, <1>a, <1>2, <1>3, PageIs
<1>5. PICK got : got = old \o page
  OBVIOUS
<1>6. /\ got \in Seq(Tokens) /\ Len(got) = m + Len(page)
      /\ \A i \in 1 .. Len(got) : got[i] = IF i <= m THEN old[i] ELSE page[i - m]
  <2>1. /\ old \o page \in Seq(Tokens) /\ Len(old \o page) = Len(old) + Len(page)
        /\ \A i \in 1 .. Len(old) + Len(page) :
              (old \o page)[i] = IF i <= Len(old) THEN old[i] ELSE page[i - Len(old)]
    BY <1>4, ConcatProperties
  <2> QED
    BY <1>d, <1>5, <2>1
<1>7. PICK over \in BOOLEAN : over = (page = <<>>)
  OBVIOUS
<1>8. PICK q : q = [r EXCEPT !.at = @ + size, !.got = @ \o page, !.over = page = <<>>]
  OBVIOUS
<1>9. /\ q \in [reads : BOOLEAN, at : Nat, got : Seq(Tokens), since : Seq(Tokens), over : BOOLEAN]
      /\ q.at = at + size /\ q.got = got /\ q.since = since /\ q.over = over
  <2>1. r \in [reads : BOOLEAN, at : Nat, got : Seq(Tokens), since : Seq(Tokens), over : BOOLEAN]
    BY DEF Reads
  <2>2. q = [r EXCEPT !.at = at + size, !.got = got, !.over = over]
    BY <1>a, <1>b, <1>5, <1>7, <1>8, <2>1
  <2>3. at + size \in Nat
    OBVIOUS
  <2> QED
    BY <1>c, <1>6, <2>1, <2>2, <2>3
<1>10. PICK p \in Nat : p = Len(page) /\ Len(got) = m + p
  BY <1>4, <1>6
\* Where an entry of got stands in the index: before the old place, or in the page.
<1>11. ASSUME NEW k \in 1 .. (m + p), k <= m
       PROVE  got[k] = old[k] /\ \E j \in 1 .. n : j <= at /\ got[k] = index[j]
  BY <1>0, <1>d, <1>f, <1>6, <1>10, <1>11
<1>g. ASSUME NEW k \in 1 .. (m + p), k > m
      PROVE  \E j \in 1 .. n : /\ j = at + (k - m) /\ j > at /\ j <= at + size
                               /\ got[k] = index[j]
  <2>1. k - m \in 1 .. p
    BY <1>d, <1>10, <1>g
  <2>2. got[k] = index[at + (k - m)]
    BY <1>4, <1>6, <1>10, <1>d, <1>g, <2>1
  <2>3. end <= n /\ end <= at + size
    BY <1>0, <1>a, <1>3
  <2>4. p = IF at < end THEN end - at ELSE 0
    BY <1>4, <1>10
  <2>5. at + (k - m) <= end /\ at + (k - m) > at
    <3>1. PICK d \in 1 .. p : d = k - m
      BY <2>1
    <3>2. p \in Nat /\ at \in Nat /\ end \in Nat /\ d \in Nat /\ 1 <= d /\ d <= p
      BY <1>a, <1>3, <1>10, <3>1
    <3>3. at < end /\ p = end - at
      BY <2>4, <3>2
    <3>4. at + d <= end /\ at + d > at
      BY <3>2, <3>3
    <3> QED
      BY <3>1, <3>4
  <2>6. PICK j \in 1 .. n : j = at + (k - m)
    BY <1>0, <1>a, <1>d, <1>3, <2>1, <2>3, <2>5
  <2> QED
    BY <1>0, <1>a, <1>3, <2>2, <2>3, <2>5, <2>6
<1>12. IsInjective(got)
  <2>0. DOMAIN got = 1 .. (m + p) /\ DOMAIN old = 1 .. m /\ DOMAIN index = 1 .. n
    BY <1>0, <1>d, <1>6, <1>10
  <2>1. ASSUME NEW a \in 1 .. (m + p), NEW b \in 1 .. (m + p), got[a] = got[b] PROVE a = b
    <3>1. CASE a <= m /\ b <= m
      <4>1. old[a] = old[b] /\ a \in DOMAIN old /\ b \in DOMAIN old
        BY <1>10, <1>11, <2>0, <2>1, <3>1
      <4> QED
        BY <1>f, <4>1 DEF IsInjective
    <3>2. CASE a <= m /\ b > m
      <4>1. PICK j \in 1 .. n : j <= at /\ got[a] = index[j]
        BY <1>11, <3>2
      <4>2. PICK i \in 1 .. n : i > at /\ got[b] = index[i]
        BY <1>g, <3>2
      <4> QED
        <5>1. i = j
          BY <2>0, <2>1, <4>1, <4>2 DEF IsInjective
        <5> QED
          BY <1>a, <4>1, <4>2, <5>1
    <3>3. CASE a > m /\ b <= m
      <4>1. PICK j \in 1 .. n : j <= at /\ got[b] = index[j]
        BY <1>11, <3>3
      <4>2. PICK i \in 1 .. n : i > at /\ got[a] = index[i]
        BY <1>g, <3>3
      <4> QED
        <5>1. i = j
          BY <2>0, <2>1, <4>1, <4>2 DEF IsInjective
        <5> QED
          BY <1>a, <4>1, <4>2, <5>1
    <3>4. CASE a > m /\ b > m
      <4>1. PICK j \in 1 .. n : j = at + (a - m) /\ got[a] = index[j]
        BY <1>g, <3>4
      <4>2. PICK i \in 1 .. n : i = at + (b - m) /\ got[b] = index[i]
        BY <1>g, <3>4
      <4>3. i = j
        BY <2>0, <2>1, <4>1, <4>2 DEF IsInjective
      <4>4. at + (a - m) = at + (b - m) /\ at \in Int /\ m \in Int /\ a \in Int /\ b \in Int
        BY <1>a, <1>d, <1>10, <4>1, <4>2, <4>3
      <4> QED
        BY <4>4
    <3> QED
      BY <1>d, <1>10, <3>1, <3>2, <3>3, <3>4
  <2> QED
    BY <2>0, <2>1, <1>10 DEF IsInjective
<1>13. ASSUME NEW k \in 1 .. (m + p) PROVE \E j \in 1 .. n : j <= at + size /\ got[k] = index[j]
  <2>1. CASE k <= m
    <3>1. PICK j \in 1 .. n : j <= at /\ got[k] = index[j]
      BY <1>11, <2>1
    <3> QED
      BY <1>0, <1>a, <3>1
  <2>2. CASE k > m
    BY <1>g, <2>2
  <2> QED
    BY <1>d, <1>10, <2>1, <2>2
<1>14. ASSUME at + size <= l PROVE m + p = at + size
  <2>1. m = at /\ end = at + size
    BY <1>0, <1>a, <1>e, <1>f, <1>3, <1>14
  <2>2. p = size
    BY <1>a, <1>4, <1>10, <2>1
  <2> QED
    BY <2>1, <2>2
<1>15. ASSUME NEW i \in 1 .. l, i <= at + size
       PROVE  i <= m + p /\ got[i] = since[i]
  <2>1. CASE i <= at
    <3>1. i <= m /\ old[i] = since[i]
      BY <1>f, <2>1
    <3> QED
      BY <1>6, <1>10, <3>1
  <2>2. CASE i > at
    <3>1. m = at
      BY <1>f, <1>10, <2>2
    <3>2. i <= end
      BY <1>a, <1>e, <1>3, <1>15
    <3>3. i <= m + p
      BY <1>4, <1>6, <1>10, <2>2, <3>1, <3>2
    <3>4. got[i] = index[i]
      <4>1. at + (i - m) = i /\ i \in 1 .. (m + p) /\ ~(i <= m)
        BY <1>10, <2>2, <3>1, <3>3
      <4>2. \E j \in 1 .. n : j = at + (i - m) /\ got[i] = index[j]
        BY <1>d, <1>g, <2>2, <3>1, <4>1
      <4> QED
        BY <4>1, <4>2
    <3> QED
      BY <1>f, <3>3, <3>4
  <2> QED
    BY <2>1, <2>2
<1>16. ASSUME over PROVE at + size > l
  <2>0. page = <<>>
    BY <1>7, <1>16
  <2>1. Len(page) = 0
    BY <2>0
  <2>2. end <= at
    BY <1>3, <1>4, <2>1
  <2>3. n <= at
    BY <1>3, <2>2
  <2> QED
    BY <1>a, <1>e, <1>0, <2>3
<1>17. Reads(q, index)
  <2>1. Len(q.since) = l /\ Len(q.got) = m + p /\ Len(index) = n
    BY <1>0, <1>e, <1>c, <1>9, <1>10
  <2>2. Len(q.since) <= Len(index) /\ \A i \in 1 .. Len(q.since) : q.since[i] = index[i]
    BY <1>e, <1>f, <1>9, <2>1
  <2>3. IsInjective(q.got)
    BY <1>9, <1>12
  <2>4. \A k \in 1 .. Len(q.got) : \E j \in 1 .. Len(index) : j <= q.at /\ q.got[k] = index[j]
    BY <1>9, <1>13, <2>1
  <2>5. q.at <= Len(q.since) => Len(q.got) = q.at
    BY <1>9, <1>14, <2>1
  <2>6. \A i \in 1 .. Len(q.since) : i <= q.at => i <= Len(q.got) /\ q.got[i] = q.since[i]
    BY <1>9, <1>15, <2>1
  <2>7. q.over => q.at > Len(q.since)
    BY <1>9, <1>16, <2>1
  <2> QED
    BY <1>9, <2>2, <2>3, <2>4, <2>5, <2>6, <2>7 DEF Reads
<1> QED
  BY <1>a, <1>2, <1>8, <1>17

\* One token's configuration changes: what the change has to respect.
LEMMA ConfigChanged ==
    ASSUME ConfigsInv, NEW t \in Tokens, NEW c \in TokenConfig, NEW w \in People \cup {Nobody},
           tokenConfig' = [tokenConfig EXCEPT ![t] = c], named' = [named EXCEPT ![t] = w],
           index' \in Seq(Tokens), IsInjective(index'), ToSet(index') = ToSet(index) \cup {t},
           c # Unconfigured,
           c.token_pool # Nobody => c.administrator # Nobody,
           c.administrator # Nobody /\ c.pending_administrator # Nobody => c.pending_administrator = w
    PROVE  ConfigsInv'
<1>1. tokenConfig' \in [Tokens -> TokenConfig] /\ named' \in [Tokens -> People \cup {Nobody}]
  BY DEF ConfigsInv
<1>2. \A u \in Tokens : /\ tokenConfig'[u] = IF u = t THEN c ELSE tokenConfig[u]
                        /\ named'[u] = IF u = t THEN w ELSE named[u]
  BY DEF ConfigsInv
<1>3. ToSet(index') = {u \in Tokens : tokenConfig'[u] # Unconfigured}
  BY <1>2 DEF ConfigsInv, IndexExact
<1>4. \A u \in Tokens : tokenConfig'[u].token_pool # Nobody => tokenConfig'[u].administrator # Nobody
  BY <1>2 DEF ConfigsInv, IndexExact
<1>5. \A u \in Tokens :
          tokenConfig'[u].administrator # Nobody /\ tokenConfig'[u].pending_administrator # Nobody
          => tokenConfig'[u].pending_administrator = named'[u]
  BY <1>2 DEF ConfigsInv
<1> QED
  BY <1>1, <1>3, <1>4, <1>5 DEF ConfigsInv, IndexExact

\* A token that is configured is in the index.
LEMMA ConfiguredListed ==
    ASSUME ConfigsInv, NEW t \in Tokens, tokenConfig[t] # Unconfigured
    PROVE  ToSet(index) = ToSet(index) \cup {t} /\ index \in Seq(Tokens) /\ IsInjective(index)
BY DEF ConfigsInv, IndexExact

\* add_token_to_index.
LEMMA IndexGrows ==
    ASSUME ConfigsInv, NEW t \in Tokens
    PROVE  /\ AddedToIndex(t) \in Seq(Tokens) /\ IsInjective(AddedToIndex(t))
           /\ ToSet(AddedToIndex(t)) = ToSet(index) \cup {t}
<1>0. index \in Seq(Tokens) /\ IsInjective(index)
  BY DEF ConfigsInv, IndexExact
<1>1. CASE Contains(index, t)
  <2>1. t \in ToSet(index)
    BY <1>0, <1>1 DEF Contains, ToSet
  <2> QED
    BY <1>0, <1>1, <2>1 DEF AddedToIndex
<1>2. CASE ~Contains(index, t)
  BY <1>0, <1>2, NewElement DEF AddedToIndex
<1> QED
  BY <1>1, <1>2

\* set_pool.
LEMMA SetPoolKeeps ==
    ASSUME TokensInv, NEW caller \in People, NEW t \in Tokens, NEW pool \in Pools \cup {Nobody},
           SetPool(caller, t, pool)
    PROVE  TokensInv' /\ Succeeds
<1>0. tokenConfig \in [Tokens -> TokenConfig] /\ named \in [Tokens -> People \cup {Nobody}] /\ ConfigsInv
  BY DEF TokensInv, ConfigsInv
<1>1. PICK old \in TokenConfig : old = tokenConfig[t]
  BY <1>0
<1>2. PICK c : c = [old EXCEPT !.token_pool = pool]
  OBVIOUS
<1>3. /\ c \in TokenConfig /\ c.administrator = old.administrator /\ c.token_pool = pool
      /\ c.pending_administrator = old.pending_administrator
  BY <1>1, <1>2 DEF TokenConfig
<1>4. old.administrator = caller /\ caller # Nobody
  BY <1>1, TokensAssumption DEF SetPool
<1>5. tokenConfig' = [tokenConfig EXCEPT ![t] = c]
  BY <1>0, <1>1, <1>2 DEF SetPool
<1>6. c # Unconfigured /\ tokenConfig[t] # Unconfigured
  BY <1>1, <1>3, <1>4 DEF Unconfigured
<1>7. named' = [named EXCEPT ![t] = named[t]] /\ index' = index
  BY <1>0 DEF SetPool
<1>8. named[t] \in People \cup {Nobody}
  BY <1>0
<1>9. old.pending_administrator # Nobody => old.pending_administrator = named[t]
  BY <1>0, <1>1, <1>4 DEF ConfigsInv
<1>10. ConfigsInv'
  BY <1>0, <1>3, <1>4, <1>5, <1>6, <1>7, <1>8, <1>9, ConfigChanged, ConfiguredListed
<1>11. Succeeds
  BY <1>0, <1>1, <1>3, <1>5 DEF Succeeds
<1> QED
  BY <1>10, <1>11 DEF SetPool, TokensInv, TransferOnce, ownerVars

\* transfer_admin_role.
LEMMA TransferAdminKeeps ==
    ASSUME TokensInv, NEW caller \in People, NEW t \in Tokens, NEW p \in People \cup {Nobody},
           TransferAdminRole(caller, t, p)
    PROVE  TokensInv' /\ Succeeds
<1>0. tokenConfig \in [Tokens -> TokenConfig] /\ ConfigsInv
  BY DEF TokensInv, ConfigsInv
<1>1. PICK old \in TokenConfig : old = tokenConfig[t]
  BY <1>0
<1>2. PICK c : c = [old EXCEPT !.pending_administrator = p]
  OBVIOUS
<1>3. /\ c \in TokenConfig /\ c.administrator = old.administrator
      /\ c.pending_administrator = p
  BY <1>1, <1>2 DEF TokenConfig
<1>4. old.administrator = caller /\ caller # Nobody
  BY <1>1, TokensAssumption DEF TransferAdminRole
<1>5. tokenConfig' = [tokenConfig EXCEPT ![t] = c]
  BY <1>0, <1>1, <1>2 DEF TransferAdminRole
<1>6. c # Unconfigured /\ tokenConfig[t] # Unconfigured
  BY <1>1, <1>3, <1>4 DEF Unconfigured
<1>7. named' = [named EXCEPT ![t] = p] /\ index' = index
  BY DEF TransferAdminRole
<1>8. ConfigsInv'
  BY <1>0, <1>3, <1>4, <1>5, <1>6, <1>7, ConfigChanged, ConfiguredListed
<1>9. Succeeds
  BY <1>0, <1>1, <1>3, <1>5 DEF Succeeds
<1> QED
  BY <1>8, <1>9 DEF TransferAdminRole, TokensInv, TransferOnce, ownerVars

\* accept_admin_role: here the administrator changes.
LEMMA AcceptAdminKeeps ==
    ASSUME TokensInv, NEW caller \in People, NEW t \in Tokens, AcceptAdminRole(caller, t)
    PROVE  TokensInv' /\ Succeeds
<1>0. tokenConfig \in [Tokens -> TokenConfig] /\ ConfigsInv
  BY DEF TokensInv, ConfigsInv
<1>1. PICK old \in TokenConfig : old = tokenConfig[t]
  BY <1>0
<1>2. PICK c : c = [old EXCEPT !.administrator = caller, !.pending_administrator = Nobody]
  OBVIOUS
<1>3. /\ c \in TokenConfig /\ c.administrator = caller
      /\ c.pending_administrator = Nobody
  BY <1>1, <1>2 DEF TokenConfig
<1>4. old.pending_administrator = caller /\ caller # Nobody
  BY <1>1, TokensAssumption DEF AcceptAdminRole
<1>5. tokenConfig' = [tokenConfig EXCEPT ![t] = c]
  BY <1>0, <1>1, <1>2 DEF AcceptAdminRole
<1>6. c # Unconfigured /\ tokenConfig[t] # Unconfigured
  BY <1>1, <1>3, <1>4 DEF Unconfigured
<1>7. named' = [named EXCEPT ![t] = Nobody] /\ index' = index
  BY DEF AcceptAdminRole
<1>8. ConfigsInv'
  BY <1>0, <1>3, <1>4, <1>5, <1>6, <1>7, ConfigChanged, ConfiguredListed
<1>9. Succeeds
  <2>1. old.administrator # Nobody => caller = named[t]
    BY <1>0, <1>1, <1>4 DEF ConfigsInv
  <2> QED
    BY <1>0, <1>1, <1>3, <1>5, <2>1 DEF Succeeds
<1> QED
  BY <1>8, <1>9 DEF AcceptAdminRole, TokensInv, TransferOnce, ownerVars

\* propose_administrator: an offer that nobody accepted is replaced.
LEMMA ProposeKeeps ==
    ASSUME TokensInv, NEW caller \in People, NEW t \in Tokens, NEW p \in People,
           ProposeAdministrator(caller, t, p)
    PROVE  TokensInv' /\ Succeeds
<1>0. tokenConfig \in [Tokens -> TokenConfig] /\ named \in [Tokens -> People \cup {Nobody}] /\ ConfigsInv
  BY DEF TokensInv, ConfigsInv
<1>1. PICK old \in TokenConfig : old = tokenConfig[t]
  BY <1>0
<1>2. PICK c : c = [Unconfigured EXCEPT !.pending_administrator = p]
  OBVIOUS
<1>3. /\ c \in TokenConfig /\ c.administrator = Nobody
      /\ c.pending_administrator = p /\ c.token_pool = Nobody
  BY <1>2 DEF TokenConfig, Unconfigured
<1>4. old.administrator = Nobody /\ p # Nobody
  BY <1>1, TokensAssumption DEF ProposeAdministrator, Unregistered
<1>5. tokenConfig' = [tokenConfig EXCEPT ![t] = c]
  BY <1>2 DEF ProposeAdministrator
<1>6. c # Unconfigured
  BY <1>3, <1>4 DEF Unconfigured
<1>7. named' = [named EXCEPT ![t] = named[t]] /\ named[t] \in People \cup {Nobody}
  BY <1>0 DEF ProposeAdministrator
<1>8. index' = AddedToIndex(t)
  BY DEF ProposeAdministrator
<1>9. index' \in Seq(Tokens) /\ IsInjective(index') /\ ToSet(index') = ToSet(index) \cup {t}
  BY <1>0, <1>8, IndexGrows
<1>10. ConfigsInv'
  BY <1>0, <1>3, <1>5, <1>6, <1>7, <1>9, ConfigChanged
<1>11. Succeeds
  BY <1>0, <1>1, <1>3, <1>4, <1>5 DEF Succeeds
<1>12. Reads(reader', index')
  <2>1. Reads(reader, index) /\ index \in Seq(Tokens) /\ reader' = reader
    BY DEF TokensInv, ConfigsInv, ProposeAdministrator
  <2>2. CASE Contains(index, t)
    BY <1>8, <2>1, <2>2 DEF AddedToIndex
  <2>3. CASE ~Contains(index, t)
    <3>1. index' = Append(index, t)
      BY <1>8, <2>3 DEF AddedToIndex
    <3> QED
      BY <2>1, <3>1, GrownReads
  <2> QED
    BY <2>2, <2>3
<1> QED
  BY <1>10, <1>11, <1>12 DEF ProposeAdministrator, TokensInv, TransferOnce, ownerVars

\* The calls that leave the configurations alone.
LEMMA ConfigsSame ==
    ASSUME TokensInv, UNCHANGED <<tokenConfig, index, named>>,
           Reads(reader', index), TransferOnce'
    PROVE  TokensInv' /\ Succeeds
<1>1. ConfigsInv'
  BY DEF TokensInv, ConfigsInv, IndexExact
<1>2. Succeeds
  BY DEF Succeeds
<1> QED
  BY <1>1, <1>2 DEF TokensInv

\* Every call of the token admin registry keeps its invariant.
LEMMA TokensStep == ASSUME TokensInv, TokensNext PROVE TokensInv' /\ Succeeds
<1>0. /\ index \in Seq(Tokens) /\ IsInjective(index) /\ Reads(reader, index) /\ TransferOnce
  BY DEF TokensInv, ConfigsInv, IndexExact
<1>1. ASSUME NEW caller \in People, NEW t \in Tokens,
             \/ \E pool \in Pools \cup {Nobody} : SetPool(caller, t, pool)
             \/ \E p \in People \cup {Nobody} : TransferAdminRole(caller, t, p)
             \/ AcceptAdminRole(caller, t)
             \/ \E p \in People : ProposeAdministrator(caller, t, p)
      PROVE  TokensInv' /\ Succeeds
  BY <1>1, SetPoolKeeps, TransferAdminKeeps, AcceptAdminKeeps, ProposeKeeps
<1>2. ASSUME NEW caller \in People, NEW module \in People,
             AddRegistryModule(caller, module) \/ RemoveRegistryModule(caller, module)
      PROVE  TokensInv' /\ Succeeds
  <2>1. UNCHANGED <<ownerVars, tokenConfig, index, reader, named>>
    BY <1>2 DEF AddRegistryModule, RemoveRegistryModule
  <2>2. TransferOnce'
    BY <1>0, <2>1 DEF TransferOnce, ownerVars
  <2> QED
    BY <1>0, <2>1, <2>2, ConfigsSame
<1>3. ASSUME NEW size \in PageSizes, ReadPage(size) PROVE TokensInv' /\ Succeeds
  <2>1. UNCHANGED <<ownerVars, tokenConfig, index, named>>
    BY <1>3 DEF ReadPage
  <2>2. TransferOnce'
    BY <1>0, <2>1 DEF TransferOnce, ownerVars
  <2>3. size \in Nat \ {0}
    BY TokensAssumption
  <2>4. PICK page : page = Page(reader.at, size)
    OBVIOUS
  <2>5. \/ reader' = Idle
        \/ reader' = [reader EXCEPT !.at = @ + size, !.got = @ \o page, !.over = page = <<>>]
    BY <1>3, <2>4 DEF ReadPage
  <2>6. Reads(reader', index)
    <3>1. Reads(Idle, index)
      BY <1>0, IdleReads
    <3>2. Reads([reader EXCEPT !.at = @ + size, !.got = @ \o page, !.over = page = <<>>], index)
      BY <1>0, <2>3, <2>4, PageReads
    <3> QED
      BY <2>5, <3>1, <3>2
  <2> QED
    BY <2>1, <2>2, <2>6, ConfigsSame
<1>4. ASSUME StartReading \/ FinishReading PROVE TokensInv' /\ Succeeds
  <2>1. UNCHANGED <<ownerVars, tokenConfig, index, named>>
    BY <1>4 DEF StartReading, FinishReading
  <2>2. TransferOnce'
    BY <1>0, <2>1 DEF TransferOnce, ownerVars
  <2>3. reader' = Idle \/ reader' = [Idle EXCEPT !.reads = TRUE, !.since = index]
    BY <1>4 DEF StartReading, FinishReading
  <2>4. Reads(reader', index)
    BY <1>0, <2>3, IdleReads, StartReads
  <2> QED
    BY <2>1, <2>2, <2>4, ConfigsSame
<1>5. ASSUME OwnerNext, UNCHANGED tokenVars PROVE TokensInv' /\ Succeeds
  <2>1. UNCHANGED <<tokenConfig, index, reader, named>>
    BY <1>5 DEF tokenVars
  <2>2. TransferOnce'
    BY <1>0, <1>5 DEF OwnerNext, AcceptOwnership, CancelOwnershipTransfer, TransferOwnership,
                     SetNewOwner, TransferOnce
  <2> QED
    BY <1>0, <2>1, <2>2, ConfigsSame
<1> QED
  BY <1>1, <1>2, <1>3, <1>4, <1>5 DEF TokensNext

\* Nothing is configured at first.
LEMMA TokensStart == ASSUME OwnerInit, TokensInit PROVE TokensInv
<1>1. \A t \in Tokens : tokenConfig[t] = Unconfigured
  BY DEF TokensInit
<1>2. Unconfigured \in TokenConfig
  BY DEF TokenConfig, Unconfigured
<1>3. tokenConfig \in [Tokens -> TokenConfig] /\ named \in [Tokens -> People \cup {Nobody}]
  BY <1>2 DEF TokensInit
<1>4. PICK none : none = <<>>
  OBVIOUS
<1>5. none \in Seq(Tokens) /\ DOMAIN none = {}
  BY <1>4
<1>6. IsInjective(none) /\ ToSet(none) = {}
  BY <1>5 DEF IsInjective, ToSet
<1>7. index = none
  BY <1>4 DEF TokensInit
<1>8. \A t \in Tokens : /\ tokenConfig[t].token_pool = Nobody /\ tokenConfig[t].administrator = Nobody
  BY <1>1 DEF Unconfigured
<1>9. ConfigsInv
  BY <1>1, <1>3, <1>5, <1>6, <1>7, <1>8 DEF ConfigsInv, IndexExact
<1>10. Reads(reader, index)
  BY <1>5, <1>7, IdleReads DEF TokensInit
<1> QED
  BY <1>9, <1>10 DEF TokensInv, OwnerInit, TransferOnce

\* A reader that has come to an empty page has got what was there when it began.
LEMMA ReadsComplete == ASSUME TokensInv PROVE IndexExact /\ PagedReadComplete
<1>1. IndexExact
  BY DEF TokensInv, ConfigsInv
<1>2. ASSUME reader.over PROVE IsInjective(reader.got) /\ IsPrefix(reader.since, reader.got)
  <2>1. PICK s \in Seq(Tokens) : s = reader.since
    BY DEF TokensInv, Reads
  <2>2. PICK g \in Seq(Tokens) : g = reader.got
    BY DEF TokensInv, Reads
  <2>3. PICK n \in Nat : n = Len(s)
    BY <2>1
  <2>4. reader.at \in Nat /\ reader.at > n
    BY <1>2, <2>1, <2>3 DEF TokensInv, Reads
  <2>5. \A i \in 1 .. n : i <= Len(g) /\ g[i] = s[i]
    BY <2>1, <2>2, <2>3, <2>4 DEF TokensInv, Reads
  <2>6. n <= Len(g)
    <3>1. CASE n = 0
      BY <2>2, <3>1
    <3>2. CASE n # 0
      <4>1. n \in 1 .. n
        BY <2>3, <3>2
      <4> QED
        BY <2>5, <4>1
    <3> QED
      BY <3>1, <3>2
  <2>7. IsPrefix(s, g)
    BY <2>1, <2>2, <2>3, <2>5, <2>6 DEF IsPrefix
  <2> QED
    BY <2>1, <2>2, <2>7 DEF TokensInv, Reads
<1> QED
  BY <1>1, <1>2 DEF PagedReadComplete

-----------------------------------------------------------------------------
(* The tables of a chain.                                                  *)

TablesInv == RampsInv /\ TokensInv

\* The tables are in order whatever the owners, the administrators and the readers call.
THEOREM TablesInvariant == TablesSpec => []TablesInv
<1>1. TablesInit => TablesInv
  BY RampsStart, TokensStart DEF TablesInit, TablesInv
<1>2. TablesInv /\ [TablesNext]_<<rampVars, adminVars>> => TablesInv'
  <2> SUFFICES ASSUME TablesInv, [TablesNext]_<<rampVars, adminVars>> PROVE TablesInv'
    OBVIOUS
  <2>1. UNCHANGED rampVars => RampsInv'
    BY DEF TablesInv, RampsInv, rampVars, routerVars, registryVars
  <2>2. ASSUME UNCHANGED adminVars PROVE TokensInv'
    <3>1. UNCHANGED <<tokenConfig, index, reader, named>> /\ UNCHANGED <<pendingOwner, open>>
      BY <2>2 DEF adminVars, ownerVars, tokenVars
    <3>2. TransferOnce' /\ Reads(reader', index) /\ TokensInv
      BY <3>1 DEF TablesInv, TokensInv, TransferOnce
    <3> QED
      BY <3>1, <3>2, ConfigsSame
  <2>3. CASE (RouterNext \/ RegistryNext) /\ UNCHANGED adminVars
    BY <2>2, <2>3, RampsStep DEF TablesInv
  <2>4. CASE TokensNext /\ UNCHANGED rampVars
    BY <2>1, <2>4, TokensStep DEF TablesInv
  <2>5. CASE UNCHANGED <<rampVars, adminVars>>
    BY <2>1, <2>2, <2>5 DEF TablesInv
  <2> QED
    BY <2>3, <2>4, <2>5 DEF TablesNext
<1> QED
  BY <1>1, <1>2, PTL DEF TablesSpec

\* The Router, the ramp registry and the token admin registry list what they hold after any
\* batches of updates (apply_ramp_updates, apply_updates), and a reader of the index misses
\* nothing that was there when it began (get_all_configured_tokens).
THEOREM TablesListsExact == TablesSpec => []ListsExact
<1>1. TablesInv => ListsExact
  BY RampsExact, ReadsComplete DEF TablesInv, ListsExact
<1> QED
  BY <1>1, TablesInvariant, PTL

\* No sequence of proposals, transfers and acceptances makes an administrator his
\* predecessor did not name, or an owner by a transfer that is over (accept_admin_role,
\* propose_administrator, accept_ownership).
THEOREM TablesSuccessorsNamed == TablesSpec => SuccessorsNamed
<1>1. TablesInv /\ [TablesNext]_<<rampVars, adminVars>> => [Succeeds /\ TransferOnce']_adminVars
  <2> SUFFICES ASSUME TablesInv, TokensNext PROVE Succeeds /\ TransferOnce'
    BY DEF TablesNext
  <2> QED
    BY TokensStep DEF TablesInv, TokensInv
<1> QED
  BY <1>1, TablesInvariant, PTL DEF TablesSpec, SuccessorsNamed
=============================================================================
