---------------------------- MODULE PoolProofs ----------------------------
(***************************************************************************)
(* A bucket never holds more than its capacity, lets through no more than  *)
(* capacity and rate allow in any window, and refuses nothing else.  A     *)
(* pool's listed chains are the configured ones, conversions between       *)
(* decimals make no tokens, what remote chains can claim is covered, and   *)
(* every transfer is charged once.  For every configuration, every number  *)
(* of chains and every width of the integers.                              *)
(***************************************************************************)
EXTENDS Bucket, TokenPool, FoldTheorems, TLAPS

\* A refill stays within the capacity, takes nothing, and adds at most the rate for each
\* second, although products and sums saturate.
LEMMA RefillBounds ==
    ASSUME NEW capacity \in 0 .. MaxU128, NEW tokens \in 0 .. MaxU128,
           NEW diff \in Nat, NEW rate \in 0 .. MaxU128, tokens <= capacity
    PROVE  LET r == CalculateRefill(capacity, tokens, diff, rate) IN
           r \in 0 .. MaxU128 /\ r <= capacity /\ tokens <= r /\ r <= tokens + rate * diff
<1> USE BucketAssumption
<1> DEFINE added == diff * rate
<1>1. added \in Nat /\ added = rate * diff
  OBVIOUS
<1>2. Saturated(added) \in Nat /\ Saturated(added) <= added
  BY <1>1 DEF Saturated
<1>3. tokens + Saturated(added) \in Nat /\ tokens <= tokens + Saturated(added)
  BY <1>2
<1>4. /\ Saturated(tokens + Saturated(added)) \in Nat
      /\ tokens <= Saturated(tokens + Saturated(added))
      /\ Saturated(tokens + Saturated(added)) <= tokens + added
  BY <1>1, <1>2, <1>3 DEF Saturated
<1>5. QED
  BY <1>1, <1>4 DEF CalculateRefill

\* A bucket that was refilled, for a bucket as it is stored.
LEMMA RefilledBounds ==
    ASSUME BucketInv
    PROVE  /\ Refilled(bucket, now) \in Bucketful
           /\ Refilled(bucket, now).last_updated = now
           /\ Refilled(bucket, now).is_enabled = bucket.is_enabled
           /\ Refilled(bucket, now).capacity = bucket.capacity
           /\ Refilled(bucket, now).rate = bucket.rate
           /\ Refilled(bucket, now).tokens <= bucket.capacity
           /\ Refilled(bucket, now).tokens <=
                  bucket.tokens + bucket.rate * (now - bucket.last_updated)
<1> USE BucketAssumption
<1> DEFINE r == CalculateRefill(bucket.capacity, bucket.tokens, now - bucket.last_updated,
                                bucket.rate)
<1>1. /\ bucket \in Bucketful /\ bucket.tokens <= bucket.capacity
      /\ now \in 0 .. MaxTime /\ bucket.last_updated <= now
      /\ bucket.last_updated \in 0 .. MaxTime
      /\ bucket.tokens \in 0 .. MaxU128 /\ bucket.capacity \in 0 .. MaxU128
      /\ bucket.rate \in 0 .. MaxU128
  BY DEF BucketInv, TypeOK, NeverOverfilled, Metered, Bucketful
<1>2. CASE now > bucket.last_updated
  <2>1. now - bucket.last_updated \in Nat
    BY <1>1
  <2>2. /\ r \in 0 .. MaxU128 /\ r <= bucket.capacity
        /\ r <= bucket.tokens + bucket.rate * (now - bucket.last_updated)
    BY <1>1, <2>1, RefillBounds
  <2>3. Refilled(bucket, now) = Holding(bucket, r, now)
    BY <1>2 DEF Refilled
  <2> HIDE DEF r
  <2>4. QED
    BY <1>1, <2>2, <2>3 DEF Bucketful, Holding
<1>3. CASE ~(now > bucket.last_updated)
  <2>1. bucket.last_updated = now /\ Refilled(bucket, now) = bucket
    BY <1>1, <1>3 DEF Refilled
  <2>2. bucket.rate * (now - bucket.last_updated) = 0
    BY <1>1, <2>1
  <2>3. QED
    BY <1>1, <2>1, <2>2 DEF Bucketful
<1>4. QED
  BY <1>2, <1>3

\* Time that is split is added up again.
LEMMA RateAdds ==
    ASSUME NEW rate \in Nat, NEW a \in Int, NEW b \in Int, NEW c \in Int
    PROVE  rate * (b - a) + rate * (c - b) = rate * (c - a)
OBVIOUS

\* A product of integers is an integer.
LEMMA ProductInt == ASSUME NEW a \in Int, NEW b \in Int PROVE a * b \in Int
OBVIOUS

\* What is left after a refill, and what has passed, under the bound of the longer time.
LEMMA AddUp ==
    ASSUME NEW p \in Int, NEW t \in Int, NEW cap \in Int, NEW x \in Int, NEW y \in Int,
           NEW z \in Int, NEW r \in Int,
           p + t <= cap + x, r <= t + y, x + y = z
    PROVE  p + r <= cap + z
OBVIOUS

\* The first state is metered.
LEMMA InitInv == Init => BucketInv
  BY BucketAssumption
     DEF Init, BucketInv, TypeOK, NeverOverfilled, Metered, Bucketful, Disabled, Nothing

\* A request that passes.
LEMMA PassInv ==
    ASSUME BucketInv, NEW amount \in Amounts, Pass(amount)
    PROVE  BucketInv'
<1> USE BucketAssumption
<1>0. amount \in 0 .. MaxU128
  OBVIOUS
<1>1. /\ bucket \in Bucketful /\ bucket.tokens <= bucket.capacity
      /\ now \in 0 .. MaxTime /\ since \in 0 .. now /\ configured \in 0 .. now
      /\ passed \in Nat /\ spent \in [0 .. MaxTime -> Nat]
      /\ bucket.last_updated <= now /\ bucket.last_updated \in 0 .. MaxTime
      /\ bucket.rate \in 0 .. MaxU128 /\ bucket.capacity \in 0 .. MaxU128
      /\ bucket.tokens \in 0 .. MaxU128
  BY DEF BucketInv, TypeOK, NeverOverfilled, Metered, Bucketful
<1>2. /\ now' = now /\ since' = since /\ configured' = configured
  BY DEF Pass
<1>3. CASE ~bucket.is_enabled \/ amount = 0
  <2>1. bucket' = bucket /\ passed' = passed
    BY <1>0, <1>1, <1>3 DEF Pass, Consume
  <2>2. spent' \in [0 .. MaxTime -> Nat]
    BY <1>0, <1>1, <1>3 DEF Pass
  <2>3. QED
    BY <1>1, <1>2, <2>1, <2>2 DEF BucketInv, TypeOK, NeverOverfilled, Metered
<1>4. CASE bucket.is_enabled /\ amount # 0
  <2> DEFINE r == Refilled(bucket, now)
  <2>1. /\ r \in Bucketful /\ r.last_updated = now /\ r.is_enabled
        /\ r.capacity = bucket.capacity /\ r.rate = bucket.rate
        /\ r.tokens <= bucket.capacity
        /\ r.tokens <= bucket.tokens + bucket.rate * (now - bucket.last_updated)
    BY <1>4, RefilledBounds
  <2>2. amount <= r.tokens /\ r.tokens \in 0 .. MaxU128
    BY <1>0, <1>4, <2>1 DEF Pass, Admits, Bucketful
  <2>3. bucket' = Holding(bucket, r.tokens - amount, r.last_updated)
    BY <1>4 DEF Pass, Consume
  <2>4. passed' = passed + amount /\ spent' = [spent EXCEPT ![now] = @ + amount]
    BY <1>4 DEF Pass
  <2> HIDE DEF r
  <2>5. /\ bucket' \in Bucketful /\ bucket'.tokens = r.tokens - amount
        /\ bucket'.last_updated = now /\ bucket'.capacity = bucket.capacity
        /\ bucket'.rate = bucket.rate /\ bucket'.is_enabled
    BY <1>0, <1>1, <1>4, <2>1, <2>2, <2>3 DEF Bucketful, Holding
  <2>6. passed' + bucket'.tokens = passed + r.tokens
    BY <1>0, <1>1, <2>2, <2>4, <2>5
  <2>7. passed + r.tokens <= bucket.capacity + bucket.rate * (now - since)
    <3>1. CASE bucket.last_updated < since
      <4>1. passed = 0
        BY <1>4, <3>1 DEF BucketInv, Metered
      <4>2. bucket.rate * (now - since) \in Nat
        BY <1>1
      <4>3. QED
        BY <1>1, <2>1, <2>2, <4>1, <4>2
    <3>2. CASE ~(bucket.last_updated < since)
      <4>1. passed + bucket.tokens <=
                bucket.capacity + bucket.rate * (bucket.last_updated - since)
        BY <1>4, <3>2 DEF BucketInv, Metered
      <4> DEFINE x == bucket.rate * (bucket.last_updated - since)
                 y == bucket.rate * (now - bucket.last_updated)
                 z == bucket.rate * (now - since)
      <4>2. x + y = z
        BY <1>1, RateAdds
      <4>3. x \in Int /\ y \in Int /\ z \in Int
        <5>1. /\ bucket.rate \in Int /\ bucket.last_updated - since \in Int
              /\ now - bucket.last_updated \in Int /\ now - since \in Int
          BY <1>1
        <5>2. QED
          BY <5>1, ProductInt
      <4>4. r.tokens <= bucket.tokens + y
        BY <2>1
      <4>5. passed + bucket.tokens <= bucket.capacity + x
        BY <4>1
      <4>6. /\ passed \in Int /\ r.tokens \in Int /\ bucket.tokens \in Int
            /\ bucket.capacity \in Int
        BY <1>1, <2>2
      <4> HIDE DEF x, y, z
      <4>7. passed + r.tokens <= bucket.capacity + z
        BY ONLY <4>6, <4>2, <4>3, <4>4, <4>5, AddUp
      <4>8. QED
        BY <4>7 DEF z
    <3>3. QED
      BY <3>1, <3>2
  <2>8. TypeOK'
    BY <1>0, <1>1, <1>2, <2>4, <2>5 DEF TypeOK
  <2>9. NeverOverfilled'
    BY <1>0, <1>1, <2>1, <2>2, <2>5 DEF NeverOverfilled
  <2>10. Metered'
    <3>1. ~(bucket'.last_updated < since')
      BY <1>1, <1>2, <2>5
    <3>2. passed' + bucket'.tokens <= bucket'.capacity + bucket'.rate * (bucket'.last_updated - since')
      BY <1>2, <2>5, <2>6, <2>7
    <3>3. QED
      BY <1>1, <1>2, <2>5, <3>1, <3>2 DEF Metered
  <2>11. QED
    BY <2>8, <2>9, <2>10 DEF BucketInv
<1>5. QED
  BY <1>3, <1>4

\* A configured bucket is full, and counted from now.
LEMMA ConfigureInv ==
    ASSUME BucketInv, NEW c \in Configs, Configure(c)
    PROVE  BucketInv'
<1> USE BucketAssumption
<1>1. c \in [is_enabled : BOOLEAN, capacity : 0 .. MaxU128, rate : 0 .. MaxU128]
  OBVIOUS
<1>2. /\ bucket'.tokens = c.capacity /\ bucket'.capacity = c.capacity
      /\ bucket'.last_updated = now /\ bucket'.rate = c.rate /\ bucket'.is_enabled = c.is_enabled
      /\ bucket' \in Bucketful
  BY <1>1 DEF Configure, Configured, Bucketful, BucketInv, TypeOK
<1>3. /\ now \in 0 .. MaxTime /\ now' = now /\ since' = now /\ passed' = 0
      /\ configured' = now /\ spent' \in [0 .. MaxTime -> Nat]
  BY DEF Configure, BucketInv, TypeOK, Nothing
<1>4. bucket'.rate * (bucket'.last_updated - since') = 0
  BY <1>1, <1>2, <1>3
<1>5. QED
  BY <1>1, <1>2, <1>3, <1>4 DEF BucketInv, TypeOK, NeverOverfilled, Metered

\* Every step keeps the invariant.
LEMMA NextInv == BucketInv /\ [Next]_vars => BucketInv'
<1> SUFFICES ASSUME BucketInv, [Next]_vars PROVE BucketInv'
  OBVIOUS
<1> USE BucketAssumption
<1>0. /\ bucket \in Bucketful /\ now \in 0 .. MaxTime /\ since \in 0 .. now
      /\ configured \in 0 .. now /\ passed \in Nat /\ spent \in [0 .. MaxTime -> Nat]
      /\ bucket.tokens <= bucket.capacity /\ bucket.last_updated <= now
      /\ bucket.last_updated \in 0 .. MaxTime /\ bucket.rate \in 0 .. MaxU128
      /\ bucket.capacity \in 0 .. MaxU128 /\ bucket.tokens \in 0 .. MaxU128
  BY DEF BucketInv, TypeOK, NeverOverfilled, Metered, Bucketful
<1>1. CASE Tick
  BY <1>0, <1>1 DEF Tick, BucketInv, TypeOK, NeverOverfilled, Metered
<1>2. ASSUME NEW amount \in Amounts, Pass(amount) PROVE BucketInv'
  BY <1>2, PassInv
<1>3. ASSUME NEW c \in Configs, Configure(c) PROVE BucketInv'
  BY <1>3, ConfigureInv
<1>4. CASE RemoveBucket
  BY <1>0, <1>4 DEF RemoveBucket, Disabled, Nothing, BucketInv, TypeOK, NeverOverfilled, Metered, Bucketful
<1>5. CASE Watch
  <2>1. bucket' = bucket /\ now' = now /\ since' = now /\ passed' = 0
        /\ configured' = configured /\ spent' = spent
    BY <1>5 DEF Watch
  <2>2. TypeOK' /\ NeverOverfilled'
    BY <1>0, <2>1 DEF TypeOK, NeverOverfilled
  <2>3. CASE bucket.last_updated < now
    BY <1>0, <2>1, <2>2, <2>3 DEF BucketInv, Metered
  <2>4. CASE bucket.last_updated = now
    <3>1. bucket.last_updated - since' = 0
      BY <1>0, <2>1, <2>4
    <3>2. bucket.rate * (bucket.last_updated - since') = 0
      BY <1>0, <3>1
    <3>3. QED
      BY <1>0, <2>1, <2>2, <2>4, <3>2 DEF BucketInv, Metered
  <2>5. QED
    BY <1>0, <2>3, <2>4
<1>6. CASE UNCHANGED vars
  BY <1>6 DEF vars, BucketInv, TypeOK, NeverOverfilled, Metered
<1>7. QED
  BY <1>1, <1>2, <1>3, <1>4, <1>5, <1>6 DEF Next

\* The invariant bounds every window.
LEMMA InvBounds == BucketInv => WindowBound
<1> SUFFICES ASSUME BucketInv, bucket.is_enabled
             PROVE  passed <= bucket.capacity + bucket.rate * (now - since)
  BY DEF WindowBound
<1> USE BucketAssumption
<1>1. /\ now \in 0 .. MaxTime /\ since \in 0 .. now /\ passed \in Nat
      /\ bucket.last_updated <= now /\ bucket.last_updated \in 0 .. MaxTime
      /\ bucket.rate \in Nat /\ bucket.capacity \in Nat /\ bucket.tokens \in Nat
  BY DEF BucketInv, TypeOK, Metered, Bucketful
<1>2. /\ bucket.rate * (now - since) \in Nat
      /\ bucket.rate * (now - bucket.last_updated) \in Nat
  BY <1>1
<1>3. CASE bucket.last_updated < since
  BY <1>1, <1>2, <1>3 DEF BucketInv, Metered
<1>4. CASE ~(bucket.last_updated < since)
  <2>1. passed + bucket.tokens <= bucket.capacity + bucket.rate * (bucket.last_updated - since)
    BY <1>4 DEF BucketInv, Metered
  <2>2. bucket.rate * (bucket.last_updated - since) + bucket.rate * (now - bucket.last_updated)
            = bucket.rate * (now - since)
    BY <1>1, RateAdds
  <2>3. bucket.rate * (bucket.last_updated - since) \in Int
    BY <1>1
  <2>4. QED
    BY <1>1, <1>2, <2>1, <2>2, <2>3, AddUp
<1>5. QED
  BY <1>3, <1>4

-----------------------------------------------------------------------------

\* The bucket's fields stay in their width: no deduction below zero.
THEOREM TypeCorrect == Spec => []TypeOK
<1>1. BucketInv => TypeOK
  BY DEF BucketInv
<1>2. QED
  BY <1>1, InitInv, NextInv, PTL DEF Spec

\* No bucket is ever stored that consume refuses as overfilled.
THEOREM Filled == Spec => []NeverOverfilled
<1>1. BucketInv => NeverOverfilled
  BY DEF BucketInv
<1>2. QED
  BY <1>1, InitInv, NextInv, PTL DEF Spec

\* From any moment on at most the capacity and the rate for each second get through.
THEOREM Windows == Spec => []WindowBound
  BY InitInv, NextInv, InvBounds, PTL DEF Spec

-----------------------------------------------------------------------------
(* A bucket refuses no more than it has to.                                *)

\* A refill that is not cut at the capacity is exactly what the time is worth.
LEMMA RefillExact ==
    ASSUME NEW capacity \in 0 .. MaxU128, NEW tokens \in 0 .. MaxU128,
           NEW diff \in Nat, NEW rate \in 0 .. MaxU128, tokens <= capacity
    PROVE  LET r == CalculateRefill(capacity, tokens, diff, rate) IN
           r = IF tokens + rate * diff < capacity THEN tokens + rate * diff ELSE capacity
<1> USE BucketAssumption
<1>1. PICK added \in Nat : added = diff * rate /\ added = rate * diff
  OBVIOUS
<1>2. Saturated(added) \in Nat /\ Saturated(added) <= added
      /\ (Saturated(added) = added \/ Saturated(added) = MaxU128)
  BY DEF Saturated
<1>3. PICK filled \in Nat : filled = Saturated(tokens + Saturated(added))
  BY <1>2 DEF Saturated
<1>4. IF tokens + added < capacity THEN filled = tokens + added ELSE filled >= capacity
  BY <1>2, <1>3 DEF Saturated
<1>5. CalculateRefill(capacity, tokens, diff, rate) = IF filled < capacity THEN filled ELSE capacity
  BY <1>1, <1>3 DEF CalculateRefill
<1>6. QED
  BY <1>1, <1>4, <1>5

\* The same of a bucket, whether time has passed or not.
LEMMA RefilledExact ==
    ASSUME BucketInv
    PROVE  Refilled(bucket, now).tokens =
               IF bucket.tokens + bucket.rate * (now - bucket.last_updated) < bucket.capacity
               THEN bucket.tokens + bucket.rate * (now - bucket.last_updated) ELSE bucket.capacity
<1> USE BucketAssumption
<1> DEFINE r == CalculateRefill(bucket.capacity, bucket.tokens, now - bucket.last_updated,
                                bucket.rate)
<1>1. /\ bucket \in Bucketful /\ bucket.tokens <= bucket.capacity
      /\ now \in 0 .. MaxTime /\ bucket.last_updated <= now
      /\ bucket.last_updated \in 0 .. MaxTime
      /\ bucket.tokens \in 0 .. MaxU128 /\ bucket.capacity \in 0 .. MaxU128
      /\ bucket.rate \in 0 .. MaxU128
  BY DEF BucketInv, TypeOK, NeverOverfilled, Metered, Bucketful
<1>2. CASE now > bucket.last_updated
  <2>1. now - bucket.last_updated \in Nat
    BY <1>1
  <2>2. r = IF bucket.tokens + bucket.rate * (now - bucket.last_updated) < bucket.capacity
            THEN bucket.tokens + bucket.rate * (now - bucket.last_updated) ELSE bucket.capacity
    BY <1>1, <2>1, RefillExact
  <2>3. Refilled(bucket, now).tokens = r
    BY <1>2 DEF Refilled, Holding
  <2> HIDE DEF r
  <2>4. QED
    BY <2>2, <2>3
<1>3. CASE ~(now > bucket.last_updated)
  <2>1. bucket.last_updated = now /\ Refilled(bucket, now) = bucket
    BY <1>1, <1>3 DEF Refilled
  <2>2. bucket.rate * (now - bucket.last_updated) = 0
    BY <1>1, <2>1
  <2>3. QED
    BY <1>1, <2>1, <2>2
<1>4. QED
  BY <1>2, <1>3

\* What has passed in a window is a number; the window of one moment.
LEMMA TotalIs ==
    ASSUME BucketInv
    PROVE  /\ \A s \in 0 .. now : Total(s) \in Nat
           /\ Total(now) = spent[now]
<1> USE BucketAssumption
<1> DEFINE C == 0 .. MaxTime
<1>1. now \in Nat /\ now <= MaxTime /\ spent \in [C -> Nat] /\ spent \in [C -> Int]
  BY DEF BucketInv, TypeOK
<1>2. ASSUME NEW s \in 0 .. now PROVE s .. now \in SUBSET C /\ IsFiniteSet(s .. now)
  <2>1. s .. now \in SUBSET C
    BY <1>1
  <2>2. IsFiniteSet(s .. now)
    BY <1>1, FS_Interval
  <2>3. QED
    BY <2>1, <2>2
<1> HIDE DEF C
<1>3. ASSUME NEW s \in 0 .. now PROVE Total(s) \in Nat
  <2>1. PICK S : S = s .. now
    OBVIOUS
  <2>2. S \in SUBSET C /\ IsFiniteSet(S)
    BY <1>2, <2>1
  <2>3. SumFunctionOnSet(spent, S) \in Int
    BY <1>1, <2>2, SumInt
  <2>4. {} \in SUBSET S
    OBVIOUS
  <2>5. 0 <= SumFunctionOnSet(spent, S)
    BY <1>1, <2>2, <2>4, SumPart
  <2>6. QED
    BY <2>1, <2>3, <2>5 DEF Total
<1>4. Total(now) = spent[now]
  <2>1. now .. now = {now}
    BY <1>1
  <2>2. now \in C
    BY <1>1 DEF C
  <2>3. SumFunctionOnSet(spent, {now}) = spent[now]
    BY <1>1, <2>2, SumSingle
  <2>4. QED
    BY <2>1, <2>3 DEF Total
<1>5. QED
  BY <1>3, <1>4

\* The products that windows add up from.
LEMMA WindowProducts ==
    ASSUME BucketInv, NEW s \in 0 .. now
    PROVE  \E x \in Int, y \in Int, z \in Int :
               /\ x = bucket.rate * (bucket.last_updated - s)
               /\ y = bucket.rate * (now - bucket.last_updated) /\ 0 <= y
               /\ z = bucket.rate * (now - s) /\ x + y = z
<1> USE BucketAssumption
<1>1. /\ bucket.rate \in Nat /\ bucket.last_updated \in Int /\ now \in Int /\ s \in Int
      /\ now - bucket.last_updated \in Nat
  BY DEF BucketInv, TypeOK, Metered, Bucketful
<1>2. PICK rate \in Nat, l \in Int, n \in Int :
          rate = bucket.rate /\ l = bucket.last_updated /\ n = now /\ n - l \in Nat
  BY <1>1
<1>3. rate * (l - s) + rate * (n - l) = rate * (n - s)
  BY <1>1, RateAdds
<1>4. rate * (l - s) \in Int /\ rate * (n - l) \in Nat /\ rate * (n - s) \in Int
  BY <1>1, <1>2
<1>5. QED
  BY <1>2, <1>3, <1>4

\* A request that passes leaves a window that is used to the full: the same one, or the
\* one of now if the bucket was full again.
LEMMA PassTight ==
    ASSUME TightInv, NEW amount \in Amounts, Pass(amount)
    PROVE  Tight'
<1> USE BucketAssumption
<1>0. amount \in Nat
  OBVIOUS
<1>1. /\ BucketInv /\ Tight
      /\ now \in 0 .. MaxTime /\ configured \in 0 .. now /\ spent \in [0 .. MaxTime -> Nat]
      /\ bucket.last_updated \in 0 .. now
      /\ bucket.rate \in Nat /\ bucket.capacity \in Nat /\ bucket.tokens \in Nat
  BY DEF TightInv, BucketInv, TypeOK, Metered, Bucketful
<1>2. now' = now /\ configured' = configured
  BY DEF Pass
<1>3. CASE ~bucket.is_enabled \/ amount = 0
  <2>1. bucket' = bucket
    BY <1>3 DEF Pass, Consume
  <2>2. spent' = spent
    BY <1>1, <1>3 DEF Pass
  <2>3. QED
    BY <1>1, <1>2, <2>1, <2>2 DEF Tight, Total
<1>4. CASE bucket.is_enabled /\ amount # 0
  <2>1. PICK r \in Nat : r = Refilled(bucket, now).tokens
    BY <1>1, RefilledBounds DEF Bucketful
  <2>2. /\ bucket'.tokens = r - amount /\ bucket'.last_updated = now
        /\ bucket'.capacity = bucket.capacity /\ bucket'.rate = bucket.rate
        /\ spent' = [spent EXCEPT ![now] = @ + amount]
    BY <1>1, <1>4, <2>1, RefilledBounds DEF Pass, Consume, Holding
  <2>3. \A t \in 0 .. MaxTime : t > now => spent'[t] = 0
    BY <1>1, <1>4, <2>2 DEF Tight
  <2>4. PICK s \in configured .. bucket.last_updated :
            bucket.tokens + Total(s) = bucket.capacity + bucket.rate * (bucket.last_updated - s)
    BY <1>1, <1>4 DEF Tight
  <2>5. s \in 0 .. now /\ s \in configured .. now
    BY <1>1
  <2>6. PICK x \in Int, y \in Int, z \in Int :
               /\ x = bucket.rate * (bucket.last_updated - s)
               /\ y = bucket.rate * (now - bucket.last_updated) /\ 0 <= y
               /\ z = bucket.rate * (now - s) /\ x + y = z
    BY <1>1, <2>5, WindowProducts
  <2>7. r = IF bucket.tokens + y < bucket.capacity THEN bucket.tokens + y ELSE bucket.capacity
    BY <1>1, <2>1, <2>6, RefilledExact
  <2>8. PICK before \in Nat : before = Total(s)
    BY <1>1, <2>5, TotalIs
  <2>9. SumFunctionOnSet(spent', s .. now) = before + amount
    <3> DEFINE C == 0 .. MaxTime
    <3>1. PICK S : S = s .. now
      OBVIOUS
    <3>2. S \in SUBSET C
      BY <1>1, <2>5, <3>1
    <3>3. IsFiniteSet(S)
      BY <1>1, <2>5, <3>1, FS_Interval
    <3>4. now \in S /\ now \in C
      BY <1>1, <2>5, <3>1
    <3>5. spent \in [C -> Int] /\ spent' \in [C -> Int]
      BY <1>0, <1>1, <2>2
    <3>6. spent'[now] = spent[now] + amount /\ spent[now] \in Nat
          /\ \A t \in S \ {now} : spent[t] = spent'[t]
      BY <1>1, <2>2, <3>2
    <3> HIDE DEF C
    <3>7. SumFunctionOnSet(spent', S) = SumFunctionOnSet(spent, S) - spent[now] + spent'[now]
      BY <3>2, <3>3, <3>4, <3>5, <3>6, SumChange
    <3>8. SumFunctionOnSet(spent, S) = before
      BY <2>8, <3>1 DEF Total
    <3>9. QED
      BY <1>0, <3>1, <3>6, <3>7, <3>8
  <2>10. CASE bucket.tokens + y < bucket.capacity \/ bucket.last_updated = now
    <3>1. r = bucket.tokens + y
      <4>1. CASE bucket.tokens + y < bucket.capacity
        BY <2>7, <4>1
      <4>2. CASE bucket.last_updated = now
        <5>1. y = 0
          BY <1>1, <2>6, <4>2
        <5>2. bucket.tokens <= bucket.capacity
          BY <1>1 DEF BucketInv, NeverOverfilled
        <5>3. QED
          BY <1>1, <2>7, <5>1, <5>2
      <4>3. QED
        BY <2>10, <4>1, <4>2
    <3>2. bucket.tokens + before = bucket.capacity + x
      BY <2>4, <2>6, <2>8
    <3>3. (r - amount) + (before + amount) = bucket.capacity + z
      <4>1. PICK t \in Int, cap \in Int : t = bucket.tokens /\ cap = bucket.capacity
        BY <1>1
      <4>2. x + y = z
        BY <2>6
      <4>3. r = t + y /\ t + before = cap + x
        BY <3>1, <3>2, <4>1
      <4>4. (r - amount) + (before + amount) = cap + z
        BY <1>0, <4>2, <4>3
      <4>5. QED
        BY <4>1, <4>4
    <3>4. bucket'.tokens + Total(s)' = bucket'.capacity + bucket'.rate * (bucket'.last_updated - s)
      BY <1>2, <2>2, <2>6, <2>9, <3>3 DEF Total
    <3>5. s \in configured' .. bucket'.last_updated
      BY <1>2, <2>2, <2>5
    <3>6. QED
      BY <1>2, <2>2, <2>3, <3>4, <3>5 DEF Tight
  <2>11. CASE ~(bucket.tokens + y < bucket.capacity) /\ bucket.last_updated # now
    <3>1. r = bucket.capacity
      BY <2>7, <2>11
    <3>2. spent[now] = 0
      BY <1>1, <1>4, <2>11 DEF Tight
    <3>3. spent'[now] = amount /\ spent' \in [0 .. MaxTime -> Int]
      BY <1>0, <1>1, <2>2, <3>2
    <3>4. SumFunctionOnSet(spent', {now}) = amount
      BY <1>1, <3>3, SumSingle
    <3>5. now .. now = {now}
      BY <1>1
    <3>6. Total(now)' = amount
      BY <1>2, <3>4, <3>5 DEF Total
    <3>7. bucket.rate * (now - now) = 0
      BY <1>1
    <3>8. bucket'.tokens + Total(now)' = bucket'.capacity + bucket'.rate * (bucket'.last_updated - now)
      BY <1>0, <1>1, <1>2, <2>2, <3>1, <3>6, <3>7
    <3>9. now \in configured' .. bucket'.last_updated
      BY <1>1, <1>2, <2>2
    <3>10. \E u \in configured' .. bucket'.last_updated :
              bucket'.tokens + SumFunctionOnSet(spent', u .. now')
                  = bucket'.capacity + bucket'.rate * (bucket'.last_updated - u)
      BY <1>2, <3>8, <3>9 DEF Total
    <3>11. QED
      BY <1>2, <2>2, <2>3, <3>10 DEF Tight, Total
  <2>12. QED
    BY <2>10, <2>11
<1>5. QED
  BY <1>3, <1>4

\* Every step keeps a window that is used to the full.
LEMMA TightNext == TightInv /\ [Next]_vars => TightInv'
<1> SUFFICES ASSUME TightInv, [Next]_vars PROVE TightInv'
  OBVIOUS
<1> USE BucketAssumption
<1>a. /\ now \in 0 .. MaxTime /\ configured \in 0 .. now /\ spent \in [0 .. MaxTime -> Nat]
      /\ bucket.last_updated \in 0 .. now
      /\ bucket.rate \in Nat /\ bucket.capacity \in Nat /\ bucket.tokens \in Nat
  BY DEF TightInv, BucketInv, TypeOK, Metered, Bucketful
<1>b. BucketInv /\ BucketInv' /\ Tight
  BY NextInv DEF TightInv
<1>0. /\ BucketInv /\ BucketInv' /\ Tight
      /\ now \in 0 .. MaxTime /\ configured \in 0 .. now /\ spent \in [0 .. MaxTime -> Nat]
      /\ bucket.last_updated \in 0 .. now
      /\ bucket.rate \in Nat /\ bucket.capacity \in Nat /\ bucket.tokens \in Nat
  BY <1>a, <1>b
<1>1. CASE Tick
  <2>1. /\ now' = now + 1 /\ now + 1 \in 0 .. MaxTime
        /\ UNCHANGED <<bucket, since, passed, configured, spent>>
    BY <1>0, <1>1 DEF Tick
  <2>2. ASSUME bucket.is_enabled, NEW s \in configured .. bucket.last_updated
        PROVE  Total(s)' = Total(s)
    <3> DEFINE C == 0 .. MaxTime
    <3>1. PICK S : S = s .. (now + 1)
      OBVIOUS
    <3>2. S \in SUBSET C
      BY <1>0, <2>1, <2>2, <3>1
    <3>3. IsFiniteSet(S)
      BY <1>0, <2>2, <3>1, FS_Interval
    <3>4. now + 1 \in S /\ S \ {now + 1} = s .. now
      BY <1>0, <2>2, <3>1
    <3>5. spent \in [C -> Int]
      BY <1>0
    <3>6. spent[now + 1] = 0
      BY <1>0, <2>1, <2>2 DEF Tight
    <3>7. Total(s) \in Nat
      BY <1>0, <2>2, TotalIs
    <3>8. PICK next \in Int : next = now + 1
      BY <1>0
    <3> HIDE DEF C
    <3>9. SumFunctionOnSet(spent, S) = spent[next] + SumFunctionOnSet(spent, S \ {next})
      BY <3>2, <3>3, <3>4, <3>5, <3>8, SumRemove
    <3>10. SumFunctionOnSet(spent, S) = 0 + Total(s)
      BY <3>4, <3>6, <3>8, <3>9 DEF Total
    <3>11. Total(s)' = SumFunctionOnSet(spent, S)
      BY <2>1, <3>1 DEF Total
    <3>12. QED
      BY <3>7, <3>10, <3>11
  <2>3. QED
    BY <1>0, <2>1, <2>2 DEF TightInv, Tight
<1>2. ASSUME NEW amount \in Amounts, Pass(amount) PROVE TightInv'
  BY <1>0, <1>2, PassTight DEF TightInv
<1>3. ASSUME NEW c \in Configs, Configure(c) PROVE TightInv'
  <2>1. /\ bucket'.tokens = c.capacity /\ bucket'.capacity = c.capacity /\ bucket'.rate = c.rate
        /\ bucket'.last_updated = now /\ now' = now /\ configured' = now /\ spent' = Nothing
    BY <1>3 DEF Configure, Configured
  <2>2. c.capacity \in Nat /\ c.rate \in Nat
    OBVIOUS
  <2>3. Total(now)' = 0
    <3>1. spent'[now] = 0 /\ spent' \in [0 .. MaxTime -> Int]
      BY <1>0, <2>1 DEF Nothing
    <3>2. SumFunctionOnSet(spent', {now}) = 0
      <4>1. now \in 0 .. MaxTime
        BY <1>0
      <4>2. SumFunctionOnSet(spent', {now}) = spent'[now]
        BY <3>1, <4>1, SumSingle
      <4>3. QED
        BY <3>1, <4>2
    <3>3. now .. now = {now}
      BY <1>0
    <3>4. QED
      BY <2>1, <3>2, <3>3 DEF Total
  <2>4. bucket'.rate * (now - now) = 0
    BY <1>0, <2>1, <2>2
  <2>5. bucket'.tokens + Total(now)' = bucket'.capacity + bucket'.rate * (bucket'.last_updated - now)
    BY <2>1, <2>2, <2>3, <2>4
  <2>6. now \in configured' .. bucket'.last_updated
    BY <1>0, <2>1
  <2>7. \E u \in configured' .. bucket'.last_updated :
            bucket'.tokens + SumFunctionOnSet(spent', u .. now')
                = bucket'.capacity + bucket'.rate * (bucket'.last_updated - u)
    BY <2>1, <2>5, <2>6 DEF Total
  <2>8. \A t \in 0 .. MaxTime : spent'[t] = 0
    BY <2>1 DEF Nothing
  <2>9. QED
    BY <1>0, <2>7, <2>8 DEF TightInv, Tight, Total
<1>4. CASE RemoveBucket
  BY <1>0, <1>4 DEF RemoveBucket, Disabled, TightInv, Tight
<1>5. CASE Watch \/ UNCHANGED vars
  BY <1>0, <1>5 DEF Watch, vars, TightInv, Tight, Total
<1>6. QED
  BY <1>1, <1>2, <1>3, <1>4, <1>5 DEF Next

\* A request is refused only when some window forbids it.
LEMMA TightAdmits == TightInv => NoStarvation
<1> SUFFICES ASSUME TightInv, bucket.is_enabled, NEW amount \in Amounts,
                    \A s \in configured .. now :
                        Total(s) + amount <= bucket.capacity + bucket.rate * (now - s)
             PROVE  Admits(bucket, amount, now)
  BY DEF NoStarvation
<1> USE BucketAssumption
<1>0. /\ BucketInv /\ Tight /\ amount \in Nat
      /\ now \in 0 .. MaxTime /\ configured \in 0 .. now
      /\ bucket.last_updated \in 0 .. now
      /\ bucket.rate \in Nat /\ bucket.capacity \in Nat /\ bucket.tokens \in Nat
      /\ bucket.tokens <= bucket.capacity
  BY DEF TightInv, BucketInv, TypeOK, Metered, Bucketful, NeverOverfilled
<1>1. amount <= bucket.capacity
  <2>1. now \in configured .. now /\ now \in 0 .. now
    BY <1>0
  <2>2. Total(now) + amount <= bucket.capacity + bucket.rate * (now - now)
    BY <2>1
  <2>3. bucket.rate * (now - now) = 0 /\ Total(now) \in Nat
    BY <1>0, <2>1, TotalIs
  <2>4. QED
    BY <1>0, <2>2, <2>3
<1>2. amount <= Refilled(bucket, now).tokens
  <2>1. PICK s \in configured .. bucket.last_updated :
            bucket.tokens + Total(s) = bucket.capacity + bucket.rate * (bucket.last_updated - s)
    BY <1>0 DEF Tight
  <2>2. s \in 0 .. now /\ s \in configured .. now
    BY <1>0
  <2>3. PICK x \in Int, y \in Int, z \in Int :
               /\ x = bucket.rate * (bucket.last_updated - s)
               /\ y = bucket.rate * (now - bucket.last_updated) /\ 0 <= y
               /\ z = bucket.rate * (now - s) /\ x + y = z
    BY <1>0, <2>2, WindowProducts
  <2>4. PICK t \in Int, cap \in Int, before \in Nat :
            t = bucket.tokens /\ cap = bucket.capacity /\ before = Total(s)
    BY <1>0, <2>2, TotalIs
  <2>5. before + amount <= cap + z /\ t + before = cap + x
    BY <2>1, <2>2, <2>3, <2>4
  <2>6. x + y = z
    BY <2>3
  <2>7. amount <= t + y
    BY <1>0, <2>5, <2>6
  <2>8. Refilled(bucket, now).tokens = IF t + y < cap THEN t + y ELSE cap
    BY <1>0, <2>3, <2>4, RefilledExact
  <2>9. QED
    BY <1>1, <2>4, <2>7, <2>8
<1>3. QED
  BY <1>0, <1>1, <1>2 DEF Admits

\* And it refuses no more: a request is let through if no window since the configuration
\* of the bucket would pass its bound with it.
THEOREM NotStarved == Spec => []NoStarvation
<1>1. Init => TightInv
  <2>1. Init => Tight
    BY DEF Init, Tight, Disabled
  <2>2. QED
    BY <2>1, InitInv DEF TightInv
<1>2. QED
  BY <1>1, TightNext, TightAdmits, PTL DEF Spec

-----------------------------------------------------------------------------
(* Decimals.                                                               *)

\* The recursion of pow10_u128 has its solution: a product over 1 .. n.
LEMMA PowExists == \E f : f = [n \in Nat |-> IF n = 0 THEN 1 ELSE Radix * f[n - 1]]
<1> DEFINE step == [p \in Nat \X Int |-> Radix * p[2]]
           pick == LastOf(Nat)
           F(n) == FoldOf(step, pick, 1, 1 .. n)
           f == [n \in Nat |-> F(n)]
<1>0. Radix \in Nat
  BY PoolAssumption
<1>1. ASSUME NEW n \in Nat
      PROVE  IsFiniteSet(1 .. n) /\ Picks(pick, 1 .. n)
  <2>1. IsFiniteSet(1 .. n)
    BY FS_Interval
  <2>2. Picks(LastOf(1 .. n), 1 .. n)
    BY LastPicks
  <2>3. \A s \in SUBSET (1 .. n) : LastOf(1 .. n)[s] = LastOf(Nat)[s]
    BY DEF LastOf
  <2>4. QED
    BY <2>1, <2>2, <2>3 DEF Picks
<1>2. F(0) = 1
  <2>1. PICK S : S = 1 .. 0
    OBVIOUS
  <2>2. S = {} /\ Picks(pick, S)
    BY <1>1, <2>1
  <2> HIDE DEF step, pick
  <2>3. FoldOf(step, pick, 1, S) = 1
    BY <2>2, FoldEmpty
  <2>4. QED
    BY <2>1, <2>3
<1>3. ASSUME NEW n \in Nat, n # 0
      PROVE  F(n) = step[<<n, F(n - 1)>>]
  <2>1. PICK S : S = 1 .. n
    OBVIOUS
  <2>2. IsFiniteSet(S) /\ Picks(pick, S) /\ S # {}
    BY <1>1, <1>3, <2>1
  <2>3. pick[S] = n /\ S \ {n} = 1 .. (n - 1)
    BY <1>3, <2>1, MaxOfInterval DEF LastOf
  <2> HIDE DEF step, pick
  <2>4. FoldOf(step, pick, 1, S) = step[<<pick[S], FoldOf(step, pick, 1, S \ {pick[S]})>>]
    BY <2>2, FoldUnfold
  <2>5. QED
    BY <2>1, <2>3, <2>4
<1>4. \A n \in Nat : F(n) \in Int
  <2> DEFINE G == {n \in Nat : F(n) \in Int}
  <2>1. SUFFICES ASSUME NEW n \in Nat PROVE F(n) \in Int
    OBVIOUS
  <2>2. 0 \in G
    BY <1>2
  <2>3. ASSUME NEW i \in 0 .. (n - 1), i \in G PROVE i + 1 \in G
    <3>1. i + 1 \in Nat /\ i + 1 # 0 /\ (i + 1) - 1 = i /\ F(i) \in Int
      BY <2>3
    <3>2. F(i + 1) = step[<<i + 1, F(i)>>]
      BY <1>3, <3>1
    <3> HIDE DEF F
    <3>3. step[<<i + 1, F(i)>>] = Radix * F(i)
      BY <3>1
    <3>4. Radix * F(i) \in Int
      BY <1>0, <3>1
    <3>5. QED
      BY <3>1, <3>2, <3>3, <3>4
  <2>4. n \in G
    <3> HIDE DEF G
    <3>1. n \in 0 .. n
      OBVIOUS
    <3>2. QED
      BY <2>2, <2>3, <3>1, IntervalInduction
  <2>5. QED
    BY <2>4
<1>5. ASSUME NEW n \in Nat PROVE f[n] = IF n = 0 THEN 1 ELSE Radix * f[n - 1]
  <2> HIDE DEF F
  <2>1. CASE n = 0
    BY <1>2, <2>1
  <2>2. CASE n # 0
    <3>1. F(n) = step[<<n, F(n - 1)>>] /\ n - 1 \in Nat
      BY <1>3, <2>2
    <3>2. F(n - 1) \in Int
      BY <1>4, <3>1
    <3>3. F(n) = Radix * F(n - 1)
      BY <3>1, <3>2
    <3>4. QED
      BY <2>2, <3>1, <3>3
  <2>3. QED
    BY <2>1, <2>2
<1>6. f = [n \in Nat |-> IF n = 0 THEN 1 ELSE Radix * f[n - 1]]
  <2>1. f = [n \in Nat |-> f[n]]
    OBVIOUS
  <2> HIDE DEF f
  <2>2. QED
    BY <1>5, <2>1
<1>7. QED
  BY <1>6

\* Its equation.
LEMMA PowIs == Pow = [n \in Nat |-> IF n = 0 THEN 1 ELSE Radix * Pow[n - 1]]
BY PowExists DEF Pow

\* Powers are positive.
LEMMA PowPositive == ASSUME NEW n \in Nat PROVE Pow[n] \in Nat \ {0}
<1> DEFINE G == {i \in Nat : Pow[i] \in Nat \ {0}}
<1>0. Radix \in Nat \ {0}
  BY PoolAssumption
<1>1. 0 \in G
  BY PowIs
<1>2. ASSUME NEW i \in 0 .. (n - 1), i \in G PROVE i + 1 \in G
  <2>1. i + 1 \in Nat /\ i + 1 # 0 /\ (i + 1) - 1 = i
    OBVIOUS
  <2>2. Pow[i + 1] = Radix * Pow[i]
    BY <2>1, PowIs
  <2>3. PICK p \in Nat \ {0} : p = Pow[i]
    BY <1>2
  <2>4. Radix * p \in Nat \ {0}
    BY <1>0
  <2>5. QED
    BY <2>1, <2>2, <2>3, <2>4
<1>3. n \in G
  <2> HIDE DEF G
  <2>1. n \in 0 .. n
    OBVIOUS
  <2>2. QED
    BY <1>1, <1>2, <2>1, IntervalInduction
<1>4. QED
  BY <1>3

\* Exponents add.
LEMMA PowAdds == ASSUME NEW m \in Nat, NEW n \in Nat PROVE Pow[m + n] = Pow[m] * Pow[n]
<1> DEFINE G == {i \in Nat : Pow[m + i] = Pow[m] * Pow[i]}
<1>0. Radix \in Nat /\ Pow[m] \in Nat
  BY PoolAssumption, PowPositive
<1>1. 0 \in G
  <2>1. m + 0 = m /\ Pow[0] = 1
    BY PowIs
  <2>2. QED
    BY <1>0, <2>1
<1>2. ASSUME NEW i \in 0 .. (n - 1), i \in G PROVE i + 1 \in G
  <2>1. i + 1 \in Nat /\ i + 1 # 0 /\ (i + 1) - 1 = i
    OBVIOUS
  <2>2. (m + i) + 1 \in Nat /\ (m + i) + 1 # 0 /\ ((m + i) + 1) - 1 = m + i /\ m + (i + 1) = (m + i) + 1
    OBVIOUS
  <2>3. Pow[i + 1] = Radix * Pow[i]
    BY <2>1, PowIs
  <2>4. Pow[m + (i + 1)] = Radix * Pow[m + i]
    BY <2>2, PowIs
  <2>5. PICK p \in Nat, q \in Nat : p = Pow[m] /\ q = Pow[i]
    BY <1>0, PowPositive
  <2>6. Pow[m + i] = p * q
    BY <1>2, <2>5
  <2>7. Radix * (p * q) = p * (Radix * q)
    BY <1>0
  <2>8. QED
    BY <2>1, <2>3, <2>4, <2>5, <2>6, <2>7
<1>3. n \in G
  <2> HIDE DEF G
  <2>1. n \in 0 .. n
    OBVIOUS
  <2>2. QED
    BY <1>1, <1>2, <2>1, IntervalInduction
<1>4. QED
  BY <1>3

\* No token has more decimals than the finest.
LEMMA FinestIs == Finest \in Nat /\ Decimals <= Finest /\ \A c \in Chains : RemoteDecimals[c] <= Finest
<1> DEFINE R == {RemoteDecimals[c] : c \in Chains}
           S == {Decimals} \cup R
<1>1. IsFiniteSet(R)
  <2>1. RemoteDecimals \in Surjection(Chains, R)
    BY PoolAssumption DEF Surjection
  <2>2. QED
    BY <2>1, PoolAssumption, FS_Surjection
<1>2. IsFiniteSet(S)
  BY <1>1, FS_Singleton, FS_Union
<1>3. S \subseteq Nat /\ S # {}
  BY PoolAssumption
<1>4. Finest = Max(S)
  BY DEF Finest
<1>5. Max(S) \in S /\ \A y \in S : Max(S) >= y
  <2> HIDE DEF S
  <2>1. \A x \in S : x \in Int
    BY <1>3
  <2>2. QED
    BY <1>2, <1>3, <2>1, MaxIsIn
<1>6. \A y \in S : y <= Finest
  BY <1>3, <1>4, <1>5
<1>7. QED
  BY <1>3, <1>4, <1>5, <1>6

\* What an amount is worth.
LEMMA WorthIs ==
    ASSUME NEW d \in Nat, d <= Finest
    PROVE  /\ \A a \in Nat : Worth(a, d) \in Nat
           /\ \A a, b \in Nat : Worth(a + b, d) = Worth(a, d) + Worth(b, d)
           /\ \A a, b \in Nat : b <= a => Worth(a - b, d) = Worth(a, d) - Worth(b, d)
           /\ \A a, b \in Nat : b <= a => Worth(b, d) <= Worth(a, d)
           /\ Worth(0, d) = 0
<1>1. PICK p \in Nat : p = Pow[Finest - d]
  <2>1. Finest - d \in Nat
    BY FinestIs
  <2>2. QED
    BY <2>1, PowPositive
<1>2. \A a : Worth(a, d) = a * p
  BY <1>1 DEF Worth
<1>3. \A a, b \in Nat : (a + b) * p = a * p + b * p /\ (a - b) * p = a * p - b * p /\ a * p \in Nat
  OBVIOUS
<1>4. \A a, b \in Nat : b <= a => b * p <= a * p
  OBVIOUS
<1>5. 0 * p = 0
  OBVIOUS
<1>6. QED
  BY <1>2, <1>3, <1>4, <1>5

\* Amounts and their worth add up.
LEMMA WorthAdds ==
    ASSUME NEW d \in Nat, d <= Finest, NEW a \in Nat, NEW b \in Nat
    PROVE  Worth(a + b, d) = Worth(a, d) + Worth(b, d)
BY WorthIs

\* A division rounds down.
LEMMA DivDown ==
    ASSUME NEW a \in Nat, NEW p \in Nat \ {0}
    PROVE  a \div p \in Nat /\ (a \div p) * p <= a
<1>1. PICK q : q = a \div p
  OBVIOUS
<1>2. q \in Int /\ p * q <= a /\ a < p * (q + 1)
  BY <1>1
<1>3. 0 < p * (q + 1)
  BY <1>2
<1>4. 0 < q + 1
  BY <1>2, <1>3
<1>5. q * p = p * q
  BY <1>2
<1>6. QED
  BY <1>1, <1>2, <1>4, <1>5

\* calculate_local_amount: what comes out is worth no more than what goes in, whichever of
\* the two tokens is finer.
LEMMA ConversionNoGain ==
    ASSUME NEW amount \in Nat, NEW from \in Nat, from <= Finest, NEW to \in Nat, to <= Finest,
           NEW out, out = CalculateLocalAmount(amount, from, to), out # Overflow
    PROVE  out \in Nat /\ Worth(out, to) <= Worth(amount, from)
<1>0. Finest \in Nat /\ MaxDiff \in Nat
  BY FinestIs, PoolAssumption
<1>1. CASE from = to
  <2>1. out = amount
    BY <1>1 DEF CalculateLocalAmount
  <2>2. Worth(amount, to) \in Nat
    BY WorthIs
  <2>3. QED
    BY <1>1, <2>1, <2>2
<1>2. CASE from > to
  <2>1. PICK k \in Nat : k = from - to
    BY <1>2
  <2>2. PICK e \in Nat : e = Finest - from
    BY <1>0
  <2>3. Finest - to = e + k
    BY <1>0, <2>1, <2>2
  <2>4. PICK p \in Nat \ {0}, q \in Nat \ {0} : p = Pow[k] /\ q = Pow[e]
    BY PowPositive
  <2>5. out = amount \div p
    BY <1>2, <2>1, <2>4 DEF CalculateLocalAmount
  <2>6. out \in Nat /\ out * p <= amount
    BY <2>5, DivDown
  <2>7. Pow[Finest - to] = q * p
    BY <2>3, <2>4, PowAdds
  <2>8. (out * p) * q <= amount * q
    BY <2>6
  <2>9. out * (q * p) = (out * p) * q
    BY <2>6
  <2>10. QED
    BY <2>2, <2>4, <2>6, <2>7, <2>8, <2>9 DEF Worth
<1>3. CASE from < to
  <2>1. PICK k \in Nat : k = to - from
    BY <1>3
  <2>2. PICK e \in Nat : e = Finest - to
    BY <1>0
  <2>3. Finest - from = e + k
    BY <1>0, <2>1, <2>2
  <2>4. PICK p \in Nat \ {0}, q \in Nat \ {0} : p = Pow[k] /\ q = Pow[e]
    BY PowPositive
  <2>5. out = amount * p
    BY <1>3, <2>1, <2>4 DEF CalculateLocalAmount
  <2>6. out \in Nat
    BY <2>5
  <2>7. Pow[Finest - from] = q * p
    BY <2>3, <2>4, PowAdds
  <2>8. (amount * p) * q = amount * (q * p) /\ amount * (q * p) \in Nat
    OBVIOUS
  <2>9. QED
    BY <2>2, <2>4, <2>5, <2>6, <2>7, <2>8 DEF Worth
<1>4. QED
  BY <1>1, <1>2, <1>3

-----------------------------------------------------------------------------
(* What a pool owes.                                                       *)

PoolTypes ==
    /\ kind \in {"lock_release", "burn_mint", "siloed"}
    /\ held \in [Holders -> Nat]
    /\ claim \in [Chains -> Nat]
    /\ box \in [Chains -> Boxes \cup {None}]
    /\ callers \in SUBSET Boxes
    /\ remapped \in BOOLEAN

PoolInv == PoolTypes /\ ListedConsistent /\ NoInflation /\ Solvent

\* What the claims of some chains are worth.
LEMMA ClaimsNat ==
    ASSUME claim \in [Chains -> Nat], NEW S \in SUBSET Chains
    PROVE  Claims(S) \in Nat
<1> DEFINE w == [c \in Chains |-> Worth(claim[c], RemoteDecimals[c])]
<1>1. IsFiniteSet(S)
  BY PoolAssumption, FS_Subset
<1>2. \A c \in Chains : RemoteDecimals[c] \in Nat /\ RemoteDecimals[c] <= Finest /\ claim[c] \in Nat
  BY FinestIs, PoolAssumption
<1>3. \A c \in Chains : Worth(claim[c], RemoteDecimals[c]) \in Nat
  BY <1>2, WorthIs
<1>4. w \in [Chains -> Nat] /\ w \in [Chains -> Int]
  BY <1>3
<1>5. Claims(S) = SumFunctionOnSet(w, S)
  BY DEF Claims
<1> HIDE DEF w
<1>6. SumFunctionOnSet(w, S) \in Int
  BY <1>1, <1>4, SumInt
<1>7. {} \in SUBSET S
  OBVIOUS
<1>8. 0 <= SumFunctionOnSet(w, S)
  BY <1>1, <1>4, <1>7, SumPart
<1>9. QED
  BY <1>5, <1>6, <1>8

\* One chain's claim changes.
LEMMA ClaimsChange ==
    ASSUME claim \in [Chains -> Nat], claim' \in [Chains -> Nat], NEW c \in Chains,
           \A d \in Chains \ {c} : claim'[d] = claim[d], NEW S \in SUBSET Chains
    PROVE  Claims(S)' = IF c \in S
                        THEN Claims(S) - Worth(claim[c], RemoteDecimals[c])
                                 + Worth(claim'[c], RemoteDecimals[c])
                        ELSE Claims(S)
<1> DEFINE w == [d \in Chains |-> Worth(claim[d], RemoteDecimals[d])]
           v == [d \in Chains |-> Worth(claim'[d], RemoteDecimals[d])]
<1>1. IsFiniteSet(S)
  BY PoolAssumption, FS_Subset
<1>2. \A d \in Chains : RemoteDecimals[d] \in Nat /\ RemoteDecimals[d] <= Finest
                        /\ claim[d] \in Nat /\ claim'[d] \in Nat
  BY FinestIs, PoolAssumption
<1>3. \A d \in Chains : /\ Worth(claim[d], RemoteDecimals[d]) \in Nat
                        /\ Worth(claim'[d], RemoteDecimals[d]) \in Nat
  BY <1>2, WorthIs
<1>4. w \in [Chains -> Int] /\ v \in [Chains -> Int]
  BY <1>3
<1>5. \A d \in S \ {c} : w[d] = v[d]
  OBVIOUS
<1>6. /\ w[c] = Worth(claim[c], RemoteDecimals[c])
      /\ v[c] = Worth(claim'[c], RemoteDecimals[c])
  OBVIOUS
<1>7. Claims(S) = SumFunctionOnSet(w, S) /\ Claims(S)' = SumFunctionOnSet(v, S)
  BY DEF Claims, Worth, Finest
<1> HIDE DEF w, v
<1>8. SumFunctionOnSet(v, S) =
          IF c \in S THEN SumFunctionOnSet(w, S) - w[c] + v[c] ELSE SumFunctionOnSet(w, S)
  BY <1>1, <1>4, <1>5, SumChange
<1>9. QED
  BY <1>6, <1>7, <1>8

\* A chain's claim among others.
LEMMA ClaimsRemove ==
    ASSUME claim \in [Chains -> Nat], NEW S \in SUBSET Chains, NEW c \in S
    PROVE  Claims(S) = Worth(claim[c], RemoteDecimals[c]) + Claims(S \ {c})
<1> DEFINE w == [d \in Chains |-> Worth(claim[d], RemoteDecimals[d])]
<1>1. IsFiniteSet(S)
  BY PoolAssumption, FS_Subset
<1>2. \A d \in Chains : RemoteDecimals[d] \in Nat /\ RemoteDecimals[d] <= Finest /\ claim[d] \in Nat
  BY FinestIs, PoolAssumption
<1>3. \A d \in Chains : Worth(claim[d], RemoteDecimals[d]) \in Nat
  BY <1>2, WorthIs
<1>4. w \in [Chains -> Int]
  BY <1>3
<1>5. w[c] = Worth(claim[c], RemoteDecimals[c])
  OBVIOUS
<1>6. Claims(S) = SumFunctionOnSet(w, S) /\ Claims(S \ {c}) = SumFunctionOnSet(w, S \ {c})
  BY DEF Claims
<1> HIDE DEF w
<1>7. SumFunctionOnSet(w, S) = w[c] + SumFunctionOnSet(w, S \ {c})
  BY <1>1, <1>4, SumRemove
<1>8. QED
  BY <1>5, <1>6, <1>7

\* Claims of nothing.
LEMMA ClaimsZero ==
    ASSUME claim = [c \in Chains |-> 0], NEW S \in SUBSET Chains
    PROVE  Claims(S) = 0
<1> DEFINE G == {s \in SUBSET S : Claims(s) = 0}
<1>0. claim \in [Chains -> Nat]
  OBVIOUS
<1>1. ASSUME NEW s \in SUBSET S, \A t \in SUBSET s : t # s => t \in G
      PROVE  s \in G
  <2>1. CASE s = {}
    <3> DEFINE w == [d \in Chains |-> 0]
    <3>1. \A d \in Chains : RemoteDecimals[d] \in Nat /\ RemoteDecimals[d] <= Finest
      BY FinestIs, PoolAssumption
    <3>2. \A d \in Chains : Worth(claim[d], RemoteDecimals[d]) = 0
      BY <3>1, WorthIs
    <3>3. Claims(s) = SumFunctionOnSet(w, s)
      BY <3>2 DEF Claims
    <3>4. w \in [Chains -> Int]
      OBVIOUS
    <3> HIDE DEF w
    <3>5. QED
      BY <2>1, <3>3, <3>4, SumEmpty
  <2>2. CASE s # {}
    <3>1. PICK c \in s : TRUE
      BY <2>2
    <3>2. Claims(s) = Worth(claim[c], RemoteDecimals[c]) + Claims(s \ {c})
      BY <1>0, ClaimsRemove
    <3>3. s \ {c} \in G
      BY <1>1, <3>1
    <3>4. Worth(claim[c], RemoteDecimals[c]) = 0
      <4>1. c \in Chains /\ RemoteDecimals[c] \in Nat /\ RemoteDecimals[c] <= Finest
        BY FinestIs, PoolAssumption
      <4>2. QED
        BY <4>1, WorthIs
    <3>5. QED
      BY <3>2, <3>3, <3>4
  <2>3. QED
    BY <2>1, <2>2
<1>2. G = SUBSET S
  <2> HIDE DEF G
  <2>1. G \in SUBSET (SUBSET S) /\ IsFiniteSet(S)
    BY PoolAssumption, FS_Subset DEF G
  <2>2. QED
    BY <1>1, <2>1, SubsetInduction
<1>3. QED
  BY <1>2

\* Tokens of some worth go one way between the users and the place of a chain's tokens, and
\* no more of them between the chain's claims.
LEMMA Transfer ==
    ASSUME PoolTypes, PoolTypes', NoInflation, Solvent, NEW c \in Chains, NEW x \in Int,
           kind' = kind, box' = box, remapped' = remapped,
           \A d \in Chains \ {c} : claim'[d] = claim[d],
           Worth(claim'[c], RemoteDecimals[c]) <= Worth(claim[c], RemoteDecimals[c]) + x,
           Worth(held'["users"], Decimals) = Worth(held["users"], Decimals) - x,
           kind # "burn_mint" =>
               /\ Worth(held'[Place(c)], Decimals) = Worth(held[Place(c)], Decimals) + x
               /\ \A h \in Holders \ {"users", Place(c)} : held'[h] = held[h]
    PROVE  NoInflation' /\ Solvent'
<1>0. /\ claim \in [Chains -> Nat] /\ claim' \in [Chains -> Nat]
      /\ held \in [Holders -> Nat] /\ held' \in [Holders -> Nat]
  BY DEF PoolTypes
<1>1. /\ Decimals \in Nat /\ Decimals <= Finest /\ Supply \in Nat
      /\ RemoteDecimals[c] \in Nat /\ RemoteDecimals[c] <= Finest
  BY FinestIs, PoolAssumption
<1>2. PICK before \in Nat, after \in Nat :
          before = Worth(claim[c], RemoteDecimals[c]) /\ after = Worth(claim'[c], RemoteDecimals[c])
  BY <1>0, <1>1, WorthIs
<1>3. after <= before + x
  BY <1>2
<1>4. \A h \in Holders : Worth(held[h], Decimals) \in Nat /\ Worth(held'[h], Decimals) \in Nat
  BY <1>0, <1>1, WorthIs
<1>5. ASSUME NEW S \in SUBSET Chains
      PROVE  /\ Claims(S) \in Nat /\ Claims(S)' \in Nat
             /\ Claims(S)' = IF c \in S THEN Claims(S) - before + after ELSE Claims(S)
  <2>1. Claims(S) \in Nat
    BY <1>0, ClaimsNat
  <2>2. Claims(S)' = IF c \in S THEN Claims(S) - before + after ELSE Claims(S)
    BY <1>0, <1>2, ClaimsChange
  <2>3. Claims(S)' \in Nat
    <3>1. CASE c \in S
      <4>1. Claims(S) = before + Claims(S \ {c}) /\ Claims(S \ {c}) \in Nat
        BY <1>0, <1>2, <3>1, ClaimsRemove, ClaimsNat
      <4>2. QED
        BY <2>2, <3>1, <4>1
    <3>2. CASE c \notin S
      BY <2>1, <2>2, <3>2
    <3>3. QED
      BY <3>1, <3>2
  <2>4. QED
    BY <2>1, <2>2, <2>3
<1>6. NoInflation'
  <2>1. PICK users \in Nat, owes \in Nat, all \in Nat :
            /\ users = Worth(held["users"], Decimals) /\ owes = Claims(Chains)
            /\ all = Worth(Supply, Decimals)
    BY <1>1, <1>4, <1>5, WorthIs DEF Holders
  <2>2. users + owes <= all
    BY <2>1 DEF NoInflation
  <2>3. Claims(Chains)' = owes - before + after
    BY <1>5, <2>1
  <2>4. Worth(held'["users"], Decimals) = users - x
    BY <2>1
  <2>5. (users - x) + (owes - before + after) <= all
    BY <1>3, <2>2
  <2>6. Worth(held'["users"], Decimals) + Claims(Chains)' <= Worth(Supply, Decimals)
    BY <2>1, <2>3, <2>4, <2>5
  <2>7. QED
    BY <2>6 DEF NoInflation, Worth, Finest
<1>7. ASSUME NEW S \in SUBSET Chains, NEW h \in Holders, kind # "burn_mint",
             Claims(S) <= Worth(held[h], Decimals),
             \/ c \in S /\ h = Place(c)
             \/ c \notin S /\ h \notin {"users", Place(c)}
      PROVE  Claims(S)' <= Worth(held'[h], Decimals)
  <2>1. PICK owes \in Nat, here \in Nat : owes = Claims(S) /\ here = Worth(held[h], Decimals)
    BY <1>4, <1>5
  <2>2. owes <= here
    BY <1>7, <2>1
  <2>3. CASE c \in S /\ h = Place(c)
    <3>1. Worth(held'[h], Decimals) = here + x
      BY <1>7, <2>1, <2>3
    <3>2. Claims(S)' = owes - before + after
      BY <1>5, <2>1, <2>3
    <3>3. owes - before + after <= here + x
      BY <1>3, <2>2
    <3>4. QED
      BY <3>1, <3>2, <3>3
  <2>4. CASE c \notin S /\ h \notin {"users", Place(c)}
    <3>1. Claims(S)' = owes /\ held'[h] = held[h]
      BY <1>5, <1>7, <2>1, <2>4
    <3>2. QED
      BY <2>1, <2>2, <3>1
  <2>5. QED
    BY <1>7, <2>3, <2>4
<1>8. Solvent'
  <2>1. ASSUME kind = "lock_release"
        PROVE  Claims(Chains)' <= Worth(held'["pool"], Decimals)
    <3>1. Claims(Chains) <= Worth(held["pool"], Decimals) /\ Place(c) = "pool"
      BY <2>1 DEF Solvent, Place
    <3>2. "pool" \in Holders /\ kind # "burn_mint"
      BY <2>1 DEF Holders
    <3>3. Chains \in SUBSET Chains
      OBVIOUS
    <3>4. QED
      BY <1>7, <3>1, <3>2, <3>3
  <2>2. ASSUME kind = "siloed", ~remapped, NEW b \in Boxes
        PROVE  Claims({d \in Chains : box[d] = b})' <= Worth(held'[b], Decimals)
    <3>1. PICK S : S = {d \in Chains : box[d] = b}
      OBVIOUS
    <3>2. S \in SUBSET Chains /\ b \in Holders /\ b # "users" /\ kind # "burn_mint"
      BY <2>2, <3>1, PoolAssumption DEF Holders
    <3>3. Claims(S) <= Worth(held[b], Decimals)
      BY <2>2, <3>1 DEF Solvent
    <3>4. Place(c) = box[c]
      BY <2>2 DEF Place
    <3>5. c \in S <=> b = Place(c)
      BY <3>1, <3>4
    <3>6. Claims(S)' <= Worth(held'[b], Decimals)
      BY <1>7, <3>2, <3>3, <3>5
    <3>7. Claims({d \in Chains : box[d] = b})' = Claims(S)'
      BY <3>1 DEF Claims
    <3>8. QED
      BY <3>6, <3>7
  <2>3. QED
    BY <2>1, <2>2 DEF Solvent, Worth, Finest
<1>9. QED
  BY <1>6, <1>8

\* A charge stores no bucket that was not there.
LEMMA ChargeKeepsKeys ==
    ASSUME NEW dir, NEW c, NEW f, NEW amount, Charge(dir, c, f, amount)
    PROVE  DOMAIN buckets' = DOMAIN buckets
<1> DEFINE k == Charged(dir, c, f)
<1>1. CASE amount = 0 \/ ~Get(k).is_enabled
  BY <1>1 DEF Charge
<1>2. CASE ~(amount = 0 \/ ~Get(k).is_enabled)
  <2>1. buckets' = Put(k, Consume(Get(k), amount, poolNow))
    BY <1>2 DEF Charge
  <2>2. k \in DOMAIN buckets
    BY <1>2 DEF Get, Disabled
  <2> HIDE DEF k
  <2>3. QED
    BY <2>1, <2>2 DEF Put
<1>3. QED
  BY <1>1, <1>2

\* Where a chain's tokens are is not with the users.
LEMMA PlaceApart ==
    ASSUME PoolTypes, NEW c \in Chains, NEW amount, Open(c, amount)
    PROVE  Place(c) \in Holders /\ Place(c) # "users"
<1>1. CASE kind = "siloed"
  BY <1>1, PoolAssumption DEF Open, Place, PoolTypes, Holders, None
<1>2. CASE kind # "siloed"
  BY <1>2 DEF Place, Holders
<1>3. QED
  BY <1>1, <1>2

\* lock_or_burn.
LEMMA LockKeeps ==
    ASSUME PoolInv, NEW c \in Chains, NEW amount \in 0 .. Supply, NEW f, LockOrBurn(c, amount, f)
    PROVE  PoolInv'
<1> DEFINE minted == CalculateLocalAmount(amount, Decimals, RemoteDecimals[c])
           p == Place(c)
<1>0. /\ Decimals \in Nat /\ Decimals <= Finest
      /\ RemoteDecimals[c] \in Nat /\ RemoteDecimals[c] <= Finest /\ amount \in Nat
  BY FinestIs, PoolAssumption
<1>1. PoolTypes /\ p \in Holders /\ p # "users" /\ "users" \in Holders
  BY PlaceApart DEF PoolInv, LockOrBurn, Holders
<1>2. /\ held \in [Holders -> Nat] /\ claim \in [Chains -> Nat]
      /\ amount <= held["users"]
      /\ UNCHANGED <<kind, poolNow, listed, remote, allowedFinality, box, remapped, callers>>
  BY DEF PoolInv, PoolTypes, LockOrBurn
<1>3. PICK y \in Nat : /\ claim' = [claim EXCEPT ![c] = @ + y]
                       /\ Worth(y, RemoteDecimals[c]) <= Worth(amount, Decimals)
  <2>1. CASE minted = Overflow
    <3>0. claim[c] + 0 = claim[c]
      BY <1>2
    <3>1. claim' = [claim EXCEPT ![c] = @ + 0]
      BY <2>1, <3>0 DEF LockOrBurn
    <3>2. Worth(0, RemoteDecimals[c]) = 0 /\ Worth(amount, Decimals) \in Nat
      BY <1>0, WorthIs
    <3>3. Worth(0, RemoteDecimals[c]) <= Worth(amount, Decimals)
      BY <3>2
    <3>4. QED
      BY <3>1, <3>3
  <2>2. CASE minted # Overflow
    <3>1. claim' = [claim EXCEPT ![c] = @ + minted]
      BY <2>2 DEF LockOrBurn
    <3> HIDE DEF minted
    <3>2. minted \in Nat /\ Worth(minted, RemoteDecimals[c]) <= Worth(amount, Decimals)
      BY <1>0, <2>2, ConversionNoGain DEF minted
    <3>3. QED
      BY <3>1, <3>2
  <2>3. QED
    BY <2>1, <2>2
<1> HIDE DEF minted, p
<1>4. /\ claim' \in [Chains -> Nat] /\ claim'[c] = claim[c] + y
      /\ \A d \in Chains \ {c} : claim'[d] = claim[d]
  BY <1>2, <1>3
<1>5. /\ held' \in [Holders -> Nat] /\ held'["users"] = held["users"] - amount
      /\ kind # "burn_mint" => /\ held'[p] = held[p] + amount
                               /\ \A h \in Holders \ {"users", p} : held'[h] = held[h]
  <2>1. CASE kind = "burn_mint"
    <3>1. held' = [held EXCEPT !["users"] = @ - amount]
      BY <2>1 DEF LockOrBurn
    <3>2. QED
      BY <1>0, <1>1, <1>2, <2>1, <3>1
  <2>2. CASE kind # "burn_mint"
    <3>1. held' = [held EXCEPT !["users"] = @ - amount, ![p] = @ + amount]
      BY <2>2 DEF LockOrBurn, Move, p
    <3>2. QED
      BY <1>0, <1>1, <1>2, <3>1
  <2>3. QED
    BY <2>1, <2>2
<1>6. PoolTypes'
  BY <1>1, <1>2, <1>4, <1>5 DEF PoolTypes, Holders
<1>7. ListedConsistent'
  BY <1>2, ChargeKeepsKeys DEF PoolInv, ListedConsistent, LockOrBurn, Keys
<1>8. PICK x \in Nat : x = Worth(amount, Decimals)
  BY <1>0, WorthIs
<1>9. Worth(claim'[c], RemoteDecimals[c]) <= Worth(claim[c], RemoteDecimals[c]) + x
  <2>1. PICK m \in Nat, n \in Nat :
            m = Worth(claim[c], RemoteDecimals[c]) /\ n = Worth(y, RemoteDecimals[c])
    BY <1>0, <1>2, WorthIs
  <2>2. Worth(claim'[c], RemoteDecimals[c]) = m + n
    <3>1. claim[c] \in Nat
      BY <1>2
    <3>2. Worth(claim[c] + y, RemoteDecimals[c]) = m + n
      BY <1>0, <2>1, <3>1, WorthAdds
    <3>3. QED
      BY <1>4, <3>2
  <2>3. n <= x
    BY <1>3, <1>8, <2>1
  <2>4. QED
    BY <2>1, <2>2, <2>3
<1>10. Worth(held'["users"], Decimals) = Worth(held["users"], Decimals) - x
  BY <1>0, <1>1, <1>2, <1>5, <1>8, WorthIs
<1>11. kind # "burn_mint" =>
           /\ Worth(held'[p], Decimals) = Worth(held[p], Decimals) + x
           /\ \A h \in Holders \ {"users", p} : held'[h] = held[h]
  <2>1. held[p] \in Nat
    BY <1>1, <1>2
  <2>2. Worth(held[p] + amount, Decimals) = Worth(held[p], Decimals) + x
    BY <1>0, <1>8, <2>1, WorthAdds
  <2>3. QED
    BY <1>5, <2>2
<1>12. NoInflation' /\ Solvent'
  <2>1. NoInflation /\ Solvent /\ x \in Int
    BY DEF PoolInv
  <2>2. QED
    BY <1>1, <1>2, <1>4, <1>6, <1>9, <1>10, <1>11, <2>1, Transfer DEF p
<1>13. QED
  BY <1>6, <1>7, <1>12 DEF PoolInv

\* release_or_mint.
LEMMA ReleaseKeeps ==
    ASSUME PoolInv, NEW c \in Chains, NEW amount \in Nat, NEW f, ReleaseOrMint(c, amount, f)
    PROVE  PoolInv'
<1> DEFINE released == CalculateLocalAmount(amount, RemoteDecimals[c], Decimals)
           p == Place(c)
<1>0. /\ Decimals \in Nat /\ Decimals <= Finest
      /\ RemoteDecimals[c] \in Nat /\ RemoteDecimals[c] <= Finest
  BY FinestIs, PoolAssumption
<1>1. PoolTypes /\ p \in Holders /\ p # "users" /\ "users" \in Holders
  BY PlaceApart DEF PoolInv, ReleaseOrMint, Holders
<1>2. /\ held \in [Holders -> Nat] /\ claim \in [Chains -> Nat]
      /\ amount <= claim[c] /\ claim' = [claim EXCEPT ![c] = @ - amount]
      /\ UNCHANGED <<kind, poolNow, listed, remote, allowedFinality, box, remapped, callers>>
  BY DEF PoolInv, PoolTypes, ReleaseOrMint
<1>3. PICK y \in Nat : y = released /\ Worth(y, Decimals) <= Worth(amount, RemoteDecimals[c])
  <2>1. released # Overflow
    BY DEF ReleaseOrMint
  <2>2. PICK r : r = released
    OBVIOUS
  <2> HIDE DEF released
  <2>3. r \in Nat /\ Worth(r, Decimals) <= Worth(amount, RemoteDecimals[c])
    BY <1>0, <2>1, <2>2, ConversionNoGain DEF released
  <2>4. QED
    BY <2>2, <2>3
<1>4. /\ claim' \in [Chains -> Nat] /\ claim'[c] = claim[c] - amount
      /\ \A d \in Chains \ {c} : claim'[d] = claim[d]
  BY <1>2
<1>5. /\ held' \in [Holders -> Nat] /\ held'["users"] = held["users"] + y
      /\ kind # "burn_mint" => /\ y <= held[p] /\ held'[p] = held[p] - y
                               /\ \A h \in Holders \ {"users", p} : held'[h] = held[h]
  <2>1. CASE kind = "burn_mint"
    <3>1. held' = [held EXCEPT !["users"] = @ + y]
      BY <1>3, <2>1 DEF ReleaseOrMint
    <3> HIDE DEF released, p
    <3>2. QED
      BY <1>1, <1>2, <2>1, <3>1
  <2>2. CASE kind # "burn_mint"
    <3>1. held' = [held EXCEPT ![p] = @ - y, !["users"] = @ + y] /\ y <= held[p]
      BY <1>3, <2>2 DEF ReleaseOrMint, Move
    <3> HIDE DEF released, p
    <3>2. QED
      BY <1>1, <1>2, <3>1
  <2>3. QED
    BY <2>1, <2>2
<1> HIDE DEF released, p
<1>6. PoolTypes'
  BY <1>1, <1>2, <1>4, <1>5 DEF PoolTypes, Holders
<1>7. ListedConsistent'
  BY <1>2, ChargeKeepsKeys DEF PoolInv, ListedConsistent, ReleaseOrMint, Keys
<1>8. PICK x \in Nat : x = Worth(y, Decimals)
  BY <1>0, WorthIs
<1>9. Worth(claim'[c], RemoteDecimals[c]) <= Worth(claim[c], RemoteDecimals[c]) + (0 - x)
  <2>1. PICK rest \in Nat : rest = claim[c] - amount /\ claim[c] = rest + amount
    BY <1>2
  <2>2. PICK n \in Nat, o \in Nat :
            n = Worth(amount, RemoteDecimals[c]) /\ o = Worth(rest, RemoteDecimals[c])
    BY <1>0, WorthIs
  <2>3. Worth(rest + amount, RemoteDecimals[c]) = o + n
    BY <1>0, <2>2, WorthAdds
  <2>4. x <= n
    BY <1>3, <1>8, <2>2
  <2>5. o <= (o + n) + (0 - x)
    BY <2>4
  <2>6. QED
    BY <1>4, <2>1, <2>2, <2>3, <2>5
<1>10. Worth(held'["users"], Decimals) = Worth(held["users"], Decimals) - (0 - x)
  <2>1. held["users"] \in Nat
    BY <1>1, <1>2
  <2>2. PICK u \in Nat : u = Worth(held["users"], Decimals)
    BY <1>0, <2>1, WorthIs
  <2>3. Worth(held["users"] + y, Decimals) = u + x
    BY <1>0, <1>8, <2>1, <2>2, WorthAdds
  <2>4. u + x = u - (0 - x)
    OBVIOUS
  <2>5. QED
    BY <1>5, <2>2, <2>3, <2>4
<1>11. kind # "burn_mint" =>
           /\ Worth(held'[p], Decimals) = Worth(held[p], Decimals) + (0 - x)
           /\ \A h \in Holders \ {"users", p} : held'[h] = held[h]
  <2>1. SUFFICES ASSUME kind # "burn_mint"
                 PROVE  Worth(held'[p], Decimals) = Worth(held[p], Decimals) + (0 - x)
    BY <1>5
  <2>2. PICK rest \in Nat : rest = held[p] - y /\ held[p] = rest + y
    BY <1>1, <1>2, <1>5, <2>1
  <2>3. PICK o \in Nat : o = Worth(rest, Decimals)
    BY <1>0, WorthIs
  <2>4. Worth(rest + y, Decimals) = o + x
    BY <1>0, <1>8, <2>3, WorthAdds
  <2>5. o = (o + x) + (0 - x)
    OBVIOUS
  <2>6. QED
    BY <1>5, <2>1, <2>2, <2>3, <2>4, <2>5
<1>12. NoInflation' /\ Solvent'
  <2>1. NoInflation /\ Solvent /\ 0 - x \in Int
    BY DEF PoolInv
  <2>2. QED
    BY <1>1, <1>2, <1>4, <1>6, <1>9, <1>10, <1>11, <2>1, Transfer DEF p
<1>13. QED
  BY <1>6, <1>7, <1>12 DEF PoolInv

\* Chains and limits are configured; tokens stay where they are.
LEMMA ConfigKeeps ==
    ASSUME PoolInv, UNCHANGED <<kind, box, remapped, callers, held, claim>>, ListedConsistent'
    PROVE  PoolInv'
BY DEF PoolInv, PoolTypes, NoInflation, Solvent, Claims, Worth, Finest

\* Removals and additions of chains.
LEMMA ChainsKeep ==
    ASSUME PoolInv, NEW removes \in SUBSET Chains, NEW adds \in SUBSET Chains, NEW out, NEW in,
           ApplyChainUpdates(removes, adds, out, in)
    PROVE  PoolInv'
<1> DEFINE new == {"out", "in"} \X {"default"} \X adds
<1>1. /\ listed' = (listed \ removes) \cup adds /\ remote' = (remote \ removes) \cup adds
      /\ DOMAIN buckets' = Remaining(removes) \cup new
      /\ UNCHANGED <<kind, box, remapped, callers, held, claim>>
  BY DEF ApplyChainUpdates
<1>2. ListedConsistent
  BY DEF PoolInv
<1>3. ListedConsistent'
  <2>1. remote' = listed'
    BY <1>1, <1>2 DEF ListedConsistent
  <2>2. ASSUME NEW k \in Keys PROVE k \in new <=> k[2] = "default" /\ k[3] \in adds
    BY DEF Keys
  <2>3. ASSUME NEW k \in Keys, k \in DOMAIN buckets' PROVE k[3] \in listed'
    BY <1>1, <1>2, <2>2, <2>3 DEF ListedConsistent, Remaining
  <2>4. ASSUME NEW k \in Keys, k[2] = "default", k[3] \in listed' PROVE k \in DOMAIN buckets'
    <3>1. CASE k[3] \in adds
      BY <1>1, <2>2, <2>4, <3>1
    <3>2. CASE k[3] \in listed /\ k[3] \notin removes
      BY <1>1, <1>2, <2>4, <3>2 DEF ListedConsistent, Remaining
    <3>3. QED
      BY <1>1, <2>4, <3>1, <3>2
  <2>5. QED
    BY <2>1, <2>3, <2>4 DEF ListedConsistent, Keys
<1>4. QED
  BY <1>1, <1>3, ConfigKeeps

\* Limits of a listed chain.
LEMMA LimitsKeep ==
    ASSUME PoolInv, NEW c \in Chains, NEW out, NEW in, NEW speed \in {"default", "ftf"},
           SetRateLimitConfig(c, out, in, speed)
    PROVE  PoolInv'
<1>1. /\ c \in listed /\ listed' = listed /\ remote' = remote
      /\ DOMAIN buckets' = DOMAIN buckets \cup {<<"out", speed, c>>, <<"in", speed, c>>}
      /\ UNCHANGED <<kind, box, remapped, callers, held, claim>>
  BY DEF SetRateLimitConfig
<1>2. ListedConsistent'
  BY <1>1 DEF PoolInv, ListedConsistent, Keys
<1>3. QED
  BY <1>1, <1>2, ConfigKeeps

\* A chain without claims is mapped to another lock box, and claims are covered as before.
LEMMA BoxesKeep ==
    ASSUME PoolInv, NEW c \in Chains, NEW b \in Boxes, ConfigureLockBoxes(c, b)
    PROVE  PoolInv'
<1>1. /\ kind = "siloed" /\ box' = [box EXCEPT ![c] = b]
      /\ remapped' = (remapped \/ (box[c] # b /\ claim[c] # 0))
      /\ UNCHANGED <<kind, listed, remote, buckets, callers, held, claim>>
  BY DEF ConfigureLockBoxes
<1>2. PoolTypes /\ claim \in [Chains -> Nat] /\ box \in [Chains -> Boxes \cup {None}]
  BY DEF PoolInv, PoolTypes
<1>3. PoolTypes'
  BY <1>1, <1>2 DEF PoolTypes
<1>4. ListedConsistent' /\ NoInflation'
  BY <1>1 DEF PoolInv, ListedConsistent, NoInflation, Claims, Worth, Finest
<1>5. ASSUME ~remapped', NEW a \in Boxes
      PROVE  Claims({d \in Chains : box'[d] = a}) <= Worth(held[a], Decimals)
  <2>1. PICK S : S = {d \in Chains : box[d] = a}
    OBVIOUS
  <2>2. PICK T : T = {d \in Chains : box'[d] = a}
    OBVIOUS
  <2>3. S \in SUBSET Chains /\ T \in SUBSET Chains /\ S \ {c} = T \ {c}
    BY <1>1, <1>2, <2>1, <2>2
  <2>4. Claims(S) <= Worth(held[a], Decimals)
    BY <1>1, <1>5, <2>1 DEF PoolInv, Solvent
  <2>5. CASE box[c] = b
    BY <1>1, <1>2, <2>1, <2>2, <2>4, <2>5
  <2>6. CASE box[c] # b
    <3>1. claim[c] = 0
      BY <1>1, <1>5, <2>6
    <3>2. Worth(claim[c], RemoteDecimals[c]) = 0
      <4>1. RemoteDecimals[c] \in Nat /\ RemoteDecimals[c] <= Finest
        BY FinestIs, PoolAssumption
      <4>2. QED
        BY <3>1, <4>1, WorthIs
    <3>3. ASSUME NEW R \in SUBSET Chains PROVE Claims(R) = Claims(R \ {c})
      <4>1. CASE c \in R
        <5>1. Claims(R) = 0 + Claims(R \ {c})
          BY <1>2, <3>2, <4>1, ClaimsRemove
        <5>2. Claims(R \ {c}) \in Nat
          <6>1. R \ {c} \in SUBSET Chains
            OBVIOUS
          <6>2. QED
            BY <1>2, <6>1, ClaimsNat
        <5>3. QED
          BY <5>1, <5>2
      <4>2. CASE c \notin R
        <5>1. R \ {c} = R
          BY <4>2
        <5>2. QED
          BY <5>1
      <4>3. QED
        BY <4>1, <4>2
    <3>4. Claims(T) = Claims(S)
      BY <2>3, <3>3
    <3>5. QED
      BY <2>2, <2>4, <3>4
  <2>7. QED
    BY <2>5, <2>6
<1>6. Solvent'
  <2>1. ASSUME NEW a \in Boxes
        PROVE  Claims({d \in Chains : box[d] = a})' = Claims({d \in Chains : box'[d] = a})
    BY <1>1 DEF Claims, Worth, Finest
  <2>2. QED
    BY <1>1, <1>5, <2>1 DEF Solvent, Worth, Finest
<1>7. QED
  BY <1>3, <1>4, <1>6 DEF PoolInv

\* Liquidity from a user.
LEMMA FundKeeps ==
    ASSUME PoolInv, NEW h \in Holders, Fund(h)
    PROVE  PoolInv'
<1>1. /\ h # "users" /\ held["users"] > 0
      /\ held' = [held EXCEPT !["users"] = @ - 1, ![h] = @ + 1]
      /\ UNCHANGED <<kind, config, claim>>
  BY DEF Fund, Move
<1>2. /\ PoolTypes /\ held \in [Holders -> Nat] /\ "users" \in Holders
      /\ claim \in [Chains -> Nat]
  BY DEF PoolInv, PoolTypes, Holders
<1>3. /\ held' \in [Holders -> Nat] /\ held'["users"] <= held["users"]
      /\ \A j \in Holders : j # "users" => held[j] <= held'[j]
  BY <1>1, <1>2
<1>4. PoolTypes' /\ ListedConsistent'
  BY <1>1, <1>2, <1>3 DEF PoolInv, PoolTypes, ListedConsistent, config, Holders
<1>5. Decimals \in Nat /\ Decimals <= Finest /\ Supply \in Nat
  BY FinestIs, PoolAssumption
<1>6. ASSUME NEW S PROVE Claims(S)' = Claims(S)
  BY <1>1 DEF Claims, Worth, Finest
<1>7. NoInflation'
  <2>1. PICK x \in Nat, y \in Nat, z \in Nat, n \in Nat :
            /\ x = Worth(held["users"], Decimals) /\ y = Worth(held'["users"], Decimals)
            /\ z = Worth(Supply, Decimals) /\ n = Claims(Chains)
    BY <1>2, <1>3, <1>5, WorthIs, ClaimsNat
  <2>2. x + n <= z
    BY <2>1 DEF PoolInv, NoInflation
  <2>3. y <= x
    BY <1>2, <1>3, <1>5, <2>1, WorthIs
  <2>4. y + n <= z
    BY <2>2, <2>3
  <2>5. QED
    BY <1>6, <2>1, <2>4 DEF NoInflation, Worth, Finest
<1>8. ASSUME NEW S \in SUBSET Chains, NEW j \in Holders, j # "users",
             Claims(S) <= Worth(held[j], Decimals)
      PROVE  Claims(S) <= Worth(held'[j], Decimals)
  <2>1. PICK x \in Nat, y \in Nat, n \in Nat :
            x = Worth(held[j], Decimals) /\ y = Worth(held'[j], Decimals) /\ n = Claims(S)
    BY <1>2, <1>3, <1>5, WorthIs, ClaimsNat
  <2>2. x <= y
    BY <1>2, <1>3, <1>5, <1>8, <2>1, WorthIs
  <2>3. n <= x
    BY <1>8, <2>1
  <2>4. n <= y
    BY <2>2, <2>3
  <2>5. QED
    BY <2>1, <2>4
<1>9. Solvent'
  <2>1. ASSUME kind = "lock_release"
        PROVE  Claims(Chains)' <= Worth(held'["pool"], Decimals)
    <3>1. "pool" \in Holders /\ Chains \in SUBSET Chains
      BY DEF Holders
    <3>2. Claims(Chains) <= Worth(held["pool"], Decimals)
      BY <2>1 DEF PoolInv, Solvent
    <3>3. QED
      BY <1>6, <1>8, <3>1, <3>2
  <2>2. ASSUME kind = "siloed", ~remapped, NEW b \in Boxes
        PROVE  Claims({d \in Chains : box[d] = b})' <= Worth(held'[b], Decimals)
    <3>1. PICK S : S = {d \in Chains : box[d] = b}
      OBVIOUS
    <3>2. S \in SUBSET Chains /\ b \in Holders /\ b # "users"
      BY <3>1, PoolAssumption DEF Holders
    <3>3. Claims(S) <= Worth(held[b], Decimals)
      BY <2>2, <3>1 DEF PoolInv, Solvent
    <3>4. Claims(S)' <= Worth(held'[b], Decimals)
      BY <1>6, <1>8, <3>2, <3>3
    <3>5. Claims({d \in Chains : box[d] = b})' = Claims(S)'
      BY <1>1, <3>1 DEF Claims, config
    <3>6. QED
      BY <3>4, <3>5
  <2>3. QED
    BY <1>1, <2>1, <2>2 DEF Solvent, Worth, Finest, config
<1>10. QED
  BY <1>4, <1>7, <1>9 DEF PoolInv

\* A new pool serves no chain and owes nothing.
LEMMA PoolStarts == PoolInit => PoolInv
<1> SUFFICES ASSUME PoolInit PROVE PoolInv
  OBVIOUS
<1>1. PoolTypes /\ ListedConsistent
  BY PoolAssumption DEF PoolInit, PoolTypes, ListedConsistent, Holders, None
<1>2. /\ claim = [c \in Chains |-> 0] /\ held["users"] = Supply /\ held \in [Holders -> Nat]
      /\ Decimals \in Nat /\ Decimals <= Finest /\ Supply \in Nat
  BY PoolAssumption, FinestIs DEF PoolInit, Holders
<1>3. \A S \in SUBSET Chains : Claims(S) = 0
  BY <1>2, ClaimsZero
<1>4. \A h \in Holders : Worth(held[h], Decimals) \in Nat
  BY <1>2, WorthIs
<1>5. NoInflation
  <2>1. Claims(Chains) = 0
    BY <1>3
  <2>2. Worth(held["users"], Decimals) = Worth(Supply, Decimals) /\ Worth(Supply, Decimals) \in Nat
    BY <1>2, WorthIs
  <2>3. QED
    BY <2>1, <2>2 DEF NoInflation
<1>6. Solvent
  <2>1. \A h \in Holders, S \in SUBSET Chains : Claims(S) <= Worth(held[h], Decimals)
    BY <1>3, <1>4
  <2>2. "pool" \in Holders /\ Boxes \subseteq Holders /\ Chains \in SUBSET Chains
        /\ \A b : {c \in Chains : box[c] = b} \in SUBSET Chains
    BY DEF Holders
  <2>3. QED
    BY <2>1, <2>2 DEF Solvent
<1>7. QED
  BY <1>1, <1>5, <1>6 DEF PoolInv

\* Every step keeps what a pool owes covered.
LEMMA PoolSteps == PoolInv /\ [PoolNext]_poolVars => PoolInv'
<1> SUFFICES ASSUME PoolInv, [PoolNext]_poolVars PROVE PoolInv'
  OBVIOUS
<1>1. ASSUME UNCHANGED <<kind, config, held, claim>> PROVE PoolInv'
  <2>1. ListedConsistent'
    BY <1>1 DEF PoolInv, ListedConsistent, config
  <2>2. QED
    BY <1>1, <2>1, ConfigKeeps DEF config
<1>2. ASSUME NEW f, SetAllowedFinalityConfig(f) PROVE PoolInv'
  <2>1. ListedConsistent'
    BY <1>2 DEF PoolInv, ListedConsistent, SetAllowedFinalityConfig
  <2>2. QED
    BY <1>2, <2>1, ConfigKeeps DEF SetAllowedFinalityConfig
<1>3. ASSUME NEW b \in Boxes, NEW allowed, SetAllowedCaller(b, allowed) PROVE PoolInv'
  <2>1. /\ callers' \in SUBSET Boxes
        /\ UNCHANGED <<kind, listed, remote, buckets, box, remapped, held, claim>>
    BY <1>3 DEF PoolInv, PoolTypes, SetAllowedCaller
  <2>2. QED
    BY <2>1 DEF PoolInv, PoolTypes, ListedConsistent, NoInflation, Solvent, Claims, Worth, Finest
<1>4. ASSUME NEW c \in Chains, NEW amount \in 0 .. claim[c], NEW f, ReleaseOrMint(c, amount, f)
      PROVE  PoolInv'
  <2>1. amount \in Nat
    BY DEF PoolInv, PoolTypes
  <2>2. QED
    BY <1>4, <2>1, ReleaseKeeps
<1>5. ASSUME NEW removes \in SUBSET Chains, ApplyChainUpdates(removes, {}, Disabled, Disabled)
      PROVE  PoolInv'
  <2>1. {} \in SUBSET Chains
    OBVIOUS
  <2>2. QED
    BY <1>5, <2>1, ChainsKeep
<1>6. ASSUME NEW c \in Chains, NEW removes \in {{}, {c}}, NEW out, NEW in,
             ApplyChainUpdates(removes, {c}, out, in)
      PROVE  PoolInv'
  <2>1. {c} \in SUBSET Chains /\ removes \in SUBSET Chains
    OBVIOUS
  <2>2. QED
    BY <1>6, <2>1, ChainsKeep
<1>7. CASE PoolTick
  BY <1>1, <1>7 DEF PoolTick
<1>8. CASE UNCHANGED poolVars
  BY <1>1, <1>8 DEF poolVars
<1>9. QED
  BY <1>2, <1>3, <1>4, <1>5, <1>6, <1>7, <1>8, LimitsKeep, BoxesKeep, LockKeeps, FundKeeps
     DEF PoolNext

\* The chains a pool lists are those it has configured, each with its default buckets, and
\* no bucket is left of a chain that was removed.
THEOREM ListsConsistent == PoolSpec => []ListedConsistent
<1>1. PoolInv => ListedConsistent
  BY DEF PoolInv
<1>2. QED
  BY <1>1, PoolStarts, PoolSteps, PTL DEF PoolSpec

\* No sequence of transfers and conversions makes tokens, for any decimals of any number
\* of chains.
THEOREM NothingMade == PoolSpec => []NoInflation
<1>1. PoolInv => NoInflation
  BY DEF PoolInv
<1>2. QED
  BY <1>1, PoolStarts, PoolSteps, PTL DEF PoolSpec

\* Whatever the remote holders can send back is there: in the pool, or in the lock box of
\* their own chains as long as no chain with claims is mapped elsewhere.
THEOREM PoolStaysSolvent == PoolSpec => []Solvent
<1>1. PoolInv => Solvent
  BY DEF PoolInv
<1>2. QED
  BY <1>1, PoolStarts, PoolSteps, PTL DEF PoolSpec

-----------------------------------------------------------------------------
(* What a transfer is charged.                                             *)

\* An amount that is charged while the default limit is enabled is taken from one bucket.
LEMMA ChargeTakes ==
    ASSUME NEW dir \in {"out", "in"}, NEW c \in Chains, NEW f, NEW amount \in Nat, amount > 0,
           Charge(dir, c, f, amount), Get(<<dir, "default", c>>).is_enabled
    PROVE  \E k \in {k \in Keys : k[1] = dir /\ k[3] = c /\ Get(k).is_enabled} :
               /\ buckets'[k].tokens = Refilled(buckets[k], poolNow).tokens - amount
               /\ \A j \in DOMAIN buckets \ {k} : buckets'[j] = buckets[j]
<1>1. PICK k : k = Charged(dir, c, f)
  OBVIOUS
<1>2. k \in Keys /\ k[1] = dir /\ k[3] = c /\ Get(k).is_enabled
  BY <1>1 DEF Charged, Keys
<1>3. k \in DOMAIN buckets /\ Get(k) = buckets[k]
  BY <1>2 DEF Get, Disabled
<1>4. buckets' = Put(k, Consume(buckets[k], amount, poolNow))
  BY <1>1, <1>2, <1>3 DEF Charge
<1>5. /\ buckets'[k] = Consume(buckets[k], amount, poolNow)
      /\ \A j \in DOMAIN buckets \ {k} : buckets'[j] = buckets[j]
  BY <1>4 DEF Put
<1>6. Consume(buckets[k], amount, poolNow).tokens = Refilled(buckets[k], poolNow).tokens - amount
  BY <1>2, <1>3 DEF Consume, Holding
<1>7. QED
  BY <1>2, <1>5, <1>6

\* lock_or_burn and release_or_mint charge what they move.
LEMMA LockCharges ==
    ASSUME PoolInv, NEW c \in Chains, NEW amount \in 0 .. Supply, NEW f, LockOrBurn(c, amount, f)
    PROVE  Charging
<1> SUFFICES ASSUME NEW d \in Chains, claim'[d] # claim[d]
             PROVE  LET dir == IF claim'[d] > claim[d] THEN "out" ELSE "in"
                        moved == IF dir = "out" THEN held["users"] - held'["users"]
                                 ELSE held'["users"] - held["users"]
                        limits == {k \in Keys : k[1] = dir /\ k[3] = d /\ Get(k).is_enabled}
                    IN Get(<<dir, "default", d>>).is_enabled /\ moved > 0 =>
                           \E k \in limits :
                               /\ buckets'[k].tokens = Refilled(buckets[k], poolNow).tokens - moved
                               /\ \A j \in DOMAIN buckets \ {k} : buckets'[j] = buckets[j]
  BY DEF Charging
<1>0. /\ claim \in [Chains -> Nat] /\ held \in [Holders -> Nat] /\ "users" \in Holders
      /\ amount \in Nat /\ PoolTypes
  BY PoolAssumption DEF PoolInv, PoolTypes, Holders
<1>1. /\ Decimals \in Nat /\ Decimals <= Finest
      /\ RemoteDecimals[c] \in Nat /\ RemoteDecimals[c] <= Finest
  BY FinestIs, PoolAssumption
<1>2. d = c
  BY <1>0 DEF LockOrBurn
<1>3. claim'[d] > claim[d]
  <2>1. PICK minted : minted = CalculateLocalAmount(amount, Decimals, RemoteDecimals[c])
    OBVIOUS
  <2>2. claim' = [claim EXCEPT ![c] = IF minted = Overflow THEN @ ELSE @ + minted]
    BY <2>1 DEF LockOrBurn
  <2>3. minted # Overflow /\ claim'[c] = claim[c] + minted
    BY <1>0, <1>2, <2>2
  <2>4. minted \in Nat
    BY <1>0, <1>1, <2>1, <2>3, ConversionNoGain
  <2>5. QED
    BY <1>0, <1>2, <2>3, <2>4
<1>4. held["users"] - held'["users"] = amount
  <2>1. Place(c) # "users" /\ Place(c) \in Holders
    BY <1>0, PlaceApart DEF LockOrBurn
  <2>2. held'["users"] = held["users"] - amount
    BY <1>0, <2>1 DEF LockOrBurn, Move
  <2>3. QED
    BY <1>0, <2>2
<1>5. Charge("out", c, f, amount)
  BY DEF LockOrBurn
<1>6. QED
  BY <1>0, <1>2, <1>3, <1>4, <1>5, ChargeTakes

\* What release_or_mint gives to the receiver is charged to one inbound bucket.
LEMMA ReleaseCharges ==
    ASSUME PoolInv, NEW c \in Chains, NEW amount \in Nat, NEW f, ReleaseOrMint(c, amount, f)
    PROVE  Charging
<1> SUFFICES ASSUME NEW d \in Chains, claim'[d] # claim[d]
             PROVE  LET dir == IF claim'[d] > claim[d] THEN "out" ELSE "in"
                        moved == IF dir = "out" THEN held["users"] - held'["users"]
                                 ELSE held'["users"] - held["users"]
                        limits == {k \in Keys : k[1] = dir /\ k[3] = d /\ Get(k).is_enabled}
                    IN Get(<<dir, "default", d>>).is_enabled /\ moved > 0 =>
                           \E k \in limits :
                               /\ buckets'[k].tokens = Refilled(buckets[k], poolNow).tokens - moved
                               /\ \A j \in DOMAIN buckets \ {k} : buckets'[j] = buckets[j]
  BY DEF Charging
<1>0. /\ claim \in [Chains -> Nat] /\ held \in [Holders -> Nat] /\ "users" \in Holders
      /\ PoolTypes
  BY DEF PoolInv, PoolTypes, Holders
<1>1. /\ Decimals \in Nat /\ Decimals <= Finest
      /\ RemoteDecimals[c] \in Nat /\ RemoteDecimals[c] <= Finest
  BY FinestIs, PoolAssumption
<1>2. d = c /\ claim'[c] = claim[c] - amount
  BY <1>0 DEF ReleaseOrMint
<1>3. ~(claim'[d] > claim[d])
  BY <1>0, <1>2
<1>4. PICK released : released = CalculateLocalAmount(amount, RemoteDecimals[c], Decimals)
  OBVIOUS
<1>5. released # Overflow /\ Charge("in", c, f, released) /\ Open(c, released)
  BY <1>4 DEF ReleaseOrMint
<1>6. released \in Nat
  BY <1>1, <1>4, <1>5, ConversionNoGain
<1>7. held'["users"] - held["users"] = released
  <2>1. Place(c) # "users" /\ Place(c) \in Holders
    BY <1>0, <1>5, PlaceApart
  <2>2. held'["users"] = held["users"] + released
    BY <1>0, <1>4, <2>1 DEF ReleaseOrMint, Move
  <2>3. QED
    BY <1>0, <1>6, <2>2
<1>8. QED
  BY <1>0, <1>2, <1>3, <1>5, <1>6, <1>7, ChargeTakes

\* No transfer of a chain whose default limit is enabled passes uncharged, whatever its
\* finality and however the limits are set in between.
THEOREM TransfersCharged == PoolSpec => AlwaysCharged
<1>1. PoolInv /\ [PoolNext]_poolVars => [Charging]_poolVars
  <2> SUFFICES ASSUME PoolInv, PoolNext PROVE Charging
    OBVIOUS
  <2>1. ASSUME UNCHANGED claim PROVE Charging
    BY <2>1 DEF Charging
  <2>2. ASSUME NEW c \in Chains, NEW amount \in 0 .. claim[c], NEW f, ReleaseOrMint(c, amount, f)
        PROVE  Charging
    <3>1. amount \in Nat
      BY DEF PoolInv, PoolTypes
    <3>2. QED
      BY <2>2, <3>1, ReleaseCharges
  <2>3. QED
    BY <2>1, <2>2, LockCharges
       DEF PoolNext, ApplyChainUpdates, SetRateLimitConfig, ConfigureLockBoxes,
           SetAllowedFinalityConfig, SetAllowedCaller, Fund, PoolTick
<1>2. QED
  BY <1>1, PoolStarts, PoolSteps, PTL DEF PoolSpec, AlwaysCharged
=============================================================================
