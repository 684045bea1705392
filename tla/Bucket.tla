------------------------------- MODULE Bucket -------------------------------
(***************************************************************************)
(* One bucket of the rate limiter while time passes, requests are made and *)
(* the owner configures it, and what passed through it: since a moment     *)
(* that may be chosen anywhere, and at each time since it was configured.  *)
(***************************************************************************)
EXTENDS RateLimit, Functions

CONSTANTS
    Amounts,      \* a request asks for one of these
    Configs,      \* configurations the owner sets
    MaxTime       \* bound of ledger time

ASSUME BucketAssumption ==
    /\ MaxU128 \in Nat /\ MaxTime \in Nat
    /\ Amounts \subseteq 0 .. MaxU128
    /\ Configs \subseteq [is_enabled : BOOLEAN, capacity : 0 .. MaxU128, rate : 0 .. MaxU128]

VARIABLES
    bucket,       \* TokenBucket
    now,          \* ledger timestamp
    since, passed,    \* the amount let through since a moment
    configured, spent     \* when the bucket was configured, and what passed at each time

vars == <<bucket, now, since, passed, configured, spent>>

Nothing == [t \in 0 .. MaxTime |-> 0]

Init ==
    /\ bucket = Disabled
    /\ now = 0 /\ since = 0 /\ passed = 0
    /\ configured = 0 /\ spent = Nothing

Tick ==
    /\ now < MaxTime
    /\ now' = now + 1
    /\ UNCHANGED <<bucket, since, passed, configured, spent>>

\* consume, when it does not end with an error.
Pass(amount) ==
    /\ Admits(bucket, amount, now)
    /\ bucket' = Consume(bucket, amount, now)
    /\ passed' = IF bucket.is_enabled THEN passed + amount ELSE passed
    /\ spent' = IF bucket.is_enabled THEN [spent EXCEPT ![now] = @ + amount] ELSE spent
    /\ UNCHANGED <<now, since, configured>>

Configure(c) ==
    /\ ValidConfig(c)
    /\ bucket' = Configured(c, now)
    /\ since' = now /\ passed' = 0
    /\ configured' = now /\ spent' = Nothing
    /\ UNCHANGED now

\* Removal of the chain.
RemoveBucket ==
    /\ bucket' = Disabled
    /\ since' = now /\ passed' = 0
    /\ configured' = now /\ spent' = Nothing
    /\ UNCHANGED now

\* Not a step of the contract: the amount is counted from here on.
Watch ==
    /\ since' = now /\ passed' = 0
    /\ UNCHANGED <<bucket, now, configured, spent>>

Next ==
    \/ Tick
    \/ \E amount \in Amounts : Pass(amount)
    \/ \E c \in Configs : Configure(c)
    \/ RemoveBucket
    \/ Watch

Spec == Init /\ [][Next]_vars

-----------------------------------------------------------------------------
(* Properties.                                                             *)

Bucketful == [tokens : 0 .. MaxU128, last_updated : 0 .. MaxTime, is_enabled : BOOLEAN,
              capacity : 0 .. MaxU128, rate : 0 .. MaxU128]

\* The fields are u128s: what is deducted never goes below zero, a refill never above.
TypeOK ==
    /\ bucket \in Bucketful
    /\ now \in 0 .. MaxTime /\ since \in 0 .. now /\ configured \in 0 .. now
    /\ passed \in Nat
    /\ spent \in [0 .. MaxTime -> Nat]

\* What consume would refuse as BucketOverfilled is never stored.
NeverOverfilled == bucket.tokens <= bucket.capacity

\* From any moment on, an enabled bucket lets through at most its capacity and the rate
\* for each second, however requests and pauses fall.
WindowBound == bucket.is_enabled => passed <= bucket.capacity + bucket.rate * (now - since)

\* And it refuses no more than that: a request passes if every window from the
\* configuration of the bucket to now keeps its bound with it.
Total(s) == SumFunctionOnSet(spent, s .. now)
NoStarvation ==
    bucket.is_enabled =>
        \A amount \in Amounts :
            (\A s \in configured .. now :
                Total(s) + amount <= bucket.capacity + bucket.rate * (now - s))
            => Admits(bucket, amount, now)

-----------------------------------------------------------------------------
(* What makes the window bound inductive: what has passed and what is left *)
(* come from the capacity and the time the stored refill has seen.         *)

Metered ==
    /\ bucket.last_updated <= now
    /\ bucket.is_enabled => IF bucket.last_updated < since
                            THEN passed = 0
                            ELSE passed + bucket.tokens <=
                                     bucket.capacity + bucket.rate * (bucket.last_updated - since)

BucketInv == TypeOK /\ NeverOverfilled /\ Metered

\* And what makes the other one: some window since the configuration is used to the full.
Tight ==
    bucket.is_enabled =>
        /\ \A t \in 0 .. MaxTime : t > bucket.last_updated => spent[t] = 0
        /\ \E s \in configured .. bucket.last_updated :
              bucket.tokens + Total(s) = bucket.capacity + bucket.rate * (bucket.last_updated - s)

TightInv == BucketInv /\ Tight
=============================================================================
