----------------------------- MODULE RateLimit ------------------------------
(***************************************************************************)
(* The token bucket of the pools' rate limiter: what a request finds in    *)
(* it, what it leaves, and what a configuration makes of it.               *)
(***************************************************************************)
EXTENDS Integers

CONSTANT MaxU128    \* the largest u128

Saturated(n) == IF n > MaxU128 THEN MaxU128 ELSE n

\* What a missing bucket is read as.
Disabled ==
    [tokens |-> 0, last_updated |-> 0, is_enabled |-> FALSE, capacity |-> 0, rate |-> 0]

CalculateRefill(capacity, tokens, diff, rate) ==
    LET filled == Saturated(tokens + Saturated(diff * rate)) IN
    IF filled < capacity THEN filled ELSE capacity

\* The bucket with other tokens, as of a time.
Holding(b, tokens, time) ==
    [tokens |-> tokens, last_updated |-> time, is_enabled |-> b.is_enabled,
     capacity |-> b.capacity, rate |-> b.rate]

\* Mutated: the time is stored though the tokens of a short pause are not.
RefilledLate(b, now) ==
    IF now > b.last_updated + 1
    THEN Holding(b, CalculateRefill(b.capacity, b.tokens, now - b.last_updated, b.rate), now)
    ELSE Holding(b, b.tokens, now)

Refilled(b, now) ==
    IF now > b.last_updated
    THEN Holding(b, CalculateRefill(b.capacity, b.tokens, now - b.last_updated, b.rate), now)
    ELSE b

\* consume lets the amount pass.
Admits(b, amount, now) ==
    \/ amount = 0
    \/ ~b.is_enabled
    \/ /\ now > b.last_updated => b.tokens <= b.capacity     \* else BucketOverfilled
       /\ amount <= b.capacity
       /\ amount <= Refilled(b, now).tokens

\* Mutated: the time of the last refill is not stored.
ConsumeOldTime(b, amount, now) ==
    IF amount = 0 \/ ~b.is_enabled THEN b
    ELSE Holding(b, Refilled(b, now).tokens - amount, b.last_updated)

\* What consume then stores.
Consume(b, amount, now) ==
    IF amount = 0 \/ ~b.is_enabled THEN b
    ELSE Holding(b, Refilled(b, now).tokens - amount, Refilled(b, now).last_updated)

ValidConfig(c) ==
    IF c.is_enabled THEN c.rate <= c.capacity ELSE c.rate = 0 /\ c.capacity = 0

\* set_config: the bucket is full at once.
Configured(c, now) ==
    [tokens |-> c.capacity, last_updated |-> now, is_enabled |-> c.is_enabled,
     capacity |-> c.capacity, rate |-> c.rate]
=============================================================================
