--------------------------- MODULE TimelockProofs ---------------------------
(* The theorems about Timelock: its safety properties for any accounts,    *)
(* operations, predecessors and width of the integers.                     *)
EXTENDS Timelock, TLAPS

\* What an account may do to roles and parameters, and the passing of time, leave
\* every operation as it is.
Quiet ==
    /\ UNCHANGED <<timestamp, scheduledAt, promised, runs, ranAt>>
    /\ now' \in 0 .. U64Max
    /\ now <= now'

\* Every state a behaviour starts in satisfies the invariant.
LEMMA InitIInv == Init => IInv
<1> SUFFICES ASSUME Init PROVE IInv
  OBVIOUS
<1> USE TimelockAssumption DEF Init, DONE
<1>1. TypeOK
  <2>1. roles \in [Role -> SUBSET Accounts]
    OBVIOUS
  <2>2. initialized \in BOOLEAN /\ blocked \subseteq Selectors /\ bypassed \in BOOLEAN
    OBVIOUS
  <2>3. 0 \in 0 .. U64Max /\ 0 \in Nat
    OBVIOUS
  <2>4. minDelay \in 0 .. U64Max /\ now \in 0 .. U64Max
    BY <2>3
  <2>5. /\ timestamp \in [Ops -> 0 .. U64Max] /\ scheduledAt \in [Ops -> 0 .. U64Max]
        /\ promised \in [Ops -> 0 .. U64Max] /\ ranAt \in [Ops -> 0 .. U64Max]
        /\ runs \in [Ops -> Nat]
    BY <2>3
  <2> QED
    BY <2>1, <2>2, <2>4, <2>5 DEF TypeOK
<1>2. DoneMeansRan /\ WaitedOut /\ PredecessorsFirst
  BY DEF DoneMeansRan, WaitedOut, PredecessorsFirst
<1>3. PendingCovered /\ \A o \in Ops : ranAt[o] <= now
  BY DEF PendingCovered
<1> QED
  BY <1>1, <1>2, <1>3 DEF IInv

\* The bounds of ReadyAt: a ready time is a u64 beyond the sentinels, and it is
\* not before the saturated sum of the time and the delay.
LEMMA ReadyAtBounds ==
    ASSUME now \in 0 .. U64Max, NEW delay \in 0 .. U64Max
    PROVE  /\ ReadyAt(delay) \in 0 .. U64Max
           /\ ReadyAt(delay) > DONE
           /\ ReadyAt(delay) >= Min2(now + delay, U64Max)
BY TimelockAssumption DEF ReadyAt, Max2, Min2, DONE

\* A quiet step preserves what the invariant says of the operations.
LEMMA QuietStep ==
    ASSUME IInv, Quiet
    PROVE  /\ DoneMeansRan' /\ PendingCovered' /\ WaitedOut' /\ PredecessorsFirst'
           /\ \A o \in Ops : ranAt'[o] <= now'
BY TimelockAssumption
   DEF IInv, Quiet, TypeOK, DoneMeansRan, PendingCovered, WaitedOut, PredecessorsFirst

\* schedule_batch preserves the invariant.
LEMMA ScheduleStep ==
    ASSUME IInv, NEW caller \in Accounts, NEW o \in Ops, NEW delay \in 0 .. U64Max,
           ScheduleBatch(caller, o, delay)
    PROVE  IInv'
<1> USE TimelockAssumption DEF IInv, TypeOK
<1>1. /\ ReadyAt(delay) \in 0 .. U64Max
      /\ ReadyAt(delay) > DONE
      /\ ReadyAt(delay) >= Min2(now + delay, U64Max)
  BY ReadyAtBounds
<1>2. /\ timestamp' = [timestamp EXCEPT ![o] = ReadyAt(delay)]
      /\ scheduledAt' = [scheduledAt EXCEPT ![o] = now]
      /\ promised' = [promised EXCEPT ![o] = minDelay]
      /\ timestamp[o] = 0 /\ delay >= minDelay
      /\ UNCHANGED <<initialized, roles, minDelay, blocked, now, runs, ranAt, bypassed>>
  BY DEF ScheduleBatch
<1>3. TypeOK'
  BY <1>1, <1>2
<1>4. runs[o] = 0
  BY <1>2 DEF DoneMeansRan, DONE
<1>5. DoneMeansRan'
  BY <1>1, <1>2, <1>4 DEF DoneMeansRan, DONE
<1>6. ReadyAt(delay) >= Min2(now + minDelay, U64Max)
  BY <1>1, <1>2 DEF Min2
<1>7. PendingCovered'
  BY <1>2, <1>6 DEF PendingCovered, Min2
<1>8. WaitedOut'
  BY <1>2, <1>4 DEF WaitedOut, Min2
<1>9. PredecessorsFirst'
  BY <1>2, <1>4 DEF PredecessorsFirst, DONE
<1> QED
  BY <1>2, <1>3, <1>5, <1>7, <1>8, <1>9

\* execute_batch preserves the invariant.
LEMMA ExecuteStep ==
    ASSUME IInv, NEW caller \in Accounts, NEW o \in Ops, ExecuteBatch(caller, o)
    PROVE  IInv'
<1> USE TimelockAssumption DEF IInv, TypeOK
<1>1. /\ timestamp[o] > DONE /\ timestamp[o] <= now
      /\ PredecessorDone(o)
      /\ timestamp' = [timestamp EXCEPT ![o] = DONE]
      /\ runs' = [runs EXCEPT ![o] = @ + 1]
      /\ ranAt' = [ranAt EXCEPT ![o] = now]
      /\ UNCHANGED <<initialized, roles, minDelay, blocked, now, scheduledAt,
                     promised, bypassed>>
  BY DEF ExecuteBatch
<1>2. TypeOK'
  BY <1>1 DEF DONE
<1>3. runs[o] = 0
  BY <1>1 DEF DoneMeansRan, DONE
<1>4. DoneMeansRan'
  BY <1>1, <1>3 DEF DoneMeansRan, DONE
<1>5. PendingCovered'
  BY <1>1 DEF PendingCovered, Min2, DONE
<1>6. now >= Min2(scheduledAt[o] + promised[o], U64Max)
  BY <1>1 DEF PendingCovered, Min2, DONE
<1>7. WaitedOut'
  BY <1>1, <1>6 DEF WaitedOut, Min2
<1>8. ASSUME NEW p \in Ops, runs'[p] > 0, Pred[p] # NoPredecessor
      PROVE  timestamp'[Pred[p]] = DONE /\ ranAt'[Pred[p]] <= ranAt'[p]
  <2>1. Pred[p] \in Ops
    BY <1>8
  <2>2. timestamp[Pred[p]] = DONE
    BY <1>1, <1>8 DEF PredecessorDone, PredecessorsFirst
  <2>3. Pred[p] # o
    BY <1>1, <2>2 DEF DONE
  <2>4. timestamp'[Pred[p]] = DONE /\ ranAt'[Pred[p]] = ranAt[Pred[p]]
    BY <1>1, <2>1, <2>2, <2>3
  <2>5. ranAt[Pred[p]] <= ranAt'[p]
    <3>1. CASE p = o
      BY <1>1, <2>1, <3>1
    <3>2. CASE p # o
      BY <1>1, <1>8, <3>2 DEF PredecessorsFirst
    <3> QED
      BY <3>1, <3>2
  <2> QED
    BY <2>4, <2>5
<1>9. PredecessorsFirst'
  BY <1>8 DEF PredecessorsFirst
<1>10. \A p \in Ops : ranAt'[p] <= now'
  BY <1>1
<1> QED
  BY <1>2, <1>4, <1>5, <1>7, <1>9, <1>10

\* cancel preserves the invariant: only what has not run can be cancelled.
LEMMA CancelStep ==
    ASSUME IInv, NEW caller \in Accounts, NEW o \in Ops, Cancel(caller, o)
    PROVE  IInv'
<1> USE TimelockAssumption DEF IInv, TypeOK
<1>1. /\ timestamp[o] > DONE
      /\ timestamp' = [timestamp EXCEPT ![o] = 0]
      /\ UNCHANGED <<initialized, roles, minDelay, blocked, now, scheduledAt,
                     promised, runs, ranAt, bypassed>>
  BY DEF Cancel
<1>2. TypeOK'
  BY <1>1
<1>3. DoneMeansRan'
  BY <1>1 DEF DoneMeansRan, DONE
<1>4. PendingCovered'
  BY <1>1 DEF PendingCovered, Min2, DONE
<1>5. WaitedOut'
  BY <1>1 DEF WaitedOut, Min2
<1>6. PredecessorsFirst'
  BY <1>1 DEF PredecessorsFirst, DONE
<1> QED
  BY <1>1, <1>2, <1>3, <1>4, <1>5, <1>6

\* Initialisation, changes of roles and parameters, a bypass and the passing of
\* time preserve the invariant.
LEMMA OtherStep ==
    ASSUME IInv, TypeOK', Quiet
    PROVE  IInv'
BY QuietStep DEF IInv

\* IInv is inductive: one case per action.
LEMMA Invariance == IInv /\ [Next]_vars => IInv'
<1> SUFFICES ASSUME IInv, [Next]_vars PROVE IInv'
  OBVIOUS
<1> USE TimelockAssumption
<1>t. TypeOK
  BY DEF IInv
<1>1. CASE UNCHANGED vars
  <2>1. TypeOK' /\ Quiet
    BY <1>1, <1>t DEF vars, TypeOK, Quiet
  <2> QED
    BY <2>1, OtherStep
<1>2. ASSUME NEW admin \in Accounts, NEW p \in SUBSET Accounts,
             NEW e \in SUBSET Accounts, NEW c \in SUBSET Accounts,
             NEW b \in SUBSET Accounts, NEW d \in 0 .. U64Max,
             Initialize(admin, p, e, c, b, d)
      PROVE  IInv'
  <2>1. roles' \in [Role -> SUBSET Accounts]
    BY <1>2 DEF Initialize, Role
  <2>2. /\ initialized' = TRUE /\ minDelay' = d
        /\ UNCHANGED <<blocked, timestamp, now, scheduledAt, promised, runs, ranAt,
                       bypassed>>
    BY <1>2, Zenon DEF Initialize
  <2>3. TypeOK' /\ Quiet
    BY <1>t, <2>1, <2>2 DEF TypeOK, Quiet
  <2> QED
    BY <2>3, OtherStep
<1>3. ASSUME NEW caller \in Accounts, RoleStep(caller)
      PROVE  IInv'
  <2>1. PICK role \in Role, account \in Accounts :
            \/ GrantRole(caller, role, account)
            \/ RevokeRole(caller, role, account)
            \/ RenounceRole(account, role)
    BY <1>3 DEF RoleStep
  <2>2. roles' \in [Role -> SUBSET Accounts]
    BY <1>t, <2>1 DEF GrantRole, RevokeRole, RenounceRole, Grant, Revoke, TypeOK
  <2>3. TypeOK' /\ Quiet
    BY <1>t, <2>1, <2>2 DEF GrantRole, RevokeRole, RenounceRole, TypeOK, Quiet
  <2> QED
    BY <2>3, OtherStep
<1>4. ASSUME NEW caller \in Accounts, OpStep(caller)
      PROVE  IInv'
  <2>1. ASSUME NEW o \in Ops, NEW delay \in 0 .. U64Max, ScheduleBatch(caller, o, delay)
        PROVE  IInv'
    BY <2>1, ScheduleStep
  <2>2. ASSUME NEW o \in Ops, ExecuteBatch(caller, o)
        PROVE  IInv'
    BY <2>2, ExecuteStep
  <2>3. ASSUME NEW o \in Ops, Cancel(caller, o)
        PROVE  IInv'
    BY <2>3, CancelStep
  <2>4. CASE BypasserExecuteBatch(caller)
    <3>1. TypeOK' /\ Quiet
      BY <1>t, <2>4 DEF BypasserExecuteBatch, TypeOK, Quiet
    <3> QED
      BY <3>1, OtherStep
  <2> QED
    BY <1>4, <2>1, <2>2, <2>3, <2>4 DEF OpStep
<1>5. ASSUME NEW caller \in Accounts, ParameterStep(caller)
      PROVE  IInv'
  <2>1. TypeOK' /\ Quiet
    BY <1>t, <1>5 DEF ParameterStep, BlockFunctionSelector, UnblockFunctionSelector,
                      UpdateDelay, TypeOK, Quiet
  <2> QED
    BY <2>1, OtherStep
<1>6. CASE Tick
  <2>1. TypeOK' /\ Quiet
    BY <1>t, <1>6 DEF Tick, TypeOK, Quiet
  <2> QED
    BY <2>1, OtherStep
<1> QED
  BY <1>1, <1>2, <1>3, <1>4, <1>5, <1>6 DEF Next

\* The inductive invariant holds in every reachable state.
LEMMA Reachable == Spec => []IInv
BY InitIInv, Invariance, PTL DEF Spec

\* Every variable keeps its type; in particular a ready time never leaves u64.
THEOREM TypeCorrect == Spec => []TypeOK
<1>1. IInv => TypeOK
  BY DEF IInv
<1> QED
  BY <1>1, Reachable, PTL

\* The DONE mark and the runs of an operation agree: nothing runs twice, and
\* nothing is marked that has not run.
THEOREM RunsOnce == Spec => []DoneMeansRan
<1>1. IInv => DoneMeansRan
  BY DEF IInv
<1> QED
  BY <1>1, Reachable, PTL

\* No operation runs before the delay promised when it was scheduled.
THEOREM DelayHolds == Spec => []WaitedOut
<1>1. IInv => WaitedOut
  BY DEF IInv
<1> QED
  BY <1>1, Reachable, PTL

\* No operation runs before its predecessor.
THEOREM OrderHolds == Spec => []PredecessorsFirst
<1>1. IInv => PredecessorsFirst
  BY DEF IInv
<1> QED
  BY <1>1, Reachable, PTL

\* Without an admin no role grows and no parameter changes, for ever after.
THEOREM FrozenWithoutAdmin == Spec => NoAdminFrozen
<1>1. TypeOK /\ [Next]_vars =>
        [initialized /\ roles["ADMIN"] = {} =>
            /\ \A r \in Role : roles'[r] \subseteq roles[r]
            /\ UNCHANGED <<minDelay, blocked>>]_vars
  <2> SUFFICES ASSUME TypeOK, Next, initialized, roles["ADMIN"] = {}
               PROVE  /\ \A r \in Role : roles'[r] \subseteq roles[r]
                      /\ UNCHANGED <<minDelay, blocked>>
    BY DEF vars
  <2>1. \A caller : ~IsAdmin(caller)
    BY DEF IsAdmin
  <2>2. ASSUME NEW caller \in Accounts, RoleStep(caller)
        PROVE  /\ \A r \in Role : roles'[r] \subseteq roles[r]
               /\ UNCHANGED <<minDelay, blocked>>
    BY <2>1, <2>2 DEF RoleStep, GrantRole, RevokeRole, RenounceRole, Revoke, TypeOK
  <2>3. ASSUME NEW caller \in Accounts, OpStep(caller)
        PROVE  UNCHANGED <<roles, minDelay, blocked>>
    BY <2>3 DEF OpStep, ScheduleBatch, ExecuteBatch, Cancel, BypasserExecuteBatch
  <2>4. ASSUME NEW caller \in Accounts, ParameterStep(caller)
        PROVE  FALSE
    BY <2>1, <2>4 DEF ParameterStep, BlockFunctionSelector, UnblockFunctionSelector,
                      UpdateDelay
  <2>5. CASE Tick
    BY <2>5 DEF Tick
  <2>6. ASSUME NEW admin \in Accounts, NEW p \in SUBSET Accounts,
               NEW e \in SUBSET Accounts, NEW c \in SUBSET Accounts,
               NEW b \in SUBSET Accounts, NEW d \in 0 .. U64Max,
               Initialize(admin, p, e, c, b, d)
        PROVE  FALSE
    BY <2>6 DEF Initialize
  <2> QED
    BY <2>2, <2>3, <2>4, <2>5, <2>6 DEF Next
<1> QED
  BY <1>1, TypeCorrect, PTL DEF Spec, NoAdminFrozen

=============================================================================
