------------------------------ MODULE Timelock ------------------------------
(***************************************************************************)
(* RBACTimelock (contracts/timelock): role-gated batches of calls that run *)
(* after a delay.  Every entry point is one Soroban invocation, atomic: an *)
(* error or a trap, of the timelock or of a called contract, leaves no     *)
(* trace, so a refusal is the absence of a step.  The host forbids         *)
(* re-entry, so a call of a batch cannot come back to the timelock.        *)
(*                                                                         *)
(* An operation stands for the id its batch, predecessor and salt hash to. *)
(* What the calls do to other contracts is outside; the history variables  *)
(* record when batches were scheduled and run.                             *)
(***************************************************************************)
EXTENDS Integers

CONSTANTS
    Accounts,       \* addresses that call the contract
    Ops,            \* operation ids
    NoPredecessor,  \* the zero id
    Pred,           \* predecessor hashed into each operation
    Selectors,      \* function names
    SelectorsOf,    \* names a batch calls; undecodable payloads have none
    U64Max          \* largest u64: delays and timestamps saturate there

DONE == 1  \* DONE_TIMESTAMP; 0 is "not scheduled"

ASSUME TimelockAssumption ==
    /\ NoPredecessor \notin Ops
    /\ Pred \in [Ops -> Ops \cup {NoPredecessor}]
    /\ SelectorsOf \in [Ops -> SUBSET Selectors]
    /\ U64Max \in Nat
    /\ U64Max > DONE

VARIABLES
    initialized,
    roles,       \* ROLES: members of each role
    minDelay,    \* MNDELAY
    blocked,     \* BLKSEL: blocked selectors
    timestamp,   \* OpTime(id): 0, DONE, or the time the operation is ready
    now,         \* ledger timestamp
    scheduledAt, \* history: time of the last schedule_batch of the operation
    promised,    \* history: minimum delay in force at that time
    runs,        \* history: how often execute_batch has run the operation
    ranAt,       \* history: time of its last run
    bypassed     \* history: whether the bypasser has run a batch

vars == <<initialized, roles, minDelay, blocked, timestamp, now, scheduledAt,
          promised, runs, ranAt, bypassed>>

Role == {"ADMIN", "PROPOSER", "EXECUTOR", "CANCELLER", "BYPASSER"}

Max2(m, n) == IF m > n THEN m ELSE n
Min2(m, n) == IF m < n THEN m ELSE n

-----------------------------------------------------------------------------
(* Roles and their checks.                                                 *)

IsAdmin(caller) == caller \in roles["ADMIN"]
HasRoleOrAdmin(caller, role) == IsAdmin(caller) \/ caller \in roles[role]

Grant(role, account) == [roles EXCEPT ![role] = @ \cup {account}]
Revoke(role, account) == [roles EXCEPT ![role] = @ \ {account}]

Initialize(admin, proposers, executors, cancellers, bypassers, delay) ==
    /\ ~initialized
    /\ initialized' = TRUE
    /\ roles' = [r \in Role |-> CASE r = "ADMIN" -> {admin}
                                  [] r = "PROPOSER" -> proposers
                                  [] r = "EXECUTOR" -> executors
                                  [] r = "CANCELLER" -> cancellers
                                  [] r = "BYPASSER" -> bypassers]
    /\ minDelay' = delay
    /\ UNCHANGED <<blocked, timestamp, now, scheduledAt, promised, runs, ranAt, bypassed>>

GrantRole(caller, role, account) ==
    /\ initialized
    /\ IsAdmin(caller)
    /\ roles' = Grant(role, account)
    /\ UNCHANGED <<initialized, minDelay, blocked, timestamp, now, scheduledAt,
                   promised, runs, ranAt, bypassed>>

RevokeRole(caller, role, account) ==
    /\ initialized
    /\ IsAdmin(caller)
    /\ roles' = Revoke(role, account)
    /\ UNCHANGED <<initialized, minDelay, blocked, timestamp, now, scheduledAt,
                   promised, runs, ranAt, bypassed>>

RenounceRole(account, role) ==
    /\ initialized
    /\ roles' = Revoke(role, account)
    /\ UNCHANGED <<initialized, minDelay, blocked, timestamp, now, scheduledAt,
                   promised, runs, ranAt, bypassed>>

-----------------------------------------------------------------------------
(* Operations.                                                             *)

\* Mutated: wrapping addition instead of the saturating one.
ReadyAtWrapping(delay) == Max2((now + delay) % (U64Max + 1), DONE + 1)

\* Mutated: the sentinel values are not stepped over.
ReadyAtSentinel(delay) == Min2(now + delay, U64Max)

ReadyAt(delay) == Max2(Min2(now + delay, U64Max), DONE + 1)

NotBlocked(o) == SelectorsOf[o] \cap blocked = {}

ScheduleBatch(caller, o, delay) ==
    /\ initialized
    /\ HasRoleOrAdmin(caller, "PROPOSER")
    /\ timestamp[o] = 0
    /\ delay >= minDelay
    /\ NotBlocked(o)
    /\ timestamp' = [timestamp EXCEPT ![o] = ReadyAt(delay)]
    /\ scheduledAt' = [scheduledAt EXCEPT ![o] = now]
    /\ promised' = [promised EXCEPT ![o] = minDelay]
    /\ UNCHANGED <<initialized, roles, minDelay, blocked, now, runs, ranAt, bypassed>>

\* Mutated: a predecessor that is merely known is good enough.
PredecessorKnown(o) == Pred[o] # NoPredecessor => timestamp[Pred[o]] # 0

PredecessorDone(o) == Pred[o] # NoPredecessor => timestamp[Pred[o]] = DONE

\* DONE is set before the calls are made, and all of it is undone if one fails.
ExecuteBatch(caller, o) ==
    /\ initialized
    /\ HasRoleOrAdmin(caller, "EXECUTOR")
    /\ timestamp[o] > DONE
    /\ timestamp[o] <= now
    /\ PredecessorDone(o)
    /\ timestamp' = [timestamp EXCEPT ![o] = DONE]
    /\ runs' = [runs EXCEPT ![o] = @ + 1]
    /\ ranAt' = [ranAt EXCEPT ![o] = now]
    /\ UNCHANGED <<initialized, roles, minDelay, blocked, now, scheduledAt, promised,
                   bypassed>>

Cancel(caller, o) ==
    /\ initialized
    /\ HasRoleOrAdmin(caller, "CANCELLER")
    /\ timestamp[o] > DONE
    /\ timestamp' = [timestamp EXCEPT ![o] = 0]
    /\ UNCHANGED <<initialized, roles, minDelay, blocked, now, scheduledAt, promised,
                   runs, ranAt, bypassed>>

\* Any calls: no delay, no predecessor, no blocked selectors, and no mark. The batch of
\* a scheduled operation can be run this way and its operation stays pending.
BypasserExecuteBatch(caller) ==
    /\ initialized
    /\ HasRoleOrAdmin(caller, "BYPASSER")
    /\ bypassed' = TRUE
    /\ UNCHANGED <<initialized, roles, minDelay, blocked, timestamp, now, scheduledAt,
                   promised, runs, ranAt>>

-----------------------------------------------------------------------------
(* Parameters.                                                             *)

BlockFunctionSelector(caller, selector) ==
    /\ initialized
    /\ IsAdmin(caller)
    /\ blocked' = blocked \cup {selector}
    /\ UNCHANGED <<initialized, roles, minDelay, timestamp, now, scheduledAt,
                   promised, runs, ranAt, bypassed>>

UnblockFunctionSelector(caller, selector) ==
    /\ initialized
    /\ IsAdmin(caller)
    /\ blocked' = blocked \ {selector}
    /\ UNCHANGED <<initialized, roles, minDelay, timestamp, now, scheduledAt,
                   promised, runs, ranAt, bypassed>>

\* Mutated: asks for the role the delay is there to restrain.
UpdateDelayByProposer(caller, newDelay) ==
    /\ initialized
    /\ HasRoleOrAdmin(caller, "PROPOSER")
    /\ minDelay' = newDelay
    /\ UNCHANGED <<initialized, roles, blocked, timestamp, now, scheduledAt,
                   promised, runs, ranAt, bypassed>>

UpdateDelay(caller, newDelay) ==
    /\ initialized
    /\ IsAdmin(caller)
    /\ minDelay' = newDelay
    /\ UNCHANGED <<initialized, roles, blocked, timestamp, now, scheduledAt,
                   promised, runs, ranAt, bypassed>>

\* Ledgers close (external).
Tick ==
    /\ now < U64Max
    /\ now' = now + 1
    /\ UNCHANGED <<initialized, roles, minDelay, blocked, timestamp, scheduledAt,
                   promised, runs, ranAt, bypassed>>

-----------------------------------------------------------------------------
Init ==
    /\ initialized = FALSE
    /\ roles = [r \in Role |-> {}]
    /\ minDelay = 0
    /\ blocked = {}
    /\ timestamp = [o \in Ops |-> 0]
    /\ now = 0
    /\ scheduledAt = [o \in Ops |-> 0]
    /\ promised = [o \in Ops |-> 0]
    /\ runs = [o \in Ops |-> 0]
    /\ ranAt = [o \in Ops |-> 0]
    /\ bypassed = FALSE

RoleStep(caller) ==
    \E role \in Role, account \in Accounts :
        \/ GrantRole(caller, role, account)
        \/ RevokeRole(caller, role, account)
        \/ RenounceRole(account, role)

OpStep(caller) ==
    \/ \E o \in Ops :
        \/ \E delay \in 0 .. U64Max : ScheduleBatch(caller, o, delay)
        \/ ExecuteBatch(caller, o)
        \/ Cancel(caller, o)
    \/ BypasserExecuteBatch(caller)

ParameterStep(caller) ==
    \/ \E s \in Selectors : \/ BlockFunctionSelector(caller, s)
                            \/ UnblockFunctionSelector(caller, s)
    \/ \E d \in 0 .. U64Max : UpdateDelay(caller, d)

Next ==
    \/ \E admin \in Accounts, p, e, c, b \in SUBSET Accounts, d \in 0 .. U64Max :
          Initialize(admin, p, e, c, b, d)
    \/ \E caller \in Accounts :
          RoleStep(caller) \/ OpStep(caller) \/ ParameterStep(caller)
    \/ Tick

Spec == Init /\ [][Next]_vars

-----------------------------------------------------------------------------
(* Properties.                                                             *)

TypeOK ==
    /\ initialized \in BOOLEAN
    /\ roles \in [Role -> SUBSET Accounts]
    /\ minDelay \in 0 .. U64Max
    /\ blocked \subseteq Selectors
    /\ timestamp \in [Ops -> 0 .. U64Max]
    /\ now \in 0 .. U64Max
    /\ scheduledAt \in [Ops -> 0 .. U64Max]
    /\ promised \in [Ops -> 0 .. U64Max]
    /\ runs \in [Ops -> Nat]
    /\ ranAt \in [Ops -> 0 .. U64Max]
    /\ bypassed \in BOOLEAN

\* lib.rs:24-26 and 244-250: the DONE mark tells exactly which operations have run,
\* and each ran once, whatever is cancelled, scheduled again or scheduled at the
\* edges of u64 where a ready time could be mistaken for a sentinel.
DoneMeansRan ==
    \A o \in Ops : runs[o] = IF timestamp[o] = DONE THEN 1 ELSE 0

\* lib.rs:210-211, "executable after delay seconds have elapsed (delay must be >=
\* min_delay)": between the last scheduling of an operation and its run lies the
\* minimum delay of the time it was scheduled, in spite of later changes of the
\* delay, cancellations and saturation (only the end of time cuts a delay short).
WaitedOut ==
    \A o \in Ops : runs[o] > 0 =>
        ranAt[o] >= Min2(scheduledAt[o] + promised[o], U64Max)

\* An operation runs only after its predecessor, and that stays so: a predecessor
\* that has run can be neither cancelled nor scheduled again.
PredecessorsFirst ==
    \A o \in Ops : runs[o] > 0 /\ Pred[o] # NoPredecessor =>
        /\ timestamp[Pred[o]] = DONE
        /\ ranAt[Pred[o]] <= ranAt[o]

\* roles.rs:7-8: only admins grant roles and change parameters. Once the last admin
\* is gone no role ever grows again and the parameters are frozen.
NoAdminFrozen ==
    [][initialized /\ roles["ADMIN"] = {} =>
          /\ \A r \in Role : roles'[r] \subseteq roles[r]
          /\ UNCHANGED <<minDelay, blocked>>]_vars

\* What is pending has its delay ahead of it, or behind: the ready time covers it.
PendingCovered ==
    \A o \in Ops : timestamp[o] > DONE =>
        timestamp[o] >= Min2(scheduledAt[o] + promised[o], U64Max)

\* The inductive invariant of the theorems.
IInv ==
    /\ TypeOK
    /\ DoneMeansRan
    /\ PendingCovered
    /\ WaitedOut
    /\ PredecessorsFirst
    /\ \A o \in Ops : ranAt[o] <= now

=============================================================================
