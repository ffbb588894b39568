--------------------------- MODULE OperationLease ---------------------------
(***************************************************************************)
(* The operation_runs table: operations are accepted once per idempotency  *)
(* key, claimed by a conditional UPDATE that takes a 25-minute lease, and   *)
(* settled, released for a retry, or abandoned by a crash.                  *)
(*                                                                         *)
(* Who asks for the claim is left open here: any executor, at any moment,  *)
(* with any delivery count.  OperationQueue implements this module with    *)
(* the storage queue and the dispatch timer; EmailProcessing extends it    *)
(* with the handler of process_email operations.                           *)
(*                                                                         *)
(* Time is abstracted to the comparison the code makes, "lease_expires_at  *)
(* < now".  Every claim takes a lease of the same length, so leases run out *)
(* in the order of the claims and lapsed[o] counts those that have.        *)
(***************************************************************************)
EXTENDS Naturals

CONSTANTS
    Ops,            \* operations, one per (operation type, idempotency key)
    MaxAttempts,    \* an operation failing at this attempt is closed (5 in the code)
    MaxDeliveries,  \* queue deliveries of one message before it is poisoned
    MaxCrashes,     \* bound: executions that die without writing an outcome
    MaxOverruns     \* bound: executions still alive when their lease runs out

ASSUME BoundsAssumption ==
    /\ MaxAttempts \in Nat \ {0}
    /\ MaxDeliveries \in Nat \ {0}
    /\ MaxCrashes \in Nat
    /\ MaxOverruns \in Nat

VARIABLES
    status,      \* operation_runs.status, "absent" before the row exists
    attempts,    \* operation_runs.attempt_count
    lapsed,      \* how many of the operation's claims have outlived their lease
    executions,  \* claims whose executor is still working on them
    crashes,     \* executions lost so far
    overruns     \* executions that outlived their lease so far

leaseVars == <<status, attempts, lapsed, executions, crashes, overruns>>

Terminal == {"succeeded", "failed"}
Status == {"absent", "queued", "running"} \cup Terminal

\* One claim being executed: the attempt_count it was given and the delivery
\* attempt it was called with.
Execution == [op : Ops, attempt : Nat \ {0}, delivery : 1 .. MaxDeliveries]

LeaseInit ==
    /\ status = [o \in Ops |-> "absent"]
    /\ attempts = [o \in Ops |-> 0]
    /\ lapsed = [o \in Ops |-> 0]
    /\ executions = {}
    /\ crashes = 0
    /\ overruns = 0

-----------------------------------------------------------------------------
(* Acceptance, leases and claims.  Definitions whose comment starts with   *)
(* "Fault:" are wrong on purpose: each can take the place of the one after *)
(* it, to show that a property can fail.                                   *)

\* create_operation with a new key: the row is inserted QUEUED.
AcceptOperation(o) ==
    /\ status[o] = "absent"
    /\ status' = [status EXCEPT ![o] = "queued"]
    /\ UNCHANGED <<attempts, lapsed, executions, crashes, overruns>>

LeaseLapsed(o) == lapsed[o] >= attempts[o]

\* Fault: a RUNNING row is taken without looking at its lease.
ClaimableIgnoringLease(o) == status[o] \in {"queued", "running"}

\* Fault: a FAILED row is taken again.
ClaimableAfterFailure(o) ==
    \/ status[o] \in {"queued", "failed"}
    \/ status[o] = "running" /\ LeaseLapsed(o)

Claimable(o) ==
    \/ status[o] = "queued"
    \/ status[o] = "running" /\ LeaseLapsed(o)

\* The execution a claim of the operation would start.
NextExecution(o, delivery) ==
    [op |-> o, attempt |-> attempts[o] + 1, delivery |-> delivery]

\* claim_operation: one conditional UPDATE takes the row and counts the attempt.
ClaimOperation(o, delivery) ==
    /\ Claimable(o)
    /\ status' = [status EXCEPT ![o] = "running"]
    /\ attempts' = [attempts EXCEPT ![o] = @ + 1]
    /\ executions' = executions \cup {NextExecution(o, delivery)}
    /\ UNCHANGED <<lapsed, crashes, overruns>>

Holds(x) == lapsed[x.op] < x.attempt

\* The oldest lease of the operation still running out passes its 25 minutes.
\* Whoever took it is either gone or overruns it.
Lapse(o) ==
    LET overrun == \E x \in executions : x.op = o /\ x.attempt = lapsed[o] + 1
    IN  /\ lapsed[o] < attempts[o]
        /\ overrun => overruns < MaxOverruns
        /\ lapsed' = [lapsed EXCEPT ![o] = @ + 1]
        /\ overruns' = IF overrun THEN overruns + 1 ELSE overruns
        /\ UNCHANGED <<status, attempts, executions, crashes>>

-----------------------------------------------------------------------------
(* Outcomes.  Every write below is keyed by the operation id alone: it is   *)
(* not conditional on the row's status, its lease or its attempt count.     *)

\* Fault: the attempt is the delivery attempt alone.
AttemptOfDelivery(x) == x.delivery

Attempt(x) == IF x.delivery > x.attempt THEN x.delivery ELSE x.attempt

LastAttempt(x) == Attempt(x) >= MaxAttempts

WriteOutcome(x, outcome) ==
    /\ x \in executions
    /\ status' = [status EXCEPT ![x.op] = outcome]
    /\ executions' = executions \ {x}
    /\ UNCHANGED <<attempts, lapsed, crashes, overruns>>

CompleteOperation(x) == WriteOutcome(x, "succeeded")

\* A paused switch, a conflict or a foreign account closes the operation.
RefuseOperation(x) == WriteOutcome(x, "failed")

\* The handler raised before the last attempt: back to QUEUED.
ReleaseForRetry(x) == ~LastAttempt(x) /\ WriteOutcome(x, "queued")

\* The handler raised at the last attempt.
FailOperation(x) == LastAttempt(x) /\ WriteOutcome(x, "failed")

\* The executor dies, is cancelled, or cannot write its outcome: the row stays
\* RUNNING until its lease lapses.
Crash(x) ==
    /\ x \in executions /\ crashes < MaxCrashes
    /\ crashes' = crashes + 1
    /\ executions' = executions \ {x}
    /\ UNCHANGED <<status, attempts, lapsed, overruns>>

LeaseNext ==
    \/ \E o \in Ops : AcceptOperation(o) \/ Lapse(o)
    \/ \E o \in Ops, d \in 1 .. MaxDeliveries : ClaimOperation(o, d)
    \/ \E x \in executions :
           \/ CompleteOperation(x) \/ RefuseOperation(x)
           \/ ReleaseForRetry(x) \/ FailOperation(x)
           \/ Crash(x)

LeaseSpec == LeaseInit /\ [][LeaseNext]_leaseVars

-----------------------------------------------------------------------------
(* Properties.                                                              *)

\* The values the table and the executors range over.
LeaseTypeOK ==
    /\ status \in [Ops -> Status]
    /\ attempts \in [Ops -> Nat]
    /\ lapsed \in [Ops -> Nat]
    /\ executions \subseteq Execution
    /\ crashes \in 0 .. MaxCrashes
    /\ overruns \in 0 .. MaxOverruns

\* The lease makes the queue worker and the inline dispatcher exclude each other:
\* until some execution overruns its lease, an operation is never executed by two
\* of them at once, whatever is duplicated, redelivered, crashed or retried.
OneExecution ==
    overruns = 0 => \A x, y \in executions : x.op = y.op => x = y

\* An operation's row leaves SUCCEEDED or FAILED in no step, although complete,
\* fail and release overwrite the row without looking at it: only an execution
\* that overran its lease can reopen a closed operation.
TerminalIsFinal ==
    [][overruns = 0 =>
           \A o \in Ops : status[o] \in Terminal => status'[o] = status[o]]_leaseVars

\* Retries are bounded across both delivery paths: an operation is claimed at
\* most MaxAttempts times, plus once for every execution that died (until some
\* execution overruns its lease).
RetryBound ==
    overruns = 0 => \A o \in Ops : attempts[o] <= MaxAttempts + crashes
=============================================================================
