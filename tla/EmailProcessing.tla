--------------------------- MODULE EmailProcessing ---------------------------
(***************************************************************************)
(* The handler of process_email operations, step by step, on top of the    *)
(* operation table: the claim of the source email, the processing run, the *)
(* workflow's outcome, and the executor's error path.  Every step below is *)
(* one database transaction; between two of them the executor may crash or *)
(* overrun its lease while another execution or another operation for the  *)
(* same email moves.  Every behaviour is one of OperationLease.            *)
(*                                                                         *)
(* A processing run is keyed by its operation (its id is derived from the  *)
(* operation id), so run[o] is the run every attempt of o works on.  What  *)
(* the workflow graph does between its first and its last write is left    *)
(* open: it may finish, be ignored, end FAILED, stop for a review or raise.*)
(* Resuming a review is outside this module.                               *)
(***************************************************************************)
EXTENDS OperationLease

CONSTANTS
    Emails,      \* source emails of the account
    Target,      \* operation_runs.source_email_id
    MayPause,    \* whether the workflow switch may be found off
    MayRaise     \* whether a handler step may raise

ASSUME TargetAssumption == Target \in [Ops -> Emails]
ASSUME SwitchAssumption == MayPause \in BOOLEAN /\ MayRaise \in BOOLEAN

VARIABLES
    email,  \* source_emails.processing_status
    run,    \* processing_runs.status of the operation's run, "none" before it exists
    at      \* where each execution is in its handler

evars == <<leaseVars, email, run, at>>

EmailStatus == {"pending", "processing", "needs_review", "processed", "ignored", "failed"}
FinalRun == {"completed", "ignored", "failed"}
RunStatus == {"none", "running", "needs_review"} \cup FinalRun

Step == {"claimed",    \* the operation is claimed, its switches not yet looked at
         "assigned",   \* the source email is claimed
         "starting",   \* the run was read and is not final
         "running",    \* the run row exists and the graph executes
         "waiting",    \* the graph stopped at a review
         "ended",      \* the graph's last node finalized the run
         "returned",   \* the handler returned
         "raising",    \* the handler raised
         "releasing",  \* the email is reset, the operation not yet released
         "closing"}    \* the email is marked failed, the operation not yet

EInit ==
    /\ LeaseInit
    /\ email = [e \in Emails |-> "pending"]
    /\ run = [o \in Ops |-> "none"]
    /\ at = [x \in {} |-> "claimed"]

\* New executions start at the beginning, finished ones disappear.
TrackExecutions ==
    at' = [x \in executions' |-> IF x \in executions THEN at[x] ELSE "claimed"]

Moves(x, from, to) ==
    /\ x \in executions /\ at[x] = from
    /\ at' = [at EXCEPT ![x] = to]
    /\ UNCHANGED leaseVars

-----------------------------------------------------------------------------
(* The source email.                                                        *)

\* Fault: every attempt recovers an email left in PROCESSING or FAILED.
AlwaysRecovers(x) == TRUE

\* Fault: no attempt does.
NeverRecovers(x) == FALSE

Recovers(x) == x.attempt > 1

\* Fault: a retry also takes an email that waits for a human.
ClaimableWithReview(x) ==
    {"pending"} \cup IF Recovers(x) THEN {"processing", "failed", "needs_review"} ELSE {}

ClaimableFrom(x) ==
    {"pending"} \cup IF Recovers(x) THEN {"processing", "failed"} ELSE {}

\* claim_source_email: one conditional UPDATE.
ClaimSourceEmail(x) ==
    /\ Moves(x, "claimed", "assigned")
    /\ email[Target[x.op]] \in ClaimableFrom(x)
    /\ email' = [email EXCEPT ![Target[x.op]] = "processing"]
    /\ UNCHANGED run

\* The email is not claimable: the handler returns "skipped".
SkipSourceEmail(x) ==
    /\ Moves(x, "claimed", "returned")
    /\ email[Target[x.op]] \notin ClaimableFrom(x)
    /\ UNCHANGED <<email, run>>

-----------------------------------------------------------------------------
(* The processing run.                                                      *)

\* start: a run that already reached a final status is returned as it is.
ReturnFinalRun(x) ==
    /\ Moves(x, "assigned", "returned")
    /\ run[x.op] \in FinalRun
    /\ UNCHANGED <<email, run>>

InvokeGraph(x) ==
    /\ Moves(x, "assigned", "starting")
    /\ run[x.op] \notin FinalRun
    /\ UNCHANGED <<email, run>>

\* start_run: the run row is inserted once; an unfinished email becomes PROCESSING.
StartRun(x) ==
    LET e == Target[x.op]
    IN  /\ Moves(x, "starting", "running")
        /\ run' = [run EXCEPT ![x.op] = IF @ = "none" THEN "running" ELSE @]
        /\ email' = IF email[e] \in {"processed", "ignored"} THEN email
                    ELSE [email EXCEPT ![e] = "processing"]

\* advance_run at the next stage: the status is overwritten, whatever it was.
AdvanceRun(x) ==
    /\ Moves(x, "running", "running")
    /\ run' = [run EXCEPT ![x.op] = "running"]
    /\ UNCHANGED email

\* request_review: the run is marked NEEDS_REVIEW and the graph interrupts.
RequestReview(x) ==
    /\ Moves(x, "running", "waiting")
    /\ run' = [run EXCEPT ![x.op] = "needs_review"]
    /\ UNCHANGED email

MarkSourceNeedsReview(x) ==
    LET e == Target[x.op]
    IN  /\ Moves(x, "waiting", "returned")
        /\ email' = IF email[e] = "processing"
                    THEN [email EXCEPT ![e] = "needs_review"] ELSE email
        /\ UNCHANGED run

\* Fault: the email is given the status of the run.
EmailOutcomeUnmapped ==
    [completed |-> "completed", ignored |-> "ignored", failed |-> "failed"]

EmailOutcome ==
    [completed |-> "processed", ignored |-> "ignored", failed |-> "failed"]

\* finalize_run: the run and the email are written in one transaction,
\* unconditionally; an UPDATE of a run that does not exist changes no row.
FinalizeRun(x, outcome) ==
    /\ run' = [run EXCEPT ![x.op] = IF @ = "none" THEN @ ELSE outcome]
    /\ email' = [email EXCEPT ![Target[x.op]] = EmailOutcome[outcome]]

GraphEnds(x, outcome) ==
    /\ Moves(x, "running", "ended")
    /\ FinalizeRun(x, outcome)

WorkflowReturns(x) ==
    /\ Moves(x, "ended", "returned")
    /\ UNCHANGED <<email, run>>

\* The graph raised, in a node or while it saved a checkpoint after one: the run
\* is finalized FAILED, whatever it was, and the exception is raised again.
GraphRaises(x) ==
    /\ MayRaise
    /\ \E from \in {"starting", "running", "waiting", "ended"} : Moves(x, from, "raising")
    /\ FinalizeRun(x, "failed")

\* A step outside the graph raised: reading the switches, claiming the email,
\* opening the workflow's resources, finalizing a failed run, or marking the email
\* NEEDS_REVIEW.
HandlerRaises(x) ==
    /\ MayRaise
    /\ \E from \in Step \ {"returned", "raising", "releasing", "closing"} :
           Moves(x, from, "raising")
    /\ UNCHANGED <<email, run>>

-----------------------------------------------------------------------------
(* The executor's error path.                                               *)

\* reset_source_email_pending, before the operation is released.
ResetSourceEmailPending(x) ==
    LET e == Target[x.op]
    IN  /\ Moves(x, "raising", "releasing") /\ ~LastAttempt(x)
        /\ email' = IF email[e] \in {"processing", "failed"}
                    THEN [email EXCEPT ![e] = "pending"] ELSE email
        /\ UNCHANGED run

\* mark_source_email_failed, before the operation is closed.
MarkSourceEmailFailed(x) ==
    /\ Moves(x, "raising", "closing") /\ LastAttempt(x)
    /\ email' = [email EXCEPT ![Target[x.op]] = "failed"]
    /\ UNCHANGED run

Handler(x) ==
    \/ ClaimSourceEmail(x) \/ SkipSourceEmail(x)
    \/ ReturnFinalRun(x) \/ InvokeGraph(x)
    \/ StartRun(x) \/ AdvanceRun(x)
    \/ RequestReview(x) \/ MarkSourceNeedsReview(x)
    \/ \E outcome \in FinalRun : GraphEnds(x, outcome)
    \/ WorkflowReturns(x) \/ GraphRaises(x) \/ HandlerRaises(x)
    \/ ResetSourceEmailPending(x) \/ MarkSourceEmailFailed(x)

\* The operation's own outcome follows the handler's.
Settle(x) ==
    \/ at[x] = "returned" /\ CompleteOperation(x)
    \/ MayPause /\ at[x] = "claimed" /\ RefuseOperation(x)
    \/ at[x] = "releasing" /\ ReleaseForRetry(x)
    \/ at[x] = "closing" /\ FailOperation(x)

Progress(x) ==
    \/ Handler(x) /\ ~AdvanceRun(x)
    \/ Settle(x) /\ TrackExecutions /\ UNCHANGED <<email, run>>

Admission ==
    \/ \E o \in Ops : AcceptOperation(o) \/ Lapse(o)
    \/ \E o \in Ops, d \in 1 .. MaxDeliveries : ClaimOperation(o, d)

ENext ==
    \/ Admission /\ TrackExecutions /\ UNCHANGED <<email, run>>
    \/ \E x \in executions : Handler(x)
    \/ \E x \in executions :
           (Settle(x) \/ Crash(x)) /\ TrackExecutions /\ UNCHANGED <<email, run>>

ESpec == EInit /\ [][ENext]_evars

\* OperationQueue gives every claimable operation a claim in the end and every lease
\* its end; a handler that does not raise makes progress and does not advance the
\* same run for ever.
EFairness ==
    /\ \A o \in Ops :
           /\ WF_evars(Lapse(o) /\ TrackExecutions /\ UNCHANGED <<email, run>>)
           /\ SF_evars(ClaimOperation(o, 1) /\ TrackExecutions /\ UNCHANGED <<email, run>>)
    /\ \A o \in Ops, n \in 1 .. (MaxAttempts + MaxCrashes + MaxOverruns) :
           WF_evars(\E x \in executions : x.op = o /\ x.attempt = n /\ Progress(x))

EFairSpec == ESpec /\ EFairness

-----------------------------------------------------------------------------
(* Properties.                                                              *)

\* Every handler position belongs to an execution, and rows hold their statuses.
ETypeOK ==
    /\ LeaseTypeOK
    /\ email \in [Emails -> EmailStatus]
    /\ run \in [Ops -> RunStatus]
    /\ at \in [executions -> Step]

\* Executions that hold the source email and may still write it.
Working(x) == at[x] \notin {"claimed", "returned"}

\* The operation's only attempt succeeded, or is at work and has not raised.
Smooth(o) ==
    /\ attempts[o] = 1
    /\ \/ status[o] = "succeeded"
       \/ \E x \in executions :
              x.op = o /\ at[x] \notin {"raising", "releasing", "closing"}

\* An attempt of the operation raised, died, was refused, or is followed by another.
Disturbed(o) == attempts[o] > 0 /\ ~Smooth(o)

\* Two operations for the email have been claimed and one of them was disturbed:
\* recover_existing and the error path then write an email they do not hold.
Contended(e) ==
    \E o, p \in Ops :
        /\ o # p /\ Target[o] = e /\ Target[p] = e
        /\ Disturbed(o) /\ attempts[p] > 0

Orderly(e) == overruns = 0 /\ ~Contended(e)

\* The source email is claimed before its workflow begins, so duplicate first
\* attempts, redeliveries and crash recoveries never work on one email at a time.
EmailExclusive ==
    \A x, y \in executions :
        /\ Target[x.op] = Target[y.op] /\ Orderly(Target[x.op])
        /\ Working(x) /\ Working(y)
        => x = y

Settled == {"processed", "ignored", "needs_review"}

\* The email's workflow may still raise after its last node, or the error path of
\* a last attempt is about to close the email.
GivingUp(e) ==
    \E x \in executions :
        /\ Target[x.op] = e
        /\ at[x] = "ended" \/ (at[x] = "raising" /\ LastAttempt(x))

\* A retry never pulls an email back that is finished or waits for a human, although
\* finalize_run writes it unconditionally; only giving up does, and writes FAILED.
SettledEmailStays ==
    [][\A e \in Emails :
           Orderly(e) /\ email[e] \in Settled
           => \/ email'[e] = email[e]
              \/ GivingUp(e) /\ email'[e] = "failed"]_evars

Open(o) == status[o] \in {"queued", "running"}

\* The two ways an email is left behind in PROCESSING with nobody to move it: its
\* operation succeeded by returning a run that had already ended, or was refused by the
\* paused switch when it came to recover a crashed attempt.
LeftBehind(o) ==
    \/ status[o] = "succeeded" /\ run[o] \in FinalRun
    \/ status[o] = "failed" /\ MayPause

\* Crashes, redeliveries and raised handlers leave no email in PROCESSING without
\* an operation that will move it on, but for the two ways of LeftBehind.
ProcessingHasAnOwner ==
    \A e \in Emails :
        Orderly(e) /\ email[e] = "processing" =>
            \E o \in Ops : Target[o] = e /\ (Open(o) \/ LeftBehind(o))

\* Neither crashes nor raised handlers nor retries leave an email in PROCESSING for
\* ever: in the end it is finished, failed, pending or with a human and stays so,
\* but for the two ways of LeftBehind (see NoStrandedEmail).
CrashedEmailRecovers ==
    \A e \in Emails :
        email[e] = "processing" ~>
            \/ [](email[e] # "processing")
            \/ \E o \in Ops : Target[o] = e /\ LeftBehind(o)

\* What docs/05_OPERATIONS.md promises, that no crash or transient strands accepted
\* work: an email in PROCESSING always has an unfinished operation.
NoStrandedEmail ==
    \A e \in Emails :
        email[e] = "processing" => \E o \in Ops : Target[o] = e /\ Open(o)
=============================================================================
