---------------------------- MODULE PendingDrain ----------------------------
(***************************************************************************)
(* The drain of waiting mail: process_pending operations that the timer    *)
(* submits, one per ten-minute slot, and that create one process_email     *)
(* operation for each pending email, batch by batch, the oldest first;     *)
(* those children, which claim their email and end it; and the switch that *)
(* pauses both.                                                            *)
(*                                                                         *)
(* An operation is claimed, released and closed as OperationLease says; an *)
(* execution that outlives its lease is left out here.  Emails are numbers *)
(* in order of receipt.  A closed drain whose children are closed is never *)
(* looked at again, so that its name is free for another drain.            *)
(***************************************************************************)
EXTENDS Naturals, FiniteSets

CONSTANTS
    Emails,       \* numbers, in order of receipt
    Drains,       \* bound: names of drain operations
    None,         \* no drain
    Limit,        \* emails of one batch
    MaxBatches,   \* PENDING_DRAIN_MAX_BATCHES
    MaxFaults,    \* bound: executions that raise or die
    MaxPauses     \* bound: times the switch is turned off

ASSUME DrainAssumption ==
    /\ Emails \subseteq Nat /\ IsFiniteSet(Emails) /\ None \notin Drains
    /\ {Limit, MaxBatches} \subseteq Nat \ {0}
    /\ MaxFaults \in Nat /\ MaxPauses \in Nat

VARIABLES
    email,      \* processing status of each email
    drain,      \* the drain operations and their executions
    child,      \* the child of each drain for each email
    workflow,   \* the workflow switch
    pauses,     \* times it was turned off
    faults,     \* executions that raised or died
    waited,     \* history: emails no other drain has taken up since the drain began
    overlapped  \* history: a drain listed while another had a batch in hand

vars == <<email, drain, child, workflow, pauses, faults, waited, overlapped>>

EmailStatus ==
    {"pending", "processing", "needs_review", "orphaned", "settled", "failed"}

Drain == [at : {"free", "queued", "reclaiming", "listing", "creating", "checking",
                "completing", "closed"},
          batch : SUBSET Emails, full : BOOLEAN, batches : 0 .. MaxBatches,
          next : Drains \cup {None}]

\* again: it was claimed before, its attempt is not the first.
Child == [at : {"none", "queued", "running", "working", "closed"}, again : BOOLEAN]

NoDrain == [at |-> "free", batch |-> {}, full |-> FALSE, batches |-> 0, next |-> None]
ClosedDrain == [NoDrain EXCEPT !.at = "closed"]
NoChild == [at |-> "none", again |-> FALSE]

\* The first n of a set of emails, in order of receipt.
Oldest(S, n) == {e \in S : Cardinality({f \in S : f < e}) < n}

OpenChild(d, e) == child[d][e].at \in {"queued", "running", "working"}

\* Definitions whose comment starts with "Fault:" are wrong on purpose: each can take
\* the place of the one after it, to show that a property can fail.

\* Fault: an email with an open operation is listed again.
NeverBusy(e) == FALSE

\* _busy_process_email: an operation for the email is queued or running.
Busy(e) == \E d \in Drains : OpenChild(d, e)

Waiting == {e \in Emails : email[e] = "pending" /\ ~Busy(e)}
Orphaned == {e \in Emails : email[e] = "orphaned"}

\* Fault: an email that lost its review does not start a drain.
DrainableMail == Waiting # {}

\* has_drainable_process_emails: mail is pending, or its review is orphaned.
Drainable == Waiting # {} \/ Orphaned # {}

Init ==
    /\ email = [e \in Emails |-> "pending"]
    /\ drain = [d \in Drains |-> NoDrain]
    /\ child = [d \in Drains |-> [e \in Emails |-> NoChild]]
    /\ workflow = TRUE /\ pauses = 0 /\ faults = 0
    /\ waited = [d \in Drains |-> {}] /\ overlapped = FALSE

-----------------------------------------------------------------------------
(* The reviewers and the switch.                                            *)

SetEmail(e, from, to) == email[e] = from /\ email' = [email EXCEPT ![e] = to]

\* An email that does not wait any more has not waited since a drain began.
StillWaiting == waited' = [d \in Drains |-> {e \in waited[d] : email'[e] = "pending"}]

\* The review of an email is answered, its run goes on to the end.
AnswerReview(e) ==
    /\ SetEmail(e, "needs_review", "settled")
    /\ UNCHANGED <<drain, child, workflow, pauses, faults, waited, overlapped>>

\* A review is closed and the resume dies: no open review, and the run waits for one.
OrphanReview(e) ==
    /\ faults < MaxFaults
    /\ SetEmail(e, "needs_review", "orphaned")
    /\ faults' = faults + 1
    /\ UNCHANGED <<drain, child, workflow, pauses, waited, overlapped>>

Pause ==
    /\ workflow /\ pauses < MaxPauses
    /\ workflow' = FALSE /\ pauses' = pauses + 1
    /\ UNCHANGED <<email, drain, child, faults, waited, overlapped>>

Resume ==
    /\ ~workflow
    /\ workflow' = TRUE
    /\ UNCHANGED <<email, drain, child, pauses, faults, waited, overlapped>>

-----------------------------------------------------------------------------
(* A drain.                                                                 *)

Active(d) == drain[d].at \notin {"free", "queued", "closed"}
Moves(d, from, to) == drain[d].at = from /\ drain' = [drain EXCEPT ![d].at = to]

Free == {d \in Drains : drain[d].at = "free"}

\* submit_scheduled_pending_drain: the switch is on and mail is waiting.
SubmitDrain(d) ==
    /\ workflow /\ Drainable
    /\ Moves(d, "free", "queued")
    /\ UNCHANGED <<email, child, workflow, pauses, faults, waited, overlapped>>

\* The slot of the drain is over, and its children are closed.
ForgetDrain(d) ==
    /\ drain[d].at = "closed"
    /\ \A e \in Emails : ~OpenChild(d, e)
    /\ \A c \in Drains : drain[c].next # d
    /\ drain' = [drain EXCEPT ![d] = NoDrain]
    /\ child' = [child EXCEPT ![d] = [e \in Emails |-> NoChild]]
    /\ UNCHANGED <<email, workflow, pauses, faults, waited, overlapped>>

\* The operation is claimed while the switch is on: the fan-out begins.
AdmitDrain(d) ==
    /\ workflow /\ drain[d].at = "queued"
    /\ drain' = [drain EXCEPT ![d] = [NoDrain EXCEPT !.at = "reclaiming", !.next = drain[d].next]]
    /\ waited' = [waited EXCEPT ![d] = Waiting]
    /\ UNCHANGED <<email, child, workflow, pauses, faults, overlapped>>

\* OperationDisabledError: a paused drain fails, its mail waits for the next slot.
RefuseDrain(d) ==
    /\ ~workflow
    /\ drain[d].at = "queued"
    /\ drain' = [drain EXCEPT ![d] = ClosedDrain]
    /\ UNCHANGED <<email, child, workflow, pauses, faults, waited, overlapped>>

\* Orphaned reviews, one batch of them, are pending again.
ReclaimOrphans(d) ==
    /\ Moves(d, "reclaiming", "listing")
    /\ email' = [e \in Emails |-> IF e \in Oldest(Orphaned, Limit) THEN "pending" ELSE email[e]]
    /\ UNCHANGED <<child, workflow, pauses, faults, waited, overlapped>>

\* list_pending_source_email_ids; an empty batch ends the loop.
ListPending(d) ==
    /\ drain[d].at = "listing"
    /\ drain' = [drain EXCEPT
          ![d].at = IF Oldest(Waiting, Limit) = {} THEN "checking" ELSE "creating",
          ![d].batch = Oldest(Waiting, Limit),
          ![d].full = Cardinality(Waiting) >= Limit]
    /\ overlapped' = (overlapped \/ \E c \in Drains \ {d} : drain[c].batch # {})
    /\ UNCHANGED <<email, child, workflow, pauses, faults, waited>>

\* After its last email a full batch is followed by another, within the budget.
AfterBatch(d) ==
    IF drain[d].full /\ drain[d].batches + 1 < MaxBatches THEN "reclaiming" ELSE "checking"

\* create_operation for the next email of the batch: the key of the drain and the email
\* finds a child that exists already, and only a queued one is sent to the worker.
CreateChild(d) == drain[d].at = "creating" /\ \E e \in drain[d].batch :
    LET rest == drain[d].batch \ {e}
    IN  /\ \A f \in rest : e < f
        /\ child' = [child EXCEPT ![d][e].at = IF @ = "none" THEN "queued" ELSE @]
        /\ drain' = [drain EXCEPT ![d].batch = rest,
                                  ![d].at = IF rest = {} THEN AfterBatch(d) ELSE "creating",
                                  ![d].batches = IF rest = {} THEN @ + 1 ELSE @]
        /\ waited' = [c \in Drains |-> IF c = d THEN waited[d] ELSE waited[c] \ {e}]
        /\ UNCHANGED <<email, workflow, pauses, faults, overlapped>>

\* Fault: the budget of batches ends a drain for good.
NeverContinue(d) == FALSE

\* The budget of batches is spent and mail is waiting.
MustContinue(d) == drain[d].batches >= MaxBatches /\ Drainable

\* The continuation is another drain operation, keyed by this one.  Bound: when every
\* name is taken the drain fails, as one does whose last attempt raises.
ContinueDrain(d) ==
    /\ drain[d].at = "checking" /\ MustContinue(d)
    /\ \/ /\ drain[d].next # None
          /\ drain' = [drain EXCEPT ![d].at = "completing"]
       \/ /\ drain[d].next = None
          /\ \E n \in Free :
                drain' = [drain EXCEPT ![d].at = "completing", ![d].next = n,
                                       ![n].at = "queued"]
       \/ /\ drain[d].next = None /\ Free = {}
          /\ drain' = [drain EXCEPT ![d] = ClosedDrain]
    /\ waited' = [waited EXCEPT ![d] = IF drain'[d].at = "closed" THEN {} ELSE @]
    /\ UNCHANGED <<email, child, workflow, pauses, faults, overlapped>>

\* Nothing is left, or the continuation is queued.
Drained(d) == drain[d].at = "completing" \/ (drain[d].at = "checking" /\ ~MustContinue(d))

CompleteDrain(d) ==
    /\ Drained(d)
    /\ drain' = [drain EXCEPT ![d] = ClosedDrain]
    /\ waited' = [waited EXCEPT ![d] = {}]
    /\ UNCHANGED <<email, child, workflow, pauses, faults, overlapped>>

\* The execution dies, or raises and is released; raising at its last attempt it fails.
DrainFails(d) ==
    /\ Active(d) /\ faults < MaxFaults
    /\ \/ drain' = [drain EXCEPT ![d] = [NoDrain EXCEPT !.at = "queued", !.next = drain[d].next]]
       \/ drain' = [drain EXCEPT ![d] = ClosedDrain]
    /\ faults' = faults + 1
    /\ waited' = [waited EXCEPT ![d] = {}]
    /\ UNCHANGED <<email, child, workflow, pauses, overlapped>>

-----------------------------------------------------------------------------
(* A child.                                                                 *)

ClosedChild == [at |-> "closed", again |-> FALSE]

CloseChild(d, e, from) ==
    child[d][e].at = from /\ child' = [child EXCEPT ![d][e] = ClosedChild]

AdmitChild(d, e) ==
    /\ workflow /\ child[d][e].at = "queued"
    /\ child' = [child EXCEPT ![d][e].at = "running"]
    /\ UNCHANGED <<email, drain, workflow, pauses, faults, waited, overlapped>>

\* The child of a paused workflow fails; its email stays pending.
RefuseChild(d, e) ==
    /\ ~workflow
    /\ CloseChild(d, e, "queued")
    /\ UNCHANGED <<email, drain, workflow, pauses, faults, waited, overlapped>>

\* A first attempt takes a pending email only; a later one recovers its own.
ClaimableFrom(d, e) ==
    IF child[d][e].again THEN {"pending", "processing", "failed"} ELSE {"pending"}

ClaimEmail(d, e) ==
    /\ email[e] \in ClaimableFrom(d, e)
    /\ child[d][e].at = "running"
    /\ child' = [child EXCEPT ![d][e].at = "working"]
    /\ email' = [email EXCEPT ![e] = "processing"]
    /\ StillWaiting
    /\ UNCHANGED <<drain, workflow, pauses, faults, overlapped>>

\* "source_not_pending": the child has succeeded without work.
SkipEmail(d, e) ==
    /\ email[e] \notin ClaimableFrom(d, e)
    /\ CloseChild(d, e, "running")
    /\ UNCHANGED <<email, drain, workflow, pauses, faults, waited, overlapped>>

\* The workflow has ended: the email is done, failed, or has a review.
FinishEmail(d, e) ==
    /\ CloseChild(d, e, "working")
    /\ \E end \in {"settled", "failed", "needs_review"} : email' = [email EXCEPT ![e] = end]
    /\ UNCHANGED <<drain, workflow, pauses, faults, waited, overlapped>>

Running(d, e) == child[d][e].at \in {"running", "working"}

\* The execution raises: its email is pending again and the child queued, or both have
\* failed for good.  Which of the two depends on the deliveries OperationQueue counts.
ChildRaises(d, e) ==
    /\ Running(d, e) /\ faults < MaxFaults
    /\ \/ /\ child' = [child EXCEPT ![d][e] = [at |-> "queued", again |-> TRUE]]
          /\ email' = [email EXCEPT ![e] = IF @ \in {"processing", "failed"} THEN "pending" ELSE @]
       \/ /\ child' = [child EXCEPT ![d][e] = ClosedChild]
          /\ email' = [email EXCEPT ![e] = "failed"]
    /\ faults' = faults + 1
    /\ StillWaiting
    /\ UNCHANGED <<drain, workflow, pauses, overlapped>>

\* The execution dies; when its lease is over the child can be claimed again.
ChildDies(d, e) ==
    /\ Running(d, e) /\ faults < MaxFaults
    /\ child' = [child EXCEPT ![d][e] = [at |-> "queued", again |-> TRUE]]
    /\ faults' = faults + 1
    /\ UNCHANGED <<email, drain, workflow, pauses, waited, overlapped>>

-----------------------------------------------------------------------------

DrainStep(d) ==
    \/ ForgetDrain(d) \/ AdmitDrain(d) \/ RefuseDrain(d)
    \/ ReclaimOrphans(d) \/ ListPending(d) \/ CreateChild(d)
    \/ ContinueDrain(d) \/ CompleteDrain(d)

ChildStep(d, e) ==
    \/ AdmitChild(d, e) \/ RefuseChild(d, e)
    \/ ClaimEmail(d, e) \/ SkipEmail(d, e) \/ FinishEmail(d, e)

Next ==
    \/ \E e \in Emails : AnswerReview(e) \/ OrphanReview(e)
    \/ Pause \/ Resume
    \/ \E d \in Drains :
          \/ SubmitDrain(d) \/ DrainStep(d) \/ DrainFails(d)
          \/ \E e \in Emails : ChildStep(d, e) \/ ChildRaises(d, e) \/ ChildDies(d, e)

Spec == Init /\ [][Next]_vars

\* The timer comes again, operations are dispatched, a paused workflow is resumed.
FairSpec ==
    /\ Spec
    /\ WF_vars(Resume)
    /\ SF_vars(\E d \in Drains : SubmitDrain(d))
    /\ \A d \in Drains : WF_vars(DrainStep(d))
    /\ \A d \in Drains : WF_vars(\E e \in Emails : ChildStep(d, e))

-----------------------------------------------------------------------------
(* Properties.                                                              *)

\* The values of emails, operations and histories.
TypeOK ==
    /\ email \in [Emails -> EmailStatus]
    /\ drain \in [Drains -> Drain]
    /\ child \in [Drains -> [Emails -> Child]]
    /\ waited \in [Drains -> SUBSET Emails]
    /\ {workflow, overlapped} \subseteq BOOLEAN
    /\ pauses \in 0 .. MaxPauses /\ faults \in 0 .. MaxFaults

\* While no drain lists between the listing and the creation of another, an email has
\* at most one open operation (the busy filter and the key of the child).
OneOpenChild ==
    ~overlapped =>
        \A e \in Emails : \A c, d \in Drains : OpenChild(c, e) /\ OpenChild(d, e) => c = d

\* Until an execution raises or dies, one operation at a time works on an email, also
\* when overlapping drains have created several for it.
OneWorker ==
    faults = 0 =>
        \A e \in Emails : \A c, d \in Drains :
            child[c][e].at = "working" /\ child[d][e].at = "working" => c = d

\* A drain that completes has an operation for every email that waited all the time and
\* that no other drain took up, or another drain continues it.
DrainCovers ==
    [][\A d \in Drains :
          (Drained(d) /\ drain'[d].at = "closed" /\ faults' = faults)
              => drain[d].next # None
                 \/ \A e \in waited[d] : child[d][e].at # "none"]_vars

\* Mail that waits is taken up: past pauses, failed drains, spent batch budgets and
\* operations that end without their email.
MailIsTakenUp == \A e \in Emails : email[e] \in {"pending", "orphaned"} ~> email[e] \notin {"pending", "orphaned"}
=============================================================================
