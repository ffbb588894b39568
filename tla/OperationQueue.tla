--------------------------- MODULE OperationQueue ---------------------------
(***************************************************************************)
(* How operations reach an executor: submission over HTTP (the row first,  *)
(* the queue message second), the storage queue's at-least-once delivery   *)
(* with its poison limit, and the once-per-minute dispatch timer that      *)
(* enqueues due operations again and executes them inline.  The table and  *)
(* its lease are OperationLease, which this module implements.             *)
(***************************************************************************)
EXTENDS OperationLease

VARIABLES
    fresh,       \* operations requested less than 30 seconds ago
    submitting,  \* operations read QUEUED by a submitter that has yet to enqueue
    queue,       \* visible messages; identical messages are one element
    dispatch,    \* operations the current dispatcher tick has yet to execute
    timer        \* the executions the dispatcher runs inline

transportVars == <<fresh, submitting, queue, dispatch, timer>>
vars == <<leaseVars, transportVars>>

\* A message carries only the operation id; the queue counts its dequeues.
Message == [op : Ops, dequeued : 0 .. (MaxDeliveries - 1)]

Init ==
    /\ LeaseInit
    /\ fresh = {} /\ submitting = {} /\ queue = {} /\ dispatch = {} /\ timer = {}

-----------------------------------------------------------------------------
(* Submission.                                                              *)

\* submit with a new key: the row is inserted QUEUED and read back.
Submit(o) ==
    /\ AcceptOperation(o)
    /\ fresh' = fresh \cup {o}
    /\ submitting' = submitting \cup {o}
    /\ UNCHANGED <<queue, dispatch, timer>>

\* submit with a key already used: a row still QUEUED is enqueued again.
Resubmit(o) ==
    /\ status[o] = "queued"
    /\ submitting' = submitting \cup {o}
    /\ UNCHANGED <<leaseVars, fresh, queue, dispatch, timer>>

FirstMessage(o) == [op |-> o, dequeued |-> 0]

Enqueue(o) ==
    /\ o \in submitting
    /\ submitting' = submitting \ {o}
    /\ queue' = queue \cup {FirstMessage(o)}
    /\ UNCHANGED <<leaseVars, fresh, dispatch, timer>>

\* The HTTP worker dies, or Storage refuses the message, after the insert.
SubmitterDies(o) ==
    /\ o \in submitting
    /\ submitting' = submitting \ {o}
    /\ UNCHANGED <<leaseVars, fresh, queue, dispatch, timer>>

\* Thirty seconds pass since the operation was requested.
Age(o) ==
    /\ o \in fresh
    /\ fresh' = fresh \ {o}
    /\ UNCHANGED <<leaseVars, submitting, queue, dispatch, timer>>

-----------------------------------------------------------------------------
(* The queue trigger.                                                       *)

\* The worker receives a message and claims its operation.
Receive(m) ==
    /\ m \in queue
    /\ ClaimOperation(m.op, m.dequeued + 1)
    /\ queue' = queue \ {m}
    /\ UNCHANGED <<fresh, submitting, dispatch, timer>>

\* The claim is refused: execute returns and the message is deleted.
ReceiveRefused(m) ==
    /\ m \in queue /\ ~Claimable(m.op)
    /\ queue' = queue \ {m}
    /\ UNCHANGED <<leaseVars, fresh, submitting, dispatch, timer>>

\* Fault: a message gets one delivery more than it may.
ReturnedOnceMore(o, delivery) ==
    IF delivery <= MaxDeliveries THEN {[op |-> o, dequeued |-> delivery]} ELSE {}

\* A message whose delivery raised, or died, becomes visible again with its
\* dequeue count raised, or is moved to the poison queue.
Returned(o, delivery) ==
    IF delivery < MaxDeliveries THEN {[op |-> o, dequeued |-> delivery]} ELSE {}

\* The worker dies between the dequeue and the claim.
ReceiverDies(m) ==
    /\ m \in queue
    /\ queue' = (queue \ {m}) \cup Returned(m.op, m.dequeued + 1)
    /\ UNCHANGED <<leaseVars, fresh, submitting, dispatch, timer>>

-----------------------------------------------------------------------------
(* The dispatch timer.                                                      *)

\* Fault: the dispatcher only looks for QUEUED rows.
DispatchableWhenQueued(o) == status[o] = "queued" /\ o \notin fresh

Dispatchable(o) ==
    \/ status[o] = "queued" /\ o \notin fresh
    \/ status[o] = "running" /\ LeaseLapsed(o)

\* redispatch_queued: every due operation is enqueued, and, when no send
\* failed, the same tick goes on to execute the list inline.  sent is the part
\* enqueued before a send failed.
DispatchTick(sent) ==
    LET due == {o \in Ops : Dispatchable(o)}
    IN  /\ dispatch = {} /\ timer = {}
        /\ due # {} /\ sent \subseteq due
        /\ queue' = queue \cup {FirstMessage(o) : o \in sent}
        /\ dispatch' = IF sent = due THEN due ELSE {}
        /\ UNCHANGED <<leaseVars, fresh, submitting, timer>>

\* The tick executes the listed operations one after the other, as delivery 1.
ExecuteInline(o) ==
    /\ o \in dispatch /\ timer = {}
    /\ ClaimOperation(o, 1)
    /\ dispatch' = dispatch \ {o}
    /\ timer' = {NextExecution(o, 1)}
    /\ UNCHANGED <<fresh, submitting, queue>>

InlineRefused(o) ==
    /\ o \in dispatch /\ timer = {} /\ ~Claimable(o)
    /\ dispatch' = dispatch \ {o}
    /\ UNCHANGED <<leaseVars, fresh, submitting, queue, timer>>

\* The tick's 240-second budget is spent, or its host dies, between two operations.
BudgetExhausted ==
    /\ dispatch # {} /\ timer = {}
    /\ dispatch' = {}
    /\ UNCHANGED <<leaseVars, fresh, submitting, queue, timer>>

-----------------------------------------------------------------------------
(* Outcomes, with what they do to the message that was delivered.           *)

\* execute returned: the message is deleted.
Return(x) ==
    /\ CompleteOperation(x) \/ RefuseOperation(x) \/ FailOperation(x)
    /\ timer' = timer \ {x}
    /\ UNCHANGED <<fresh, submitting, queue, dispatch>>

\* execute raised: the message returns; the timer swallows the exception.
Redeliver(x) ==
    /\ timer' = timer \ {x}
    /\ queue' = IF x \in timer THEN queue ELSE queue \cup Returned(x.op, x.delivery)
    /\ UNCHANGED <<fresh, submitting, dispatch>>

Raise(x) == ReleaseForRetry(x) /\ Redeliver(x)
Die(x) == Crash(x) /\ Redeliver(x)

Next ==
    \/ \E o \in Ops :
           \/ Submit(o) \/ Resubmit(o) \/ Enqueue(o) \/ SubmitterDies(o) \/ Age(o)
           \/ Lapse(o) /\ UNCHANGED transportVars
           \/ ExecuteInline(o) \/ InlineRefused(o)
    \/ \E m \in queue : Receive(m) \/ ReceiveRefused(m) \/ ReceiverDies(m)
    \/ \E sent \in SUBSET Ops : DispatchTick(sent)
    \/ BudgetExhausted
    \/ \E x \in executions : Return(x) \/ Raise(x) \/ Die(x)

Spec == Init /\ [][Next]_vars

\* What the platform gives: time passes, the dispatch timer fires and reaches
\* Storage, listed operations get executed, handlers return.  The queue trigger
\* is NOT assumed to deliver.
Fairness ==
    /\ \A o \in Ops : WF_vars(Age(o)) /\ WF_vars(Lapse(o) /\ UNCHANGED transportVars)
    /\ WF_vars(DispatchTick({o \in Ops : Dispatchable(o)}))
    /\ \A o \in Ops : SF_vars(ExecuteInline(o)) /\ SF_vars(InlineRefused(o))
    /\ WF_vars(\E x \in executions : Return(x) \/ Raise(x))

FairSpec == Spec /\ Fairness

-----------------------------------------------------------------------------
(* Properties.                                                              *)

\* Messages, lists and the timer's execution are what the code can produce.
TypeOK ==
    /\ LeaseTypeOK
    /\ fresh \subseteq Ops
    /\ submitting \subseteq Ops
    /\ queue \subseteq Message
    /\ dispatch \subseteq Ops
    /\ timer \subseteq executions

\* Neither a submitter that dies before it enqueues, nor a crash, nor a lease
\* overrun strands accepted work: every operation reaches an outcome that lasts,
\* even when the queue trigger never delivers a message.
AcceptedWorkSettles ==
    \A o \in Ops : (status[o] # "absent") ~> [](status[o] \in Terminal)
=============================================================================
