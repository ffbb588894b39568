-------------------------- MODULE OperationProofs --------------------------
(***************************************************************************)
(* Proofs about the operations: the lease on a row of the operation table, *)
(* its transport by the queue and the dispatcher, the handler that         *)
(* processes an email under it, and the row of switches the executors      *)
(* read; for every set of operations, emails and requests and every bound. *)
(*                                                                         *)
(* OperationLease is what the other two promise: the queue and the email   *)
(* handlers implement it, and its invariant carries over to them.          *)
(***************************************************************************)
EXTENDS OperationQueue, EmailProcessing, RuntimeControl, TLAPS

-----------------------------------------------------------------------------
(* The lease.  The inductive invariant says that, until an execution       *)
(* overruns its lease, its row still says what its claim wrote; a          *)
(* claim can then only succeed when nobody executes the operation.          *)

\* The row an execution was claimed from still says what the claim wrote.
AsClaimed(x) ==
    /\ status[x.op] = "running"
    /\ x.attempt = attempts[x.op]
    /\ Holds(x)

Executed(o) == \E x \in executions : x.op = o

\* A row that can be claimed again has used fewer claims than it may: a QUEUED
\* row was released before its last attempt, an abandoned one cost a crash.
RetryRoom ==
    \A o \in Ops :
        /\ attempts[o] <= MaxAttempts + crashes
        /\ status[o] \in {"absent", "queued"} => attempts[o] < MaxAttempts + crashes
        /\ status[o] = "running" /\ ~Executed(o) => attempts[o] < MaxAttempts + crashes

\* No lease lapses before it is taken.
LapsedBehind == \A o \in Ops : lapsed[o] <= attempts[o]

LeaseInv ==
    overruns = 0 =>
        /\ \A x \in executions : AsClaimed(x)
        /\ \A x, y \in executions : x.op = y.op => x = y
        /\ RetryRoom

IInv == LeaseTypeOK /\ LapsedBehind /\ LeaseInv

Outcome(x) ==
    \/ CompleteOperation(x) \/ RefuseOperation(x)
    \/ ReleaseForRetry(x) \/ FailOperation(x)

-----------------------------------------------------------------------------
(* Type correctness.                                                        *)

LEMMA LeaseTypeInit == LeaseInit => LeaseTypeOK
BY BoundsAssumption DEF LeaseInit, LeaseTypeOK, Status, Terminal

LEMMA LeaseTypeStep == LeaseTypeOK /\ [LeaseNext]_leaseVars => LeaseTypeOK'
<1> SUFFICES ASSUME LeaseTypeOK, [LeaseNext]_leaseVars PROVE LeaseTypeOK'
  OBVIOUS
<1> USE DEF LeaseTypeOK
<1>1. ASSUME NEW o \in Ops, AcceptOperation(o) PROVE LeaseTypeOK'
  BY <1>1 DEF AcceptOperation, Status
<1>2. ASSUME NEW o \in Ops, Lapse(o) PROVE LeaseTypeOK'
  BY <1>2, BoundsAssumption DEF Lapse
<1>3. ASSUME NEW o \in Ops, NEW d \in 1 .. MaxDeliveries, ClaimOperation(o, d)
      PROVE  LeaseTypeOK'
  BY <1>3 DEF ClaimOperation, NextExecution, Status, Execution
<1>4. ASSUME NEW x \in executions, Outcome(x) PROVE LeaseTypeOK'
  BY <1>4 DEF Outcome, CompleteOperation, RefuseOperation, ReleaseForRetry,
              FailOperation, WriteOutcome, Execution, Status, Terminal
<1>5. ASSUME NEW x \in executions, Crash(x) PROVE LeaseTypeOK'
  BY <1>5, BoundsAssumption DEF Crash
<1>6. CASE UNCHANGED leaseVars
  BY <1>6 DEF leaseVars
<1> QED BY <1>1, <1>2, <1>3, <1>4, <1>5, <1>6 DEF LeaseNext, Outcome

\* Every reachable state of the table and its executors is well typed.
THEOREM LeaseTypeCorrect == LeaseSpec => []LeaseTypeOK
BY LeaseTypeInit, LeaseTypeStep, PTL DEF LeaseSpec

-----------------------------------------------------------------------------
(* The inductive invariant.                                                 *)

LEMMA IInvInit == LeaseInit => IInv
<1>1. LeaseInit => LapsedBehind /\ LeaseInv
  BY BoundsAssumption DEF LeaseInit, LapsedBehind, LeaseInv, RetryRoom, Executed
<1> QED BY <1>1, LeaseTypeInit DEF IInv

LEMMA LapsedBehindStep == LeaseTypeOK /\ LapsedBehind /\ LeaseNext => LapsedBehind'
BY DEF LeaseNext, AcceptOperation, Lapse, ClaimOperation, CompleteOperation,
       RefuseOperation, ReleaseForRetry, FailOperation, WriteOutcome, Crash,
       LapsedBehind, LeaseTypeOK

LEMMA AcceptKeepsLease ==
    ASSUME IInv, NEW o \in Ops, AcceptOperation(o)
    PROVE  LeaseInv'
<1> SUFFICES ASSUME overruns = 0
             PROVE  (\A x \in executions : AsClaimed(x))' /\ RetryRoom'
  BY DEF AcceptOperation, LeaseInv, IInv
<1>1. \A x \in executions : x.op \in Ops /\ x.op # o
  BY DEF AcceptOperation, IInv, LeaseTypeOK, Execution, LeaseInv, AsClaimed
<1>2. (\A x \in executions : AsClaimed(x))'
  BY <1>1 DEF AcceptOperation, IInv, LeaseTypeOK, LeaseInv, AsClaimed, Holds
<1>3. RetryRoom'
  BY DEF AcceptOperation, IInv, LeaseTypeOK, LeaseInv, RetryRoom, Executed
<1> QED BY <1>2, <1>3

\* A lease that lapses without an overrun is nobody's.
LEMMA LapseKeepsLease ==
    ASSUME IInv, NEW o \in Ops, Lapse(o)
    PROVE  LeaseInv'
<1> SUFFICES ASSUME overruns' = 0
             PROVE  /\ (\A x \in executions : AsClaimed(x))'
                    /\ (\A x, y \in executions : x.op = y.op => x = y)'
                    /\ RetryRoom'
  BY DEF LeaseInv
<1>1. /\ overruns = 0
      /\ ~ \E x \in executions : x.op = o /\ x.attempt = lapsed[o] + 1
  BY DEF Lapse, IInv, LeaseTypeOK
<1>2. \A x \in executions : Holds(x)'
  BY <1>1 DEF Lapse, IInv, LeaseTypeOK, Execution, LeaseInv, AsClaimed, Holds
<1> QED BY <1>1, <1>2
        DEF Lapse, IInv, LeaseTypeOK, LeaseInv, AsClaimed, RetryRoom, Executed

\* A claim that succeeds finds no execution of its operation alive.
LEMMA ClaimFindsNobody ==
    ASSUME IInv, overruns = 0, NEW o \in Ops, Claimable(o)
    PROVE  ~Executed(o)
BY DEF IInv, LeaseTypeOK, LeaseInv, Claimable, LeaseLapsed, Executed, AsClaimed, Holds,
       Execution

LEMMA ClaimKeepsLease ==
    ASSUME IInv, NEW o \in Ops, NEW d \in 1 .. MaxDeliveries, ClaimOperation(o, d)
    PROVE  LeaseInv'
<1> SUFFICES ASSUME overruns = 0
             PROVE  /\ (\A x \in executions : AsClaimed(x))'
                    /\ (\A x, y \in executions : x.op = y.op => x = y)'
                    /\ RetryRoom'
  BY DEF ClaimOperation, LeaseInv
<1>1. ~Executed(o)
  BY ClaimFindsNobody DEF ClaimOperation
<1> DEFINE new == NextExecution(o, d)
<1>2. new.op = o /\ new.attempt = attempts[o] + 1
  BY DEF NextExecution
<1>3. executions' = executions \cup {new}
  BY DEF ClaimOperation
<1> HIDE DEF new
<1>4. \A x \in executions : x.op \in Ops /\ x.op # o /\ AsClaimed(x)
  BY <1>1 DEF IInv, LeaseTypeOK, Execution, LeaseInv, Executed
<1>5. (\A x \in executions : AsClaimed(x))'
  BY <1>2, <1>3, <1>4 DEF ClaimOperation, AsClaimed, Holds, IInv, LeaseTypeOK, LapsedBehind
<1>6. (\A x, y \in executions : x.op = y.op => x = y)'
  BY <1>2, <1>3, <1>4 DEF IInv, LeaseInv
<1>7. RetryRoom'
  <2>1. attempts[o] < MaxAttempts + crashes
    BY <1>1 DEF IInv, LeaseInv, RetryRoom, ClaimOperation, Claimable
  <2>2. Executed(o)' /\ \A p \in Ops : p # o => (Executed(p)' <=> Executed(p))
    BY <1>2, <1>3 DEF Executed
  <2> QED
    BY <2>1, <2>2, BoundsAssumption
    DEF ClaimOperation, IInv, LeaseTypeOK, LeaseInv, RetryRoom
<1> QED BY <1>5, <1>6, <1>7

\* An execution that ends takes only its own operation's row with it.
LEMMA EndKeepsLease ==
    ASSUME IInv, NEW x \in executions, Outcome(x) \/ Crash(x)
    PROVE  LeaseInv'
<1> USE DEF Outcome, CompleteOperation, RefuseOperation, ReleaseForRetry, FailOperation,
            WriteOutcome, Crash
<1> SUFFICES ASSUME overruns = 0
             PROVE  /\ (\A y \in executions : AsClaimed(y))'
                    /\ (\A y, z \in executions : y.op = z.op => y = z)'
                    /\ RetryRoom'
  BY DEF LeaseInv
<1>1. x \in Execution /\ AsClaimed(x)
  BY DEF IInv, LeaseTypeOK, LeaseInv
<1>2. executions' = executions \ {x} /\ UNCHANGED <<attempts, lapsed>>
  OBVIOUS
<1>3. \A y \in executions' : y \in executions /\ y.op # x.op /\ y.op \in Ops
  BY <1>2 DEF IInv, LeaseTypeOK, LeaseInv, Execution
<1>4. \A o \in Ops : o # x.op => status'[o] = status[o]
  BY DEF IInv, LeaseTypeOK
<1>5. (\A y \in executions : AsClaimed(y))'
  BY <1>2, <1>3, <1>4 DEF IInv, LeaseInv, AsClaimed, Holds
<1>6. (\A y, z \in executions : y.op = z.op => y = z)'
  BY <1>3 DEF IInv, LeaseInv
<1>7. RetryRoom'
  <2>1. \A o \in Ops : o # x.op => (Executed(o)' <=> Executed(o))
    BY <1>2 DEF Executed
  <2>2. attempts[x.op] <= MaxAttempts + crashes /\ x.op \in Ops
    BY <1>1 DEF IInv, LeaseInv, RetryRoom, Execution
  <2>3. CASE Crash(x)
    BY <2>1, <2>2, <2>3, <1>2, <1>4, BoundsAssumption
    DEF IInv, LeaseTypeOK, LeaseInv, RetryRoom
  <2>4. CASE ReleaseForRetry(x)
    <3>1. attempts[x.op] < MaxAttempts
      BY <2>4, <1>1, BoundsAssumption DEF LastAttempt, Attempt, AsClaimed, Execution
    <3> QED
      BY <2>1, <2>2, <2>4, <3>1, <1>2, <1>4, BoundsAssumption
      DEF IInv, LeaseTypeOK, LeaseInv, RetryRoom
  <2>5. CASE CompleteOperation(x) \/ RefuseOperation(x) \/ FailOperation(x)
    <3>1. status'[x.op] \in Terminal /\ UNCHANGED crashes
      BY <2>2, <2>5 DEF IInv, LeaseTypeOK, Terminal
    <3> QED
      BY <2>1, <2>2, <3>1, <1>2, <1>4 DEF IInv, LeaseInv, RetryRoom, Terminal
  <2> QED BY <2>3, <2>4, <2>5
<1> QED BY <1>5, <1>6, <1>7

LEMMA IInvStep == IInv /\ [LeaseNext]_leaseVars => IInv'
<1> SUFFICES ASSUME IInv, [LeaseNext]_leaseVars PROVE LapsedBehind' /\ LeaseInv'
  BY LeaseTypeStep DEF IInv
<1>1. CASE UNCHANGED leaseVars
  BY <1>1 DEF leaseVars, IInv, LapsedBehind, LeaseInv, RetryRoom, AsClaimed, Holds, Executed
<1>2. CASE LeaseNext
  <2>1. LapsedBehind'
    BY <1>2, LapsedBehindStep DEF IInv
  <2>2. LeaseInv'
    BY <1>2, AcceptKeepsLease, LapseKeepsLease, ClaimKeepsLease, EndKeepsLease
    DEF LeaseNext, Outcome
  <2> QED BY <2>1, <2>2
<1> QED BY <1>1, <1>2

LEMMA IInvInductive == LeaseSpec => []IInv
BY IInvInit, IInvStep, PTL DEF LeaseSpec

-----------------------------------------------------------------------------
(* Theorems.                                                                *)

\* The lease excludes a second execution of an operation, by the queue worker or
\* by the dispatcher, as long as no execution has overrun its lease.
THEOREM LeaseExcludes == LeaseSpec => []OneExecution
<1>1. IInv => OneExecution
  BY DEF IInv, LeaseInv, OneExecution
<1> QED BY <1>1, IInvInductive, PTL

\* An operation is claimed at most MaxAttempts times, plus once per crash.
THEOREM RetriesBounded == LeaseSpec => []RetryBound
<1>1. IInv => RetryBound
  BY DEF IInv, LeaseInv, RetryRoom, RetryBound
<1> QED BY <1>1, IInvInductive, PTL

\* As long as no execution has overrun its lease, the unconditional writes of
\* complete, fail and release never touch a closed operation.
THEOREM ClosedStaysClosed == LeaseSpec => TerminalIsFinal
<1> DEFINE Final == overruns = 0 =>
               \A o \in Ops : status[o] \in Terminal => status'[o] = status[o]
<1>1. IInv /\ [LeaseNext]_leaseVars => [Final]_leaseVars
  <2> SUFFICES ASSUME IInv, LeaseNext, overruns = 0,
                      NEW o \in Ops, status[o] \in Terminal
               PROVE  status'[o] = status[o]
    OBVIOUS
  <2> USE DEF IInv, LeaseTypeOK, Terminal
  <2>1. ASSUME NEW p \in Ops, AcceptOperation(p) \/ Lapse(p)
        PROVE  status'[o] = status[o]
    BY <2>1 DEF AcceptOperation, Lapse
  <2>2. ASSUME NEW p \in Ops, NEW d \in 1 .. MaxDeliveries, ClaimOperation(p, d)
        PROVE  status'[o] = status[o]
    BY <2>2 DEF ClaimOperation, Claimable
  <2>3. ASSUME NEW x \in executions, Outcome(x) \/ Crash(x)
        PROVE  status'[o] = status[o]
    <3>1. x.op # o
      BY DEF LeaseInv, AsClaimed
    <3> QED
      BY <2>3, <3>1 DEF Outcome, CompleteOperation, RefuseOperation, ReleaseForRetry,
                        FailOperation, WriteOutcome, Crash
  <2> QED BY <2>1, <2>2, <2>3 DEF LeaseNext, Outcome
<1>2. LeaseSpec => [][Final]_leaseVars
  BY <1>1, IInvInductive, PTL DEF LeaseSpec
<1> QED BY <1>2 DEF TerminalIsFinal

-----------------------------------------------------------------------------
(* The queue, the worker and the dispatcher.                                *)

\* Steps of the transport that leave the table and the executors alone.
TransportStep ==
    \/ \E o \in Ops : Resubmit(o) \/ Enqueue(o) \/ SubmitterDies(o) \/ Age(o)
                      \/ InlineRefused(o)
    \/ \E m \in queue : ReceiveRefused(m) \/ ReceiverDies(m)
    \/ \E sent \in SUBSET Ops : DispatchTick(sent)
    \/ BudgetExhausted

LEMMA TransportStepKeepsTable == TransportStep => UNCHANGED leaseVars
BY DEF TransportStep, Resubmit, Enqueue, SubmitterDies, Age, InlineRefused,
       ReceiveRefused, ReceiverDies, DispatchTick, BudgetExhausted

\* Every delivery count a message is claimed with is within the poison limit.
LEMMA MessageDelivery ==
    ASSUME TypeOK, NEW m \in queue
    PROVE  m.op \in Ops /\ m.dequeued + 1 \in 1 .. MaxDeliveries
BY BoundsAssumption DEF TypeOK, Message

\* Every step of the queue is a step of the table or leaves it alone.
LEMMA QueueStepIsLeaseStep == TypeOK /\ [Next]_vars => [LeaseNext]_leaseVars
<1> SUFFICES ASSUME TypeOK, Next PROVE LeaseNext \/ UNCHANGED leaseVars
  BY DEF vars
<1>1. ASSUME NEW o \in Ops, Submit(o) PROVE LeaseNext
  BY <1>1 DEF Submit, LeaseNext
<1>2. ASSUME NEW o \in Ops, Lapse(o) PROVE LeaseNext
  BY <1>2 DEF LeaseNext
<1>3. ASSUME NEW o \in Ops, ExecuteInline(o) PROVE LeaseNext
  <2>1. 1 \in 1 .. MaxDeliveries
    BY BoundsAssumption
  <2> QED BY <1>3, <2>1 DEF ExecuteInline, LeaseNext
<1>4. ASSUME NEW m \in queue, Receive(m) PROVE LeaseNext
  BY <1>4, MessageDelivery DEF Receive, LeaseNext
<1>5. ASSUME NEW x \in executions, Return(x) \/ Raise(x) \/ Die(x) PROVE LeaseNext
  BY <1>5 DEF Return, Raise, Die, LeaseNext
<1>6. CASE TransportStep
  BY <1>6, TransportStepKeepsTable
<1> QED BY <1>1, <1>2, <1>3, <1>4, <1>5, <1>6 DEF Next, TransportStep

-----------------------------------------------------------------------------
(* Type correctness.                                                        *)

\* What is put back on the queue stays within the poison limit.
LEMMA ReturnedIsMessage ==
    ASSUME NEW o \in Ops, NEW d \in 1 .. MaxDeliveries
    PROVE  Returned(o, d) \subseteq Message
BY BoundsAssumption DEF Returned, Message

LEMMA FirstMessageIsMessage == \A o \in Ops : FirstMessage(o) \in Message
BY BoundsAssumption DEF FirstMessage, Message

TransportTypeOK ==
    /\ fresh \subseteq Ops
    /\ submitting \subseteq Ops
    /\ queue \subseteq Message
    /\ dispatch \subseteq Ops
    /\ timer \subseteq executions

LEMMA TransportStepKeepsTypes == TypeOK /\ TransportStep => TransportTypeOK'
<1> SUFFICES ASSUME TypeOK, TransportStep PROVE TransportTypeOK'
  OBVIOUS
<1> USE DEF TypeOK, TransportTypeOK
<1>0. UNCHANGED leaseVars
  BY TransportStepKeepsTable
<1>1. ASSUME NEW o \in Ops,
             Resubmit(o) \/ SubmitterDies(o) \/ Age(o) \/ InlineRefused(o)
      PROVE  TransportTypeOK'
  BY <1>1, <1>0 DEF Resubmit, SubmitterDies, Age, InlineRefused, leaseVars
<1>2. ASSUME NEW o \in Ops, Enqueue(o) PROVE TransportTypeOK'
  BY <1>2, <1>0, FirstMessageIsMessage DEF Enqueue, leaseVars
<1>3. ASSUME NEW m \in queue, ReceiveRefused(m) \/ ReceiverDies(m)
      PROVE  TransportTypeOK'
  BY <1>3, <1>0, MessageDelivery, ReturnedIsMessage
  DEF ReceiveRefused, ReceiverDies, leaseVars
<1>4. ASSUME NEW sent \in SUBSET Ops, DispatchTick(sent) PROVE TransportTypeOK'
  BY <1>4, <1>0, FirstMessageIsMessage DEF DispatchTick, leaseVars
<1>5. CASE BudgetExhausted
  BY <1>5, <1>0 DEF BudgetExhausted, leaseVars
<1> QED BY <1>1, <1>2, <1>3, <1>4, <1>5 DEF TransportStep

LEMMA QueueTypeStep == TypeOK /\ [Next]_vars => TypeOK'
<1> SUFFICES ASSUME TypeOK, [Next]_vars PROVE TransportTypeOK'
  BY LeaseTypeStep, QueueStepIsLeaseStep DEF TypeOK, TransportTypeOK
<1> USE DEF TypeOK, TransportTypeOK
<1>1. ASSUME NEW o \in Ops, Submit(o) PROVE TransportTypeOK'
  BY <1>1 DEF Submit, AcceptOperation
<1>2. ASSUME NEW o \in Ops, Lapse(o), UNCHANGED transportVars PROVE TransportTypeOK'
  BY <1>2 DEF Lapse, transportVars
<1>3. ASSUME NEW o \in Ops, ExecuteInline(o) PROVE TransportTypeOK'
  BY <1>3 DEF ExecuteInline, ClaimOperation
<1>4. ASSUME NEW m \in queue, Receive(m) PROVE TransportTypeOK'
  BY <1>4 DEF Receive, ClaimOperation
<1>5. ASSUME NEW x \in executions, Return(x) \/ Raise(x) \/ Die(x)
      PROVE  TransportTypeOK'
  <2>1. x.op \in Ops /\ x.delivery \in 1 .. MaxDeliveries
    BY DEF LeaseTypeOK, Execution
  <2>2. executions' = executions \ {x} /\ timer' = timer \ {x}
    BY <1>5 DEF Return, Raise, Die, Redeliver, CompleteOperation, RefuseOperation,
                ReleaseForRetry, FailOperation, WriteOutcome, Crash
  <2>3. UNCHANGED <<fresh, submitting, dispatch>>
    BY <1>5 DEF Return, Raise, Die, Redeliver
  <2>4. queue' \subseteq queue \cup Returned(x.op, x.delivery)
    BY <1>5 DEF Return, Raise, Die, Redeliver
  <2> QED BY <2>1, <2>2, <2>3, <2>4, ReturnedIsMessage
<1>6. CASE TransportStep
  BY <1>6, TransportStepKeepsTypes
<1>7. CASE UNCHANGED vars
  BY <1>7 DEF vars, leaseVars, transportVars
<1> QED
  BY <1>1, <1>2, <1>3, <1>4, <1>5, <1>6, <1>7 DEF Next, TransportStep

\* Every reachable state of the queue, the dispatcher and the table is well typed.
THEOREM QueueTypeCorrect == Spec => []TypeOK
<1>1. Init => TypeOK
  BY LeaseTypeInit DEF Init, TypeOK
<1> QED BY <1>1, QueueTypeStep, PTL DEF Spec

-----------------------------------------------------------------------------
(* Refinement.                                                              *)

\* Submission, redelivery, poisoning and the dispatch timer implement the table
\* protocol of OperationLease.
THEOREM QueueImplementsLease == Spec => LeaseSpec
<1>1. Init => LeaseInit
  BY DEF Init
<1> QED BY <1>1, QueueStepIsLeaseStep, QueueTypeCorrect, PTL DEF Spec, LeaseSpec

\* The queue worker and the inline dispatcher never execute an operation at once,
\* and never claim it more often than MaxAttempts and the crashes allow, until an
\* execution overruns its lease.
THEOREM DeliveryIsSafe == Spec => [](OneExecution /\ RetryBound)
BY QueueImplementsLease, LeaseExcludes, RetriesBounded, PTL

-----------------------------------------------------------------------------
(* The handler of process_email.  Until an email is contended, an execution *)
(* that works on it is the only one, and the stage it is in says what the   *)
(* email's status is; a second execution then finds the email taken.        *)


\* Stages in which the workflow holds its email.
Busy == {"assigned", "starting", "running", "waiting"}

\* Stages of the executor's error path.
Raised == {"raising", "releasing", "closing"}

\* Where an execution is says what its email is.
EmailHeld ==
    \A x \in executions :
        Orderly(Target[x.op]) =>
            /\ at[x] \in Busy => email[Target[x.op]] = "processing"
            /\ at[x] = "ended" => email[Target[x.op]] \in {"processed", "ignored", "failed"}
            /\ at[x] = "releasing" => email[Target[x.op]] # "processing"
            /\ at[x] = "closing" => email[Target[x.op]] = "failed"

\* A first attempt that has not reached the email, or one that leaves it as it found it.
Idles(x) ==
    \/ at[x] = "claimed" /\ x.attempt = 1
    \/ at[x] = "returned" /\ run[x.op] \notin FinalRun

\* The operation will move its email on, or is one of the two ways it is left behind.
Owner(o) ==
    \/ LeftBehind(o)
    \/ /\ Open(o) /\ attempts[o] > 0
       /\ \A x \in executions : x.op = o => ~Idles(x)

ProcessingIsOwned ==
    \A e \in Emails :
        Orderly(e) /\ email[e] = "processing" => \E o \in Ops : Target[o] = e /\ Owner(o)

EmailInv == ETypeOK /\ IInv /\ EmailExclusive /\ EmailHeld /\ ProcessingIsOwned

\* Steps of the operation table under which the handlers stand still.
TableStep ==
    \/ Admission
    \/ \E x \in executions : Settle(x) \/ Crash(x)

-----------------------------------------------------------------------------

LEMMA HandlerKeepsTable == ASSUME NEW x \in executions, Handler(x) PROVE UNCHANGED leaseVars
BY DEF Handler, Moves, ClaimSourceEmail, SkipSourceEmail, ReturnFinalRun, InvokeGraph,
       StartRun, AdvanceRun, RequestReview, MarkSourceNeedsReview, GraphEnds,
       WorkflowReturns, GraphRaises, HandlerRaises, ResetSourceEmailPending,
       MarkSourceEmailFailed

LEMMA TableStepIsLeaseStep == TableStep => LeaseNext
BY DEF TableStep, Admission, Settle, LeaseNext

LEMMA EmailStepIsLeaseStep == [ENext]_evars => [LeaseNext]_leaseVars
BY HandlerKeepsTable, TableStepIsLeaseStep DEF ENext, TableStep, evars

\* What one step of a handler leaves alone.
LEMMA HandlerFrame ==
    ASSUME ETypeOK, NEW x \in executions, Handler(x)
    PROVE  /\ UNCHANGED leaseVars
           /\ x.op \in Ops /\ Target[x.op] \in Emails
           /\ at' \in [executions -> Step] /\ at[x] # "returned"
           /\ email' \in [Emails -> EmailStatus] /\ run' \in [Ops -> RunStatus]
           /\ \A y \in executions : y # x => at'[y] = at[y]
           /\ \A e \in Emails : e # Target[x.op] => email'[e] = email[e]
           /\ \A o \in Ops : o # x.op => run'[o] = run[o]
  <1> USE DEF ETypeOK, Moves
  <1>1. UNCHANGED leaseVars
    BY HandlerKeepsTable
  <1>2. x.op \in Ops /\ Target[x.op] \in Emails
    BY TargetAssumption DEF LeaseTypeOK, Execution
  <1>3. \E from, to \in Step : Moves(x, from, to) /\ from # "returned"
    BY DEF Handler, ClaimSourceEmail, SkipSourceEmail, ReturnFinalRun, InvokeGraph,
           StartRun, AdvanceRun, RequestReview, MarkSourceNeedsReview, GraphEnds,
           WorkflowReturns, GraphRaises, HandlerRaises, ResetSourceEmailPending,
           MarkSourceEmailFailed, Step
  <1>4. /\ at' \in [executions -> Step] /\ at[x] # "returned"
        /\ \A y \in executions : y # x => at'[y] = at[y]
    BY <1>3
  <1>5. \/ UNCHANGED email
        \/ \E s \in EmailStatus : email' = [email EXCEPT ![Target[x.op]] = s]
    <2>1. \A outcome \in FinalRun : EmailOutcome[outcome] \in EmailStatus
      BY DEF FinalRun, EmailOutcome, EmailStatus
    <2> QED
      BY <2>1
      DEF Handler, ClaimSourceEmail, SkipSourceEmail, ReturnFinalRun, InvokeGraph,
          StartRun, AdvanceRun, RequestReview, MarkSourceNeedsReview, GraphEnds,
          WorkflowReturns, GraphRaises, HandlerRaises, ResetSourceEmailPending,
          MarkSourceEmailFailed, EmailStatus, FinalRun, FinalizeRun
  <1>6. \/ UNCHANGED run
        \/ \E s \in RunStatus : run' = [run EXCEPT ![x.op] = s]
    BY <1>2
    DEF Handler, ClaimSourceEmail, SkipSourceEmail, ReturnFinalRun, InvokeGraph,
        StartRun, AdvanceRun, RequestReview, MarkSourceNeedsReview, GraphEnds,
        WorkflowReturns, GraphRaises, HandlerRaises, ResetSourceEmailPending,
        MarkSourceEmailFailed, RunStatus, FinalRun, FinalizeRun
  <1> QED BY <1>1, <1>2, <1>4, <1>5, <1>6

LEMMA TrackedTypes ==
    ASSUME ETypeOK, TrackExecutions
    PROVE  at' \in [executions' -> Step]
  BY DEF ETypeOK, TrackExecutions, Step

LEMMA EmailTypeStep == ETypeOK /\ [ENext]_evars => ETypeOK'
  <1> SUFFICES ASSUME ETypeOK, [ENext]_evars PROVE ETypeOK'
    OBVIOUS
  <1>1. LeaseTypeOK'
    BY EmailStepIsLeaseStep, LeaseTypeStep DEF ETypeOK
  <1>2. ASSUME NEW x \in executions, Handler(x) PROVE ETypeOK'
    BY <1>1, <1>2, HandlerFrame DEF ETypeOK, leaseVars
  <1>3. CASE TrackExecutions /\ UNCHANGED <<email, run>>
    BY <1>1, <1>3, TrackedTypes DEF ETypeOK
  <1>4. CASE UNCHANGED evars
    BY <1>1, <1>4 DEF ETypeOK, evars, leaseVars
  <1> QED BY <1>2, <1>3, <1>4 DEF ENext

-----------------------------------------------------------------------------
(* What was once contended stays so.                                        *)

LEMMA RaisedGoesOn ==
    ASSUME ETypeOK, NEW x \in executions, Handler(x), at[x] \in Raised
    PROVE  at'[x] \in Raised
  BY DEF ETypeOK, Handler, Moves, ClaimSourceEmail, SkipSourceEmail, ReturnFinalRun,
         InvokeGraph, StartRun, AdvanceRun, RequestReview, MarkSourceNeedsReview, GraphEnds,
         WorkflowReturns, GraphRaises, HandlerRaises, ResetSourceEmailPending,
         MarkSourceEmailFailed, Raised

\* Under a step of the table the executions that go on stay where they are.
LEMMA TableFrame ==
    ASSUME ETypeOK, TableStep, TrackExecutions
    PROVE  /\ \A x \in executions' \cap executions : at'[x] = at[x]
           /\ \A x \in executions' \ executions : at'[x] = "claimed"
  BY DEF TrackExecutions

LEMMA DisturbedStays ==
    ASSUME ETypeOK, [ENext]_evars, NEW o \in Ops, Disturbed(o)
    PROVE  Disturbed(o)'
  <1> USE DEF Disturbed, Smooth, ETypeOK, LeaseTypeOK
  <1>1. ASSUME NEW x \in executions, Handler(x) PROVE Disturbed(o)'
    BY <1>1, HandlerFrame, RaisedGoesOn DEF leaseVars, Raised
  <1>2. ASSUME NEW p \in Ops, AcceptOperation(p) \/ Lapse(p), TrackExecutions
        PROVE  Disturbed(o)'
    BY <1>2 DEF AcceptOperation, Lapse, TrackExecutions
  <1>3. ASSUME NEW p \in Ops, NEW d \in 1 .. MaxDeliveries, ClaimOperation(p, d),
               TrackExecutions
        PROVE  Disturbed(o)'
    <2> DEFINE new == NextExecution(p, d)
    <2>1. new.op = p /\ executions' = executions \cup {new}
      BY <1>3 DEF ClaimOperation, NextExecution
    <2>2. /\ attempts'[p] = attempts[p] + 1 /\ status'[p] = "running"
          /\ \A q \in Ops : q # p => attempts'[q] = attempts[q] /\ status'[q] = status[q]
      BY <1>3 DEF ClaimOperation
    <2>3. \A x \in executions : at'[x] = at[x]
      BY <1>3, <2>1 DEF TrackExecutions
    <2> HIDE DEF new
    <2>4. CASE o = p
      BY <2>2, <2>4
    <2>5. CASE o # p
      BY <2>1, <2>2, <2>3, <2>5
    <2> QED BY <2>4, <2>5
  <1>4. ASSUME NEW x \in executions, Settle(x) \/ Crash(x), TrackExecutions
        PROVE  Disturbed(o)'
    <2>1. x.op \in Ops /\ executions' = executions \ {x} /\ UNCHANGED attempts
      BY <1>4 DEF Settle, CompleteOperation, RefuseOperation, ReleaseForRetry,
                  FailOperation, WriteOutcome, Crash, Execution
    <2>2. ~Smooth(o)' \/ attempts[o] # 1
      <3> SUFFICES ASSUME attempts[o] = 1 PROVE ~Smooth(o)'
        OBVIOUS
      <3>1. \A y \in executions' : y.op = o => at'[y] \in Raised
        BY <1>4, <2>1 DEF TrackExecutions, Raised
      <3>2. status'[o] # "succeeded"
        BY <1>4, <2>1
        DEF Settle, CompleteOperation, RefuseOperation, ReleaseForRetry, FailOperation,
            WriteOutcome, Crash
      <3> QED BY <3>1, <3>2 DEF Raised
    <2> QED BY <2>1, <2>2
  <1>5. CASE UNCHANGED evars
    BY <1>5 DEF evars, leaseVars
  <1> QED BY <1>1, <1>2, <1>3, <1>4, <1>5 DEF ENext, Admission

LEMMA OrderlyBefore ==
    ASSUME ETypeOK, [ENext]_evars, NEW e \in Emails, Orderly(e)'
    PROVE  Orderly(e)
  <1>1. overruns' = overruns \/ overruns' = overruns + 1
    BY EmailStepIsLeaseStep
    DEF LeaseNext, leaseVars, AcceptOperation, Lapse, ClaimOperation, CompleteOperation,
        RefuseOperation, ReleaseForRetry, FailOperation, WriteOutcome, Crash
  <1>2. \A o \in Ops : attempts[o] > 0 => attempts'[o] > 0
    BY EmailStepIsLeaseStep
    DEF LeaseNext, leaseVars, AcceptOperation, Lapse, ClaimOperation, CompleteOperation,
        RefuseOperation, ReleaseForRetry, FailOperation, WriteOutcome, Crash, ETypeOK,
        LeaseTypeOK
  <1> QED
    BY <1>1, <1>2, DisturbedStays DEF Orderly, Contended, ETypeOK, LeaseTypeOK

\* Two operations that execute for one orderly email are both in a first attempt that
\* has not raised.
SmoothBeside ==
    \A x, y \in executions :
        x # y /\ Target[x.op] = Target[y.op] /\ Orderly(Target[x.op])
        => x.op # y.op /\ x.attempt = 1 /\ at[x] \notin Raised

LEMMA Beside == ETypeOK /\ IInv => SmoothBeside
  <1> SUFFICES ASSUME ETypeOK, IInv, NEW x \in executions, NEW y \in executions, x # y,
                      Target[x.op] = Target[y.op], Orderly(Target[x.op])
               PROVE  x.op # y.op /\ x.attempt = 1 /\ at[x] \notin Raised
    BY DEF SmoothBeside
  <1>1. /\ x.op # y.op /\ x.op \in Ops /\ y.op \in Ops
        /\ attempts[x.op] = x.attempt /\ attempts[y.op] = y.attempt
        /\ x.attempt > 0 /\ y.attempt > 0 /\ status[x.op] = "running"
    BY DEF Orderly, IInv, LeaseInv, AsClaimed, LeaseTypeOK, Execution
  <1>2. Smooth(x.op)
    BY <1>1 DEF Orderly, Contended, Disturbed
  <1> QED BY <1>1, <1>2 DEF Smooth, IInv, LeaseInv, Orderly, Raised

LEMMA BesideAfter == ETypeOK' /\ IInv' => SmoothBeside'
  BY Beside, PTL

-----------------------------------------------------------------------------
(* One worker per orderly email.                                            *)

LEMMA HandlerKeepsExclusive ==
    ASSUME EmailInv, NEW x \in executions, Handler(x), ETypeOK', IInv'
    PROVE  EmailExclusive'
  <1>1. ASSUME NEW y \in executions, y # x, Target[y.op] = Target[x.op],
               Orderly(Target[x.op])', Working(x)', Working(y)'
        PROVE  FALSE
    <2>1. /\ UNCHANGED leaseVars /\ at'[y] = at[y] /\ Target[x.op] \in Emails
          /\ at'[x] \in Step
      BY <1>1, HandlerFrame DEF EmailInv, ETypeOK
    <2>2. Orderly(Target[x.op])
      BY <1>1, <2>1, OrderlyBefore DEF EmailInv, ENext
    <2>3. x.attempt = 1 /\ at[y] \notin Raised
      BY <1>1, <2>2, Beside DEF EmailInv, SmoothBeside
    <2>4. at'[x] \notin Raised
      <3>1. x \in executions' /\ y \in executions'
        BY <2>1 DEF leaseVars
      <3> QED BY <1>1, <3>1, BesideAfter DEF SmoothBeside
    <2>5. Working(y)
      BY <1>1, <2>1 DEF Working
    <2>6. at[x] = "claimed"
      BY <1>1, <2>2, <2>5, HandlerFrame DEF EmailInv, EmailExclusive, Working
    <2>7. ClaimSourceEmail(x)
      BY <1>1, <2>4, <2>6
      DEF Handler, Moves, ClaimSourceEmail, SkipSourceEmail, ReturnFinalRun, InvokeGraph,
          StartRun, AdvanceRun, RequestReview, MarkSourceNeedsReview, GraphEnds,
          WorkflowReturns, GraphRaises, HandlerRaises, ResetSourceEmailPending,
          MarkSourceEmailFailed, Working, Raised, EmailInv, ETypeOK
    <2>8. email[Target[x.op]] = "pending"
      BY <2>3, <2>7 DEF ClaimSourceEmail, ClaimableFrom, Recovers
    <2>9. at[y] \in Busy \cup {"ended"}
      BY <2>3, <2>5 DEF Working, Raised, Busy, EmailInv, ETypeOK, Step
    <2> QED BY <1>1, <2>2, <2>8, <2>9 DEF EmailInv, EmailHeld
  <1>2. executions' = executions
    BY HandlerFrame DEF EmailInv, leaseVars
  <1>3. ASSUME NEW y \in executions, NEW z \in executions, y # x, z # x, y # z,
               Target[y.op] = Target[z.op], Orderly(Target[y.op])', Working(y)', Working(z)'
        PROVE  FALSE
    <2>1. at'[y] = at[y] /\ at'[z] = at[z] /\ Target[y.op] \in Emails
      BY <1>3, HandlerFrame, TargetAssumption DEF EmailInv, ETypeOK, LeaseTypeOK, Execution
    <2>2. Orderly(Target[y.op])
      BY <1>3, <2>1, OrderlyBefore DEF EmailInv, ENext
    <2> QED BY <1>3, <2>1, <2>2 DEF EmailInv, EmailExclusive, Working
  <1> QED BY <1>1, <1>2, <1>3 DEF EmailExclusive

\* A step of the table starts no handler's work.
LEMMA TableKeepsExclusive ==
    ASSUME EmailInv, ENext, TableStep, TrackExecutions
    PROVE  EmailExclusive'
  <1> SUFFICES ASSUME NEW x \in executions', NEW y \in executions',
                      Target[x.op] = Target[y.op], Orderly(Target[x.op])',
                      Working(x)', Working(y)'
               PROVE  x = y
    BY DEF EmailExclusive
  <1>1. /\ x \in executions /\ at'[x] = at[x]
        /\ y \in executions /\ at'[y] = at[y]
    BY TableFrame DEF Working, EmailInv
  <1>2. Target[x.op] \in Emails
    BY <1>1, TargetAssumption DEF EmailInv, ETypeOK, LeaseTypeOK, Execution
  <1>3. Orderly(Target[x.op])
    BY <1>2, OrderlyBefore DEF EmailInv
  <1> QED BY <1>1, <1>3 DEF EmailInv, EmailExclusive, Working

-----------------------------------------------------------------------------
(* What an execution's stage says of its email.                             *)

\* The steps of a handler, on the email it works on.
LEMMA HandlerOnEmail ==
    ASSUME EmailInv, NEW x \in executions, Handler(x), Orderly(Target[x.op])
    PROVE  LET e == Target[x.op]
           IN  /\ at'[x] \in Busy => email'[e] = "processing"
               /\ at'[x] = "ended" => email'[e] \in {"processed", "ignored", "failed"}
               /\ at'[x] = "releasing" => email'[e] # "processing"
               /\ at'[x] = "closing" => email'[e] = "failed"
  <1> DEFINE e == Target[x.op]
  <1> USE DEF Moves, Busy
  <1>0. e \in Emails /\ at \in [executions -> Step] /\ email \in [Emails -> EmailStatus]
    BY HandlerFrame DEF EmailInv, ETypeOK
  <1>1. /\ at[x] \in Busy => email[e] = "processing"
        /\ at[x] = "ended" => email[e] \in {"processed", "ignored", "failed"}
    BY DEF EmailInv, EmailHeld
  <1> HIDE DEF e
  <1>2. CASE \/ SkipSourceEmail(x) \/ ReturnFinalRun(x) \/ MarkSourceNeedsReview(x)
             \/ WorkflowReturns(x) \/ GraphRaises(x) \/ HandlerRaises(x)
    BY <1>0, <1>2
    DEF SkipSourceEmail, ReturnFinalRun, MarkSourceNeedsReview, WorkflowReturns,
        GraphRaises, HandlerRaises
  <1>3. CASE ClaimSourceEmail(x) \/ InvokeGraph(x) \/ AdvanceRun(x) \/ RequestReview(x)
    BY <1>0, <1>1, <1>3 DEF ClaimSourceEmail, InvokeGraph, AdvanceRun, RequestReview, e
  <1>4. CASE StartRun(x)
    BY <1>0, <1>1, <1>4 DEF StartRun, e
  <1>5. ASSUME NEW outcome \in FinalRun, GraphEnds(x, outcome)
        PROVE  at'[x] = "ended" /\ email'[e] \in {"processed", "ignored", "failed"}
    BY <1>0, <1>5 DEF GraphEnds, FinalizeRun, FinalRun, EmailOutcome, e
  <1>6. CASE ResetSourceEmailPending(x)
    BY <1>0, <1>6 DEF ResetSourceEmailPending, e
  <1>7. CASE MarkSourceEmailFailed(x)
    BY <1>0, <1>7 DEF MarkSourceEmailFailed, e
  <1> QED BY <1>2, <1>3, <1>4, <1>5, <1>6, <1>7 DEF Handler, e

\* A handler that does not hold its email, before or after, leaves it alone.
LEMMA WriterWorks ==
    ASSUME ETypeOK, NEW x \in executions, Handler(x), email' # email
    PROVE  Working(x) \/ Working(x)'
  BY DEF ETypeOK, Handler, Moves, ClaimSourceEmail, SkipSourceEmail, ReturnFinalRun,
         InvokeGraph, StartRun, AdvanceRun, RequestReview, MarkSourceNeedsReview, GraphEnds,
         WorkflowReturns, GraphRaises, HandlerRaises, ResetSourceEmailPending,
         MarkSourceEmailFailed, Working

LEMMA HandlerKeepsHeld ==
    ASSUME EmailInv, NEW x \in executions, Handler(x), EmailExclusive'
    PROVE  EmailHeld'
  <1>1. executions' = executions
    BY HandlerFrame DEF EmailInv, leaseVars
  <1> SUFFICES ASSUME NEW y \in executions, Orderly(Target[y.op])', ~Working(y)' => FALSE
               PROVE  LET e == Target[y.op]
                      IN  /\ at'[y] \in Busy => email'[e] = "processing"
                          /\ at'[y] = "ended" => email'[e] \in {"processed", "ignored", "failed"}
                          /\ at'[y] = "releasing" => email'[e] # "processing"
                          /\ at'[y] = "closing" => email'[e] = "failed"
    BY <1>1 DEF EmailHeld, Working, Busy
  <1>2. Target[y.op] \in Emails
    BY TargetAssumption DEF EmailInv, ETypeOK, LeaseTypeOK, Execution
  <1>3. Orderly(Target[y.op])
    BY <1>2, OrderlyBefore DEF EmailInv, ENext
  <1>4. CASE y = x
    BY <1>3, <1>4, HandlerOnEmail
  <1>5. CASE y # x
    <2>1. at'[y] = at[y] /\ Working(y)
      BY <1>5, HandlerFrame DEF EmailInv, Working
    <2>2. email'[Target[y.op]] = email[Target[y.op]]
      <3>1. CASE Target[y.op] # Target[x.op]
        BY <1>2, <3>1, HandlerFrame DEF EmailInv
      <3>2. CASE Target[y.op] = Target[x.op]
        BY <1>1, <1>3, <1>5, <2>1, <3>2, WriterWorks DEF EmailInv, EmailExclusive
      <3> QED BY <3>1, <3>2
    <2> QED BY <1>3, <2>1, <2>2 DEF EmailInv, EmailHeld
  <1> QED BY <1>4, <1>5

LEMMA TableKeepsHeld ==
    ASSUME EmailInv, ENext, TableStep, TrackExecutions, UNCHANGED email
    PROVE  EmailHeld'
  <1>1. ASSUME NEW x \in executions', Orderly(Target[x.op])', at'[x] # "claimed"
        PROVE  x \in executions /\ at'[x] = at[x] /\ Orderly(Target[x.op])
    <2>1. x \in executions /\ at'[x] = at[x]
      BY <1>1, TableFrame DEF EmailInv
    <2>2. Target[x.op] \in Emails
      BY <2>1, TargetAssumption DEF EmailInv, ETypeOK, LeaseTypeOK, Execution
    <2> QED BY <1>1, <2>1, <2>2, OrderlyBefore DEF EmailInv
  <1> QED BY <1>1 DEF EmailHeld, EmailInv, Busy

-----------------------------------------------------------------------------
(* An email in PROCESSING has an owner.                                     *)

LEMMA HandlerKeepsOwned ==
    ASSUME EmailInv, NEW x \in executions, Handler(x)
    PROVE  ProcessingIsOwned'
  <1> SUFFICES ASSUME NEW e \in Emails, Orderly(e)', email'[e] = "processing"
               PROVE  \E o \in Ops : Target[o] = e /\ Owner(o)'
    BY DEF ProcessingIsOwned
  <1>1. /\ Orderly(e) /\ UNCHANGED leaseVars /\ x.op \in Ops
        /\ at \in [executions -> Step]
    BY OrderlyBefore, HandlerFrame DEF EmailInv, ENext, ETypeOK
  <1>2. status[x.op] = "running" /\ attempts[x.op] > 0
    BY <1>1 DEF EmailInv, ETypeOK, IInv, LeaseInv, Orderly, AsClaimed, LeaseTypeOK, Execution
  <1>3. \A y \in executions : y.op = x.op => y = x
    BY <1>1 DEF EmailInv, IInv, LeaseInv, Orderly
  <1>4. ASSUME NEW o \in Ops, o # x.op, Owner(o) PROVE Owner(o)'
    BY <1>1, <1>4, HandlerFrame
    DEF EmailInv, Owner, LeftBehind, Open, Idles, leaseVars
  <1>5. ASSUME ~Idles(x)' PROVE Owner(x.op)'
    BY <1>1, <1>2, <1>3, <1>5 DEF Owner, Open, leaseVars
  <1>6. CASE email[e] # "processing"
    <2>1. Target[x.op] = e
      BY <1>6, HandlerFrame DEF EmailInv
    <2>2. at'[x] \in {"assigned", "running"}
      BY <1>6, <1>1
      DEF Handler, Moves, ClaimSourceEmail, SkipSourceEmail, ReturnFinalRun, InvokeGraph,
          StartRun, AdvanceRun, RequestReview, MarkSourceNeedsReview, GraphEnds,
          WorkflowReturns, GraphRaises, HandlerRaises, ResetSourceEmailPending,
          MarkSourceEmailFailed, FinalizeRun, EmailOutcome, FinalRun, EmailInv, ETypeOK
    <2> QED BY <1>1, <1>5, <2>1, <2>2 DEF Idles
  <1>7. CASE email[e] = "processing"
    <2>1. PICK o \in Ops : Target[o] = e /\ Owner(o)
      BY <1>1, <1>7 DEF EmailInv, ProcessingIsOwned
    <2>2. CASE o # x.op
      BY <1>4, <2>1, <2>2
    <2>3. CASE o = x.op
      <3>1. ~Idles(x)
        BY <1>2, <2>1, <2>3 DEF Owner, LeftBehind
      <3>2. at[x] # "ended"
        BY <1>1, <1>7, <2>1, <2>3 DEF EmailInv, EmailHeld
      <3>3. ~MarkSourceNeedsReview(x)
        BY <2>1, <2>3 DEF MarkSourceNeedsReview, EmailInv, ETypeOK
      <3>4. ~SkipSourceEmail(x)
        <4>1. at[x] = "claimed" => x.attempt > 1
          BY <3>1 DEF Idles, EmailInv, ETypeOK, LeaseTypeOK, Execution
        <4> QED
          BY <1>7, <2>1, <2>3, <4>1 DEF SkipSourceEmail, ClaimableFrom, Recovers, Moves
      <3>5. at'[x] # "claimed" /\ (at'[x] = "returned" => ReturnFinalRun(x))
        BY <1>1, <3>2, <3>3, <3>4
        DEF Handler, Moves, ClaimSourceEmail, ReturnFinalRun, InvokeGraph,
            StartRun, AdvanceRun, RequestReview, GraphEnds, WorkflowReturns, GraphRaises,
            HandlerRaises, ResetSourceEmailPending, MarkSourceEmailFailed
      <3> QED BY <1>5, <2>1, <2>3, <3>5 DEF Idles, ReturnFinalRun
    <2> QED BY <2>2, <2>3
  <1> QED BY <1>6, <1>7

LEMMA TableKeepsOwned ==
    ASSUME EmailInv, ENext, TableStep, TrackExecutions, UNCHANGED <<email, run>>
    PROVE  ProcessingIsOwned'
  <1> SUFFICES ASSUME NEW e \in Emails, Orderly(e)', email'[e] = "processing"
               PROVE  \E o \in Ops : Target[o] = e /\ Owner(o)'
    BY DEF ProcessingIsOwned
  <1>1. Orderly(e) /\ overruns = 0 /\ email[e] = "processing"
    BY OrderlyBefore DEF EmailInv, Orderly
  <1>2. PICK o \in Ops : Target[o] = e /\ Owner(o)
    BY <1>1 DEF EmailInv, ProcessingIsOwned
  <1>3. \A x \in executions' \cap executions : Idles(x)' <=> Idles(x)
    BY TableFrame DEF EmailInv, Idles
  <1> USE DEF EmailInv, ETypeOK, LeaseTypeOK
  <1>4. ASSUME NEW p \in Ops, AcceptOperation(p) \/ Lapse(p) PROVE Owner(o)'
    <2>1. /\ executions' = executions /\ UNCHANGED attempts
          /\ status[o] # "absent" => status'[o] = status[o]
      BY <1>4 DEF AcceptOperation, Lapse
    <2> QED BY <1>2, <1>3, <2>1 DEF Owner, LeftBehind, Open
  <1>5. ASSUME NEW p \in Ops, NEW d \in 1 .. MaxDeliveries, ClaimOperation(p, d)
        PROVE  Owner(o)'
    <2> DEFINE new == NextExecution(p, d)
    <2>1. /\ new.op = p /\ new.attempt = attempts[p] + 1
          /\ executions' = executions \cup {new}
      BY <1>5 DEF ClaimOperation, NextExecution
    <2>2. /\ attempts'[p] = attempts[p] + 1 /\ status'[p] = "running"
          /\ status[p] \in {"queued", "running"}
          /\ \A q \in Ops : q # p => attempts'[q] = attempts[q] /\ status'[q] = status[q]
      BY <1>5 DEF ClaimOperation, Claimable
    <2> HIDE DEF new
    <2>3. CASE o # p
      BY <1>2, <1>3, <2>1, <2>2, <2>3 DEF Owner, LeftBehind, Open
    <2>4. CASE o = p
      <3>1. attempts[o] > 0 /\ \A x \in executions : x.op = o => ~Idles(x)
        BY <1>2, <2>2, <2>4 DEF Owner, LeftBehind
      <3>2. ASSUME NEW x \in executions', x \notin executions PROVE ~Idles(x)'
        <4>1. x.attempt > 1 /\ at'[x] = "claimed"
          BY <2>1, <2>4, <3>1, <3>2, TableFrame
        <4> QED BY <4>1 DEF Idles
      <3>3. \A x \in executions' : x.op = o => ~Idles(x)'
        <4> SUFFICES ASSUME NEW x \in executions', x.op = o PROVE ~Idles(x)'
          OBVIOUS
        <4>1. CASE x \in executions
          BY <1>3, <3>1, <4>1
        <4> QED BY <3>2, <4>1
      <3> QED BY <2>2, <2>4, <3>1, <3>3 DEF Owner, Open
    <2> QED BY <2>3, <2>4
  <1>6. ASSUME NEW x \in executions, Settle(x) \/ Crash(x) PROVE Owner(o)'
    <2>1. /\ x.op \in Ops /\ executions' = executions \ {x} /\ UNCHANGED attempts
          /\ \A p \in Ops : p # x.op => status'[p] = status[p]
      BY <1>6 DEF Settle, CompleteOperation, RefuseOperation, ReleaseForRetry,
                  FailOperation, WriteOutcome, Crash, Execution
    <2>2. CASE o # x.op
      BY <1>2, <1>3, <2>1, <2>2 DEF Owner, LeftBehind, Open
    <2>3. CASE o = x.op
      <3>1. status[o] = "running"
        BY <1>1, <2>3 DEF IInv, LeaseInv, AsClaimed
      <3>2. attempts[o] > 0 /\ \A y \in executions : y.op = o => ~Idles(y)
        BY <1>2, <3>1 DEF Owner, LeftBehind
      <3>3. ASSUME Open(o)' PROVE Owner(o)'
        BY <1>3, <2>1, <3>2, <3>3 DEF Owner
      <3>4. at[x] # "closing"
        BY <1>1, <1>2, <2>3 DEF EmailHeld
      <3>5. at[x] = "returned" => run[o] \in FinalRun
        BY <2>3, <3>2 DEF Idles
      <3>6. CASE CompleteOperation(x) /\ at[x] = "returned"
        BY <2>1, <2>3, <3>5, <3>6 DEF CompleteOperation, WriteOutcome, Owner, LeftBehind
      <3>7. CASE RefuseOperation(x) /\ MayPause
        BY <2>1, <2>3, <3>7 DEF RefuseOperation, WriteOutcome, Owner, LeftBehind
      <3>8. CASE ReleaseForRetry(x)
        BY <2>1, <2>3, <3>3, <3>8 DEF ReleaseForRetry, WriteOutcome, Open
      <3>9. CASE Crash(x)
        BY <3>1, <3>3, <3>9 DEF Crash, Open
      <3> QED BY <1>6, <3>4, <3>6, <3>7, <3>8, <3>9 DEF Settle
    <2> QED BY <2>2, <2>3
  <1> QED BY <1>2, <1>4, <1>5, <1>6 DEF TableStep, Admission

-----------------------------------------------------------------------------
(* The invariant of the email.                                              *)

LEMMA EmailInvInit == EInit => EmailInv
  <1> SUFFICES ASSUME EInit PROVE EmailInv
    OBVIOUS
  <1>1. IInv /\ executions = {}
    BY IInvInit DEF EInit, LeaseInit
  <1>2. ETypeOK
    BY <1>1 DEF EInit, ETypeOK, IInv, EmailStatus, RunStatus
  <1>3. EmailExclusive /\ EmailHeld /\ ProcessingIsOwned
    BY <1>1 DEF EInit, EmailExclusive, EmailHeld, ProcessingIsOwned
  <1> QED BY <1>1, <1>2, <1>3 DEF EmailInv

LEMMA EmailInvStep == EmailInv /\ [ENext]_evars => EmailInv'
  <1> SUFFICES ASSUME EmailInv, [ENext]_evars PROVE EmailInv'
    OBVIOUS
  <1>1. ETypeOK' /\ IInv'
    BY EmailTypeStep, EmailStepIsLeaseStep, IInvStep DEF EmailInv
  <1>2. CASE UNCHANGED evars
    BY <1>2, <1>1
    DEF evars, leaseVars, EmailInv, EmailExclusive, EmailHeld, ProcessingIsOwned, Orderly,
        Contended, Disturbed, Smooth, Working, Owner, LeftBehind, Open, Idles
  <1>3. ASSUME NEW x \in executions, Handler(x) PROVE EmailInv'
    BY <1>1, <1>3, HandlerKeepsExclusive, HandlerKeepsHeld, HandlerKeepsOwned DEF EmailInv
  <1>4. CASE ENext /\ TableStep /\ TrackExecutions /\ UNCHANGED <<email, run>>
    BY <1>1, <1>4, TableKeepsExclusive, TableKeepsHeld, TableKeepsOwned DEF EmailInv
  <1> QED BY <1>2, <1>3, <1>4 DEF ENext, TableStep

LEMMA EmailInvariant == ESpec => []EmailInv
  BY EmailInvInit, EmailInvStep, PTL DEF ESpec

-----------------------------------------------------------------------------
(* Theorems.                                                                *)

\* Whatever the handlers do, the operation table behaves as OperationLease says: what is
\* proved of the lease holds while emails are processed.
THEOREM EmailImplementsLease == ESpec => LeaseSpec
  <1>1. EInit => LeaseInit
    BY DEF EInit
  <1> QED BY <1>1, EmailStepIsLeaseStep, PTL DEF ESpec, LeaseSpec

\* Emails, runs and handlers are well typed.
THEOREM EmailTypes == ESpec => []ETypeOK
  <1>1. EmailInv => ETypeOK
    BY DEF EmailInv
  <1> QED BY <1>1, EmailInvariant, PTL

\* However many operations there are for an email, and whatever crashes and is repeated,
\* one execution at a time works on it, until two operations meet one of which was
\* disturbed.
THEOREM EmailIsExclusive == ESpec => []EmailExclusive
  <1>1. EmailInv => EmailExclusive
    BY DEF EmailInv
  <1> QED BY <1>1, EmailInvariant, PTL

\* No email is in PROCESSING without an operation that will move it on, but for the two
\* ways of LeftBehind.
THEOREM ProcessingOwned == ESpec => []ProcessingHasAnOwner
  <1>1. EmailInv => ProcessingHasAnOwner
    BY DEF EmailInv, ProcessingIsOwned, ProcessingHasAnOwner, Owner
  <1> QED BY <1>1, EmailInvariant, PTL

\* A retry never pulls a settled email back.
THEOREM SettledStays == ESpec => SettledEmailStays
  <1> DEFINE Stays ==
        \A e \in Emails :
            Orderly(e) /\ email[e] \in Settled
            => \/ email'[e] = email[e]
               \/ GivingUp(e) /\ email'[e] = "failed"
  <1>1. EmailInv /\ [ENext]_evars => [Stays]_evars
    <2> SUFFICES ASSUME EmailInv, ENext, NEW e \in Emails, Orderly(e),
                        email[e] \in Settled, email'[e] # email[e]
                 PROVE  GivingUp(e) /\ email'[e] = "failed"
      OBVIOUS
    <2>1. PICK x \in executions : Handler(x)
      BY DEF ENext
    <2>2. Target[x.op] = e /\ at \in [executions -> Step] /\ email \in [Emails -> EmailStatus]
      BY <2>1, HandlerFrame DEF EmailInv, ETypeOK
    <2>3. at[x] \notin Busy
      BY <2>2 DEF EmailInv, EmailHeld, Settled
    <2>4. (GraphRaises(x) /\ at[x] = "ended") \/ MarkSourceEmailFailed(x)
      BY <2>1, <2>2, <2>3
      DEF Handler, Moves, ClaimSourceEmail, ClaimableFrom, SkipSourceEmail, ReturnFinalRun,
          InvokeGraph, StartRun, AdvanceRun, RequestReview, MarkSourceNeedsReview,
          GraphEnds, WorkflowReturns, GraphRaises, HandlerRaises, ResetSourceEmailPending,
          Busy, Settled
    <2> QED
      BY <2>2, <2>4
      DEF GivingUp, GraphRaises, FinalizeRun, EmailOutcome, MarkSourceEmailFailed, Moves
  <1>2. ESpec => [][Stays]_evars
    BY <1>1, EmailInvariant, PTL DEF ESpec
  <1> QED BY <1>2 DEF SettledEmailStays

-----------------------------------------------------------------------------
(* The row of switches.                                                     *)

\* What a request shows or checks was read from a row, and while the version is the
\* same the switches are.
Seen ==
    \A u \in Users :
        user[u].at # "idle" =>
            /\ row \in Row /\ user[u].shown \in Row /\ user[u].read \in Row
            /\ user[u].shown.version <= row.version
            /\ user[u].shown.version = row.version => user[u].shown.on = row.on

\* A request that stores has a patch.
Patching ==
    \A u \in Users : user[u].at \in {"refilling", "storing"} => user[u].patch \in Patches

\* A request fills what was missing when it read.
Filling ==
    \A u \in Users :
        user[u].at \in {"filling", "refilling"} =>
            settings.recipient # None /\ user[u].read.recipient = None

ControlInv == CTypeOK /\ ControlReadable /\ Seen /\ Patching /\ Filling

\* The row that is read or created is well typed and readable.
LEMMA ExistingSound ==
    ASSUME CTypeOK, ControlReadable
    PROVE  /\ Existing \in Row /\ Sound(Existing)
           /\ row # None => Existing = row
  <1>1. /\ settings.on \in SUBSET Switches /\ settings.recipient \in Recipients \cup {None}
        /\ row \in Row \/ row = None
    BY DEF CTypeOK, Defaults
  <1>2. Created \in Row
    <2>1. 1 \in 1 .. MaxVersion  BY ControlAssumption
    <2>2. (IF "workflow" \in settings.on THEN settings.on ELSE settings.on \ {"calendar"})
             \in SUBSET Switches
      BY <1>1
    <2> QED  BY <1>1, <2>1, <2>2 DEF Created, Row
  <1>3. Sound(Created)  BY DEF Sound, Created
  <1>4. CASE row = None  BY <1>2, <1>3, <1>4 DEF Existing
  <1>5. CASE row # None  BY <1>1, <1>5 DEF Existing, ControlReadable
  <1> QED  BY <1>4, <1>5

\* Versions are numbers.
LEMMA RowVersions == ASSUME NEW r \in Row PROVE r.version \in Nat
  BY ControlAssumption DEF Row

\* A request that changes only itself, to a state the invariant admits, keeps it.
LEMMA OwnStep ==
    ASSUME ControlInv, NEW u \in Users, NEW n \in User,
           user' = [user EXCEPT ![u] = n], settings' = settings,
           row' \in Row, Sound(row'), row # None => row' = row,
           n.at # "idle" =>
              /\ n.shown \in Row /\ n.read \in Row /\ Sound(n.shown)
              /\ n.shown.version <= row'.version
              /\ n.shown.version = row'.version => n.shown.on = row'.on,
           n.at = "idle" => n.shown = None,
           n.at \in {"refilling", "storing"} => n.patch \in Patches,
           n.at \in {"filling", "refilling"} =>
              settings.recipient # None /\ n.read.recipient = None
    PROVE  ControlInv'
  <1>1. user \in [Users -> User] /\ \A v \in Users : user'[v] = IF v = u THEN n ELSE user[v]
    BY DEF ControlInv, CTypeOK
  <1>2. CTypeOK'  BY <1>1 DEF ControlInv, CTypeOK
  <1>3. ControlReadable'  BY <1>1 DEF ControlInv, ControlReadable
  <1>4. Seen'
    <2>1. SUFFICES ASSUME NEW v \in Users, user'[v].at # "idle"
                   PROVE  /\ row' \in Row /\ user'[v].shown \in Row /\ user'[v].read \in Row
                          /\ user'[v].shown.version <= row'.version
                          /\ user'[v].shown.version = row'.version
                                => user'[v].shown.on = row'.on
      BY DEF Seen
    <2>2. CASE v = u  BY <1>1, <2>1, <2>2
    <2>3. CASE v # u
      <3>1. user'[v] = user[v]  BY <1>1, <2>3
      <3>2. row \in Row  BY <2>1, <3>1 DEF ControlInv, Seen
      <3>3. row' = row  BY <3>2, NoneIsNoRow
      <3> QED  BY <2>1, <3>1, <3>3 DEF ControlInv, Seen
    <2> QED  BY <2>2, <2>3
  <1>5. Patching'  BY <1>1 DEF ControlInv, Patching
  <1>6. Filling'  BY <1>1 DEF ControlInv, Filling
  <1> QED  BY <1>2, <1>3, <1>4, <1>5, <1>6 DEF ControlInv

LEMMA ShowKeeps ==
    ASSUME ControlInv, NEW u \in Users, ShowControl(u) PROVE ControlInv'
  <1> DEFINE place == IF Fills(Existing) THEN "filling" ELSE "shown"
             n == [at |-> place, shown |-> Existing, read |-> Existing, patch |-> None]
  <1>1. Existing \in Row /\ Sound(Existing) /\ (row # None => Existing = row)
    BY ExistingSound DEF ControlInv
  <1>2. user' = [user EXCEPT ![u] = n] /\ row' = Existing /\ settings' = settings
    BY DEF ShowControl, ReadControl
  <1>3. n \in User  BY <1>1 DEF User
  <1>4. Existing.version <= Existing.version  BY <1>1, RowVersions
  <1>5. /\ n.shown = Existing /\ n.read = Existing /\ n.at \in {"filling", "shown"}
        /\ n.at = "filling" => settings.recipient # None /\ Existing.recipient = None
    BY DEF Fills
  <1> HIDE DEF n
  <1> QED
    BY <1>1, <1>2, <1>3, <1>4, <1>5, OwnStep

LEMMA SubmitKeeps ==
    ASSUME ControlInv, NEW u \in Users, SubmitPatch(u) PROVE ControlInv'
  <1> DEFINE place == IF Fills(Existing) THEN "refilling" ELSE "storing"
  <1>1. PICK p \in Patches : ReadControl(u, place, user[u].shown, p)
    BY DEF SubmitPatch
  <1> DEFINE n == [at |-> place, shown |-> user[u].shown, read |-> Existing, patch |-> p]
  <1>2. user[u] \in User /\ user[u].at = "shown"  BY DEF ControlInv, CTypeOK, SubmitPatch
  <1>3. Existing \in Row /\ Sound(Existing) /\ (row # None => Existing = row)
    BY ExistingSound DEF ControlInv
  <1>4. user' = [user EXCEPT ![u] = n] /\ row' = Existing /\ settings' = settings
    BY <1>1 DEF ReadControl
  <1>5. /\ user[u].shown \in Row /\ row \in Row
        /\ user[u].shown.version <= row.version
        /\ user[u].shown.version = row.version => user[u].shown.on = row.on
    BY <1>2 DEF ControlInv, Seen
  <1>6. row' = row  BY <1>3, <1>4, <1>5, NoneIsNoRow
  <1>7. Sound(user[u].shown)  BY <1>5, NoneIsNoRow DEF ControlInv, ControlReadable
  <1>8. n \in User  BY <1>3, <1>5 DEF User
  <1>9. /\ n.shown = user[u].shown /\ n.read = Existing /\ n.patch = p
        /\ n.at \in {"refilling", "storing"}
        /\ n.at = "refilling" => settings.recipient # None /\ Existing.recipient = None
    BY DEF Fills
  <1> HIDE DEF n
  <1> QED
    BY <1>3, <1>4, <1>5, <1>6, <1>7, <1>8, <1>9, OwnStep

\* The fill changes the recipient of the row and of what was read, not the switches.
LEMMA FillKeeps ==
    ASSUME ControlInv, NEW u \in Users, FillRecipient(u) PROVE ControlInv'
  <1>1. /\ user \in [Users -> User] /\ user[u] \in User /\ settings \in Defaults
        /\ user[u].at \in {"filling", "refilling"}
        /\ row \in Row /\ user[u].shown \in Row /\ user[u].read \in Row
        /\ settings' = settings /\ settings.recipient \in Recipients \cup {None}
    BY DEF ControlInv, CTypeOK, Seen, FillRecipient, Defaults
  <1> DEFINE shown == IF user[u].at = "filling" THEN Filled(user[u].shown) ELSE user[u].shown
             read == Filled(user[u].read)
             place == IF user[u].at = "filling" THEN "shown" ELSE "storing"
             n == [at |-> place, shown |-> shown, read |-> read, patch |-> user[u].patch]
  <1>2. row' \in Row /\ row'.on = row.on /\ row'.version = row.version /\ row' # None
    BY <1>1, NoneIsNoRow DEF FillRecipient, Filled, Row
  <1>3. shown \in Row /\ shown.on = user[u].shown.on /\ shown.version = user[u].shown.version
    BY <1>1 DEF Filled, Row
  <1>4. read \in Row  BY <1>1 DEF Filled, Row
  <1>5. n \in User  BY <1>1, <1>3, <1>4 DEF User
  <1>6. \A v \in Users : user'[v] = IF v = u THEN n ELSE user[v]
    BY <1>1 DEF FillRecipient
  <1>7. user' \in [Users -> User]  BY <1>1, <1>5 DEF FillRecipient
  <1>8. /\ n.at \in {"shown", "storing"} /\ n.shown = shown /\ n.read = read
        /\ n.patch = user[u].patch
        /\ n.at = "storing" => user[u].at = "refilling"
    BY <1>1
  <1> HIDE DEF n, shown, read
  <1>9. CTypeOK'  BY <1>1, <1>2, <1>7 DEF CTypeOK
  <1>10. ControlReadable'
    BY <1>1, <1>2, <1>3, <1>6, <1>8, NoneIsNoRow DEF ControlInv, ControlReadable, Sound
  <1>11. Seen'
    BY <1>1, <1>2, <1>3, <1>4, <1>6, <1>8 DEF ControlInv, Seen
  <1>12. Patching'  BY <1>1, <1>6, <1>8 DEF ControlInv, Patching
  <1>13. Filling'  BY <1>1, <1>6, <1>8 DEF ControlInv, Filling
  <1> QED  BY <1>9, <1>10, <1>11, <1>12, <1>13 DEF ControlInv

\* A request that ends leaves the row and the others alone.
LEMMA EndKeeps ==
    ASSUME ControlInv, NEW u \in Users, Leave(u) \/ RefusePatch(u) PROVE ControlInv'
  <1>1. /\ user[u].at # "idle" /\ user' = [user EXCEPT ![u] = Idle]
        /\ settings' = settings /\ row' = row
    BY DEF Leave, RefusePatch
  <1>2. row \in Row /\ Sound(row)
    BY <1>1, NoneIsNoRow DEF ControlInv, Seen, ControlReadable
  <1>3. Idle \in User /\ Idle.at = "idle" /\ Idle.shown = None  BY DEF Idle, User
  <1> QED  BY <1>1, <1>2, <1>3, OwnStep

\* A patch gives the row a version no request has seen.
LEMMA StoreKeeps ==
    ASSUME ControlInv, NEW u \in Users, StorePatch(u) PROVE ControlInv'
  <1>1. /\ user \in [Users -> User] /\ user[u].at = "storing" /\ user[u].patch \in Patches
        /\ row \in Row /\ settings' = settings /\ settings \in Defaults
        /\ user' = [user EXCEPT ![u] = Idle]
        /\ row' = Patched(row, user[u].patch) /\ Sound(row') /\ row.version < MaxVersion
    BY DEF ControlInv, CTypeOK, Seen, Patching, StorePatch
  <1>2. row' \in Row /\ row'.version = row.version + 1 /\ row.version \in Nat
    <2>1. row.version \in Nat /\ row.version + 1 \in 1 .. MaxVersion
      BY <1>1, ControlAssumption DEF Row
    <2> QED  BY <1>1, <2>1 DEF Row, Patched, Patches
  <1>3. Idle \in User /\ Idle.at = "idle" /\ Idle.shown = None  BY DEF Idle, User
  <1>4. \A v \in Users : user'[v] = IF v = u THEN Idle ELSE user[v]  BY <1>1
  <1>5. CTypeOK'  BY <1>1, <1>2, <1>3 DEF CTypeOK
  <1>6. ControlReadable'  BY <1>1, <1>3, <1>4 DEF ControlInv, ControlReadable
  <1>7. Seen'
    <2>1. SUFFICES ASSUME NEW v \in Users, user'[v].at # "idle"
                   PROVE  /\ user'[v].shown \in Row /\ user'[v].read \in Row
                          /\ user'[v].shown.version < row'.version
      BY <1>2, RowVersions DEF Seen
    <2>2. user'[v] = user[v]  BY <1>3, <1>4, <2>1
    <2> QED  BY <1>2, <2>1, <2>2, RowVersions DEF ControlInv, Seen
  <1>8. Patching'  BY <1>3, <1>4 DEF ControlInv, Patching
  <1>9. Filling'  BY <1>1, <1>3, <1>4 DEF ControlInv, Filling
  <1> QED  BY <1>5, <1>6, <1>7, <1>8, <1>9 DEF ControlInv

LEMMA InitControl == CInit => ControlInv
  <1> SUFFICES ASSUME CInit PROVE ControlInv  OBVIOUS
  <1>1. settings \in Defaults /\ \A u \in Users : user[u] = Idle  BY DEF CInit
  <1>2. row \in Row \cup {None} /\ (row # None => Sound(row))
    BY ControlAssumption DEF CInit, Row
  <1>3. Idle \in User /\ Idle.at = "idle" /\ Idle.shown = None  BY DEF Idle, User
  <1>4. user \in [Users -> User]  BY <1>3 DEF CInit
  <1> QED
    BY <1>1, <1>2, <1>3, <1>4
    DEF ControlInv, CTypeOK, ControlReadable, Seen, Patching, Filling

LEMMA NextControl == ControlInv /\ [CNext]_cvars => ControlInv'
  <1> SUFFICES ASSUME ControlInv, [CNext]_cvars PROVE ControlInv'  OBVIOUS
  <1>1. CASE UNCHANGED cvars
    BY <1>1 DEF cvars, ControlInv, CTypeOK, ControlReadable, Seen, Patching, Filling
  <1>2. ASSUME NEW u \in Users, UserStep(u) PROVE ControlInv'
    BY <1>2, ShowKeeps, SubmitKeeps, FillKeeps, EndKeeps, StoreKeeps DEF UserStep
  <1> QED  BY <1>1, <1>2 DEF CNext

LEMMA ControlInvariant == CSpec => []ControlInv
  BY InitControl, NextControl, PTL DEF CSpec

\* Rows and requests are well typed, whatever the numbers of requests and versions.
THEOREM ControlTypes == CSpec => []CTypeOK
  <1>1. ControlInv => CTypeOK  BY DEF ControlInv
  <1> QED  BY <1>1, ControlInvariant, PTL

\* Calendar writes never stand without workflow processing (RuntimeControl), in the
\* row or in what a request was shown.
THEOREM ControlStaysReadable == CSpec => []ControlReadable
  <1>1. ControlInv => ControlReadable  BY DEF ControlInv
  <1> QED  BY <1>1, ControlInvariant, PTL

\* Only the request that stores its patch turns from storing to idle with a new row.
LEMMA StoringStep ==
    ASSUME ControlInv, CNext, NEW u \in Users, Stores(u)
    PROVE  StorePatch(u)
  <1>1. PICK v \in Users : UserStep(v)  BY DEF CNext
  <1>2. user \in [Users -> User] /\ user[u].at = "storing" /\ user'[u].at = "idle" /\ row' # row
    BY DEF Stores, ControlInv, CTypeOK
  <1>3. CASE v # u
    <2>1. user'[u] = user[u]
      BY <1>1, <1>2, <1>3
      DEF UserStep, ShowControl, SubmitPatch, ReadControl, FillRecipient, Leave, StorePatch, RefusePatch
    <2> QED  BY <1>2, <2>1
  <1>4. CASE v = u
    BY <1>1, <1>2, <1>4
    DEF UserStep, ShowControl, SubmitPatch, FillRecipient, Leave, RefusePatch
  <1> QED  BY <1>3, <1>4

\* A stored patch changes what it names of what its administrator saw (expected_version).
THEOREM PatchesStandOnSeen == CSpec => PatchOnSeen
  <1> DEFINE OnSeen == \A u \in Users :
        Stores(u) => row'.on = (user[u].shown.on \cup user[u].patch.on) \ user[u].patch.off
  <1>1. ControlInv /\ [CNext]_cvars => [OnSeen]_cvars
    <2> SUFFICES ASSUME ControlInv, CNext, NEW u \in Users, Stores(u)
                 PROVE  row'.on = (user[u].shown.on \cup user[u].patch.on) \ user[u].patch.off
      OBVIOUS
    <2>1. StorePatch(u)  BY StoringStep
    <2>2. row.version = user[u].shown.version /\ user[u].at = "storing"
      BY <2>1 DEF StorePatch, Current
    <2>3. user[u].shown.on = row.on  BY <2>2 DEF ControlInv, Seen
    <2> QED  BY <2>1, <2>3 DEF StorePatch, Patched
  <1> QED  BY <1>1, ControlInvariant, PTL DEF CSpec, PatchOnSeen

\* A recipient is changed by a patch that names one, or by a fill that read none.
THEOREM RecipientsStand == CSpec => RecipientStands
  <1> DEFINE Stands ==
        (row # None /\ row.recipient # None /\ row'.recipient # row.recipient)
          => \E u \in Users : \/ Stores(u) /\ user[u].patch.recipient # None
                              \/ user[u].at \in {"filling", "refilling"}
                                 /\ user[u].read.recipient = None
  <1>1. ControlInv /\ [CNext]_cvars => [Stands]_cvars
    <2> SUFFICES ASSUME ControlInv, CNext, row # None, row.recipient # None,
                        row'.recipient # row.recipient
                 PROVE  \E u \in Users : \/ Stores(u) /\ user[u].patch.recipient # None
                                         \/ user[u].at \in {"filling", "refilling"}
                                            /\ user[u].read.recipient = None
      OBVIOUS
    <2>1. PICK u \in Users : UserStep(u)  BY DEF CNext
    <2>2. ~ShowControl(u) /\ ~SubmitPatch(u) /\ ~Leave(u) /\ ~RefusePatch(u)
      BY DEF ShowControl, SubmitPatch, ReadControl, Existing, Leave, RefusePatch
    <2>3. CASE FillRecipient(u)
      BY <2>3 DEF FillRecipient, ControlInv, Filling
    <2>4. CASE StorePatch(u)
      <3>1. user \in [Users -> User] /\ user'[u] = Idle /\ user[u].at = "storing"
        BY <2>4 DEF StorePatch, ControlInv, CTypeOK
      <3>2. Stores(u)  BY <3>1 DEF Stores, Idle
      <3>3. user[u].patch.recipient # None  BY <2>4 DEF StorePatch, Patched
      <3> QED  BY <3>2, <3>3
    <2> QED  BY <2>1, <2>2, <2>3, <2>4 DEF UserStep
  <1> QED  BY <1>1, ControlInvariant, PTL DEF CSpec, RecipientStands
=============================================================================
