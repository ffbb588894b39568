--------------------------- MODULE PendingDrainProofs ---------------------------
(***************************************************************************)
(* Proofs about PendingDrain, for any emails, any number of drains and any *)
(* budget: the types, that drains which do not list at the same time leave *)
(* an email at most one open operation, that without a failed execution    *)
(* one operation at a time works on an email even when they do, and that a *)
(* drain which completes leaves none of the mail that waited for it.       *)
(***************************************************************************)
EXTENDS PendingDrain, FiniteSetTheorems, WellFoundedInduction, TLAPS

\* A batch is in hand only while its operations are created, within the budget.
Counted ==
    \A d \in Drains :
        /\ drain[d].at = "creating" => drain[d].batch # {}
        /\ drain[d].at \in {"reclaiming", "listing", "creating"} => drain[d].batches < MaxBatches

\* While nothing fails, an attempt is the first, and who works has claimed the email.
FirstAttempts ==
    faults = 0 =>
        \A d \in Drains, e \in Emails :
            /\ ~child[d][e].again
            /\ child[d][e].at = "working" => email[e] = "processing"

\* Without overlap one drain has a batch, and nobody else an operation for its emails.
Disjoint ==
    ~overlapped =>
        \A c, d \in Drains : c # d =>
            /\ drain[c].batch = {} \/ drain[d].batch = {}
            /\ \A e \in drain[d].batch : ~OpenChild(c, e)

DrainInv == TypeOK /\ Counted /\ FirstAttempts /\ OneWorker /\ Disjoint /\ OneOpenChild

LEMMA DrainFields ==
    ASSUME TypeOK, NEW d \in Drains
    PROVE  /\ drain[d] \in Drain
           /\ NoDrain \in Drain /\ ClosedDrain \in Drain
           /\ [NoDrain EXCEPT !.at = "reclaiming", !.next = drain[d].next] \in Drain
           /\ [NoDrain EXCEPT !.at = "queued", !.next = drain[d].next] \in Drain
  <1>1. drain[d] \in Drain
    BY DEF TypeOK
  <1>2. drain[d].next \in Drains \cup {None}
    BY <1>1 DEF Drain
  <1>3. 0 \in 0 .. MaxBatches
    BY DrainAssumption
  <1>4. NoDrain \in Drain
    BY <1>3 DEF NoDrain, Drain
  <1> HIDE DEF NoDrain
  <1>5. ClosedDrain \in Drain
    BY <1>4 DEF ClosedDrain, Drain
  <1>6. [NoDrain EXCEPT !.at = "reclaiming", !.next = drain[d].next] \in Drain
    BY <1>2, <1>4 DEF Drain
  <1>7. [NoDrain EXCEPT !.at = "queued", !.next = drain[d].next] \in Drain
    BY <1>2, <1>4 DEF Drain
  <1> QED  BY <1>1, <1>4, <1>5, <1>6, <1>7

\* A drain that only moves on.
Onward(x, y) ==
    /\ y \in Drain /\ y.at \in {"queued", "completing"}
    /\ y.batch = x.batch /\ y.batches = x.batches

LEMMA OnwardFields ==
    ASSUME NEW x \in Drain, NEW n \in Drains
    PROVE  /\ Onward(x, [x EXCEPT !.at = "queued"])
           /\ Onward(x, [x EXCEPT !.at = "completing"])
           /\ Onward(x, [x EXCEPT !.at = "completing", !.next = n])
  BY DEF Onward, Drain

LEMMA DrainInit == Init => DrainInv
  <1> SUFFICES ASSUME Init PROVE DrainInv
    OBVIOUS
  <1>1. TypeOK
    <2>1. {workflow, overlapped} \subseteq BOOLEAN
      BY Zenon DEF Init
    <2> QED
      BY <2>1, DrainAssumption
         DEF Init, TypeOK, EmailStatus, Drain, NoDrain, Child, NoChild
  <1>2. Counted
    BY DEF Init, Counted, NoDrain
  <1>3. FirstAttempts /\ OneWorker
    BY DEF Init, FirstAttempts, OneWorker, NoChild
  <1>4. Disjoint /\ OneOpenChild
    BY DEF Init, Disjoint, OneOpenChild, OpenChild, NoChild, NoDrain
  <1> QED  BY <1>1, <1>2, <1>3, <1>4 DEF DrainInv

-----------------------------------------------------------------------------
(* What a step may do to the parts of the invariant.                        *)

\* No child is opened, and none takes its email up.
ChildrenRest ==
    \A d \in Drains, e \in Emails :
        /\ OpenChild(d, e)' => OpenChild(d, e)
        /\ child'[d][e].at = "working" => child[d][e].at = "working"
        /\ child'[d][e].again => child[d][e].again \/ faults' # 0

\* No email that is worked on loses its status, and no drain gets a batch.
EmailsRest ==
    \A e \in Emails : email[e] = "processing" => email'[e] = "processing"

BatchesRest == \A d \in Drains : drain'[d].batch \subseteq drain[d].batch

LEMMA QuietStep ==
    ASSUME DrainInv, ChildrenRest, EmailsRest \/ faults' # 0, BatchesRest,
           overlapped' = overlapped, faults' = 0 => faults = 0
    PROVE  FirstAttempts' /\ OneWorker' /\ Disjoint' /\ OneOpenChild'
  <1>1. FirstAttempts'
    BY DEF DrainInv, FirstAttempts, ChildrenRest, EmailsRest
  <1>2. OneWorker'
    BY DEF DrainInv, OneWorker, ChildrenRest
  <1>3. Disjoint'
    <2> SUFFICES ASSUME ~overlapped, NEW c \in Drains, NEW d \in Drains, c # d
                 PROVE  /\ drain'[c].batch = {} \/ drain'[d].batch = {}
                        /\ \A e \in drain'[d].batch : ~OpenChild(c, e)'
      BY DEF Disjoint
    <2>1. /\ drain[c].batch = {} \/ drain[d].batch = {}
          /\ \A e \in drain[d].batch : ~OpenChild(c, e)
      BY DEF DrainInv, Disjoint
    <2>2. drain[d].batch \subseteq Emails
      BY DEF DrainInv, TypeOK, Drain
    <2> QED  BY <2>1, <2>2 DEF ChildrenRest, BatchesRest
  <1>4. OneOpenChild'
    BY DEF DrainInv, OneOpenChild, ChildrenRest
  <1> QED  BY <1>1, <1>2, <1>3, <1>4

\* The emails, the switch and what waits for the timer.
LEMMA OutsideStep ==
    ASSUME DrainInv,
           \/ \E e \in Emails : AnswerReview(e) \/ OrphanReview(e)
           \/ Pause \/ Resume
    PROVE  DrainInv'
  <1>1. TypeOK'
    <2>1. {workflow', overlapped'} \subseteq BOOLEAN
      BY Zenon DEF DrainInv, TypeOK, AnswerReview, OrphanReview, Pause, Resume
    <2> QED
      BY <2>1, DrainAssumption
         DEF DrainInv, TypeOK, AnswerReview, OrphanReview, SetEmail, Pause, Resume, EmailStatus
  <1>2. Counted'
    BY DEF DrainInv, Counted, AnswerReview, OrphanReview, Pause, Resume
  <1>3. ChildrenRest /\ BatchesRest
    BY DEF ChildrenRest, BatchesRest, OpenChild, AnswerReview, OrphanReview, Pause, Resume
  <1>4. EmailsRest
    BY DEF DrainInv, TypeOK, EmailsRest, AnswerReview, OrphanReview, SetEmail, Pause, Resume
  <1>5. overlapped' = overlapped /\ (faults' = 0 => faults = 0)
    BY DEF DrainInv, TypeOK, AnswerReview, OrphanReview, Pause, Resume
  <1> QED  BY <1>1, <1>2, <1>3, <1>4, <1>5, QuietStep DEF DrainInv

\* A drain is submitted, admitted, refused, continued, closed or dies.
LEMMA DrainStepQuiet ==
    ASSUME DrainInv, NEW d \in Drains,
           \/ SubmitDrain(d) \/ ForgetDrain(d) \/ AdmitDrain(d) \/ RefuseDrain(d)
           \/ ContinueDrain(d) \/ CompleteDrain(d) \/ DrainFails(d)
    PROVE  DrainInv'
  <1>0. TypeOK
    BY DEF DrainInv
  <1> DEFINE Fresh == {NoDrain, ClosedDrain,
                       [NoDrain EXCEPT !.at = "reclaiming", !.next = drain[d].next],
                       [NoDrain EXCEPT !.at = "queued", !.next = drain[d].next]}
             Moved(c) == /\ drain'[c] \in Drain
                         /\ drain'[c] = drain[c] \/ drain'[c] \in Fresh \/ Onward(drain[c], drain'[c])
  <1>1. \A c \in Drains : Moved(c)
    <2>f. /\ drain[d] \in Drain /\ d \in DOMAIN drain
          /\ Onward(drain[d], [drain[d] EXCEPT !.at = "queued"])
          /\ Onward(drain[d], [drain[d] EXCEPT !.at = "completing"])
          /\ \A c \in Drains : drain[c] \in Drain
      BY <1>0, OnwardFields DEF TypeOK
    <2> HIDE DEF Fresh
    <2>0. ASSUME NEW x, drain' = [drain EXCEPT ![d] = x],
                 x \in Drain, x \in Fresh \/ Onward(drain[d], x)
          PROVE  \A c \in Drains : Moved(c)
      BY <2>0, <2>f DEF Moved
    <2>1. CASE SubmitDrain(d)
      BY <2>0, <2>1, <2>f DEF SubmitDrain, Moves, Onward
    <2>2. CASE ForgetDrain(d) \/ AdmitDrain(d) \/ RefuseDrain(d) \/ CompleteDrain(d) \/ DrainFails(d)
      <3>1. PICK x \in Fresh : drain' = [drain EXCEPT ![d] = x]
        BY <2>2 DEF Fresh, ForgetDrain, AdmitDrain, RefuseDrain, CompleteDrain, DrainFails
      <3>2. x \in Drain
        BY <1>0, <3>1, DrainFields DEF Fresh
      <3> QED  BY <2>0, <3>1, <3>2
    <2>3. CASE ContinueDrain(d)
      <3>1. CASE drain' = [drain EXCEPT ![d] = ClosedDrain]
        BY <1>0, <2>0, <3>1, DrainFields DEF Fresh
      <3>2. CASE drain' = [drain EXCEPT ![d].at = "completing"]
        BY <2>0, <2>f, <3>2 DEF Onward
      <3>3. ASSUME NEW n \in Free,
                   drain' = [drain EXCEPT ![d].at = "completing", ![d].next = n,
                                          ![n].at = "queued"]
            PROVE  \A c \in Drains : Moved(c)
        <4>1. n \in Drains /\ n # d
          BY <2>3, <3>3 DEF Free, ContinueDrain
        <4>2. /\ Onward(drain[d], [drain[d] EXCEPT !.at = "completing", !.next = n])
              /\ Onward(drain[n], [drain[n] EXCEPT !.at = "queued"])
          BY <2>f, <4>1, OnwardFields
        <4>3. /\ drain'[d] = [drain[d] EXCEPT !.at = "completing", !.next = n]
              /\ drain'[n] = [drain[n] EXCEPT !.at = "queued"]
              /\ \A c \in Drains \ {d, n} : drain'[c] = drain[c]
          BY <1>0, <3>3, <4>1 DEF TypeOK
        <4> QED  BY <2>f, <4>2, <4>3 DEF Moved, Onward
      <3> QED  BY <2>3, <3>1, <3>2, <3>3 DEF ContinueDrain
    <2> QED  BY <2>1, <2>2, <2>3
  <1>2. \A c \in Drains : drain'[c].batch \subseteq drain[c].batch
            /\ (drain'[c] = drain[c]
                \/ drain'[c].at \notin {"reclaiming", "listing", "creating"}
                \/ (drain'[c].at = "reclaiming" /\ drain'[c].batches = 0))
    <2> SUFFICES ASSUME NEW c \in Drains
                 PROVE  drain'[c].batch \subseteq drain[c].batch
                     /\ (drain'[c] = drain[c]
                         \/ drain'[c].at \notin {"reclaiming", "listing", "creating"}
                         \/ (drain'[c].at = "reclaiming" /\ drain'[c].batches = 0))
      OBVIOUS
    <2>1. \A x \in Fresh : x.batch = {} /\ x.batches = 0
                          /\ x.at \notin {"listing", "creating"}
      <3>1. NoDrain.batch = {} /\ NoDrain.batches = 0 /\ NoDrain.at = "free"
        BY DEF NoDrain
      <3>2. /\ ClosedDrain.batch = {} /\ ClosedDrain.batches = 0 /\ ClosedDrain.at = "closed"
            /\ \A at \in {"reclaiming", "queued"}, n \in {drain[d].next} :
                  LET x == [NoDrain EXCEPT !.at = at, !.next = n]
                  IN  x.batch = {} /\ x.batches = 0 /\ x.at = at
        BY DEF ClosedDrain, NoDrain
      <3> SUFFICES ASSUME NEW x \in Fresh
                   PROVE  x.batch = {} /\ x.batches = 0 /\ x.at \notin {"listing", "creating"}
        OBVIOUS
      <3>3. CASE x \in {NoDrain, ClosedDrain}
        BY <3>1, <3>2, <3>3
      <3>4. CASE x = [NoDrain EXCEPT !.at = "reclaiming", !.next = drain[d].next]
        BY <3>2, <3>4
      <3>5. CASE x = [NoDrain EXCEPT !.at = "queued", !.next = drain[d].next]
        BY <3>2, <3>5
      <3> QED  BY <3>3, <3>4, <3>5
    <2>2. CASE drain'[c] = drain[c]
      BY <2>2
    <2>3. CASE drain'[c] \in Fresh
      <3> HIDE DEF Fresh
      <3> QED  BY <2>1, <2>3
    <2>4. CASE Onward(drain[c], drain'[c])
      BY <2>4 DEF Onward
    <2> QED  BY <1>1, <2>2, <2>3, <2>4
  <1>3. child' = child \/ child' = [child EXCEPT ![d] = [e \in Emails |-> NoChild]]
    BY DEF SubmitDrain, ForgetDrain, AdmitDrain, RefuseDrain, ContinueDrain, CompleteDrain,
           DrainFails
  <1>4. /\ UNCHANGED <<email, workflow, pauses, overlapped>>
        /\ faults' \in {faults, faults + 1} /\ faults' \in 0 .. MaxFaults
    <2>1. UNCHANGED <<email, workflow, pauses, overlapped>>
          /\ (faults' = faults \/ (faults < MaxFaults /\ faults' = faults + 1))
      BY DEF SubmitDrain, ForgetDrain, AdmitDrain, RefuseDrain, ContinueDrain, CompleteDrain,
             DrainFails
    <2>2. faults \in 0 .. MaxFaults /\ MaxFaults \in Nat
      BY <1>0, DrainAssumption DEF TypeOK
    <2> QED  BY <2>1, <2>2
  <1>5. waited' \in [Drains -> SUBSET Emails]
    <2>1. Waiting \subseteq Emails
      BY DEF Waiting
    <2>2. waited' = waited \/ \E S \in {{}, Waiting, waited[d]} : waited' = [waited EXCEPT ![d] = S]
      BY DEF SubmitDrain, ForgetDrain, AdmitDrain, RefuseDrain, ContinueDrain, CompleteDrain,
             DrainFails
    <2> QED  BY <1>0, <2>1, <2>2 DEF TypeOK
  <1>6. drain' \in [Drains -> Drain]
    <2>1. DOMAIN drain' = Drains /\ drain' = [c \in DOMAIN drain' |-> drain'[c]]
      BY <1>0
         DEF TypeOK, SubmitDrain, Moves, ForgetDrain, AdmitDrain, RefuseDrain, ContinueDrain,
             CompleteDrain, DrainFails
    <2> QED  BY <1>1, <2>1
  <1>7. child' \in [Drains -> [Emails -> Child]]
    <2>1. NoChild \in Child
      BY DEF NoChild, Child
    <2>2. [e \in Emails |-> NoChild] \in [Emails -> Child]
      BY <2>1
    <2> QED  BY <1>0, <1>3, <2>2 DEF TypeOK
  <1>8. TypeOK'
    <2>1. {workflow', overlapped'} \subseteq BOOLEAN
      BY <1>0, <1>4, Zenon DEF TypeOK
    <2> QED  BY <1>0, <1>4, <1>5, <1>6, <1>7, <2>1 DEF TypeOK
  <1>9. Counted'
    BY <1>2, DrainAssumption DEF DrainInv, Counted
  <1>10. ChildrenRest
    BY <1>0, <1>3 DEF TypeOK, ChildrenRest, OpenChild, NoChild
  <1>11. BatchesRest /\ EmailsRest /\ overlapped' = overlapped /\ (faults' = 0 => faults = 0)
    BY <1>0, <1>2, <1>4 DEF BatchesRest, EmailsRest, TypeOK
  <1> QED  BY <1>8, <1>9, <1>10, <1>11, QuietStep DEF DrainInv

\* Orphaned emails are pending again: nobody works on them.
LEMMA ReclaimStep ==
    ASSUME DrainInv, NEW d \in Drains, ReclaimOrphans(d)
    PROVE  DrainInv'
  <1>1. TypeOK /\ drain[d] \in Drain /\ \A c \in Drains : drain[c] \in Drain
    BY DEF DrainInv, TypeOK
  <1>2. drain'[d] = [drain[d] EXCEPT !.at = "listing"]
        /\ \A c \in Drains \ {d} : drain'[c] = drain[c]
    BY <1>1 DEF TypeOK, ReclaimOrphans, Moves
  <1>3. drain'[d] \in Drain /\ drain'[d].at = "listing" /\ drain'[d].batch = drain[d].batch
        /\ drain'[d].batches = drain[d].batches /\ drain[d].at = "reclaiming"
    BY <1>1, <1>2 DEF Drain, ReclaimOrphans, Moves
  <1>4. TypeOK'
    <2>1. {workflow', overlapped'} \subseteq BOOLEAN
      BY <1>1, Zenon DEF TypeOK, ReclaimOrphans
    <2>2. drain' \in [Drains -> Drain]
      BY <1>1, <1>2, <1>3 DEF ReclaimOrphans, Moves, TypeOK
    <2>3. email' \in [Emails -> EmailStatus]
      BY <1>1 DEF TypeOK, ReclaimOrphans, EmailStatus
    <2> QED  BY <1>1, <2>1, <2>2, <2>3 DEF TypeOK, ReclaimOrphans
  <1>5. Counted'
    BY <1>2, <1>3 DEF DrainInv, Counted
  <1>6. EmailsRest
    BY DEF EmailsRest, ReclaimOrphans, Oldest, Orphaned
  <1>7. ChildrenRest /\ BatchesRest /\ overlapped' = overlapped /\ (faults' = 0 => faults = 0)
    BY <1>2, <1>3 DEF ChildrenRest, BatchesRest, OpenChild, ReclaimOrphans
  <1> QED  BY <1>4, <1>5, <1>6, <1>7, QuietStep DEF DrainInv

\* What is listed has no open operation, and unless drains overlap nobody else has a batch.
LEMMA ListStep ==
    ASSUME DrainInv, NEW d \in Drains, ListPending(d)
    PROVE  DrainInv'
  <1> DEFINE listed == Oldest(Waiting, Limit)
             moved == [drain[d] EXCEPT !.at = IF listed = {} THEN "checking" ELSE "creating",
                                       !.batch = listed,
                                       !.full = Cardinality(Waiting) >= Limit]
  <1>1. TypeOK /\ drain[d] \in Drain /\ \A c \in Drains : drain[c] \in Drain
    BY DEF DrainInv, TypeOK
  <1>2. listed \subseteq Waiting /\ listed \subseteq Emails
    BY DEF Oldest, Waiting
  <1>f. (Cardinality(Waiting) >= Limit) \in BOOLEAN
    OBVIOUS
  <1> HIDE DEF listed
  <1>3. drain' = [drain EXCEPT ![d] = moved]
    BY <1>1 DEF TypeOK, ListPending, listed
  <1>4. /\ moved \in Drain /\ moved.batch = listed
        /\ moved.at = (IF listed = {} THEN "checking" ELSE "creating")
        /\ moved.batches = drain[d].batches
    BY <1>1, <1>2, <1>f DEF Drain
  <1> HIDE DEF moved
  <1>5. drain'[d] = moved /\ \A c \in Drains \ {d} : drain'[c] = drain[c]
    BY <1>1, <1>3 DEF TypeOK
  <1>6. TypeOK'
    <2>1. {workflow', overlapped'} \subseteq BOOLEAN
      BY <1>1, Zenon DEF TypeOK, ListPending
    <2>2. drain' \in [Drains -> Drain]
      BY <1>1, <1>3, <1>4 DEF TypeOK
    <2> QED  BY <1>1, <2>1, <2>2 DEF TypeOK, ListPending
  <1>7. Counted'
    <2>1. drain[d].batches < MaxBatches
      BY DEF DrainInv, Counted, ListPending
    <2>2. moved.at \in {"checking", "creating"} /\ (moved.at = "creating" => moved.batch # {})
      BY <1>4
    <2> QED  BY <1>4, <1>5, <2>1, <2>2 DEF DrainInv, Counted
  <1>8. FirstAttempts' /\ OneWorker' /\ OneOpenChild'
    BY DEF DrainInv, FirstAttempts, OneWorker, OneOpenChild, OpenChild, ListPending
  <1>9. Disjoint'
    <2> SUFFICES ASSUME ~overlapped', NEW b \in Drains, NEW c \in Drains, b # c
                 PROVE  /\ drain'[b].batch = {} \/ drain'[c].batch = {}
                        /\ \A e \in drain'[c].batch : ~OpenChild(b, e)'
      BY DEF Disjoint
    <2>1. ~overlapped /\ (\A x \in Drains \ {d} : drain[x].batch = {}) /\ child' = child
      BY DEF ListPending
    <2>2. drain'[b].batch = {} \/ drain'[c].batch = {}
      BY <1>5, <2>1
    <2>3. \A e \in drain'[c].batch : ~OpenChild(b, e)
      <3>1. CASE c = d
        BY <1>2, <1>4, <1>5, <3>1 DEF Waiting, Busy
      <3>2. CASE c # d
        BY <1>5, <2>1, <3>2
      <3> QED  BY <3>1, <3>2
    <2> QED  BY <2>1, <2>2, <2>3 DEF OpenChild
  <1> QED  BY <1>6, <1>7, <1>8, <1>9 DEF DrainInv

\* An operation is created for an email that had none, unless drains overlap.
LEMMA CreateStep ==
    ASSUME DrainInv, NEW d \in Drains, CreateChild(d)
    PROVE  DrainInv'
  <1>1. TypeOK /\ drain[d] \in Drain /\ \A c \in Drains : drain[c] \in Drain
    BY DEF DrainInv, TypeOK
  <1>2. PICK e \in drain[d].batch :
           LET rest == drain[d].batch \ {e}
           IN  /\ child' = [child EXCEPT ![d][e].at = IF @ = "none" THEN "queued" ELSE @]
               /\ drain' = [drain EXCEPT ![d].batch = rest,
                                  ![d].at = IF rest = {} THEN AfterBatch(d) ELSE "creating",
                                  ![d].batches = IF rest = {} THEN @ + 1 ELSE @]
               /\ waited' = [c \in Drains |-> IF c = d THEN waited[d] ELSE waited[c] \ {e}]
               /\ UNCHANGED <<email, workflow, pauses, faults, overlapped>>
    BY DEF CreateChild
  <1>3. e \in Emails
    BY <1>1, <1>2 DEF Drain
  <1> DEFINE rest == drain[d].batch \ {e}
             moved == [drain[d] EXCEPT !.batch = rest,
                                       !.at = IF rest = {} THEN AfterBatch(d) ELSE "creating",
                                       !.batches = IF rest = {} THEN @ + 1 ELSE @]
             made == [child[d][e] EXCEPT !.at = IF @ = "none" THEN "queued" ELSE @]
  <1>4. drain' = [drain EXCEPT ![d] = moved]
    BY <1>1, <1>2 DEF TypeOK
  <1>5. /\ moved.batch = rest /\ moved.batch \subseteq drain[d].batch
        /\ moved.at = (IF rest = {} THEN AfterBatch(d) ELSE "creating")
        /\ moved.batches = (IF rest = {} THEN drain[d].batches + 1 ELSE drain[d].batches)
        /\ moved.full = drain[d].full /\ moved.next = drain[d].next
    BY <1>1 DEF Drain
  <1>6. /\ drain[d].batches \in Nat /\ drain[d].batches < MaxBatches /\ MaxBatches \in Nat
        /\ drain[d].at = "creating"
    <2>1. drain[d].batches \in 0 .. MaxBatches /\ MaxBatches \in Nat
      BY <1>1, DrainAssumption DEF Drain
    <2>2. drain[d].at = "creating"
      BY Zenon DEF CreateChild
    <2> QED  BY <2>1, <2>2 DEF DrainInv, Counted
  <1>7. /\ AfterBatch(d) \in {"reclaiming", "checking"}
        /\ AfterBatch(d) = "reclaiming" => drain[d].batches + 1 < MaxBatches
    BY DEF AfterBatch
  <1>8. moved \in Drain
    <2>1. \A at \in {"reclaiming", "creating", "checking"}, S \in SUBSET Emails,
             n \in 0 .. MaxBatches :
             [drain[d] EXCEPT !.batch = S, !.at = at, !.batches = n] \in Drain
      BY <1>1 DEF Drain
    <2>2. (IF rest = {} THEN drain[d].batches + 1 ELSE drain[d].batches) \in 0 .. MaxBatches
      BY <1>6
    <2>3. rest \in SUBSET Emails
      BY <1>1 DEF Drain
    <2>4. (IF rest = {} THEN AfterBatch(d) ELSE "creating")
              \in {"reclaiming", "creating", "checking"}
      BY <1>7
    <2> QED  BY <2>1, <2>2, <2>3, <2>4
  <1>9. moved.at = "creating" => moved.batch # {}
    BY <1>5, <1>7
  <1>10. moved.at \in {"reclaiming", "listing", "creating"} => moved.batches < MaxBatches
    BY <1>5, <1>6, <1>7
  <1> HIDE DEF moved
  <1>11. drain'[d] = moved /\ \A c \in Drains \ {d} : drain'[c] = drain[c]
    BY <1>1, <1>4 DEF TypeOK
  <1>12. child[d][e] \in Child /\ child \in [Drains -> [Emails -> Child]]
    BY <1>1, <1>3 DEF TypeOK
  <1>13. /\ child' = [child EXCEPT ![d] = [child[d] EXCEPT ![e] = made]]
         /\ made \in Child /\ made.again = child[d][e].again
         /\ made.at = "working" => child[d][e].at = "working"
    BY <1>2, <1>3, <1>12 DEF Child
  <1> HIDE DEF made
  <1>14. /\ child'[d][e] = made /\ child' \in [Drains -> [Emails -> Child]]
         /\ \A c \in Drains, f \in Emails :
               c # d \/ f # e => child'[c][f] = child[c][f]
    BY <1>3, <1>12, <1>13
  <1>15. TypeOK'
    <2>1. {workflow', overlapped'} \subseteq BOOLEAN
      BY <1>1, <1>2, Zenon DEF TypeOK
    <2>2. drain' \in [Drains -> Drain]
      BY <1>1, <1>4, <1>8 DEF TypeOK
    <2>3. waited' \in [Drains -> SUBSET Emails]
      BY <1>1, <1>2 DEF TypeOK
    <2> QED  BY <1>1, <1>2, <1>14, <2>1, <2>2, <2>3 DEF TypeOK
  <1>16. Counted'
    BY <1>9, <1>10, <1>11 DEF DrainInv, Counted
  <1>17. \A c \in Drains, f \in Emails :
            /\ child'[c][f].again = child[c][f].again
            /\ child'[c][f].at = "working" => child[c][f].at = "working"
    BY <1>13, <1>14
  <1>18. FirstAttempts' /\ OneWorker'
    BY <1>2, <1>17 DEF DrainInv, FirstAttempts, OneWorker
  <1>19. \A c \in Drains, f \in Emails : OpenChild(c, f)' => OpenChild(c, f) \/ (c = d /\ f = e)
    BY <1>14 DEF OpenChild
  <1>20. Disjoint' /\ OneOpenChild'
    <2> SUFFICES ASSUME ~overlapped PROVE Disjoint' /\ OneOpenChild'
      BY <1>2 DEF Disjoint, OneOpenChild
    <2>1. \A c \in Drains \ {d} : drain[c].batch = {} /\ ~OpenChild(c, e)
      BY <1>2 DEF DrainInv, Disjoint
    <2>2. Disjoint'
      <3> SUFFICES ASSUME NEW b \in Drains, NEW c \in Drains, b # c
                   PROVE  /\ drain'[b].batch = {} \/ drain'[c].batch = {}
                          /\ \A f \in drain'[c].batch : ~OpenChild(b, f)'
        BY DEF Disjoint
      <3>1. drain'[b].batch = {} \/ drain'[c].batch = {}
        BY <1>11, <2>1
      <3>2. ASSUME NEW f \in drain'[c].batch PROVE ~OpenChild(b, f)'
        <4>1. c = d /\ f \in drain[d].batch /\ f \in Emails
          BY <1>1, <1>5, <1>11, <2>1, <3>2 DEF Drain
        <4>2. ~OpenChild(b, f)
          BY <4>1 DEF DrainInv, Disjoint
        <4> QED  BY <1>19, <4>1, <4>2
      <3> QED  BY <3>1, <3>2
    <2>3. OneOpenChild'
      BY <1>19, <2>1 DEF DrainInv, OneOpenChild
    <2> QED  BY <2>2, <2>3
  <1> QED  BY <1>15, <1>16, <1>18, <1>20 DEF DrainInv

-----------------------------------------------------------------------------
(* The steps of a child.                                                    *)

\* A step of one child, from one state to another, that leaves the drains alone.
LEMMA ChildFields ==
    ASSUME TypeOK, NEW d \in Drains, NEW e \in Emails, NEW x \in Child,
           child' = [child EXCEPT ![d][e] = x]
    PROVE  /\ child' \in [Drains -> [Emails -> Child]] /\ child'[d][e] = x
           /\ \A c \in Drains, f \in Emails : c # d \/ f # e => child'[c][f] = child[c][f]
  <1>1. child \in [Drains -> [Emails -> Child]]
    BY DEF TypeOK
  <1>2. child' = [child EXCEPT ![d] = [child[d] EXCEPT ![e] = x]]
    BY <1>1
  <1> QED  BY <1>1, <1>2

LEMMA ChildTypes ==
    ASSUME TypeOK, NEW d \in Drains, NEW e \in Emails,
           ChildStep(d, e) \/ ChildRaises(d, e) \/ ChildDies(d, e)
    PROVE  /\ \E x \in Child :
                 /\ child' = [child EXCEPT ![d][e] = x]
                 /\ OpenChild(d, e)
                 /\ x.at = "working" => child[d][e].at = "working" \/ ClaimEmail(d, e)
                 /\ x.again => child[d][e].again \/ faults' # 0
           /\ email' \in [Emails -> EmailStatus]
           /\ UNCHANGED <<drain, workflow, pauses, overlapped>>
           /\ waited' \in [Drains -> SUBSET Emails]
           /\ faults' \in 0 .. MaxFaults /\ (faults' = 0 => faults = 0)
           /\ \A f \in Emails : f # e => email'[f] = email[f]
  <1>1. child \in [Drains -> [Emails -> Child]] /\ child[d][e] \in Child
    BY DEF TypeOK
  <1>2. \E x \in Child :
           /\ child' = [child EXCEPT ![d][e] = x]
           /\ OpenChild(d, e)
           /\ x.at = "working" => child[d][e].at = "working" \/ ClaimEmail(d, e)
           /\ x.again => child[d][e].again \/ faults' # 0
    <2> DEFINE run == [child[d][e] EXCEPT !.at = "running"]
               work == [child[d][e] EXCEPT !.at = "working"]
               again == [at |-> "queued", again |-> TRUE]
    <2>1. /\ run \in Child /\ run.at = "running" /\ run.again = child[d][e].again
          /\ work \in Child /\ work.again = child[d][e].again
          /\ ClosedChild \in Child /\ ClosedChild.at = "closed" /\ ~ClosedChild.again
          /\ again \in Child
      BY <1>1 DEF Child, ClosedChild
    <2>2. CASE AdmitChild(d, e)
      <3>1. child' = [child EXCEPT ![d][e] = run]
        BY <1>1, <2>2 DEF AdmitChild
      <3>2. OpenChild(d, e)
        BY <2>2 DEF AdmitChild, OpenChild
      <3> HIDE DEF run
      <3> QED  BY <2>1, <3>1, <3>2
    <2>3. CASE ClaimEmail(d, e)
      <3>1. child' = [child EXCEPT ![d][e] = work]
        BY <1>1, <2>3 DEF ClaimEmail
      <3>2. OpenChild(d, e)
        BY <2>3 DEF ClaimEmail, OpenChild
      <3> HIDE DEF work
      <3> QED  BY <2>1, <2>3, <3>1, <3>2
    <2>4. CASE RefuseChild(d, e) \/ SkipEmail(d, e) \/ FinishEmail(d, e)
      <3>1. child' = [child EXCEPT ![d][e] = ClosedChild] /\ OpenChild(d, e)
        BY <2>4 DEF RefuseChild, SkipEmail, FinishEmail, CloseChild, OpenChild
      <3> QED  BY <2>1, <3>1
    <2>5. CASE ChildRaises(d, e) \/ ChildDies(d, e)
      <3>1. OpenChild(d, e) /\ faults' # 0
        BY <2>5 DEF ChildRaises, ChildDies, Running, OpenChild, TypeOK
      <3>2. child' = [child EXCEPT ![d][e] = again] \/ child' = [child EXCEPT ![d][e] = ClosedChild]
        BY <2>5 DEF ChildRaises, ChildDies
      <3> QED  BY <2>1, <3>1, <3>2
    <2> QED  BY <2>2, <2>3, <2>4, <2>5 DEF ChildStep
  <1>3. email' \in [Emails -> EmailStatus]
    BY DEF TypeOK, EmailStatus, ChildStep, AdmitChild, RefuseChild, ClaimEmail, SkipEmail,
           FinishEmail, ChildRaises, ChildDies
  <1>4. UNCHANGED <<drain, workflow, pauses, overlapped>>
    BY DEF ChildStep, AdmitChild, RefuseChild, ClaimEmail, SkipEmail, FinishEmail,
           ChildRaises, ChildDies
  <1>5. waited' \in [Drains -> SUBSET Emails]
    BY DEF TypeOK, StillWaiting, ChildStep, AdmitChild, RefuseChild, ClaimEmail, SkipEmail,
           FinishEmail, ChildRaises, ChildDies
  <1>6. faults' \in 0 .. MaxFaults /\ (faults' = 0 => faults = 0)
    BY DrainAssumption
       DEF TypeOK, ChildStep, AdmitChild, RefuseChild, ClaimEmail, SkipEmail, FinishEmail,
           ChildRaises, ChildDies
  <1>7. \A f \in Emails : f # e => email'[f] = email[f]
    BY DEF TypeOK, ChildStep, AdmitChild, RefuseChild, ClaimEmail, SkipEmail,
           FinishEmail, ChildRaises, ChildDies
  <1> QED  BY <1>2, <1>3, <1>4, <1>5, <1>6, <1>7

LEMMA ChildInvStep ==
    ASSUME DrainInv, NEW d \in Drains, NEW e \in Emails,
           ChildStep(d, e) \/ ChildRaises(d, e) \/ ChildDies(d, e)
    PROVE  DrainInv'
  <1>1. TypeOK
    BY DEF DrainInv
  <1>2. PICK x \in Child :
           /\ child' = [child EXCEPT ![d][e] = x]
           /\ OpenChild(d, e)
           /\ x.at = "working" => child[d][e].at = "working" \/ ClaimEmail(d, e)
           /\ x.again => child[d][e].again \/ faults' # 0
    BY <1>1, ChildTypes
  <1>3. /\ email' \in [Emails -> EmailStatus]
        /\ UNCHANGED <<drain, workflow, pauses, overlapped>>
        /\ waited' \in [Drains -> SUBSET Emails]
        /\ faults' \in 0 .. MaxFaults /\ (faults' = 0 => faults = 0)
        /\ \A f \in Emails : f # e => email'[f] = email[f]
    BY <1>1, ChildTypes
  <1>4. /\ child' \in [Drains -> [Emails -> Child]] /\ child'[d][e] = x
        /\ \A c \in Drains, f \in Emails : c # d \/ f # e => child'[c][f] = child[c][f]
    BY <1>1, <1>2, ChildFields
  <1>5. TypeOK'
    <2>1. {workflow', overlapped'} \subseteq BOOLEAN
      BY <1>1, <1>3, Zenon DEF TypeOK
    <2> QED  BY <1>1, <1>3, <1>4, <2>1 DEF TypeOK
  <1>6. Counted'
    BY <1>3 DEF DrainInv, Counted
  <1>7. \A c \in Drains, f \in Emails : OpenChild(c, f)' => OpenChild(c, f)
    BY <1>2, <1>4 DEF OpenChild
  <1>8. Disjoint'
    <2> SUFFICES ASSUME ~overlapped, NEW b \in Drains, NEW c \in Drains, b # c
                 PROVE  /\ drain[b].batch = {} \/ drain[c].batch = {}
                        /\ \A f \in drain[c].batch : ~OpenChild(b, f)'
      BY <1>3 DEF Disjoint
    <2>1. drain[c].batch \subseteq Emails
      BY <1>1 DEF TypeOK, Drain
    <2> QED  BY <1>7, <2>1 DEF DrainInv, Disjoint
  <1>9. OneOpenChild'
    BY <1>3, <1>7 DEF DrainInv, OneOpenChild
  <1>10. FirstAttempts' /\ OneWorker'
    <2> SUFFICES ASSUME faults' = 0 PROVE FirstAttempts' /\ OneWorker'
      BY DEF FirstAttempts, OneWorker
    <2>1. /\ faults = 0
          /\ \A c \in Drains, f \in Emails :
                /\ ~child[c][f].again
                /\ child[c][f].at = "working" => email[f] = "processing"
      BY <1>3 DEF DrainInv, FirstAttempts
    <2>2. \A c \in Drains, f \in Emails : ~child'[c][f].again
      BY <1>2, <1>4, <2>1
    <2>3. CASE ClaimEmail(d, e)
      <3>1. email[e] = "pending" /\ email'[e] = "processing"
        BY <1>1, <2>1, <2>3 DEF ClaimEmail, ClaimableFrom, TypeOK
      <3>2. \A c \in Drains : child[c][e].at # "working"
        BY <2>1, <3>1
      <3>3. \A c \in Drains, f \in Emails :
               child'[c][f].at = "working" =>
                   (c = d /\ f = e) \/ (f # e /\ child[c][f].at = "working")
        BY <1>4, <3>2
      <3>4. FirstAttempts'
        BY <1>3, <2>1, <2>2, <3>1, <3>3 DEF FirstAttempts
      <3>5. OneWorker'
        BY <2>1, <3>3 DEF OneWorker, DrainInv
      <3> QED  BY <3>4, <3>5
    <2>4. CASE ~ClaimEmail(d, e)
      <3>1. \A c \in Drains, f \in Emails :
               child'[c][f].at = "working" => child[c][f].at = "working"
        BY <1>2, <1>4, <2>4
      <3>2. OneWorker'
        BY <2>1, <3>1 DEF DrainInv, OneWorker
      <3>3. ASSUME NEW c \in Drains, child'[c][e].at = "working"
            PROVE  email'[e] = "processing"
        <4>1. child[c][e].at = "working"
          BY <3>1, <3>3
        <4>2. CASE c = d
          BY <1>1, <1>3, <2>1, <2>4, <3>3, <4>1, <4>2
             DEF ChildStep, AdmitChild, RefuseChild, SkipEmail, FinishEmail, CloseChild,
                 ClosedChild, ChildRaises, ChildDies, TypeOK
        <4>3. CASE c # d
          <5>1. child[d][e].at # "working"
            BY <2>1, <4>1, <4>3 DEF DrainInv, OneWorker
          <5>2. email' = email
            BY <1>1, <2>1, <2>4, <5>1
               DEF ChildStep, AdmitChild, RefuseChild, SkipEmail, FinishEmail, CloseChild,
                   ChildRaises, ChildDies, TypeOK
          <5> QED  BY <2>1, <4>1, <5>2
        <4> QED  BY <4>2, <4>3
      <3> QED  BY <1>3, <2>1, <2>2, <3>1, <3>2, <3>3 DEF FirstAttempts
    <2> QED  BY <2>3, <2>4
  <1> QED  BY <1>5, <1>6, <1>8, <1>9, <1>10 DEF DrainInv

-----------------------------------------------------------------------------

LEMMA DrainNext == DrainInv /\ [Next]_vars => DrainInv'
  <1> SUFFICES ASSUME DrainInv, [Next]_vars PROVE DrainInv'
    OBVIOUS
  <1>1. CASE UNCHANGED vars
    BY <1>1
       DEF vars, DrainInv, TypeOK, Counted, FirstAttempts, OneWorker, Disjoint, OneOpenChild,
           OpenChild
  <1>2. ASSUME NEW d \in Drains, DrainStep(d) PROVE DrainInv'
    BY <1>2, DrainStepQuiet, ReclaimStep, ListStep, CreateStep DEF DrainStep
  <1>3. ASSUME NEW d \in Drains, SubmitDrain(d) \/ DrainFails(d) PROVE DrainInv'
    BY <1>3, DrainStepQuiet
  <1>4. ASSUME NEW d \in Drains, NEW e \in Emails,
               ChildStep(d, e) \/ ChildRaises(d, e) \/ ChildDies(d, e)
        PROVE  DrainInv'
    BY <1>4, ChildInvStep
  <1> QED  BY <1>1, <1>2, <1>3, <1>4, OutsideStep DEF Next

\* The values of emails, operations and histories; the count of batches stays within its
\* budget, whatever dies.
THEOREM DrainTypes == Spec => []TypeOK
  <1>1. DrainInv => TypeOK
    BY DEF DrainInv
  <1> QED  BY <1>1, DrainInit, DrainNext, PTL DEF Spec

\* Drains that do not list while another creates leave an email at most one open
\* operation (the busy filter of list_pending_source_email_ids and the key of the child).
THEOREM SoleOpenChild == Spec => []OneOpenChild
  <1>1. DrainInv => OneOpenChild
    BY DEF DrainInv
  <1> QED  BY <1>1, DrainInit, DrainNext, PTL DEF Spec

\* One operation at a time works on an email until an execution fails, also when drains
\* overlap: the claim of a first attempt takes a pending email only.
THEOREM SoleWorker == Spec => []OneWorker
  <1>1. DrainInv => OneWorker
    BY DEF DrainInv
  <1> QED  BY <1>1, DrainInit, DrainNext, PTL DEF Spec

-----------------------------------------------------------------------------
(* What a drain owes the mail that waited for it.                           *)

\* A drain that does not run owes nothing, a budget that is spent shows, and a drain that
\* completes with mail left has its continuation.
Phases(d) ==
    /\ drain[d].at \in {"free", "queued", "closed"} => waited[d] = {}
    /\ drain[d].at = "completing" => drain[d].next # None
    /\ drain[d].at = "checking" =>
           drain[d].batch = {} /\ (drain[d].full => drain[d].batches >= MaxBatches)

\* Mail that waited since the drain began is pending, and nobody else's.
Owned(d) ==
    \A e \in waited[d] :
        /\ email[e] = "pending" /\ child[d][e].at # "working"
        /\ \A c \in Drains : c # d => ~OpenChild(c, e)

\* A batch that is not full holds all of it that has no operation yet.
Covers(d) ==
    drain[d].at \in {"creating", "checking"} /\ ~drain[d].full =>
        \A e \in waited[d] : e \in drain[d].batch \/ child[d][e].at # "none"

CoverInv == \A d \in Drains : Phases(d) /\ Owned(d) /\ Covers(d)

\* Some email of a batch is the oldest.
LEMMA OldestIsThere ==
    ASSUME NEW S \in SUBSET Emails, S # {}, NEW n \in Nat \ {0}
    PROVE  Oldest(S, n) # {}
  <1> DEFINE R == OpToRel(<, Nat)
  <1>1. IsWellFoundedOn(R, Nat) /\ S \subseteq Nat
    BY NatLessThanWellFounded, DrainAssumption
  <1>2. PICK e \in S : \A f \in S : ~(<<f, e>> \in R)
    BY <1>1, WFMin
  <1>3. \A f \in S : ~(f < e)
    BY <1>1, <1>2 DEF OpToRel
  <1>4. {f \in S : f < e} = {}
    BY <1>3
  <1>5. Cardinality({f \in S : f < e}) = 0
    BY <1>4, FS_EmptySet
  <1> QED  BY <1>5 DEF Oldest

\* A batch that is not full is all there is.
LEMMA OldestIsAll ==
    ASSUME NEW S \in SUBSET Emails, NEW n \in Nat, Cardinality(S) < n
    PROVE  Oldest(S, n) = S
  <1>1. IsFiniteSet(S) /\ Cardinality(S) \in Nat
    BY DrainAssumption, FS_Subset, FS_CardinalityType
  <1>2. ASSUME NEW e \in S PROVE Cardinality({f \in S : f < e}) < n
    <2>1. {f \in S : f < e} \in SUBSET S
      OBVIOUS
    <2>2. /\ Cardinality({f \in S : f < e}) \in Nat
          /\ Cardinality({f \in S : f < e}) <= Cardinality(S)
      BY <1>1, <2>1, FS_Subset, FS_CardinalityType
    <2> QED  BY <1>1, <2>2
  <1> QED  BY <1>2 DEF Oldest

\* Mail that has waited and is not waiting any more has an operation of the drain.
LEMMA OwnChild ==
    ASSUME CoverInv, NEW d \in Drains, NEW e \in waited[d], e \in Emails, e \notin Waiting
    PROVE  child[d][e].at # "none"
  <1>1. PICK c \in Drains : OpenChild(c, e)
    BY DEF CoverInv, Owned, Waiting, Busy
  <1> QED  BY <1>1 DEF CoverInv, Owned, OpenChild

LEMMA CoverInit == Init => CoverInv
  BY DEF Init, CoverInv, Phases, Owned, Covers, NoDrain

\* The emails and the switch leave it alone.
LEMMA CoverOutside ==
    ASSUME TypeOK, CoverInv,
           \/ \E e \in Emails : AnswerReview(e) \/ OrphanReview(e)
           \/ Pause \/ Resume
    PROVE  CoverInv'
  <1>1. UNCHANGED <<drain, child, waited>>
    BY DEF AnswerReview, OrphanReview, Pause, Resume
  <1>2. \A e \in Emails : email[e] = "pending" => email'[e] = "pending"
    BY DEF TypeOK, AnswerReview, OrphanReview, SetEmail, Pause, Resume
  <1>3. \A d \in Drains : waited[d] \subseteq Emails
    BY DEF TypeOK
  <1> QED  BY <1>1, <1>2, <1>3 DEF CoverInv, Phases, Owned, Covers, OpenChild

\* Who is submitted, refused, closed or forgotten owes nothing, who is admitted what waits.
LEMMA CoverMoves ==
    ASSUME TypeOK, CoverInv, NEW d \in Drains,
           \/ SubmitDrain(d) \/ ForgetDrain(d) \/ AdmitDrain(d) \/ RefuseDrain(d)
           \/ ContinueDrain(d) \/ CompleteDrain(d) \/ DrainFails(d)
    PROVE  CoverInv'
  <1> DEFINE Shape(c) ==
                \/ c # d /\ drain'[c] = drain[c] /\ waited'[c] = waited[c]
                \/ drain'[c].at \in {"free", "queued", "closed"} /\ waited'[c] = {}
                \/ c = d /\ drain'[c].at = "reclaiming" /\ waited'[c] = Waiting
                \/ /\ drain'[c].at = "completing" /\ drain'[c].next # None
                   /\ waited'[c] = waited[c]
  <1>0. /\ drain \in [Drains -> Drain] /\ waited \in [Drains -> SUBSET Emails]
        /\ drain[d] \in Drain /\ None \notin Drains
        /\ NoDrain \in Drain /\ NoDrain.at = "free" /\ ClosedDrain.at = "closed"
    BY DrainAssumption, DrainFields DEF TypeOK, ClosedDrain, NoDrain
  <1>1. \A c \in Drains : Shape(c)
    <2>1. CASE SubmitDrain(d)
      <3>1. /\ drain[d].at = "free" /\ drain'[d].at = "queued" /\ waited' = waited
            /\ \A c \in Drains \ {d} : drain'[c] = drain[c]
        BY <1>0, <2>1 DEF SubmitDrain, Moves, Drain
      <3> QED  BY <3>1 DEF CoverInv, Phases
    <2>2. CASE ForgetDrain(d)
      BY <1>0, <2>2 DEF ForgetDrain, CoverInv, Phases
    <2>3. CASE AdmitDrain(d)
      <3>1. [NoDrain EXCEPT !.at = "reclaiming", !.next = drain[d].next].at = "reclaiming"
        BY DEF NoDrain
      <3> QED  BY <1>0, <2>3, <3>1 DEF AdmitDrain
    <2>4. CASE RefuseDrain(d)
      BY <1>0, <2>4 DEF RefuseDrain, CoverInv, Phases
    <2>5. CASE CompleteDrain(d)
      BY <1>0, <2>5 DEF CompleteDrain
    <2>6. CASE DrainFails(d)
      <3>1. [NoDrain EXCEPT !.at = "queued", !.next = drain[d].next].at = "queued"
        BY DEF NoDrain
      <3> QED  BY <1>0, <2>6, <3>1 DEF DrainFails
    <2>7. CASE ContinueDrain(d)
      <3>0. /\ drain[d].at = "checking"
            /\ waited' = [waited EXCEPT ![d] = IF drain'[d].at = "closed" THEN {} ELSE @]
        BY <2>7 DEF ContinueDrain
      <3>1. CASE drain[d].next # None /\ drain' = [drain EXCEPT ![d].at = "completing"]
        <4>1. /\ drain'[d].at = "completing" /\ drain'[d].next # None
              /\ \A c \in Drains \ {d} : drain'[c] = drain[c]
          BY <1>0, <3>1 DEF Drain
        <4> QED  BY <1>0, <3>0, <4>1
      <3>2. CASE drain' = [drain EXCEPT ![d] = ClosedDrain]
        BY <1>0, <3>0, <3>2
      <3>3. ASSUME NEW n \in Free,
                   drain' = [drain EXCEPT ![d].at = "completing", ![d].next = n,
                                          ![n].at = "queued"]
            PROVE  \A c \in Drains : Shape(c)
        <4>1. n \in Drains /\ n # d /\ waited[n] = {}
          BY <3>0, <3>3 DEF Free, CoverInv, Phases
        <4>2. /\ drain'[d].at = "completing" /\ drain'[d].next = n /\ drain'[n].at = "queued"
              /\ \A c \in Drains \ {d, n} : drain'[c] = drain[c]
          BY <1>0, <3>3, <4>1 DEF Drain
        <4> QED  BY <1>0, <3>0, <4>1, <4>2
      <3> QED  BY <2>7, <3>1, <3>2, <3>3 DEF ContinueDrain
    <2> QED  BY <2>1, <2>2, <2>3, <2>4, <2>5, <2>6, <2>7
  <1>2. /\ email' = email
        /\ child' = child \/ child' = [child EXCEPT ![d] = [e \in Emails |-> NoChild]]
    BY DEF SubmitDrain, ForgetDrain, AdmitDrain, RefuseDrain, ContinueDrain, CompleteDrain,
           DrainFails
  <1>3. \A c \in Drains, e \in Emails :
           /\ OpenChild(c, e)' => OpenChild(c, e)
           /\ child'[c][e].at = "working" => child[c][e].at = "working"
           /\ c # d => child'[c][e] = child[c][e]
    BY <1>2 DEF TypeOK, OpenChild, NoChild
  <1>4. ASSUME NEW c \in Drains PROVE Phases(c)' /\ Owned(c)' /\ Covers(c)'
    <2>1. waited'[c] \subseteq waited[c] \/ waited'[c] = Waiting
      BY <1>1
    <2>2. Owned(c)'
      <3> SUFFICES ASSUME NEW e \in waited'[c]
                   PROVE  /\ email'[e] = "pending" /\ child'[c][e].at # "working"
                          /\ \A b \in Drains : b # c => ~OpenChild(b, e)'
        BY DEF Owned
      <3>1. CASE e \in waited[c]
        BY <1>0, <1>2, <1>3, <3>1 DEF CoverInv, Owned
      <3>2. CASE e \in Waiting
        BY <1>2, <1>3, <3>2 DEF Waiting, Busy, OpenChild
      <3> QED  BY <2>1, <3>1, <3>2
    <2>3. CASE c # d /\ drain'[c] = drain[c] /\ waited'[c] = waited[c]
      BY <1>0, <1>3, <2>2, <2>3 DEF CoverInv, Phases, Covers
    <2>4. CASE drain'[c].at \in {"free", "queued", "closed", "reclaiming", "completing"}
      BY <1>1, <2>2, <2>4 DEF CoverInv, Phases, Covers
    <2> QED  BY <1>1, <2>2, <2>3, <2>4
  <1> QED  BY <1>4 DEF CoverInv

LEMMA CoverReclaim ==
    ASSUME TypeOK, CoverInv, NEW d \in Drains, ReclaimOrphans(d)
    PROVE  CoverInv'
  <1>1. /\ drain'[d].at = "listing" /\ \A c \in Drains \ {d} : drain'[c] = drain[c]
        /\ UNCHANGED <<child, waited>>
    BY DEF ReclaimOrphans, Moves, TypeOK, Drain
  <1>2. \A e \in Emails : email[e] = "pending" => email'[e] = "pending"
    BY DEF ReclaimOrphans
  <1>3. \A c \in Drains : waited[c] \subseteq Emails
    BY DEF TypeOK
  <1>4. ASSUME NEW c \in Drains PROVE Owned(c)'
    BY <1>1, <1>2, <1>3 DEF CoverInv, Owned, OpenChild
  <1>5. ASSUME NEW c \in Drains PROVE Phases(c)' /\ Covers(c)'
    BY <1>1 DEF CoverInv, Phases, Covers
  <1> QED  BY <1>4, <1>5 DEF CoverInv

\* A batch that is not full is all that waits, and the rest is busy with the drain's own.
LEMMA CoverList ==
    ASSUME TypeOK, CoverInv, NEW d \in Drains, ListPending(d)
    PROVE  CoverInv'
  <1> DEFINE batch == Oldest(Waiting, Limit)
  <1>0. /\ Limit \in Nat \ {0} /\ Waiting \in SUBSET Emails
        /\ Cardinality(Waiting) \in Nat
    <2>1. Waiting \subseteq Emails
      BY DEF Waiting
    <2> QED  BY <2>1, DrainAssumption, FS_Subset, FS_CardinalityType
  <1>1. /\ drain'[d].at = IF batch = {} THEN "checking" ELSE "creating"
        /\ drain'[d].batch = batch
        /\ drain'[d].full = (Cardinality(Waiting) >= Limit)
        /\ \A c \in Drains \ {d} : drain'[c] = drain[c]
        /\ UNCHANGED <<email, child, waited>>
    BY DEF ListPending, TypeOK, Drain
  <1>f. ~drain'[d].full <=> Cardinality(Waiting) < Limit
    <2>1. drain'[d].full <=> Cardinality(Waiting) >= Limit
      BY <1>1, Zenon
    <2> QED  BY <1>0, <2>1
  <1>2. \A c \in Drains : waited[c] \subseteq Emails
    BY DEF TypeOK
  <1>3. ASSUME NEW c \in Drains PROVE Owned(c)'
    BY <1>1 DEF CoverInv, Owned, OpenChild
  <1>4. ASSUME NEW c \in Drains \ {d} PROVE Phases(c)' /\ Covers(c)'
    BY <1>1, <1>4 DEF CoverInv, Phases, Covers
  <1>5. Phases(d)'
    <2>1. CASE batch = {}
      <3>1. Waiting = {}
        BY <1>0, <2>1, OldestIsThere
      <3>2. Cardinality(Waiting) = 0
        BY <3>1, FS_EmptySet
      <3>3. ~drain'[d].full
        BY <1>0, <1>f, <3>2
      <3> QED  BY <1>1, <2>1, <3>3 DEF Phases
    <2>2. CASE batch # {}
      BY <1>1, <2>2 DEF Phases
    <2> QED  BY <2>1, <2>2
  <1>6. Covers(d)'
    <2> SUFFICES ASSUME ~drain'[d].full, NEW e \in waited[d]
                 PROVE  e \in batch \/ child[d][e].at # "none"
      BY <1>1 DEF Covers
    <2>1. batch = Waiting
      BY <1>0, <1>f, OldestIsAll
    <2> QED  BY <1>2, <2>1, OwnChild
  <1> QED  BY <1>3, <1>4, <1>5, <1>6 DEF CoverInv

\* An operation is created for the drain's own email, which is nobody else's any more.
LEMMA CoverCreate ==
    ASSUME DrainInv, CoverInv, NEW d \in Drains, CreateChild(d)
    PROVE  CoverInv'
  <1>0. /\ TypeOK /\ drain[d] \in Drain /\ MaxBatches \in Nat
        /\ drain[d].batches \in Nat
    BY DrainAssumption DEF DrainInv, TypeOK, Drain
  <1>1. drain[d].at = "creating"
    BY Zenon DEF CreateChild
  <1>2. PICK e \in drain[d].batch :
            /\ child' = [child EXCEPT ![d][e].at = IF @ = "none" THEN "queued" ELSE @]
            /\ drain' = [drain EXCEPT
                  ![d].batch = drain[d].batch \ {e},
                  ![d].at = IF drain[d].batch \ {e} = {} THEN AfterBatch(d) ELSE "creating",
                  ![d].batches = IF drain[d].batch \ {e} = {} THEN @ + 1 ELSE @]
            /\ waited' = [c \in Drains |-> IF c = d THEN waited[d] ELSE waited[c] \ {e}]
            /\ email' = email
    BY DEF CreateChild
  <1> DEFINE rest == drain[d].batch \ {e}
  <1>3. e \in Emails /\ child[d][e] \in Child
    BY <1>0, <1>2 DEF TypeOK, Drain
  <1>4. /\ drain'[d].batch = rest /\ drain'[d].full = drain[d].full
        /\ drain'[d].at = (IF rest = {} THEN AfterBatch(d) ELSE "creating")
        /\ drain'[d].batches = (IF rest = {} THEN drain[d].batches + 1 ELSE drain[d].batches)
        /\ \A c \in Drains \ {d} : drain'[c] = drain[c]
    BY <1>0, <1>2 DEF TypeOK, Drain
  <1>5. /\ child'[d][e].at = (IF child[d][e].at = "none" THEN "queued" ELSE child[d][e].at)
        /\ \A c \in Drains, f \in Emails : c # d \/ f # e => child'[c][f] = child[c][f]
    BY <1>0, <1>2, <1>3 DEF TypeOK, Child
  <1>6. /\ AfterBatch(d) \in {"reclaiming", "checking"}
        /\ drain[d].full /\ AfterBatch(d) = "checking" => drain[d].batches + 1 >= MaxBatches
    BY <1>0 DEF AfterBatch
  <1>7. /\ waited'[d] = waited[d]
        /\ \A c \in Drains \ {d} : waited'[c] = waited[c] \ {e}
        /\ \A c \in Drains : waited'[c] \subseteq waited[c] /\ waited'[c] \subseteq Emails
    BY <1>0, <1>2 DEF TypeOK
  <1>8. ASSUME NEW c \in Drains PROVE Owned(c)'
    <2> SUFFICES ASSUME NEW f \in waited'[c]
                 PROVE  /\ email[f] = "pending" /\ child'[c][f].at # "working"
                        /\ \A b \in Drains : b # c => ~OpenChild(b, f)'
      BY <1>2 DEF Owned
    <2>1. /\ email[f] = "pending" /\ child[c][f].at # "working" /\ f \in Emails
          /\ \A b \in Drains : b # c => ~OpenChild(b, f)
      BY <1>7 DEF CoverInv, Owned
    <2>2. child'[c][f].at # "working"
      BY <1>5, <2>1
    <2>3. ASSUME NEW b \in Drains, b # c PROVE child'[b][f] = child[b][f]
      BY <1>5, <1>7, <2>1, <2>3
    <2> QED  BY <2>1, <2>2, <2>3 DEF OpenChild
  <1>9. ASSUME NEW c \in Drains \ {d} PROVE Phases(c)' /\ Covers(c)'
    <2>1. \A f \in waited'[c] : child'[c][f] = child[c][f]
      BY <1>5, <1>7, <1>9
    <2>2. Phases(c)'
      BY <1>4, <1>7, <1>9 DEF CoverInv, Phases
    <2> QED  BY <1>4, <1>7, <2>1, <2>2 DEF CoverInv, Covers
  <1>10. Phases(d)'
    BY <1>0, <1>4, <1>6 DEF Phases
  <1>11. Covers(d)'
    <2> SUFFICES ASSUME ~drain[d].full, NEW f \in waited[d]
                 PROVE  f \in rest \/ child'[d][f].at # "none"
      BY <1>4, <1>7 DEF Covers
    <2>1. f \in drain[d].batch \/ child[d][f].at # "none"
      BY <1>1 DEF CoverInv, Covers
    <2>2. f \in Emails
      BY <1>7
    <2> QED  BY <1>5, <2>1, <2>2
  <1> QED  BY <1>8, <1>9, <1>10, <1>11 DEF CoverInv

\* A child takes up its email, and the email has not waited since; the others do not lose it.
LEMMA CoverChild ==
    ASSUME TypeOK, CoverInv, NEW d \in Drains, NEW e \in Emails,
           ChildStep(d, e) \/ ChildRaises(d, e) \/ ChildDies(d, e)
    PROVE  CoverInv'
  <1>1. PICK x \in Child :
           /\ child' = [child EXCEPT ![d][e] = x]
           /\ OpenChild(d, e)
           /\ x.at = "working" => child[d][e].at = "working" \/ ClaimEmail(d, e)
    BY ChildTypes
  <1>2. /\ child'[d][e] = x /\ drain' = drain
        /\ \A c \in Drains, f \in Emails : c # d \/ f # e => child'[c][f] = child[c][f]
        /\ \A f \in Emails : f # e => email'[f] = email[f]
    <2>1. child' = [child EXCEPT ![d] = [child[d] EXCEPT ![e] = x]]
      BY <1>1, Zenon
    <2>2. child \in [Drains -> [Emails -> Child]]
      BY DEF TypeOK
    <2>3. /\ child'[d][e] = x
          /\ \A c \in Drains, f \in Emails : c # d \/ f # e => child'[c][f] = child[c][f]
      BY <2>1, <2>2
    <2>4. drain' = drain /\ \A f \in Emails : f # e => email'[f] = email[f]
      BY ChildTypes
    <2> QED  BY <2>3, <2>4
  <1>3. waited' = waited \/ StillWaiting
    BY DEF ChildStep, AdmitChild, RefuseChild, ClaimEmail, SkipEmail, FinishEmail, ChildRaises,
       ChildDies
  <1>4. \A c \in Drains : waited'[c] \subseteq waited[c] /\ waited[c] \subseteq Emails
    BY <1>3 DEF TypeOK, StillWaiting
  <1>5. x.at # "none"
    <2>1. child'[d][e].at # "none"
      BY <1>1
         DEF TypeOK, Child, ChildStep, AdmitChild, RefuseChild, ClaimEmail, SkipEmail, FinishEmail,
             CloseChild, ClosedChild, ChildRaises, ChildDies
    <2> QED  BY <1>2, <2>1
  <1>6. \A c \in Drains, f \in Emails :
           /\ OpenChild(c, f)' => OpenChild(c, f)
           /\ child'[c][f].at = "none" => child[c][f].at = "none"
    BY <1>1, <1>2, <1>5 DEF OpenChild
  <1>7. ASSUME NEW c \in Drains, e \in waited'[c]
        PROVE  email'[e] = "pending" /\ child'[c][e].at # "working"
    <2>1. /\ email[e] = "pending" /\ child[c][e].at # "working" /\ c = d
      BY <1>1, <1>4, <1>7 DEF CoverInv, Owned
    <2>2. email'[e] = "pending"
      <3>1. CASE StillWaiting
        BY <1>7, <3>1 DEF StillWaiting
      <3>2. CASE email' = email
        BY <2>1, <3>2
      <3>3. StillWaiting \/ email' = email
        BY <2>1
           DEF ChildStep, AdmitChild, RefuseChild, ClaimEmail, SkipEmail, FinishEmail, CloseChild,
               ChildRaises, ChildDies
      <3> QED  BY <3>1, <3>2, <3>3
    <2>3. ~ClaimEmail(d, e)
      BY <2>2 DEF ClaimEmail, TypeOK
    <2> QED  BY <1>1, <1>2, <2>1, <2>2, <2>3
  <1>8. ASSUME NEW c \in Drains PROVE Owned(c)'
    <2> SUFFICES ASSUME NEW f \in waited'[c]
                 PROVE  /\ email'[f] = "pending" /\ child'[c][f].at # "working"
                        /\ \A b \in Drains : b # c => ~OpenChild(b, f)'
      BY DEF Owned
    <2>1. /\ email[f] = "pending" /\ child[c][f].at # "working" /\ f \in Emails
          /\ \A b \in Drains : b # c => ~OpenChild(b, f)
      BY <1>4 DEF CoverInv, Owned
    <2>2. email'[f] = "pending" /\ child'[c][f].at # "working"
      BY <1>2, <1>7, <2>1
    <2> QED  BY <1>6, <2>1, <2>2
  <1>9. ASSUME NEW c \in Drains PROVE Phases(c)' /\ Covers(c)'
    <2>1. Phases(c)'
      BY <1>2, <1>4 DEF CoverInv, Phases
    <2> QED  BY <1>2, <1>4, <1>6, <2>1 DEF CoverInv, Covers
  <1> QED  BY <1>8, <1>9 DEF CoverInv

LEMMA CoverNext == DrainInv /\ CoverInv /\ [Next]_vars => CoverInv'
  <1> SUFFICES ASSUME DrainInv, CoverInv, [Next]_vars PROVE CoverInv'
    OBVIOUS
  <1>0. TypeOK
    BY DEF DrainInv
  <1>1. CASE UNCHANGED vars
    BY <1>1 DEF vars, CoverInv, Phases, Owned, Covers, OpenChild
  <1>2. ASSUME NEW d \in Drains, DrainStep(d) PROVE CoverInv'
    BY <1>0, <1>2, CoverMoves, CoverReclaim, CoverList, CoverCreate DEF DrainStep
  <1>3. ASSUME NEW d \in Drains, SubmitDrain(d) \/ DrainFails(d) PROVE CoverInv'
    BY <1>0, <1>3, CoverMoves
  <1>4. ASSUME NEW d \in Drains, NEW e \in Emails,
               ChildStep(d, e) \/ ChildRaises(d, e) \/ ChildDies(d, e)
        PROVE  CoverInv'
    BY <1>0, <1>4, CoverChild
  <1> QED  BY <1>0, <1>1, <1>2, <1>3, <1>4, CoverOutside DEF Next

\* A drain that completes has an operation for every email that waited all the time and
\* that no other drain took up, or another drain continues it: a batch that is not full
\* holds everything that waits, and one that is full spends a budget that is checked.
THEOREM CompletedDrainCovers == Spec => DrainCovers
  <1>1. ASSUME DrainInv, CoverInv, NEW d \in Drains, Drained(d)
        PROVE  drain[d].next # None \/ \A e \in waited[d] : child[d][e].at # "none"
    <2>1. waited[d] \subseteq Emails
      BY <1>1 DEF DrainInv, TypeOK
    <2>2. CASE drain[d].at = "completing"
      BY <1>1, <2>2 DEF CoverInv, Phases
    <2>3. CASE drain[d].at = "checking" /\ ~drain[d].full
      BY <1>1, <2>3 DEF CoverInv, Phases, Covers
    <2>4. CASE drain[d].at = "checking" /\ drain[d].full
      <3>1. Waiting = {}
        BY <1>1, <2>4 DEF Drained, MustContinue, Drainable, CoverInv, Phases
      <3> QED  BY <1>1, <2>1, <3>1, OwnChild
    <2> QED  BY <1>1, <2>2, <2>3, <2>4 DEF Drained
  <1>2. ASSUME DrainInv, CoverInv
        PROVE  [\A d \in Drains :
                   (Drained(d) /\ drain'[d].at = "closed" /\ faults' = faults)
                       => drain[d].next # None
                          \/ \A e \in waited[d] : child[d][e].at # "none"]_vars
    BY <1>1, <1>2
  <1> QED
    BY <1>2, DrainInit, DrainNext, CoverInit, CoverNext, PTL DEF Spec, DrainCovers
=============================================================================
