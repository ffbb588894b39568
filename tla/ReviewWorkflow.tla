--------------------------- MODULE ReviewWorkflow ---------------------------
(***************************************************************************)
(* One email whose workflow stops for a human: the processing runs of the  *)
(* email, their LangGraph threads with a durable checkpoint, the review    *)
(* rows the interrupted node opens and resolves, the web hosts that resume *)
(* a thread with a decision, and the drain that reclaims an email whose    *)
(* run waits without an open review.                                       *)
(*                                                                         *)
(* The stages between two questions are one step that advances the run and *)
(* one that routes.  An interrupted node starts again when it is resumed,  *)
(* and checkpoints are saved while the next node already executes.  A      *)
(* decision does not name the question it answers: a resume carries it to  *)
(* whatever its thread asks next.  The first invocation of a run belongs   *)
(* to an operation: how it fails and is retried is EmailProcessing's       *)
(* subject and left out here.                                              *)
(***************************************************************************)
EXTENDS Naturals, Sequences

CONSTANTS
    MaxRuns,       \* bound: processing runs of the email, one per operation
    MaxQuestions,  \* bound: different questions a run asks
    MaxRows,       \* rows open_review tries for one question (8 in the code)
    Hosts,         \* processes that serve the review pages
    Decisions,     \* what a human may decide
    Allowed,       \* those that pass as an answer to each question
    NoDecision,    \* a review row that is open; an invocation that carries none
    Worker,        \* the operation worker, where a run starts
    MaxResumes     \* bound: resumes, each of which may die or raise

ASSUME ReviewAssumption ==
    /\ MaxRuns \in Nat /\ MaxQuestions \in Nat /\ MaxRows \in Nat /\ MaxResumes \in Nat
    /\ Allowed \in [1 .. MaxQuestions -> (SUBSET Decisions) \ {{}}]
    /\ NoDecision \notin Decisions /\ Worker \notin Hosts

VARIABLES
    email,        \* source_emails.processing_status
    status,       \* processing_runs.status of each run, "none" before it exists
    rows,         \* review_items of each run and question: their resolutions
    checkpoint,   \* the saved position of each run's thread
    invocations,  \* graph invocations in flight
    met,          \* history: runs of which two invocations were in flight at once
    resumes       \* submits that resumed a run

vars == <<email, status, rows, checkpoint, invocations, met, resumes>>

Runs == 1 .. MaxRuns
Questions == 1 .. MaxQuestions
Final == {"completed", "ignored", "failed"}
Row == Decisions \cup {NoDecision}

\* Where a thread continues: after the questions it has asked, at the stages that
\* follow ("work"), at the node that asks ("ask"), or nowhere ("end").
Position == [asked : 0 .. MaxQuestions, node : {"work", "ask", "end"}]

Step == {"posted",     \* the service accepted a decision, the graph not yet invoked
         "loading",    \* load_source_email
         "working",    \* a stage is about to advance the run
         "routing",    \* it did, and routes
         "opening",    \* request_review is about to open its row
         "marking",    \* ... to mark the run NEEDS_REVIEW
         "answering",  \* ... at interrupt()
         "leaving",    \* interrupted, the email not yet marked
         "ended"}      \* finalized, the last checkpoint not yet saved

Invocation ==
    [run : Runs, by : Hosts \cup {Worker},
     decision : Row,              \* the decision it carries
     question : 0 .. MaxQuestions, seen : 0 .. MaxRows,  \* the row it was given for
     again : BOOLEAN,             \* ... which was resolved with it already
     at : Step, asked : 0 .. MaxQuestions, item : 0 .. MaxRows, saved : BOOLEAN,
     alone : BOOLEAN]             \* no other invocation of the run was ever beside it

Init ==
    /\ email = "pending"
    /\ status = [r \in Runs |-> "none"]
    /\ rows = [r \in Runs |-> [q \in Questions |-> <<>>]]
    /\ checkpoint = [r \in Runs |-> [asked |-> 0, node |-> "work"]]
    /\ invocations = {} /\ met = {}
    /\ resumes = 0

-----------------------------------------------------------------------------
(* Starting a run and walking through its stages.  Definitions whose        *)
(* comment starts with "Fault:" are wrong on purpose: each can take the     *)
(* place of the one after it, to show that a property can fail.             *)

Becomes(i, j) == invocations' = (invocations \ {i}) \cup {j}
Leaves(i) == invocations' = invocations \ {i}

\* An operation claims the pending email and starts a run of its own.
StartRun(r) ==
    /\ email = "pending"
    /\ status[r] = "none" /\ \A p \in 1 .. (r - 1) : status[p] # "none"
    /\ \A i \in invocations : i.run # r
    /\ email' = "processing"
    /\ invocations' = invocations \cup
           {[run |-> r, by |-> Worker, decision |-> NoDecision, question |-> 0, seen |-> 0,
             again |-> FALSE, at |-> "loading", asked |-> 0, item |-> 0, saved |-> TRUE,
             alone |-> TRUE]}
    /\ UNCHANGED <<status, rows, checkpoint, met, resumes>>

LoadSourceEmail(i) ==
    /\ i.at = "loading"
    /\ status' = [status EXCEPT ![i.run] = "running"]
    /\ email' = IF email \in {"processed", "ignored"} THEN email ELSE "processing"
    /\ Becomes(i, [i EXCEPT !.at = "working"])
    /\ UNCHANGED <<rows, checkpoint, met, resumes>>

\* advance_run overwrites the status, whatever it was.
AdvanceRun(i) ==
    /\ i.at = "working"
    /\ status' = [status EXCEPT ![i.run] = "running"]
    /\ Becomes(i, [i EXCEPT !.at = "routing"])
    /\ UNCHANGED <<email, rows, checkpoint, met, resumes>>

Here(i) ==
    [asked |-> i.asked,
     node |-> IF i.at \in {"opening", "marking", "answering"} THEN "ask" ELSE "work"]

SaveCheckpoint(i) ==
    /\ ~i.saved
    /\ checkpoint' = [checkpoint EXCEPT ![i.run] = Here(i)]
    /\ Becomes(i, [i EXCEPT !.saved = TRUE])
    /\ UNCHANGED <<email, status, rows, met, resumes>>

\* Only the first node that a resume executes sees the decision it brings.
Without(i) == [i EXCEPT !.decision = NoDecision, !.question = 0, !.seen = 0, !.again = FALSE]

\* A stage routes to request_review with its next question.
AskReview(i) ==
    /\ i.at = "routing" /\ i.saved /\ i.asked < MaxQuestions
    /\ Becomes(i, [Without(i) EXCEPT !.at = "opening", !.asked = @ + 1, !.item = 0,
                                     !.saved = FALSE])
    /\ UNCHANGED <<email, status, rows, checkpoint, met, resumes>>

\* Fault: the email takes the status of the run.
EmailOutcomeUnmapped == [outcome \in Final |-> outcome]

EmailOutcome ==
    [completed |-> "processed", ignored |-> "ignored", failed |-> "failed"]

FinalizeRun(i, outcome) ==
    /\ status' = [status EXCEPT ![i.run] = outcome]
    /\ email' = EmailOutcome[outcome]

\* finalize_processing after the stages, mark_ignored in place of them.
GraphEnds(i, outcome) ==
    /\ i.saved
    /\ \/ i.at = "routing" /\ outcome = "completed"
       \/ i.at = "working" /\ outcome = "ignored"
    /\ FinalizeRun(i, outcome)
    /\ Becomes(i, [i EXCEPT !.at = "ended"])
    /\ UNCHANGED <<rows, checkpoint, met, resumes>>

Return(i) ==
    /\ i.at = "ended"
    /\ checkpoint' = [checkpoint EXCEPT ![i.run].node = "end"]
    /\ Leaves(i)
    /\ UNCHANGED <<email, status, rows, met, resumes>>

-----------------------------------------------------------------------------
(* request_review, from its beginning at every resume.                      *)

IsOpen(row) == row = NoDecision
OpenRow(r, q) == \E n \in 1 .. Len(rows[r][q]) : IsOpen(rows[r][q][n])

RowServes(r, q) == rows[r][q] # <<>> /\ IsOpen(rows[r][q][Len(rows[r][q])])

\* open_review: the open row of the question, or a successor to its resolved ones.
OpenReview(i) ==
    LET chain == rows[i.run][i.asked]
    IN  /\ i.at = "opening"
        /\ \/ /\ RowServes(i.run, i.asked)
              /\ Becomes(i, [i EXCEPT !.at = "marking", !.item = Len(chain)])
              /\ UNCHANGED rows
           \/ /\ ~RowServes(i.run, i.asked) /\ Len(chain) < MaxRows
              /\ rows' = [rows EXCEPT ![i.run][i.asked] = Append(@, NoDecision)]
              /\ Becomes(i, [i EXCEPT !.at = "marking", !.item = Len(chain) + 1])
        /\ UNCHANGED <<email, status, checkpoint, met, resumes>>

MarkRunNeedsReview(i) ==
    /\ i.at = "marking"
    /\ status' = [status EXCEPT ![i.run] = "needs_review"]
    /\ Becomes(i, [i EXCEPT !.at = "answering"])
    /\ UNCHANGED <<email, rows, checkpoint, met, resumes>>

\* interrupt() returns the decision, whichever question it was given for; what is no
\* answer to this one interrupts again.
Answers(i) == i.decision \in Allowed[i.asked]

\* resolve_review: the row is open, or already resolved the same way.
ResolveReview(i) ==
    /\ i.at = "answering" /\ Answers(i)
    /\ rows[i.run][i.asked][i.item] \in {NoDecision, i.decision}
    /\ rows' = [rows EXCEPT ![i.run][i.asked][i.item] = i.decision]
    /\ Becomes(i, [i EXCEPT !.at = "working", !.saved = FALSE])
    /\ UNCHANGED <<email, status, checkpoint, met, resumes>>

Interrupt(i) ==
    /\ i.at = "answering" /\ i.saved /\ ~Answers(i)
    /\ Becomes(i, [i EXCEPT !.at = "leaving"])
    /\ UNCHANGED <<email, status, rows, checkpoint, met, resumes>>

MarkSourceNeedsReview(i) ==
    /\ i.at = "leaving"
    /\ email' = IF email = "processing" THEN "needs_review" ELSE email
    /\ Leaves(i)
    /\ UNCHANGED <<status, rows, checkpoint, met, resumes>>

-----------------------------------------------------------------------------
(* The review service.                                                      *)

\* A review of the email is open: a follow-up to whatever was answered before.
FollowUpOpen == \E r \in Runs, q \in Questions : OpenRow(r, q)

\* Fault: a second submit of a decision is refused like any other.
NeverRecovered(r, row, d) == FALSE

\* Fault: a resolved review takes another decision.
RecoversOther(r, row, d) == ~FollowUpOpen /\ status[r] \notin Final

\* Fault: the run is resumed although it has ended.
RecoversEndedRun(r, row, d) == row = d /\ ~FollowUpOpen

\* _recover_duplicate: the identical decision resumes a run that was stranded.
Recovered(r, row, d) == row = d /\ ~FollowUpOpen /\ status[r] \notin Final

\* resolve: the row is open, or the submit is a duplicate to recover from.
Accepts(r, q, n, d) ==
    LET row == rows[r][q][n] IN IsOpen(row) \/ Recovered(r, row, d)

\* No resume of the run is in flight on this host; a submit would join it.
NoneInFlight(h, r) == \A i \in invocations : i.run = r => i.by # h

Accompanied(r) ==
    {IF i.run = r THEN [i EXCEPT !.alone = FALSE] ELSE i : i \in invocations}

Submit(h, r, q, n, d) ==
    /\ n \in 1 .. Len(rows[r][q]) /\ d \in Allowed[q]
    /\ Accepts(r, q, n, d) /\ NoneInFlight(h, r) /\ resumes < MaxResumes
    /\ invocations' = Accompanied(r) \cup
           {[run |-> r, by |-> h, decision |-> d, question |-> q, seen |-> n,
             again |-> ~IsOpen(rows[r][q][n]), at |-> "posted", asked |-> 0,
             item |-> 0, saved |-> TRUE,
             alone |-> \A i \in invocations : i.run # r]}
    /\ met' = met \cup {i.run : i \in {j \in invocations : j.run = r}}
    /\ resumes' = resumes + 1
    /\ UNCHANGED <<email, status, rows, checkpoint>>

\* The graph is invoked with Command(resume): it continues at its checkpoint.
ResumeGraph(i) ==
    LET here == checkpoint[i.run]
    IN  /\ i.at = "posted"
        /\ \/ here.node = "end" /\ Leaves(i)
           \/ /\ here.node = "ask"
              /\ Becomes(i, [i EXCEPT !.asked = here.asked, !.at = "opening"])
           \/ /\ here.node = "work"
              /\ Becomes(i, [Without(i) EXCEPT !.asked = here.asked, !.at = "working"])
        /\ UNCHANGED <<email, status, rows, checkpoint, met, resumes>>

InGraph == {"working", "routing", "opening", "marking", "answering", "ended"}

\* A node raised: the run is finalized FAILED, whatever it was.
Failing(i) ==
    /\ i.at \in InGraph
    /\ FinalizeRun(i, "failed")
    /\ Leaves(i)
    /\ UNCHANGED <<rows, checkpoint, met, resumes>>

\* resolve_review refuses: the row was resolved differently.
RefuseDecision(i) ==
    /\ i.at = "answering" /\ Answers(i)
    /\ rows[i.run][i.asked][i.item] \notin {NoDecision, i.decision}
    /\ Failing(i)

\* open_review gives up after MaxRows successors.
RefuseSuccessor(i) ==
    /\ i.at = "opening"
    /\ ~RowServes(i.run, i.asked) /\ Len(rows[i.run][i.asked]) >= MaxRows
    /\ Failing(i)

Raise(i) ==
    /\ i.by # Worker
    /\ Failing(i)

\* The host dies, or the resume fails outside the graph.
Crash(i) ==
    /\ i.by # Worker
    /\ Leaves(i)
    /\ UNCHANGED <<email, status, rows, checkpoint, met, resumes>>

-----------------------------------------------------------------------------
(* The drain.                                                               *)

Orphaned(r) ==
    /\ email = "needs_review" /\ status[r] = "needs_review"
    /\ \A q \in Questions : ~OpenRow(r, q)

\* reclaim_orphaned_needs_review takes the latest run of the email that waits
\* without an open review; a child operation will start another run.
ReclaimOrphan(r) ==
    /\ Orphaned(r) /\ \A p \in Runs : p > r => ~Orphaned(p)
    /\ status' = [status EXCEPT ![r] = "failed"]
    /\ email' = "pending"
    /\ UNCHANGED <<rows, checkpoint, invocations, met, resumes>>

Proceed(i) ==
    \/ LoadSourceEmail(i) \/ AdvanceRun(i) \/ SaveCheckpoint(i)
    \/ AskReview(i) \/ Return(i)
    \/ \E outcome \in Final : GraphEnds(i, outcome)
    \/ OpenReview(i) \/ MarkRunNeedsReview(i) \/ ResolveReview(i) \/ Interrupt(i)
    \/ MarkSourceNeedsReview(i) \/ ResumeGraph(i)
    \/ RefuseDecision(i) \/ RefuseSuccessor(i)

Next ==
    \/ \E r \in Runs : StartRun(r) \/ ReclaimOrphan(r)
    \/ \E i \in invocations : Proceed(i) \/ Raise(i) \/ Crash(i)
    \/ \E h \in Hosts, r \in Runs, q \in Questions, n \in 1 .. MaxRows, d \in Decisions :
           Submit(h, r, q, n, d)

Spec == Init /\ [][Next]_vars

-----------------------------------------------------------------------------
(* Properties.                                                              *)

\* What the rows, threads and invocations range over.
TypeOK ==
    /\ email \in {"pending", "processing", "needs_review", "processed", "ignored", "failed"}
    /\ status \in [Runs -> {"none", "running", "needs_review"} \cup Final]
    /\ rows \in [Runs -> [Questions -> Seq(Row)]]
    /\ \A r \in Runs, q \in Questions : Len(rows[r][q]) <= MaxRows
    /\ checkpoint \in [Runs -> Position]
    /\ invocations \subseteq Invocation /\ met \subseteq Runs
    /\ resumes \in 0 .. MaxResumes

\* What a workflow went on with is in the very row the human answered; and it was asked
\* there, unless the decision was submitted once more.
AnswerStands(i) ==
    i.at \in {"working", "routing", "ended"} /\ i.decision # NoDecision =>
        /\ rows[i.run][i.question][i.seen] = i.decision
        /\ i.question = i.asked \/ i.again

\* A workflow goes on only with a decision that the review it was given for holds, and a
\* decision given to an open review is taken as the answer to no other question, whatever
\* was answered, lost and submitted before, unless two resumes of the run were in flight at
\* once.
AnswersStand == \A i \in invocations : i.run \notin met => AnswerStands(i)

\* An email that waits for a human, with nobody working on it, can be moved on: a
\* review is open, the drain reclaims it, or the identical decision is accepted again.
NothingStranded ==
    email = "needs_review" /\ invocations = {} =>
        \/ \E r \in Runs : Orphaned(r)
        \/ \E r \in Runs, q \in Questions, d \in Decisions :
               \E n \in 1 .. Len(rows[r][q]) : d \in Allowed[q] /\ Accepts(r, q, n, d)

\* A run that ended, with no question of it open, is not run again by whatever is
\* submitted once more.
EndedRunStays ==
    [][\A r \in Runs :
           (/\ status[r] \in {"completed", "ignored"}
            /\ \A i \in invocations : i.run = r => i.alone
            /\ \A q \in Questions : ~OpenRow(r, q))
           => status'[r] \in {status[r], "failed"}]_vars
=============================================================================
