---------------------------- MODULE WorkflowGraph ----------------------------
(***************************************************************************)
(* One processing run of one email through the graph: preparation,         *)
(* extraction, validation, the questions put to a human and what their     *)
(* answers change, up to what is persisted.  The checkpointed state        *)
(* carries the answers from the node that asks to the nodes that use them; *)
(* the extraction itself is audited, and the first one recorded counts.    *)
(*                                                                         *)
(* The operation that starts a run may die and start it again from START;  *)
(* the deaths of resumes are ReviewWorkflow's subject, the rows of         *)
(* applications and events DomainProcessing's, the calendar CalendarSync's.*)
(* Here the database shows any open applications and interviews.           *)
(* Not reachable, and left out: datetime_conflict (its issue is an error), *)
(* canonical_company_unresolved (the company was asked for before) and     *)
(* unnormalized_role_ambiguous (a role without a normalized name raises).  *)
(***************************************************************************)
EXTENDS ExtractionValidation, Naturals, Sequences, Functions

CONSTANTS
    Mails,         \* emails the run may be about
    Extracted,     \* what the model may extract
    Catalog,       \* the company table before the catalog is seeded again
    Seeds,         \* what the new catalog says of some companies
    Applications,  \* open applications of the company the database may show
    Interviews,    \* active interviews of an application it may show
    None,          \* no application, no interview; nothing persisted
    MaxCrashes     \* bound: passes that die

ASSUME WorkflowAssumption ==
    /\ Mails \subseteq Mail /\ \A x \in Extracted : x \in Extraction
    /\ IsDirectory(Catalog) /\ Distinct(Catalog)
    /\ IsDirectory(Seeds) /\ Distinct(Seeds)
    /\ None \notin Applications \cup Interviews /\ None \notin Extracted
    /\ MaxCrashes \in Nat

VARIABLES
    mail,       \* the email, as Graph returns it whenever it is fetched
    directory,  \* the company tables
    at,         \* the node that executes next, or where the run waits
    run,        \* processing_runs.status
    audit,      \* the run's row of llm_extractions
    thread,     \* the checkpointed state
    request,    \* review_request
    persisted,  \* what persist_domain_changes wrote
    crashes

vars == <<mail, directory, at, run, audit, thread, request, persisted, crashes>>

Nodes == {"load_source_email", "normalize_email", "extract_action_links",
          "prefilter_recruitment", "sanitize_content", "extract_recruitment_data",
          "validate_extraction", "request_review", "resolve_application",
          "resolve_existing_event", "plan_state_transition", "persist_domain_changes",
          "sync_calendar", "finalize_processing", "mark_ignored"}

\* The ids of the calendar's reasons are CalendarPlanner's; those without a remedy are one.
CalendarReasons == {"linked_calendar_event_missing", "calendar_unplannable"}
TimeReasons == {"timezone_ambiguity", "timezone_and_datetime", "timezone_and_deadline",
                "datetime_unresolved", "deadline_unresolved"}
Reasons == TimeReasons \cup CalendarReasons \cup
    {"extraction_needs_review", "company_unresolved", "company_ambiguous",
     "multiple_open_applications", "reschedule_target_uncertain"}

NoResolution == [status |-> "unresolved", company |-> NoCompany, candidates |-> {}]
NoAudit == [extraction |-> None, company |-> NoResolution]
Audit == [extraction : Extracted, company : Resolution]

Value == {"none", "naive", "aware", "zoned"}

Thread == [evidence : Audit \cup {NoAudit},
           reviewed : Seq(Reasons),
           zone : BOOLEAN,                              \* reviewed_timezone is set
           start : {"none", "naive", "aware"},          \* reviewed_event_datetime
           deadline : {"none", "naive", "aware"},       \* reviewed_deadline
           company : Companies \cup {NoCompany},        \* reviewed_company_id
           force : BOOLEAN,                             \* force_create_application
           app : Applications \cup {None},              \* selected_application_id
           event : Interviews \cup {None},              \* selected_event_id
           asNew : BOOLEAN,                             \* treat_reschedule_as_new
           skip : BOOLEAN]                              \* skip_calendar_update

NoRequest == [reason |-> "none", choices |-> {}, resume |-> "load_source_email"]

Init ==
    /\ mail \in Mails
    /\ directory = Catalog
    /\ at = "load_source_email" /\ run = "none"
    /\ audit = NoAudit
    /\ thread = [evidence |-> NoAudit, reviewed |-> <<>>, zone |-> FALSE, start |-> "none",
                 deadline |-> "none", company |-> NoCompany, force |-> FALSE, app |-> None,
                 event |-> None, asNew |-> FALSE, skip |-> FALSE]
    /\ request = NoRequest
    /\ persisted = None
    /\ crashes = 0

\* A node ends and the graph goes on to the next one.
Goes(from, to) ==
    /\ at = from /\ at' = to
    /\ run' = "running"
    /\ UNCHANGED <<mail, directory, crashes>>

\* A node raises: the runner finalizes the run.
Raises(node) ==
    /\ at = node /\ at' = "ended"
    /\ run' = "failed"
    /\ UNCHANGED <<mail, directory, audit, thread, request, persisted, crashes>>

-----------------------------------------------------------------------------
(* Preparation and extraction.                                              *)

\* A run that was started under another prompt version or deployment is refused.
LoadSourceEmail ==
    \/ /\ Goes("load_source_email", "normalize_email")
       /\ UNCHANGED <<audit, thread, request, persisted>>
    \/ run # "none" /\ Raises("load_source_email")

\* Graph or the key vault may fail.  The checkpoint gets the sender's domain, the text, the
\* refs and the decision, all of them functions of the email.
NormalizeEmail ==
    \/ /\ Goes("normalize_email", "extract_action_links")
       /\ UNCHANGED <<audit, thread, request, persisted>>
    \/ Raises("normalize_email")

ExtractActionLinks ==
    /\ Goes("extract_action_links", "prefilter_recruitment")
    /\ UNCHANGED <<audit, thread, request, persisted>>

PrefilterRecruitment ==
    /\ Goes("prefilter_recruitment",
            IF Classify(mail) = "unlikely" THEN "mark_ignored" ELSE "sanitize_content")
    /\ UNCHANGED <<audit, thread, request, persisted>>

\* The sanitizer redacts http links; the node refuses any other mark of a URL as well.
SanitizeContent ==
    \/ /\ ~mail.bare
       /\ Goes("sanitize_content", "extract_recruitment_data")
       /\ UNCHANGED <<audit, thread, request, persisted>>
    \/ mail.bare /\ Raises("sanitize_content")

\* resolve_extraction: only evidence that is going to be used is resolved.
Resolved(x) == x.relevant /\ ValidationStatus(x) # "invalid"

Result(x) ==
    [extraction |-> x,
     company |-> IF Resolved(x) THEN Resolve(directory, x.name, SenderDomain(mail))
                 ELSE NoResolution]

\* Fault: the node goes on with what it extracted itself.
RecordedOwn(result) == result

\* record_extraction inserts unless the run has a row, and returns the row.
Recorded(result) == IF audit = NoAudit THEN result ELSE audit

\* The model may fail; a role of punctuation only cannot be normalized.
ExtractRecruitmentData == at = "extract_recruitment_data" /\
    \/ \E x \in Extracted :
           /\ ~(Resolved(x) /\ x.role = "punctuation")
           /\ Goes("extract_recruitment_data", "validate_extraction")
           /\ audit' = IF audit = NoAudit THEN Result(x) ELSE audit
           /\ thread' = [thread EXCEPT !.evidence = Recorded(Result(x))]
           /\ UNCHANGED <<request, persisted>>
    \/ Raises("extract_recruitment_data")

-----------------------------------------------------------------------------
(* Validation and the questions about the extraction.                       *)

Asks(from, reason, choices) ==
    /\ Goes(from, "request_review")
    /\ request' = [reason |-> reason, choices |-> choices, resume |-> from]
    /\ UNCHANGED <<audit, thread, persisted>>

Reviewed == Range(thread.reviewed)
Found == Issues(thread.evidence.extraction)
TimeIssues == {"TIMEZONE_AMBIGUOUS", "DATETIME_UNRESOLVED", "DEADLINE_UNRESOLVED"}

\* Fault: whoever has answered any question has seen the other issues.
OtherIssuesOnce == Found \ TimeIssues # {} /\ Reviewed = {}

OtherIssues == Found \ TimeIssues # {} /\ "extraction_needs_review" \notin Reviewed

\* _next_review_request: the clocks with the zone if that is open too, then the other
\* issues, then the company.
NextQuestion ==
    LET zone == "TIMEZONE_AMBIGUOUS" \in Found /\ Reviewed \cap
                    {"timezone_ambiguity", "timezone_and_datetime", "timezone_and_deadline"} = {}
        start == "DATETIME_UNRESOLVED" \in Found /\
                    Reviewed \cap {"datetime_unresolved", "timezone_and_datetime"} = {}
        deadline == "DEADLINE_UNRESOLVED" \in Found /\
                    Reviewed \cap {"deadline_unresolved", "timezone_and_deadline"} = {}
        company == [resolved |-> "none", ambiguous |-> "company_ambiguous",
                    unresolved |-> "company_unresolved"][thread.evidence.company.status]
    IN  IF zone /\ start THEN "timezone_and_datetime"
        ELSE IF zone /\ deadline THEN "timezone_and_deadline"
        ELSE IF zone THEN "timezone_ambiguity"
        ELSE IF start THEN "datetime_unresolved"
        ELSE IF deadline THEN "deadline_unresolved"
        ELSE IF OtherIssues THEN "extraction_needs_review"
        ELSE IF company \notin Reviewed THEN company
        ELSE "none"

ValidateExtraction == at = "validate_extraction" /\
    LET x == thread.evidence.extraction
        outcome == IF ValidationStatus(x) = "invalid" THEN "finalize_processing"
                   ELSE IF ~x.relevant THEN "mark_ignored" ELSE "resolve_application"
    IN  \/ /\ outcome # "resolve_application" \/ NextQuestion = "none"
           /\ Goes("validate_extraction", outcome)
           /\ UNCHANGED <<audit, thread, request, persisted>>
        \/ /\ outcome = "resolve_application" /\ NextQuestion # "none"
           /\ Asks("validate_extraction", NextQuestion, thread.evidence.company.candidates)

-----------------------------------------------------------------------------
(* request_review: the row is opened, the run waits, and what is answered   *)
(* goes into the checkpoint.                                                *)

RequestReview ==
    /\ at = "request_review" /\ at' = "interrupted"
    /\ run' = "needs_review"
    /\ UNCHANGED <<mail, directory, audit, thread, request, persisted, crashes>>

\* Fault: a decision about the calendar leaves no trace but its effect.
AnsweredByEffect(reason) == IF reason \in CalendarReasons THEN <<>> ELSE <<reason>>

\* What an answered question adds to reviewed_reasons.
Answered(reason) ==
    IF reason = "timezone_and_datetime"
    THEN <<reason, "timezone_ambiguity", "datetime_unresolved">>
    ELSE IF reason = "timezone_and_deadline"
    THEN <<reason, "timezone_ambiguity", "deadline_unresolved">>
    ELSE <<reason>>

\* The human decides, and t is the checkpoint with the decision.
Decides(reasons, to, t) ==
    /\ request.reason \in reasons
    /\ Goes("interrupted", to)
    /\ thread' = [t EXCEPT !.reviewed = @ \o Answered(request.reason)]
    /\ UNCHANGED <<audit, request, persisted>>

AnswerIgnore == Decides(Reasons, "mark_ignored", thread)

\* A clock is typed as asked, without an offset, or in full as ISO 8601.
Typed == {"naive", "aware"}

AnswerTime ==
    \/ Decides({"timezone_ambiguity"}, request.resume, [thread EXCEPT !.zone = TRUE])
    \/ \E clock \in Typed :
           \/ Decides({"timezone_and_datetime"}, request.resume,
                      [thread EXCEPT !.zone = TRUE, !.start = clock])
           \/ Decides({"timezone_and_deadline"}, request.resume,
                      [thread EXCEPT !.zone = TRUE, !.deadline = clock])
           \/ Decides({"datetime_unresolved"}, request.resume, [thread EXCEPT !.start = clock])
           \/ Decides({"deadline_unresolved"}, request.resume,
                      [thread EXCEPT !.deadline = clock])

AnswerExtraction == Decides({"extraction_needs_review"}, request.resume, thread)

AnswerCompany ==
    LET reasons == {"company_unresolved", "company_ambiguous"}
    IN  \/ \E c \in request.choices :
               Decides(reasons, request.resume, [thread EXCEPT !.company = c])
        \/ Decides(reasons, request.resume, [thread EXCEPT !.force = TRUE])

\* Fault: whoever chooses an application is taken to have chosen a company.
ChosenNothing(a) == thread

Chosen(a) == [thread EXCEPT !.app = a]

AnswerApplication ==
    LET reasons == {"multiple_open_applications"}
    IN  \/ \E a \in request.choices : Decides(reasons, request.resume, Chosen(a))
        \/ Decides(reasons, request.resume, [thread EXCEPT !.force = TRUE])

AnswerEvent ==
    LET reasons == {"reschedule_target_uncertain"}
    IN  \/ \E v \in request.choices :
               Decides(reasons, request.resume, [thread EXCEPT !.event = v])
        \/ Decides(reasons, request.resume, [thread EXCEPT !.asNew = TRUE])

\* Only a linked event that is gone can be applied, which replaces it.
AnswerCalendar ==
    \/ Decides({"linked_calendar_event_missing"}, request.resume, thread)
    \/ Decides(CalendarReasons, request.resume, [thread EXCEPT !.skip = TRUE])

-----------------------------------------------------------------------------
(* From the evidence to what is persisted.                                  *)

\* Fault: the reviewed zone is a label only.
BoundLabel(value) == value

\* A reviewed zone binds the wall-clock reading, whatever its offset was.
Bound(value) == IF thread.zone /\ value # "none" THEN "zoned" ELSE value

\* _domain_evidence: what a human typed replaces what was extracted.
Read(typed, extracted) == Bound(IF typed # "none" THEN typed ELSE extracted)

Start == Read(thread.start, thread.evidence.extraction.start.value)
Deadline == Read(thread.deadline, thread.evidence.extraction.deadline.value)
Company == IF thread.company # NoCompany THEN thread.company ELSE thread.evidence.company.company
ZoneKnown == thread.zone \/ thread.evidence.extraction.zone = "explicit"

\* RecruitmentEvidence refuses naive clocks, in every node that builds it.
Refused == "naive" \in {Start, Deadline}

\* evidence_allows_mutation
AllowsMutation ==
    LET x == thread.evidence.extraction
    IN  /\ x.type = "interview_reschedule" => Start # "none"
        /\ x.start.text => Start # "none"
        /\ x.deadline.text => Deadline # "none"
        /\ {Start, Deadline} # {"none"} => ZoneKnown

\* The application: the one the email is linked to, the chosen one if it is still open, the
\* only one, or a new one.
ResolveApplication == at = "resolve_application" /\
    LET linked == persisted # None
        next == Goes("resolve_application", "resolve_existing_event") /\
                UNCHANGED <<audit, thread, request, persisted>>
        certain(open) == IF thread.app # None THEN thread.app \in open
                         ELSE thread.force \/ Cardinality(open) <= 1
    IN  \/ Refused /\ Raises("resolve_application")
        \/ ~Refused /\ (linked \/ Company = NoCompany) /\ next
        \/ /\ ~Refused /\ ~linked /\ Company # NoCompany
           /\ \E open \in SUBSET Applications :
                  \/ certain(open) /\ next
                  \/ /\ ~certain(open) /\ thread.app = None
                     /\ Asks("resolve_application", "multiple_open_applications", open)
                  \/ ~certain(open) /\ thread.app # None /\ Raises("resolve_application")

\* A reschedule: the chosen interview if it is still active, a new one, or the only one.
\* Any other event is found, moved or created without a question.
ResolveExistingEvent == at = "resolve_existing_event" /\
    LET next == Goes("resolve_existing_event", "plan_state_transition") /\
                UNCHANGED <<audit, thread, request, persisted>>
        certain(active) == IF thread.event # None THEN thread.event \in active
                           ELSE thread.asNew \/ Cardinality(active) = 1
    IN  \/ thread.evidence.extraction.type # "interview_reschedule" /\ next
        \/ /\ thread.evidence.extraction.type = "interview_reschedule"
           /\ \E active \in SUBSET Interviews :
                  \/ certain(active) /\ next
                  \/ /\ ~certain(active) /\ thread.event = None
                     /\ Asks("resolve_existing_event", "reschedule_target_uncertain", active)
                  \/ ~certain(active) /\ thread.event # None /\ Raises("resolve_existing_event")

\* An email whose time is not resolved fails visibly.
PlanStateTransition == at = "plan_state_transition" /\
    \/ /\ AllowsMutation
       /\ Goes("plan_state_transition", "persist_domain_changes")
       /\ UNCHANGED <<audit, thread, request, persisted>>
    \/ ~AllowsMutation /\ Raises("plan_state_transition")

\* The store revalidates the plan and raises if its rows have changed.
PersistDomainChanges ==
    \/ /\ Goes("persist_domain_changes", "sync_calendar")
       /\ persisted' = [start |-> Start, deadline |-> Deadline, company |-> Company]
       /\ UNCHANGED <<audit, thread, request>>
    \/ Raises("persist_domain_changes")

\* The identical question cannot make progress: the event is skipped then.
AsksFor(reason) == reason \notin Reviewed

\* The calendar is done with the event, or wants a decision; the provider may fail.
SyncCalendar ==
    \/ \E result \in {"done"} \cup (IF thread.skip THEN {} ELSE CalendarReasons) :
           \/ /\ result = "done" \/ ~AsksFor(result)
              /\ Goes("sync_calendar", "finalize_processing")
              /\ UNCHANGED <<audit, thread, request, persisted>>
           \/ /\ result # "done" /\ AsksFor(result)
              /\ Asks("sync_calendar", result, {})
    \/ Raises("sync_calendar")

Ends(node, outcome) ==
    /\ at = node /\ at' = "ended"
    /\ run' = outcome
    /\ UNCHANGED <<mail, directory, audit, thread, request, persisted, crashes>>

\* A refused extraction ends the run as failed.
FinalizeProcessing ==
    Ends("finalize_processing",
         IF ValidationStatus(thread.evidence.extraction) = "invalid" THEN "failed"
         ELSE "completed")

MarkIgnored == Ends("mark_ignored", "ignored")

-----------------------------------------------------------------------------
(* What happens to the run from outside.                                    *)

\* The operation dies before anything was answered, ...
Crash ==
    /\ at \in Nodes \cup {"interrupted"} /\ thread.reviewed = <<>>
    /\ crashes < MaxCrashes
    /\ at' = "crashed" /\ crashes' = crashes + 1
    /\ UNCHANGED <<mail, directory, run, audit, thread, request, persisted>>

\* ... and starts the run again on its thread.
Retry ==
    /\ at = "crashed" /\ at' = "load_source_email"
    /\ UNCHANGED <<mail, directory, run, audit, thread, request, persisted, crashes>>

\* One company of the new catalog, in a transaction of its own; a canonical name that
\* another company has is refused.
Seed(c) ==
    /\ directory' = Upserted(directory, c, Seeds[c])
    /\ Distinct(directory')
    /\ UNCHANGED <<mail, at, run, audit, thread, request, persisted, crashes>>

Node ==
    \/ LoadSourceEmail \/ NormalizeEmail \/ ExtractActionLinks \/ PrefilterRecruitment
    \/ SanitizeContent \/ ExtractRecruitmentData \/ ValidateExtraction \/ RequestReview
    \/ ResolveApplication \/ ResolveExistingEvent \/ PlanStateTransition
    \/ PersistDomainChanges \/ SyncCalendar \/ FinalizeProcessing \/ MarkIgnored

Decision ==
    \/ AnswerIgnore \/ AnswerTime \/ AnswerExtraction \/ AnswerCompany
    \/ AnswerApplication \/ AnswerEvent \/ AnswerCalendar

Next == Node \/ Decision \/ Crash \/ Retry \/ \E c \in DOMAIN Seeds : Seed(c)

\* Nodes execute, a dead operation is delivered again, and someone reads the reviews.
Fairness == WF_vars(Node \/ Decision \/ Retry)

Spec == Init /\ [][Next]_vars /\ Fairness

-----------------------------------------------------------------------------
(* Properties.                                                              *)

\* The checkpoint holds what the graph can put there.
TypeOK ==
    /\ mail \in Mails /\ IsDirectory(directory) /\ Distinct(directory)
    /\ at \in Nodes \cup {"interrupted", "crashed", "ended"}
    /\ run \in {"none", "running", "needs_review", "completed", "ignored", "failed"}
    /\ audit \in Audit \cup {NoAudit}
    /\ thread \in Thread
    /\ request.reason \in Reasons \cup {"none"}
    /\ request.choices \subseteq Companies \cup Applications \cup Interviews
    /\ persisted \in {None} \cup
           [start : Value, deadline : Value, company : Companies \cup {NoCompany}]
    /\ crashes \in 0 .. MaxCrashes

\* However often a run is started again and whatever the model says then, it goes on with
\* the extraction it recorded first: the review page shows the row, so an answer is never
\* applied to evidence the reviewer has not seen.
EvidenceIsAudited == thread.evidence = audit

\* Every clock that is persisted is in a zone the email states or a human chose, and no
\* time the email writes about is dropped on the way through questions and checkpoints.
PersistedIsSound ==
    persisted # None =>
        LET x == audit.extraction
            sound(value, text) == /\ value # "naive"
                                  /\ value = "aware" => x.zone = "explicit"
                                  /\ text => value # "none"
        IN  sound(persisted.start, x.start.text) /\ sound(persisted.deadline, x.deadline.text)

\* The question that settles an issue.
QuestionOf(issue) ==
    IF issue = "TIMEZONE_AMBIGUOUS" THEN "timezone_ambiguity"
    ELSE IF issue = "DATETIME_UNRESOLVED" THEN "datetime_unresolved"
    ELSE IF issue = "DEADLINE_UNRESOLVED" THEN "deadline_unresolved"
    ELSE "extraction_needs_review"

\* Nothing is persisted before a human has answered for every doubt the validation raised
\* (_next_review_request asks for one after the other, and for two at once).
DoubtsAreAnswered ==
    persisted # None => \A issue \in Issues(audit.extraction) : QuestionOf(issue) \in Reviewed

\* An email sent from a personal mailbox that names no company is never filed under one,
\* whatever domains the catalog gives its companies.
MailboxIsNoEmployer ==
    persisted # None /\ SenderDomain(mail) \in Personal /\ audit.extraction.name = NoName =>
        persisted.company = NoCompany

\* A human is never asked the same question twice in a run, and no question is opened for
\* what an earlier answer has settled.
NoQuestionTwice ==
    /\ Cardinality(Reviewed) = Len(thread.reviewed)
    /\ at \in {"request_review", "interrupted"} => request.reason \notin Reviewed

\* Every run ends, if its questions are answered.
RunEnds == <>(at = "ended")

\* docs/05_OPERATIONS.md: a run that fails after the override means that the supplied clock
\* is still unusable; docs/04_GRAPH_WORKFLOW.md has it as YYYY-MM-DD HH:MM.
AnswersSuffice ==
    at = "resolve_application" => ~Refused
=============================================================================
