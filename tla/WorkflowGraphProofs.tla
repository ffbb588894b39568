-------------------------- MODULE WorkflowGraphProofs --------------------------
(***************************************************************************)
(* Proofs about WorkflowGraph, for every catalog, every email and whatever *)
(* a language model may extract from it: the types, that a run goes on     *)
(* with the extraction it recorded first, that every doubt was put to a    *)
(* human before anything is persisted, that what is persisted is sound,    *)
(* that a personal mailbox names no employer, and that no question is      *)
(* asked twice.                                                            *)
(***************************************************************************)
EXTENDS WorkflowGraph, SequenceTheorems, FiniteSetTheorems, TLAPS

\* Where the run has an extraction.
Extracting == {"validate_extraction", "request_review", "interrupted", "resolve_application",
               "resolve_existing_event", "plan_state_transition", "persist_domain_changes",
               "sync_calendar", "finalize_processing"}

Request == [reason : Reasons \cup {"none"}, resume : Nodes,
            choices : SUBSET (Companies \cup Applications \cup Interviews)]

CompanyReasons == {"company_unresolved", "company_ambiguous"}

\* Each question is asked by one node, and offers what that node has found.
Asked ==
    /\ request.reason \in CompanyReasons => request.choices = audit.company.candidates
    /\ request.reason = "multiple_open_applications" =>
           request.resume = "resolve_application" /\ request.choices \subseteq Applications
    /\ request.reason = "reschedule_target_uncertain" =>
           request.resume = "resolve_existing_event" /\ request.choices \subseteq Interviews
    /\ request.reason \in CalendarReasons => request.resume = "sync_calendar"
    /\ request.reason \in TimeReasons \cup CompanyReasons \cup {"extraction_needs_review"} =>
           request.resume = "validate_extraction"

\* Nothing is asked or persisted without an extraction.
Grounded ==
    (at \in Extracting \/ persisted # None \/ request.reason # "none") => audit \in Audit

GraphInv == TypeOK /\ request \in Request /\ Asked /\ Grounded /\ EvidenceIsAudited

-----------------------------------------------------------------------------
(* The directory and the checkpoint.                                        *)

\* A resolution names companies only, and an unresolved or ambiguous one names none.
LEMMA ResolveTypes ==
    ASSUME NEW d, IsDirectory(d), NEW name, NEW domain
    PROVE  Resolve(d, name, domain) \in Resolution
  <1> DEFINE matches == NameMatches(d, name) \cup DomainMatches(d, domain)
  <1>1. matches \subseteq Companies
    BY DEF NameMatches, DomainMatches, Canonical, Alias, OfDomain, Active, IsDirectory
  <1>2. matches # {} => (CHOOSE c \in matches : TRUE) \in Companies
    <2>1. matches # {} => (CHOOSE c \in matches : TRUE) \in matches
      BY Zenon
    <2> QED  BY <1>1, <2>1
  <1> HIDE DEF matches
  <1> SUFFICES (IF Cardinality(matches) > 1
                THEN [status |-> "ambiguous", company |-> NoCompany, candidates |-> matches]
                ELSE IF matches = {}
                THEN [status |-> "unresolved", company |-> NoCompany, candidates |-> {}]
                ELSE [status |-> "resolved", company |-> CHOOSE c \in matches : TRUE,
                      candidates |-> {}]) \in Resolution
    BY DEF Resolve, matches
  <1>3. CASE Cardinality(matches) > 1
    BY <1>1, <1>3 DEF Resolution
  <1>4. CASE ~(Cardinality(matches) > 1) /\ matches = {}
    BY <1>4 DEF Resolution
  <1>5. CASE ~(Cardinality(matches) > 1) /\ matches # {}
    BY <1>2, <1>5 DEF Resolution
  <1> QED  BY <1>3, <1>4, <1>5

LEMMA ResultTypes ==
    ASSUME TypeOK, NEW x \in Extracted
    PROVE  Result(x) \in Audit
  <1>1. NoResolution \in Resolution
    BY DEF NoResolution, Resolution
  <1>2. Resolve(directory, x.name, SenderDomain(mail)) \in Resolution
    BY ResolveTypes DEF TypeOK
  <1> QED  BY <1>1, <1>2 DEF Result, Audit

\* A seeded company leaves a directory.
LEMMA SeedTypes ==
    ASSUME IsDirectory(directory), NEW c \in DOMAIN Seeds
    PROVE  IsDirectory(Upserted(directory, c, Seeds[c]))
  <1> DEFINE seed == Seeds[c]
             known == IF c \in DOMAIN directory THEN directory[c] ELSE seed
             row == [seed EXCEPT !.aliases = @ \cup known.aliases,
                                 !.domains = @ \cup known.domains]
  <1>1. seed \in Entry /\ c \in Companies
    BY WorkflowAssumption DEF IsDirectory
  <1>2. known \in Entry
    BY <1>1 DEF IsDirectory
  <1>3. row \in Entry
    <2> HIDE DEF seed, known
    <2> QED  BY <1>1, <1>2 DEF Entry
  <1>4. Upserted(directory, c, seed)
            = [d \in DOMAIN directory \cup {c} |-> IF d = c THEN row ELSE directory[d]]
    BY DEF Upserted
  <1> HIDE DEF row, known, seed
  <1> QED  BY <1>1, <1>3, <1>4 DEF IsDirectory, seed

LEMMA GraphInit == Init => GraphInv
  <1> SUFFICES ASSUME Init PROVE GraphInv
    OBVIOUS
  <1>1. thread \in Thread
    <2>1. <<>> \in Seq(Reasons)
      OBVIOUS
    <2> QED  BY <2>1 DEF Init, Thread
  <1>2. TypeOK
    BY <1>1, WorkflowAssumption DEF Init, TypeOK, Nodes, NoRequest
  <1>3. request \in Request /\ Asked
    BY DEF Init, Request, Asked, NoRequest, Nodes, CompanyReasons, CalendarReasons, TimeReasons
  <1>4. Grounded /\ EvidenceIsAudited
    BY DEF Init, Grounded, EvidenceIsAudited, Extracting, NoRequest
  <1> QED  BY <1>2, <1>3, <1>4 DEF GraphInv

-----------------------------------------------------------------------------
(* Every step is of one of five kinds.                                      *)

\* Nodes that execute once the extraction is settled.
Deep == {"resolve_application", "resolve_existing_event", "plan_state_transition",
         "persist_domain_changes", "sync_calendar"}

Waits == {"request_review", "interrupted"}

Elsewhere == (Nodes \cup {"crashed", "ended"})
                \ (Deep \cup Waits \cup {"validate_extraction", "finalize_processing"})

\* A step that only moves on.
Silent ==
    /\ UNCHANGED <<audit, thread, request, persisted>>
    /\ \/ at' \in Elsewhere \/ at' = at
       \/ at' = "finalize_processing" /\ at \in Extracting
       \/ /\ at = "validate_extraction" /\ at' = "resolve_application"
          /\ NextQuestion = "none" /\ ValidationStatus(thread.evidence.extraction) # "invalid"
       \/ at = "resolve_application" /\ at' = "resolve_existing_event" /\ ~Refused
       \/ at = "resolve_existing_event" /\ at' = "plan_state_transition"
       \/ at = "plan_state_transition" /\ at' = "persist_domain_changes" /\ AllowsMutation
       \/ at = "request_review" /\ at' = "interrupted"

Extracts ==
    /\ at = "extract_recruitment_data" /\ at' = "validate_extraction"
    /\ \E x \in Extracted :
           /\ audit' = IF audit = NoAudit THEN Result(x) ELSE audit
           /\ thread' = [thread EXCEPT !.evidence = Recorded(Result(x))]
    /\ UNCHANGED <<request, persisted>>

\* A node opens the question it may ask.
Questions ==
    /\ at' = "request_review"
    /\ \/ /\ at = "validate_extraction"
          /\ request'.reason \in TimeReasons \cup CompanyReasons \cup {"extraction_needs_review"}
          /\ request'.choices = thread.evidence.company.candidates
       \/ /\ at = "resolve_application"
          /\ request'.reason = "multiple_open_applications"
          /\ request'.choices \subseteq Applications
       \/ /\ at = "resolve_existing_event" /\ request'.reason = "reschedule_target_uncertain"
          /\ request'.choices \subseteq Interviews
       \/ /\ at = "sync_calendar" /\ request'.reason \in CalendarReasons
          /\ request'.choices = {}
    /\ request' = [reason |-> request'.reason, choices |-> request'.choices, resume |-> at]
    /\ UNCHANGED <<audit, thread, persisted>>

\* An answer changes what its question is about, and counts as reviewed.
Settles ==
    /\ at = "interrupted" /\ at' \in {request.resume, "mark_ignored"}
    /\ request.reason \in Reasons
    /\ thread' \in Thread
    /\ thread'.evidence = thread.evidence
    /\ thread'.reviewed = thread.reviewed \o Answered(request.reason)
    /\ thread'.company # thread.company =>
           request.reason \in CompanyReasons /\ thread'.company \in request.choices
    /\ request.reason \notin TimeReasons =>
           /\ thread'.zone = thread.zone /\ thread'.start = thread.start
           /\ thread'.deadline = thread.deadline
    /\ UNCHANGED <<audit, request, persisted>>

Persists ==
    /\ at = "persist_domain_changes" /\ at' = "sync_calendar"
    /\ persisted' = [start |-> Start, deadline |-> Deadline, company |-> Company]
    /\ UNCHANGED <<audit, thread, request>>

\* What no kind of step disturbs.
Outside ==
    /\ mail' = mail
    /\ IsDirectory(directory') /\ Distinct(directory')
    /\ run' \in {"none", "running", "needs_review", "completed", "ignored", "failed"}
    /\ crashes' \in 0 .. MaxCrashes

Kind == (Silent \/ Extracts \/ Questions \/ Settles \/ Persists) /\ Outside

LEMMA RaiseKind ==
    ASSUME GraphInv, NEW node, Raises(node) PROVE Kind
  BY DEF Raises, Kind, Silent, Elsewhere, Deep, Waits, Nodes, Outside, GraphInv, TypeOK

LEMMA GoesOutside ==
    ASSUME GraphInv, NEW from, NEW to, Goes(from, to) PROVE Outside
  BY DEF Goes, Outside, GraphInv, TypeOK

\* Preparation decides where the run goes, nothing else.
LEMMA PreparationKind ==
    ASSUME GraphInv,
           \/ LoadSourceEmail \/ NormalizeEmail \/ ExtractActionLinks \/ PrefilterRecruitment
           \/ SanitizeContent
    PROVE  Kind
  <1> USE DEF Kind, Silent, Elsewhere, Deep, Waits, Nodes
  <1>1. CASE LoadSourceEmail
    BY <1>1, RaiseKind, GoesOutside DEF LoadSourceEmail, Goes
  <1>2. CASE NormalizeEmail
    BY <1>2, RaiseKind, GoesOutside DEF NormalizeEmail, Goes
  <1>3. CASE ExtractActionLinks
    BY <1>3, GoesOutside DEF ExtractActionLinks, Goes
  <1>4. CASE PrefilterRecruitment
    <2>1. \E to \in {"mark_ignored", "sanitize_content"} : Goes("prefilter_recruitment", to)
      BY <1>4 DEF PrefilterRecruitment
    <2> QED  BY <1>4, <2>1, GoesOutside DEF PrefilterRecruitment, Goes
  <1>5. CASE SanitizeContent
    BY <1>5, RaiseKind, GoesOutside DEF SanitizeContent, Goes
  <1> QED  BY <1>1, <1>2, <1>3, <1>4, <1>5

LEMMA ExtractKind ==
    ASSUME GraphInv, ExtractRecruitmentData PROVE Kind
  <1>1. CASE Raises("extract_recruitment_data")
    BY <1>1, RaiseKind
  <1>2. CASE ~Raises("extract_recruitment_data")
    <2>1. PICK x \in Extracted :
             /\ Goes("extract_recruitment_data", "validate_extraction")
             /\ audit' = IF audit = NoAudit THEN Result(x) ELSE audit
             /\ thread' = [thread EXCEPT !.evidence = Recorded(Result(x))]
             /\ UNCHANGED <<request, persisted>>
      BY <1>2 DEF ExtractRecruitmentData
    <2> QED  BY <2>1, GoesOutside DEF Kind, Extracts, Goes
  <1> QED  BY <1>1, <1>2

LEMMA AskKind ==
    ASSUME GraphInv, NEW from, NEW reason, NEW choices, Asks(from, reason, choices),
           \/ /\ from = "validate_extraction"
              /\ reason \in TimeReasons \cup CompanyReasons \cup {"extraction_needs_review"}
              /\ choices = thread.evidence.company.candidates
           \/ /\ from = "resolve_application" /\ reason = "multiple_open_applications"
              /\ choices \subseteq Applications
           \/ /\ from = "resolve_existing_event" /\ reason = "reschedule_target_uncertain"
              /\ choices \subseteq Interviews
           \/ from = "sync_calendar" /\ reason \in CalendarReasons /\ choices = {}
    PROVE  Kind
  <1>1. Outside
    BY GoesOutside DEF Asks
  <1>2. Questions
    BY DEF Asks, Goes, Questions
  <1> QED  BY <1>1, <1>2 DEF Kind

\* What is asked about the extraction, if anything.
LEMMA NextReasons ==
    NextQuestion \in TimeReasons \cup CompanyReasons \cup {"extraction_needs_review", "none"}
        \/ NextQuestion = [resolved |-> "none", ambiguous |-> "company_ambiguous",
                           unresolved |-> "company_unresolved"][thread.evidence.company.status]
  BY Zenon DEF NextQuestion, TimeReasons

LEMMA ValidateKind ==
    ASSUME GraphInv, ValidateExtraction PROVE Kind
  <1> DEFINE x == thread.evidence.extraction
             outcome == IF ValidationStatus(x) = "invalid" THEN "finalize_processing"
                        ELSE IF ~x.relevant THEN "mark_ignored" ELSE "resolve_application"
  <1>1. CASE outcome = "resolve_application" /\ NextQuestion # "none"
    <2>1. Asks("validate_extraction", NextQuestion, thread.evidence.company.candidates)
      BY <1>1, Zenon DEF ValidateExtraction
    <2>2. thread.evidence.company.status \in {"resolved", "ambiguous", "unresolved"}
      <3>1. at = "validate_extraction"
        BY DEF ValidateExtraction
      <3>2. audit \in Audit /\ thread.evidence = audit
        BY <3>1 DEF GraphInv, Grounded, Extracting, EvidenceIsAudited
      <3> QED  BY <3>2 DEF Audit, Resolution
    <2>3. NextQuestion \in TimeReasons \cup CompanyReasons \cup {"extraction_needs_review"}
      BY <1>1, <2>2, NextReasons DEF CompanyReasons
    <2> QED  BY <2>1, <2>3, AskKind
  <1>2. CASE outcome # "resolve_application" \/ NextQuestion = "none"
    <2>1. /\ Goes("validate_extraction", outcome)
          /\ UNCHANGED <<audit, thread, request, persisted>>
      BY <1>2, Zenon DEF ValidateExtraction
    <2>2. Outside
      BY <2>1, GoesOutside
    <2>3. CASE outcome = "resolve_application"
      BY <1>2, <2>1, <2>2, <2>3 DEF Kind, Silent, Goes
    <2>4. CASE outcome \in {"finalize_processing", "mark_ignored"}
      BY <2>1, <2>2, <2>4
         DEF Kind, Silent, Goes, Extracting, Elsewhere, Nodes, Deep, Waits
    <2> QED  BY <2>3, <2>4
  <1> QED  BY <1>1, <1>2

LEMMA AnsweredTypes ==
    ASSUME NEW reason \in Reasons PROVE Answered(reason) \in Seq(Reasons)
  <1>1. {"timezone_ambiguity", "datetime_unresolved", "deadline_unresolved"} \subseteq Reasons
    BY DEF Reasons, TimeReasons
  <1>2. <<reason>> \in Seq(Reasons)
    OBVIOUS
  <1>3. <<reason, "timezone_ambiguity", "datetime_unresolved">> \in Seq(Reasons)
    BY <1>1
  <1>4. <<reason, "timezone_ambiguity", "deadline_unresolved">> \in Seq(Reasons)
    BY <1>1
  <1> QED  BY <1>2, <1>3, <1>4 DEF Answered

\* What an answer leaves in the checkpoint it changes.
Keeps(t) ==
    /\ t \in Thread /\ t.evidence = thread.evidence /\ t.reviewed = thread.reviewed

KeepsClocks(t) ==
    t.zone = thread.zone /\ t.start = thread.start /\ t.deadline = thread.deadline

LEMMA CompanyField ==
    ASSUME thread \in Thread, NEW c \in Companies
    PROVE  LET t == [thread EXCEPT !.company = c]
           IN  Keeps(t) /\ KeepsClocks(t) /\ t.company = c
  BY DEF Thread, Keeps, KeepsClocks

\* The choices that are not about clocks or the company.
Choice ==
    {[thread EXCEPT !.force = TRUE], [thread EXCEPT !.asNew = TRUE], [thread EXCEPT !.skip = TRUE]}
    \cup {[thread EXCEPT !.app = a] : a \in Applications}
    \cup {[thread EXCEPT !.event = v] : v \in Interviews}

LEMMA ChoiceFields ==
    ASSUME thread \in Thread, NEW t \in Choice
    PROVE  Keeps(t) /\ KeepsClocks(t) /\ t.company = thread.company
  <1> USE DEF Thread, Keeps, KeepsClocks
  <1>1. CASE t = [thread EXCEPT !.force = TRUE]
    BY <1>1
  <1>2. CASE t = [thread EXCEPT !.asNew = TRUE]
    BY <1>2
  <1>3. CASE t = [thread EXCEPT !.skip = TRUE]
    BY <1>3
  <1>4. ASSUME NEW a \in Applications, t = [thread EXCEPT !.app = a]
        PROVE  Keeps(t) /\ KeepsClocks(t) /\ t.company = thread.company
    BY <1>4
  <1>5. ASSUME NEW v \in Interviews, t = [thread EXCEPT !.event = v]
        PROVE  Keeps(t) /\ KeepsClocks(t) /\ t.company = thread.company
    BY <1>5
  <1> HIDE DEF Thread, Keeps, KeepsClocks
  <1> QED  BY <1>1, <1>2, <1>3, <1>4, <1>5 DEF Choice

LEMMA ClockFields ==
    ASSUME thread \in Thread, NEW c \in Typed,
           NEW t \in {[thread EXCEPT !.zone = TRUE],
                      [thread EXCEPT !.zone = TRUE, !.start = c],
                      [thread EXCEPT !.zone = TRUE, !.deadline = c],
                      [thread EXCEPT !.start = c], [thread EXCEPT !.deadline = c]}
    PROVE  Keeps(t) /\ t.company = thread.company
  <1> USE DEF Thread, Keeps, Typed
  <1>1. CASE t = [thread EXCEPT !.zone = TRUE]
    BY <1>1
  <1>2. CASE t = [thread EXCEPT !.zone = TRUE, !.start = c]
    BY <1>2
  <1>3. CASE t = [thread EXCEPT !.zone = TRUE, !.deadline = c]
    BY <1>3
  <1>4. CASE t = [thread EXCEPT !.start = c]
    BY <1>4
  <1>5. CASE t = [thread EXCEPT !.deadline = c]
    BY <1>5
  <1> HIDE DEF Thread, Keeps, Typed
  <1> QED  BY <1>1, <1>2, <1>3, <1>4, <1>5

LEMMA DecideKind ==
    ASSUME GraphInv, NEW reasons \in SUBSET Reasons, NEW to \in {request.resume, "mark_ignored"},
           NEW t \in Thread, Decides(reasons, to, t),
           t.evidence = thread.evidence, t.reviewed = thread.reviewed,
           t.company # thread.company =>
               request.reason \in CompanyReasons /\ t.company \in request.choices,
           request.reason \notin TimeReasons =>
               t.zone = thread.zone /\ t.start = thread.start /\ t.deadline = thread.deadline
    PROVE  Kind
  <1>1. Outside
    BY GoesOutside DEF Decides
  <1>2. request.reason \in Reasons /\ at = "interrupted" /\ at' = to
    BY DEF Decides, Goes
  <1>3. t.reviewed \in Seq(Reasons)
    BY DEF Thread
  <1>4. t.reviewed \o Answered(request.reason) \in Seq(Reasons)
    BY <1>2, <1>3, AnsweredTypes
  <1>5. thread' = [t EXCEPT !.reviewed = t.reviewed \o Answered(request.reason)]
    BY DEF Decides
  <1>6. /\ thread' \in Thread /\ thread'.evidence = t.evidence /\ thread'.company = t.company
        /\ thread'.reviewed = t.reviewed \o Answered(request.reason)
        /\ thread'.zone = t.zone /\ thread'.start = t.start /\ thread'.deadline = t.deadline
    BY <1>4, <1>5 DEF Thread
  <1>7. UNCHANGED <<audit, request, persisted>>
    BY DEF Decides
  <1>8. Settles
    BY <1>2, <1>6, <1>7 DEF Settles
  <1> QED  BY <1>1, <1>8 DEF Kind

\* Every answer keeps the extraction, and only one about the company changes the company.
LEMMA DecisionKind == ASSUME GraphInv, Decision PROVE Kind
  <1>t. thread \in Thread /\ request \in Request
    BY DEF GraphInv, TypeOK
  <1>r. /\ TimeReasons \subseteq Reasons /\ CompanyReasons \subseteq Reasons
        /\ CalendarReasons \subseteq Reasons
        /\ {"extraction_needs_review", "multiple_open_applications",
            "reschedule_target_uncertain", "linked_calendar_event_missing"} \subseteq Reasons
    BY DEF Reasons, CompanyReasons, CalendarReasons
  <1>1. CASE AnswerIgnore
    BY <1>1, <1>t, DecideKind DEF AnswerIgnore
  <1>2. CASE AnswerTime
    <2>1. ASSUME NEW c \in Typed, NEW reason \in TimeReasons,
                 NEW t \in {[thread EXCEPT !.zone = TRUE],
                            [thread EXCEPT !.zone = TRUE, !.start = c],
                            [thread EXCEPT !.zone = TRUE, !.deadline = c],
                            [thread EXCEPT !.start = c], [thread EXCEPT !.deadline = c]},
                 Decides({reason}, request.resume, t)
          PROVE  Kind
      <3>1. t \in Thread /\ t.evidence = thread.evidence /\ t.reviewed = thread.reviewed
            /\ t.company = thread.company
        BY <1>t, ClockFields DEF Keeps
      <3>2. request.reason \in TimeReasons /\ {reason} \in SUBSET Reasons
        BY <2>1, <1>r DEF Decides
      <3> QED  BY <2>1, <3>1, <3>2, DecideKind
    <2>2. "naive" \in Typed /\ {"timezone_ambiguity", "timezone_and_datetime",
              "timezone_and_deadline", "datetime_unresolved", "deadline_unresolved"}
                  \subseteq TimeReasons
      BY DEF Typed, TimeReasons
    <2>3. CASE Decides({"timezone_ambiguity"}, request.resume, [thread EXCEPT !.zone = TRUE])
      BY <2>1, <2>2, <2>3
    <2>4. ASSUME NEW c \in Typed,
                 \/ Decides({"timezone_and_datetime"}, request.resume,
                            [thread EXCEPT !.zone = TRUE, !.start = c])
                 \/ Decides({"timezone_and_deadline"}, request.resume,
                            [thread EXCEPT !.zone = TRUE, !.deadline = c])
                 \/ Decides({"datetime_unresolved"}, request.resume, [thread EXCEPT !.start = c])
                 \/ Decides({"deadline_unresolved"}, request.resume, [thread EXCEPT !.deadline = c])
          PROVE  Kind
      BY <2>1, <2>2, <2>4
    <2> QED  BY <1>2, <2>3, <2>4 DEF AnswerTime
  <1>3. CASE AnswerExtraction
    BY <1>3, <1>t, <1>r, DecideKind DEF AnswerExtraction
  <1>4. CASE AnswerCompany
    <2>1. CASE Decides(CompanyReasons, request.resume, [thread EXCEPT !.force = TRUE])
      BY <2>1, <1>t, <1>r, ChoiceFields, DecideKind DEF Choice, Keeps, KeepsClocks
    <2>2. ASSUME NEW c \in request.choices,
                 Decides(CompanyReasons, request.resume, [thread EXCEPT !.company = c])
          PROVE  Kind
      <3>1. request.reason \in CompanyReasons /\ at = "interrupted"
        BY <2>2 DEF Decides, Goes
      <3>2. request.choices = audit.company.candidates /\ audit \in Audit
        BY <3>1 DEF GraphInv, Asked, Grounded, Extracting
      <3>3. c \in Companies
        BY <3>2 DEF Audit, Resolution
      <3> DEFINE t == [thread EXCEPT !.company = c]
      <3>4. Keeps(t) /\ KeepsClocks(t) /\ t.company = c
        BY <3>3, <1>t, CompanyField
      <3>5. Decides(CompanyReasons, request.resume, t)
        BY <2>2
      <3> HIDE DEF t
      <3> QED  BY <1>r, <3>1, <3>4, <3>5, DecideKind DEF Keeps, KeepsClocks
    <2> QED  BY <1>4, <2>1, <2>2 DEF AnswerCompany, CompanyReasons
  <1>5. CASE AnswerApplication
    <2>1. CASE Decides({"multiple_open_applications"}, request.resume,
                       [thread EXCEPT !.force = TRUE])
      BY <2>1, <1>t, <1>r, ChoiceFields, DecideKind DEF Choice, Keeps, KeepsClocks
    <2>2. ASSUME NEW a \in request.choices,
                 Decides({"multiple_open_applications"}, request.resume, Chosen(a))
          PROVE  Kind
      <3>1. a \in Applications
        BY <2>2 DEF Decides, GraphInv, Asked
      <3> QED
        BY <2>2, <3>1, <1>t, <1>r, ChoiceFields, DecideKind
           DEF Choice, Chosen, Keeps, KeepsClocks
    <2> QED  BY <1>5, <2>1, <2>2 DEF AnswerApplication
  <1>6. CASE AnswerEvent
    <2>1. CASE Decides({"reschedule_target_uncertain"}, request.resume,
                       [thread EXCEPT !.asNew = TRUE])
      BY <2>1, <1>t, <1>r, ChoiceFields, DecideKind DEF Choice, Keeps, KeepsClocks
    <2>2. ASSUME NEW v \in request.choices,
                 Decides({"reschedule_target_uncertain"}, request.resume,
                         [thread EXCEPT !.event = v])
          PROVE  Kind
      <3>1. v \in Interviews
        BY <2>2 DEF Decides, GraphInv, Asked
      <3> QED
        BY <2>2, <3>1, <1>t, <1>r, ChoiceFields, DecideKind DEF Choice, Keeps, KeepsClocks
    <2> QED  BY <1>6, <2>1, <2>2 DEF AnswerEvent
  <1>7. CASE AnswerCalendar
    <2>1. CASE Decides(CalendarReasons, request.resume, [thread EXCEPT !.skip = TRUE])
      BY <2>1, <1>t, <1>r, ChoiceFields, DecideKind DEF Choice, Keeps, KeepsClocks
    <2>2. CASE Decides({"linked_calendar_event_missing"}, request.resume, thread)
      BY <2>2, <1>t, <1>r, DecideKind
    <2> QED  BY <1>7, <2>1, <2>2 DEF AnswerCalendar
  <1> QED  BY <1>1, <1>2, <1>3, <1>4, <1>5, <1>6, <1>7 DEF Decision

LEMMA ApplicationKind == ASSUME GraphInv, ResolveApplication PROVE Kind
  <1>1. CASE Raises("resolve_application")
    BY <1>1, RaiseKind
  <1>2. ASSUME NEW open \in SUBSET Applications,
               Asks("resolve_application", "multiple_open_applications", open)
        PROVE  Kind
    BY <1>2, AskKind
  <1>3. CASE ~Refused /\ Goes("resolve_application", "resolve_existing_event")
                      /\ UNCHANGED <<audit, thread, request, persisted>>
    BY <1>3, GoesOutside DEF Kind, Silent, Goes
  <1> QED  BY <1>1, <1>2, <1>3, Zenon DEF ResolveApplication

LEMMA EventKind == ASSUME GraphInv, ResolveExistingEvent PROVE Kind
  <1>1. CASE Raises("resolve_existing_event")
    BY <1>1, RaiseKind
  <1>2. ASSUME NEW active \in SUBSET Interviews,
               Asks("resolve_existing_event", "reschedule_target_uncertain", active)
        PROVE  Kind
    BY <1>2, AskKind
  <1>3. CASE Goes("resolve_existing_event", "plan_state_transition")
             /\ UNCHANGED <<audit, thread, request, persisted>>
    BY <1>3, GoesOutside DEF Kind, Silent, Goes
  <1> QED  BY <1>1, <1>2, <1>3, Zenon DEF ResolveExistingEvent

LEMMA PlanKind == ASSUME GraphInv, PlanStateTransition PROVE Kind
  <1>1. CASE Raises("plan_state_transition")
    BY <1>1, RaiseKind
  <1>2. CASE AllowsMutation /\ Goes("plan_state_transition", "persist_domain_changes")
             /\ UNCHANGED <<audit, thread, request, persisted>>
    BY <1>2, GoesOutside DEF Kind, Silent, Goes
  <1> QED  BY <1>1, <1>2, Zenon DEF PlanStateTransition

LEMMA PersistKind == ASSUME GraphInv, PersistDomainChanges PROVE Kind
  <1>1. CASE Raises("persist_domain_changes")
    BY <1>1, RaiseKind
  <1>2. CASE /\ Goes("persist_domain_changes", "sync_calendar")
             /\ persisted' = [start |-> Start, deadline |-> Deadline, company |-> Company]
             /\ UNCHANGED <<audit, thread, request>>
    BY <1>2, GoesOutside DEF Kind, Persists, Goes
  <1> QED  BY <1>1, <1>2 DEF PersistDomainChanges

LEMMA CalendarKind == ASSUME GraphInv, SyncCalendar PROVE Kind
  <1>1. CASE Raises("sync_calendar")
    BY <1>1, RaiseKind
  <1>2. ASSUME NEW reason \in CalendarReasons, Asks("sync_calendar", reason, {})
        PROVE  Kind
    BY <1>2, AskKind
  <1>3. CASE Goes("sync_calendar", "finalize_processing")
             /\ UNCHANGED <<audit, thread, request, persisted>>
    BY <1>3, GoesOutside DEF Kind, Silent, Goes, Extracting
  <1>4. ASSUME ~Raises("sync_calendar"),
               ~(Goes("sync_calendar", "finalize_processing")
                 /\ UNCHANGED <<audit, thread, request, persisted>>)
        PROVE  \E reason \in CalendarReasons : Asks("sync_calendar", reason, {})
    <2>1. PICK result \in {"done"} \cup (IF thread.skip THEN {} ELSE CalendarReasons) :
             result # "done" /\ Asks("sync_calendar", result, {})
      BY <1>4 DEF SyncCalendar
    <2>2. result \in CalendarReasons
      BY <2>1
    <2> QED  BY <2>1, <2>2
  <1> QED  BY <1>1, <1>2, <1>3, <1>4

\* The run waits for its review, or ends, dies or starts again.
LEMMA RunKind ==
    ASSUME GraphInv, RequestReview \/ FinalizeProcessing \/ MarkIgnored \/ Crash \/ Retry
    PROVE  Kind
  <1> USE DEF Kind, Silent, Outside, GraphInv, TypeOK
  <1>1. CASE RequestReview
    BY <1>1 DEF RequestReview
  <1>2. CASE FinalizeProcessing \/ MarkIgnored
    BY <1>2 DEF FinalizeProcessing, MarkIgnored, Ends, Elsewhere, Nodes, Deep, Waits
  <1>3. CASE Crash
    BY <1>3, WorkflowAssumption DEF Crash, Elsewhere, Nodes, Deep, Waits
  <1>4. CASE Retry
    BY <1>4 DEF Retry, Elsewhere, Nodes, Deep, Waits
  <1> QED  BY <1>1, <1>2, <1>3, <1>4

LEMMA SeedKind == ASSUME GraphInv, NEW c \in DOMAIN Seeds, Seed(c) PROVE Kind
  <1>1. IsDirectory(directory')
    BY SeedTypes DEF Seed, GraphInv, TypeOK
  <1> QED  BY <1>1 DEF Seed, Kind, Silent, Outside, GraphInv, TypeOK

LEMMA Kinds == GraphInv /\ [Next]_vars => Kind
  <1> SUFFICES ASSUME GraphInv, [Next]_vars PROVE Kind
    OBVIOUS
  <1>1. CASE Node
    BY <1>1, PreparationKind, ExtractKind, ValidateKind, ApplicationKind, EventKind, PlanKind,
       PersistKind, CalendarKind, RunKind DEF Node
  <1>2. CASE UNCHANGED vars
    BY <1>2 DEF vars, Kind, Silent, Outside, GraphInv, TypeOK
  <1> QED
    BY <1>1, <1>2, DecisionKind, RunKind, SeedKind DEF Next

-----------------------------------------------------------------------------
(* The types, and the extraction that counts.                               *)

\* What is read of a clock is one of four values.
LEMMA ReadTypes ==
    ASSUME GraphInv, audit \in Audit
    PROVE  {Start, Deadline} \subseteq Value /\ Company \in Companies \cup {NoCompany}
  <1>1. /\ audit.extraction \in Extraction /\ audit.company \in Resolution
        /\ thread.evidence = audit /\ thread \in Thread
    BY WorkflowAssumption DEF Audit, GraphInv, EvidenceIsAudited, TypeOK
  <1>2. {audit.extraction.start.value, audit.extraction.deadline.value}
            \subseteq {"none", "naive", "aware"}
    BY <1>1 DEF Extraction, Clock
  <1>3. {thread.start, thread.deadline} \subseteq {"none", "naive", "aware"}
    BY <1>1 DEF Thread
  <1>4. {Start, Deadline} \subseteq Value
    BY <1>1, <1>2, <1>3 DEF Start, Deadline, Read, Bound, Value
  <1>5. Company \in Companies \cup {NoCompany}
    <2>1. thread.company \in Companies \cup {NoCompany}
      BY <1>1 DEF Thread
    <2>2. audit.company.company \in Companies \cup {NoCompany}
      BY <1>1 DEF Resolution
    <2> QED  BY <1>1, <2>1, <2>2 DEF Company
  <1> QED  BY <1>4, <1>5

LEMMA GraphStep == GraphInv /\ [Next]_vars => GraphInv'
  <1> SUFFICES ASSUME GraphInv, [Next]_vars PROVE GraphInv'
    OBVIOUS
  <1>1. Kind
    BY Kinds
  <1>2. Outside
    BY <1>1 DEF Kind
  <1>3. CASE Silent
    <2>1. at' \in Nodes \cup {"interrupted", "crashed", "ended"}
      BY <1>3 DEF Silent, GraphInv, TypeOK, Elsewhere, Nodes
    <2>2. at' \in Extracting => at \in Extracting
      BY <1>3 DEF Silent, Elsewhere, Extracting, Nodes, Deep, Waits
    <2>3. UNCHANGED <<audit, thread, request, persisted>>
      BY <1>3 DEF Silent
    <2> QED
      BY <1>2, <2>1, <2>2, <2>3
         DEF GraphInv, TypeOK, Outside, Asked, Grounded, EvidenceIsAudited
  <1>4. CASE Extracts
    <2>1. PICK x \in Extracted :
             /\ audit' = IF audit = NoAudit THEN Result(x) ELSE audit
             /\ thread' = [thread EXCEPT !.evidence = Recorded(Result(x))]
      BY <1>4 DEF Extracts
    <2>2. audit' \in Audit /\ Recorded(Result(x)) = audit'
      BY <2>1, ResultTypes DEF GraphInv, TypeOK, Recorded
    <2>3. thread' \in Thread /\ thread'.evidence = audit'
      <3>1. thread \in Thread
        BY DEF GraphInv, TypeOK
      <3> QED  BY <2>1, <2>2, <3>1 DEF Thread
    <2>4. Asked'
      <3>1. request.reason \in CompanyReasons => audit' = audit
        <4>1. request.reason \in CompanyReasons => audit \in Audit
          BY DEF GraphInv, Grounded, CompanyReasons
        <4>2. NoAudit \notin Audit \/ audit # NoAudit \/ request.reason \notin CompanyReasons
          <5>1. NoAudit.extraction = None
            BY DEF NoAudit
          <5>2. \A a \in Audit : a.extraction \in Extracted
            BY DEF Audit
          <5>3. None \notin Extracted
            BY WorkflowAssumption
          <5> QED  BY <5>1, <5>2, <5>3
        <4> QED  BY <2>1, <4>1, <4>2
      <3> QED  BY <1>4, <3>1 DEF Extracts, Asked, GraphInv
    <2> QED
      BY <1>2, <1>4, <2>2, <2>3, <2>4
         DEF Extracts, GraphInv, TypeOK, Outside, Grounded, EvidenceIsAudited, Nodes
  <1>5. CASE Questions
    <2>1. at \in Extracting /\ audit \in Audit
      BY <1>5 DEF Questions, Extracting, GraphInv, Grounded
    <2>2. request' \in Request /\ Asked'
      <3>1. thread.evidence.company.candidates = audit.company.candidates
        BY DEF GraphInv, EvidenceIsAudited
      <3>2. audit.company.candidates \subseteq Companies
        BY <2>1 DEF Audit, Resolution
      <3>3. request'.reason \in Reasons /\ at \in Nodes
        BY <1>5 DEF Questions, Reasons, CompanyReasons, Nodes
      <3>4. request'.choices \subseteq Companies \cup Applications \cup Interviews
        BY <1>5, <3>1, <3>2 DEF Questions
      <3>5. request' \in Request
        BY <1>5, <3>3, <3>4 DEF Questions, Request
      <3>6. Asked'
        BY <1>5, <3>1
           DEF Questions, Asked, CompanyReasons, CalendarReasons, TimeReasons
      <3> QED  BY <3>5, <3>6
    <2> QED
      BY <1>2, <1>5, <2>1, <2>2
         DEF Questions, GraphInv, TypeOK, Outside, Grounded, EvidenceIsAudited, Nodes, Request
  <1>6. CASE Settles
    <2>1. at \in Extracting /\ audit \in Audit
      BY <1>6 DEF Settles, Extracting, GraphInv, Grounded
    <2>2. at' \in Nodes
      BY <1>6 DEF Settles, GraphInv, Request, Nodes
    <2> QED
      BY <1>2, <1>6, <2>1, <2>2
         DEF Settles, GraphInv, TypeOK, Outside, Grounded, EvidenceIsAudited, Asked
  <1>7. CASE Persists
    <2>1. at \in Extracting /\ audit \in Audit
      BY <1>7 DEF Persists, Extracting, GraphInv, Grounded
    <2>2. persisted' \in [start : Value, deadline : Value, company : Companies \cup {NoCompany}]
      BY <1>7, <2>1, ReadTypes DEF Persists
    <2> QED
      BY <1>2, <1>7, <2>1, <2>2
         DEF Persists, GraphInv, TypeOK, Outside, Grounded, EvidenceIsAudited, Asked, Nodes
  <1> QED  BY <1>1, <1>3, <1>4, <1>5, <1>6, <1>7 DEF Kind

\* The checkpoint and the rows keep their types, for any catalog that is a directory.
THEOREM GraphTypes == Spec => []TypeOK
  <1>1. GraphInv => TypeOK
    BY DEF GraphInv
  <1> QED  BY <1>1, GraphInit, GraphStep, PTL DEF Spec

\* A run goes on with the extraction it recorded first, however often it is started again
\* and whatever the model says then (record_extraction returns the row).
THEOREM AuditedEvidence == Spec => []EvidenceIsAudited
  <1>1. GraphInv => EvidenceIsAudited
    BY DEF GraphInv
  <1> QED  BY <1>1, GraphInit, GraphStep, PTL DEF Spec

-----------------------------------------------------------------------------
(* Doubts are answered before anything is persisted.                        *)

\* The run is past its validation, or waits for a question asked there.
Past == at \in Deep \/ (at \in Waits /\ request.resume \in Deep) \/ persisted # None

\* A question for two clocks has answered for both.
Closed ==
    /\ "timezone_and_datetime" \in Reviewed =>
           {"timezone_ambiguity", "datetime_unresolved"} \subseteq Reviewed
    /\ "timezone_and_deadline" \in Reviewed =>
           {"timezone_ambiguity", "deadline_unresolved"} \subseteq Reviewed

Cleared == \A issue \in Issues(audit.extraction) : QuestionOf(issue) \in Reviewed

DoubtInv == Closed /\ (Past => Cleared)

LEMMA RangeOfConcat ==
    ASSUME NEW S, NEW s \in Seq(S), NEW t \in Seq(S)
    PROVE  Range(s \o t) = Range(s) \cup Range(t)
  <1>1. ASSUME NEW x \in Range(s \o t) PROVE x \in Range(s) \cup Range(t)
    BY <1>1, ConcatProperties DEF Range
  <1>2. ASSUME NEW x \in Range(s) PROVE x \in Range(s \o t)
    <2>1. PICK i \in 1 .. Len(s) : s[i] = x
      BY <1>2 DEF Range
    <2>2. i \in 1 .. Len(s) + Len(t) /\ (s \o t)[i] = x
      BY <2>1, ConcatProperties
    <2> QED  BY <2>2, ConcatProperties DEF Range
  <1>3. ASSUME NEW x \in Range(t) PROVE x \in Range(s \o t)
    <2>1. PICK i \in 1 .. Len(t) : t[i] = x
      BY <1>3 DEF Range
    <2>2. Len(s) + i \in 1 .. Len(s) + Len(t) /\ (s \o t)[Len(s) + i] = x
      BY <2>1, ConcatProperties
    <2> QED  BY <2>2, ConcatProperties DEF Range
  <1> QED  BY <1>1, <1>2, <1>3

\* An answer adds its question, and a question for two clocks adds theirs.
LEMMA ReviewedGrows ==
    ASSUME GraphInv, Settles
    PROVE  Reviewed' = Reviewed \cup Range(Answered(request.reason))
  <1>1. thread.reviewed \in Seq(Reasons) /\ Answered(request.reason) \in Seq(Reasons)
    BY AnsweredTypes DEF GraphInv, TypeOK, Thread, Settles
  <1> QED  BY <1>1, RangeOfConcat DEF Settles, Reviewed

LEMMA AnsweredRange ==
    ASSUME NEW reason
    PROVE  Range(Answered(reason)) =
               IF reason = "timezone_and_datetime"
               THEN {reason, "timezone_ambiguity", "datetime_unresolved"}
               ELSE IF reason = "timezone_and_deadline"
               THEN {reason, "timezone_ambiguity", "deadline_unresolved"}
               ELSE {reason}
  <1>1. ASSUME NEW a, NEW b, NEW c PROVE Range(<<a, b, c>>) = {a, b, c}
    <2>1. DOMAIN <<a, b, c>> = {1, 2, 3}
      OBVIOUS
    <2> QED  BY <2>1 DEF Range
  <1>2. Range(<<reason>>) = {reason}
    <2>1. DOMAIN <<reason>> = {1}
      OBVIOUS
    <2> QED  BY <2>1 DEF Range
  <1> QED  BY <1>1, <1>2 DEF Answered

\* The recorded extraction is never another's.
LEMMA AuditStands ==
    ASSUME GraphInv, Kind, audit \in Audit
    PROVE  audit' = audit
  <1>1. NoAudit \notin Audit
    BY WorkflowAssumption DEF NoAudit, Audit
  <1> QED  BY <1>1 DEF Kind, Silent, Extracts, Questions, Settles, Persists

\* A validation that asks nothing has had an answer for every doubt.
LEMMA ValidationClears ==
    ASSUME GraphInv, Closed, NextQuestion = "none"
    PROVE  Cleared
  <1>1. /\ "TIMEZONE_AMBIGUOUS" \in Found => "timezone_ambiguity" \in Reviewed
        /\ "DATETIME_UNRESOLVED" \in Found => "datetime_unresolved" \in Reviewed
        /\ "DEADLINE_UNRESOLVED" \in Found => "deadline_unresolved" \in Reviewed
        /\ Found \ TimeIssues # {} => "extraction_needs_review" \in Reviewed
    BY SMTT(30) DEF NextQuestion, OtherIssues, Closed
  <1>2. Found = Issues(audit.extraction)
    BY DEF Found, GraphInv, EvidenceIsAudited
  <1> QED  BY <1>1, <1>2 DEF Cleared, QuestionOf, TimeIssues

LEMMA DoubtStep == GraphInv /\ DoubtInv /\ [Next]_vars => DoubtInv'
  <1> SUFFICES ASSUME GraphInv, DoubtInv, [Next]_vars PROVE DoubtInv'
    OBVIOUS
  <1>1. Kind
    BY Kinds
  <1>2. Past => audit \in Audit
    BY DEF Past, GraphInv, Grounded, Extracting, Deep, Waits
  <1>3. Past => audit' = audit
    BY <1>1, <1>2, AuditStands
  <1>4. CASE Silent
    <2>1. Reviewed' = Reviewed /\ audit' = audit /\ request' = request /\ persisted' = persisted
      BY <1>4 DEF Silent, Reviewed
    <2>2. CASE at = "validate_extraction" /\ at' = "resolve_application"
      <3>1. NextQuestion = "none"
        BY <1>4, <2>2 DEF Silent, Elsewhere, Deep
      <3> QED  BY <2>1, <3>1, ValidationClears DEF DoubtInv, Closed, Cleared
    <2>3. CASE ~(at = "validate_extraction" /\ at' = "resolve_application")
      <3>1. Past' => Past
        BY <1>4, <2>1, <2>3 DEF Silent, Past, Elsewhere, Deep, Waits, Nodes
      <3> QED  BY <2>1, <3>1 DEF DoubtInv, Closed, Cleared
    <2> QED  BY <2>2, <2>3
  <1>5. CASE Extracts
    <2>1. thread'.reviewed = thread.reviewed
      BY <1>5 DEF Extracts, GraphInv, TypeOK, Thread
    <2>2. Reviewed' = Reviewed
      BY <2>1 DEF Reviewed
    <2>3. Past' => Past
      BY <1>5 DEF Extracts, Past, Deep, Waits
    <2> QED  BY <1>3, <2>2, <2>3 DEF DoubtInv, Closed, Cleared
  <1>6. CASE Questions
    <2>1. Reviewed' = Reviewed
      BY <1>6 DEF Questions, Reviewed
    <2>2. Past' => Past
      BY <1>6 DEF Questions, Past, Deep, Waits
    <2> QED  BY <1>3, <2>1, <2>2 DEF DoubtInv, Closed, Cleared
  <1>7. CASE Settles
    <2>1. Reviewed' = Reviewed \cup Range(Answered(request.reason))
      BY <1>7, ReviewedGrows
    <2>2. Past' => Past
      BY <1>7 DEF Settles, Past, Deep, Waits
    <2>3. Closed'
      BY <2>1, AnsweredRange DEF DoubtInv, Closed
    <2> QED  BY <1>3, <2>1, <2>2, <2>3 DEF DoubtInv, Cleared
  <1>8. CASE Persists
    <2>1. Reviewed' = Reviewed /\ Past
      BY <1>8 DEF Persists, Reviewed, Past, Deep
    <2> QED  BY <1>3, <2>1 DEF DoubtInv, Closed, Cleared
  <1> QED  BY <1>1, <1>4, <1>5, <1>6, <1>7, <1>8 DEF Kind

\* Nothing is persisted before every doubt of the validation has its answer, in whatever
\* order the questions are asked and whichever of them one answer settles.
THEOREM AnsweredDoubts == Spec => []DoubtsAreAnswered
  <1>1. Init => DoubtInv
    <2> SUFFICES ASSUME Init PROVE DoubtInv
      OBVIOUS
    <2>1. thread.reviewed = <<>>
      BY DEF Init
    <2>2. Reviewed = {}
      BY <2>1 DEF Reviewed, Range
    <2> QED  BY <2>2 DEF Init, DoubtInv, Closed, Past, Deep, Waits
  <1>2. DoubtInv => DoubtsAreAnswered
    BY DEF DoubtInv, Past, Cleared, DoubtsAreAnswered
  <1> QED  BY <1>1, <1>2, GraphInit, GraphStep, DoubtStep, PTL DEF Spec

-----------------------------------------------------------------------------
(* What is persisted is sound.                                              *)

Planned == {"resolve_existing_event", "plan_state_transition", "persist_domain_changes"}

\* Evidence that resolve_application has accepted stays acceptable: no question that is
\* asked later is about a clock.
SoundInv ==
    /\ at \in Planned \/ (at \in Waits /\ request.resume = "resolve_existing_event") => ~Refused
    /\ at = "persist_domain_changes" => AllowsMutation
    /\ PersistedIsSound

LEMMA SoundPersist ==
    ASSUME GraphInv, ~Refused, AllowsMutation, Persists
    PROVE  PersistedIsSound'
  <1> DEFINE x == audit.extraction
             sound(value, text) == /\ value # "naive"
                                   /\ value = "aware" => x.zone = "explicit"
                                   /\ text => value # "none"
  <1>1. thread.evidence.extraction = x /\ audit' = audit
    BY DEF GraphInv, EvidenceIsAudited, Persists
  <1>2. persisted'.start = Start /\ persisted'.deadline = Deadline
    BY DEF Persists
  <1>3. Start # "naive" /\ Deadline # "naive"
    BY DEF Refused
  <1>4. Start = "aware" \/ Deadline = "aware" => ~thread.zone
    BY DEF Start, Deadline, Read, Bound
  <1>5. Start = "aware" \/ Deadline = "aware" => x.zone = "explicit"
    BY <1>1, <1>4 DEF AllowsMutation, ZoneKnown
  <1>6. (x.start.text => Start # "none") /\ (x.deadline.text => Deadline # "none")
    BY <1>1 DEF AllowsMutation
  <1>7. sound(Start, x.start.text) /\ sound(Deadline, x.deadline.text)
    BY <1>3, <1>5, <1>6
  <1> QED  BY <1>1, <1>2, <1>7 DEF PersistedIsSound

LEMMA SoundStep == GraphInv /\ SoundInv /\ [Next]_vars => SoundInv'
  <1> SUFFICES ASSUME GraphInv, SoundInv, [Next]_vars PROVE SoundInv'
    OBVIOUS
  <1>1. Kind
    BY Kinds
  <1>2. persisted # None => audit' = audit
    BY <1>1, AuditStands DEF GraphInv, Grounded
  <1>3. persisted' = persisted => PersistedIsSound'
    BY <1>2 DEF SoundInv, PersistedIsSound
  <1>4. CASE Silent
    <2>1. (Refused' <=> Refused) /\ (AllowsMutation' <=> AllowsMutation)
      BY <1>4 DEF Silent, Refused, AllowsMutation, Start, Deadline, Read, Bound, ZoneKnown
    <2>2. UNCHANGED <<request, persisted>>
      BY <1>4 DEF Silent
    <2>3. at' = "persist_domain_changes" => AllowsMutation
      BY <1>4 DEF Silent, SoundInv, Elsewhere, Nodes, Deep
    <2>4. at' \in Planned \/ (at' \in Waits /\ request.resume = "resolve_existing_event")
              => ~Refused
      BY <1>4 DEF Silent, SoundInv, Elsewhere, Nodes, Deep, Waits, Planned
    <2> QED  BY <1>3, <2>1, <2>2, <2>3, <2>4 DEF SoundInv
  <1>5. CASE Extracts
    BY <1>3, <1>5 DEF Extracts, SoundInv, Planned, Waits
  <1>6. CASE Questions
    <2>1. Refused' <=> Refused
      BY <1>6 DEF Questions, Refused, Start, Deadline, Read, Bound
    <2>2. request'.resume = at /\ at' = "request_review" /\ persisted' = persisted
      BY <1>6 DEF Questions
    <2> QED  BY <1>3, <2>1, <2>2 DEF SoundInv, Planned, Waits
  <1>7. CASE Settles
    <2>1. at' \in Planned => request.resume = "resolve_existing_event"
      BY <1>7 DEF Settles, Planned, GraphInv, Asked, Reasons, CompanyReasons, CalendarReasons
    <2>2. at' \in Planned => at' = "resolve_existing_event" /\ request.reason \notin TimeReasons
      BY <1>7, <2>1 DEF Settles, Planned, GraphInv, Asked
    <2>3. request.reason \notin TimeReasons => (Refused' <=> Refused)
      BY <1>7 DEF Settles, Refused, Start, Deadline, Read, Bound
    <2>4. at' \in Planned => ~Refused'
      BY <1>7, <2>1, <2>2, <2>3 DEF SoundInv, Waits, Settles
    <2>5. at' \notin Waits
      BY <1>7 DEF Settles, GraphInv, Asked, Waits, Reasons, CompanyReasons
    <2> QED  BY <1>3, <1>7, <2>2, <2>4, <2>5 DEF SoundInv, Settles, Planned
  <1>8. CASE Persists
    BY <1>8, SoundPersist DEF SoundInv, Persists, Planned, Waits
  <1> QED  BY <1>1, <1>4, <1>5, <1>6, <1>7, <1>8 DEF Kind

\* No clock is persisted without a zone that the email states or a human chose, and no time
\* the email writes about is lost (RecruitmentEvidence and evidence_allows_mutation guard
\* two nodes; questions asked between them change nothing they have checked).
THEOREM SoundPersisted == Spec => []PersistedIsSound
  <1>1. Init => SoundInv
    BY DEF Init, SoundInv, Planned, Waits, PersistedIsSound
  <1>2. SoundInv => PersistedIsSound
    BY DEF SoundInv
  <1> QED  BY <1>1, <1>2, GraphInit, GraphStep, SoundStep, PTL DEF Spec

-----------------------------------------------------------------------------
(* A personal mailbox is no employer.                                       *)

\* The email names no company, and its sender writes from a personal mailbox.
Anonymous == SenderDomain(mail) \in Personal /\ audit.extraction.name = NoName

MailboxInv ==
    /\ thread.company \in audit.company.candidates \cup {NoCompany}
    /\ Anonymous => audit.company.candidates = {} /\ audit.company.company = NoCompany
    /\ MailboxIsNoEmployer

\* An email like that resolves to no company and offers none.
LEMMA NoMatches ==
    ASSUME TypeOK, NEW x \in Extracted, SenderDomain(mail) \in Personal, x.name = NoName
    PROVE  Result(x).company.candidates = {} /\ Result(x).company.company = NoCompany
  <1>1. NameMatches(directory, NoName) = {}
    BY CompanyAssumption
       DEF NameMatches, Canonical, Alias, Active, TypeOK, IsDirectory, Entry
  <1>2. DomainMatches(directory, SenderDomain(mail)) = {}
    BY DEF DomainMatches
  <1>3. Cardinality({}) = 0
    BY FS_EmptySet
  <1>4. LET r == Resolve(directory, NoName, SenderDomain(mail))
        IN  r.candidates = {} /\ r.company = NoCompany
    BY <1>1, <1>2, <1>3 DEF Resolve
  <1> QED  BY <1>4 DEF Result, NoResolution

LEMMA MailboxStep == GraphInv /\ MailboxInv /\ [Next]_vars => MailboxInv'
  <1> SUFFICES ASSUME GraphInv, MailboxInv, [Next]_vars PROVE MailboxInv'
    OBVIOUS
  <1>1. Kind /\ mail' = mail
    BY Kinds DEF Kind, Outside
  <1>2. persisted # None => audit' = audit
    BY <1>1, AuditStands DEF GraphInv, Grounded
  <1>3. persisted' = persisted => MailboxIsNoEmployer'
    BY <1>1, <1>2 DEF MailboxInv, MailboxIsNoEmployer
  <1>4. CASE Silent \/ Questions
    BY <1>1, <1>3, <1>4 DEF Silent, Questions, MailboxInv, Anonymous
  <1>5. CASE Extracts
    <2>1. PICK x \in Extracted :
             /\ audit' = IF audit = NoAudit THEN Result(x) ELSE audit
             /\ thread' = [thread EXCEPT !.evidence = Recorded(Result(x))]
      BY <1>5 DEF Extracts
    <2>2. thread'.company = thread.company /\ persisted' = persisted
      BY <1>5, <2>1 DEF Extracts, GraphInv, TypeOK, Thread
    <2>3. CASE audit # NoAudit
      BY <1>1, <1>3, <2>1, <2>2, <2>3 DEF MailboxInv, Anonymous
    <2>4. CASE audit = NoAudit
      <3>1. thread.company = NoCompany
        BY <2>4 DEF MailboxInv, NoAudit, NoResolution
      <3>2. audit' = Result(x) /\ audit'.extraction = x
        BY <2>1, <2>4 DEF Result
      <3>3. Anonymous' => audit'.company.candidates = {} /\ audit'.company.company = NoCompany
        BY <1>1, <3>2, NoMatches DEF Anonymous, GraphInv
      <3> QED  BY <1>3, <2>2, <3>1, <3>3 DEF MailboxInv
    <2> QED  BY <2>3, <2>4
  <1>6. CASE Settles
    <2>1. thread'.company # thread.company => thread'.company \in audit.company.candidates
      BY <1>6 DEF Settles, GraphInv, Asked
    <2> QED  BY <1>1, <1>3, <1>6, <2>1 DEF Settles, MailboxInv, Anonymous
  <1>7. CASE Persists
    <2>1. Anonymous => Company = NoCompany
      BY DEF MailboxInv, Company, GraphInv, EvidenceIsAudited
    <2>2. persisted'.company = Company
      BY <1>7 DEF Persists
    <2> QED
      BY <1>1, <1>7, <2>1, <2>2
         DEF Persists, MailboxInv, MailboxIsNoEmployer, Anonymous
  <1> QED  BY <1>1, <1>4, <1>5, <1>6, <1>7 DEF Kind

\* An email from a personal mailbox that names no company is filed under none, for every
\* catalog: its domain matches nothing, and no answer can choose what is not offered.
THEOREM MailboxNamesNobody == Spec => []MailboxIsNoEmployer
  <1>1. Init => MailboxInv
    BY DEF Init, MailboxInv, MailboxIsNoEmployer, NoAudit, NoResolution
  <1>2. MailboxInv => MailboxIsNoEmployer
    BY DEF MailboxInv
  <1> QED  BY <1>1, <1>2, GraphInit, GraphStep, MailboxStep, PTL DEF Spec

-----------------------------------------------------------------------------
(* No question is asked twice.                                              *)

Over == at \in {"mark_ignored", "ended"}

\* Every answer was to a question that was open, and the next question is not among them.
Counted == IsFiniteSet(Reviewed) /\ Cardinality(Reviewed) = Len(thread.reviewed)
Unasked == at \in Waits => Range(Answered(request.reason)) \cap Reviewed = {}

\* Who was asked for an application or an event has chosen one, or asked for a new one.
Settled ==
    /\ "multiple_open_applications" \in Reviewed => Over \/ thread.app # None \/ thread.force
    /\ "reschedule_target_uncertain" \in Reviewed => Over \/ thread.event # None \/ thread.asNew

OnceInv == Counted /\ Unasked /\ Settled

\* What is chosen stays chosen in t, ...
Sticks(t) ==
    /\ thread.app # None => t.app # None
    /\ thread.force => t.force
    /\ thread.event # None => t.event # None
    /\ thread.asNew => t.asNew

\* ... and the answer to the open question is in t.
Chooses(t) ==
    /\ request.reason = "multiple_open_applications" => t.app # None \/ t.force
    /\ request.reason = "reschedule_target_uncertain" => t.event # None \/ t.asNew

LEMMA FieldsStick ==
    ASSUME thread \in Thread, NEW c, NEW t \in {thread, [thread EXCEPT !.zone = TRUE],
               [thread EXCEPT !.zone = TRUE, !.start = c],
               [thread EXCEPT !.zone = TRUE, !.deadline = c],
               [thread EXCEPT !.start = c], [thread EXCEPT !.deadline = c],
               [thread EXCEPT !.company = c], [thread EXCEPT !.skip = TRUE]}
    PROVE  Sticks(t)
  <1> USE DEF Thread, Sticks
  <1>1. CASE t = thread
    BY <1>1
  <1>2. CASE t = [thread EXCEPT !.zone = TRUE]
    BY <1>2
  <1>3. CASE t = [thread EXCEPT !.zone = TRUE, !.start = c]
    BY <1>3
  <1>4. CASE t = [thread EXCEPT !.zone = TRUE, !.deadline = c]
    BY <1>4
  <1>5. CASE t \in {[thread EXCEPT !.start = c], [thread EXCEPT !.deadline = c]}
    BY <1>5
  <1>6. CASE t = [thread EXCEPT !.company = c]
    BY <1>6
  <1>7. CASE t = [thread EXCEPT !.skip = TRUE]
    BY <1>7
  <1> HIDE DEF Thread, Sticks
  <1> QED  BY <1>1, <1>2, <1>3, <1>4, <1>5, <1>6, <1>7

LEMMA Decided ==
    ASSUME NEW reasons, NEW to, NEW t \in Thread, Decides(reasons, to, t), Sticks(t),
           to = "mark_ignored" \/ Chooses(t)
    PROVE  Sticks(thread') /\ (at' = "mark_ignored" \/ Chooses(thread'))
  <1>1. thread' = [t EXCEPT !.reviewed = t.reviewed \o Answered(request.reason)] /\ at' = to
    BY DEF Decides, Goes
  <1>2. thread'.app = t.app /\ thread'.force = t.force /\ thread'.event = t.event
        /\ thread'.asNew = t.asNew
    BY <1>1 DEF Thread
  <1> QED
    BY <1>1, <1>2 DEF Sticks, Chooses

\* A question about the extraction or the calendar chooses neither application nor event.
LEMMA OtherDecided ==
    ASSUME NEW reasons, NEW to, NEW t \in Thread, Decides(reasons, to, t), Sticks(t),
           to = "mark_ignored" \/ reasons \cap {"multiple_open_applications",
                                                "reschedule_target_uncertain"} = {}
    PROVE  Sticks(thread') /\ (at' = "mark_ignored" \/ Chooses(thread'))
  <1>1. request.reason \in reasons
    BY DEF Decides
  <1>2. to = "mark_ignored" \/ Chooses(t)
    BY <1>1 DEF Chooses
  <1> QED  BY <1>2, Decided

LEMMA DecisionChooses ==
    ASSUME GraphInv, Decision
    PROVE  Sticks(thread') /\ (at' = "mark_ignored" \/ Chooses(thread'))
  <1>t. thread \in Thread /\ request \in Request
    BY DEF GraphInv, TypeOK
  <1> DEFINE Goal == Sticks(thread') /\ (at' = "mark_ignored" \/ Chooses(thread'))
  <1>1. CASE AnswerIgnore
    BY <1>1, <1>t, FieldsStick, OtherDecided DEF AnswerIgnore
  <1>2. CASE AnswerTime
    <2>1. ASSUME NEW c \in Typed, NEW reason \in TimeReasons,
                 NEW t \in {[thread EXCEPT !.zone = TRUE],
                            [thread EXCEPT !.zone = TRUE, !.start = c],
                            [thread EXCEPT !.zone = TRUE, !.deadline = c],
                            [thread EXCEPT !.start = c], [thread EXCEPT !.deadline = c]},
                 Decides({reason}, request.resume, t)
          PROVE  Goal
      <3>1. t \in Thread
        BY <1>t, ClockFields DEF Keeps
      <3>2. Sticks(t)
        BY <1>t, FieldsStick
      <3>3. {reason} \cap {"multiple_open_applications", "reschedule_target_uncertain"} = {}
        BY DEF TimeReasons
      <3> QED  BY <2>1, <3>1, <3>2, <3>3, OtherDecided
    <2>2. "naive" \in Typed /\ {"timezone_ambiguity", "timezone_and_datetime",
              "timezone_and_deadline", "datetime_unresolved", "deadline_unresolved"}
                  \subseteq TimeReasons
      BY DEF Typed, TimeReasons
    <2>3. CASE Decides({"timezone_ambiguity"}, request.resume, [thread EXCEPT !.zone = TRUE])
      BY <2>1, <2>2, <2>3
    <2>4. ASSUME NEW c \in Typed,
                 \/ Decides({"timezone_and_datetime"}, request.resume,
                            [thread EXCEPT !.zone = TRUE, !.start = c])
                 \/ Decides({"timezone_and_deadline"}, request.resume,
                            [thread EXCEPT !.zone = TRUE, !.deadline = c])
                 \/ Decides({"datetime_unresolved"}, request.resume, [thread EXCEPT !.start = c])
                 \/ Decides({"deadline_unresolved"}, request.resume, [thread EXCEPT !.deadline = c])
          PROVE  Goal
      BY <2>1, <2>2, <2>4
    <2> QED  BY <1>2, <2>3, <2>4 DEF AnswerTime
  <1>3. CASE AnswerExtraction
    BY <1>3, <1>t, FieldsStick, OtherDecided DEF AnswerExtraction
  <1>4. CASE AnswerCompany
    <2>1. CASE Decides(CompanyReasons, request.resume, [thread EXCEPT !.force = TRUE])
      <3>1. Sticks([thread EXCEPT !.force = TRUE])
        BY <1>t DEF Thread, Sticks
      <3> QED
        BY <2>1, <3>1, <1>t, ChoiceFields, OtherDecided DEF Choice, Keeps, CompanyReasons
    <2>2. ASSUME NEW c \in request.choices,
                 Decides(CompanyReasons, request.resume, [thread EXCEPT !.company = c])
          PROVE  Goal
      <3>1. request.reason \in CompanyReasons /\ at = "interrupted"
        BY <2>2 DEF Decides, Goes
      <3>2. request.choices = audit.company.candidates /\ audit \in Audit
        BY <3>1 DEF GraphInv, Asked, Grounded, Extracting
      <3>3. c \in Companies
        BY <3>2 DEF Audit, Resolution
      <3>4. [thread EXCEPT !.company = c] \in Thread
        BY <3>3, <1>t, CompanyField DEF Keeps
      <3>5. Sticks([thread EXCEPT !.company = c])
        BY <1>t, FieldsStick
      <3> QED  BY <2>2, <3>4, <3>5, OtherDecided DEF CompanyReasons
    <2> QED  BY <1>4, <2>1, <2>2 DEF AnswerCompany, CompanyReasons
  <1>5. CASE AnswerApplication
    <2>1. ASSUME NEW a \in request.choices,
                 Decides({"multiple_open_applications"}, request.resume, Chosen(a))
          PROVE  Goal
      <3>1. a \in Applications /\ a # None /\ request.reason = "multiple_open_applications"
        BY <2>1, WorkflowAssumption DEF Decides, GraphInv, Asked
      <3>2. Chosen(a) \in Thread
        BY <3>1, <1>t, ChoiceFields DEF Choice, Chosen, Keeps
      <3>3. Sticks(Chosen(a)) /\ Chooses(Chosen(a))
        BY <3>1, <1>t DEF Thread, Sticks, Chooses, Chosen
      <3> QED  BY <2>1, <3>2, <3>3, Decided
    <2>2. CASE Decides({"multiple_open_applications"}, request.resume,
                       [thread EXCEPT !.force = TRUE])
      <3>1. request.reason = "multiple_open_applications"
        BY <2>2 DEF Decides
      <3>2. Sticks([thread EXCEPT !.force = TRUE]) /\ Chooses([thread EXCEPT !.force = TRUE])
        BY <3>1, <1>t DEF Thread, Sticks, Chooses
      <3> QED  BY <2>2, <3>2, <1>t, ChoiceFields, Decided DEF Choice, Keeps
    <2> QED  BY <1>5, <2>1, <2>2 DEF AnswerApplication
  <1>6. CASE AnswerEvent
    <2>1. ASSUME NEW v \in request.choices,
                 Decides({"reschedule_target_uncertain"}, request.resume,
                         [thread EXCEPT !.event = v])
          PROVE  Goal
      <3>1. v \in Interviews /\ v # None /\ request.reason = "reschedule_target_uncertain"
        BY <2>1, WorkflowAssumption DEF Decides, GraphInv, Asked
      <3>2. [thread EXCEPT !.event = v] \in Thread
        BY <3>1, <1>t, ChoiceFields DEF Choice, Keeps
      <3>3. Sticks([thread EXCEPT !.event = v]) /\ Chooses([thread EXCEPT !.event = v])
        BY <3>1, <1>t DEF Thread, Sticks, Chooses
      <3> QED  BY <2>1, <3>2, <3>3, Decided
    <2>2. CASE Decides({"reschedule_target_uncertain"}, request.resume,
                       [thread EXCEPT !.asNew = TRUE])
      <3>1. request.reason = "reschedule_target_uncertain"
        BY <2>2 DEF Decides
      <3>2. Sticks([thread EXCEPT !.asNew = TRUE]) /\ Chooses([thread EXCEPT !.asNew = TRUE])
        BY <3>1, <1>t DEF Thread, Sticks, Chooses
      <3> QED  BY <2>2, <3>2, <1>t, ChoiceFields, Decided DEF Choice, Keeps
    <2> QED  BY <1>6, <2>1, <2>2 DEF AnswerEvent
  <1>7. CASE AnswerCalendar
    <2>1. CalendarReasons \cap {"multiple_open_applications", "reschedule_target_uncertain"} = {}
          /\ "linked_calendar_event_missing" \in CalendarReasons
      BY DEF CalendarReasons
    <2>2. CASE Decides(CalendarReasons, request.resume, [thread EXCEPT !.skip = TRUE])
      <3>1. Sticks([thread EXCEPT !.skip = TRUE])
        BY <1>t, FieldsStick
      <3> QED  BY <2>1, <2>2, <3>1, <1>t, ChoiceFields, OtherDecided DEF Choice, Keeps
    <2>3. CASE Decides({"linked_calendar_event_missing"}, request.resume, thread)
      BY <2>1, <2>3, <1>t, FieldsStick, OtherDecided
    <2> QED  BY <1>7, <2>2, <2>3 DEF AnswerCalendar
  <1> QED  BY <1>1, <1>2, <1>3, <1>4, <1>5, <1>6, <1>7 DEF Decision

\* A run that is over stays over once something was answered.
LEMMA OverStays ==
    ASSUME Over, thread.reviewed # <<>>, [Next]_vars
    PROVE  Over'
  <1>1. ASSUME Node PROVE at' = "ended"
    <2>1. MarkIgnored
      BY <1>1, SMT DEF Over, Node, LoadSourceEmail, NormalizeEmail, ExtractActionLinks,
         PrefilterRecruitment, SanitizeContent, ExtractRecruitmentData, ValidateExtraction,
         RequestReview, ResolveApplication, ResolveExistingEvent, PlanStateTransition,
         PersistDomainChanges, SyncCalendar, FinalizeProcessing, Goes, Raises, Ends, Asks
    <2> QED  BY <2>1 DEF MarkIgnored, Ends
  <1>2. ~Decision
    BY DEF Over, Decision, AnswerIgnore, AnswerTime, AnswerExtraction, AnswerCompany,
       AnswerApplication, AnswerEvent, AnswerCalendar, Decides, Goes
  <1>3. ~Crash /\ ~Retry
    BY DEF Over, Crash, Retry
  <1>4. CASE \E c \in DOMAIN Seeds : Seed(c)
    BY <1>4 DEF Seed, Over
  <1>5. CASE UNCHANGED vars
    BY <1>5 DEF vars, Over
  <1> QED  BY <1>1, <1>2, <1>3, <1>4, <1>5 DEF Next, Over

\* Only a decision adds to what was reviewed.
LEMMA OnlyDecisions ==
    ASSUME at = "interrupted", thread' # thread, [Next]_vars
    PROVE  Decision
  <1>1. ~Node
    BY DEF Node, LoadSourceEmail, NormalizeEmail, ExtractActionLinks,
       PrefilterRecruitment, SanitizeContent, ExtractRecruitmentData, ValidateExtraction,
       RequestReview, ResolveApplication, ResolveExistingEvent, PlanStateTransition,
       PersistDomainChanges, SyncCalendar, FinalizeProcessing, MarkIgnored, Goes, Raises, Ends,
       Asks
  <1> QED  BY <1>1 DEF Next, vars, Crash, Retry, Seed

\* An answer counts once for every question it settles.
LEMMA AnswerLength ==
    ASSUME NEW reason
    PROVE  /\ IsFiniteSet(Range(Answered(reason)))
           /\ Cardinality(Range(Answered(reason))) = Len(Answered(reason))
  <1>1. Cardinality({reason}) = 1 /\ IsFiniteSet({reason})
    BY FS_Singleton
  <1>2. \A a, b, c : a # b /\ b # c /\ a # c
                        => IsFiniteSet({a, b, c}) /\ Cardinality({a, b, c}) = 3
    <2> SUFFICES ASSUME NEW a, NEW b, NEW c, a # b, b # c, a # c
                 PROVE  IsFiniteSet({a, b, c}) /\ Cardinality({a, b, c}) = 3
      OBVIOUS
    <2>1. IsFiniteSet({a}) /\ Cardinality({a}) = 1
      BY FS_Singleton
    <2>2. IsFiniteSet({a} \cup {b}) /\ Cardinality({a} \cup {b}) = 2
      BY <2>1, FS_AddElement
    <2>3. IsFiniteSet(({a} \cup {b}) \cup {c}) /\ Cardinality(({a} \cup {b}) \cup {c}) = 3
      BY <2>2, FS_AddElement
    <2>4. ({a} \cup {b}) \cup {c} = {a, b, c}
      OBVIOUS
    <2> QED  BY <2>3, <2>4
  <1>3. CASE reason = "timezone_and_datetime"
    <2>1. Range(Answered(reason)) = {reason, "timezone_ambiguity", "datetime_unresolved"}
      BY <1>3, AnsweredRange
    <2>2. Len(Answered(reason)) = 3
      BY <1>3 DEF Answered
    <2>3. /\ IsFiniteSet({reason, "timezone_ambiguity", "datetime_unresolved"})
          /\ Cardinality({reason, "timezone_ambiguity", "datetime_unresolved"}) = 3
      BY <1>2, <1>3
    <2> QED  BY <2>1, <2>2, <2>3
  <1>4. CASE reason = "timezone_and_deadline"
    <2>1. Range(Answered(reason)) = {reason, "timezone_ambiguity", "deadline_unresolved"}
      BY <1>4, AnsweredRange
    <2>2. Len(Answered(reason)) = 3
      BY <1>4 DEF Answered
    <2>3. /\ IsFiniteSet({reason, "timezone_ambiguity", "deadline_unresolved"})
          /\ Cardinality({reason, "timezone_ambiguity", "deadline_unresolved"}) = 3
      BY <1>2, <1>4
    <2> QED  BY <2>1, <2>2, <2>3
  <1>5. CASE reason \notin {"timezone_and_datetime", "timezone_and_deadline"}
    BY <1>1, <1>5, AnsweredRange DEF Answered
  <1> QED  BY <1>3, <1>4, <1>5

\* The next question about the extraction is new, with all it would settle.
LEMMA QuestionIsNew ==
    ASSUME NextQuestion # "none",
           thread.evidence.company.status \in {"resolved", "ambiguous", "unresolved"}
    PROVE  Range(Answered(NextQuestion)) \cap Reviewed = {}
  <1> DEFINE zone == "TIMEZONE_AMBIGUOUS" \in Found /\ Reviewed \cap
                 {"timezone_ambiguity", "timezone_and_datetime", "timezone_and_deadline"} = {}
             start == "DATETIME_UNRESOLVED" \in Found /\
                 Reviewed \cap {"datetime_unresolved", "timezone_and_datetime"} = {}
             deadline == "DEADLINE_UNRESOLVED" \in Found /\
                 Reviewed \cap {"deadline_unresolved", "timezone_and_deadline"} = {}
             company == [resolved |-> "none", ambiguous |-> "company_ambiguous",
                         unresolved |-> "company_unresolved"][thread.evidence.company.status]
             question == IF zone /\ start THEN "timezone_and_datetime"
                         ELSE IF zone /\ deadline THEN "timezone_and_deadline"
                         ELSE IF zone THEN "timezone_ambiguity"
                         ELSE IF start THEN "datetime_unresolved"
                         ELSE IF deadline THEN "deadline_unresolved"
                         ELSE IF OtherIssues THEN "extraction_needs_review"
                         ELSE IF company \notin Reviewed THEN company
                         ELSE "none"
             New(S) == S \cap Reviewed = {}
  <1>1. NextQuestion = question
    BY Zenon DEF NextQuestion
  <1>2. company \in {"none", "company_ambiguous", "company_unresolved"}
    OBVIOUS
  <1>3. /\ zone => New({"timezone_ambiguity", "timezone_and_datetime", "timezone_and_deadline"})
        /\ start => New({"datetime_unresolved", "timezone_and_datetime"})
        /\ deadline => New({"deadline_unresolved", "timezone_and_deadline"})
        /\ OtherIssues => New({"extraction_needs_review"})
        /\ company \notin Reviewed => New({company})
    BY DEF OtherIssues
  <1> HIDE DEF zone, start, deadline, company
  <1>4. CASE question = "timezone_and_datetime" /\ zone /\ start
    <2>1. New({"timezone_and_datetime", "timezone_ambiguity", "datetime_unresolved"})
      BY <1>3, <1>4
    <2> QED  BY <1>1, <1>4, <2>1, AnsweredRange
  <1>5. CASE question = "timezone_and_deadline" /\ zone /\ deadline
    <2>1. New({"timezone_and_deadline", "timezone_ambiguity", "deadline_unresolved"})
      BY <1>3, <1>5
    <2> QED  BY <1>1, <1>5, <2>1, AnsweredRange
  <1>6. ASSUME question \notin {"timezone_and_datetime", "timezone_and_deadline"},
               New({question})
        PROVE  Range(Answered(NextQuestion)) \cap Reviewed = {}
    BY <1>1, <1>6, AnsweredRange
  <1>7. \/ zone /\ start /\ question = "timezone_and_datetime"
        \/ zone /\ deadline /\ question = "timezone_and_deadline"
        \/ zone /\ question = "timezone_ambiguity"
        \/ start /\ question = "datetime_unresolved"
        \/ deadline /\ question = "deadline_unresolved"
        \/ OtherIssues /\ question = "extraction_needs_review"
        \/ company \notin Reviewed /\ question = company
    BY <1>1
  <1>8. CASE company \notin Reviewed /\ question = company
    BY <1>2, <1>3, <1>6, <1>8
  <1>9. CASE \/ zone /\ question = "timezone_ambiguity"
             \/ start /\ question = "datetime_unresolved"
             \/ deadline /\ question = "deadline_unresolved"
             \/ OtherIssues /\ question = "extraction_needs_review"
    <2>1. New({question})
      BY <1>3, <1>9
    <2> QED  BY <1>6, <1>9, <2>1
  <1> HIDE DEF question
  <1> QED  BY <1>4, <1>5, <1>7, <1>8, <1>9

\* The extraction's questions are the validation's.
LEMMA ValidationAsks ==
    ASSUME GraphInv, Questions, at = "validate_extraction", [Next]_vars
    PROVE  Range(Answered(request'.reason)) \cap Reviewed = {}
  <1>1. ValidateExtraction /\ at' = "request_review"
    BY DEF Questions, Next, Node, vars, LoadSourceEmail, NormalizeEmail, ExtractActionLinks,
       PrefilterRecruitment, SanitizeContent, ExtractRecruitmentData, RequestReview,
       ResolveApplication, ResolveExistingEvent, PlanStateTransition, PersistDomainChanges,
       SyncCalendar, FinalizeProcessing, MarkIgnored, Decision, AnswerIgnore, AnswerTime,
       AnswerExtraction, AnswerCompany, AnswerApplication, AnswerEvent, AnswerCalendar, Decides,
       Crash, Retry, Seed, Goes, Raises, Ends, Asks
  <1>2. NextQuestion # "none" /\ request'.reason = NextQuestion
    BY <1>1 DEF ValidateExtraction, Goes, Asks
  <1>3. thread.evidence.company.status \in {"resolved", "ambiguous", "unresolved"}
    <2>1. audit \in Audit /\ thread.evidence = audit
      BY <1>1 DEF ValidateExtraction, GraphInv, Grounded, Extracting, EvidenceIsAudited
    <2> QED  BY <2>1 DEF Audit, Resolution
  <1> QED  BY <1>2, <1>3, QuestionIsNew

\* An application or an event is asked for as long as none is chosen, the calendar once.
LEMMA RowsAsk ==
    ASSUME GraphInv, Questions, at # "validate_extraction", [Next]_vars
    PROVE  \/ request'.reason = "multiple_open_applications"
                  /\ thread.app = None /\ ~thread.force
           \/ request'.reason = "reschedule_target_uncertain"
                  /\ thread.event = None /\ ~thread.asNew
           \/ request'.reason \in CalendarReasons /\ request'.reason \notin Reviewed
  <1>1. ResolveApplication \/ ResolveExistingEvent \/ SyncCalendar
    BY DEF Questions, Next, Node, vars, LoadSourceEmail, NormalizeEmail, ExtractActionLinks,
       PrefilterRecruitment, SanitizeContent, ExtractRecruitmentData, RequestReview,
       ValidateExtraction, PlanStateTransition, PersistDomainChanges,
       FinalizeProcessing, MarkIgnored, Decision, AnswerIgnore, AnswerTime,
       AnswerExtraction, AnswerCompany, AnswerApplication, AnswerEvent, AnswerCalendar, Decides,
       Crash, Retry, Seed, Goes, Raises, Ends
  <1>2. CASE ResolveApplication
    <2>1. thread.app = None /\ ~thread.force
      BY <1>2 DEF Questions, ResolveApplication, Goes, Raises, Asks
    <2>2. request'.reason = "multiple_open_applications"
      BY <1>2 DEF Questions, ResolveApplication
    <2> QED  BY <2>1, <2>2
  <1>3. CASE ResolveExistingEvent
    <2>1. thread.event = None /\ ~thread.asNew
      BY <1>3 DEF Questions, ResolveExistingEvent, Goes, Raises, Asks
    <2>2. request'.reason = "reschedule_target_uncertain"
      BY <1>3 DEF Questions, ResolveExistingEvent
    <2> QED  BY <2>1, <2>2
  <1>4. CASE SyncCalendar
    <2>1. at = "sync_calendar" /\ at' = "request_review"
      BY <1>4 DEF Questions, SyncCalendar, Goes, Raises, Asks
    <2>2. request'.reason \notin Reviewed
      BY <1>4, <2>1 DEF SyncCalendar, Goes, Raises, Asks, AsksFor
    <2> QED  BY <2>1, <2>2 DEF Questions
  <1> QED  BY <1>1, <1>2, <1>3, <1>4

LEMMA OnceStep == GraphInv /\ OnceInv /\ [Next]_vars => OnceInv'
  <1> SUFFICES ASSUME GraphInv, OnceInv, [Next]_vars PROVE OnceInv'
    OBVIOUS
  <1>1. Kind
    BY Kinds
  <1>2. Over /\ Reviewed # {} => Over'
    <2>1. Reviewed # {} => thread.reviewed # <<>>
      BY DEF Reviewed, Range
    <2> QED  BY <2>1, OverStays
  <1>3. ASSUME thread'.reviewed = thread.reviewed,
               thread'.app = thread.app, thread'.force = thread.force,
               thread'.event = thread.event, thread'.asNew = thread.asNew
        PROVE  Reviewed' = Reviewed /\ Counted' /\ Settled'
    BY <1>2, <1>3 DEF OnceInv, Counted, Settled, Reviewed
  <1>4. CASE Silent \/ Persists
    <2>1. thread' = thread /\ request' = request
      BY <1>4 DEF Silent, Persists
    <2>2. at' \in Waits => at \in Waits
      BY <1>4 DEF Silent, Persists, Elsewhere, Waits, Nodes, Deep
    <2> QED  BY <1>3, <2>1, <2>2 DEF OnceInv, Unasked
  <1>5. CASE Extracts
    <2>1. /\ thread'.reviewed = thread.reviewed
          /\ thread'.app = thread.app /\ thread'.force = thread.force
          /\ thread'.event = thread.event /\ thread'.asNew = thread.asNew
      BY <1>5 DEF Extracts, GraphInv, TypeOK, Thread
    <2>2. at' \notin Waits
      BY <1>5 DEF Extracts, Waits
    <2> QED  BY <1>3, <2>1, <2>2 DEF OnceInv, Unasked
  <1>6. CASE Questions
    <2>1. thread' = thread /\ ~Over
      BY <1>6 DEF Questions, Over
    <2>2. Reviewed' = Reviewed /\ Counted' /\ Settled'
      BY <1>3, <2>1
    <2>3. Range(Answered(request'.reason)) \cap Reviewed = {}
      <3>1. CASE at = "validate_extraction"
        BY <1>6, <3>1, ValidationAsks
      <3>2. CASE at # "validate_extraction"
        <4>1. request'.reason \notin Reviewed
          BY <1>6, <2>1, <3>2, RowsAsk DEF OnceInv, Settled
        <4>2. request'.reason \notin {"timezone_and_datetime", "timezone_and_deadline"}
          BY <1>6, <3>2, RowsAsk DEF CalendarReasons
        <4> QED  BY <4>1, <4>2, AnsweredRange
      <3> QED  BY <3>1, <3>2
    <2> QED  BY <2>2, <2>3 DEF OnceInv, Unasked
  <1>7. CASE Settles
    <2>1. Reviewed' = Reviewed \cup Range(Answered(request.reason))
      BY <1>7, ReviewedGrows
    <2>2. Range(Answered(request.reason)) \cap Reviewed = {}
      BY <1>7 DEF OnceInv, Unasked, Settles, Waits
    <2>3. /\ thread.reviewed \in Seq(Reasons) /\ Answered(request.reason) \in Seq(Reasons)
          /\ thread'.reviewed = thread.reviewed \o Answered(request.reason)
      BY <1>7, AnsweredTypes DEF GraphInv, TypeOK, Thread, Settles
    <2>4. Len(thread'.reviewed) = Len(thread.reviewed) + Len(Answered(request.reason))
      BY <2>3, ConcatProperties
    <2>5. Counted'
      <3>1. /\ IsFiniteSet(Reviewed)
            /\ Cardinality(Reviewed) = Len(thread.reviewed)
            /\ IsFiniteSet(Range(Answered(request.reason)))
            /\ Cardinality(Range(Answered(request.reason))) = Len(Answered(request.reason))
        BY AnswerLength DEF OnceInv, Counted
      <3>2. Cardinality({}) = 0
        BY FS_EmptySet
      <3>3. /\ IsFiniteSet(Reviewed \cup Range(Answered(request.reason)))
            /\ Cardinality(Reviewed \cup Range(Answered(request.reason))) =
                   Cardinality(Reviewed) + Cardinality(Range(Answered(request.reason)))
                       - Cardinality(Reviewed \cap Range(Answered(request.reason)))
        BY <3>1, FS_Union
      <3>4. Reviewed \cap Range(Answered(request.reason)) = {}
        BY <2>2
      <3>5. Len(thread.reviewed) \in Nat /\ Len(Answered(request.reason)) \in Nat
        BY <2>3, LenProperties
      <3>6. Cardinality(Reviewed \cup Range(Answered(request.reason))) =
                Len(thread.reviewed) + Len(Answered(request.reason))
        <4>1. Cardinality(Reviewed \cap Range(Answered(request.reason))) = 0
          BY <3>2, <3>4, Zenon
        <4> HIDE DEF Reviewed
        <4> QED  BY <3>1, <3>3, <3>5, <4>1
      <3> QED  BY <2>1, <2>4, <3>3, <3>6 DEF Counted
    <2>6. Settled'
      <3>1. at = "interrupted" /\ ~Over
        BY <1>7 DEF Settles, Over
      <3>2. thread' # thread
        <4>1. request.reason \in Range(Answered(request.reason))
          BY AnsweredRange
        <4>2. Reviewed' # Reviewed
          BY <2>1, <2>2, <4>1
        <4> QED  BY <4>2 DEF Reviewed
      <3>3. Sticks(thread') /\ (at' = "mark_ignored" \/ Chooses(thread'))
        BY <3>1, <3>2, OnlyDecisions, DecisionChooses
      <3>4. "multiple_open_applications" \in Range(Answered(request.reason)) =>
                request.reason = "multiple_open_applications"
        BY AnsweredRange
      <3>5. "reschedule_target_uncertain" \in Range(Answered(request.reason)) =>
                request.reason = "reschedule_target_uncertain"
        BY AnsweredRange
      <3> QED
        BY <2>1, <3>1, <3>3, <3>4, <3>5 DEF OnceInv, Settled, Sticks, Chooses, Over
    <2>7. at' \notin Waits
      <3>1. request.resume \notin Waits
        BY <1>7 DEF Settles, GraphInv, Asked, Waits, Reasons, CompanyReasons
      <3> QED  BY <1>7, <3>1 DEF Settles, Waits
    <2> QED  BY <2>5, <2>6, <2>7 DEF OnceInv, Unasked
  <1> QED  BY <1>1, <1>4, <1>5, <1>6, <1>7 DEF Kind

\* A human is never asked the same question twice in a run, and no question is opened for
\* what an earlier answer has settled: every question that is open is new, with all that its
\* answer will settle, because whoever asks looks at the answers, or at what they chose.
THEOREM NoQuestionIsRepeated == Spec => []NoQuestionTwice
  <1>1. Init => OnceInv
    <2> SUFFICES ASSUME Init PROVE OnceInv
      OBVIOUS
    <2>1. thread.reviewed = <<>> /\ at \notin Waits
      BY DEF Init, Waits
    <2>2. Reviewed = {}
      BY <2>1 DEF Reviewed, Range
    <2>3. Len(thread.reviewed) = 0
      BY <2>1
    <2> QED  BY <2>1, <2>2, <2>3, FS_EmptySet DEF OnceInv, Counted, Unasked, Settled
  <1>2. OnceInv => NoQuestionTwice
    <2> SUFFICES ASSUME OnceInv PROVE NoQuestionTwice
      OBVIOUS
    <2>1. request.reason \in Range(Answered(request.reason))
      BY AnsweredRange
    <2> QED  BY <2>1 DEF OnceInv, Counted, Unasked, Waits, NoQuestionTwice
  <1> QED  BY <1>1, <1>2, GraphInit, GraphStep, OnceStep, PTL DEF Spec
=============================================================================
