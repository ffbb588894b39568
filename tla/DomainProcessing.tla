--------------------------- MODULE DomainProcessing ---------------------------
(***************************************************************************)
(* The part of the workflow that turns an email's evidence into            *)
(* applications and events: resolve_application, resolve_existing_event,   *)
(* plan_state_transition and persist_domain_changes, for emails about one  *)
(* company and one normalized role.  Each node reads the database in a     *)
(* transaction of its own and hands its answer to the next one, so what it *)
(* read may be stale by the time the transition is persisted.              *)
(*                                                                         *)
(* An email is worked on by one pass through the graph at a time (see      *)
(* EmailProcessing), but several emails are at once.  A pass that dies is  *)
(* repeated from START with the evidence its run recorded, unless a        *)
(* reviewer had resumed it: the decision is then submitted again, and the  *)
(* graph goes on at the last checkpoint of its thread, with everything it  *)
(* had resolved and planned until then.  A checkpoint is saved while the   *)
(* next node executes, so the last one may be one node behind.  A pass     *)
(* that raises ends its run, and the next run may read the email           *)
(* differently.                                                            *)
(*                                                                         *)
(* LangGraph is external: what a resume goes on with is what its           *)
(* checkpointer kept.                                                      *)
(*                                                                         *)
(* Left out: unresolved companies and roles, interview rounds, action      *)
(* items and the history tables.                                           *)
(***************************************************************************)
EXTENDS Naturals, FiniteSets

CONSTANTS
    Emails,      \* source emails about the company and the role
    Earlier,     \* emails that may have been processed before, with an open application each
    Times,       \* resolved datetimes
    NoTime,      \* the evidence is undated
    None,        \* no application, no event
    Extracted,   \* what extraction and its review may make of an email
    MaxPasses,   \* bound: passes of all emails
    MaxCrashes   \* bound: passes that die

\* evidence.event_type, of the tracked types and one that is not tracked.
EventType == {"application_received", "assessment", "interview",
              "interview_reschedule", "offer", "rejection", "general_update"}

\* separate: the review of the extraction asked for a new application.
Evidence == [type : EventType, time : Times \cup {NoTime}, separate : BOOLEAN]

ASSUME EvidenceAssumption ==
    /\ Extracted \subseteq Evidence /\ Extracted # {}
    /\ IsFiniteSet(Emails) /\ Earlier \subseteq Emails
    /\ NoTime \notin Times /\ None \notin Emails
    /\ MaxPasses \in Nat /\ MaxCrashes \in Nat

-----------------------------------------------------------------------------
(* Pure decisions (domain/processing.py).                                   *)

Rank == [unknown |-> 0, applied |-> 1, assessment_pending |-> 2, assessment_completed |-> 3,
         interview_pending |-> 4, interview_scheduled |-> 5, interview_completed |-> 6]

Progress == DOMAIN Rank
ApplicationStatus == Progress \cup {"offer", "rejected", "withdrawn"}

\* Closed applications are not candidates for a new email; an offer is open.
Closed == {"rejected", "withdrawn"}

DesiredByType ==
    [application_received |-> "applied", assessment |-> "assessment_pending",
     interview |-> "interview_scheduled", interview_reschedule |-> "interview_scheduled",
     offer |-> "offer", rejection |-> "rejected", general_update |-> "unknown"]

\* desired_application_status
DesiredStatus(v) ==
    IF v.type = "interview" /\ v.time = NoTime THEN "interview_pending"
    ELSE DesiredByType[v.type]

\* Fault: only withdrawals are final.
NextStatusWithoutDecisions(current, desired) ==
    IF desired = "unknown" \/ current = "withdrawn" THEN current ELSE desired

\* next_application_status: progress is monotonic and decisions are final.
NextStatus(current, desired) ==
    IF current \notin Progress \/ desired \in {"unknown", "withdrawn"} THEN current
    ELSE IF desired \notin Progress \/ Rank[desired] >= Rank[current] THEN desired
    ELSE current

\* tracked_event_type; the calendar and the agenda know an interview's new time
\* as an interview.
Tracked(v) == v.type # "general_update"
TrackedType(v) == IF v.type = "interview_reschedule" THEN "interview" ELSE v.type

\* semantic_fingerprint: company, role and round are the same for all emails.
Fingerprint(v) == [type |-> TrackedType(v), time |-> v.time]

\* evidence_allows_mutation
AllowsMutation(v) == ~(v.type = "interview_reschedule" /\ v.time = NoTime)

-----------------------------------------------------------------------------

VARIABLES
    linked,      \* source_emails.application_id
    status,      \* applications.status by the email that created it; None without a row
    events,      \* recruitment_events rows
    at,          \* where the email's pass is
    evidence,    \* what it extracted
    answer,      \* the last decision of a reviewer it was resumed with
    plan,        \* what it has resolved so far
    passes,      \* passes so far
    crashes,     \* passes that died
    saved,       \* the node of the last checkpoint of a pass that died, until it is left
    overtaken,   \* passes that were dead when another email's changes were committed
    overlapped,  \* history: two emails were worked on at once, or a plan was overtaken
    asked,       \* history: a reviewer asked for a new application or interview
    reread,      \* history: a later run extracted other evidence
    lostUpdate   \* history: a status was written over one it was not computed from

rows == <<linked, status, events>>
deaths == <<crashes, overtaken>>
history == <<overlapped, asked, reread, lostUpdate>>
dvars == <<rows, at, evidence, answer, plan, passes, saved, deaths, history>>

\* The id of an event is derived from its email and its first fingerprint.
FingerprintSet == [type : EventType, time : Times \cup {NoTime}]
EventId == [email : Emails, first : FingerprintSet]
Event == [id : EventId, app : Emails, fingerprint : FingerprintSet]

\* None is told apart from a status and from an event.
ASSUME NoneAssumption == None \notin ApplicationStatus \cup EventId

NoEvidence == [type |-> "general_update", time |-> NoTime, separate |-> FALSE]
NoAnswer == [to |-> "none", app |-> None, event |-> None, new |-> FALSE]
NoPlan == [app |-> None, create |-> FALSE, separate |-> FALSE, seen |-> "unknown",
           after |-> "unknown", kind |-> "none", event |-> None, row |-> None]

Waiting == {"idle", "crashed", "reviewing application", "reviewing event",
            "reviewing calendar", "done", "ignored", "failed"}
Stage == Waiting \cup {"resolving application", "resolving event", "persisting", "writing",
                       "persisted", "linking", "creating", "updating", "saving", "finishing"}

Executing(e) == at[e] \notin Waiting

\* The nodes, as far as later steps tell them apart.
Nodes == {"resolving application", "resolving event", "persisting", "persisted", "finishing"}

Node(stage) ==
    CASE stage = "writing" -> "persisting"
      [] stage \in {"linking", "creating", "updating", "saving"} -> "persisted"
      [] OTHER -> stage

\* The node whose checkpoint may be the last one while it executes.  What precedes
\* resolve_application, and plan_state_transition, come to the same again.
Before(node) ==
    CASE node = "resolving event" -> "resolving application"
      [] node = "persisted" -> "persisting"
      [] node = "finishing" -> "persisted"
      [] OTHER -> node

DInit ==
    \E earlier \in SUBSET Earlier :
        /\ linked = [e \in Emails |-> IF e \in earlier THEN e ELSE None]
        /\ status = [a \in Emails |-> IF a \in earlier THEN "applied" ELSE None]
        /\ events = {}
        /\ at = [e \in Emails |-> IF e \in Earlier THEN "done" ELSE "idle"]
        /\ evidence = [e \in Emails |-> NoEvidence]
        /\ answer = [e \in Emails |-> NoAnswer]
        /\ plan = [e \in Emails |-> NoPlan]
        /\ passes = 0
        /\ crashes = 0
        /\ saved = [e \in Emails |-> "none"] /\ overtaken = {}
        /\ asked = (Cardinality(earlier) > 1)
        /\ overlapped = FALSE /\ reread = FALSE /\ lostUpdate = FALSE

Together(e) == \E f \in Emails \ {e} : Executing(f)

\* The pass of e goes on to another stage; overlapped records whether it was alone.
Goes(e, to) ==
    /\ at' = [at EXCEPT ![e] = to]
    /\ saved' = [saved EXCEPT ![e] = IF Node(to) = @ THEN @ ELSE "none"]
    /\ overlapped' = (overlapped \/ Together(e))

Step(e, from, to) == at[e] = from /\ Goes(e, to)

\* START to validate_extraction; a pass that died is repeated from START, unless it had
\* been resumed by a reviewer.  A failed email gets another pass from a later operation.
StartPass(e) ==
    /\ \/ at[e] \in {"idle", "failed"}
       \/ at[e] = "crashed" /\ answer[e] = NoAnswer /\ ~evidence[e].separate
    /\ passes < MaxPasses
    /\ Goes(e, "resolving application")
    /\ passes' = passes + 1
    /\ \E v \in Extracted :
           /\ at[e] = "crashed" => v = evidence[e]
           /\ evidence' = [evidence EXCEPT ![e] = v]
           /\ asked' = (asked \/ v.separate)
           /\ reread' = (reread \/ (at[e] = "failed" /\ v # evidence[e]))
    /\ answer' = [answer EXCEPT ![e] = NoAnswer]
    /\ plan' = [plan EXCEPT ![e] = NoPlan]
    /\ overtaken' = overtaken \ {e}
    /\ UNCHANGED <<rows, crashes, lostUpdate>>

\* What the pass goes on with was read before another email's changes.
Overtaken(e) == e \in overtaken /\ saved[e] \in {"resolving event", "persisting"}

\* The same decision is submitted again after the resume died: the graph goes on at its
\* last checkpoint.  Without an answer, the pass was resumed by a question that precedes
\* resolve_application.
RepeatDecision(e) ==
    /\ at[e] = "crashed"
    /\ at' = [at EXCEPT ![e] = saved[e]]
    /\ overlapped' = (overlapped \/ Overtaken(e) \/ Together(e))
    /\ answer' = IF answer[e] # NoAnswer THEN answer
                 ELSE [answer EXCEPT ![e].to = "resolving application"]
    /\ overtaken' = overtaken \ {e}
    /\ UNCHANGED <<rows, evidence, plan, passes, crashes, saved, asked, reread, lostUpdate>>

-----------------------------------------------------------------------------
(* resolve_application.                                                     *)

OpenApplications == {a \in Emails : status[a] \notin Closed \cup {None}}

Existing(a) == [NoPlan EXCEPT !.app = a, !.seen = status[a]]
New(e, separate) == [NoPlan EXCEPT !.app = e, !.create = TRUE, !.separate = separate]

\* The applications the email may be resolved to, as plans; none of them means that
\* a human decides.
ApplicationPlans(e) ==
    IF linked[e] # None THEN {Existing(linked[e])}
    ELSE IF answer[e].app # None THEN {Existing(answer[e].app)}
    ELSE IF answer[e].new \/ evidence[e].separate THEN {New(e, TRUE)}
    ELSE IF OpenApplications = {} THEN {New(e, FALSE)}
    ELSE IF Cardinality(OpenApplications) = 1 THEN {Existing(a) : a \in OpenApplications}
    ELSE {}

\* The reviewer's application is no longer a candidate.
StaleApplication(e) ==
    answer[e].app \notin {None} \cup
        IF linked[e] # None THEN {linked[e]} ELSE OpenApplications

ResolveApplication(e) ==
    /\ \/ StaleApplication(e) /\ Step(e, "resolving application", "failed") /\ UNCHANGED plan
       \/ /\ ~StaleApplication(e)
          /\ \E p \in ApplicationPlans(e) : plan' = [plan EXCEPT ![e] = p]
          /\ Step(e, "resolving application", "resolving event")
       \/ /\ ~StaleApplication(e) /\ ApplicationPlans(e) = {}
          /\ Step(e, "resolving application", "reviewing application")
          /\ UNCHANGED plan
    /\ UNCHANGED <<rows, evidence, answer, passes, deaths, asked, reread, lostUpdate>>

Answer(e, from, decision) ==
    /\ Step(e, from, decision.to)
    /\ answer' = [answer EXCEPT ![e] = decision]
    /\ asked' = (asked \/ decision.new)
    /\ UNCHANGED <<rows, evidence, plan, passes, deaths, reread, lostUpdate>>

AnswerApplication(e) ==
    LET decision == [NoAnswer EXCEPT !.to = "resolving application"]
    IN  \/ \E a \in OpenApplications :
               Answer(e, "reviewing application", [decision EXCEPT !.app = a])
        \/ Answer(e, "reviewing application", [decision EXCEPT !.new = TRUE])

\* mark_ignored, a choice of every review.
Ignore(e) ==
    /\ at[e] \in {"reviewing application", "reviewing event", "reviewing calendar"}
    /\ Goes(e, "ignored")
    /\ UNCHANGED <<rows, evidence, answer, plan, passes, deaths, asked, reread, lostUpdate>>

-----------------------------------------------------------------------------
(* resolve_existing_event and plan_state_transition.                        *)

EventsOf(a) == {v \in events : v.app = a}
Interviews(a) == {v \in EventsOf(a) : v.fingerprint.type = "interview"}

\* Fault: a new time of a known interview is a new event.
SameRoundChangeIgnored(e) == {}

\* _same_round_time_change: the application's only interview, at another time.
SameRoundChange(e) ==
    {v \in Interviews(plan[e].app) :
        /\ Cardinality(Interviews(plan[e].app)) = 1
        /\ TrackedType(evidence[e]) = "interview" /\ evidence[e].time # NoTime
        /\ v.fingerprint.time # evidence[e].time}

Duplicates(e) ==
    {v \in EventsOf(plan[e].app) :
        evidence[e].time # NoTime /\ v.fingerprint = Fingerprint(evidence[e])}

Update(v) == [kind |-> "update", event |-> v.id]
Create(e) == [kind |-> "create", event |-> [email |-> e, first |-> Fingerprint(evidence[e])]]

\* What a reschedule does: the chosen interview, a new one, or the only one.
Reschedules(e) ==
    IF answer[e].event # None THEN {[kind |-> "update", event |-> answer[e].event]}
    ELSE IF answer[e].to = "resolving event" /\ answer[e].new THEN {Create(e)}
    ELSE {Update(v) : v \in {w \in Interviews(plan[e].app) :
                                Cardinality(Interviews(plan[e].app)) = 1}}

\* The mutations the evidence may be resolved to; none means that a human decides.
EventPlans(e) ==
    IF ~Tracked(evidence[e]) THEN {[kind |-> "none", event |-> None]}
    ELSE IF evidence[e].type = "interview_reschedule" THEN Reschedules(e)
    ELSE IF Duplicates(e) # {} THEN {[kind |-> "none", event |-> v.id] : v \in Duplicates(e)}
    ELSE IF SameRoundChange(e) # {} THEN {Update(v) : v \in SameRoundChange(e)}
    ELSE {Create(e)}

\* The reviewer's interview is no longer one of the application's.
StaleEvent(e) ==
    answer[e].event \notin {None} \cup {v.id : v \in Interviews(plan[e].app)}

\* An unresolved time fails the run in plan_state_transition.
Unplannable(e) == StaleEvent(e) \/ (EventPlans(e) # {} /\ ~AllowsMutation(evidence[e]))

ResolveEvent(e) ==
    /\ \/ Unplannable(e) /\ Step(e, "resolving event", "failed") /\ UNCHANGED plan
       \/ /\ ~Unplannable(e)
          /\ \E p \in EventPlans(e) :
                 plan' = [plan EXCEPT ![e].kind = p.kind, ![e].event = p.event,
                              ![e].after = NextStatus(plan[e].seen, DesiredStatus(evidence[e]))]
          /\ Step(e, "resolving event", "persisting")
       \/ /\ ~Unplannable(e) /\ EventPlans(e) = {}
          /\ Step(e, "resolving event", "reviewing event")
          /\ UNCHANGED plan
    /\ UNCHANGED <<rows, evidence, answer, passes, deaths, asked, reread, lostUpdate>>

AnswerEvent(e) ==
    LET decision == [NoAnswer EXCEPT !.to = "resolving event"]
    IN  \/ \E v \in Interviews(plan[e].app) :
               Answer(e, "reviewing event", [decision EXCEPT !.event = v.id])
        \/ Answer(e, "reviewing event", [decision EXCEPT !.new = TRUE])

-----------------------------------------------------------------------------
(* persist_domain_changes: one transaction, revalidated against the rows.   *)

\* The rows and the event id an insert or update leads to; none when a constraint is
\* violated or the target is gone, which raises.
EventOutcomes(e, a) ==
    LET p == plan[e]
        same == {v \in EventsOf(a) : v.fingerprint = Fingerprint(evidence[e])}
        row == [id |-> p.event, app |-> a, fingerprint |-> Fingerprint(evidence[e])]
        target == {v \in Interviews(a) : v.id = p.event}
    IN  IF p.kind = "none" THEN {[events |-> events, event |-> p.event]}
        ELSE IF p.kind = "create"
        THEN IF same # {} THEN {[events |-> events, event |-> v.id] : v \in same}
             ELSE IF \E v \in events : v.id = p.event THEN {}
             ELSE {[events |-> events \cup {row}, event |-> p.event]}
        ELSE {[events |-> (events \ {v}) \cup {row}, event |-> p.event] :
                 v \in {w \in target : same \subseteq {w}}}

\* The transaction commits: the email's application is a, whose status it knows as current.
Commit(e, a, current) ==
    LET target == NextStatus(current, plan[e].after)
    IN  \E outcome \in EventOutcomes(e, a) :
            /\ Goes(e, "persisted")
            /\ linked' = [linked EXCEPT ![e] = a]
            /\ status' = [status EXCEPT ![a] = IF target # current \/ @ = None THEN target ELSE @]
            /\ lostUpdate' = (lostUpdate \/ (target # current /\ status[a] \notin {None, current}))
            /\ events' = outcome.events
            /\ plan' = [plan EXCEPT ![e].row = outcome.event]
            /\ overtaken' = overtaken \cup {f \in Emails \ {e} : at[f] = "crashed"}
            /\ UNCHANGED <<evidence, answer, passes, crashes, asked, reread>>

Fails(e) ==
    /\ Goes(e, "failed")
    /\ UNCHANGED <<rows, evidence, answer, plan, passes, deaths, asked, reread, lostUpdate>>

\* Fault: the candidates are not looked at again under the lock.
CandidatesOfThePlan(e) == {}

\* _find_open_for_write, unless a reviewer asked for a new application.
CandidatesForWrite(e) == IF plan[e].separate THEN {} ELSE OpenApplications

\* The email has no application yet: the row is created or joined under the advisory lock,
\* or the chosen one is locked.
PersistUnlinked(e) ==
    LET created == IF CandidatesForWrite(e) = {} THEN {e} ELSE CandidatesForWrite(e)
        chosen == IF plan[e].create THEN created ELSE {plan[e].app}
    IN  /\ at[e] = "persisting" /\ linked[e] = None
        /\ IF Cardinality(chosen) = 1 /\ \A a \in chosen : EventOutcomes(e, a) # {}
           THEN \E a \in chosen :
                    Commit(e, a, IF status[a] = None THEN "unknown" ELSE status[a])
           ELSE Fails(e)

\* The email has an application already: it is read without a lock, ...
ReadLinked(e) ==
    /\ linked[e] # None
    /\ IF linked[e] = plan[e].app \/ plan[e].create
       THEN /\ Step(e, "persisting", "writing")
            /\ plan' = [plan EXCEPT ![e].seen = status[linked[e]]]
            /\ UNCHANGED <<rows, evidence, answer, passes, deaths, asked, reread, lostUpdate>>
       ELSE at[e] = "persisting" /\ Fails(e)

\* ... and written from what was read.
WriteLinked(e) ==
    /\ at[e] = "writing"
    /\ IF EventOutcomes(e, linked[e]) # {} THEN Commit(e, linked[e], plan[e].seen) ELSE Fails(e)

\* The last checkpoint of a pass is that of its node, or the one before that, unless it was
\* resumed at this node.
Checkpoints(e) ==
    LET node == Node(at[e])
    IN  {node, IF node \in {saved[e], answer[e].to} THEN node ELSE Before(node)}

\* The pass dies; nothing of an open transaction is kept.
Crash(e) ==
    /\ Executing(e) /\ crashes < MaxCrashes
    /\ crashes' = crashes + 1
    /\ at' = [at EXCEPT ![e] = "crashed"]
    /\ \E node \in Checkpoints(e) : saved' = [saved EXCEPT ![e] = node]
    /\ overlapped' = (overlapped \/ Together(e))
    /\ UNCHANGED <<rows, evidence, answer, plan, passes, overtaken, asked, reread, lostUpdate>>

DNext ==
    \E e \in Emails :
        \/ StartPass(e) \/ RepeatDecision(e) \/ Crash(e)
        \/ ResolveApplication(e) \/ AnswerApplication(e) \/ Ignore(e)
        \/ ResolveEvent(e) \/ AnswerEvent(e)
        \/ PersistUnlinked(e) \/ ReadLinked(e) \/ WriteLinked(e)

-----------------------------------------------------------------------------
(* Properties.                                                              *)

\* Rows refer to rows, and every pass is where the graph can be.
DTypeOK ==
    /\ linked \in [Emails -> Emails \cup {None}]
    /\ status \in [Emails -> ApplicationStatus \cup {None}]
    /\ \A e \in Emails : linked[e] # None => status[linked[e]] # None
    /\ events \subseteq Event
    /\ \A v \in events : status[v.app] # None
    /\ at \in [Emails -> Stage]
    /\ passes \in 0 .. MaxPasses
    /\ crashes \in 0 .. MaxCrashes
    /\ saved \in [Emails -> Nodes \cup {"none"}] /\ overtaken \subseteq Emails

\* Emails processed at the same time, repeated or re-extracted never leave two open
\* applications for one company and role, unless a reviewer asked for one or a status was
\* written over a newer one, which may open a closed application again: the advisory lock and
\* the second look at the candidates close the window between resolve_application and the
\* insert.
OneOpenApplication ==
    ~asked /\ ~lostUpdate => Cardinality(OpenApplications) <= 1

\* A decision about an application, offer or rejection, outlives whatever is processed,
\* repeated or re-extracted afterwards, unless a status is written over a newer one.
DecisionsStand ==
    [][\A a \in Emails :
           status[a] \in {"offer", "rejected"} /\ ~lostUpdate' => status'[a] = status[a]]_dvars

\* As long as emails are processed one at a time, and no resume that died goes on with what
\* it had resolved before another email's changes, dated invitations and reschedules of an
\* application, however often repeated, move its one interview instead of adding another.
OneInterview ==
    LET dated == \A v \in events : v.id.first.type = "interview" => v.id.first.time # NoTime
    IN  dated /\ ~asked /\ ~overlapped =>
            \A a \in Emails : Cardinality(Interviews(a)) <= 1
=============================================================================
