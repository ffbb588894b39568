-------------------------- MODULE CalendarSyncProofs --------------------------
(***************************************************************************)
(* Proofs about DomainProcessing and CalendarSync, for any emails, earlier  *)
(* applications and bounds.  Each part below has an inductive invariant:    *)
(*   TypeInv    the values of the variables, and what a pass knows at each  *)
(*              of its steps (PassInv);                                     *)
(*   AskInv     a separate application was asked for by a human;            *)
(*   RowsInv    one row per event id and per content, and what a pass in    *)
(*              the calendar carries is the event of a row;                 *)
(*   AloneInv   without overlaps, a plan is as fresh as its pass, until     *)
(*              the dead pass is overtaken;                                 *)
(*   KeyedInv   Outlook's ids are unique and belong to their events;        *)
(*   CountInv   without overlaps, every live Outlook event beyond the one   *)
(*              linked or being posted is a death, a failure or a           *)
(*              replacement of its own;                                     *)
(*   AgreeInv   in calm, an event whose Outlook event is not at its time    *)
(*              is owed by a pass that is still to write it.                *)
(* A step is seen by these invariants through its shape: what it does to    *)
(* the pass of one email (Shapes, SyncShapes), the passes of the others     *)
(* being at rest (OthersRest).                                              *)
(***************************************************************************)
EXTENDS CalendarSync, FiniteSetTheorems, TLAPS

Goals == {"none", "resolving application", "resolving event", "persisted", "finishing"}
Answers == [to : Goals, app : Emails \cup {None}, event : EventId \cup {None}, new : BOOLEAN]
Plans == [app : Emails \cup {None}, create : BOOLEAN, separate : BOOLEAN,
          seen : ApplicationStatus, after : ApplicationStatus,
          kind : {"none", "create", "update"}, event : EventId \cup {None},
          row : EventId \cup {None}]
Syncs == [draft : Draft \cup {None}, target : OutlookId \cup {None}]

Syncing == {"linking", "creating", "updating", "saving"}

\* Where a pass is, or where it goes on when its decision is submitted again.
Where(e) == IF at[e] = "crashed" THEN saved[e] ELSE at[e]

\* The transaction of the pass is to be executed, or may be once more.
Repeatable(e) ==
    \/ Where(e) \in {"persisting", "writing"}
    \/ at[e] \in {"persisted"} \cup Syncing /\ "persisted" \notin {saved[e], answer[e].to}

\* The pass goes by the application it was resolved to.
Planning(e) == Where(e) \in {"resolving event", "reviewing event"} \/ Repeatable(e)

\* A plan is about an application that has a row, or that this email creates.
AppKnown(e) == plan[e].app \in Emails /\ (plan[e].create \/ status[plan[e].app] # None)

MutationKnown(e) == plan[e].kind # "none" => plan[e].event \in EventId
SyncKnown(e) == plan[e].row \in EventId /\ sync[e].draft \in Draft
TargetKnown(e) ==
    sync[e].target \in OutlookId /\ sync[e].target.transaction.event = plan[e].row

PassInv(e) ==
    /\ answer[e].to = "none" => answer[e] = NoAnswer
    /\ at[e] = "crashed" => saved[e] \in Nodes
    /\ Planning(e) => AppKnown(e)
    /\ Repeatable(e) => MutationKnown(e)
    /\ at[e] = "writing" => linked[e] # None
    /\ at[e] \in Syncing => SyncKnown(e)
    /\ at[e] \in {"updating", "saving"} => TargetKnown(e)

LocalTypes ==
    /\ evidence \in [Emails -> Evidence] /\ answer \in [Emails -> Answers]
    /\ plan \in [Emails -> Plans] /\ sync \in [Emails -> Syncs]
    /\ losses \in 0 .. MaxLosses /\ deletes \in 0 .. MaxDeletes
    /\ failures \in Nat /\ replaced \in Nat
    /\ overlapped \in BOOLEAN /\ asked \in BOOLEAN /\ reread \in BOOLEAN
    /\ lostUpdate \in BOOLEAN /\ misled \in BOOLEAN

TypeInv ==
    /\ TypeOK /\ LocalTypes
    /\ \A l \in links : l.target.transaction.event = l.event
    /\ \A e \in Emails : PassInv(e)

-----------------------------------------------------------------------------
(* The values the decisions are about.                                      *)

LEMMA StatusTypes ==
    /\ \A v \in Evidence : DesiredStatus(v) \in ApplicationStatus
    /\ \A c, d \in ApplicationStatus : NextStatus(c, d) \in ApplicationStatus
    /\ \A v \in Evidence : Fingerprint(v) \in FingerprintSet
    /\ "unknown" \in ApplicationStatus /\ None \notin ApplicationStatus
  <1>1. ASSUME NEW v \in Evidence PROVE DesiredStatus(v) \in ApplicationStatus
    BY <1>1 DEF Evidence, EventType, DesiredStatus, DesiredByType, ApplicationStatus, Progress, Rank
  <1>2. \A c, d \in ApplicationStatus : NextStatus(c, d) \in ApplicationStatus
    BY DEF NextStatus
  <1>3. ASSUME NEW v \in Evidence PROVE Fingerprint(v) \in FingerprintSet
    BY <1>3 DEF Evidence, EventType, Fingerprint, FingerprintSet, TrackedType
  <1> QED
    BY <1>1, <1>2, <1>3, NoneAssumption DEF ApplicationStatus, Progress, Rank

\* Evidence and plans of a new pass.
LEMMA Blank ==
    /\ NoEvidence \in Evidence /\ NoAnswer \in Answers /\ NoPlan \in Plans
    /\ NoSync \in Syncs
  BY StatusTypes DEF NoEvidence, Evidence, EventType, NoAnswer, Answers, Goals, NoPlan, Plans,
     NoSync, Syncs

-----------------------------------------------------------------------------
(* Steps.                                                                   *)

Works(e) ==
    \/ StartPass(e) \/ RepeatDecision(e) \/ Crash(e)
    \/ ResolveApplication(e) \/ AnswerApplication(e) \/ Ignore(e)
    \/ ResolveEvent(e) \/ AnswerEvent(e)
    \/ PersistUnlinked(e) \/ ReadLinked(e) \/ WriteLinked(e)

SyncStep(e) ==
    \/ SkipSync(e) \/ ReviewUndated(e) \/ LoadCandidate(e) \/ GetLink(e)
    \/ Request(e) \/ EventMissing(e) \/ SyncFails(e) \/ SaveLink(e)
    \/ AnswerCalendar(e) \/ Finish(e)

LEMMA Steps ==
    Next => \/ \E e \in Emails : Works(e) /\ UNCHANGED calendar
            \/ \E e \in Emails : SyncStep(e)
            \/ \E x \in outlook : UserDeletes(x)
  BY DEF Next, DNext, Works, SyncStep

-----------------------------------------------------------------------------
(* What persist_domain_changes writes.                                      *)

RowOf(e, a) == [id |-> plan[e].event, app |-> a, fingerprint |-> Fingerprint(evidence[e])]
Alike(e, a) == {v \in EventsOf(a) : v.fingerprint = Fingerprint(evidence[e])}

\* The event found by a commit, inserted by it, or updated by it.
Finds(e, a) ==
    /\ events' = events
    /\ \/ plan[e].kind = "none" /\ plan'[e].row = plan[e].event
       \/ /\ plan[e].kind = "create"
          /\ \E v \in Alike(e, a) : plan'[e].row = v.id
Inserts(e, a) ==
    /\ plan[e].kind = "create" /\ Alike(e, a) = {} /\ \A v \in events : v.id # plan[e].event
    /\ events' = events \cup {RowOf(e, a)} /\ plan'[e].row = plan[e].event
Updates(e, a) ==
    /\ plan[e].kind = "update" /\ plan'[e].row = plan[e].event
    /\ \E v \in Interviews(a) :
           /\ v.id = plan[e].event /\ Alike(e, a) \subseteq {v}
           /\ events' = (events \ {v}) \cup {RowOf(e, a)}

LEMMA Commits ==
    ASSUME NEW e \in Emails, NEW a, NEW c, Commit(e, a, c), plan \in [Emails -> Plans]
    PROVE  /\ Finds(e, a) \/ Inserts(e, a) \/ Updates(e, a)
           /\ plan' = [plan EXCEPT ![e] = [plan[e] EXCEPT !.row = plan'[e].row]]
  <1> DEFINE p == plan[e]
             same == Alike(e, a)
  <1>1. PICK o \in EventOutcomes(e, a) :
            events' = o.events /\ plan' = [plan EXCEPT ![e].row = o.event]
    BY DEF Commit
  <1>2. plan'[e].row = o.event /\ plan' = [plan EXCEPT ![e] = [plan[e] EXCEPT !.row = o.event]]
    BY <1>1 DEF Plans
  <1>3. CASE p.kind = "none"
    <2>1. o = [events |-> events, event |-> p.event]
      BY <1>3 DEF EventOutcomes
    <2> QED
      BY <1>1, <1>2, <1>3, <2>1 DEF Finds
  <1>4. CASE p.kind = "create" /\ same # {}
    <2>1. o \in {[events |-> events, event |-> v.id] : v \in same}
      BY <1>4 DEF EventOutcomes, Alike
    <2>2. PICK v \in same : o = [events |-> events, event |-> v.id]
      BY <2>1
    <2> QED
      BY <1>1, <1>2, <1>4, <2>2 DEF Finds
  <1>5. CASE p.kind = "create" /\ same = {}
    <2>1. o = [events |-> events \cup {RowOf(e, a)}, event |-> p.event]
          /\ \A v \in events : v.id # p.event
      BY <1>5 DEF EventOutcomes, Alike, RowOf
    <2> QED
      BY <1>1, <1>2, <1>5, <2>1 DEF Inserts
  <1>6. CASE p.kind = "update"
    <2>1. o \in {[events |-> (events \ {v}) \cup {RowOf(e, a)}, event |-> p.event] :
                     v \in {w \in {v \in Interviews(a) : v.id = p.event} : same \subseteq {w}}}
      BY <1>6 DEF EventOutcomes, Alike, RowOf
    <2>2. PICK v \in Interviews(a) :
             /\ v.id = p.event /\ same \subseteq {v}
             /\ o = [events |-> (events \ {v}) \cup {RowOf(e, a)}, event |-> p.event]
      BY <2>1
    <2> QED
      BY <1>1, <1>2, <1>6, <2>2 DEF Updates
  <1>7. p.kind \in {"none", "create", "update"}
    BY DEF Plans
  <1> QED
    BY <1>3, <1>4, <1>5, <1>6, <1>7

\* The application a pass that has none is written to, under the lock.
Picks(e, a) ==
    IF plan[e].create THEN \/ a = e /\ CandidatesForWrite(e) = {}
                           \/ CandidatesForWrite(e) = {a}
    ELSE a = plan[e].app

StatusSeen(a) == IF status[a] = None THEN "unknown" ELSE status[a]

\* An email's transaction fails, or commits to the application it found under the lock
\* or had already.
LEMMA Persists ==
    ASSUME NEW e \in Emails, IsFiniteSet(Emails)
    PROVE  /\ PersistUnlinked(e) =>
                  /\ at[e] = "persisting" /\ linked[e] = None
                  /\ Fails(e) \/ \E a : Picks(e, a) /\ Commit(e, a, StatusSeen(a))
           /\ WriteLinked(e) =>
                  /\ at[e] = "writing"
                  /\ Fails(e) \/ Commit(e, linked[e], plan[e].seen)
  <1>1. ASSUME PersistUnlinked(e), ~Fails(e)
        PROVE  \E a : Picks(e, a) /\ Commit(e, a, StatusSeen(a))
    <2> DEFINE created == IF CandidatesForWrite(e) = {} THEN {e} ELSE CandidatesForWrite(e)
               chosen == IF plan[e].create THEN created ELSE {plan[e].app}
    <2>1. Cardinality(chosen) = 1 /\ \E a \in chosen : Commit(e, a, StatusSeen(a))
      BY <1>1 DEF PersistUnlinked, StatusSeen
    <2>2. PICK a \in chosen : Commit(e, a, StatusSeen(a))
      BY <2>1
    <2>3. IsFiniteSet(chosen)
      <3>1. CandidatesForWrite(e) \in SUBSET Emails
        BY DEF CandidatesForWrite, OpenApplications
      <3>2. IsFiniteSet(CandidatesForWrite(e)) /\ IsFiniteSet({e}) /\ IsFiniteSet({plan[e].app})
        BY <3>1, FS_Subset, FS_Singleton
      <3> QED
        BY <3>2
    <2>4. chosen = {a}
      BY <2>1, <2>2, <2>3, FS_Singleton
    <2> QED
      BY <2>2, <2>4 DEF Picks
  <1> QED
    BY <1>1 DEF PersistUnlinked, WriteLinked

-----------------------------------------------------------------------------
(* What a step leaves alone.                                                *)

Same(f) ==
    /\ at'[f] = at[f] /\ evidence'[f] = evidence[f] /\ answer'[f] = answer[f]
    /\ plan'[f] = plan[f] /\ sync'[f] = sync[f] /\ linked'[f] = linked[f]
    /\ saved'[f] = saved[f] /\ (f \in overtaken => f \in overtaken')

LEMMA OthersRest ==
    ASSUME TypeInv, NEW e \in Emails, (Works(e) /\ UNCHANGED calendar) \/ SyncStep(e),
           NEW f \in Emails \ {e}
    PROVE  Same(f)
  <1>0. /\ at \in [Emails -> Stage] /\ linked \in [Emails -> Emails \cup {None}]
        /\ evidence \in [Emails -> Evidence] /\ answer \in [Emails -> Answers]
        /\ plan \in [Emails -> Plans] /\ sync \in [Emails -> Syncs]
        /\ saved \in [Emails -> Nodes \cup {"none"}]
    BY DEF TypeInv, TypeOK, DTypeOK, LocalTypes
  <1>1. ASSUME NEW a, NEW c, Commit(e, a, c), UNCHANGED calendar PROVE Same(f)
    BY <1>0, <1>1, Commits DEF Same, Commit, Goes, calendar
  <1>2. ASSUME Fails(e), UNCHANGED sync PROVE Same(f)
    BY <1>0, <1>2 DEF Same, Fails, Goes, rows, deaths
  <1>3. CASE Works(e) /\ UNCHANGED calendar
    <2>1. CASE StartPass(e) \/ RepeatDecision(e) \/ Crash(e) \/ Ignore(e)
      BY <1>0, <1>3, <2>1 DEF Same, StartPass, RepeatDecision, Crash, Ignore, Goes, Step, rows, deaths, calendar
    <2>2. CASE ResolveApplication(e) \/ AnswerApplication(e)
      BY <1>0, <1>3, <2>2
      DEF Same, ResolveApplication, AnswerApplication, Answer, Goes, Step, rows, deaths, calendar
    <2>3. CASE ResolveEvent(e) \/ AnswerEvent(e)
      BY <1>0, <1>3, <2>3 DEF Same, ResolveEvent, AnswerEvent, Answer, Goes, Step, rows, deaths, calendar
    <2>4. CASE PersistUnlinked(e) \/ WriteLinked(e)
      BY <1>1, <1>2, <1>3, <2>4, Persists, EvidenceAssumption DEF calendar
    <2>5. CASE ReadLinked(e)
      BY <1>0, <1>2, <1>3, <2>5 DEF Same, ReadLinked, Goes, Step, rows, deaths, calendar
    <2> QED
      BY <1>3, <2>1, <2>2, <2>3, <2>4, <2>5 DEF Works
  <1>4. CASE SyncStep(e)
    <2>1. CASE SkipSync(e) \/ ReviewUndated(e) \/ LoadCandidate(e) \/ EventMissing(e)
      BY <1>0, <2>1
      DEF Same, SkipSync, ReviewUndated, LoadCandidate, EventMissing, Moves, Goes, Step, rows, deaths, calendar
    <2>2. CASE GetLink(e)
      BY <1>0, <2>2 DEF Same, GetLink, Moves, Goes, Step, rows, deaths, told, bounds
    <2>3. CASE Request(e)
      BY <1>0, <2>3 DEF Same, Request, CreateEvent, UpdateEvent, Moves, Goes, Step, rows, deaths
    <2>4. CASE SaveLink(e) \/ Finish(e)
      BY <1>0, <2>4 DEF Same, SaveLink, Finish, Moves, Goes, Step, rows, deaths
    <2>5. CASE SyncFails(e)
      BY <1>2, <2>5 DEF SyncFails
    <2>6. CASE AnswerCalendar(e)
      BY <1>0, <2>6 DEF Same, AnswerCalendar, Answer, Goes, Step, rows, deaths, calendar
    <2> QED
      BY <1>4, <2>1, <2>2, <2>3, <2>4, <2>5, <2>6 DEF SyncStep
  <1> QED
    BY <1>3, <1>4

-----------------------------------------------------------------------------
(* What resolve_existing_event may decide.                                  *)

Rescheduling(e) == evidence[e].type = "interview_reschedule"

IsNothing(p) == p.kind = "none" /\ p.event = None
IsKnown(e, p) == p.kind = "none" /\ \E v \in Duplicates(e) : p.event = v.id
IsNew(e, p) ==
    p.kind = "create" /\ p.event = [email |-> e, first |-> Fingerprint(evidence[e])]
Is(v, p) == p.kind = "update" /\ p.event = v.id

LEMMA EventDecisions ==
    ASSUME NEW e \in Emails, NEW p \in EventPlans(e)
    PROVE  \/ ~Tracked(evidence[e]) /\ IsNothing(p)
           \/ /\ Rescheduling(e) /\ answer[e].event # None
              /\ p.kind = "update" /\ p.event = answer[e].event
           \/ /\ Rescheduling(e) /\ answer[e].event = None
              /\ answer[e].to = "resolving event" /\ answer[e].new /\ IsNew(e, p)
           \/ Rescheduling(e) /\ \E v \in Interviews(plan[e].app) : Is(v, p)
           \/ Tracked(evidence[e]) /\ ~Rescheduling(e) /\ IsKnown(e, p)
           \/ /\ Tracked(evidence[e]) /\ ~Rescheduling(e)
              /\ \E v \in SameRoundChange(e) : Is(v, p)
           \/ /\ Tracked(evidence[e]) /\ ~Rescheduling(e) /\ IsNew(e, p)
              /\ Duplicates(e) = {} /\ SameRoundChange(e) = {}
  <1>1. ASSUME ~Tracked(evidence[e]) PROVE IsNothing(p)
    <2>1. EventPlans(e) = {[kind |-> "none", event |-> None]}
      BY <1>1 DEF EventPlans
    <2> QED
      BY <2>1 DEF IsNothing
  <1>2. ASSUME Tracked(evidence[e]), Rescheduling(e)
        PROVE  \/ answer[e].event # None /\ p.kind = "update" /\ p.event = answer[e].event
               \/ /\ answer[e].event = None /\ answer[e].to = "resolving event"
                  /\ answer[e].new /\ IsNew(e, p)
               \/ \E v \in Interviews(plan[e].app) : Is(v, p)
    <2>1. p \in Reschedules(e)
      BY <1>2 DEF EventPlans, Rescheduling
    <2>2. CASE answer[e].event # None
      <3>1. Reschedules(e) = {[kind |-> "update", event |-> answer[e].event]}
        BY <2>2 DEF Reschedules
      <3> QED
        <4>1. p = [kind |-> "update", event |-> answer[e].event]
          BY <2>1, <3>1
        <4> QED
          BY <2>2, <4>1
    <2>3. CASE answer[e].event = None /\ answer[e].to = "resolving event" /\ answer[e].new
      <3>1. Reschedules(e) = {Create(e)}
        BY <2>3 DEF Reschedules
      <3> QED
        <4>1. IsNew(e, p)
          BY <2>1, <3>1 DEF IsNew, Create
        <4> QED
          BY <2>3, <4>1
    <2>4. CASE answer[e].event = None /\ ~(answer[e].to = "resolving event" /\ answer[e].new)
      <3>1. p \in {Update(v) : v \in {w \in Interviews(plan[e].app) :
                                       Cardinality(Interviews(plan[e].app)) = 1}}
        BY <2>1, <2>4 DEF Reschedules
      <3>2. PICK v \in Interviews(plan[e].app) : p = Update(v)
        BY <3>1
      <3> QED
        BY <3>2 DEF Is, Update
    <2> QED
      BY <2>2, <2>3, <2>4
  <1>3. ASSUME Tracked(evidence[e]), ~Rescheduling(e)
        PROVE  \/ IsKnown(e, p)
               \/ \E v \in SameRoundChange(e) : Is(v, p)
               \/ IsNew(e, p) /\ Duplicates(e) = {} /\ SameRoundChange(e) = {}
    <2>1. CASE Duplicates(e) # {}
      <3>1. p \in {[kind |-> "none", event |-> v.id] : v \in Duplicates(e)}
        BY <1>3, <2>1 DEF EventPlans, Rescheduling
      <3> QED
        BY <3>1 DEF IsKnown
    <2>2. CASE Duplicates(e) = {} /\ SameRoundChange(e) # {}
      <3>1. p \in {Update(v) : v \in SameRoundChange(e)}
        BY <1>3, <2>2 DEF EventPlans, Rescheduling
      <3> QED
        BY <3>1 DEF Is, Update
    <2>3. CASE Duplicates(e) = {} /\ SameRoundChange(e) = {}
      <3>1. EventPlans(e) = {Create(e)}
        BY <1>3, <2>3 DEF EventPlans, Rescheduling
      <3> QED
        BY <2>3, <3>1 DEF IsNew, Create
    <2> QED
      BY <2>1, <2>2, <2>3
  <1> QED
    BY <1>1, <1>2, <1>3

\* The plan a pass has after its event was resolved.
PlannedAs(e, p) ==
    /\ p \in EventPlans(e)
    /\ plan' = [plan EXCEPT ![e] = plan'[e]]
    /\ plan'[e] = [plan[e] EXCEPT !.kind = p.kind, !.event = p.event,
                      !.after = NextStatus(plan[e].seen, DesiredStatus(evidence[e]))]

LEMMA EventResolved ==
    ASSUME NEW e \in Emails, ResolveEvent(e), plan \in [Emails -> Plans],
           at \in [Emails -> Stage]
    PROVE  /\ at[e] = "resolving event"
           /\ \/ at'[e] # "persisting" /\ plan' = plan
              \/ ~Unplannable(e) /\ at'[e] = "persisting" /\ \E p \in EventPlans(e) : PlannedAs(e, p)
  <1>1. CASE ~Unplannable(e) /\ at'[e] = "persisting"
    <2>1. PICK p \in EventPlans(e) :
             plan' = [plan EXCEPT ![e].kind = p.kind, ![e].event = p.event,
                         ![e].after = NextStatus(plan[e].seen, DesiredStatus(evidence[e]))]
      BY <1>1 DEF ResolveEvent, Step, Goes
    <2>2. plan'[e] = [plan[e] EXCEPT !.kind = p.kind, !.event = p.event,
                         !.after = NextStatus(plan[e].seen, DesiredStatus(evidence[e]))]
      BY <2>1 DEF Plans
    <2>3. plan' = [plan EXCEPT ![e] = plan'[e]]
      BY <2>1
    <2> QED
      BY <1>1, <2>2, <2>3 DEF PlannedAs, ResolveEvent, Step
  <1> QED
    BY <1>1 DEF ResolveEvent, Step, Goes

LEMMA PlannedFields ==
    ASSUME NEW e \in Emails, NEW p, PlannedAs(e, p), plan[e] \in Plans
    PROVE  /\ plan'[e].kind = p.kind /\ plan'[e].event = p.event
           /\ plan'[e].app = plan[e].app /\ plan'[e].create = plan[e].create
           /\ plan'[e].separate = plan[e].separate
  <1>1. PICK k, i, s : k = p.kind /\ i = p.event
                       /\ s = NextStatus(plan[e].seen, DesiredStatus(evidence[e]))
    OBVIOUS
  <1>2. plan'[e] = [plan[e] EXCEPT !.kind = k, !.event = i, !.after = s]
    BY <1>1 DEF PlannedAs
  <1> QED
    BY <1>1, <1>2 DEF Plans

LEMMA EventPlanTypes ==
    ASSUME NEW e \in Emails, NEW p \in EventPlans(e), TypeInv
    PROVE  /\ p.kind \in {"none", "create", "update"}
           /\ p.event \in EventId \cup {None}
           /\ p.kind # "none" => p.event \in EventId
  <1>1. evidence[e] \in Evidence /\ answer[e].event \in EventId \cup {None}
    BY DEF TypeInv, LocalTypes, Answers
  <1>2. \A v \in events : v.id \in EventId
    BY DEF TypeInv, TypeOK, DTypeOK, Event
  <1>3. [email |-> e, first |-> Fingerprint(evidence[e])] \in EventId
    BY <1>1, StatusTypes DEF EventId
  <1>4. \A v \in Duplicates(e) \cup SameRoundChange(e) \cup Interviews(plan[e].app) : v \in events
    BY DEF Duplicates, SameRoundChange, Interviews, EventsOf
  <1> QED
    BY <1>1, <1>2, <1>3, <1>4, EventDecisions DEF IsNothing, IsKnown, IsNew, Is

-----------------------------------------------------------------------------
(* What resolve_application may decide.                                     *)

LEMMA ApplicationDecisions ==
    ASSUME NEW e \in Emails, ~StaleApplication(e), DTypeOK, NEW p \in ApplicationPlans(e),
           answer[e].app \in Emails \cup {None}
    PROVE  \/ /\ \E a \in Emails : status[a] # None /\ p = Existing(a)
              /\ linked[e] # None => p = Existing(linked[e])
           \/ /\ linked[e] = None /\ answer[e].app = None
              /\ \/ (answer[e].new \/ evidence[e].separate) /\ p = New(e, TRUE)
                 \/ OpenApplications = {} /\ p = New(e, FALSE)
  <1>0. \A a \in OpenApplications : a \in Emails /\ status[a] # None
    BY DEF OpenApplications
  <1>1. CASE linked[e] # None
    <2>1. p = Existing(linked[e])
      BY <1>1 DEF ApplicationPlans
    <2> QED
      BY <1>1, <2>1 DEF DTypeOK
  <1>2. CASE linked[e] = None /\ answer[e].app # None
    <2>1. p = Existing(answer[e].app)
      BY <1>2 DEF ApplicationPlans
    <2>2. answer[e].app \in OpenApplications
      BY <1>2 DEF StaleApplication
    <2> QED
      BY <1>0, <1>2, <2>1, <2>2
  <1>3. CASE linked[e] = None /\ answer[e].app = None
    <2>1. CASE answer[e].new \/ evidence[e].separate
      <3>1. p = New(e, TRUE)
        BY <1>3, <2>1 DEF ApplicationPlans
      <3> QED
        BY <1>3, <2>1, <3>1
    <2>2. CASE ~(answer[e].new \/ evidence[e].separate) /\ OpenApplications = {}
      <3>1. p = New(e, FALSE)
        BY <1>3, <2>2 DEF ApplicationPlans
      <3> QED
        BY <1>3, <2>2, <3>1
    <2>3. CASE ~(answer[e].new \/ evidence[e].separate) /\ OpenApplications # {}
      <3>1. p \in {Existing(a) : a \in OpenApplications}
        BY <1>3, <2>3 DEF ApplicationPlans
      <3> QED
        BY <1>0, <1>3, <3>1
    <2> QED
      BY <2>1, <2>2, <2>3
  <1> QED
    BY <1>1, <1>2, <1>3

\* The plan for an application is about one that has a row, or that is created.
LEMMA PlannedApplication ==
    ASSUME NEW e \in Emails, ~StaleApplication(e), DTypeOK, NEW p \in ApplicationPlans(e),
           answer[e] \in Answers
    PROVE  /\ p \in Plans /\ p.app \in Emails
           /\ p.create \/ status[p.app] # None
           /\ p.create => p.app = e /\ linked[e] = None
           /\ linked[e] # None => p.app = linked[e]
  <1>1. /\ \/ \E a \in Emails : status[a] # None /\ p = Existing(a)
           \/ linked[e] = None /\ \E b \in BOOLEAN : p = New(e, b)
        /\ linked[e] # None => p = Existing(linked[e])
    BY ApplicationDecisions DEF Answers
  <1>2. \A a \in Emails : status[a] # None =>
            Existing(a) \in Plans /\ Existing(a).app = a /\ Existing(a).create = FALSE
    BY Blank DEF DTypeOK, Existing, Plans, NoPlan
  <1>3. \A b \in BOOLEAN : New(e, b) \in Plans /\ New(e, b).app = e /\ New(e, b).create
    BY Blank DEF New, Plans, NoPlan
  <1>4. linked[e] # None => Existing(linked[e]).app = linked[e]
    BY DEF Existing, NoPlan
  <1> QED
    BY <1>1, <1>2, <1>3, <1>4

-----------------------------------------------------------------------------
(* What a reviewer may answer.                                              *)

LEMMA ApplicationAnswers ==
    ASSUME NEW e \in Emails, AnswerApplication(e)
    PROVE  \E d \in Answers :
               /\ Answer(e, "reviewing application", d)
               /\ d.to = "resolving application" /\ d.event = None
  <1> DEFINE d == [NoAnswer EXCEPT !.to = "resolving application"]
  <1>1. ASSUME NEW a \in OpenApplications PROVE [d EXCEPT !.app = a] \in Answers
    BY DEF OpenApplications, NoAnswer, Answers, Goals
  <1>2. [d EXCEPT !.new = TRUE] \in Answers
    BY DEF NoAnswer, Answers, Goals
  <1>3. CASE \E a \in OpenApplications : Answer(e, "reviewing application", [d EXCEPT !.app = a])
    <2>1. PICK a \in OpenApplications : Answer(e, "reviewing application", [d EXCEPT !.app = a])
      BY <1>3
    <2>2. [d EXCEPT !.app = a].to = "resolving application" /\ [d EXCEPT !.app = a].event = None
      BY DEF NoAnswer
    <2> HIDE DEF d
    <2> QED
      BY <1>1, <2>1, <2>2
  <1>4. CASE Answer(e, "reviewing application", [d EXCEPT !.new = TRUE])
    <2>1. [d EXCEPT !.new = TRUE].to = "resolving application"
          /\ [d EXCEPT !.new = TRUE].event = None
      BY DEF NoAnswer
    <2> HIDE DEF d
    <2> QED
      BY <1>2, <1>4, <2>1
  <1> QED
    BY <1>3, <1>4 DEF AnswerApplication

LEMMA EventAnswers ==
    ASSUME NEW e \in Emails, AnswerEvent(e),
           \A v \in Interviews(plan[e].app) : v.id \in EventId
    PROVE  \E d \in Answers :
               /\ Answer(e, "reviewing event", d) /\ d.to = "resolving event"
               /\ d.new \/ \E v \in Interviews(plan[e].app) : d.event = v.id
  <1> DEFINE d == [NoAnswer EXCEPT !.to = "resolving event"]
  <1>1. ASSUME NEW v \in Interviews(plan[e].app) PROVE [d EXCEPT !.event = v.id] \in Answers
    BY DEF NoAnswer, Answers, Goals
  <1>2. [d EXCEPT !.new = TRUE] \in Answers
    BY DEF NoAnswer, Answers, Goals
  <1>3. CASE \E v \in Interviews(plan[e].app) :
                 Answer(e, "reviewing event", [d EXCEPT !.event = v.id])
    <2>1. PICK v \in Interviews(plan[e].app) :
              Answer(e, "reviewing event", [d EXCEPT !.event = v.id])
      BY <1>3
    <2>2. [d EXCEPT !.event = v.id].to = "resolving event" /\ [d EXCEPT !.event = v.id].event = v.id
      BY DEF NoAnswer
    <2> HIDE DEF d
    <2> QED
      BY <1>1, <2>1, <2>2
  <1>4. CASE Answer(e, "reviewing event", [d EXCEPT !.new = TRUE])
    <2>1. [d EXCEPT !.new = TRUE].to = "resolving event" /\ [d EXCEPT !.new = TRUE].new
      BY DEF NoAnswer
    <2> HIDE DEF d
    <2> QED
      BY <1>2, <1>4, <2>1
  <1> QED
    BY <1>3, <1>4 DEF AnswerEvent

-----------------------------------------------------------------------------
(* The steps of a pass, as the invariants below look at them: what happens to the *)
(* pass of e; the passes of the others rest (OthersRest).                    *)

Stays(e) ==
    /\ UNCHANGED <<linked, status, events, lostUpdate, crashes>>
    /\ evidence'[e] = evidence[e] /\ answer'[e] = answer[e]

Starts(e) ==
    /\ UNCHANGED <<linked, status, events, lostUpdate, crashes>>
    /\ at[e] \in {"idle", "failed", "crashed"} /\ at'[e] = "resolving application"
    /\ evidence'[e] \in Evidence
    /\ at[e] = "crashed" => evidence'[e] = evidence[e]
    /\ asked' = (asked \/ evidence'[e].separate)
    /\ reread' = (reread \/ (at[e] = "failed" /\ evidence'[e] # evidence[e]))
    /\ answer'[e] = NoAnswer /\ plan'[e] = NoPlan

Resumes(e) ==
    /\ UNCHANGED <<linked, status, events, lostUpdate, crashes, asked, reread>>
    /\ at[e] = "crashed" /\ at'[e] = saved[e] /\ saved'[e] = saved[e]
    /\ evidence'[e] = evidence[e] /\ plan'[e] = plan[e]
    /\ answer'[e].app = answer[e].app /\ answer'[e].event = answer[e].event
    /\ answer'[e].new = answer[e].new
    /\ answer'[e].to = IF answer[e] = NoAnswer THEN "resolving application" ELSE answer[e].to
    /\ ~overlapped' => ~Overtaken(e)

Stops(e) ==
    /\ UNCHANGED <<linked, status, events, lostUpdate>>
    /\ evidence'[e] = evidence[e] /\ answer'[e] = answer[e]
    /\ plan'[e] = plan[e] /\ UNCHANGED <<asked, reread>>
    /\ crashes' = IF at'[e] = "crashed" THEN crashes + 1 ELSE crashes
    /\ at[e] # "crashed" /\ (at[e] \in {"creating", "saving", "finishing"} => at'[e] = "crashed")
    /\ at'[e] \in {"crashed", "failed", "ignored"}

ResolvesApplication(e) ==
    /\ Stays(e) /\ UNCHANGED <<asked, reread>> /\ at[e] = "resolving application"
    /\ \/ at'[e] = "reviewing application" /\ plan'[e] = plan[e]
       \/ /\ at'[e] = "resolving event" /\ ~StaleApplication(e)
          /\ plan'[e] \in ApplicationPlans(e)

ResolvesEvent(e) ==
    /\ Stays(e) /\ UNCHANGED <<asked, reread>> /\ at[e] = "resolving event"
    /\ \/ at'[e] = "reviewing event" /\ plan'[e] = plan[e] /\ EventPlans(e) = {}
       \/ /\ at'[e] = "persisting" /\ ~Unplannable(e)
          /\ \E p \in EventPlans(e) : PlannedAs(e, p)

IsAnswered(e) ==
    /\ UNCHANGED <<linked, status, events, lostUpdate, crashes, reread>>
    /\ evidence'[e] = evidence[e] /\ plan'[e] = plan[e]
    /\ at'[e] = answer'[e].to /\ asked' = (asked \/ answer'[e].new)
    /\ \/ /\ at[e] = "reviewing application" /\ answer'[e].to = "resolving application"
          /\ answer'[e].event = None
       \/ /\ at[e] = "reviewing event" /\ answer'[e].to = "resolving event"
          /\ answer'[e].new \/ \E v \in Interviews(plan[e].app) : answer'[e].event = v.id

Reads(e) ==
    /\ Stays(e) /\ UNCHANGED <<asked, reread>>
    /\ at[e] = "persisting" /\ at'[e] = "writing"
    /\ linked[e] # None /\ (linked[e] = plan[e].app \/ plan[e].create)
    /\ plan'[e] = [plan[e] EXCEPT !.seen = status[linked[e]]]

Writes(e) ==
    /\ \E a \in Emails, c \in ApplicationStatus :
           /\ Commit(e, a, c)
           /\ \/ at[e] = "persisting" /\ linked[e] = None /\ Picks(e, a) /\ c = StatusSeen(a)
              \/ at[e] = "writing" /\ a = linked[e] /\ c = plan[e].seen
    /\ at'[e] = "persisted" /\ UNCHANGED <<crashes, asked, reread>>
    /\ overtaken' = overtaken \cup {f \in Emails \ {e} : at[f] = "crashed"}
    /\ evidence'[e] = evidence[e] /\ answer'[e] = answer[e]

LEMMA Shapes ==
    ASSUME TypeInv, NEW e \in Emails, Works(e)
    PROVE  \/ Starts(e) \/ Resumes(e) \/ Stops(e) \/ ResolvesApplication(e) \/ ResolvesEvent(e)
           \/ IsAnswered(e) \/ Reads(e) \/ Writes(e)
  <1>0. /\ DTypeOK /\ PassInv(e) /\ at \in [Emails -> Stage]
        /\ evidence \in [Emails -> Evidence] /\ answer \in [Emails -> Answers]
        /\ plan \in [Emails -> Plans]
    BY DEF TypeInv, TypeOK, LocalTypes, DTypeOK
  <1>1. CASE StartPass(e)
    <2>1. PICK v \in Extracted :
             /\ at[e] = "crashed" => v = evidence[e]
             /\ evidence' = [evidence EXCEPT ![e] = v]
             /\ asked' = (asked \/ v.separate)
             /\ reread' = (reread \/ (at[e] = "failed" /\ v # evidence[e]))
      BY <1>1 DEF StartPass
    <2>2. evidence'[e] = v /\ v \in Evidence
      BY <1>0, <2>1, EvidenceAssumption
    <2> QED
      BY <1>0, <1>1, <2>1, <2>2 DEF StartPass, Goes, Starts, rows, deaths
  <1>2. CASE RepeatDecision(e)
    <2>1. answer'[e] = IF answer[e] # NoAnswer THEN answer[e]
                       ELSE [answer[e] EXCEPT !.to = "resolving application"]
      BY <1>0, <1>2 DEF RepeatDecision
    <2>2. /\ answer'[e].app = answer[e].app /\ answer'[e].event = answer[e].event
          /\ answer'[e].new = answer[e].new
          /\ answer'[e].to = IF answer[e] = NoAnswer THEN "resolving application" ELSE answer[e].to
      BY <1>0, <2>1 DEF Answers
    <2> QED
      BY <1>0, <1>2, <2>2 DEF RepeatDecision, Resumes, rows
  <1>3. ASSUME Fails(e), at[e] \notin {"creating", "saving", "finishing", "crashed"}
        PROVE  Stops(e)
    BY <1>0, <1>3 DEF Fails, Goes, Stops, rows, deaths
  <1>4. CASE Crash(e) \/ Ignore(e)
    BY <1>0, <1>4 DEF Crash, Ignore, Goes, Stops, Executing, Waiting, rows, deaths
  <1>5. CASE ResolveApplication(e)
    <2>0. UNCHANGED <<rows, evidence, answer, deaths, asked, reread, lostUpdate>>
          /\ at[e] = "resolving application"
      BY <1>5 DEF ResolveApplication, Step
    <2>1. CASE Goes(e, "failed") /\ UNCHANGED plan
      BY <1>0, <2>0, <2>1 DEF Goes, Stops, rows, deaths
    <2>2. CASE /\ ~StaleApplication(e) /\ Goes(e, "resolving event")
               /\ \E p \in ApplicationPlans(e) : plan' = [plan EXCEPT ![e] = p]
      <3>1. plan'[e] \in ApplicationPlans(e)
        BY <1>0, <2>2
      <3> QED
        BY <1>0, <2>0, <2>2, <3>1 DEF Goes, ResolvesApplication, Stays, rows, deaths
    <2>3. CASE Goes(e, "reviewing application") /\ UNCHANGED plan
      BY <1>0, <2>0, <2>3 DEF Goes, ResolvesApplication, Stays, rows, deaths
    <2> QED
      BY <1>5, <2>1, <2>2, <2>3 DEF ResolveApplication, Step
  <1>6. CASE ResolveEvent(e)
    <2>0. UNCHANGED <<rows, evidence, answer, deaths, asked, reread, lostUpdate>>
          /\ at[e] = "resolving event"
      BY <1>6 DEF ResolveEvent, Step
    <2>1. CASE Goes(e, "failed") /\ UNCHANGED plan
      BY <1>0, <2>0, <2>1 DEF Goes, Stops, rows, deaths
    <2>2. CASE Goes(e, "persisting")
      <3>1. at'[e] = "persisting"
        BY <1>0, <2>2 DEF Goes
      <3>2. ~Unplannable(e) /\ \E p \in EventPlans(e) : PlannedAs(e, p)
        BY <1>0, <1>6, <3>1, EventResolved, Blank DEF ResolveEvent, Step, Goes
      <3> QED
        BY <2>0, <3>1, <3>2 DEF ResolvesEvent, Stays, rows, deaths
    <2>3. CASE Goes(e, "reviewing event") /\ UNCHANGED plan /\ EventPlans(e) = {}
      BY <1>0, <2>0, <2>3 DEF Goes, ResolvesEvent, Stays, rows, deaths
    <2> QED
      BY <1>6, <2>1, <2>2, <2>3 DEF ResolveEvent, Step
  <1>7. ASSUME NEW d \in Answers, NEW from, Answer(e, from, d)
        PROVE  /\ UNCHANGED <<linked, status, events, lostUpdate, crashes, reread>>
               /\ evidence'[e] = evidence[e] /\ plan'[e] = plan[e] /\ at[e] = from
               /\ at'[e] = d.to /\ answer'[e] = d /\ asked' = (asked \/ d.new)
    BY <1>0, <1>7 DEF Answer, Step, Goes, rows, deaths
  <1>8. CASE AnswerApplication(e)
    <2>1. PICK d \in Answers : /\ Answer(e, "reviewing application", d)
                               /\ d.to = "resolving application" /\ d.event = None
      BY <1>8, ApplicationAnswers
    <2> QED
      BY <1>7, <2>1 DEF IsAnswered
  <1>9. CASE AnswerEvent(e)
    <2>1. \A v \in Interviews(plan[e].app) : v.id \in EventId
      BY <1>0 DEF Interviews, EventsOf, DTypeOK, Event
    <2>2. PICK d \in Answers :
             /\ Answer(e, "reviewing event", d) /\ d.to = "resolving event"
             /\ d.new \/ \E v \in Interviews(plan[e].app) : d.event = v.id
      BY <1>9, <2>1, EventAnswers
    <2> QED
      BY <1>7, <2>2 DEF IsAnswered
  <1>10. ASSUME NEW a, NEW c, Commit(e, a, c)
         PROVE  /\ at'[e] = "persisted" /\ UNCHANGED <<crashes, asked, reread>>
                /\ overtaken' = overtaken \cup {f \in Emails \ {e} : at[f] = "crashed"}
                /\ evidence'[e] = evidence[e] /\ answer'[e] = answer[e]
    BY <1>0, <1>10 DEF Commit, Goes
  <1>11. CASE PersistUnlinked(e)
    <2>1. CASE Fails(e)
      BY <1>3, <1>11, <2>1, Persists, EvidenceAssumption
    <2>2. CASE ~Fails(e)
      <3>1. PICK a : Picks(e, a) /\ Commit(e, a, StatusSeen(a)) /\ at[e] = "persisting"
                     /\ linked[e] = None
        BY <1>11, <2>2, Persists, EvidenceAssumption
      <3>2. a \in Emails
        BY <1>0, <3>1 DEF Picks, CandidatesForWrite, OpenApplications, PassInv, Planning, Repeatable, Where, AppKnown
      <3>3. StatusSeen(a) \in ApplicationStatus
        BY <1>0, <3>2, StatusTypes DEF StatusSeen, DTypeOK
      <3> QED
        BY <1>10, <3>1, <3>2, <3>3 DEF Writes
    <2> QED
      BY <2>1, <2>2
  <1>12. CASE WriteLinked(e)
    <2>1. CASE Fails(e)
      BY <1>3, <1>12, <2>1, Persists, EvidenceAssumption
    <2>2. CASE ~Fails(e)
      <3>1. Commit(e, linked[e], plan[e].seen) /\ at[e] = "writing"
        BY <1>12, <2>2, Persists, EvidenceAssumption
      <3>2. linked[e] \in Emails /\ plan[e].seen \in ApplicationStatus
        BY <1>0, <3>1 DEF PassInv, Plans, DTypeOK
      <3> QED
        BY <1>10, <3>1, <3>2 DEF Writes
    <2> QED
      BY <2>1, <2>2
  <1>13. CASE ReadLinked(e)
    <2>1. CASE Fails(e) /\ at[e] = "persisting"
      BY <1>3, <2>1
    <2>2. CASE ~(Fails(e) /\ at[e] = "persisting")
      <3>1. /\ Step(e, "persisting", "writing") /\ (linked[e] = plan[e].app \/ plan[e].create)
            /\ linked[e] # None
            /\ plan' = [plan EXCEPT ![e].seen = status[linked[e]]]
            /\ UNCHANGED <<rows, evidence, answer, passes, deaths, asked, reread, lostUpdate>>
        BY <1>13, <2>2 DEF ReadLinked
      <3>2. plan'[e] = [plan[e] EXCEPT !.seen = status[linked[e]]]
        BY <1>0, <3>1
      <3> QED
        BY <1>0, <3>1, <3>2 DEF Step, Goes, Reads, Stays, rows, deaths
    <2> QED
      BY <2>1, <2>2
  <1> QED
    BY <1>1, <1>2, <1>4, <1>5, <1>6, <1>8, <1>9, <1>11, <1>12, <1>13 DEF Works

\* Steps of the calendar node change no row, and evidence, answer and plan only when the run
\* is completed or a reviewer answers.
Completes(e) ==
    /\ at[e] = "finishing" /\ at'[e] = "done" /\ UNCHANGED <<asked, links, outlook>>
    /\ evidence'[e] = NoEvidence /\ answer'[e] = NoAnswer /\ plan'[e] = NoPlan
    /\ UNCHANGED <<replaced, misled, deletes, failures>>

Reviewed(e) ==
    /\ at[e] = "reviewing calendar" /\ at'[e] = answer'[e].to
    /\ answer'[e].to = "finishing" \/ (answer'[e].to = "persisted" /\ sync[e] # NoSync)
    /\ answer'[e].event = None /\ ~answer'[e].new
    /\ evidence'[e] = evidence[e] /\ plan'[e] = plan[e] /\ UNCHANGED <<calendar, asked>>

Advances(e) ==
    /\ at[e] \in {"persisted"} \cup Syncing
    /\ at'[e] \in Syncing \cup {"finishing", "reviewing calendar", "failed"}
    /\ evidence'[e] = evidence[e] /\ answer'[e] = answer[e] /\ plan'[e] = plan[e]
    /\ UNCHANGED asked

LEMMA SyncShapes ==
    ASSUME TypeInv, NEW e \in Emails, SyncStep(e)
    PROVE  /\ UNCHANGED <<linked, status, events, lostUpdate, crashes, reread>>
           /\ \/ Completes(e) \/ Reviewed(e)
              \/ /\ Advances(e)
                 /\ \/ SkipSync(e) \/ ReviewUndated(e) \/ LoadCandidate(e) \/ GetLink(e)
                    \/ Request(e) \/ EventMissing(e) \/ SyncFails(e) \/ SaveLink(e)
  <1>0. /\ at \in [Emails -> Stage]
        /\ evidence \in [Emails -> Evidence] /\ answer \in [Emails -> Answers]
        /\ plan \in [Emails -> Plans]
    BY DEF TypeInv, TypeOK, LocalTypes, DTypeOK
  <1>1. ASSUME NEW from \in {"persisted"} \cup Syncing,
               NEW to \in Syncing \cup {"finishing", "reviewing calendar"}, Moves(e, from, to)
        PROVE  Advances(e) /\ UNCHANGED <<linked, status, events, lostUpdate, crashes, reread>>
    BY <1>0, <1>1 DEF Moves, Step, Goes, Advances, rows, deaths
  <1>2. CASE SkipSync(e) \/ ReviewUndated(e) \/ LoadCandidate(e) \/ EventMissing(e) \/ SaveLink(e)
    BY <1>1, <1>2 DEF SkipSync, ReviewUndated, LoadCandidate, EventMissing, SaveLink, Syncing
  <1>3. CASE GetLink(e)
    <2>1. \E to \in {"creating", "updating", "finishing"} : Moves(e, "linking", to)
      BY <1>3 DEF GetLink
    <2> QED
      BY <1>1, <1>3, <2>1 DEF Syncing
  <1>4. CASE Request(e)
    <2>1. \E from \in {"creating", "updating"}, to \in {"creating", "updating", "saving"} :
              Moves(e, from, to)
      BY <1>4 DEF Request, CreateEvent, UpdateEvent
    <2> QED
      BY <1>1, <1>4, <2>1 DEF Syncing
  <1>5. CASE SyncFails(e)
    BY <1>0, <1>5 DEF SyncFails, Fails, Goes, Advances, Syncing, rows, deaths
  <1>6. CASE AnswerCalendar(e)
    <2>1. PICK to \in {"persisted", "finishing"} :
             /\ Answer(e, "reviewing calendar", [NoAnswer EXCEPT !.to = to])
             /\ to = "persisted" => sync[e] # NoSync
      BY <1>6 DEF AnswerCalendar
    <2>2. PICK d \in Answers : /\ Answer(e, "reviewing calendar", d) /\ d.to = to
                               /\ d.event = None /\ d.new = FALSE
      <3>1. LET d == [NoAnswer EXCEPT !.to = to]
            IN  d \in Answers /\ d.to = to /\ d.event = None /\ d.new = FALSE
        BY DEF NoAnswer, Answers, Goals
      <3> QED
        BY <2>1, <3>1
    <2>3. /\ at[e] = "reviewing calendar" /\ Goes(e, to) /\ answer' = [answer EXCEPT ![e] = d]
          /\ asked' = (asked \/ d.new)
          /\ UNCHANGED <<linked, status, events, evidence, plan, crashes, reread,
                         lostUpdate, calendar>>
      BY <1>6, <2>2 DEF AnswerCalendar, Answer, Step, rows, deaths
    <2>4. asked' = asked
      BY <2>2, <2>3 DEF TypeInv, LocalTypes
    <2> QED
      BY <1>0, <2>1, <2>2, <2>3, <2>4 DEF Goes, Reviewed
  <1>7. CASE Finish(e)
    BY <1>0, <1>7 DEF Finish, Step, Goes, Completes, rows, deaths, bounds, told
  <1> QED
    BY <1>2, <1>3, <1>4, <1>5, <1>6, <1>7 DEF SyncStep

\* A step of an email takes its pass to a stage, kills it or goes on with a dead one.
LEMMA Moving ==
    ASSUME TypeInv, NEW e \in Emails, Works(e) \/ SyncStep(e)
    PROVE  \/ RepeatDecision(e) \/ Crash(e)
           \/ \E to \in Stage \ {"crashed"} : Goes(e, to)
  <1>0. Goals \ {"none"} \subseteq Stage \ {"crashed"}
    BY DEF Goals, Stage, Waiting
  <1>1. ASSUME NEW from, NEW d, d.to \in Goals \ {"none"}, Answer(e, from, d)
        PROVE  \E to \in Stage \ {"crashed"} : Goes(e, to)
    BY <1>0, <1>1 DEF Answer, Step
  <1>2. CASE Works(e)
    <2>1. CASE PersistUnlinked(e) \/ WriteLinked(e)
      BY <2>1, Persists, EvidenceAssumption DEF Fails, Commit, Stage, Waiting
    <2>2. CASE AnswerApplication(e)
      BY <1>1, <2>2, ApplicationAnswers DEF Goals
    <2>3. CASE AnswerEvent(e)
      <3>1. \A v \in Interviews(plan[e].app) : v.id \in EventId
        BY DEF Interviews, EventsOf, TypeInv, TypeOK, DTypeOK, Event
      <3> QED
        BY <1>1, <2>3, <3>1, EventAnswers DEF Goals
    <2>4. CASE ReadLinked(e)
      BY <2>4 DEF ReadLinked, Step, Fails, Stage, Waiting
    <2>5. CASE ResolveApplication(e) \/ ResolveEvent(e)
      BY <2>5 DEF ResolveApplication, ResolveEvent, Step, Stage, Waiting
    <2> QED
      BY <1>2, <2>1, <2>2, <2>3, <2>4, <2>5 DEF Works, StartPass, Ignore, Step, Stage, Waiting
  <1>3. CASE SyncStep(e)
    <2>1. CASE Request(e)
      BY <2>1 DEF Request, CreateEvent, UpdateEvent, Moves, Step, Stage
    <2>2. CASE GetLink(e)
      BY <2>2 DEF GetLink, Moves, Step, Stage
    <2>3. CASE AnswerCalendar(e)
      <3>1. PICK to \in {"persisted", "finishing"} :
               Answer(e, "reviewing calendar", [NoAnswer EXCEPT !.to = to])
        BY <2>3 DEF AnswerCalendar
      <3>2. [NoAnswer EXCEPT !.to = to].to = to /\ to \in Goals \ {"none"}
        BY DEF NoAnswer, Goals
      <3> QED
        BY <1>1, <3>1, <3>2
    <2> QED
      BY <1>3, <2>1, <2>2, <2>3
      DEF SyncStep, SkipSync, ReviewUndated, LoadCandidate, EventMissing, SyncFails, Fails, SaveLink,
          Finish, Moves, Step, Stage, Waiting
  <1> QED
    BY <1>2, <1>3

\* A step that leaves the history without overlaps is that of a pass alone.
LEMMA Overlaps ==
    ASSUME TypeInv, NEW e \in Emails, Works(e) \/ SyncStep(e)
    PROVE  /\ overlapped' \in BOOLEAN
           /\ ~overlapped' => ~overlapped /\ \A f \in Emails \ {e} : ~Executing(f)
  BY Moving DEF Goes, RepeatDecision, Crash, Together, TypeInv, LocalTypes

\* What is known of the last checkpoint.
LEMMA Saves ==
    ASSUME TypeInv, NEW e \in Emails, Works(e) \/ SyncStep(e)
    PROVE  /\ saved' \in [Emails -> Nodes \cup {"none"}] /\ at' \in [Emails -> Stage]
           /\ \/ at[e] = "crashed" /\ at'[e] = saved[e] /\ saved'[e] = saved[e]
              \/ Executing(e) /\ at'[e] = "crashed" /\ saved'[e] \in Checkpoints(e)
              \/ /\ at'[e] # "crashed"
                 /\ saved'[e] = IF Node(at'[e]) = saved[e] THEN saved[e] ELSE "none"
  <1>0. /\ at \in [Emails -> Stage] /\ saved \in [Emails -> Nodes \cup {"none"}]
        /\ at[e] = "crashed" => saved[e] \in Nodes
    BY DEF TypeInv, TypeOK, DTypeOK, PassInv
  <1>1. Nodes \subseteq Stage
    BY DEF Nodes, Stage
  <1>2. Executing(e) => Checkpoints(e) \subseteq Nodes
    BY <1>0 DEF Executing, Checkpoints, Before, Node, Nodes, Stage, Waiting
  <1>3. CASE RepeatDecision(e)
    BY <1>0, <1>1, <1>3 DEF RepeatDecision
  <1>4. CASE Crash(e)
    BY <1>0, <1>2, <1>4 DEF Crash, Stage, Waiting
  <1>5. ASSUME NEW to \in Stage \ {"crashed"}, Goes(e, to)
        PROVE  /\ saved' \in [Emails -> Nodes \cup {"none"}] /\ at' \in [Emails -> Stage]
               /\ at'[e] # "crashed"
               /\ saved'[e] = IF Node(at'[e]) = saved[e] THEN saved[e] ELSE "none"
    <2>1. at' = [at EXCEPT ![e] = to]
          /\ saved' = [saved EXCEPT ![e] = IF Node(to) = saved[e] THEN saved[e] ELSE "none"]
      BY <1>5 DEF Goes
    <2> QED
      BY <1>0, <1>5, <2>1
  <1> QED
    BY <1>3, <1>4, <1>5, Moving

\* What of a plan lasts until the pass resolves its email again.
KeepsPlan(e) ==
    /\ plan'[e].app = plan[e].app /\ plan'[e].create = plan[e].create
    /\ plan'[e].separate = plan[e].separate
    /\ plan'[e].kind = plan[e].kind /\ plan'[e].event = plan[e].event
    /\ evidence'[e] = evidence[e]

\* A transaction is executed again with the plan it was planned with, and an application is
\* gone by until it is resolved again, whatever dies on the way.
LEMMA Turns ==
    ASSUME TypeInv, NEW e \in Emails, (Works(e) /\ UNCHANGED calendar) \/ SyncStep(e)
    PROVE  /\ Repeatable(e)' => (Repeatable(e) /\ KeepsPlan(e)) \/ ResolvesEvent(e)
           /\ Planning(e)' =>
                  \/ ResolvesApplication(e) /\ at'[e] = "resolving event"
                  \/ Planning(e) /\ KeepsPlan(e)
                  \/ Planning(e) /\ ResolvesEvent(e)
           /\ Where(e)' = "resolving event" =>
                  Where(e) = "resolving event" \/ ResolvesApplication(e) \/ IsAnswered(e)
           /\ Where(e)' = "reviewing event" => ResolvesEvent(e)
  <1>0. /\ at[e] \in Stage /\ at'[e] \in Stage /\ plan[e] \in Plans
        /\ saved[e] \in Nodes \cup {"none"} /\ saved'[e] \in Nodes \cup {"none"}
        /\ at[e] = "crashed" => saved[e] \in Nodes
    BY Saves DEF TypeInv, TypeOK, DTypeOK, LocalTypes, PassInv
  <1>1. CASE Starts(e)
    BY <1>1 DEF Starts, Planning, Repeatable, Where, Syncing
  <1>2. CASE Resumes(e)
    <2>1. KeepsPlan(e)
      BY <1>2 DEF Resumes, KeepsPlan
    <2> QED
      BY <1>0, <1>2, <2>1 DEF Resumes, Planning, Repeatable, Where, Syncing, Nodes
  <1>3. CASE Stops(e)
    <2>1. KeepsPlan(e) /\ at[e] # "crashed"
      BY <1>3 DEF Stops, KeepsPlan
    <2>2. CASE at'[e] = "crashed"
      <3>1. Executing(e) /\ saved'[e] \in Checkpoints(e)
        BY <2>1, <2>2, Saves DEF Executing, Waiting
      <3>2. /\ saved'[e] \in {"persisting", "writing"} => Repeatable(e)
            /\ saved'[e] = "resolving event" => at[e] = "resolving event"
            /\ saved'[e] # "reviewing event"
        BY <1>0, <3>1 DEF Checkpoints, Before, Node, Repeatable, Where, Executing, Waiting, Stage,
           Syncing, Nodes
      <3> QED
        BY <2>1, <2>2, <3>2 DEF Planning, Repeatable, Where, Syncing
    <2>3. CASE at'[e] # "crashed"
      BY <1>3, <2>3 DEF Stops, Planning, Repeatable, Where, Syncing
    <2> QED
      BY <2>2, <2>3
  <1>4. CASE ResolvesApplication(e)
    BY <1>4 DEF ResolvesApplication, Planning, Repeatable, Where, Syncing
  <1>5. CASE ResolvesEvent(e)
    BY <1>5 DEF ResolvesEvent, Planning, Repeatable, Where, Syncing
  <1>6. CASE IsAnswered(e)
    BY <1>6 DEF IsAnswered, KeepsPlan, Planning, Repeatable, Where, Syncing
  <1>7. CASE Reads(e)
    <2>1. KeepsPlan(e)
      BY <1>0, <1>7 DEF Reads, Stays, KeepsPlan, Plans
    <2> QED
      BY <1>7, <2>1 DEF Reads, Planning, Repeatable, Where, Syncing
  <1>8. CASE Writes(e)
    <2>1. at[e] \in {"persisting", "writing"} /\ evidence'[e] = evidence[e]
          /\ at'[e] = "persisted"
      BY <1>8 DEF Writes
    <2>2. \E i : plan'[e] = [plan[e] EXCEPT !.row = i]
      <3>1. PICK a \in Emails, c \in ApplicationStatus : Commit(e, a, c)
        BY <1>8 DEF Writes
      <3>2. plan' = [plan EXCEPT ![e] = [plan[e] EXCEPT !.row = plan'[e].row]]
        BY <3>1, Commits DEF TypeInv, LocalTypes
      <3>3. PICK i : i = plan'[e].row
        OBVIOUS
      <3> QED
        BY <3>2, <3>3 DEF TypeInv, LocalTypes
    <2>3. KeepsPlan(e)
      BY <1>0, <2>1, <2>2 DEF KeepsPlan, Plans
    <2> QED
      BY <2>1, <2>3 DEF Planning, Repeatable, Where, Syncing
  <1>9. CASE SyncStep(e)
    <2>1. CASE Completes(e)
      BY <2>1 DEF Completes, Planning, Repeatable, Where, Syncing
    <2>2. CASE Reviewed(e)
      BY <2>2 DEF Reviewed, Planning, Repeatable, Where, Syncing
    <2>3. CASE Advances(e)
      <3>1. KeepsPlan(e)
        BY <2>3 DEF Advances, KeepsPlan
      <3>2. at'[e] \in Syncing => (saved'[e] = "persisted" <=> saved[e] = "persisted")
        BY <1>0, <2>3, Saves DEF Advances, Syncing, Node
      <3> QED
        BY <2>3, <3>1, <3>2 DEF Advances, Planning, Repeatable, Where, Syncing
    <2> QED
      BY <1>9, <2>1, <2>2, <2>3, SyncShapes
  <1> QED
    BY <1>1, <1>2, <1>3, <1>4, <1>5, <1>6, <1>7, <1>8, <1>9, Shapes

-----------------------------------------------------------------------------
(* Types.                                                                   *)

LEMMA InitTypeInv == Init => TypeInv
  <1> SUFFICES ASSUME Init PROVE TypeInv
    OBVIOUS
  <1>1. LocalTypes
    <2>1. asked \in BOOLEAN
      BY DEF Init, DInit
    <2>2. 0 \in 0 .. MaxLosses /\ 0 \in 0 .. MaxDeletes
      BY CalendarAssumption
    <2> QED
      BY <2>1, <2>2, Blank DEF Init, DInit, LocalTypes
  <1>2. DTypeOK
    BY StatusTypes, EvidenceAssumption
    DEF Init, DInit, DTypeOK, ApplicationStatus, Progress, Rank, Stage, Waiting
  <1>3. \A e \in Emails : PassInv(e)
    <2> SUFFICES ASSUME NEW e \in Emails PROVE PassInv(e)
      OBVIOUS
    <2>1. at[e] \in {"done", "idle"} /\ answer[e] = NoAnswer /\ answer[e].to = "none"
      BY DEF Init, DInit, NoAnswer
    <2> QED
      BY <2>1 DEF PassInv, Planning, Repeatable, Where, Syncing
  <1> QED
    BY <1>1, <1>2, <1>3 DEF Init, TypeInv, TypeOK

\* A commit writes rows of their types, about applications that have a row.
LEMMA CommitTypes ==
    ASSUME TypeInv, NEW e \in Emails, NEW a \in Emails, NEW c \in ApplicationStatus,
           Commit(e, a, c), at[e] \in {"persisting", "writing"}
    PROVE  /\ DTypeOK' /\ plan'[e] \in Plans
           /\ \A b \in Emails : status[b] # None => status'[b] # None
  <1>0. /\ DTypeOK /\ plan \in [Emails -> Plans] /\ evidence[e] \in Evidence
        /\ MutationKnown(e)
    BY DEF TypeInv, TypeOK, LocalTypes, PassInv, Repeatable, Where
  <1>1. NextStatus(c, plan[e].after) \in ApplicationStatus
    BY <1>0, StatusTypes DEF Plans
  <1>2. /\ status' \in [Emails -> ApplicationStatus \cup {None}] /\ status'[a] # None
        /\ \A b \in Emails : status[b] # None => status'[b] # None
    BY <1>0, <1>1, StatusTypes DEF Commit, DTypeOK
  <1>3. linked' = [linked EXCEPT ![e] = a] /\ at' = [at EXCEPT ![e] = "persisted"]
        /\ saved' = [saved EXCEPT ![e] = IF Node("persisted") = saved[e] THEN saved[e] ELSE "none"]
        /\ overtaken' \subseteq Emails /\ UNCHANGED <<passes, crashes>>
    BY <1>0 DEF Commit, Goes, DTypeOK
  <1>4. events' \subseteq Event /\ \A v \in events' : v \in events \/ v.app = a
    <2>1. plan[e].kind # "none" => RowOf(e, a) \in Event
      BY <1>0, StatusTypes DEF MutationKnown, RowOf, Event
    <2>2. RowOf(e, a).app = a
      BY DEF RowOf
    <2> QED
      BY <1>0, <2>1, <2>2, Commits DEF Finds, Inserts, Updates, DTypeOK
  <1>5. plan'[e] \in Plans
    <2>1. plan'[e].row \in EventId \cup {None}
      BY <1>0, Commits DEF Finds, Inserts, Updates, Plans, DTypeOK, Alike, EventsOf, Event
    <2>2. PICK i : i = plan'[e].row
      OBVIOUS
    <2>3. plan'[e] = [plan[e] EXCEPT !.row = i]
      BY <1>0, <2>2, Commits
    <2> QED
      BY <1>0, <2>1, <2>2, <2>3 DEF Plans
  <1> QED
    <2>1. \A b \in Emails : linked'[b] # None => status'[linked'[b]] # None
      BY <1>0, <1>2, <1>3, EvidenceAssumption DEF DTypeOK
    <2>2. \A v \in events' : status'[v.app] # None
      BY <1>0, <1>2, <1>4 DEF DTypeOK, Event
    <2>3. /\ at' \in [Emails -> Stage] /\ linked' \in [Emails -> Emails \cup {None}]
          /\ saved' \in [Emails -> Nodes \cup {"none"}]
      BY <1>0, <1>3 DEF DTypeOK, Stage
    <2> QED
      BY <1>0, <1>2, <1>3, <1>4, <1>5, <2>1, <2>2, <2>3 DEF DTypeOK

\* Steps of the workflow keep the types.
LEMMA WorkTypes ==
    ASSUME TypeInv, NEW e \in Emails, Works(e), UNCHANGED calendar
    PROVE  /\ DTypeOK' /\ LocalTypes'
           /\ \A b \in Emails : status[b] # None => status'[b] # None
  <1>0. /\ DTypeOK /\ LocalTypes /\ PassInv(e)
        /\ at \in [Emails -> Stage] /\ linked \in [Emails -> Emails \cup {None}]
        /\ evidence \in [Emails -> Evidence] /\ answer \in [Emails -> Answers]
        /\ plan \in [Emails -> Plans] /\ sync \in [Emails -> Syncs]
        /\ status \in [Emails -> ApplicationStatus \cup {None}]
    BY DEF TypeInv, TypeOK, LocalTypes, DTypeOK
  <1>s. /\ saved' \in [Emails -> Nodes \cup {"none"}] /\ at' \in [Emails -> Stage]
        /\ overlapped' \in BOOLEAN
    BY Saves, Overlaps
  <1>c. UNCHANGED <<links, outlook, sync, losses, deletes, failures, replaced, misled>>
    BY DEF calendar, bounds, told
  <1>1. CASE StartPass(e)
    <2>1. PICK v \in Extracted : evidence' = [evidence EXCEPT ![e] = v]
      BY <1>1 DEF StartPass
    <2>2. LocalTypes'
      <3>1. v \in Evidence /\ asked' \in BOOLEAN /\ reread' \in BOOLEAN
        BY <1>1, EvidenceAssumption DEF StartPass
      <3> QED
        BY <1>0, <1>1, <1>c, <1>s, <2>1, <3>1, Blank, EvidenceAssumption DEF StartPass, LocalTypes
    <2>3. passes' \in 0 .. MaxPasses
      <3>1. passes' = passes + 1 /\ passes < MaxPasses
        BY <1>1 DEF StartPass
      <3> QED
        BY <1>0, <3>1, EvidenceAssumption DEF DTypeOK
    <2> QED
      BY <1>0, <1>1, <1>s, <2>2, <2>3 DEF StartPass, DTypeOK, rows
  <1>2. CASE RepeatDecision(e)
    <2>1. [answer[e] EXCEPT !.to = "resolving application"] \in Answers
      BY <1>0 DEF Answers, Goals
    <2>2. answer' \in [Emails -> Answers]
      BY <1>0, <1>2, <2>1 DEF RepeatDecision
    <2> QED
      BY <1>0, <1>2, <1>c, <1>s, <2>2 DEF RepeatDecision, DTypeOK, LocalTypes, rows
  <1>3. CASE Crash(e) \/ Ignore(e) \/ Fails(e)
    <2>1. /\ UNCHANGED <<rows, evidence, answer, plan, passes, overtaken, asked, reread, lostUpdate>>
          /\ crashes' \in 0 .. MaxCrashes
      <3>1. CASE Crash(e)
        <4>1. crashes' = crashes + 1 /\ crashes < MaxCrashes
          BY <3>1 DEF Crash
        <4> QED
          BY <1>0, <3>1, <4>1, EvidenceAssumption DEF DTypeOK, Crash
      <3> QED
        BY <1>0, <1>3, <3>1 DEF DTypeOK, Ignore, Fails, deaths
    <2> QED
      BY <1>0, <1>c, <1>s, <2>1 DEF DTypeOK, LocalTypes, rows
  <1>4. CASE ResolveApplication(e)
    <2>0. UNCHANGED <<rows, evidence, answer, passes, deaths, asked, reread, lostUpdate>>
      BY <1>4 DEF ResolveApplication
    <2>1. CASE plan' = plan
      BY <1>0, <1>c, <1>s, <2>0, <2>1 DEF DTypeOK, LocalTypes, rows, deaths
    <2>2. CASE /\ ~StaleApplication(e)
               /\ \E p \in ApplicationPlans(e) : plan' = [plan EXCEPT ![e] = p]
      <3>1. PICK p \in ApplicationPlans(e) : plan' = [plan EXCEPT ![e] = p]
        BY <2>2
      <3>2. p \in Plans
        BY <1>0, <2>2, PlannedApplication
      <3> QED
        BY <1>0, <1>c, <1>s, <2>0, <3>1, <3>2 DEF DTypeOK, LocalTypes, rows, deaths
    <2> QED
      BY <1>4, <2>1, <2>2 DEF ResolveApplication, Step
  <1>5. ASSUME NEW d \in Answers, NEW from, Answer(e, from, d)
        PROVE  /\ DTypeOK' /\ LocalTypes'
               /\ \A b \in Emails : status[b] # None => status'[b] # None
    <2>1. /\ answer' = [answer EXCEPT ![e] = d] /\ asked' \in BOOLEAN
          /\ UNCHANGED <<linked, status, events, evidence, plan, passes, deaths, reread, lostUpdate>>
      BY <1>5 DEF Answer, rows
    <2> QED
      BY <1>0, <1>c, <1>s, <2>1 DEF DTypeOK, LocalTypes, deaths
  <1>6. CASE AnswerApplication(e)
    BY <1>5, <1>6, ApplicationAnswers
  <1>7. CASE AnswerEvent(e)
    <2>1. \A v \in Interviews(plan[e].app) : v.id \in EventId
      BY <1>0 DEF Interviews, EventsOf, DTypeOK, Event
    <2> QED
      BY <1>5, <1>7, <2>1, EventAnswers
  <1>8. CASE ResolveEvent(e)
    <2>0. UNCHANGED <<rows, evidence, answer, passes, deaths, asked, reread, lostUpdate>>
      BY <1>8 DEF ResolveEvent
    <2>1. plan' \in [Emails -> Plans]
      <3>1. CASE \E p \in EventPlans(e) : PlannedAs(e, p)
        <4>1. PICK p \in EventPlans(e) : PlannedAs(e, p)
          BY <3>1
        <4>2. p.kind \in {"none", "create", "update"} /\ p.event \in EventId \cup {None}
          BY EventPlanTypes
        <4>3. PICK k \in {"none", "create", "update"}, i \in EventId \cup {None},
                   s \in ApplicationStatus :
                 k = p.kind /\ i = p.event /\ s = NextStatus(plan[e].seen, DesiredStatus(evidence[e]))
          BY <1>0, <4>2, StatusTypes DEF Plans
        <4>4. plan'[e] = [plan[e] EXCEPT !.kind = k, !.event = i, !.after = s]
          BY <4>1, <4>3 DEF PlannedAs
        <4>5. plan[e] \in Plans
          BY <1>0
        <4>6. [plan[e] EXCEPT !.kind = k, !.event = i, !.after = s] \in Plans
          BY <4>5 DEF Plans
        <4> QED
          BY <1>0, <4>1, <4>4, <4>6 DEF PlannedAs
      <3> QED
        BY <1>0, <1>8, <3>1, EventResolved
    <2> QED
      BY <1>0, <1>c, <1>s, <2>0, <2>1 DEF DTypeOK, LocalTypes, rows, deaths
  <1>9. ASSUME NEW a \in Emails, NEW c \in ApplicationStatus, Commit(e, a, c),
               at[e] \in {"persisting", "writing"}
        PROVE  /\ DTypeOK' /\ LocalTypes'
               /\ \A b \in Emails : status[b] # None => status'[b] # None
    <2>1. /\ DTypeOK' /\ plan'[e] \in Plans
          /\ \A b \in Emails : status[b] # None => status'[b] # None
      BY <1>9, CommitTypes
    <2>2. PICK i : plan' = [plan EXCEPT ![e] = [plan[e] EXCEPT !.row = i]]
      BY <1>0, <1>9, Commits
    <2>3. plan' \in [Emails -> Plans]
      BY <1>0, <2>1, <2>2
    <2>4. lostUpdate' \in BOOLEAN /\ UNCHANGED <<evidence, answer, asked, reread>>
      BY <1>0, <1>9 DEF Commit
    <2> QED
      BY <1>0, <1>c, <1>s, <2>1, <2>3, <2>4 DEF LocalTypes
  <1>10. CASE PersistUnlinked(e) /\ ~Fails(e)
    <2>1. PICK a : Picks(e, a) /\ Commit(e, a, StatusSeen(a)) /\ at[e] = "persisting"
      BY <1>10, Persists, EvidenceAssumption
    <2>2. a \in Emails
      BY <1>0, <2>1
      DEF Picks, CandidatesForWrite, OpenApplications, PassInv, Planning, Repeatable, Where, AppKnown
    <2>3. StatusSeen(a) \in ApplicationStatus
      BY <1>0, <2>2, StatusTypes DEF StatusSeen
    <2> QED
      BY <1>9, <2>1, <2>2, <2>3
  <1>11. CASE WriteLinked(e) /\ ~Fails(e)
    <2>1. Commit(e, linked[e], plan[e].seen) /\ at[e] = "writing"
      BY <1>11, Persists, EvidenceAssumption
    <2>2. linked[e] \in Emails /\ plan[e].seen \in ApplicationStatus
      BY <1>0, <2>1 DEF PassInv, Plans
    <2> QED
      BY <1>9, <2>1, <2>2
  <1>12. CASE ReadLinked(e) /\ ~Fails(e)
    <2>1. /\ linked[e] # None
          /\ plan' = [plan EXCEPT ![e].seen = status[linked[e]]]
          /\ UNCHANGED <<linked, status, events, evidence, answer, passes, deaths, asked, reread, lostUpdate>>
      BY <1>12 DEF ReadLinked, rows
    <2>2. status[linked[e]] \in ApplicationStatus
      BY <1>0, <2>1 DEF DTypeOK
    <2>3. PICK s \in ApplicationStatus : plan' = [plan EXCEPT ![e].seen = s]
      BY <2>1, <2>2
    <2>4. [plan[e] EXCEPT !.seen = s] \in Plans
      BY <1>0 DEF Plans
    <2>5. plan' \in [Emails -> Plans]
      BY <1>0, <2>3, <2>4
    <2> QED
      BY <1>0, <1>c, <1>s, <2>1, <2>5 DEF DTypeOK, LocalTypes, deaths
  <1> QED
    BY <1>1, <1>2, <1>3, <1>4, <1>6, <1>7, <1>8, <1>10, <1>11, <1>12 DEF Works

\* The links and the Outlook events are of their types.
CalendarTypes ==
    /\ links \subseteq Link /\ outlook \subseteq OutlookEvent
    /\ \A l, m \in links : l.event = m.event => l = m
    /\ \A l \in links : l.target.transaction.event = l.event

\* Steps of the calendar node keep the types, and what it knows of its event.
LEMMA SyncTypes ==
    ASSUME TypeInv, NEW e \in Emails, SyncStep(e)
    PROVE  /\ DTypeOK' /\ LocalTypes' /\ CalendarTypes' /\ UNCHANGED status
           /\ at'[e] \in Syncing => SyncKnown(e)'
           /\ at'[e] \in {"updating", "saving"} => TargetKnown(e)'
  <1> DEFINE Kept == /\ at'[e] \in Syncing => SyncKnown(e)'
                     /\ at'[e] \in {"updating", "saving"} => TargetKnown(e)'
  <1>0. /\ DTypeOK /\ LocalTypes /\ PassInv(e) /\ CalendarTypes
        /\ at \in [Emails -> Stage]
        /\ evidence \in [Emails -> Evidence] /\ answer \in [Emails -> Answers]
        /\ plan \in [Emails -> Plans] /\ sync \in [Emails -> Syncs]
    BY DEF TypeInv, TypeOK, LocalTypes, DTypeOK, CalendarTypes
  <1>s. /\ saved' \in [Emails -> Nodes \cup {"none"}] /\ at' \in [Emails -> Stage]
        /\ overlapped' \in BOOLEAN
    BY Saves, Overlaps
  <1>1. ASSUME NEW from, NEW to, Moves(e, from, to)
        PROVE  /\ DTypeOK' /\ at[e] = from /\ at'[e] = to
               /\ UNCHANGED <<rows, linked, status, events, evidence, answer, plan, passes, crashes,
                              asked, reread, lostUpdate>>
    BY <1>0, <1>1, <1>s DEF Moves, Step, Goes, DTypeOK, rows, deaths
  <1>2. CASE SkipSync(e) \/ EventMissing(e)
    <2>1. PICK from \in {"persisted", "updating"}, to \in {"finishing", "reviewing calendar"} :
             Moves(e, from, to)
      BY <1>2 DEF SkipSync, EventMissing
    <2>2. UNCHANGED calendar
      BY <1>2 DEF SkipSync, EventMissing
    <2>3. Kept
      BY <1>1, <2>1 DEF Syncing
    <2> HIDE DEF Kept
    <2>4. LocalTypes' /\ CalendarTypes'
      BY <1>0, <1>1, <1>s, <2>1, <2>2 DEF LocalTypes, CalendarTypes, calendar, bounds, told
    <2> QED
      BY <1>1, <2>1, <2>3, <2>4 DEF Kept
  <1>3. CASE ReviewUndated(e)
    <2>1. Moves(e, "persisted", "reviewing calendar")
      BY <1>3 DEF ReviewUndated
    <2>2. sync' = [sync EXCEPT ![e] = NoSync] /\ UNCHANGED <<links, outlook, bounds, told>>
      BY <1>3 DEF ReviewUndated
    <2>a. at'[e] = "reviewing calendar"
      BY <1>1, <2>1
    <2>3. Kept
      BY <2>a DEF Syncing
    <2> HIDE DEF Kept
    <2>4. LocalTypes' /\ CalendarTypes'
      BY <1>0, <1>1, <1>s, <2>1, <2>2, Blank DEF LocalTypes, CalendarTypes, bounds, told
    <2> QED
      BY <1>1, <2>1, <2>3, <2>4 DEF Kept
  <1>4. CASE LoadCandidate(e)
    <2>1. Moves(e, "persisted", "linking") /\ UNCHANGED <<links, outlook, bounds, told>>
      BY <1>4 DEF LoadCandidate
    <2>2. PICK v \in EventOf(e) :
             /\ ~Undated(v)
             /\ sync' = [sync EXCEPT ![e].draft = [time |-> v.fingerprint.time, email |-> e]]
      BY <1>4 DEF LoadCandidate
    <2>3. v \in Event /\ plan[e].row = v.id
      BY <1>0, <2>2 DEF EventOf, DTypeOK
    <2>4. PICK d \in Draft : d = [time |-> v.fingerprint.time, email |-> e]
      BY <2>2, <2>3 DEF Undated, Event, FingerprintSet, Draft
    <2>5. sync' \in [Emails -> Syncs] /\ sync'[e].draft = d
      BY <1>0, <2>2, <2>4 DEF Syncs
    <2>6. Kept
      BY <1>1, <2>1, <2>3, <2>5 DEF SyncKnown, Event
    <2> HIDE DEF Kept
    <2>7. LocalTypes' /\ CalendarTypes'
      BY <1>0, <1>1, <1>s, <2>1, <2>5 DEF LocalTypes, CalendarTypes, bounds, told
    <2> QED
      BY <1>1, <2>1, <2>6, <2>7 DEF Kept
  <1>5. CASE GetLink(e)
    <2>0. /\ \E to \in {"creating", "updating", "finishing"} : Moves(e, "linking", to)
          /\ UNCHANGED <<links, outlook, bounds>>
          /\ replaced' \in Nat /\ misled' \in BOOLEAN
      <3>1. \E to \in {"creating", "updating", "finishing"} : Moves(e, "linking", to)
        BY <1>5 DEF GetLink
      <3>2. replaced' \in Nat
        BY <1>0, <1>5 DEF GetLink, LocalTypes, told
      <3>3. misled' \in BOOLEAN
        BY <1>0, <1>5 DEF GetLink, LocalTypes, told, StaleLink
      <3> QED
        BY <1>5, <3>1, <3>2, <3>3 DEF GetLink
    <2>a. SyncKnown(e) /\ DTypeOK' /\ UNCHANGED <<status, evidence, answer, plan, asked, reread, lostUpdate>>
          /\ at'[e] \in {"creating", "updating", "finishing"}
      BY <1>0, <1>1, <2>0 DEF PassInv, Syncing
    <2>1. CASE UNCHANGED sync /\ at'[e] # "updating"
      <3>1. Kept
        BY <2>a, <2>1 DEF Syncing, SyncKnown
      <3> HIDE DEF Kept
      <3>2. LocalTypes' /\ CalendarTypes'
        BY <1>0, <1>s, <2>a, <2>0, <2>1 DEF LocalTypes, CalendarTypes, bounds
      <3> QED
        BY <2>a, <3>1, <3>2 DEF Kept
    <2>2. CASE at'[e] = "updating" /\
               \E l \in LinksOf(e) : sync' = [sync EXCEPT ![e].target = l.target]
      <3>1. PICK l \in LinksOf(e) : sync' = [sync EXCEPT ![e].target = l.target]
        BY <2>2
      <3>2. l.target \in OutlookId /\ l.target.transaction.event = plan[e].row
        BY <1>0, <3>1 DEF LinksOf, CalendarTypes, Link
      <3>3. /\ sync' \in [Emails -> Syncs] /\ sync'[e].target = l.target
            /\ sync'[e].draft = sync[e].draft
        BY <1>0, <3>1, <3>2 DEF Syncs
      <3>4. Kept
        BY <2>a, <3>2, <3>3 DEF SyncKnown, TargetKnown
      <3> HIDE DEF Kept
      <3>5. LocalTypes' /\ CalendarTypes'
        BY <1>0, <1>s, <2>a, <2>0, <3>3 DEF LocalTypes, CalendarTypes, bounds
      <3> QED
        BY <2>a, <3>4, <3>5 DEF Kept
    <2> HIDE DEF Kept
    <2>3. (UNCHANGED sync /\ at'[e] # "updating") \/
          (at'[e] = "updating" /\ \E l \in LinksOf(e) : sync' = [sync EXCEPT ![e].target = l.target])
      BY <1>1, <1>5 DEF GetLink
    <2> QED
      BY <2>1, <2>2, <2>3
  <1>6. ASSUME NEW lost \in BOOLEAN, CreateEvent(e, lost), NEW n \in 0 .. MaxLosses,
               losses' = n, UNCHANGED <<links, deletes, failures, told>>
        PROVE  DTypeOK' /\ LocalTypes' /\ CalendarTypes' /\ Kept /\ UNCHANGED status
    <2>1. PICK x : /\ x \in SameTransaction(e) \/ x = NewOutlookEvent(e)
                   /\ Moves(e, "creating", IF lost THEN "creating" ELSE "saving")
                   /\ outlook' = outlook \cup {x}
                   /\ sync' = IF lost THEN sync ELSE [sync EXCEPT ![e].target = x.id]
      BY <1>6 DEF CreateEvent
    <2>2. SyncKnown(e) /\ at[e] = "creating"
      BY <1>0, <2>1 DEF PassInv, Syncing, Moves, Step
    <2>3. x \in OutlookEvent /\ x.id.transaction.event = plan[e].row
      <3>1. CASE x \in SameTransaction(e)
        BY <1>0, <3>1 DEF SameTransaction, CalendarTypes
      <3>2. CASE x = NewOutlookEvent(e)
        <4>1. losses + deletes \in 0 .. MaxDeletes + MaxLosses
          BY <1>0, CalendarAssumption DEF LocalTypes
        <4> QED
          BY <2>2, <3>2, <4>1
          DEF NewOutlookEvent, OutlookEvent, OutlookId, TransactionId, SyncKnown
      <3> QED
        BY <2>1, <3>1, <3>2
    <2>4. x.id \in OutlookId
      BY <2>3 DEF OutlookEvent
    <2>5. /\ sync' \in [Emails -> Syncs] /\ sync'[e].draft = sync[e].draft
          /\ ~lost => sync'[e].target = x.id
      BY <1>0, <2>1, <2>4 DEF Syncs
    <2>6. Kept
      BY <1>1, <2>1, <2>2, <2>3, <2>4, <2>5 DEF SyncKnown, TargetKnown
    <2> HIDE DEF Kept
    <2>7. LocalTypes' /\ CalendarTypes'
      BY <1>0, <1>1, <1>6, <1>s, <2>1, <2>3, <2>5 DEF LocalTypes, CalendarTypes, told
    <2> QED
      BY <1>1, <2>1, <2>6, <2>7
  <1>7. ASSUME NEW lost \in BOOLEAN, UpdateEvent(e, lost), NEW n \in 0 .. MaxLosses,
               losses' = n, UNCHANGED <<links, deletes, failures, told>>
        PROVE  DTypeOK' /\ LocalTypes' /\ CalendarTypes' /\ Kept /\ UNCHANGED status
    <2>1. PICK x \in outlook :
             /\ Moves(e, "updating", IF lost THEN "updating" ELSE "saving")
             /\ outlook' = (outlook \ {x}) \cup {[x EXCEPT !.draft = sync[e].draft]}
             /\ UNCHANGED sync
      BY <1>7 DEF UpdateEvent
    <2>2. SyncKnown(e) /\ TargetKnown(e)
      BY <1>0, <2>1 DEF PassInv, Syncing, Moves, Step
    <2>3. [x EXCEPT !.draft = sync[e].draft] \in OutlookEvent
      BY <1>0, <2>1, <2>2 DEF OutlookEvent, SyncKnown, CalendarTypes
    <2>4. Kept
      BY <1>1, <2>1, <2>2 DEF SyncKnown, TargetKnown
    <2> HIDE DEF Kept
    <2>5. LocalTypes' /\ CalendarTypes'
      BY <1>0, <1>1, <1>7, <1>s, <2>1, <2>3 DEF LocalTypes, CalendarTypes, told
    <2> QED
      BY <1>1, <2>1, <2>4, <2>5
  <1>8. CASE Request(e)
    <2>1. PICK lost \in BOOLEAN :
             /\ lost => losses < MaxLosses
             /\ losses' = IF lost THEN losses + 1 ELSE losses
             /\ CreateEvent(e, lost) \/ UpdateEvent(e, lost)
             /\ UNCHANGED <<links, deletes, failures, told>>
      BY <1>8 DEF Request
    <2>2. losses' \in 0 .. MaxLosses
      BY <1>0, <2>1, CalendarAssumption DEF LocalTypes
    <2> HIDE DEF Kept
    <2>3. DTypeOK' /\ LocalTypes' /\ CalendarTypes' /\ Kept /\ UNCHANGED status
      BY <1>6, <1>7, <2>1, <2>2
    <2> QED
      BY <2>3 DEF Kept
  <1>9. CASE SyncFails(e)
    <2>1. /\ Goes(e, "failed") /\ failures' = failures + 1
          /\ UNCHANGED <<linked, status, events, evidence, answer, plan, passes, deaths, asked,
                         reread, lostUpdate, links, outlook, sync, losses, deletes, told>>
      BY <1>9 DEF SyncFails, Fails, rows
    <2>2. at'[e] = "failed"
      BY <1>0, <2>1 DEF Goes
    <2>3. LocalTypes' /\ CalendarTypes'
      BY <1>0, <1>s, <2>1 DEF LocalTypes, CalendarTypes, told
    <2>4. DTypeOK'
      BY <1>0, <1>s, <2>1 DEF DTypeOK, deaths
    <2> QED
      BY <2>1, <2>2, <2>3, <2>4 DEF Syncing
  <1>10. CASE SaveLink(e)
    <2>1. /\ Moves(e, "saving", "finishing") /\ links' = UpsertedLinks(e)
          /\ UNCHANGED <<outlook, sync, bounds, told>>
      BY <1>10 DEF SaveLink
    <2>2. SyncKnown(e) /\ TargetKnown(e)
      BY <1>0, <2>1 DEF PassInv, Syncing, Moves, Step
    <2>3. NewLink(e) \in Link /\ NewLink(e).event = plan[e].row
          /\ NewLink(e).target.transaction.event = plan[e].row
      BY <2>2 DEF NewLink, Link, SyncKnown, TargetKnown
    <2>4. CalendarTypes'
      BY <1>0, <2>1, <2>3 DEF UpsertedLinks, LinksOf, CalendarTypes
    <2>5. at'[e] = "finishing" /\ DTypeOK' /\ LocalTypes' /\ UNCHANGED status
      BY <1>0, <1>1, <1>s, <2>1 DEF LocalTypes, bounds, told
    <2> QED
      BY <2>4, <2>5 DEF Syncing
  <1>11. CASE AnswerCalendar(e)
    <2>1. PICK to \in {"persisted", "finishing"} :
             Answer(e, "reviewing calendar", [NoAnswer EXCEPT !.to = to])
      BY <1>11 DEF AnswerCalendar
    <2>2. PICK d \in Answers : Answer(e, "reviewing calendar", d) /\ d.to = to
      <3>1. /\ [NoAnswer EXCEPT !.to = to] \in Answers
            /\ [NoAnswer EXCEPT !.to = to].to = to
        BY DEF NoAnswer, Answers, Goals
      <3> QED
        BY <2>1, <3>1
    <2>3. /\ Goes(e, to) /\ answer' = [answer EXCEPT ![e] = d] /\ asked' \in BOOLEAN
          /\ UNCHANGED <<linked, status, events, evidence, plan, passes, deaths, reread,
                         lostUpdate, calendar>>
      BY <1>11, <2>2 DEF AnswerCalendar, Answer, Step, rows
    <2>4. at'[e] \notin Syncing
      BY <1>0, <2>3 DEF Goes, Syncing
    <2>5. LocalTypes' /\ CalendarTypes'
      BY <1>0, <1>s, <2>2, <2>3 DEF LocalTypes, CalendarTypes, calendar, bounds, told
    <2>6. DTypeOK'
      BY <1>0, <1>s, <2>3 DEF DTypeOK, deaths
    <2> QED
      BY <2>3, <2>4, <2>5, <2>6 DEF Syncing
  <1>12. CASE Finish(e)
    <2>1. /\ Goes(e, "done")
          /\ evidence' = [evidence EXCEPT ![e] = NoEvidence]
          /\ answer' = [answer EXCEPT ![e] = NoAnswer]
          /\ plan' = [plan EXCEPT ![e] = NoPlan]
          /\ sync' = [sync EXCEPT ![e] = NoSync]
          /\ UNCHANGED <<linked, status, events, passes, deaths, asked, reread, lostUpdate,
                         links, outlook, bounds, told>>
      BY <1>12 DEF Finish, Step, rows
    <2>2. at'[e] = "done"
      BY <1>0, <2>1 DEF Goes
    <2>3. LocalTypes' /\ CalendarTypes'
      BY <1>0, <1>s, <2>1, Blank DEF LocalTypes, CalendarTypes, bounds, told
    <2>4. DTypeOK'
      BY <1>0, <1>s, <2>1 DEF DTypeOK, deaths
    <2> QED
      BY <2>1, <2>2, <2>3, <2>4 DEF Syncing
  <1> QED
    BY <1>2, <1>3, <1>4, <1>5, <1>8, <1>9, <1>10, <1>11, <1>12 DEF SyncStep

\* What the pass that acts knows.
LEMMA PassStep ==
    ASSUME TypeInv, NEW e \in Emails, (Works(e) /\ UNCHANGED calendar) \/ SyncStep(e),
           \A b \in Emails : status[b] # None => status'[b] # None
    PROVE  PassInv(e)'
  <1>0. /\ PassInv(e) /\ DTypeOK /\ plan[e] \in Plans /\ answer[e] \in Answers
        /\ NoAnswer.to = "none"
    BY DEF TypeInv, TypeOK, LocalTypes, NoAnswer
  <1>1. answer'[e].to = "none" => answer'[e] = NoAnswer
    BY <1>0, Shapes, SyncShapes
    DEF Starts, Resumes, Stops, ResolvesApplication, ResolvesEvent, IsAnswered, Reads, Writes,
        Stays, Completes, Reviewed, Advances, PassInv
  <1>2. at'[e] = "crashed" => saved'[e] \in Nodes
    <2>1. Executing(e) => Checkpoints(e) \subseteq Nodes
      BY <1>0 DEF Executing, Checkpoints, Before, Node, Nodes, Stage, Waiting, DTypeOK
    <2> QED
      BY <1>0, <2>1, Saves DEF PassInv
  <1>3. Planning(e)' => AppKnown(e)'
    <2>1. CASE ResolvesApplication(e) /\ at'[e] = "resolving event"
      <3>1. plan'[e] \in ApplicationPlans(e) /\ ~StaleApplication(e)
        BY <2>1 DEF ResolvesApplication
      <3>2. plan'[e].app \in Emails /\ (plan'[e].create \/ status[plan'[e].app] # None)
        BY <1>0, <3>1, PlannedApplication
      <3> QED
        BY <3>2 DEF AppKnown
    <2>2. CASE Planning(e) /\ KeepsPlan(e)
      BY <1>0, <2>2 DEF KeepsPlan, PassInv, AppKnown
    <2>3. CASE Planning(e) /\ ResolvesEvent(e)
      <3>1. plan'[e].app = plan[e].app /\ plan'[e].create = plan[e].create
        BY <1>0, <2>3, PlannedFields DEF ResolvesEvent
      <3> QED
        BY <1>0, <2>3, <3>1 DEF PassInv, AppKnown
    <2> QED
      BY <2>1, <2>2, <2>3, Turns
  <1>4. Repeatable(e)' => MutationKnown(e)'
    <2>1. CASE Repeatable(e) /\ KeepsPlan(e)
      BY <1>0, <2>1 DEF KeepsPlan, PassInv, MutationKnown
    <2>2. CASE ResolvesEvent(e) /\ Repeatable(e)'
      <3>1. at'[e] = "persisting"
        BY <2>2 DEF ResolvesEvent, Repeatable, Where, Syncing
      <3>2. PICK p \in EventPlans(e) : PlannedAs(e, p)
        BY <2>2, <3>1 DEF ResolvesEvent
      <3> QED
        BY <1>0, <3>2, PlannedFields, EventPlanTypes DEF MutationKnown
    <2> QED
      BY <2>1, <2>2, Turns
  <1>5. at'[e] = "writing" => linked'[e] # None
    <2>1. CASE SyncStep(e)
      BY <2>1, SyncShapes DEF Completes, Reviewed, Advances, Syncing
    <2>2. CASE Works(e)
      <3>1. saved[e] # "writing"
        BY <1>0 DEF DTypeOK, Nodes
      <3> QED
        BY <2>2, <3>1, Shapes
        DEF Starts, Resumes, Stops, ResolvesApplication, ResolvesEvent, IsAnswered, Reads, Writes,
            Stays
    <2> QED
      BY <2>1, <2>2
  <1>6. /\ at'[e] \in Syncing => SyncKnown(e)'
        /\ at'[e] \in {"updating", "saving"} => TargetKnown(e)'
    <2>1. CASE SyncStep(e)
      BY <2>1, SyncTypes
    <2>2. CASE Works(e)
      <3>1. saved[e] \notin Syncing
        BY <1>0 DEF DTypeOK, Nodes, Syncing
      <3>2. at'[e] \notin Syncing
        BY <2>2, <3>1, Shapes
        DEF Starts, Resumes, Stops, ResolvesApplication, ResolvesEvent, IsAnswered, Reads, Writes,
            Syncing
      <3> QED
        BY <3>2 DEF Syncing
    <2> QED
      BY <2>1, <2>2
  <1> QED
    BY <1>1, <1>2, <1>3, <1>4, <1>5, <1>6 DEF PassInv

LEMMA TypeInvStep == TypeInv /\ [Next]_vars => TypeInv'
  <1> SUFFICES ASSUME TypeInv, [Next]_vars PROVE TypeInv'
    OBVIOUS
  <1>1. ASSUME NEW e \in Emails, (Works(e) /\ UNCHANGED calendar) \/ SyncStep(e) PROVE TypeInv'
    <2>1. /\ DTypeOK' /\ LocalTypes'
          /\ \A b \in Emails : status[b] # None => status'[b] # None
      BY <1>1, WorkTypes, SyncTypes
    <2>2. CalendarTypes'
      BY <1>1, SyncTypes DEF TypeInv, TypeOK, CalendarTypes, calendar
    <2>3. ASSUME NEW f \in Emails \ {e} PROVE PassInv(f)'
      <3>1. Same(f) /\ PassInv(f)
        BY <1>1, <2>3, OthersRest DEF TypeInv
      <3> QED
        BY <2>1, <3>1
        DEF Same, PassInv, Planning, Repeatable, Where, AppKnown, MutationKnown, SyncKnown, TargetKnown
    <2>4. PassInv(e)'
      BY <1>1, <2>1, PassStep
    <2> QED
      BY <2>1, <2>2, <2>3, <2>4 DEF TypeInv, TypeOK, CalendarTypes
  <1>2. ASSUME NEW x \in outlook, UserDeletes(x) PROVE TypeInv'
    <2>1. deletes' = deletes + 1 /\ deletes < MaxDeletes /\ outlook' = outlook \ {x}
          /\ UNCHANGED <<dvars, links, sync, losses, failures, told>>
      BY <1>2 DEF UserDeletes
    <2>2. deletes' \in 0 .. MaxDeletes
      BY <2>1, CalendarAssumption DEF TypeInv, LocalTypes
    <2> QED
      BY <2>1, <2>2
      DEF TypeInv, TypeOK, DTypeOK, LocalTypes, dvars, rows, deaths, history, told, PassInv,
          Planning, Repeatable, Where, AppKnown, MutationKnown, SyncKnown, TargetKnown
  <1>3. CASE UNCHANGED vars
    BY <1>3
    DEF TypeInv, TypeOK, DTypeOK, LocalTypes, vars, dvars, calendar, bounds, rows, deaths, history,
        told, PassInv, Planning, Repeatable, Where, AppKnown, MutationKnown, SyncKnown, TargetKnown
  <1> QED
    BY <1>1, <1>2, <1>3, Steps

\* Rows refer to rows, every pass is where the graph can be, and links and Outlook events
\* are of events, one link per event.
THEOREM CalendarTypesHold == Spec => []TypeOK
  <1>1. Spec => []TypeInv
    BY InitTypeInv, TypeInvStep, PTL DEF Spec
  <1> QED
    BY <1>1, PTL DEF TypeInv

-----------------------------------------------------------------------------
(* Decisions about an application stand.                                    *)

LEMMA CommitKeepsDecisions ==
    ASSUME TypeInv, NEW e \in Emails, NEW a \in Emails, NEW c \in ApplicationStatus,
           Commit(e, a, c), ~lostUpdate', status[a] # None, status[a] \notin Progress
    PROVE  status'[a] = status[a]
  <1> DEFINE target == NextStatus(c, plan[e].after)
  <1>1. /\ status' = [status EXCEPT ![a] = IF target # c \/ @ = None THEN target ELSE @]
        /\ lostUpdate' = (lostUpdate \/ (target # c /\ status[a] \notin {None, c}))
    BY DEF Commit
  <1>2. CASE target = c
    BY <1>1, <1>2 DEF TypeInv, TypeOK, DTypeOK
  <1>3. CASE target # c
    <2>1. c = status[a]
      BY <1>1, <1>3
    <2>2. target = c
      BY <2>1 DEF NextStatus
    <2> QED
      BY <1>3, <2>2
  <1> QED
    BY <1>2, <1>3

\* A step changes the status of the application it commits to, and of no other.
LEMMA OtherStatus ==
    ASSUME TypeInv, NEW e \in Emails, NEW a \in Emails, NEW c, Commit(e, a, c),
           NEW b \in Emails, b # a
    PROVE  status'[b] = status[b]
  BY DEF Commit, TypeInv, TypeOK, DTypeOK

\* An offer or a rejection outlives whatever is processed, repeated or re-extracted
\* afterwards, unless a status is written over a newer one.
THEOREM DecisionsAreKept == Spec => DecisionsStand
  <1>1. TypeInv /\ [Next]_vars =>
            [\A a \in Emails : status[a] \in {"offer", "rejected"} /\ ~lostUpdate' =>
                 status'[a] = status[a]]_dvars
    <2> SUFFICES ASSUME TypeInv, [Next]_vars, dvars' # dvars, NEW b \in Emails,
                        status[b] \in {"offer", "rejected"}, ~lostUpdate'
                 PROVE  status'[b] = status[b]
      OBVIOUS
    <2>1. status[b] # None /\ status[b] \notin Progress
      BY NoneAssumption DEF ApplicationStatus, Progress, Rank
    <2>2. ASSUME NEW e \in Emails, Works(e) PROVE status'[b] = status[b]
      <3>1. CASE Writes(e)
        BY <2>1, <3>1, CommitKeepsDecisions, OtherStatus DEF Writes
      <3> QED
        BY <2>2, <3>1, Shapes
        DEF Starts, Resumes, Stops, ResolvesApplication, ResolvesEvent, IsAnswered, Reads, Stays
    <2>3. ASSUME NEW e \in Emails, SyncStep(e) PROVE status'[b] = status[b]
      BY <2>3, SyncShapes
    <2>4. ASSUME NEW x \in outlook, UserDeletes(x) PROVE FALSE
      BY <2>4 DEF UserDeletes
    <2> QED
      BY <2>2, <2>3, <2>4, Steps DEF vars
  <1>2. Spec => []TypeInv
    BY InitTypeInv, TypeInvStep, PTL DEF Spec
  <1> QED
    BY <1>1, <1>2, PTL DEF Spec, DecisionsStand

-----------------------------------------------------------------------------
(* One open application.                                                    *)

AskKnown(e) == evidence[e].separate \/ answer[e].new \/ plan[e].separate => asked

AskInv ==
    /\ \A e \in Emails : AskKnown(e)
    /\ ~asked /\ ~lostUpdate => \A a, b \in OpenApplications : a = b

OpenInv == TypeInv /\ AskInv

\* A finite set of at most one element.
LEMMA AtMostOne ==
    ASSUME NEW S
    PROVE  /\ (\A x, y \in S : x = y) => Cardinality(S) <= 1
           /\ IsFiniteSet(S) /\ ~(Cardinality(S) > 1) => \A x, y \in S : x = y
  <1>1. ASSUME \A x, y \in S : x = y PROVE Cardinality(S) <= 1
    <2>1. S = {} \/ \E x : S = {x}
      BY <1>1
    <2> QED
      <3>1. CASE S = {}
        BY <3>1, FS_EmptySet
      <3>2. CASE \E x : S = {x}
        <4>1. PICK x : S = {x}
          BY <3>2
        <4>2. Cardinality({x}) = 1
          BY FS_Singleton
        <4> QED
          BY <4>1, <4>2
      <3> QED
        BY <2>1, <3>1, <3>2
  <1>2. ASSUME IsFiniteSet(S), ~(Cardinality(S) > 1) PROVE \A x, y \in S : x = y
    <2>1. Cardinality(S) = 0 \/ Cardinality(S) = 1
      BY <1>2, FS_CardinalityType
    <2>2. S = {} \/ \E x : S = {x}
      BY <1>2, <2>1, FS_EmptySet, FS_Singleton
    <2> QED
      BY <2>2
  <1> QED
    BY <1>1, <1>2

\* Without a reviewer's request a commit opens an application only where there is none.
LEMMA CommitOpens ==
    ASSUME TypeInv, AskInv, NEW e \in Emails, Writes(e), ~asked, ~lostUpdate'
    PROVE  \A a, b \in OpenApplications' : a = b
  <1>1. PICK a \in Emails, c \in ApplicationStatus :
            /\ Commit(e, a, c)
            /\ \/ at[e] = "persisting" /\ linked[e] = None /\ Picks(e, a) /\ c = StatusSeen(a)
               \/ at[e] = "writing" /\ a = linked[e] /\ c = plan[e].seen
    BY DEF Writes
  <1>2. ~lostUpdate
    BY <1>1 DEF Commit
  <1>3. \A b \in Emails \ {a} : b \in OpenApplications' => b \in OpenApplications
    BY <1>1, OtherStatus DEF OpenApplications
  <1>4. CASE a \in OpenApplications
    BY <1>2, <1>3, <1>4 DEF AskInv, OpenApplications
  <1>5. CASE a \notin OpenApplications /\ status[a] # None
    <2>1. status[a] \in Closed /\ status[a] \notin Progress
      BY <1>5 DEF OpenApplications, Closed, Progress, Rank
    <2>2. status'[a] = status[a]
      BY <1>1, <1>5, <2>1, CommitKeepsDecisions
    <2>3. a \notin OpenApplications'
      BY <2>1, <2>2 DEF OpenApplications
    <2> QED
      BY <1>2, <1>3, <2>3 DEF AskInv, OpenApplications
  <1>6. CASE status[a] = None
    <2>1. at[e] = "persisting" /\ Picks(e, a)
      BY <1>1, <1>6 DEF TypeInv, TypeOK, DTypeOK, PassInv
    <2>2. plan[e].create
      BY <1>6, <2>1 DEF Picks, TypeInv, PassInv, Planning, Repeatable, Where, AppKnown
    <2>3. ~plan[e].separate
      BY DEF AskInv, AskKnown
    <2>4. OpenApplications = {}
      BY <1>6, <2>1, <2>2, <2>3 DEF Picks, CandidatesForWrite, OpenApplications
    <2> QED
      BY <1>3, <2>4 DEF OpenApplications
  <1> QED
    BY <1>4, <1>5, <1>6

LEMMA InitAskInv == Init => AskInv
  <1> SUFFICES ASSUME Init PROVE AskInv
    OBVIOUS
  <1>1. PICK earlier \in SUBSET Earlier :
            /\ status = [a \in Emails |-> IF a \in earlier THEN "applied" ELSE None]
            /\ asked = (Cardinality(earlier) > 1)
    BY DEF Init, DInit
  <1>2. OpenApplications \subseteq earlier
    BY <1>1 DEF OpenApplications
  <1>3. IsFiniteSet(earlier)
    BY EvidenceAssumption, FS_Subset
  <1>4. ~asked => \A a, b \in OpenApplications : a = b
    BY <1>1, <1>2, <1>3, AtMostOne
  <1>5. \A e \in Emails : AskKnown(e)
    BY DEF Init, DInit, AskKnown, NoEvidence, NoAnswer, NoPlan
  <1> QED
    BY <1>4, <1>5 DEF AskInv

\* What a pass holds of a reviewer's request was recorded.
LEMMA AskStep ==
    ASSUME TypeInv, AskInv, NEW e \in Emails, Works(e) \/ SyncStep(e)
    PROVE  AskKnown(e)' /\ (asked => asked')
  <1>0. AskKnown(e) /\ plan[e] \in Plans /\ answer[e] \in Answers
    BY DEF AskInv, TypeInv, LocalTypes
  <1>1. CASE Starts(e)
    <2>1. ~NoAnswer.new /\ ~NoPlan.separate
      BY DEF NoAnswer, NoPlan
    <2>2. answer'[e] = NoAnswer /\ plan'[e] = NoPlan /\ asked' = (asked \/ evidence'[e].separate)
      BY <1>1 DEF Starts
    <2> QED
      BY <2>1, <2>2 DEF AskKnown
  <1>2. CASE Resumes(e) \/ Stops(e) \/ IsAnswered(e) \/ Advances(e) \/ Reviewed(e)
    BY <1>0, <1>2 DEF Resumes, Stops, IsAnswered, Advances, Reviewed, Stays, AskKnown
  <1>3. CASE Completes(e)
    BY <1>3 DEF Completes, AskKnown, NoEvidence, NoAnswer, NoPlan
  <1>4. CASE ResolvesApplication(e)
    <2>1. CASE at'[e] = "resolving event"
      <3>1. plan'[e].separate => answer[e].new \/ evidence[e].separate
        <4>1. \A a : ~Existing(a).separate /\ ~New(e, FALSE).separate
          BY DEF Existing, New, NoPlan
        <4>2. plan'[e] \in ApplicationPlans(e) /\ ~StaleApplication(e)
          BY <1>4, <2>1 DEF ResolvesApplication
        <4>3. \/ \E a : plan'[e] = Existing(a)
              \/ plan'[e] = New(e, FALSE)
              \/ answer[e].new \/ evidence[e].separate
          BY <1>0, <4>2, ApplicationDecisions DEF TypeInv, TypeOK, Answers
        <4> QED
          BY <4>1, <4>3
      <3> QED
        BY <1>0, <1>4, <3>1 DEF ResolvesApplication, Stays, AskKnown
    <2> QED
      BY <1>0, <1>4, <2>1 DEF ResolvesApplication, Stays, AskKnown
  <1>5. CASE ResolvesEvent(e)
    <2>1. plan'[e].separate = plan[e].separate
      BY <1>0, <1>5 DEF ResolvesEvent, PlannedAs, Plans
    <2> QED
      BY <1>0, <1>5, <2>1 DEF ResolvesEvent, Stays, AskKnown
  <1>6. CASE Reads(e) \/ Writes(e)
    <2>1. plan'[e].separate = plan[e].separate
      <3>1. CASE Reads(e)
        BY <1>0, <3>1 DEF Reads, Plans
      <3>2. CASE Writes(e)
        <4>1. PICK i : plan' = [plan EXCEPT ![e] = [plan[e] EXCEPT !.row = i]]
          BY <3>2, Commits DEF Writes, TypeInv, LocalTypes
        <4> QED
          BY <1>0, <4>1 DEF Plans, TypeInv, LocalTypes
      <3> QED
        BY <1>6, <3>1, <3>2
    <2> QED
      BY <1>0, <1>6, <2>1 DEF Reads, Writes, Stays, AskKnown
  <1> QED
    BY <1>1, <1>2, <1>3, <1>4, <1>5, <1>6, Shapes, SyncShapes

LEMMA AskInvStep == OpenInv /\ [Next]_vars => AskInv'
  <1> SUFFICES ASSUME TypeInv, AskInv, [Next]_vars PROVE AskInv'
    BY DEF OpenInv
  <1>1. ASSUME NEW e \in Emails, (Works(e) /\ UNCHANGED calendar) \/ SyncStep(e) PROVE AskInv'
    <2>1. AskKnown(e)' /\ (asked => asked')
      BY <1>1, AskStep
    <2>2. \A f \in Emails \ {e} : AskKnown(f)'
      BY <1>1, <2>1, OthersRest DEF Same, AskInv, AskKnown
    <2>3. ~asked' /\ ~lostUpdate' => \A a, b \in OpenApplications' : a = b
      <3>1. CASE Writes(e)
        BY <2>1, <3>1, CommitOpens
      <3>2. CASE UNCHANGED <<status, lostUpdate>>
        BY <2>1, <3>2 DEF AskInv, OpenApplications
      <3> QED
        BY <1>1, <3>1, <3>2, Shapes, SyncShapes
        DEF Starts, Resumes, Stops, ResolvesApplication, ResolvesEvent, IsAnswered, Reads, Stays
    <2> QED
      BY <2>1, <2>2, <2>3 DEF AskInv
  <1>2. CASE UNCHANGED dvars
    BY <1>2 DEF AskInv, AskKnown, OpenApplications, dvars, rows, history
  <1> QED
    BY <1>1, <1>2, Steps DEF UserDeletes, vars

\* Emails processed at the same time, repeated or re-extracted never leave two open
\* applications for one company and role, unless a reviewer asked for one or a status was
\* written over a newer one.
THEOREM OneApplicationIsOpen == Spec => []OneOpenApplication
  <1>1. OpenInv /\ [Next]_vars => OpenInv'
    BY TypeInvStep, AskInvStep DEF OpenInv
  <1>2. Init => OpenInv
    BY InitTypeInv, InitAskInv DEF OpenInv
  <1>3. OpenInv => OneOpenApplication
    BY AtMostOne DEF OpenInv, AskInv, OneOpenApplication
  <1> QED
    BY <1>1, <1>2, <1>3, PTL DEF Spec

-----------------------------------------------------------------------------
(* The rows of events.                                                      *)

Calendared(id) == \E v \in events : v.id = id /\ Eligible(v) /\ ~Undated(v)

\* An update is to a dated interview.
UpdateDated(e) ==
    plan[e].kind = "update" =>
        TrackedType(evidence[e]) = "interview" /\ evidence[e].time # NoTime

\* Events are told apart by their id, and those of an application by their fingerprint;
\* what is linked, or being synced, stays a dated event of a type the calendar shows.
RowsInv ==
    /\ \A v, w \in events : v.id = w.id => v = w
    /\ \A v, w \in events : v.app = w.app /\ v.fingerprint = w.fingerprint => v = w
    /\ \A l \in links : Calendared(l.event)
    /\ \A e \in Emails :
           /\ at[e] \in Syncing => Calendared(plan[e].row)
           /\ Repeatable(e) => UpdateDated(e)

LEMMA CommitRows ==
    ASSUME TypeInv, RowsInv, NEW e \in Emails, Writes(e)
    PROVE  /\ \A v, w \in events' : v.id = w.id => v = w
           /\ \A v, w \in events' : v.app = w.app /\ v.fingerprint = w.fingerprint => v = w
           /\ \A i : Calendared(i) => Calendared(i)'
  <1>1. PICK a \in Emails, c \in ApplicationStatus : Commit(e, a, c) /\ at[e] \in {"persisting", "writing"}
    BY DEF Writes
  <1>2. Finds(e, a) \/ Inserts(e, a) \/ Updates(e, a)
    BY <1>1, Commits DEF TypeInv, LocalTypes
  <1> DEFINE r == RowOf(e, a)
  <1>3. r.id = plan[e].event /\ r.app = a /\ r.fingerprint = Fingerprint(evidence[e])
    BY DEF RowOf
  <1>4. CASE Finds(e, a)
    BY <1>4 DEF Finds, RowsInv, Calendared, Eligible, Undated
  <1>5. CASE Inserts(e, a)
    <2>1. \A v \in events : v.id # r.id /\ ~(v.app = r.app /\ v.fingerprint = r.fingerprint)
      BY <1>3, <1>5 DEF Inserts, Alike, EventsOf
    <2>2. events' = events \cup {r}
      BY <1>5 DEF Inserts
    <2> HIDE DEF r
    <2> QED
      BY <2>1, <2>2 DEF RowsInv, Calendared, Eligible, Undated
  <1>6. CASE Updates(e, a)
    <2>1. PICK v \in events : /\ v.id = r.id /\ v.app = a /\ Alike(e, a) \subseteq {v}
                             /\ events' = (events \ {v}) \cup {r}
      BY <1>3, <1>6 DEF Updates, Interviews, EventsOf
    <2>2. \A w \in events \ {v} : /\ w.id # r.id
                                  /\ ~(w.app = r.app /\ w.fingerprint = r.fingerprint)
      BY <1>3, <2>1 DEF RowsInv, Alike, EventsOf
    <2>3. Eligible(r) /\ ~Undated(r)
      BY <1>1, <1>3, <1>6
      DEF Updates, RowsInv, Repeatable, Where, UpdateDated, Eligible, Undated, Fingerprint
    <2> HIDE DEF r
    <2> QED
      BY <2>1, <2>2, <2>3 DEF RowsInv, Calendared, Eligible, Undated
  <1> QED
    BY <1>2, <1>4, <1>5, <1>6

\* The pass that acts.
LEMMA RowsStep ==
    ASSUME TypeInv, RowsInv, NEW e \in Emails, (Works(e) /\ UNCHANGED calendar) \/ SyncStep(e)
    PROVE  /\ at'[e] \in Syncing => Calendared(plan'[e].row)
           /\ Repeatable(e)' => UpdateDated(e)'
           /\ \A l \in links' : l \in links \/ Calendared(l.event)
  <1>1. Repeatable(e)' => UpdateDated(e)'
    <2>1. CASE Repeatable(e) /\ KeepsPlan(e)
      BY <2>1 DEF KeepsPlan, RowsInv, UpdateDated
    <2>2. CASE ResolvesEvent(e) /\ Repeatable(e)'
      <3>1. at'[e] = "persisting"
        BY <2>2 DEF ResolvesEvent, Repeatable, Where, Syncing
      <3>2. PICK p \in EventPlans(e) : PlannedAs(e, p) /\ ~Unplannable(e)
        BY <2>2, <3>1 DEF ResolvesEvent
      <3>3. plan'[e].kind = p.kind /\ evidence'[e] = evidence[e]
        BY <2>2, <3>2, PlannedFields DEF TypeInv, LocalTypes, ResolvesEvent, Stays
      <3>4. Rescheduling(e) => TrackedType(evidence[e]) = "interview" /\ evidence[e].time # NoTime
        BY <3>2 DEF Unplannable, AllowsMutation, Rescheduling, TrackedType
      <3>5. p.kind = "update" =>
                TrackedType(evidence[e]) = "interview" /\ evidence[e].time # NoTime
        BY <3>4, EventDecisions DEF IsNothing, IsKnown, IsNew, Is, SameRoundChange
      <3> QED
        BY <3>3, <3>5 DEF UpdateDated
    <2> QED
      BY <2>1, <2>2, Turns
  <1>2. CASE SyncStep(e)
    <2>1. plan'[e] = plan[e] \/ at'[e] = "done"
      BY <1>2, SyncShapes DEF Completes, Reviewed, Advances
    <2>2. CASE SaveLink(e)
      <3>1. at[e] \in Syncing
        BY <2>2 DEF SaveLink, Moves, Step, Syncing
      <3>2. links' = UpsertedLinks(e) /\ at'[e] = "finishing"
        BY <2>2 DEF SaveLink, Moves, Step, Goes, TypeInv, TypeOK, DTypeOK
      <3>3. NewLink(e).event = plan[e].row
        BY DEF NewLink
      <3> QED
        BY <1>1, <3>1, <3>2, <3>3 DEF RowsInv, UpsertedLinks, Syncing
    <2>3. CASE LoadCandidate(e)
      <3>1. PICK v \in EventOf(e) : Eligible(v) /\ ~Undated(v)
        BY <2>3 DEF LoadCandidate
      <3>2. Calendared(plan[e].row) /\ links' = links
        BY <2>3, <3>1 DEF EventOf, Calendared, LoadCandidate
      <3> QED
        BY <1>1, <2>1, <3>2 DEF Syncing
    <2>4. CASE ~SaveLink(e) /\ ~LoadCandidate(e)
      <3>1. links' = links
        BY <1>2, <2>4, SyncShapes
        DEF Completes, Reviewed, calendar, SkipSync, ReviewUndated, GetLink, Request,
            CreateEvent, UpdateEvent, EventMissing, SyncFails
      <3>2. at'[e] \in Syncing => at[e] \in Syncing
        <4>1. CASE SkipSync(e) \/ ReviewUndated(e) \/ EventMissing(e)
          BY <4>1 DEF SkipSync, ReviewUndated, EventMissing, Moves, Step, Goes, Syncing,
             TypeInv, TypeOK, DTypeOK
        <4>2. CASE GetLink(e) \/ SyncFails(e)
          BY <4>2 DEF GetLink, SyncFails, Moves, Step, Syncing
        <4>3. CASE Request(e)
          BY <4>3 DEF Request, CreateEvent, UpdateEvent, Moves, Step, Syncing
        <4>4. CASE Completes(e) \/ Reviewed(e)
          BY <4>4 DEF Completes, Reviewed, Syncing
        <4> QED
          BY <1>2, <2>4, <4>1, <4>2, <4>3, <4>4, SyncShapes
      <3> QED
        BY <1>1, <2>1, <3>1, <3>2 DEF RowsInv, Syncing
    <2> QED
      BY <2>2, <2>3, <2>4
  <1>3. CASE Works(e) /\ UNCHANGED calendar
    <2>1. links' = links
      BY <1>3 DEF calendar
    <2>2. saved[e] \notin Syncing
      BY DEF TypeInv, TypeOK, DTypeOK, Nodes, Syncing
    <2>3. at'[e] \notin Syncing
      BY <1>3, <2>2, Shapes
      DEF Starts, Resumes, Stops, ResolvesApplication, ResolvesEvent, IsAnswered, Reads, Writes,
          Syncing
    <2> QED
      BY <1>1, <2>1, <2>3
  <1> QED
    BY <1>2, <1>3

LEMMA InitRowsInv == Init => RowsInv
  BY DEF Init, DInit, RowsInv, Repeatable, Where, Syncing

LEMMA RowsInvStep == TypeInv /\ RowsInv /\ [Next]_vars => RowsInv'
  <1> SUFFICES ASSUME TypeInv, RowsInv, [Next]_vars PROVE RowsInv'
    OBVIOUS
  <1>1. ASSUME NEW e \in Emails, (Works(e) /\ UNCHANGED calendar) \/ SyncStep(e) PROVE RowsInv'
    <2>1. /\ \A v, w \in events' : v.id = w.id => v = w
          /\ \A v, w \in events' : v.app = w.app /\ v.fingerprint = w.fingerprint => v = w
          /\ \A i : Calendared(i) => Calendared(i)'
      <3>1. CASE Writes(e)
        BY <3>1, CommitRows
      <3>2. CASE UNCHANGED events
        BY <3>2 DEF RowsInv, Calendared, Eligible, Undated
      <3> QED
        BY <1>1, <3>1, <3>2, Shapes, SyncShapes
        DEF Starts, Resumes, Stops, ResolvesApplication, ResolvesEvent, IsAnswered, Reads, Stays
    <2>2. \A l \in links' : Calendared(l.event)'
      BY <1>1, <2>1, RowsStep DEF RowsInv
    <2>3. /\ at'[e] \in Syncing => Calendared(plan[e].row)'
          /\ Repeatable(e)' => UpdateDated(e)'
      BY <1>1, <2>1, RowsStep
    <2>4. ASSUME NEW f \in Emails \ {e}
          PROVE  /\ at'[f] \in Syncing => Calendared(plan[f].row)'
                 /\ Repeatable(f)' => UpdateDated(f)'
      <3>1. Same(f)
        BY <1>1, OthersRest
      <3> QED
        BY <2>1, <3>1 DEF Same, RowsInv, Repeatable, Where, UpdateDated
    <2> QED
      BY <2>1, <2>2, <2>3, <2>4 DEF RowsInv, Calendared
  <1>2. CASE UNCHANGED <<dvars, links>>
    BY <1>2
    DEF RowsInv, Calendared, Repeatable, Where, UpdateDated, Eligible, Undated, dvars, rows
  <1> QED
    BY <1>1, <1>2, Steps DEF UserDeletes, vars, calendar

-----------------------------------------------------------------------------
(* One interview.                                                           *)

\* What a pass knows from its own steps: only reschedules ask about an event, ...
AnswerInv(e) ==
    /\ answer[e].event # None \/ answer[e].to = "resolving event" => Rescheduling(e)
    /\ Where(e) = "reviewing event" => Rescheduling(e)
    /\ answer[e].to = "resolving event" => answer[e].event # None \/ answer[e].new

\* ... a new event has the email's id, and a new application is the email's own.
PlanInv(e) ==
    /\ Repeatable(e) /\ plan[e].kind = "create" =>
           plan[e].event = [email |-> e, first |-> Fingerprint(evidence[e])]
    /\ Repeatable(e) /\ Rescheduling(e) => plan[e].kind # "none"
    /\ Planning(e) /\ plan[e].create => plan[e].app = e
    /\ Planning(e) /\ linked[e] # None => linked[e] = plan[e].app \/ plan[e].create

\* An application's row is linked to by the email that created it.
OwnRows == \A a \in Emails : status[a] # None => linked[a] = a

\* What a dead pass has resolved or planned may have been overtaken.
Stale(e) == at[e] = "crashed" /\ e \in overtaken

\* A pass alone with the rows creates an application only if there is none.
FreshPlan(e) ==
    /\ Where(e) = "resolving event" \/ Repeatable(e)
    /\ ~Rescheduling(e) /\ plan[e].create
    => \/ linked[e] = e
       \/ linked[e] = None /\ OpenApplications = {}
       \/ Stale(e)

Dated(v) == v.id.first.type = "interview" => v.id.first.time # NoTime
AllDated == \A v \in events : Dated(v)

\* ... and an interview only if the application has none but its own, ...
ClearPlan(e) ==
    /\ Repeatable(e) /\ plan[e].kind = "create"
    /\ TrackedType(evidence[e]) = "interview" /\ evidence[e].time # NoTime
    => /\ ~Rescheduling(e)
       /\ Stale(e) \/ \A v \in Interviews(plan[e].app) : v.fingerprint = Fingerprint(evidence[e])

\* ... that is, no second one.
AloneInterview == \A a \in Emails : \A v, w \in Interviews(a) : v = w

AloneInv ==
    /\ \A e \in Emails : AnswerInv(e) /\ PlanInv(e)
    /\ OwnRows
    /\ ~overlapped => \A e, f \in Emails : Executing(e) /\ Executing(f) => e = f
    /\ ~overlapped /\ ~asked => \A e \in Emails : FreshPlan(e)
    /\ ~overlapped /\ ~asked /\ AllDated =>
           /\ \A e \in Emails : ClearPlan(e)
           /\ AloneInterview

LEMMA NoAnswerGiven == NoAnswer.to = "none" /\ NoAnswer.event = None /\ NoAnswer.new = FALSE
  BY DEF NoAnswer

LEMMA InitAloneInv == Init => AloneInv
  <1> SUFFICES ASSUME Init PROVE AloneInv
    OBVIOUS
  <1>1. \A e \in Emails : at[e] \in {"done", "idle"} /\ answer[e] = NoAnswer
    BY DEF Init, DInit
  <1>2. events = {} /\ OwnRows
    BY DEF Init, DInit, OwnRows
  <1>3. \A e \in Emails : ~Repeatable(e) /\ ~Planning(e) /\ Where(e) \in {"done", "idle"}
    BY <1>1 DEF Repeatable, Planning, Where, Syncing
  <1>4. \A e \in Emails : AnswerInv(e) /\ PlanInv(e)
    BY <1>1, <1>3, NoAnswerGiven DEF AnswerInv, PlanInv
  <1>5. \A e \in Emails : ~Executing(e)
    BY <1>1 DEF Executing, Waiting
  <1> QED
    BY <1>2, <1>3, <1>4, <1>5 DEF AloneInv, FreshPlan, ClearPlan, AloneInterview, Interviews, EventsOf

LEMMA AnswerStep ==
    ASSUME NEW e \in Emails, TypeInv, AnswerInv(e),
           (Works(e) /\ UNCHANGED calendar) \/ SyncStep(e)
    PROVE  AnswerInv(e)'
  <1>0. plan[e] \in Plans /\ answer[e] \in Answers /\ NoAnswer.to = "none"
    BY DEF TypeInv, LocalTypes, NoAnswer
  <1>1. Where(e)' = "reviewing event" => Rescheduling(e)'
    <2>1. ASSUME Where(e)' = "reviewing event" PROVE Rescheduling(e)'
      <3>1. ResolvesEvent(e) /\ EventPlans(e) = {}
        BY <2>1, Turns DEF ResolvesEvent, Where
      <3>2. Tracked(evidence[e])
        BY <3>1 DEF EventPlans
      <3>3. ~Rescheduling(e) => EventPlans(e) # {}
        BY <3>2 DEF EventPlans, Rescheduling
      <3> QED
        BY <3>1, <3>3 DEF ResolvesEvent, Stays, Rescheduling
    <2> QED
      BY <2>1
  <1>2. CASE IsAnswered(e)
    <2>1. \A v \in Interviews(plan[e].app) : v.id # None
      BY NoneAssumption DEF Interviews, EventsOf, TypeInv, TypeOK, DTypeOK, Event
    <2>2. at[e] = "reviewing event" => Rescheduling(e)
      BY DEF AnswerInv, Where
    <2> QED
      BY <1>1, <1>2, <2>1, <2>2 DEF IsAnswered, AnswerInv, Rescheduling
  <1>3. CASE SyncStep(e)
    <2>1. CASE Completes(e)
      BY <1>1, <2>1, NoAnswerGiven DEF Completes, AnswerInv
    <2>2. CASE Reviewed(e)
      BY <1>1, <2>2 DEF Reviewed, AnswerInv
    <2>3. CASE Advances(e)
      BY <1>1, <2>3 DEF Advances, AnswerInv, Rescheduling
    <2> QED
      BY <1>3, <2>1, <2>2, <2>3, SyncShapes
  <1>4. CASE Starts(e)
    BY <1>1, <1>4, NoAnswerGiven DEF Starts, AnswerInv
  <1>5. CASE Resumes(e)
    BY <1>0, <1>1, <1>5 DEF Resumes, AnswerInv, Rescheduling
  <1>6. CASE Stops(e) \/ ResolvesApplication(e) \/ ResolvesEvent(e) \/ Reads(e) \/ Writes(e)
    <2>1. evidence'[e] = evidence[e] /\ answer'[e] = answer[e]
      BY <1>6 DEF Stops, ResolvesApplication, ResolvesEvent, Reads, Writes, Stays
    <2> QED
      BY <1>1, <2>1 DEF AnswerInv, Rescheduling
  <1> QED
    BY <1>2, <1>3, <1>4, <1>5, <1>6, Shapes

\* The application a pass writes to is the one it had, or one it picked.
LEMMA WrittenTo ==
    ASSUME NEW e \in Emails, TypeInv, Writes(e)
    PROVE  \E a \in Emails :
               /\ Finds(e, a) \/ Inserts(e, a) \/ Updates(e, a)
               /\ linked' = [linked EXCEPT ![e] = a] /\ linked'[e] = a
               /\ \A b \in Emails \ {a} : status'[b] = status[b]
               /\ status[a] # None \/ (a = e /\ plan[e].create)
               /\ \/ at[e] = "persisting" /\ linked[e] = None /\ Picks(e, a)
                  \/ at[e] = "writing" /\ a = linked[e]
               /\ Repeatable(e) /\ Planning(e) /\ AppKnown(e) /\ at'[e] = "persisted"
  <1>0. /\ DTypeOK /\ PassInv(e) /\ plan \in [Emails -> Plans]
    BY DEF TypeInv, LocalTypes, TypeOK
  <1>1. PICK a \in Emails, c \in ApplicationStatus :
           /\ Commit(e, a, c) /\ at'[e] = "persisted"
           /\ \/ at[e] = "persisting" /\ linked[e] = None /\ Picks(e, a)
              \/ at[e] = "writing" /\ a = linked[e]
    BY DEF Writes
  <1>2. Repeatable(e) /\ Planning(e) /\ AppKnown(e)
    BY <1>0, <1>1 DEF Repeatable, Planning, Where, PassInv
  <1>3. status[a] # None \/ (a = e /\ plan[e].create)
    BY <1>0, <1>1, <1>2 DEF PassInv, DTypeOK, Picks, CandidatesForWrite, OpenApplications, AppKnown
  <1>4. \A b \in Emails \ {a} : status'[b] = status[b]
    BY <1>1, OtherStatus
  <1>5. linked' = [linked EXCEPT ![e] = a] /\ linked'[e] = a
    BY <1>0, <1>1 DEF Commit, DTypeOK
  <1> QED
    BY <1>0, <1>1, <1>2, <1>3, <1>4, <1>5, Commits

LEMMA PlanStep ==
    ASSUME NEW e \in Emails, TypeInv, AnswerInv(e), PlanInv(e),
           (Works(e) /\ UNCHANGED calendar) \/ SyncStep(e)
    PROVE  PlanInv(e)'
  <1>0. plan[e] \in Plans /\ answer[e] \in Answers /\ DTypeOK
    BY DEF TypeInv, LocalTypes, TypeOK
  <1>1. CASE ResolvesApplication(e) /\ at'[e] = "resolving event"
    <2>1. plan'[e] \in ApplicationPlans(e) /\ ~StaleApplication(e)
      BY <1>1 DEF ResolvesApplication
    <2>2. /\ plan'[e].create => plan'[e].app = e
          /\ linked[e] # None => plan'[e].app = linked[e]
      BY <1>0, <2>1, PlannedApplication
    <2>3. ~Repeatable(e)' /\ linked' = linked
      BY <1>1 DEF ResolvesApplication, Stays, Repeatable, Where, Syncing
    <2> QED
      BY <2>2, <2>3 DEF PlanInv
  <1>2. CASE ResolvesEvent(e) /\ at'[e] = "persisting"
    <2>1. PICK p \in EventPlans(e) : PlannedAs(e, p)
      BY <1>2 DEF ResolvesEvent
    <2>2. /\ plan'[e].kind = p.kind /\ plan'[e].event = p.event
          /\ plan'[e].app = plan[e].app /\ plan'[e].create = plan[e].create
      BY <1>0, <2>1, PlannedFields
    <2>3. /\ p.kind = "create" => p.event = [email |-> e, first |-> Fingerprint(evidence[e])]
          /\ Rescheduling(e) => p.kind # "none"
      <3>1. Rescheduling(e) => Tracked(evidence[e])
        BY DEF Rescheduling, Tracked
      <3> QED
        BY <3>1, EventDecisions DEF IsNothing, IsKnown, IsNew, Is
    <2>4. Planning(e) /\ linked' = linked /\ evidence'[e] = evidence[e]
      BY <1>2 DEF ResolvesEvent, Stays, Planning, Where
    <2> QED
      BY <2>2, <2>3, <2>4 DEF PlanInv, Rescheduling
  <1>3. CASE ResolvesEvent(e) /\ at'[e] = "reviewing event"
    <2>1. ~Repeatable(e)' /\ Planning(e) /\ linked' = linked /\ plan'[e] = plan[e]
      BY <1>3 DEF ResolvesEvent, Stays, Planning, Repeatable, Where, Syncing
    <2> QED
      BY <2>1 DEF PlanInv
  <1>4. CASE /\ Planning(e)' => Planning(e) /\ KeepsPlan(e)
             /\ Repeatable(e)' => Repeatable(e)
    <2>1. Planning(e) /\ KeepsPlan(e) /\ linked'[e] # None =>
              linked'[e] = plan[e].app \/ plan[e].create
      <3>1. CASE Writes(e)
        BY <3>1, WrittenTo DEF Picks, PlanInv, TypeInv, PassInv
      <3>2. CASE linked' = linked
        BY <3>2 DEF PlanInv
      <3> QED
        BY <3>1, <3>2, Shapes, SyncShapes
        DEF Starts, Resumes, Stops, ResolvesApplication, ResolvesEvent, IsAnswered, Reads, Stays
    <2>2. Repeatable(e)' => Planning(e)'
      BY DEF Planning
    <2> QED
      BY <1>4, <2>1, <2>2 DEF KeepsPlan, PlanInv, Rescheduling
  <1> QED
    BY <1>1, <1>2, <1>3, <1>4, Turns DEF ResolvesEvent, Planning

\* A dead pass that goes on without an overlap was not overtaken.
LEMMA ResumesFresh ==
    ASSUME NEW e \in Emails, TypeInv, ~overlapped', Works(e) \/ SyncStep(e),
           Repeatable(e)' \/ Where(e)' = "resolving event"
    PROVE  ~Stale(e)
  <1> SUFFICES ASSUME Stale(e) PROVE FALSE
    OBVIOUS
  <1>1. at[e] = "crashed" /\ saved[e] \in Nodes /\ e \in overtaken
    BY DEF Stale, TypeInv, PassInv
  <1>2. CASE Starts(e)
    BY <1>2 DEF Starts, Repeatable, Where, Syncing
  <1>3. CASE Resumes(e)
    <2>1. saved[e] \notin {"resolving event", "persisting"}
      BY <1>1, <1>3 DEF Resumes, Overtaken
    <2> QED
      BY <1>1, <1>3, <2>1 DEF Resumes, Repeatable, Where, Syncing, Nodes
  <1> QED
    BY <1>1, <1>2, <1>3, Shapes, SyncShapes
    DEF Stops, ResolvesApplication, ResolvesEvent, IsAnswered, Reads, Writes, Completes, Reviewed,
        Advances, Syncing

\* A commit overtakes the dead; the others are not at a point where they go by a plan.
LEMMA OthersOvertaken ==
    ASSUME NEW e \in Emails, TypeInv, Writes(e), NEW f \in Emails \ {e}, ~Executing(f), Same(f),
           Repeatable(f) \/ Where(f) = "resolving event"
    PROVE  Stale(f)'
  <1>1. at[f] = "crashed"
    BY DEF Executing, Waiting, Repeatable, Where, Syncing
  <1>2. f \in overtaken'
    BY <1>1 DEF Writes
  <1> QED
    BY <1>1, <1>2 DEF Stale, Same

\* An event keeps the id it was created with.
LEMMA DatedBefore ==
    ASSUME NEW e \in Emails, TypeInv, (Works(e) /\ UNCHANGED calendar) \/ SyncStep(e), AllDated'
    PROVE  AllDated
  <1>1. CASE Writes(e)
    <2>1. PICK a \in Emails : Finds(e, a) \/ Inserts(e, a) \/ Updates(e, a)
      BY <1>1, WrittenTo
    <2>2. ASSUME NEW v \in events PROVE \E w \in events' : w.id = v.id
      <3>1. CASE v \in events'
        BY <3>1
      <3>2. CASE v \notin events'
        <4>1. PICK u \in Interviews(a) :
                 u.id = plan[e].event /\ events' = (events \ {u}) \cup {RowOf(e, a)}
          BY <2>1, <3>2 DEF Finds, Inserts, Updates
        <4>2. v = u /\ RowOf(e, a) \in events' /\ RowOf(e, a).id = u.id
          BY <3>2, <4>1 DEF RowOf
        <4> QED
          BY <4>2
      <3> QED
        BY <3>1, <3>2
    <2> QED
      BY <2>2 DEF AllDated, Dated
  <1>2. CASE events' = events
    BY <1>2 DEF AllDated
  <1> QED
    BY <1>1, <1>2, Shapes, SyncShapes
    DEF Starts, Resumes, Stops, ResolvesApplication, ResolvesEvent, IsAnswered, Reads, Stays

\* The pass that acts creates an application, or an interview, only where there is none.
LEMMA FreshStep ==
    ASSUME NEW e \in Emails, TypeInv, AskInv, AnswerInv(e), PlanInv(e), FreshPlan(e), ~asked',
           ~overlapped', (Works(e) /\ UNCHANGED calendar) \/ SyncStep(e)
    PROVE  FreshPlan(e)'
  <1>0. /\ DTypeOK /\ plan[e] \in Plans /\ answer[e] \in Answers
        /\ answer[e].app \in Emails \cup {None}
    BY DEF TypeInv, LocalTypes, TypeOK, Answers
  <1> SUFFICES ASSUME Where(e)' = "resolving event" \/ Repeatable(e)',
                      ~Rescheduling(e)', plan'[e].create
               PROVE  linked'[e] = e \/ (linked'[e] = None /\ OpenApplications' = {})
    BY DEF FreshPlan
  <1>1. CASE ResolvesApplication(e)
    <2>1. at'[e] = "resolving event"
      BY <1>1 DEF ResolvesApplication, Where, Repeatable, Syncing
    <2>2. plan'[e] \in ApplicationPlans(e) /\ ~StaleApplication(e)
      BY <1>1, <2>1 DEF ResolvesApplication
    <2>3. ~answer[e].new /\ ~evidence[e].separate
      BY <1>1 DEF ResolvesApplication, AskInv, AskKnown
    <2>4. (\E a \in Emails : plan'[e] = Existing(a)) \/ (linked[e] = None /\ OpenApplications = {})
      BY <1>0, <2>2, <2>3, ApplicationDecisions
    <2>5. \A a : ~Existing(a).create
      BY DEF Existing, NoPlan
    <2> QED
      BY <1>1, <2>4, <2>5 DEF ResolvesApplication, Stays, OpenApplications
  <1>2. ~IsAnswered(e)
    BY DEF IsAnswered, AnswerInv, Where, Repeatable, Syncing, Rescheduling
  <1>3. CASE ~ResolvesApplication(e)
    <2>1. /\ Where(e) = "resolving event" \/ Repeatable(e)
          /\ plan'[e].create = plan[e].create /\ evidence'[e] = evidence[e]
      <3>1. CASE ResolvesEvent(e) /\ at'[e] = "persisting"
        <4>1. PICK p \in EventPlans(e) : PlannedAs(e, p)
          BY <3>1 DEF ResolvesEvent
        <4>2. plan'[e].create = plan[e].create
          BY <1>0, <4>1, PlannedFields
        <4> QED
          BY <3>1, <4>2 DEF ResolvesEvent, Stays, Where
      <3>2. CASE ~ResolvesEvent(e)
        BY <1>2, <1>3, <3>2, Turns DEF Planning, KeepsPlan
      <3> QED
        BY <3>1, <3>2 DEF ResolvesEvent, Where, Repeatable, Syncing
    <2>2. linked[e] = e \/ (linked[e] = None /\ OpenApplications = {})
      BY <2>1, ResumesFresh DEF FreshPlan, Rescheduling
    <2>3. CASE Writes(e)
      <3>1. PICK a \in Emails :
               /\ linked'[e] = a
               /\ \/ at[e] = "persisting" /\ linked[e] = None /\ Picks(e, a)
                  \/ at[e] = "writing" /\ a = linked[e]
        BY <2>3, WrittenTo
      <3>2. OpenApplications = {} /\ Picks(e, a) => a = e
        BY <2>1 DEF CandidatesForWrite, Picks
      <3>3. at[e] = "writing" => linked[e] # None
        BY DEF TypeInv, PassInv
      <3> QED
        BY <2>2, <3>1, <3>2, <3>3, EvidenceAssumption
    <2>4. CASE UNCHANGED <<linked, status>>
      BY <2>2, <2>4 DEF OpenApplications
    <2> QED
      BY <2>3, <2>4, Shapes, SyncShapes
      DEF Starts, Resumes, Stops, ResolvesApplication, ResolvesEvent, IsAnswered, Reads, Stays
  <1> QED
    BY <1>1, <1>3

LEMMA ClearStep ==
    ASSUME NEW e \in Emails, TypeInv, AskInv, PlanInv(e), ClearPlan(e), AloneInterview, ~asked',
           ~overlapped', (Works(e) /\ UNCHANGED calendar) \/ SyncStep(e)
    PROVE  ClearPlan(e)'
  <1>0. /\ DTypeOK /\ plan[e] \in Plans /\ answer[e] \in Answers /\ evidence[e] \in Evidence
    BY DEF TypeInv, LocalTypes, TypeOK
  <1> SUFFICES ASSUME Repeatable(e)', plan'[e].kind = "create",
                      TrackedType(evidence'[e]) = "interview", evidence'[e].time # NoTime
               PROVE  /\ ~Rescheduling(e)'
                      /\ \A v \in Interviews(plan[e].app)' : v.fingerprint = Fingerprint(evidence'[e])
    BY DEF ClearPlan
  <1>1. CASE ResolvesEvent(e)
    <2>1. at'[e] = "persisting"
      BY <1>1 DEF ResolvesEvent, Repeatable, Where, Syncing
    <2>2. PICK p \in EventPlans(e) : PlannedAs(e, p)
      BY <1>1, <2>1 DEF ResolvesEvent
    <2>3. plan'[e].app = plan[e].app /\ plan'[e].kind = p.kind
      BY <1>0, <2>2, PlannedFields
    <2>4. evidence'[e] = evidence[e] /\ events' = events /\ asked' = asked
      BY <1>1 DEF ResolvesEvent, Stays
    <2>5. plan[e].app \in Emails
      BY <1>1 DEF ResolvesEvent, TypeInv, PassInv, AppKnown, Planning, Where
    <2>6. ~answer[e].new
      BY <2>4 DEF AskInv, AskKnown
    <2>7. ~Rescheduling(e) /\ Duplicates(e) = {} /\ SameRoundChange(e) = {}
      BY <2>3, <2>4, <2>6, EventDecisions DEF IsNothing, IsKnown, IsNew, Is
    <2>8. ASSUME NEW v \in Interviews(plan[e].app) PROVE FALSE
      <3>1. Interviews(plan[e].app) = {v}
        BY <2>5, <2>8 DEF AloneInterview
      <3>2. Cardinality(Interviews(plan[e].app)) = 1
        BY <3>1, FS_Singleton
      <3>3. v.fingerprint.time = evidence[e].time
        BY <2>4, <2>7, <3>2 DEF SameRoundChange
      <3>4. v \in events /\ v.app = plan[e].app /\ v.fingerprint.type = "interview"
        BY DEF Interviews, EventsOf
      <3>5. v.fingerprint \in FingerprintSet
        BY <1>0, <3>4 DEF DTypeOK, Event
      <3>6. v.fingerprint = Fingerprint(evidence[e])
        BY <2>4, <3>3, <3>4, <3>5 DEF FingerprintSet, Fingerprint
      <3> QED
        BY <2>4, <2>7, <3>4, <3>6 DEF Duplicates, EventsOf
    <2> QED
      BY <2>3, <2>4, <2>7, <2>8 DEF Interviews, EventsOf, Rescheduling
  <1>2. CASE Repeatable(e) /\ KeepsPlan(e)
    <2>1. /\ plan'[e].app = plan[e].app /\ plan[e].kind = "create" /\ evidence'[e] = evidence[e]
          /\ ~Rescheduling(e)
          /\ \A v \in Interviews(plan[e].app) : v.fingerprint = Fingerprint(evidence[e])
      BY <1>2, ResumesFresh DEF KeepsPlan, ClearPlan
    <2>2. CASE Writes(e)
      <3>1. PICK a \in Emails : Finds(e, a) \/ Inserts(e, a) \/ Updates(e, a)
        BY <2>2, WrittenTo
      <3>2. events' \subseteq events \cup {RowOf(e, a)}
        BY <2>1, <3>1 DEF Finds, Inserts, Updates
      <3>3. RowOf(e, a).fingerprint = Fingerprint(evidence[e])
        BY DEF RowOf
      <3> QED
        BY <2>1, <3>2, <3>3 DEF Interviews, EventsOf, Rescheduling
    <2>3. CASE events' = events
      BY <2>1, <2>3 DEF Interviews, EventsOf, Rescheduling
    <2> QED
      BY <2>2, <2>3, Shapes, SyncShapes
      DEF Starts, Resumes, Stops, ResolvesApplication, ResolvesEvent, IsAnswered, Reads, Stays
  <1> QED
    BY <1>1, <1>2, Turns

\* A commit of a pass alone with the rows leaves one interview of its application.
LEMMA CommitAlone ==
    ASSUME NEW e \in Emails, TypeInv, Writes(e), PlanInv(e), FreshPlan(e),
           AllDated => ClearPlan(e) /\ AloneInterview, AllDated'
    PROVE  AloneInterview'
  <1>0. /\ DTypeOK /\ plan \in [Emails -> Plans] /\ evidence[e] \in Evidence
    BY DEF TypeInv, LocalTypes, TypeOK
  <1>1. PICK a \in Emails :
           /\ Finds(e, a) \/ Inserts(e, a) \/ Updates(e, a)
           /\ \/ at[e] = "persisting" /\ linked[e] = None /\ Picks(e, a)
              \/ at[e] = "writing" /\ a = linked[e]
           /\ Repeatable(e) /\ Planning(e)
    BY WrittenTo
  <1>2. ~Stale(e)
    BY <1>1 DEF Stale
  <1>3. CASE Finds(e, a)
    BY <1>3 DEF Finds, AllDated, AloneInterview, Interviews, EventsOf
  <1>4. CASE Inserts(e, a)
    <2>1. /\ plan[e].kind = "create" /\ Alike(e, a) = {}
          /\ events' = events \cup {RowOf(e, a)}
      BY <1>4 DEF Inserts
    <2>2. AllDated /\ Dated(RowOf(e, a))
      BY <2>1 DEF AllDated
    <2>3. ASSUME NEW b \in Emails, RowOf(e, a) \in Interviews(b)'
          PROVE  b = a /\ Interviews(a) = {}
      <3>1. b = a /\ TrackedType(evidence[e]) = "interview"
        BY <2>3 DEF Interviews, EventsOf, RowOf, Fingerprint
      <3>2. RowOf(e, a).id.first = Fingerprint(evidence[e])
        <4>1. plan[e].event = [email |-> e, first |-> Fingerprint(evidence[e])]
          BY <1>1, <2>1 DEF PlanInv
        <4>2. RowOf(e, a).id = plan[e].event
          BY DEF RowOf
        <4> QED
          BY <4>1, <4>2
      <3>3. evidence[e].time # NoTime
        BY <2>2, <3>1, <3>2 DEF Dated, Fingerprint
      <3>4. /\ ~Rescheduling(e)
            /\ \A v \in Interviews(plan[e].app) : v.fingerprint = Fingerprint(evidence[e])
        BY <1>1, <1>2, <2>1, <2>2, <3>1, <3>3 DEF ClearPlan
      <3>5. a = plan[e].app
        <4>1. CASE plan[e].create
          <5>1. plan[e].app = e /\ (linked[e] = e \/ (linked[e] = None /\ OpenApplications = {}))
            BY <1>1, <1>2, <3>4, <4>1 DEF FreshPlan, PlanInv
          <5>2. OpenApplications = {} /\ Picks(e, a) => a = e
            BY <4>1 DEF CandidatesForWrite, Picks
          <5>3. at[e] = "writing" => linked[e] # None
            BY DEF TypeInv, PassInv
          <5> QED
            BY <1>1, <5>1, <5>2, <5>3, EvidenceAssumption
        <4>2. CASE ~plan[e].create
          BY <1>1, <4>2 DEF Picks, PlanInv, TypeInv, PassInv
        <4> QED
          BY <4>1, <4>2
      <3>6. Interviews(a) = {}
        BY <2>1, <3>4, <3>5 DEF Alike, Interviews
      <3> QED
        BY <3>1, <3>6
    <2>4. \A b \in Emails : \A v \in Interviews(b)' : v = RowOf(e, a) \/ v \in Interviews(b)
      BY <2>1 DEF Interviews, EventsOf
    <2> QED
      BY <2>2, <2>3, <2>4 DEF AloneInterview
  <1>5. CASE Updates(e, a)
    <2>1. PICK v \in Interviews(a) :
             v.id = plan[e].event /\ events' = (events \ {v}) \cup {RowOf(e, a)}
      BY <1>5 DEF Updates
    <2>2. v \in events /\ v.app = a /\ RowOf(e, a).id = v.id /\ RowOf(e, a).app = a
      BY <2>1 DEF Interviews, EventsOf, RowOf
    <2>3. AllDated
      BY <2>1, <2>2 DEF AllDated, Dated
    <2>4. \A w \in Interviews(a) : w = v
      BY <2>3 DEF AloneInterview
    <2>5. \A b \in Emails : \A w \in Interviews(b)' :
              (w = RowOf(e, a) /\ b = a) \/ (w \in Interviews(b) /\ w # v)
      BY <2>1, <2>2 DEF Interviews, EventsOf
    <2>6. ASSUME NEW b \in Emails, NEW w \in Interviews(b)', NEW x \in Interviews(b)'
          PROVE  w = x
      <3>1. CASE b = a
        BY <2>4, <2>5, <3>1
      <3>2. CASE b # a
        <4>1. w \in Interviews(b) /\ x \in Interviews(b)
          BY <2>5, <3>2
        <4> QED
          BY <2>3, <4>1 DEF AloneInterview
      <3> QED
        BY <3>1, <3>2
    <2> QED
      BY <2>6 DEF AloneInterview
  <1> QED
    BY <1>1, <1>3, <1>4, <1>5

LEMMA AloneStep ==
    ASSUME TypeInv, AskInv, AloneInv, NEW e \in Emails,
           (Works(e) /\ UNCHANGED calendar) \/ SyncStep(e)
    PROVE  AloneInv'
  <1>0. /\ asked \in BOOLEAN /\ overlapped' \in BOOLEAN /\ (asked => asked')
        /\ ~overlapped' => ~overlapped /\ \A f \in Emails \ {e} : ~Executing(f)
    BY AskStep, Overlaps DEF TypeInv, LocalTypes
  <1>1. ASSUME NEW f \in Emails PROVE AnswerInv(f)' /\ PlanInv(f)'
    <2>1. CASE f = e
      BY <2>1, AnswerStep, PlanStep DEF AloneInv
    <2>2. CASE f # e
      <3>1. Same(f) /\ AnswerInv(f) /\ PlanInv(f)
        BY <2>2, OthersRest DEF AloneInv
      <3> QED
        BY <3>1 DEF Same, AnswerInv, PlanInv, Rescheduling, Planning, Repeatable, Where
    <2> QED
      BY <2>1, <2>2
  <1>2. ~Writes(e) => UNCHANGED <<events, status, linked>>
    BY Shapes, SyncShapes
    DEF Starts, Resumes, Stops, ResolvesApplication, ResolvesEvent, IsAnswered, Reads, Stays
  <1>3. OwnRows'
    <2>1. CASE Writes(e)
      <3>1. PICK a \in Emails :
               /\ linked' = [linked EXCEPT ![e] = a] /\ linked'[e] = a
               /\ \A b \in Emails \ {a} : status'[b] = status[b]
               /\ status[a] # None \/ a = e
               /\ linked[e] = None \/ a = linked[e]
        BY <2>1, WrittenTo
      <3>2. \A b \in Emails \ {e} : linked'[b] = linked[b]
        BY <3>1 DEF TypeInv, TypeOK, DTypeOK
      <3> QED
        BY <3>1, <3>2, EvidenceAssumption DEF AloneInv, OwnRows
    <2>2. CASE ~Writes(e)
      BY <1>2, <2>2 DEF AloneInv, OwnRows
    <2> QED
      BY <2>1, <2>2
  <1>4. ASSUME ~overlapped', NEW f \in Emails \ {e} PROVE ~Executing(f) /\ ~Executing(f)' /\ Same(f)
    <2>1. ~Executing(f)
      BY <1>0, <1>4
    <2> QED
      BY <1>4, <2>1, OthersRest DEF Same, Executing
  <1>5. ASSUME ~overlapped', ~asked', NEW f \in Emails PROVE FreshPlan(f)'
    <2>1. CASE f = e
      BY <1>0, <1>5, <2>1, FreshStep DEF AloneInv
    <2>2. CASE f # e /\ Writes(e)
      BY <1>4, <1>5, <2>2, OthersOvertaken DEF FreshPlan, Same, Where, Repeatable
    <2>3. CASE f # e /\ ~Writes(e)
      <3>1. FreshPlan(f) /\ Same(f) /\ UNCHANGED <<status, linked>>
        BY <1>0, <1>2, <1>4, <1>5, <2>3 DEF AloneInv
      <3> QED
        BY <3>1 DEF FreshPlan, Same, Where, Repeatable, Rescheduling, OpenApplications, Stale
    <2> QED
      BY <2>1, <2>2, <2>3
  <1>6. AllDated' => AllDated
    BY DatedBefore
  <1>7. ASSUME ~overlapped', ~asked', AllDated' PROVE AloneInterview'
    <2>1. CASE Writes(e)
      BY <1>0, <1>7, <2>1, CommitAlone DEF AloneInv
    <2>2. CASE ~Writes(e)
      BY <1>0, <1>2, <1>6, <1>7, <2>2 DEF AloneInv, AloneInterview, Interviews, EventsOf
    <2> QED
      BY <2>1, <2>2
  <1>8. ASSUME ~overlapped', ~asked', AllDated', NEW f \in Emails PROVE ClearPlan(f)'
    <2>1. CASE f = e
      BY <1>0, <1>6, <1>8, <2>1, ClearStep DEF AloneInv
    <2>2. CASE f # e /\ Writes(e)
      <3>1. ClearPlan(f) /\ Same(f) /\ ~Executing(f)
        BY <1>0, <1>4, <1>6, <1>8, <2>2 DEF AloneInv
      <3> QED
        BY <2>2, <3>1, OthersOvertaken DEF ClearPlan, Same, Where, Repeatable, Rescheduling
    <2>3. CASE f # e /\ ~Writes(e)
      <3>1. ClearPlan(f) /\ Same(f) /\ UNCHANGED events
        BY <1>0, <1>2, <1>4, <1>6, <1>8, <2>3 DEF AloneInv
      <3> QED
        BY <3>1
        DEF ClearPlan, Same, Where, Repeatable, Rescheduling, Interviews, EventsOf, Stale
    <2> QED
      BY <2>1, <2>2, <2>3
  <1>9. ~overlapped' => \A f, g \in Emails : Executing(f)' /\ Executing(g)' => f = g
    BY <1>4
  <1> QED
    BY <1>1, <1>3, <1>5, <1>7, <1>8, <1>9 DEF AloneInv

LEMMA AloneInvStep == OpenInv /\ AloneInv /\ [Next]_vars => AloneInv'
  <1> SUFFICES ASSUME OpenInv, AloneInv, [Next]_vars PROVE AloneInv'
    OBVIOUS
  <1> USE DEF OpenInv
  <1>1. ASSUME UNCHANGED dvars PROVE AloneInv'
    <2>0. UNCHANGED <<linked, status, events, at, evidence, answer, plan, saved, overtaken,
                      overlapped, asked>>
      BY <1>1 DEF dvars, rows, deaths, history
    <2>1. /\ OpenApplications' = OpenApplications /\ AllDated' = AllDated /\ OwnRows' = OwnRows
          /\ \A a : Interviews(a)' = Interviews(a)
          /\ \A e : /\ Rescheduling(e)' = Rescheduling(e) /\ Executing(e)' = Executing(e)
                   /\ Where(e)' = Where(e) /\ Repeatable(e)' = Repeatable(e)
                   /\ Planning(e)' = Planning(e) /\ Stale(e)' = Stale(e)
      BY <2>0
      DEF OpenApplications, AllDated, OwnRows, Interviews, EventsOf, Rescheduling, Executing, Where,
          Repeatable, Planning, Stale
    <2>2. OwnRows' /\ \A e \in Emails : AnswerInv(e)' /\ PlanInv(e)'
      BY <2>0, <2>1 DEF AloneInv, AnswerInv, PlanInv
    <2>3. ~overlapped' /\ ~asked' => \A e \in Emails : FreshPlan(e)'
      BY <2>0, <2>1 DEF AloneInv, FreshPlan
    <2>4. ~overlapped' /\ ~asked' /\ AllDated' => \A e \in Emails : ClearPlan(e)'
      BY <2>0, <2>1 DEF AloneInv, ClearPlan
    <2>5. ~overlapped' /\ ~asked' /\ AllDated' => AloneInterview'
      BY <2>0, <2>1 DEF AloneInv, AloneInterview
    <2> QED
      BY <2>0, <2>1, <2>2, <2>3, <2>4, <2>5 DEF AloneInv
  <1>2. (\E x \in outlook : UserDeletes(x)) \/ UNCHANGED vars => UNCHANGED dvars
    BY DEF UserDeletes, vars
  <1> QED
    BY <1>1, <1>2, Steps, AloneStep

\* As long as emails are processed one at a time, and no resume that died goes on with what
\* it had resolved before another email's changes, dated invitations and reschedules of an
\* application, however often repeated, move its one interview instead of adding another.
THEOREM OneInterviewAtATime == Spec => []OneInterview
  <1>1. Init => OpenInv /\ AloneInv
    BY InitTypeInv, InitAskInv, InitAloneInv DEF OpenInv
  <1>2. OpenInv /\ AloneInv /\ [Next]_vars => (OpenInv /\ AloneInv)'
    BY TypeInvStep, AskInvStep, AloneInvStep DEF OpenInv
  <1>3. OpenInv /\ AloneInv => OneInterview
    BY AtMostOne DEF AloneInv, AloneInterview, AllDated, Dated, OneInterview
  <1> QED
    BY <1>1, <1>2, <1>3, PTL DEF Spec

-----------------------------------------------------------------------------
(* Duplicates in the calendar.                                              *)

\* The Outlook events with the id a pass writes to, those the link of an event refers to, and
\* those that a pass between its POST and save_link wrote.
Targets(e) == {x \in outlook : x.id = sync[e].target}
Kept(i) == {x \in outlook : \E l \in links : l.event = i /\ x.id = l.target}
Written(e) == IF at[e] = "creating" THEN SameTransaction(e) ELSE Targets(e)

Posting(e, i) == at[e] \in {"creating", "saving"} /\ plan[e].row = i

\* Passes that died or gave up, and replacements of an event that was there.
Spare == crashes + failures + replaced

\* Graph creates one event per transaction, and a pass alone patches the linked one.
KeyedInv ==
    /\ IsFiniteSet(outlook)
    /\ \A x, y \in outlook : x.id.transaction = y.id.transaction => x = y
    /\ ~overlapped => \A e \in Emails : at[e] = "updating" =>
           \E l \in links : l.event = plan[e].row /\ l.target = sync[e].target

\* Apart from the event a pass has written, or else the linked one, the live events of an
\* event are left over from a pass that died or gave up, or from a replacement.
LeftOver(i) ==
    /\ \A e \in Emails : Posting(e, i) => Cardinality(LiveEvents(i) \ Written(e)) <= Spare
    /\ (\A e \in Emails : ~Posting(e, i)) => Cardinality(LiveEvents(i) \ Kept(i)) <= Spare

CountInv == ~overlapped => \A i \in EventId : LeftOver(i)

\* A POST, whose answer may get lost, finds the event of its transaction or creates it; ...
Posts(e) ==
    /\ at[e] = "creating" /\ sync'[e].draft = sync[e].draft
    /\ \E x \in outlook' :
           /\ \/ x \in SameTransaction(e) /\ outlook' = outlook
              \/ /\ SameTransaction(e) = {} /\ x = NewOutlookEvent(e)
                 /\ outlook' = outlook \cup {x}
           /\ \/ at'[e] = "creating"
              \/ at'[e] = "saving" /\ sync'[e].target = x.id

\* ... a PATCH changes the event it is sent to.
Patches(e) ==
    /\ at[e] = "updating" /\ at'[e] \in {"updating", "saving"} /\ sync'[e] = sync[e]
    /\ \E x \in Targets(e), y \in outlook' :
           /\ y.id = x.id /\ y.draft = sync[e].draft
           /\ outlook' = (outlook \ {x}) \cup {y}

LEMMA Requests ==
    ASSUME TypeInv, NEW e \in Emails, Request(e)
    PROVE  /\ Posts(e) \/ Patches(e)
           /\ plan'[e] = plan[e] /\ UNCHANGED <<links, deletes, failures, told>>
  <1>0. /\ at \in [Emails -> Stage] /\ sync \in [Emails -> Syncs] /\ outlook \subseteq OutlookEvent
    BY DEF TypeInv, TypeOK, DTypeOK, LocalTypes
  <1>1. PICK lost \in BOOLEAN :
           (CreateEvent(e, lost) \/ UpdateEvent(e, lost))
           /\ UNCHANGED <<links, deletes, failures, told>>
    BY DEF Request
  <1>2. CASE CreateEvent(e, lost)
    <2>1. PICK x \in (IF SameTransaction(e) = {} THEN {NewOutlookEvent(e)} ELSE SameTransaction(e)) :
             /\ Moves(e, "creating", IF lost THEN "creating" ELSE "saving")
             /\ outlook' = outlook \cup {x}
             /\ sync' = IF lost THEN sync ELSE [sync EXCEPT ![e].target = x.id]
      BY <1>2 DEF CreateEvent
    <2>2. /\ at[e] = "creating" /\ at'[e] = IF lost THEN "creating" ELSE "saving"
          /\ plan'[e] = plan[e]
      BY <1>0, <2>1 DEF Moves, Step, Goes
    <2>3. sync'[e].draft = sync[e].draft /\ (~lost => sync'[e].target = x.id)
      BY <1>0, <2>1 DEF Syncs
    <2>4. \/ x \in SameTransaction(e) /\ outlook' = outlook
          \/ SameTransaction(e) = {} /\ x = NewOutlookEvent(e) /\ outlook' = outlook \cup {x}
      BY <2>1 DEF SameTransaction
    <2> QED
      BY <1>1, <2>1, <2>2, <2>3, <2>4 DEF Posts
  <1>3. CASE UpdateEvent(e, lost)
    <2>1. PICK x \in outlook :
             /\ x.id = sync[e].target
             /\ Moves(e, "updating", IF lost THEN "updating" ELSE "saving")
             /\ outlook' = (outlook \ {x}) \cup {[x EXCEPT !.draft = sync[e].draft]}
             /\ UNCHANGED sync
      BY <1>3 DEF UpdateEvent
    <2> DEFINE y == [x EXCEPT !.draft = sync[e].draft]
    <2>2. y.id = x.id /\ y.draft = sync[e].draft
      BY <1>0 DEF OutlookEvent
    <2>3. /\ at[e] = "updating" /\ at'[e] \in {"updating", "saving"} /\ plan'[e] = plan[e]
      BY <1>0, <2>1 DEF Moves, Step, Goes
    <2> QED
      BY <1>1, <2>1, <2>2, <2>3 DEF Patches, Targets
  <1> QED
    BY <1>1, <1>2, <1>3

\* A set within a finite one, up to a single element.
LEMMA WithinOne ==
    ASSUME NEW S, NEW T, NEW O, IsFiniteSet(T), \A x, y \in O : x = y,
           NEW n \in Nat, Cardinality(T) <= n
    PROVE  /\ S \subseteq T => Cardinality(S) <= n
           /\ S \subseteq T \cup O => Cardinality(S) <= n + 1
  <1>1. ASSUME S \subseteq T PROVE Cardinality(S) <= n
    <2>1. IsFiniteSet(S) /\ Cardinality(S) <= Cardinality(T)
      BY <1>1, FS_Subset
    <2>2. Cardinality(S) \in Nat /\ Cardinality(T) \in Nat
      BY <2>1, FS_CardinalityType
    <2> QED
      BY <2>1, <2>2
  <1>2. ASSUME S \subseteq T \cup O PROVE Cardinality(S) <= n + 1
    <2>1. CASE S \subseteq T
      <3>1. Cardinality(S) \in Nat
        BY <2>1, FS_Subset, FS_CardinalityType
      <3> QED
        BY <1>1, <2>1, <3>1
    <2>2. CASE ~(S \subseteq T)
      <3>1. PICK x \in S : x \in O
        BY <1>2, <2>2
      <3>2. S \subseteq T \cup {x}
        BY <1>2, <3>1
      <3>3. IsFiniteSet(T \cup {x}) /\ Cardinality(T \cup {x}) <= Cardinality(T) + 1
        <4>1. /\ IsFiniteSet(T \cup {x})
              /\ Cardinality(T \cup {x}) = IF x \in T THEN Cardinality(T) ELSE Cardinality(T) + 1
          BY FS_AddElement
        <4>2. Cardinality(T) \in Nat
          BY FS_CardinalityType
        <4> QED
          BY <4>1, <4>2
      <3>4. IsFiniteSet(S) /\ Cardinality(S) <= Cardinality(T \cup {x})
        BY <3>2, <3>3, FS_Subset
      <3>5. /\ Cardinality(S) \in Nat /\ Cardinality(T) \in Nat
            /\ Cardinality(T \cup {x}) \in Nat
        BY <3>3, <3>4, FS_CardinalityType
      <3> QED
        BY <3>3, <3>4, <3>5
    <2> QED
      BY <2>1, <2>2
  <1> QED
    BY <1>1, <1>2

LEMMA InitCountInv == Init => KeyedInv /\ CountInv
  <1> SUFFICES ASSUME Init PROVE KeyedInv /\ CountInv
    OBVIOUS
  <1>1. outlook = {} /\ links = {} /\ Spare = 0 /\ (\A e \in Emails : at[e] \in {"done", "idle"})
    BY DEF Init, DInit, Spare
  <1>2. IsFiniteSet({}) /\ Cardinality({}) = 0
    BY FS_EmptySet
  <1>3. \A i : LiveEvents(i) = {}
    BY <1>1 DEF LiveEvents
  <1>4. \A e \in Emails, i \in EventId : ~Posting(e, i)
    BY <1>1 DEF Posting
  <1>5. \A i \in EventId : LiveEvents(i) \ Kept(i) = {}
    BY <1>3
  <1> QED
    BY <1>1, <1>2, <1>4, <1>5 DEF KeyedInv, CountInv, LeftOver

\* Works leaves the calendar alone, and no pass goes on with its requests there.
LEMMA WorksApart ==
    ASSUME TypeInv, NEW e \in Emails, Works(e)
    PROVE  /\ at'[e] \notin Syncing
           /\ at[e] \in {"creating", "saving"} => at'[e] = "crashed"
           /\ crashes' = IF at'[e] = "crashed" THEN crashes + 1 ELSE crashes
  <1>1. answer[e].to \in Goals /\ saved[e] \in Nodes \cup {"none"} /\ at \in [Emails -> Stage]
    BY DEF TypeInv, LocalTypes, Answers, TypeOK, DTypeOK
  <1> QED
    BY <1>1, Shapes
    DEF Starts, Resumes, Stops, ResolvesApplication, ResolvesEvent, IsAnswered, Reads, Writes,
        Stays, Syncing, Goals, Nodes

\* Requests are the only steps that change what is in the calendar.
LEMMA OutlookRests ==
    ASSUME NEW e \in Emails, SyncStep(e), ~Request(e)
    PROVE  outlook' = outlook
  BY DEF SyncStep, SkipSync, ReviewUndated, LoadCandidate, GetLink, EventMissing, SyncFails,
         SaveLink, AnswerCalendar, Finish, calendar

\* The links change when one is saved.
LEMMA LinksRest ==
    ASSUME NEW e \in Emails, SyncStep(e), ~SaveLink(e)
    PROVE  links' = links
  BY DEF SyncStep, SkipSync, ReviewUndated, LoadCandidate, GetLink, Request, EventMissing,
         SyncFails, AnswerCalendar, Finish, calendar

\* A pass comes to update the event of a link.
LEMMA GoesToUpdate ==
    ASSUME TypeInv, NEW e \in Emails, SyncStep(e), at'[e] = "updating"
    PROVE  /\ UNCHANGED links /\ plan'[e] = plan[e]
           /\ \/ Patches(e)
              \/ at[e] = "linking" /\ \E l \in LinksOf(e) : sync'[e].target = l.target
  <1>0. /\ at \in [Emails -> Stage] /\ sync \in [Emails -> Syncs] /\ plan \in [Emails -> Plans]
    BY DEF TypeInv, TypeOK, DTypeOK, LocalTypes
  <1>1. CASE Request(e)
    BY <1>1, Requests DEF Posts
  <1>2. CASE GetLink(e)
    <2>1. /\ Moves(e, "linking", "updating")
          /\ \E l \in LinksOf(e) : sync' = [sync EXCEPT ![e].target = l.target]
      BY <1>0, <1>2 DEF GetLink, Moves, Step, Goes
    <2>2. PICK l \in LinksOf(e) : sync' = [sync EXCEPT ![e].target = l.target]
      BY <2>1
    <2>3. sync'[e].target = l.target
      BY <1>0, <2>2 DEF Syncs
    <2> QED
      BY <1>2, <2>1, <2>3 DEF GetLink, Moves, Step
  <1>3. CASE ~Request(e) /\ ~GetLink(e)
    <2>1. SkipSync(e) \/ ReviewUndated(e) \/ LoadCandidate(e) \/ EventMissing(e) \/ SyncFails(e)
          \/ SaveLink(e) \/ Completes(e) \/ Reviewed(e)
      BY <1>3, SyncShapes
    <2>2. ~SkipSync(e) /\ ~ReviewUndated(e) /\ ~LoadCandidate(e) /\ ~EventMissing(e)
          /\ ~SyncFails(e) /\ ~SaveLink(e)
      BY <1>0
      DEF SkipSync, ReviewUndated, LoadCandidate, EventMissing, SyncFails, SaveLink, Fails, Moves,
          Step, Goes
    <2> QED
      BY <2>1, <2>2 DEF Completes, Reviewed
  <1> QED
    BY <1>1, <1>2, <1>3

LEMMA KeyedStep ==
    ASSUME TypeInv, KeyedInv, NEW e \in Emails, (Works(e) /\ UNCHANGED calendar) \/ SyncStep(e)
    PROVE  KeyedInv'
  <1>1. /\ IsFiniteSet(outlook')
        /\ \A x, y \in outlook' : x.id.transaction = y.id.transaction => x = y
    <2>1. CASE outlook' = outlook
      BY <2>1 DEF KeyedInv
    <2>2. CASE SyncStep(e) /\ Request(e)
      <3>1. CASE Posts(e)
        <4>1. PICK x \in outlook' :
                 \/ x \in SameTransaction(e) /\ outlook' = outlook
                 \/ /\ SameTransaction(e) = {} /\ x = NewOutlookEvent(e)
                    /\ outlook' = outlook \cup {x}
          BY <3>1 DEF Posts
        <4>2. CASE SameTransaction(e) = {} /\ x = NewOutlookEvent(e) /\ outlook' = outlook \cup {x}
          <5>1. x.id.transaction = [event |-> plan[e].row, draft |-> sync[e].draft]
            BY <4>2 DEF NewOutlookEvent
          <5>2. \A y \in outlook : y.id.transaction # x.id.transaction
            BY <4>2, <5>1 DEF SameTransaction
          <5> QED
            BY <4>2, <5>2, FS_AddElement DEF KeyedInv
        <4> QED
          BY <2>1, <4>1, <4>2
      <3>2. CASE Patches(e)
        <4>1. PICK x \in Targets(e), y \in outlook' :
                 y.id = x.id /\ outlook' = (outlook \ {x}) \cup {y}
          BY <3>2 DEF Patches
        <4>2. x \in outlook
          BY DEF Targets
        <4>3. IsFiniteSet(outlook \ {x})
          BY FS_Subset DEF KeyedInv
        <4>4. IsFiniteSet(outlook')
          BY <4>1, <4>3, FS_AddElement
        <4> QED
          BY <4>1, <4>2, <4>4 DEF KeyedInv
      <3> QED
        BY <2>2, <3>1, <3>2, Requests
    <2> QED
      BY <2>1, <2>2, OutlookRests DEF calendar
  <1>2. ASSUME ~overlapped', NEW f \in Emails, at'[f] = "updating"
        PROVE  \E l \in links' : l.event = plan'[f].row /\ l.target = sync'[f].target
    <2>1. ~overlapped /\ \A g \in Emails \ {e} : ~Executing(g)
      BY <1>2, Overlaps
    <2>2. CASE f # e
      BY <1>2, <2>1, <2>2, OthersRest DEF Same, Executing, Waiting
    <2>3. CASE f = e
      <3>1. SyncStep(e)
        BY <1>2, <2>3, WorksApart DEF Syncing
      <3>2. CASE Patches(e)
        BY <1>2, <2>1, <2>3, <3>1, <3>2, GoesToUpdate DEF KeyedInv, Patches
      <3>3. CASE at[e] = "linking" /\ \E l \in LinksOf(e) : sync'[e].target = l.target
        BY <1>2, <2>3, <3>1, <3>3, GoesToUpdate DEF LinksOf
      <3> QED
        BY <1>2, <2>3, <3>1, <3>2, <3>3, GoesToUpdate
    <2> QED
      BY <2>2, <2>3
  <1> QED
    BY <1>1, <1>2 DEF KeyedInv

\* The event an email's pass has written, or else the linked one, is only one.
LEMMA OneAccounted ==
    ASSUME TypeInv, KeyedInv
    PROVE  /\ \A i : \A x, y \in Kept(i) : x = y
           /\ \A e \in Emails : \A x, y \in Written(e) : x = y
  BY DEF TypeInv, TypeOK, KeyedInv, Kept, Written, Targets, SameTransaction

Accounted(e, i) == IF Posting(e, i) THEN Written(e) ELSE Kept(i)

\* What a step of a pass alone does to the live events of i that are not accounted for.
NoneAdded(e, i) ==
    /\ (LiveEvents(i) \ Accounted(e, i))' \subseteq LiveEvents(i) \ Accounted(e, i)
    /\ Spare' = Spare
OneReleased(e, i) ==
    /\ LiveEvents(i)' \subseteq LiveEvents(i) /\ Spare' = Spare + 1

LEMMA SpareTypes == TypeInv => Spare \in Nat
  BY EvidenceAssumption DEF TypeInv, TypeOK, DTypeOK, LocalTypes, Spare

\* The workflow's own steps.
LEMMA WorksCount ==
    ASSUME TypeInv, NEW e \in Emails, Works(e), UNCHANGED calendar, NEW i
    PROVE  NoneAdded(e, i) \/ OneReleased(e, i)
  <1>1. UNCHANGED <<links, outlook, sync, failures, replaced>> /\ crashes \in Nat
    BY EvidenceAssumption DEF calendar, bounds, told, TypeInv, TypeOK, DTypeOK
  <1>2. LiveEvents(i)' = LiveEvents(i) /\ Kept(i)' = Kept(i)
    BY <1>1 DEF LiveEvents, Kept
  <1>3. failures \in Nat /\ replaced \in Nat
    BY DEF TypeInv, LocalTypes
  <1>4. CASE at'[e] = "crashed"
    BY <1>1, <1>2, <1>3, <1>4, WorksApart DEF OneReleased, Spare
  <1>5. CASE at'[e] # "crashed"
    <2>1. ~Posting(e, i) /\ ~Posting(e, i)' /\ crashes' = crashes
      BY <1>5, WorksApart DEF Posting, Syncing
    <2> QED
      BY <1>1, <1>2, <2>1 DEF NoneAdded, Accounted, Spare
  <1> QED
    BY <1>4, <1>5

\* A POST and a PATCH.
LEMMA RequestCounts ==
    ASSUME TypeInv, KeyedInv, ~overlapped, NEW e \in Emails, Request(e), NEW i \in EventId
    PROVE  NoneAdded(e, i)
  <1>1. /\ links' = links /\ Spare' = Spare /\ plan'[e] = plan[e]
    BY Requests, SyncShapes DEF Spare, told, SyncStep
  <1>2. CASE Posts(e)
    <2>1. PICK x \in outlook' :
             /\ \/ x \in SameTransaction(e) /\ outlook' = outlook
                \/ /\ SameTransaction(e) = {} /\ x = NewOutlookEvent(e)
                   /\ outlook' = outlook \cup {x}
             /\ at'[e] = "creating" \/ (at'[e] = "saving" /\ sync'[e].target = x.id)
      BY <1>2 DEF Posts
    <2>2. /\ at[e] = "creating" /\ sync'[e].draft = sync[e].draft
          /\ outlook \subseteq outlook' /\ outlook' \subseteq outlook \cup {x}
      BY <1>2, <2>1 DEF Posts
    <2>3. x.id.transaction = [event |-> plan[e].row, draft |-> sync[e].draft]
      BY <2>1 DEF SameTransaction, NewOutlookEvent
    <2>4. CASE plan[e].row = i
      <3>1. Posting(e, i) /\ Posting(e, i)' /\ Written(e) = SameTransaction(e)
        BY <1>1, <2>1, <2>2, <2>4 DEF Posting, Written
      <3>2. x \in Written(e)'
        BY <1>1, <2>1, <2>2, <2>3 DEF Written, SameTransaction, Targets
      <3>3. ASSUME NEW y \in SameTransaction(e), y \in outlook' PROVE y \in Written(e)'
        <4>1. y = x
          BY <2>1, <2>3, <3>3 DEF SameTransaction, KeyedInv
        <4> QED
          BY <3>2, <4>1
      <3>4. \A y \in SameTransaction(e) : y \in Written(e)'
        BY <2>2, <3>3 DEF SameTransaction
      <3> QED
        BY <1>1, <2>2, <3>1, <3>2, <3>4 DEF NoneAdded, Accounted, LiveEvents
    <2>5. CASE plan[e].row # i
      <3>1. ~Posting(e, i) /\ ~Posting(e, i)'
        BY <1>1, <2>5 DEF Posting
      <3>2. x \notin LiveEvents(i)'
        BY <2>3, <2>5 DEF LiveEvents
      <3>3. LiveEvents(i)' \subseteq LiveEvents(i) /\ Kept(i) \subseteq Kept(i)'
        BY <1>1, <2>2, <3>2 DEF LiveEvents, Kept
      <3> QED
        BY <1>1, <3>1, <3>3 DEF NoneAdded, Accounted
    <2> QED
      BY <2>4, <2>5
  <1>3. CASE Patches(e)
    <2>1. PICK x \in Targets(e), y \in outlook' :
             y.id = x.id /\ outlook' = (outlook \ {x}) \cup {y}
      BY <1>3 DEF Patches
    <2>2. PICK l \in links : l.event = plan[e].row /\ l.target = sync[e].target
      BY <1>3 DEF KeyedInv, Patches
    <2>3. /\ at[e] = "updating" /\ at'[e] \in {"updating", "saving"} /\ sync'[e] = sync[e]
          /\ x \in outlook /\ x.id = sync[e].target
      BY <1>3 DEF Patches, Targets
    <2>4. l.target.transaction.event = l.event /\ ~Posting(e, i)
      BY <2>3 DEF TypeInv, Posting
    <2>5. CASE plan[e].row = i
      <3>1. ASSUME NEW z \in LiveEvents(i)', z \notin Accounted(e, i)'
            PROVE  z \in LiveEvents(i) /\ z \notin Kept(i)
        <4>1. z \in outlook' /\ z.id.transaction.event = i
          BY <3>1 DEF LiveEvents
        <4>2. z.id # sync[e].target
          <5>1. CASE Posting(e, i)'
            BY <2>3, <3>1, <4>1, <5>1 DEF Accounted, Posting, Written, Targets
          <5>2. CASE ~Posting(e, i)'
            BY <1>1, <2>2, <2>5, <3>1, <4>1, <5>2 DEF Accounted, Kept
          <5> QED
            BY <5>1, <5>2
        <4>3. \A m \in links : m.event = i => m = l
          BY <2>2, <2>5 DEF TypeInv, TypeOK
        <4> QED
          BY <2>1, <2>2, <2>3, <4>1, <4>2, <4>3 DEF LiveEvents, Kept
      <3> QED
        BY <1>1, <2>4, <3>1 DEF NoneAdded, Accounted
    <2>6. CASE plan[e].row # i
      <3>1. ~Posting(e, i)'
        BY <1>1, <2>6 DEF Posting
      <3>2. y.id.transaction.event # i
        BY <2>1, <2>2, <2>3, <2>4, <2>6
      <3>3. LiveEvents(i)' \subseteq LiveEvents(i) /\ LiveEvents(i)' \subseteq outlook
        BY <2>1, <3>2 DEF LiveEvents
      <3>4. \A z \in outlook : z \in outlook' /\ z \in Kept(i) => z \in Kept(i)'
        BY <1>1 DEF Kept
      <3> QED
        BY <1>1, <2>4, <3>1, <3>3, <3>4 DEF NoneAdded, Accounted, LiveEvents
    <2> QED
      BY <2>5, <2>6
  <1> QED
    BY <1>2, <1>3, Requests

\* get_link decides whether the next request will be one too many.
LEMMA GetLinkCounts ==
    ASSUME TypeInv, NEW e \in Emails, GetLink(e), NEW i \in EventId
    PROVE  NoneAdded(e, i) \/ OneReleased(e, i)
  <1>0. /\ at \in [Emails -> Stage] /\ UNCHANGED <<links, outlook, failures, crashes>>
        /\ at[e] = "linking" /\ plan'[e] = plan[e] /\ replaced \in Nat
        /\ crashes \in Nat /\ failures \in Nat
    BY EvidenceAssumption
    DEF TypeInv, TypeOK, DTypeOK, LocalTypes, GetLink, Moves, Step, deaths, bounds
  <1>1. LiveEvents(i)' = LiveEvents(i) /\ Kept(i)' = Kept(i) /\ ~Posting(e, i)
    BY <1>0 DEF LiveEvents, Kept, Posting
  <1>2. CASE at'[e] # "creating" /\ replaced' = replaced
    <2>1. at'[e] # "saving"
      BY <1>0 DEF GetLink, Moves, Step, Goes
    <2>2. ~Posting(e, i)'
      BY <1>2, <2>1 DEF Posting
    <2> QED
      BY <1>0, <1>1, <1>2, <2>2 DEF NoneAdded, Accounted, Spare
  <1>3. CASE replaced' = IF LinkedEvents(e) = {} THEN replaced ELSE replaced + 1
    <2>1. CASE LinkedEvents(e) # {}
      BY <1>0, <1>1, <1>3, <2>1 DEF OneReleased, Spare
    <2>2. CASE LinkedEvents(e) = {}
      <3>1. plan[e].row = i => Kept(i) = {}
        BY <2>2 DEF LinkedEvents, LinksOf, Kept
      <3> QED
        BY <1>0, <1>1, <1>3, <2>2, <3>1 DEF NoneAdded, Accounted, Posting, Spare
    <2> QED
      BY <2>1, <2>2
  <1>4. \/ at'[e] # "creating" /\ replaced' = replaced
        \/ replaced' = IF LinkedEvents(e) = {} THEN replaced ELSE replaced + 1
    BY <1>0 DEF GetLink, Moves, Step, Goes, told
  <1> QED
    BY <1>2, <1>3, <1>4

\* save_link makes what was written the linked event.
LEMMA SaveLinkCounts ==
    ASSUME TypeInv, NEW e \in Emails, SaveLink(e), NEW i \in EventId
    PROVE  NoneAdded(e, i)
  <1>0. /\ at \in [Emails -> Stage] /\ UNCHANGED <<outlook, failures, crashes, replaced, plan, sync>>
        /\ at[e] = "saving" /\ at'[e] = "finishing"
        /\ links' = UpsertedLinks(e)
    BY DEF TypeInv, TypeOK, DTypeOK, SaveLink, Moves, Step, Goes, deaths, bounds, told
  <1>1. LiveEvents(i)' = LiveEvents(i) /\ Spare' = Spare /\ ~Posting(e, i)'
    BY <1>0 DEF LiveEvents, Spare, Posting
  <1>2. CASE plan[e].row = i
    <2>1. NewLink(e) \in links' /\ NewLink(e).event = i /\ NewLink(e).target = sync[e].target
      BY <1>0, <1>2 DEF UpsertedLinks, NewLink
    <2>2. Posting(e, i) /\ Written(e) = Targets(e)
      BY <1>0, <1>2 DEF Posting, Written
    <2>3. Targets(e) \subseteq Kept(i)'
      BY <1>0, <2>1 DEF Targets, Kept
    <2> QED
      BY <1>1, <2>2, <2>3 DEF NoneAdded, Accounted
  <1>3. CASE plan[e].row # i
    <2>1. \A l \in links : l.event = i => l \in links'
      BY <1>0, <1>3 DEF UpsertedLinks, LinksOf
    <2>2. Kept(i) \subseteq Kept(i)' /\ ~Posting(e, i)
      BY <1>0, <1>3, <2>1 DEF Kept, Posting
    <2> QED
      BY <1>1, <2>2 DEF NoneAdded, Accounted
  <1> QED
    BY <1>2, <1>3

LEMMA SyncFailsCounts ==
    ASSUME TypeInv, NEW e \in Emails, SyncFails(e), NEW i
    PROVE  OneReleased(e, i)
  <1>1. /\ UNCHANGED <<outlook, crashes, replaced>> /\ failures' = failures + 1
    BY DEF SyncFails, Fails, deaths, told
  <1>2. crashes \in Nat /\ failures \in Nat /\ replaced \in Nat
    BY EvidenceAssumption DEF TypeInv, TypeOK, DTypeOK, LocalTypes
  <1> QED
    BY <1>1, <1>2 DEF OneReleased, LiveEvents, Spare

\* The steps that only read, or that a reviewer or the end of the run takes.
LEMMA QuietCounts ==
    ASSUME TypeInv, NEW e \in Emails, NEW i,
           \/ SkipSync(e) \/ ReviewUndated(e) \/ LoadCandidate(e) \/ EventMissing(e)
           \/ Completes(e) \/ Reviewed(e),
           SyncStep(e), ~Request(e), ~SaveLink(e), UNCHANGED <<crashes, failures, replaced>>
    PROVE  NoneAdded(e, i)
  <1>0. at \in [Emails -> Stage] /\ UNCHANGED <<links, outlook>>
    BY OutlookRests, LinksRest DEF TypeInv, TypeOK, DTypeOK
  <1>1. answer'[e].to \in {"finishing", "persisted"} => answer'[e].to \notin {"creating", "saving"}
    OBVIOUS
  <1>2. at[e] \notin {"creating", "saving"} /\ at'[e] \notin {"creating", "saving"}
    BY <1>0, <1>1
    DEF SkipSync, ReviewUndated, LoadCandidate, EventMissing, Completes, Reviewed, Moves, Step, Goes
  <1>3. LiveEvents(i)' = LiveEvents(i) /\ Kept(i)' = Kept(i) /\ Spare' = Spare
    BY <1>0 DEF LiveEvents, Kept, Spare
  <1> QED
    BY <1>2, <1>3 DEF NoneAdded, Accounted, Posting

LEMMA SyncCounts ==
    ASSUME TypeInv, KeyedInv, ~overlapped, NEW e \in Emails, SyncStep(e), NEW i \in EventId
    PROVE  NoneAdded(e, i) \/ OneReleased(e, i)
  <1>1. CASE Request(e) \/ GetLink(e) \/ SaveLink(e) \/ SyncFails(e)
    BY <1>1, RequestCounts, GetLinkCounts, SaveLinkCounts, SyncFailsCounts
  <1>2. CASE ~Request(e) /\ ~GetLink(e) /\ ~SaveLink(e) /\ ~SyncFails(e)
    <2>1. \/ SkipSync(e) \/ ReviewUndated(e) \/ LoadCandidate(e) \/ EventMissing(e)
          \/ Completes(e) \/ Reviewed(e)
      BY <1>2, SyncShapes
    <2>2. UNCHANGED <<crashes, failures, replaced>>
      BY <1>2, SyncShapes
      DEF SyncStep, SkipSync, ReviewUndated, LoadCandidate, EventMissing, AnswerCalendar, Finish,
          calendar, bounds, told
    <2> QED
      BY <1>2, <2>1, <2>2, QuietCounts
  <1> QED
    BY <1>1, <1>2

LEMMA CountStep ==
    ASSUME TypeInv, TypeInv', KeyedInv, KeyedInv', CountInv, NEW e \in Emails,
           (Works(e) /\ UNCHANGED calendar) \/ SyncStep(e)
    PROVE  CountInv'
  <1> SUFFICES ASSUME ~overlapped', NEW i \in EventId PROVE LeftOver(i)'
    BY DEF CountInv
  <1>1. ~overlapped /\ \A f \in Emails \ {e} : ~Executing(f)
    BY Overlaps
  <1>2. \A f \in Emails \ {e} : ~Posting(f, i) /\ ~Posting(f, i)'
    BY <1>1, OthersRest DEF Same, Executing, Waiting, Posting
  <1>3. Cardinality(LiveEvents(i) \ Accounted(e, i)) <= Spare
    BY <1>1, <1>2 DEF CountInv, LeftOver, Accounted
  <1>4. /\ IsFiniteSet(LiveEvents(i)) /\ IsFiniteSet(LiveEvents(i) \ Accounted(e, i))
        /\ \A x, y \in Accounted(e, i) : x = y
        /\ Spare \in Nat
    BY FS_Subset, OneAccounted, SpareTypes DEF KeyedInv, LiveEvents, Accounted
  <1>5. LiveEvents(i) \subseteq (LiveEvents(i) \ Accounted(e, i)) \cup Accounted(e, i)
    OBVIOUS
  <1>6. Cardinality((LiveEvents(i) \ Accounted(e, i))') <= Spare'
    <2>1. CASE NoneAdded(e, i)
      BY <1>3, <1>4, <2>1, WithinOne DEF NoneAdded
    <2>2. CASE OneReleased(e, i)
      <3>1. (LiveEvents(i) \ Accounted(e, i))' \subseteq
                (LiveEvents(i) \ Accounted(e, i)) \cup Accounted(e, i)
        BY <1>5, <2>2 DEF OneReleased
      <3>2. Cardinality((LiveEvents(i) \ Accounted(e, i))') <= Spare + 1
        BY <1>3, <1>4, <3>1, WithinOne
      <3> QED
        BY <2>2, <3>2 DEF OneReleased
    <2> QED
      BY <1>1, <2>1, <2>2, WorksCount, SyncCounts
  <1> QED
    BY <1>2, <1>6 DEF LeftOver, Accounted

\* A user deletes an event.
LEMMA DeletedCounts ==
    ASSUME TypeInv, KeyedInv, CountInv, NEW x \in outlook, UserDeletes(x)
    PROVE  KeyedInv' /\ CountInv'
  <1>1. /\ UNCHANGED <<at, plan, overlapped, links, sync, crashes, failures, replaced>>
        /\ outlook' = outlook \ {x}
    BY DEF UserDeletes, dvars, deaths, history, told
  <1>2. IsFiniteSet(outlook')
    BY <1>1, FS_Subset DEF KeyedInv
  <1>3. ASSUME NEW i \in EventId, ~overlapped PROVE LeftOver(i)'
    <2>1. IsFiniteSet(LiveEvents(i)) /\ LiveEvents(i)' = LiveEvents(i) \ {x} /\ Spare' = Spare
      BY <1>1, FS_Subset DEF KeyedInv, LiveEvents, Spare
    <2>2. /\ Kept(i)' = Kept(i) \ {x}
          /\ \A e \in Emails : Posting(e, i)' = Posting(e, i) /\ Written(e)' = Written(e) \ {x}
      BY <1>1 DEF Kept, Written, Targets, SameTransaction, Posting
    <2>3. ASSUME NEW O, Cardinality(LiveEvents(i) \ O) <= Spare
          PROVE  Cardinality((LiveEvents(i) \ {x}) \ (O \ {x})) <= Spare
      <3>1. IsFiniteSet(LiveEvents(i) \ O)
        BY <2>1, FS_Subset
      <3>2. (LiveEvents(i) \ {x}) \ (O \ {x}) \subseteq LiveEvents(i) \ O
        OBVIOUS
      <3>3. \A y, z \in {} : y = z
        OBVIOUS
      <3> QED
        BY <2>3, <3>1, <3>2, <3>3, SpareTypes, WithinOne
    <2> QED
      BY <1>3, <2>1, <2>2, <2>3 DEF CountInv, LeftOver
  <1> QED
    BY <1>1, <1>2, <1>3 DEF KeyedInv, CountInv

LEMMA CountInvStep ==
    TypeInv /\ TypeInv' /\ KeyedInv /\ CountInv /\ [Next]_vars => KeyedInv' /\ CountInv'
  <1> SUFFICES ASSUME TypeInv, TypeInv', KeyedInv, CountInv, [Next]_vars
               PROVE  KeyedInv' /\ CountInv'
    OBVIOUS
  <1>1. CASE UNCHANGED vars
    <2>1. UNCHANGED <<at, plan, overlapped, links, outlook, sync, crashes, failures, replaced>>
      BY <1>1 DEF vars, dvars, deaths, history, calendar, bounds, told
    <2>2. KeyedInv'
      BY <2>1 DEF KeyedInv
    <2>3. \A i : /\ LiveEvents(i)' = LiveEvents(i) /\ Kept(i)' = Kept(i)
                 /\ \A e : Posting(e, i)' = Posting(e, i)
      BY <2>1 DEF LiveEvents, Kept, Posting
    <2>4. Spare' = Spare /\ \A e : Written(e)' = Written(e)
      BY <2>1 DEF Spare, Written, SameTransaction, Targets
    <2> QED
      BY <2>1, <2>2, <2>3, <2>4 DEF CountInv, LeftOver
  <1> QED
    BY <1>1, Steps, KeyedStep, CountStep, DeletedCounts

\* As long as emails are processed one at a time and no dead pass is overtaken, an event has at
\* most one live Outlook event, one more for every pass that died or gave up, and one for every
\* replacement of an event that had been replaced already.
THEOREM DuplicatesAreBounded == Spec => []BoundedDuplicates
  <1>1. Init => TypeInv /\ KeyedInv /\ CountInv
    BY InitTypeInv, InitCountInv
  <1>2. TypeInv /\ KeyedInv /\ CountInv /\ [Next]_vars => (TypeInv /\ KeyedInv /\ CountInv)'
    BY TypeInvStep, CountInvStep
  <1>3. TypeInv /\ KeyedInv /\ CountInv => BoundedDuplicates
    <2> SUFFICES ASSUME TypeInv, KeyedInv, CountInv, ~overlapped, NEW v \in events
                 PROVE  Cardinality(LiveEvents(v.id)) <= 1 + crashes + failures + replaced
      BY DEF BoundedDuplicates
    <2> DEFINE i == v.id
    <2>1. i \in EventId
      BY DEF TypeInv, TypeOK, DTypeOK, Event
    <2>2. PICK O : /\ \A x, y \in O : x = y
                   /\ Cardinality(LiveEvents(i) \ O) <= Spare
      <3>1. CASE \E e \in Emails : Posting(e, i)
        <4>1. PICK e \in Emails : Posting(e, i)
          BY <3>1
        <4>2. Cardinality(LiveEvents(i) \ Written(e)) <= Spare
          BY <2>1, <4>1 DEF CountInv, LeftOver
        <4> QED
          BY <4>2, OneAccounted
      <3>2. CASE \A e \in Emails : ~Posting(e, i)
        <4>1. Cardinality(LiveEvents(i) \ Kept(i)) <= Spare
          BY <2>1, <3>2 DEF CountInv, LeftOver
        <4> QED
          BY <4>1, OneAccounted
      <3> QED
        BY <3>1, <3>2
    <2>3. IsFiniteSet(LiveEvents(i) \ O) /\ LiveEvents(i) \subseteq (LiveEvents(i) \ O) \cup O
      BY FS_Subset DEF KeyedInv, LiveEvents
    <2>4. Spare \in Nat /\ Cardinality(LiveEvents(i)) <= Spare + 1
      BY <2>2, <2>3, SpareTypes, WithinOne
    <2>5. crashes \in Nat /\ failures \in Nat /\ replaced \in Nat
      BY EvidenceAssumption DEF TypeInv, TypeOK, DTypeOK, LocalTypes
    <2> QED
      BY <2>4, <2>5 DEF Spare
  <1> QED
    BY <1>1, <1>2, <1>3, PTL DEF Spec

-----------------------------------------------------------------------------
(* Agreement of the calendar with the events.                               *)

Calm == ~overlapped /\ ~reread /\ ~misled /\ deletes = 0

Shown(l, v) == \E x \in outlook : x.id = l.target /\ x.draft.time = v.fingerprint.time

\* The pass of e, or its next one, will come to sync v with its calendar.
Owes(e, v) ==
    /\ Where(e) \notin {"done", "idle", "finishing", "reviewing calendar"}
    /\ linked[e] = v.app /\ Fingerprint(evidence[e]) = v.fingerprint
    /\ Where(e) \in {"persisted"} \cup Syncing => plan[e].row = v.id

\* What is planned to change nothing is known as it is.
Found(e) ==
    plan[e].kind = "none" =>
        IF Tracked(evidence[e])
        THEN \E v \in EventsOf(plan[e].app) :
                v.id = plan[e].event /\ v.fingerprint = Fingerprint(evidence[e])
        ELSE plan[e].event = None

PlanKnown(e) == Repeatable(e) => Stale(e) \/ Found(e)

\* A pass alone knows what its event is, and what is in the calendar.
PassKnows(e) ==
    /\ answer[e].to # "persisted"
    /\ at[e] = "reviewing calendar" => sync[e] = NoSync
    /\ at[e] \in Syncing => \A v \in EventOf(e) : sync[e].draft.time = v.fingerprint.time
    /\ at[e] = "creating" => LinksOf(e) = {}
    /\ at[e] = "updating" => Targets(e) # {}
    /\ at[e] = "saving" => \E x \in Targets(e) : x.draft.time = sync[e].draft.time

LinksLive == \A l \in links : \E x \in outlook : x.id = l.target

\* What is not linked yet was not changed since it was created.
Unpatched ==
    \A x \in outlook :
        (\A l \in links : l.event # x.id.transaction.event) => x.draft = x.id.transaction.draft

ShownOrOwed ==
    \A l \in links, v \in events : l.event = v.id => Shown(l, v) \/ \E e \in Emails : Owes(e, v)

Agreement ==
    /\ LinksLive /\ Unpatched /\ ShownOrOwed
    /\ \A e \in Emails : PassKnows(e) /\ PlanKnown(e)

AgreeInv == Calm => Agreement

LEMMA InitAgreeInv == Init => AgreeInv
  <1> SUFFICES ASSUME Init PROVE AgreeInv
    OBVIOUS
  <1>1. links = {} /\ outlook = {} /\ events = {}
        /\ (\A e \in Emails : at[e] \in {"done", "idle"} /\ answer[e] = NoAnswer)
    BY DEF Init, DInit
  <1>2. \A e \in Emails : PassKnows(e) /\ PlanKnown(e)
    BY <1>1, NoAnswerGiven DEF PassKnows, PlanKnown, Repeatable, Where, Syncing
  <1>3. LinksLive /\ Unpatched /\ ShownOrOwed
    BY <1>1 DEF LinksLive, Unpatched, ShownOrOwed
  <1> QED
    BY <1>2, <1>3 DEF AgreeInv, Agreement

\* What was calm before a step that stays calm.
LEMMA CalmBefore ==
    ASSUME TypeInv, NEW e \in Emails, (Works(e) /\ UNCHANGED calendar) \/ SyncStep(e), Calm'
    PROVE  Calm /\ \A f \in Emails \ {e} : ~Executing(f) /\ ~Executing(f)'
  <1>1. ~overlapped /\ \A f \in Emails \ {e} : ~Executing(f)
    BY Overlaps DEF Calm
  <1>2. \A f \in Emails \ {e} : ~Executing(f)'
    BY <1>1, OthersRest DEF Same, Executing
  <1>3. reread => reread'
    <2>1. CASE Works(e)
      BY <2>1, Shapes
      DEF Starts, Resumes, Stops, ResolvesApplication, ResolvesEvent, IsAnswered, Reads, Writes
    <2>2. CASE SyncStep(e)
      BY <2>2, SyncShapes
    <2> QED
      BY <2>1, <2>2
  <1>4. (misled => misled') /\ deletes' = deletes
    <2>1. CASE Works(e) /\ UNCHANGED calendar
      BY <2>1 DEF calendar, bounds, told
    <2>2. CASE GetLink(e)
      <3>1. misled' = misled \/ \E y : misled' = (misled \/ y)
        BY <2>2 DEF GetLink, told
      <3>2. deletes' = deletes
        BY <2>2 DEF GetLink, bounds
      <3>3. misled => misled'
        BY <3>1
      <3> QED
        BY <3>2, <3>3
    <2>3. CASE Request(e)
      BY <2>3, Requests DEF told
    <2>4. CASE SyncStep(e) /\ ~GetLink(e) /\ ~Request(e)
      <3>1. misled' = misled
        BY <2>4
        DEF SyncStep, SkipSync, ReviewUndated, LoadCandidate, EventMissing, SyncFails, SaveLink,
            AnswerCalendar, Finish, calendar, told
      <3>2. deletes' = deletes
        BY <2>4
        DEF SyncStep, SkipSync, ReviewUndated, LoadCandidate, EventMissing, SyncFails, SaveLink,
            AnswerCalendar, Finish, calendar, bounds
      <3> QED
        BY <3>1, <3>2
    <2> QED
      BY <2>1, <2>2, <2>3, <2>4
  <1> QED
    BY <1>1, <1>2, <1>3, <1>4 DEF Calm

\* What the others know of the calendar is little, and theirs.
LEMMA OthersKnow ==
    ASSUME TypeInv, NEW e \in Emails, (Works(e) /\ UNCHANGED calendar) \/ SyncStep(e), Calm',
           NEW f \in Emails, f # e, PassKnows(f), PlanKnown(f)
    PROVE  PassKnows(f)' /\ PlanKnown(f)'
  <1>1. Same(f) /\ ~Executing(f) /\ ~Executing(f)'
    BY OthersRest, CalmBefore
  <1>2. at'[f] \notin Syncing
    BY <1>1 DEF Executing, Waiting, Syncing
  <1>3. PassKnows(f)'
    BY <1>1, <1>2 DEF PassKnows, Same, Syncing
  <1>4. PlanKnown(f)'
    <2>1. CASE Writes(e)
      BY <1>1, <2>1, OthersOvertaken DEF PlanKnown, Same, Repeatable, Where
    <2>2. CASE events' = events
      BY <1>1, <2>2 DEF PlanKnown, Same, Repeatable, Where, Found, Stale, EventsOf
    <2> QED
      BY <2>1, <2>2, Shapes, SyncShapes
      DEF Starts, Resumes, Stops, ResolvesApplication, ResolvesEvent, IsAnswered, Reads, Stays
  <1> QED
    BY <1>3, <1>4

LEMMA OthersOwe ==
    ASSUME TypeInv, NEW e \in Emails, (Works(e) /\ UNCHANGED calendar) \/ SyncStep(e),
           NEW f \in Emails, f # e, NEW v, Owes(f, v)
    PROVE  Owes(f, v)'
  <1>1. Same(f)
    BY OthersRest
  <1> QED
    BY <1>1 DEF Owes, Same, Where

\* What a pass that works on its email knows of the calendar ...
LEMMA WorksKnow ==
    ASSUME TypeInv, NEW e \in Emails, Works(e), UNCHANGED calendar, PassKnows(e)
    PROVE  PassKnows(e)'
  <1>0. /\ answer[e].to \in Goals /\ answer[e].to # "persisted"
        /\ saved[e] \in Nodes \cup {"none"}
    BY DEF TypeInv, LocalTypes, TypeOK, DTypeOK, Answers, PassKnows
  <1>1. ASSUME at'[e] \notin {"reviewing calendar"} \cup Syncing, answer'[e].to # "persisted"
        PROVE  PassKnows(e)'
    BY <1>1 DEF PassKnows, Syncing
  <1>2. at'[e] \notin {"reviewing calendar"} \cup Syncing
    BY <1>0, Shapes
    DEF Starts, Resumes, Stops, ResolvesApplication, ResolvesEvent, IsAnswered, Reads, Writes,
        Syncing, Nodes
  <1>3. answer'[e].to # "persisted"
    BY <1>0, Shapes, NoAnswerGiven
    DEF Starts, Resumes, Stops, ResolvesApplication, ResolvesEvent, IsAnswered, Reads, Writes, Stays
  <1> QED
    BY <1>1, <1>2, <1>3

\* ... and of the event it has resolved.
LEMMA PlanKnows ==
    ASSUME TypeInv, NEW e \in Emails, (Works(e) /\ UNCHANGED calendar) \/ SyncStep(e),
           ~overlapped', PlanKnown(e)
    PROVE  PlanKnown(e)'
  <1>0. plan[e] \in Plans
    BY DEF TypeInv, LocalTypes
  <1> SUFFICES ASSUME Repeatable(e)' PROVE Found(e)'
    BY DEF PlanKnown
  <1>1. CASE Repeatable(e) /\ KeepsPlan(e)
    <2>1. Found(e)
      BY <1>1, ResumesFresh DEF PlanKnown
    <2>2. CASE Writes(e)
      <3>1. plan[e].kind = "none" => events' = events
        BY <2>2, WrittenTo DEF Finds, Inserts, Updates
      <3> QED
        BY <1>1, <2>1, <3>1 DEF KeepsPlan, Found, EventsOf
    <2>3. CASE events' = events
      BY <1>1, <2>1, <2>3 DEF KeepsPlan, Found, EventsOf
    <2> QED
      BY <2>2, <2>3, Shapes, SyncShapes
      DEF Starts, Resumes, Stops, ResolvesApplication, ResolvesEvent, IsAnswered, Reads, Stays
  <1>2. CASE ResolvesEvent(e)
    <2>1. at'[e] = "persisting"
      BY <1>2 DEF ResolvesEvent, Repeatable, Where, Syncing
    <2>2. PICK p \in EventPlans(e) : PlannedAs(e, p)
      BY <1>2, <2>1 DEF ResolvesEvent
    <2>3. plan'[e].app = plan[e].app /\ plan'[e].kind = p.kind /\ plan'[e].event = p.event
      BY <1>0, <2>2, PlannedFields
    <2>4. p.kind = "none" => IF Tracked(evidence[e]) THEN IsKnown(e, p) ELSE p.event = None
      BY EventDecisions DEF IsNothing, IsKnown, IsNew, Is
    <2>5. evidence'[e] = evidence[e] /\ events' = events
      BY <1>2 DEF ResolvesEvent, Stays
    <2> QED
      BY <2>3, <2>4, <2>5 DEF Found, IsKnown, Duplicates, EventsOf
  <1> QED
    BY <1>1, <1>2, Turns

\* A pass that is repeated, resumed or goes on owes what it owed.
LEMMA WorksOwe ==
    ASSUME TypeInv, NEW e \in Emails, Works(e), UNCHANGED calendar, ~Writes(e), ~reread',
           NEW v, Owes(e, v)
    PROVE  Owes(e, v)'
  <1>0. /\ saved[e] \in Nodes \cup {"none"} /\ at[e] \in Stage
        /\ (at[e] = "crashed" => saved[e] \in Nodes)
    BY DEF TypeInv, TypeOK, DTypeOK, PassInv
  <1>1. ASSUME linked' = linked, evidence'[e] = evidence[e],
               Where(e)' \notin {"done", "idle", "finishing", "reviewing calendar", "persisted"}
                                   \cup Syncing
        PROVE  Owes(e, v)'
    BY <1>1 DEF Owes
  <1>2. CASE Starts(e)
    <2>1. at[e] # "idle"
      BY DEF Owes, Where
    <2>2. evidence'[e] = evidence[e] /\ linked' = linked /\ at'[e] = "resolving application"
      BY <1>2, <2>1 DEF Starts
    <2> QED
      BY <1>1, <2>2 DEF Where, Syncing
  <1>3. CASE Resumes(e)
    <2>1. /\ Where(e)' = Where(e) /\ plan'[e].row = plan[e].row
          /\ linked' = linked /\ evidence'[e] = evidence[e]
      BY <1>0, <1>3 DEF Resumes, Where, Nodes
    <2> QED
      BY <2>1 DEF Owes
  <1>4. CASE Stops(e)
    <2>1. linked' = linked /\ evidence'[e] = evidence[e] /\ plan'[e] = plan[e] /\ at[e] # "crashed"
      BY <1>4 DEF Stops
    <2>2. CASE at'[e] = "crashed"
      <3>1. Executing(e) /\ saved'[e] \in Checkpoints(e)
        BY <2>1, <2>2, Saves
      <3>2. /\ saved'[e] \in {"persisted"} \cup Syncing => at[e] \in {"persisted", "finishing"} \cup Syncing
            /\ saved'[e] \in {"done", "idle", "finishing", "reviewing calendar"} => at[e] = "finishing"
        BY <1>0, <3>1 DEF Checkpoints, Before, Node, Executing, Waiting, Stage, Syncing, Nodes
      <3> QED
        BY <2>1, <2>2, <3>2 DEF Owes, Where
    <2>3. CASE at'[e] # "crashed"
      BY <1>1, <1>4, <2>1, <2>3 DEF Stops, Where, Syncing
    <2> QED
      BY <2>2, <2>3
  <1>5. CASE IsAnswered(e)
    BY <1>1, <1>5 DEF IsAnswered, Where, Syncing
  <1>6. CASE ResolvesApplication(e) \/ ResolvesEvent(e) \/ Reads(e)
    BY <1>1, <1>6 DEF ResolvesApplication, ResolvesEvent, Reads, Stays, Where, Syncing
  <1> QED
    BY <1>2, <1>3, <1>4, <1>5, <1>6, Shapes

\* The rows a commit leaves: what was known as it is, is it; what is changed is owed.
LEMMA CommitOwes ==
    ASSUME TypeInv, RowsInv, NEW e \in Emails, Works(e), Writes(e), UNCHANGED calendar,
           PlanInv(e), OwnRows, PlanKnown(e), ShownOrOwed
    PROVE  ShownOrOwed'
  <1>0. /\ plan \in [Emails -> Plans] /\ linked \in [Emails -> Emails \cup {None}]
        /\ at'[e] = "persisted" /\ answer'[e] = answer[e] /\ evidence'[e] = evidence[e]
        /\ links' = links /\ outlook' = outlook /\ Found(e)
        /\ Repeatable(e) /\ Planning(e)
    BY WrittenTo DEF TypeInv, LocalTypes, TypeOK, DTypeOK, Writes, calendar, PlanKnown, Stale
  <1>1. PICK a \in Emails, c \in ApplicationStatus :
           /\ Commit(e, a, c)
           /\ \/ at[e] = "persisting" /\ linked[e] = None
              \/ at[e] = "writing" /\ a = linked[e]
    BY DEF Writes
  <1>2. linked'[e] = a
    BY <1>0, <1>1 DEF Commit
  <1>3. SUFFICES ASSUME NEW l \in links, NEW v \in events', l.event = v.id, ~Shown(l, v)
                 PROVE  \E f \in Emails : Owes(f, v)'
    BY <1>0 DEF ShownOrOwed, Shown
  <1>4. ASSUME v.app = a, v.fingerprint = Fingerprint(evidence[e]), v.id = plan'[e].row
        PROVE  Owes(e, v)'
    BY <1>0, <1>2, <1>4 DEF Owes, Where
  <1>5. PICK w \in events : w.id = l.event /\ Eligible(w)
    BY DEF RowsInv, Calendared
  <1>6. ASSUME v \in events, NEW f \in Emails, Owes(f, v), f # e PROVE Owes(f, v)'
    <2>1. Works(e) /\ UNCHANGED calendar
      OBVIOUS
    <2> QED
      BY <1>6, <2>1, OthersOwe
  <1>7. ASSUME v \in events, Owes(e, v)
        PROVE  a = v.app /\ v.fingerprint = Fingerprint(evidence[e]) /\ linked[e] = a
    <2>1. v.app \in Emails /\ None \notin Emails
      BY <1>7, EvidenceAssumption DEF TypeInv, TypeOK, DTypeOK, Event
    <2> QED
      BY <1>1, <1>7, <2>1 DEF Owes
  <1>8. ASSUME v \in events, Owes(e, v) => plan'[e].row = v.id
        PROVE  \E f \in Emails : Owes(f, v)'
    <2>1. PICK f \in Emails : Owes(f, v)
      BY <1>3, <1>8 DEF ShownOrOwed
    <2>2. CASE f = e
      BY <1>4, <1>7, <1>8, <2>1, <2>2
    <2>3. CASE f # e
      BY <1>6, <1>8, <2>1, <2>3
    <2> QED
      BY <2>2, <2>3
  <1>9. CASE Finds(e, a)
    <2>1. v \in events
      BY <1>9 DEF Finds
    <2>2. ASSUME Owes(e, v) PROVE plan'[e].row = v.id
      <3>1. a = v.app /\ v.fingerprint = Fingerprint(evidence[e]) /\ linked[e] = a
        BY <1>7, <2>1, <2>2
      <3>2. \A x \in EventsOf(a) : x.fingerprint = Fingerprint(evidence[e]) => x = v
        BY <2>1, <3>1 DEF RowsInv, EventsOf
      <3>3. CASE plan[e].kind = "none" /\ plan'[e].row = plan[e].event
        <4>1. Tracked(evidence[e])
          <5>1. w = v
            BY <1>3, <1>5, <2>1 DEF RowsInv
          <5>2. v.fingerprint.type # "general_update"
            BY <1>5, <5>1 DEF Eligible
          <5> QED
            BY <3>1, <5>2 DEF Fingerprint, Tracked, TrackedType
        <4>2. a \in Emails /\ None \notin Emails /\ linked[e] # None
          BY <3>1, EvidenceAssumption
        <4>3. PICK x \in EventsOf(plan[e].app) :
                 x.id = plan[e].event /\ x.fingerprint = Fingerprint(evidence[e])
          BY <1>0, <3>3, <4>1 DEF Found
        <4>4. plan[e].app = a
          <5>1. CASE plan[e].create
            <6>1. plan[e].app = e /\ x \in events /\ x.app = e
              BY <1>0, <5>1 DEF PlanInv, EventsOf
            <6>2. linked[e] = e
              BY <6>1 DEF OwnRows, TypeInv, TypeOK, DTypeOK
            <6> QED
              BY <3>1, <6>1, <6>2
          <5>2. CASE ~plan[e].create
            BY <1>0, <3>1, <4>2, <5>2 DEF PlanInv
          <5> QED
            BY <5>1, <5>2
        <4> QED
          BY <3>2, <3>3, <4>3, <4>4
      <3>4. CASE \E x \in Alike(e, a) : plan'[e].row = x.id
        BY <3>2, <3>4 DEF Alike
      <3> QED
        BY <1>9, <3>3, <3>4 DEF Finds
    <2> QED
      BY <1>8, <2>1, <2>2
  <1>10. CASE Inserts(e, a)
    <2>1. v # RowOf(e, a)
      <3>1. w.id # plan[e].event
        BY <1>10 DEF Inserts
      <3> QED
        BY <1>3, <1>5, <3>1 DEF RowOf
    <2>2. v \in events
      BY <1>10, <2>1 DEF Inserts
    <2>3. ~Owes(e, v)
      BY <1>7, <1>10, <2>2 DEF Inserts, Alike, EventsOf
    <2> QED
      BY <1>8, <2>2, <2>3
  <1>11. CASE Updates(e, a)
    <2>1. PICK x \in Interviews(a) :
             /\ x.id = plan[e].event /\ Alike(e, a) \subseteq {x}
             /\ events' = (events \ {x}) \cup {RowOf(e, a)}
             /\ plan'[e].row = plan[e].event
      BY <1>11 DEF Updates
    <2>2. CASE v = RowOf(e, a)
      <3>1. v.app = a /\ v.fingerprint = Fingerprint(evidence[e]) /\ v.id = plan'[e].row
        BY <2>1, <2>2 DEF RowOf
      <3> QED
        BY <1>4, <3>1
    <2>3. CASE v # RowOf(e, a)
      <3>1. v \in events /\ v # x
        BY <2>1, <2>3
      <3>2. ~Owes(e, v)
        BY <1>7, <2>1, <3>1 DEF Alike, EventsOf
      <3> QED
        BY <1>8, <3>1, <3>2
    <2> QED
      BY <2>2, <2>3
  <1> QED
    BY <1>0, <1>1, <1>9, <1>10, <1>11, Commits

\* What a pass that syncs its event knows.
LEMMA SyncKnow ==
    ASSUME TypeInv, RowsInv, NEW e \in Emails, SyncStep(e), LinksLive, Unpatched, PassKnows(e)
    PROVE  PassKnows(e)'
  <1>0. /\ at \in [Emails -> Stage] /\ sync \in [Emails -> Syncs] /\ plan \in [Emails -> Plans]
        /\ answer[e].to # "persisted" /\ events' = events
    BY SyncShapes DEF TypeInv, LocalTypes, TypeOK, DTypeOK, PassKnows
  <1>1. ASSUME at'[e] \notin {"reviewing calendar"} \cup Syncing, answer'[e].to # "persisted"
        PROVE  PassKnows(e)'
    BY <1>1 DEF PassKnows, Syncing
  <1>2. ASSUME Advances(e)
        PROVE  /\ answer'[e].to # "persisted" /\ plan'[e] = plan[e]
               /\ EventOf(e)' = EventOf(e) /\ (links' = links => LinksOf(e)' = LinksOf(e))
    BY <1>0, <1>2 DEF Advances, EventOf, LinksOf
  <1>3. CASE Completes(e)
    <2>1. answer'[e].to # "persisted"
      BY <1>3, NoAnswerGiven DEF Completes
    <2> QED
      BY <1>1, <1>3, <2>1 DEF Completes, Syncing
  <1>4. CASE Reviewed(e)
    <2>1. answer'[e].to = "finishing"
      BY <1>4 DEF Reviewed, PassKnows
    <2> QED
      BY <1>1, <1>4, <2>1 DEF Reviewed, Syncing
  <1>5. CASE Advances(e) /\ (SkipSync(e) \/ SaveLink(e) \/ SyncFails(e))
    <2>1. at'[e] \in {"finishing", "failed"}
      BY <1>0, <1>5 DEF SkipSync, SaveLink, SyncFails, Fails, Moves, Step, Goes
    <2> QED
      BY <1>1, <1>2, <1>5, <2>1 DEF Syncing
  <1>6. CASE Advances(e) /\ ReviewUndated(e)
    <2>1. at'[e] = "reviewing calendar" /\ sync'[e] = NoSync
      BY <1>0, <1>6 DEF ReviewUndated, Moves, Step, Goes
    <2> QED
      BY <1>2, <1>6, <2>1 DEF PassKnows, Syncing
  <1>7. CASE Advances(e) /\ LoadCandidate(e)
    <2>1. PICK v \in EventOf(e) :
             sync' = [sync EXCEPT ![e].draft = [time |-> v.fingerprint.time, email |-> e]]
      BY <1>7 DEF LoadCandidate
    <2>2. sync'[e].draft.time = v.fingerprint.time
      <3>1. sync'[e].draft = [time |-> v.fingerprint.time, email |-> e]
        BY <1>0, <2>1 DEF Syncs
      <3> QED
        BY <3>1
    <2>3. \A w \in EventOf(e) : w = v
      BY <2>1 DEF RowsInv, EventOf
    <2>4. at'[e] = "linking"
      BY <1>0, <1>7 DEF LoadCandidate, Moves, Step, Goes
    <2> QED
      BY <1>2, <1>7, <2>2, <2>3, <2>4 DEF PassKnows
  <1>8. CASE Advances(e) /\ GetLink(e)
    <2>1. /\ at[e] = "linking" /\ ~Replacing(e) /\ links' = links /\ outlook' = outlook
      BY <1>0, <1>8 DEF GetLink, Moves, Step, Goes, Replacing
    <2>2. \A v \in EventOf(e) : sync[e].draft.time = v.fingerprint.time
      BY <2>1 DEF PassKnows, Syncing
    <2>3. CASE Moves(e, "linking", "creating") /\ LinksOf(e) = {} /\ sync' = sync
      <3>1. at'[e] = "creating"
        BY <1>0, <2>3 DEF Moves, Step, Goes
      <3> QED
        BY <1>2, <1>8, <2>1, <2>2, <2>3, <3>1 DEF PassKnows
    <2>4. CASE /\ Moves(e, "linking", "updating")
               /\ \E l \in LinksOf(e) : sync' = [sync EXCEPT ![e].target = l.target]
      <3>1. PICK l \in LinksOf(e) : sync' = [sync EXCEPT ![e].target = l.target]
        BY <2>4
      <3>2. sync'[e].target = l.target /\ sync'[e].draft = sync[e].draft
        BY <1>0, <3>1 DEF Syncs
      <3>3. at'[e] = "updating"
        BY <1>0, <2>4 DEF Moves, Step, Goes
      <3>4. Targets(e)' # {}
        BY <2>1, <3>1, <3>2 DEF LinksLive, LinksOf, Targets
      <3> QED
        BY <1>2, <1>8, <2>1, <2>2, <3>2, <3>3, <3>4 DEF PassKnows
    <2>5. CASE Moves(e, "linking", "finishing")
      <3>1. at'[e] = "finishing"
        BY <1>0, <2>5 DEF Moves, Step, Goes
      <3> QED
        BY <1>1, <1>2, <1>8, <3>1 DEF Syncing
    <2> QED
      BY <1>8, <2>1, <2>3, <2>4, <2>5 DEF GetLink
  <1>9. CASE Advances(e) /\ Request(e) /\ Posts(e)
    <2>1. PICK x \in outlook' :
             /\ \/ x \in SameTransaction(e)
                \/ x = NewOutlookEvent(e)
             /\ at'[e] = "creating" \/ (at'[e] = "saving" /\ sync'[e].target = x.id)
      BY <1>9 DEF Posts
    <2>2. /\ at[e] = "creating" /\ sync'[e].draft = sync[e].draft
          /\ links' = links /\ LinksOf(e) = {}
          /\ \A v \in EventOf(e) : sync[e].draft.time = v.fingerprint.time
      BY <1>9, Requests DEF Posts, PassKnows, Syncing
    <2>3. x.draft = sync[e].draft
      <3>1. CASE x \in SameTransaction(e)
        <4>1. x \in outlook /\ x.id.transaction = [event |-> plan[e].row, draft |-> sync[e].draft]
          BY <3>1 DEF SameTransaction
        <4>2. x.id.transaction.event = plan[e].row /\ x.id.transaction.draft = sync[e].draft
          BY <4>1
        <4>3. \A l \in links : l.event # x.id.transaction.event
          BY <2>2, <4>2 DEF LinksOf
        <4> QED
          BY <4>1, <4>2, <4>3 DEF Unpatched
      <3>2. CASE x = NewOutlookEvent(e)
        BY <3>2 DEF NewOutlookEvent
      <3> QED
        BY <2>1, <3>1, <3>2
    <2>4. at'[e] = "saving" => x \in Targets(e)'
      BY <2>1 DEF Targets
    <2> QED
      BY <1>2, <1>9, <2>1, <2>2, <2>3, <2>4 DEF PassKnows
  <1>10. CASE Advances(e) /\ Request(e) /\ Patches(e)
    <2>1. PICK x \in Targets(e), y \in outlook' : y.id = x.id /\ y.draft = sync[e].draft
      BY <1>10 DEF Patches
    <2>2. /\ at[e] = "updating" /\ at'[e] \in {"updating", "saving"} /\ sync'[e] = sync[e]
          /\ \A v \in EventOf(e) : sync[e].draft.time = v.fingerprint.time
      BY <1>10 DEF Patches, PassKnows, Syncing
    <2>3. y \in Targets(e)'
      BY <2>1, <2>2 DEF Targets
    <2> QED
      BY <1>2, <1>10, <2>1, <2>2, <2>3 DEF PassKnows
  <1>11. ~EventMissing(e)
    BY DEF EventMissing, Moves, Step, PassKnows, Targets
  <1> QED
    BY <1>3, <1>4, <1>5, <1>6, <1>7, <1>8, <1>9, <1>10, <1>11, SyncShapes, Requests

\* Links refer to events that live, and what is not linked was not changed.
LEMMA SyncLinksLive ==
    ASSUME TypeInv, KeyedInv, ~overlapped, NEW e \in Emails, SyncStep(e),
           LinksLive, Unpatched, PassKnows(e)
    PROVE  LinksLive' /\ Unpatched'
  <1>1. CASE Request(e) /\ Posts(e)
    <2>1. PICK x \in outlook' : \/ outlook' = outlook
                                \/ x = NewOutlookEvent(e) /\ outlook' = outlook \cup {x}
      BY <1>1 DEF Posts
    <2>2. links' = links
      BY <1>1, Requests
    <2>3. NewOutlookEvent(e).draft = NewOutlookEvent(e).id.transaction.draft
      BY DEF NewOutlookEvent
    <2> QED
      BY <2>1, <2>2, <2>3 DEF LinksLive, Unpatched
  <1>2. CASE Request(e) /\ Patches(e)
    <2>1. PICK x \in Targets(e), y \in outlook' :
             y.id = x.id /\ outlook' = (outlook \ {x}) \cup {y}
      BY <1>2 DEF Patches
    <2>2. links' = links /\ x \in outlook /\ x.id = sync[e].target
      BY <1>2, Requests DEF Targets
    <2>3. PICK l \in links : l.event = plan[e].row /\ l.target = sync[e].target
      BY <1>2 DEF KeyedInv, Patches
    <2>4. l.event = y.id.transaction.event
      BY <2>1, <2>2, <2>3 DEF TypeInv
    <2> QED
      BY <2>1, <2>2, <2>4 DEF LinksLive, Unpatched
  <1>3. CASE SaveLink(e)
    <2>1. /\ links' = UpsertedLinks(e) /\ outlook' = outlook /\ at[e] = "saving"
      BY <1>3 DEF SaveLink, Moves, Step
    <2>2. NewLink(e).target = sync[e].target /\ NewLink(e).event = plan[e].row
      BY DEF NewLink
    <2>3. \E x \in outlook : x.id = sync[e].target
      BY <2>1 DEF PassKnows, Targets
    <2>4. \A l \in links : \E m \in links' : m.event = l.event
      BY <2>1, <2>2 DEF UpsertedLinks, LinksOf
    <2> QED
      BY <2>1, <2>2, <2>3, <2>4 DEF LinksLive, Unpatched, UpsertedLinks
  <1>4. CASE ~Request(e) /\ ~SaveLink(e)
    BY <1>4, OutlookRests, LinksRest DEF LinksLive, Unpatched
  <1> QED
    BY <1>1, <1>2, <1>3, <1>4, Requests

\* An event that was shown is, and a pass stops owing one only when it is shown.
LEMMA SyncShows ==
    ASSUME TypeInv, RowsInv, KeyedInv, NEW e \in Emails, SyncStep(e), ~misled', ~overlapped,
           LinksLive, PassKnows(e), ShownOrOwed
    PROVE  ShownOrOwed'
  <1>0. /\ at \in [Emails -> Stage] /\ events' = events /\ linked' = linked
        /\ (Works(e) /\ UNCHANGED calendar) \/ SyncStep(e)
    BY SyncShapes DEF TypeInv, TypeOK, DTypeOK
  <1>1. ASSUME NEW l, NEW v \in events, \E f \in Emails : Owes(f, v), ~Owes(e, v)
        PROVE  \E f \in Emails : Owes(f, v)'
    BY <1>0, <1>1, OthersOwe
  <1>2. ASSUME NEW v \in events, Owes(e, v), Advances(e),
               at'[e] \in {"persisted", "failed"} \cup Syncing
        PROVE  Owes(e, v)'
    BY <1>0, <1>2 DEF Owes, Advances, Where, Syncing
  <1>3. ASSUME NEW v \in events, Owes(e, v), Advances(e) PROVE plan[e].row = v.id /\ v \in EventOf(e)
    BY <1>3 DEF Owes, Advances, EventOf, Where, Syncing
  <1>4. ASSUME NEW l \in links, NEW v \in events, l.event = v.id, v \in EventOf(e)
        PROVE  \A w \in EventOf(e) : Eligible(w) /\ ~Undated(w)
    <2>1. PICK w \in events : w.id = l.event /\ Eligible(w) /\ ~Undated(w)
      BY DEF RowsInv, Calendared
    <2> QED
      BY <1>4, <2>1 DEF RowsInv, EventOf
  <1>5. CASE Request(e)
    <2>1. links' = links /\ Advances(e) /\ at'[e] \in Syncing
      BY <1>5, Requests, SyncShapes DEF Posts, Patches, Completes, Reviewed, Syncing
    <2>2. ASSUME NEW l \in links, NEW v \in events, l.event = v.id, Shown(l, v) PROVE Shown(l, v)'
      <3>1. PICK z \in outlook : z.id = l.target /\ z.draft.time = v.fingerprint.time
        BY <2>2 DEF Shown
      <3>2. CASE z \in outlook'
        BY <3>1, <3>2 DEF Shown
      <3>3. CASE z \notin outlook'
        <4>1. Patches(e)
          BY <1>5, <3>3, Requests DEF Posts
        <4>2. PICK y \in outlook' : y.id = z.id /\ y.draft = sync[e].draft /\ z.id = sync[e].target
          BY <3>1, <3>3, <4>1 DEF Patches, Targets
        <4>3. at[e] = "updating"
          BY <4>1 DEF Patches
        <4>4. sync[e].target.transaction.event = plan[e].row
          BY <4>3 DEF TypeInv, PassInv, TargetKnown
        <4>5. v \in EventOf(e)
          BY <2>2, <3>1, <4>2, <4>4 DEF TypeInv, EventOf
        <4>6. sync[e].draft.time = v.fingerprint.time
          BY <4>3, <4>5 DEF PassKnows, Syncing
        <4> QED
          BY <3>1, <4>2, <4>6 DEF Shown
      <3> QED
        BY <3>2, <3>3
    <2> QED
      BY <1>0, <1>1, <1>2, <2>1, <2>2 DEF ShownOrOwed
  <1>6. CASE SaveLink(e)
    <2>1. /\ links' = UpsertedLinks(e) /\ outlook' = outlook /\ at[e] = "saving"
      BY <1>6 DEF SaveLink, Moves, Step
    <2>2. PICK x \in outlook : x.id = sync[e].target /\ x.draft.time = sync[e].draft.time
      BY <2>1 DEF PassKnows, Targets
    <2>3. \A v \in EventOf(e) : sync[e].draft.time = v.fingerprint.time
      BY <2>1 DEF PassKnows, Syncing
    <2>4. ASSUME NEW l, NEW v \in events, l = NewLink(e), l.event = v.id PROVE Shown(l, v)'
      <3>1. l.target = sync[e].target /\ v \in EventOf(e)
        BY <2>4 DEF NewLink, EventOf
      <3> QED
        BY <2>1, <2>2, <2>3, <3>1 DEF Shown
    <2>5. ASSUME NEW l \in links \ LinksOf(e), NEW v \in events, l.event = v.id
          PROVE  Shown(l, v)' \/ \E f \in Emails : Owes(f, v)'
      <3>1. Shown(l, v) \/ \E f \in Emails : Owes(f, v)
        BY <2>5 DEF ShownOrOwed
      <3>2. ~Owes(e, v)
        BY <2>1, <2>5 DEF Owes, LinksOf, Where, Syncing
      <3> QED
        BY <1>1, <2>1, <3>1, <3>2 DEF Shown
    <2> QED
      <3>1. \A l \in links' : l = NewLink(e) \/ l \in links \ LinksOf(e)
        BY <2>1 DEF UpsertedLinks
      <3>2. \A l \in links', v \in events :
                l.event = v.id => Shown(l, v)' \/ \E f \in Emails : Owes(f, v)'
        BY <2>4, <2>5, <3>1
      <3> QED
        BY <1>0, <3>2 DEF ShownOrOwed
  <1>7. CASE ~Request(e) /\ ~SaveLink(e)
    <2>1. links' = links /\ outlook' = outlook
      BY <1>7, OutlookRests, LinksRest
    <2>2. ASSUME NEW l \in links, NEW v \in events, l.event = v.id, Owes(e, v)
          PROVE  Owes(e, v)' \/ Shown(l, v)
      <3>1. ~Completes(e) /\ ~Reviewed(e)
        BY <2>2 DEF Owes, Completes, Reviewed, Where
      <3>2. Advances(e)
        BY <3>1, SyncShapes
      <3>3. plan[e].row = v.id /\ v \in EventOf(e)
        BY <1>3, <2>2, <3>2
      <3>4. ~SkipSync(e) /\ ~ReviewUndated(e)
        BY <1>4, <2>2, <3>3 DEF SkipSync, ReviewUndated
      <3>5. ~EventMissing(e)
        BY DEF EventMissing, Moves, Step, PassKnows, Targets
      <3>6. CASE LoadCandidate(e) \/ SyncFails(e)
        <4>1. at'[e] \in {"linking", "failed"}
          BY <1>0, <3>6 DEF LoadCandidate, SyncFails, Fails, Moves, Step, Goes
        <4> QED
          BY <1>2, <2>2, <3>2, <4>1 DEF Syncing
      <3>7. CASE GetLink(e)
        <4>1. CASE at'[e] \in {"creating", "updating"}
          BY <1>2, <2>2, <3>2, <4>1 DEF Syncing
        <4>2. CASE at'[e] \notin {"creating", "updating"}
          <5>1. /\ at[e] = "linking"
                /\ \E m \in LinksOf(e) : Current(m, sync[e].draft)
                /\ ~StaleLink(e)
            BY <1>0, <3>7, <4>2 DEF GetLink, Moves, Step, Goes
          <5>2. PICK x \in outlook : x.id = l.target
            BY DEF LinksLive
          <5>3. x.draft = l.draft
            BY <2>2, <3>3, <5>1, <5>2 DEF StaleLink, LinksOf
          <5>4. x.draft = sync[e].draft
            BY <2>2, <3>3, <5>1, <5>3 DEF Current, LinksOf, TypeInv, TypeOK
          <5>5. sync[e].draft.time = v.fingerprint.time
            BY <3>3, <5>1 DEF PassKnows, Syncing
          <5> QED
            BY <5>2, <5>4, <5>5 DEF Shown
        <4> QED
          BY <4>1, <4>2
      <3> QED
        BY <1>7, <3>1, <3>4, <3>5, <3>6, <3>7, SyncShapes
    <2>3. \A l \in links, v \in events : Shown(l, v)' = Shown(l, v)
      BY <2>1 DEF Shown
    <2> QED
      BY <1>0, <1>1, <2>1, <2>2, <2>3 DEF ShownOrOwed
  <1> QED
    BY <1>5, <1>6, <1>7

LEMMA AgreeStep ==
    ASSUME TypeInv, RowsInv, AloneInv, KeyedInv, AgreeInv, NEW e \in Emails,
           (Works(e) /\ UNCHANGED calendar) \/ SyncStep(e)
    PROVE  AgreeInv'
  <1> SUFFICES ASSUME Calm' PROVE Agreement'
    BY DEF AgreeInv
  <1>1. Calm /\ Agreement /\ ~overlapped /\ ~overlapped'
    BY CalmBefore DEF AgreeInv, Calm
  <1>2. /\ LinksLive /\ Unpatched /\ PassKnows(e) /\ PlanKnown(e) /\ ShownOrOwed
        /\ PlanInv(e) /\ OwnRows
    BY <1>1 DEF Agreement, AloneInv
  <1>3. PlanKnown(e)' /\ \A f \in Emails : f # e => PassKnows(f)' /\ PlanKnown(f)'
    BY <1>1, <1>2, OthersKnow, PlanKnows DEF Agreement
  <1>4. CASE Works(e) /\ UNCHANGED calendar
    <2>1. links' = links /\ outlook' = outlook
      BY <1>4 DEF calendar
    <2>2. LinksLive' /\ Unpatched'
      BY <1>2, <2>1 DEF LinksLive, Unpatched
    <2>3. ShownOrOwed'
      <3>1. CASE Writes(e)
        BY <1>2, <1>4, <3>1, CommitOwes
      <3>2. CASE ~Writes(e)
        <4>1. events' = events
          BY <1>4, <3>2, Shapes
          DEF Starts, Resumes, Stops, ResolvesApplication, ResolvesEvent, IsAnswered, Reads, Stays
        <4>2. \A f \in Emails, v \in events : Owes(f, v) => Owes(f, v)'
          BY <1>4, <3>2, WorksOwe, OthersOwe DEF Calm
        <4>3. \A l \in links, v \in events : Shown(l, v)' = Shown(l, v)
          BY <2>1 DEF Shown
        <4> QED
          BY <1>2, <2>1, <4>1, <4>2, <4>3 DEF ShownOrOwed
      <3> QED
        BY <3>1, <3>2
    <2> QED
      BY <1>2, <1>3, <1>4, <2>2, <2>3, WorksKnow DEF Agreement
  <1>5. CASE SyncStep(e)
    <2>1. PassKnows(e)'
      BY <1>2, <1>5, SyncKnow
    <2>2. LinksLive' /\ Unpatched'
      BY <1>1, <1>2, <1>5, SyncLinksLive
    <2>3. ShownOrOwed'
      BY <1>1, <1>2, <1>5, SyncShows DEF Calm
    <2> QED
      BY <1>3, <2>1, <2>2, <2>3 DEF Agreement
  <1> QED
    BY <1>4, <1>5

LEMMA AgreeInvStep == TypeInv /\ RowsInv /\ AloneInv /\ KeyedInv /\ AgreeInv /\ [Next]_vars => AgreeInv'
  <1> SUFFICES ASSUME TypeInv, RowsInv, AloneInv, KeyedInv, AgreeInv, [Next]_vars PROVE AgreeInv'
    OBVIOUS
  <1>1. CASE \E x \in outlook : UserDeletes(x)
    <2>1. deletes' = deletes + 1
      BY <1>1 DEF UserDeletes
    <2> QED
      BY <2>1 DEF AgreeInv, Calm, TypeInv, LocalTypes
  <1>2. CASE UNCHANGED vars
    <2>1. /\ UNCHANGED <<linked, events, at, evidence, answer, plan, saved, overtaken>>
          /\ UNCHANGED <<overlapped, reread, links, outlook, sync, deletes, misled>>
      BY <1>2 DEF vars, dvars, rows, deaths, history, calendar, bounds, told
    <2>2. /\ Calm' = Calm /\ LinksLive' = LinksLive /\ Unpatched' = Unpatched
      BY <2>1 DEF Calm, LinksLive, Unpatched
    <2>3. \A e \in Emails : PassKnows(e) /\ PlanKnown(e) => PassKnows(e)' /\ PlanKnown(e)'
      <3>1. \A e \in Emails : /\ Found(e)' = Found(e) /\ EventOf(e)' = EventOf(e)
                              /\ LinksOf(e)' = LinksOf(e) /\ Targets(e)' = Targets(e)
                              /\ Repeatable(e)' = Repeatable(e) /\ Stale(e)' = Stale(e)
        BY <2>1 DEF Found, EventsOf, EventOf, LinksOf, Targets, Repeatable, Where, Stale
      <3> QED
        BY <2>1, <3>1 DEF PassKnows, PlanKnown
    <2>4. ShownOrOwed => ShownOrOwed'
      <3>1. /\ \A l, v : Shown(l, v)' = Shown(l, v)
            /\ \A e, v : Owes(e, v)' = Owes(e, v)
        BY <2>1 DEF Shown, Owes, Where
      <3> QED
        BY <2>1, <3>1 DEF ShownOrOwed
    <2> QED
      BY <2>1, <2>2, <2>3, <2>4 DEF AgreeInv, Agreement
  <1> QED
    BY <1>1, <1>2, Steps, AgreeStep

\* As long as emails are processed one at a time, no dead pass is overtaken, a repeated pass
\* reads its email as before, nothing is deleted and no link is stale, Outlook shows every linked
\* event at its time once all emails are processed, whatever died and was repeated on the way.
THEOREM CalendarComesToAgree == Spec => []CalendarAgrees
  <1> DEFINE Inv == OpenInv /\ RowsInv /\ AloneInv /\ KeyedInv /\ CountInv /\ AgreeInv
  <1>1. Init => Inv
    BY InitTypeInv, InitAskInv, InitRowsInv, InitAloneInv, InitCountInv, InitAgreeInv DEF OpenInv
  <1>2. Inv /\ [Next]_vars => Inv'
    BY TypeInvStep, AskInvStep, RowsInvStep, AloneInvStep, CountInvStep, AgreeInvStep DEF OpenInv
  <1>3. Inv => CalendarAgrees
    BY DEF AgreeInv, Agreement, Calm, ShownOrOwed, Owes, Where, Shown, CalendarAgrees
  <1> QED
    BY <1>1, <1>2, <1>3, PTL DEF Spec
=============================================================================
