----------------------------- MODULE CalendarSync -----------------------------
(***************************************************************************)
(* sync_calendar_placeholder, on top of DomainProcessing: an event's row is *)
(* planned into an Outlook event, which is created, updated or found to be  *)
(* current by comparing fingerprints with the event's calendar_links row.   *)
(* Loading the candidate, reading the link, the request to Graph and saving *)
(* the link are separate steps; answers get lost, users delete events.      *)
(*                                                                         *)
(* Graph is external: it creates one event per transaction id as long as    *)
(* that event lives, and answers 404 to the update of a deleted one.        *)
(*                                                                         *)
(* Left out: companies and timezones that are unresolved, inactive events   *)
(* (no code deactivates one) and links of another account.                  *)
(***************************************************************************)
EXTENDS DomainProcessing

CONSTANTS
    MaxLosses,   \* bound: answers of Graph that are lost
    MaxDeletes   \* bound: events the user deletes

ASSUME CalendarAssumption == MaxLosses \in Nat /\ MaxDeletes \in Nat

VARIABLES
    links,     \* calendar_links: the Outlook event and the content it was synced with
    outlook,   \* events in the user's calendar
    sync,      \* the content each pass has planned, and the event it writes
    losses, deletes, failures,
    replaced,  \* history: replacements of a linked Outlook event that was there
    misled     \* history: a link passed for current, and its Outlook event was not what it says

bounds == <<losses, deletes, failures>>
told == <<replaced, misled>>
calendar == <<links, outlook, sync, bounds, told>>
vars == <<dvars, calendar>>

\* The content of an event: its time and, through the link to the mail, the email.
Draft == [time : Times, email : Emails]

\* transaction_id is derived from the event and the content.
TransactionId == [event : EventId, draft : Draft]
OutlookId == [transaction : TransactionId, copy : 0 .. MaxDeletes + MaxLosses]
OutlookEvent == [id : OutlookId, draft : Draft]
Link == [event : EventId, target : OutlookId, draft : Draft]

NoSync == [draft |-> None, target |-> None]

Init ==
    /\ DInit
    /\ links = {} /\ outlook = {}
    /\ sync = [e \in Emails |-> NoSync]
    /\ losses = 0 /\ deletes = 0 /\ failures = 0
    /\ replaced = 0 /\ misled = FALSE

\* A step that reads or writes only what the calendar step keeps.
Moves(e, from, to) ==
    /\ Step(e, from, to)
    /\ UNCHANGED <<rows, evidence, answer, plan, passes, deaths, asked, reread, lostUpdate>>

\* The run is completed: nothing of the pass is kept.
Finish(e) ==
    /\ Step(e, "finishing", "done")
    /\ evidence' = [evidence EXCEPT ![e] = NoEvidence]
    /\ answer' = [answer EXCEPT ![e] = NoAnswer]
    /\ plan' = [plan EXCEPT ![e] = NoPlan]
    /\ sync' = [sync EXCEPT ![e] = NoSync]
    /\ UNCHANGED <<rows, passes, deaths, asked, reread, lostUpdate, links, outlook, bounds, told>>

-----------------------------------------------------------------------------
(* Planning.                                                                *)

LinksOf(e) == {l \in links : l.event = plan[e].row}
EventOf(e) == {v \in events : v.id = plan[e].row}
Eligible(v) == v.fingerprint.type \in {"interview", "assessment"}
Undated(v) == v.fingerprint.time = NoTime

\* No event, or not one for the calendar.
SkipSync(e) ==
    /\ Moves(e, "persisted", "finishing")
    /\ \A v \in EventOf(e) : ~Eligible(v)
    /\ UNCHANGED calendar

\* calendar_datetime_unresolved: a human can only skip or ignore it.
ReviewUndated(e) ==
    /\ Moves(e, "persisted", "reviewing calendar")
    /\ \E v \in EventOf(e) : Eligible(v) /\ Undated(v)
    /\ sync' = [sync EXCEPT ![e] = NoSync]
    /\ UNCHANGED <<links, outlook, bounds, told>>

\* load_candidate and the planner's draft.
LoadCandidate(e) ==
    /\ Moves(e, "persisted", "linking")
    /\ \E v \in EventOf(e) :
           /\ Eligible(v) /\ ~Undated(v)
           /\ sync' = [sync EXCEPT ![e].draft = [time |-> v.fingerprint.time, email |-> e]]
    /\ UNCHANGED <<links, outlook, bounds, told>>

\* The reviewer approved a replacement of the missing event.
Replacing(e) == answer[e].to = "persisted"

\* Fault: a link is current whatever it was synced with.
CurrentOnceLinked(l, draft) == TRUE

Current(l, draft) == l.draft = draft

\* The Outlook events the link refers to; none if the user has deleted it.
LinkedEvents(e) == {x \in outlook : \E l \in LinksOf(e) : x.id = l.target}

\* A PATCH has changed the Outlook event, and its link was never saved.
StaleLink(e) == \E l \in LinksOf(e), x \in outlook : x.id = l.target /\ x.draft # l.draft

\* get_link, and what it is compared with.  An approved replacement does not look at it.
GetLink(e) ==
    /\ \/ /\ Moves(e, "linking", "creating")
          /\ LinksOf(e) = {} \/ Replacing(e)
          /\ replaced' = IF LinkedEvents(e) = {} THEN replaced ELSE replaced + 1
          /\ UNCHANGED <<sync, misled>>
       \/ /\ Moves(e, "linking", "updating")
          /\ ~Replacing(e)
          /\ \E l \in LinksOf(e) :
                 /\ ~Current(l, sync[e].draft)
                 /\ sync' = [sync EXCEPT ![e].target = l.target]
          /\ UNCHANGED told
       \/ /\ Moves(e, "linking", "finishing")
          /\ ~Replacing(e)
          /\ \E l \in LinksOf(e) : Current(l, sync[e].draft)
          /\ misled' = (misled \/ StaleLink(e))
          /\ UNCHANGED <<sync, replaced>>
    /\ UNCHANGED <<links, outlook, bounds>>

-----------------------------------------------------------------------------
(* Requests to Graph.                                                       *)

\* Fault: every request has a transaction id of its own.
FreshTransaction(e) == {}

\* Events of the same transaction that still live.
SameTransaction(e) ==
    {x \in outlook : x.id.transaction = [event |-> plan[e].row, draft |-> sync[e].draft]}

NewOutlookEvent(e) ==
    [id |-> [transaction |-> [event |-> plan[e].row, draft |-> sync[e].draft],
             copy |-> losses + deletes],
     draft |-> sync[e].draft]

\* The POST takes effect; lost is whether its answer gets lost, and it is sent again.
CreateEvent(e, lost) ==
    LET found == IF SameTransaction(e) = {} THEN {NewOutlookEvent(e)} ELSE SameTransaction(e)
    IN  \E x \in found :
            /\ Moves(e, "creating", IF lost THEN "creating" ELSE "saving")
            /\ outlook' = outlook \cup {x}
            /\ sync' = IF lost THEN sync ELSE [sync EXCEPT ![e].target = x.id]

\* The PATCH takes effect.
UpdateEvent(e, lost) ==
    \E x \in outlook :
        /\ x.id = sync[e].target
        /\ Moves(e, "updating", IF lost THEN "updating" ELSE "saving")
        /\ outlook' = (outlook \ {x}) \cup {[x EXCEPT !.draft = sync[e].draft]}
        /\ UNCHANGED sync

Request(e) ==
    \E lost \in BOOLEAN :
        /\ lost => losses < MaxLosses
        /\ losses' = IF lost THEN losses + 1 ELSE losses
        /\ CreateEvent(e, lost) \/ UpdateEvent(e, lost)
        /\ UNCHANGED <<links, deletes, failures, told>>

\* The PATCH answers 404: linked_calendar_event_missing, unless that was reviewed.
EventMissing(e) ==
    /\ \A x \in outlook : x.id # sync[e].target
    /\ Moves(e, "updating", "reviewing calendar")
    /\ UNCHANGED calendar

\* The last attempt fails, or the link cannot be saved: the run ends FAILED.
SyncFails(e) ==
    /\ at[e] \in {"linking", "creating", "updating", "saving"}
    /\ failures < MaxLosses
    /\ failures' = failures + 1
    /\ Fails(e)
    /\ UNCHANGED <<links, outlook, sync, losses, deletes, told>>

NewLink(e) == [event |-> plan[e].row, target |-> sync[e].target, draft |-> sync[e].draft]

\* Fault: a plain insert.
InsertedLinks(e) == links \cup {NewLink(e)}

UpsertedLinks(e) == (links \ LinksOf(e)) \cup {NewLink(e)}

\* save_link: an upsert, whatever the link says by now.
SaveLink(e) ==
    /\ Moves(e, "saving", "finishing")
    /\ links' = UpsertedLinks(e)
    /\ UNCHANGED <<outlook, sync, bounds, told>>

\* apply_proposed_update, only offered for a missing event, or skip_calendar_update.
AnswerCalendar(e) ==
    /\ \E to \in (IF sync[e] # NoSync THEN {"persisted"} ELSE {}) \cup {"finishing"} :
           Answer(e, "reviewing calendar", [NoAnswer EXCEPT !.to = to])
    /\ UNCHANGED calendar

UserDeletes(x) ==
    /\ x \in outlook /\ deletes < MaxDeletes
    /\ deletes' = deletes + 1
    /\ outlook' = outlook \ {x}
    /\ UNCHANGED <<dvars, links, sync, losses, failures, told>>

Next ==
    \/ DNext /\ UNCHANGED calendar
    \/ \E e \in Emails :
           \/ SkipSync(e) \/ ReviewUndated(e) \/ LoadCandidate(e) \/ GetLink(e)
           \/ Request(e) \/ EventMissing(e) \/ SyncFails(e) \/ SaveLink(e)
           \/ AnswerCalendar(e) \/ Finish(e)
    \/ \E x \in outlook : UserDeletes(x)

Spec == Init /\ [][Next]_vars

-----------------------------------------------------------------------------
(* Properties.                                                              *)

\* Links and Outlook events are of events of the database, one link per event.
TypeOK ==
    /\ DTypeOK
    /\ links \subseteq Link /\ outlook \subseteq OutlookEvent
    /\ \A l, m \in links : l.event = m.event => l = m

LiveEvents(id) == {x \in outlook : x.id.transaction.event = id}

\* As long as emails are processed one at a time and no dead pass is overtaken, an event has
\* at most one live Outlook event, plus one for every pass that died or gave up between the
\* POST and save_link and one for every replacement of an event that had been replaced before:
\* lost answers and repeated requests do not duplicate it.
BoundedDuplicates ==
    ~overlapped =>
        \A v \in events : Cardinality(LiveEvents(v.id)) <= 1 + crashes + failures + replaced

\* Outlook shows every linked event at its time once all emails are processed, whatever died
\* and was repeated on the way, as long as emails are processed one at a time, no dead pass is
\* overtaken, a repeated pass reads its email as before, no Outlook event is deleted, and no
\* link passed for current after a PATCH whose link was never saved.
CalendarAgrees ==
    /\ ~overlapped /\ ~reread /\ ~misled /\ deletes = 0
    /\ \A e \in Emails : at[e] \in {"done", "idle"}
    =>  \A v \in events, l \in links :
            l.event = v.id =>
                \E x \in outlook : x.id = l.target /\ x.draft.time = v.fingerprint.time
=============================================================================
