------------------------------ MODULE MailSync ------------------------------
(***************************************************************************)
(* Delta synchronization of one mail folder: the mail_sync_state row with  *)
(* its ten-minute lease and its cursor, the synchronizations that follow   *)
(* delta pages (the timer's and the console's), and the operation that     *)
(* resets the cursor while the switches are off.                           *)
(*                                                                         *)
(* The folder is the log of its messages in order of arrival, so a delta   *)
(* cursor is the number of messages it has passed; Nil is no cursor, a     *)
(* full enumeration.  Microsoft Graph's delta answers are external: a page *)
(* continues where its cursor stands, or the cursor is refused (410).      *)
(***************************************************************************)
EXTENDS Naturals

CONSTANTS
    Syncers,      \* synchronizations that may run at once
    MaxMail,      \* bound: messages that arrive
    PageSize,     \* messages of one delta page
    MaxPages,     \* page budget of one synchronization
    Malformed,    \* messages that cannot be read and are skipped
    MaxCrashes,   \* bound: synchronizations that die
    MaxOverruns,  \* bound: synchronizations that outlive their lease
    MaxRefusals,  \* bound: times the provider expires its cursors or breaks a chain
    MaxPauses     \* bound: times the switches are turned off

ASSUME FolderAssumption ==
    /\ MaxMail \in Nat /\ PageSize \in Nat \ {0} /\ MaxPages \in Nat \ {0}
    /\ Malformed \subseteq 1 .. MaxMail
    /\ MaxCrashes \in Nat /\ MaxOverruns \in Nat
    /\ MaxRefusals \in Nat /\ MaxPauses \in Nat

VARIABLES
    arrived,    \* messages in the folder
    stored,     \* messages with a source_emails row
    cursor,     \* mail_sync_state.delta_link, as a position
    status,     \* mail_sync_state.status
    lapsed,     \* last_sync_started_at is at least SYNC_LEASE ago
    phase,      \* where each synchronization is
    at,         \* the cursor each synchronization follows
    page,       \* the page it fetched: where it ends, whether more follow
    pages,      \* pages it has asked for
    enabled,    \* the runtime switches
    resetting,  \* a reset operation has found the switches off
    expired,    \* positions whose cursor the provider refuses
    crashes, overruns, refusals, pauses

syncers == <<phase, at, page, pages>>
state == <<cursor, status, lapsed>>
switches == <<enabled, resetting, pauses>>
faults == <<crashes, overruns, refusals>>
provider == <<arrived, expired>>
vars == <<provider, stored, state, syncers, switches, faults>>

Nil == 0
Position == 0 .. MaxMail
Phase == {"idle", "admitted", "fetching", "fetched", "invalid", "failing"}

NoPage == [end |-> 0, more |-> FALSE]

Active(s) == phase[s] \notin {"idle", "admitted"}

Init ==
    /\ arrived = 0 /\ expired = {} /\ stored = {} /\ cursor = Nil /\ status = "idle" /\ lapsed = FALSE
    /\ phase = [s \in Syncers |-> "idle"]
    /\ at = [s \in Syncers |-> Nil]
    /\ page = [s \in Syncers |-> NoPage]
    /\ pages = [s \in Syncers |-> 0]
    /\ enabled = TRUE /\ resetting = FALSE
    /\ crashes = 0 /\ overruns = 0 /\ refusals = 0 /\ pauses = 0

-----------------------------------------------------------------------------
(* The folder, the switches and the lease.  Definitions whose comment       *)
(* starts with "Fault:" are wrong on purpose: each can take the place of    *)
(* the one after it, to show that a property can fail.                      *)

Arrive ==
    /\ arrived < MaxMail
    /\ arrived' = arrived + 1
    /\ UNCHANGED <<expired, stored, state, syncers, switches, faults>>

\* The provider no longer honours the cursors it has handed out.
CursorsExpire ==
    /\ refusals < MaxRefusals
    /\ expired' = 1 .. MaxMail
    /\ refusals' = refusals + 1
    /\ UNCHANGED <<arrived, stored, state, syncers, switches, crashes, overruns>>

Pause ==
    /\ enabled /\ pauses < MaxPauses
    /\ enabled' = FALSE /\ pauses' = pauses + 1
    /\ UNCHANGED <<provider, stored, state, syncers, resetting, faults>>

Resume ==
    /\ ~enabled
    /\ enabled' = TRUE
    /\ UNCHANGED <<provider, stored, state, syncers, resetting, pauses, faults>>

LapseLease ==
    LET overrun == \E s \in Syncers : Active(s)
    IN  /\ status = "syncing" /\ ~lapsed
        /\ overrun => overruns < MaxOverruns
        /\ lapsed' = TRUE
        /\ overruns' = IF overrun THEN overruns + 1 ELSE overruns
        /\ UNCHANGED <<provider, stored, cursor, status, syncers, switches,
                       crashes, refusals>>

-----------------------------------------------------------------------------
(* One synchronization.                                                     *)

Becomes(s, from, to) == phase[s] = from /\ phase' = [phase EXCEPT ![s] = to]

\* The synchronization follows no page any more: its locals are gone.
Forget(s) ==
    /\ at' = [at EXCEPT ![s] = Nil]
    /\ page' = [page EXCEPT ![s] = NoPage]
    /\ pages' = [pages EXCEPT ![s] = 0]

\* The timer, or an operation, reads the switch.
Admit(s) ==
    /\ enabled
    /\ Becomes(s, "idle", "admitted")
    /\ UNCHANGED <<provider, stored, state, at, page, pages, switches, faults>>

\* Fault: the lease of a running synchronization is not looked at.
FreeIgnoringLease == TRUE

Free == status # "syncing" \/ lapsed

\* begin_sync: the row is locked, the lease taken, the cursor read.
BeginSync(s) ==
    /\ Free
    /\ Becomes(s, "admitted", "fetching")
    /\ at' = [at EXCEPT ![s] = cursor]
    /\ pages' = [pages EXCEPT ![s] = 0]
    /\ status' = "syncing" /\ lapsed' = FALSE
    /\ UNCHANGED <<provider, stored, cursor, page, switches, faults>>

\* MailSyncInProgressError.
RefuseSync(s) ==
    /\ ~Free
    /\ Becomes(s, "admitted", "idle")
    /\ UNCHANGED <<provider, stored, state, at, page, pages, switches, faults>>

WithinBudget(s) == pages[s] < MaxPages

\* The page continues where the cursor stands and hands out a new cursor.
FetchPage(s) ==
    LET end == IF at[s] + PageSize < arrived THEN at[s] + PageSize ELSE arrived
    IN  /\ WithinBudget(s) /\ at[s] \notin expired
        /\ Becomes(s, "fetching", "fetched")
        /\ expired' = expired \ {end}
        /\ page' = [page EXCEPT ![s] = [end |-> end, more |-> end < arrived]]
        /\ pages' = [pages EXCEPT ![s] = @ + 1]
        /\ UNCHANGED <<arrived, stored, state, at, switches, faults>>

\* Graph answers 410.
CursorRefused(s) ==
    /\ WithinBudget(s) /\ at[s] \in expired
    /\ Becomes(s, "fetching", "invalid")
    /\ Forget(s)
    /\ UNCHANGED <<provider, stored, state, switches, faults>>

\* The page's link was visited before, or the page has no link at all.
ChainBroken(s) ==
    /\ WithinBudget(s) /\ at[s] \notin expired /\ refusals < MaxRefusals
    /\ Becomes(s, "fetching", "invalid")
    /\ Forget(s)
    /\ refusals' = refusals + 1
    /\ UNCHANGED <<provider, stored, state, switches, crashes, overruns>>

\* Any other failure of the request, or the page budget is spent.
FetchFails(s) ==
    /\ Becomes(s, "fetching", "failing")
    /\ Forget(s)
    /\ UNCHANGED <<provider, stored, state, switches, faults>>

\* The messages of the page that could be read.
PageMessages(s) == ((at[s] + 1) .. page[s].end) \ Malformed

\* Fault: the cursor is committed, the messages of its page are not.
CursorFirst(s) ==
    /\ cursor' = page[s].end
    /\ UNCHANGED stored

\* _upsert_messages and the cursor, in one transaction; the row is not conditional
\* on the lease.
SavePage(s) ==
    /\ stored' = stored \cup PageMessages(s)
    /\ cursor' = page[s].end

\* ingest_page: another page follows.
IngestPage(s) ==
    /\ page[s].more
    /\ Becomes(s, "fetched", "fetching")
    /\ SavePage(s)
    /\ at' = [at EXCEPT ![s] = page[s].end]
    /\ page' = [page EXCEPT ![s] = NoPage]
    /\ UNCHANGED <<provider, status, lapsed, pages, switches, faults>>

\* complete_sync: this was the last page.
CompleteSync(s) ==
    /\ ~page[s].more
    /\ Becomes(s, "fetched", "idle")
    /\ Forget(s)
    /\ SavePage(s)
    /\ status' = "succeeded"
    /\ UNCHANGED <<provider, lapsed, switches, faults>>

\* A page or a completion could not be written.
SaveFails(s) ==
    /\ Becomes(s, "fetched", "failing")
    /\ Forget(s)
    /\ UNCHANGED <<provider, stored, state, switches, faults>>

FailSync(s) ==
    /\ Becomes(s, "failing", "idle")
    /\ Forget(s)
    /\ status' = "failed"
    /\ UNCHANGED <<provider, stored, cursor, lapsed, switches, faults>>

\* Fault: a refused cursor is kept.
KeptCursor == cursor

InvalidatedCursor == Nil

\* invalidate_cursor: the next synchronization enumerates the folder afresh.
InvalidateCursor(s) ==
    /\ Becomes(s, "invalid", "idle")
    /\ Forget(s)
    /\ cursor' = InvalidatedCursor
    /\ status' = "failed"
    /\ UNCHANGED <<provider, stored, lapsed, switches, faults>>

Crash(s) ==
    /\ phase[s] # "idle" /\ crashes < MaxCrashes
    /\ phase' = [phase EXCEPT ![s] = "idle"]
    /\ Forget(s)
    /\ crashes' = crashes + 1
    /\ UNCHANGED <<provider, stored, state, switches, overruns, refusals>>

-----------------------------------------------------------------------------
(* The reset operation.                                                     *)

\* The executor's control snapshot shows both switches off.
AdmitReset ==
    /\ ~enabled /\ ~resetting
    /\ resetting' = TRUE
    /\ UNCHANGED <<provider, stored, state, syncers, enabled, pauses, faults>>

\* reset_mail_cursor: the cursor is dropped and the row is IDLE, whoever syncs.
ResetMailCursor ==
    /\ resetting
    /\ resetting' = FALSE
    /\ cursor' = Nil /\ status' = "idle"
    /\ UNCHANGED <<provider, stored, lapsed, syncers, enabled, pauses, faults>>

Proceed(s) ==
    \/ BeginSync(s) \/ RefuseSync(s)
    \/ FetchPage(s) \/ CursorRefused(s) \/ ChainBroken(s) \/ FetchFails(s)
    \/ IngestPage(s) \/ CompleteSync(s) \/ SaveFails(s)
    \/ FailSync(s) \/ InvalidateCursor(s)

Next ==
    \/ Arrive \/ CursorsExpire \/ Pause \/ Resume \/ LapseLease
    \/ AdmitReset \/ ResetMailCursor
    \/ \E s \in Syncers : Admit(s) \/ Proceed(s) \/ Crash(s)

Spec == Init /\ [][Next]_vars

\* The timer keeps starting synchronizations, leases run out, a switch that was
\* turned off is turned on again, and requests and writes do not fail for ever.
FairSpec ==
    /\ Spec
    /\ WF_vars(LapseLease) /\ WF_vars(Resume)
    /\ \A s \in Syncers : WF_vars(Proceed(s))
    /\ SF_vars(\E s \in Syncers : Admit(s))
    /\ SF_vars(\E s \in Syncers : BeginSync(s))
    /\ SF_vars(\E s \in Syncers : FetchPage(s) \/ CursorRefused(s))
    /\ SF_vars(\E s \in Syncers : IngestPage(s) \/ CompleteSync(s))

-----------------------------------------------------------------------------
(* Properties.                                                              *)

\* The values the row and the synchronizations range over.
TypeOK ==
    /\ arrived \in Position /\ expired \subseteq Position
    /\ stored \subseteq 1 .. MaxMail
    /\ cursor \in Position
    /\ status \in {"idle", "syncing", "succeeded", "failed"}
    /\ phase \in [Syncers -> Phase]
    /\ at \in [Syncers -> Position]
    /\ page \in [Syncers -> [end : Position, more : BOOLEAN]]
    /\ pages \in [Syncers -> 0 .. MaxPages]
    /\ {lapsed, enabled, resetting} \subseteq BOOLEAN

\* A delta cursor is never ahead of what is stored: whatever crashes, overruns its
\* lease, is refused or reset, a message the cursor has passed has a row.
NothingSkipped == (1 .. cursor) \ Malformed \subseteq stored

\* Until a synchronization overruns its lease or the switches are turned off, two
\* never interleave.
LeaseExcludes ==
    overruns = 0 /\ pauses = 0 =>
        \A s, t \in Syncers : Active(s) /\ Active(t) => s = t

\* Every message of the folder is stored in the end, although a synchronization may
\* crash, spend its page budget or lose its cursor.
MailArrives ==
    \A m \in (1 .. MaxMail) \ Malformed : arrived >= m ~> m \in stored
=============================================================================
