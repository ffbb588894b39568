-------------------------- MODULE MailboxConnection --------------------------
(***************************************************************************)
(* The connected Outlook mailbox: the microsoft_connections row with its   *)
(* encrypted MSAL cache and revision, the one-time authorization flows by  *)
(* which administrators sign in and connect a mailbox, the callers that    *)
(* refresh the cache while they read mail, and what an account switch does *)
(* to the delta cursor under a synchronization.                            *)
(*                                                                         *)
(* A token cache is the account it holds; a cursor or a page is the        *)
(* account it was read from.  Which answers MSAL and Microsoft Graph give  *)
(* is external: a cursor of another account is never continued.            *)
(***************************************************************************)
EXTENDS Naturals

CONSTANTS
    Accounts,        \* Microsoft accounts
    Administrators,  \* accounts the allowlist lets in
    None,            \* no account
    Flows,           \* bound: authorization flows started
    Syncers,         \* synchronizations that may run at once
    MaxAttempts,     \* requests made for one page
    MaxRefreshes     \* bound: silent acquisitions that change the cache

ASSUME MailboxAssumption ==
    /\ Administrators \subseteq Accounts /\ None \notin Accounts
    /\ MaxAttempts \in Nat \ {0} /\ MaxRefreshes \in Nat

VARIABLES
    revision,   \* token_cache_revision
    home,       \* home_account_id of the connection
    cached,     \* the account in the encrypted token cache
    session,    \* the administrator signed in at the browser
    flow,       \* authorization flows and the callbacks that complete them
    syncing,    \* mail_sync_state.status is SYNCING
    cursor,     \* the account mail_sync_state.delta_link was read from
    phase,      \* where each synchronization is
    at,         \* the account of the cursor it follows
    snapshot,   \* the connection as its token call read it
    request,    \* attempts, and whether a 401 was answered by a refresh
    refreshes,  \* acquisitions that changed a cache
    connected,  \* history: the account the last completed connection chose
    straddled   \* history: a synchronization ran while the account switched

connection == <<revision, home, cached>>
admin == <<session, flow>>
state == <<syncing, cursor>>
syncers == <<phase, at, snapshot, request>>
history == <<connected, straddled>>
vars == <<connection, admin, state, syncers, refreshes, history>>

Account == Accounts \cup {None}
Purpose == {"admin_login", "mailbox_connection"}
Snapshot == [revision : Nat, home : Account, cached : Account, changed : BOOLEAN, got : BOOLEAN]

Flow == [phase : {"unused", "offered", "exchanging", "exchanged", "loaded", "done"},
         purpose : Purpose, by : Account, account : Account, revision : Nat]
Phase == {"idle", "token", "loaded", "acquired", "ready", "refused", "failing", "page", "last"}

NoFlow == [phase |-> "unused", purpose |-> "admin_login", by |-> None,
           account |-> None, revision |-> 0]
NoSnapshot == [revision |-> 0, home |-> None, cached |-> None, changed |-> FALSE, got |-> FALSE]
NewRequest == [attempts |-> 0, force |-> FALSE, retried |-> FALSE]

\* The row of a mailbox connected long ago, or of one never connected; an administrator
\* is signed in.
Init ==
    /\ home \in Account /\ cached = home /\ revision = 0 /\ connected = home
    /\ session \in Administrators
    /\ flow = [f \in Flows |-> NoFlow]
    /\ syncing = FALSE /\ cursor = home
    /\ phase = [s \in Syncers |-> "idle"]
    /\ at = [s \in Syncers |-> None]
    /\ snapshot = [s \in Syncers |-> NoSnapshot]
    /\ request = [s \in Syncers |-> NewRequest]
    /\ refreshes = 0 /\ straddled = FALSE

Active(s) == phase[s] # "idle"

-----------------------------------------------------------------------------
(* save_token_cache, the compare-and-swap on the connection row.            *)
(* Definitions whose comment starts with "Fault:" are wrong on purpose:     *)
(* each can take the place of the one after it, to show that a property     *)
(* can fail.                                                                *)

\* Fault: the last writer wins.
HoldsAlways(expected) == TRUE

\* The row, locked, still has the revision the writer has read.
RevisionHolds(expected) == revision = expected

\* Fault: the cursor of the old account is kept.
SwitchKeepsCursor(account) == UNCHANGED <<syncing, cursor>>

\* Another account than the row's drops the cursor and frees the folder.
SwitchAccount(account) ==
    IF home # None /\ account # None /\ home # account
    THEN cursor' = None /\ syncing' = FALSE
    ELSE UNCHANGED <<syncing, cursor>>

SaveTokenCache(expected, account, cache) ==
    /\ RevisionHolds(expected)
    /\ revision' = expected + 1 /\ home' = account /\ cached' = cache
    /\ SwitchAccount(account)
    /\ straddled' = (straddled \/ (account # home /\ \E s \in Syncers : Active(s)))

-----------------------------------------------------------------------------
(* Signing in and connecting a mailbox.                                     *)

Move(f, from, to) == flow[f].phase = from /\ flow' = [flow EXCEPT ![f].phase = to]

\* GET /auth/login: a flow without an initiator.
StartAdminAuthorization(f) ==
    /\ Move(f, "unused", "offered")
    /\ UNCHANGED <<connection, session, state, syncers, refreshes, history>>

\* GET /auth/mailbox/connect, from a signed-in browser.
StartMailboxAuthorization(f) ==
    /\ flow[f].phase = "unused" /\ session # None
    /\ flow' = [flow EXCEPT ![f].phase = "offered", ![f].by = session,
                            ![f].purpose = "mailbox_connection"]
    /\ UNCHANGED <<connection, session, state, syncers, refreshes, history>>

\* Ten minutes are over.
FlowExpires(f) ==
    /\ Move(f, "offered", "done")
    /\ UNCHANGED <<connection, session, state, syncers, refreshes, history>>

Bound(f) == flow[f].purpose = "mailbox_connection" => session # None /\ flow[f].by = session

\* GET /auth/callback: the flow is consumed once, under its lock; a mailbox flow goes
\* on only in a session of the administrator who started it.
ConsumeFlow(f) ==
    /\ Move(f, "offered", IF Bound(f) THEN "exchanging" ELSE "done")
    /\ UNCHANGED <<connection, session, state, syncers, refreshes, history>>

\* The code is exchanged in a cache of its own; the person has chosen the account.
Exchange(f, account) ==
    /\ flow[f].phase = "exchanging"
    /\ flow' = [flow EXCEPT ![f].phase = "exchanged", ![f].account = account]
    /\ UNCHANGED <<connection, session, state, syncers, refreshes, history>>

\* MSAL refuses, gives no account, or several.
ExchangeFails(f) ==
    /\ Move(f, "exchanging", "done")
    /\ UNCHANGED <<connection, session, state, syncers, refreshes, history>>

\* The allowlist is asked and the cookie of the session is set; the tokens are dropped.
CompleteLogin(f) ==
    /\ flow[f].purpose = "admin_login"
    /\ Move(f, "exchanged", "done")
    /\ session' = IF flow[f].account \in Administrators THEN flow[f].account ELSE session
    /\ UNCHANGED <<connection, state, syncers, refreshes, history>>

LoadConnection(f) ==
    /\ flow[f].purpose = "mailbox_connection" /\ flow[f].phase = "exchanged"
    /\ flow' = [flow EXCEPT ![f].phase = "loaded", ![f].revision = revision]
    /\ UNCHANGED <<connection, session, state, syncers, refreshes, history>>

ConnectMailbox(f) ==
    /\ Move(f, "loaded", "done")
    /\ SaveTokenCache(flow[f].revision, flow[f].account, flow[f].account)
    /\ connected' = flow[f].account
    /\ UNCHANGED <<session, syncers, refreshes>>

\* TokenCacheConflictError: the administrator has to start again.
ConnectConflict(f) ==
    /\ ~RevisionHolds(flow[f].revision)
    /\ Move(f, "loaded", "done")
    /\ UNCHANGED <<connection, session, state, syncers, refreshes, history>>

\* The session expires, or POST /auth/logout.
EndSession ==
    /\ session # None
    /\ session' = None
    /\ UNCHANGED <<connection, flow, state, syncers, refreshes, history>>

-----------------------------------------------------------------------------
(* One synchronization, with a token for every request.                     *)

Becomes(s, from, to) == phase[s] = from /\ phase' = [phase EXCEPT ![s] = to]

\* The token call is over; of the snapshot only whose token it was matters.
TokenOf(s) == [NoSnapshot EXCEPT !.cached = snapshot[s].cached]

\* What the synchronization followed and held is not looked at again.
Forget(s) ==
    /\ at' = [at EXCEPT ![s] = None]
    /\ snapshot' = [snapshot EXCEPT ![s] = NoSnapshot]
    /\ request' = [request EXCEPT ![s] = NewRequest]

\* begin_sync: the folder is free, the cursor is read.
BeginSync(s) ==
    /\ ~syncing
    /\ Becomes(s, "idle", "token")
    /\ syncing' = TRUE
    /\ at' = [at EXCEPT ![s] = cursor]
    /\ request' = [request EXCEPT ![s] = NewRequest]
    /\ UNCHANGED <<connection, admin, cursor, snapshot, refreshes, history>>

\* get_access_token reads the row and decrypts the cache, without a lock.
LoadCache(s) ==
    /\ Becomes(s, "token", "loaded")
    /\ snapshot' = [snapshot EXCEPT ![s] = [revision |-> revision, home |-> home,
                                            cached |-> cached, changed |-> FALSE, got |-> FALSE]]
    /\ UNCHANGED <<connection, admin, state, at, request, refreshes, history>>

\* AuthenticationRequiredError: the cache holds no account.
NoAccount(s) ==
    /\ snapshot[s].cached = None
    /\ Becomes(s, "loaded", "failing")
    /\ Forget(s)
    /\ UNCHANGED <<connection, admin, state, refreshes, history>>

\* MSAL answers from the cache unless it is forced, refreshes, or has no token to give;
\* the last two may change its cache.
AcquireToken(s, got, changed) ==
    /\ snapshot[s].cached # None
    /\ got /\ request[s].force => changed
    /\ changed => refreshes < MaxRefreshes
    /\ Becomes(s, "loaded", "acquired")
    /\ snapshot' = [snapshot EXCEPT ![s].got = got, ![s].changed = changed]
    /\ refreshes' = IF changed THEN refreshes + 1 ELSE refreshes
    /\ UNCHANGED <<connection, admin, state, at, request, history>>

TokenAnswer(s) ==
    \/ /\ snapshot[s].got
       /\ Becomes(s, "acquired", "ready")
       /\ snapshot' = [snapshot EXCEPT ![s] = TokenOf(s)]
       /\ UNCHANGED <<at, request>>
    \/ /\ ~snapshot[s].got
       /\ Becomes(s, "acquired", "failing")
       /\ Forget(s)

\* A changed cache is written back with the account of the snapshot.
SaveRefresh(s) ==
    /\ snapshot[s].changed
    /\ TokenAnswer(s)
    /\ SaveTokenCache(snapshot[s].revision, snapshot[s].home, snapshot[s].cached)
    /\ UNCHANGED <<admin, refreshes, connected>>

\* Fault: the conflict fails the caller.
ConflictFails(s) ==
    /\ snapshot[s].changed /\ ~RevisionHolds(snapshot[s].revision)
    /\ Becomes(s, "acquired", "failing")
    /\ Forget(s)
    /\ UNCHANGED <<connection, admin, state, refreshes, history>>

\* Somebody wrote first: the write is dropped, the token is used.
RefreshConflict(s) ==
    /\ snapshot[s].changed /\ ~RevisionHolds(snapshot[s].revision)
    /\ TokenAnswer(s)
    /\ UNCHANGED <<connection, admin, state, refreshes, history>>

CacheUnchanged(s) ==
    /\ ~snapshot[s].changed
    /\ TokenAnswer(s)
    /\ UNCHANGED <<connection, admin, state, refreshes, history>>

LastAttempt(s) == request[s].attempts + 1 >= MaxAttempts

\* The page is asked for again, with another token call; force says whether it refreshes.
AskAgain(s, force, retried) ==
    /\ ~LastAttempt(s)
    /\ Becomes(s, "ready", "token")
    /\ snapshot' = [snapshot EXCEPT ![s] = NoSnapshot]
    /\ request' = [request EXCEPT ![s] = [attempts |-> @.attempts + 1, force |-> force,
                                          retried |-> @.retried \/ retried]]
    /\ UNCHANGED <<connection, admin, state, at, refreshes, history>>

\* 401: one forced refresh per page.
Unauthorized(s) == ~request[s].retried /\ AskAgain(s, TRUE, TRUE)

\* The transport failed, or Graph is throttling (429) or unavailable (5xx).
Transient(s) == AskAgain(s, request[s].force, FALSE) \/ AskAgain(s, FALSE, FALSE)

\* The attempts are spent, a second 401, or any other status.
RequestFails(s) ==
    /\ Becomes(s, "ready", "failing")
    /\ Forget(s)
    /\ UNCHANGED <<connection, admin, state, refreshes, history>>

\* 410: the cursor is refused.
CursorGone(s) ==
    /\ at[s] # None
    /\ Becomes(s, "ready", "refused")
    /\ Forget(s)
    /\ UNCHANGED <<connection, admin, state, refreshes, history>>

\* Graph continues a cursor only for the account it was handed to; the page hands out
\* the next one.
FetchPage(s, end) ==
    /\ at[s] \in {None, snapshot[s].cached}
    /\ Becomes(s, "ready", end)
    /\ at' = [at EXCEPT ![s] = snapshot[s].cached]
    /\ snapshot' = [snapshot EXCEPT ![s] = NoSnapshot]
    /\ request' = [request EXCEPT ![s] = NewRequest]
    /\ UNCHANGED <<connection, admin, state, refreshes, history>>

\* ingest_page: the row's cursor is the page's, whoever is connected by now.
IngestPage(s) ==
    /\ Becomes(s, "page", "token")
    /\ cursor' = at[s]
    /\ UNCHANGED <<connection, admin, syncing, at, snapshot, request, refreshes, history>>

\* The row is free again, whoever holds it by now.
EndSync(s, from) ==
    /\ Becomes(s, from, "idle")
    /\ syncing' = FALSE
    /\ Forget(s)
    /\ UNCHANGED <<connection, admin, refreshes, history>>

CompleteSync(s) ==
    /\ EndSync(s, "last")
    /\ cursor' = at[s]

FailSync(s) ==
    /\ EndSync(s, "failing")
    /\ UNCHANGED cursor

\* Fault: the refused cursor is kept.
InvalidateKeepsCursor(s) ==
    /\ EndSync(s, "refused")
    /\ UNCHANGED cursor

InvalidateCursor(s) ==
    /\ EndSync(s, "refused")
    /\ cursor' = None

-----------------------------------------------------------------------------

Administration ==
    \/ EndSession
    \/ \E f \in Flows :
          \/ StartAdminAuthorization(f) \/ StartMailboxAuthorization(f)
          \/ FlowExpires(f) \/ ConsumeFlow(f)
          \/ \E a \in Accounts : Exchange(f, a)
          \/ ExchangeFails(f) \/ CompleteLogin(f) \/ LoadConnection(f)
          \/ ConnectMailbox(f) \/ ConnectConflict(f)

Synchronization(s) ==
    \/ LoadCache(s) \/ NoAccount(s)
    \/ \E got, changed \in BOOLEAN : AcquireToken(s, got, changed)
    \/ SaveRefresh(s) \/ RefreshConflict(s) \/ CacheUnchanged(s)
    \/ Unauthorized(s) \/ Transient(s) \/ RequestFails(s) \/ CursorGone(s)
    \/ \E end \in {"page", "last"} : FetchPage(s, end)
    \/ IngestPage(s) \/ CompleteSync(s) \/ FailSync(s) \/ InvalidateCursor(s)

Next == Administration \/ \E s \in Syncers : BeginSync(s) \/ Synchronization(s)

Spec == Init /\ [][Next]_vars

\* A synchronization that runs goes on, the timer starts another when the folder is
\* free, MSAL does not withhold tokens for ever, nor Graph its refusal of a cursor.
FairSpec ==
    /\ Spec
    /\ \A s \in Syncers : WF_vars(Synchronization(s))
    /\ SF_vars(\E s \in Syncers : BeginSync(s))
    /\ SF_vars(\E s \in Syncers : AcquireToken(s, TRUE, FALSE))
    /\ SF_vars(\E s \in Syncers : CursorGone(s))

-----------------------------------------------------------------------------
(* Properties.                                                              *)

\* The values of the rows and of everybody who works with them.
TypeOK ==
    /\ revision \in Nat /\ {home, cached, cursor, connected} \subseteq Account
    /\ session \in Administrators \cup {None}
    /\ flow \in [Flows -> Flow]
    /\ phase \in [Syncers -> Phase]
    /\ at \in [Syncers -> Account]
    /\ snapshot \in [Syncers -> Snapshot]
    /\ request \in [Syncers -> [attempts : 0 .. MaxAttempts - 1, force : BOOLEAN, retried : BOOLEAN]]
    /\ refreshes \in 0 .. MaxRefreshes
    /\ {syncing, straddled} \subseteq BOOLEAN

\* The mailbox stays the one the last completed connection chose, and the cache holds
\* its tokens: no refresh that read the row before a switch writes the old account back.
ConnectionStands == home = connected /\ cached = connected

\* A token MSAL gave is used, although another refresh or a connection wrote the cache
\* first (the optimistic write of get_access_token).
TokenIsUsed ==
    [][\A s \in Syncers :
          (phase[s] = "acquired" /\ snapshot[s].got /\ phase'[s] # "acquired")
              => phase'[s] = "ready"]_vars

\* The cursor belongs to the connected account, unless a synchronization ran through an
\* account switch: it still stores what it read from the old mailbox.
CursorOfMailbox == ~straddled => cursor \in {None, home}

Foreign == cursor \notin {None, home}

\* A cursor left over from another mailbox does not stay: the next synchronization has
\* it refused and drops it.
ForeignCursorGoes == Foreign ~> ~Foreign
=============================================================================
