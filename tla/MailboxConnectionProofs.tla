----------------------- MODULE MailboxConnectionProofs -----------------------
(***************************************************************************)
(* Proofs about MailboxConnection, for all accounts, flows and             *)
(* synchronizations and every bound: the type invariant, that the mailbox  *)
(* stays the one that was connected last, whose cursor the row holds, and  *)
(* that no token the provider gave is lost to a conflict.                  *)
(*                                                                         *)
(* The compare-and-swap makes the argument: a snapshot never has a later   *)
(* revision than the row, and one with the row's revision still says what  *)
(* the row says, so that a refresh that may write writes the same account. *)
(***************************************************************************)
EXTENDS MailboxConnection, TLAPS

\* A token call has read the row and has not answered yet.
Reading(s) == phase[s] \in {"loaded", "acquired"}

SnapshotFresh(s) ==
    Reading(s) =>
        /\ snapshot[s].revision <= revision
        /\ snapshot[s].revision = revision =>
              snapshot[s].home = home /\ snapshot[s].cached = cached

StandsInv == TypeOK /\ ConnectionStands /\ \A s \in Syncers : SnapshotFresh(s)

\* What a synchronization that no switch has straddled holds is the mailbox's.
OwnMailbox(s) ==
    /\ phase[s] = "idle" => at[s] = None
    /\ at[s] \in {None, home}
    /\ phase[s] \in {"loaded", "acquired", "ready"} => snapshot[s].cached = home

\* A completion that is going to save knows its account.
Chosen == \A f \in Flows : flow[f].phase \in {"exchanged", "loaded"} => flow[f].account # None

CursorInv ==
    ~straddled => cursor \in {None, home} /\ \A s \in Syncers : OwnMailbox(s)

PageSteps(s) ==
    \/ Unauthorized(s) \/ Transient(s) \/ RequestFails(s) \/ CursorGone(s)
    \/ \E end \in {"page", "last"} : FetchPage(s, end)
    \/ IngestPage(s) \/ CompleteSync(s) \/ FailSync(s) \/ InvalidateCursor(s)

-----------------------------------------------------------------------------
(* Type correctness.                                                        *)

\* The locals of the synchronizations have their types.
LocalTypes ==
    /\ phase \in [Syncers -> Phase]
    /\ at \in [Syncers -> Account]
    /\ snapshot \in [Syncers -> Snapshot]
    /\ request \in [Syncers -> [attempts : 0 .. MaxAttempts - 1, force : BOOLEAN, retried : BOOLEAN]]

RowTypes ==
    /\ revision \in Nat /\ {home, cached, cursor, connected} \subseteq Account
    /\ {syncing, straddled} \subseteq BOOLEAN

LEMMA Empties ==
    /\ NoFlow \in Flow /\ NoSnapshot \in Snapshot
    /\ NewRequest \in [attempts : 0 .. MaxAttempts - 1, force : BOOLEAN, retried : BOOLEAN]
BY MailboxAssumption
   DEF NoFlow, Flow, Purpose, NoSnapshot, Snapshot, NewRequest, Account

LEMMA TypeInit == Init => TypeOK
<1> SUFFICES ASSUME Init PROVE TypeOK
  OBVIOUS
<1>1. /\ NoFlow \in Flow /\ NoSnapshot \in Snapshot
      /\ NewRequest \in [attempts : 0 .. MaxAttempts - 1, force : BOOLEAN, retried : BOOLEAN]
  BY Empties
<1>2. {syncing, straddled} \subseteq BOOLEAN
  BY DEF Init
<1> QED
  BY <1>1, <1>2, MailboxAssumption DEF Init, TypeOK, Account, Phase

\* A switch and a save leave the row typed.
LEMMA SaveTypes ==
    ASSUME RowTypes, NEW expected \in Nat, NEW account \in Account, NEW cache \in Account,
           SaveTokenCache(expected, account, cache)
    PROVE  /\ revision' \in Nat /\ {home', cached', cursor'} \subseteq Account
           /\ {syncing', straddled'} \subseteq BOOLEAN
<1>1. revision' \in Nat /\ {home', cached', cursor'} \subseteq Account
  BY MailboxAssumption DEF RowTypes, SaveTokenCache, SwitchAccount, Account
<1>2. syncing' \in BOOLEAN
  BY Zenon DEF RowTypes, SaveTokenCache, SwitchAccount
<1>3. straddled' \in BOOLEAN
  BY Zenon DEF SaveTokenCache
<1> QED
  BY <1>1, <1>2, <1>3

LEMMA MoveTypes ==
    ASSUME TypeOK, NEW f \in Flows, NEW from,
           NEW to \in {"offered", "exchanging", "done"}, Move(f, from, to)
    PROVE  flow' \in [Flows -> Flow]
<1>1. flow[f] \in Flow /\ flow \in [Flows -> Flow]
  BY DEF TypeOK
<1>2. [flow[f] EXCEPT !.phase = to] \in Flow
  BY <1>1 DEF Flow
<1> QED
  BY <1>1, <1>2 DEF Move

LEMMA AdministrationTypes == TypeOK /\ Administration => TypeOK'
<1> SUFFICES ASSUME TypeOK, Administration PROVE TypeOK'
  OBVIOUS
<1> USE DEF TypeOK
<1>1. CASE EndSession
  BY <1>1 DEF EndSession, connection, state, syncers, history
<1>2. ASSUME NEW f \in Flows,
             \/ StartAdminAuthorization(f) \/ StartMailboxAuthorization(f)
             \/ FlowExpires(f) \/ ConsumeFlow(f) \/ ExchangeFails(f)
             \/ LoadConnection(f) \/ ConnectConflict(f)
             \/ \E a \in Accounts : Exchange(f, a)
      PROVE  TypeOK'
  <2>0. flow[f] \in Flow /\ flow \in [Flows -> Flow] /\ revision \in Nat
    BY DEF TypeOK
  <2>1. flow' \in [Flows -> Flow]
    <3>1. CASE StartAdminAuthorization(f)
      BY <3>1, MoveTypes DEF StartAdminAuthorization
    <3>2. CASE StartMailboxAuthorization(f)
      <4>1. [flow[f] EXCEPT !.phase = "offered", !.by = session,
                            !.purpose = "mailbox_connection"] \in Flow
        BY <3>2, <2>0, MailboxAssumption DEF StartMailboxAuthorization, Flow, Purpose, Account
      <4> QED
        BY <3>2, <4>1, <2>0 DEF StartMailboxAuthorization
    <3>3. CASE FlowExpires(f) \/ ExchangeFails(f) \/ ConnectConflict(f)
      BY <3>3, MoveTypes DEF FlowExpires, ExchangeFails, ConnectConflict
    <3>4. CASE ConsumeFlow(f)
      <4>1. (IF Bound(f) THEN "exchanging" ELSE "done") \in {"offered", "exchanging", "done"}
        OBVIOUS
      <4> QED
        BY <3>4, <4>1, MoveTypes DEF ConsumeFlow
    <3>5. CASE LoadConnection(f)
      <4>1. [flow[f] EXCEPT !.phase = "loaded", !.revision = revision] \in Flow
        BY <2>0 DEF Flow
      <4> QED
        BY <3>5, <4>1, <2>0 DEF LoadConnection
    <3>6. ASSUME NEW a \in Accounts, Exchange(f, a) PROVE flow' \in [Flows -> Flow]
      <4>1. [flow[f] EXCEPT !.phase = "exchanged", !.account = a] \in Flow
        BY <2>0 DEF Flow, Account
      <4> QED
        BY <3>6, <4>1, <2>0 DEF Exchange
    <3> QED
      BY <1>2, <3>1, <3>2, <3>3, <3>4, <3>5, <3>6
  <2>2. UNCHANGED <<connection, session, state, syncers, refreshes, history>>
    BY <1>2 DEF StartAdminAuthorization, StartMailboxAuthorization, FlowExpires, ConsumeFlow,
                ExchangeFails, LoadConnection, ConnectConflict, Exchange
  <2> QED
    BY <2>1, <2>2 DEF connection, state, syncers, history
<1>3. ASSUME NEW f \in Flows, CompleteLogin(f) PROVE TypeOK'
  BY <1>3, MoveTypes DEF CompleteLogin, connection, state, syncers, history
<1>4. ASSUME NEW f \in Flows, ConnectMailbox(f) PROVE TypeOK'
  <2>1. flow[f].revision \in Nat /\ flow[f].account \in Account
    BY DEF Flow
  <2>2. /\ revision' \in Nat /\ {home', cached', cursor'} \subseteq Account
        /\ {syncing', straddled'} \subseteq BOOLEAN
    <3>1. RowTypes
      BY DEF RowTypes
    <3>2. SaveTokenCache(flow[f].revision, flow[f].account, flow[f].account)
      BY <1>4 DEF ConnectMailbox
    <3> QED
      BY <2>1, <3>1, <3>2, SaveTypes
  <2>3. flow' \in [Flows -> Flow]
    BY <1>4, MoveTypes DEF ConnectMailbox
  <2> QED
    BY <1>4, <2>1, <2>2, <2>3 DEF ConnectMailbox, syncers
<1> QED
  BY <1>1, <1>2, <1>3, <1>4 DEF Administration

\* Forgetting leaves the locals typed.
LEMMA ForgetTypes ==
    ASSUME LocalTypes, NEW s \in Syncers, Forget(s)
    PROVE  /\ at' \in [Syncers -> Account]
           /\ snapshot' \in [Syncers -> Snapshot]
           /\ request' \in [Syncers -> [attempts : 0 .. MaxAttempts - 1, force : BOOLEAN, retried : BOOLEAN]]
BY Empties DEF LocalTypes, Forget, Account

LEMMA TokenOfTypes ==
    ASSUME LocalTypes, NEW s \in Syncers PROVE TokenOf(s) \in Snapshot
BY Empties DEF LocalTypes, TokenOf, Snapshot, NoSnapshot

LEMMA TokenAnswerTypes ==
    ASSUME LocalTypes, NEW s \in Syncers, TokenAnswer(s) PROVE LocalTypes'
<1>1. CASE snapshot[s].got
  BY <1>1, TokenOfTypes DEF LocalTypes, TokenAnswer, Becomes, Phase
<1>2. CASE ~snapshot[s].got
  <2>1. Forget(s) /\ Becomes(s, "acquired", "failing")
    BY <1>2 DEF TokenAnswer
  <2> QED
    BY <2>1, ForgetTypes DEF LocalTypes, Becomes, Phase
<1> QED
  BY <1>1, <1>2

LEMMA SynchronizationTypes ==
    ASSUME TypeOK, NEW s \in Syncers, BeginSync(s) \/ Synchronization(s)
    PROVE  TypeOK'
<1>0. LocalTypes /\ RowTypes /\ MaxAttempts \in Nat \ {0}
  BY MailboxAssumption DEF TypeOK, LocalTypes, RowTypes
<1>a. /\ snapshot[s] \in Snapshot /\ at[s] \in Account
      /\ request[s] \in [attempts : 0 .. MaxAttempts - 1, force : BOOLEAN, retried : BOOLEAN]
  BY <1>0 DEF LocalTypes
<1> USE DEF TypeOK, LocalTypes, Becomes
<1>1. CASE BeginSync(s)
  BY <1>1, Empties DEF BeginSync, Phase, connection, admin, history
<1>2. CASE LoadCache(s)
  BY <1>2 DEF LoadCache, Snapshot, Phase, connection, admin, state, history
<1>3. CASE NoAccount(s) \/ RequestFails(s) \/ CursorGone(s)
  <2>1. phase' \in [Syncers -> Phase] /\ Forget(s)
    BY <1>3 DEF NoAccount, RequestFails, CursorGone, Phase
  <2>2. UNCHANGED <<connection, admin, state, refreshes, history>>
    BY <1>3 DEF NoAccount, RequestFails, CursorGone
  <2> QED
    BY <1>0, <2>1, <2>2, ForgetTypes DEF connection, admin, state, history
<1>4. ASSUME NEW got \in BOOLEAN, NEW changed \in BOOLEAN, AcquireToken(s, got, changed)
      PROVE  TypeOK'
  <2>1. [snapshot[s] EXCEPT !.got = got, !.changed = changed] \in Snapshot
    BY <1>a DEF Snapshot
  <2>2. snapshot' \in [Syncers -> Snapshot]
    BY <1>4, <2>1 DEF AcquireToken
  <2>3. refreshes' \in 0 .. MaxRefreshes
    BY <1>4, MailboxAssumption DEF AcquireToken
  <2> QED
    BY <1>4, <2>2, <2>3 DEF AcquireToken, Phase, connection, admin, state, history
<1>5. CASE SaveRefresh(s)
  <2>1. LocalTypes'
    BY <1>0, <1>5, TokenAnswerTypes DEF SaveRefresh
  <2>2. /\ snapshot[s].revision \in Nat
        /\ snapshot[s].home \in Account /\ snapshot[s].cached \in Account
    BY <1>a DEF Snapshot
  <2>3. /\ revision' \in Nat /\ {home', cached', cursor'} \subseteq Account
        /\ {syncing', straddled'} \subseteq BOOLEAN
    BY <1>0, <1>5, <2>2, SaveTypes DEF SaveRefresh
  <2> QED
    BY <1>5, <2>1, <2>3 DEF SaveRefresh, admin
<1>6. CASE RefreshConflict(s) \/ CacheUnchanged(s)
  <2>1. TokenAnswer(s) /\ UNCHANGED <<connection, admin, state, refreshes, history>>
    BY <1>6 DEF RefreshConflict, CacheUnchanged
  <2>2. LocalTypes'
    BY <1>0, <2>1, TokenAnswerTypes
  <2> QED
    BY <2>1, <2>2 DEF connection, admin, state, history
<1>7. ASSUME NEW force \in BOOLEAN, NEW retried \in BOOLEAN, AskAgain(s, force, retried)
      PROVE  TypeOK'
  <2>1. request' \in [Syncers -> [attempts : 0 .. MaxAttempts - 1, force : BOOLEAN, retried : BOOLEAN]]
    <3>1. request[s].attempts + 1 \in 0 .. MaxAttempts - 1
      BY <1>0, <1>7, <1>a DEF AskAgain, LastAttempt
    <3>2. (request[s].retried \/ retried) \in BOOLEAN
      BY Zenon
    <3>3. [attempts |-> request[s].attempts + 1, force |-> force,
           retried |-> (request[s].retried \/ retried)]
             \in [attempts : 0 .. MaxAttempts - 1, force : BOOLEAN, retried : BOOLEAN]
      BY <3>1, <3>2
    <3>4. request' = [request EXCEPT ![s] =
             [attempts |-> request[s].attempts + 1, force |-> force,
              retried |-> (request[s].retried \/ retried)]]
      BY <1>7 DEF AskAgain
    <3> QED
      BY <1>0, <3>3, <3>4
  <2>2. snapshot' \in [Syncers -> Snapshot]
    BY <1>7, Empties DEF AskAgain
  <2> QED
    BY <1>7, <2>1, <2>2 DEF AskAgain, Phase, connection, admin, state, history
<1>8. CASE Unauthorized(s) \/ Transient(s)
  <2>1. request[s].force \in BOOLEAN
    BY <1>a
  <2> QED
    BY <1>7, <1>8, <2>1 DEF Unauthorized, Transient
<1>9. ASSUME NEW end \in {"page", "last"}, FetchPage(s, end) PROVE TypeOK'
  <2>1. snapshot[s].cached \in Account
    BY <1>a DEF Snapshot
  <2> QED
    BY <1>9, <2>1, Empties DEF FetchPage, Phase, connection, admin, state, history
<1>10. CASE IngestPage(s)
  BY <1>10, <1>a DEF IngestPage, Phase, connection, admin, history
<1>11. CASE CompleteSync(s) \/ FailSync(s) \/ InvalidateCursor(s)
  <2>1. /\ phase' \in [Syncers -> Phase] /\ Forget(s) /\ syncing' = FALSE
        /\ UNCHANGED <<connection, admin, refreshes, history>>
    BY <1>11 DEF CompleteSync, FailSync, InvalidateCursor, EndSync, Phase
  <2>2. cursor' \in Account
    BY <1>11, <1>a DEF CompleteSync, FailSync, InvalidateCursor, Account
  <2> QED
    BY <1>0, <2>1, <2>2, ForgetTypes DEF connection, admin, history
<1> QED
  BY <1>1, <1>2, <1>3, <1>4, <1>5, <1>6, <1>8, <1>9, <1>10, <1>11
  DEF Synchronization

\* The rows and everybody who works with them keep their types.
THEOREM MailboxTypes == Spec => []TypeOK
<1>1. TypeOK /\ [Next]_vars => TypeOK'
  <2> SUFFICES ASSUME TypeOK, [Next]_vars PROVE TypeOK'
    OBVIOUS
  <2>1. CASE Next
    BY <2>1, AdministrationTypes, SynchronizationTypes DEF Next
  <2>2. CASE UNCHANGED vars
    BY <2>2 DEF vars, connection, admin, state, syncers, history, TypeOK
  <2> QED
    BY <2>1, <2>2
<1> QED
  BY <1>1, TypeInit, PTL DEF Spec

-----------------------------------------------------------------------------
(* The connection stands.                                                   *)

\* What a token call in flight has read: as before, or the row as it is now.
KeptOrRead(t) ==
    Reading(t)' =>
        \/ /\ Reading(t)
           /\ snapshot'[t].revision = snapshot[t].revision
           /\ snapshot'[t].home = snapshot[t].home
           /\ snapshot'[t].cached = snapshot[t].cached
        \/ /\ snapshot'[t].revision = revision
           /\ snapshot'[t].home = home /\ snapshot'[t].cached = cached

LEMMA RowKept ==
    ASSUME StandsInv, UNCHANGED <<connection, connected>>,
           \A t \in Syncers : KeptOrRead(t)
    PROVE  ConnectionStands' /\ \A t \in Syncers : SnapshotFresh(t)'
BY DEF StandsInv, ConnectionStands, connection, KeptOrRead, SnapshotFresh, TypeOK

\* A save leaves behind every snapshot that was read before it.
LEMMA RowSaved ==
    ASSUME StandsInv, NEW expected \in Nat, NEW account \in Account,
           SaveTokenCache(expected, account, account), connected' = account,
           \A t \in Syncers : Reading(t)' => Reading(t) /\ snapshot'[t] = snapshot[t]
    PROVE  ConnectionStands' /\ \A t \in Syncers : SnapshotFresh(t)'
<1>1. revision' = revision + 1 /\ revision \in Nat /\ home' = account /\ cached' = account
  BY DEF SaveTokenCache, RevisionHolds, StandsInv, TypeOK
<1>2. ASSUME NEW t \in Syncers PROVE SnapshotFresh(t)'
  <2>1. snapshot[t].revision \in Nat
    BY DEF StandsInv, TypeOK, Snapshot
  <2> QED
    BY <1>1, <2>1 DEF StandsInv, SnapshotFresh
<1> QED
  BY <1>1, <1>2 DEF ConnectionStands

LEMMA StandsAdministration ==
    StandsInv /\ Administration => ConnectionStands' /\ \A t \in Syncers : SnapshotFresh(t)'
<1> SUFFICES ASSUME StandsInv, Administration
             PROVE  ConnectionStands' /\ \A t \in Syncers : SnapshotFresh(t)'
  OBVIOUS
<1>1. CASE UNCHANGED <<connection, syncers, connected>>
  <2>1. \A t \in Syncers : KeptOrRead(t)
    BY <1>1 DEF KeptOrRead, Reading, syncers
  <2> QED
    BY <1>1, <2>1, RowKept
<1>2. ASSUME NEW f \in Flows, ConnectMailbox(f)
      PROVE  ConnectionStands' /\ \A t \in Syncers : SnapshotFresh(t)'
  <2>1. flow[f].revision \in Nat /\ flow[f].account \in Account
    BY DEF StandsInv, TypeOK, Flow
  <2>2. \A t \in Syncers : Reading(t)' => Reading(t) /\ snapshot'[t] = snapshot[t]
    BY <1>2 DEF ConnectMailbox, syncers, Reading
  <2> QED
    BY <1>2, <2>1, <2>2, RowSaved DEF ConnectMailbox
<1>3. UNCHANGED <<connection, syncers, connected>> \/ \E f \in Flows : ConnectMailbox(f)
  BY DEF Administration, EndSession, StartAdminAuthorization, StartMailboxAuthorization,
         FlowExpires, ConsumeFlow, Exchange, ExchangeFails, CompleteLogin, LoadConnection,
         ConnectConflict, history
<1> QED
  BY <1>1, <1>2, <1>3

LEMMA StandsSynchronization ==
    ASSUME StandsInv, NEW s \in Syncers, BeginSync(s) \/ Synchronization(s)
    PROVE  ConnectionStands' /\ \A t \in Syncers : SnapshotFresh(t)'
<1>0. /\ phase \in [Syncers -> Phase] /\ snapshot \in [Syncers -> Snapshot]
      /\ snapshot[s] \in Snapshot
  BY DEF StandsInv, TypeOK
<1>1. ASSUME UNCHANGED <<connection, connected>>, \A t \in Syncers \ {s} : KeptOrRead(t),
             KeptOrRead(s)
      PROVE  ConnectionStands' /\ \A t \in Syncers : SnapshotFresh(t)'
  BY <1>1, RowKept
<1> USE DEF Becomes, Reading, KeptOrRead
<1>2. CASE LoadCache(s)
  BY <1>0, <1>1, <1>2 DEF LoadCache, history
<1>3. ASSUME NEW got \in BOOLEAN, NEW changed \in BOOLEAN, AcquireToken(s, got, changed)
      PROVE  ConnectionStands' /\ \A t \in Syncers : SnapshotFresh(t)'
  <2>1. /\ snapshot'[s].revision = snapshot[s].revision /\ snapshot'[s].home = snapshot[s].home
        /\ snapshot'[s].cached = snapshot[s].cached
    BY <1>0, <1>3 DEF AcquireToken, Snapshot
  <2> QED
    BY <1>0, <1>1, <1>3, <2>1 DEF AcquireToken, history
<1>4. ASSUME TokenAnswer(s)
      PROVE  /\ \A t \in Syncers \ {s} : phase'[t] = phase[t] /\ snapshot'[t] = snapshot[t]
             /\ Reading(s) /\ ~Reading(s)'
  BY <1>0, <1>4 DEF TokenAnswer, Forget
<1>5. CASE RefreshConflict(s) \/ CacheUnchanged(s)
  BY <1>1, <1>4, <1>5 DEF RefreshConflict, CacheUnchanged, history
<1>6. CASE SaveRefresh(s)
  <2>1. snapshot[s].revision \in Nat /\ snapshot[s].revision = revision
    BY <1>0, <1>6 DEF SaveRefresh, SaveTokenCache, RevisionHolds, Snapshot
  <2>2. snapshot[s].home = connected /\ snapshot[s].cached = connected /\ connected \in Account
    BY <1>4, <1>6, <2>1 DEF SaveRefresh, StandsInv, SnapshotFresh, ConnectionStands, TypeOK
  <2>3. SaveTokenCache(snapshot[s].revision, connected, connected) /\ connected' = connected
    BY <1>6, <2>2 DEF SaveRefresh
  <2>4. \A t \in Syncers : Reading(t)' => Reading(t) /\ snapshot'[t] = snapshot[t]
    BY <1>4, <1>6 DEF SaveRefresh
  <2> QED
    BY <2>1, <2>2, <2>3, <2>4, RowSaved
<1>7. CASE BeginSync(s) \/ NoAccount(s) \/ PageSteps(s)
  <2>1. UNCHANGED <<connection, connected>>
    BY <1>7 DEF BeginSync, NoAccount, PageSteps, Unauthorized, Transient, AskAgain, RequestFails,
                CursorGone, FetchPage, IngestPage, CompleteSync, FailSync, InvalidateCursor,
                EndSync, history
  <2>2. \A t \in Syncers \ {s} : phase'[t] = phase[t] /\ snapshot'[t] = snapshot[t]
    BY <1>0, <1>7 DEF BeginSync, NoAccount, PageSteps, Unauthorized, Transient, AskAgain,
                RequestFails, CursorGone, FetchPage, IngestPage, CompleteSync, FailSync,
                InvalidateCursor, EndSync, Forget
  <2>3. ~Reading(s)'
    BY <1>0, <1>7 DEF BeginSync, NoAccount, PageSteps, Unauthorized, Transient, AskAgain,
                RequestFails, CursorGone, FetchPage, IngestPage, CompleteSync, FailSync,
                InvalidateCursor, EndSync
  <2> QED
    BY <1>1, <2>1, <2>2, <2>3
<1> QED
  BY <1>2, <1>3, <1>5, <1>6, <1>7 DEF Synchronization, PageSteps

\* The mailbox stays the one the last completed connection chose, and the cache holds its
\* tokens, whatever refreshes race with it (save_token_cache and its revision).
THEOREM MailboxStands == Spec => []ConnectionStands
<1>1. Init => StandsInv
  BY TypeInit DEF Init, StandsInv, ConnectionStands, SnapshotFresh, Reading
<1>2. StandsInv /\ [Next]_vars => StandsInv'
  <2> SUFFICES ASSUME StandsInv, [Next]_vars PROVE StandsInv'
    OBVIOUS
  <2>1. CASE Next
    BY <2>1, AdministrationTypes, SynchronizationTypes, StandsAdministration,
       StandsSynchronization DEF StandsInv, Next
  <2>2. CASE UNCHANGED vars
    BY <2>2 DEF vars, connection, admin, state, syncers, history, StandsInv, TypeOK,
                ConnectionStands, SnapshotFresh, Reading
  <2> QED
    BY <2>1, <2>2
<1>3. StandsInv => ConnectionStands
  BY DEF StandsInv
<1> QED
  BY <1>1, <1>2, <1>3, PTL DEF Spec

-----------------------------------------------------------------------------
(* Whose cursor the row holds.                                              *)

LEMMA ChosenStep ==
    ASSUME TypeOK, Chosen, [Next]_vars PROVE Chosen'
<1>0. flow \in [Flows -> Flow]
  BY DEF TypeOK
<1> SUFFICES ASSUME NEW g \in Flows, flow'[g].phase \in {"exchanged", "loaded"}
             PROVE  flow'[g].account # None
  BY DEF Chosen
<1>1. CASE UNCHANGED flow
  BY <1>1 DEF Chosen
<1>2. ASSUME NEW f \in Flows,
             \/ StartAdminAuthorization(f) \/ StartMailboxAuthorization(f)
             \/ FlowExpires(f) \/ ConsumeFlow(f) \/ ExchangeFails(f) \/ CompleteLogin(f)
             \/ ConnectMailbox(f) \/ ConnectConflict(f)
      PROVE  flow'[g].account # None
  BY <1>0, <1>2 DEF Chosen, StartAdminAuthorization, StartMailboxAuthorization, FlowExpires,
     ConsumeFlow, ExchangeFails, CompleteLogin, ConnectMailbox, ConnectConflict, Move, Flow
<1>3. ASSUME NEW f \in Flows, LoadConnection(f) PROVE flow'[g].account # None
  BY <1>0, <1>3 DEF Chosen, LoadConnection, Flow
<1>4. ASSUME NEW f \in Flows, NEW a \in Accounts, Exchange(f, a)
      PROVE  flow'[g].account # None
  BY <1>0, <1>4, MailboxAssumption DEF Chosen, Exchange, Flow
<1>5. ASSUME NEW s \in Syncers, BeginSync(s) \/ Synchronization(s) PROVE UNCHANGED flow
  BY <1>5 DEF BeginSync, Synchronization, LoadCache, NoAccount, AcquireToken, SaveRefresh,
     RefreshConflict, CacheUnchanged, Unauthorized, Transient, AskAgain, RequestFails,
     CursorGone, FetchPage, IngestPage, CompleteSync, FailSync, InvalidateCursor, EndSync, admin
<1>6. EndSession => UNCHANGED flow
  BY DEF EndSession
<1> QED
  BY <1>1, <1>2, <1>3, <1>4, <1>5, <1>6 DEF Next, Administration, vars, admin

LEMMA CursorAdministration ==
    ASSUME StandsInv, Chosen, CursorInv, Administration PROVE CursorInv'
<1>1. CASE UNCHANGED <<connection, state, syncers, straddled>>
  BY <1>1 DEF CursorInv, OwnMailbox, connection, state, syncers
<1>2. ASSUME NEW f \in Flows, ConnectMailbox(f), ~straddled' PROVE CursorInv'
  <2>1. /\ home' = flow[f].account /\ flow[f].account # None /\ UNCHANGED syncers
        /\ SwitchAccount(flow[f].account)
        /\ ~straddled /\ (home' # home => \A s \in Syncers : ~Active(s))
    BY <1>2 DEF ConnectMailbox, SaveTokenCache, Move, Chosen
  <2>2. CASE home' = home
    BY <2>1, <2>2 DEF CursorInv, OwnMailbox, SwitchAccount, syncers
  <2>3. CASE home' # home
    <3>1. \A s \in Syncers : phase[s] = "idle" /\ at[s] = None
      BY <2>1, <2>3 DEF Active, CursorInv, OwnMailbox
    <3>2. cursor' = None
      BY <2>1, <2>3 DEF SwitchAccount, CursorInv
    <3> QED
      BY <2>1, <3>1, <3>2 DEF CursorInv, OwnMailbox, syncers
  <2> QED
    BY <2>2, <2>3
<1>3. UNCHANGED <<connection, state, syncers, straddled>> \/ \E f \in Flows : ConnectMailbox(f)
  BY DEF Administration, EndSession, StartAdminAuthorization, StartMailboxAuthorization,
         FlowExpires, ConsumeFlow, Exchange, ExchangeFails, CompleteLogin, LoadConnection,
         ConnectConflict, history
<1>4. straddled' => CursorInv'
  BY DEF CursorInv
<1> QED
  BY <1>1, <1>2, <1>3, <1>4

LEMMA CursorSynchronization ==
    ASSUME StandsInv, CursorInv, NEW s \in Syncers, BeginSync(s) \/ Synchronization(s)
    PROVE  CursorInv'
<1>0. /\ phase \in [Syncers -> Phase] /\ snapshot \in [Syncers -> Snapshot]
      /\ at \in [Syncers -> Account] /\ snapshot[s] \in Snapshot
  BY DEF StandsInv, TypeOK
<1>1. home' = home
  <2>1. CASE SaveRefresh(s)
    BY <2>1 DEF SaveRefresh, SaveTokenCache, RevisionHolds, StandsInv, SnapshotFresh, Reading,
                TokenAnswer, Becomes
  <2> QED
    BY <2>1 DEF BeginSync, Synchronization, LoadCache, NoAccount, AcquireToken, RefreshConflict,
       CacheUnchanged, Unauthorized, Transient, AskAgain, RequestFails, CursorGone, FetchPage,
       IngestPage, CompleteSync, FailSync, InvalidateCursor, EndSync, connection
<1>2. straddled => straddled'
  BY DEF SaveRefresh, SaveTokenCache, BeginSync, Synchronization, LoadCache, NoAccount,
     AcquireToken, RefreshConflict, CacheUnchanged, Unauthorized, Transient, AskAgain,
     RequestFails, CursorGone, FetchPage, IngestPage, CompleteSync, FailSync, InvalidateCursor,
     EndSync, history
<1>3. SUFFICES ASSUME ~straddled PROVE cursor' \in {None, home} /\ \A t \in Syncers : OwnMailbox(t)'
  BY <1>1, <1>2 DEF CursorInv
<1>4. cursor \in {None, home} /\ \A t \in Syncers : OwnMailbox(t)
  BY <1>3 DEF CursorInv
<1>5. cursor' \in {None, home}
  <2>1. CASE SaveRefresh(s)
    BY <1>1, <1>4, <2>1 DEF SaveRefresh, SaveTokenCache, SwitchAccount
  <2>2. CASE IngestPage(s) \/ CompleteSync(s) \/ InvalidateCursor(s)
    BY <1>4, <2>2 DEF IngestPage, CompleteSync, InvalidateCursor, OwnMailbox
  <2> QED
    BY <1>4, <2>1, <2>2 DEF BeginSync, Synchronization, LoadCache, NoAccount, AcquireToken,
       RefreshConflict, CacheUnchanged, Unauthorized, Transient, AskAgain, RequestFails,
       CursorGone, FetchPage, FailSync, EndSync, state
<1>6. ASSUME NEW t \in Syncers \ {s} PROVE OwnMailbox(t)'
  <2>1. phase'[t] = phase[t] /\ snapshot'[t] = snapshot[t] /\ at'[t] = at[t]
    BY <1>0 DEF BeginSync, Synchronization, LoadCache, NoAccount, AcquireToken, SaveRefresh,
       RefreshConflict, CacheUnchanged, TokenAnswer, Unauthorized, Transient, AskAgain,
       RequestFails, CursorGone, FetchPage, IngestPage, CompleteSync, FailSync,
       InvalidateCursor, EndSync, Forget, Becomes
  <2> QED
    BY <1>1, <1>4, <2>1 DEF OwnMailbox
<1>7. OwnMailbox(s)'
  <2> USE DEF OwnMailbox, Becomes
  <2>1. CASE BeginSync(s) \/ LoadCache(s)
    BY <1>0, <1>1, <1>4, <2>1 DEF BeginSync, LoadCache, StandsInv, ConnectionStands
  <2>2. ASSUME NEW got \in BOOLEAN, NEW changed \in BOOLEAN, AcquireToken(s, got, changed)
        PROVE  OwnMailbox(s)'
    <3>1. snapshot'[s].cached = snapshot[s].cached
      BY <1>0, <2>2 DEF AcquireToken, Snapshot
    <3> QED
      BY <1>0, <1>1, <1>4, <2>2, <3>1 DEF AcquireToken
  <2>3. CASE TokenAnswer(s)
    <3>1. CASE snapshot[s].got
      <4>1. snapshot'[s].cached = snapshot[s].cached
        BY <1>0, <2>3, <3>1 DEF TokenAnswer, TokenOf, NoSnapshot
      <4> QED
        BY <1>0, <1>1, <1>4, <2>3, <3>1, <4>1 DEF TokenAnswer
    <3>2. CASE ~snapshot[s].got
      BY <1>0, <1>1, <1>4, <2>3, <3>2 DEF TokenAnswer, Forget
    <3> QED
      BY <3>1, <3>2
  <2>4. CASE NoAccount(s) \/ RequestFails(s) \/ CursorGone(s)
    BY <1>0, <2>4 DEF NoAccount, RequestFails, CursorGone, Forget
  <2>5. CASE Unauthorized(s) \/ Transient(s)
    BY <1>0, <1>1, <1>4, <2>5 DEF Unauthorized, Transient, AskAgain
  <2>6. ASSUME NEW end \in {"page", "last"}, FetchPage(s, end) PROVE OwnMailbox(s)'
    BY <1>0, <1>1, <1>4, <2>6 DEF FetchPage
  <2>7. CASE IngestPage(s)
    BY <1>0, <1>1, <1>4, <2>7 DEF IngestPage
  <2>8. CASE CompleteSync(s) \/ FailSync(s) \/ InvalidateCursor(s)
    BY <1>0, <2>8 DEF CompleteSync, FailSync, InvalidateCursor, EndSync, Forget
  <2> QED
    BY <2>1, <2>2, <2>3, <2>4, <2>5, <2>6, <2>7, <2>8
    DEF Synchronization, SaveRefresh, RefreshConflict, CacheUnchanged
<1> QED
  BY <1>5, <1>6, <1>7

\* Unless a synchronization ran through a switch, the delta cursor is the connected
\* account's: save_token_cache drops it in the transaction that switches.
THEOREM CursorStands == Spec => []CursorOfMailbox
<1> DEFINE I == StandsInv /\ Chosen /\ CursorInv
<1>1. Init => I
  BY TypeInit DEF Init, StandsInv, ConnectionStands, SnapshotFresh, Reading, Chosen, CursorInv,
                  OwnMailbox, NoFlow
<1>2. I /\ [Next]_vars => I'
  <2> SUFFICES ASSUME I, [Next]_vars PROVE I'
    OBVIOUS
  <2>1. CASE Next
    BY <2>1, AdministrationTypes, SynchronizationTypes, StandsAdministration,
       StandsSynchronization, ChosenStep, CursorAdministration, CursorSynchronization
    DEF StandsInv, Next
  <2>2. CASE UNCHANGED vars
    BY <2>2 DEF vars, connection, admin, state, syncers, history, StandsInv, TypeOK,
                ConnectionStands, SnapshotFresh, Reading, Chosen, CursorInv, OwnMailbox
  <2> QED
    BY <2>1, <2>2
<1>3. I => CursorOfMailbox
  BY DEF CursorInv, CursorOfMailbox
<1> QED
  BY <1>1, <1>2, <1>3, PTL DEF Spec

-----------------------------------------------------------------------------
(* Tokens.                                                                  *)

\* Nobody else moves a synchronization.
LEMMA OthersWait ==
    ASSUME TypeOK, NEW s \in Syncers, NEW t \in Syncers, t # s,
           BeginSync(t) \/ Synchronization(t)
    PROVE  phase'[s] = phase[s]
<1>1. \E from, to : Becomes(t, from, to)
  BY DEF BeginSync, Synchronization, LoadCache, NoAccount, AcquireToken, SaveRefresh,
         RefreshConflict, CacheUnchanged, TokenAnswer, Unauthorized, Transient, AskAgain,
         RequestFails, CursorGone, FetchPage, IngestPage, CompleteSync, FailSync,
         InvalidateCursor, EndSync
<1> QED
  BY <1>1 DEF Becomes, TypeOK

\* Only the answer of its own token call takes a synchronization on, whether or not the
\* cache could be written.
LEMMA AcquiredAnswers ==
    ASSUME TypeOK, NEW s \in Syncers, phase[s] = "acquired", snapshot[s].got,
           BeginSync(s) \/ Synchronization(s)
    PROVE  phase'[s] = "ready"
<1>1. TokenAnswer(s)
  BY DEF BeginSync, Synchronization, LoadCache, NoAccount, AcquireToken, SaveRefresh,
         RefreshConflict, CacheUnchanged, Unauthorized, Transient, AskAgain,
         RequestFails, CursorGone, FetchPage, IngestPage, CompleteSync, FailSync,
         InvalidateCursor, EndSync, Becomes
<1> QED
  BY <1>1 DEF TokenAnswer, Becomes, TypeOK

\* A token MSAL gave is used, although another refresh or a connection wrote the cache
\* first: the conflict of get_access_token's write drops the write and not the token.
THEOREM TokensAreUsed == Spec => TokenIsUsed
<1>1. Init => TypeOK
  BY TypeInit
<1>2. TypeOK /\ [Next]_vars => TypeOK'
  <2> SUFFICES ASSUME TypeOK, [Next]_vars PROVE TypeOK'
    OBVIOUS
  <2>1. CASE Next
    BY <2>1, AdministrationTypes, SynchronizationTypes DEF Next
  <2>2. CASE UNCHANGED vars
    BY <2>2 DEF vars, connection, admin, state, syncers, history, TypeOK
  <2> QED
    BY <2>1, <2>2
<1>3. ASSUME TypeOK, [Next]_vars
      PROVE  [\A s \in Syncers :
                 (phase[s] = "acquired" /\ snapshot[s].got /\ phase'[s] # "acquired")
                     => phase'[s] = "ready"]_vars
  <2> SUFFICES ASSUME NEW s \in Syncers, phase[s] = "acquired", snapshot[s].got,
                      phase'[s] # "acquired"
               PROVE  phase'[s] = "ready"
    OBVIOUS
  <2>1. ~Administration
    <3>1. Administration => phase' = phase
      BY DEF Administration, EndSession, StartAdminAuthorization, StartMailboxAuthorization,
             FlowExpires, ConsumeFlow, Exchange, ExchangeFails, CompleteLogin, LoadConnection,
             ConnectMailbox, ConnectConflict, syncers
    <3> QED
      BY <3>1
  <2>2. ~UNCHANGED vars
    BY DEF vars, syncers
  <2>3. PICK t \in Syncers : BeginSync(t) \/ Synchronization(t)
    BY <1>3, <2>1, <2>2 DEF Next
  <2>4. t = s
    BY <1>3, <2>3, OthersWait
  <2> QED
    BY <1>3, <2>3, <2>4, AcquiredAnswers
<1> QED
  BY <1>1, <1>2, <1>3, PTL DEF Spec, TokenIsUsed
=============================================================================
