---------------------------- MODULE MailSyncProofs ----------------------------
(***************************************************************************)
(* Proofs about MailSync, for any number of synchronizations, messages,    *)
(* pages and faults: the type invariant, that the stored cursor never      *)
(* passes a message without a row, and that a lease excludes.              *)
(*                                                                         *)
(* What makes the cursor safe is not the lease: the cursor and the         *)
(* messages of its page are committed together, and what a synchronization *)
(* follows began at a stored cursor, so that everything before its         *)
(* position has a row whoever else writes the folder meanwhile.            *)
(***************************************************************************)
EXTENDS MailSync, TLAPS

\* Every readable message up to a position has a row.
Covered(position) == (1 .. position) \ Malformed \subseteq stored

\* The positions the synchronizations follow are covered, like the cursor's.
SkipInv == TypeOK /\ Covered(cursor) /\ \A s \in Syncers : Covered(at[s])

-----------------------------------------------------------------------------
(* Type correctness.                                                        *)

\* What a synchronization that forgets its page is left with is typed.
LEMMA ForgetTypes ==
    ASSUME TypeOK, NEW s \in Syncers, Forget(s)
    PROVE  /\ at' \in [Syncers -> Position] /\ pages' \in [Syncers -> 0 .. MaxPages]
           /\ page' \in [Syncers -> [end : Position, more : BOOLEAN]]
  BY FolderAssumption DEF TypeOK, Forget, Nil, NoPage, Position

\* A page ends at a position of the folder.
LEMMA FetchTypes ==
    ASSUME TypeOK, NEW s \in Syncers, FetchPage(s)
    PROVE  TypeOK'
  <1> DEFINE end == IF at[s] + PageSize < arrived THEN at[s] + PageSize ELSE arrived
  <1>1. at[s] \in Position /\ arrived \in Position /\ pages[s] \in 0 .. MaxPages
    BY DEF TypeOK
  <1>2. end \in Position
    BY <1>1, FolderAssumption DEF Position
  <1>3. page' \in [Syncers -> [end : Position, more : BOOLEAN]]
    <2>1. page' = [page EXCEPT ![s] = [end |-> end, more |-> end < arrived]]
      BY DEF FetchPage
    <2>2. [end |-> end, more |-> end < arrived] \in [end : Position, more : BOOLEAN]
      BY <1>2
    <2> HIDE DEF end
    <2> QED  BY <2>1, <2>2 DEF TypeOK
  <1>4. pages' \in [Syncers -> 0 .. MaxPages]
    BY <1>1, FolderAssumption DEF TypeOK, FetchPage, WithinBudget
  <1>5. expired' \subseteq Position
    BY DEF TypeOK, FetchPage
  <1>6. phase' \in [Syncers -> Phase]
    BY DEF TypeOK, FetchPage, Becomes, Phase
  <1> QED
    BY <1>3, <1>4, <1>5, <1>6 DEF TypeOK, FetchPage, state, switches

\* What is saved is typed: the page is one of the folder.
LEMMA SaveTypes ==
    ASSUME TypeOK, NEW s \in Syncers, SavePage(s)
    PROVE  stored' \subseteq 1 .. MaxMail /\ cursor' \in Position
  <1>1. at[s] \in Position /\ page[s].end \in Position
    BY DEF TypeOK
  <1>2. PageMessages(s) \subseteq 1 .. MaxMail
    BY <1>1, FolderAssumption DEF PageMessages, Position
  <1> QED
    BY <1>1, <1>2 DEF SavePage, TypeOK

LEMMA TypesStep == TypeOK /\ [Next]_vars => TypeOK'
  <1> SUFFICES ASSUME TypeOK, [Next]_vars PROVE TypeOK'
    OBVIOUS
  <1> USE DEF provider, state, syncers, switches, faults
  <1>1. CASE Arrive
    BY <1>1, FolderAssumption DEF Arrive, TypeOK, Position
  <1>2. CASE CursorsExpire
    BY <1>2, FolderAssumption DEF CursorsExpire, TypeOK, Position
  <1>3. CASE Pause \/ Resume
    <2>1. {lapsed, enabled, resetting}' \subseteq BOOLEAN
      BY <1>3, Zenon DEF Pause, Resume, TypeOK
    <2> QED  BY <1>3, <2>1 DEF Pause, Resume, TypeOK
  <1>4. CASE LapseLease
    BY <1>4 DEF LapseLease, TypeOK
  <1>5. CASE AdmitReset
    BY <1>5 DEF AdmitReset, TypeOK
  <1>6. CASE ResetMailCursor
    <2>1. {lapsed, enabled, resetting}' \subseteq BOOLEAN
      BY <1>6, Zenon DEF ResetMailCursor, TypeOK
    <2>2. cursor' \in Position /\ status' \in {"idle", "syncing", "succeeded", "failed"}
      BY <1>6, FolderAssumption DEF ResetMailCursor, Nil, Position
    <2> QED  BY <1>6, <2>1, <2>2 DEF ResetMailCursor, TypeOK
  <1>7. ASSUME NEW s \in Syncers, Admit(s) PROVE TypeOK'
    BY <1>7 DEF Admit, Becomes, TypeOK, Phase
  <1>8. ASSUME NEW s \in Syncers, BeginSync(s) PROVE TypeOK'
    <2>1. {lapsed, enabled, resetting}' \subseteq BOOLEAN
      BY <1>8, Zenon DEF BeginSync, TypeOK
    <2>2. phase' \in [Syncers -> Phase]
      BY <1>8 DEF BeginSync, Becomes, TypeOK, Phase
    <2>3. at' \in [Syncers -> Position] /\ pages' \in [Syncers -> 0 .. MaxPages]
      BY <1>8, FolderAssumption DEF BeginSync, TypeOK
    <2> QED  BY <1>8, <2>1, <2>2, <2>3 DEF BeginSync, TypeOK
  <1>9. ASSUME NEW s \in Syncers, RefuseSync(s) PROVE TypeOK'
    BY <1>9 DEF RefuseSync, Becomes, TypeOK, Phase
  <1>10. ASSUME NEW s \in Syncers, FetchPage(s) PROVE TypeOK'
    BY <1>10, FetchTypes
  <1>11. ASSUME NEW s \in Syncers,
                CursorRefused(s) \/ ChainBroken(s) \/ FetchFails(s) \/ SaveFails(s)
         PROVE  TypeOK'
    <2>1. Forget(s)
      BY <1>11 DEF CursorRefused, ChainBroken, FetchFails, SaveFails
    <2> QED
      BY <1>11, <2>1, ForgetTypes
         DEF CursorRefused, ChainBroken, FetchFails, SaveFails, Becomes, TypeOK, Phase
  <1>12. ASSUME NEW s \in Syncers, IngestPage(s) PROVE TypeOK'
    <2>1. stored' \subseteq 1 .. MaxMail /\ cursor' \in Position
      BY <1>12, SaveTypes DEF IngestPage
    <2>2. at' \in [Syncers -> Position]
      BY <1>12 DEF IngestPage, TypeOK
    <2>3. page' \in [Syncers -> [end : Position, more : BOOLEAN]]
      BY <1>12, FolderAssumption DEF IngestPage, TypeOK, NoPage, Position
    <2> QED
      BY <1>12, <2>1, <2>2, <2>3 DEF IngestPage, Becomes, TypeOK, Phase
  <1>13. ASSUME NEW s \in Syncers, CompleteSync(s) PROVE TypeOK'
    <2>1. stored' \subseteq 1 .. MaxMail /\ cursor' \in Position
      BY <1>13, SaveTypes DEF CompleteSync
    <2> QED
      BY <1>13, <2>1, ForgetTypes DEF CompleteSync, Becomes, TypeOK, Phase
  <1>14. ASSUME NEW s \in Syncers, FailSync(s) \/ InvalidateCursor(s) PROVE TypeOK'
    <2>1. Forget(s) /\ status' = "failed" /\ cursor' \in {cursor, 0}
      BY <1>14 DEF FailSync, InvalidateCursor, InvalidatedCursor, Nil
    <2>2. phase' \in [Syncers -> Phase]
      BY <1>14 DEF FailSync, InvalidateCursor, Becomes, TypeOK, Phase
    <2>3. cursor' \in Position
      BY <2>1, FolderAssumption DEF TypeOK, Position
    <2> QED
      BY <1>14, <2>1, <2>2, <2>3, ForgetTypes DEF FailSync, InvalidateCursor, TypeOK
  <1>15. ASSUME NEW s \in Syncers, Crash(s) PROVE TypeOK'
    BY <1>15, ForgetTypes DEF Crash, TypeOK, Phase
  <1>16. CASE UNCHANGED vars
    BY <1>16 DEF vars, TypeOK
  <1> QED
    BY <1>1, <1>2, <1>3, <1>4, <1>5, <1>6, <1>7, <1>8, <1>9, <1>10, <1>11, <1>12, <1>13,
       <1>14, <1>15, <1>16 DEF Next, Proceed

LEMMA TypesInit == Init => TypeOK
  <1> SUFFICES ASSUME Init PROVE TypeOK
    OBVIOUS
  <1>1. {lapsed, enabled, resetting} \subseteq BOOLEAN
    BY Zenon DEF Init
  <1> QED
    BY <1>1, FolderAssumption DEF Init, TypeOK, Position, Phase, Nil, NoPage

\* The row, the folder and the synchronizations keep their types, for every instance
\* (mail_sync_state and what a synchronization holds between two statements).
THEOREM FolderTypes == Spec => []TypeOK
  BY TypesInit, TypesStep, PTL DEF Spec

-----------------------------------------------------------------------------
(* The cursor.                                                              *)

\* Nothing that was stored goes away.
LEMMA Keeps ==
    ASSUME SkipInv, stored \subseteq stored', cursor' \in {cursor, Nil},
           \A s \in Syncers : at'[s] \in {at[s], cursor, Nil}
    PROVE  Covered(cursor)' /\ \A s \in Syncers : Covered(at[s])'
  <1>1. 1 .. Nil = {}
    BY DEF Nil
  <1> QED
    BY <1>1 DEF SkipInv, Covered

\* A saved page is covered: what precedes it was, and its messages are stored with it.
LEMMA SaveCovers ==
    ASSUME SkipInv, NEW s \in Syncers, SavePage(s)
    PROVE  stored \subseteq stored' /\ Covered(cursor)'
  <1>1. at[s] \in Nat /\ page[s].end \in Nat
    BY FolderAssumption DEF SkipInv, TypeOK, Position
  <1>2. 1 .. page[s].end \subseteq (1 .. at[s]) \cup ((at[s] + 1) .. page[s].end)
    BY <1>1
  <1> QED
    BY <1>2 DEF SavePage, PageMessages, SkipInv, Covered

LEMMA SkipStep == SkipInv /\ [Next]_vars => SkipInv'
  <1> SUFFICES ASSUME SkipInv, [Next]_vars PROVE SkipInv'
    OBVIOUS
  <1>t. TypeOK /\ TypeOK'
    BY TypesStep DEF SkipInv
  <1> USE DEF provider, state, syncers, switches, faults
  <1>1. CASE Arrive \/ CursorsExpire \/ Pause \/ Resume \/ LapseLease \/ AdmitReset
             \/ ResetMailCursor
    <2>1. stored' = stored /\ at' = at /\ cursor' \in {cursor, Nil}
      BY <1>1 DEF Arrive, CursorsExpire, Pause, Resume, LapseLease, AdmitReset, ResetMailCursor
    <2> QED  BY <1>t, <2>1, Keeps DEF SkipInv
  <1>2. ASSUME NEW s \in Syncers,
               \/ Admit(s) \/ RefuseSync(s) \/ FetchPage(s) \/ CursorRefused(s)
               \/ ChainBroken(s) \/ FetchFails(s) \/ SaveFails(s) \/ FailSync(s)
               \/ InvalidateCursor(s) \/ Crash(s) \/ BeginSync(s)
        PROVE  SkipInv'
    <2>1. stored' = stored /\ cursor' \in {cursor, Nil}
      BY <1>2 DEF Admit, RefuseSync, FetchPage, CursorRefused, ChainBroken, FetchFails, SaveFails,
                  FailSync, InvalidateCursor, InvalidatedCursor, Crash, BeginSync
    <2>2. at' = at \/ at' = [at EXCEPT ![s] = Nil] \/ at' = [at EXCEPT ![s] = cursor]
      BY <1>2 DEF Admit, RefuseSync, FetchPage, CursorRefused, ChainBroken, FetchFails, SaveFails,
                  FailSync, InvalidateCursor, Crash, BeginSync, Forget
    <2>3. \A t \in Syncers : at'[t] \in {at[t], cursor, Nil}
      BY <1>t, <2>2 DEF TypeOK
    <2> QED  BY <1>t, <2>1, <2>3, Keeps DEF SkipInv
  <1>3. ASSUME NEW s \in Syncers, IngestPage(s) PROVE SkipInv'
    <2>1. stored \subseteq stored' /\ Covered(cursor)' /\ cursor' = page[s].end
      BY <1>3, SaveCovers DEF IngestPage, SavePage
    <2>2. \A t \in Syncers : at'[t] = IF t = s THEN page[s].end ELSE at[t]
      BY <1>3, <1>t DEF IngestPage, TypeOK
    <2> QED  BY <1>t, <2>1, <2>2 DEF SkipInv, Covered
  <1>4. ASSUME NEW s \in Syncers, CompleteSync(s) PROVE SkipInv'
    <2>1. stored \subseteq stored' /\ Covered(cursor)'
      BY <1>4, SaveCovers DEF CompleteSync
    <2>2. \A t \in Syncers : at'[t] = IF t = s THEN Nil ELSE at[t]
      BY <1>4, <1>t DEF CompleteSync, Forget, TypeOK
    <2>3. 1 .. Nil = {}
      BY DEF Nil
    <2> QED  BY <1>t, <2>1, <2>2, <2>3 DEF SkipInv, Covered
  <1>5. CASE UNCHANGED vars
    BY <1>5, <1>t DEF vars, SkipInv, Covered
  <1> QED
    BY <1>1, <1>2, <1>3, <1>4, <1>5 DEF Next, Proceed

LEMMA SkipInit == Init => SkipInv
  <1> SUFFICES ASSUME Init PROVE SkipInv
    OBVIOUS
  <1>1. 1 .. Nil = {}
    BY DEF Nil
  <1> QED  BY <1>1, TypesInit DEF Init, SkipInv, Covered

\* No message before the stored cursor lacks a row, for any number of synchronizations
\* that overlap, die, outlive their lease or are reset underneath (ingest_page commits
\* the messages and the cursor in one transaction).
THEOREM CursorNeverSkips == Spec => []NothingSkipped
  <1>1. SkipInv => NothingSkipped
    BY DEF SkipInv, Covered, NothingSkipped
  <1> QED
    BY <1>1, SkipInit, SkipStep, PTL DEF Spec

-----------------------------------------------------------------------------
(* The lease.                                                               *)

\* Who has begun holds an unlapsed lease, alone.
Holds(s) == status = "syncing" /\ ~lapsed /\ \A t \in Syncers : Active(t) => t = s

Undisturbed == overruns = 0 /\ pauses = 0

LeaseInv ==
    /\ TypeOK /\ overruns \in Nat /\ pauses \in Nat
    /\ Undisturbed => enabled /\ ~resetting /\ \A s \in Syncers : Active(s) => Holds(s)

LEMMA LeaseStep == LeaseInv /\ [Next]_vars => LeaseInv'
  <1> SUFFICES ASSUME LeaseInv, [Next]_vars PROVE LeaseInv'
    OBVIOUS
  <1>t. TypeOK /\ TypeOK' /\ phase \in [Syncers -> Phase]
    BY TypesStep DEF LeaseInv, TypeOK
  <1>c. overruns' \in Nat /\ pauses' \in Nat /\ (Undisturbed' => Undisturbed)
    <2>1. overruns' \in {overruns, overruns + 1} /\ pauses' \in {pauses, pauses + 1}
      BY DEF Next, Proceed, vars, provider, state, syncers, switches, faults, Arrive,
             CursorsExpire, Pause, Resume, LapseLease, AdmitReset, ResetMailCursor, Admit,
             BeginSync, RefuseSync, FetchPage, CursorRefused, ChainBroken, FetchFails,
             IngestPage, CompleteSync, SaveFails, FailSync, InvalidateCursor, Crash
    <2> QED  BY <2>1 DEF LeaseInv, Undisturbed
  <1> SUFFICES ASSUME Undisturbed'
               PROVE  enabled' /\ ~resetting' /\ \A s \in Syncers : Active(s)' => Holds(s)'
    BY <1>t, <1>c DEF LeaseInv
  <1>h. Undisturbed /\ enabled /\ ~resetting /\ \A s \in Syncers : Active(s) => Holds(s)
    BY <1>c DEF LeaseInv
  <1> USE DEF provider, state, syncers, switches, faults
  <1>1. CASE Arrive \/ CursorsExpire \/ UNCHANGED vars
    <2>1. /\ phase' = phase /\ status' = status /\ lapsed' = lapsed
          /\ enabled' = enabled /\ resetting' = resetting
      BY <1>1 DEF Arrive, CursorsExpire, vars
    <2> QED  BY <1>h, <2>1, Zenon DEF Active, Holds
  <1>2. CASE Pause \/ Resume \/ AdmitReset \/ ResetMailCursor
    <2>1. ~Pause
      BY <1>h DEF Pause, Undisturbed
    <2> QED  BY <1>2, <1>h, <2>1 DEF Resume, AdmitReset, ResetMailCursor
  <1>3. CASE LapseLease
    <2>1. ~\E s \in Syncers : Active(s)
      BY <1>3, <1>h DEF LapseLease, Undisturbed
    <2> QED  BY <1>3, <1>h, <2>1 DEF LapseLease, Active
  <1>4. ASSUME NEW s \in Syncers, BeginSync(s)
        PROVE  enabled' /\ ~resetting' /\ \A t \in Syncers : Active(t)' => Holds(t)'
    <2>1. \A t \in Syncers : ~Active(t)
      BY <1>4, <1>h DEF BeginSync, Free, Holds
    <2>2. \A t \in Syncers : Active(t)' => t = s
      BY <1>4, <1>t, <2>1 DEF BeginSync, Becomes, Active
    <2> QED  BY <1>4, <1>h, <2>2 DEF BeginSync, Holds
  <1>5. ASSUME NEW s \in Syncers,
               \/ Admit(s) \/ RefuseSync(s) \/ FetchPage(s) \/ CursorRefused(s)
               \/ ChainBroken(s) \/ FetchFails(s) \/ IngestPage(s) \/ SaveFails(s) \/ Crash(s)
        PROVE  enabled' /\ ~resetting' /\ \A t \in Syncers : Active(t)' => Holds(t)'
    <2>1. status' = status /\ lapsed' = lapsed /\ enabled' = enabled /\ resetting' = resetting
      BY <1>5 DEF Admit, RefuseSync, FetchPage, CursorRefused, ChainBroken, FetchFails,
                  IngestPage, SaveFails, SavePage, Crash
    <2>2. \A t \in Syncers : Active(t)' => Active(t)
      BY <1>5, <1>t DEF Admit, RefuseSync, FetchPage, CursorRefused, ChainBroken, FetchFails,
                        IngestPage, SaveFails, Crash, Becomes, Active
    <2> QED  BY <1>h, <2>1, <2>2 DEF Holds
  <1>6. ASSUME NEW s \in Syncers, CompleteSync(s) \/ FailSync(s) \/ InvalidateCursor(s)
        PROVE  enabled' /\ ~resetting' /\ \A t \in Syncers : Active(t)' => Holds(t)'
    <2>1. Active(s) /\ \A t \in Syncers : Active(t)' => Active(t) /\ t # s
      BY <1>6, <1>t DEF CompleteSync, FailSync, InvalidateCursor, Becomes, Active
    <2>2. \A t \in Syncers : ~Active(t)'
      BY <1>h, <2>1 DEF Holds
    <2>3. enabled' = enabled /\ resetting' = resetting
      BY <1>6 DEF CompleteSync, FailSync, InvalidateCursor
    <2> QED  BY <1>h, <2>2, <2>3, Zenon
  <1> QED
    BY <1>1, <1>2, <1>3, <1>4, <1>5, <1>6 DEF Next, Proceed

\* Two synchronizations never interleave until one outlives its lease or the switches are
\* turned off, which allows a reset: begin_sync looks at the locked row.
THEOREM LeaseOfTheFolder == Spec => []LeaseExcludes
  <1>1. Init => LeaseInv
    <2> SUFFICES ASSUME Init PROVE LeaseInv
      OBVIOUS
    <2>1. \A s \in Syncers : ~Active(s)
      BY DEF Init, Active
    <2>2. overruns = 0 /\ pauses = 0 /\ enabled /\ ~resetting
      BY DEF Init
    <2> QED  BY <2>1, <2>2, TypesInit DEF LeaseInv
  <1>2. LeaseInv => LeaseExcludes
    BY DEF LeaseInv, Undisturbed, LeaseExcludes, Holds
  <1> QED
    BY <1>1, <1>2, LeaseStep, PTL DEF Spec
=============================================================================
