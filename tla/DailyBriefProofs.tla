-------------------------- MODULE DailyBriefProofs --------------------------
(***************************************************************************)
(* Proofs about DailyBrief, for every number of racing calls and every     *)
(* retry limit: at most one mail a day, a verdict that is true, and the    *)
(* refinement of BriefDelivery.                                            *)
(*                                                                         *)
(* The argument: a call between its claim and its mark is alone, because a *)
(* row is claimed only from "absent" or "failed", which nobody is working  *)
(* on; while it has not posted, or was refused, no mail was taken; and     *)
(* what may have been taken ends in a row that is not claimed again.       *)
(***************************************************************************)
EXTENDS DailyBrief, TLAPS

Active(s) == phase[s] # "idle"

\* A call between claim and mark is alone, and its row was not settled by itself.
Alone ==
    /\ \A s, t \in Senders : Active(s) /\ Active(t) => s = t
    /\ row \in {"absent", "failed", "accepted"} => \A s \in Senders : ~Active(s)

\* What a call's place in send_today says of the day's mail.
MailKnown ==
    /\ mails <= 1
    /\ \A s \in Senders :
           /\ phase[s] \in {"rendering", "sending", "failed"} => mails = 0
           /\ phase[s] = "accepted" => mails = 1
    /\ row \in {"absent", "failed"} => mails = 0
    /\ row = "accepted" => mails = 1

\* The sendMail loop still has a request left.
PostsLeft == \A s \in Senders : phase[s] \in {"rendering", "sending"} => posts[s] < MaxPosts

ClaimsCounted == claims <= MaxDispatch /\ (row = "absent" => claims = 0)

BriefInv == TypeOK /\ Alone /\ MailKnown /\ PostsLeft /\ ClaimsCounted

LEMMA InitBriefInv == Init => BriefInv
<1> SUFFICES ASSUME Init PROVE BriefInv
  OBVIOUS
<1>1. stale \in BOOLEAN /\ refreshed \in [Senders -> BOOLEAN]
  BY Zenon DEF Init
<1>2. 0 \in 0 .. MaxPosts /\ ClaimsCounted
  BY LimitsAssumption DEF Init, ClaimsCounted
<1>3. TypeOK
  BY <1>1, <1>2 DEF Init, TypeOK, Row, Phase
<1>4. Alone /\ MailKnown /\ PostsLeft
  BY DEF Init, Alone, Active, MailKnown, PostsLeft
<1> QED BY <1>2, <1>3, <1>4 DEF BriefInv, ClaimsCounted

-----------------------------------------------------------------------------
(* One lemma per kind of step.                                              *)

LEMMA ClaimKeepsInv == ASSUME BriefInv, NEW s \in Senders, Claim(s) PROVE BriefInv'
<1> USE DEF BriefInv, TypeOK
<1>1. /\ row \in {"absent", "failed"}
      /\ \A t \in Senders : phase[t] = "idle"
      /\ mails = 0
  BY DEF Claim, MayClaim, Alone, Active, MailKnown
<1>2. /\ phase'[s] = "rendering" /\ posts'[s] = 0
      /\ \A t \in Senders : t # s => phase'[t] = "idle"
  BY <1>1 DEF Claim
<1>3. TypeOK'
  <2>1. stale' \in BOOLEAN /\ refreshed' \in [Senders -> BOOLEAN]
    BY Zenon DEF Claim
  <2>2. 0 \in 0 .. MaxPosts
    BY LimitsAssumption
  <2> QED BY <2>1, <2>2 DEF Claim, Row, Phase
<1>4. Alone' /\ MailKnown'
  BY <1>1, <1>2 DEF Claim, Alone, Active, MailKnown
<1>5. PostsLeft'
  BY <1>2, LimitsAssumption DEF PostsLeft
<1>6. ClaimsCounted'
  BY LimitsAssumption DEF Claim, MayClaim, ClaimsCounted
<1> QED BY <1>3, <1>4, <1>5, <1>6

LEMMA RowStepKeepsInv ==
    ASSUME BriefInv, Age \/ \E s \in Senders : CloseAbandoned(s)
    PROVE  BriefInv'
BY DEF Age, CloseAbandoned, Abandoned, BriefInv, TypeOK, Row, Alone, Active, MailKnown,
       PostsLeft, ClaimsCounted

\* A step of a call inside send_today, which leaves the row alone.
Sends(s) == RenderBrief(s) \/ RenderFails(s) \/ TokenFails(s) \/ Post(s)

LEMMA SendKeepsInv == ASSUME BriefInv, NEW s \in Senders, Sends(s) PROVE BriefInv'
<1> USE DEF BriefInv, TypeOK
<1> USE DEF Sends, Post, RenderBrief, RenderFails, TokenFails, SendAccepted, SendUncertain,
            SendRefused, SendUnauthorized, SendRejected, Moves, Posted, LastPost
<1>1. Active(s) /\ mails = 0 /\ posts[s] < MaxPosts
  BY DEF Active, MailKnown, PostsLeft
<1>2. /\ UNCHANGED <<row, claims, stale>>
      /\ \A t \in Senders : t # s => phase'[t] = phase[t] /\ posts'[t] = posts[t]
  OBVIOUS
<1>3. /\ phase'[s] \in Phase
      /\ mails' \in {0, 1}
      /\ phase'[s] \in {"rendering", "sending", "failed"} => mails' = 0
      /\ phase'[s] = "accepted" => mails' = 1
  <2>1. CASE RenderBrief(s) \/ RenderFails(s) \/ TokenFails(s)
    BY <2>1, <1>1 DEF Phase
  <2>2. CASE SendAccepted(s) \/ SendUncertain(s)
    BY <2>2, <1>1 DEF Phase
  <2>3. CASE SendRefused(s) \/ SendRejected(s)
    BY <2>3, <1>1 DEF Phase
  <2>4. CASE SendUnauthorized(s)
    <3>1. phase'[s] \in {"failed", "sending"} /\ mails' = 0
      BY <2>4, <1>1
    <3> QED BY <3>1 DEF Phase
  <2> QED BY <2>1, <2>2, <2>3, <2>4
<1>4. /\ posts'[s] \in 0 .. MaxPosts
      /\ phase'[s] \in {"rendering", "sending"} => posts'[s] < MaxPosts
  BY <1>1, LimitsAssumption
<1>5. TypeOK'
  <2>1. refreshed' \in [Senders -> BOOLEAN]
    BY Zenon
  <2>2. phase' \in [Senders -> Phase]
    BY <1>3
  <2>3. posts' \in [Senders -> 0 .. MaxPosts]
    BY <1>4
  <2> QED BY <1>2, <1>3, <2>1, <2>2, <2>3
<1>6. \A t \in Senders : t # s => phase[t] = "idle"
  BY <1>1 DEF Alone, Active
<1>7. Alone'
  BY <1>1, <1>2, <1>6 DEF Alone, Active
<1>8. MailKnown'
  BY <1>1, <1>2, <1>3, <1>6, <1>7 DEF MailKnown, Alone, Active
<1>9. PostsLeft'
  BY <1>2, <1>4, <1>6 DEF PostsLeft
<1> QED BY <1>2, <1>5, <1>7, <1>8, <1>9 DEF ClaimsCounted

LEMMA EndKeepsInv ==
    ASSUME BriefInv, NEW s \in Senders, Mark(s) \/ Crash(s)
    PROVE  BriefInv'
<1> USE DEF BriefInv, TypeOK
<1>1. /\ phase'[s] = "idle" /\ Active(s)
      /\ \A t \in Senders : t # s => phase'[t] = phase[t]
      /\ phase' \in [Senders -> Phase]
      /\ UNCHANGED <<claims, stale, mails, posts, refreshed>>
  BY DEF Mark, Crash, Active, Phase
<1>2. \A t \in Senders : phase'[t] = "idle"
  BY <1>1 DEF Alone, Active
<1>3. row' = row \/ (row' = phase[s] /\ phase[s] \in {"accepted", "failed", "uncertain"})
  BY DEF Mark, MarkRow, Crash
<1>4. TypeOK'
  BY <1>1, <1>3 DEF Row
<1>5. MailKnown'
  BY <1>1, <1>2, <1>3 DEF MailKnown
<1> QED BY <1>1, <1>2, <1>3, <1>4, <1>5 DEF Alone, Active, PostsLeft, ClaimsCounted

THEOREM BriefInvariant == Spec => []BriefInv
<1>1. BriefInv /\ [Next]_vars => BriefInv'
  <2> SUFFICES ASSUME BriefInv, [Next]_vars PROVE BriefInv'
    OBVIOUS
  <2>1. CASE UNCHANGED vars
    BY <2>1 DEF vars, BriefInv, TypeOK, Alone, Active, MailKnown, PostsLeft, ClaimsCounted
  <2>2. CASE Age
    BY <2>2, RowStepKeepsInv
  <2>3. ASSUME NEW s \in Senders, Claim(s) \/ CloseAbandoned(s) \/ Work(s) \/ Crash(s)
        PROVE  BriefInv'
    BY <2>3, ClaimKeepsInv, RowStepKeepsInv, SendKeepsInv, EndKeepsInv DEF Work, Sends
  <2> QED BY <2>1, <2>2, <2>3 DEF Next
<1> QED BY InitBriefInv, <1>1, PTL DEF Spec

-----------------------------------------------------------------------------
(* Theorems.                                                                *)

\* The row, the calls and their counters are well typed.
THEOREM BriefTypeCorrect == Spec => []TypeOK
<1>1. BriefInv => TypeOK
  BY DEF BriefInv
<1> QED BY <1>1, BriefInvariant, PTL

\* At most one mail a day, and a FAILED or ACCEPTED row that tells the truth.
THEOREM BriefIsSafe == Spec => [](AtMostOneMail /\ VerdictIsTrue /\ BoundedClaims)
<1>1. BriefInv => AtMostOneMail /\ VerdictIsTrue /\ BoundedClaims
  BY DEF BriefInv, MailKnown, ClaimsCounted, AtMostOneMail, VerdictIsTrue, BoundedClaims
<1> QED BY <1>1, BriefInvariant, PTL

\* The mail of a day is tried three times at most, however many senders overlap and die.
THEOREM ClaimsAreBounded == Spec => []BoundedClaims
BY BriefIsSafe, PTL

\* A call that comes back after its claim was closed changes nothing.
THEOREM LastWordHolds == Spec => LastWordOfTheDay
<1> DEFINE Final == (row \in {"accepted", "uncertain"}) => UNCHANGED row
<1>1. [Next]_vars => [Final]_vars
  BY DEF Next, Age, Claim, MayClaim, CloseAbandoned, Abandoned, Work, Post, RenderBrief,
         RenderFails, TokenFails, SendAccepted, SendUncertain, SendRefused,
         SendUnauthorized, SendRejected, Moves, Mark, MarkRow, Crash
<1>2. Spec => [][Final]_vars
  BY <1>1, PTL DEF Spec
<1> QED BY <1>2 DEF LastWordOfTheDay

\* Rows, calls and the sendMail loop implement the promise of BriefDelivery.
THEOREM BriefKeepsPromise == Spec => DeliversAsPromised
<1> USE DEF Verdict
<1>1. Init => Promise!Init
  BY DEF Init, Promise!Init
<1>2. BriefInv /\ [Next]_vars => [Promise!Next]_(Promise!bvars)
  <2> SUFFICES ASSUME BriefInv, [Next]_vars
               PROVE  Promise!Next \/ UNCHANGED <<Verdict, mails>>
    BY DEF Promise!bvars
  <2> USE DEF Promise!Next
  <2>1. CASE UNCHANGED vars \/ Age
    BY <2>1 DEF vars, Age
  <2>2. ASSUME NEW s \in Senders, Claim(s) PROVE Promise!Try
    BY <2>2 DEF Claim, MayClaim, Promise!Try
  <2>3. ASSUME NEW s \in Senders, CloseAbandoned(s) PROVE Promise!GiveUp
    BY <2>3 DEF CloseAbandoned, Abandoned, Promise!GiveUp
  <2>4. ASSUME NEW s \in Senders, Sends(s)
        PROVE  Promise!Send \/ UNCHANGED <<Verdict, mails>>
    <3>1. UNCHANGED row /\ mails' \in {mails, mails + 1}
      BY <2>4 DEF Sends, Post, RenderBrief, RenderFails, TokenFails, SendAccepted,
                  SendUncertain, SendRefused, SendUnauthorized, SendRejected, Moves
    <3>2. Active(s) /\ mails = 0
      BY <2>4 DEF Sends, Post, RenderBrief, RenderFails, TokenFails, SendAccepted,
                  SendUncertain, SendRefused, SendUnauthorized, SendRejected, Moves,
                  BriefInv, TypeOK, MailKnown, Active
    <3>3. row \in {"dispatching", "uncertain"}
      BY <3>2 DEF BriefInv, TypeOK, Row, Alone
    <3> QED BY <3>1, <3>2, <3>3 DEF Promise!Send
  <2>5. ASSUME NEW s \in Senders, Mark(s)
        PROVE  Promise!FailKnowingly \/ Promise!Accept \/ Promise!GiveUp
               \/ UNCHANGED <<Verdict, mails>>
    BY <2>5 DEF Mark, MarkRow, BriefInv, TypeOK, MailKnown,
                Promise!FailKnowingly, Promise!Accept, Promise!GiveUp
  <2>6. ASSUME NEW s \in Senders, Crash(s) PROVE UNCHANGED <<Verdict, mails>>
    BY <2>6 DEF Crash
  <2> QED BY <2>1, <2>2, <2>3, <2>4, <2>5, <2>6 DEF Next, Work, Sends
<1> QED BY <1>1, <1>2, BriefInvariant, PTL DEF Spec, DeliversAsPromised, Promise!Spec
=============================================================================
