----------------------------- MODULE DailyBrief -----------------------------
(***************************************************************************)
(* The day's brief of one account: the daily_briefs row claimed by         *)
(* claim_dispatch, the calls of send_today that race for it (the hourly    *)
(* timer, operations of the console and their retries), and the sendMail   *)
(* loop of GraphBriefMailClient.  Microsoft Graph is external: a request   *)
(* may be taken for delivery although its answer is lost or an error.      *)
(*                                                                         *)
(* Time is the comparison resolve_dispatch_claim makes: stale says that    *)
(* ten minutes have passed since the row was claimed.  A sender may still  *)
(* be working when its claim goes stale.                                   *)
(***************************************************************************)
EXTENDS Naturals

CONSTANTS
    Senders,      \* calls of send_today that may run at once
    MaxDispatch,  \* MAX_DISPATCH_ATTEMPTS, claims of one day's row
    MaxPosts      \* graph_max_retry_attempts, requests of one send_brief

ASSUME LimitsAssumption == MaxDispatch \in Nat \ {0} /\ MaxPosts \in Nat \ {0}

VARIABLES
    row,        \* daily_briefs.status, "absent" before the first claim
    claims,     \* daily_briefs.attempt_count
    stale,      \* now - dispatch_started_at >= DISPATCH_LEASE
    mails,      \* requests Microsoft Graph took for delivery
    phase,      \* where each sender is in send_today
    posts,      \* requests the sender's send_brief has made
    refreshed   \* whether its access token was refreshed after a 401

vars == <<row, claims, stale, mails, phase, posts, refreshed>>

Row == {"absent", "dispatching", "accepted", "failed", "uncertain"}

Phase == {"idle",
          "rendering",  \* the row is claimed, the brief being rendered
          "sending",    \* in the sendMail loop
          "accepted",   \* the loop returned: to be marked ACCEPTED
          "failed",     \* an ApplicationError: to be marked FAILED
          "uncertain"}  \* an uncertain outcome: to be marked UNCERTAIN

Init ==
    /\ row = "absent" /\ claims = 0 /\ stale = FALSE /\ mails = 0
    /\ phase = [s \in Senders |-> "idle"]
    /\ posts = [s \in Senders |-> 0]
    /\ refreshed = [s \in Senders |-> FALSE]

-----------------------------------------------------------------------------
(* claim_dispatch.  Definitions whose comment starts with "Fault:" are     *)
(* wrong on purpose: each can take the place of the one after it, to show  *)
(* that a property can fail.                                               *)

\* Fault: a stale dispatch is claimed again instead of being closed.
MayClaimStale ==
    \/ row = "absent"
    \/ row = "failed" /\ claims < MaxDispatch
    \/ row = "dispatching" /\ stale

\* Fault: the claim limit is off by one.
MayClaimOnceMore == row = "absent" \/ (row = "failed" /\ claims <= MaxDispatch)

MayClaim == row = "absent" \/ (row = "failed" /\ claims < MaxDispatch)

\* Fault: a claim that went stale is never closed.
NeverAbandoned == FALSE

Abandoned == row = "dispatching" /\ stale

Claim(s) ==
    /\ phase[s] = "idle" /\ MayClaim
    /\ row' = "dispatching"
    /\ claims' = claims + 1
    /\ stale' = FALSE
    /\ phase' = [phase EXCEPT ![s] = "rendering"]
    /\ posts' = [posts EXCEPT ![s] = 0]
    /\ refreshed' = [refreshed EXCEPT ![s] = FALSE]
    /\ UNCHANGED mails

\* The claim of another call finds the row stale, closes it and is refused.
CloseAbandoned(s) ==
    /\ phase[s] = "idle" /\ Abandoned
    /\ row' = "uncertain"
    /\ UNCHANGED <<claims, stale, mails, phase, posts, refreshed>>

Age ==
    /\ row = "dispatching" /\ ~stale
    /\ stale' = TRUE
    /\ UNCHANGED <<row, claims, mails, phase, posts, refreshed>>

-----------------------------------------------------------------------------
(* send_today between the claim and the mark.                               *)

Moves(s, from, to) ==
    /\ phase[s] = from
    /\ phase' = [phase EXCEPT ![s] = to]
    /\ UNCHANGED <<row, claims, stale>>

RenderBrief(s) ==
    /\ Moves(s, "rendering", "sending")
    /\ UNCHANGED <<mails, posts, refreshed>>

\* Nothing was sent yet, whatever was raised.
RenderFails(s) ==
    /\ Moves(s, "rendering", "failed")
    /\ UNCHANGED <<mails, posts, refreshed>>

\* get_access_token raised: an ApplicationError, or anything else after send_started.
TokenFails(s) ==
    /\ Moves(s, "sending", "failed") \/ Moves(s, "sending", "uncertain")
    /\ UNCHANGED <<mails, posts, refreshed>>

LastPost(s) == posts[s] + 1 >= MaxPosts

Posted(s) == posts' = [posts EXCEPT ![s] = @ + 1]

\* 202: Graph took the mail.
SendAccepted(s) ==
    /\ Moves(s, "sending", "accepted")
    /\ mails' = mails + 1
    /\ Posted(s) /\ UNCHANGED refreshed

\* A transport error after the connection, or a 5xx: Graph may have taken the mail.
SendUncertain(s) ==
    /\ Moves(s, "sending", "uncertain")
    /\ mails' \in {mails, mails + 1}
    /\ Posted(s) /\ UNCHANGED refreshed

\* No connection, or 429: Graph did not take the mail; the loop goes on to its limit.
SendRefused(s) ==
    /\ Moves(s, "sending", IF LastPost(s) THEN "failed" ELSE "sending")
    /\ Posted(s) /\ UNCHANGED <<mails, refreshed>>

\* 401: one forced refresh of the token, then the request is repeated.
SendUnauthorized(s) ==
    /\ Moves(s, "sending", IF refreshed[s] \/ LastPost(s) THEN "failed" ELSE "sending")
    /\ refreshed' = [refreshed EXCEPT ![s] = TRUE]
    /\ Posted(s) /\ UNCHANGED mails

\* Any other status: the request was rejected.
SendRejected(s) ==
    /\ Moves(s, "sending", "failed")
    /\ Posted(s) /\ UNCHANGED <<mails, refreshed>>

-----------------------------------------------------------------------------
(* _set_status: only a row still DISPATCHING is marked; otherwise it raises. *)

MarkRow(outcome) == row' = IF row = "dispatching" THEN outcome ELSE row

Mark(s) ==
    /\ phase[s] \in {"accepted", "failed", "uncertain"}
    /\ MarkRow(phase[s])
    /\ phase' = [phase EXCEPT ![s] = "idle"]
    /\ UNCHANGED <<claims, stale, mails, posts, refreshed>>

\* The call dies, is cancelled, or cannot write its mark.
Crash(s) ==
    /\ phase[s] # "idle"
    /\ phase' = [phase EXCEPT ![s] = "idle"]
    /\ UNCHANGED <<row, claims, stale, mails, posts, refreshed>>

Post(s) ==
    \/ SendAccepted(s) \/ SendUncertain(s) \/ SendRefused(s)
    \/ SendUnauthorized(s) \/ SendRejected(s)

Work(s) == RenderBrief(s) \/ RenderFails(s) \/ TokenFails(s) \/ Post(s) \/ Mark(s)

Next ==
    \/ Age
    \/ \E s \in Senders : Claim(s) \/ CloseAbandoned(s) \/ Work(s) \/ Crash(s)

Spec == Init /\ [][Next]_vars

\* The hourly timer calls send_today again, time passes, calls make progress.
FairSpec ==
    /\ Spec
    /\ WF_vars(Age)
    /\ \A s \in Senders : WF_vars(Work(s)) /\ SF_vars(CloseAbandoned(s))

-----------------------------------------------------------------------------
(* Properties.                                                              *)

\* The values the row and the calls range over.
TypeOK ==
    /\ row \in Row
    /\ claims \in Nat
    /\ stale \in BOOLEAN
    /\ mails \in Nat
    /\ phase \in [Senders -> Phase]
    /\ posts \in [Senders -> 0 .. MaxPosts]
    /\ refreshed \in [Senders -> BOOLEAN]

\* The reader gets at most one brief a day, whatever calls race, crash, go stale,
\* are retried or get no answer from Graph.
AtMostOneMail == mails <= 1

\* A row says FAILED only when no mail was taken, and ACCEPTED only when one was.
VerdictIsTrue ==
    /\ row = "failed" => mails = 0
    /\ row = "accepted" => mails = 1

\* The day's row is claimed at most MAX_DISPATCH_ATTEMPTS times.
BoundedClaims == claims <= MaxDispatch

\* ACCEPTED and UNCERTAIN are the last word of the day, even for a call whose claim
\* was closed under it and which comes back to mark its outcome.
LastWordOfTheDay ==
    [][(row \in {"accepted", "uncertain"}) => UNCHANGED row]_vars

\* A dispatch that died is closed, as long as a later call comes the same day.
AbandonedDispatchCloses == row = "dispatching" ~> row # "dispatching"

\* The row and the mails implement the promise of BriefDelivery.
Verdict == IF row \in {"absent", "failed"} THEN "unsent" ELSE row

Promise == INSTANCE BriefDelivery WITH verdict <- Verdict

DeliversAsPromised == Promise!Spec
=============================================================================
