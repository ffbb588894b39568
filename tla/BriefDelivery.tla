---------------------------- MODULE BriefDelivery ----------------------------
(***************************************************************************)
(* What the Daily Brief promises its reader for one account and one local  *)
(* date: at most one mail, and an audit verdict that never claims more     *)
(* than is known.  The verdict "unsent" may only follow a try that sent    *)
(* nothing, "accepted" only a try that sent the mail; "uncertain" covers   *)
(* both, and like "accepted" it is the last word of the day.               *)
(***************************************************************************)
EXTENDS Naturals

VARIABLES
    verdict,  \* what the audit row says of the day's brief
    mails     \* mails of the day that Microsoft Graph took for delivery

bvars == <<verdict, mails>>

Init == verdict = "unsent" /\ mails = 0

Try == verdict = "unsent" /\ verdict' = "dispatching" /\ UNCHANGED mails

\* A try that was given up as uncertain may still send its mail.
Send == verdict \in {"dispatching", "uncertain"} /\ mails = 0 /\ mails' = 1 /\ UNCHANGED verdict

FailKnowingly == verdict = "dispatching" /\ mails = 0 /\ verdict' = "unsent" /\ UNCHANGED mails

Accept == verdict = "dispatching" /\ mails = 1 /\ verdict' = "accepted" /\ UNCHANGED mails

GiveUp == verdict = "dispatching" /\ verdict' = "uncertain" /\ UNCHANGED mails

Next == Try \/ Send \/ FailKnowingly \/ Accept \/ GiveUp

Spec == Init /\ [][Next]_bvars
=============================================================================
