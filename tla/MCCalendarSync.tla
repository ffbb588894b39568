---------------------------- MODULE MCCalendarSync ----------------------------
(* Instances of CalendarSync for TLC: the emails to process, those that may     *)
(* have been processed before, and what an email may be read as.  Every type of *)
(* evidence that takes a path of its own is there.                              *)
EXTENDS CalendarSync, TLC

CONSTANTS Fresh, Late, Old

MCEmails == Fresh \cup Late \cup Old
MCEarlier == Old

Read(type, time) == [type |-> type, time |-> time, separate |-> FALSE]

\* Invitations and reschedules.
MCInvitations ==
    {Read("interview", t) : t \in Times} \cup {Read("interview_reschedule", t) : t \in Times}

\* With the decisions, an undated invitation and mail that is no event.
MCAnything ==
    MCInvitations \cup
    {Read(type, NoTime) : type \in {"interview", "rejection", "offer", "general_update"}}

MCFirstInvitations ==
    /\ \A e \in Old : linked[e] = None
    /\ \A e \in Fresh \cup Late : evidence[e] \in MCInvitations \cup {NoEvidence}

MCCalendarStages == {"linking", "creating", "updating", "saving", "finishing"}

\* Several faults, up to three, or two with a crash, only hit invitations that are processed
\* one at a time and are the first mail about the company.  Once emails overlap, or a pass
\* goes on with an overtaken plan, only crashes are of interest, and only for the rows.
\* A late email arrives when an Outlook event was deleted and nothing else went wrong.
MCFaults ==
    LET faults == crashes + losses + deletes + failures
    IN  /\ faults <= 1 \/ (faults <= 3 - crashes /\ ~overlapped /\ MCFirstInvitations)
        /\ overlapped => losses + deletes + failures = 0
        /\ overlapped /\ crashes > 0 => /\ \E e \in Old : linked[e] = None
                                       /\ \A e \in Emails : at[e] \notin MCCalendarStages
        /\ (\E e \in Late : at[e] # "idle") =>
               /\ ~overlapped /\ MCFirstInvitations
               /\ faults = 1 /\ deletes = 1
               /\ \A e \in Fresh : at[e] # "idle"

MCSymmetry == Permutations(Fresh) \cup Permutations(Old) \cup Permutations(Times)
=============================================================================
