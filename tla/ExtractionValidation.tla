------------------------- MODULE ExtractionValidation -------------------------
(***************************************************************************)
(* The evidence a language model extracts from an email and its            *)
(* deterministic validation: an error refuses it, a doubt asks a human.    *)
(*                                                                         *)
(* A clock is what the email writes of a time (text) and what the model    *)
(* made of it (value).  Texts that are blank or not in the email, link     *)
(* references that are not the email's and confidences out of range are    *)
(* one error, ungrounded; the confidences are one, sure.                   *)
(***************************************************************************)
EXTENDS CompanyResolution

Clock == [text : BOOLEAN, value : {"none", "naive", "aware"}]

\* zone: explicit with its text, silent, or one of the two without the other.
\* role: a role of punctuation only has no normalized name.
Extraction ==
    [relevant : BOOLEAN, type : {"unknown", "interview", "interview_reschedule", "assessment"},
     start : Clock, deadline : Clock,
     zone : {"explicit", "silent", "textless", "unclaimed"},
     action : {"none", "stated", "unstated", "unasked"},
     name : Names \cup {NoName}, role : {"none", "named", "punctuation"},
     sure : BOOLEAN, grounded : BOOLEAN]

NoClock == [text |-> FALSE, value |-> "none"]

HasTime(x) == x.start # NoClock \/ x.deadline # NoClock
HasFacts(x) == HasTime(x) \/ x.action # "none" \/ x.name # NoName \/ x.role # "none"
Naive(x) == "naive" \in {x.start.value, x.deadline.value}

\* The issues ExtractionValidator.validate raises, by their code.
Raised(x) ==
    [UNGROUNDED |-> ~x.grounded,
     LOW_CONFIDENCE |-> ~x.sure /\ (x.relevant \/ HasTime(x) \/ x.name # NoName),
     UNKNOWN_EVENT |-> x.relevant /\ x.type = "unknown",
     IRRELEVANT_FACT_CONFLICT |-> ~x.relevant /\ (x.type # "unknown" \/ HasFacts(x)),
     ACTION_TEXT_MISSING |-> x.action = "unstated",
     ACTION_TEXT_CONFLICT |-> x.action = "unasked",
     DATETIME_SOURCE_MISSING |-> x.start.value # "none" /\ ~x.start.text,
     DATETIME_UNRESOLVED |-> x.start.value = "none" /\ x.start.text,
     DEADLINE_SOURCE_MISSING |-> x.deadline.value # "none" /\ ~x.deadline.text,
     DEADLINE_UNRESOLVED |-> x.deadline.value = "none" /\ x.deadline.text,
     TIMEZONE_CONFLICT |-> x.zone \in {"textless", "unclaimed"},
     DATETIME_NOT_AWARE |-> x.zone \in {"explicit", "textless"} /\ Naive(x),
     TIMEZONE_AMBIGUOUS |-> x.zone = "silent" /\ HasTime(x),
     RESCHEDULE_DATETIME_MISSING |-> x.type = "interview_reschedule" /\ x.start.value = "none"]

Issues(x) == LET raised == Raised(x) IN {code \in DOMAIN raised : raised[code]}

\* Issues of severity REVIEW; the others are errors.
Doubts == {"LOW_CONFIDENCE", "UNKNOWN_EVENT", "ACTION_TEXT_MISSING", "DATETIME_UNRESOLVED",
           "DEADLINE_UNRESOLVED", "TIMEZONE_AMBIGUOUS", "RESCHEDULE_DATETIME_MISSING"}

ValidationStatus(x) ==
    LET issues == Issues(x)
    IN  IF issues = {} THEN "valid"
        ELSE IF issues \subseteq Doubts THEN "needs_review" ELSE "invalid"
=============================================================================
