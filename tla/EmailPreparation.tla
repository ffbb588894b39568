--------------------------- MODULE EmailPreparation ---------------------------
(***************************************************************************)
(* What the preparation of an email hands to the workflow: whose mail it   *)
(* is, and whether it may be about recruitment at all.  The mailbox gets   *)
(* its mail forwarded from a personal one, so the sender that counts is    *)
(* often the one quoted in the body.                                       *)
(*                                                                         *)
(* Texts are abstracted to what the rules find in them; links, encryption  *)
(* and redaction only change the text.                                     *)
(***************************************************************************)
CONSTANTS
    Domains,      \* hosts of sender addresses
    NoDomain,     \* the address is missing or has no host
    Personal,     \* _CONSUMER_MAILBOX_DOMAINS and their subdomains
    Recruiting    \* hosts of _RECRUITMENT_DOMAIN

ASSUME DomainAssumption ==
    /\ NoDomain \notin Domains
    /\ Personal \subseteq Domains /\ Recruiting \subseteq Domains

\* outer: the Graph author; inner: the deepest quoted author; marked: a forward says so
\* itself; terms and clutter: the rules of the prefilter that match; bare: the sanitizer
\* leaves a www. or a foreign scheme.
Mail == [outer : Domains \cup {NoDomain}, inner : Domains \cup {NoDomain},
         marked : BOOLEAN, terms : BOOLEAN, clutter : BOOLEAN, bare : BOOLEAN]

\* _adopt_forwarded_envelope: a forward out of a personal mailbox is, a reply that quotes
\* one is not, otherwise the marker decides.
AdoptsInner(m) ==
    /\ m.inner # NoDomain
    /\ \/ m.outer \in Personal /\ m.inner \notin Personal
       \/ (m.outer \in Personal <=> m.inner \in Personal) /\ m.marked

\* NormalizedEmail.sender_domain
SenderDomain(m) == IF AdoptsInner(m) THEN m.inner ELSE m.outer

\* RecruitmentPrefilter.classify: only clear non-recruitment mail is unlikely.
Classify(m) ==
    IF m.terms \/ {SenderDomain(m), m.outer} \cap Recruiting # {} THEN "likely_recruitment"
    ELSE IF m.clutter THEN "unlikely"
    ELSE "unknown"
=============================================================================
