-------------------------- MODULE CompanyResolution --------------------------
(***************************************************************************)
(* The company directory and the resolution of an email's company by exact *)
(* matches in it: a name that is canonical, else an alias, and the domain  *)
(* of the sender unless it is a personal mailbox.                          *)
(*                                                                         *)
(* Normalized names and hosts are compared; confidences, display names,    *)
(* parents and the table of attempts are left out.                         *)
(***************************************************************************)
EXTENDS EmailPreparation, Naturals, FiniteSets

CONSTANTS
    Companies,   \* ids of companies
    NoCompany,   \* company_id is None
    Names,       \* normalized company names
    NoName       \* the email names no company, or only punctuation

ASSUME CompanyAssumption == NoCompany \notin Companies /\ NoName \notin Names

\* A row of companies with its aliases and domains, and what a seed says of it.
Entry == [canonical : Names, aliases : SUBSET Names, domains : SUBSET Domains,
          active : BOOLEAN]

\* companies: the companies that have a row.
IsDirectory(directory) ==
    /\ DOMAIN directory \subseteq Companies
    /\ \A c \in DOMAIN directory : directory[c] \in Entry

\* normalized_canonical_name is unique.
Distinct(directory) ==
    \A c, d \in DOMAIN directory : directory[c].canonical = directory[d].canonical => c = d

\* upsert_seed: the company's own row is replaced, aliases and domains are only added.
Upserted(directory, c, seed) ==
    LET known == IF c \in DOMAIN directory THEN directory[c] ELSE seed
        row == [seed EXCEPT !.aliases = @ \cup known.aliases, !.domains = @ \cup known.domains]
    IN  [d \in DOMAIN directory \cup {c} |-> IF d = c THEN row ELSE directory[d]]

-----------------------------------------------------------------------------

Active(directory) == {c \in DOMAIN directory : directory[c].active}

\* find_by_normalized_canonical_name, find_by_normalized_alias and find_by_domain.
Canonical(directory, name) == {c \in Active(directory) : directory[c].canonical = name}
Alias(directory, name) == {c \in Active(directory) : name \in directory[c].aliases}
OfDomain(directory, domain) == {c \in Active(directory) : domain \in directory[c].domains}

\* An alias counts only if the name is nobody's canonical name.
NameMatches(directory, name) ==
    IF Canonical(directory, name) # {} THEN Canonical(directory, name)
    ELSE Alias(directory, name)

\* Fault: the domain of a personal mailbox counts.
DomainMatchesAnyMailbox(directory, domain) == OfDomain(directory, domain)

\* Many write from one personal mailbox: its domain says nothing.
DomainMatches(directory, domain) ==
    IF domain \in Personal THEN {} ELSE OfDomain(directory, domain)

Resolution == [status : {"resolved", "ambiguous", "unresolved"},
               company : Companies \cup {NoCompany}, candidates : SUBSET Companies]

\* CompanyResolver.resolve: the one company that all matches agree on.
Resolve(directory, name, domain) ==
    LET matches == NameMatches(directory, name) \cup DomainMatches(directory, domain)
    IN  IF Cardinality(matches) > 1
        THEN [status |-> "ambiguous", company |-> NoCompany, candidates |-> matches]
        ELSE IF matches = {}
        THEN [status |-> "unresolved", company |-> NoCompany, candidates |-> {}]
        ELSE [status |-> "resolved", company |-> CHOOSE c \in matches : TRUE,
              candidates |-> {}]
=============================================================================
