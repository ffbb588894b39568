--------------------------- MODULE MCWorkflowGraph ---------------------------
(* A small instance of WorkflowGraph: a catalog in which a company has the    *)
(* domain of a personal mailbox and two share an alias once it is seeded      *)
(* again (which gives one company the other's name, and is refused for it),   *)
(* the ways mail is forwarded, every combination of clocks, zones and doubts, *)
(* and every company and role.                                                *)
EXTENDS WorkflowGraph

CONSTANTS sohu, tencent, alibaba,   \* companies
          n1, n2, n3, n4,           \* names
          sohuMail, tencentMail     \* domains

MCEntry(name, aliases, domains) ==
    [canonical |-> name, aliases |-> aliases, domains |-> domains, active |-> TRUE]

MCCatalog == [c \in {sohu, tencent} |->
                 IF c = sohu THEN MCEntry(n1, {}, {sohuMail})
                 ELSE MCEntry(n2, {n3}, {tencentMail})]

MCSeeds == [c \in {sohu, alibaba} |->
               IF c = sohu THEN MCEntry(n2, {}, {}) ELSE MCEntry(n4, {n3}, {})]

MCMail(outer, inner) ==
    [outer |-> outer, inner |-> inner, marked |-> FALSE, terms |-> TRUE, clutter |-> FALSE,
     bare |-> FALSE]

MCMails ==
    {MCMail(sohuMail, NoDomain), MCMail(sohuMail, tencentMail), MCMail(tencentMail, sohuMail)}
    \cup {[MCMail(sohuMail, NoDomain) EXCEPT !.terms = FALSE, !.clutter = TRUE],
          [MCMail(tencentMail, NoDomain) EXCEPT !.bare = TRUE]}

MCClock(text, value) == [text |-> text, value |-> value]
MCClocks == {MCClock(FALSE, "none"), MCClock(TRUE, "none"), MCClock(TRUE, "naive"),
             MCClock(TRUE, "aware")}

MCPlain == [relevant |-> TRUE, type |-> "assessment", start |-> NoClock, deadline |-> NoClock,
            zone |-> "silent", action |-> "none", name |-> n2, role |-> "none", sure |-> TRUE,
            grounded |-> TRUE]

\* Clocks, zones and doubts of an email whose company is known ...
MCTimed ==
    {[MCPlain EXCEPT !.type = type, !.start = start, !.deadline = deadline, !.zone = zone,
                     !.sure = sure] :
        type \in {"interview_reschedule", "assessment"}, start \in MCClocks,
        deadline \in MCClocks \ {MCClock(TRUE, "naive")},
        zone \in {"explicit", "silent"}, sure \in BOOLEAN}

\* ... and companies, roles and refusals of one without a time.
MCNamed ==
    {[MCPlain EXCEPT !.name = name, !.role = role] :
        name \in {n1, n2, n3, NoName}, role \in {"none", "punctuation"}}
    \cup {[MCPlain EXCEPT !.relevant = FALSE, !.type = "unknown", !.name = NoName],
          [MCPlain EXCEPT !.relevant = FALSE], [MCPlain EXCEPT !.grounded = FALSE],
          [MCPlain EXCEPT !.action = "unstated"], [MCPlain EXCEPT !.zone = "textless"]}

MCExtracted == MCTimed \cup MCNamed
=============================================================================
