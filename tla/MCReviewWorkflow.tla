-------------------------- MODULE MCReviewWorkflow --------------------------
EXTENDS ReviewWorkflow, TLC

CONSTANTS d1, d2

\* Either decision answers the first question, and one of them also the second.
MCAllowed == [q \in 1 .. MaxQuestions |-> IF q = 1 THEN {d1, d2} ELSE {d1}]

Symmetry == Permutations(Hosts)
=============================================================================
