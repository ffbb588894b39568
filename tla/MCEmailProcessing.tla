-------------------------- MODULE MCEmailProcessing --------------------------
(***************************************************************************)
(* Model-checking instances of EmailProcessing.                            *)
(***************************************************************************)
EXTENDS EmailProcessing, TLC

CONSTANTS e1

\* Every operation is for the one email: the contention the module is about.
MCEmails == {e1}
MCTarget == [o \in Ops |-> e1]
=============================================================================
