------------------------ MODULE ReviewWorkflowProofs ------------------------
(***************************************************************************)
(* Proofs about ReviewWorkflow, for any number of runs, questions, hosts   *)
(* and decisions: the types; that an email which waits can be moved on;    *)
(* that a workflow goes on only with an answer its own row holds, given to *)
(* the question that takes it; and that a run which ended rests.           *)
(*                                                                         *)
(* An invocation steps on its own, so the first part says once where a     *)
(* step takes it (Arrivals), what it does to the rows (RowsGrow) and to    *)
(* the runs (StatusMoves); the invariants are then followed step by step.  *)
(* A decision does not name its question: that the thread still asks it is *)
(* the invariant PathInv, about checkpoints that lag behind their rows.    *)
(***************************************************************************)
EXTENDS ReviewWorkflow, SequenceTheorems, TLAPS

HasRow(r) == \E q \in Questions : rows[r][q] # <<>>
RunOpen(r) == \E q \in Questions : OpenRow(r, q)
Live(r) == status[r] \in {"running", "needs_review"}
Asking(i) == i.at \in {"marking", "answering"}

Shape == [Runs -> [Questions -> Seq(Row)]]

\* The nodes that ask know their question, and the row they opened.
PlaceInv ==
    /\ \A r \in Runs : checkpoint[r].node = "ask" => checkpoint[r].asked > 0
    /\ \A i \in invocations :
           /\ i.at \in {"posted", "loading"} => i.item = 0
           /\ i.at \in {"opening", "marking", "answering"} => i.asked > 0
           /\ Asking(i) => i.item \in 1 .. Len(rows[i.run][i.asked])

TypeInv == TypeOK /\ PlaceInv

\* Steps of one invocation.
Acts(i) == Proceed(i) \/ Raise(i) \/ Crash(i)

-----------------------------------------------------------------------------
(* The rows of a question.                                                  *)

Replaced(R, r, q, c) == [R EXCEPT ![r] = [R[r] EXCEPT ![q] = c]]

\* One chain of reviews takes the place of another.
LEMMA ReplacedChain ==
    ASSUME NEW R \in Shape, NEW r \in Runs, NEW q \in Questions, NEW c \in Seq(Row)
    PROVE  /\ Replaced(R, r, q, c) \in Shape
           /\ Replaced(R, r, q, c)[r][q] = c
           /\ \A t \in Runs, p \in Questions :
                  <<t, p>> # <<r, q>> => Replaced(R, r, q, c)[t][p] = R[t][p]
  BY DEF Shape, Replaced

\* A chain with an open row appended.
LEMMA AppendedRow ==
    ASSUME NEW b \in Seq(Row)
    PROVE  /\ Append(b, NoDecision) \in Seq(Row)
           /\ Len(Append(b, NoDecision)) = Len(b) + 1
           /\ Append(b, NoDecision)[Len(b) + 1] = NoDecision
           /\ \A n \in 1 .. Len(b) : Append(b, NoDecision)[n] = b[n]
  BY DEF Row

LEMMA InitTypeInv == Init => TypeInv
  <1> SUFFICES ASSUME Init PROVE TypeInv
    OBVIOUS
  <1>1. rows \in Shape /\ \A r \in Runs, q \in Questions : Len(rows[r][q]) <= MaxRows
    BY ReviewAssumption DEF Init, Shape, Row
  <1> QED
    BY <1>1, ReviewAssumption
    DEF Init, TypeInv, TypeOK, PlaceInv, Position, Shape, Final, Asking

-----------------------------------------------------------------------------
(* Type correctness.                                                        *)

\* What an invocation keeps from its first to its last step.
Kin(i) == {j \in Invocation : j.run = i.run /\ j.by = i.by /\ j.alone = i.alone}

\* The decision it brings, and the row that was given for.
Carries(i, j) ==
    /\ j.decision = i.decision /\ j.question = i.question /\ j.seen = i.seen
    /\ j.again = i.again

Stands(j, at, asked, item, saved) ==
    j.at = at /\ j.asked = asked /\ j.item = item /\ j.saved = saved

\* The invocation goes on at a stage, with a question and a row of it.
Turn(i, at, asked, item, saved) ==
    \E j \in Kin(i) : Becomes(i, j) /\ Carries(i, j) /\ Stands(j, at, asked, item, saved)

\* ... and drops the decision it brought.
BareTurn(i, at, asked, item, saved) ==
    \E j \in Kin(i) :
        Becomes(i, j) /\ j.decision = NoDecision /\ Stands(j, at, asked, item, saved)

\* An invocation whose decision is dropped is otherwise the same.
LEMMA Dropped ==
    ASSUME NEW i \in Invocation
    PROVE  /\ Without(i) \in Invocation /\ Without(i).decision = NoDecision
           /\ Without(i).run = i.run /\ Without(i).by = i.by /\ Without(i).alone = i.alone
           /\ Without(i).at = i.at /\ Without(i).asked = i.asked
           /\ Without(i).item = i.item /\ Without(i).saved = i.saved
  <1>1. NoDecision \in Row /\ 0 \in 0 .. MaxQuestions /\ 0 \in 0 .. MaxRows
    BY ReviewAssumption DEF Row
  <1> QED BY <1>1 DEF Without, Invocation

\* Where each step of an invocation takes it.
LEMMA Turns ==
    ASSUME TypeInv, NEW i \in invocations
    PROVE  /\ LoadSourceEmail(i) => Turn(i, "working", i.asked, i.item, i.saved)
           /\ AdvanceRun(i) => Turn(i, "routing", i.asked, i.item, i.saved)
           /\ SaveCheckpoint(i) => Turn(i, i.at, i.asked, i.item, TRUE)
           /\ AskReview(i) => BareTurn(i, "opening", i.asked + 1, 0, FALSE)
           /\ \A outcome \in Final :
                  GraphEnds(i, outcome) => Turn(i, "ended", i.asked, i.item, i.saved)
           /\ OpenReview(i) =>
                  Turn(i, "marking", i.asked, Len(rows'[i.run][i.asked]), i.saved)
           /\ MarkRunNeedsReview(i) => Turn(i, "answering", i.asked, i.item, i.saved)
           /\ ResolveReview(i) => Turn(i, "working", i.asked, i.item, FALSE)
           /\ Interrupt(i) => Turn(i, "leaving", i.asked, i.item, i.saved)
           /\ ResumeGraph(i) =>
                  \/ checkpoint[i.run].node = "end" /\ Leaves(i)
                  \/ /\ checkpoint[i.run].node = "ask"
                     /\ Turn(i, "opening", checkpoint[i.run].asked, i.item, i.saved)
                  \/ /\ checkpoint[i.run].node = "work"
                     /\ BareTurn(i, "working", checkpoint[i.run].asked, i.item, i.saved)
  <1>1. /\ i \in Invocation /\ i.at \in Step /\ i.asked \in 0 .. MaxQuestions
        /\ i.item \in 0 .. MaxRows /\ i.saved \in BOOLEAN /\ i.run \in Runs
    BY DEF TypeInv, TypeOK, Invocation
  <1>2. LoadSourceEmail(i) => Turn(i, "working", i.asked, i.item, i.saved)
    <2> SUFFICES ASSUME LoadSourceEmail(i) PROVE Turn(i, "working", i.asked, i.item, i.saved)
      OBVIOUS
    <2> DEFINE j == [i EXCEPT !.at = "working"]
    <2>1. Becomes(i, j) /\ j \in Kin(i) /\ Carries(i, j)
      BY <1>1 DEF LoadSourceEmail, Kin, Carries, Invocation, Step
    <2> QED BY <1>1, <2>1 DEF Turn, Stands, Invocation
  <1>3. AdvanceRun(i) => Turn(i, "routing", i.asked, i.item, i.saved)
    <2> SUFFICES ASSUME AdvanceRun(i) PROVE Turn(i, "routing", i.asked, i.item, i.saved)
      OBVIOUS
    <2> DEFINE j == [i EXCEPT !.at = "routing"]
    <2>1. Becomes(i, j) /\ j \in Kin(i) /\ Carries(i, j)
      BY <1>1 DEF AdvanceRun, Kin, Carries, Invocation, Step
    <2> QED BY <1>1, <2>1 DEF Turn, Stands, Invocation
  <1>4. SaveCheckpoint(i) => Turn(i, i.at, i.asked, i.item, TRUE)
    <2> SUFFICES ASSUME SaveCheckpoint(i) PROVE Turn(i, i.at, i.asked, i.item, TRUE)
      OBVIOUS
    <2> DEFINE j == [i EXCEPT !.saved = TRUE]
    <2>1. Becomes(i, j) /\ j \in Kin(i) /\ Carries(i, j)
      BY <1>1 DEF SaveCheckpoint, Kin, Carries, Invocation, Step
    <2> QED BY <1>1, <2>1 DEF Turn, Stands, Invocation
  <1>5. AskReview(i) => BareTurn(i, "opening", i.asked + 1, 0, FALSE)
    <2> SUFFICES ASSUME AskReview(i) PROVE BareTurn(i, "opening", i.asked + 1, 0, FALSE)
      OBVIOUS
    <2> DEFINE b == Without(i)
    <2> DEFINE j == [b EXCEPT !.at = "opening", !.asked = @ + 1, !.item = 0, !.saved = FALSE]
    <2>1. Becomes(i, j)
      BY DEF AskReview
    <2>2. i.asked + 1 \in 0 .. MaxQuestions /\ 0 \in 0 .. MaxRows
      BY <1>1, ReviewAssumption DEF AskReview
    <2>3. /\ b \in Invocation /\ b.decision = NoDecision /\ b.run = i.run /\ b.by = i.by
          /\ b.alone = i.alone /\ b.asked = i.asked
      BY <1>1, Dropped
    <2> HIDE DEF b
    <2>4. /\ j \in Kin(i) /\ j.decision = NoDecision
          /\ Stands(j, "opening", i.asked + 1, 0, FALSE)
      BY <2>2, <2>3 DEF Kin, Stands, Invocation, Step
    <2> QED BY <2>1, <2>4 DEF BareTurn
  <1>7. MarkRunNeedsReview(i) => Turn(i, "answering", i.asked, i.item, i.saved)
    <2> SUFFICES ASSUME MarkRunNeedsReview(i) PROVE Turn(i, "answering", i.asked, i.item, i.saved)
      OBVIOUS
    <2> DEFINE j == [i EXCEPT !.at = "answering"]
    <2>1. Becomes(i, j) /\ j \in Kin(i) /\ Carries(i, j)
      BY <1>1 DEF MarkRunNeedsReview, Kin, Carries, Invocation, Step
    <2> QED BY <1>1, <2>1 DEF Turn, Stands, Invocation
  <1>8. ResolveReview(i) => Turn(i, "working", i.asked, i.item, FALSE)
    <2> SUFFICES ASSUME ResolveReview(i) PROVE Turn(i, "working", i.asked, i.item, FALSE)
      OBVIOUS
    <2> DEFINE j == [i EXCEPT !.at = "working", !.saved = FALSE]
    <2>1. Becomes(i, j) /\ j \in Kin(i) /\ Carries(i, j)
      BY <1>1 DEF ResolveReview, Kin, Carries, Invocation, Step
    <2> QED BY <1>1, <2>1 DEF Turn, Stands, Invocation
  <1>9. Interrupt(i) => Turn(i, "leaving", i.asked, i.item, i.saved)
    <2> SUFFICES ASSUME Interrupt(i) PROVE Turn(i, "leaving", i.asked, i.item, i.saved)
      OBVIOUS
    <2> DEFINE j == [i EXCEPT !.at = "leaving"]
    <2>1. Becomes(i, j) /\ j \in Kin(i) /\ Carries(i, j)
      BY <1>1 DEF Interrupt, Kin, Carries, Invocation, Step
    <2> QED BY <1>1, <2>1 DEF Turn, Stands, Invocation
  <1>6. ASSUME NEW outcome \in Final, GraphEnds(i, outcome)
        PROVE  Turn(i, "ended", i.asked, i.item, i.saved)
    <2> DEFINE j == [i EXCEPT !.at = "ended"]
    <2>1. Becomes(i, j) /\ j \in Kin(i) /\ Carries(i, j)
      BY <1>1, <1>6 DEF GraphEnds, Kin, Carries, Invocation, Step
    <2> QED BY <1>1, <2>1 DEF Turn, Stands, Invocation
  <1>10. ASSUME OpenReview(i)
         PROVE  Turn(i, "marking", i.asked, Len(rows'[i.run][i.asked]), i.saved)
    <2> DEFINE chain == rows[i.run][i.asked]
    <2>a. i.asked \in Questions
      BY <1>1, <1>10, ReviewAssumption DEF TypeInv, PlaceInv, OpenReview, Questions
    <2>0. chain \in Seq(Row) /\ Len(chain) <= MaxRows /\ Len(chain) \in Nat
      BY <1>1, <2>a DEF TypeInv, TypeOK
    <2>1. CASE RowServes(i.run, i.asked) /\ UNCHANGED rows
      <3> DEFINE j == [i EXCEPT !.at = "marking", !.item = Len(chain)]
      <3>1. Becomes(i, j)
        BY <1>10, <2>1 DEF OpenReview
      <3>2. Len(chain) \in 0 .. MaxRows
        BY <2>0, ReviewAssumption
      <3>3. /\ j \in Kin(i) /\ Carries(i, j)
            /\ Stands(j, "marking", i.asked, Len(chain), i.saved)
        BY <1>1, <3>2 DEF Kin, Carries, Stands, Invocation, Step
      <3> QED BY <2>1, <3>1, <3>3 DEF Turn
    <2>2. CASE ~RowServes(i.run, i.asked)
      <3> DEFINE j == [i EXCEPT !.at = "marking", !.item = Len(chain) + 1]
      <3>1. Becomes(i, j) /\ Len(chain) < MaxRows
        BY <1>10, <2>2 DEF OpenReview
      <3>2. Len(chain) + 1 \in 0 .. MaxRows
        BY <2>0, <3>1, ReviewAssumption
      <3>3. /\ j \in Kin(i) /\ Carries(i, j)
            /\ Stands(j, "marking", i.asked, Len(chain) + 1, i.saved)
        BY <1>1, <3>2 DEF Kin, Carries, Stands, Invocation, Step
      <3>4. Len(rows'[i.run][i.asked]) = Len(chain) + 1
        BY <1>1, <1>10, <2>a, <2>2 DEF OpenReview, TypeInv, TypeOK, Shape
      <3> QED BY <3>1, <3>3, <3>4 DEF Turn
    <2> QED BY <1>10, <2>1, <2>2 DEF OpenReview
  <1>11. ASSUME ResumeGraph(i), checkpoint[i.run].node = "ask",
                Becomes(i, [i EXCEPT !.asked = checkpoint[i.run].asked, !.at = "opening"])
         PROVE  Turn(i, "opening", checkpoint[i.run].asked, i.item, i.saved)
    <2> DEFINE here == checkpoint[i.run]
    <2> DEFINE j == [i EXCEPT !.asked = here.asked, !.at = "opening"]
    <2>1. here.asked \in 0 .. MaxQuestions
      BY <1>1 DEF TypeInv, TypeOK, Position
    <2>2. j \in Kin(i) /\ Carries(i, j) /\ Stands(j, "opening", here.asked, i.item, i.saved)
      BY <1>1, <2>1 DEF Kin, Carries, Stands, Invocation, Step
    <2> QED BY <1>11, <2>2 DEF Turn
  <1>12. ASSUME ResumeGraph(i), checkpoint[i.run].node = "work",
                Becomes(i, [Without(i) EXCEPT !.asked = checkpoint[i.run].asked,
                                              !.at = "working"])
         PROVE  BareTurn(i, "working", checkpoint[i.run].asked, i.item, i.saved)
    <2> DEFINE here == checkpoint[i.run]
    <2> DEFINE b == Without(i)
    <2> DEFINE j == [b EXCEPT !.asked = here.asked, !.at = "working"]
    <2>1. here.asked \in 0 .. MaxQuestions
      BY <1>1 DEF TypeInv, TypeOK, Position
    <2>2. /\ b \in Invocation /\ b.decision = NoDecision /\ b.run = i.run /\ b.by = i.by
          /\ b.alone = i.alone /\ b.item = i.item /\ b.saved = i.saved
      BY <1>1, Dropped
    <2>3. Becomes(i, j)
      BY <1>12
    <2> HIDE DEF b
    <2>4. /\ j \in Kin(i) /\ j.decision = NoDecision
          /\ Stands(j, "working", here.asked, i.item, i.saved)
      BY <2>1, <2>2 DEF Kin, Stands, Invocation, Step
    <2> QED BY <2>3, <2>4 DEF BareTurn
  <1>13. ResumeGraph(i) =>
             \/ checkpoint[i.run].node = "end" /\ Leaves(i)
             \/ /\ checkpoint[i.run].node = "ask"
                /\ Turn(i, "opening", checkpoint[i.run].asked, i.item, i.saved)
             \/ /\ checkpoint[i.run].node = "work"
                /\ BareTurn(i, "working", checkpoint[i.run].asked, i.item, i.saved)
    BY <1>11, <1>12 DEF ResumeGraph
  <1> QED BY <1>2, <1>3, <1>4, <1>5, <1>6, <1>7, <1>8, <1>9, <1>10, <1>13

\* What one step of an invocation leaves alone.
LEMMA ActFrame ==
    ASSUME TypeInv, NEW i \in invocations, Acts(i)
    PROVE  /\ Leaves(i) \/ \E j \in Kin(i) : Becomes(i, j)
           /\ \/ UNCHANGED <<rows, status>>
              \/ UNCHANGED rows /\ \E s \in {"running", "needs_review"} \cup Final :
                                       status' = [status EXCEPT ![i.run] = s]
              \/ UNCHANGED status /\ (OpenReview(i) \/ ResolveReview(i))
           /\ i \in Invocation /\ i.run \in Runs
  <1>1. i \in Invocation /\ i.run \in Runs
    BY DEF TypeInv, TypeOK, Invocation
  <1>2. CASE \/ LoadSourceEmail(i) \/ AdvanceRun(i) \/ SaveCheckpoint(i) \/ AskReview(i)
             \/ \E outcome \in Final : GraphEnds(i, outcome)
             \/ OpenReview(i) \/ MarkRunNeedsReview(i) \/ ResolveReview(i) \/ Interrupt(i)
             \/ ResumeGraph(i)
    <2>1. Leaves(i) \/ \E j \in Kin(i) : Becomes(i, j)
      BY <1>2, Turns DEF Turn, BareTurn
    <2> QED
      BY <1>1, <1>2, <2>1
      DEF LoadSourceEmail, AdvanceRun, SaveCheckpoint, AskReview, GraphEnds, FinalizeRun,
          MarkRunNeedsReview, OpenReview, ResolveReview, Interrupt, ResumeGraph
  <1>3. CASE \/ Return(i) \/ MarkSourceNeedsReview(i) \/ RefuseDecision(i)
             \/ RefuseSuccessor(i) \/ Raise(i) \/ Crash(i)
    BY <1>1, <1>3
    DEF Return, MarkSourceNeedsReview, RefuseDecision, RefuseSuccessor, Raise, Crash,
        Failing, FinalizeRun, Final
  <1> QED BY <1>1, <1>2, <1>3 DEF Acts, Proceed

\* Every chain of reviews is a sequence of rows.
LEMMA Chains ==
    ASSUME TypeInv
    PROVE  /\ rows \in Shape
           /\ \A r \in Runs, q \in Questions :
                 rows[r][q] \in Seq(Row) /\ Len(rows[r][q]) \in Nat /\ Len(rows[r][q]) <= MaxRows
  <1>1. rows \in Shape /\ \A r \in Runs, q \in Questions : Len(rows[r][q]) <= MaxRows
    BY DEF TypeInv, TypeOK, Shape
  <1> QED BY <1>1 DEF Shape

\* Opening a review leaves its last row open, and every earlier row as it was.
LEMMA Opened ==
    ASSUME TypeInv, NEW i \in invocations, OpenReview(i)
    PROVE  /\ i.run \in Runs /\ i.asked \in Questions /\ i.at = "opening"
           /\ rows' \in Shape
           /\ \/ RowServes(i.run, i.asked) /\ UNCHANGED rows
              \/ /\ ~RowServes(i.run, i.asked)
                 /\ Len(rows'[i.run][i.asked]) = Len(rows[i.run][i.asked]) + 1
                 /\ rows'[i.run][i.asked][Len(rows[i.run][i.asked]) + 1] = NoDecision
                 /\ Len(rows'[i.run][i.asked]) <= MaxRows
                 /\ \A n \in 1 .. Len(rows[i.run][i.asked]) :
                        rows'[i.run][i.asked][n] = rows[i.run][i.asked][n]
                 /\ \A r \in Runs, q \in Questions :
                        <<r, q>> # <<i.run, i.asked>> => rows'[r][q] = rows[r][q]
  <1>1. i.run \in Runs /\ i.asked \in Questions /\ i.at = "opening"
    BY ReviewAssumption
    DEF TypeInv, TypeOK, PlaceInv, OpenReview, Questions, Invocation
  <1>2. CASE RowServes(i.run, i.asked) /\ UNCHANGED rows
    BY <1>1, <1>2, Chains DEF Shape
  <1>3. CASE /\ ~RowServes(i.run, i.asked) /\ Len(rows[i.run][i.asked]) < MaxRows
             /\ rows' = [rows EXCEPT ![i.run][i.asked] = Append(@, NoDecision)]
    <2> DEFINE c == Append(rows[i.run][i.asked], NoDecision)
    <2>1. /\ rows[i.run][i.asked] \in Seq(Row) /\ Len(rows[i.run][i.asked]) \in Nat
          /\ rows \in Shape
      BY <1>1, Chains
    <2>2. /\ c \in Seq(Row) /\ Len(c) = Len(rows[i.run][i.asked]) + 1
          /\ c[Len(rows[i.run][i.asked]) + 1] = NoDecision
          /\ \A n \in 1 .. Len(rows[i.run][i.asked]) : c[n] = rows[i.run][i.asked][n]
      BY <2>1, AppendedRow
    <2>3. rows' = Replaced(rows, i.run, i.asked, c)
      BY <1>3 DEF Replaced
    <2>4. Len(rows[i.run][i.asked]) + 1 <= MaxRows
      BY <1>3, <2>1, ReviewAssumption
    <2> HIDE DEF c
    <2>5. /\ rows' \in Shape /\ rows'[i.run][i.asked] = c
          /\ \A r \in Runs, q \in Questions :
                 <<r, q>> # <<i.run, i.asked>> => rows'[r][q] = rows[r][q]
      BY <1>1, <2>1, <2>2, <2>3, ReplacedChain
    <2> QED BY <1>1, <1>3, <2>2, <2>4, <2>5
  <1> QED BY <1>2, <1>3 DEF OpenReview

\* Resolving a review gives its row the decision, and leaves every other row as it was.
LEMMA Resolved ==
    ASSUME TypeInv, NEW i \in invocations, ResolveReview(i)
    PROVE  /\ i.run \in Runs /\ i.asked \in Questions /\ i.at = "answering"
           /\ i.item \in 1 .. Len(rows[i.run][i.asked])
           /\ i.decision \in Decisions /\ i.decision \in Allowed[i.asked]
           /\ rows[i.run][i.asked][i.item] \in {NoDecision, i.decision}
           /\ rows' \in Shape
           /\ Len(rows'[i.run][i.asked]) = Len(rows[i.run][i.asked])
           /\ rows'[i.run][i.asked][i.item] = i.decision
           /\ \A n \in 1 .. Len(rows[i.run][i.asked]) :
                  n # i.item => rows'[i.run][i.asked][n] = rows[i.run][i.asked][n]
           /\ \A r \in Runs, q \in Questions :
                  <<r, q>> # <<i.run, i.asked>> => rows'[r][q] = rows[r][q]
  <1>1. /\ i.run \in Runs /\ i.asked \in Questions /\ i.at = "answering"
        /\ i.item \in 1 .. Len(rows[i.run][i.asked])
    BY ReviewAssumption
    DEF TypeInv, TypeOK, PlaceInv, Asking, ResolveReview, Questions, Invocation
  <1>2. /\ i.decision \in Row /\ i.decision \in Decisions /\ i.decision \in Allowed[i.asked]
        /\ rows[i.run][i.asked][i.item] \in {NoDecision, i.decision}
        /\ rows' = [rows EXCEPT ![i.run][i.asked][i.item] = i.decision]
    BY <1>1, ReviewAssumption
    DEF TypeInv, TypeOK, ResolveReview, Answers, Invocation, Row, Questions
  <1> DEFINE c == [rows[i.run][i.asked] EXCEPT ![i.item] = i.decision]
  <1>3. rows[i.run][i.asked] \in Seq(Row) /\ rows \in Shape
    BY <1>1, Chains
  <1>4. /\ c \in Seq(Row) /\ Len(c) = Len(rows[i.run][i.asked]) /\ c[i.item] = i.decision
        /\ \A n \in 1 .. Len(rows[i.run][i.asked]) :
               n # i.item => c[n] = rows[i.run][i.asked][n]
    BY <1>1, <1>2, <1>3, ExceptSeq
  <1>5. rows' = Replaced(rows, i.run, i.asked, c)
    BY <1>2 DEF Replaced
  <1> HIDE DEF c
  <1>6. /\ rows' \in Shape /\ rows'[i.run][i.asked] = c
        /\ \A r \in Runs, q \in Questions :
               <<r, q>> # <<i.run, i.asked>> => rows'[r][q] = rows[r][q]
    BY <1>1, <1>3, <1>4, <1>5, ReplacedChain
  <1> QED BY <1>1, <1>2, <1>4, <1>6

\* The rows a step of an invocation leaves: what was resolved stays, and only the chains
\* of its own run change.
LEMMA RowsGrow ==
    ASSUME TypeInv, NEW i \in invocations, Acts(i)
    PROVE  /\ rows' \in Shape
           /\ \A r \in Runs, q \in Questions :
                 /\ Len(rows'[r][q]) <= MaxRows
                 /\ Len(rows'[r][q]) >= Len(rows[r][q])
                 /\ r # i.run => rows'[r][q] = rows[r][q]
                 /\ \A n \in 1 .. Len(rows[r][q]) :
                        IsOpen(rows[r][q][n]) \/ rows'[r][q][n] = rows[r][q][n]
  <1>1. CASE UNCHANGED rows
    BY <1>1, Chains
  <1>2. CASE OpenReview(i)
    <2>1. CASE UNCHANGED rows
      BY <1>1, <2>1
    <2>2. CASE ~UNCHANGED rows
      <3>1. ASSUME NEW r \in Runs, NEW q \in Questions
            PROVE  /\ Len(rows'[r][q]) <= MaxRows
                   /\ Len(rows'[r][q]) >= Len(rows[r][q])
                   /\ r # i.run => rows'[r][q] = rows[r][q]
                   /\ \A n \in 1 .. Len(rows[r][q]) : rows'[r][q][n] = rows[r][q][n]
        <4>1. CASE r = i.run /\ q = i.asked
          BY <1>2, <2>2, <4>1, Opened, Chains
        <4>2. CASE <<r, q>> # <<i.run, i.asked>>
          BY <1>2, <2>2, <4>2, Opened, Chains
        <4> QED BY <4>1, <4>2
      <3> QED BY <1>2, <3>1, Opened
    <2> QED BY <2>1, <2>2
  <1>3. CASE ResolveReview(i)
    <2>1. ASSUME NEW r \in Runs, NEW q \in Questions
          PROVE  /\ Len(rows'[r][q]) = Len(rows[r][q])
                 /\ r # i.run => rows'[r][q] = rows[r][q]
                 /\ \A n \in 1 .. Len(rows[r][q]) :
                        IsOpen(rows[r][q][n]) \/ rows'[r][q][n] = rows[r][q][n]
      <3>1. CASE r = i.run /\ q = i.asked
        BY <1>3, <3>1, Resolved DEF IsOpen
      <3>2. CASE <<r, q>> # <<i.run, i.asked>>
        BY <1>3, <3>2, Resolved
      <3> QED BY <3>1, <3>2
    <2> QED BY <1>3, <2>1, Resolved, Chains
  <1> QED BY <1>1, <1>2, <1>3, ActFrame

\* Where an invocation stands after its step.
Arrival(i, j) ==
    \/ /\ Carries(i, j)
       /\ \/ LoadSourceEmail(i) /\ Stands(j, "working", i.asked, i.item, i.saved)
          \/ AdvanceRun(i) /\ Stands(j, "routing", i.asked, i.item, i.saved)
          \/ SaveCheckpoint(i) /\ Stands(j, i.at, i.asked, i.item, TRUE)
          \/ /\ \E outcome \in Final : GraphEnds(i, outcome)
             /\ Stands(j, "ended", i.asked, i.item, i.saved)
          \/ /\ OpenReview(i)
             /\ Stands(j, "marking", i.asked, Len(rows'[i.run][i.asked]), i.saved)
          \/ MarkRunNeedsReview(i) /\ Stands(j, "answering", i.asked, i.item, i.saved)
          \/ ResolveReview(i) /\ Stands(j, "working", i.asked, i.item, FALSE)
          \/ Interrupt(i) /\ Stands(j, "leaving", i.asked, i.item, i.saved)
          \/ /\ ResumeGraph(i) /\ checkpoint[i.run].node = "ask"
             /\ Stands(j, "opening", checkpoint[i.run].asked, i.item, i.saved)
    \/ /\ j.decision = NoDecision
       /\ \/ AskReview(i) /\ Stands(j, "opening", i.asked + 1, 0, FALSE)
          \/ /\ ResumeGraph(i) /\ checkpoint[i.run].node = "work"
             /\ Stands(j, "working", checkpoint[i.run].asked, i.item, i.saved)

\* The invocations beside the one that steps stay; it leaves or arrives somewhere.
LEMMA Arrivals ==
    ASSUME TypeInv, NEW i \in invocations, Acts(i), NEW j \in invocations'
    PROVE  (j \in invocations /\ j # i) \/ (j \in Kin(i) /\ Arrival(i, j))
  <1>1. CASE Leaves(i)
    BY <1>1 DEF Leaves
  <1>2. CASE ~Leaves(i)
    <2>1. \/ LoadSourceEmail(i) \/ AdvanceRun(i) \/ SaveCheckpoint(i) \/ AskReview(i)
          \/ \E outcome \in Final : GraphEnds(i, outcome)
          \/ OpenReview(i) \/ MarkRunNeedsReview(i) \/ ResolveReview(i) \/ Interrupt(i)
          \/ ResumeGraph(i)
      BY <1>2
      DEF Acts, Proceed, Return, MarkSourceNeedsReview, RefuseDecision, RefuseSuccessor,
          Raise, Crash, Failing
    <2>2. ASSUME NEW at, NEW asked, NEW item, NEW saved, Turn(i, at, asked, item, saved)
          PROVE  \/ j \in invocations /\ j # i
                 \/ j \in Kin(i) /\ Carries(i, j) /\ Stands(j, at, asked, item, saved)
      BY <2>2 DEF Turn, Becomes
    <2>3. ASSUME NEW at, NEW asked, NEW item, NEW saved, BareTurn(i, at, asked, item, saved)
          PROVE  \/ j \in invocations /\ j # i
                 \/ /\ j \in Kin(i) /\ j.decision = NoDecision
                    /\ Stands(j, at, asked, item, saved)
      BY <2>3 DEF BareTurn, Becomes
    <2>4. CASE \/ LoadSourceEmail(i) \/ AdvanceRun(i) \/ SaveCheckpoint(i)
               \/ MarkRunNeedsReview(i) \/ ResolveReview(i) \/ Interrupt(i)
      BY <2>2, <2>4, Turns DEF Arrival
    <2>5. CASE OpenReview(i) \/ \E outcome \in Final : GraphEnds(i, outcome)
      BY <2>2, <2>5, Turns DEF Arrival
    <2>6. CASE AskReview(i)
      BY <2>3, <2>6, Turns DEF Arrival
    <2>7. CASE ResumeGraph(i)
      BY <1>2, <2>2, <2>3, <2>7, Turns DEF Arrival
    <2> QED BY <2>1, <2>4, <2>5, <2>6, <2>7
  <1> QED BY <1>1, <1>2

\* Nothing is in flight at a place it was not led to: an invocation that steps keeps the
\* type and place of every invocation.
LEMMA ActPlaces ==
    ASSUME TypeInv, NEW i \in invocations, Acts(i), NEW j \in invocations'
    PROVE  /\ j \in Invocation
           /\ j.at \in {"posted", "loading"} => j.item = 0
           /\ j.at \in {"opening", "marking", "answering"} => j.asked > 0
           /\ Asking(j) => j.item \in 1 .. Len(rows'[j.run][j.asked])
  <1>1. /\ \A r \in Runs, q \in Questions :
              Len(rows[r][q]) \in Nat /\ Len(rows'[r][q]) \in Nat
              /\ Len(rows'[r][q]) >= Len(rows[r][q])
    BY RowsGrow, Chains DEF Shape
  <1>2. CASE j \in invocations
    <2>1. Asking(j) => j.run \in Runs /\ j.asked \in Questions
      BY <1>2, ReviewAssumption DEF TypeInv, TypeOK, PlaceInv, Asking, Invocation, Questions
    <2>2. Asking(j) => j.item \in 1 .. Len(rows[j.run][j.asked]) /\ j.item \in Nat
      BY <1>2, ReviewAssumption DEF TypeInv, TypeOK, PlaceInv, Invocation
    <2>3. Asking(j) => j.item \in 1 .. Len(rows'[j.run][j.asked])
      BY <1>1, <2>1, <2>2
    <2> QED BY <1>2, <2>3 DEF TypeInv, TypeOK, PlaceInv
  <1>3. CASE j \in Kin(i) /\ Arrival(i, j)
    <2>1. /\ i \in Invocation /\ j \in Invocation /\ j.run = i.run /\ i.run \in Runs
          /\ i.asked \in 0 .. MaxQuestions /\ checkpoint[i.run] \in Position
          /\ checkpoint[i.run].node = "ask" => checkpoint[i.run].asked > 0
          /\ i.at \in {"posted", "loading"} => i.item = 0
          /\ i.at \in {"opening", "marking", "answering"} => i.asked > 0
          /\ Asking(i) => i.item \in 1 .. Len(rows[i.run][i.asked])
      BY <1>3 DEF Kin, TypeInv, TypeOK, PlaceInv, Invocation
    <2>2. j.at \in {"posted", "loading"} => j.item = 0
      BY <1>3, <2>1 DEF Arrival, Stands
    <2>3. j.at \in {"opening", "marking", "answering"} => j.asked > 0
      BY <1>3, <2>1, ReviewAssumption
      DEF Arrival, Stands, OpenReview, MarkRunNeedsReview, Position
    <2>4. ASSUME Asking(j) PROVE j.item \in 1 .. Len(rows'[j.run][j.asked])
      <3>1. j.asked \in Questions
        BY <2>1, <2>3, <2>4, ReviewAssumption DEF Asking, Questions, Invocation
      <3>2. CASE OpenReview(i) /\ Stands(j, "marking", i.asked, Len(rows'[i.run][i.asked]), i.saved)
        <4>1. Len(rows'[j.run][j.asked]) # 0
          BY <1>1, <2>1, <3>1, <3>2, Opened DEF RowServes, Stands
        <4> QED BY <1>1, <2>1, <3>1, <3>2, <4>1 DEF Stands
      <3>3. CASE Asking(i) /\ j.asked = i.asked /\ j.item = i.item
        BY <1>1, <2>1, <3>1, <3>3
      <3> QED
        BY <1>3, <2>4, <3>2, <3>3 DEF Arrival, Stands, Asking, MarkRunNeedsReview
    <2> QED BY <2>1, <2>2, <2>3, <2>4
  <1> QED BY <1>2, <1>3, Arrivals

Submits(h, r, q, n, d) == h \in Hosts /\ r \in Runs /\ q \in Questions /\ d \in Decisions
                          /\ n \in 1 .. MaxRows /\ Submit(h, r, q, n, d)

\* An invocation that is no longer alone is otherwise the same.
Twin(i, j) ==
    /\ j.run = i.run /\ j.by = i.by /\ j.decision = i.decision /\ j.question = i.question
    /\ j.seen = i.seen /\ j.again = i.again /\ j.at = i.at /\ j.asked = i.asked
    /\ j.item = i.item /\ j.saved = i.saved /\ ~j.alone

\* A submit puts one more invocation beside those of its run.
LEMMA Submitted ==
    ASSUME TypeInv, NEW h, NEW r, NEW q, NEW n, NEW d, Submits(h, r, q, n, d),
           NEW j \in invocations'
    PROVE  /\ j \in Invocation
           /\ \/ j \in invocations /\ j.run # r
              \/ j.run = r /\ \E i \in invocations : Twin(i, j)
              \/ /\ j.run = r /\ j.by = h /\ j.decision = d /\ j.question = q /\ j.seen = n
                 /\ j.at = "posted" /\ j.item = 0 /\ j.saved
                 /\ j.again <=> ~IsOpen(rows[r][q][n])
                 /\ j.alone => \A i \in invocations : i.run # r
  <1>1. /\ h \in Hosts /\ r \in Runs /\ q \in Questions /\ d \in Row
        /\ n \in 0 .. MaxRows /\ q \in 0 .. MaxQuestions
        /\ 0 \in 0 .. MaxQuestions /\ 0 \in 0 .. MaxRows
    BY ReviewAssumption DEF Submits, Row, Questions
  <1>2. \A i \in invocations : i \in Invocation
    BY DEF TypeInv, TypeOK
  <1>3. CASE j \in Accompanied(r)
    <2>1. PICK i \in invocations : j = IF i.run = r THEN [i EXCEPT !.alone = FALSE] ELSE i
      BY <1>3 DEF Accompanied
    <2>2. CASE i.run = r
      <3>1. j = [i EXCEPT !.alone = FALSE] /\ i \in Invocation
        BY <1>2, <2>1, <2>2
      <3>2. j \in Invocation /\ Twin(i, j)
        BY <3>1 DEF Invocation, Twin
      <3> QED BY <2>2, <3>2 DEF Twin
    <2>3. CASE i.run # r
      BY <1>2, <2>1, <2>3
    <2> QED BY <2>2, <2>3
  <1>4. CASE j \notin Accompanied(r)
    <2>1. j = [run |-> r, by |-> h, decision |-> d, question |-> q, seen |-> n,
               again |-> ~IsOpen(rows[r][q][n]), at |-> "posted", asked |-> 0, item |-> 0,
               saved |-> TRUE, alone |-> \A i \in invocations : i.run # r]
      BY <1>4 DEF Submits, Submit
    <2>2. /\ (\A i \in invocations : i.run # r) \in BOOLEAN
          /\ (~IsOpen(rows[r][q][n])) \in BOOLEAN
      BY DEF IsOpen
    <2>3. j \in Invocation
      BY <1>1, <2>1, <2>2 DEF Invocation, Step
    <2> QED BY <2>1, <2>3
  <1> QED BY <1>3, <1>4

\* An operation starts a run with an invocation of its own.
LEMMA Started ==
    ASSUME TypeInv, NEW r \in Runs, StartRun(r), NEW j \in invocations'
    PROVE  /\ j \in Invocation
           /\ \/ j \in invocations /\ j.run # r
              \/ /\ j.run = r /\ j.by = Worker /\ j.decision = NoDecision
                 /\ j.at = "loading" /\ j.item = 0 /\ j.asked = 0 /\ j.saved
  <1>1. CASE j \in invocations
    BY <1>1 DEF TypeInv, TypeOK, StartRun
  <1>2. CASE j \notin invocations
    <2>1. j = [run |-> r, by |-> Worker, decision |-> NoDecision, question |-> 0, seen |-> 0,
               again |-> FALSE, at |-> "loading", asked |-> 0, item |-> 0, saved |-> TRUE,
               alone |-> TRUE]
      BY <1>2 DEF StartRun
    <2>2. 0 \in 0 .. MaxQuestions /\ 0 \in 0 .. MaxRows
      BY ReviewAssumption
    <2>3. j \in Invocation
      BY <2>1, <2>2 DEF Invocation, Step, Row
    <2> QED BY <2>1, <2>3
  <1> QED BY <1>1, <1>2

\* An invocation's step leaves email, runs and thread in their domains.
LEMMA ActDomains ==
    ASSUME TypeInv, NEW i \in invocations, Acts(i)
    PROVE  /\ email' \in {"pending", "processing", "needs_review", "processed", "ignored", "failed"}
           /\ status' \in [Runs -> {"none", "running", "needs_review"} \cup Final]
           /\ checkpoint' \in [Runs -> Position]
           /\ \A r \in Runs : checkpoint'[r].node = "ask" => checkpoint'[r].asked > 0
           /\ UNCHANGED <<met, resumes>>
  <1>1. i \in Invocation /\ i.run \in Runs
    BY ActFrame
  <1>2. email' \in {"pending", "processing", "needs_review", "processed", "ignored", "failed"}
    BY DEF TypeInv, TypeOK, Acts, Proceed, LoadSourceEmail, AdvanceRun, SaveCheckpoint,
        AskReview, GraphEnds, FinalizeRun, EmailOutcome, Final, OpenReview, MarkRunNeedsReview,
        ResolveReview, Interrupt, ResumeGraph, Return, MarkSourceNeedsReview, RefuseDecision,
        RefuseSuccessor, Raise, Crash, Failing
  <1>3. status' \in [Runs -> {"none", "running", "needs_review"} \cup Final]
    BY ActFrame DEF TypeInv, TypeOK, Acts, Proceed, OpenReview, ResolveReview
  <1>4. UNCHANGED <<met, resumes>>
    BY DEF Acts, Proceed, LoadSourceEmail, AdvanceRun, SaveCheckpoint, AskReview, GraphEnds,
        OpenReview, MarkRunNeedsReview, ResolveReview, Interrupt, ResumeGraph, Return,
        MarkSourceNeedsReview, RefuseDecision, RefuseSuccessor, Raise, Crash, Failing
  <1>5. /\ checkpoint' \in [Runs -> Position]
        /\ \A r \in Runs : checkpoint'[r].node = "ask" => checkpoint'[r].asked > 0
    <2>0. /\ checkpoint \in [Runs -> Position]
          /\ \A r \in Runs : checkpoint[r].node = "ask" => checkpoint[r].asked > 0
      BY DEF TypeInv, TypeOK, PlaceInv
    <2>1. CASE UNCHANGED checkpoint
      BY <2>0, <2>1
    <2>2. CASE SaveCheckpoint(i)
      <3> DEFINE here == Here(i)
      <3>1. here \in Position /\ (here.node = "ask" => here.asked > 0)
        BY <1>1 DEF Here, Position, Invocation, TypeInv, PlaceInv
      <3>2. checkpoint' = [checkpoint EXCEPT ![i.run] = here]
        BY <2>2 DEF SaveCheckpoint
      <3> HIDE DEF here
      <3> QED BY <1>1, <2>0, <3>1, <3>2
    <2>3. CASE Return(i)
      <3> DEFINE here == [checkpoint[i.run] EXCEPT !.node = "end"]
      <3>1. here \in Position /\ here.node = "end"
        BY <1>1, <2>0 DEF Position
      <3>2. checkpoint' = [checkpoint EXCEPT ![i.run] = here]
        BY <2>3 DEF Return
      <3> HIDE DEF here
      <3> QED BY <1>1, <2>0, <3>1, <3>2
    <2> QED
      BY <2>1, <2>2, <2>3
      DEF Acts, Proceed, LoadSourceEmail, AdvanceRun, AskReview, GraphEnds,
          OpenReview, MarkRunNeedsReview, ResolveReview, Interrupt, ResumeGraph,
          MarkSourceNeedsReview, RefuseDecision, RefuseSuccessor, Raise, Crash, Failing
  <1> QED BY <1>2, <1>3, <1>4, <1>5

\* Every step is a step of one invocation, the start or the reclaim of a run, or a submit.
LEMMA Steps ==
    ASSUME [Next]_vars
    PROVE  \/ \E i \in invocations : Acts(i)
           \/ \E r \in Runs : StartRun(r)
           \/ \E r \in Runs : ReclaimOrphan(r)
           \/ \E h, r, q, n, d : Submits(h, r, q, n, d)
           \/ UNCHANGED vars
  BY DEF Next, Acts, Submits

LEMMA TypeStep == TypeInv /\ [Next]_vars => TypeInv'
  <1> SUFFICES ASSUME TypeInv, [Next]_vars PROVE TypeInv'
    OBVIOUS
  <1>1. ASSUME NEW i \in invocations, Acts(i) PROVE TypeInv'
    <2>1. rows' \in [Runs -> [Questions -> Seq(Row)]]
      BY <1>1, RowsGrow DEF Shape
    <2>2. \A r \in Runs, q \in Questions : Len(rows'[r][q]) <= MaxRows
      BY <1>1, RowsGrow
    <2>3. \A j \in invocations' :
              /\ j \in Invocation
              /\ j.at \in {"posted", "loading"} => j.item = 0
              /\ j.at \in {"opening", "marking", "answering"} => j.asked > 0
              /\ Asking(j) => j.item \in 1 .. Len(rows'[j.run][j.asked])
      BY <1>1, ActPlaces
    <2> QED BY <1>1, <2>1, <2>2, <2>3, ActDomains DEF TypeInv, TypeOK, PlaceInv, Asking
  <1>2. ASSUME NEW r \in Runs, StartRun(r) PROVE TypeInv'
    <2>1. \A j \in invocations' :
              /\ j \in Invocation
              /\ j.at \in {"posted", "loading"} => j.item = 0
              /\ j.at \in {"opening", "marking", "answering"} => j.asked > 0
              /\ Asking(j) => j.item \in 1 .. Len(rows[j.run][j.asked])
      BY <1>2, Started DEF TypeInv, PlaceInv, Asking
    <2>2. email' = "processing" /\ UNCHANGED <<status, rows, checkpoint, met, resumes>>
      BY <1>2 DEF StartRun
    <2> QED BY <2>1, <2>2 DEF TypeInv, TypeOK, PlaceInv, Asking
  <1>3. ASSUME NEW r \in Runs, ReclaimOrphan(r) PROVE TypeInv'
    BY <1>3 DEF ReclaimOrphan, TypeInv, TypeOK, PlaceInv, Asking, Final
  <1>4. ASSUME NEW h, NEW r, NEW q, NEW n, NEW d, Submits(h, r, q, n, d) PROVE TypeInv'
    <2>1. ASSUME NEW j \in invocations'
          PROVE  /\ j \in Invocation
                 /\ j.at \in {"posted", "loading"} => j.item = 0
                 /\ j.at \in {"opening", "marking", "answering"} => j.asked > 0
                 /\ Asking(j) => j.item \in 1 .. Len(rows[j.run][j.asked])
      <3>1. CASE \E i \in invocations : Twin(i, j)
        BY <1>4, <3>1, Submitted DEF TypeInv, PlaceInv, Asking, Twin
      <3> QED BY <1>4, <3>1, Submitted DEF TypeInv, PlaceInv, Asking
    <2>2. UNCHANGED <<email, status, rows, checkpoint>> /\ met' \subseteq Runs
      BY <1>4 DEF Submits, Submit, TypeInv, TypeOK
    <2>3. resumes' \in 0 .. MaxResumes
      BY <1>4, ReviewAssumption DEF Submits, Submit, TypeInv, TypeOK
    <2> QED BY <2>1, <2>2, <2>3 DEF TypeInv, TypeOK, PlaceInv, Asking
  <1>5. CASE UNCHANGED vars
    BY <1>5 DEF vars, TypeInv, TypeOK, PlaceInv, Asking
  <1> QED BY <1>1, <1>2, <1>3, <1>4, <1>5, Steps

\* Every reachable state of the email, its runs, rows, threads and invocations is well
\* typed: an outcome is never written where a status of another kind belongs.
THEOREM ReviewTypes == Spec => []TypeOK
  <1>1. TypeInv => TypeOK
    BY DEF TypeInv
  <1> QED BY <1>1, InitTypeInv, TypeStep, PTL DEF Spec

-----------------------------------------------------------------------------
(* The rows, over time.                                                     *)

\* Only the last row of a chain may be open.
ChainInv ==
    \A r \in Runs, q \in Questions : \A n \in 1 .. Len(rows[r][q]) :
        n < Len(rows[r][q]) => ~IsOpen(rows[r][q][n])

\* A review is resolved with an answer to its question.
AllowedInv ==
    \A r \in Runs, q \in Questions : \A n \in 1 .. Len(rows[r][q]) :
        IsOpen(rows[r][q][n]) \/ rows[r][q][n] \in Allowed[q]

LEMMA ChainStep ==
    ASSUME TypeInv, ChainInv, [Next]_vars
    PROVE  ChainInv'
  <1>1. ASSUME NEW i \in invocations, Acts(i) PROVE ChainInv'
    <2>1. CASE UNCHANGED rows
      BY <2>1 DEF ChainInv
    <2>2. CASE OpenReview(i) /\ ~UNCHANGED rows
      <3>1. ASSUME NEW r \in Runs, NEW q \in Questions, NEW n \in 1 .. Len(rows'[r][q]),
                   n < Len(rows'[r][q])
            PROVE  ~IsOpen(rows'[r][q][n])
        <4>1. CASE r = i.run /\ q = i.asked
          <5>1. /\ ~RowServes(r, q) /\ Len(rows'[r][q]) = Len(rows[r][q]) + 1
                /\ \A m \in 1 .. Len(rows[r][q]) : rows'[r][q][m] = rows[r][q][m]
            BY <2>2, <4>1, Opened
          <5>2. rows[r][q] \in Seq(Row) /\ Len(rows[r][q]) \in Nat
            BY Chains
          <5>3. n \in 1 .. Len(rows[r][q]) /\ rows[r][q] # << >>
            BY <3>1, <5>1, <5>2
          <5> QED BY <5>1, <5>2, <5>3 DEF ChainInv, RowServes
        <4>2. CASE <<r, q>> # <<i.run, i.asked>>
          BY <2>2, <3>1, <4>2, Opened DEF ChainInv
        <4> QED BY <4>1, <4>2
      <3> QED BY <3>1 DEF ChainInv
    <2>3. CASE ResolveReview(i)
      <3>1. ASSUME NEW r \in Runs, NEW q \in Questions, NEW n \in 1 .. Len(rows'[r][q]),
                   n < Len(rows'[r][q])
            PROVE  ~IsOpen(rows'[r][q][n])
        <4>1. CASE r = i.run /\ q = i.asked
          <5>1. /\ i.decision # NoDecision /\ rows'[r][q][i.item] = i.decision
                /\ n \in 1 .. Len(rows[r][q]) /\ n < Len(rows[r][q])
                /\ n # i.item => rows'[r][q][n] = rows[r][q][n]
            BY <2>3, <3>1, <4>1, Resolved, ReviewAssumption
          <5>2. ~IsOpen(rows[r][q][n])
            BY <5>1 DEF ChainInv
          <5> QED BY <5>1, <5>2 DEF IsOpen
        <4>2. CASE <<r, q>> # <<i.run, i.asked>>
          BY <2>3, <3>1, <4>2, Resolved DEF ChainInv
        <4> QED BY <4>1, <4>2
      <3> QED BY <3>1 DEF ChainInv
    <2> QED BY <1>1, <2>1, <2>2, <2>3, ActFrame
  <1>2. CASE UNCHANGED rows
    BY <1>2 DEF ChainInv
  <1> QED BY <1>1, <1>2, Steps DEF StartRun, ReclaimOrphan, Submits, Submit, vars

LEMMA AllowedStep ==
    ASSUME TypeInv, AllowedInv, [Next]_vars
    PROVE  AllowedInv'
  <1>1. ASSUME NEW i \in invocations, Acts(i),
               NEW r \in Runs, NEW q \in Questions, NEW n \in 1 .. Len(rows'[r][q])
        PROVE  IsOpen(rows'[r][q][n]) \/ rows'[r][q][n] \in Allowed[q]
    <2>1. CASE UNCHANGED rows
      BY <1>1, <2>1 DEF AllowedInv
    <2>2. CASE OpenReview(i) /\ ~UNCHANGED rows
      <3>1. CASE r = i.run /\ q = i.asked
        <4>1. /\ Len(rows'[r][q]) = Len(rows[r][q]) + 1
              /\ rows'[r][q][Len(rows[r][q]) + 1] = NoDecision
              /\ \A m \in 1 .. Len(rows[r][q]) : rows'[r][q][m] = rows[r][q][m]
              /\ Len(rows[r][q]) \in Nat
          BY <2>2, <3>1, Opened, Chains
        <4>2. n \in 1 .. Len(rows[r][q]) \/ n = Len(rows[r][q]) + 1
          BY <1>1, <4>1
        <4> QED BY <4>1, <4>2 DEF AllowedInv, IsOpen
      <3>2. CASE <<r, q>> # <<i.run, i.asked>>
        BY <1>1, <2>2, <3>2, Opened DEF AllowedInv
      <3> QED BY <3>1, <3>2
    <2>3. CASE ResolveReview(i)
      <3>1. CASE r = i.run /\ q = i.asked
        <4>1. /\ n \in 1 .. Len(rows[r][q])
              /\ n = i.item => rows'[r][q][n] \in Allowed[q]
              /\ n # i.item => rows'[r][q][n] = rows[r][q][n]
          BY <1>1, <2>3, <3>1, Resolved
        <4> QED BY <4>1 DEF AllowedInv
      <3>2. CASE <<r, q>> # <<i.run, i.asked>>
        BY <1>1, <2>3, <3>2, Resolved DEF AllowedInv
      <3> QED BY <3>1, <3>2
    <2> QED BY <1>1, <2>1, <2>2, <2>3, ActFrame
  <1>2. CASE UNCHANGED rows
    BY <1>2 DEF AllowedInv
  <1> QED BY <1>1, <1>2, Steps DEF AllowedInv, StartRun, ReclaimOrphan, Submits, Submit, vars

-----------------------------------------------------------------------------
(* The email that waits.                                                    *)

\* An invocation is past a question, or not the worker's, only when a review was opened;
\* until then the run has one invocation.
VisitInv ==
    /\ \A i \in invocations :
           i.by # Worker \/ i.at \in {"posted", "marking", "answering", "leaving"}
           => HasRow(i.run)
    /\ \A i, j \in invocations : i.run = j.run /\ ~HasRow(i.run) => i = j
    /\ \A i \in invocations : i.at = "ended" /\ ~HasRow(i.run) => status[i.run] \in Final

\* The record of a run exists once the worker has loaded the email.
FreshInv ==
    /\ \A r \in Runs : status[r] = "none" => ~HasRow(r)
    /\ \A i \in invocations : i.at = "loading" <=> status[i.run] = "none"
    /\ \A i \in invocations : i.at = "loading" => i.by = Worker

\* The run goes on by itself, or by what a human or the drain may still do.
Alive(r) ==
    \/ Live(r) /\ HasRow(r)
    \/ \E i \in invocations : i.run = r /\ (i.at = "loading" \/ Live(r))

\* An email in progress has a run that is alive.
AliveInv == email \in {"processing", "needs_review"} => \E r \in Runs : Alive(r)

ProgressInv == TypeInv /\ AllowedInv /\ VisitInv /\ FreshInv /\ AliveInv

LEMMA InitProgressInv == Init => ProgressInv
  <1> SUFFICES ASSUME Init PROVE ProgressInv
    OBVIOUS
  <1>1. \A r \in Runs, q \in Questions : rows[r][q] = << >>
    BY DEF Init
  <1>2. AllowedInv
    BY <1>1 DEF AllowedInv
  <1> QED
    BY <1>1, <1>2, InitTypeInv DEF Init, ProgressInv, VisitInv, FreshInv, AliveInv, HasRow

\* A run that has a review keeps it; only opening one gives a run its first.
LEMMA ReviewsStay ==
    ASSUME TypeInv, NEW i \in invocations, Acts(i), NEW r \in Runs
    PROVE  /\ HasRow(r) => HasRow(r)'
           /\ HasRow(r)' => HasRow(r) \/ (r = i.run /\ OpenReview(i))
  <1>1. ASSUME HasRow(r) PROVE HasRow(r)'
    <2>1. PICK q \in Questions : rows[r][q] # << >>
      BY <1>1 DEF HasRow
    <2>2. rows[r][q] \in Seq(Row) /\ rows'[r][q] \in Seq(Row)
      BY Chains, RowsGrow DEF Shape
    <2>3. Len(rows[r][q]) # 0 /\ Len(rows[r][q]) \in Nat /\ Len(rows'[r][q]) \in Nat
      BY <2>1, <2>2, EmptySeq
    <2>4. Len(rows'[r][q]) # 0
      BY <2>3, RowsGrow
    <2> QED BY <2>2, <2>4, EmptySeq DEF HasRow
  <1>2. ASSUME HasRow(r)', ~HasRow(r) PROVE r = i.run /\ OpenReview(i)
    <2>1. r = i.run
      BY <1>2, RowsGrow DEF HasRow
    <2>2. ~UNCHANGED rows
      BY <1>2 DEF HasRow
    <2>3. ~ResolveReview(i)
      <3>1. CASE ResolveReview(i)
        <4>1. rows[i.run][i.asked] \in Seq(Row) /\ i.item \in 1 .. Len(rows[i.run][i.asked])
              /\ i.asked \in Questions
          BY <3>1, Resolved, Chains
        <4>2. rows[i.run][i.asked] = << >>
          BY <1>2, <2>1, <4>1 DEF HasRow
        <4> QED BY <4>1, <4>2
      <3> QED BY <3>1
    <2> QED BY <2>1, <2>2, <2>3, ActFrame
  <1> QED BY <1>1, <1>2

\* The status of a run after a step of an invocation.
LEMMA StatusMoves ==
    ASSUME TypeInv, NEW i \in invocations, Acts(i), NEW r \in Runs
    PROVE  /\ r # i.run => status'[r] = status[r]
           /\ status'[r] = status[r] \/ status'[r] \in {"running", "needs_review"} \cup Final
  BY ActFrame DEF TypeInv, TypeOK, Acts, Proceed, OpenReview, ResolveReview

\* What the worker does before the email is loaded.
LEMMA Loading ==
    ASSUME TypeInv, FreshInv, NEW i \in invocations, Acts(i), i.at = "loading"
    PROVE  LoadSourceEmail(i) \/ (SaveCheckpoint(i) /\ UNCHANGED <<status, rows>>)
  BY DEF FreshInv, Acts, Proceed, AdvanceRun, SaveCheckpoint, AskReview, GraphEnds, OpenReview,
      MarkRunNeedsReview, ResolveReview, Interrupt, ResumeGraph, Return,
      MarkSourceNeedsReview, RefuseDecision, RefuseSuccessor, Raise, Crash, Failing, InGraph

LEMMA VisitStep ==
    ASSUME TypeInv, VisitInv, FreshInv, [Next]_vars
    PROVE  VisitInv'
  <1>1. ASSUME NEW i \in invocations, Acts(i) PROVE VisitInv'
    <2>0. i.run \in Runs /\ \A j \in invocations : j.run \in Runs
      BY DEF TypeInv, TypeOK, Invocation
    <2>1. ASSUME NEW j \in invocations',
                 j.by # Worker \/ j.at \in {"posted", "marking", "answering", "leaving"}
          PROVE  HasRow(j.run)'
      <3>1. CASE j \in invocations
        BY <1>1, <2>0, <2>1, <3>1, ReviewsStay DEF VisitInv
      <3>2. CASE j \in Kin(i) /\ Arrival(i, j)
        <4>1. CASE HasRow(i.run)
          BY <1>1, <2>0, <3>2, <4>1, ReviewsStay DEF Kin
        <4>2. CASE OpenReview(i)
          <5>1. i.asked \in Questions /\ rows'[i.run][i.asked] \in Seq(Row)
                /\ Len(rows'[i.run][i.asked]) # 0
            <6>1. i.asked \in Questions /\ rows'[i.run][i.asked] \in Seq(Row)
                  /\ rows[i.run][i.asked] \in Seq(Row)
              BY <4>2, Opened, Chains DEF Shape
            <6>2. CASE RowServes(i.run, i.asked) /\ UNCHANGED rows
              BY <6>1, <6>2, EmptySeq DEF RowServes
            <6>3. CASE Len(rows'[i.run][i.asked]) = Len(rows[i.run][i.asked]) + 1
              BY <6>1, <6>3
            <6> QED BY <4>2, <6>1, <6>2, <6>3, Opened
          <5> QED BY <3>2, <5>1, EmptySeq DEF HasRow, Kin
        <4> QED
          BY <1>1, <2>1, <3>2, <4>1, <4>2
          DEF Arrival, Stands, VisitInv, Kin, MarkRunNeedsReview, Interrupt, ResumeGraph
      <3> QED BY <1>1, <3>1, <3>2, Arrivals
    <2>2. ASSUME NEW j \in invocations', NEW k \in invocations', j.run = k.run, ~HasRow(j.run)'
          PROVE  j = k
      <3>1. \E m \in invocations : m.run = j.run
        BY <1>1, Arrivals DEF Kin
      <3>2. ~HasRow(j.run)
        BY <1>1, <2>0, <2>2, <3>1, ReviewsStay
      <3>3. CASE Leaves(i)
        BY <2>2, <3>2, <3>3 DEF Leaves, VisitInv
      <3>4. CASE \E m \in Kin(i) : Becomes(i, m)
        BY <2>2, <3>2, <3>4 DEF Becomes, Kin, VisitInv
      <3> QED BY <1>1, <3>3, <3>4, ActFrame
    <2>3. ASSUME NEW j \in invocations', j.at = "ended", ~HasRow(j.run)'
          PROVE  status'[j.run] \in Final
      <3>1. CASE j \in invocations /\ j # i
        <4>1. ~HasRow(j.run)
          BY <1>1, <2>0, <2>3, <3>1, ReviewsStay
        <4>2. j.run # i.run
          BY <3>1, <4>1 DEF VisitInv
        <4> QED BY <1>1, <2>0, <2>3, <3>1, <4>1, <4>2, StatusMoves DEF VisitInv
      <3>2. CASE j \in Kin(i) /\ SaveCheckpoint(i) /\ i.at = "ended"
        <4>1. ~HasRow(i.run)
          BY <1>1, <2>0, <2>3, <3>2, ReviewsStay DEF Kin
        <4> QED BY <3>2, <4>1 DEF VisitInv, Kin, SaveCheckpoint
      <3>3. CASE j \in Kin(i) /\ \E outcome \in Final : GraphEnds(i, outcome)
        BY <2>0, <3>3 DEF Kin, GraphEnds, FinalizeRun, TypeInv, TypeOK
      <3> QED BY <1>1, <2>3, <3>1, <3>2, <3>3, Arrivals DEF Arrival, Stands
    <2> QED BY <2>1, <2>2, <2>3 DEF VisitInv
  <1>2. ASSUME NEW r \in Runs, StartRun(r) PROVE VisitInv'
    <2> DEFINE z == [run |-> r, by |-> Worker, decision |-> NoDecision, question |-> 0,
                     seen |-> 0, again |-> FALSE, at |-> "loading", asked |-> 0, item |-> 0,
                     saved |-> TRUE, alone |-> TRUE]
    <2>1. /\ invocations' = invocations \cup {z} /\ \A i \in invocations : i.run # r
          /\ UNCHANGED <<rows, status>>
      BY <1>2 DEF StartRun
    <2>2. z.run = r /\ z.by = Worker /\ z.at = "loading"
      OBVIOUS
    <2> HIDE DEF z
    <2> QED BY <2>1, <2>2 DEF VisitInv, HasRow
  <1>3. ASSUME NEW r \in Runs, ReclaimOrphan(r) PROVE VisitInv'
    BY <1>3 DEF ReclaimOrphan, VisitInv, HasRow, Final, TypeInv, TypeOK, Invocation
  <1>4. ASSUME NEW h, NEW r, NEW q, NEW n, NEW d, Submits(h, r, q, n, d) PROVE VisitInv'
    <2>1. UNCHANGED <<rows, status>> /\ HasRow(r)
      BY <1>4 DEF Submits, Submit, HasRow
    <2>2. \A j \in invocations' : \/ j.run = r
                                  \/ j \in invocations /\ j.run # r
      BY <1>4, Submitted
    <2> QED BY <2>1, <2>2 DEF VisitInv, HasRow
  <1>5. CASE UNCHANGED vars
    BY <1>5 DEF vars, VisitInv, HasRow
  <1> QED BY <1>1, <1>2, <1>3, <1>4, <1>5, Steps

LEMMA FreshStep ==
    ASSUME TypeInv, VisitInv, FreshInv, [Next]_vars
    PROVE  FreshInv'
  <1>1. ASSUME NEW i \in invocations, Acts(i) PROVE FreshInv'
    <2>0. i.run \in Runs /\ \A j \in invocations : j.run \in Runs
      BY DEF TypeInv, TypeOK, Invocation
    <2>1. ASSUME NEW r \in Runs, status'[r] = "none" PROVE ~HasRow(r)'
      <3>1. status[r] = "none"
        BY <1>1, <2>1, StatusMoves DEF Final
      <3>2. r = i.run /\ OpenReview(i) => i.at = "loading"
        BY <3>1 DEF FreshInv
      <3>3. ~(r = i.run /\ OpenReview(i))
        BY <3>2 DEF OpenReview
      <3> QED BY <1>1, <3>1, <3>3, ReviewsStay DEF FreshInv
    <2>2. ASSUME NEW j \in invocations'
          PROVE  /\ j.at = "loading" <=> status'[j.run] = "none"
                 /\ j.at = "loading" => j.by = Worker
      <3>1. CASE j \in invocations /\ j # i
        <4>1. CASE j.run # i.run
          BY <1>1, <2>0, <3>1, <4>1, StatusMoves DEF FreshInv
        <4>2. CASE j.run = i.run
          <5>1. HasRow(i.run) /\ status[i.run] # "none"
            BY <2>0, <3>1, <4>2 DEF VisitInv, FreshInv
          <5>2. status'[i.run] # "none"
            BY <1>1, <2>0, <5>1, StatusMoves DEF Final
          <5> QED BY <3>1, <4>2, <5>1, <5>2 DEF FreshInv
        <4> QED BY <4>1, <4>2
      <3>2. CASE j \in Kin(i) /\ Arrival(i, j)
        <4>1. CASE i.at = "loading"
          <5>1. CASE LoadSourceEmail(i)
            <6>1. status'[i.run] = "running"
              BY <2>0, <5>1 DEF LoadSourceEmail, TypeInv, TypeOK
            <6>2. ~SaveCheckpoint(i)
              BY <4>1, <6>1 DEF SaveCheckpoint, FreshInv
            <6>3. j.at # "loading"
              BY <3>2, <6>2 DEF Arrival, Stands
            <6> QED BY <3>2, <6>1, <6>3 DEF Kin
          <5>2. CASE SaveCheckpoint(i) /\ UNCHANGED <<status, rows>>
            <6>1. status[i.run] = "none" /\ status'[j.run] = "none" /\ j.by = Worker
              BY <3>2, <4>1, <5>2 DEF FreshInv, Kin
            <6>2. status'[i.run] # "running"
              BY <5>2, <6>1 DEF Kin
            <6>3. ~LoadSourceEmail(i)
              BY <2>0, <6>2 DEF LoadSourceEmail, TypeInv, TypeOK
            <6>4. j.at = "loading"
              BY <3>2, <4>1, <6>3
              DEF Arrival, Stands, AdvanceRun, AskReview, GraphEnds, OpenReview,
                  MarkRunNeedsReview, ResolveReview, Interrupt, ResumeGraph
            <6> QED BY <6>1, <6>4
          <5> QED BY <1>1, <4>1, <5>1, <5>2, Loading
        <4>2. CASE i.at # "loading"
          <5>1. status[i.run] # "none" /\ status'[i.run] # "none"
            BY <1>1, <2>0, <4>2, StatusMoves DEF FreshInv, Final
          <5>2. j.at # "loading"
            BY <3>2, <4>2 DEF Arrival, Stands
          <5> QED BY <3>2, <5>1, <5>2 DEF Kin
        <4> QED BY <4>1, <4>2
      <3> QED BY <1>1, <3>1, <3>2, Arrivals
    <2> QED BY <2>1, <2>2 DEF FreshInv
  <1>2. ASSUME NEW r \in Runs, StartRun(r) PROVE FreshInv'
    <2>1. UNCHANGED <<rows, status>> /\ status[r] = "none"
      BY <1>2 DEF StartRun
    <2> QED BY <1>2, <2>1, Started DEF FreshInv, HasRow
  <1>3. ASSUME NEW r \in Runs, ReclaimOrphan(r) PROVE FreshInv'
    BY <1>3 DEF ReclaimOrphan, Orphaned, FreshInv, HasRow, TypeInv, TypeOK, Invocation
  <1>4. ASSUME NEW h, NEW r, NEW q, NEW n, NEW d, Submits(h, r, q, n, d) PROVE FreshInv'
    <2>1. UNCHANGED <<rows, status>> /\ HasRow(r) /\ r \in Runs
      BY <1>4 DEF Submits, Submit, HasRow
    <2> QED BY <1>4, <2>1, Submitted DEF FreshInv, HasRow, Twin
  <1>5. CASE UNCHANGED vars
    BY <1>5 DEF vars, FreshInv, HasRow
  <1> QED BY <1>1, <1>2, <1>3, <1>4, <1>5, Steps

\* An invocation that leaves without a word on run or email leaves the run alive.
LEMMA LeftAlive ==
    ASSUME TypeInv, FreshInv, NEW i \in invocations, Leaves(i),
           UNCHANGED <<status, rows>>, i.at # "loading",
           Live(i.run) => HasRow(i.run), NEW r \in Runs, Alive(r)
    PROVE  Alive(r)'
  BY DEF Alive, Live, HasRow, Leaves

\* An invocation that goes on keeps the run alive.
LEMMA MovedAlive ==
    ASSUME TypeInv, FreshInv, NEW i \in invocations, Acts(i), \E j \in Kin(i) : Becomes(i, j),
           UNCHANGED status, NEW r \in Runs, Alive(r)
    PROVE  Alive(r)'
  <1>1. PICK j \in Kin(i) : Becomes(i, j)
    OBVIOUS
  <1>2. j \in invocations' /\ j.run = i.run /\ \A m \in invocations : m # i => m \in invocations'
    BY <1>1 DEF Becomes, Kin
  <1>3. CASE Live(r) /\ HasRow(r)
    BY <1>3, ReviewsStay DEF Alive, Live
  <1>4. CASE Live(r) /\ \E m \in invocations : m.run = r
    BY <1>2, <1>4 DEF Alive, Live
  <1>5. CASE \E m \in invocations : m.run = r /\ m.at = "loading"
    <2>1. PICK m \in invocations : m.run = r /\ m.at = "loading"
      BY <1>5
    <2>2. CASE m # i
      BY <1>2, <2>1, <2>2 DEF Alive
    <2>3. CASE m = i
      <3>1. LoadSourceEmail(i) \/ SaveCheckpoint(i)
        BY <2>1, <2>3, Loading
      <3>2. CASE LoadSourceEmail(i)
        <4>1. status[r] = "none" /\ status'[r] = "running"
          BY <2>1, <2>3, <3>2 DEF FreshInv, LoadSourceEmail, TypeInv, TypeOK
        <4> QED BY <4>1
      <3>3. CASE SaveCheckpoint(i)
        <4>1. PICK k \in Kin(i) : Becomes(i, k) /\ k.at = i.at
          <5>1. Turn(i, i.at, i.asked, i.item, TRUE)
            BY <3>3, Turns
          <5> QED BY <5>1 DEF Turn, Stands
        <4>2. k \in invocations' /\ k.run = r /\ k.at = "loading"
          BY <2>1, <2>3, <4>1 DEF Becomes, Kin
        <4> QED BY <4>2 DEF Alive
      <3> QED BY <3>1, <3>2, <3>3
    <2> QED BY <2>2, <2>3
  <1> QED BY <1>3, <1>4, <1>5 DEF Alive

LEMMA AliveStep ==
    ASSUME TypeInv, VisitInv, FreshInv, AliveInv, [Next]_vars
    PROVE  AliveInv'
  <1> SUFFICES ASSUME email' \in {"processing", "needs_review"}
               PROVE  \E r \in Runs : Alive(r)'
    BY DEF AliveInv
  <1>1. ASSUME NEW i \in invocations, Acts(i) PROVE \E r \in Runs : Alive(r)'
    <2>0. i.run \in Runs
      BY DEF TypeInv, TypeOK, Invocation
    <2>1. CASE LoadSourceEmail(i) \/ AdvanceRun(i) \/ MarkRunNeedsReview(i)
      <3>1. Live(i.run)'
        BY <2>0, <2>1 DEF LoadSourceEmail, AdvanceRun, MarkRunNeedsReview, Live, TypeInv, TypeOK
      <3>2. \E j \in invocations' : j.run = i.run
        <4>1. \E at : Turn(i, at, i.asked, i.item, i.saved)
          BY <2>1, Turns
        <4> QED BY <4>1 DEF Turn, Becomes, Kin
      <3> QED BY <2>0, <3>1, <3>2 DEF Alive
    <2>2. CASE /\ UNCHANGED status /\ \E j \in Kin(i) : Becomes(i, j)
               /\ email \in {"processing", "needs_review"}
      BY <1>1, <2>2, MovedAlive DEF AliveInv
    <2>3. CASE /\ Leaves(i) /\ UNCHANGED <<status, rows>>
               /\ email \in {"processing", "needs_review"}
               /\ \/ i.at \in {"posted", "leaving", "ended"}
                  \/ i.by # Worker
      <3>1. i.at # "loading"
        BY <2>3 DEF FreshInv
      <3>2. Live(i.run) => HasRow(i.run)
        BY <2>3 DEF VisitInv, Live, Final
      <3> QED BY <2>3, <3>1, <3>2, LeftAlive DEF AliveInv
    <2>4. CASE SaveCheckpoint(i) \/ AskReview(i) \/ OpenReview(i) \/ ResolveReview(i)
               \/ Interrupt(i) \/ ResumeGraph(i)
      <3>1. UNCHANGED <<status, email>>
        BY <2>4 DEF SaveCheckpoint, AskReview, OpenReview, ResolveReview, Interrupt, ResumeGraph
      <3>2. CASE \E j \in Kin(i) : Becomes(i, j)
        BY <2>2, <3>1, <3>2
      <3>3. CASE Leaves(i) /\ ResumeGraph(i)
        BY <2>3, <3>1, <3>3 DEF ResumeGraph
      <3> QED BY <2>4, <3>2, <3>3, Turns DEF Turn, BareTurn, Stands
    <2>5. CASE Return(i) \/ MarkSourceNeedsReview(i) \/ Crash(i)
      BY <2>3, <2>5 DEF Return, MarkSourceNeedsReview, Crash
    <2>6. ~Failing(i) /\ \A outcome \in Final : ~GraphEnds(i, outcome)
      BY DEF Failing, GraphEnds, FinalizeRun, EmailOutcome, Final
    <2> QED
      BY <1>1, <2>1, <2>4, <2>5, <2>6
      DEF Acts, Proceed, RefuseDecision, RefuseSuccessor, Raise
  <1>2. ASSUME NEW r \in Runs, StartRun(r) PROVE \E p \in Runs : Alive(p)'
    <2> DEFINE z == [run |-> r, by |-> Worker, decision |-> NoDecision, question |-> 0,
                     seen |-> 0, again |-> FALSE, at |-> "loading", asked |-> 0, item |-> 0,
                     saved |-> TRUE, alone |-> TRUE]
    <2>1. z \in invocations' /\ z.run = r /\ z.at = "loading"
      BY <1>2 DEF StartRun
    <2> QED BY <2>1 DEF Alive
  <1>3. ASSUME NEW r \in Runs, ReclaimOrphan(r) PROVE \E p \in Runs : Alive(p)'
    BY <1>3 DEF ReclaimOrphan
  <1>4. ASSUME NEW h, NEW r, NEW q, NEW n, NEW d, Submits(h, r, q, n, d)
        PROVE  \E p \in Runs : Alive(p)'
    <2>1. UNCHANGED <<email, rows, status>> /\ HasRow(r) /\ r \in Runs
      BY <1>4 DEF Submits, Submit, HasRow
    <2>2. PICK p \in Runs : Alive(p)
      BY <2>1 DEF AliveInv
    <2>3. CASE Live(p) /\ HasRow(p)
      BY <2>1, <2>3 DEF Alive, Live, HasRow
    <2>4. CASE \E m \in invocations : m.run = p /\ (m.at = "loading" \/ Live(p))
      <3>1. PICK m \in invocations : m.run = p /\ (m.at = "loading" \/ Live(p))
        BY <2>4
      <3>2. CASE p = r
        <4>1. Live(p)
          BY <2>1, <3>1, <3>2 DEF FreshInv
        <4> QED BY <2>1, <3>2, <4>1 DEF Alive, Live, HasRow
      <3>3. CASE p # r
        <4>1. m \in invocations'
          BY <1>4, <3>1, <3>3 DEF Submits, Submit, Accompanied
        <4> QED BY <2>1, <3>1, <4>1 DEF Alive, Live
      <3> QED BY <3>2, <3>3
    <2> QED BY <2>2, <2>3, <2>4 DEF Alive
  <1>5. CASE UNCHANGED vars
    BY <1>5 DEF vars, AliveInv, Alive, Live, HasRow
  <1> QED BY <1>1, <1>2, <1>3, <1>4, <1>5, Steps

LEMMA ProgressStep == ProgressInv /\ [Next]_vars => ProgressInv'
  BY TypeStep, AllowedStep, VisitStep, FreshStep, AliveStep DEF ProgressInv

\* A run that lives and has a review can be moved on.
LEMMA Accepted ==
    ASSUME TypeInv, AllowedInv, NEW r \in Runs, Live(r), HasRow(r)
    PROVE  \E p \in Runs, q \in Questions, d \in Decisions :
               \E n \in 1 .. Len(rows[p][q]) : d \in Allowed[q] /\ Accepts(p, q, n, d)
  <1>1. CASE FollowUpOpen
    <2>1. PICK p \in Runs, q \in Questions : OpenRow(p, q)
      BY <1>1 DEF FollowUpOpen
    <2>2. PICK n \in 1 .. Len(rows[p][q]) : IsOpen(rows[p][q][n])
      BY <2>1 DEF OpenRow
    <2>3. PICK d \in Decisions : d \in Allowed[q]
      BY ReviewAssumption DEF Questions
    <2> QED BY <2>2, <2>3 DEF Accepts
  <1>2. CASE ~FollowUpOpen
    <2>1. PICK q \in Questions : rows[r][q] # << >>
      BY DEF HasRow
    <2>2. rows[r][q] \in Seq(Row)
      BY Chains
    <2>3. 1 \in 1 .. Len(rows[r][q])
      BY <2>1, <2>2, EmptySeq
    <2>4. rows[r][q][1] \in Row /\ ~IsOpen(rows[r][q][1])
      BY <1>2, <2>2, <2>3 DEF FollowUpOpen, OpenRow
    <2>5. rows[r][q][1] \in Decisions /\ rows[r][q][1] \in Allowed[q]
      BY <2>3, <2>4 DEF Row, IsOpen, AllowedInv
    <2>6. Accepts(r, q, 1, rows[r][q][1])
      BY <1>2 DEF Accepts, Recovered, Live, Final
    <2> QED BY <2>3, <2>5, <2>6
  <1> QED BY <1>1, <1>2

\* An email that waits for a human, with nobody working on it, can be moved on: a review is
\* open, the drain reclaims it, or the identical decision is accepted again.
THEOREM NobodyStrands == Spec => []NothingStranded
  <1>1. ProgressInv => NothingStranded
    BY Accepted DEF ProgressInv, AliveInv, Alive, NothingStranded
  <1> QED BY <1>1, InitProgressInv, ProgressStep, PTL DEF Spec

-----------------------------------------------------------------------------
(* The answers.                                                             *)

At(asked, node) == [asked |-> asked, node |-> node]
LEMMA Fields == \A asked, node : At(asked, node).asked = asked /\ At(asked, node).node = node
  BY DEF At

InStage(i) == i.at \in {"loading", "working", "routing"}
InAsk(i) == i.at \in {"opening", "marking", "answering"}

\* A run whose record does not exist yet has not left the beginning of its thread.
BlankInv ==
    /\ \A r \in Runs : status[r] = "none" => checkpoint[r] = At(0, "work")
    /\ \A i \in invocations : i.at = "loading" => i.asked = 0

\* A run that no two invocations were in flight for has at most one.
MetInv == \A i, j \in invocations : i.run = j.run /\ i.run \notin met => i = j

\* The thread of an invocation is saved at its node or at the one before; it asks the
\* question whose row is open, or is on its way to it.
OnPath(i) ==
    /\ i.saved \/ i.at \in {"working", "routing"} \/ InAsk(i)
    /\ InStage(i) => checkpoint[i.run] \in {At(i.asked, "work"), At(i.asked, "ask")}
    /\ InAsk(i) => checkpoint[i.run] \in {At(i.asked, "ask"), At(i.asked - 1, "work")}
    /\ i.saved /\ (InStage(i) \/ InAsk(i)) => checkpoint[i.run] = Here(i)
    /\ Asking(i) => i.item = Len(rows[i.run][i.asked])
    /\ \A q \in Questions : OpenRow(i.run, q) =>
           /\ InStage(i) => q = i.asked + 1
           /\ InAsk(i) => q = i.asked

\* The thread of a run continues at the question whose row is open, or before it.
Continues(r) ==
    \A q \in Questions : OpenRow(r, q) =>
        checkpoint[r].node = "end" \/ checkpoint[r] \in {At(q, "ask"), At(q - 1, "work")}

PathInv ==
    /\ MetInv
    /\ \A i \in invocations : i.run \notin met => OnPath(i)
    /\ \A r \in Runs : r \notin met => Continues(r)

\* An invocation with a decision: its row is open or holds that decision; what was given to
\* an open row is carried to the question of that row.
Answering(i) ==
    /\ i.question \in Questions /\ i.seen \in 1 .. Len(rows[i.run][i.question])
    /\ rows[i.run][i.question][i.seen] \in {NoDecision, i.decision}
    /\ i.again => rows[i.run][i.question][i.seen] = i.decision
    /\ i.at # "loading"
    /\ i.at = "posted" /\ ~i.again => IsOpen(rows[i.run][i.question][i.seen])
    /\ i.at # "posted" => i.question = i.asked \/ i.again
    /\ InAsk(i) => i.saved
    /\ i.at \in {"working", "routing", "ended"} =>
           rows[i.run][i.question][i.seen] = i.decision

AnswerInv ==
    \A i \in invocations : i.run \notin met /\ i.decision # NoDecision => Answering(i)

GroundInv == TypeInv /\ ChainInv /\ VisitInv /\ FreshInv /\ BlankInv

ReplyInv == GroundInv /\ PathInv /\ AnswerInv

LEMMA InitReplyInv == Init => ReplyInv
  <1> SUFFICES ASSUME Init PROVE ReplyInv
    OBVIOUS
  <1>1. \A r \in Runs, q \in Questions : rows[r][q] = << >> /\ ~OpenRow(r, q)
    BY DEF Init, OpenRow
  <1>2. ChainInv
    BY <1>1 DEF ChainInv
  <1>3. VisitInv /\ FreshInv
    BY InitProgressInv DEF ProgressInv
  <1>4. BlankInv
    BY DEF Init, BlankInv, At
  <1>5. PathInv /\ AnswerInv
    BY <1>1 DEF Init, PathInv, MetInv, Continues, AnswerInv
  <1> QED BY <1>2, <1>3, <1>4, <1>5, InitTypeInv DEF ReplyInv, GroundInv

\* What a step of an invocation does to the threads.
LEMMA ThreadMoves ==
    ASSUME TypeInv, NEW i \in invocations, Acts(i)
    PROVE  /\ \/ UNCHANGED checkpoint
              \/ SaveCheckpoint(i) /\ checkpoint' = [checkpoint EXCEPT ![i.run] = Here(i)]
              \/ Return(i) /\ checkpoint' = [checkpoint EXCEPT ![i.run].node = "end"]
           /\ UNCHANGED met /\ checkpoint \in [Runs -> Position]
           /\ i.run \in Runs
           /\ \A r \in Runs : r # i.run => checkpoint'[r] = checkpoint[r]
  <1>1. /\ \/ UNCHANGED checkpoint
           \/ SaveCheckpoint(i) /\ checkpoint' = [checkpoint EXCEPT ![i.run] = Here(i)]
           \/ Return(i) /\ checkpoint' = [checkpoint EXCEPT ![i.run].node = "end"]
        /\ UNCHANGED met
    BY DEF Acts, Proceed, LoadSourceEmail, AdvanceRun, SaveCheckpoint, AskReview, GraphEnds,
        OpenReview, MarkRunNeedsReview, ResolveReview, Interrupt, ResumeGraph, Return,
        MarkSourceNeedsReview, RefuseDecision, RefuseSuccessor, Raise, Crash, Failing
  <1> QED BY <1>1, ActFrame DEF TypeInv, TypeOK

LEMMA BlankStep ==
    ASSUME TypeInv, FreshInv, BlankInv, [Next]_vars
    PROVE  BlankInv'
  <1>1. ASSUME NEW i \in invocations, Acts(i) PROVE BlankInv'
    <2>1. ASSUME NEW r \in Runs, status'[r] = "none" PROVE checkpoint'[r] = At(0, "work")
      <3>1. status[r] = "none" /\ checkpoint[r] = At(0, "work")
        BY <1>1, <2>1, StatusMoves DEF Final, BlankInv
      <3>2. CASE r = i.run
        <4>1. i.at = "loading" /\ i.asked = 0
          BY <3>1, <3>2 DEF FreshInv, BlankInv
        <4>2. Here(i) = At(0, "work")
          BY <4>1 DEF Here, At
        <4>3. ~Return(i)
          BY <4>1 DEF Return
        <4> QED BY <1>1, <3>1, <3>2, <4>2, <4>3, ThreadMoves
      <3> QED BY <1>1, <3>1, <3>2, ThreadMoves
    <2>2. ASSUME NEW j \in invocations', j.at = "loading" PROVE j.asked = 0
      <3>1. CASE j \in invocations
        BY <2>2, <3>1 DEF BlankInv
      <3>2. CASE SaveCheckpoint(i) /\ i.at = "loading" /\ j.asked = i.asked
        BY <3>2 DEF BlankInv
      <3> QED BY <1>1, <2>2, <3>1, <3>2, Arrivals DEF Arrival, Stands
    <2> QED BY <2>1, <2>2 DEF BlankInv
  <1>2. ASSUME NEW r \in Runs, StartRun(r) PROVE BlankInv'
    <2>1. UNCHANGED <<status, checkpoint>>
      BY <1>2 DEF StartRun
    <2> QED BY <1>2, <2>1, Started DEF BlankInv
  <1>3. ASSUME NEW r \in Runs, ReclaimOrphan(r) PROVE BlankInv'
    BY <1>3 DEF ReclaimOrphan, Orphaned, BlankInv, TypeInv, TypeOK
  <1>4. ASSUME NEW h, NEW r, NEW q, NEW n, NEW d, Submits(h, r, q, n, d) PROVE BlankInv'
    <2>1. UNCHANGED <<status, checkpoint>>
      BY <1>4 DEF Submits, Submit
    <2> QED BY <1>4, <2>1, Submitted DEF BlankInv, Twin
  <1>5. CASE UNCHANGED vars
    BY <1>5 DEF vars, BlankInv
  <1> QED BY <1>1, <1>2, <1>3, <1>4, <1>5, Steps

LEMMA GroundStep == GroundInv /\ [Next]_vars => GroundInv'
  BY TypeStep, ChainStep, VisitStep, FreshStep, BlankStep DEF GroundInv

LEMMA MetStep ==
    ASSUME TypeInv, MetInv, [Next]_vars
    PROVE  MetInv'
  <1> SUFFICES ASSUME NEW j \in invocations', NEW k \in invocations',
                      j.run = k.run, j.run \notin met'
               PROVE  j = k
    BY DEF MetInv
  <1>1. ASSUME NEW i \in invocations, Acts(i) PROVE j = k
    <2>0. UNCHANGED met
      BY <1>1, ThreadMoves
    <2>1. CASE Leaves(i)
      BY <2>0, <2>1 DEF Leaves, MetInv
    <2>2. CASE \E m \in Kin(i) : Becomes(i, m)
      BY <2>0, <2>2 DEF Becomes, Kin, MetInv
    <2> QED BY <1>1, <2>1, <2>2, ActFrame
  <1>2. ASSUME NEW r \in Runs, StartRun(r) PROVE j = k
    <2> DEFINE z == [run |-> r, by |-> Worker, decision |-> NoDecision, question |-> 0,
                     seen |-> 0, again |-> FALSE, at |-> "loading", asked |-> 0, item |-> 0,
                     saved |-> TRUE, alone |-> TRUE]
    <2>1. /\ invocations' = invocations \cup {z} /\ \A i \in invocations : i.run # r
          /\ UNCHANGED met
      BY <1>2 DEF StartRun
    <2>2. z.run = r
      OBVIOUS
    <2> HIDE DEF z
    <2> QED BY <2>1, <2>2 DEF MetInv
  <1>3. ASSUME NEW r \in Runs, ReclaimOrphan(r) PROVE j = k
    BY <1>3 DEF ReclaimOrphan, MetInv
  <1>4. ASSUME NEW h, NEW r, NEW q, NEW n, NEW d, Submits(h, r, q, n, d) PROVE j = k
    <2>0. /\ \A i \in invocations : i.run = r => r \in met'
          /\ \A p : p \notin met' => p \notin met
      BY <1>4 DEF Submits, Submit
    <2>1. CASE j.run # r
      BY <1>4, <2>0, <2>1, Submitted DEF MetInv
    <2>2. CASE j.run = r
      <3> DEFINE z == [run |-> r, by |-> h, decision |-> d, question |-> q, seen |-> n,
                       again |-> ~IsOpen(rows[r][q][n]), at |-> "posted", asked |-> 0,
                       item |-> 0, saved |-> TRUE, alone |-> \A i \in invocations : i.run # r]
      <3>1. \A i \in invocations : i.run # r
        BY <2>0, <2>2
      <3>2. Accompanied(r) = invocations
        BY <3>1 DEF Accompanied
      <3>3. invocations' = invocations \cup {z}
        BY <1>4, <3>2 DEF Submits, Submit
      <3> HIDE DEF z
      <3> QED BY <2>2, <3>1, <3>3
    <2> QED BY <2>1, <2>2
  <1>5. CASE UNCHANGED vars
    BY <1>5 DEF vars, MetInv
  <1> QED BY <1>1, <1>2, <1>3, <1>4, <1>5, Steps

\* The rows that are open after a step of an invocation.
LEMMA OpenAfter ==
    ASSUME TypeInv, NEW i \in invocations, Acts(i), NEW r \in Runs, NEW q \in Questions,
           OpenRow(r, q)'
    PROVE  OpenRow(r, q) \/ (OpenReview(i) /\ r = i.run /\ q = i.asked)
  <1>1. CASE UNCHANGED rows
    BY <1>1 DEF OpenRow
  <1>2. CASE OpenReview(i) /\ <<r, q>> # <<i.run, i.asked>> /\ ~UNCHANGED rows
    BY <1>2, Opened DEF OpenRow
  <1>3. CASE ResolveReview(i)
    <2>1. CASE r = i.run /\ q = i.asked
      <3>1. PICK n \in 1 .. Len(rows'[r][q]) : IsOpen(rows'[r][q][n])
        BY DEF OpenRow
      <3>2. /\ n \in 1 .. Len(rows[r][q]) /\ rows'[r][q][i.item] = i.decision
            /\ i.decision # NoDecision
            /\ n # i.item => rows'[r][q][n] = rows[r][q][n]
        BY <1>3, <2>1, <3>1, Resolved, ReviewAssumption
      <3> QED BY <3>1, <3>2 DEF OpenRow, IsOpen
    <2>2. CASE <<r, q>> # <<i.run, i.asked>>
      BY <1>3, <2>2, Resolved DEF OpenRow
    <2> QED BY <2>1, <2>2
  <1> QED BY <1>1, <1>2, <1>3, ActFrame

\* Who resolves the last row of a question leaves none of it open.
LEMMA ClosedAfter ==
    ASSUME TypeInv, ChainInv, NEW i \in invocations, ResolveReview(i),
           i.item = Len(rows[i.run][i.asked])
    PROVE  ~OpenRow(i.run, i.asked)'
  <1> SUFFICES ASSUME NEW n \in 1 .. Len(rows'[i.run][i.asked]),
                      IsOpen(rows'[i.run][i.asked][n])
               PROVE  FALSE
    BY DEF OpenRow
  <1>1. /\ n \in 1 .. Len(rows[i.run][i.asked]) /\ Len(rows[i.run][i.asked]) \in Nat
        /\ i.run \in Runs /\ i.asked \in Questions
        /\ rows'[i.run][i.asked][i.item] = i.decision /\ i.decision # NoDecision
        /\ n # i.item => rows'[i.run][i.asked][n] = rows[i.run][i.asked][n]
    BY Resolved, Chains, ReviewAssumption
  <1>2. n # i.item
    BY <1>1 DEF IsOpen
  <1>3. n < Len(rows[i.run][i.asked])
    BY <1>1, <1>2
  <1> QED BY <1>1, <1>2, <1>3 DEF ChainInv

\* The step of an invocation keeps it on its path.
LEMMA PathKept ==
    ASSUME ReplyInv, NEW i \in invocations, Acts(i), i.run \notin met,
           NEW j \in Kin(i), Arrival(i, j)
    PROVE  OnPath(j)'
  <1>0. /\ TypeInv /\ ChainInv /\ OnPath(i) /\ Continues(i.run) /\ i.run \in Runs
        /\ j.run = i.run /\ i.asked \in Nat
        /\ checkpoint \in [Runs -> Position] /\ checkpoint[i.run] \in Position
    BY ActFrame, ReviewAssumption
    DEF ReplyInv, GroundInv, PathInv, TypeInv, TypeOK, Kin, Invocation
  <1>1. CASE LoadSourceEmail(i) /\ Stands(j, "working", i.asked, i.item, i.saved)
    BY <1>0, <1>1 DEF LoadSourceEmail, Stands, OnPath, InStage, InAsk, Asking, Here, OpenRow
  <1>2. CASE AdvanceRun(i) /\ Stands(j, "routing", i.asked, i.item, i.saved)
    BY <1>0, <1>2 DEF AdvanceRun, Stands, OnPath, InStage, InAsk, Asking, Here, OpenRow
  <1>3. CASE SaveCheckpoint(i) /\ Stands(j, i.at, i.asked, i.item, TRUE)
    <2>1. checkpoint'[i.run] = Here(i) /\ UNCHANGED rows /\ ~i.saved
      BY <1>0, <1>3 DEF SaveCheckpoint
    <2>2. InAsk(i) => Here(i) = At(i.asked, "ask")
      BY DEF InAsk, Here, At
    <2>3. InStage(i) => Here(i) = At(i.asked, "work")
      BY DEF InStage, Here, At
    <2>4. Here(j) = Here(i)
      BY <1>3 DEF Here, Stands
    <2> QED
      BY <1>0, <1>3, <2>1, <2>2, <2>3, <2>4
      DEF Stands, OnPath, InStage, InAsk, Asking, OpenRow
  <1>4. CASE (\E outcome \in Final : GraphEnds(i, outcome))
             /\ Stands(j, "ended", i.asked, i.item, i.saved)
    BY <1>0, <1>4 DEF GraphEnds, Stands, OnPath, InStage, InAsk, Asking
  <1>5. CASE OpenReview(i)
             /\ Stands(j, "marking", i.asked, Len(rows'[i.run][i.asked]), i.saved)
    <2>1. UNCHANGED checkpoint /\ i.at = "opening" /\ InAsk(i) /\ ~InStage(i)
      BY <1>5 DEF OpenReview, InAsk, InStage
    <2>2. \A q \in Questions : OpenRow(i.run, q)' => q = i.asked
      BY <1>0, <1>5, <2>1, OpenAfter DEF OnPath
    <2>3. Here(j) = Here(i)
      BY <1>5, <2>1 DEF Here, Stands
    <2> QED
      BY <1>0, <1>5, <2>1, <2>2, <2>3 DEF Stands, OnPath, InStage, InAsk, Asking
  <1>6. CASE MarkRunNeedsReview(i) /\ Stands(j, "answering", i.asked, i.item, i.saved)
    BY <1>0, <1>6
    DEF MarkRunNeedsReview, Stands, OnPath, InStage, InAsk, Asking, Here, OpenRow
  <1>7. CASE ResolveReview(i) /\ Stands(j, "working", i.asked, i.item, FALSE)
    <2>1. i.at = "answering" /\ i.decision # NoDecision /\ UNCHANGED checkpoint
      BY <1>0, <1>7, Resolved, ReviewAssumption DEF ResolveReview
    <2>2. i.saved /\ checkpoint[i.run] = Here(i) /\ Here(i) = At(i.asked, "ask")
      BY <1>0, <2>1 DEF ReplyInv, AnswerInv, Answering, InAsk, OnPath, Here, At
    <2>3. i.item = Len(rows[i.run][i.asked])
      BY <1>0, <2>1 DEF OnPath, Asking
    <2>4. \A q \in Questions : ~OpenRow(i.run, q)'
      <3>1. \A q \in Questions : OpenRow(i.run, q)' => q = i.asked
        BY <1>0, <1>7, <2>1, OpenAfter DEF OnPath, InAsk, OpenReview
      <3> QED BY <1>0, <1>7, <2>3, <3>1, ClosedAfter
    <2> QED
      BY <1>0, <1>7, <2>1, <2>2, <2>4 DEF Stands, OnPath, InStage, InAsk, Asking
  <1>8. CASE Interrupt(i) /\ Stands(j, "leaving", i.asked, i.item, i.saved)
    BY <1>0, <1>8 DEF Interrupt, Stands, OnPath, InStage, InAsk, Asking
  <1>9. CASE ResumeGraph(i)
    <2> DEFINE c == checkpoint[i.run]
    <2>0. /\ UNCHANGED <<rows, checkpoint>> /\ i.at = "posted" /\ i.saved
          /\ c = At(c.asked, c.node) /\ c.asked \in Nat
      BY <1>0, <1>9, ReviewAssumption DEF ResumeGraph, OnPath, InAsk, Position, At
    <2>1. CASE c.node = "ask" /\ Stands(j, "opening", c.asked, i.item, i.saved)
      <3>1. Here(j) = c /\ ~InStage(j) /\ ~Asking(j)
        BY <2>0, <2>1 DEF Here, At, Stands, InStage, Asking
      <3>2. \A q \in Questions : OpenRow(i.run, q) => q = c.asked
        BY <1>0, <2>1, Fields DEF Continues
      <3> QED BY <1>0, <2>0, <2>1, <3>1, <3>2 DEF Stands, OnPath, OpenRow
    <2>2. CASE c.node = "work" /\ Stands(j, "working", c.asked, i.item, i.saved)
      <3>1. Here(j) = c /\ ~InAsk(j) /\ ~Asking(j)
        BY <2>0, <2>2 DEF Here, At, Stands, InAsk, Asking
      <3>2. \A q \in Questions : OpenRow(i.run, q) => q = c.asked + 1
        <4>1. \A q \in Questions : OpenRow(i.run, q) => c.asked = q - 1
          BY <1>0, <2>2, Fields DEF Continues
        <4> QED BY <2>0, <4>1, ReviewAssumption DEF Questions
      <3> QED BY <1>0, <2>0, <2>2, <3>1, <3>2 DEF Stands, OnPath, OpenRow
    <2> QED BY <1>9, <2>0, <2>1, <2>2 DEF Arrival, LoadSourceEmail, AdvanceRun,
        SaveCheckpoint, GraphEnds, OpenReview, MarkRunNeedsReview, ResolveReview, Interrupt,
        AskReview
  <1>10. CASE AskReview(i) /\ Stands(j, "opening", i.asked + 1, 0, FALSE)
    <2>1. /\ UNCHANGED <<rows, checkpoint>> /\ i.at = "routing" /\ i.saved
          /\ checkpoint[i.run] = Here(i) /\ Here(i) = At(i.asked, "work")
      BY <1>0, <1>10 DEF AskReview, OnPath, InStage, Here, At
    <2>2. (i.asked + 1) - 1 = i.asked
      BY <1>0
    <2> QED
      BY <1>0, <1>10, <2>1, <2>2 DEF Stands, OnPath, InStage, InAsk, Asking, OpenRow
  <1> QED
    BY <1>1, <1>2, <1>3, <1>4, <1>5, <1>6, <1>7, <1>8, <1>9, <1>10 DEF Arrival

\* A step of an invocation leaves the thread of each run at its open question, or before.
LEMMA StillContinues ==
    ASSUME ReplyInv, NEW i \in invocations, Acts(i), NEW r \in Runs, r \notin met
    PROVE  Continues(r)'
  <1> SUFFICES ASSUME NEW q \in Questions, OpenRow(r, q)'
               PROVE  \/ checkpoint'[r].node = "end"
                      \/ checkpoint'[r] \in {At(q, "ask"), At(q - 1, "work")}
    BY DEF Continues
  <1>a. TypeInv /\ Continues(r) /\ (i.run \notin met => OnPath(i))
    BY DEF ReplyInv, GroundInv, PathInv
  <1>b. i.run \in Runs /\ checkpoint \in [Runs -> Position] /\ i.asked \in Nat /\ q \in Nat
    BY <1>a, ActFrame, ReviewAssumption DEF TypeInv, TypeOK, Invocation, Questions
  <1>0. /\ TypeInv /\ Continues(r) /\ (i.run \notin met => OnPath(i)) /\ i.run \in Runs
        /\ checkpoint \in [Runs -> Position] /\ i.asked \in Nat /\ q \in Nat
    BY <1>a, <1>b
  <1>1. CASE OpenReview(i) /\ r = i.run /\ q = i.asked
    BY <1>0, <1>1 DEF OpenReview, OnPath, InAsk
  <1>2. CASE OpenRow(r, q)
    <2>1. CASE checkpoint'[r] = checkpoint[r]
      BY <1>0, <1>2, <2>1 DEF Continues
    <2>2. CASE SaveCheckpoint(i) /\ r = i.run
      <3>1. checkpoint'[r] = Here(i) /\ ~i.saved
        BY <1>0, <2>2 DEF SaveCheckpoint
      <3>2. CASE InAsk(i)
        BY <1>0, <1>2, <2>2, <3>1, <3>2 DEF InAsk, OnPath, Here, At
      <3>3. CASE InStage(i)
        <4>1. q = i.asked + 1 /\ q - 1 = i.asked
          BY <1>0, <1>2, <2>2, <3>3 DEF OnPath
        <4> QED BY <3>1, <3>3, <4>1 DEF InStage, Here, At
      <3> QED BY <1>0, <2>2, <3>1, <3>2, <3>3 DEF OnPath, InStage
    <2>3. CASE Return(i) /\ r = i.run
      BY <1>0, <2>3 DEF Return, Position
    <2> QED BY <1>0, <2>1, <2>2, <2>3, ThreadMoves
  <1> QED BY <1>0, <1>1, <1>2, OpenAfter

LEMMA PathStep ==
    ASSUME ReplyInv, TypeInv', [Next]_vars
    PROVE  PathInv'
  <1>0. TypeInv /\ MetInv' /\ FreshInv /\ BlankInv
    BY MetStep DEF ReplyInv, GroundInv, PathInv
  <1>1. ASSUME NEW i \in invocations, Acts(i) PROVE PathInv'
    <2>1. ASSUME NEW j \in invocations', j.run \notin met' PROVE OnPath(j)'
      <3>1. CASE j \in invocations /\ j # i
        <4>1. j.run # i.run /\ OnPath(j) /\ j.run \in Runs
          BY <1>0, <1>1, <2>1, <3>1, ThreadMoves
          DEF ReplyInv, PathInv, MetInv, TypeInv, TypeOK, Invocation
        <4>2. /\ \A q \in Questions : rows'[j.run][q] = rows[j.run][q]
              /\ checkpoint'[j.run] = checkpoint[j.run]
          BY <1>0, <1>1, <4>1, RowsGrow, ThreadMoves
        <4>3. Asking(j) => j.asked \in Questions
          BY <1>0, <3>1, ReviewAssumption
          DEF TypeInv, TypeOK, PlaceInv, Asking, Invocation, Questions
        <4> QED BY <4>1, <4>2, <4>3 DEF OnPath, OpenRow, InStage, InAsk, Asking
      <3>2. CASE j \in Kin(i) /\ Arrival(i, j)
        BY <1>0, <1>1, <2>1, <3>2, PathKept, ThreadMoves DEF Kin
      <3> QED BY <1>0, <1>1, <3>1, <3>2, Arrivals
    <2> QED BY <1>0, <1>1, <2>1, StillContinues, ThreadMoves DEF PathInv
  <1>2. ASSUME NEW r \in Runs, StartRun(r) PROVE PathInv'
    <2>1. UNCHANGED <<rows, checkpoint, met>> /\ status[r] = "none"
      BY <1>2 DEF StartRun
    <2>2. ASSUME NEW j \in invocations', j.run \notin met' PROVE OnPath(j)'
      <3>1. CASE j \in invocations
        BY <2>1, <2>2, <3>1 DEF ReplyInv, PathInv, OnPath, OpenRow, InStage, InAsk, Asking
      <3>2. CASE j.run = r /\ j.at = "loading" /\ j.asked = 0 /\ j.saved
        <4>1. checkpoint[r] = At(0, "work") /\ Here(j) = At(0, "work")
          BY <1>0, <2>1, <3>2 DEF BlankInv, Here, At
        <4>2. \A q \in Questions : ~OpenRow(r, q)
          <5>1. \A q \in Questions : rows[r][q] = << >>
            BY <1>0, <2>1 DEF FreshInv, HasRow
          <5> QED BY <5>1 DEF OpenRow
        <4> QED BY <2>1, <3>2, <4>1, <4>2 DEF OnPath, OpenRow, InStage, InAsk, Asking
      <3> QED BY <1>0, <1>2, <3>1, <3>2, Started
    <2> QED BY <1>0, <2>1, <2>2 DEF ReplyInv, PathInv, Continues, OpenRow
  <1>3. CASE UNCHANGED <<rows, checkpoint, met, invocations>>
    BY <1>0, <1>3 DEF ReplyInv, PathInv, OnPath, Continues, OpenRow, InStage, InAsk, Asking
  <1>4. ASSUME NEW h, NEW r, NEW q, NEW n, NEW d, Submits(h, r, q, n, d) PROVE PathInv'
    <2>1. /\ UNCHANGED <<rows, checkpoint>> /\ \A p : p \notin met' => p \notin met
          /\ \A i \in invocations : i.run = r => r \in met'
      BY <1>4 DEF Submits, Submit
    <2>2. ASSUME NEW j \in invocations', j.run \notin met' PROVE OnPath(j)'
      <3>1. CASE j \in invocations
        BY <2>1, <2>2, <3>1 DEF ReplyInv, PathInv, OnPath, OpenRow, InStage, InAsk, Asking
      <3>2. CASE j.at = "posted" /\ j.saved
        BY <3>2 DEF OnPath, InStage, InAsk, Asking
      <3> QED BY <1>0, <1>4, <2>1, <2>2, <3>1, <3>2, Submitted DEF Twin
    <2> QED BY <1>0, <2>1, <2>2 DEF ReplyInv, PathInv, Continues, OpenRow
  <1> QED BY <1>1, <1>2, <1>3, <1>4, Steps DEF ReclaimOrphan, vars

\* The row an invocation was given for, after its own step.
LEMMA SeenRow ==
    ASSUME ReplyInv, NEW i \in invocations, Acts(i), i.run \notin met,
           i.decision # NoDecision
    PROVE  /\ i.question \in Questions /\ i.seen \in 1 .. Len(rows'[i.run][i.question])
           /\ rows'[i.run][i.question][i.seen] \in {NoDecision, i.decision}
           /\ ~IsOpen(rows[i.run][i.question][i.seen])
              => rows'[i.run][i.question][i.seen] = i.decision
           /\ ResolveReview(i) => rows'[i.run][i.question][i.seen] = i.decision
           /\ ~ResolveReview(i) => rows'[i.run][i.question][i.seen]
                                       = rows[i.run][i.question][i.seen]
  <1>0. TypeInv /\ ChainInv /\ i.run \in Runs /\ Answering(i) /\ OnPath(i)
    BY ActFrame DEF ReplyInv, GroundInv, PathInv, AnswerInv
  <1>1. /\ i.question \in Questions /\ i.seen \in 1 .. Len(rows[i.run][i.question])
        /\ rows[i.run][i.question][i.seen] \in {NoDecision, i.decision}
    BY <1>0 DEF Answering
  <1>2. Len(rows[i.run][i.question]) \in Nat
    BY <1>0, <1>1, Chains
  <1>3. /\ rows' \in Shape /\ Len(rows'[i.run][i.question]) >= Len(rows[i.run][i.question])
        /\ ~IsOpen(rows[i.run][i.question][i.seen])
           => rows'[i.run][i.question][i.seen] = i.decision
    BY <1>0, <1>1, RowsGrow DEF IsOpen
  <1>4. Len(rows'[i.run][i.question]) \in Nat
    BY <1>0, <1>1, <1>3 DEF Shape
  <1>5. i.seen \in 1 .. Len(rows'[i.run][i.question])
    <2>1. \A a, b \in Nat : \A n \in 1 .. a : b >= a => n \in 1 .. b
      OBVIOUS
    <2> QED BY <1>1, <1>2, <1>3, <1>4, <2>1
  <1>6. CASE UNCHANGED rows /\ ~ResolveReview(i)
    BY <1>1, <1>3, <1>5, <1>6
  <1>7. CASE OpenReview(i) /\ ~UNCHANGED rows
    <2>1. rows'[i.run][i.question][i.seen] = rows[i.run][i.question][i.seen]
      <3>1. CASE i.question = i.asked
        BY <1>0, <1>1, <1>7, <3>1, Opened
      <3>2. CASE i.question # i.asked
        <4>1. <<i.run, i.question>> # <<i.run, i.asked>>
          BY <3>2
        <4> QED BY <1>0, <1>1, <1>7, <4>1, Opened
      <3> QED BY <3>1, <3>2
    <2>2. ~ResolveReview(i)
      BY <1>7 DEF OpenReview, ResolveReview
    <2> QED BY <1>1, <1>3, <1>5, <2>1, <2>2
  <1>8. CASE ResolveReview(i)
    <2>1. rows'[i.run][i.question][i.seen] = i.decision
      <3>1. CASE IsOpen(rows[i.run][i.question][i.seen])
        <4>1. i.at = "answering" /\ rows'[i.run][i.asked][i.item] = i.decision
          BY <1>0, <1>8, Resolved
        <4>2. i.question = i.asked
          <5>1. OpenRow(i.run, i.question)
            BY <1>1, <3>1 DEF OpenRow
          <5> QED BY <1>0, <1>1, <4>1, <5>1 DEF OnPath, InAsk
        <4>3. ~(i.seen < Len(rows[i.run][i.question]))
          BY <1>0, <1>1, <3>1 DEF ChainInv
        <4>4. i.seen = i.item
          BY <1>0, <1>1, <1>2, <4>1, <4>2, <4>3 DEF OnPath, Asking
        <4> QED BY <4>1, <4>2, <4>4
      <3>2. CASE ~IsOpen(rows[i.run][i.question][i.seen])
        BY <1>3, <3>2
      <3> QED BY <3>1, <3>2
    <2> QED BY <1>1, <1>3, <1>5, <1>8, <2>1
  <1> QED BY <1>0, <1>6, <1>7, <1>8, ActFrame

\* The step of an invocation keeps its answer.
LEMMA AnswerKept ==
    ASSUME ReplyInv, NEW i \in invocations, Acts(i), i.run \notin met,
           NEW j \in Kin(i), Arrival(i, j), j.decision # NoDecision
    PROVE  Answering(j)'
  <1>1. /\ Carries(i, j) /\ j.run = i.run /\ i.decision # NoDecision
    BY DEF Arrival, Kin, Carries
  <1>2. Answering(i) /\ OnPath(i) /\ Continues(i.run) /\ TypeInv /\ i.run \in Runs
    BY <1>1, ActFrame DEF ReplyInv, GroundInv, PathInv, AnswerInv
  <1>3. /\ i.question \in Questions /\ i.seen \in 1 .. Len(rows'[i.run][i.question])
        /\ rows'[i.run][i.question][i.seen] \in {NoDecision, i.decision}
        /\ ~IsOpen(rows[i.run][i.question][i.seen])
           => rows'[i.run][i.question][i.seen] = i.decision
        /\ ResolveReview(i) => rows'[i.run][i.question][i.seen] = i.decision
        /\ ~ResolveReview(i) => rows'[i.run][i.question][i.seen]
                                    = rows[i.run][i.question][i.seen]
    BY <1>1, SeenRow
  <1>4. i.again => rows'[i.run][i.question][i.seen] = i.decision
    BY <1>2, <1>3 DEF Answering
  <1>5. CASE ResumeGraph(i) /\ checkpoint[i.run].node = "ask"
             /\ Stands(j, "opening", checkpoint[i.run].asked, i.item, i.saved)
    <2>1. i.at = "posted" /\ i.saved
      BY <1>2, <1>5 DEF ResumeGraph, OnPath, InAsk
    <2>2. ~i.again => i.question = checkpoint[i.run].asked
      <3>1. ~i.again => OpenRow(i.run, i.question)
        BY <1>2, <2>1 DEF Answering, OpenRow
      <3> QED BY <1>2, <1>3, <1>5, <3>1, Fields DEF Continues
    <2> QED
      BY <1>1, <1>3, <1>4, <1>5, <2>1, <2>2 DEF Answering, Carries, Stands, InAsk
  <1>6. CASE ResolveReview(i) /\ Stands(j, "working", i.asked, i.item, FALSE)
    BY <1>1, <1>2, <1>3, <1>4, <1>6
    DEF Answering, Carries, Stands, InAsk, ResolveReview
  <1>7. ASSUME i.at # "posted", j.at # "posted", j.at # "loading", j.asked = i.asked,
               InAsk(j) => InAsk(i) /\ (i.saved => j.saved),
               j.at \in {"working", "routing", "ended"} =>
                   i.at \in {"working", "routing", "ended"}
        PROVE  Answering(j)'
    <2>1. i.at \in {"working", "routing", "ended"} =>
              rows'[i.run][i.question][i.seen] = i.decision
      BY <1>1, <1>2, <1>3 DEF Answering, IsOpen
    <2> QED BY <1>1, <1>2, <1>3, <1>4, <1>7, <2>1 DEF Answering, Carries
  <1>8. CASE SaveCheckpoint(i) /\ Stands(j, i.at, i.asked, i.item, TRUE)
    <2>1. i.at # "posted" /\ i.at # "loading"
      BY <1>2, <1>8 DEF SaveCheckpoint, OnPath, InAsk, Answering
    <2> QED BY <1>7, <1>8, <2>1 DEF Stands, InAsk
  <1>9. CASE \/ AdvanceRun(i) /\ Stands(j, "routing", i.asked, i.item, i.saved)
             \/ /\ \E outcome \in Final : GraphEnds(i, outcome)
                /\ Stands(j, "ended", i.asked, i.item, i.saved)
             \/ Interrupt(i) /\ Stands(j, "leaving", i.asked, i.item, i.saved)
    BY <1>7, <1>9 DEF AdvanceRun, GraphEnds, Interrupt, Stands, InAsk
  <1>10. CASE \/ /\ OpenReview(i)
                 /\ Stands(j, "marking", i.asked, Len(rows'[i.run][i.asked]), i.saved)
              \/ /\ MarkRunNeedsReview(i)
                 /\ Stands(j, "answering", i.asked, i.item, i.saved)
    BY <1>7, <1>10 DEF OpenReview, MarkRunNeedsReview, Stands, InAsk
  <1>11. ~LoadSourceEmail(i)
    BY <1>2 DEF LoadSourceEmail, Answering
  <1> QED BY <1>5, <1>6, <1>8, <1>9, <1>10, <1>11 DEF Arrival

LEMMA AnswerStep ==
    ASSUME ReplyInv, [Next]_vars
    PROVE  AnswerInv'
  <1> SUFFICES ASSUME NEW j \in invocations', j.run \notin met', j.decision # NoDecision
               PROVE  Answering(j)'
    BY DEF AnswerInv
  <1>0. TypeInv
    BY DEF ReplyInv, GroundInv
  <1>1. ASSUME NEW i \in invocations, Acts(i) PROVE Answering(j)'
    <2>0. j.run \notin met
      BY <1>0, <1>1, ThreadMoves
    <2>1. CASE j \in invocations /\ j # i
      <3>1. j.run # i.run /\ Answering(j) /\ j.run \in Runs
        BY <2>0, <2>1
        DEF ReplyInv, GroundInv, PathInv, MetInv, AnswerInv, TypeInv, TypeOK, Invocation
      <3>2. j.question \in Questions /\ rows'[j.run][j.question] = rows[j.run][j.question]
        BY <1>0, <1>1, <3>1, RowsGrow DEF Answering
      <3> QED BY <3>1, <3>2 DEF Answering
    <2>2. CASE j \in Kin(i) /\ Arrival(i, j)
      BY <1>1, <2>0, <2>2, AnswerKept DEF Kin
    <2> QED BY <1>0, <1>1, <2>1, <2>2, Arrivals
  <1>2. CASE j \in invocations /\ j.run \notin met /\ UNCHANGED rows
    BY <1>2 DEF ReplyInv, AnswerInv, Answering
  <1>3. ASSUME NEW h, NEW r, NEW q, NEW n, NEW d, Submits(h, r, q, n, d) PROVE Answering(j)'
    <2>0. /\ UNCHANGED rows /\ j.run \notin met
          /\ \A i \in invocations : i.run = r => r \in met'
      BY <1>3 DEF Submits, Submit
    <2>1. CASE j \in invocations
      BY <1>2, <2>0, <2>1
    <2>2. CASE j \notin invocations
      <3>1. /\ j.run = r /\ j.decision = d /\ j.question = q /\ j.seen = n
            /\ j.at = "posted" /\ (j.again <=> ~IsOpen(rows[r][q][n]))
        BY <1>0, <1>3, <2>0, <2>2, Submitted DEF Twin
      <3>2. /\ q \in Questions /\ n \in 1 .. Len(rows[r][q])
            /\ rows[r][q][n] \in {NoDecision, d}
        BY <1>3 DEF Submits, Submit, Accepts, IsOpen, Recovered
      <3> QED BY <2>0, <3>1, <3>2 DEF Answering, IsOpen, InAsk
    <2> QED BY <2>1, <2>2
  <1>4. ASSUME NEW r \in Runs, StartRun(r) PROVE Answering(j)'
    BY <1>0, <1>2, <1>4, Started DEF StartRun
  <1>5. ASSUME NEW r \in Runs, ReclaimOrphan(r) PROVE Answering(j)'
    BY <1>2, <1>5 DEF ReclaimOrphan
  <1>6. CASE UNCHANGED vars
    BY <1>2, <1>6 DEF vars
  <1> QED BY <1>1, <1>3, <1>4, <1>5, <1>6, Steps

LEMMA ReplyStep == ReplyInv /\ [Next]_vars => ReplyInv'
  <1> SUFFICES ASSUME ReplyInv, [Next]_vars PROVE ReplyInv'
    OBVIOUS
  <1>1. GroundInv' /\ TypeInv'
    BY GroundStep DEF ReplyInv, GroundInv
  <1>2. PathInv'
    BY <1>1, PathStep
  <1>3. AnswerInv'
    BY AnswerStep
  <1> QED BY <1>1, <1>2, <1>3 DEF ReplyInv

\* A workflow goes on only with a decision that the review it was given for holds, and a
\* decision given to an open review is taken as the answer to no other question, whatever
\* was answered, lost and submitted before, unless two resumes of the run were in flight at
\* once.
THEOREM AnswersAreKept == Spec => []AnswersStand
  <1>1. ReplyInv => AnswersStand
    BY DEF ReplyInv, AnswerInv, Answering, AnswersStand, AnswerStands
  <1> QED BY <1>1, InitReplyInv, ReplyStep, PTL DEF Spec

-----------------------------------------------------------------------------
(* The run that ended.                                                      *)

\* An invocation that was never accompanied is the only one of its run.
AloneInv == \A i, j \in invocations : i.alone /\ i.run = j.run => i = j

\* A lone invocation of a run that ended is about to return, or answers a review of the run
\* that is still open.
EndedInv ==
    \A i \in invocations : i.alone /\ status[i.run] \in {"completed", "ignored"} =>
        \/ i.at = "ended"
        \/ i.at \in {"posted", "working", "opening", "marking"} /\ RunOpen(i.run)

RestInv == TypeInv /\ AloneInv /\ EndedInv

LEMMA InitRestInv == Init => RestInv
  BY InitTypeInv DEF Init, RestInv, AloneInv, EndedInv

LEMMA AloneStep ==
    ASSUME TypeInv, AloneInv, [Next]_vars
    PROVE  AloneInv'
  <1> SUFFICES ASSUME NEW j \in invocations', NEW k \in invocations',
                      j.alone, j.run = k.run
               PROVE  j = k
    BY DEF AloneInv
  <1>1. ASSUME NEW i \in invocations, Acts(i) PROVE j = k
    <2>1. CASE Leaves(i)
      BY <2>1 DEF Leaves, AloneInv
    <2>2. CASE \E m \in Kin(i) : Becomes(i, m)
      BY <2>2 DEF Becomes, Kin, AloneInv
    <2> QED BY <1>1, <2>1, <2>2, ActFrame
  <1>2. ASSUME NEW r \in Runs, StartRun(r) PROVE j = k
    <2> DEFINE z == [run |-> r, by |-> Worker, decision |-> NoDecision, question |-> 0,
                     seen |-> 0, again |-> FALSE, at |-> "loading", asked |-> 0, item |-> 0,
                     saved |-> TRUE, alone |-> TRUE]
    <2>1. invocations' = invocations \cup {z} /\ \A i \in invocations : i.run # r
      BY <1>2 DEF StartRun
    <2>2. z.run = r
      OBVIOUS
    <2> HIDE DEF z
    <2> QED BY <2>1, <2>2 DEF AloneInv
  <1>3. ASSUME NEW r \in Runs, ReclaimOrphan(r) PROVE j = k
    BY <1>3 DEF ReclaimOrphan, AloneInv
  <1>4. ASSUME NEW h, NEW r, NEW q, NEW n, NEW d, Submits(h, r, q, n, d) PROVE j = k
    <2>1. CASE j \in invocations /\ j.run # r
      BY <1>4, <2>1, Submitted DEF AloneInv
    <2>2. CASE \A i \in invocations : i.run # r
      <3> DEFINE z == [run |-> r, by |-> h, decision |-> d, question |-> q, seen |-> n,
                       again |-> ~IsOpen(rows[r][q][n]), at |-> "posted", asked |-> 0,
                       item |-> 0, saved |-> TRUE, alone |-> \A i \in invocations : i.run # r]
      <3>1. Accompanied(r) = invocations
        BY <2>2 DEF Accompanied
      <3>2. invocations' = invocations \cup {z}
        BY <1>4, <3>1 DEF Submits, Submit
      <3>3. z.run = r
        OBVIOUS
      <3> HIDE DEF z
      <3> QED BY <2>2, <3>2, <3>3 DEF AloneInv
    <2> QED BY <1>4, <2>1, <2>2, Submitted DEF Twin
  <1>5. CASE UNCHANGED vars
    BY <1>5 DEF vars, AloneInv
  <1> QED BY <1>1, <1>2, <1>3, <1>4, <1>5, Steps

LEMMA RestStep == RestInv /\ [Next]_vars => RestInv'
  <1> SUFFICES ASSUME RestInv, [Next]_vars,
                      NEW j \in invocations', j.alone, status'[j.run] \in {"completed", "ignored"}
               PROVE  \/ j.at = "ended"
                      \/ j.at \in {"posted", "working", "opening", "marking"} /\ RunOpen(j.run)'
    BY TypeStep, AloneStep DEF RestInv, EndedInv
  <1> DEFINE Goal == \/ j.at = "ended"
                     \/ /\ j.at \in {"posted", "working", "opening", "marking"}
                        /\ RunOpen(j.run)'
  <1>0. TypeInv /\ AloneInv /\ EndedInv
    BY DEF RestInv
  <1>1. ASSUME NEW i \in invocations, Acts(i) PROVE Goal
    <2>0. i.run \in Runs /\ \A m \in invocations : m.run \in Runs
      BY <1>0 DEF TypeInv, TypeOK, Invocation
    <2>1. CASE j \in invocations /\ j # i
      <3>1. j.run # i.run
        BY <1>0, <2>1 DEF AloneInv
      <3>2. /\ status'[j.run] = status[j.run]
            /\ \A q \in Questions : rows'[j.run][q] = rows[j.run][q]
        BY <1>0, <1>1, <2>0, <2>1, <3>1, StatusMoves, RowsGrow
      <3> QED BY <1>0, <2>1, <3>2 DEF EndedInv, RunOpen, OpenRow
    <2>2. CASE j \in Kin(i) /\ Arrival(i, j)
      <3>1. i.alone /\ j.run = i.run
        BY <2>2 DEF Kin
      <3>2. CASE /\ UNCHANGED status /\ UNCHANGED rows
        <4>1. \/ i.at = "ended"
              \/ i.at \in {"posted", "working", "opening", "marking"} /\ RunOpen(i.run)
          BY <1>0, <3>1, <3>2 DEF EndedInv
        <4>2. RunOpen(i.run) => RunOpen(j.run)'
          BY <3>1, <3>2 DEF RunOpen, OpenRow
        <4>3. ~LoadSourceEmail(i) /\ ~AdvanceRun(i) /\ ~MarkRunNeedsReview(i)
          BY <2>0, <3>1, <3>2, <1>0
          DEF LoadSourceEmail, AdvanceRun, MarkRunNeedsReview, TypeInv, TypeOK
        <4> QED
          BY <2>2, <4>1, <4>2, <4>3
          DEF Arrival, Stands, AskReview, GraphEnds, OpenReview, ResolveReview, Interrupt,
              ResumeGraph
      <3>3. CASE OpenReview(i)
        <4>1. RunOpen(i.run)'
          <5>1. i.asked \in Questions /\ rows[i.run][i.asked] \in Seq(Row)
                /\ Len(rows[i.run][i.asked]) \in Nat
            BY <1>0, <3>3, Opened, Chains
          <5>2. CASE RowServes(i.run, i.asked) /\ UNCHANGED rows
            <6>1. Len(rows[i.run][i.asked]) \in 1 .. Len(rows[i.run][i.asked])
              BY <5>1, <5>2, EmptySeq DEF RowServes
            <6> QED BY <5>1, <5>2, <6>1 DEF RowServes, RunOpen, OpenRow
          <5>3. CASE /\ Len(rows'[i.run][i.asked]) = Len(rows[i.run][i.asked]) + 1
                     /\ rows'[i.run][i.asked][Len(rows[i.run][i.asked]) + 1] = NoDecision
            <6>1. Len(rows[i.run][i.asked]) + 1 \in 1 .. Len(rows'[i.run][i.asked])
              BY <5>1, <5>3
            <6> QED BY <5>1, <5>3, <6>1 DEF RunOpen, OpenRow, IsOpen
          <5> QED BY <1>0, <3>3, <5>2, <5>3, Opened
        <4>2. UNCHANGED status
          BY <3>3 DEF OpenReview
        <4>3. \A m \in invocations : m.run = i.run => m = i
          BY <1>0, <3>1 DEF AloneInv
        <4>4. PICK m \in Kin(i) : Becomes(i, m) /\ m.at = "marking"
          <5>1. Turn(i, "marking", i.asked, Len(rows'[i.run][i.asked]), i.saved)
            BY <1>0, <3>3, Turns
          <5> QED BY <5>1 DEF Turn, Stands
        <4>5. j = m
          BY <3>1, <4>3, <4>4, <2>2 DEF Becomes, Kin
        <4> QED BY <3>1, <4>1, <4>4, <4>5
      <3>4. CASE ResolveReview(i)
        <4>1. i.at = "answering" /\ UNCHANGED status
          BY <3>4 DEF ResolveReview
        <4> QED BY <1>0, <3>1, <4>1 DEF EndedInv
      <3>5. CASE LoadSourceEmail(i) \/ AdvanceRun(i) \/ MarkRunNeedsReview(i)
        BY <1>0, <2>0, <3>1, <3>5
        DEF LoadSourceEmail, AdvanceRun, MarkRunNeedsReview, TypeInv, TypeOK
      <3>6. ASSUME NEW outcome \in Final, GraphEnds(i, outcome) PROVE Goal
        <4>1. \A m \in invocations : m.run = i.run => m = i
          BY <1>0, <3>1 DEF AloneInv
        <4>2. PICK m \in Kin(i) : Becomes(i, m) /\ m.at = "ended"
          <5>1. Turn(i, "ended", i.asked, i.item, i.saved)
            BY <1>0, <3>6, Turns
          <5> QED BY <5>1 DEF Turn, Stands
        <4>3. j = m
          BY <3>1, <4>1, <4>2, <2>2 DEF Becomes, Kin
        <4> QED BY <4>2, <4>3
      <3> QED
        BY <2>2, <3>2, <3>3, <3>4, <3>5, <3>6
        DEF Arrival, SaveCheckpoint, AskReview, Interrupt, ResumeGraph
    <2> QED BY <1>0, <1>1, <2>1, <2>2, Arrivals
  <1>2. CASE j \in invocations /\ UNCHANGED <<status, rows>>
    BY <1>0, <1>2 DEF EndedInv, RunOpen, OpenRow
  <1>3. ASSUME NEW r \in Runs, StartRun(r) PROVE Goal
    <2>1. UNCHANGED <<status, rows>> /\ status[r] = "none"
      BY <1>3 DEF StartRun
    <2> QED BY <1>0, <1>2, <1>3, <2>1, Started
  <1>4. ASSUME NEW r \in Runs, ReclaimOrphan(r) PROVE Goal
    <2>1. UNCHANGED <<invocations, rows>> /\ status' = [status EXCEPT ![r] = "failed"]
      BY <1>4 DEF ReclaimOrphan
    <2>2. j \in invocations /\ status'[j.run] = status[j.run]
      BY <1>0, <2>1 DEF TypeInv, TypeOK, Invocation
    <2> QED BY <1>0, <2>1, <2>2 DEF EndedInv, RunOpen, OpenRow
  <1>5. ASSUME NEW h, NEW r, NEW q, NEW n, NEW d, Submits(h, r, q, n, d) PROVE Goal
    <2>1. /\ UNCHANGED <<status, rows>> /\ r \in Runs /\ q \in Questions
          /\ n \in 1 .. Len(rows[r][q]) /\ Accepts(r, q, n, d)
      BY <1>5 DEF Submits, Submit
    <2>2. CASE j.run = r /\ j.at = "posted"
      <3>1. IsOpen(rows[r][q][n])
        BY <2>1, <2>2 DEF Accepts, Recovered, Final
      <3> QED BY <2>1, <2>2, <3>1 DEF RunOpen, OpenRow
    <2> QED BY <1>0, <1>2, <1>5, <2>1, <2>2, Submitted DEF Twin
  <1>6. CASE UNCHANGED vars
    BY <1>2, <1>6 DEF vars
  <1> QED BY <1>1, <1>3, <1>4, <1>5, <1>6, Steps

\* A run that ended, with no question of it open, is not run again by whatever is submitted
\* once more.
THEOREM EndedRunRests == Spec => EndedRunStays
  <1> DEFINE Stays ==
        \A r \in Runs :
           (/\ status[r] \in {"completed", "ignored"}
            /\ \A i \in invocations : i.run = r => i.alone
            /\ \A q \in Questions : ~OpenRow(r, q))
           => status'[r] \in {status[r], "failed"}
  <1>1. ASSUME RestInv, [Next]_vars PROVE Stays
    <2> SUFFICES ASSUME NEW r \in Runs, status[r] \in {"completed", "ignored"},
                        \A i \in invocations : i.run = r => i.alone,
                        ~RunOpen(r)
                 PROVE  status'[r] \in {status[r], "failed"}
      BY DEF RunOpen
    <2>0. TypeInv
      BY <1>1 DEF RestInv
    <2>1. ASSUME NEW i \in invocations, Acts(i) PROVE status'[r] \in {status[r], "failed"}
      <3>1. CASE r # i.run
        BY <2>0, <2>1, <3>1, StatusMoves
      <3>2. CASE r = i.run
        <4>1. i.at = "ended"
          BY <1>1, <3>2 DEF RestInv, EndedInv
        <4>2. UNCHANGED status \/ Failing(i)
          BY <2>1, <4>1
          DEF Acts, Proceed, LoadSourceEmail, AdvanceRun, SaveCheckpoint, AskReview, GraphEnds,
              OpenReview, MarkRunNeedsReview, ResolveReview, Interrupt, ResumeGraph, Return,
              MarkSourceNeedsReview, RefuseDecision, RefuseSuccessor, Raise, Crash
        <4> QED BY <2>0, <3>2, <4>2 DEF Failing, FinalizeRun, TypeInv, TypeOK
      <3> QED BY <3>1, <3>2
    <2>2. ASSUME NEW p \in Runs, ReclaimOrphan(p) PROVE status'[r] \in {status[r], "failed"}
      BY <2>0, <2>2 DEF ReclaimOrphan, TypeInv, TypeOK
    <2> QED BY <1>1, <2>1, <2>2, Steps DEF StartRun, Submits, Submit, vars
  <1>2. RestInv /\ [Next]_vars => [Stays]_vars
    BY <1>1
  <1> QED BY <1>2, InitRestInv, RestStep, PTL DEF Spec, EndedRunStays
=============================================================================
