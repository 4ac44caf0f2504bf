-------------------------- MODULE BlindReviewProofs --------------------------
(***************************************************************************)
(* Theorems about BlindReview for any Cases, verdicts, reviews and number  *)
(* of handlers: the rows of a Case only ever stand in the order of the     *)
(* workflow, or aside it after the Phase 2 route, so the derived stages    *)
(* implement ReviewStages and the verdict is frozen before it can be seen. *)
(***************************************************************************)
EXTENDS BlindReview, TLAPS

\* The rows of one Case imply their predecessors; a review stands with its
\* binding or was recorded outside the workflow, never both.
RowsInOrder ==
    \A c \in Cases :
        /\ assessment[c] # None => c \in decided
        /\ c \in receipt => assessment[c] # None
        /\ c \in binding =>
            c \in receipt /\ review[c] # None /\ review[c].verdict = assessment[c]
        /\ review[c] # None => c \in decided /\ (c \in binding <=> c \notin bypassed)
        /\ c \in bypassed => review[c] # None

\* A decision is shown under its receipt only.
ShownUnderReceipt == shown \subseteq receipt

\* The rows a committed reveal or final review left behind.
Kept(cmd) ==
    /\ assessment[cmd.case] = cmd.verdict
    /\ cmd.kind = "finish" =>
        review[cmd.case] = [verdict |-> cmd.verdict, final |-> cmd.final]

CommittedIsKept == \A cmd \in committed : cmd.kind # "assess" => Kept(cmd)

\* Rows for which a command can never commit any more.
Beyond(cmd) ==
    /\ assessment[cmd.case] # None
    /\ \/ assessment[cmd.case] # cmd.verdict
       \/ /\ cmd.kind = "finish"
          /\ review[cmd.case] \notin {None, [verdict |-> cmd.verdict, final |-> cmd.final]}

ConflictsAreFinal ==
    \A h \in Handlers :
        /\ serving[h].status # "IDENTITY_CONFLICT"
        /\ answer[h].status = "IDENTITY_CONFLICT" /\ answer[h].command.kind # "assess"
           => answer[h].command \in Commands /\ Beyond(answer[h].command)

RowsInv == TypeOK /\ RowsInOrder /\ ShownUnderReceipt

ReviewInv == RowsInv /\ CommittedIsKept /\ ConflictsAreFinal

-----------------------------------------------------------------------------
(* What a command holds.                                                   *)
LEMMA RevealIsCommand ==
    ASSUME NEW c \in Cases, NEW v \in Verdicts
    PROVE  /\ Assess(c, v) \in Commands /\ Reveal(c, v) \in Commands
           /\ Assess(c, v).kind = "assess" /\ Reveal(c, v).kind = "reveal"
           /\ Reveal(c, v).case = c /\ Reveal(c, v).verdict = v
BY DEF Commands, Assess, Reveal

(* What a final review's command holds.                                    *)
LEMMA FinishIsCommand ==
    ASSUME NEW c \in Cases, NEW v \in Verdicts, NEW f \in Finals
    PROVE  /\ Finish(c, v, f) \in Commands /\ Finish(c, v, f).kind = "finish"
           /\ Finish(c, v, f).case = c /\ Finish(c, v, f).verdict = v
           /\ Finish(c, v, f).final = f
BY DEF Commands, Finish

(* Every command names a Case, a verdict and, to finish, a review.         *)
LEMMA CommandTypes ==
    ASSUME NEW cmd \in Commands
    PROVE  /\ cmd.case \in Cases /\ cmd.verdict \in Verdicts
           /\ cmd.kind = "finish" => cmd.final \in Finals
<1>1. CASE \E c \in Cases, v \in Verdicts : cmd = Assess(c, v) \/ cmd = Reveal(c, v)
  BY <1>1 DEF Assess, Reveal
<1>2. CASE \E c \in Cases, v \in Verdicts, f \in Finals : cmd = Finish(c, v, f)
  BY <1>2 DEF Finish
<1> QED BY <1>1, <1>2 DEF Commands

(* With its rows in order, the stage of a Case is read off one row each.   *)
LEMMA StageByRows ==
    ASSUME RowsInOrder, NEW c \in Cases
    PROVE  Stage(c) =
            IF c \notin decided THEN "undecided"
            ELSE IF c \in bypassed THEN "failed"
            ELSE IF c \in binding THEN "completed"
            ELSE IF c \in receipt THEN "awaiting_final_review"
            ELSE IF assessment[c] # None THEN "awaiting_reveal"
            ELSE "awaiting_assessment"
BY DEF RowsInOrder, Stage

(* A handler goes on for a decided Case that no review bypassed.           *)
LEMMA WorkableByRows ==
    ASSUME RowsInOrder, NEW c \in Cases, Workable(c)
    PROVE  c \in decided /\ c \notin bypassed
BY StageByRows DEF Workable

-----------------------------------------------------------------------------
\* The steps that write a row, with the row they write; every other step
\* leaves the five tables and the history of bypasses alone.
Writes ==
    \/ \E c \in Cases : AppendDecision(c)
    \/ \E c \in Cases, r \in Reviews : AppendReview(c, r)
    \/ \E h \in Handlers, c \in Cases, v \in Verdicts :
        \/ AssessInserts(h, c, v)
        \/ RevealReceipt(h, c, v)
        \/ \E f \in Finals : FinishInserts(h, c, v, f)

(* Any other step repeats, refuses, answers or loses an answer.            *)
LEMMA OthersWriteNothing ==
    ASSUME [Next]_vars, ~Writes
    PROVE  UNCHANGED <<tables, bypassed>>
<1>1. CASE UNCHANGED vars
  BY <1>1 DEF vars, tables
<1>2. ASSUME NEW h \in Handlers, Reviewer(h) PROVE UNCHANGED <<tables, bypassed>>
  <2>1. ASSUME NEW c \in Cases, NEW v \in Verdicts,
               \/ AssessRepeats(h, c, v) \/ AssessConflicts(h, c, v) \/ RevealConflicts(h, c, v)
        PROVE  UNCHANGED <<tables, bypassed>>
    BY <2>1 DEF AssessRepeats, AssessConflicts, RevealConflicts, Commit, Refuse, tables
  <2>2. ASSUME NEW c \in Cases, NEW v \in Verdicts, NEW f \in Finals,
               \/ FinishRepeats(h, c, v, f) \/ FinishConflicts(h, c, v, f)
               \/ FinishDisagrees(h, c, v, f)
        PROVE  UNCHANGED <<tables, bypassed>>
    BY <2>2 DEF FinishRepeats, FinishConflicts, FinishDisagrees, Commit, Refuse, tables
  <2>3. ASSUME NEW cmd \in Commands, Violation(h, cmd) PROVE UNCHANGED <<tables, bypassed>>
    BY <2>3 DEF Violation, Refuse, tables
  <2>4. CASE Respond(h) \/ LoseAnswer(h)
    BY <2>4 DEF Respond, LoseAnswer, tables
  <2> QED BY <1>2, <2>1, <2>2, <2>3, <2>4 DEF Reviewer, Writes
<1> QED BY <1>1, <1>2 DEF Next, Writes

(* A written row has its predecessors, so the rows stay in order.          *)
LEMMA StepKeepsOrder ==
    ASSUME TypeOK, RowsInOrder, [Next]_vars
    PROVE  RowsInOrder'
<1>1. ASSUME NEW c \in Cases, AppendDecision(c) PROVE RowsInOrder'
  BY <1>1 DEF AppendDecision, RowsInOrder
<1>2. ASSUME NEW c \in Cases, NEW r \in Reviews, AppendReview(c, r) PROVE RowsInOrder'
  <2>1. r # None
    BY NoneAssumption DEF Reviews
  <2> QED BY <1>2, <2>1 DEF AppendReview, RowsInOrder, TypeOK
<1>3. ASSUME NEW h \in Handlers, NEW c \in Cases, NEW v \in Verdicts, AssessInserts(h, c, v)
      PROVE  RowsInOrder'
  <2>1. c \in decided
    BY <1>3, WorkableByRows DEF AssessInserts
  <2>2. v # None
    BY NoneAssumption
  <2> QED BY <1>3, <2>1, <2>2 DEF AssessInserts, Commit, RowsInOrder, TypeOK
<1>4. ASSUME NEW h \in Handlers, NEW c \in Cases, NEW v \in Verdicts, RevealReceipt(h, c, v)
      PROVE  RowsInOrder'
  BY <1>4, NoneAssumption DEF RevealReceipt, Commit, RowsInOrder
<1>5. ASSUME NEW h \in Handlers, NEW c \in Cases, NEW v \in Verdicts, NEW f \in Finals,
             FinishInserts(h, c, v, f)
      PROVE  RowsInOrder'
  <2>1. c \in decided /\ c \notin bypassed
    BY <1>5, WorkableByRows DEF FinishInserts
  <2>2. [verdict |-> v, final |-> f] # None
    BY NoneAssumption
  <2> QED BY <1>5, <2>1, <2>2 DEF FinishInserts, Commit, RowsInOrder, TypeOK
<1>6. ASSUME UNCHANGED <<tables, bypassed>> PROVE RowsInOrder'
  BY <1>6 DEF tables, RowsInOrder
<1> QED BY <1>1, <1>2, <1>3, <1>4, <1>5, <1>6, OthersWriteNothing DEF Writes

-----------------------------------------------------------------------------
(* No row is ever removed or changed.                                      *)
LEMMA RowsOnlyGrow ==
    ASSUME TypeOK, RowsInOrder, [Next]_vars
    PROVE  /\ receipt \subseteq receipt' /\ bypassed \subseteq bypassed'
           /\ \A c \in Cases :
                /\ assessment[c] # None => assessment'[c] = assessment[c]
                /\ review[c] # None => review'[c] = review[c]
<1> USE DEF TypeOK
<1>1. CASE Writes
  <2>1. ASSUME NEW c \in Cases, AppendDecision(c) PROVE UNCHANGED <<assessment, receipt, review, bypassed>>
    BY <2>1 DEF AppendDecision
  <2>2. ASSUME NEW c \in Cases, NEW r \in Reviews, AppendReview(c, r)
        PROVE  /\ UNCHANGED <<assessment, receipt>> /\ bypassed \subseteq bypassed'
               /\ review[c] = None /\ review' = [review EXCEPT ![c] = r]
    BY <2>2 DEF AppendReview
  <2>3. ASSUME NEW h \in Handlers, NEW c \in Cases, NEW v \in Verdicts, AssessInserts(h, c, v)
        PROVE  /\ UNCHANGED <<receipt, review, bypassed>>
               /\ assessment[c] = None /\ assessment' = [assessment EXCEPT ![c] = v]
    BY <2>3 DEF AssessInserts, Commit
  <2>4. ASSUME NEW h \in Handlers, NEW c \in Cases, NEW v \in Verdicts, RevealReceipt(h, c, v)
        PROVE  UNCHANGED <<assessment, review, bypassed>> /\ receipt \subseteq receipt'
    BY <2>4 DEF RevealReceipt, Commit
  <2>5. ASSUME NEW h \in Handlers, NEW c \in Cases, NEW v \in Verdicts, NEW f \in Finals,
               FinishInserts(h, c, v, f)
        PROVE  /\ UNCHANGED <<assessment, receipt, bypassed>>
               /\ review[c] = None
               /\ review' = [review EXCEPT ![c] = [verdict |-> assessment[c], final |-> f]]
    BY <2>5 DEF FinishInserts, Commit
  <2> QED BY <1>1, <2>1, <2>2, <2>3, <2>4, <2>5 DEF Writes
<1>2. CASE ~Writes
  BY <1>2, OthersWriteNothing DEF tables
<1> QED BY <1>1, <1>2

-----------------------------------------------------------------------------
(* A commit puts a well-formed answer in its place.                        *)
LEMMA CommitTypes ==
    ASSUME TypeOK, NEW h \in Handlers, NEW cmd \in Commands, NEW status \in Statuses,
           Commit(h, cmd, status)
    PROVE  /\ serving' \in [Handlers -> Answers] /\ answer' \in [Handlers -> Answers]
           /\ committed' \subseteq Commands /\ bypassed' \subseteq Cases /\ shown' \subseteq Cases
<1>1. [command |-> cmd, status |-> status] \in Answers
  BY DEF Answers
<1> QED BY <1>1 DEF Commit, TypeOK

(* So does a refusal, which writes nothing else.                           *)
LEMMA RefuseTypes ==
    ASSUME TypeOK, NEW h \in Handlers, NEW cmd \in Commands, NEW status \in Statuses,
           Refuse(h, cmd, status)
    PROVE  TypeOK'
<1>1. [command |-> cmd, status |-> status] \in Answers
  BY DEF Answers
<1> QED BY <1>1 DEF Refuse, TypeOK

(* Types survive a step.                                                   *)
LEMMA StepKeepsTypes ==
    ASSUME TypeOK, [Next]_vars
    PROVE  TypeOK'
<1>0. {"inserted", "existing", "IDENTITY_CONFLICT", "INTEGRITY_VIOLATION", "DEPENDENCY_UNAVAILABLE"}
        \subseteq Statuses
  BY DEF Statuses
<1>1. ASSUME NEW c \in Cases, AppendDecision(c) PROVE TypeOK'
  BY <1>1 DEF AppendDecision, TypeOK
<1>2. ASSUME NEW c \in Cases, NEW r \in Reviews, AppendReview(c, r) PROVE TypeOK'
  BY <1>2 DEF AppendReview, TypeOK
<1>3. ASSUME NEW h \in Handlers, NEW c \in Cases, NEW v \in Verdicts PROVE
        /\ AssessInserts(h, c, v) => TypeOK'
        /\ AssessRepeats(h, c, v) => TypeOK'
        /\ AssessConflicts(h, c, v) => TypeOK'
        /\ RevealReceipt(h, c, v) => TypeOK'
        /\ RevealConflicts(h, c, v) => TypeOK'
  <2>1. Assess(c, v) \in Commands /\ Reveal(c, v) \in Commands
    BY RevealIsCommand
  <2>2. CASE AssessInserts(h, c, v)
    <3>1. assessment' \in [Cases -> Verdicts \cup {None}]
      BY <2>2 DEF AssessInserts, TypeOK
    <3> QED BY <1>0, <2>1, <2>2, <3>1, CommitTypes DEF AssessInserts, TypeOK
  <2>3. CASE AssessRepeats(h, c, v)
    BY <1>0, <2>1, <2>3, CommitTypes DEF AssessRepeats, tables, TypeOK
  <2>4. CASE AssessConflicts(h, c, v)
    BY <1>0, <2>1, <2>4, RefuseTypes DEF AssessConflicts
  <2>5. CASE RevealReceipt(h, c, v)
    <3>1. (IF c \in receipt THEN "existing" ELSE "inserted") \in Statuses
      BY <1>0
    <3> QED BY <2>1, <2>5, <3>1, CommitTypes DEF RevealReceipt, TypeOK
  <2>6. CASE RevealConflicts(h, c, v)
    BY <1>0, <2>1, <2>6, RefuseTypes DEF RevealConflicts
  <2> QED BY <2>2, <2>3, <2>4, <2>5, <2>6
<1>4. ASSUME NEW h \in Handlers, NEW c \in Cases, NEW v \in Verdicts, NEW f \in Finals PROVE
        /\ FinishInserts(h, c, v, f) => TypeOK'
        /\ FinishRepeats(h, c, v, f) => TypeOK'
        /\ FinishConflicts(h, c, v, f) => TypeOK'
        /\ FinishDisagrees(h, c, v, f) => TypeOK'
  <2>1. Finish(c, v, f) \in Commands
    BY FinishIsCommand
  <2>2. CASE FinishInserts(h, c, v, f)
    <3>1. [verdict |-> assessment[c], final |-> f] \in Reviews
      BY <2>2 DEF FinishInserts, Reviews
    <3>2. review' \in [Cases -> Reviews \cup {None}]
      BY <2>2, <3>1 DEF FinishInserts, TypeOK
    <3> QED BY <1>0, <2>1, <2>2, <3>2, CommitTypes DEF FinishInserts, TypeOK
  <2>3. CASE FinishRepeats(h, c, v, f)
    BY <1>0, <2>1, <2>3, CommitTypes DEF FinishRepeats, tables, TypeOK
  <2>4. CASE FinishConflicts(h, c, v, f)
    BY <1>0, <2>1, <2>4, RefuseTypes DEF FinishConflicts
  <2>5. CASE FinishDisagrees(h, c, v, f)
    BY <1>0, <2>1, <2>5, RefuseTypes DEF FinishDisagrees
  <2> QED BY <2>2, <2>3, <2>4, <2>5
<1>5. ASSUME NEW h \in Handlers, NEW cmd \in Commands, Violation(h, cmd) PROVE TypeOK'
  BY <1>0, <1>5, RefuseTypes DEF Violation
<1>6. ASSUME NEW h \in Handlers, Respond(h) PROVE TypeOK'
  <2>1. NoAnswer \in Answers
    BY DEF NoAnswer, Answers, Statuses
  <2>2. serving[h] \in Answers /\ [serving[h] EXCEPT !.status = "INTEGRITY_VIOLATION"] \in Answers
    BY <1>0 DEF TypeOK, Answers
  <2>3. answer' \in [Handlers -> Answers]
    BY <1>6, <2>2 DEF Respond, TypeOK
  <2>4. shown' \subseteq Cases
    BY <1>6 DEF Respond, TypeOK
  <2> QED BY <1>6, <2>1, <2>3, <2>4 DEF Respond, TypeOK
<1>7. ASSUME NEW h \in Handlers, LoseAnswer(h) PROVE TypeOK'
  <2>1. NoAnswer \in Answers
    BY DEF NoAnswer, Answers, Statuses
  <2> QED BY <1>7, <2>1 DEF LoseAnswer, TypeOK
<1>8. CASE UNCHANGED vars
  BY <1>8 DEF vars, TypeOK
<1> QED BY <1>1, <1>2, <1>3, <1>4, <1>5, <1>6, <1>7, <1>8 DEF Next, Reviewer

(* Only an answer under a receipt shows a decision.                        *)
LEMMA StepKeepsShown ==
    ASSUME RowsInv, [Next]_vars
    PROVE  ShownUnderReceipt'
<1>1. receipt \subseteq receipt'
  BY RowsOnlyGrow DEF RowsInv
<1>2. shown' = shown \/ shown' \subseteq shown \cup receipt
  <2>1. ASSUME NEW h \in Handlers, Respond(h)
        PROVE  shown' \subseteq shown \cup receipt
    BY <2>1 DEF Respond
  <2>2. ASSUME NEW h \in Handlers, Reviewer(h), ~Respond(h) PROVE shown' = shown
    <3>1. ASSUME NEW cmd, NEW status, Commit(h, cmd, status) \/ Refuse(h, cmd, status)
          PROVE  shown' = shown
      BY <3>1 DEF Commit, Refuse
    <3>2. ASSUME NEW c \in Cases, NEW v \in Verdicts,
                 \/ AssessInserts(h, c, v) \/ AssessRepeats(h, c, v) \/ AssessConflicts(h, c, v)
                 \/ RevealReceipt(h, c, v) \/ RevealConflicts(h, c, v)
          PROVE  shown' = shown
      BY <3>1, <3>2 DEF AssessInserts, AssessRepeats, AssessConflicts, RevealReceipt, RevealConflicts
    <3>3. ASSUME NEW c \in Cases, NEW v \in Verdicts, NEW f \in Finals,
                 \/ FinishInserts(h, c, v, f) \/ FinishRepeats(h, c, v, f)
                 \/ FinishConflicts(h, c, v, f) \/ FinishDisagrees(h, c, v, f)
          PROVE  shown' = shown
      BY <3>1, <3>3 DEF FinishInserts, FinishRepeats, FinishConflicts, FinishDisagrees
    <3>4. ASSUME NEW cmd \in Commands, Violation(h, cmd) PROVE shown' = shown
      BY <3>1, <3>4 DEF Violation
    <3>5. CASE LoseAnswer(h)
      BY <3>5 DEF LoseAnswer
    <3> QED BY <2>2, <3>2, <3>3, <3>4, <3>5 DEF Reviewer
  <2>3. CASE \E c \in Cases : AppendDecision(c) \/ \E r \in Reviews : AppendReview(c, r)
    BY <2>3 DEF AppendDecision, AppendReview
  <2>4. CASE UNCHANGED vars
    BY <2>4 DEF vars
  <2> QED BY <2>1, <2>2, <2>3, <2>4 DEF Next
<1> QED BY <1>1, <1>2 DEF RowsInv, ShownUnderReceipt

-----------------------------------------------------------------------------
(* What a committed command left stays, and what refused one stays.        *)
LEMMA KeptStays ==
    ASSUME RowsInv, [Next]_vars, NEW cmd \in Commands, Kept(cmd)
    PROVE  Kept(cmd)'
<1>1. cmd.case \in Cases /\ cmd.verdict # None
  BY CommandTypes, NoneAssumption
<1>2. assessment'[cmd.case] = assessment[cmd.case]
  BY <1>1, RowsOnlyGrow DEF RowsInv, Kept
<1>3. cmd.kind = "finish" => review'[cmd.case] = review[cmd.case]
  <2>1. SUFFICES ASSUME cmd.kind = "finish" PROVE review'[cmd.case] = review[cmd.case]
    OBVIOUS
  <2>2. review[cmd.case] = [verdict |-> cmd.verdict, final |-> cmd.final]
    BY <2>1 DEF Kept
  <2>3. review[cmd.case] = None => cmd.verdict \notin Verdicts \/ cmd.final \notin Finals
    BY <2>2, NoneAssumption
  <2>4. cmd.final \in Finals
    BY <2>1, CommandTypes
  <2> QED BY <1>1, <2>3, <2>4, CommandTypes, RowsOnlyGrow DEF RowsInv
<1> QED BY <1>2, <1>3 DEF Kept

(* A command that can never commit any more never will.                    *)
LEMMA BeyondStays ==
    ASSUME RowsInv, [Next]_vars, NEW cmd \in Commands, Beyond(cmd)
    PROVE  Beyond(cmd)'
<1>1. cmd.case \in Cases
  BY CommandTypes
<1> QED BY <1>1, RowsOnlyGrow DEF RowsInv, Beyond

(* The commands a step adds to the history have left their rows.           *)
LEMMA StepKeepsCommitted ==
    ASSUME RowsInv, CommittedIsKept, [Next]_vars
    PROVE  CommittedIsKept'
<1> USE DEF RowsInv
<1>1. ASSUME committed' = committed PROVE CommittedIsKept'
  BY <1>1, KeptStays DEF CommittedIsKept, TypeOK
<1>2. ASSUME NEW cmd \in Commands, committed' = committed \cup {cmd},
             cmd.kind # "assess" => Kept(cmd)'
      PROVE  CommittedIsKept'
  BY <1>2, KeptStays DEF CommittedIsKept, TypeOK
<1>3. ASSUME NEW h \in Handlers, NEW c \in Cases, NEW v \in Verdicts,
             AssessInserts(h, c, v) \/ AssessRepeats(h, c, v)
      PROVE  CommittedIsKept'
  <2>1. committed' = committed \cup {Assess(c, v)}
    BY <1>3 DEF AssessInserts, AssessRepeats, Commit
  <2> QED BY <1>2, <2>1, RevealIsCommand
<1>4. ASSUME NEW h \in Handlers, NEW c \in Cases, NEW v \in Verdicts, RevealReceipt(h, c, v)
      PROVE  CommittedIsKept'
  <2>1. committed' = committed \cup {Reveal(c, v)}
    BY <1>4 DEF RevealReceipt, Commit
  <2>2. Kept(Reveal(c, v))'
    BY <1>4, RevealIsCommand DEF RevealReceipt, Kept
  <2> QED BY <1>2, <2>1, <2>2, RevealIsCommand
<1>5. ASSUME NEW h \in Handlers, NEW c \in Cases, NEW v \in Verdicts, NEW f \in Finals,
             FinishInserts(h, c, v, f) \/ FinishRepeats(h, c, v, f)
      PROVE  CommittedIsKept'
  <2>1. committed' = committed \cup {Finish(c, v, f)}
    BY <1>5 DEF FinishInserts, FinishRepeats, Commit
  <2>2. assessment'[c] = v /\ review'[c] = [verdict |-> v, final |-> f]
    BY <1>5 DEF FinishInserts, FinishRepeats, tables, TypeOK
  <2>3. Kept(Finish(c, v, f))'
    BY <2>2, FinishIsCommand DEF Kept
  <2> QED BY <1>2, <2>1, <2>3, FinishIsCommand
<1>6. CASE committed' = committed
  BY <1>1, <1>6
<1>7. ASSUME NEW h \in Handlers, Reviewer(h)
      PROVE  \/ committed' = committed
             \/ \E c \in Cases, v \in Verdicts :
                  \/ AssessInserts(h, c, v) \/ AssessRepeats(h, c, v) \/ RevealReceipt(h, c, v)
                  \/ \E f \in Finals : FinishInserts(h, c, v, f) \/ FinishRepeats(h, c, v, f)
  BY <1>7 DEF Reviewer, AssessConflicts, RevealConflicts, FinishConflicts, FinishDisagrees,
     Violation, Respond, LoseAnswer, Refuse
<1>8. CASE \E c \in Cases : AppendDecision(c) \/ \E r \in Reviews : AppendReview(c, r)
  BY <1>6, <1>8 DEF AppendDecision, AppendReview
<1>9. CASE UNCHANGED vars
  BY <1>6, <1>9 DEF vars
<1> QED BY <1>3, <1>4, <1>5, <1>6, <1>7, <1>8, <1>9 DEF Next

(* A command answered with a conflict is beyond committing; every other    *)
(* answer is of another status.                                            *)
LEMMA StepKeepsConflicts ==
    ASSUME RowsInv, ConflictsAreFinal, [Next]_vars
    PROVE  ConflictsAreFinal'
<1> USE DEF RowsInv
<1>1. \A cmd \in Commands : Beyond(cmd) => Beyond(cmd)'
  BY BeyondStays
<1>2. ASSUME NEW h \in Handlers, NEW cmd, NEW status \in {"inserted", "existing"},
             Commit(h, cmd, status)
      PROVE  ConflictsAreFinal'
  BY <1>1, <1>2 DEF Commit, ConflictsAreFinal, TypeOK
<1>3. ASSUME NEW h \in Handlers, NEW cmd \in Commands, NEW status, Refuse(h, cmd, status),
             status = "IDENTITY_CONFLICT" /\ cmd.kind # "assess" => Beyond(cmd)
      PROVE  ConflictsAreFinal'
  BY <1>1, <1>3 DEF Refuse, ConflictsAreFinal, TypeOK
<1>4. ASSUME NEW h \in Handlers, NEW c \in Cases, NEW v \in Verdicts,
             \/ AssessInserts(h, c, v) \/ AssessRepeats(h, c, v) \/ AssessConflicts(h, c, v)
             \/ RevealReceipt(h, c, v) \/ RevealConflicts(h, c, v)
      PROVE  ConflictsAreFinal'
  <2>1. CASE AssessInserts(h, c, v) \/ AssessRepeats(h, c, v)
    BY <1>2, <2>1 DEF AssessInserts, AssessRepeats
  <2>2. CASE AssessConflicts(h, c, v)
    BY <1>3, <2>2, RevealIsCommand DEF AssessConflicts
  <2>3. CASE RevealReceipt(h, c, v)
    BY <1>2, <2>3 DEF RevealReceipt
  <2>4. CASE RevealConflicts(h, c, v)
    <3>1. Beyond(Reveal(c, v))
      BY <2>4, RevealIsCommand DEF RevealConflicts, Beyond
    <3> QED BY <1>3, <2>4, <3>1, RevealIsCommand DEF RevealConflicts
  <2> QED BY <1>4, <2>1, <2>2, <2>3, <2>4
<1>5. ASSUME NEW h \in Handlers, NEW c \in Cases, NEW v \in Verdicts, NEW f \in Finals,
             \/ FinishInserts(h, c, v, f) \/ FinishRepeats(h, c, v, f)
             \/ FinishConflicts(h, c, v, f) \/ FinishDisagrees(h, c, v, f)
      PROVE  ConflictsAreFinal'
  <2>1. CASE FinishInserts(h, c, v, f) \/ FinishRepeats(h, c, v, f)
    BY <1>2, <2>1 DEF FinishInserts, FinishRepeats
  <2>2. CASE FinishConflicts(h, c, v, f)
    <3>1. Beyond(Finish(c, v, f))
      BY <2>2, FinishIsCommand DEF FinishConflicts, Beyond
    <3> QED BY <1>3, <2>2, <3>1, FinishIsCommand DEF FinishConflicts
  <2>3. CASE FinishDisagrees(h, c, v, f)
    BY <1>3, <2>3, FinishIsCommand DEF FinishDisagrees
  <2> QED BY <1>5, <2>1, <2>2, <2>3
<1>6. ASSUME NEW h \in Handlers, NEW cmd \in Commands, Violation(h, cmd)
      PROVE  ConflictsAreFinal'
  BY <1>3, <1>6 DEF Violation
<1>7. ASSUME NEW h \in Handlers, Respond(h) \/ LoseAnswer(h) PROVE ConflictsAreFinal'
  <2>1. answer' = [answer EXCEPT ![h] = serving[h]]
        \/ answer' = [answer EXCEPT ![h] = [serving[h] EXCEPT !.status = "INTEGRITY_VIOLATION"]]
        \/ answer' = answer
    BY <1>7 DEF Respond, LoseAnswer
  <2>2. serving' = [serving EXCEPT ![h] = NoAnswer] /\ NoAnswer.status # "IDENTITY_CONFLICT"
    BY <1>7 DEF Respond, LoseAnswer, NoAnswer
  <2>3. \A g \in Handlers : answer'[g].status = "IDENTITY_CONFLICT" => answer'[g] = answer[g]
    BY <2>1 DEF ConflictsAreFinal, TypeOK, Answers
  <2> QED BY <1>1, <2>2, <2>3 DEF ConflictsAreFinal, TypeOK
<1>8. CASE UNCHANGED <<serving, answer>>
  BY <1>1, <1>8 DEF ConflictsAreFinal
<1>9. CASE \E c \in Cases : AppendDecision(c) \/ \E r \in Reviews : AppendReview(c, r)
  BY <1>8, <1>9 DEF AppendDecision, AppendReview
<1>10. CASE UNCHANGED vars
  BY <1>8, <1>10 DEF vars
<1> QED BY <1>4, <1>5, <1>6, <1>7, <1>9, <1>10 DEF Next, Reviewer

(* Initially no row stands and nothing was answered.                       *)
LEMMA InitEstablishes ==
    ASSUME Init
    PROVE  ReviewInv
<1> USE DEF Init
<1>1. TypeOK
  BY DEF TypeOK, NoAnswer, Answers, Statuses
<1>2. RowsInOrder /\ ShownUnderReceipt /\ CommittedIsKept
  BY DEF RowsInOrder, ShownUnderReceipt, CommittedIsKept
<1>3. ConflictsAreFinal
  BY DEF ConflictsAreFinal, NoAnswer
<1> QED BY <1>1, <1>2, <1>3 DEF ReviewInv, RowsInv

(* The invariant is inductive.                                             *)
LEMMA InvariantStep ==
    ASSUME ReviewInv, [Next]_vars
    PROVE  ReviewInv'
BY StepKeepsTypes, StepKeepsOrder, StepKeepsShown, StepKeepsCommitted, StepKeepsConflicts
   DEF ReviewInv, RowsInv

-----------------------------------------------------------------------------
(* For any Cases, verdicts, reviews and handlers: the rows stand in order, *)
(* a decision is shown under its receipt, committed commands keep their    *)
(* rows and a conflict is answered only to commands beyond committing.     *)
THEOREM ReviewSafe == Spec => []ReviewInv
<1>1. Init => ReviewInv
  BY InitEstablishes
<1>2. ReviewInv /\ [Next]_vars => ReviewInv'
  BY InvariantStep
<1> QED BY <1>1, <1>2, PTL DEF Spec

(* A bound review carries the frozen verdict and all its rows.             *)
THEOREM BindingsAreComplete == Spec => []BoundReviewsAreComplete
<1>1. ReviewInv => BoundReviewsAreComplete
  BY DEF ReviewInv, RowsInv, TypeOK, RowsInOrder, BoundReviewsAreComplete
<1> QED BY <1>1, ReviewSafe, PTL

(* Only the Phase 2 route takes a Case out of service.                     *)
THEOREM OnlyBypassesFail == Spec => []FailedOnlyWhenBypassed
<1>1. ReviewInv => FailedOnlyWhenBypassed
  <2>1. SUFFICES ASSUME ReviewInv, NEW c \in Cases
                 PROVE  Stage(c) = "failed" <=> c \in bypassed
    BY DEF FailedOnlyWhenBypassed
  <2>2. c \in bypassed => c \in decided
    BY <2>1 DEF ReviewInv, RowsInv, RowsInOrder
  <2> QED BY <2>1, <2>2, StageByRows DEF ReviewInv, RowsInv
<1> QED BY <1>1, ReviewSafe, PTL

(* A committed reveal or final review is never refused as a conflict.      *)
THEOREM CommittedRevealsStand == Spec => []CommittedRevealsAreNeverRefused
<1>1. ReviewInv => CommittedRevealsAreNeverRefused
  BY DEF ReviewInv, CommittedIsKept, ConflictsAreFinal, Kept, Beyond, CommittedRevealsAreNeverRefused
<1> QED BY <1>1, ReviewSafe, PTL

(* The verdict was frozen before any response showed the decision.         *)
THEOREM VerdictIsBlind == Spec => BlindUntilFrozen
<1>1. ReviewInv /\ [Next]_vars =>
        [\A c \in shown : assessment[c] # None /\ assessment'[c] = assessment[c]]_vars
  BY RowsOnlyGrow DEF ReviewInv, RowsInv, RowsInOrder, ShownUnderReceipt, TypeOK
<1> QED BY <1>1, ReviewSafe, PTL DEF Spec, BlindUntilFrozen

-----------------------------------------------------------------------------
StageMap == [c \in Cases |-> Stage(c)]

(* Writing the rows of one Case leaves the stage of every other.           *)
LEMMA OtherStagesStay ==
    ASSUME NEW d \in Cases,
           d \in decided <=> d \in decided', d \in receipt <=> d \in receipt',
           d \in binding <=> d \in binding', assessment'[d] = assessment[d],
           review'[d] = review[d]
    PROVE  Stage(d)' = Stage(d)
BY DEF Stage

(* A step that takes one Case from stage to stage is a step of the map.    *)
LEMMA MapAdvances ==
    ASSUME NEW c \in Cases, \A d \in Cases \ {c} : Stage(d)' = Stage(d)
    PROVE  StageMap' = [StageMap EXCEPT ![c] = Stage(c)']
BY DEF StageMap

(* Every step of the tables is a stage's step or a stutter.                *)
LEMMA StepRefines ==
    ASSUME ReviewInv, [Next]_vars
    PROVE  [Stages!StageNext]_StageMap
<1> USE DEF ReviewInv, RowsInv
<1>0. RowsInOrder'
  BY InvariantStep
<1>1. ASSUME NEW c \in Cases, AppendDecision(c) PROVE Stages!StageNext
  <2>1. Stage(c) = "undecided" /\ Stage(c)' = "awaiting_assessment"
    BY <1>1, <1>0 DEF AppendDecision, Stage, RowsInOrder
  <2>2. \A d \in Cases \ {c} : Stage(d)' = Stage(d)
    BY <1>1, OtherStagesStay DEF AppendDecision
  <2>3. Stages!Advance(c, "undecided", "awaiting_assessment")
    BY <2>1, <2>2, MapAdvances DEF Stages!Advance, StageMap
  <2> QED BY <2>3 DEF Stages!StageNext
<1>2. ASSUME NEW c \in Cases, NEW r \in Reviews, AppendReview(c, r) PROVE Stages!StageNext
  <2>1. Stage(c)' = "failed"
    BY <1>0, <1>2, StageByRows DEF AppendReview, Stage, TypeOK, RowsInOrder
  <2>2. Stage(c) \in {"awaiting_assessment", "awaiting_reveal", "awaiting_final_review"}
    BY <1>2, StageByRows DEF AppendReview, RowsInOrder
  <2>3. \A d \in Cases \ {c} : Stage(d)' = Stage(d)
    BY <1>2, OtherStagesStay DEF AppendReview, TypeOK
  <2>4. Stages!Bypass(c)
    BY <2>1, <2>2, <2>3, MapAdvances DEF Stages!Bypass, StageMap
  <2> QED BY <2>4 DEF Stages!StageNext
<1>3. ASSUME NEW h \in Handlers, NEW c \in Cases, NEW v \in Verdicts, AssessInserts(h, c, v)
      PROVE  Stages!StageNext
  <2>1. c \in decided /\ c \notin bypassed
    BY <1>3, WorkableByRows DEF AssessInserts
  <2>2. v # None
    BY NoneAssumption
  <2>3. Stage(c) = "awaiting_assessment" /\ Stage(c)' = "awaiting_reveal"
    BY <1>3, <2>1, <2>2 DEF AssessInserts, Commit, Stage, RowsInOrder, TypeOK
  <2>4. \A d \in Cases \ {c} : Stage(d)' = Stage(d)
    BY <1>3, OtherStagesStay DEF AssessInserts, TypeOK
  <2>5. Stages!Advance(c, "awaiting_assessment", "awaiting_reveal")
    BY <2>3, <2>4, MapAdvances DEF Stages!Advance, StageMap
  <2> QED BY <2>5 DEF Stages!StageNext
<1>4. ASSUME NEW h \in Handlers, NEW c \in Cases, NEW v \in Verdicts, RevealReceipt(h, c, v)
      PROVE  [Stages!StageNext]_StageMap
  <2>1. c \in decided /\ c \notin bypassed /\ assessment[c] # None
    BY <1>4, WorkableByRows, NoneAssumption DEF RevealReceipt
  <2>2. \A d \in Cases \ {c} : Stage(d)' = Stage(d)
    BY <1>4, OtherStagesStay DEF RevealReceipt
  <2>3. CASE c \in receipt
    <3>1. receipt' = receipt
      BY <1>4, <2>3 DEF RevealReceipt
    <3>2. Stage(c)' = Stage(c)
      BY <1>4, <3>1, OtherStagesStay DEF RevealReceipt
    <3> QED BY <2>2, <3>2 DEF StageMap
  <2>4. CASE c \notin receipt
    <3>1. Stage(c) = "awaiting_reveal" /\ Stage(c)' = "awaiting_final_review"
      BY <1>4, <2>1, <2>4 DEF RevealReceipt, Stage, RowsInOrder
    <3>2. Stages!Advance(c, "awaiting_reveal", "awaiting_final_review")
      BY <2>2, <3>1, MapAdvances DEF Stages!Advance, StageMap
    <3> QED BY <3>2 DEF Stages!StageNext
  <2> QED BY <2>3, <2>4
<1>5. ASSUME NEW h \in Handlers, NEW c \in Cases, NEW v \in Verdicts, NEW f \in Finals,
             FinishInserts(h, c, v, f)
      PROVE  Stages!StageNext
  <2>1. c \in decided /\ c \notin bypassed /\ assessment[c] # None /\ c \in receipt
    BY <1>5, WorkableByRows, NoneAssumption DEF FinishInserts
  <2>2. [verdict |-> assessment[c], final |-> f] # None
    BY <1>5, NoneAssumption DEF FinishInserts
  <2>3. Stage(c) = "awaiting_final_review" /\ Stage(c)' = "completed"
    BY <1>5, <2>1, <2>2 DEF FinishInserts, Stage, RowsInOrder, TypeOK
  <2>4. \A d \in Cases \ {c} : Stage(d)' = Stage(d)
    BY <1>5, OtherStagesStay DEF FinishInserts, TypeOK
  <2>5. Stages!Advance(c, "awaiting_final_review", "completed")
    BY <2>3, <2>4, MapAdvances DEF Stages!Advance, StageMap
  <2> QED BY <2>5 DEF Stages!StageNext
<1>6. ASSUME UNCHANGED tables PROVE UNCHANGED StageMap
  BY <1>6, OtherStagesStay DEF tables, StageMap
<1> QED BY <1>1, <1>2, <1>3, <1>4, <1>5, <1>6, OthersWriteNothing DEF Writes

(* The tables implement the four stages and the bypass.                    *)
THEOREM ReviewImplementsStages == Spec => ImplementsStages
<1>1. Init => Stages!StageInit
  BY DEF Init, Stages!StageInit, Stage
<1>2. ReviewInv /\ [Next]_vars => [Stages!StageNext]_StageMap
  BY StepRefines
<1> QED BY <1>1, <1>2, ReviewSafe, PTL DEF Spec, ImplementsStages, Stages!StageSpec, StageMap
=============================================================================
