----------------------------- MODULE BlindReview -----------------------------
(***************************************************************************)
(* The two-stage blind review of a BrooksDecision: an independent          *)
(* assessment is frozen, then the decision is revealed under a receipt,    *)
(* then the final review and its workflow binding are inserted together.   *)
(* No table holds a state; every handler derives it from the rows.         *)
(*                                                                         *)
(* A mutation handler of the API is two transactions: the mutation, then   *)
(* the read of the work item it answers with.  Handlers of several tabs,   *)
(* retries of commands whose answer was lost and the Phase 2 route that    *)
(* appends a CalvinReview directly interleave between the two.             *)
(***************************************************************************)
EXTENDS FiniteSets

CONSTANTS
    Cases,     \* Cases with their one BrooksDecision
    Verdicts,  \* contents of an assessment: verdict and blind summary
    Finals,    \* contents of a final review: disposition and summary
    Handlers,  \* requests the API serves concurrently
    BrooksVerdict, \* verdict of each Case's BrooksDecision
    Agree,     \* the final review that agrees with the decision
    None       \* SQL NULL: no such row

ASSUME DecisionAssumption ==
    /\ BrooksVerdict \in [Cases -> Verdicts]
    /\ Agree \in Finals

ASSUME NoneAssumption ==
    /\ None \notin Verdicts
    /\ None \notin [verdict : Verdicts, final : Finals]

VARIABLES
    decided,    \* cases with a row in pa_brooks_decisions
    assessment, \* pa_calvin_independent_assessments, by case
    receipt,    \* cases with a row in pa_decision_reveal_receipts
    review,     \* pa_calvin_reviews, by case
    binding,    \* cases with a row in pa_calvin_review_workflow_bindings
    serving,    \* the command a handler has committed but not yet answered
    answer,     \* the last answer of each handler
    committed,  \* history: commands whose mutation committed once
    bypassed,   \* history: cases reviewed through the Phase 2 route
    shown       \* history: cases whose decision a response contained

tables == <<decided, assessment, receipt, review, binding>>
vars == <<decided, assessment, receipt, review, binding,
          serving, answer, committed, bypassed, shown>>

-----------------------------------------------------------------------------
Reviews == [verdict : Verdicts, final : Finals]

\* createCalvinReview: an agreeing review shares the Brooks verdict.
Consistent(c, v, f) == f = Agree => v = BrooksVerdict[c]

\* A command names its case and, by hash, the assessment it was made from.
\* The receipt hash is a function of that assessment.
Assess(c, v) == [kind |-> "assess", case |-> c, verdict |-> v, final |-> None]
Reveal(c, v) == [kind |-> "reveal", case |-> c, verdict |-> v, final |-> None]
Finish(c, v, f) == [kind |-> "finish", case |-> c, verdict |-> v, final |-> f]

Commands ==
    {Assess(c, v) : c \in Cases, v \in Verdicts}
    \cup {Reveal(c, v) : c \in Cases, v \in Verdicts}
    \cup {Finish(c, v, f) : c \in Cases, v \in Verdicts, f \in Finals}

Statuses == {"none", "inserted", "existing", "IDENTITY_CONFLICT",
             "INTEGRITY_VIOLATION", "DEPENDENCY_UNAVAILABLE"}

Answers == [command : Commands \cup {None}, status : Statuses]

NoAnswer == [command |-> None, status |-> "none"]

\* deriveReviewState: any other combination of rows fails closed.
Stage(c) ==
    IF c \notin decided THEN "undecided"
    ELSE IF assessment[c] = None
    THEN IF c \notin receipt /\ review[c] = None /\ c \notin binding
         THEN "awaiting_assessment" ELSE "failed"
    ELSE IF c \notin receipt
    THEN IF review[c] = None /\ c \notin binding
         THEN "awaiting_reveal" ELSE "failed"
    ELSE IF review[c] = None /\ c \notin binding THEN "awaiting_final_review"
    ELSE IF review[c] # None /\ c \in binding THEN "completed"
    ELSE "failed"

\* requireReviewAggregate lets a handler go on.
Workable(c) == Stage(c) \notin {"undecided", "failed"}

-----------------------------------------------------------------------------
TypeOK ==
    /\ decided \subseteq Cases
    /\ assessment \in [Cases -> Verdicts \cup {None}]
    /\ receipt \subseteq Cases
    /\ review \in [Cases -> Reviews \cup {None}]
    /\ binding \subseteq Cases
    /\ serving \in [Handlers -> Answers]
    /\ answer \in [Handlers -> Answers]
    /\ committed \subseteq Commands
    /\ bypassed \subseteq Cases
    /\ shown \subseteq Cases

Init ==
    /\ decided = {}
    /\ assessment = [c \in Cases |-> None]
    /\ receipt = {}
    /\ review = [c \in Cases |-> None]
    /\ binding = {}
    /\ serving = [h \in Handlers |-> NoAnswer]
    /\ answer = [h \in Handlers |-> NoAnswer]
    /\ committed = {}
    /\ bypassed = {}
    /\ shown = {}

-----------------------------------------------------------------------------
Idle(h) == serving[h] = NoAnswer

\* The mutation committed; the work item is read in a later transaction.
Commit(h, cmd, status) ==
    /\ serving' = [serving EXCEPT ![h] = [command |-> cmd, status |-> status]]
    /\ committed' = committed \cup {cmd}
    /\ UNCHANGED <<answer, bypassed, shown>>

\* The transaction rolls back and the error is answered at once.
Refuse(h, cmd, status) ==
    /\ answer' = [answer EXCEPT ![h] = [command |-> cmd, status |-> status]]
    /\ UNCHANGED <<decided, assessment, receipt, review, binding,
                   serving, committed, bypassed, shown>>

AppendDecision(c) ==
    /\ c \notin decided
    /\ decided' = decided \cup {c}
    /\ UNCHANGED <<assessment, receipt, review, binding,
                   serving, answer, committed, bypassed, shown>>

\* POST /v1/calvin-reviews: the Phase 2 route looks at the decision only.
AppendReview(c, r) ==
    /\ c \in decided
    /\ Consistent(c, r.verdict, r.final)
    /\ review[c] = None
    /\ review' = [review EXCEPT ![c] = r]
    /\ bypassed' = bypassed \cup {c}
    /\ UNCHANGED <<decided, assessment, receipt, binding,
                   serving, answer, committed, shown>>

-----------------------------------------------------------------------------
\* Mutant: an assessment is upserted while there is no review.
AssessOverwrites(h, c, v) ==
    /\ Idle(h)
    /\ Workable(c)
    /\ review[c] = None /\ c \notin binding
    /\ assessment' = [assessment EXCEPT ![c] = v]
    /\ Commit(h, Assess(c, v), "inserted")
    /\ UNCHANGED <<decided, receipt, review, binding>>

\* appendIndependentAssessment.
AssessInserts(h, c, v) ==
    /\ Idle(h)
    /\ Workable(c)
    /\ review[c] = None /\ c \notin binding
    /\ assessment[c] = None
    /\ assessment' = [assessment EXCEPT ![c] = v]
    /\ Commit(h, Assess(c, v), "inserted")
    /\ UNCHANGED <<decided, receipt, review, binding>>

AssessRepeats(h, c, v) ==
    /\ Idle(h)
    /\ Workable(c)
    /\ review[c] = None /\ c \notin binding
    /\ assessment[c] = v
    /\ Commit(h, Assess(c, v), "existing")
    /\ UNCHANGED tables

AssessConflicts(h, c, v) ==
    /\ Idle(h)
    /\ Workable(c)
    /\ \/ review[c] # None \/ c \in binding
       \/ assessment[c] \notin {None, v}
    /\ Refuse(h, Assess(c, v), "IDENTITY_CONFLICT")

\* appendDecisionRevealReceipt: one receipt per assessment, so a repeat finds
\* the row it would insert.
RevealReceipt(h, c, v) ==
    /\ Idle(h)
    /\ Workable(c)
    /\ assessment[c] = v
    /\ receipt' = receipt \cup {c}
    /\ Commit(h, Reveal(c, v), IF c \in receipt THEN "existing" ELSE "inserted")
    /\ UNCHANGED <<decided, assessment, review, binding>>

RevealConflicts(h, c, v) ==
    /\ Idle(h)
    /\ Workable(c)
    /\ assessment[c] \notin {None, v}
    /\ Refuse(h, Reveal(c, v), "IDENTITY_CONFLICT")

\* appendFinalReview: review and binding in one transaction, the verdict
\* copied from the frozen assessment.
FinishInserts(h, c, v, f) ==
    /\ Idle(h)
    /\ Workable(c)
    /\ assessment[c] = v /\ c \in receipt
    /\ Consistent(c, v, f)
    /\ review[c] = None
    /\ review' = [review EXCEPT ![c] = [verdict |-> assessment[c], final |-> f]]
    /\ binding' = binding \cup {c}
    /\ Commit(h, Finish(c, v, f), "inserted")
    /\ UNCHANGED <<decided, assessment, receipt>>

\* Mutant: a repeat inserts a binding that is missing.
FinishRepairs(h, c, v, f) ==
    /\ Idle(h)
    /\ assessment[c] = v /\ c \in receipt
    /\ review[c] = [verdict |-> assessment[c], final |-> f]
    /\ binding' = binding \cup {c}
    /\ Commit(h, Finish(c, v, f), "existing")
    /\ UNCHANGED <<decided, assessment, receipt, review>>

FinishRepeats(h, c, v, f) ==
    /\ Idle(h)
    /\ Workable(c)
    /\ assessment[c] = v /\ c \in receipt
    /\ review[c] = [verdict |-> assessment[c], final |-> f]
    /\ Commit(h, Finish(c, v, f), "existing")
    /\ UNCHANGED tables

\* Mutant: any review that exists is a conflict.
FinishAlwaysConflicts(h, c, v, f) ==
    /\ Idle(h)
    /\ Workable(c)
    /\ assessment[c] # None /\ c \in receipt
    /\ assessment[c] # v \/ review[c] # None
    /\ Refuse(h, Finish(c, v, f), "IDENTITY_CONFLICT")

FinishConflicts(h, c, v, f) ==
    /\ Idle(h)
    /\ Workable(c)
    /\ assessment[c] # None /\ c \in receipt
    /\ \/ assessment[c] # v
       \/ /\ Consistent(c, v, f)
          /\ review[c] \notin {None, [verdict |-> assessment[c], final |-> f]}
    /\ Refuse(h, Finish(c, v, f), "IDENTITY_CONFLICT")

\* The error of createCalvinReview has no code of its own: rethrow finds no
\* word it knows in the message.
FinishDisagrees(h, c, v, f) ==
    /\ Idle(h)
    /\ Workable(c)
    /\ assessment[c] = v /\ c \in receipt
    /\ ~Consistent(c, v, f)
    /\ Refuse(h, Finish(c, v, f), "DEPENDENCY_UNAVAILABLE")

\* A missing parent row, or rows that no longer derive a state.
Violation(h, cmd) ==
    /\ Idle(h)
    /\ \/ ~Workable(cmd.case)
       \/ cmd.kind # "assess" /\ assessment[cmd.case] = None
       \/ cmd.kind = "finish" /\ cmd.case \notin receipt
    /\ Refuse(h, cmd, "INTEGRITY_VIOLATION")

\* requireReviewWorkItem: the answer shows the rows of this later moment.
Respond(h) ==
    /\ ~Idle(h)
    /\ LET c == serving[h].command.case IN
       IF Stage(c) = "failed"
       THEN /\ answer' = [answer EXCEPT ![h] =
                 [serving[h] EXCEPT !.status = "INTEGRITY_VIOLATION"]]
            /\ UNCHANGED shown
       ELSE /\ answer' = [answer EXCEPT ![h] = serving[h]]
            /\ shown' = IF c \in receipt THEN shown \cup {c} ELSE shown
    /\ serving' = [serving EXCEPT ![h] = NoAnswer]
    /\ UNCHANGED <<decided, assessment, receipt, review, binding, committed, bypassed>>

\* The connection drops between commit and answer: the tab will retry.
LoseAnswer(h) ==
    /\ ~Idle(h)
    /\ serving' = [serving EXCEPT ![h] = NoAnswer]
    /\ UNCHANGED <<decided, assessment, receipt, review, binding,
                   answer, committed, bypassed, shown>>

Reviewer(h) ==
    \/ \E c \in Cases, v \in Verdicts :
        \/ AssessInserts(h, c, v)
        \/ AssessRepeats(h, c, v)
        \/ AssessConflicts(h, c, v)
        \/ RevealReceipt(h, c, v)
        \/ RevealConflicts(h, c, v)
        \/ \E f \in Finals :
            \/ FinishInserts(h, c, v, f)
            \/ FinishRepeats(h, c, v, f)
            \/ FinishConflicts(h, c, v, f)
            \/ FinishDisagrees(h, c, v, f)
    \/ \E cmd \in Commands : Violation(h, cmd)
    \/ Respond(h)
    \/ LoseAnswer(h)

Next ==
    \/ \E c \in Cases : AppendDecision(c)
    \/ \E c \in Cases, r \in Reviews : AppendReview(c, r)
    \/ \E h \in Handlers : Reviewer(h)

Spec == Init /\ [][Next]_vars

-----------------------------------------------------------------------------
(* The verdict is independent: once any response has shown a decision, its *)
(* assessment is frozen and stays as it was before the reviewer saw it.    *)
BlindUntilFrozen ==
    [][\A c \in shown : assessment[c] # None /\ assessment'[c] = assessment[c]]_vars

(* A bound review carries the verdict frozen before the reveal, and all    *)
(* four rows of the workflow stand together.                               *)
BoundReviewsAreComplete ==
    \A c \in binding :
        /\ c \in decided \cap receipt
        /\ review[c] # None /\ assessment[c] # None
        /\ review[c].verdict = assessment[c]

(* A Case fails closed, and takes the whole queue with it, exactly when    *)
(* the Phase 2 route reviewed it: no interleaving, retry or lost answer of *)
(* the workflow itself leaves rows that derive no state.                   *)
FailedOnlyWhenBypassed ==
    \A c \in Cases : Stage(c) = "failed" <=> c \in bypassed

(* A retry of a reveal or final review that committed, whoever sends it    *)
(* and whatever was committed since, is never answered with a conflict.    *)
CommittedRevealsAreNeverRefused ==
    \A h \in Handlers :
        /\ answer[h].command \in committed
        /\ answer[h].command.kind # "assess"
        => answer[h].status # "IDENTITY_CONFLICT"

Stages == INSTANCE ReviewStages WITH stage <- [c \in Cases |-> Stage(c)]

(* The five tables implement the stages: concurrent tabs, retries and lost *)
(* answers never make a Case skip, repeat or leave a stage.                *)
ImplementsStages == Stages!StageSpec

=============================================================================
