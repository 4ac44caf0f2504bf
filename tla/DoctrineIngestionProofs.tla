----------------------- MODULE DoctrineIngestionProofs -----------------------
(***************************************************************************)
(* Theorems about DoctrineIngestion for any number of sessions, units and  *)
(* attempts: the ledger's safety survives the awaits between an attempt    *)
(* and its failure record, and the sessions implement the ledger.          *)
(*                                                                         *)
(* The invariant is carried through every disjunct of Next by one lemma    *)
(* per group of variables: a session step is either silent on the tables   *)
(* or one ledger step.                                                     *)
(***************************************************************************)
EXTENDS DoctrineIngestion, CorpusLedgerProofs

IngestionInv ==
    /\ TypeOK
    /\ RebuiltIsGrounded
    /\ OneRunPerAttempt
    /\ RunsAreGrounded
    /\ SuccessRepliesAreStored

-----------------------------------------------------------------------------
\* Steps that write no table; Persist, AttemptSucceeds and the lifecycle do.
Silent(c) ==
    \/ \E n \in Attempts, s \in Snapshots \cup {NoSnapshot} : Request(c, n, s)
    \/ AttemptFindsRun(c)
    \/ AttemptFails(c)
    \/ Rebuild(c)
    \/ Lookup(c)
    \/ Abandon(c)

(* Next, sorted by the tables a step writes.                               *)
LEMMA NextCases ==
    ASSUME Next
    PROVE  \/ Lifecycle /\ UNCHANGED sessionVars
           \/ \E c \in Sessions : Silent(c)
           \/ \E c \in Sessions, q \in Qualities : AttemptSucceeds(c, q)
           \/ \E c \in Sessions : Persist(c)
BY DEF Next, Session, Silent

(* A silent step writes no table.                                          *)
LEMMA SilentLeavesTables ==
    ASSUME NEW c \in Sessions, Silent(c)
    PROVE  UNCHANGED ledgerVars
BY DEF Silent, Request, AttemptFindsRun, AttemptFails, Rebuild, Lookup, Abandon, ledgerVars

(* Each session step is a ledger step or leaves the tables alone: the      *)
(* failure record is written over a projection that was eligible, and only *)
(* where the natural identity is still free.                               *)
LEMMA StepRefines ==
    ASSUME TypeOK, RebuiltIsGrounded, [Next]_vars
    PROVE  [LedgerNext]_ledgerVars
<1>1. ASSUME Lifecycle PROVE LedgerNext
  BY <1>1 DEF LedgerNext
<1>2. ASSUME NEW c \in Sessions, NEW q \in Qualities, AttemptSucceeds(c, q)
      PROVE  LedgerNext
  <2>1. attempt[c] \in Attempts
    BY DEF TypeOK
  <2> QED BY <1>2, <2>1 DEF AttemptSucceeds, LedgerNext
<1>3. ASSUME NEW c \in Sessions, Persist(c)
      PROVE  [LedgerNext]_ledgerVars
  <2>1. CASE Occupied(rebuilt[c], attempt[c])
    BY <1>3, <2>1 DEF Persist, ledgerVars
  <2>2. CASE ~Occupied(rebuilt[c], attempt[c])
    <3>1. rebuilt[c] \in Snapshots /\ attempt[c] \in Attempts
      BY <1>3 DEF TypeOK, Persist, At, RebuiltIsGrounded
    <3>2. Buildable(rebuilt[c]) /\ rebuilt[c] \subseteq approved
      BY <1>3 DEF Persist, At, RebuiltIsGrounded
    <3>3. RecordFailed(rebuilt[c], attempt[c])
      BY <1>3, <2>2, <3>2 DEF Persist, RecordFailed, lifecycleVars
    <3> QED BY <3>1, <3>3 DEF LedgerNext
  <2> QED BY <2>1, <2>2
<1>4. ASSUME UNCHANGED vars PROVE UNCHANGED ledgerVars
  BY <1>4 DEF vars, ledgerVars
<1> QED BY <1>1, <1>2, <1>3, <1>4, NextCases, SilentLeavesTables

-----------------------------------------------------------------------------
(* Initially nothing is recorded, answered or rebuilt.                     *)
LEMMA InitEstablishes ==
    ASSUME Init
    PROVE  IngestionInv
<1> USE DEF Init, LedgerInit
<1>1. TypeOK
  BY DEF TypeOK, LedgerTypeOK, NoSnapshot, NoReply, Answer, Replies
<1>2. RebuiltIsGrounded /\ SuccessRepliesAreStored
  BY DEF RebuiltIsGrounded, SuccessRepliesAreStored, NoReply, Answer
<1>3. OneRunPerAttempt /\ RunsAreGrounded
  BY DEF OneRunPerAttempt, RunsAreGrounded
<1> QED BY <1>1, <1>2, <1>3 DEF IngestionInv

(* An answer a step may give is a reply.                                   *)
LEMMA AnswerIsReply ==
    ASSUME NEW status \in {"error", "inserted", "existing"}, NEW run \in Runs \cup {NoRun}
    PROVE  Answer(status, run) \in Replies
BY DEF Answer, Replies

(* Types survive a step.                                                   *)
LEMMA StepKeepsTypes ==
    ASSUME IngestionInv, [Next]_vars
    PROVE  TypeOK'
<1> USE DEF IngestionInv
<1>0. LedgerTypeOK'
  BY StepRefines, LedgerStep DEF LedgerInv, TypeOK
<1>1. ASSUME Lifecycle, UNCHANGED sessionVars PROVE TypeOK'
  BY <1>0, <1>1 DEF TypeOK, sessionVars
<1>2. ASSUME NEW c \in Sessions, Silent(c) PROVE TypeOK'
  <2>1. Answer("error", NoRun) \in Replies
        /\ \A r \in Runs : Answer("existing", r) \in Replies
    BY AnswerIsReply
  <2>2. runs \subseteq Runs
    BY DEF TypeOK, LedgerTypeOK
  <2>3. CASE \E n \in Attempts, s \in Snapshots \cup {NoSnapshot} : Request(c, n, s)
    <3>1. NoReply \in Replies
      BY DEF NoReply, Answer, Replies
    <3> QED BY <1>0, <2>3, <3>1 DEF TypeOK, Request, Goto
  <2>4. CASE AttemptFindsRun(c)
    BY <1>0, <2>1, <2>2, <2>4 DEF TypeOK, AttemptFindsRun, Settle, Goto, NoSnapshot
  <2>5. CASE AttemptFails(c)
    BY <1>0, <2>5 DEF TypeOK, AttemptFails, Goto
  <2>6. CASE Rebuild(c)
    <3>1. Eligible \in Snapshots
      BY <2>6 DEF Rebuild, Buildable, Eligible, Snapshots, TypeOK, LedgerTypeOK
    <3> QED BY <1>0, <2>6, <3>1 DEF TypeOK, Rebuild, Goto
  <2>7. CASE Lookup(c)
    BY <1>0, <2>1, <2>2, <2>7 DEF TypeOK, Lookup, Settle, Goto, NoSnapshot
  <2>8. CASE Abandon(c)
    BY <1>0, <2>1, <2>8 DEF TypeOK, Abandon, Settle, Goto, NoSnapshot
  <2> QED BY <1>2, <2>3, <2>4, <2>5, <2>6, <2>7, <2>8 DEF Silent
<1>3. ASSUME NEW c \in Sessions, NEW q \in Qualities, AttemptSucceeds(c, q)
      PROVE  TypeOK'
  <2>1. RunOf(Eligible, attempt[c], q) \in Runs
    BY <1>0, <1>3 DEF AttemptSucceeds, RecordSucceeded, LedgerTypeOK
  <2>2. Answer("inserted", RunOf(Eligible, attempt[c], q)) \in Replies
    BY <2>1, AnswerIsReply
  <2> QED BY <1>0, <1>3, <2>2 DEF TypeOK, AttemptSucceeds, Settle, Goto, NoSnapshot
<1>4. ASSUME NEW c \in Sessions, Persist(c) PROVE TypeOK'
  <2>1. rebuilt[c] \in Snapshots /\ attempt[c] \in Attempts
    BY <1>4 DEF TypeOK, Persist, At, RebuiltIsGrounded
  <2>2. RunOf(rebuilt[c], attempt[c], "failed") \in Runs
    BY <2>1 DEF RunOf, Runs, Outcomes
  <2>3. Answer("inserted", RunOf(rebuilt[c], attempt[c], "failed")) \in Replies
        /\ Answer("error", NoRun) \in Replies
    BY <2>2, AnswerIsReply
  <2> QED BY <1>0, <1>4, <2>3 DEF TypeOK, Persist, Settle, Goto, NoSnapshot
<1>5. ASSUME UNCHANGED vars PROVE TypeOK'
  BY <1>0, <1>5 DEF TypeOK, vars
<1> QED BY <1>1, <1>2, <1>3, <1>4, <1>5, NextCases

(* A rebuilt projection stays grounded: approvals are never withdrawn and  *)
(* only the catch block writes it.                                         *)
LEMMA StepKeepsRebuilt ==
    ASSUME TypeOK, RebuiltIsGrounded, [Next]_vars
    PROVE  RebuiltIsGrounded'
<1> USE DEF RebuiltIsGrounded
<1>1. approved \subseteq approved'
  BY StepRefines, LedgerOnlyGrows
<1>2. CASE UNCHANGED sessionVars
  BY <1>1, <1>2 DEF sessionVars, Buildable
<1>3. ASSUME NEW c \in Sessions, Silent(c) PROVE RebuiltIsGrounded'
  <2>1. CASE \E n \in Attempts, s \in Snapshots \cup {NoSnapshot} : Request(c, n, s)
    BY <1>1, <2>1 DEF TypeOK, Request, Goto, Buildable
  <2>2. CASE AttemptFindsRun(c)
    BY <1>1, <2>2 DEF TypeOK, AttemptFindsRun, Settle, Goto, Buildable
  <2>3. CASE AttemptFails(c)
    BY <1>1, <2>3 DEF TypeOK, AttemptFails, Goto, Buildable
  <2>4. CASE Rebuild(c)
    <3>1. Eligible # NoSnapshot /\ Buildable(Eligible) /\ Eligible \subseteq approved
      BY <2>4 DEF Rebuild, Buildable, NoSnapshot, Eligible
    <3> QED BY <1>1, <2>4, <3>1 DEF TypeOK, Rebuild, Goto, Buildable
  <2>5. CASE Lookup(c)
    BY <1>1, <2>5 DEF TypeOK, Lookup, At, Settle, Goto, Buildable
  <2>6. CASE Abandon(c)
    BY <1>1, <2>6 DEF TypeOK, Abandon, Settle, Goto, Buildable
  <2> QED BY <1>3, <2>1, <2>2, <2>3, <2>4, <2>5, <2>6 DEF Silent
<1>4. ASSUME NEW c \in Sessions, NEW q \in Qualities, AttemptSucceeds(c, q)
      PROVE  RebuiltIsGrounded'
  BY <1>1, <1>4 DEF TypeOK, AttemptSucceeds, Settle, Goto, Buildable
<1>5. ASSUME NEW c \in Sessions, Persist(c) PROVE RebuiltIsGrounded'
  BY <1>1, <1>5 DEF TypeOK, Persist, Settle, Goto, Buildable
<1>6. CASE UNCHANGED vars
  BY <1>2, <1>6 DEF vars, sessionVars
<1> QED BY <1>2, <1>3, <1>4, <1>5, <1>6, NextCases

(* An answer once true of the tables stays true: runs are never removed.   *)
LEMMA StepKeepsReplies ==
    ASSUME IngestionInv, [Next]_vars
    PROVE  SuccessRepliesAreStored'
<1> USE DEF IngestionInv, SuccessRepliesAreStored
<1>1. runs \subseteq runs'
  BY StepRefines, LedgerOnlyGrows
<1>2. CASE UNCHANGED sessionVars
  BY <1>1, <1>2 DEF sessionVars
<1>3. ASSUME NEW c \in Sessions, Silent(c) PROVE SuccessRepliesAreStored'
  <2>1. CASE \E n \in Attempts, s \in Snapshots \cup {NoSnapshot} : Request(c, n, s)
    BY <1>1, <2>1 DEF TypeOK, Request, NoReply, Answer
  <2>2. CASE AttemptFindsRun(c)
    BY <1>1, <2>2 DEF TypeOK, AttemptFindsRun, Settle, Answer
  <2>3. CASE AttemptFails(c)
    BY <1>1, <2>3 DEF AttemptFails
  <2>4. CASE Rebuild(c)
    BY <1>1, <2>4 DEF Rebuild
  <2>5. CASE Lookup(c)
    BY <1>1, <2>5 DEF TypeOK, Lookup, Settle, Answer
  <2>6. CASE Abandon(c)
    BY <1>1, <2>6 DEF TypeOK, Abandon, Settle, Answer
  <2> QED BY <1>3, <2>1, <2>2, <2>3, <2>4, <2>5, <2>6 DEF Silent
<1>4. ASSUME NEW c \in Sessions, NEW q \in Qualities, AttemptSucceeds(c, q)
      PROVE  SuccessRepliesAreStored'
  BY <1>1, <1>4 DEF TypeOK, AttemptSucceeds, RecordSucceeded, Settle, Answer
<1>5. ASSUME NEW c \in Sessions, Persist(c) PROVE SuccessRepliesAreStored'
  BY <1>1, <1>5 DEF TypeOK, Persist, Settle, Answer, RunOf
<1>6. CASE UNCHANGED vars
  BY <1>2, <1>6 DEF vars, sessionVars
<1> QED BY <1>2, <1>3, <1>4, <1>5, <1>6, NextCases

(* The invariant is inductive.                                             *)
LEMMA InvariantStep ==
    ASSUME IngestionInv, [Next]_vars
    PROVE  IngestionInv'
<1>1. LedgerInv'
  BY StepRefines, LedgerStep DEF IngestionInv, LedgerInv, TypeOK
<1>2. RebuiltIsGrounded'
  BY StepKeepsRebuilt DEF IngestionInv
<1> QED BY <1>1, <1>2, StepKeepsTypes, StepKeepsReplies DEF IngestionInv, LedgerInv

-----------------------------------------------------------------------------
(* For any sessions, units and attempts, types hold, a catch block works   *)
(* on grounded projections, a natural identity has one outcome, runs cover *)
(* approved units, and answers of success name stored runs.                *)
THEOREM IngestionSafe == Spec => []IngestionInv
<1>1. Init => IngestionInv
  BY InitEstablishes
<1>2. IngestionInv /\ [Next]_vars => IngestionInv'
  BY InvariantStep
<1> QED BY <1>1, <1>2, PTL DEF Spec

(* One terminal run per (snapshot, attempt), whatever sessions race.       *)
THEOREM RunsAreUnique == Spec => []OneRunPerAttempt
<1>1. IngestionInv => OneRunPerAttempt
  BY DEF IngestionInv
<1> QED BY <1>1, IngestionSafe, PTL

(* Success and "existing" answers always name a stored run.                *)
THEOREM SuccessRepliesHold == Spec => []SuccessRepliesAreStored
<1>1. IngestionInv => SuccessRepliesAreStored
  BY DEF IngestionInv
<1> QED BY <1>1, IngestionSafe, PTL

(* Sessions implement the ledger: initial states map to initial states and *)
(* every session step to a ledger step or a stutter.                       *)
THEOREM IngestionRefinesLedger == Spec => ImplementsLedger
<1>1. Init => LedgerInit
  BY DEF Init
<1>2. IngestionInv /\ [Next]_vars => [LedgerNext]_ledgerVars
  BY StepRefines DEF IngestionInv
<1> QED BY <1>1, <1>2, IngestionSafe, PTL DEF Spec, LedgerSpec, ImplementsLedger

(* A recorded outcome is never removed or replaced.                        *)
THEOREM OutcomesStay == Spec => OutcomesArePermanent
<1>1. IngestionInv /\ [Next]_vars => [runs \subseteq runs']_vars
  BY StepRefines, LedgerOnlyGrows DEF IngestionInv
<1> QED BY <1>1, IngestionSafe, PTL DEF Spec, OutcomesArePermanent

=============================================================================
