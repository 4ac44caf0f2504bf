----------------------- MODULE CorpusAuthorityProofs ------------------------
(***************************************************************************)
(* Theorems about the corpus authority and its three readers, for any      *)
(* units, reasons, connections, Cases, requests and bound on the sequence. *)
(*                                                                         *)
(* Activation: the log is a linear, causal history of eligible             *)
(* activations.  The argument hangs on what a rollback row already         *)
(* satisfies while it is still in flight: it was built from rows that are  *)
(* never removed, and the trigger lets it through only while the row it    *)
(* replaces is current.                                                    *)
(*                                                                         *)
(* Assembly and preparation: a terminal record is compared with later ones *)
(* only through the log: it names an activation that stays, its code was   *)
(* true of that activation, and what made it true (a retirement, the       *)
(* pilot's size) never goes away.                                          *)
(*                                                                         *)
(* Retrieval: an answer stands in a row because the row is written in the  *)
(* step that gives the answer, and rows are never removed.                 *)
(*                                                                         *)
(* Locks: the types and the stability of a locked log, for any number of   *)
(* transactions of each kind and any number of attempts.                   *)
(***************************************************************************)
EXTENDS PreparedPayload, DoctrineRetrieval, AuthorityLocks, CorpusLedgerProofs,
    FiniteSetTheorems

(*-------------------------------------------------------------------------*)
(* Activation                                                              *)
(*-------------------------------------------------------------------------*)
Rows == activations \cup inFlight

\* What BeginRollback establishes and nothing undoes.
Causal(r) ==
    /\ r.target < r.replaces /\ r.replaces < r.seq
    /\ \E t \in activations :
        t.seq = r.target /\ t.kind = "standard" /\ t.run = r.run
    /\ \E p \in activations :
        /\ p.seq = r.replaces
        /\ p.kind = "rollback" => p.target # r.target \/ p.reason # r.reason

RowsAreCausal == \A r \in Rows : r.kind = "rollback" => Causal(r)

ActivationInv ==
    /\ LedgerInv
    /\ TypeOK
    /\ SequencesAreDistinct
    /\ RowsAreCausal
    /\ RollbacksDoNotFork
    /\ OneStandardPerRun

-----------------------------------------------------------------------------
(* A row's columns are numbers, so sequences can be compared.              *)
LEMMA RowTypes ==
    ASSUME NEW row \in Activations
    PROVE  /\ row.seq \in Nat /\ row.target \in Nat /\ row.replaces \in Nat
           /\ row.kind \in {"standard", "rollback"} /\ row.run \in Runs
BY ActivationAssumption DEF Activations

(* Initially the tables and the log are empty.                             *)
LEMMA InitEstablishes ==
    ASSUME Init
    PROVE  ActivationInv
<1> USE DEF Init, LedgerInit
<1>1. TypeOK
  BY ActivationAssumption DEF TypeOK, LedgerTypeOK
<1>2. SequencesAreDistinct /\ RowsAreCausal /\ RollbacksDoNotFork /\ OneStandardPerRun
  BY DEF SequencesAreDistinct, RowsAreCausal, Rows, RollbacksDoNotFork, OneStandardPerRun
<1>3. LedgerInv
  BY DEF LedgerInv, LedgerTypeOK, OneRunPerAttempt, RunsAreGrounded
<1> QED BY <1>1, <1>2, <1>3 DEF ActivationInv

(* An authority step writes no table of the ledger.                        *)
LEMMA LedgerUntouched ==
    ASSUME LedgerInv, UNCHANGED ledgerVars
    PROVE  LedgerInv'
BY LedgerStep

(* A step of the lifecycle or of ingestion leaves the log alone.           *)
LEMMA LedgerKeepsAuthority ==
    ASSUME ActivationInv, [LedgerNext]_ledgerVars, UNCHANGED authorityVars
    PROVE  ActivationInv'
<1> USE DEF ActivationInv, authorityVars
<1>1. LedgerInv'
  BY LedgerStep
<1>2. TypeOK'
  BY <1>1 DEF TypeOK, LedgerInv
<1>3. (SequencesAreDistinct /\ RowsAreCausal /\ RollbacksDoNotFork /\ OneStandardPerRun)'
  BY DEF SequencesAreDistinct, RowsAreCausal, Rows, Causal, RollbacksDoNotFork, OneStandardPerRun
<1> QED BY <1>1, <1>2, <1>3

-----------------------------------------------------------------------------
(* A transaction that draws a value puts one new row in flight, numbered   *)
(* above every other row.                                                  *)
LEMMA DrawStep ==
    ASSUME ActivationInv, NEW row \in Activations, row.seq = lastSequence + 1, Draw(row),
           row.kind = "rollback" => Causal(row)
    PROVE  ActivationInv'
<1> USE DEF ActivationInv, Draw
<1>0. lastSequence \in Nat /\ MaxSequence \in Nat
  BY ActivationAssumption DEF TypeOK
<1>1. TypeOK'
  <2>1. lastSequence' \in 0..MaxSequence
    BY <1>0
  <2> QED BY <2>1 DEF TypeOK, LedgerTypeOK
<1>2. SequencesAreDistinct'
  <2>1. \A a \in Rows : a.seq \in Nat /\ a.seq < row.seq
    BY <1>0, RowTypes DEF SequencesAreDistinct, Rows, TypeOK
  <2>2. Rows' = Rows \cup {row}
    BY DEF Rows
  <2> QED BY <1>0, <2>1, <2>2 DEF SequencesAreDistinct, Rows
<1>3. RowsAreCausal'
  BY DEF RowsAreCausal, Rows, Causal
<1>4. RollbacksDoNotFork' /\ OneStandardPerRun'
  BY DEF RollbacksDoNotFork, OneStandardPerRun
<1>5. LedgerInv'
  BY LedgerUntouched DEF ledgerVars
<1> QED BY <1>1, <1>2, <1>3, <1>4, <1>5

(* The service numbers a standard row with the value it drew.              *)
LEMMA BeginStandardStep ==
    ASSUME ActivationInv, NEW run \in runs, BeginStandard(run)
    PROVE  ActivationInv'
<1>1. lastSequence + 1 \in 1..MaxSequence
  BY ActivationAssumption DEF ActivationInv, TypeOK, BeginStandard, Draw
<1>2. Standard(lastSequence + 1, run) \in Activations
  BY <1>1, ActivationAssumption DEF ActivationInv, TypeOK, LedgerTypeOK, Standard, Activations
<1>3. Standard(lastSequence + 1, run).seq = lastSequence + 1
      /\ Standard(lastSequence + 1, run).kind = "standard"
  BY DEF Standard
<1> QED BY <1>2, <1>3, DrawStep DEF BeginStandard

(* The service builds a rollback from rows that stay in the log.           *)
LEMMA BeginRollbackStep ==
    ASSUME ActivationInv, NEW target \in activations, NEW why \in Reasons,
           BeginRollback(target, why)
    PROVE  ActivationInv'
<1>1. PICK current \in activations :
        /\ IsCurrent(current)
        /\ target.kind = "standard"
        /\ target.seq < current.seq
        /\ ~RepeatsRollback(current, target, why)
        /\ Draw(Rollback(lastSequence + 1, target, current, why))
  BY DEF BeginRollback
<1> DEFINE row == Rollback(lastSequence + 1, target, current, why)
<1>2. /\ row.seq = lastSequence + 1 /\ row.kind = "rollback" /\ row.run = target.run
      /\ row.target = target.seq /\ row.replaces = current.seq /\ row.reason = why
  BY DEF Rollback
<1>3. /\ target \in Activations /\ current \in Activations
      /\ lastSequence \in Nat /\ MaxSequence \in Nat
  BY ActivationAssumption DEF ActivationInv, TypeOK
<1>4. lastSequence + 1 \in 1..MaxSequence
  BY <1>1, <1>3 DEF Draw
<1>5. row \in Activations
  <2>1. target.seq \in 0..MaxSequence /\ current.seq \in 0..MaxSequence /\ target.run \in Runs
    BY <1>3 DEF Activations
  <2> QED BY <1>4, <2>1 DEF Rollback, Activations
<1>6. current.seq < row.seq
  BY <1>2, <1>3, RowTypes DEF ActivationInv, SequencesAreDistinct
<1>7. Causal(row)
  BY <1>1, <1>2, <1>6 DEF Causal, RepeatsRollback
<1> HIDE DEF row
<1> QED BY <1>1, <1>2, <1>5, <1>7, DrawStep DEF row

-----------------------------------------------------------------------------
(* What an insert leaves true of the rows, whatever kind it inserts.       *)
LEMMA InsertStep ==
    ASSUME ActivationInv, NEW row \in inFlight, Insert(row)
    PROVE  LedgerInv' /\ TypeOK' /\ SequencesAreDistinct' /\ RowsAreCausal'
<1> USE DEF ActivationInv, Insert
<1>1. TypeOK'
  BY DEF TypeOK, LedgerTypeOK
<1>2. Rows' \subseteq Rows
  BY DEF Rows
<1>3. SequencesAreDistinct'
  BY <1>2 DEF SequencesAreDistinct, Rows
<1>4. RowsAreCausal'
  BY <1>2 DEF RowsAreCausal, Causal
<1>5. LedgerInv'
  BY LedgerUntouched DEF ledgerVars
<1> QED BY <1>1, <1>3, <1>4, <1>5

(* The unique index admits one standard row per run.                       *)
LEMMA CommitStandardStep ==
    ASSUME ActivationInv, NEW row \in inFlight, CommitStandard(row)
    PROVE  ActivationInv'
<1> USE DEF ActivationInv, CommitStandard
<1>1. LedgerInv' /\ TypeOK' /\ SequencesAreDistinct' /\ RowsAreCausal'
  BY InsertStep
<1>2. RollbacksDoNotFork'
  BY DEF RollbacksDoNotFork, Insert
<1>3. OneStandardPerRun'
  BY DEF OneStandardPerRun, HasStandard, Insert
<1> QED BY <1>1, <1>2, <1>3

(* A rollback commits only over the current activation, and any rollback   *)
(* that replaced that one already would be above it.                       *)
LEMMA CommitRollbackStep ==
    ASSUME ActivationInv, NEW row \in inFlight, CommitRollback(row)
    PROVE  ActivationInv'
<1> USE DEF ActivationInv, CommitRollback
<1>1. LedgerInv' /\ TypeOK' /\ SequencesAreDistinct' /\ RowsAreCausal'
  BY InsertStep
<1>2. \A r \in activations : r.kind = "rollback" => r.replaces # row.replaces
  <2>1. SUFFICES ASSUME NEW r \in activations, r.kind = "rollback",
                        r.replaces = row.replaces
                 PROVE  FALSE
    OBVIOUS
  <2>2. PICK replaced \in activations : IsCurrent(replaced) /\ replaced.seq = row.replaces
    BY DEF RollbackValid
  <2>3. replaced.seq < r.seq
    BY <2>1, <2>2 DEF RowsAreCausal, Rows, Causal
  <2>4. r.seq <= replaced.seq
    BY <2>2 DEF IsCurrent
  <2>5. r.seq \in Nat /\ replaced.seq \in Nat
    BY RowTypes DEF TypeOK
  <2> QED BY <2>3, <2>4, <2>5
<1>3. RollbacksDoNotFork'
  BY <1>2 DEF RollbacksDoNotFork, Insert
<1>4. OneStandardPerRun'
  BY DEF OneStandardPerRun, Insert
<1> QED BY <1>1, <1>3, <1>4

(* An abort only takes a row out of flight.                                *)
LEMMA AbortStep ==
    ASSUME ActivationInv, NEW row \in inFlight, Abort(row)
    PROVE  ActivationInv'
<1>1. LedgerInv'
  BY LedgerUntouched DEF ActivationInv, Abort, ledgerVars
<1>2. TypeOK'
  BY <1>1 DEF ActivationInv, Abort, TypeOK, LedgerInv
<1>3. (SequencesAreDistinct /\ RowsAreCausal /\ RollbacksDoNotFork /\ OneStandardPerRun)'
  BY DEF ActivationInv, Abort, SequencesAreDistinct, RowsAreCausal, Rows, Causal,
         RollbacksDoNotFork, OneStandardPerRun
<1> QED BY <1>1, <1>2, <1>3 DEF ActivationInv

(* The invariant is inductive.                                             *)
LEMMA InvariantStep ==
    ASSUME ActivationInv, [Next]_corpusVars
    PROVE  ActivationInv'
<1>1. CASE LedgerNext /\ UNCHANGED authorityVars
  BY <1>1, LedgerKeepsAuthority
<1>2. CASE Authority
  BY <1>2, BeginStandardStep, BeginRollbackStep, CommitStandardStep, CommitRollbackStep, AbortStep
     DEF Authority
<1>3. CASE UNCHANGED corpusVars
  BY <1>3, LedgerKeepsAuthority DEF corpusVars, ledgerVars, authorityVars
<1> QED BY <1>1, <1>2, <1>3 DEF Next

-----------------------------------------------------------------------------
(* For any constants: types hold, sequence values are never shared, every  *)
(* row is causal, rollbacks do not fork and a run is activated once.       *)
THEOREM ActivationSafe == Spec => []ActivationInv
<1>1. Init => ActivationInv
  BY InitEstablishes
<1>2. ActivationInv /\ [Next]_corpusVars => ActivationInv'
  BY InvariantStep
<1> QED BY <1>1, <1>2, PTL DEF Spec

(* The log can be replayed without guessing.                               *)
THEOREM HistoryIsCausal == Spec => []RollbackCausality
<1>1. ActivationInv => RollbackCausality
  BY DEF ActivationInv, RowsAreCausal, Rows, Causal, RollbackCausality
<1> QED BY <1>1, ActivationSafe, PTL

(* Of two rollbacks from one authority one commits.                        *)
THEOREM HistoryIsLinear == Spec => []RollbacksDoNotFork
<1>1. ActivationInv => RollbacksDoNotFork
  BY DEF ActivationInv
<1> QED BY <1>1, ActivationSafe, PTL

(* A retried rollback is never stacked on itself.                          *)
THEOREM RetriesCollapse == Spec => []RollbackRetriesCollapse
<1>1. ActivationInv => RollbackRetriesCollapse
  BY DEF ActivationInv, RowsAreCausal, Rows, Causal, SequencesAreDistinct, RollbackRetriesCollapse
<1> QED BY <1>1, ActivationSafe, PTL

(* A step that moves the authority moves it up, to an eligible snapshot.   *)
THEOREM AuthorityAdvances == Spec => AuthorityAdvancesEligibly
<1> DEFINE Advance == \A a \in activations' :
              IsCurrent(a)' /\ ~IsCurrent(a) =>
                  /\ a.run.snapshot \cap retired' = {}
                  /\ \A b \in activations : b.seq < a.seq
<1>1. ASSUME ActivationInv, NEW row \in inFlight, Insert(row), ChainEligible(row.run)
      PROVE  Advance
  <2>1. SUFFICES ASSUME NEW a \in activations', IsCurrent(a)', ~IsCurrent(a)
                 PROVE  /\ a.run.snapshot \cap retired' = {}
                        /\ \A b \in activations : b.seq < a.seq
    OBVIOUS
  <2>2. a = row /\ row \notin activations
    BY <1>1, <2>1 DEF Insert, IsCurrent
  <2>3. a.run.snapshot \cap retired' = {}
    BY <1>1, <2>2 DEF ChainEligible, Insert
  <2>4. ASSUME NEW b \in activations PROVE b.seq < a.seq
    <3>1. b.seq <= a.seq
      BY <1>1, <2>1 DEF Insert, IsCurrent
    <3>2. b.seq # a.seq
      BY <1>1, <2>2 DEF ActivationInv, SequencesAreDistinct
    <3>3. b.seq \in Nat /\ a.seq \in Nat
      BY <1>1, <2>2, RowTypes DEF ActivationInv, TypeOK
    <3> QED BY <3>1, <3>2, <3>3
  <2> QED BY <2>3, <2>4
<1>2. ASSUME activations' = activations PROVE Advance
  BY <1>2 DEF IsCurrent
<1>3. ActivationInv /\ [Next]_corpusVars => [Advance]_corpusVars
  <2>1. SUFFICES ASSUME ActivationInv, Next PROVE Advance
    OBVIOUS
  <2>2. \/ activations' = activations
        \/ \E row \in inFlight : Insert(row) /\ ChainEligible(row.run)
    BY <2>1 DEF Next, Authority, authorityVars, BeginStandard, BeginRollback, Draw,
                CommitStandard, CommitRollback, Abort
  <2> QED BY <1>1, <1>2, <2>1, <2>2
<1> QED BY <1>3, ActivationSafe, PTL DEF Spec, AuthorityAdvancesEligibly

(*-------------------------------------------------------------------------*)
(* Assembly and preparation                                                *)
(*-------------------------------------------------------------------------*)
Named(n) == \E a \in activations : a.seq = n

\* Whatever was activated had passed, and passed runs stay.
ActivationsPassed == \A a \in activations : ChainPassed(a.run)

TerminalsAreNamed ==
    /\ \A x \in assemblies : Named(x.seq)
    /\ \A f \in failures : f.seq = 0 \/ Named(f.seq)

\* Why each terminal was recorded.
TerminalsAreTrue ==
    /\ \A x \in assemblies : overBounds = {}
    /\ \A f \in failures :
        /\ f.code = "ACTIVATION_UNAVAILABLE" <=> f.seq = 0
        /\ f.code = "ACTIVE_CORPUS_INELIGIBLE" =>
            \E a \in activations : a.seq = f.seq /\ a.run.snapshot \cap retired # {}
        /\ f.code = "DOCTRINE_COUNT_EXCEEDED" => "count" \in overBounds
        /\ f.code = "DOCTRINE_CONTEXT_BYTES_EXCEEDED" => overBounds = {"bytes"}

AssemblyInv ==
    /\ ActivationInv
    /\ ActivationsPassed
    /\ AssemblyTypeOK
    /\ TerminalsAreNamed
    /\ TerminalsAreTrue

-----------------------------------------------------------------------------
(* Authority steps only add rows to the log, and only eligible ones; units *)
(* stay retired and runs stay recorded.                                    *)
LEMMA CorpusOnlyGrows ==
    ASSUME ActivationInv, [Next]_corpusVars
    PROVE  /\ activations \subseteq activations'
           /\ retired \subseteq retired' /\ runs \subseteq runs'
           /\ \A a \in activations' \ activations : ChainPassed(a.run)
<1>1. CASE LedgerNext /\ UNCHANGED authorityVars
  BY <1>1, LedgerOnlyGrows DEF authorityVars
<1>2. CASE Authority
  <2>1. UNCHANGED <<retired, runs>>
    BY <1>2 DEF Authority, BeginStandard, BeginRollback, Draw, CommitStandard, CommitRollback,
                Insert, Abort
  <2>2. \/ activations' = activations
        \/ \E row \in inFlight : Insert(row) /\ ChainEligible(row.run)
    BY <1>2 DEF Authority, BeginStandard, BeginRollback, Draw, CommitStandard, CommitRollback, Abort
  <2> QED BY <2>1, <2>2 DEF Insert, ChainEligible, ChainPassed
<1>3. CASE UNCHANGED corpusVars
  BY <1>3 DEF corpusVars
<1> QED BY <1>1, <1>2, <1>3 DEF Next

(* A step of the corpus leaves every terminal record named and true.       *)
LEMMA CorpusKeepsTerminals ==
    ASSUME AssemblyInv, [Next]_corpusVars, UNCHANGED assemblyVars
    PROVE  AssemblyInv'
<1> USE DEF AssemblyInv, assemblyVars
<1>1. ActivationInv'
  BY InvariantStep
<1>2. ActivationsPassed'
  BY CorpusOnlyGrows DEF ActivationsPassed, ChainPassed
<1>3. AssemblyTypeOK'
  BY <1>1 DEF AssemblyTypeOK, ActivationInv
<1>4. TerminalsAreNamed' /\ TerminalsAreTrue'
  BY CorpusOnlyGrows DEF TerminalsAreNamed, TerminalsAreTrue, Named
<1> QED BY <1>1, <1>2, <1>3, <1>4

(* A terminal names 0 or a sequence value, so both kinds keep their types. *)
LEMMA SequencesAreNumbers ==
    ASSUME ActivationInv, NEW a \in activations
    PROVE  a.seq \in 1..MaxSequence
BY DEF ActivationInv, TypeOK, Activations

(* The tables other than the two of this component are read only.          *)
LEMMA CorpusUntouched ==
    ASSUME ActivationInv, ActivationsPassed, UNCHANGED corpusVars
    PROVE  ActivationInv' /\ ActivationsPassed'
<1>1. ActivationInv'
  BY InvariantStep
<1>2. ActivationsPassed'
  BY DEF corpusVars, ActivationsPassed, ChainPassed
<1> QED BY <1>1, <1>2

(* A failure record that is named and true keeps the invariant.            *)
LEMMA FailureStep ==
    ASSUME AssemblyInv,
           NEW c \in Cases, NEW n \in 0..MaxSequence, NEW code \in FailureCodes,
           RecordFailure(c, n, code),
           n = 0 \/ Named(n),
           code = "ACTIVATION_UNAVAILABLE" <=> n = 0,
           code = "ACTIVE_CORPUS_INELIGIBLE" =>
               \E a \in activations : a.seq = n /\ a.run.snapshot \cap retired # {},
           code = "DOCTRINE_COUNT_EXCEEDED" => "count" \in overBounds,
           code = "DOCTRINE_CONTEXT_BYTES_EXCEEDED" => overBounds = {"bytes"}
    PROVE  AssemblyInv'
<1> USE DEF AssemblyInv, RecordFailure
<1> DEFINE new == FailureOf(c, n, code)
<1>1. /\ new.case = c /\ new.seq = n /\ new.code = code
      /\ new \in PolicyFailures
  BY DEF FailureOf, PolicyFailures
<1>2. ActivationInv' /\ ActivationsPassed'
  BY CorpusUntouched
<1>3. AssemblyTypeOK'
  BY <1>1, <1>2 DEF AssemblyTypeOK, ActivationInv
<1>4. TerminalsAreNamed'
  BY <1>1 DEF TerminalsAreNamed, Named, corpusVars
<1>5. TerminalsAreTrue'
  BY <1>1 DEF TerminalsAreTrue, corpusVars
<1> QED BY <1>2, <1>3, <1>4, <1>5

(* A success under an activation of the log keeps the invariant.           *)
LEMMA SuccessStep ==
    ASSUME AssemblyInv, NEW c \in Cases, AssembleSuccess(c)
    PROVE  AssemblyInv'
<1>1. PICK a \in activations :
        /\ overBounds = {}
        /\ assemblies' = assemblies \cup {AssemblyOf(c, a.seq)}
        /\ UNCHANGED <<corpusVars, overBounds, failures>>
  BY DEF AssembleSuccess
<1> USE DEF AssemblyInv
<1> DEFINE new == AssemblyOf(c, a.seq)
<1>2. new.seq = a.seq /\ new \in Assemblies
  BY SequencesAreNumbers DEF AssemblyOf, Assemblies
<1>3. ActivationInv' /\ ActivationsPassed'
  BY <1>1, CorpusUntouched
<1>4. AssemblyTypeOK'
  BY <1>1, <1>2, <1>3 DEF AssemblyTypeOK, ActivationInv
<1>5. TerminalsAreNamed'
  BY <1>1, <1>2 DEF TerminalsAreNamed, Named, corpusVars
<1>6. TerminalsAreTrue'
  BY <1>1, <1>2 DEF TerminalsAreTrue, corpusVars
<1> QED BY <1>3, <1>4, <1>5, <1>6

(* An activation that is not eligible any more lost a unit.                *)
LEMMA IneligibleIsRetired ==
    ASSUME ActivationsPassed, NEW a \in activations, ~ChainEligible(a.run)
    PROVE  a.run.snapshot \cap retired # {}
BY DEF ActivationsPassed, ChainEligible, ChainPassed

(* Each way an assembly request can end keeps the invariant.               *)
LEMMA AssembleStep ==
    ASSUME AssemblyInv, NEW c \in Cases, Assemble(c)
    PROVE  AssemblyInv'
<1> USE ActivationAssumption DEF AssemblyInv, FailureCodes
<1>1. CASE AssembleUnavailable(c)
  <2>1. 0 \in 0..MaxSequence
    OBVIOUS
  <2> QED BY <1>1, <2>1, FailureStep DEF AssembleUnavailable
<1>2. CASE AssembleIneligible(c)
  <2>1. PICK a \in activations :
          /\ ~ChainEligible(a.run)
          /\ RecordFailure(c, a.seq, "ACTIVE_CORPUS_INELIGIBLE")
    BY <1>2 DEF AssembleIneligible
  <2>2. a.seq \in 0..MaxSequence /\ a.seq # 0 /\ Named(a.seq)
    BY SequencesAreNumbers DEF Named
  <2>3. a.run.snapshot \cap retired # {}
    BY <2>1, IneligibleIsRetired
  <2> QED BY <2>1, <2>2, <2>3, FailureStep
<1>3. CASE AssembleTooMany(c)
  <2>1. PICK a \in activations :
          /\ "count" \in overBounds
          /\ RecordFailure(c, a.seq, "DOCTRINE_COUNT_EXCEEDED")
    BY <1>3 DEF AssembleTooMany
  <2>2. a.seq \in 0..MaxSequence /\ a.seq # 0 /\ Named(a.seq)
    BY SequencesAreNumbers DEF Named
  <2> QED BY <2>1, <2>2, FailureStep
<1>4. CASE AssembleTooLarge(c)
  <2>1. PICK a \in activations :
          /\ overBounds = {"bytes"}
          /\ RecordFailure(c, a.seq, "DOCTRINE_CONTEXT_BYTES_EXCEEDED")
    BY <1>4 DEF AssembleTooLarge
  <2>2. a.seq \in 0..MaxSequence /\ a.seq # 0 /\ Named(a.seq)
    BY SequencesAreNumbers DEF Named
  <2> QED BY <2>1, <2>2, FailureStep
<1>5. CASE AssembleSuccess(c)
  BY <1>5, SuccessStep
<1> QED BY <1>1, <1>2, <1>3, <1>4, <1>5 DEF Assemble

-----------------------------------------------------------------------------
(* The inductive invariant of assembly: every terminal names an activation *)
(* of the log and says of it what was and stays true.                      *)
THEOREM AssemblySafe == AssemblySpec => []AssemblyInv
<1>1. AssemblyInit => AssemblyInv
  BY InitEstablishes
  DEF AssemblyInit, AssemblyInv, ActivationsPassed, AssemblyTypeOK, ActivationInv,
      TerminalsAreNamed, TerminalsAreTrue, Init
<1>2. AssemblyInv /\ [AssemblyNext]_policyVars => AssemblyInv'
  <2>1. ASSUME AssemblyInv, AssemblyNext PROVE AssemblyInv'
    BY <2>1, CorpusKeepsTerminals, AssembleStep DEF AssemblyNext
  <2>2. ASSUME AssemblyInv, UNCHANGED policyVars PROVE AssemblyInv'
    <3>1. UNCHANGED corpusVars /\ UNCHANGED assemblyVars
      BY <2>2 DEF policyVars, corpusVars, assemblyVars
    <3> QED BY <2>2, <3>1, CorpusKeepsTerminals
  <2> QED BY <2>1, <2>2
<1> QED BY <1>1, <1>2, PTL DEF AssemblySpec

(* Two terminals of one Case and activation are one verdict, except for a  *)
(* retirement that came after.                                             *)
THEOREM VerdictsAgree == AssemblySpec => []OneVerdictPerActivation
<1>1. ASSUME AssemblyInv PROVE OneVerdictPerActivation
  <2>1. SUFFICES ASSUME NEW s \in Terminals, NEW t \in Terminals,
                        s[1] = t[1], s[2] = t[2], s # t
                 PROVE  /\ "ACTIVE_CORPUS_INELIGIBLE" \in {s[3], t[3]}
                        /\ \E a \in activations :
                            a.seq = s[2] /\ a.run.snapshot \cap retired # {}
    BY DEF OneVerdictPerActivation
  <2>2. ASSUME NEW u \in Terminals
        PROVE  /\ u = <<u[1], u[2], u[3]>>
               /\ u[3] \in FailureCodes \cup {"SUCCESS"}
               /\ u[3] = "SUCCESS" => u[2] # 0 /\ overBounds = {}
               /\ u[3] = "ACTIVATION_UNAVAILABLE" => u[2] = 0
               /\ u[3] # "ACTIVATION_UNAVAILABLE" => u[2] # 0
               /\ u[3] = "ACTIVE_CORPUS_INELIGIBLE" =>
                    \E a \in activations : a.seq = u[2] /\ a.run.snapshot \cap retired # {}
               /\ u[3] = "DOCTRINE_COUNT_EXCEEDED" => "count" \in overBounds
               /\ u[3] = "DOCTRINE_CONTEXT_BYTES_EXCEEDED" => overBounds = {"bytes"}
    <3>1. CASE \E x \in assemblies : u = <<x.case, x.seq, "SUCCESS">>
      BY <1>1, <3>1 DEF AssemblyInv, AssemblyTypeOK, Assemblies, TerminalsAreTrue, FailureCodes
    <3>2. CASE \E f \in failures : u = <<f.case, f.seq, f.code>>
      BY <1>1, <3>2 DEF AssemblyInv, AssemblyTypeOK, PolicyFailures, TerminalsAreTrue, FailureCodes
    <3> QED BY <2>2, <3>1, <3>2 DEF Terminals
  <2>3. s[3] # t[3]
    BY <2>1, <2>2
  <2> QED BY <2>1, <2>2, <2>3 DEF FailureCodes
<1> QED BY <1>1, AssemblySafe, PTL

(* New terminals name the current activation, which no terminal is above.  *)
THEOREM TerminalsAdvance == AssemblySpec => TerminalsFollowAuthority
<1> DEFINE Follow == \A t \in Terminals' \ Terminals, s \in Terminals : s[2] <= t[2]
<1>1. ASSUME AssemblyInv, NEW s \in Terminals
      PROVE  s[2] = 0 \/ Named(s[2])
  BY <1>1 DEF AssemblyInv, TerminalsAreNamed, Terminals
<1>2. ASSUME AssemblyInv, NEW c \in Cases, Assemble(c), NEW t \in Terminals', t \notin Terminals
      PROVE  \/ activations = {} /\ t[2] = 0
             \/ \E a \in activations : IsCurrent(a) /\ t[2] = a.seq
  <2>1. ASSUME NEW n, NEW code, RecordFailure(c, n, code) PROVE t[2] = n
    <3>1. \A f \in failures' \ failures : f.seq = n
      BY <2>1 DEF RecordFailure, FailureOf
    <3>2. assemblies' = assemblies
      BY <2>1 DEF RecordFailure
    <3> QED BY <1>2, <3>1, <3>2 DEF Terminals
  <2>2. ASSUME NEW a \in activations, failures' = failures,
               assemblies' = assemblies \cup {AssemblyOf(c, a.seq)}
        PROVE  t[2] = a.seq
    <3>1. \A x \in assemblies' \ assemblies : x.seq = a.seq
      BY <2>2 DEF AssemblyOf
    <3> QED BY <1>2, <2>2, <3>1 DEF Terminals
  <2>3. CASE AssembleUnavailable(c)
    BY <2>1, <2>3 DEF AssembleUnavailable
  <2>4. CASE AssembleIneligible(c)
    BY <2>1, <2>4 DEF AssembleIneligible
  <2>5. CASE AssembleTooMany(c)
    BY <2>1, <2>5 DEF AssembleTooMany
  <2>6. CASE AssembleTooLarge(c)
    BY <2>1, <2>6 DEF AssembleTooLarge
  <2>7. CASE AssembleSuccess(c)
    BY <2>2, <2>7 DEF AssembleSuccess
  <2> QED BY <1>2, <2>3, <2>4, <2>5, <2>6, <2>7 DEF Assemble
<1>3. ASSUME AssemblyInv, NEW c \in Cases, Assemble(c)
      PROVE  Follow
  <2>1. SUFFICES ASSUME NEW t \in Terminals', t \notin Terminals, NEW s \in Terminals
                 PROVE  s[2] <= t[2]
    OBVIOUS
  <2>2. CASE activations = {} /\ t[2] = 0
    BY <1>1, <1>3, <2>2 DEF Named
  <2>3. ASSUME NEW a \in activations, IsCurrent(a), t[2] = a.seq
        PROVE  s[2] <= t[2]
    BY <1>1, <1>3, <2>3, SequencesAreNumbers, ActivationAssumption
    DEF Named, IsCurrent, AssemblyInv
  <2> QED BY <1>2, <1>3, <2>1, <2>2, <2>3
<1>4. ASSUME UNCHANGED assemblyVars PROVE Follow
  BY <1>4 DEF assemblyVars, Terminals
<1>5. AssemblyInv /\ [AssemblyNext]_policyVars => [Follow]_policyVars
  BY <1>3, <1>4 DEF AssemblyNext
<1> QED BY <1>5, AssemblySafe, PTL DEF AssemblySpec, TerminalsFollowAuthority

(* After one Case met an ineligible activation no Case is assembled on it. *)
THEOREM IneligibleIsFinal == AssemblySpec => IneligibleEndsAssembly
<1> DEFINE Final == \A x \in assemblies' \ assemblies, f \in failures :
                        f.code = "ACTIVE_CORPUS_INELIGIBLE" => f.seq # x.seq
<1>1. ASSUME AssemblyInv, NEW c \in Cases, AssembleSuccess(c) PROVE Final
  <2>1. PICK a \in activations :
          ChainEligible(a.run) /\ assemblies' = assemblies \cup {AssemblyOf(c, a.seq)}
    BY <1>1 DEF AssembleSuccess
  <2>2. ASSUME NEW f \in failures, f.code = "ACTIVE_CORPUS_INELIGIBLE", f.seq = a.seq
        PROVE  FALSE
    <3>1. PICK b \in activations : b.seq = f.seq /\ b.run.snapshot \cap retired # {}
      BY <1>1, <2>2 DEF AssemblyInv, TerminalsAreTrue
    <3>2. b = a
      BY <1>1, <2>2, <3>1 DEF AssemblyInv, ActivationInv, SequencesAreDistinct
    <3> QED BY <2>1, <3>1, <3>2 DEF ChainEligible
  <2> QED BY <2>1, <2>2 DEF AssemblyOf
<1>2. ASSUME assemblies' = assemblies PROVE Final
  BY <1>2
<1>3. AssemblyInv /\ [AssemblyNext]_policyVars => [Final]_policyVars
  BY <1>1, <1>2 DEF AssemblyNext, Assemble, AssembleUnavailable, AssembleIneligible,
     AssembleTooMany, AssembleTooLarge, RecordFailure, assemblyVars
<1> QED BY <1>3, AssemblySafe, PTL DEF AssemblySpec, IneligibleEndsAssembly

-----------------------------------------------------------------------------
(* Package activation and preparation write nothing assembly reads.        *)
THEOREM PreparationOnlyReads == PreparedSpec => AssemblySpec
<1>1. PreparedInit => AssemblyInit
  BY DEF PreparedInit
<1>2. [PreparedNext]_preparedVars => [AssemblyNext]_policyVars
  BY DEF PreparedNext, ActivatePackage, Prepare, preparedVars, policyVars
<1> QED BY <1>1, <1>2, PTL DEF PreparedSpec, AssemblySpec

(* No payload is prepared behind a terminal that binds a later activation  *)
(* or calls its own ineligible.                                            *)
THEOREM PreparationFollows == PreparedSpec => PayloadsFollowTerminals
<1> DEFINE Follow == \A x \in payloads' \ payloads, t \in Terminals :
                        /\ t[2] <= x.seq
                        /\ t[2] = x.seq => t[3] # "ACTIVE_CORPUS_INELIGIBLE"
<1>1. ASSUME AssemblyInv, NEW x \in assemblies, Prepare(x) PROVE Follow
  <2>1. PICK a \in activations : IsCurrent(a) /\ a.seq = x.seq /\ ChainEligible(a.run)
    BY <1>1 DEF Prepare
  <2>2. SUFFICES ASSUME NEW t \in Terminals
                 PROVE  /\ t[2] <= x.seq
                        /\ t[2] = x.seq => t[3] # "ACTIVE_CORPUS_INELIGIBLE"
    BY <1>1 DEF Prepare
  <2>3. t[2] <= x.seq
    <3>1. t[2] = 0 \/ Named(t[2])
      BY <1>1 DEF AssemblyInv, TerminalsAreNamed, Terminals
    <3> QED BY <1>1, <2>1, <3>1, SequencesAreNumbers, ActivationAssumption
            DEF Named, IsCurrent, AssemblyInv
  <2>4. ASSUME t[2] = x.seq, t[3] = "ACTIVE_CORPUS_INELIGIBLE" PROVE FALSE
    <3>1. PICK f \in failures : t = <<f.case, f.seq, f.code>>
      BY <2>4 DEF Terminals
    <3>2. PICK b \in activations : b.seq = f.seq /\ b.run.snapshot \cap retired # {}
      BY <1>1, <2>4, <3>1 DEF AssemblyInv, TerminalsAreTrue
    <3>3. b = a
      BY <1>1, <2>1, <2>4, <3>1, <3>2 DEF AssemblyInv, ActivationInv, SequencesAreDistinct
    <3> QED BY <2>1, <3>2, <3>3 DEF ChainEligible
  <2> QED BY <2>3, <2>4
<1>2. ASSUME payloads' = payloads PROVE Follow
  BY <1>2
<1>3. AssemblyInv /\ [PreparedNext]_preparedVars => [Follow]_preparedVars
  BY <1>1, <1>2 DEF PreparedNext, ActivatePackage, preparationVars
<1>4. PreparedSpec => []AssemblyInv
  BY PreparationOnlyReads, AssemblySafe
<1> QED BY <1>3, <1>4, PTL DEF PreparedSpec, PayloadsFollowTerminals

(*-------------------------------------------------------------------------*)
(* Retrieval                                                               *)
(*-------------------------------------------------------------------------*)
Phases == {"new", "execute", "mismatched", "broken", "answered"}

RequestsAreTyped ==
    /\ phase \in [Requests -> Phases]
    /\ answer \in [Requests -> Statuses \cup {"none", "error"}]
    /\ command \in [Requests -> Commands \cup {NoCommand}]
    /\ \A r \in Requests : phase[r] # "new" => command[r] \in Commands

\* A row names an activation of the log, by its sequence and its snapshot,
\* and no two rows share a repeat identity.
EvidenceIsNamed ==
    /\ \A e \in evidence : \E a \in activations :
        a.seq = e.activation /\ a.run.snapshot = e.snapshot
    /\ \A e, f \in evidence :
        e.snapshot = f.snapshot /\ e.question = f.question /\ e.repeat = f.repeat => e = f

RetrievalInv ==
    /\ ActivationInv
    /\ IsFiniteSet(evidence)
    /\ RequestsAreTyped
    /\ EvidenceIsNamed
    /\ AnswersAreAudited

\* What a request of question q writes over activation a.
RowOf(r, a, n, status, results) ==
    [request |-> r, activation |-> a.seq, snapshot |-> a.run.snapshot,
     question |-> command[r].question, repeat |-> n,
     status |-> status, results |-> results]

-----------------------------------------------------------------------------
(* A repeatIndex the query transaction may choose is a number.             *)
LEMMA RepeatIndexIsNumber ==
    ASSUME IsFiniteSet(evidence), NEW n \in 0..Cardinality(evidence) + MaxRepeat
    PROVE  n \in Nat
<1>1. Cardinality(evidence) \in Nat
  BY FS_CardinalityType
<1> QED BY <1>1, RetrievalAssumption

(* A row written over an activation of the log has the type of evidence,   *)
(* and leaves the evidence finite and named.                               *)
LEMMA RecordStep ==
    ASSUME RetrievalInv, NEW r \in Requests, phase[r] # "new",
           NEW a \in activations, NEW n \in Nat,
           NEW status \in Statuses, NEW results \in SUBSET Units,
           Record(r, a, n, status, results), activations' = activations
    PROVE  /\ IsFiniteSet(evidence)'
           /\ evidence' \subseteq Evidence
           /\ EvidenceIsNamed'
           /\ evidence' = evidence \cup {RowOf(r, a, n, status, results)}
<1> DEFINE row == RowOf(r, a, n, status, results)
<1>1. evidence' = evidence \cup {row}
  BY DEF Record, RowOf
<1>2. /\ row.request = r /\ row.activation = a.seq /\ row.snapshot = a.run.snapshot
      /\ row.question = command[r].question /\ row.repeat = n
  BY DEF RowOf
<1>3. row \in Evidence
  <2>1. a.seq \in 1..MaxSequence /\ a.run \in Runs
    BY DEF RetrievalInv, ActivationInv, TypeOK, Activations
  <2>2. a.run.snapshot \in Snapshots
    BY <2>1 DEF Runs
  <2>3. command[r].question \in Questions
    BY DEF RetrievalInv, RequestsAreTyped, Commands
  <2> QED BY <2>1, <2>2, <2>3 DEF RowOf, Evidence
<1>4. \A e \in evidence :
        ~(e.snapshot = row.snapshot /\ e.question = row.question /\ e.repeat = row.repeat)
  BY <1>2 DEF Record, Repeats
<1> HIDE DEF row
<1>5. IsFiniteSet(evidence)'
  BY <1>1, FS_AddElement DEF RetrievalInv
<1>6. EvidenceIsNamed'
  BY <1>1, <1>2, <1>4 DEF RetrievalInv, EvidenceIsNamed
<1> QED BY <1>1, <1>3, <1>5, <1>6 DEF row, RetrievalInv, AnswersAreAudited

(* A request that writes its row and answers with the row's status, or     *)
(* does not answer with one, keeps the invariant.                          *)
LEMMA AuditedStep ==
    ASSUME RetrievalInv, UNCHANGED corpusVars, NEW r \in Requests, phase[r] # "new",
           NEW a \in activations, NEW n \in Nat,
           NEW status \in Statuses, NEW results \in SUBSET Units,
           Record(r, a, n, status, results), UNCHANGED command,
           Reply(r, status) \/ Reply(r, "error") \/ Throw(r, "broken")
    PROVE  RetrievalInv'
<1> DEFINE row == RowOf(r, a, n, status, results)
<1>1. ActivationInv'
  BY InvariantStep DEF RetrievalInv
<1>2. /\ IsFiniteSet(evidence)' /\ evidence' \subseteq Evidence /\ EvidenceIsNamed'
      /\ evidence' = evidence \cup {row}
  BY RecordStep DEF corpusVars
<1>3. row.request = r /\ row.status = status
  BY DEF RowOf
<1> HIDE DEF row
<1>4. RequestsAreTyped'
  BY DEF RetrievalInv, RequestsAreTyped, Reply, Throw, Phases
<1>5. ASSUME NEW q \in Requests, answer'[q] \in Statuses
      PROVE  \E e \in evidence' : e.request = q /\ e.status = answer'[q]
  <2>1. CASE answer'[q] = answer[q]
    BY <1>2, <1>5, <2>1 DEF RetrievalInv, AnswersAreAudited
  <2>2. CASE answer'[q] # answer[q]
    <3>1. q = r /\ answer'[q] \in {status, "error"}
      BY <2>2 DEF RetrievalInv, RequestsAreTyped, Reply, Throw
    <3>2. "error" \notin Statuses
      BY DEF Statuses, Failures
    <3> QED BY <1>2, <1>3, <1>5, <3>1, <3>2
  <2> QED BY <2>1, <2>2
<1> QED BY <1>1, <1>2, <1>4, <1>5 DEF RetrievalInv, AnswersAreAudited

(* A request that writes nothing and answers with no status keeps it too.  *)
LEMMA UnrecordedStep ==
    ASSUME RetrievalInv, UNCHANGED corpusVars, UNCHANGED evidence, RequestsAreTyped',
           \A r \in Requests : answer'[r] \in {answer[r], "error"}
    PROVE  RetrievalInv'
<1>1. ActivationInv'
  BY InvariantStep DEF RetrievalInv
<1>2. "error" \notin Statuses
  BY DEF Statuses, Failures
<1>3. AnswersAreAudited'
  BY <1>2 DEF RetrievalInv, AnswersAreAudited
<1>4. EvidenceIsNamed'
  BY DEF RetrievalInv, EvidenceIsNamed, corpusVars
<1> QED BY <1>1, <1>3, <1>4 DEF RetrievalInv

(* What a query finds are units; what it reports is a bounded status.      *)
LEMMA FindingsAreTyped ==
    ASSUME RetrievalInv, NEW r \in Requests, phase[r] # "new", NEW a \in activations
    PROVE  Hits(r, a) \in SUBSET Units /\ StatusOf(r, a) \in Statuses
<1>1. command[r].question \in Questions
  BY DEF RetrievalInv, RequestsAreTyped, Commands
<1>2. LexicalMatch[command[r].question] \subseteq Units
  BY <1>1, RetrievalAssumption
<1> QED BY <1>2 DEF Hits, StatusOf, Statuses, Failures

(* Each step of a request keeps the invariant.                             *)
LEMMA HandleStep ==
    ASSUME RetrievalInv, UNCHANGED corpusVars, NEW r \in Requests, Handle(r)
    PROVE  RetrievalInv'
<1>1. CASE Execute(r)
  <2>1. PICK a \in activations, n \in 0..Cardinality(evidence) + MaxRepeat :
          /\ Record(r, a, n, StatusOf(r, a), Hits(r, a))
          /\ Reply(r, StatusOf(r, a)) \/ Throw(r, "broken")
    BY <1>1 DEF Execute
  <2>2. n \in Nat
    BY RepeatIndexIsNumber DEF RetrievalInv
  <2>3. phase[r] # "new" /\ UNCHANGED command
    BY <1>1 DEF Execute
  <2> QED BY <2>1, <2>2, <2>3, FindingsAreTyped, AuditedStep
<1>2. CASE ExecuteMismatch(r)
  <2>1. phase[r] = "execute" /\ Throw(r, "mismatched") /\ UNCHANGED <<command, evidence>>
    BY <1>2 DEF ExecuteMismatch
  <2>2. RequestsAreTyped'
    BY <2>1 DEF RetrievalInv, RequestsAreTyped, Throw, Phases
  <2> QED BY <2>1, <2>2, UnrecordedStep DEF Throw
<1>3. CASE ExecuteBreaks(r)
  <2>1. phase[r] = "execute" /\ Throw(r, "broken") /\ UNCHANGED <<command, evidence>>
    BY <1>3 DEF ExecuteBreaks
  <2>2. RequestsAreTyped'
    BY <2>1 DEF RetrievalInv, RequestsAreTyped, Throw, Phases
  <2> QED BY <2>1, <2>2, UnrecordedStep DEF Throw
<1>4. CASE PersistFailure(r)
  <2>1. PICK code \in {"ACTIVATION_NOT_ELIGIBLE", "RETRIEVAL_FAILED"},
             a \in activations, n \in 0..Cardinality(evidence) + MaxRepeat :
          /\ Record(r, a, n, code, {})
          /\ Reply(r, code) \/ Reply(r, "error")
    BY <1>4 DEF PersistFailure
  <2>2. n \in Nat
    BY RepeatIndexIsNumber DEF RetrievalInv
  <2>3. phase[r] # "new" /\ UNCHANGED command
    BY <1>4 DEF PersistFailure
  <2>4. code \in Statuses /\ {} \in SUBSET Units
    BY DEF Statuses, Failures
  <2> QED BY <2>1, <2>2, <2>3, <2>4, AuditedStep
<1>5. CASE PersistBreaks(r)
  <2>1. phase[r] # "new" /\ Reply(r, "error") /\ UNCHANGED <<command, evidence>>
    BY <1>5 DEF PersistBreaks
  <2>2. RequestsAreTyped'
    BY <2>1 DEF RetrievalInv, RequestsAreTyped, Reply, Phases
  <2>3. \A q \in Requests : answer'[q] \in {answer[q], "error"}
    BY <2>1 DEF RetrievalInv, RequestsAreTyped, Reply
  <2> QED BY <2>1, <2>2, <2>3, UnrecordedStep
<1> QED BY <1>1, <1>2, <1>3, <1>4, <1>5 DEF Handle

-----------------------------------------------------------------------------
(* The inductive invariant of retrieval.                                   *)
THEOREM RetrievalSafe == SpecRetrieval => []RetrievalInv
<1>1. ASSUME InitRetrieval PROVE RetrievalInv
  <2>1. ActivationInv /\ IsFiniteSet(evidence)
    BY <1>1, InitEstablishes, FS_EmptySet DEF InitRetrieval
  <2>2. RequestsAreTyped
    BY <1>1 DEF InitRetrieval, RequestsAreTyped, Phases
  <2>3. EvidenceIsNamed /\ AnswersAreAudited
    BY <1>1 DEF InitRetrieval, EvidenceIsNamed, AnswersAreAudited, Statuses, Failures
  <2> QED BY <2>1, <2>2, <2>3 DEF RetrievalInv
<1>2. ASSUME RetrievalInv, [NextRetrieval]_vars PROVE RetrievalInv'
  <2>1. ASSUME [Next]_corpusVars, UNCHANGED retrievalVars PROVE RetrievalInv'
    <3>1. ActivationInv' /\ activations \subseteq activations'
      BY <1>2, <2>1, InvariantStep, CorpusOnlyGrows DEF RetrievalInv
    <3>2. RequestsAreTyped' /\ AnswersAreAudited' /\ IsFiniteSet(evidence)'
      BY <1>2, <2>1 DEF RetrievalInv, RequestsAreTyped, AnswersAreAudited, retrievalVars
    <3>3. EvidenceIsNamed'
      BY <1>2, <2>1, <3>1 DEF RetrievalInv, EvidenceIsNamed, retrievalVars
    <3> QED BY <3>1, <3>2, <3>3 DEF RetrievalInv
  <2>2. ASSUME NEW r \in Requests, NEW c \in Commands, Submit(r, c), UNCHANGED corpusVars
        PROVE  RetrievalInv'
    <3>1. RequestsAreTyped'
      BY <1>2, <2>2 DEF RetrievalInv, RequestsAreTyped, Submit, Phases
    <3> QED BY <1>2, <2>2, <3>1, UnrecordedStep DEF Submit
  <2>3. CASE UNCHANGED vars
    BY <2>1, <2>3 DEF vars, corpusVars, retrievalVars
  <2> QED BY <1>2, <2>1, <2>2, <2>3, HandleStep DEF NextRetrieval
<1> QED BY <1>1, <1>2, PTL DEF SpecRetrieval

(* Every status a caller is given stands in a committed row of its request. *)
THEOREM AnswersStandInEvidence == SpecRetrieval => []AnswersAreAudited
<1>1. RetrievalInv => AnswersAreAudited
  BY DEF RetrievalInv
<1> QED BY <1>1, RetrievalSafe, PTL

(* No row ever binds a superseded activation or returns retired units.     *)
THEOREM EvidenceIsCurrent == SpecRetrieval => EvidenceBindsLatest
<1> DEFINE Binds(e) ==
             \E a \in activations :
                /\ IsCurrent(a) /\ a.seq = e.activation
                /\ e.snapshot = a.run.snapshot
                /\ e.results \subseteq a.run.snapshot
                /\ Retired(a) => e.results = {}
<1>1. ASSUME NEW r \in Requests, Handle(r) PROVE \A e \in evidence' \ evidence : Binds(e)
  <2>1. ASSUME NEW a \in activations, IsCurrent(a), NEW n, NEW status, NEW results,
               Record(r, a, n, status, results), results \subseteq a.run.snapshot,
               Retired(a) => results = {}
        PROVE  \A e \in evidence' \ evidence : Binds(e)
    <3>1. \A e \in evidence' \ evidence :
            e.activation = a.seq /\ e.snapshot = a.run.snapshot /\ e.results = results
      BY <2>1 DEF Record
    <3> QED BY <2>1, <3>1
  <2>2. CASE Execute(r)
    <3>1. PICK a \in activations, n \in 0..Cardinality(evidence) + MaxRepeat :
            IsCurrent(a) /\ Record(r, a, n, StatusOf(r, a), Hits(r, a))
      BY <2>2 DEF Execute
    <3>2. Hits(r, a) \subseteq a.run.snapshot /\ (Retired(a) => Hits(r, a) = {})
      BY DEF Hits
    <3> QED BY <2>1, <3>1, <3>2
  <2>3. CASE PersistFailure(r)
    <3>1. PICK code \in {"ACTIVATION_NOT_ELIGIBLE", "RETRIEVAL_FAILED"},
               a \in activations, n \in 0..Cardinality(evidence) + MaxRepeat :
            IsCurrent(a) /\ Record(r, a, n, code, {})
      BY <2>3 DEF PersistFailure
    <3> QED BY <2>1, <3>1
  <2>4. CASE evidence' = evidence
    BY <2>4
  <2> QED
    BY <1>1, <2>2, <2>3, <2>4 DEF Handle, ExecuteMismatch, ExecuteBreaks, PersistBreaks
<1>2. ASSUME evidence' = evidence PROVE \A e \in evidence' \ evidence : Binds(e)
  BY <1>2
<1>3. [NextRetrieval]_vars => [\A e \in evidence' \ evidence : Binds(e)]_vars
  <2> HIDE DEF Binds
  <2> QED BY <1>1, <1>2 DEF NextRetrieval, Submit, retrievalVars
<1> QED BY <1>3, PTL DEF SpecRetrieval, EvidenceBindsLatest

(*-------------------------------------------------------------------------*)
(* Locks                                                                   *)
(*-------------------------------------------------------------------------*)
\* Whoever holds the Doctrine lock is alone with it: no other transaction
\* holds it, or an insert's.
HoldersAreAlone ==
    \A t, u \in Transactions :
        t # u /\ HoldsCorpus(t) => ~HoldsCorpus(u) /\ ~Inserting(u)

LocksInv == LocksTypeOK /\ HoldersAreAlone

-----------------------------------------------------------------------------
(* A transaction that moves keeps every program counter in its range.       *)
LEMMA GotoKeepsLocations ==
    ASSUME NEW t \in Transactions, NEW where \in Locations,
           pc \in [Transactions -> Locations], Goto(t, where)
    PROVE  /\ pc' \in [Transactions -> Locations]
           /\ pc'[t] = where
           /\ \A u \in Transactions : u # t => pc'[u] = pc[u]
BY DEF Goto

(* A lock that is granted, a return to the caller and a ROLLBACK keep the   *)
(* types.                                                                   *)
LEMMA LocksKeepTypes ==
    ASSUME NEW t \in Transactions, NEW where \in Locations, LocksTypeOK, Locks(t, where)
    PROVE  LocksTypeOK'
BY GotoKeepsLocations DEF Locks, LocksTypeOK

LEMMA ReturnsKeepTypes ==
    ASSUME NEW t \in Transactions, NEW where \in Locations, LocksTypeOK,
           Returns(t, where), authority' \in {authority, authority + 1}
    PROVE  LocksTypeOK'
<1>1. pc' \in [Transactions -> Locations]
  BY GotoKeepsLocations DEF Returns, Leaves, LocksTypeOK
<1>2. attempt' \in [Transactions -> 0..MaxAttempts]
  BY LocksAssumption DEF Returns, LocksTypeOK
<1>3. authority' \in Nat /\ 0..authority \subseteq 0..authority' /\ 0 \in 0..authority'
  BY DEF LocksTypeOK
<1>4. seen' \in [Transactions -> 0..authority']
  BY <1>3 DEF Returns, Leaves, LocksTypeOK
<1> QED BY <1>1, <1>2, <1>3, <1>4 DEF LocksTypeOK

LEMMA RollBackKeepsTypes ==
    ASSUME NEW t \in Transactions, LocksTypeOK, RollBack(t)
    PROVE  LocksTypeOK'
<1>1. CASE Leaves(t, "idle") /\ UNCHANGED attempt
  <2>1. pc' \in [Transactions -> Locations]
    BY <1>1, GotoKeepsLocations DEF Leaves, LocksTypeOK, Locations
  <2>2. authority' = authority
    BY DEF RollBack
  <2>3. seen' \in [Transactions -> 0..authority]
    BY <1>1 DEF Leaves, LocksTypeOK
  <2> QED BY <1>1, <2>1, <2>2, <2>3 DEF LocksTypeOK
<1>2. CASE Returns(t, "failed")
  BY <1>2, ReturnsKeepTypes DEF RollBack, Locations
<1> QED BY <1>1, <1>2 DEF RollBack

(* The types of AuthorityLocks: no retry goes beyond the bound, and no      *)
(* snapshot shows a change that is not committed.                           *)
LEMMA StepsKeepLocksTypes ==
    ASSUME LocksTypeOK, [LocksNext]_lockVars
    PROVE  LocksTypeOK'
<1>1. ASSUME NEW t \in Transactions, Begin(t) PROVE LocksTypeOK'
  <2>1. pc' \in [Transactions -> Locations]
    BY <1>1, GotoKeepsLocations DEF Begin, LocksTypeOK, Locations
  <2>2. attempt' \in [Transactions -> 0..MaxAttempts]
    BY <1>1, LocksAssumption DEF Begin, LocksTypeOK
  <2>3. seen' \in [Transactions -> 0..authority]
    BY <1>1 DEF Begin, LocksTypeOK
  <2> QED BY <1>1, <2>1, <2>2, <2>3 DEF Begin, LocksTypeOK
<1>2. ASSUME NEW t \in Transactions, LockPackage(t) PROVE LocksTypeOK'
  BY <1>2, LocksKeepTypes DEF LockPackage, Locations
<1>3. ASSUME NEW t \in Transactions, LockCorpus(t) PROVE LocksTypeOK'
  BY <1>3, LocksKeepTypes DEF LockCorpus, Locations
<1>4. ASSUME NEW t \in Transactions, InsertActivation(t) PROVE LocksTypeOK'
  BY <1>4, LocksKeepTypes DEF InsertActivation, Locations
<1>5. ASSUME NEW t \in Transactions, SerializeActivation(t) PROVE LocksTypeOK'
  BY <1>5, LocksKeepTypes DEF SerializeActivation, Locations
<1>6. ASSUME NEW t \in Transactions, CommitReader(t) PROVE LocksTypeOK'
  BY <1>6, ReturnsKeepTypes DEF CommitReader, Locations
<1>7. ASSUME NEW t \in Transactions, CommitChange(t) PROVE LocksTypeOK'
  BY <1>7, ReturnsKeepTypes DEF CommitChange, Locations
<1>8. ASSUME NEW t \in Transactions, CommitPackage(t) PROVE LocksTypeOK'
  BY <1>8, ReturnsKeepTypes DEF CommitPackage, Locations
<1>9. ASSUME NEW t \in Transactions, RollBack(t) PROVE LocksTypeOK'
  BY <1>9, RollBackKeepsTypes
<1>10. CASE UNCHANGED lockVars
  BY <1>10 DEF lockVars, LocksTypeOK
<1> QED
  BY <1>1, <1>2, <1>3, <1>4, <1>5, <1>6, <1>7, <1>8, <1>9, <1>10 DEF LocksNext, Progress

(* A transaction that moves to a place without the Doctrine lock and        *)
(* without an insert's leaves the holder as alone as it was.                *)
LEMMA MovingAwayKeepsAlone ==
    ASSUME LocksInv, NEW t \in Transactions, NEW where \in Locations, Goto(t, where),
           where \notin {"locked", "inserting", "inserted"}
    PROVE  HoldersAreAlone'
BY GotoKeepsLocations
DEF LocksInv, LocksTypeOK, HoldersAreAlone, HoldsCorpus, Inserting

(* The lock and the upgrade wait for inserts and locks, and an insert waits *)
(* for locks; no other step brings a transaction to either place.           *)
LEMMA StepsKeepAlone ==
    ASSUME LocksInv, [LocksNext]_lockVars
    PROVE  HoldersAreAlone'
<1> USE DEF HoldsCorpus, Inserting, HoldersAreAlone
<1>1. ASSUME NEW t \in Transactions, Begin(t) PROVE HoldersAreAlone'
  BY <1>1, MovingAwayKeepsAlone DEF Begin, Locations
<1>2. ASSUME NEW t \in Transactions, LockPackage(t) PROVE HoldersAreAlone'
  BY <1>2, MovingAwayKeepsAlone DEF LockPackage, Locks, Locations
<1>3. ASSUME NEW t \in Transactions, LockCorpus(t) PROVE HoldersAreAlone'
  BY <1>3, GotoKeepsLocations
  DEF LockCorpus, Locks, CorpusIsFreeFor, Locations, LocksInv, LocksTypeOK
<1>4. ASSUME NEW t \in Transactions, InsertActivation(t) PROVE HoldersAreAlone'
  BY <1>4, GotoKeepsLocations DEF InsertActivation, Locks, Locations, LocksInv, LocksTypeOK
<1>5. ASSUME NEW t \in Transactions, SerializeActivation(t) PROVE HoldersAreAlone'
  BY <1>5, GotoKeepsLocations
  DEF SerializeActivation, Locks, CorpusIsFreeFor, Locations, LocksInv, LocksTypeOK
<1>6. ASSUME NEW t \in Transactions, NEW where \in {"committed", "failed"},
             Returns(t, where)
      PROVE  HoldersAreAlone'
  BY <1>6, MovingAwayKeepsAlone DEF Returns, Leaves, Locations
<1>7. ASSUME NEW t \in Transactions, Leaves(t, "idle") PROVE HoldersAreAlone'
  BY <1>7, MovingAwayKeepsAlone DEF Leaves, Locations
<1>8. CASE UNCHANGED lockVars
  BY <1>8 DEF lockVars, LocksInv
<1> QED
  BY <1>1, <1>2, <1>3, <1>4, <1>5, <1>6, <1>7, <1>8
  DEF LocksNext, Progress, CommitReader, CommitChange, CommitPackage, RollBack

(* The inductive invariant of the locks: types, and whoever holds the       *)
(* Doctrine lock is alone with it, the upgrade of an insert included.       *)
THEOREM LocksSafe == LocksSpec => []LocksInv
<1>1. LocksInit => LocksInv
  BY LocksAssumption
  DEF LocksInit, LocksInv, LocksTypeOK, Locations, HoldersAreAlone, HoldsCorpus, Inserting
<1>2. LocksInv /\ [LocksNext]_lockVars => LocksInv'
  BY StepsKeepLocksTypes, StepsKeepAlone DEF LocksInv
<1> QED BY <1>1, <1>2, PTL DEF LocksSpec

(* Retries stay within the bound, and no snapshot shows an activation or a  *)
(* retirement that is not committed.                                        *)
THEOREM LocksTyped == LocksSpec => []LocksTypeOK
BY LocksSafe, PTL DEF LocksInv

(* While a transaction holds the Doctrine log, no activation, rollback or   *)
(* retirement commits but its own.                                          *)
THEOREM AuthorityStandsUnderLock == LocksSpec => LockedAuthorityStands
<1>1. ASSUME LocksInv, [LocksNext]_lockVars, NEW t \in Transactions, HoldsCorpus(t)
      PROVE  authority' = authority \/ CommitChange(t)
  <2>1. \A u \in Transactions : CommitChange(u) => u = t
    BY <1>1 DEF LocksInv, HoldersAreAlone, CommitChange
  <2>2. CASE \E u \in Transactions : CommitChange(u)
    BY <2>1, <2>2
  <2>3. CASE ~\E u \in Transactions : CommitChange(u)
    BY <1>1, <2>3
    DEF LocksNext, Progress, lockVars, Begin, LockPackage, LockCorpus, InsertActivation,
        SerializeActivation, Locks, CommitReader, CommitPackage, RollBack
  <2> QED BY <2>2, <2>3
<1>2. LocksInv /\ [LocksNext]_lockVars
      => [\A t \in Transactions :
            HoldsCorpus(t) => authority' = authority \/ CommitChange(t)]_lockVars
  BY <1>1
<1> QED BY <1>2, LocksSafe, PTL DEF LocksSpec, LockedAuthorityStands

=============================================================================
