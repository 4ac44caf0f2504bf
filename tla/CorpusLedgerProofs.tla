------------------------- MODULE CorpusLedgerProofs -------------------------
(***************************************************************************)
(* What every step of the ledger preserves, for any units and attempts.    *)
(* Ingestion and activation cite these lemmas: both take ledger steps.     *)
(***************************************************************************)
EXTENDS CorpusLedger, TLAPS

LedgerInv == LedgerTypeOK /\ OneRunPerAttempt /\ RunsAreGrounded

-----------------------------------------------------------------------------
(* A new run on a free natural identity keeps one run per identity.        *)
LEMMA FreshRunKeepsIdentities ==
    ASSUME OneRunPerAttempt,
           NEW s, NEW n, NEW o,
           ~Occupied(s, n),
           runs' = runs \cup {RunOf(s, n, o)}
    PROVE  OneRunPerAttempt'
BY DEF OneRunPerAttempt, Occupied, RunOf

(* Every ledger step keeps the types, the identities and the grounding of  *)
(* the runs it leaves behind.                                              *)
LEMMA LedgerStep ==
    ASSUME LedgerInv, [LedgerNext]_ledgerVars
    PROVE  LedgerInv'
<1> USE DEF LedgerInv, LedgerTypeOK
<1>1. CASE Lifecycle
  BY <1>1 DEF Lifecycle, Propose, Approve, Retire, OneRunPerAttempt, RunsAreGrounded, SuiteCovers
<1>2. ASSUME NEW n \in Attempts, NEW q \in Qualities, RecordSucceeded(n, q)
      PROVE  LedgerInv'
  <2>1. Eligible \in Snapshots /\ RunOf(Eligible, n, q) \in Runs
    BY <1>2, QualitiesAssumption
       DEF RecordSucceeded, Buildable, Eligible, Snapshots, Runs, RunOf, Outcomes
  <2>2. LedgerTypeOK'
    BY <1>2, <2>1 DEF RecordSucceeded, lifecycleVars
  <2>3. OneRunPerAttempt'
    BY <1>2, FreshRunKeepsIdentities DEF RecordSucceeded
  <2>4. RunsAreGrounded'
    <3>1. approved' = approved
      BY <1>2 DEF RecordSucceeded, lifecycleVars
    <3>2. ASSUME NEW r \in runs'
          PROVE  r.snapshot \subseteq approved \cap AllowedUnits
                 /\ (r.outcome # "failed" => SuiteCovers(r.snapshot))
      <4>1. CASE r \in runs
        BY <4>1 DEF RunsAreGrounded
      <4>2. CASE r = RunOf(Eligible, n, q)
        <5>1. r.snapshot = Eligible
          BY <4>2 DEF RunOf
        <5>2. Eligible \subseteq approved \cap AllowedUnits
          BY <1>2 DEF RecordSucceeded, Buildable, Eligible
        <5> QED BY <1>2, <5>1, <5>2 DEF RecordSucceeded
      <4> QED BY <1>2, <4>1, <4>2 DEF RecordSucceeded
    <3> QED BY <3>1, <3>2 DEF RunsAreGrounded, SuiteCovers
  <2> QED BY <2>2, <2>3, <2>4
<1>3. ASSUME NEW s \in Snapshots, NEW n \in Attempts, RecordFailed(s, n)
      PROVE  LedgerInv'
  <2>1. RunOf(s, n, "failed") \in Runs
    BY DEF Runs, RunOf, Outcomes
  <2>2. LedgerTypeOK'
    BY <1>3, <2>1 DEF RecordFailed, lifecycleVars
  <2>3. OneRunPerAttempt'
    BY <1>3, FreshRunKeepsIdentities DEF RecordFailed
  <2>4. RunsAreGrounded'
    BY <1>3 DEF RecordFailed, lifecycleVars, Buildable, RunsAreGrounded, SuiteCovers, RunOf
  <2> QED BY <2>2, <2>3, <2>4
<1>4. CASE UNCHANGED ledgerVars
  BY <1>4 DEF ledgerVars, OneRunPerAttempt, RunsAreGrounded, SuiteCovers
<1> QED BY <1>1, <1>2, <1>3, <1>4 DEF LedgerNext

(* Approvals and runs are never withdrawn.                                 *)
LEMMA LedgerOnlyGrows ==
    ASSUME [LedgerNext]_ledgerVars
    PROVE  approved \subseteq approved' /\ retired \subseteq retired' /\ runs \subseteq runs'
BY DEF LedgerNext, Lifecycle, Propose, Approve, Retire,
       RecordSucceeded, RecordFailed, lifecycleVars, ledgerVars

(* The tables alone already promise one grounded run per attempt.          *)
THEOREM LedgerSafe == LedgerSpec => []LedgerInv
<1>1. LedgerInit => LedgerInv
  BY DEF LedgerInit, LedgerInv, LedgerTypeOK, OneRunPerAttempt, RunsAreGrounded
<1>2. LedgerInv /\ [LedgerNext]_ledgerVars => LedgerInv'
  BY LedgerStep
<1> QED BY <1>1, <1>2, PTL DEF LedgerSpec

=============================================================================
