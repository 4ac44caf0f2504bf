---------------------------- MODULE CorpusLedger ----------------------------
(***************************************************************************)
(* What the Doctrine tables promise, one committed transaction per step:   *)
(* DoctrineUnits are proposed, approved and retired, and every ingestion   *)
(* attempt over the eligible projection leaves at most one terminal run.   *)
(*                                                                         *)
(* This is the abstract specification of Doctrine ingestion.               *)
(* DoctrineIngestion implements it with concurrent sessions, and           *)
(* CorpusActivation builds the activation authority on top of it.          *)
(***************************************************************************)
EXTENDS Integers, FiniteSets

CONSTANTS
    Units,        \* Doctrine ids, each with one deployment-authorized proposal
    AllowedUnits, \* those whose Source is on the exact Phase 4A allowlist
    PilotUnits,   \* those the committed quality fixtures were authored for
    Attempts,     \* attemptIndex values an operator may name
    Qualities     \* quality outcomes the lexical fixtures may produce

ASSUME UnitsAssumption ==
    /\ AllowedUnits \subseteq Units
    /\ PilotUnits \subseteq Units
    /\ PilotUnits # {}

ASSUME QualitiesAssumption ==
    /\ Qualities \subseteq {"passed", "unpassed"}
    /\ Qualities # {}

VARIABLES
    proposed,  \* units with a row in pa_doctrine_proposals
    approved,  \* units with a row in pa_doctrine_approvals
    retired,   \* units with a row in pa_doctrine_retirements
    runs       \* rows of pa_doctrine_ingestion_runs with their quality report

lifecycleVars == <<proposed, approved, retired>>
ledgerVars == <<proposed, approved, retired, runs>>

-----------------------------------------------------------------------------
(* A snapshot is identified by its units (snapshotId is a content hash).   *)
(* A run is one row: "failed", or succeeded with a passed or an unpassed   *)
(* quality report written by the same transaction.                         *)

Snapshots == (SUBSET Units) \ {{}}

Outcomes == {"failed", "passed", "unpassed"}

Runs == [snapshot : Snapshots, attempt : Attempts, outcome : Outcomes]

RunOf(s, n, o) == [snapshot |-> s, attempt |-> n, outcome |-> o]

\* The unique key (snapshot_id, profile_hash, attempt_index) is taken.
Occupied(s, n) == \E r \in runs : r.snapshot = s /\ r.attempt = n

\* Units approved and not retired: the rows buildEligibleSnapshot selects.
Eligible == approved \ retired

\* createDoctrineCorpusEntry rejects a Source off the allowlist and
\* createDoctrineCorpusSnapshot an empty projection.
Buildable(s) == s # {} /\ s \subseteq AllowedUnits

\* The fixtures must name exactly the units of the snapshot.
SuiteCovers(s) == s = PilotUnits

-----------------------------------------------------------------------------
LedgerTypeOK ==
    /\ proposed \subseteq Units
    /\ approved \subseteq Units
    /\ retired \subseteq Units
    /\ runs \subseteq Runs

LedgerInit ==
    /\ proposed = {}
    /\ approved = {}
    /\ retired = {}
    /\ runs = {}

\* appendDoctrineProposal: an exact repeat is "existing" and writes nothing.
Propose(u) ==
    /\ u \notin proposed
    /\ proposed' = proposed \cup {u}
    /\ UNCHANGED <<approved, retired, runs>>

\* approveDoctrine: the first principal's approval is the only one.
Approve(u) ==
    /\ u \in proposed
    /\ u \notin approved
    /\ approved' = approved \cup {u}
    /\ UNCHANGED <<proposed, retired, runs>>

\* retireDoctrine: requires the approval; nothing undoes it.
Retire(u) ==
    /\ u \in approved
    /\ u \notin retired
    /\ retired' = retired \cup {u}
    /\ UNCHANGED <<proposed, approved, runs>>

Lifecycle == \E u \in Units : Propose(u) \/ Approve(u) \/ Retire(u)

\* The complete transaction of a succeeded run and its quality report: it
\* sees the whole eligible projection and a free natural identity.
RecordSucceeded(n, q) ==
    /\ Buildable(Eligible)
    /\ SuiteCovers(Eligible)
    /\ ~Occupied(Eligible, n)
    /\ runs' = runs \cup {RunOf(Eligible, n, q)}
    /\ UNCHANGED lifecycleVars

\* The fresh transaction that records a failure: its snapshot was eligible
\* when the service rebuilt it, and may have lost a unit since.
RecordFailed(s, n) ==
    /\ Buildable(s)
    /\ s \subseteq approved
    /\ ~Occupied(s, n)
    /\ runs' = runs \cup {RunOf(s, n, "failed")}
    /\ UNCHANGED lifecycleVars

LedgerNext ==
    \/ Lifecycle
    \/ \E n \in Attempts, q \in Qualities : RecordSucceeded(n, q)
    \/ \E s \in Snapshots, n \in Attempts : RecordFailed(s, n)

LedgerSpec == LedgerInit /\ [][LedgerNext]_ledgerVars

-----------------------------------------------------------------------------
(* One terminal run per natural identity: concurrent attempts, retries and *)
(* failure records never leave two outcomes for one (snapshot, attempt).   *)
OneRunPerAttempt ==
    \A r1, r2 \in runs :
        r1.snapshot = r2.snapshot /\ r1.attempt = r2.attempt => r1 = r2

(* Every run is over approved, allowlisted units, and a succeeded one over *)
(* exactly the units the quality fixtures cover.                           *)
RunsAreGrounded ==
    \A r \in runs :
        /\ r.snapshot \subseteq approved \cap AllowedUnits
        /\ r.outcome # "failed" => SuiteCovers(r.snapshot)

=============================================================================
