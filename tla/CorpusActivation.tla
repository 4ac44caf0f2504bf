-------------------------- MODULE CorpusActivation --------------------------
(***************************************************************************)
(* The Doctrine corpus authority: an append-only log of standard and       *)
(* rollback activations.  The activation with the highest sequence is the  *)
(* current one; no flag or pointer is ever updated.                        *)
(*                                                                         *)
(* An activating transaction draws its sequence from a database sequence,  *)
(* which no transaction isolates, and inserts its row later: other         *)
(* transactions draw, commit and retire units in between.  Commit steps    *)
(* are taken in PostgreSQL's serialization order, so a step that lost a    *)
(* conflict never commits; the runner's retry is an Abort and a new Begin. *)
(***************************************************************************)
EXTENDS CorpusLedger

CONSTANTS
    Reasons,      \* normalized rollback reasons
    NoReason,     \* reason of a standard activation
    MaxSequence,  \* bound: sequence values drawn in a behaviour
    Connections   \* connections of the pool: transactions in flight

ASSUME ActivationAssumption ==
    /\ NoReason \notin Reasons
    /\ MaxSequence \in Nat
    /\ Connections \in Nat \ {0}

VARIABLES
    activations,  \* rows of pa_doctrine_corpus_activations
    lastSequence, \* last value of pa_doctrine_corpus_activation_sequence_seq
    inFlight      \* rows built by transactions that have not yet committed

authorityVars == <<activations, lastSequence, inFlight>>
corpusVars ==
    <<proposed, approved, retired, runs, activations, lastSequence, inFlight>>

-----------------------------------------------------------------------------
\* Rows are named by their sequence; 0 stands for the NULL target and
\* replaces columns of a standard activation.
Standard(n, run) ==
    [seq |-> n, kind |-> "standard", run |-> run,
     target |-> 0, replaces |-> 0, reason |-> NoReason]

Rollback(n, target, replaced, why) ==
    [seq |-> n, kind |-> "rollback", run |-> target.run,
     target |-> target.seq, replaces |-> replaced.seq, reason |-> why]

Activations ==
    [seq : 1..MaxSequence, kind : {"standard", "rollback"}, run : Runs,
     target : 0..MaxSequence, replaces : 0..MaxSequence,
     reason : Reasons \cup {NoReason}]

\* ORDER BY activation_sequence DESC LIMIT 1.
IsCurrent(a) == a \in activations /\ \A b \in activations : b.seq <= a.seq

\* Mutant: retirements are not joined.
ChainPassed(run) ==
    /\ run \in runs
    /\ run.outcome = "passed"
    /\ run.snapshot \subseteq AllowedUnits

\* A passed run none of whose units is retired: what the service and the
\* insert trigger both require of the activated chain.
ChainEligible(run) ==
    /\ run \in runs
    /\ run.outcome = "passed"
    /\ run.snapshot \subseteq AllowedUnits
    /\ run.snapshot \cap retired = {}

\* Partial unique index over the standard rows of a run and its report.
HasStandard(run) ==
    \E a \in activations : a.kind = "standard" /\ a.run = run

-----------------------------------------------------------------------------
TypeOK ==
    /\ LedgerTypeOK
    /\ activations \subseteq Activations
    /\ inFlight \subseteq Activations
    /\ lastSequence \in 0..MaxSequence

Init ==
    /\ LedgerInit
    /\ activations = {}
    /\ lastSequence = 0
    /\ inFlight = {}

-----------------------------------------------------------------------------
\* nextval: the value is consumed whether or not the transaction commits.
Draw(row) ==
    /\ lastSequence < MaxSequence
    /\ Cardinality(inFlight) < Connections
    /\ lastSequence' = lastSequence + 1
    /\ inFlight' = inFlight \cup {row}
    /\ UNCHANGED <<proposed, approved, retired, runs, activations>>

\* activate up to its INSERT.  A run already activated is answered
\* "existing" before the sequence is touched.
BeginStandard(run) ==
    /\ run \in runs
    /\ run.outcome = "passed"
    /\ ~HasStandard(run)
    /\ Draw(Standard(lastSequence + 1, run))

\* Mutant: no retry is recognised.
NeverRepeats(current, target, why) == FALSE

\* The retry of a rollback that is current: answered "existing".
RepeatsRollback(current, target, why) ==
    /\ current.kind = "rollback"
    /\ current.target = target.seq
    /\ current.reason = why

\* rollback up to its INSERT.
BeginRollback(target, why) ==
    \E current \in activations :
        /\ IsCurrent(current)
        /\ target.kind = "standard"
        /\ target.seq < current.seq
        /\ ChainEligible(target.run)
        /\ ~RepeatsRollback(current, target, why)
        /\ Draw(Rollback(lastSequence + 1, target, current, why))

Insert(row) ==
    /\ activations' = activations \cup {row}
    /\ inFlight' = inFlight \ {row}
    /\ UNCHANGED <<proposed, approved, retired, runs, lastSequence>>

\* pa_validate_doctrine_activation returns for a standard row before it
\* compares sequences.
CommitStandard(row) ==
    /\ row.kind = "standard"
    /\ ChainEligible(row.run)
    /\ ~HasStandard(row.run)
    /\ Insert(row)

\* Mutant: the replaced activation need not be the current one.
RollbackValidStale(row) ==
    /\ \E target \in activations :
        /\ target.kind = "standard"
        /\ target.seq = row.target
        /\ target.run = row.run
        /\ target.seq < row.replaces
    /\ \E replaced \in activations : replaced.seq = row.replaces
    /\ row.replaces < row.seq

\* The trigger's checks of a rollback row.
RollbackValid(row) ==
    /\ \E target \in activations :
        /\ target.kind = "standard"
        /\ target.seq = row.target
        /\ target.run = row.run
        /\ target.seq < row.replaces
    /\ \E replaced \in activations :
        /\ IsCurrent(replaced)
        /\ replaced.seq = row.replaces
    /\ row.replaces < row.seq

\* Mutant: the trigger rebases the row on whatever is current.
CommitRollbackRebased(row) ==
    /\ row.kind = "rollback"
    /\ ChainEligible(row.run)
    /\ \E replaced \in activations :
        /\ IsCurrent(replaced)
        /\ activations' = activations \cup {[row EXCEPT !.replaces = replaced.seq]}
    /\ inFlight' = inFlight \ {row}
    /\ UNCHANGED <<proposed, approved, retired, runs, lastSequence>>

CommitRollback(row) ==
    /\ row.kind = "rollback"
    /\ ChainEligible(row.run)
    /\ RollbackValid(row)
    /\ Insert(row)

\* A trigger raises, a conflict is lost or the connection drops.
Abort(row) ==
    /\ inFlight' = inFlight \ {row}
    /\ UNCHANGED <<proposed, approved, retired, runs, activations, lastSequence>>

Authority ==
    \/ \E run \in runs : BeginStandard(run)
    \/ \E target \in activations, why \in Reasons : BeginRollback(target, why)
    \/ \E row \in inFlight :
        CommitStandard(row) \/ CommitRollback(row) \/ Abort(row)

Next ==
    \/ LedgerNext /\ UNCHANGED authorityVars
    \/ Authority

Spec == Init /\ [][Next]_corpusVars

-----------------------------------------------------------------------------
(* Every row, committed or in flight, owns its sequence value: a value an  *)
(* aborted transaction consumed is never given to another row.             *)
SequencesAreDistinct ==
    \A a, b \in activations \cup inFlight :
        /\ a.seq <= lastSequence
        /\ a.seq = b.seq => a = b

(* Every committed rollback copies a standard activation that is strictly  *)
(* earlier than the one it replaced, which is itself strictly earlier than *)
(* the rollback: the history can be replayed without guessing.             *)
RollbackCausality ==
    \A r \in activations : r.kind = "rollback" =>
        /\ r.target < r.replaces /\ r.replaces < r.seq
        /\ \E t \in activations :
            t.seq = r.target /\ t.kind = "standard" /\ t.run = r.run
        /\ \E p \in activations : p.seq = r.replaces

(* Two rollbacks never replace the same activation: of two operators who   *)
(* roll back concurrently from one authority, one commits.                 *)
RollbacksDoNotFork ==
    \A r1, r2 \in activations :
        /\ r1.kind = "rollback" /\ r2.kind = "rollback"
        /\ r1.replaces = r2.replaces
        => r1 = r2

(* An immediate retry of a rollback, whatever raced with it, never appends *)
(* a second rollback on top of the first.                                  *)
RollbackRetriesCollapse ==
    \A r1, r2 \in activations :
        /\ r1.kind = "rollback" /\ r2.kind = "rollback"
        /\ r2.replaces = r1.seq
        => r1.target # r2.target \/ r1.reason # r2.reason

(* A run is activated at most once as a standard activation.               *)
OneStandardPerRun ==
    \A a, b \in activations :
        a.kind = "standard" /\ b.kind = "standard" /\ a.run = b.run => a = b

(* The authority never moves to a snapshot that holds a retired unit and   *)
(* never moves back to a lower sequence: a step that changes the current   *)
(* activation installs an eligible one above it.                           *)
AuthorityAdvancesEligibly ==
    [][\A a \in activations' :
        IsCurrent(a)' /\ ~IsCurrent(a) =>
            /\ a.run.snapshot \cap retired' = {}
            /\ \A b \in activations : b.seq < a.seq]_corpusVars

=============================================================================
