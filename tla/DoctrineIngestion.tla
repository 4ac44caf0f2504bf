------------------------- MODULE DoctrineIngestion --------------------------
(***************************************************************************)
(* createDoctrineIngestionRun as the service executes it: an attempt in    *)
(* one SERIALIZABLE transaction and, when that throws, a catch block that  *)
(* rebuilds the projection and looks the run up outside any transaction    *)
(* before a fresh transaction records the failure.  Sessions of several    *)
(* operators interleave at every await, and the Doctrine lifecycle moves   *)
(* on between them.                                                        *)
(*                                                                         *)
(* One transaction is one step: PostgreSQL serializes them, and the runner *)
(* repeats a callback that lost a serialization conflict.                  *)
(***************************************************************************)
EXTENDS CorpusLedger

CONSTANTS
    Sessions,  \* concurrent ingestion requests
    NoRun      \* no run answered

ASSUME NoRunAssumption == NoRun \notin Runs

VARIABLES
    pc,       \* await the session is suspended at
    attempt,  \* attemptIndex of its command
    wanted,   \* snapshotId of its command, if any
    rebuilt,  \* projection read by the catch block
    reply     \* last answer the session's operator received

sessionVars == <<pc, attempt, wanted, rebuilt, reply>>
vars == <<proposed, approved, retired, runs, pc, attempt, wanted, rebuilt, reply>>

-----------------------------------------------------------------------------
\* No snapshot named, or none rebuilt yet: a real one is never empty.
NoSnapshot == {}

Answer(status, run) == [status |-> status, run |-> run]

NoReply == Answer("none", NoRun)

Replies == [status : {"none", "error", "inserted", "existing"},
            run : Runs \cup {NoRun}]

TypeOK ==
    /\ LedgerTypeOK
    /\ pc \in [Sessions -> {"idle", "attempt", "rebuild", "lookup", "persist"}]
    /\ attempt \in [Sessions -> Attempts]
    /\ wanted \in [Sessions -> Snapshots \cup {NoSnapshot}]
    /\ rebuilt \in [Sessions -> Snapshots \cup {NoSnapshot}]
    /\ reply \in [Sessions -> Replies]

Init ==
    /\ LedgerInit
    /\ pc = [c \in Sessions |-> "idle"]
    /\ attempt \in [Sessions -> Attempts]
    /\ wanted = [c \in Sessions |-> NoSnapshot]
    /\ rebuilt = [c \in Sessions |-> NoSnapshot]
    /\ reply = [c \in Sessions |-> NoReply]

-----------------------------------------------------------------------------
At(c, l) == pc[c] = l

Goto(c, l) == pc' = [pc EXCEPT ![c] = l]

\* The promise settles and the operator sees the answer.
Settle(c, status, run) ==
    /\ Goto(c, "idle")
    /\ wanted' = [wanted EXCEPT ![c] = NoSnapshot]
    /\ rebuilt' = [rebuilt EXCEPT ![c] = NoSnapshot]
    /\ reply' = [reply EXCEPT ![c] = Answer(status, run)]

\* The command is consistent with the projection its transaction builds.
Accepts(c) ==
    /\ Buildable(Eligible)
    /\ wanted[c] \in {NoSnapshot, Eligible}

Request(c, n, s) ==
    /\ At(c, "idle")
    /\ Goto(c, "attempt")
    /\ attempt' = [attempt EXCEPT ![c] = n]
    /\ wanted' = [wanted EXCEPT ![c] = s]
    /\ reply' = [reply EXCEPT ![c] = NoReply]
    /\ UNCHANGED <<proposed, approved, retired, runs, rebuilt>>

\* findRunByNaturalIdentity inside the attempt: nothing is written.
AttemptFindsRun(c) ==
    /\ At(c, "attempt")
    /\ Accepts(c)
    /\ \E r \in runs :
        /\ r.snapshot = Eligible /\ r.attempt = attempt[c]
        /\ Settle(c, "existing", r)
    /\ UNCHANGED <<proposed, approved, retired, runs, attempt>>

\* Mutant: the answer is given before COMMIT, which may fail.
AttemptAnswersEarly(c, q) ==
    /\ At(c, "attempt")
    /\ Accepts(c)
    /\ ~Occupied(Eligible, attempt[c])
    /\ Settle(c, "inserted", RunOf(Eligible, attempt[c], q))
    /\ UNCHANGED <<proposed, approved, retired, runs, attempt>>

\* Snapshot, profile, documents, run, suite and report commit together.  The
\* answer to COMMIT may be lost: the caught error then enters the catch block.
AttemptSucceeds(c, q) ==
    /\ At(c, "attempt")
    /\ Accepts(c)
    /\ RecordSucceeded(attempt[c], q)
    /\ \/ Settle(c, "inserted", RunOf(Eligible, attempt[c], q))
       \/ Goto(c, "rebuild") /\ UNCHANGED <<wanted, rebuilt, reply>>
    /\ UNCHANGED attempt

\* Runtime mismatch, unbuildable or stale projection, fixtures that do not
\* cover the snapshot, three lost serialization races, a dropped connection:
\* every throw rolls the transaction back and reaches the catch block.
AttemptFails(c) ==
    /\ At(c, "attempt")
    /\ Goto(c, "rebuild")
    /\ UNCHANGED <<proposed, approved, retired, runs, attempt, wanted, rebuilt, reply>>

\* buildEligibleSnapshot(database): the projection of now, not the attempt's.
Rebuild(c) ==
    /\ At(c, "rebuild")
    /\ Buildable(Eligible)
    /\ rebuilt' = [rebuilt EXCEPT ![c] = Eligible]
    /\ Goto(c, "lookup")
    /\ UNCHANGED <<proposed, approved, retired, runs, attempt, wanted, reply>>

\* findRunByNaturalIdentity(database) on the rebuilt projection.
Lookup(c) ==
    /\ At(c, "lookup")
    /\ \/ /\ ~Occupied(rebuilt[c], attempt[c])
          /\ Goto(c, "persist")
          /\ UNCHANGED <<wanted, rebuilt, reply>>
       \/ \E r \in runs :
            /\ r.snapshot = rebuilt[c] /\ r.attempt = attempt[c]
            /\ Settle(c, "existing", r)
    /\ UNCHANGED <<proposed, approved, retired, runs, attempt>>

\* Mutant: the failed run is appended beside the run that came first.
PersistBeside(c) ==
    /\ At(c, "persist")
    /\ runs' = runs \cup {RunOf(rebuilt[c], attempt[c], "failed")}
    /\ Settle(c, "inserted", RunOf(rebuilt[c], attempt[c], "failed"))
    /\ UNCHANGED <<proposed, approved, retired, attempt>>

\* INSERT .. ON CONFLICT DO NOTHING of the failed run.  The answer does not
\* depend on whether a row was written.
Persist(c) ==
    /\ At(c, "persist")
    /\ runs' = IF Occupied(rebuilt[c], attempt[c])
               THEN runs
               ELSE runs \cup {RunOf(rebuilt[c], attempt[c], "failed")}
    /\ \/ Settle(c, "inserted", RunOf(rebuilt[c], attempt[c], "failed"))
       \/ Settle(c, "error", NoRun)
    /\ UNCHANGED <<proposed, approved, retired, attempt>>

\* A query of the catch block fails, or the process dies at the await.
Abandon(c) ==
    /\ pc[c] \in {"rebuild", "lookup", "persist"}
    /\ Settle(c, "error", NoRun)
    /\ UNCHANGED <<proposed, approved, retired, runs, attempt>>

Session(c) ==
    \/ AttemptFindsRun(c)
    \/ \E q \in Qualities : AttemptSucceeds(c, q)
    \/ AttemptFails(c)
    \/ Rebuild(c)
    \/ Lookup(c)
    \/ Persist(c)
    \/ Abandon(c)

Next ==
    \/ Lifecycle /\ UNCHANGED sessionVars
    \/ \E c \in Sessions :
        \/ \E n \in Attempts, s \in Snapshots \cup {NoSnapshot} : Request(c, n, s)
        \/ Session(c)

Spec == Init /\ [][Next]_vars

-----------------------------------------------------------------------------
(* What a catch block works with was an eligible, buildable projection:    *)
(* the strengthening that carries the refinement through the awaits.       *)
RebuiltIsGrounded ==
    \A c \in Sessions :
        /\ rebuilt[c] # NoSnapshot =>
            Buildable(rebuilt[c]) /\ rebuilt[c] \subseteq approved
        /\ pc[c] \in {"lookup", "persist"} => rebuilt[c] # NoSnapshot

(* An operator told that a run succeeded, or that a run already exists,    *)
(* finds exactly that run in the database, however many other sessions     *)
(* were recording outcomes for the same attempt.                           *)
SuccessRepliesAreStored ==
    \A c \in Sessions :
        LET answered == reply[c].run IN
        answered # NoRun =>
            \/ answered \in runs
            \/ reply[c].status = "inserted" /\ answered.outcome = "failed"

(* A recorded outcome never changes: no later attempt, retry or failure    *)
(* record replaces the run that first occupied a natural identity.         *)
OutcomesArePermanent == [][runs \subseteq runs']_vars

(* Ingestion implements the ledger: whatever the interleaving, the tables  *)
(* only take the steps of CorpusLedger.                                    *)
ImplementsLedger == LedgerSpec

=============================================================================
