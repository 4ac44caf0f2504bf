-------------------------- MODULE MigrationRunner ---------------------------
(***************************************************************************)
(* bootstrapPhase2DatabaseV1 with applyContentHashedMigrations.  A         *)
(* bootstrap is a sequence of autocommitted statements (roles, login,      *)
(* membership, ledger table), one read of the ledger, one transaction per  *)
(* missing migration and one grants script.  Deployments may carry         *)
(* different migration sequences; several run against one database, any of *)
(* them may lose its connection at any await, and the operator runs it     *)
(* again.                                                                  *)
(***************************************************************************)
EXTENDS Sequences, Integers

CONSTANTS
    Deployments, \* images that bootstrap the database
    Migrations,  \* content-hashed migrations, a name and its content
    Carries,     \* Carries[d]: the validated sequence of a deployment
    NoLogin,     \* the application role has no password yet
    MaxFaults    \* bound: connections lost

ASSUME MigrationAssumption ==
    /\ Deployments # {}
    /\ Carries \in [Deployments -> Seq(Migrations)]
    /\ \A d \in Deployments : Carries[d] # <<>>
    /\ NoLogin \notin Deployments
    /\ MaxFaults \in Nat

VARIABLES
    roles,     \* pa_migrator and pa_app exist
    login,     \* deployment whose password the application role has
    member,    \* the application role is a member of pa_app
    ledger,    \* rows of pa_schema_migrations
    schema,    \* migrations whose body is in the database
    granted,   \* migrations whose tables pa_app may use
    pc,        \* where a deployment's bootstrap is
    nextOrder, \* order of the next migration it has to apply
    completed, \* deployments that bootstrapped successfully at least once
    faults     \* connections lost so far

vars == <<roles, login, member, ledger, schema, granted, pc, nextOrder,
          completed, faults>>

-----------------------------------------------------------------------------
Rows == [order : Nat \ {0}, migration : Migrations]

Places == {"idle", "roles", "login", "member", "apply", "grant", "failed"}

TypeOK ==
    /\ roles \in BOOLEAN /\ member \in BOOLEAN
    /\ login \in Deployments \cup {NoLogin}
    /\ ledger \subseteq Rows
    /\ schema \subseteq Migrations
    /\ granted \subseteq Migrations
    /\ pc \in [Deployments -> Places]
    /\ nextOrder \in [Deployments -> Nat]
    /\ completed \subseteq Deployments
    /\ faults \in 0..MaxFaults

Init ==
    /\ roles = FALSE /\ login = NoLogin /\ member = FALSE
    /\ ledger = {} /\ schema = {} /\ granted = {}
    /\ pc = [d \in Deployments |-> "idle"]
    /\ nextOrder = [d \in Deployments |-> 0]
    /\ completed = {}
    /\ faults = 0

Orders == {row.order : row \in ledger}

Row(d, n) == [order |-> n, migration |-> Carries[d][n]]

\* The first k migrations of a deployment at the orders 1..k.
Prefix(d, k) == {Row(d, n) : n \in 1..k}

\* What the loop over the stored rows accepts, read by position.
Matches(d) == \E k \in 0..Len(Carries[d]) : ledger = Prefix(d, k)

Goto(d, place) == pc' = [pc EXCEPT ![d] = place]

-----------------------------------------------------------------------------
\* bootstrap-roles-v1.sql, one implicit transaction.
CreateRoles(d) ==
    /\ pc[d] = "idle"
    /\ roles' = TRUE
    /\ Goto(d, "roles")
    /\ UNCHANGED <<login, member, ledger, schema, granted, nextOrder, completed, faults>>

\* CREATE ROLE or ALTER ROLE: the last bootstrap sets the password.
SetLogin(d) ==
    /\ pc[d] = "roles"
    /\ login' = d
    /\ Goto(d, "login")
    /\ UNCHANGED <<roles, member, ledger, schema, granted, nextOrder, completed, faults>>

GrantMembership(d) ==
    /\ pc[d] = "login"
    /\ member' = TRUE
    /\ Goto(d, "member")
    /\ UNCHANGED <<roles, login, ledger, schema, granted, nextOrder, completed, faults>>

\* Mutant: a shorter ledger than the sequence is accepted unread.
ReadLedgerUncompared(d) ==
    /\ pc[d] = "member"
    /\ \E k \in 0..Len(Carries[d]) :
        /\ Orders = 1..k
        /\ nextOrder' = [nextOrder EXCEPT ![d] = k + 1]
    /\ Goto(d, "apply")
    /\ UNCHANGED <<roles, login, member, ledger, schema, granted, completed, faults>>

\* The one SELECT of the ledger and the comparison of every stored row, which
\* precedes the first missing migration.
ReadLedger(d) ==
    /\ pc[d] = "member"
    /\ \E k \in 0..Len(Carries[d]) :
        /\ ledger = Prefix(d, k)
        /\ nextOrder' = [nextOrder EXCEPT ![d] = k + 1]
    /\ Goto(d, "apply")
    /\ UNCHANGED <<roles, login, member, ledger, schema, granted, completed, faults>>

\* "unknown applied migration" or "content hash drift".
Refuse(d) ==
    /\ pc[d] = "member"
    /\ ~Matches(d)
    /\ Goto(d, "failed")
    /\ UNCHANGED <<roles, login, member, ledger, schema, granted, nextOrder, completed, faults>>

\* BEGIN, body, INSERT under PRIMARY KEY (migration_order), COMMIT.  The
\* answer to COMMIT may be lost.
Apply(d) ==
    LET n == nextOrder[d] IN
    /\ pc[d] = "apply"
    /\ n =< Len(Carries[d])
    /\ n \notin Orders
    /\ ledger' = ledger \cup {Row(d, n)}
    /\ schema' = schema \cup {Carries[d][n]}
    /\ \/ /\ nextOrder' = [nextOrder EXCEPT ![d] = n + 1]
          /\ UNCHANGED <<pc, faults>>
       \/ /\ faults < MaxFaults
          /\ faults' = faults + 1
          /\ Goto(d, "failed")
          /\ UNCHANGED nextOrder
    /\ UNCHANGED <<roles, login, member, granted, completed>>

\* Mutant: the body of a migration is kept when its ledger row is refused.
ApplyConflictsHalfway(d) ==
    /\ pc[d] = "apply"
    /\ nextOrder[d] =< Len(Carries[d])
    /\ nextOrder[d] \in Orders
    /\ schema' = schema \cup {Carries[d][nextOrder[d]]}
    /\ Goto(d, "failed")
    /\ UNCHANGED <<roles, login, member, ledger, granted, nextOrder, completed, faults>>

\* Another bootstrap applied a migration of this order first: the body or the
\* ledger row is refused and the transaction rolls back.
ApplyConflicts(d) ==
    /\ pc[d] = "apply"
    /\ nextOrder[d] =< Len(Carries[d])
    /\ nextOrder[d] \in Orders
    /\ Goto(d, "failed")
    /\ UNCHANGED <<roles, login, member, ledger, schema, granted, nextOrder, completed, faults>>

\* Mutant: the grants are not run again when every migration existed.
ResetRoleAndFinish(d) ==
    /\ pc[d] = "apply"
    /\ nextOrder[d] > Len(Carries[d])
    /\ completed' = completed \cup {d}
    /\ Goto(d, "idle")
    /\ UNCHANGED <<roles, login, member, ledger, schema, granted, nextOrder, faults>>

\* Every migration is there: RESET ROLE and the grants script follow.
ResetRole(d) ==
    /\ pc[d] = "apply"
    /\ nextOrder[d] > Len(Carries[d])
    /\ Goto(d, "grant")
    /\ UNCHANGED <<roles, login, member, ledger, schema, granted, nextOrder, completed, faults>>

Carried(d) == {Carries[d][n] : n \in 1..Len(Carries[d])}

\* application-grants-v1.sql, one implicit transaction over the tables of
\* every migration this deployment carries.
GrantTables(d) ==
    /\ pc[d] = "grant"
    /\ Carried(d) \subseteq schema
    /\ granted' = granted \cup Carried(d)
    /\ completed' = completed \cup {d}
    /\ Goto(d, "idle")
    /\ UNCHANGED <<roles, login, member, ledger, schema, nextOrder, faults>>

\* A dropped connection, or a statement that loses a race between roles.
Break(d) ==
    /\ pc[d] \notin {"idle", "failed"}
    /\ faults < MaxFaults
    /\ faults' = faults + 1
    /\ Goto(d, "failed")
    /\ UNCHANGED <<roles, login, member, ledger, schema, granted, nextOrder, completed>>

\* Mutant: a bootstrap that failed halfway resumes where it believes to be.
RestartHalfway(d) ==
    /\ pc[d] = "failed"
    /\ Goto(d, IF nextOrder[d] = 0 THEN "idle" ELSE "apply")
    /\ UNCHANGED <<roles, login, member, ledger, schema, granted, nextOrder, completed, faults>>

\* The operator runs the bootstrap again, from the start.
Restart(d) ==
    /\ pc[d] = "failed"
    /\ Goto(d, "idle")
    /\ UNCHANGED <<roles, login, member, ledger, schema, granted, nextOrder, completed, faults>>

Step(d) ==
    \/ CreateRoles(d)
    \/ SetLogin(d)
    \/ GrantMembership(d)
    \/ ReadLedger(d)
    \/ Refuse(d)
    \/ Apply(d)
    \/ ApplyConflicts(d)
    \/ ResetRole(d)
    \/ GrantTables(d)
    \/ Restart(d)

Next == \E d \in Deployments : Step(d) \/ Break(d)

Spec == Init /\ [][Next]_vars

\* Statements end, and an operator whose bootstrap failed runs it again.
FairSpec == Spec /\ \A d \in Deployments : WF_vars(Step(d))

-----------------------------------------------------------------------------
(* The ledger and the tables tell the same story: whatever raced, crashed  *)
(* or lost its COMMIT answer, a migration's body is in the database        *)
(* exactly when its row is, so a rerun neither repeats nor skips one.      *)
SchemaIsLedger == schema = {row.migration : row \in ledger}

(* A deployment that bootstrapped once finds its whole sequence at the     *)
(* orders it expects, with roles, membership and privileges, whatever      *)
(* other deployments do afterwards.                                        *)
CompletedIsReady ==
    \A d \in completed :
        /\ roles /\ member /\ login # NoLogin
        /\ Prefix(d, Len(Carries[d])) \subseteq ledger
        /\ Carried(d) \subseteq granted

AppliedHistory == [n \in Orders |-> (CHOOSE row \in ledger : row.order = n).migration]

History == INSTANCE SchemaHistory WITH
    history <- AppliedHistory, Lines <- {Carries[d] : d \in Deployments}

(* Bootstraps of different deployments that read one ledger and race each  *)
(* other still leave the beginning of one deployment's sequence, never a   *)
(* mixture and never a gap: the implementation of SchemaHistory.           *)
ImplementsHistory == History!HistorySpec

\* Some other deployment's migration stands where this one's belongs.
Overtaken(d) ==
    \E row \in ledger : row.order > Len(Carries[d]) \/ row # Row(d, row.order)

(* After the last lost connection every deployment completes its bootstrap *)
(* unless the database went another way than its sequence.                 *)
BootstrapsComplete == \A d \in Deployments : <>(d \in completed \/ Overtaken(d))
=============================================================================
