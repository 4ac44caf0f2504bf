--------------------------- MODULE AuthorityLocks ---------------------------
(***************************************************************************)
(* The table locks of the two authorities, and the snapshot a SERIALIZABLE *)
(* transaction has taken before it waits for one.                          *)
(*                                                                         *)
(* assemble reads the Case first and then locks the Doctrine log; prepare  *)
(* locks the package log and then the Doctrine log; a retirement locks the *)
(* Doctrine log in its trigger.  An activation or a rollback takes the     *)
(* insert's own lock first and upgrades it in its trigger, so two of them  *)
(* may wait for each other until the server aborts one.  PostgreSQL fixes  *)
(* the snapshot with the first statement, before any of these waits.       *)
(***************************************************************************)
EXTENDS Integers

CONSTANTS
    Transactions, \* one client request each, retried by the runner
    Kind,         \* what each of them does
    MaxAttempts   \* attempts of runPgTransaction (3 in the code)

\* activateCorpus stands for an activation and for a rollback.
Kinds == {"assemble", "prepare", "retire", "activateCorpus", "activatePackage"}

ASSUME LocksAssumption ==
    /\ Kind \in [Transactions -> Kinds]
    /\ MaxAttempts \in Nat \ {0}

VARIABLES
    pc,        \* where each transaction is
    attempt,   \* attempts begun, while the runner is in its loop
    seen,      \* changes of the Doctrine authority in its snapshot, 0 outside
    authority  \* activations and retirements committed

lockVars == <<pc, attempt, seen, authority>>

-----------------------------------------------------------------------------
Locations == {"idle", "begun", "package", "locked", "inserting", "inserted",
              "committed", "failed"}

Ended(t) == pc[t] \in {"committed", "failed"}

Reads(t) == Kind[t] \in {"assemble", "prepare"}

\* SHARE ROW EXCLUSIVE on the package log.
HoldsPackage(t) ==
    /\ Kind[t] \in {"prepare", "activatePackage"}
    /\ pc[t] \in {"package", "locked"}

\* SHARE ROW EXCLUSIVE on the Doctrine log.
HoldsCorpus(t) == pc[t] \in {"locked", "inserted"}

\* ROW EXCLUSIVE on the Doctrine log, which an insert takes before its
\* trigger runs and keeps until the transaction ends.
Inserting(t) == pc[t] \in {"inserting", "inserted"}

CorpusIsFreeFor(t) ==
    \A u \in Transactions \ {t} : ~HoldsCorpus(u) /\ ~Inserting(u)

LocksTypeOK ==
    /\ pc \in [Transactions -> Locations]
    /\ attempt \in [Transactions -> 0..MaxAttempts]
    /\ authority \in Nat
    /\ seen \in [Transactions -> 0..authority]

\* One activation has been committed.
LocksInit ==
    /\ pc = [t \in Transactions |-> "idle"]
    /\ attempt = [t \in Transactions |-> 0]
    /\ seen = [t \in Transactions |-> 0]
    /\ authority = 1

-----------------------------------------------------------------------------
Goto(t, where) == pc' = [pc EXCEPT ![t] = where]

Locks(t, where) == Goto(t, where) /\ UNCHANGED <<attempt, seen, authority>>

\* COMMIT or ROLLBACK: the locks and the snapshot are gone.
Leaves(t, where) ==
    /\ Goto(t, where)
    /\ seen' = [seen EXCEPT ![t] = 0]

\* runPgTransaction returns or throws, and its counter goes.
Returns(t, where) ==
    /\ Leaves(t, where)
    /\ attempt' = [attempt EXCEPT ![t] = 0]

\* BEGIN and the first statement, which fixes the snapshot.
Begin(t) ==
    /\ pc[t] = "idle"
    /\ attempt[t] < MaxAttempts
    /\ Goto(t, "begun")
    /\ attempt' = [attempt EXCEPT ![t] = @ + 1]
    /\ seen' = [seen EXCEPT ![t] = authority]
    /\ UNCHANGED authority

LockPackage(t) ==
    /\ pc[t] = "begun"
    /\ Kind[t] \in {"prepare", "activatePackage"}
    /\ \A u \in Transactions : ~HoldsPackage(u)
    /\ Locks(t, "package")

ReadyForCorpus(t) ==
    \/ Kind[t] \in {"assemble", "retire"} /\ pc[t] = "begun"
    \/ Kind[t] = "prepare" /\ pc[t] = "package"

\* pa_serialize_policy_assembly_authority, and the retirement's trigger.
LockCorpus(t) ==
    /\ ReadyForCorpus(t)
    /\ CorpusIsFreeFor(t)
    /\ Locks(t, "locked")

\* INSERT into the Doctrine log: its ROW EXCLUSIVE lock admits other inserts.
InsertActivation(t) ==
    /\ Kind[t] = "activateCorpus"
    /\ pc[t] = "begun"
    /\ \A u \in Transactions : ~HoldsCorpus(u)
    /\ Locks(t, "inserting")

\* Mutant: the trigger does not lock the log.
SerializeUnlocked(t) ==
    /\ pc[t] = "inserting"
    /\ Locks(t, "inserted")

\* The insert's trigger upgrades the lock, and waits for other inserters.
SerializeActivation(t) ==
    /\ pc[t] = "inserting"
    /\ CorpusIsFreeFor(t)
    /\ Locks(t, "inserted")

\* What it stores binds the authority as seen[t], which may be behind.
CommitReader(t) ==
    /\ Reads(t)
    /\ HoldsCorpus(t)
    /\ Returns(t, "committed")
    /\ UNCHANGED authority

\* The transaction of an activation, a rollback or a retirement.
CommitChange(t) ==
    /\ HoldsCorpus(t)
    /\ ~Reads(t)
    /\ Returns(t, "committed")
    /\ authority' = authority + 1

CommitPackage(t) ==
    /\ Kind[t] = "activatePackage"
    /\ pc[t] = "package"
    /\ Returns(t, "committed")
    /\ UNCHANGED authority

\* Mutant: the runner goes round its loop without counting the attempt.
RollBackUncounted(t) ==
    /\ ~Ended(t)
    /\ pc[t] # "idle"
    /\ Leaves(t, "idle")
    /\ attempt' = [attempt EXCEPT ![t] = @ - 1]
    /\ UNCHANGED authority

\* A serialization failure or any other error: ROLLBACK frees every lock
\* and the runner tries again, or gives the error to the caller.
RollBack(t) ==
    /\ ~Ended(t)
    /\ pc[t] # "idle"
    /\ \/ attempt[t] < MaxAttempts /\ Leaves(t, "idle") /\ UNCHANGED attempt
       \/ Returns(t, "failed")
    /\ UNCHANGED authority

\* Two inserters whose triggers wait for each other's insert.
Deadlocked(t) ==
    /\ pc[t] = "inserting"
    /\ \E u \in Transactions \ {t} : pc[u] = "inserting"

\* The server's deadlock detector ends one of them with 40P01.
BreakDeadlock(t) == Deadlocked(t) /\ RollBack(t)

Progress(t) ==
    \/ Begin(t)
    \/ LockPackage(t)
    \/ LockCorpus(t)
    \/ InsertActivation(t)
    \/ SerializeActivation(t)
    \/ CommitReader(t)
    \/ CommitChange(t)
    \/ CommitPackage(t)

AllEnded == \A t \in Transactions : Ended(t)

LocksNext ==
    \/ \E t \in Transactions : Progress(t) \/ RollBack(t)
    \/ AllEnded /\ UNCHANGED lockVars

LocksSpec == LocksInit /\ [][LocksNext]_lockVars

\* Lock queues are first come, first served and statements end; a deadlock
\* is found after deadlock_timeout.  No other abort is obliged to happen.
FairLocksSpec ==
    /\ LocksSpec
    /\ \A t \in Transactions : WF_lockVars(Progress(t))
    /\ WF_lockVars(\E t \in Transactions : BreakDeadlock(t))

-----------------------------------------------------------------------------
(* While a transaction holds the Doctrine lock, no activation, rollback or *)
(* retirement commits but its own: what it read and what it stores cannot  *)
(* part between its lock and its commit.                                   *)
LockedAuthorityStands ==
    [][\A t \in Transactions :
         HoldsCorpus(t) => authority' = authority \/ CommitChange(t)]_lockVars

(* Every request comes to an end, retries and the upgrade of two inserts   *)
(* notwithstanding: the detector breaks the waits of inserters for each    *)
(* other, and there is no other circle, or its members would wait for ever.*)
EveryRequestEnds == <>AllEnded

=============================================================================
