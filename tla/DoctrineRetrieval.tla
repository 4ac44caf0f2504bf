------------------------- MODULE DoctrineRetrieval --------------------------
(***************************************************************************)
(* queryDoctrine over the corpus authority.  A request runs one            *)
(* transaction that resolves the current activation, executes the lexical  *)
(* query and appends query and evidence together.  When that throws, a     *)
(* second transaction resolves the authority again and appends failed      *)
(* evidence; when that throws too the first error is answered.             *)
(* Activations, rollbacks and retirements move on between the two.         *)
(***************************************************************************)
EXTENDS CorpusActivation

CONSTANTS
    Requests,     \* query requests, each executed once
    Questions,    \* (normalized query, limit) pairs
    LexicalMatch, \* units whose document vector matches a question
    MaxRepeat,    \* bound: largest repeatIndex a command may name
    Unnamed,      \* a command that names no repeatIndex
    NoCommand     \* command of a request not yet submitted

ASSUME RetrievalAssumption ==
    /\ LexicalMatch \in [Questions -> SUBSET Units]
    /\ MaxRepeat \in Nat
    /\ Unnamed \notin Nat

VARIABLES
    phase,    \* where the request is in query()
    command,  \* its question, repeatIndex and named activation
    answer,   \* status answered to the caller
    evidence  \* rows of the query and evidence tables, one per pair

retrievalVars == <<phase, command, answer, evidence>>
vars == <<proposed, approved, retired, runs, activations, lastSequence, inFlight,
          phase, command, answer, evidence>>

-----------------------------------------------------------------------------
\* "names" is the activation the command insists on, 0 for current resolution.
Commands == [question : Questions,
             repeat : 0..MaxRepeat \cup {Unnamed},
             names : 0..MaxSequence]

Failures == {"CORPUS_RETIRED", "ACTIVATION_NOT_ELIGIBLE", "RETRIEVAL_FAILED"}

Statuses == {"matched", "no_match"} \cup Failures

\* A failed status stands for status "failed" with that error code.
Evidence == [request : Requests, activation : 1..MaxSequence,
             snapshot : Snapshots, question : Questions, repeat : Nat,
             status : Statuses, results : SUBSET Units]

InitRetrieval ==
    /\ Init
    /\ phase = [r \in Requests |-> "new"]
    /\ command = [r \in Requests |-> NoCommand]
    /\ answer = [r \in Requests |-> "none"]
    /\ evidence = {}

-----------------------------------------------------------------------------
Names(r, a) == command[r].names \in {0, a.seq}

\* Rows sharing a question over the snapshot of an activation.
Repeats(r, a) ==
    {e \in evidence : e.snapshot = a.run.snapshot /\ e.question = command[r].question}

\* buildQueryRecord: the named repeatIndex, or max(repeat_index) + 1.
RepeatIs(r, a, n) ==
    IF command[r].repeat # Unnamed
    THEN n = command[r].repeat
    ELSE /\ \A e \in Repeats(r, a) : e.repeat < n
         /\ n = 0 \/ \E e \in Repeats(r, a) : n = e.repeat + 1

\* insertQueryAndEvidence under the unique repeat identity.
Record(r, a, n, status, results) ==
    /\ \A e \in Repeats(r, a) : e.repeat # n
    /\ evidence' = evidence \cup
        {[request |-> r, activation |-> a.seq, snapshot |-> a.run.snapshot,
          question |-> command[r].question, repeat |-> n,
          status |-> status, results |-> results]}

Reply(r, status) ==
    /\ phase' = [phase EXCEPT ![r] = "answered"]
    /\ answer' = [answer EXCEPT ![r] = status]

Throw(r, cause) ==
    /\ phase' = [phase EXCEPT ![r] = cause]
    /\ UNCHANGED answer

Retired(a) == a.run.snapshot \cap retired # {}

\* Mutant: documents of a retired activation still match.
HitsOfRetired(r, a) == LexicalMatch[command[r].question] \cap a.run.snapshot

Hits(r, a) == IF Retired(a) THEN {} ELSE LexicalMatch[command[r].question] \cap a.run.snapshot

StatusOf(r, a) ==
    IF Retired(a) THEN "CORPUS_RETIRED"
    ELSE IF Hits(r, a) = {} THEN "no_match" ELSE "matched"

-----------------------------------------------------------------------------
Submit(r, c) ==
    /\ phase[r] = "new"
    /\ command' = [command EXCEPT ![r] = c]
    /\ phase' = [phase EXCEPT ![r] = "execute"]
    /\ UNCHANGED <<answer, evidence>>

\* executeQueryTransaction commits; the answer to COMMIT may be lost, and
\* the driver's error then enters the catch block.
Execute(r) ==
    /\ phase[r] = "execute"
    /\ \E a \in activations, n \in 0..Cardinality(evidence) + MaxRepeat :
        /\ IsCurrent(a)
        /\ Names(r, a)
        /\ RepeatIs(r, a, n)
        /\ Record(r, a, n, StatusOf(r, a), Hits(r, a))
        /\ Reply(r, StatusOf(r, a)) \/ Throw(r, "broken")
    /\ UNCHANGED command

\* The command names an activation that is not the latest.
ExecuteMismatch(r) ==
    /\ phase[r] = "execute"
    /\ \E a \in activations : IsCurrent(a) /\ ~Names(r, a)
    /\ Throw(r, "mismatched")
    /\ UNCHANGED <<command, evidence>>

\* No activation yet, a taken repeatIndex, a third lost conflict, a dropped
\* connection.
ExecuteBreaks(r) ==
    /\ phase[r] = "execute"
    /\ Throw(r, "broken")
    /\ UNCHANGED <<command, evidence>>

\* persistFailedQuery binds the activation that is current now.
PersistFailure(r) ==
    /\ phase[r] \in {"mismatched", "broken"}
    /\ LET code == IF phase[r] = "mismatched"
                   THEN "ACTIVATION_NOT_ELIGIBLE" ELSE "RETRIEVAL_FAILED" IN
       \E a \in activations, n \in 0..Cardinality(evidence) + MaxRepeat :
        /\ IsCurrent(a)
        /\ RepeatIs(r, a, n)
        /\ Record(r, a, n, code, {})
        /\ Reply(r, code) \/ Reply(r, "error")
    /\ UNCHANGED command

\* Mutant: the bounded failure is answered although it was not stored.
PersistBreaksSilently(r) ==
    /\ phase[r] \in {"mismatched", "broken"}
    /\ Reply(r, "RETRIEVAL_FAILED")
    /\ UNCHANGED <<command, evidence>>

\* Mutant: without an activation the second transaction is awaited forever.
PersistBreaksOnceActivated(r) ==
    /\ phase[r] \in {"mismatched", "broken"}
    /\ activations # {}
    /\ Reply(r, "error")
    /\ UNCHANGED <<command, evidence>>

\* The second transaction fails as well: the first error is rethrown.
PersistBreaks(r) ==
    /\ phase[r] \in {"mismatched", "broken"}
    /\ Reply(r, "error")
    /\ UNCHANGED <<command, evidence>>

Handle(r) ==
    \/ Execute(r)
    \/ ExecuteMismatch(r)
    \/ ExecuteBreaks(r)
    \/ PersistFailure(r)
    \/ PersistBreaks(r)

NextRetrieval ==
    \/ Next /\ UNCHANGED retrievalVars
    \/ \E r \in Requests :
        /\ Handle(r) \/ \E c \in Commands : Submit(r, c)
        /\ UNCHANGED corpusVars

SpecRetrieval == InitRetrieval /\ [][NextRetrieval]_vars

\* The runner bounds its attempts, so a request whose connection or timer
\* fires keeps taking steps; nobody has to submit one.
FairRetrieval ==
    SpecRetrieval /\ \A r \in Requests : WF_vars(Handle(r) /\ UNCHANGED corpusVars)

-----------------------------------------------------------------------------
(* "No result may be returned unless its evidence record commits": every   *)
(* status answered to a caller, failed ones included, stands in a row of   *)
(* that request, and rows carry bounded statuses only, never a raw cause.  *)
AnswersAreAudited ==
    /\ evidence \subseteq Evidence
    /\ \A r \in Requests : answer[r] \in Statuses =>
        \E e \in evidence : e.request = r /\ e.status = answer[r]

(* Evidence always binds the activation that is latest when it commits,    *)
(* and while that activation is retired it carries no result.              *)
EvidenceBindsLatest ==
    [][\A e \in evidence' \ evidence :
        \E a \in activations :
            /\ IsCurrent(a) /\ a.seq = e.activation
            /\ e.snapshot = a.run.snapshot
            /\ e.results \subseteq a.run.snapshot
            /\ Retired(a) => e.results = {}]_vars

(* Every submitted request is answered, whatever the authority does.       *)
RequestsAreAnswered ==
    \A r \in Requests : phase[r] = "execute" ~> phase[r] = "answered"

=============================================================================
