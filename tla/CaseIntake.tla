----------------------------- MODULE CaseIntake ------------------------------
(* How a Case gets into the store: the seed-synthetic command of case-cli,  *)
(* the chart files it leaves (chart-renderer), the routes of case-api it    *)
(* posts to and the transactions of case-store behind them.                 *)
(*                                                                         *)
(* A command writes two files, then makes four requests, each when the one  *)
(* before is answered.  The routes take any authorised bundle, so a fixture *)
(* is one of several.  A command or the server may stop between any two     *)
(* steps; what it leaves is a half-written file, or a request still served. *)
EXTENDS CaseCharts

CONSTANTS
    Clients,     \* commands running beside each other
    Fixtures,    \* what a command may be given to seed
    Authorized,  \* bundles the deployment's allowlist names
    MaxCommands, \* bound: commands ever started
    MaxStops,    \* bound: commands and servers that stop half-way
    Null         \* no client any more; no refusal

ASSUME IntakeAssumption ==
    /\ Null \notin Clients
    /\ Null \notin {"parent", "ambiguous", "conflict"}
    /\ MaxCommands \in Nat /\ MaxStops \in Nat

VARIABLES
    files,     \* the server's chart files, by picture: "half" or "whole"
    cases,     \* pa_policy_cases
    inputs,    \* pa_policy_inputs
    metadata,  \* pa_chart_artifact_metadata
    bindings,  \* pa_case_policy_inputs
    decisions, \* pa_brooks_decisions
    reviews,   \* pa_calvin_reviews
    requests,  \* requests the server is serving
    client,    \* where each command is
    commands, stops    \* counters for the two bounds

tables == <<cases, inputs, metadata, bindings, decisions, reviews>>
vars == <<files, tables, requests, client, commands, stops>>

Idle == [step |-> "idle", busy |-> FALSE, job |-> Null, refusal |-> Null, report |-> {}]

Init ==
    /\ files = << >>
    /\ cases = {} /\ inputs = {} /\ metadata = {}
    /\ bindings = {} /\ decisions = {} /\ reviews = {}
    /\ requests = {}
    /\ client = [c \in Clients |-> Idle]
    /\ commands = 0 /\ stops = 0

Ended == {"idle", "done", "failed"}

(* What a command makes of its fixture before it touches anything.  The     *)
(* charts are rendered from the Case `drawn`, which ought to be the Case.   *)
BundleOf ==
    [f \in Fixtures |-> CaseBundle(f.case, ChartBundle(f.drawn), f.doctrine)]
DecisionOf ==
    [f \in Fixtures |->
        [id |-> f.decisionId, caseId |-> f.case.id, input |-> BundleOf[f].input,
         verdict |-> f.verdict]]
ReviewOf ==
    [f \in Fixtures |->
        [id |-> f.reviewId, decision |-> DecisionOf[f],
         disposition |-> f.disposition, verdict |-> f.reviewVerdict]]

FixtureHolds(f) ==
    /\ ChartBundleHolds(ChartBundle(f.drawn))
    /\ BundleHolds(BundleOf[f])
    /\ ReviewHolds(ReviewOf[f], DecisionOf[f])

PictureOf(f, panel) == BundleOf[f].metadata[panel].picture

NextStep ==
    [step \in {"context", "detail", "bundle", "decision", "review", "audit"} |->
        CASE step = "context" -> "detail"
          [] step = "detail" -> "bundle"
          [] step = "bundle" -> "decision"
          [] step = "decision" -> "review"
          [] step = "review" -> "audit"
          [] step = "audit" -> "done"]

Advance(c) == client' = [client EXCEPT ![c].step = NextStep[@], ![c].busy = FALSE]
Fail(c, why) ==
    client' = [client EXCEPT ![c].step = "failed", ![c].busy = FALSE, ![c].refusal = why]

-----------------------------------------------------------------------------
(* The command. *)

(* A command is given an artifact root of its own: files it writes to       *)
(* another than the server's are left out, and it starts with its requests. *)
Seed(c, f, first) ==
    /\ commands < MaxCommands
    /\ client[c].step \in Ended
    /\ FixtureHolds(f)
    /\ client' = [client EXCEPT ![c] = [Idle EXCEPT !.step = first, !.job = f]]
    /\ commands' = commands + 1
    /\ UNCHANGED <<files, tables, requests, stops>>

(* persistArtifact: created exclusively, then written; a file that is       *)
(* already there must have the right bytes by now.                          *)
PersistChart(c) ==
    /\ client[c].step \in PanelNames
    /\ LET name == PictureOf(client[c].job, client[c].step)
       IN  \/ /\ client[c].busy
              /\ files' = [files EXCEPT ![name] = "whole"]
              /\ Advance(c)
           \/ /\ ~client[c].busy /\ name \notin DOMAIN files
              /\ files' = [p \in DOMAIN files \cup {name} |->
                            IF p = name THEN "half" ELSE files[p]]
              /\ client' = [client EXCEPT ![c].busy = TRUE]
           \/ /\ ~client[c].busy /\ name \in DOMAIN files
              /\ IF files[name] = "whole" THEN Advance(c) ELSE Fail(c, "file")
              /\ UNCHANGED files
    /\ UNCHANGED <<tables, requests, commands, stops>>

Send(c) ==
    /\ client[c].step \in {"bundle", "decision", "review", "audit"}
    /\ ~client[c].busy
    /\ requests' = requests \cup
        {[client |-> c, kind |-> client[c].step, job |-> client[c].job, checked |-> FALSE]}
    /\ client' = [client EXCEPT ![c].busy = TRUE]
    /\ UNCHANGED <<files, tables, commands, stops>>

(* Killed, or its connection is lost: a request it made is served on. *)
StopCommand(c) ==
    /\ stops < MaxStops
    /\ client[c].step \notin Ended
    /\ Fail(c, "stopped")
    /\ requests' = {IF r.client = c THEN [r EXCEPT !.client = Null] ELSE r : r \in requests}
    /\ stops' = stops + 1
    /\ UNCHANGED <<files, tables, commands>>

StopServer ==
    /\ stops < MaxStops
    /\ requests # {}
    /\ requests' = {}
    /\ client' = [c \in Clients |->
        IF \E r \in requests : r.client = c
        THEN [client[c] EXCEPT !.step = "failed", !.busy = FALSE, !.refusal = "stopped"]
        ELSE client[c]]
    /\ stops' = stops + 1
    /\ UNCHANGED <<files, tables, commands>>

-----------------------------------------------------------------------------
(* The server.  A request is answered to its command, if it still waits. *)

Granted(r) ==
    /\ requests' = requests \ {r}
    /\ IF r.client = Null THEN UNCHANGED client ELSE Advance(r.client)
Refused(r, why) ==
    /\ requests' = requests \ {r}
    /\ IF r.client = Null THEN UNCHANGED client ELSE Fail(r.client, why)
    /\ UNCHANGED tables

(* A mutant: a chart file needs only to be there. *)
ChartFilesExist(bundle) ==
    \A panel \in PanelNames :
        bundle.metadata[panel].picture \in DOMAIN files

ChartFilesHold(bundle) ==
    \A panel \in PanelNames :
        LET name == bundle.metadata[panel].picture
        IN  name \in DOMAIN files /\ files[name] = "whole"

(* Before the transaction: the allowlist, then the bytes of both files. *)
CheckBundle(r) ==
    LET bundle == BundleOf[r.job]
    IN  /\ r.kind = "bundle" /\ ~r.checked
        /\ \/ /\ bundle \in Authorized /\ ChartFilesHold(bundle)
              /\ requests' = (requests \ {r}) \cup {[r EXCEPT !.checked = TRUE]}
              /\ UNCHANGED <<tables, client>>
           \/ bundle \notin Authorized /\ Refused(r, "forbidden")
           \/ bundle \in Authorized /\ ~ChartFilesHold(bundle) /\ Refused(r, "chart")
        /\ UNCHANGED <<files, commands, stops>>

(* A mutant: whatever has an identity of the row counts as the row. *)
InsertUncompared(table, row, clashes) == IF clashes = {} THEN "inserted" ELSE "existing"

(* A mutant: what is stored already is a conflict. *)
InsertOnce(table, row, clashes) == IF clashes = {} THEN "inserted" ELSE "conflict"

(* insertImmutableRecord; `clashes` are the rows that share an identity     *)
(* with the new one, itself among them when it is there.                    *)
InsertImmutable(table, row, clashes) ==
    CASE clashes = {} -> "inserted"
      [] clashes = {row} -> "existing"
      [] OTHER -> "conflict"

LastSequence(case) == case.bars[Len(case.bars)].sequence
SharesIdentity(k, case) ==
    \/ k.id = case.id
    \/ k.stream = case.stream /\ k.lastVisible = case.lastVisible
    \/ k.stream = case.stream /\ LastSequence(k) = LastSequence(case)
InsertCase(case) ==
    InsertImmutable(cases, case, {k \in cases : SharesIdentity(k, case)})
InsertMetadata(md) ==
    InsertImmutable(metadata, md,
        {n \in metadata : n.case = md.case /\ n.panel = md.panel /\ n.drawn = md.drawn})
BindingOf(bundle) ==
    [case |-> bundle.case, input |-> bundle.input, metadata |-> bundle.metadata]
\* A Case is bound once: its hash is unique beside the key of hash and input.
InsertBinding(bundle) ==
    InsertImmutable(bindings, BindingOf(bundle), {b \in bindings : b.case = bundle.case})

(* One transaction, five inserts; the first conflict undoes them all.  The  *)
(* identity of an input is its content, so it never conflicts.              *)
AppendBundle(r) ==
    LET bundle == BundleOf[r.job]
        conflict ==
            \/ InsertCase(bundle.case) = "conflict"
            \/ \E panel \in PanelNames :
                InsertMetadata(bundle.metadata[panel]) = "conflict"
            \/ InsertBinding(bundle) = "conflict"
        (* a row is written when no other holds one of its identities *)
        New(status, row) == IF status = "inserted" THEN {row} ELSE {}
    IN  /\ r.kind = "bundle" /\ r.checked
        /\ \/ conflict /\ Refused(r, "conflict")
           \/ /\ ~conflict
              /\ cases' = cases \cup New(InsertCase(bundle.case), bundle.case)
              /\ inputs' = inputs \cup {bundle.input}
              /\ metadata' = metadata \cup
                    UNION {New(InsertMetadata(bundle.metadata[panel]), bundle.metadata[panel]) :
                            panel \in PanelNames}
              /\ bindings' = bindings \cup New(InsertBinding(bundle), BindingOf(bundle))
              /\ UNCHANGED <<decisions, reviews>>
              /\ Granted(r)
        /\ UNCHANGED <<files, commands, stops>>

Parents(d) == {b \in bindings : b.case.id = d.caseId /\ b.input = d.input}
BundlesOf(case) == {b \in bindings : b.case = case}

AppendDecision(r) ==
    LET d == DecisionOf[r.job]
        status == InsertImmutable(decisions, d,
                    {e \in decisions : e.id = d.id \/ (e.caseId = d.caseId /\ e.input = d.input)})
        why == IF Parents(d) = {} THEN "parent" ELSE status
    IN  /\ r.kind = "decision"
        /\ \/ why \in {"parent", "conflict"} /\ Refused(r, why)
           \/ /\ why \in {"inserted", "existing"}
              /\ decisions' = IF status = "inserted" THEN decisions \cup {d} ELSE decisions
              /\ UNCHANGED <<cases, inputs, metadata, bindings, reviews>>
              /\ Granted(r)
        /\ UNCHANGED <<files, commands, stops>>

(* The decision's bundle is found by its Case alone, which must have one.   *)
AppendReview(r) ==
    LET v == ReviewOf[r.job]
        status == InsertImmutable(reviews, v,
                    {w \in reviews : w.id = v.id \/ w.decision = v.decision})
        why == CASE v.decision \notin decisions -> "parent"
                 [] Cardinality(BundlesOf(r.job.case)) # 1 -> "ambiguous"
                 [] OTHER -> status
    IN  /\ r.kind = "review"
        /\ \/ why \in {"parent", "ambiguous", "conflict"} /\ Refused(r, why)
           \/ /\ why \in {"inserted", "existing"}
              /\ reviews' = IF status = "inserted" THEN reviews \cup {v} ELSE reviews
              /\ UNCHANGED <<cases, inputs, metadata, bindings, decisions>>
              /\ Granted(r)
        /\ UNCHANGED <<files, commands, stops>>

(* getAudit, and the conflict kinds the command prints from its answer. *)
Audit(case) ==
    LET bundle == CHOOSE b \in BundlesOf(case) : TRUE
        decided == {d \in decisions : d.caseId = case.id /\ d.input = bundle.input}
        reviewed == {v \in reviews : v.decision \in decided}
    IN  [bundle |-> bundle, decisions |-> decided, reviews |-> reviewed,
         kinds |-> UNION {Conflict(v.decision, v) : v \in reviewed}]

ReadAudit(r) ==
    /\ r.kind = "audit"
    /\ \/ /\ Cardinality(BundlesOf(r.job.case)) # 1
          /\ Refused(r, IF BundlesOf(r.job.case) = {} THEN "parent" ELSE "ambiguous")
       \/ /\ Cardinality(BundlesOf(r.job.case)) = 1
          /\ requests' = requests \ {r}
          /\ IF r.client = Null
             THEN UNCHANGED client
             ELSE client' = [client EXCEPT ![r.client].step = "done",
                                           ![r.client].busy = FALSE,
                                           ![r.client].report = {Audit(r.job.case)}]
          /\ UNCHANGED tables
    /\ UNCHANGED <<files, commands, stops>>

(* A transaction that lost three times to a concurrent one. *)
Exhaust(r) ==
    /\ r.kind # "bundle" \/ r.checked
    /\ \E other \in requests \ {r} : other.kind # "bundle" \/ other.checked
    /\ Refused(r, "contended")
    /\ UNCHANGED <<files, commands, stops>>

Serve(r) ==
    CheckBundle(r) \/ AppendBundle(r) \/ AppendDecision(r) \/ AppendReview(r)
    \/ ReadAudit(r) \/ Exhaust(r)

Next ==
    \/ \E c \in Clients :
        (\E f \in Fixtures, first \in {"context", "bundle"} : Seed(c, f, first)) \/ PersistChart(c) \/ Send(c) \/ StopCommand(c)
    \/ StopServer
    \/ \E r \in requests : Serve(r)

Spec == Init /\ [][Next]_vars

-----------------------------------------------------------------------------
(* What the store binds can be served: every chart of a stored bundle is    *)
(* one of its own Case, shows what the input says it shows, and its file    *)
(* holds all its bytes, whichever commands and servers stopped on the way.  *)
StoredChartsAreServable ==
    \A b \in bindings : \A panel \in PanelNames :
        LET md == b.metadata[panel]
        IN  /\ md \in metadata /\ md.case = b.case /\ b.case \in cases
            /\ md.picture = ChartBundle(b.case)[panel].picture
            /\ md.picture \in DOMAIN files
            /\ files[md.picture] = "whole"

(* A command that ends well reported the audit of its own fixture: its      *)
(* bundle, its one decision, its one review and how they differ; and all    *)
(* of it is still stored.                                                   *)
ReportsAreTrue ==
    \A c \in Clients : client[c].step = "done" =>
        LET f == client[c].job
        IN  /\ client[c].report =
                 {[bundle |-> BindingOf(BundleOf[f]), decisions |-> {DecisionOf[f]},
                   reviews |-> {ReviewOf[f]},
                   kinds |-> Conflict(DecisionOf[f], ReviewOf[f])]}
            /\ BindingOf(BundleOf[f]) \in bindings
            /\ DecisionOf[f] \in decisions /\ ReviewOf[f] \in reviews

(* Running a command again, or two at once, is harmless: it is refused for  *)
(* a conflict only where other content holds an identity of its fixture (a  *)
(* Case, the Case's one input, a decision, a review), and never for want of *)
(* a parent it was told is stored, nor because its parent is ambiguous.     *)
RefusalsAreExplained ==
    \A c \in Clients :
        LET f == client[c].job
            why == client[c].refusal
        IN  /\ why \notin {"parent", "ambiguous"}
            /\ why = "conflict" =>
                \/ \E k \in cases : k # f.case /\ SharesIdentity(k, f.case)
                \/ \E b \in bindings : b.case = f.case /\ b.input # BundleOf[f].input
                \/ \E d \in decisions :
                    /\ d # DecisionOf[f]
                    /\ \/ d.id = f.decisionId
                       \/ d.caseId = f.case.id /\ d.input = DecisionOf[f].input
                \/ \E v \in reviews :
                    /\ v # ReviewOf[f]
                    /\ v.id = f.reviewId \/ v.decision = DecisionOf[f]
=============================================================================
