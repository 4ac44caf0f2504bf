----------------------------- MODULE CaseProofs -----------------------------
(* The store of Cases, for any fixtures, any number of commands and any     *)
(* number of stops: what a stored bundle serves, what a command is told     *)
(* when it ends well, and why it is refused.                                *)
(*                                                                          *)
(* A fixture fixes its rows, and two rows of one table that share what the  *)
(* store compares are equal or are refused.  Nothing stored is ever taken   *)
(* back, so what a command was told when a request was answered is still    *)
(* true when its next request is served, and what explained a refusal       *)
(* explains it for ever.                                                    *)
EXTENDS CaseIntake, FiniteSetTheorems, TLAPS

Valid == {f \in Fixtures : FixtureHolds(f)}

CaseRows == {f.case : f \in Valid}
ChartRows == {BundleOf[f].metadata[panel] : f \in Valid, panel \in PanelNames}
BoundRows == {BindingOf(BundleOf[f]) : f \in Valid}
DecisionRows == {DecisionOf[f] : f \in Valid}
ReviewRows == {ReviewOf[f] : f \in Valid}

Kinds == {"bundle", "decision", "review", "audit"}
Steps == PanelNames \cup Kinds \cup Ended
Refusals ==
    {Null, "stopped", "file", "forbidden", "chart", "conflict", "parent", "ambiguous",
     "contended"}

Reports ==
    [bundle : BoundRows, decisions : SUBSET DecisionRows, reviews : SUBSET ReviewRows,
     kinds : SUBSET {"whole_decision_disagreement", "clarification_required",
                     "reviewer_uncertain", "verdict_disagreement"}]

States ==
    [step : Steps, busy : BOOLEAN, job : Valid \cup {Null}, refusal : Refusals,
     report : SUBSET Reports]

RequestRows == [client : Clients \cup {Null}, kind : Kinds, job : Valid, checked : BOOLEAN]

TablesTypeOK ==
    /\ files \in [DOMAIN files -> {"half", "whole"}]
    /\ cases \subseteq CaseRows
    /\ metadata \subseteq ChartRows
    /\ bindings \subseteq BoundRows
    /\ decisions \subseteq DecisionRows
    /\ reviews \subseteq ReviewRows

(* One request at a time, and its command waits for it.                     *)
RequestsAreAwaited ==
    \A r \in requests : r.client # Null =>
        /\ client[r.client].busy
        /\ client[r.client].step = r.kind
        /\ client[r.client].job = r.job
        /\ \A q \in requests : q.client = r.client => q = r

(* What is stored by the time a request of some kind is made.               *)
StoredBefore(kind, f) ==
    /\ kind \in {"decision", "review", "audit"} => BindingOf(BundleOf[f]) \in bindings
    /\ kind \in {"review", "audit"} => DecisionOf[f] \in decisions
    /\ kind = "audit" => ReviewOf[f] \in reviews

RequestHolds(r) ==
    /\ StoredBefore(r.kind, r.job)
    /\ r.kind = "bundle" /\ r.checked => ChartFilesHold(BundleOf[r.job])

(* ReportsAreTrue and RefusalsAreExplained, of one command.                 *)
Reported(k) ==
    k.step = "done" =>
        /\ k.report =
             {[bundle |-> BindingOf(BundleOf[k.job]), decisions |-> {DecisionOf[k.job]},
               reviews |-> {ReviewOf[k.job]},
               kinds |-> Conflict(DecisionOf[k.job], ReviewOf[k.job])]}
        /\ BindingOf(BundleOf[k.job]) \in bindings
        /\ DecisionOf[k.job] \in decisions /\ ReviewOf[k.job] \in reviews

ConflictExplained(f) ==
    \/ \E k \in cases : k # f.case /\ SharesIdentity(k, f.case)
    \/ \E b \in bindings : b.case = f.case /\ b.input # BundleOf[f].input
    \/ \E d \in decisions :
        /\ d # DecisionOf[f]
        /\ \/ d.id = f.decisionId
           \/ d.caseId = f.case.id /\ d.input = DecisionOf[f].input
    \/ \E v \in reviews :
        /\ v # ReviewOf[f]
        /\ v.id = f.reviewId \/ v.decision = DecisionOf[f]

Explained(why, f) ==
    /\ why \notin {"parent", "ambiguous"}
    /\ why = "conflict" => ConflictExplained(f)

CommandHolds(k) ==
    /\ k.step # "idle" => k.job \in Valid
    /\ StoredBefore(k.step, k.job)
    /\ Reported(k)
    /\ Explained(k.refusal, k.job)

(* A Case has one input, which is why no parent is ever ambiguous.          *)
BindingsAreOne == \A a, b \in bindings : a.case = b.case => a = b

DecisionsAreOne ==
    \A d, e \in decisions : d.caseId = e.caseId /\ d.input = e.input => d = e

ReviewsAreOne == \A v, w \in reviews : v.decision = w.decision => v = w

StoreInv ==
    /\ TablesTypeOK
    /\ StoredChartsAreServable
    /\ BindingsAreOne
    /\ DecisionsAreOne
    /\ ReviewsAreOne

CommandInv ==
    /\ requests \subseteq RequestRows
    /\ client \in [Clients -> States]
    /\ RequestsAreAwaited
    /\ \A r \in requests : RequestHolds(r)
    /\ \A c \in Clients : CommandHolds(client[c])

IntakeInv == StoreInv /\ CommandInv

-----------------------------------------------------------------------------
(* What a fixture that holds fixes: the charts are those of its own Case.   *)
LEMMA FixtureFacts ==
    ASSUME NEW f \in Valid
    PROVE  /\ f \in Fixtures
           /\ BundleOf[f].case = f.case
           /\ \A panel \in PanelNames :
                BundleOf[f].metadata[panel] = Metadata(ChartBundle(f.case), panel)
           /\ BindingOf(BundleOf[f]) = [case |-> f.case, input |-> BundleOf[f].input,
                                        metadata |-> BundleOf[f].metadata]
           /\ BundleOf[f].metadata
                = [panel \in PanelNames |-> Metadata(ChartBundle(f.case), panel)]
<1>1. f \in Fixtures /\ FixtureHolds(f)
    BY DEF Valid
<1>2. BundleOf[f] = CaseBundle(f.case, ChartBundle(f.drawn), f.doctrine)
    BY <1>1 DEF BundleOf
<1> DEFINE rows(case) == [panel \in PanelNames |-> Metadata(ChartBundle(case), panel)]
<1>3. BundleOf[f].case = f.case /\ BundleOf[f].metadata = rows(f.drawn)
    BY <1>2 DEF CaseBundle
<1>4. BundleOf[f].metadata["context"].case = f.case
    BY <1>1, <1>3 DEF FixtureHolds, BundleHolds, PanelNames
<1>5. BundleOf[f].metadata["context"].case = f.drawn
    <2>1. BundleOf[f].metadata["context"] = Metadata(ChartBundle(f.drawn), "context")
        BY <1>3 DEF PanelNames
    <2>2. ChartBundle(f.drawn).case = f.drawn
        BY DEF ChartBundle
    <2>3. Metadata(ChartBundle(f.drawn), "context").case = ChartBundle(f.drawn).case
        BY DEF Metadata
    <2> QED BY <2>1, <2>2, <2>3
<1>6. BundleOf[f].metadata = rows(f.case)
    BY <1>3, <1>4, <1>5
<1>7. \A panel \in PanelNames :
            BundleOf[f].metadata[panel] = Metadata(ChartBundle(f.case), panel)
    BY <1>6
<1>8. BindingOf(BundleOf[f]) = [case |-> f.case, input |-> BundleOf[f].input,
                                metadata |-> BundleOf[f].metadata]
    BY <1>3 DEF BindingOf
<1> QED BY <1>1, <1>3, <1>6, <1>7, <1>8

(* A chart row is fixed by its Case and its panel.                          *)
LEMMA ChartRowFacts ==
    ASSUME NEW case, NEW panel
    PROVE  /\ Metadata(ChartBundle(case), panel).case = case
           /\ Metadata(ChartBundle(case), panel).panel = panel
           /\ Metadata(ChartBundle(case), panel).picture = ChartBundle(case)[panel].picture
<1>1. ChartBundle(case).case = case
    BY DEF ChartBundle
<1>2. /\ Metadata(ChartBundle(case), panel).case = ChartBundle(case).case
      /\ Metadata(ChartBundle(case), panel).panel = panel
      /\ Metadata(ChartBundle(case), panel).picture = ChartBundle(case)[panel].picture
    BY DEF Metadata
<1> QED BY <1>1, <1>2

LEMMA ChartRowsAgree ==
    ASSUME NEW m \in ChartRows, NEW n \in ChartRows, m.case = n.case, m.panel = n.panel
    PROVE  m = n
<1>1. PICK f \in Valid, p \in PanelNames : m = BundleOf[f].metadata[p]
    BY DEF ChartRows
<1>2. PICK g \in Valid, q \in PanelNames : n = BundleOf[g].metadata[q]
    BY DEF ChartRows
<1>3. m = Metadata(ChartBundle(f.case), p) /\ n = Metadata(ChartBundle(g.case), q)
    BY <1>1, <1>2, FixtureFacts
<1>4. m.case = f.case /\ m.panel = p /\ n.case = g.case /\ n.panel = q
    BY <1>3, ChartRowFacts
<1> QED BY <1>3, <1>4

LEMMA BoundRowsAgree ==
    ASSUME NEW a \in BoundRows, NEW b \in BoundRows, a.case = b.case, a.input = b.input
    PROVE  a = b
<1>1. PICK f \in Valid : a = BindingOf(BundleOf[f])
    BY DEF BoundRows
<1>2. PICK g \in Valid : b = BindingOf(BundleOf[g])
    BY DEF BoundRows
<1>3. a = [case |-> f.case, input |-> BundleOf[f].input, metadata |-> BundleOf[f].metadata]
    BY <1>1, FixtureFacts
<1>4. b = [case |-> g.case, input |-> BundleOf[g].input, metadata |-> BundleOf[g].metadata]
    BY <1>2, FixtureFacts
<1>5. f.case = g.case /\ BundleOf[f].input = BundleOf[g].input
    BY <1>3, <1>4
<1>6. BundleOf[f].metadata = BundleOf[g].metadata
    BY <1>5, FixtureFacts
<1> QED BY <1>3, <1>4, <1>5, <1>6

LEMMA DecisionFacts ==
    ASSUME NEW f \in Valid
    PROVE  /\ DecisionOf[f].id = f.decisionId /\ DecisionOf[f].caseId = f.case.id
           /\ DecisionOf[f].input = BundleOf[f].input
           /\ ReviewOf[f].id = f.reviewId /\ ReviewOf[f].decision = DecisionOf[f]
BY FixtureFacts DEF DecisionOf, ReviewOf

-----------------------------------------------------------------------------
(* Nothing stored is taken back, and a whole file stays whole.              *)
Grows ==
    /\ cases \subseteq cases' /\ metadata \subseteq metadata'
    /\ bindings \subseteq bindings' /\ decisions \subseteq decisions'
    /\ reviews \subseteq reviews'
    /\ \A name \in DOMAIN files : files[name] = "whole" =>
            name \in DOMAIN files' /\ files'[name] = "whole"

LEMMA TablesUnchangedGrow ==
    ASSUME UNCHANGED tables, UNCHANGED files
    PROVE  Grows
BY DEF tables, Grows

(* What holds of a command or a request holds on while the store grows.     *)
LEMMA CommandsHoldOn ==
    ASSUME Grows
    PROVE  \A k : CommandHolds(k) => CommandHolds(k)'
<1> SUFFICES ASSUME NEW CONSTANT k, CommandHolds(k) PROVE CommandHolds(k)'
    OBVIOUS
<1>1. StoredBefore(k.step, k.job)'
    BY DEF CommandHolds, StoredBefore, Grows
<1>2. Reported(k)'
    BY DEF CommandHolds, Reported, Grows
<1>3. Explained(k.refusal, k.job)'
    BY DEF CommandHolds, Explained, ConflictExplained, Grows
<1> QED BY <1>1, <1>2, <1>3 DEF CommandHolds

LEMMA RequestsHoldOn ==
    ASSUME Grows
    PROVE  \A r : RequestHolds(r) => RequestHolds(r)'
<1> SUFFICES ASSUME NEW CONSTANT r, RequestHolds(r) PROVE RequestHolds(r)'
    OBVIOUS
<1>1. StoredBefore(r.kind, r.job)'
    BY DEF RequestHolds, StoredBefore, Grows
<1>2. (r.kind = "bundle" /\ r.checked => ChartFilesHold(BundleOf[r.job]))'
    BY DEF RequestHolds, ChartFilesHold, Grows
<1> QED BY <1>1, <1>2 DEF RequestHolds

-----------------------------------------------------------------------------
(* A command that moves without a request keeps the commands right.         *)
LEMMA CommandMoves ==
    ASSUME CommandInv, Grows, NEW c \in Clients, requests' = requests,
           \A r \in requests : r.client # c,
           \E k \in States : CommandHolds(k)' /\ client' = [client EXCEPT ![c] = k]
    PROVE  CommandInv'
<1>1. PICK k \in States : CommandHolds(k)' /\ client' = [client EXCEPT ![c] = k]
    OBVIOUS
<1>2. /\ client' \in [Clients -> States] /\ client'[c] = k
      /\ \A d \in Clients : d # c => client'[d] = client[d]
    BY <1>1 DEF CommandInv
<1>3. RequestsAreAwaited'
    <2> SUFFICES ASSUME NEW r \in requests, r.client # Null
                 PROVE  /\ client'[r.client].busy
                        /\ client'[r.client].step = r.kind
                        /\ client'[r.client].job = r.job
                        /\ \A q \in requests : q.client = r.client => q = r
        BY DEF RequestsAreAwaited
    <2>1. r.client \in Clients /\ r.client # c
        BY DEF CommandInv, RequestRows
    <2>2. client'[r.client] = client[r.client]
        BY <1>2, <2>1
    <2> QED BY <2>2 DEF CommandInv, RequestsAreAwaited
<1>4. \A r \in requests' : RequestHolds(r)'
    BY RequestsHoldOn DEF CommandInv
<1>5. \A d \in Clients : CommandHolds(client[d])'
    <2> SUFFICES ASSUME NEW d \in Clients PROVE CommandHolds(client[d])'
        OBVIOUS
    <2>1. CASE d = c
        BY <1>1, <1>2, <2>1 DEF CommandHolds
    <2>2. CASE d # c
        <3>1. client'[d] = client[d]
            BY <1>2, <2>2
        <3>2. \A k1 : CommandHolds(k1) => CommandHolds(k1)'
            BY CommandsHoldOn
        <3>3. CommandHolds(client[d])
            BY DEF CommandInv
        <3> QED BY <3>1, <3>2, <3>3
    <2> QED BY <2>1, <2>2
<1> QED BY <1>2, <1>3, <1>4, <1>5 DEF CommandInv

(* An answered request is gone, and only its command moves.                 *)
LEMMA RequestAnswered ==
    ASSUME CommandInv, Grows, NEW r \in requests, requests' = requests \ {r},
           r.client = Null => client' = client,
           r.client # Null =>
                \E k \in States :
                    CommandHolds(k)' /\ client' = [client EXCEPT ![r.client] = k]
    PROVE  CommandInv'
<1>1. r \in RequestRows /\ (r.client # Null => r.client \in Clients)
    BY DEF CommandInv, RequestRows
<1>2. /\ client' \in [Clients -> States]
      /\ \A d \in Clients : d # r.client => client'[d] = client[d]
    BY <1>1, IntakeAssumption DEF CommandInv
<1>3. RequestsAreAwaited'
    <2> SUFFICES ASSUME NEW q \in requests \ {r}, q.client # Null
                 PROVE  /\ client'[q.client].busy
                        /\ client'[q.client].step = q.kind
                        /\ client'[q.client].job = q.job
                        /\ \A p \in requests : p.client = q.client => p = q
        BY DEF RequestsAreAwaited
    <2>1. q.client \in Clients /\ q.client # r.client
        BY DEF CommandInv, RequestRows, RequestsAreAwaited
    <2>2. client'[q.client] = client[q.client]
        BY <1>2, <2>1
    <2> QED BY <2>2 DEF CommandInv, RequestsAreAwaited
<1>4. \A q \in requests' : RequestHolds(q)'
    BY RequestsHoldOn DEF CommandInv
<1>5. \A d \in Clients : CommandHolds(client[d])'
    <2> SUFFICES ASSUME NEW d \in Clients PROVE CommandHolds(client[d])'
        OBVIOUS
    <2>1. CASE d = r.client
        <3>1. PICK k \in States :
                CommandHolds(k)' /\ client' = [client EXCEPT ![r.client] = k]
            BY <2>1, IntakeAssumption
        <3>2. client'[d] = k
            BY <2>1, <3>1 DEF CommandInv
        <3> QED BY <3>1, <3>2 DEF CommandHolds
    <2>2. CASE d # r.client
        <3>1. client'[d] = client[d]
            BY <1>2, <2>2
        <3>2. \A k : CommandHolds(k) => CommandHolds(k)'
            BY CommandsHoldOn
        <3>3. CommandHolds(client[d])
            BY DEF CommandInv
        <3> QED BY <3>1, <3>2, <3>3
    <2> QED BY <2>1, <2>2
<1>6. requests' \subseteq RequestRows
    BY DEF CommandInv
<1> QED BY <1>2, <1>3, <1>4, <1>5, <1>6 DEF CommandInv

(* A request that is granted moves its command to the next one.             *)
LEMMA RequestGranted ==
    ASSUME CommandInv, Grows, NEW r \in requests, Granted(r), r.kind # "audit",
           StoredBefore(NextStep[r.kind], r.job)'
    PROVE  CommandInv'
<1>1. ASSUME r.client # Null
      PROVE  \E k \in States :
                    CommandHolds(k)' /\ client' = [client EXCEPT ![r.client] = k]
    <2>1. /\ r.client \in Clients /\ client[r.client] \in States
          /\ client[r.client].step = r.kind /\ client[r.client].job = r.job
          /\ r.kind \in {"bundle", "decision", "review"} /\ r.job \in Valid
        BY <1>1 DEF CommandInv, RequestRows, RequestsAreAwaited, Kinds
    <2>2. NextStep[r.kind] \in {"decision", "review", "audit"}
        BY <2>1 DEF NextStep
    <2>3. PICK k : k = [client[r.client] EXCEPT !.step = NextStep[r.kind], !.busy = FALSE]
        OBVIOUS
    <2>4. /\ k \in States /\ k.step = NextStep[r.kind] /\ k.job = r.job
          /\ k.refusal = client[r.client].refusal
        BY <2>1, <2>2, <2>3 DEF States, Steps, Kinds
    <2>5. client' = [client EXCEPT ![r.client] = k]
        BY <1>1, <2>1, <2>3 DEF Granted, Advance
    <2>6. Explained(k.refusal, k.job)'
        <3>1. \A l : CommandHolds(l) => CommandHolds(l)'
            BY CommandsHoldOn
        <3>2. PICK l : l = client[r.client]
            OBVIOUS
        <3>3. CommandHolds(l)'
            BY <2>1, <3>1, <3>2 DEF CommandInv
        <3>4. l.refusal = k.refusal /\ l.job = k.job
            BY <2>1, <2>4, <3>2
        <3> QED BY <3>3, <3>4 DEF CommandHolds
    <2>7. CommandHolds(k)'
        <3>1. k.step # "done"
            BY <2>2, <2>4
        <3>2. Reported(k)'
            BY <3>1 DEF Reported
        <3>3. StoredBefore(k.step, k.job)'
            BY <2>4
        <3> QED BY <2>1, <2>4, <2>6, <3>2, <3>3 DEF CommandHolds
    <2> QED BY <2>4, <2>5, <2>7
<1>2. requests' = requests \ {r} /\ (r.client = Null => client' = client)
    BY DEF Granted
<1> QED BY <1>1, <1>2, RequestAnswered

(* A request that is refused ends its command with the reason.              *)
LEMMA RequestRefused ==
    ASSUME CommandInv, Grows, NEW r \in requests, NEW why \in Refusals, Refused(r, why),
           Explained(why, r.job)'
    PROVE  CommandInv'
<1>1. ASSUME r.client # Null
      PROVE  \E k \in States :
                    CommandHolds(k)' /\ client' = [client EXCEPT ![r.client] = k]
    <2>1. /\ r.client \in Clients /\ client[r.client] \in States
          /\ client[r.client].job = r.job /\ r.job \in Valid
        BY <1>1 DEF CommandInv, RequestRows, RequestsAreAwaited
    <2>2. PICK k : k = [client[r.client] EXCEPT !.step = "failed", !.busy = FALSE,
                                                 !.refusal = why]
        OBVIOUS
    <2>3. /\ k \in States /\ k.step = "failed" /\ k.job = r.job /\ k.refusal = why
        BY <2>1, <2>2 DEF States, Steps, Ended
    <2>4. client' = [client EXCEPT ![r.client] = k]
        BY <1>1, <2>1, <2>2 DEF Refused, Fail
    <2>5. CommandHolds(k)'
        <3>1. Reported(k)' /\ StoredBefore(k.step, k.job)'
            BY <2>3 DEF Reported, StoredBefore
        <3>2. Explained(k.refusal, k.job)'
            BY <2>3
        <3> QED BY <2>1, <2>3, <3>1, <3>2 DEF CommandHolds
    <2> QED BY <2>3, <2>4, <2>5
<1>2. requests' = requests \ {r} /\ (r.client = Null => client' = client)
    BY DEF Refused
<1> QED BY <1>1, <1>2, RequestAnswered

-----------------------------------------------------------------------------
(* insertImmutableRecord: inserted where nothing shares an identity with    *)
(* the row, existing where only the row itself does.                        *)
LEMMA InsertOutcomes ==
    ASSUME NEW table, NEW row, NEW clashes
    PROVE  /\ InsertImmutable(table, row, clashes) = "inserted" <=> clashes = {}
           /\ InsertImmutable(table, row, clashes) = "existing" <=> clashes = {row}
           /\ InsertImmutable(table, row, clashes) = "conflict"
                <=> clashes # {} /\ clashes # {row}
<1>1. CASE clashes = {}
    <2>1. clashes # {row}
        BY <1>1
    <2>2. InsertImmutable(table, row, clashes) = "inserted"
        BY <1>1 DEF InsertImmutable
    <2> QED BY <1>1, <2>1, <2>2
<1>2. CASE clashes = {row}
    <2>1. clashes # {}
        BY <1>2
    <2>2. InsertImmutable(table, row, clashes) = "existing"
        BY <1>2, <2>1 DEF InsertImmutable
    <2> QED BY <1>2, <2>1, <2>2
<1>3. CASE clashes # {} /\ clashes # {row}
    <2>1. InsertImmutable(table, row, clashes) = "conflict"
        BY <1>3 DEF InsertImmutable
    <2> QED BY <1>3, <2>1
<1> QED BY <1>1, <1>2, <1>3

(* The two charts of a stored bundle are those of its Case.                 *)
LEMMA BundleRowFacts ==
    ASSUME NEW f \in Valid
    PROVE  /\ BindingOf(BundleOf[f]).case = f.case
           /\ BindingOf(BundleOf[f]).input = BundleOf[f].input
           /\ BindingOf(BundleOf[f]).metadata = BundleOf[f].metadata
           /\ \A panel \in PanelNames :
                /\ BundleOf[f].metadata[panel] \in ChartRows
                /\ BundleOf[f].metadata[panel].case = f.case
                /\ BundleOf[f].metadata[panel].panel = panel
                /\ BundleOf[f].metadata[panel].picture = ChartBundle(f.case)[panel].picture
<1>1. \A panel \in PanelNames :
        BundleOf[f].metadata[panel] = Metadata(ChartBundle(f.case), panel)
    BY FixtureFacts
<1>2. ASSUME NEW panel \in PanelNames
      PROVE  /\ BundleOf[f].metadata[panel] \in ChartRows
             /\ BundleOf[f].metadata[panel].case = f.case
             /\ BundleOf[f].metadata[panel].panel = panel
             /\ BundleOf[f].metadata[panel].picture = ChartBundle(f.case)[panel].picture
    <2>1. BundleOf[f].metadata[panel] \in ChartRows
        BY DEF ChartRows
    <2> QED BY <1>1, <2>1, ChartRowFacts
<1>3. BindingOf(BundleOf[f]) = [case |-> f.case, input |-> BundleOf[f].input,
                                metadata |-> BundleOf[f].metadata]
    BY FixtureFacts
<1> QED BY <1>2, <1>3

(* Of the five inserts of a bundle only the Case and its binding can meet   *)
(* other content.                                                           *)
LEMMA BundleConflicts ==
    ASSUME StoreInv, NEW f \in Valid
    PROVE  /\ \A panel \in PanelNames :
                InsertMetadata(BundleOf[f].metadata[panel]) # "conflict"
           /\ InsertBinding(BundleOf[f]) = "conflict" => ConflictExplained(f)
           /\ InsertCase(f.case) = "conflict" => ConflictExplained(f)
<1>1. ASSUME NEW panel \in PanelNames
      PROVE  InsertMetadata(BundleOf[f].metadata[panel]) # "conflict"
    <2> DEFINE md == BundleOf[f].metadata[panel]
    <2> DEFINE clashes == {n \in metadata :
                n.case = md.case /\ n.panel = md.panel /\ n.drawn = md.drawn}
    <2>1. md \in ChartRows
        BY BundleRowFacts
    <2>2. \A n \in clashes : n = md
        BY <2>1, ChartRowsAgree DEF StoreInv, TablesTypeOK
    <2>3. clashes = {} \/ clashes = {md}
        BY <2>2
    <2>4. InsertMetadata(md) = InsertImmutable(metadata, md, clashes)
        BY DEF InsertMetadata
    <2>5. InsertMetadata(md) # "conflict"
        <3> HIDE DEF clashes, md
        <3> QED BY <2>3, <2>4, InsertOutcomes
    <2> QED BY <2>5
<1>2. ASSUME InsertBinding(BundleOf[f]) = "conflict" PROVE ConflictExplained(f)
    <2> DEFINE row == BindingOf(BundleOf[f])
    <2> DEFINE clashes == {b \in bindings : b.case = BundleOf[f].case}
    <2>1. row \in BoundRows /\ row.case = f.case /\ row.input = BundleOf[f].input
        BY BundleRowFacts DEF BoundRows
    <2>2. InsertBinding(BundleOf[f]) = InsertImmutable(bindings, row, clashes)
        BY DEF InsertBinding
    <2>3. clashes # {} /\ clashes # {row}
        <3> HIDE DEF clashes, row
        <3> QED BY <1>2, <2>2, InsertOutcomes
    <2>4. PICK b \in clashes : b # row
        BY <2>3
    <2>5. b \in bindings /\ b \in BoundRows /\ b.case = f.case
        BY <2>4, FixtureFacts DEF StoreInv, TablesTypeOK
    <2>6. b.input # BundleOf[f].input
        <3> HIDE DEF row
        <3> QED BY <2>1, <2>4, <2>5, BoundRowsAgree
    <2> QED BY <2>5, <2>6 DEF ConflictExplained
<1>3. ASSUME InsertCase(f.case) = "conflict" PROVE ConflictExplained(f)
    <2> DEFINE clashes == {k \in cases : SharesIdentity(k, f.case)}
    <2>1. InsertCase(f.case) = InsertImmutable(cases, f.case, clashes)
        BY DEF InsertCase
    <2>2. clashes # {} /\ clashes # {f.case}
        <3> HIDE DEF clashes
        <3> QED BY <1>3, <2>1, InsertOutcomes
    <2>3. PICK k \in clashes : k # f.case
        BY <2>2
    <2> QED BY <2>3 DEF ConflictExplained
<1> QED BY <1>1, <1>2, <1>3

LEMMA AppendBundleStep ==
    ASSUME IntakeInv, NEW r \in requests, AppendBundle(r)
    PROVE  IntakeInv'
<1> DEFINE f == r.job
<1> DEFINE bundle == BundleOf[f]
<1> DEFINE conflict ==
            \/ InsertCase(bundle.case) = "conflict"
            \/ \E panel \in PanelNames :
                InsertMetadata(bundle.metadata[panel]) = "conflict"
            \/ InsertBinding(bundle) = "conflict"
<1> DEFINE New(status, row) == IF status = "inserted" THEN {row} ELSE {}
<1>0. StoreInv /\ CommandInv /\ f \in Valid /\ bundle.case = f.case
      /\ r.kind = "bundle" /\ r.checked /\ RequestHolds(r)
    BY FixtureFacts DEF IntakeInv, CommandInv, RequestRows, AppendBundle
<1>1. CASE conflict /\ Refused(r, "conflict")
    <2>1. UNCHANGED tables /\ UNCHANGED files
        BY <1>1 DEF Refused, AppendBundle
    <2>2. Grows
        BY <2>1, TablesUnchangedGrow
    <2>3. ConflictExplained(f)
        BY <1>0, <1>1, BundleConflicts
    <2>4. Explained("conflict", f)'
        BY <2>1, <2>3 DEF Explained, ConflictExplained, tables
    <2>5. CommandInv'
        BY <1>0, <1>1, <2>2, <2>4, RequestRefused DEF Refusals
    <2>6. StoreInv'
        BY <1>0, <2>1 DEF StoreInv, TablesTypeOK, StoredChartsAreServable,
            BindingsAreOne, DecisionsAreOne, ReviewsAreOne, tables
    <2> QED BY <2>5, <2>6 DEF IntakeInv
<1>2. CASE ~conflict /\ Granted(r)
              /\ cases' = cases \cup New(InsertCase(bundle.case), bundle.case)
              /\ metadata' = metadata \cup
                    UNION {New(InsertMetadata(bundle.metadata[panel]), bundle.metadata[panel]) :
                            panel \in PanelNames}
              /\ bindings' = bindings \cup New(InsertBinding(bundle), BindingOf(bundle))
              /\ UNCHANGED <<decisions, reviews>>
              /\ UNCHANGED files
    <2>1. Grows
        BY <1>2 DEF Grows
    <2>2. /\ cases' = cases \cup {f.case}
          /\ \A panel \in PanelNames : bundle.metadata[panel] \in metadata'
          /\ metadata' \subseteq metadata \cup {bundle.metadata[panel] : panel \in PanelNames}
          /\ bindings' = bindings \cup {BindingOf(bundle)}
        <3>1. InsertCase(f.case) = "inserted" \/ f.case \in cases
            <4> DEFINE clashes == {k \in cases : SharesIdentity(k, f.case)}
            <4>1. InsertCase(f.case) = InsertImmutable(cases, f.case, clashes)
                BY DEF InsertCase
            <4>2. InsertCase(f.case) # "conflict"
                BY <1>0, <1>2
            <4>3. InsertCase(f.case) = "inserted" \/ clashes = {f.case}
                <5> HIDE DEF clashes
                <5> QED BY <4>1, <4>2, InsertOutcomes
            <4> QED BY <4>3
        <3>2. ASSUME NEW panel \in PanelNames
              PROVE  \/ InsertMetadata(bundle.metadata[panel]) = "inserted"
                     \/ bundle.metadata[panel] \in metadata
            <4> DEFINE md == bundle.metadata[panel]
            <4> DEFINE clashes == {n \in metadata :
                    n.case = md.case /\ n.panel = md.panel /\ n.drawn = md.drawn}
            <4>1. InsertMetadata(md) = InsertImmutable(metadata, md, clashes)
                BY DEF InsertMetadata
            <4>2. InsertMetadata(md) # "conflict"
                BY <1>2
            <4>3. InsertMetadata(md) = "inserted" \/ clashes = {md}
                <5> HIDE DEF clashes, md
                <5> QED BY <4>1, <4>2, InsertOutcomes
            <4>4. clashes \subseteq metadata
                OBVIOUS
            <4> HIDE DEF clashes
            <4> QED BY <4>3, <4>4
        <3>3. InsertBinding(bundle) = "inserted" \/ BindingOf(bundle) \in bindings
            <4> DEFINE clashes == {b \in bindings : b.case = bundle.case}
            <4>1. InsertBinding(bundle) = InsertImmutable(bindings, BindingOf(bundle), clashes)
                BY DEF InsertBinding
            <4>2. InsertBinding(bundle) # "conflict"
                BY <1>2
            <4>3. InsertBinding(bundle) = "inserted" \/ clashes = {BindingOf(bundle)}
                <5> HIDE DEF clashes, bundle
                <5> QED BY <4>1, <4>2, InsertOutcomes
            <4>4. clashes \subseteq bindings
                OBVIOUS
            <4> HIDE DEF clashes
            <4> QED BY <4>3, <4>4
        <3> HIDE DEF bundle, f, conflict
        <3>4. cases' = cases \cup {f.case}
            BY <1>0, <1>2, <3>1
        <3>5. \A panel \in PanelNames : bundle.metadata[panel] \in metadata'
            BY <1>2, <3>2
        <3>6. metadata' \subseteq metadata \cup {bundle.metadata[panel] : panel \in PanelNames}
            BY <1>2
        <3>7. bindings' = bindings \cup {BindingOf(bundle)}
            BY <1>2, <3>3
        <3> QED BY <3>4, <3>5, <3>6, <3>7
    <2>3. BindingOf(bundle) \in BoundRows /\ f.case \in CaseRows
          /\ \A panel \in PanelNames : bundle.metadata[panel] \in ChartRows
        BY <1>0 DEF BoundRows, CaseRows, ChartRows
    <2>4. TablesTypeOK'
        <3>1. /\ cases' \subseteq CaseRows /\ metadata' \subseteq ChartRows
              /\ bindings' \subseteq BoundRows
            BY <1>0, <2>2, <2>3 DEF StoreInv, TablesTypeOK
        <3> QED BY <1>0, <1>2, <3>1 DEF StoreInv, TablesTypeOK
    <2>5. StoredChartsAreServable'
        <3> SUFFICES ASSUME NEW b \in bindings', NEW panel \in PanelNames
                     PROVE  /\ b.metadata[panel] \in metadata'
                            /\ b.metadata[panel].case = b.case /\ b.case \in cases'
                            /\ b.metadata[panel].picture = ChartBundle(b.case)[panel].picture
                            /\ b.metadata[panel].picture \in DOMAIN files
                            /\ files[b.metadata[panel].picture] = "whole"
            BY <1>2 DEF StoredChartsAreServable
        <3>1. CASE b \in bindings
            BY <1>0, <2>1, <3>1 DEF StoreInv, StoredChartsAreServable, Grows
        <3>2. CASE b = BindingOf(bundle)
            <4>1. ChartFilesHold(bundle)
                BY <1>0 DEF RequestHolds
            <4>2. /\ b.case = f.case /\ b.metadata[panel] = bundle.metadata[panel]
                  /\ bundle.metadata[panel].case = f.case
                  /\ bundle.metadata[panel].picture = ChartBundle(f.case)[panel].picture
                BY <1>0, <3>2, BundleRowFacts
            <4> HIDE DEF bundle, f
            <4> QED BY <2>2, <4>1, <4>2 DEF ChartFilesHold
        <3> QED BY <2>2, <3>1, <3>2
    <2>6. BindingsAreOne'
        <3>1. ASSUME NEW b \in bindings, b.case = f.case PROVE b = BindingOf(bundle)
            <4> DEFINE clashes == {a \in bindings : a.case = bundle.case}
            <4>1. InsertBinding(bundle) = InsertImmutable(bindings, BindingOf(bundle), clashes)
                BY DEF InsertBinding
            <4>2. InsertBinding(bundle) # "conflict"
                BY <1>2
            <4>3. b \in clashes
                BY <1>0, <3>1
            <4> HIDE DEF clashes, bundle
            <4> QED BY <4>1, <4>2, <4>3, InsertOutcomes
        <3>2. BindingOf(bundle).case = f.case
            BY <1>0, BundleRowFacts
        <3> HIDE DEF bundle, f
        <3> QED BY <1>0, <2>2, <3>1, <3>2 DEF StoreInv, BindingsAreOne
    <2>7. StoreInv'
        BY <1>0, <1>2, <2>4, <2>5, <2>6 DEF StoreInv, DecisionsAreOne, ReviewsAreOne
    <2>8. StoredBefore(NextStep[r.kind], f)'
        <3>1. NextStep[r.kind] = "decision"
            BY <1>0 DEF NextStep
        <3> QED BY <2>2, <3>1 DEF StoredBefore
    <2>9. CommandInv'
        BY <1>0, <1>2, <2>1, <2>8, RequestGranted
    <2> QED BY <2>7, <2>9 DEF IntakeInv
<1> QED BY <1>1, <1>2 DEF AppendBundle

(* A refusal that stores nothing keeps everything right if it is explained. *)
LEMMA RefusedStep ==
    ASSUME IntakeInv, NEW r \in requests, NEW why \in Refusals, Refused(r, why),
           UNCHANGED files, Explained(why, r.job)
    PROVE  IntakeInv'
<1>1. UNCHANGED tables
    BY DEF Refused
<1>2. Grows
    BY <1>1, TablesUnchangedGrow
<1>3. Explained(why, r.job)'
    BY <1>1 DEF Explained, ConflictExplained, tables
<1>4. CommandInv'
    BY <1>2, <1>3, RequestRefused DEF IntakeInv
<1>5. StoreInv'
    BY <1>1 DEF IntakeInv, StoreInv, TablesTypeOK, StoredChartsAreServable,
        BindingsAreOne, DecisionsAreOne, ReviewsAreOne, tables
<1> QED BY <1>4, <1>5 DEF IntakeInv

(* The parent a command was told of is there.                               *)
LEMMA ParentIsStored ==
    ASSUME NEW f \in Valid, BindingOf(BundleOf[f]) \in bindings
    PROVE  BindingOf(BundleOf[f]) \in Parents(DecisionOf[f])
<1>1. /\ BindingOf(BundleOf[f]).case = f.case
      /\ BindingOf(BundleOf[f]).input = BundleOf[f].input
    BY BundleRowFacts
<1>2. DecisionOf[f].caseId = f.case.id /\ DecisionOf[f].input = BundleOf[f].input
    BY DecisionFacts
<1> QED BY <1>1, <1>2 DEF Parents

(* A stored Case has one bundle: nothing that looks for it finds two.       *)
LEMMA OneBundle ==
    ASSUME StoreInv, NEW f \in Valid, BindingOf(BundleOf[f]) \in bindings
    PROVE  /\ BundlesOf(f.case) = {BindingOf(BundleOf[f])}
           /\ Cardinality(BundlesOf(f.case)) = 1
<1>1. BindingOf(BundleOf[f]).case = f.case
    BY BundleRowFacts
<1>2. BundlesOf(f.case) = {BindingOf(BundleOf[f])}
    BY <1>1 DEF BundlesOf, StoreInv, BindingsAreOne
<1> QED BY <1>2, FS_Singleton

LEMMA AppendDecisionStep ==
    ASSUME IntakeInv, NEW r \in requests, AppendDecision(r)
    PROVE  IntakeInv'
<1> DEFINE f == r.job
<1> DEFINE d == DecisionOf[f]
<1> DEFINE clashes == {e \in decisions :
                e.id = d.id \/ (e.caseId = d.caseId /\ e.input = d.input)}
<1> DEFINE status == InsertImmutable(decisions, d, clashes)
<1> DEFINE why == IF Parents(d) = {} THEN "parent" ELSE status
<1>0. StoreInv /\ CommandInv /\ f \in Valid /\ r.kind = "decision" /\ RequestHolds(r)
    BY DEF IntakeInv, CommandInv, RequestRows, AppendDecision
<1>1. d.id = f.decisionId /\ d.caseId = f.case.id /\ d \in DecisionRows
    BY <1>0, DecisionFacts DEF DecisionRows
<1>2. why = status
    <2>1. BindingOf(BundleOf[f]) \in bindings
        BY <1>0 DEF RequestHolds, StoredBefore
    <2>2. Parents(d) # {}
        BY <1>0, <2>1, ParentIsStored
    <2> QED BY <2>2
<1>3. \/ why \in {"parent", "conflict"} /\ Refused(r, why)
      \/ /\ why \in {"inserted", "existing"}
         /\ decisions' = IF status = "inserted" THEN decisions \cup {d} ELSE decisions
         /\ UNCHANGED <<cases, inputs, metadata, bindings, reviews>>
         /\ Granted(r)
    BY DEF AppendDecision
<1>4. UNCHANGED files
    BY DEF AppendDecision
<1>5. /\ status = "inserted" <=> clashes = {}
      /\ status = "existing" <=> clashes = {d}
      /\ status = "conflict" <=> clashes # {} /\ clashes # {d}
      /\ status # "parent"
    <2>1. /\ status = "inserted" <=> clashes = {}
          /\ status = "existing" <=> clashes = {d}
          /\ status = "conflict" <=> clashes # {} /\ clashes # {d}
        <3> HIDE DEF clashes, d
        <3> QED BY InsertOutcomes
    <2>2. status # "parent"
        <3> HIDE DEF clashes, d
        <3>1. clashes = {} \/ clashes = {d} \/ (clashes # {} /\ clashes # {d})
            OBVIOUS
        <3> HIDE DEF status
        <3> QED BY <2>1, <3>1
    <2> QED BY <2>1, <2>2
<1>6. CASE status = "conflict" /\ Refused(r, "conflict")
    <2>1. PICK e \in clashes : e # d
        BY <1>5, <1>6
    <2>2. ConflictExplained(f)
        BY <1>1, <2>1 DEF ConflictExplained
    <2>3. Explained("conflict", f)
        BY <2>2 DEF Explained
    <2> QED BY <1>4, <1>6, <2>3, RefusedStep DEF Refusals
<1>7. CASE /\ status \in {"inserted", "existing"}
           /\ decisions' = IF status = "inserted" THEN decisions \cup {d} ELSE decisions
           /\ UNCHANGED <<cases, inputs, metadata, bindings, reviews>>
           /\ Granted(r)
    <2>1. Grows
        BY <1>4, <1>7 DEF Grows
    <2>2. decisions' = decisions \cup {d}
        <3>1. status = "existing" => d \in decisions
            <4>1. clashes \subseteq decisions
                OBVIOUS
            <4> HIDE DEF clashes
            <4> QED BY <1>5, <4>1
        <3> HIDE DEF status, d
        <3> QED BY <1>7, <3>1
    <2>3. DecisionsAreOne'
        <3>1. ASSUME NEW e \in decisions, e.caseId = d.caseId, e.input = d.input
              PROVE  e = d
            <4>1. e \in clashes
                BY <3>1
            <4> HIDE DEF clashes, status
            <4> QED BY <1>5, <1>7, <4>1
        <3> HIDE DEF d
        <3> QED BY <1>0, <2>2, <3>1 DEF StoreInv, DecisionsAreOne
    <2>4. TablesTypeOK'
        BY <1>0, <1>1, <1>4, <1>7, <2>2 DEF StoreInv, TablesTypeOK
    <2>5. StoreInv'
        BY <1>0, <1>4, <1>7, <2>3, <2>4 DEF StoreInv, StoredChartsAreServable, BindingsAreOne, ReviewsAreOne
    <2>6. StoredBefore(NextStep[r.kind], f)'
        <3>1. NextStep[r.kind] = "review"
            BY <1>0 DEF NextStep
        <3>2. BindingOf(BundleOf[f]) \in bindings'
            BY <1>0, <1>7 DEF RequestHolds, StoredBefore
        <3> QED BY <2>2, <3>1, <3>2 DEF StoredBefore
    <2>7. CommandInv'
        BY <1>0, <1>7, <2>1, <2>6, RequestGranted
    <2> QED BY <2>5, <2>7 DEF IntakeInv
<1> HIDE DEF status, clashes, d
<1> QED BY <1>2, <1>3, <1>5, <1>6, <1>7

LEMMA AppendReviewStep ==
    ASSUME IntakeInv, NEW r \in requests, AppendReview(r)
    PROVE  IntakeInv'
<1> DEFINE f == r.job
<1> DEFINE v == ReviewOf[f]
<1> DEFINE clashes == {w \in reviews : w.id = v.id \/ w.decision = v.decision}
<1> DEFINE status == InsertImmutable(reviews, v, clashes)
<1>0. StoreInv /\ CommandInv /\ f \in Valid /\ r.kind = "review" /\ RequestHolds(r)
    BY DEF IntakeInv, CommandInv, RequestRows, AppendReview
<1>1. v.id = f.reviewId /\ v.decision = DecisionOf[f] /\ v \in ReviewRows
    BY <1>0, DecisionFacts DEF ReviewRows
<1>2. /\ BindingOf(BundleOf[f]) \in bindings
      /\ DecisionOf[f] \in decisions
    BY <1>0 DEF RequestHolds, StoredBefore
<1>3. UNCHANGED files
    BY DEF AppendReview
<1>4. \/ status = "conflict" /\ Refused(r, "conflict")
      \/ /\ status \in {"inserted", "existing"}
         /\ reviews' = IF status = "inserted" THEN reviews \cup {v} ELSE reviews
         /\ UNCHANGED <<cases, inputs, metadata, bindings, decisions>>
         /\ Granted(r)
    <2> DEFINE why == CASE v.decision \notin decisions -> "parent"
                        [] Cardinality(BundlesOf(r.job.case)) # 1 -> "ambiguous"
                        [] OTHER -> status
    <2>1. \/ why \in {"parent", "ambiguous", "conflict"} /\ Refused(r, why)
          \/ /\ why \in {"inserted", "existing"}
             /\ reviews' = IF status = "inserted" THEN reviews \cup {v} ELSE reviews
             /\ UNCHANGED <<cases, inputs, metadata, bindings, decisions>>
             /\ Granted(r)
        BY Zenon DEF AppendReview
    <2>2. v.decision \in decisions /\ Cardinality(BundlesOf(r.job.case)) = 1
        BY <1>0, <1>1, <1>2, OneBundle
    <2>3. why = status
        <3> HIDE DEF status, v
        <3> QED BY <2>2
    <2>4. status \in {"inserted", "existing", "conflict"}
        <3> HIDE DEF clashes, v
        <3>1. clashes = {} \/ clashes = {v} \/ (clashes # {} /\ clashes # {v})
            OBVIOUS
        <3> QED BY <3>1, InsertOutcomes
    <2> HIDE DEF why, status, v
    <2> QED BY <2>1, <2>3, <2>4
<1>5. /\ status = "existing" <=> clashes = {v}
      /\ status = "inserted" <=> clashes = {}
      /\ status = "conflict" <=> clashes # {} /\ clashes # {v}
    <2> HIDE DEF clashes, v
    <2> QED BY InsertOutcomes
<1>6. CASE status = "conflict" /\ Refused(r, "conflict")
    <2>1. PICK w \in clashes : w # v
        BY <1>5, <1>6
    <2>2. Explained("conflict", f)
        BY <1>1, <2>1 DEF Explained, ConflictExplained
    <2> QED BY <1>3, <1>6, <2>2, RefusedStep DEF Refusals
<1>7. CASE /\ status \in {"inserted", "existing"}
           /\ reviews' = IF status = "inserted" THEN reviews \cup {v} ELSE reviews
           /\ UNCHANGED <<cases, inputs, metadata, bindings, decisions>>
           /\ Granted(r)
    <2>1. Grows
        BY <1>3, <1>7 DEF Grows
    <2>2. reviews' = reviews \cup {v}
        <3>1. status = "existing" => v \in reviews
            <4>1. clashes \subseteq reviews
                OBVIOUS
            <4> HIDE DEF clashes
            <4> QED BY <1>5, <4>1
        <3> HIDE DEF status, v
        <3> QED BY <1>7, <3>1
    <2>3. ReviewsAreOne'
        <3>1. ASSUME NEW w \in reviews, w.decision = v.decision PROVE w = v
            <4>1. w \in clashes
                BY <3>1
            <4> HIDE DEF clashes, status
            <4> QED BY <1>5, <1>7, <4>1
        <3> HIDE DEF v
        <3> QED BY <1>0, <2>2, <3>1 DEF StoreInv, ReviewsAreOne
    <2>4. TablesTypeOK'
        BY <1>0, <1>1, <1>3, <1>7, <2>2 DEF StoreInv, TablesTypeOK
    <2>5. StoreInv'
        BY <1>0, <1>3, <1>7, <2>3, <2>4 DEF StoreInv, StoredChartsAreServable, BindingsAreOne,
            DecisionsAreOne
    <2>6. StoredBefore(NextStep[r.kind], f)'
        <3>1. NextStep[r.kind] = "audit"
            BY <1>0 DEF NextStep
        <3> QED BY <1>2, <1>7, <2>2, <3>1 DEF StoredBefore
    <2>7. CommandInv'
        BY <1>0, <1>7, <2>1, <2>6, RequestGranted
    <2> QED BY <2>5, <2>7 DEF IntakeInv
<1> HIDE DEF status, clashes, v
<1> QED BY <1>4, <1>6, <1>7

(* The report of a fixture whose rows are all stored.                       *)
OwnReport(f) ==
    [bundle |-> BindingOf(BundleOf[f]), decisions |-> {DecisionOf[f]},
     reviews |-> {ReviewOf[f]}, kinds |-> Conflict(DecisionOf[f], ReviewOf[f])]

LEMMA AuditIsOwn ==
    ASSUME StoreInv, NEW f \in Valid, StoredBefore("audit", f)
    PROVE  Audit(f.case) = OwnReport(f) /\ OwnReport(f) \in Reports
<1> DEFINE b == BindingOf(BundleOf[f])
<1> DEFINE d == DecisionOf[f]
<1> DEFINE v == ReviewOf[f]
<1>1. b \in bindings /\ d \in decisions /\ v \in reviews
    BY DEF StoredBefore
<1>2. /\ b.case = f.case /\ b.input = BundleOf[f].input
      /\ d.caseId = f.case.id /\ d.input = BundleOf[f].input /\ v.decision = d
    BY BundleRowFacts, DecisionFacts
<1>3. BundlesOf(f.case) = {b}
    BY <1>1, OneBundle
<1> DEFINE bundle == CHOOSE c \in BundlesOf(f.case) : TRUE
<1> DEFINE decided == {e \in decisions : e.caseId = f.case.id /\ e.input = bundle.input}
<1> DEFINE reviewed == {w \in reviews : w.decision \in decided}
<1>4. bundle = b
    BY <1>3
<1>5. decided = {d}
    <2> HIDE DEF bundle, b, d, v
    <2> QED BY <1>1, <1>2, <1>4 DEF StoreInv, DecisionsAreOne
<1>6. reviewed = {v}
    <2> HIDE DEF decided, d, v, b
    <2> QED BY <1>1, <1>2, <1>5 DEF StoreInv, ReviewsAreOne
<1>7. UNION {Conflict(w.decision, w) : w \in reviewed} = Conflict(d, v)
    <2> HIDE DEF reviewed, d, v, b
    <2> QED BY <1>2, <1>6
<1>8. Audit(f.case) = [bundle |-> bundle, decisions |-> decided, reviews |-> reviewed,
                       kinds |-> UNION {Conflict(w.decision, w) : w \in reviewed}]
    BY DEF Audit
<1>9. Audit(f.case) = OwnReport(f)
    <2> HIDE DEF bundle, decided, reviewed
    <2> QED BY <1>4, <1>5, <1>6, <1>7, <1>8 DEF OwnReport
<1>10. OwnReport(f) \in Reports
    <2>1. b \in BoundRows /\ d \in DecisionRows /\ v \in ReviewRows
        BY DEF BoundRows, DecisionRows, ReviewRows
    <2>2. Conflict(d, v) \subseteq
            {"whole_decision_disagreement", "clarification_required", "reviewer_uncertain",
             "verdict_disagreement"}
        BY DEF Conflict
    <2> QED BY <2>1, <2>2 DEF OwnReport, Reports
<1> QED BY <1>9, <1>10

LEMMA ReadAuditStep ==
    ASSUME IntakeInv, NEW r \in requests, ReadAudit(r)
    PROVE  IntakeInv'
<1> DEFINE f == r.job
<1>0. StoreInv /\ CommandInv /\ f \in Valid /\ r.kind = "audit" /\ RequestHolds(r)
    BY DEF IntakeInv, CommandInv, RequestRows, ReadAudit
<1>1. StoredBefore("audit", f)
    BY <1>0 DEF RequestHolds
<1>2. Cardinality(BundlesOf(f.case)) = 1
    BY <1>0, <1>1, OneBundle DEF StoredBefore
<1>3. UNCHANGED files
    BY DEF ReadAudit
<1>4. CASE /\ requests' = requests \ {r}
           /\ IF r.client = Null
              THEN UNCHANGED client
              ELSE client' = [client EXCEPT ![r.client].step = "done",
                                            ![r.client].busy = FALSE,
                                            ![r.client].report = {Audit(f.case)}]
           /\ UNCHANGED tables
    <2>1. Grows
        BY <1>3, <1>4, TablesUnchangedGrow
    <2>2. Audit(f.case) = OwnReport(f) /\ OwnReport(f) \in Reports
        BY <1>0, <1>1, AuditIsOwn
    <2>3. ASSUME r.client # Null
          PROVE  \E k \in States :
                    CommandHolds(k)' /\ client' = [client EXCEPT ![r.client] = k]
        <3>1. /\ r.client \in Clients /\ client[r.client] \in States
              /\ client[r.client].job = f /\ CommandHolds(client[r.client])
            BY <2>3 DEF IntakeInv, CommandInv, RequestRows, RequestsAreAwaited
        <3>2. PICK k : k = [client[r.client] EXCEPT !.step = "done", !.busy = FALSE,
                                                     !.report = {OwnReport(f)}]
            OBVIOUS
        <3>3. /\ k \in States /\ k.step = "done" /\ k.job = f
              /\ k.report = {OwnReport(f)} /\ k.refusal = client[r.client].refusal
            BY <2>2, <3>1, <3>2 DEF States, Steps, Ended
        <3>4. client' = [client EXCEPT ![r.client] = k]
            BY <1>4, <2>2, <2>3, <3>1, <3>2
        <3>5. Explained(k.refusal, k.job)
            BY <3>1, <3>3 DEF CommandHolds
        <3>6. CommandHolds(k)
            <4>1. Reported(k)
                BY <1>1, <3>3 DEF Reported, OwnReport, StoredBefore
            <4>2. StoredBefore(k.step, k.job)
                BY <3>3 DEF StoredBefore
            <4> QED BY <1>0, <3>3, <3>5, <4>1, <4>2 DEF CommandHolds
        <3>7. CommandHolds(k)'
            BY <2>1, <3>6, CommandsHoldOn
        <3> QED BY <3>3, <3>4, <3>7
    <2>4. CommandInv'
        BY <1>0, <1>4, <2>1, <2>3, RequestAnswered
    <2>5. StoreInv'
        BY <1>0, <1>3, <1>4 DEF StoreInv, TablesTypeOK, StoredChartsAreServable,
            BindingsAreOne, DecisionsAreOne, ReviewsAreOne, tables
    <2> QED BY <2>4, <2>5 DEF IntakeInv
<1> QED BY <1>2, <1>4 DEF ReadAudit

(* A bundle is let through when its charts are there, whole.                *)
LEMMA CheckBundleStep ==
    ASSUME IntakeInv, NEW r \in requests, CheckBundle(r)
    PROVE  IntakeInv'
<1> DEFINE bundle == BundleOf[r.job]
<1>0. StoreInv /\ CommandInv /\ UNCHANGED files
    BY DEF IntakeInv, CheckBundle
<1>1. CASE Refused(r, "forbidden") \/ Refused(r, "chart")
    <2>1. Explained("forbidden", r.job) /\ Explained("chart", r.job)
        BY DEF Explained
    <2> QED BY <1>0, <1>1, <2>1, RefusedStep DEF Refusals
<1>2. CASE /\ ChartFilesHold(bundle)
           /\ requests' = (requests \ {r}) \cup {[r EXCEPT !.checked = TRUE]}
           /\ UNCHANGED <<tables, client>>
    <2> DEFINE q == [r EXCEPT !.checked = TRUE]
    <2>1. /\ q \in RequestRows /\ q.client = r.client /\ q.kind = r.kind /\ q.job = r.job
          /\ q.kind = "bundle"
        BY DEF IntakeInv, CommandInv, RequestRows, CheckBundle
    <2>2. RequestHolds(q)
        <3> HIDE DEF q
        <3> QED BY <1>2, <2>1 DEF RequestHolds, StoredBefore
    <2> HIDE DEF q
    <2>3. Grows
        BY <1>0, <1>2, TablesUnchangedGrow
    <2>4. RequestsAreAwaited'
        <3>1. \A p \in requests : p.client # Null =>
                /\ client[p.client].busy
                /\ client[p.client].step = p.kind
                /\ client[p.client].job = p.job
                /\ \A o \in requests : o.client = p.client => o = p
            BY DEF IntakeInv, CommandInv, RequestsAreAwaited
        <3>2. client' = client /\ requests' = (requests \ {r}) \cup {q}
            BY <1>2 DEF q
        <3>3. ASSUME NEW p \in requests', p.client # Null
              PROVE  /\ client[p.client].busy
                     /\ client[p.client].step = p.kind
                     /\ client[p.client].job = p.job
                     /\ \A o \in requests' : o.client = p.client => o = p
            <4>1. CASE p = q
                <5>1. r.client # Null /\ r.kind = q.kind
                    BY <2>1, <3>3, <4>1
                <5>2. \A o \in requests \ {r} : o.client # r.client
                    BY <3>1, <5>1
                <5> QED BY <2>1, <3>1, <3>2, <4>1, <5>1, <5>2
            <4>2. CASE p \in requests /\ p # r
                <5>1. r.client # p.client
                    BY <3>1, <3>3, <4>2
                <5> QED BY <2>1, <3>1, <3>2, <3>3, <4>2, <5>1
            <4> QED BY <3>2, <3>3, <4>1, <4>2
        <3> QED BY <3>2, <3>3 DEF RequestsAreAwaited
    <2>5. \A p \in requests' : RequestHolds(p)'
        <3>1. \A p : RequestHolds(p) => RequestHolds(p)'
            BY <2>3, RequestsHoldOn
        <3>2. \A p \in requests' : RequestHolds(p)
            BY <1>2, <2>2 DEF q, IntakeInv, CommandInv
        <3> QED BY <3>1, <3>2
    <2>6. \A c \in Clients : CommandHolds(client[c])'
        <3> SUFFICES ASSUME NEW c \in Clients PROVE CommandHolds(client[c])'
            OBVIOUS
        <3>1. \A k : CommandHolds(k) => CommandHolds(k)'
            BY <2>3, CommandsHoldOn
        <3>2. client'[c] = client[c] /\ CommandHolds(client[c])
            BY <1>2 DEF IntakeInv, CommandInv
        <3> QED BY <3>1, <3>2
    <2>7. requests' \subseteq RequestRows /\ client' \in [Clients -> States]
        BY <1>2, <2>1 DEF q, IntakeInv, CommandInv
    <2>8. CommandInv'
        BY <2>4, <2>5, <2>6, <2>7 DEF CommandInv
    <2>9. StoreInv'
        BY <1>0, <1>2 DEF StoreInv, TablesTypeOK, StoredChartsAreServable,
            BindingsAreOne, DecisionsAreOne, ReviewsAreOne, tables
    <2> QED BY <2>8, <2>9 DEF IntakeInv
<1> QED BY <1>1, <1>2 DEF CheckBundle

LEMMA ExhaustStep ==
    ASSUME IntakeInv, NEW r \in requests, Exhaust(r)
    PROVE  IntakeInv'
<1>1. Refused(r, "contended") /\ UNCHANGED files
    BY DEF Exhaust
<1>2. Explained("contended", r.job)
    BY DEF Explained
<1> QED BY <1>1, <1>2, RefusedStep DEF Refusals

-----------------------------------------------------------------------------
(* A command that has no request under way.                                 *)
LEMMA NoRequestOf ==
    ASSUME CommandInv, NEW c \in Clients, client[c].step \notin Kinds \/ ~client[c].busy
    PROVE  \A r \in requests : r.client # c
BY IntakeAssumption DEF CommandInv, RequestsAreAwaited, RequestRows

LEMMA StoreUntouched ==
    ASSUME StoreInv, UNCHANGED files, UNCHANGED tables
    PROVE  StoreInv'
BY DEF StoreInv, TablesTypeOK, StoredChartsAreServable, BindingsAreOne, DecisionsAreOne, ReviewsAreOne,
    tables

LEMMA SeedStep ==
    ASSUME IntakeInv, NEW c \in Clients, NEW f \in Fixtures,
           NEW first \in {"context", "bundle"}, Seed(c, f, first)
    PROVE  IntakeInv'
<1>1. UNCHANGED files /\ UNCHANGED tables /\ requests' = requests
    BY DEF Seed
<1>2. Grows /\ StoreInv'
    BY <1>1, TablesUnchangedGrow, StoreUntouched DEF IntakeInv
<1>3. PICK k : k = [Idle EXCEPT !.step = first, !.job = f]
    OBVIOUS
<1>4. /\ k \in States /\ k.step = first /\ k.job = f /\ k.refusal = Null /\ f \in Valid
    BY <1>3 DEF Seed, Valid, Idle, States, Steps, PanelNames, Kinds, Refusals
<1>5. client' = [client EXCEPT ![c] = k]
    BY <1>3 DEF Seed
<1>6. CommandHolds(k)'
    <2>1. StoredBefore(k.step, k.job)' /\ Reported(k)'
        BY <1>4 DEF StoredBefore, Reported
    <2>2. Explained(k.refusal, k.job)'
        BY <1>4, IntakeAssumption DEF Explained
    <2> QED BY <1>4, <2>1, <2>2 DEF CommandHolds
<1>7. \A r \in requests : r.client # c
    BY NoRequestOf DEF IntakeInv, Seed, Ended, Kinds
<1>8. CommandInv'
    BY <1>1, <1>2, <1>4, <1>5, <1>6, <1>7, CommandMoves DEF IntakeInv
<1> QED BY <1>2, <1>8 DEF IntakeInv

(* A step of a command that changes no table, from what it was.             *)
LEMMA CommandContinues ==
    ASSUME IntakeInv, Grows, NEW c \in Clients, requests' = requests,
           \A r \in requests : r.client # c,
           client[c].step \notin Ended,
           \E k \in States :
                /\ client' = [client EXCEPT ![c] = k]
                /\ k.job = client[c].job
                /\ \/ k.step \in {"detail", "bundle"} /\ k.refusal = client[c].refusal
                   \/ k.step = client[c].step /\ k.refusal = client[c].refusal
                   \/ k.step = "failed" /\ k.refusal \in {"file", "stopped"}
    PROVE  CommandInv'
<1>1. PICK k \in States :
                /\ client' = [client EXCEPT ![c] = k]
                /\ k.job = client[c].job
                /\ \/ k.step \in {"detail", "bundle"} /\ k.refusal = client[c].refusal
                   \/ k.step = client[c].step /\ k.refusal = client[c].refusal
                   \/ k.step = "failed" /\ k.refusal \in {"file", "stopped"}
    OBVIOUS
<1>2. CommandHolds(client[c])
    BY DEF IntakeInv, CommandInv
<1>3. k.job \in Valid
    BY <1>1, <1>2 DEF CommandHolds, Ended
<1>4. StoredBefore(k.step, k.job)
    BY <1>1, <1>2 DEF CommandHolds, StoredBefore
<1>5. Reported(k)
    BY <1>1 DEF Reported, Ended
<1>6. Explained(k.refusal, k.job)
    <2>1. CASE k.refusal = client[c].refusal
        BY <1>1, <1>2, <2>1 DEF CommandHolds
    <2>2. CASE k.refusal \in {"file", "stopped"}
        BY <2>2 DEF Explained
    <2> QED BY <1>1, <2>1, <2>2
<1>7. CommandHolds(k)
    BY <1>3, <1>4, <1>5, <1>6 DEF CommandHolds
<1>8. CommandHolds(k)'
    BY <1>7, CommandsHoldOn
<1> QED BY <1>1, <1>8, CommandMoves DEF IntakeInv

LEMMA PersistChartStep ==
    ASSUME IntakeInv, NEW c \in Clients, PersistChart(c)
    PROVE  IntakeInv'
<1> DEFINE name == PictureOf(client[c].job, client[c].step)
<1>0. /\ client[c] \in States /\ client[c].step \in {"context", "detail"}
      /\ UNCHANGED tables /\ requests' = requests
      /\ files \in [DOMAIN files -> {"half", "whole"}]
    BY DEF IntakeInv, CommandInv, StoreInv, TablesTypeOK, PersistChart, PanelNames
<1>1. /\ files' \in [DOMAIN files' -> {"half", "whole"}]
      /\ \A n \in DOMAIN files : files[n] = "whole" =>
            n \in DOMAIN files' /\ files'[n] = "whole"
    <2> HIDE DEF name
    <2>1. CASE files' = [files EXCEPT ![name] = "whole"]
        BY <1>0, <2>1
    <2>2. CASE name \notin DOMAIN files /\
               files' = [p \in DOMAIN files \cup {name} |->
                            IF p = name THEN "half" ELSE files[p]]
        BY <1>0, <2>2
    <2>3. CASE files' = files
        BY <1>0, <2>3
    <2> QED BY <2>1, <2>2, <2>3 DEF PersistChart, name
<1>2. Grows
    BY <1>0, <1>1 DEF Grows, tables
<1>3. StoreInv'
    <2>1. StoredChartsAreServable'
        BY <1>0, <1>1 DEF IntakeInv, StoreInv, StoredChartsAreServable, tables
    <2> QED BY <1>0, <1>1, <2>1
            DEF IntakeInv, StoreInv, TablesTypeOK, BindingsAreOne, DecisionsAreOne, ReviewsAreOne, tables
<1>4. NextStep[client[c].step] \in {"detail", "bundle"}
    BY <1>0 DEF NextStep
<1>5. \E k \in States :
        /\ client' = [client EXCEPT ![c] = k]
        /\ k.job = client[c].job
        /\ \/ k.step \in {"detail", "bundle"} /\ k.refusal = client[c].refusal
           \/ k.step = client[c].step /\ k.refusal = client[c].refusal
           \/ k.step = "failed" /\ k.refusal \in {"file", "stopped"}
    <2>1. CASE Advance(c)
        <3>1. PICK k : k = [client[c] EXCEPT !.step = NextStep[client[c].step], !.busy = FALSE]
            OBVIOUS
        <3>2. /\ k \in States /\ k.job = client[c].job /\ k.refusal = client[c].refusal
              /\ k.step \in {"detail", "bundle"}
            BY <1>0, <1>4, <3>1 DEF States, Steps, PanelNames, Kinds
        <3>3. client' = [client EXCEPT ![c] = k]
            BY <2>1, <3>1 DEF Advance, IntakeInv, CommandInv
        <3> QED BY <3>2, <3>3
    <2>2. CASE client' = [client EXCEPT ![c].busy = TRUE]
        <3>1. PICK k : k = [client[c] EXCEPT !.busy = TRUE]
            OBVIOUS
        <3>2. /\ k \in States /\ k.job = client[c].job /\ k.refusal = client[c].refusal
              /\ k.step = client[c].step
            BY <1>0, <3>1 DEF States
        <3>3. client' = [client EXCEPT ![c] = k]
            BY <2>2, <3>1
        <3> QED BY <3>2, <3>3
    <2>3. CASE Fail(c, "file")
        <3>1. PICK k : k = [client[c] EXCEPT !.step = "failed", !.busy = FALSE,
                                             !.refusal = "file"]
            OBVIOUS
        <3>2. /\ k \in States /\ k.job = client[c].job /\ k.refusal = "file"
              /\ k.step = "failed"
            BY <1>0, <3>1 DEF States, Steps, Ended, Refusals
        <3>3. client' = [client EXCEPT ![c] = k]
            BY <2>3, <3>1 DEF Fail
        <3> QED BY <3>2, <3>3
    <2> QED BY <2>1, <2>2, <2>3 DEF PersistChart
<1>6. client[c].step \notin Kinds /\ client[c].step \notin Ended
    BY <1>0 DEF Kinds, Ended
<1>7. \A r \in requests : r.client # c
    BY <1>6, NoRequestOf DEF IntakeInv
<1>8. CommandInv'
    BY <1>0, <1>2, <1>5, <1>6, <1>7, CommandContinues
<1> QED BY <1>3, <1>8 DEF IntakeInv

LEMMA SendStep ==
    ASSUME IntakeInv, NEW c \in Clients, Send(c)
    PROVE  IntakeInv'
<1>1. PICK q : q = [client |-> c, kind |-> client[c].step, job |-> client[c].job,
                    checked |-> FALSE]
    OBVIOUS
<1>2. /\ client[c] \in States /\ client[c].step \in Kinds /\ ~client[c].busy
      /\ CommandHolds(client[c])
    BY DEF IntakeInv, CommandInv, Send, Kinds
<1>3. /\ q \in RequestRows /\ q.client = c /\ q.kind = client[c].step
      /\ q.job = client[c].job /\ q.checked = FALSE
    BY <1>1, <1>2 DEF RequestRows, CommandHolds, Kinds
<1>4. requests' = requests \cup {q} /\ UNCHANGED tables /\ UNCHANGED files
    BY <1>1 DEF Send
<1>5. Grows /\ StoreInv'
    BY <1>4, TablesUnchangedGrow, StoreUntouched DEF IntakeInv
<1>6. PICK k : k = [client[c] EXCEPT !.busy = TRUE]
    OBVIOUS
<1>7. /\ k \in States /\ k.busy /\ k.step = client[c].step /\ k.job = client[c].job
      /\ k.refusal = client[c].refusal /\ k.report = client[c].report
    BY <1>2, <1>6 DEF States
<1>8. /\ client' = [client EXCEPT ![c] = k] /\ client' \in [Clients -> States]
      /\ client'[c] = k /\ \A d \in Clients : d # c => client'[d] = client[d]
    BY <1>6, <1>7 DEF Send, IntakeInv, CommandInv
<1>9. \A r \in requests : r.client # c
    BY <1>2, NoRequestOf DEF IntakeInv
<1>10. RequestsAreAwaited'
    <2> SUFFICES ASSUME NEW r \in requests', r.client # Null
                 PROVE  /\ client'[r.client].busy
                        /\ client'[r.client].step = r.kind
                        /\ client'[r.client].job = r.job
                        /\ \A o \in requests' : o.client = r.client => o = r
        BY DEF RequestsAreAwaited
    <2>1. CASE r = q
        BY <1>3, <1>4, <1>7, <1>8, <1>9, <2>1
    <2>2. CASE r \in requests
        <3>1. r.client \in Clients /\ r.client # c
            BY <1>9, <2>2 DEF IntakeInv, CommandInv, RequestRows
        <3>2. client'[r.client] = client[r.client]
            BY <1>8, <3>1
        <3>3. /\ client[r.client].busy
              /\ client[r.client].step = r.kind
              /\ client[r.client].job = r.job
              /\ \A o \in requests : o.client = r.client => o = r
            BY <2>2 DEF IntakeInv, CommandInv, RequestsAreAwaited
        <3> QED BY <1>3, <1>4, <3>1, <3>2, <3>3
    <2> QED BY <1>4, <2>1, <2>2
<1>11. \A r \in requests' : RequestHolds(r)'
    <2>1. RequestHolds(q)
        BY <1>2, <1>3 DEF RequestHolds, CommandHolds
    <2>2. \A r : RequestHolds(r) => RequestHolds(r)'
        BY <1>5, RequestsHoldOn
    <2> QED BY <1>4, <2>1, <2>2 DEF IntakeInv, CommandInv
<1>12. \A d \in Clients : CommandHolds(client[d])'
    <2> SUFFICES ASSUME NEW d \in Clients PROVE CommandHolds(client[d])'
        OBVIOUS
    <2>1. \A l : CommandHolds(l) => CommandHolds(l)'
        BY <1>5, CommandsHoldOn
    <2>2. CASE d = c
        <3>1. CommandHolds(k)
            BY <1>2, <1>7 DEF CommandHolds, Reported
        <3> QED BY <1>8, <2>1, <2>2, <3>1 DEF CommandHolds
    <2>3. CASE d # c
        <3>1. client'[d] = client[d] /\ CommandHolds(client[d])
            BY <1>8, <2>3 DEF IntakeInv, CommandInv
        <3> QED BY <2>1, <3>1
    <2> QED BY <2>2, <2>3
<1>13. requests' \subseteq RequestRows
    BY <1>3, <1>4 DEF IntakeInv, CommandInv
<1> QED BY <1>5, <1>8, <1>10, <1>11, <1>12, <1>13 DEF IntakeInv, CommandInv

(* A request whose command stopped is served on, and nobody waits for it.   *)
LEMMA StopCommandStep ==
    ASSUME IntakeInv, NEW c \in Clients, StopCommand(c)
    PROVE  IntakeInv'
<1> DEFINE Left(r) == IF r.client = c THEN [r EXCEPT !.client = Null] ELSE r
<1>1. UNCHANGED tables /\ UNCHANGED files /\ requests' = {Left(r) : r \in requests}
    BY DEF StopCommand
<1>2. Grows /\ StoreInv'
    BY <1>1, TablesUnchangedGrow, StoreUntouched DEF IntakeInv
<1>3. PICK k : k = [client[c] EXCEPT !.step = "failed", !.busy = FALSE, !.refusal = "stopped"]
    OBVIOUS
<1>4. /\ k \in States /\ k.step = "failed" /\ k.refusal = "stopped"
      /\ k.job = client[c].job /\ client[c].step # "idle"
    BY <1>3 DEF IntakeInv, CommandInv, States, Steps, Refusals, Ended, StopCommand
<1>5. client' = [client EXCEPT ![c] = k]
    BY <1>3 DEF StopCommand, Fail
<1>6. /\ client' \in [Clients -> States] /\ client'[c] = k
      /\ \A d \in Clients : d # c => client'[d] = client[d]
    BY <1>4, <1>5 DEF IntakeInv, CommandInv
<1>7. \A r \in requests :
        /\ Left(r) \in RequestRows /\ Left(r).kind = r.kind /\ Left(r).job = r.job
        /\ Left(r).checked = r.checked
        /\ Left(r).client # Null => Left(r) = r /\ r.client # c
    BY DEF IntakeInv, CommandInv, RequestRows
<1>8. RequestsAreAwaited'
    <2> SUFFICES ASSUME NEW p \in requests', p.client # Null
                 PROVE  /\ client'[p.client].busy
                        /\ client'[p.client].step = p.kind
                        /\ client'[p.client].job = p.job
                        /\ \A o \in requests' : o.client = p.client => o = p
        BY DEF RequestsAreAwaited
    <2>1. p \in requests /\ p.client # c /\ p.client \in Clients
        BY <1>1, <1>7 DEF IntakeInv, CommandInv, RequestRows
    <2>2. client'[p.client] = client[p.client]
        BY <1>6, <2>1
    <2>3. /\ client[p.client].busy
          /\ client[p.client].step = p.kind
          /\ client[p.client].job = p.job
          /\ \A o \in requests : o.client = p.client => o = p
        BY <2>1 DEF IntakeInv, CommandInv, RequestsAreAwaited
    <2>4. \A o \in requests' : o.client = p.client => o \in requests
        BY <1>1, <1>7
    <2> QED BY <2>2, <2>3, <2>4
<1>9. \A p \in requests' : RequestHolds(p)'
    <2>1. \A r \in requests : RequestHolds(Left(r))
        <3> SUFFICES ASSUME NEW r \in requests PROVE RequestHolds(Left(r))
            OBVIOUS
        <3>1. RequestHolds(r) /\ Left(r).kind = r.kind /\ Left(r).job = r.job
              /\ Left(r).checked = r.checked
            BY <1>7 DEF IntakeInv, CommandInv
        <3> HIDE DEF Left
        <3> QED BY <3>1 DEF RequestHolds
    <2>2. \A r : RequestHolds(r) => RequestHolds(r)'
        BY <1>2, RequestsHoldOn
    <2> QED BY <1>1, <2>1, <2>2
<1>10. \A d \in Clients : CommandHolds(client[d])'
    <2> SUFFICES ASSUME NEW d \in Clients PROVE CommandHolds(client[d])'
        OBVIOUS
    <2>1. \A l : CommandHolds(l) => CommandHolds(l)'
        BY <1>2, CommandsHoldOn
    <2>2. CASE d = c
        <3>1. CommandHolds(k)
            <4>1. k.job \in Valid
                BY <1>4 DEF IntakeInv, CommandInv, CommandHolds
            <4>2. StoredBefore(k.step, k.job) /\ Reported(k) /\ Explained(k.refusal, k.job)
                BY <1>4 DEF StoredBefore, Reported, Explained
            <4> QED BY <4>1, <4>2 DEF CommandHolds
        <3> QED BY <1>6, <2>1, <2>2, <3>1 DEF CommandHolds
    <2>3. CASE d # c
        <3>1. client'[d] = client[d] /\ CommandHolds(client[d])
            BY <1>6, <2>3 DEF IntakeInv, CommandInv
        <3> QED BY <2>1, <3>1
    <2> QED BY <2>2, <2>3
<1>11. requests' \subseteq RequestRows
    BY <1>1, <1>7
<1> QED BY <1>2, <1>6, <1>8, <1>9, <1>10, <1>11 DEF IntakeInv, CommandInv

LEMMA StopServerStep ==
    ASSUME IntakeInv, StopServer
    PROVE  IntakeInv'
<1>1. UNCHANGED tables /\ UNCHANGED files /\ requests' = {}
    BY DEF StopServer
<1>2. Grows /\ StoreInv'
    BY <1>1, TablesUnchangedGrow, StoreUntouched DEF IntakeInv
<1>3. ASSUME NEW c \in Clients
      PROVE  client'[c] \in States /\ CommandHolds(client[c])'
    <2>0. client[c] \in States /\ CommandHolds(client[c])
        BY DEF IntakeInv, CommandInv
    <2>1. \A l : CommandHolds(l) => CommandHolds(l)'
        BY <1>2, CommandsHoldOn
    <2>2. CASE \E r \in requests : r.client = c
        <3>1. PICK k : k = [client[c] EXCEPT !.step = "failed", !.busy = FALSE,
                                             !.refusal = "stopped"]
            OBVIOUS
        <3>2. client'[c] = k
            BY <2>2, <3>1 DEF StopServer
        <3>3. /\ k \in States /\ k.step = "failed" /\ k.refusal = "stopped"
              /\ k.job = client[c].job
            BY <2>0, <3>1 DEF States, Steps, Refusals, Ended
        <3>4. client[c].step # "idle"
            BY <2>2, IntakeAssumption
               DEF IntakeInv, CommandInv, RequestsAreAwaited, RequestRows, Kinds
        <3>5. CommandHolds(k)
            <4>1. k.job \in Valid
                BY <2>0, <3>3, <3>4 DEF CommandHolds
            <4>2. StoredBefore(k.step, k.job) /\ Reported(k) /\ Explained(k.refusal, k.job)
                BY <3>3 DEF StoredBefore, Reported, Explained
            <4> QED BY <4>1, <4>2 DEF CommandHolds
        <3> QED BY <2>1, <3>2, <3>3, <3>5 DEF CommandHolds
    <2>3. CASE ~\E r \in requests : r.client = c
        <3>1. client'[c] = client[c]
            BY <2>3 DEF StopServer
        <3> QED BY <2>0, <2>1, <3>1
    <2> QED BY <2>2, <2>3
<1>4. client' \in [Clients -> States]
    BY <1>3 DEF StopServer
<1>5. CommandInv'
    BY <1>1, <1>3, <1>4 DEF CommandInv, RequestsAreAwaited
<1> QED BY <1>2, <1>5 DEF IntakeInv

-----------------------------------------------------------------------------
LEMMA IntakeInit == Init => IntakeInv
<1> SUFFICES ASSUME Init PROVE IntakeInv
    OBVIOUS
<1>1. /\ files = << >> /\ cases = {} /\ metadata = {} /\ bindings = {}
      /\ decisions = {} /\ reviews = {} /\ requests = {}
      /\ client = [c \in Clients |-> Idle]
    BY DEF Init
<1>2. StoreInv
    <2>1. files \in [DOMAIN files -> {"half", "whole"}]
        BY <1>1
    <2> QED BY <1>1, <2>1 DEF StoreInv, TablesTypeOK, StoredChartsAreServable,
            BindingsAreOne, DecisionsAreOne, ReviewsAreOne
<1>3. PICK k : k = Idle
    OBVIOUS
<1>4. k \in States /\ k.step = "idle" /\ k.refusal = Null
    BY <1>3 DEF Idle, States, Steps, Ended, Refusals
<1>5. CommandHolds(k)
    BY <1>4, IntakeAssumption DEF CommandHolds, StoredBefore, Reported, Explained
<1>6. CommandInv
    BY <1>1, <1>3, <1>4, <1>5 DEF CommandInv, RequestsAreAwaited
<1> QED BY <1>2, <1>6 DEF IntakeInv

LEMMA IntakeStep == IntakeInv /\ [Next]_vars => IntakeInv'
<1> SUFFICES ASSUME IntakeInv, [Next]_vars PROVE IntakeInv'
    OBVIOUS
<1>1. ASSUME NEW c \in Clients, NEW f \in Fixtures, NEW first \in {"context", "bundle"},
             Seed(c, f, first)
      PROVE  IntakeInv'
    BY <1>1, SeedStep
<1>2. ASSUME NEW c \in Clients, PersistChart(c) \/ Send(c) \/ StopCommand(c)
      PROVE  IntakeInv'
    BY <1>2, PersistChartStep, SendStep, StopCommandStep
<1>3. ASSUME NEW r \in requests, Serve(r)
      PROVE  IntakeInv'
    BY <1>3, CheckBundleStep, AppendBundleStep, AppendDecisionStep, AppendReviewStep,
       ReadAuditStep, ExhaustStep DEF Serve
<1>4. CASE StopServer
    BY <1>4, StopServerStep
<1>5. CASE UNCHANGED vars
    <2>1. UNCHANGED tables /\ UNCHANGED files /\ requests' = requests /\ client' = client
        BY <1>5 DEF vars, tables
    <2>2. Grows /\ StoreInv'
        BY <2>1, TablesUnchangedGrow, StoreUntouched DEF IntakeInv
    <2>3. \A c \in Clients : CommandHolds(client[c])'
        BY <2>1, <2>2, CommandsHoldOn DEF IntakeInv, CommandInv
    <2>4. \A r \in requests' : RequestHolds(r)'
        BY <2>1, <2>2, RequestsHoldOn DEF IntakeInv, CommandInv
    <2>5. RequestsAreAwaited'
        BY <2>1 DEF IntakeInv, CommandInv, RequestsAreAwaited
    <2>6. CommandInv'
        BY <2>1, <2>3, <2>4, <2>5 DEF IntakeInv, CommandInv
    <2> QED BY <2>2, <2>6 DEF IntakeInv
<1> QED BY <1>1, <1>2, <1>3, <1>4, <1>5 DEF Next

(* The inductive invariant of the store and its commands: rows of fixtures, *)
(* one waiting command per request, whole charts behind every checked       *)
(* bundle, and at each request everything its command was told is stored.   *)
THEOREM IntakeSafe == Spec => []IntakeInv
BY IntakeInit, IntakeStep, PTL DEF Spec

(* Whatever commands and servers stop on the way, a stored bundle is served *)
(* with the charts of its own Case, whole (persistArtifact,                 *)
(* verifyChartArtifactFiles, appendCaseBundle).                             *)
THEOREM ChartsAreServable == Spec => []StoredChartsAreServable
<1>1. IntakeInv => StoredChartsAreServable
    BY DEF IntakeInv, StoreInv
<1> QED BY <1>1, IntakeSafe, PTL

(* A command that ends well reports its own fixture, and all of it is       *)
(* stored (the seed-synthetic command, getAudit).                           *)
THEOREM AuditsAreTrue == Spec => []ReportsAreTrue
<1>1. IntakeInv => ReportsAreTrue
    BY DEF IntakeInv, CommandInv, CommandHolds, Reported, ReportsAreTrue
<1> QED BY <1>1, IntakeSafe, PTL

(* A command is refused for a conflict only where other content of its Case *)
(* or of its decision is stored, and never for an ambiguity or for want of  *)
(* a parent (insertImmutableRecord and the parent reads of case-store).     *)
THEOREM RefusalsStandExplained == Spec => []RefusalsAreExplained
<1>1. IntakeInv => RefusalsAreExplained
    BY DEF IntakeInv, CommandInv, CommandHolds, Explained, ConflictExplained,
       RefusalsAreExplained
<1> QED BY <1>1, IntakeSafe, PTL
=============================================================================
