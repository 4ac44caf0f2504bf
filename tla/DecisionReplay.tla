--------------------------- MODULE DecisionReplay ---------------------------
(* From a closed bar to a replayed decision: the records that a scheduled   *)
(* model call, its audit, its decision, the frozen result and the replay    *)
(* leave behind, and the comparisons each contract makes before it creates  *)
(* the next one (model-call-schedule, policy-input, model-run-audit,        *)
(* brooks-decision and replay-boundary of packages/contracts/src).          *)
(*                                                                         *)
(* The contracts are pure functions.  Whoever calls them holds records of   *)
(* many windows at once, so every step below takes any combination of the   *)
(* records that exist; only the guards of the contract keep them together.  *)
EXTENDS BrooksDecision, ModelCallSchedule, PolicyInput

CONSTANTS
    Market,       \* Market[s]: the bars of stream s, in the order they close
    Live,         \* the stream whose bars close while the calls are made
    CaseIds,      \* caller-chosen case identifiers, not unique by contract
    Candidates,   \* model candidates
    Response,     \* Response[r]: the identity-free model responses
    Doctrine,     \* the approved Doctrine; every input records all of it
    Datasets,     \* dataset authorizations a caller holds
    Policies,     \* experiment policies a caller holds
    MaxCalls      \* bound: calls issued in one behaviour

ASSUME ReplayAssumption ==
    /\ Live \in DOMAIN Market
    /\ MaxCalls \in Nat
    /\ Cardinality(Candidates) >= 2

(* The bars of a stream are numbered in the order they close.  A price is a *)
(* whole number of ticks.                                                   *)
ASSUME MarketAssumption ==
    \A s \in DOMAIN Market :
        /\ Len(Market[s]) \in Nat /\ DOMAIN Market[s] = 1..Len(Market[s])
        /\ \A i \in DOMAIN Market[s] :
            /\ DOMAIN Market[s][i] =
                PriceFields \cup {"id", "sequence", "continuity", "closed"}
            /\ Market[s][i].sequence \in Nat
            /\ \A field \in PriceFields : Market[s][i][field] \in Nat
        /\ \A i, j \in DOMAIN Market[s] :
            i < j => Market[s][i].sequence < Market[s][j].sequence

VARIABLES
    closed,       \* how many bars of the live stream have closed
    schedule,     \* the continuous schedule state of the live stream
    calls,        \* the model calls issued so far
    audit,        \* the latest model run audit, or Null
    decision,     \* the latest decision, or Null
    shown,        \* the visible bars that decision was validated against
    results,      \* the frozen results, one at a time
    replay        \* the latest replay request with its result, or Null

replayVars == <<closed, schedule, calls, audit, decision, shown, results, replay>>

Streams == DOMAIN Market

(* The other streams closed long ago. *)
Bars(s, n) ==
    [i \in DOMAIN Market[s] |->
        [Market[s][i] EXCEPT !.closed = s # Live \/ i <= n]]

Window(s, first, last, id, n) ==
    [id |-> id, stream |-> s,
     bars |-> [SubSeq(Bars(s, n), first, last) EXCEPT ![1].continuity = "unknown"],
     lastVisible |-> Market[s][last].id,
     leftCensored |-> last - first + 1 < ContextBars]

(* The windows that are a policy Case once n bars of the live stream have   *)
(* closed, and the inputs they give.                                        *)
CasesAfter ==
    LET Windows(s, n) ==
            UNION {{Window(s, first, last, id, n) : first \in 1..last, id \in CaseIds} :
                    last \in DOMAIN Market[s]}
    IN [n \in 0..Len(Market[Live]) |->
            {c \in UNION {Windows(s, n) : s \in Streams} : CaseHolds(c)}]

InputsAfter ==
    [n \in 0..Len(Market[Live]) |->
        {PolicyInput(c, Charts(AnonymousMarket(c)), Doctrine) : c \in CasesAfter[n]}]

Cases == CasesAfter[closed]
Inputs == InputsAfter[closed]

LastBar(case) == case.bars[Len(case.bars)]

ReplayInit ==
    /\ closed = 0
    /\ schedule = EmptySchedule(Live, CHOOSE c \in Candidates : TRUE)
    /\ calls = {}
    /\ audit = Null
    /\ decision = Null
    /\ shown = << >>
    /\ results = {}
    /\ replay = Null

-----------------------------------------------------------------------------
(* The stream and the calls.                                                *)

CloseBar ==
    /\ closed < Len(Market[Live])
    /\ closed' = closed + 1
    /\ UNCHANGED <<schedule, calls, audit, decision, shown, results, replay>>

(* Decision points reach the scheduler late, twice, early, out of order or  *)
(* under another input; only one answer changes anything.                   *)
Deliver ==
    /\ Cardinality(calls) < MaxCalls
    /\ \E s \in Streams, policy \in {EveryClose, "sampled.v1"}, input \in Inputs :
       \E i \in DOMAIN Market[s] :
        LET point == Point(s, Bars(s, closed)[i], input, policy)
        IN  /\ Verdict(schedule, point) = "scheduled"
            /\ calls' = calls \cup
                {ModelCall("continuous_every_close", point, schedule.candidate, 0)}
            /\ schedule' = Advanced(schedule, point)
    /\ UNCHANGED <<closed, audit, decision, shown, results, replay>>

(* The sampled calls of a behaviour are planned before any other.           *)
PlanEvaluation ==
    /\ calls = {}
    /\ \E policy \in {EveryClose, "sampled.v1"}, frozen \in BOOLEAN :
       \E first, second \in UNION {{Point(s, Bars(s, closed)[i], input, "sampled.v1") :
                    i \in DOMAIN Market[s], input \in Inputs} : s \in Streams} :
       \E points \in {{first, second}} :
        /\ Cardinality(points) * Cardinality(Candidates) <= MaxCalls
        /\ SelectionHolds([policy |-> policy, frozen |-> frozen], points, Candidates)
        /\ calls' = EvaluationCalls(points, Candidates, 1)
    /\ UNCHANGED <<closed, schedule, audit, decision, shown, results, replay>>

-----------------------------------------------------------------------------
(* createModelRunRecord, createProviderAttemptRecord and                    *)
(* createModelRunAuditRecord.  Only a received response is audited; a       *)
(* failed attempt leaves no audit behind.                                   *)

(* A mutant: the input is taken at the word of its caller. *)
RunOnAnyInput(call, case, input) ==
    /\ InputHolds(input)
    /\ call.stream = case.stream
    /\ call.bar = case.lastVisible
    /\ call.sequence = LastBar(case).sequence
    /\ call.input = input

RunHolds(call, case, input) ==
    /\ InputHolds(input)
    /\ call.stream = case.stream
    /\ call.bar = case.lastVisible
    /\ call.sequence = LastBar(case).sequence
    /\ ChartsHold(input.charts, AnonymousMarket(case))
    /\ PolicyInput(case, input.charts, input.doctrine) = input
    /\ call.input = input

OutcomeHolds(attempt, status, decided, rejectionCodes) ==
    /\ attempt = "response_received"
    /\ status = "accepted" => decided # Null /\ rejectionCodes = {}
    /\ status = "rejected" => rejectionCodes # {}

Audit ==
    /\ \E call \in calls, case \in Cases, input \in Inputs :
        /\ RunHolds(call, case, input)
        /\ \E attempt \in {"response_received", "timeout"},
              status \in {"accepted", "rejected"},
              decided \in {Null, decision},
              codes \in SUBSET {"semantic_rejection"} :
            /\ OutcomeHolds(attempt, status, decided, codes)
            /\ audit' = [call |-> call, case |-> case, input |-> input,
                         status |-> status, decided |-> decided # Null]
    /\ UNCHANGED <<closed, schedule, calls, decision, shown, results, replay>>

-----------------------------------------------------------------------------
(* createBrooksDecision, by way of the response validator.  The Case and    *)
(* the input are named by the binding; the bars and the Doctrine come       *)
(* beside it, and no contract compares them with that input.  The bars are  *)
(* in the hash of the validation's context, not in that of the decision.    *)

Decide ==
    /\ \E r \in DOMAIN Response : \E response \in {Response[r]}, visible \in Inputs,
          retrieved \in SUBSET Doctrine, lastVisible \in 1..ContextBars :
        /\ ResponseHolds(response, lastVisible, visible.market.bars, retrieved)
        /\ shown' = visible.market.bars
        /\ \E id \in CaseIds, input \in Inputs :
            decision' = [case |-> id, input |-> input, lastVisible |-> lastVisible,
                         response |-> r]
    /\ UNCHANGED <<closed, schedule, calls, audit, results, replay>>

(* createFrozenModelResult: any issued call, any decision, either status.   *)
Freeze ==
    /\ results = {}
    /\ decision # Null
    /\ \E call \in calls, status \in {"accepted", "rejected"} :
        results' = {FrozenResult(call, decision, status)}
    /\ UNCHANGED <<closed, schedule, calls, audit, decision, shown, replay>>

-----------------------------------------------------------------------------
(* The replay boundary.  One execution event per policy bar: event i of a   *)
(* stream has sequence i and the i-th bar as its parent.                    *)

DatasetHolds(dataset) ==
    /\ dataset.scope = "exact_slice"
    /\ dataset.purpose = "research_replay"
    /\ dataset.immutable
    /\ dataset.protectedWindow = "passed"
    /\ dataset.authority = "calvin"

PolicyHolds(policy) == policy.frozen /\ ~ policy.mutable

(* createPostDecisionExecutionDataProvenance: coverage is after the cutoff  *)
(* the provenance itself names.                                             *)
ProvenanceHolds(p) ==
    LET cutoff == Market[p.stream][p.cutoff]
        first == Market[p.stream][p.first]
    IN  /\ DatasetHolds(p.dataset)
        /\ first.sequence > cutoff.sequence
        /\ first.id # cutoff.id
        /\ p.last >= p.first

DecisionBinds(case, input) ==
    /\ decision.case = case.id
    /\ decision.input = input
    /\ decision.lastVisible = input.market.lastVisible

ResultBinds(result, case, input) ==
    /\ result.status = "accepted"
    /\ result.call.stream = case.stream
    /\ result.call.bar = case.lastVisible
    /\ result.call.sequence = LastBar(case).sequence
    /\ result.call.input = input
    /\ result.decision = decision

(* A mutant: the cutoff the coverage follows is not the decision's. *)
AnyCutoffBinds(p, result, case, input, dataset) ==
    /\ p.dataset = dataset
    /\ p.case = case
    /\ p.input = input
    /\ p.decision = decision
    /\ p.stream = case.stream

ProvenanceBinds(p, result, case, input, dataset) ==
    /\ p.dataset = dataset
    /\ p.case = case
    /\ p.input = input
    /\ p.decision = decision
    /\ p.stream = case.stream
    /\ Market[p.stream][p.cutoff].id = result.call.bar
    /\ Market[p.stream][p.cutoff].sequence = result.call.sequence

Provenances(s) ==
    [dataset : Datasets, case : Cases, input : Inputs, decision : {decision},
     stream : {s}, cutoff : DOMAIN Market[s], first : DOMAIN Market[s],
     last : DOMAIN Market[s]]

Request ==
    /\ decision # Null
    /\ BundleHolds(results)
    /\ \E result \in results, case \in Cases, input \in Inputs,
          dataset \in Datasets, policy \in Policies :
        /\ DecisionBinds(case, input)
        /\ ResultBinds(result, case, input)
        /\ AnonymousMarket(case) = input.market
        /\ CaseHolds(case) /\ InputHolds(input) /\ PolicyHolds(policy)
        /\ \E s \in Streams : \E p \in Provenances(s) :
            /\ ProvenanceHolds(p)
            /\ ProvenanceBinds(p, result, case, input, dataset)
            /\ replay' = [case |-> case, decision |-> decision, call |-> result.call,
                          stream |-> s, first |-> p.first, last |-> p.last,
                          state |-> "requested", at |-> Null]
    /\ UNCHANGED <<closed, schedule, calls, audit, decision, shown, results>>

TerminalHolds(state, at, range, artifacts) ==
    /\ state = "rejected" <=> artifacts = {}
    /\ state = "rejected" => at = Null
    /\ state \in {"resolved", "right_censored"} => at \in range
    /\ state = "unresolved" => at \in range \cup {Null}

(* createReplayResult: the sidecar's answer, kept inside the range. *)
Resolve ==
    /\ replay # Null
    /\ replay.state = "requested"
    /\ \E state \in {"rejected", "resolved", "unresolved", "right_censored"},
          at \in DOMAIN Market[replay.stream] \cup {Null},
          artifacts \in SUBSET {"sidecar"} :
        /\ TerminalHolds(state, at, replay.first..replay.last, artifacts)
        /\ replay' = [replay EXCEPT !.state = state, !.at = at]
    /\ UNCHANGED <<closed, schedule, calls, audit, decision, shown, results>>

(* Bound: an audit or a replay is the last record of a behaviour, since no  *)
(* other contract reads one.                                                *)
Open == audit = Null /\ replay = Null

ReplayNext ==
    \/ /\ Open
       /\ \/ CloseBar \/ Deliver \/ PlanEvaluation
          \/ Audit \/ Decide \/ Freeze \/ Request
    \/ Resolve

ReplaySpec == ReplayInit /\ [][ReplayNext]_replayVars

-----------------------------------------------------------------------------

(* The continuous mode calls the model at most once per bar, in the order   *)
(* of the stream, and never for a bar that has not closed, however decision *)
(* points are repeated, delayed, reordered or renumbered: a bar identifier  *)
(* that comes back at a later sequence is not called again.                 *)
CallsFollowTheStream ==
    [][\A call \in calls' \ calls : call.mode = "continuous_every_close" =>
        /\ \E i \in 1..closed : /\ Market[Live][i].sequence = call.sequence
                                /\ Market[Live][i].id = call.bar
        /\ \A earlier \in calls : earlier.mode = call.mode =>
            earlier.sequence < call.sequence /\ earlier.bar # call.bar]_replayVars

(* What the audited provider call was shown is the anonymous market of a    *)
(* Case whose last bar is the one the call was scheduled for, and every bar *)
(* of it had closed, although the input, the Case and the call reach the    *)
(* audit from different hands.                                              *)
NoFutureReachesTheModel ==
    audit # Null =>
        /\ audit.call \in calls
        /\ audit.input.market = AnonymousMarket(audit.case)
        /\ audit.case \in Cases
        /\ audit.call.sequence = LastBar(audit.case).sequence

(* The anchors a response cites; only a stop entry has one. *)
Cited(r) ==
    LET drawn == UNION {{r.structures[s].anchors[i] :
                           i \in DOMAIN r.structures[s].anchors} :
                         s \in DOMAIN r.structures}
        planned == {r.plan.cancellation.anchor, r.plan.invalidation.anchor,
                    r.plan.protection.anchor}
        entered == IF r.plan.entry.type = "stop" THEN {r.plan.entry.anchor} ELSE {}
    IN  IF r.plan = Null THEN drawn ELSE drawn \cup planned \cup entered

(* A plan that was accepted quotes prices the market really printed: each   *)
(* price it cites is, once the normalisation and its rounding are undone, a *)
(* price of a closed bar of any window that looks as the validator saw it.  *)
(* So a replayed Case has printed the prices of its plan whenever the       *)
(* validator was shown the bars of the input the decision names; no         *)
(* contract sees to that.                                                   *)
PlansQuoteTheMarket ==
    decision # Null =>
        \A case \in Cases, anchor \in Cited(Response[decision.response]) :
            AnonymousMarket(case).bars = shown =>
                /\ anchor.bar \in DOMAIN case.bars
                /\ case.bars[anchor.bar].closed
                /\ LET printed == NormalizedFirstClose
                                    * case.bars[anchor.bar][anchor.field]
                   IN  /\ anchor.price * case.bars[1].close <= printed
                       /\ printed < (anchor.price + 1) * case.bars[1].close

(* A replay runs a decision on its own stream and strictly after every bar  *)
(* the decision could have seen: whatever event ends it, and whatever       *)
(* records of other windows and streams the request was assembled from.     *)
ReplayIsCausal ==
    replay # Null =>
        /\ replay.call \in calls
        /\ replay.stream = replay.case.stream
        /\ replay.decision.input.market = AnonymousMarket(replay.case)
        /\ \A i \in DOMAIN replay.case.bars, e \in replay.first..replay.last :
            replay.case.bars[i].sequence < Market[replay.stream][e].sequence
        /\ replay.at # Null => replay.at \in replay.first..replay.last
=============================================================================
