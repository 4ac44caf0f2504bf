--------------------------- MODULE MultiTimeframe ---------------------------
(* A decision on three timeframes: the Case that is cut out of a feed at    *)
(* one instant, the anonymous market it normalises to, and the validation   *)
(* of a response against that market (brooks-multi-timeframe-input-v1.ts of *)
(* packages/contracts/src, brooks-multi-timeframe-response-validation-v1.ts *)
(* of packages/persistence-contracts/src).                                  *)
(*                                                                         *)
(* Time counts five-minute intervals.  The feed is external: it says how a  *)
(* bar of a timeframe looked at an instant, and a caller may hold what it   *)
(* said at several instants and of several instruments.                     *)
EXTENDS BrooksDecision

CONSTANTS
    NotSupplied,    \* the reference a caller did not supply
    Feeds,          \* Feeds[f][i]: interval i of feed f, or Null when it was lost
    Span,           \* Span[tf]: intervals of a bar, by the session profile
    PrimaryMin,     \* fewest finalized five-minute bars of a Case
    PrimaryMax,     \* bars of a Case that is not left-censored
    ReferenceMax,   \* most bars of a reference
    Precision,      \* bits of a significand (53 in the runtime)
    Doctrine,       \* approved Doctrine retrieved for the input
    Responses,      \* model responses
    Horizon         \* bound: intervals that pass in one behaviour

ASSUME MultiTimeframeAssumption ==
    /\ PrimaryMin \in Nat /\ PrimaryMax \in Nat /\ 0 < PrimaryMin
    /\ PrimaryMin <= PrimaryMax
    /\ Precision \in Nat /\ Precision > 7
    /\ DOMAIN Span = {"5m", "60m", "1d"} /\ Span["5m"] = 1
    /\ \A tf \in DOMAIN Span : Span[tf] \in Nat \ {0}
    /\ Horizon \in Nat
    /\ \A f \in DOMAIN Feeds : DOMAIN Feeds[f] = 1..Horizon

VARIABLES
    now,        \* intervals that have passed
    case,       \* the Case made, or Null
    input,      \* its policy input, or Null
    verdict     \* the last response that was accepted, or Null

timeframeVars == <<now, case, input, verdict>>

Timeframes == {"5m", "60m", "1d"}
References == {"60m", "1d"}

-----------------------------------------------------------------------------
(* What a feed says at an instant (external).                               *)

Heard(f, from, to) == {i \in from + 1..to : Feeds[f][i] # Null}

(* Bar n of a timeframe as the feed describes it at instant t. *)
BarAt(f, tf, n, t) ==
    LET start == (n - 1) * Span[tf]
        end == n * Span[tf]
        heard == Heard(f, start, IF end < t THEN end ELSE t)
        last == CHOOSE i \in heard : \A j \in heard : j <= i
        first == CHOOSE i \in heard : \A j \in heard : i <= j
    IN  [source |-> <<f, tf, n>>, feed |-> f, timeframe |-> tf,
         start |-> start, end |-> end, snapshot |-> t,
         lifecycle |-> IF end <= t THEN "finalized" ELSE "provisional",
         low |-> Feeds[f][CHOOSE i \in heard :
                            \A j \in heard : Feeds[f][i].low <= Feeds[f][j].low].low,
         high |-> Feeds[f][CHOOSE i \in heard :
                            \A j \in heard : Feeds[f][i].high >= Feeds[f][j].high].high,
         open |-> Feeds[f][first].close, close |-> Feeds[f][last].close,
         newest |-> last, continuity |-> "contiguous",
         progress |-> IF end <= t THEN Null ELSE t - start]

(* Bars m to n, less those of which nothing was heard; a feed that does not *)
(* know of a loss calls its bars contiguous.                                *)
Fetched(f, tf, m, n, t, knowsGaps) ==
    LET present == {k \in m..n : Heard(f, (k - 1) * Span[tf], t)
                                    \cap 1..k * Span[tf] # {}}
        place(k) == Cardinality({j \in present : j < k})
        number == [i \in 1..Cardinality(present) |->
                    CHOOSE k \in present : place(k) = i - 1]
    IN  [i \in DOMAIN number |->
            [BarAt(f, tf, number[i], t) EXCEPT !.continuity =
                IF i = 1 THEN "unknown_left_boundary"
                ELSE IF knowsGaps /\ number[i] > number[i - 1] + 1
                     THEN "missing_data" ELSE "contiguous"]]

-----------------------------------------------------------------------------
(* The Case.                                                                *)

Finalized(bar) == bar.lifecycle = "finalized"

ContinuityHolds(bars, i) ==
    LET bar == bars[i]
    IN  IF i = 1
        THEN bar.continuity = "unknown_left_boundary"
        ELSE /\ bar.continuity # "unknown_left_boundary"
             /\ bar.start >= bars[i - 1].end
             /\ bar.continuity = "contiguous" => bar.start = bars[i - 1].end
             /\ bar.continuity = "missing_data" => bar.start > bars[i - 1].end

LifecycleHolds(bar, cutoff) ==
    IF Finalized(bar)
    THEN bar.progress = Null /\ bar.end <= cutoff
    ELSE /\ bar.progress \in 0..Span[bar.timeframe] - 1
         /\ bar.start < cutoff /\ cutoff < bar.end

OhlcHolds(bar) ==
    /\ bar.low <= bar.open /\ bar.low <= bar.close
    /\ bar.high >= bar.open /\ bar.high >= bar.close

(* A mutant: a bar may have been fetched at any instant. *)
BarsOfAnySnapshot(bars, tf, cutoff, feed) ==
    \A i \in DOMAIN bars :
        /\ bars[i].timeframe = tf
        /\ bars[i].start < bars[i].end
        /\ ContinuityHolds(bars, i)
        /\ LifecycleHolds(bars[i], cutoff)
        /\ bars[i].feed = feed
        /\ OhlcHolds(bars[i])

BarsOfCase(bars, tf, cutoff, feed) ==
    \A i \in DOMAIN bars :
        /\ bars[i].timeframe = tf
        /\ bars[i].snapshot = cutoff
        /\ bars[i].start < bars[i].end
        /\ tf = "5m" => bars[i].end = bars[i].start + 1
        /\ ContinuityHolds(bars, i)
        /\ LifecycleHolds(bars[i], cutoff)
        /\ bars[i].feed = feed
        /\ \A j \in DOMAIN bars : bars[i].source = bars[j].source => i = j
        /\ OhlcHolds(bars[i])

PrimaryHolds(bars, cutoff, feed) ==
    /\ Len(bars) \in PrimaryMin..PrimaryMax
    /\ BarsOfCase(bars, "5m", cutoff, feed)
    /\ \A i \in DOMAIN bars : Finalized(bars[i])
    /\ bars[Len(bars)].end = cutoff

ReferenceHolds(bars, tf, cutoff, feed) ==
    bars # NotSupplied =>
        /\ Len(bars) <= ReferenceMax
        /\ \A i \in DOMAIN bars : ~ Finalized(bars[i]) => i = Len(bars)
        /\ BarsOfCase(bars, tf, cutoff, feed)

(* A Case handed on is put to the same test again. *)
CaseHolds(c) ==
    /\ PrimaryHolds(c.primary, c.cutoff, c.feed)
    /\ \A tf \in References : ReferenceHolds(c.references[tf], tf, c.cutoff, c.feed)

-----------------------------------------------------------------------------
(* Normalisation.  The code multiplies a price by a scale it has rounded    *)
(* already, so a price is rounded twice; a normalised price is kept in      *)
(* units of 2^-Precision.                                                   *)

Unit == 2 ^ Precision
NormalizedBase == 100 * Unit

(* a / b in units, to the nearest number of Precision bits, ties to even. *)
Rounded(a, b) ==
    LET ulp == 2 ^ (CHOOSE k \in 0..Precision :
                        /\ a < b * Unit * 2 ^ k
                        /\ \A j \in 0..k - 1 : a >= b * Unit * 2 ^ j)
        quotient == a \div (b * ulp)
        rest == a % (b * ulp)
    IN  IF 2 * rest > b * ulp \/ (2 * rest = b * ulp /\ quotient % 2 = 1)
        THEN (quotient + 1) * ulp
        ELSE quotient * ulp

NormalizePrice(price, base) == Rounded(price * Rounded(NormalizedBase, base), 1)

NormalizeBars(bars, base) ==
    [i \in DOMAIN bars |->
        [id |-> <<bars[i].timeframe, bars[i].lifecycle, i>>,
         low |-> NormalizePrice(bars[i].low, base),
         open |-> NormalizePrice(bars[i].open, base),
         close |-> NormalizePrice(bars[i].close, base),
         high |-> NormalizePrice(bars[i].high, base),
         continuity |-> bars[i].continuity,
         progress |-> bars[i].progress]]

AnonymousMarket(c) ==
    LET base == c.primary[1].close
    IN  [primary |-> NormalizeBars(c.primary, base),
         leftCensored |-> Len(c.primary) < PrimaryMax,
         references |-> [tf \in References |->
            IF c.references[tf] = NotSupplied THEN NotSupplied
            ELSE NormalizeBars(c.references[tf], base)]]

(* A market of unknown origin. *)
AnonymousBarsHold(bars, tf) ==
    \A i \in DOMAIN bars :
        /\ bars[i].id[1] = tf /\ bars[i].id[3] = i
        /\ (i = 1) <=> (bars[i].continuity = "unknown_left_boundary")
        /\ OhlcHolds(bars[i])
        /\ (bars[i].id[2] = "finalized") <=> (bars[i].progress = Null)

MarketHolds(market) ==
    /\ AnonymousBarsHold(market.primary, "5m")
    /\ Len(market.primary) \in PrimaryMin..PrimaryMax
    /\ \A i \in DOMAIN market.primary : market.primary[i].id[2] = "finalized"
    /\ market.leftCensored <=> Len(market.primary) < PrimaryMax
    /\ market.primary[1].close = NormalizedBase
    /\ \A tf \in References : market.references[tf] # NotSupplied =>
        LET bars == market.references[tf]
        IN  /\ AnonymousBarsHold(bars, tf)
            /\ Len(bars) <= ReferenceMax
            /\ \A i \in DOMAIN bars : bars[i].id[2] = "provisional" => i = Len(bars)

(* A chart lists the bars of its panel; the hash of its image is compared   *)
(* with nothing here, and is left out.                                      *)
ChartOf(bars) == IF bars = NotSupplied THEN NotSupplied
                 ELSE [i \in DOMAIN bars |-> bars[i].id]

Charts(market) ==
    LET primary == market.primary
    IN  [context |-> ChartOf(primary),
         detail |-> ChartOf(SubSeq(primary, Len(primary) - PrimaryMin + 1, Len(primary))),
         references |-> [tf \in References |-> ChartOf(market.references[tf])]]

ChartsHold(charts, market) == charts = Charts(market)

PolicyInput(c, charts) == [market |-> AnonymousMarket(c), charts |-> charts]

InputHolds(policyInput) ==
    /\ MarketHolds(policyInput.market)
    /\ ChartsHold(policyInput.charts, policyInput.market)

-----------------------------------------------------------------------------
(* The response.  A visible bar is named by its timeframe, its lifecycle    *)
(* and its place, so evidence of a bar names the lifecycle it was seen in.  *)

Visible(market) ==
    LET bars(tf) == IF market.references[tf] = NotSupplied THEN << >>
                    ELSE market.references[tf]
    IN  bars("60m") \o bars("1d") \o market.primary

TimeframeOf(bar) == bar[1]

(* What the response schema asks for before anything is looked up. *)
EvidenceShape(entry) ==
    /\ (entry.field = "relationship") <=> (entry.price = Null)
    /\ entry.scope # {} /\ entry.doctrine # {}

AssessmentShape(assessment) ==
    assessment # Null =>
        \/ assessment.relationship = "unavailable_for_this_decision"
        \/ assessment.evidence # {} /\ assessment.doctrine # {}

GapShape(gap) == gap.affected # {} /\ gap.evidence # {} /\ gap.doctrine # {}

ConflictShape(conflict) ==
    \/ conflict.state = "not_applicable"
    \/ conflict.evidence # {} /\ conflict.doctrine # {}

ShapeHolds(r) ==
    /\ \A e \in DOMAIN r.evidence : EvidenceShape(r.evidence[e])
    /\ \A tf \in References : AssessmentShape(r.references[tf])
    /\ \A g \in DOMAIN r.gaps : GapShape(r.gaps[g])
    /\ ConflictShape(r.conflict)

(* The binding is the caller's; it names the input it asked about. *)
BindingHolds(binding, policyInput) ==
    LET primary == policyInput.market.primary
    IN  /\ binding.input = policyInput
        /\ binding.lastVisible = primary[Len(primary)].id

EvidenceCatalogHolds(r, visible) ==
    /\ \A e \in DOMAIN r.evidence :
        LET entry == r.evidence[e]
        IN  /\ entry.bar \in BarIds(visible)
            /\ entry.field # "relationship" => AnchorHolds(entry, visible)
            /\ entry.scope \subseteq DOMAIN r.decision.claims
            /\ entry.doctrine \subseteq Doctrine
    /\ \A c \in DOMAIN r.decision.claims :
        \E e \in DOMAIN r.evidence : c \in r.evidence[e].scope

EvidenceTimeframes(r, cited) == {TimeframeOf(r.evidence[e].bar) : e \in cited}

ReferencesAssessed(r, market) ==
    \A tf \in References :
        LET assessment == r.references[tf]
        IN  /\ (assessment = Null) <=> (market.references[tf] = NotSupplied)
            /\ assessment # Null =>
                /\ assessment.evidence \subseteq DOMAIN r.evidence
                /\ EvidenceTimeframes(r, assessment.evidence) \subseteq {tf}
                /\ assessment.doctrine \subseteq Doctrine

ConflictAssessed(r, market) ==
    LET supplied == {tf \in References :
                        market.references[tf] \notin {NotSupplied, << >>}}
        conflict == r.conflict
    IN  /\ conflict.evidence \subseteq DOMAIN r.evidence
        /\ conflict.doctrine \subseteq Doctrine
        /\ conflict.state = "not_applicable" <=> supplied # References
        /\ supplied = References =>
            supplied \subseteq EvidenceTimeframes(r, conflict.evidence)

Gaps(market) ==
    LET visible == Visible(market)
    IN  {visible[i].id : i \in {j \in DOMAIN visible :
                                    visible[j].continuity = "missing_data"}}

(* The gaps an assessment is about: those it cites in its own timeframe. *)
GapsOf(r, g, market) ==
    {gap \in Gaps(market) :
        /\ TimeframeOf(gap) = r.gaps[g].timeframe
        /\ \E e \in r.gaps[g].evidence : r.evidence[e].bar = gap}

PlanClaims(r) ==
    LET plan == r.decision.plan
    IN  IF plan = Null THEN {}
        ELSE plan.claims \cup plan.entry.claims \cup plan.cancellation.claims
             \cup plan.invalidation.claims \cup plan.protection.claims
             \cup plan.objective.claims

(* A mutant: a plan may depend on a gap that is called immaterial. *)
ImmaterialAllowsPlan(r, gap) ==
    r.decision.plan # Null =>
        IF gap.timeframe = "5m"
        THEN gap.materiality = "immaterial"
        ELSE gap.affected \cap PlanClaims(r) = {}

(* What an assessed gap leaves of a plan. *)
GapAllowsPlan(r, gap) ==
    r.decision.plan # Null =>
        /\ gap.timeframe = "5m" => gap.materiality = "immaterial"
        /\ gap.affected \cap PlanClaims(r) = {}

GapsAssessed(r, market) ==
    /\ \A g \in DOMAIN r.gaps :
        /\ r.gaps[g].affected \subseteq DOMAIN r.decision.claims
        /\ r.gaps[g].doctrine \subseteq Doctrine
        /\ r.gaps[g].evidence \subseteq DOMAIN r.evidence
        /\ GapsOf(r, g, market) # {}
        /\ GapAllowsPlan(r, r.gaps[g])
    /\ \A gap \in Gaps(market) :
        Cardinality({g \in DOMAIN r.gaps : gap \in GapsOf(r, g, market)}) = 1

Anchors == {"entry", "protection", "objective"}

SamePoint(anchor, other) ==
    /\ anchor.bar = other.bar
    /\ anchor.field = other.field
    /\ anchor.price = other.price

GeometryHolds(r, visible) ==
    LET trade == r.decision.verdict \in Sides
        plan == r.decision.plan
        price == r.decision.geometry
    IN  /\ \A a \in Anchors :
            /\ trade <=> r.anchors[a] # Null
            /\ r.anchors[a] # Null =>
                /\ AnchorHolds(r.anchors[a], visible)
                /\ \E e \in DOMAIN r.evidence : SamePoint(r.evidence[e], r.anchors[a])
        /\ trade =>
            /\ plan # Null /\ price # Null
            /\ plan.entry.type = "stop" => SamePoint(r.anchors["entry"], plan.entry.anchor)
            /\ plan.entry.type = "limit" => price.entry = r.anchors["entry"].price
            /\ SamePoint(r.anchors["protection"], plan.protection.anchor)
            /\ price.objective = r.anchors["objective"].price

(* validateOfflineBrooksMultiTimeframeResponseV1 *)
Accepts(r, binding, policyInput) ==
    LET market == policyInput.market
        visible == Visible(market)
    IN  /\ ShapeHolds(r)
        /\ InputHolds(policyInput)
        /\ BindingHolds(binding, policyInput)
        /\ EvidenceCatalogHolds(r, visible)
        /\ ReferencesAssessed(r, market)
        /\ ConflictAssessed(r, market)
        /\ GapsAssessed(r, market)
        /\ GeometryHolds(r, visible)
        /\ ResponseHolds(r.decision, binding.lastVisible, visible, Doctrine)

-----------------------------------------------------------------------------

TimeframeInit == now = 0 /\ case = Null /\ input = Null /\ verdict = Null

Tick ==
    /\ now < Horizon
    /\ now' = now + 1
    /\ UNCHANGED <<case, input, verdict>>

(* What a caller may hold of one timeframe: a stretch of bars as the feed   *)
(* described them at an instant that has come.                              *)
Contexts(tf) ==
    {Fetched(q.feed, tf, q.first, q.last, q.at, q.gaps) :
        q \in {s \in [feed : DOMAIN Feeds, first : 1..Horizon, last : 1..Horizon,
                       at : 0..now, gaps : BOOLEAN] :
                 s.first <= s.last /\ (s.last - 1) * Span[tf] < s.at}}

(* createBrooksMultiTimeframeCaseV1.  Bound: one Case in a behaviour. *)
Assemble ==
    /\ case = Null
    /\ \E f \in DOMAIN Feeds, cutoff \in 0..Horizon, primary \in Contexts("5m") :
        /\ PrimaryHolds(primary, cutoff, f)
        /\ \E sixty \in Contexts("60m") \cup {NotSupplied, << >>} :
            /\ ReferenceHolds(sixty, "60m", cutoff, f)
            /\ \E daily \in Contexts("1d") \cup {NotSupplied, << >>} :
                /\ ReferenceHolds(daily, "1d", cutoff, f)
                /\ case' = [cutoff |-> cutoff, feed |-> f, primary |-> primary,
                            references |-> [tf \in References |->
                                IF tf = "60m" THEN sixty ELSE daily]]
    /\ UNCHANGED <<now, input, verdict>>

(* createBrooksMultiTimeframePolicyInputV1: the charts are the caller's, who *)
(* may have left one out.                                                   *)
Offer ==
    /\ case # Null
    /\ input = Null
    /\ CaseHolds(case)
    /\ LET full == Charts(AnonymousMarket(case))
       IN  \E charts \in {full} \cup
                {[full EXCEPT !.references[tf] = NotSupplied] : tf \in References} :
            /\ InputHolds(PolicyInput(case, charts))
            /\ input' = PolicyInput(case, charts)
    /\ UNCHANGED <<now, case, verdict>>

Answer ==
    /\ input # Null
    /\ \E r \in Responses, i \in DOMAIN input.market.primary :
        LET binding == [input |-> input, lastVisible |-> input.market.primary[i].id]
        IN  /\ Accepts(r, binding, input)
            /\ verdict' = r
    /\ UNCHANGED <<now, case, input>>

TimeframeNext == Tick \/ Assemble \/ Offer \/ Answer

TimeframeSpec == TimeframeInit /\ [][TimeframeNext]_timeframeVars

-----------------------------------------------------------------------------

(* Nothing a Case shows happened after its cutoff, on any timeframe, and    *)
(* all of it is one feed's: a provisional bar fetched a moment later spans  *)
(* the cutoff just as well and already knows the future.                    *)
NothingPastTheCutoff ==
    case # Null =>
        \A tf \in Timeframes :
            LET bars == IF tf = "5m" THEN case.primary ELSE case.references[tf]
            IN  bars # NotSupplied =>
                    \A i \in DOMAIN bars :
                        bars[i].newest <= case.cutoff /\ bars[i].feed = case.feed

(* A plan never rests on data that is known to be missing: every gap of the *)
(* market is owned by an assessment of the response, and none of the claims *)
(* that any of its assessments calls affected carries a part of the plan.   *)
PlansAvoidGaps ==
    verdict # Null /\ verdict.decision.plan # Null =>
        \A gap \in Gaps(AnonymousMarket(case)) :
            \E g \in DOMAIN verdict.gaps :
                /\ gap \in GapsOf(verdict, g, AnonymousMarket(case))
                /\ verdict.gaps[g].affected \cap PlanClaims(verdict) = {}
                /\ TimeframeOf(gap) = "5m" => verdict.gaps[g].materiality = "immaterial"

=============================================================================
