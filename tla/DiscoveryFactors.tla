-------------------------- MODULE DiscoveryFactors --------------------------
(***************************************************************************)
(* The detectors of discovery-engine-v1.ts, as operators on the bars an    *)
(* evaluation was given: the last one is the event bar, the others precede *)
(* it.  Prices are integers in sixteenths of a tick and multiples of 16,   *)
(* which makes every quotient of the code exact.  Volume is not supplied.  *)
(* A hit names bars by their sequence; "off" is the sequence before the    *)
(* first bar given.                                                        *)
(***************************************************************************)
EXTENDS Sequences, Integers, FiniteSets

CONSTANTS
    Window,   \* referenceWindowObservations, 20 in the code
    LegSpan,  \* bars a pullback may look back, 8
    PivotArm, \* pivotConfirmation left and right, 2
    Lookback  \* movementLookbackObservations, 3

ASSUME FactorAssumption ==
    /\ Window \in Nat \ {0} /\ LegSpan \in Nat \ {0}
    /\ PivotArm \in Nat \ {0} /\ Lookback \in Nat \ {0}

Polarities == {"upward", "downward"}

\* DISCOVERY_PRIMARY_EVENT_PRIORITY_V1, first is most specific.
EventTypes == <<"failed_breakout_candidate", "breakout_attempt",
                "range_boundary_interaction", "pullback_to_structure",
                "magnet_proximity">>

Rank(type) == CHOOSE i \in DOMAIN EventTypes : EventTypes[i] = type

-----------------------------------------------------------------------------
Last(s) == s[Len(s)]

\* slice(0, -1)
Before(s) == SubSeq(s, 1, Len(s) - 1)

\* slice(-n)
Recent(s, n) == SubSeq(s, IF Len(s) > n THEN Len(s) - n + 1 ELSE 1, Len(s))

Spread(bar) == bar.high - bar.low

Distance(a, b) == IF a >= b THEN a - b ELSE b - a

\* The k-th smallest value of a sequence.
Smallest(s, k) ==
    CHOOSE v \in {s[i] : i \in DOMAIN s} :
        /\ Cardinality({i \in DOMAIN s : s[i] < v}) < k
        /\ k =< Cardinality({i \in DOMAIN s : s[i] =< v})

\* The R7 quantile at the given number of quarters.
QuantileR7(s, quarters) ==
    LET h == (Len(s) - 1) * quarters
        Between(lower, upper) == lower + ((h % 4) * (upper - lower)) \div 4
    IN Between(Smallest(s, h \div 4 + 1), Smallest(s, (h + 3) \div 4 + 1))

Extreme(s) == CHOOSE i \in DOMAIN s : \A j \in DOMAIN s : s[i] >= s[j]

\* What buildRangeReference finds in the bars of its window.
Measured(bars) ==
    LET spreads == [i \in DOMAIN bars |-> Spread(bars[i])]
        Top(values) == values[Extreme(values)]
        Graded(median) ==
            [high |-> Top([i \in DOMAIN bars |-> bars[i].high]),
             low |-> -Top([i \in DOMAIN bars |-> -bars[i].low]),
             p25 |-> QuantileR7(spreads, 1),
             median |-> median,
             p75 |-> QuantileR7(spreads, 3),
             tolerance |-> median \div 2,
             displacement |-> median \div 4]
    IN Graded(QuantileR7(spreads, 2))

\* Mutant: the range is that of everything supplied.
ReferenceUnbounded(prior) == Measured(prior)

\* buildRangeReference.
Reference(prior) == Measured(Recent(prior, Window))

-----------------------------------------------------------------------------
\* coreHit: a hit on one side of the rolling range.
CoreHit(type, polarity, family, evidence) ==
    [type |-> type, polarity |-> polarity, family |-> family,
     group |-> IF polarity = "upward" THEN <<"upper", 0>> ELSE <<"lower", 0>>,
     evidence |-> evidence]

Lifecycle(type, polarity, evidence) ==
    CoreHit(type, polarity, "range_boundary_lifecycle", evidence)

BrokeAbove(bar, ref) == bar.close > ref.high + ref.displacement

\* Mutant: the lower side takes a touch for a break.
BrokeBelowOnTouch(bar, ref) == bar.close =< ref.low - ref.displacement

BrokeBelow(bar, ref) == bar.close < ref.low - ref.displacement

BackInside(bar, ref, polarity) ==
    IF polarity = "upward"
    THEN bar.close =< ref.high + ref.tolerance /\ bar.low =< ref.high + ref.tolerance
    ELSE bar.close >= ref.low - ref.tolerance /\ bar.high >= ref.low - ref.tolerance

\* detectFailedBreakout: the previous bar broke out of the range before it and
\* the event bar is back.
FailedBreakout(seen, off) ==
    LET n == off + Len(seen)
        prior == Before(seen)
        Failed(polarity) ==
            {Lifecycle("failed_breakout_candidate", polarity, {n - 1, n}),
             Lifecycle("breakout_attempt", polarity, {n - 1}),
             Lifecycle("range_boundary_interaction", polarity, {n})}
        Against(ref) ==
            IF BrokeAbove(Last(prior), ref) /\ BackInside(Last(seen), ref, "upward")
            THEN Failed("upward")
            ELSE IF BrokeBelow(Last(prior), ref) /\ BackInside(Last(seen), ref, "downward")
            THEN Failed("downward")
            ELSE {}
    IN IF Len(prior) < 2 THEN {} ELSE Against(Reference(Before(prior)))

\* detectBreakoutAttempt.
BreakoutAttempt(event, n, ref) ==
    IF BrokeAbove(event, ref) THEN {Lifecycle("breakout_attempt", "upward", {n})}
    ELSE IF BrokeBelow(event, ref) THEN {Lifecycle("breakout_attempt", "downward", {n})}
    ELSE {}

\* detectRangeBoundaryInteraction.
RangeBoundaryInteraction(event, n, ref) ==
    LET flat == ref.high = ref.low /\ Spread(event) = 0 /\ event.close = ref.high
        upper == /\ ~BrokeAbove(event, ref)
                 /\ event.high >= ref.high
                 /\ event.close >= ref.high - 2 * ref.tolerance
                 /\ event.close =< ref.high + ref.tolerance
        lower == /\ ~BrokeBelow(event, ref)
                 /\ event.low =< ref.low
                 /\ event.close =< ref.low + 2 * ref.tolerance
                 /\ event.close >= ref.low - ref.tolerance
    IN {Lifecycle("range_boundary_interaction", p, {n}) :
            p \in {q \in Polarities : ~flat /\ (IF q = "upward" THEN upper ELSE lower)}}

\* detectPullbackToStructure: the latest leg out of the range before it to
\* whose boundary the event bar has come back.
PullbackToStructure(seen, off) ==
    LET prior == Before(seen)
        event == Last(seen)
        span == (IF Len(prior) > LegSpan THEN Len(prior) - LegSpan + 1 ELSE 1)..(Len(prior) - 1)
        Back(leg, polarity, ref) ==
            IF polarity = "upward"
            THEN /\ BrokeAbove(prior[leg], ref)
                 /\ event.low =< ref.high + ref.tolerance
                 /\ event.close > ref.high
            ELSE /\ BrokeBelow(prior[leg], ref)
                 /\ event.high >= ref.low - ref.tolerance
                 /\ event.close < ref.low
        Sides(leg, ref) == {p \in Polarities : Back(leg, p, ref)}
        returns == UNION {{leg} \X Sides(leg, Reference(SubSeq(prior, 1, leg - 1))) :
                            leg \in {i \in span : i >= 3}}
        Latest(found) == {r \in found : \A other \in found : r[1] >= other[1]}
    IN {CoreHit("pullback_to_structure", r[2], "structure_return",
                {off + r[1], off + Len(seen)}) : r \in Latest(returns)}

\* confirmedPivots: strictly beyond PivotArm bars on either side.
Pivots(prior, kind) ==
    LET Beyond(i, j) == IF kind = "high" THEN prior[i].high > prior[j].high
                                         ELSE prior[i].low < prior[j].low
    IN {i \in (PivotArm + 1)..(Len(prior) - PivotArm) :
            \A j \in ((i - PivotArm)..(i + PivotArm)) \ {i} : Beyond(i, j)}

MagnetHit(polarity, group, evidence) ==
    [type |-> "magnet_proximity", polarity |-> polarity,
     family |-> "structure_return", group |-> group, evidence |-> evidence]

\* detectMagnetProximity.
MagnetProximity(seen, off, ref) ==
    LET prior == Before(seen)
        event == Last(seen)
        n == off + Len(seen)
        atMiddle == /\ Spread(event) < ref.tolerance
                    /\ Distance(2 * event.close, ref.high + ref.low) =< 2 * ref.tolerance
        Near(a, b) == Distance(a, b) =< ref.tolerance
    IN {MagnetHit(p, <<"midpoint", 0>>, {n}) :
            p \in {q \in Polarities : atMiddle /\ (q = "upward" <=> event.close >= event.open)}}
       \cup {MagnetHit("upward", <<"pivot-high", off + i>>, {off + i, n}) :
                i \in {j \in Pivots(prior, "high") : Near(event.high, prior[j].high)}}
       \cup {MagnetHit("downward", <<"pivot-low", off + i>>, {off + i, n}) :
                i \in {j \in Pivots(prior, "low") : Near(event.low, prior[j].low)}}

\* hasSameBarAmbiguity.
Ambiguous(seen) ==
    LET event == Last(seen)
        Spans(ref) == /\ ~(ref.high = ref.low /\ Spread(event) = 0)
                      /\ event.high >= ref.high + ref.displacement
                      /\ event.low =< ref.low - ref.displacement
    IN Spans(Reference(Before(seen)))

\* detectCoreHits with dedupeHits: the hits of a failed breakout come first and
\* hide later ones of the same type, side and anchor group.
CoreHits(seen, off) ==
    LET event == Last(seen)
        n == off + Len(seen)
        Others(ref) == BreakoutAttempt(event, n, ref)
                       \cup RangeBoundaryInteraction(event, n, ref)
                       \cup PullbackToStructure(seen, off)
                       \cup MagnetProximity(seen, off, ref)
        Merged(failed, others) ==
            failed \cup {hit \in others : ~\E first \in failed :
                first.type = hit.type /\ first.polarity = hit.polarity /\ first.group = hit.group}
    IN Merged(FailedBreakout(seen, off), Others(Reference(Before(seen))))

-----------------------------------------------------------------------------
Total(s) ==
    LET sum[i \in 0..Len(s)] == IF i = 0 THEN 0 ELSE sum[i - 1] + s[i] IN sum[Len(s)]

\* detectContextEnhancers, for bars without volume.
ContextEnhancers(primary, seen) ==
    LET event == Last(seen)
        recent == Recent(Before(seen), Lookback)
        Against(ref) ==
            (IF /\ Spread(event) >= 2 * ref.median
                /\ 4 * Total([i \in DOMAIN recent |-> Spread(recent[i])])
                        =< 3 * ref.median * Len(recent)
             THEN {"compression_expansion"} ELSE {})
            \cup
            (IF IF primary.polarity = "upward"
                THEN 3 * (event.close - ref.low) >= 2 * (ref.high - ref.low)
                ELSE 3 * (event.close - ref.low) =< ref.high - ref.low
             THEN {"trading_range_top_bottom_context"} ELSE {})
    IN Against(Reference(Before(seen)))
       \cup (IF primary.type = "pullback_to_structure"
             THEN {"trend_leg_first_pullback"} ELSE {})

\* activityBucket.
ActivityBucket(seen) ==
    LET spread == Spread(Last(seen))
        Against(ref) ==
            CASE spread =< 0 \/ ref.p75 =< 0 -> "unavailable"
              [] spread >= ref.p75 -> "expanded"
              [] spread =< ref.p25 -> "contracted"
              [] OTHER -> "typical"
    IN Against(Reference(Before(seen)))
=============================================================================
