---------------------------- MODULE PolicyInput -----------------------------
(* What the policy is shown: packages/contracts/src/policy-input-v1.ts.     *)
(*                                                                         *)
(* A Case is a window of closed local bars.  Its input carries no local     *)
(* identity: bars are renumbered from their place in the window and prices  *)
(* divided by the first close, so two windows of one shape have one input.  *)
(* A hash is modelled by the content it covers: two records are equal       *)
(* exactly when their hashes are.                                           *)
EXTENDS Integers, Sequences, FiniteSets

CONSTANTS
    ContextBars,    \* bars of a full window (BROOKS_CONTEXT_BAR_COUNT)
    DetailBars      \* fewest bars of a left-censored window

ASSUME WindowAssumption ==
    /\ ContextBars \in Nat /\ DetailBars \in Nat
    /\ 0 < DetailBars /\ DetailBars < ContextBars

NormalizedFirstClose == 100

Continuities == {"contiguous", "session_boundary", "missing_data", "unknown"}

(* The lengths of a window, censored on the left or not. *)
LengthHolds(n, leftCensored) ==
    IF leftCensored
    THEN DetailBars <= n /\ n < ContextBars
    ELSE n = ContextBars

PricesHold(bar) ==
    /\ 0 < bar.low
    /\ bar.low <= bar.open /\ bar.open <= bar.high
    /\ bar.low <= bar.close /\ bar.close <= bar.high

LocalBarsHold(bars, leftCensored) ==
    /\ LengthHolds(Len(bars), leftCensored)
    /\ \A i, j \in DOMAIN bars : bars[i].id = bars[j].id => i = j
    /\ \A i \in DOMAIN bars :
        /\ i > 1 => bars[i].sequence = bars[i - 1].sequence + 1
        /\ bars[i].closed
        /\ bars[i].continuity \in Continuities
        /\ PricesHold(bars[i])
    /\ bars[1].continuity = "unknown"

CaseHolds(case) ==
    /\ LocalBarsHold(case.bars, case.leftCensored)
    /\ case.lastVisible = case.bars[Len(case.bars)].id

-----------------------------------------------------------------------------
(* The anonymous market and the input.  A chart manifest lists the bars of  *)
(* its panel; the hash of its image is compared with nothing here, and is   *)
(* left out.                                                                *)

Normalized(price, firstClose) == (price * NormalizedFirstClose) \div firstClose

AnonymousMarket(case) ==
    LET bars == case.bars
        base == bars[1].close
    IN  [bars |-> [i \in DOMAIN bars |->
                    [id |-> i,
                     open |-> Normalized(bars[i].open, base),
                     low |-> Normalized(bars[i].low, base),
                     close |-> Normalized(bars[i].close, base),
                     high |-> Normalized(bars[i].high, base),
                     continuity |-> bars[i].continuity]],
         lastVisible |-> Len(bars),
         leftCensored |-> case.leftCensored,
         missing |-> ContextBars - Len(bars)]

(* The bars of the two panels: all of them, and the last DetailBars. *)
ContextPanel(market) == DOMAIN market.bars
DetailPanel(market) == Len(market.bars) - DetailBars + 1 .. Len(market.bars)

ChartsHold(charts, market) ==
    /\ charts.context = ContextPanel(market)
    /\ charts.detail = DetailPanel(market)

Charts(market) == [context |-> ContextPanel(market), detail |-> DetailPanel(market)]

PolicyInput(case, charts, doctrine) ==
    [market |-> AnonymousMarket(case), charts |-> charts, doctrine |-> doctrine]

(* The same, checked on an input of unknown origin. *)
MarketHolds(market) ==
    LET bars == market.bars
    IN  /\ LengthHolds(Len(bars), market.leftCensored)
        /\ market.missing = ContextBars - Len(bars)
        /\ market.lastVisible = Len(bars)
        /\ bars[1].close = NormalizedFirstClose
        /\ bars[1].continuity = "unknown"
        /\ \A i \in DOMAIN bars :
            /\ bars[i].id = i
            /\ PricesHold(bars[i])

InputHolds(input) == MarketHolds(input.market) /\ ChartsHold(input.charts, input.market)
=============================================================================
