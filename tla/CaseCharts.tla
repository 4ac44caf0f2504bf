----------------------------- MODULE CaseCharts ------------------------------
(* The two charts of a Case and the bundle that binds them to it:           *)
(* chart-renderer/src/anonymous-chart-renderer-v1.ts,                       *)
(* persistence-contracts/src/chart-artifact-metadata-v1.ts and              *)
(* case-store-transport-v1.ts, contracts/src/decision-conflict-v1.ts.       *)
(*                                                                         *)
(* A hash is the content it covers, as in PolicyInput; the bytes of an      *)
(* image are what it shows.  Nobody hashes bar identifiers into the image,  *)
(* so windows and panels that look the same share one file.                 *)
EXTENDS PolicyInput

PanelNames == {"context", "detail"}

(* Candles, and a dashed line where a bar does not follow the one before.   *)
(* Prices are scaled to the plot, which may draw yet more windows alike.    *)
Picture(bars) ==
    [i \in DOMAIN bars |->
        [open |-> bars[i].open, low |-> bars[i].low, close |-> bars[i].close,
         high |-> bars[i].high,
         boundary |-> IF i = 1 THEN "contiguous" ELSE bars[i].continuity]]

RenderArtifact(panel, bars) ==
    [panel |-> panel, bars |-> bars, picture |-> Picture(bars)]

DetailOf(bars) == SubSeq(bars, Len(bars) - DetailBars + 1, Len(bars))

PanelLengthHolds(panel, n) ==
    IF panel = "detail" THEN n = DetailBars ELSE DetailBars <= n /\ n <= ContextBars

Consecutive(ids) == \A i \in 2..Len(ids) : ids[i] = ids[i - 1] + 1

IdsOf(bars) == [i \in DOMAIN bars |-> bars[i].id]

ArtifactBarsHold(panel, bars) ==
    /\ PanelLengthHolds(panel, Len(bars))
    /\ \A i \in DOMAIN bars :
        /\ PricesHold(bars[i])
        /\ bars[i].continuity \in Continuities
    /\ panel = "context" => bars[1].continuity = "unknown"

ArtifactHolds(a) ==
    /\ a.panel \in PanelNames
    /\ ArtifactBarsHold(a.panel, a.bars)
    /\ Consecutive(IdsOf(a.bars))
    /\ a.picture = Picture(a.bars)

(* The market is hashed over the bars of the context panel. *)
ChartBundle(case) ==
    LET market == AnonymousMarket(case)
    IN  [case |-> case, market |-> market,
         context |-> RenderArtifact("context", market.bars),
         detail |-> RenderArtifact("detail", DetailOf(market.bars))]

ChartBundleHolds(b) ==
    /\ ArtifactHolds(b.context) /\ ArtifactHolds(b.detail)
    /\ b.context.panel = "context" /\ b.detail.panel = "detail"
    /\ IdsOf(b.detail.bars) = DetailOf(IdsOf(b.context.bars))
    /\ LET n == Len(b.context.bars)
       IN  b.market = [bars |-> b.context.bars, lastVisible |-> b.context.bars[n].id,
                       leftCensored |-> n < ContextBars, missing |-> ContextBars - n]

-----------------------------------------------------------------------------
(* Metadata: a chart without its bytes, bound to its Case.  Its identity    *)
(* covers the Case, the market and the artifact, whose own covers the rest. *)

Metadata(b, panel) ==
    [case |-> b.case, market |-> b.market, panel |-> panel,
     drawn |-> b[panel].bars, picture |-> b[panel].picture,
     ids |-> IdsOf(b[panel].bars)]

MetadataHolds(md) ==
    /\ md.panel \in PanelNames
    /\ PanelLengthHolds(md.panel, Len(md.ids))
    /\ Consecutive(md.ids)
    /\ md.panel = "context" => md.ids[1] = 1

(* createBrooksPolicyInput, with the image hashes of the two manifests. *)
ChartedInput(case, b, doctrine) ==
    LET input == PolicyInput(case, [context |-> {b.context.bars[i].id : i \in DOMAIN b.context.bars},
                                    detail |-> {b.detail.bars[i].id : i \in DOMAIN b.detail.bars}],
                             doctrine)
    IN  [market |-> input.market, charts |-> input.charts, doctrine |-> input.doctrine,
         pictures |-> [panel \in PanelNames |-> b[panel].picture]]

CaseBundle(case, b, doctrine) ==
    [case |-> case, input |-> ChartedInput(case, b, doctrine),
     metadata |-> [panel \in PanelNames |-> Metadata(b, panel)]]

(* One market and one Case behind the input and both charts. *)
BundleHolds(bundle) ==
    /\ CaseHolds(bundle.case)
    /\ InputHolds(bundle.input)
    /\ bundle.input.market = AnonymousMarket(bundle.case)
    /\ \A panel \in PanelNames :
        LET md == bundle.metadata[panel]
        IN  /\ MetadataHolds(md)
            /\ md.panel = panel
            /\ md.case = bundle.case
            /\ md.market = bundle.input.market
            /\ md.picture = bundle.input.pictures[panel]
            /\ {md.ids[i] : i \in DOMAIN md.ids} = bundle.input.charts[panel]

-----------------------------------------------------------------------------
(* Decisions, reviews and where they differ. *)

ReviewHolds(review, decision) ==
    /\ review.decision = decision
    /\ review.disposition = "agree" => review.verdict = decision.verdict

Conflict(decision, review) ==
    {kind \in {"whole_decision_disagreement", "clarification_required",
               "reviewer_uncertain", "verdict_disagreement"} :
        \/ kind = "whole_decision_disagreement" /\ review.disposition = "disagree"
        \/ kind = "clarification_required" /\ review.disposition = "clarify"
        \/ kind = "reviewer_uncertain" /\ review.disposition = "uncertain"
        \/ kind = "verdict_disagreement" /\ review.verdict # decision.verdict}
=============================================================================
