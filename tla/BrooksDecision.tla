--------------------------- MODULE BrooksDecision ---------------------------
(* When a model response becomes a BrooksDecision: the semantic validator   *)
(* of packages/contracts/src/brooks-decision-v1.ts and the geometry checks  *)
(* that brooks-identity-free-response-v2.ts makes before it.                *)
(*                                                                         *)
(* A decision is validated against the visible bars of its input and the   *)
(* Doctrine retrieved for it, both handed in by the caller.  Identifiers    *)
(* are members of small sets and a table keyed by identifier is a function, *)
(* so the uniqueness checks of the code are part of the shape.              *)
EXTENDS Integers, Sequences, FiniteSets

CONSTANT Null    \* an absent part of a response

Sides == {"long", "short"}
Opposite(side) == CHOOSE other \in Sides : other # side
PriceFields == {"open", "high", "low", "close"}
MaxStructures == 5
MaxMagnets == 3
MaxSetups == 3

-----------------------------------------------------------------------------
(* The visible bars.                                                        *)

BarIds(bars) == {bars[i].id : i \in DOMAIN bars}
BarOf(bars, id) == bars[CHOOSE i \in DOMAIN bars : bars[i].id = id]

(* A mutant: any price may be cited, as long as the bar exists. *)
AnchorOfSomeBar(anchor, bars) == anchor.bar \in BarIds(bars)

(* A price may be cited only as it is printed on a visible bar. *)
AnchorHolds(anchor, bars) ==
    /\ anchor.bar \in BarIds(bars)
    /\ anchor.field \in PriceFields
    /\ BarOf(bars, anchor.bar)[anchor.field] = anchor.price

BarsHold(lastVisible, bars) ==
    /\ bars # << >>
    /\ bars[Len(bars)].id = lastVisible
    /\ Cardinality(BarIds(bars)) = Len(bars)
    /\ \A i \in DOMAIN bars :
        /\ bars[i].low <= bars[i].high
        /\ \A field \in {"open", "close"} :
            bars[i].low <= bars[i][field] /\ bars[i][field] <= bars[i].high

-----------------------------------------------------------------------------
(* Evidence, claims and what cites them.                                    *)

Cites(r, claimIds) == claimIds # {} /\ claimIds \subseteq DOMAIN r.claims

EvidenceHolds(r, bars, doctrine) ==
    /\ \A e \in DOMAIN r.evidence :
        r.evidence[e] # {} /\ r.evidence[e] \subseteq BarIds(bars)
    /\ \A c \in DOMAIN r.claims :
        /\ r.claims[c].evidence # {}
        /\ r.claims[c].evidence \subseteq DOMAIN r.evidence
        /\ r.claims[c].doctrine # {}
        /\ r.claims[c].doctrine \subseteq doctrine

ContextHolds(r) == \A part \in DOMAIN r.context : Cites(r, r.context[part])

MinimumAnchors(kind) ==
    IF kind \in {"trend_channel_boundary", "measured_move_structure"} THEN 2 ELSE 1

StructuresHold(r, bars) ==
    /\ Cardinality(DOMAIN r.structures) <= MaxStructures
    /\ \A s \in DOMAIN r.structures :
        LET structure == r.structures[s]
        IN  /\ Len(structure.anchors) >= MinimumAnchors(structure.kind)
            /\ \A i \in DOMAIN structure.anchors : AnchorHolds(structure.anchors[i], bars)
            /\ Cites(r, structure.claims)
    /\ IF r.breakout.state = "none"
       THEN r.breakout.structure = Null
       ELSE r.breakout.structure \in DOMAIN r.structures

MagnetsHold(r) ==
    /\ Cardinality(DOMAIN r.magnets) <= MaxMagnets
    /\ \A m \in DOMAIN r.magnets :
        /\ r.magnets[m].structure \in DOMAIN r.structures
        /\ Cites(r, r.magnets[m].claims)

Setups(case, role) == {s \in DOMAIN case.setups : case.setups[s].role = role}

SignalHolds(signal, doctrine) ==
    signal.state = "confirmed" =>
        /\ signal.kind = "discrete_bar" => Len(signal.bars) = 1
        /\ signal.kind = "multi_bar_structure" => Len(signal.bars) >= 2
        /\ signal.kind = "no_separate_signal" => signal.bars = << >>
        /\ signal.doctrine # {}
        /\ signal.doctrine \subseteq doctrine

SideHolds(r, case, bars, doctrine) ==
    /\ Cardinality(DOMAIN case.setups) <= MaxSetups
    /\ Cardinality(Setups(case, "primary")) <= 1
    /\ \A s \in DOMAIN case.setups :
        case.setups[s].doctrine \in doctrine /\ Cites(r, case.setups[s].claims)
    /\ \A i \in DOMAIN case.signal.bars : case.signal.bars[i] \in BarIds(bars)
    /\ SignalHolds(case.signal, doctrine)
    /\ Cites(r, case.signal.claims)
    /\ Cites(r, case.claims)

-----------------------------------------------------------------------------
(* The trade plan.  Prices are normalised integers, so the ratio of reward  *)
(* to risk is compared without dividing.                                    *)

EntryHolds(r, side, lastVisible, bars) ==
    LET entry == r.plan.entry
    IN  /\ entry.validAfter = lastVisible
        /\ entry.validFor = 1
        /\ Cites(r, entry.claims)
        /\ entry.type = "stop" =>
            /\ entry.relation = IF side = "long" THEN "break_above" ELSE "break_below"
            /\ AnchorHolds(entry.anchor, bars)
        /\ entry.type = "limit" =>
            /\ entry.relation = "pullback_to"
            /\ entry.structure \in DOMAIN r.structures

ConditionHolds(r, condition, bars) ==
    AnchorHolds(condition.anchor, bars) /\ Cites(r, condition.claims)

(* Whether `a` is strictly on the losing side of `b` for a position. *)
Worse(side, a, b) == IF side = "long" THEN a < b ELSE a > b

PriceDistance(a, b) == IF a < b THEN b - a ELSE a - b

PlanHolds(r, lastVisible, bars) ==
    LET plan == r.plan
        side == plan.direction
        price == r.geometry
    IN  /\ price # Null
        /\ Cites(r, plan.claims)
        /\ EntryHolds(r, side, lastVisible, bars)
        /\ ConditionHolds(r, plan.cancellation, bars)
        /\ ConditionHolds(r, plan.invalidation, bars)
        /\ ConditionHolds(r, plan.protection, bars)
        /\ plan.protection.relation = IF side = "long" THEN "below" ELSE "above"
        /\ plan.objective.magnet \in DOMAIN r.magnets
        /\ LET magnet == r.magnets[plan.objective.magnet]
           IN  /\ magnet.side = IF side = "long" THEN "above" ELSE "below"
               /\ plan.holding = "scalp" => magnet.relevance = "primary"
        /\ Cites(r, plan.objective.claims)
        /\ Worse(side, price.protection, price.entry)
        /\ Worse(side, price.entry, price.objective)
        /\ plan.holding = "swing" =>
            PriceDistance(price.objective, price.entry)
                >= 2 * PriceDistance(price.entry, price.protection)

-----------------------------------------------------------------------------
(* The verdict.                                                             *)

TradeHolds(r, lastVisible, bars) ==
    LET chosen == r.cases[r.verdict]
        favours == IF r.verdict = "long" THEN "favors_long" ELSE "favors_short"
        confirmed == {s \in Setups(chosen, "primary") : chosen.setups[s].state = "confirmed"}
    IN  /\ r.plan # Null
        /\ r.noTrade = Null
        /\ r.uncertainty = Null
        /\ chosen.state = "actionable"
        /\ confirmed # {}
        /\ chosen.signal.state = "confirmed"
        /\ chosen.trigger = "pending"
        /\ r.cases[Opposite(r.verdict)].state # "actionable"
        /\ r.balance = favours
        /\ chosen.balance = favours
        /\ r.plan.direction = r.verdict
        /\ confirmed = {r.plan.setup}
        /\ PlanHolds(r, lastVisible, bars)

NoTradeHolds(r) ==
    /\ r.noTrade # Null
    /\ r.uncertainty = Null
    /\ \A side \in Sides : r.cases[side].state # "actionable"
    /\ Cites(r, r.noTrade)

UncertainHolds(r) ==
    /\ r.uncertainty # Null
    /\ r.noTrade = Null
    /\ Cites(r, r.uncertainty)
    /\ \/ r.balance \in {"conflicting", "insufficient"}
       \/ \E side \in Sides :
            \/ r.cases[side].state = "uncertain"
            \/ r.cases[side].signal.state = "uncertain"
            \/ r.cases[side].trigger = "ambiguous"

VerdictHolds(r, lastVisible, bars) ==
    IF r.verdict \in Sides
    THEN TradeHolds(r, lastVisible, bars)
    ELSE /\ r.plan = Null
         /\ r.geometry = Null
         /\ IF r.verdict = "no_trade" THEN NoTradeHolds(r) ELSE UncertainHolds(r)

(* createBrooksDecision returns a decision exactly for these. *)
DecisionHolds(r, lastVisible, bars, doctrine) ==
    /\ BarsHold(lastVisible, bars)
    /\ EvidenceHolds(r, bars, doctrine)
    /\ ContextHolds(r)
    /\ StructuresHold(r, bars)
    /\ MagnetsHold(r)
    /\ \A side \in Sides : SideHolds(r, r.cases[side], bars, doctrine)
    /\ VerdictHolds(r, lastVisible, bars)

-----------------------------------------------------------------------------
(* The identity-free response V2: the planned prices must be tied to the    *)
(* anchors of the plan before the decision is built at all.                 *)

AnchorPrices(structure) == {structure.anchors[i].price : i \in DOMAIN structure.anchors}

GeometryBranch(r) == (r.verdict \in Sides) <=> (r.geometry # Null)

EntryGeometry(r) ==
    LET entry == r.plan.entry
        side == r.plan.direction
    IN  /\ entry.type = "stop" => Worse(side, entry.anchor.price, r.geometry.entry)
        /\ entry.type = "limit" /\ entry.structure \in DOMAIN r.structures =>
            r.geometry.entry \in AnchorPrices(r.structures[entry.structure])

ProtectionGeometry(r) ==
    Worse(r.plan.direction, r.geometry.protection, r.plan.protection.anchor.price)

ObjectiveGeometry(r) ==
    LET magnet == r.plan.objective.magnet
    IN  magnet \in DOMAIN r.magnets =>
        LET structure == r.magnets[magnet].structure
        IN  structure \in DOMAIN r.structures =>
                r.geometry.objective \in AnchorPrices(r.structures[structure])

ResponseHolds(r, lastVisible, bars, doctrine) ==
    /\ GeometryBranch(r)
    /\ r.plan # Null /\ r.geometry # Null =>
        EntryGeometry(r) /\ ProtectionGeometry(r) /\ ObjectiveGeometry(r)
    /\ r.plan # Null => r.plan.entry.type # "market_next_event"
    /\ DecisionHolds(r, lastVisible, bars, doctrine)
=============================================================================
