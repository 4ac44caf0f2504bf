------------------------------ MODULE MCReplay ------------------------------
(* Two streams: a live one of three bars that reuses a bar identifier, and  *)
(* one with a gap after its third bar.  Windows of both have one anonymous  *)
(* shape, and two windows of the second have one length and other prices.   *)
(* The responses are ones that a validator must tell apart.                 *)
EXTENDS DecisionReplay, TLC

CONSTANTS s1, s2, x1, m1, m2, d1, b1, b2, b3, b4

LocalBar(id, sequence, close) ==
    [id |-> id, sequence |-> sequence, open |-> close, low |-> close, close |-> close,
     high |-> 2 * close, continuity |-> "contiguous", closed |-> FALSE]

MCMarket ==
    (s1 :> <<LocalBar(b1, 7, 1), LocalBar(b2, 8, 2), LocalBar(b1, 9, 4)>>)
 @@ (s2 :> <<LocalBar(b1, 7, 2), LocalBar(b2, 8, 4), LocalBar(b3, 9, 8),
             LocalBar(b4, 11, 2), LocalBar(b1, 12, 6)>>)

MCCaseIds == {x1}
MCCandidates == {m1, m2}
MCDoctrine == {d1}
MCDatasets ==
    {[scope |-> "exact_slice", purpose |-> "research_replay", immutable |-> TRUE,
      protectedWindow |-> "passed", authority |-> "calvin"]}
MCPolicies == {[frozen |-> TRUE, mutable |-> FALSE]}

-----------------------------------------------------------------------------
(* A long plan on the first two bars: buy above the high of the first       *)
(* (200), protect below its low (100), aim at the high of the second (400). *)

Claims == {"c"}
Anchor(bar, field, price) == [bar |-> bar, field |-> field, price |-> price]
Condition(anchor, relation) ==
    [anchor |-> anchor, relation |-> relation, claims |-> Claims]

LongCase ==
    [state |-> "actionable", balance |-> "favors_long",
     setups |-> [s \in {"first"} |->
        [role |-> "primary", state |-> "confirmed", doctrine |-> d1, claims |-> Claims]],
     signal |-> [kind |-> "discrete_bar", state |-> "confirmed", bars |-> <<2>>,
                 doctrine |-> {d1}, claims |-> Claims],
     trigger |-> "pending", claims |-> Claims]

QuietCase ==
    [LongCase EXCEPT !.state = "absent", !.balance = "balanced",
                     !.setups = << >>, !.signal.state = "absent"]

LongPlan ==
    [direction |-> "long", setup |-> "first", holding |-> "scalp",
     entry |-> [type |-> "stop", relation |-> "break_above",
                anchor |-> Anchor(1, "high", 200), structure |-> "none",
                validAfter |-> 2, validFor |-> 1, claims |-> Claims],
     cancellation |-> Condition(Anchor(1, "low", 100), "below"),
     invalidation |-> Condition(Anchor(1, "low", 100), "below"),
     protection |-> Condition(Anchor(1, "low", 100), "below"),
     objective |-> [magnet |-> "m", claims |-> Claims],
     claims |-> Claims]

Long ==
    [verdict |-> "long", balance |-> "favors_long",
     evidence |-> [e \in {"e"} |-> {1, 2}],
     claims |-> [c \in Claims |-> [evidence |-> {"e"}, doctrine |-> {d1}]],
     context |-> [p \in {"broad"} |-> Claims],
     breakout |-> [state |-> "none", structure |-> Null],
     structures |-> [s \in {"range"} |->
        [kind |-> "range", anchors |-> <<Anchor(2, "high", 400)>>, claims |-> Claims]],
     magnets |-> [m \in {"m"} |->
        [structure |-> "range", side |-> "above", relevance |-> "primary",
         claims |-> Claims]],
     cases |-> ("long" :> LongCase) @@ ("short" :> QuietCase),
     plan |-> LongPlan,
     geometry |-> [entry |-> 210, protection |-> 90, objective |-> 400],
     noTrade |-> Null, uncertainty |-> Null]

Wait ==
    [Long EXCEPT !.verdict = "no_trade", !.balance = "balanced",
        !.evidence["e"] = {1, 3},
        !.cases = ("long" :> QuietCase) @@ ("short" :> QuietCase),
        !.plan = Null, !.geometry = Null, !.noTrade = Claims]

(* Refused: a swing short of 2R, both sides actionable, a price the bar     *)
(* never printed, a bar that is not visible, an order that outlives a bar,  *)
(* and an uncertain verdict with nothing uncertain in it.                   *)
MCResponse ==
    ("long" :> Long) @@ ("wait" :> Wait)
 @@ ("swing" :> [Long EXCEPT !.plan.holding = "swing"])
 @@ ("both" :> [Long EXCEPT !.cases["short"] = LongCase])
 @@ ("misquote" :> [Long EXCEPT !.plan.entry.anchor.price = 150])
 @@ ("unseen" :> [Long EXCEPT !.evidence["e"] = {1, 4}])
 @@ ("lasting" :> [Long EXCEPT !.plan.entry.validFor = 2])
 @@ ("unsure" :> [Wait EXCEPT !.verdict = "uncertain", !.noTrade = Null,
                              !.uncertainty = Claims])
=============================================================================
