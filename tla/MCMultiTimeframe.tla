-------------------------- MODULE MCMultiTimeframe ---------------------------
(* A feed that loses an interval and prints its highest prices later, an    *)
(* instrument beside it, bars of one, two and four intervals, and responses *)
(* about windows with and without the gap.                                  *)
EXTENDS MultiTimeframe, TLC

CONSTANTS f1, f2, d1

Print4(low, high, close) == [low |-> low, high |-> high, close |-> close]

MCFeeds ==
    (f1 :> <<Print4(4, 16, 8), Print4(8, 16, 8), Null, Print4(8, 32, 16),
             Print4(8, 64, 8), Print4(8, 16, 16)>>)
 @@ (f2 :> <<Print4(8, 8, 8), Print4(8, 8, 8), Print4(8, 8, 8), Null, Null, Null>>)

MCSpan == ("5m" :> 1) @@ ("60m" :> 2) @@ ("1d" :> 4)
MCDoctrine == {d1}

-----------------------------------------------------------------------------
(* Buy above 200, protect below the low, aim at 400 on the last bar.        *)

Bar(i) == <<"5m", "finalized", i>>
Point(bar, field, price) == [bar |-> bar, field |-> field, price |-> price * Unit]
Entry(point, claim) ==
    point @@ [scope |-> {claim}, doctrine |-> {d1}]
Mention(bar, claim) ==
    [bar |-> bar, field |-> "relationship", price |-> Null,
     scope |-> {claim}, doctrine |-> {d1}]
Condition(point) == [anchor |-> point, relation |-> "below", claims |-> {"plan"}]

ChosenCase ==
    [state |-> "actionable", balance |-> "favors_long",
     setups |-> [s \in {"first"} |->
        [role |-> "primary", state |-> "confirmed", doctrine |-> d1,
         claims |-> {"plan"}]],
     signal |-> [kind |-> "no_separate_signal", state |-> "confirmed", bars |-> << >>,
                 doctrine |-> {d1}, claims |-> {"plan"}],
     trigger |-> "pending", claims |-> {"plan"}]
QuietCase ==
    [ChosenCase EXCEPT !.state = "absent", !.balance = "balanced",
                       !.setups = << >>, !.signal.state = "absent"]

Decision(n, low) ==
    [verdict |-> "long", balance |-> "favors_long",
     evidence |-> [e \in {"e"} |-> {Bar(n)}],
     claims |-> [c \in {"plan", "other"} |-> [evidence |-> {"e"}, doctrine |-> {d1}]],
     context |-> [p \in {"broad"} |-> {"other"}],
     breakout |-> [state |-> "none", structure |-> Null],
     structures |-> [s \in {"range"} |->
        [kind |-> "range", anchors |-> <<Point(Bar(n), "high", 400)>>,
         claims |-> {"plan"}]],
     magnets |-> [m \in {"m"} |->
        [structure |-> "range", side |-> "above", relevance |-> "primary",
         claims |-> {"plan"}]],
     cases |-> ("long" :> ChosenCase) @@ ("short" :> QuietCase),
     plan |-> [direction |-> "long", setup |-> "first", holding |-> "scalp",
        entry |-> [type |-> "stop", relation |-> "break_above",
                   anchor |-> Point(Bar(n - 1), "high", 200), structure |-> "none",
                   validAfter |-> Bar(n), validFor |-> 1, claims |-> {"plan"}],
        cancellation |-> Condition(Point(Bar(n - 1), "low", low)),
        invalidation |-> Condition(Point(Bar(n - 1), "low", low)),
        protection |-> Condition(Point(Bar(n - 1), "low", low)),
        objective |-> [magnet |-> "m", claims |-> {"plan"}],
        claims |-> {"plan"}],
     geometry |-> [entry |-> 210 * Unit, protection |-> 40 * Unit,
                   objective |-> 400 * Unit],
     noTrade |-> Null, uncertainty |-> Null]

NoTrade(n) ==
    [Decision(n, 100) EXCEPT !.verdict = "no_trade", !.balance = "balanced",
        !.structures = << >>, !.magnets = << >>,
        !.cases = ("long" :> QuietCase) @@ ("short" :> QuietCase),
        !.plan = Null, !.geometry = Null, !.noTrade = {"other"}]

Assessed(entry) ==
    [relationship |-> "supports", evidence |-> {entry}, doctrine |-> {d1}]

Response(trade, n, low, gap, sixty, daily) ==
    LET points == ("entry" :> Point(Bar(n - 1), "high", 200))
               @@ ("protection" :> Point(Bar(n - 1), "low", low))
               @@ ("objective" :> Point(Bar(n), "high", 400))
        mentioned == ("plan" :> Mention(Bar(1), "plan"))
                  @@ ("last" :> Mention(Bar(n), "other"))
                  @@ (IF sixty = Null THEN << >> ELSE "60m" :> Mention(sixty, "other"))
                  @@ (IF daily = Null THEN << >> ELSE "1d" :> Mention(daily, "other"))
    IN  [decision |-> IF trade THEN Decision(n, low) ELSE NoTrade(n),
         evidence |-> IF trade THEN mentioned @@ [a \in Anchors |-> Entry(points[a], "plan")]
                      ELSE mentioned,
         anchors |-> [a \in Anchors |-> IF trade THEN points[a] ELSE Null],
         references |-> [tf \in References |->
            IF (IF tf = "60m" THEN sixty ELSE daily) = Null THEN Null ELSE Assessed(tf)],
         conflict |-> IF sixty = Null \/ daily = Null
                      THEN [state |-> "not_applicable", evidence |-> {}, doctrine |-> {}]
                      ELSE [state |-> "no_material_conflict",
                            evidence |-> References, doctrine |-> {d1}],
         gaps |-> IF gap = Null THEN << >>
                  ELSE "gap" :> [timeframe |-> "5m", materiality |-> gap[1],
                                 affected |-> {gap[2]}, evidence |-> {"last"},
                                 doctrine |-> {d1}]]

MCResponses ==
    {Response(trade, n, low, gap, sixty, daily) :
        trade \in BOOLEAN, n \in {2, 3}, low \in {50, 100},
        gap \in {Null, <<"immaterial", "other">>, <<"immaterial", "plan">>,
                 <<"material", "other">>},
        sixty \in {Null, <<"60m", "finalized", 1>>, <<"60m", "provisional", 1>>},
        daily \in {Null, <<"1d", "provisional", 1>>}}
=============================================================================
