---------------------------- MODULE MCCaseIntake -----------------------------
(* Fixtures around one Case: a Case of another stream that looks the same   *)
(* and whose decision has the same identifier, one that takes the Case's    *)
(* identifier with a window so short that its panels are one picture, a     *)
(* second input, another review, charts of the wrong Case, and a bundle     *)
(* nobody authorised.                                                       *)
EXTENDS CaseIntake, TLC

CONSTANTS c1, c2, s1, s2, d1, d2

Bar(id, sequence, close) ==
    [id |-> id, sequence |-> sequence, open |-> close, low |-> close, close |-> close,
     high |-> 2 * close, continuity |-> IF sequence = 1 THEN "unknown" ELSE "contiguous", closed |-> TRUE]

Case(id, stream, bars) ==
    [id |-> id, stream |-> stream, bars |-> bars,
     leftCensored |-> Len(bars) < ContextBars, lastVisible |-> bars[Len(bars)].id]

Base == Case("k", s1, <<Bar("a", 1, 1), Bar("b", 2, 2), Bar("c", 3, 4)>>)
Twin == Case("t", s2, <<Bar("a", 1, 2), Bar("b", 2, 4), Bar("c", 3, 8)>>)
Short == Case("k", s2, <<Bar("e", 1, 1), Bar("f", 2, 3)>>)

First ==
    [case |-> Base, drawn |-> Base, doctrine |-> {d1},
     decisionId |-> "one", verdict |-> "no_trade",
     reviewId |-> "one", disposition |-> "agree", reviewVerdict |-> "no_trade"]
Other == [First EXCEPT !.decisionId = "two", !.reviewId = "two"]

TwinCase == [First EXCEPT !.case = Twin, !.drawn = Twin]
ShortCase == [Other EXCEPT !.case = Short, !.drawn = Short]
SecondInput == [Other EXCEPT !.doctrine = {d2}]
SecondReview == [First EXCEPT !.disposition = "disagree", !.reviewVerdict = "long"]
WrongCharts == [Other EXCEPT !.drawn = Twin]
Unauthorized == [TwinCase EXCEPT !.doctrine = {d2}]

MCFixtures ==
    {First, TwinCase, ShortCase, SecondInput, SecondReview, WrongCharts, Unauthorized}
MCAuthorized == {BundleOf[f] : f \in MCFixtures \ {Unauthorized}}

Symmetry == Permutations(Clients)
=============================================================================
