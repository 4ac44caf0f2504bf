------------------------------ MODULE MCReview ------------------------------
(* Two tabs review a Case with conflicting verdicts while the Phase 2      *)
(* route may append a review of its own.                                   *)
EXTENDS BlindReview, TLC

CONSTANTS c1, long, short, agree, disagree, h1, h2

MCCases == {c1}
MCVerdicts == {long, short}
MCFinals == {agree, disagree}
MCHandlers == {h1, h2}
MCBrooks == c1 :> long

Symmetry == Permutations(MCHandlers)
=============================================================================
