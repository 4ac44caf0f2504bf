---------------------------- MODULE MCRetrieval -----------------------------
(* Two requests over one question that matches and one that does not,      *)
(* while one standard activation follows another and the unit is retired.  *)
EXTENDS DoctrineRetrieval, TLC

CONSTANTS u1, q1, q2, r1, k1, k2

MCUnits == {u1}
MCReasons == {r1}
MCQuestions == {q1, q2}
MCMatch == (q1 :> {u1}) @@ (q2 :> {})
MCRequests == {k1, k2}

=============================================================================
