----------------------------- MODULE MCAssembly -----------------------------
(* Two Cases assembled and prepared while two standard activations and a   *)
(* rollback follow each other and the pilot unit is retired; the pilot's   *)
(* snapshot keeps both bounds, exceeds one of them, or both.               *)
EXTENDS PreparedPayload, TLC

CONSTANTS u1, r1, c1, c2

MCUnit == {u1}
MCReasons == {r1}
MCCases == {c1, c2}

Symmetry == Permutations(MCCases)
=============================================================================
