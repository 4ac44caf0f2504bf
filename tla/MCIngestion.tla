---------------------------- MODULE MCIngestion -----------------------------
(* Two operators ingest while two allowlisted units, one of them outside   *)
(* the pilot fixtures, move through their lifecycle.                       *)
EXTENDS DoctrineIngestion, TLC

CONSTANTS u1, u2, u3, c1, c2

MCUnits == {u1, u2, u3}
MCAllowed == {u1, u2}
MCPilot == {u1}
MCSessions == {c1, c2}

Symmetry == Permutations(MCSessions)
=============================================================================
