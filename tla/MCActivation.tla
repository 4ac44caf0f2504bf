---------------------------- MODULE MCActivation ----------------------------
(* Two pilot units, two ingestion attempts and so at most two standard     *)
(* activations, with rollbacks for two reasons racing between them.        *)
EXTENDS CorpusActivation

CONSTANTS u1, u2, r1, r2

MCUnits == {u1, u2}
MCPilot == {u1, u2}
MCReasons == {r1, r2}
=============================================================================
