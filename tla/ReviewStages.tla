---------------------------- MODULE ReviewStages ----------------------------
(***************************************************************************)
(* What the blind review workflow promises of each Case, seen from         *)
(* outside: it passes through four stages in order, skips none, never goes *)
(* back, and a review that bypasses the workflow takes it out of service   *)
(* for good.  BlindReview implements this over its five tables.            *)
(***************************************************************************)
CONSTANT Cases

VARIABLE stage

StageNames ==
    {"undecided", "awaiting_assessment", "awaiting_reveal",
     "awaiting_final_review", "completed", "failed"}

StageInit == stage = [c \in Cases |-> "undecided"]

Advance(c, from, to) ==
    /\ stage[c] = from
    /\ stage' = [stage EXCEPT ![c] = to]

\* A review recorded outside the workflow: its Case fails closed.
Bypass(c) ==
    /\ stage[c] \in {"awaiting_assessment", "awaiting_reveal", "awaiting_final_review"}
    /\ stage' = [stage EXCEPT ![c] = "failed"]

StageNext ==
    \E c \in Cases :
        \/ Advance(c, "undecided", "awaiting_assessment")
        \/ Advance(c, "awaiting_assessment", "awaiting_reveal")
        \/ Advance(c, "awaiting_reveal", "awaiting_final_review")
        \/ Advance(c, "awaiting_final_review", "completed")
        \/ Bypass(c)

StageSpec == StageInit /\ [][StageNext]_stage

=============================================================================
