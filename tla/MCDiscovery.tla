---------------------------- MODULE MCDiscovery ----------------------------
(***************************************************************************)
(* Two tall bars, then quiet ones of spread 64 (four ticks) around a range *)
(* from 0 to 64, so that the tolerance is 32 and the displacement 16;      *)
(* then bars that break out, come back, end exactly at the lower edge of a *)
(* break, span both sides, follow a gap or close above their own high.     *)
(***************************************************************************)
EXTENDS DiscoveryEngine

Bar(open, high, low, close) ==
    [open |-> open, high |-> high, low |-> low, close |-> close, gap |-> FALSE]

Quiet == Bar(16, 64, 0, 32)

BreakUp == Bar(32, 128, 32, 112)

Back == Bar(96, 96, 32, 48)

Touch == Bar(16, 32, -32, -16)

Both == Bar(32, 96, -32, 32)

Gap == [Quiet EXCEPT !.gap = TRUE]

Crooked == [Quiet EXCEPT !.close = 80]

MCShapes == {BreakUp, Back, Touch, Both, Gap, Crooked}

Tall == Bar(16, 192, -64, 32)

MCHistory == <<Tall, Tall, Quiet, Quiet, Quiet, Quiet>>
=============================================================================
