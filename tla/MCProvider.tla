---------------------------- MODULE MCProvider ------------------------------
(***************************************************************************)
(* Two calls that share a base directory, over the fixture's modes: a      *)
(* response, tool use, nothing, too much output that then hangs or not,    *)
(* diagnostics, a bad exit and a hang with a descendant of either kind.    *)
(***************************************************************************)
EXTENDS ProviderCall, TLC

CONSTANTS c1, c2, b1

MCBaseOf == (c1 :> b1) @@ (c2 :> b1)

Mode(out, err, status, hangs, child, envelope) ==
    [out |-> out, err |-> err, status |-> status, hangs |-> hangs, child |-> child,
     envelope |-> envelope]

MCModes ==
    {Mode(1, 0, 0, FALSE, "none", "closed"),
     Mode(1, 0, 0, FALSE, "none", "tool"),
     Mode(2, 0, 0, FALSE, "none", "other"),
     Mode(0, 1, 0, FALSE, "none", "other"),
     Mode(0, 2, 0, FALSE, "none", "other"),
     Mode(0, 0, 17, FALSE, "none", "other"),
     Mode(1, 0, 0, TRUE, "plain", "other"),
     Mode(1, 0, 0, TRUE, "resistant", "other")}

=============================================================================
