--------------------------- MODULE SchemaHistory ----------------------------
(***************************************************************************)
(* What the content-hashed migrations promise: the migrations applied to a *)
(* database are at all times the beginning of one deployment's sequence,   *)
(* and a later one is only ever added at the end.                          *)
(***************************************************************************)
EXTENDS Sequences, Integers

CONSTANT Lines \* the migration sequences of the deployments

VARIABLE history \* the migrations applied, in order

BeginsOne(h) ==
    \E s \in Lines : Len(h) =< Len(s) /\ \A i \in 1..Len(h) : h[i] = s[i]

HistoryInit == history = <<>>

HistoryNext ==
    \E s \in Lines :
        /\ Len(history) < Len(s)
        /\ history' = Append(history, s[Len(history) + 1])
        /\ BeginsOne(history')

HistorySpec == HistoryInit /\ [][HistoryNext]_history
=============================================================================
