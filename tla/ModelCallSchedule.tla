------------------------- MODULE ModelCallSchedule --------------------------
(* Which model calls exist: packages/contracts/src/model-call-schedule-v1.ts *)
(*                                                                         *)
(* A call is its identity: callId hashes every field, so the record stands  *)
(* for the hash.  The bar duration, the prompt, the output schema and the   *)
(* reasoning budget are one protocol, held constant by the callers.         *)
EXTENDS Integers, Sequences, FiniteSets

CONSTANT NoBar    \* lastScheduledBarId before the first call

EveryClose == "continuous_every_close.v1"

(* A decision point as a caller hands it in: isClosed and inputHash are its  *)
(* word for it.                                                             *)
Point(stream, bar, input, policy) ==
    [stream |-> stream, bar |-> bar.id, sequence |-> bar.sequence,
     closed |-> bar.closed, input |-> input, policy |-> policy]

ModelCall(mode, point, candidate, repeat) ==
    [mode |-> mode, stream |-> point.stream, bar |-> point.bar,
     sequence |-> point.sequence, input |-> point.input, policy |-> point.policy,
     candidate |-> candidate, repeat |-> repeat]

-----------------------------------------------------------------------------
(* The continuous mode: one call per closed bar of one stream.              *)

EmptySchedule(stream, candidate) ==
    [stream |-> stream, candidate |-> candidate,
     sequence |-> -1, bar |-> NoBar, input |-> NoBar, bars |-> {}]

Follows(schedule, point) ==
    point.stream = schedule.stream /\ point.policy = EveryClose

(* A mutant: only the latest bar is remembered. *)
LatestScheduled(schedule, point) == point.bar = schedule.bar

AlreadyScheduled(schedule, point) == point.bar \in schedule.bars

(* What advanceContinuousSchedule answers; "refused" is a thrown error. *)
Verdict(schedule, point) ==
    CASE ~ Follows(schedule, point) -> "refused"
      [] Follows(schedule, point) /\ ~ point.closed -> "bar_not_closed"
      [] Follows(schedule, point) /\ point.closed /\ AlreadyScheduled(schedule, point) ->
            IF /\ point.sequence = schedule.sequence
               /\ point.bar = schedule.bar
               /\ point.input = schedule.input
            THEN "duplicate_closed_bar"
            ELSE "refused"
      [] OTHER ->
            IF point.sequence > schedule.sequence THEN "scheduled"
            ELSE IF point.sequence = schedule.sequence THEN "refused"
            ELSE "stale_closed_bar"

Advanced(schedule, point) ==
    [schedule EXCEPT !.sequence = point.sequence,
                     !.bar = point.bar,
                     !.input = point.input,
                     !.bars = @ \cup {point.bar}]

-----------------------------------------------------------------------------
(* The evaluation mode: a frozen selection, every candidate, every repeat.  *)

SelectionHolds(selection, points, candidates) ==
    /\ selection.frozen
    /\ selection.policy # EveryClose
    /\ points # {}
    /\ Cardinality(candidates) >= 2
    /\ \A p \in points : p.closed /\ p.policy = selection.policy
    /\ \A p, q \in points : p.stream = q.stream /\ p.bar = q.bar => p = q

EvaluationCalls(points, candidates, repeats) ==
    {ModelCall("evaluation_sampled", p, c, r) : p \in points, c \in candidates,
                                           r \in 0..repeats - 1}

-----------------------------------------------------------------------------
(* Frozen results and the bundle a replay reads them from.                  *)

FrozenResult(call, decision, status) ==
    [call |-> call, decision |-> decision, status |-> status]

BundleHolds(results) ==
    /\ results # {}
    /\ \A r, s \in results : r.call = s.call => r = s
=============================================================================
