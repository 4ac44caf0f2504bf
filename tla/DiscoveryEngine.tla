-------------------------- MODULE DiscoveryEngine ---------------------------
(***************************************************************************)
(* evaluateDiscoveryFactorsV1 and evaluateDiscoveryCandidateAdmissionV1    *)
(* over a stream of closed bars.  The engine keeps nothing: its caller     *)
(* evaluates the latest bar (or misses it, or evaluates it again), chooses *)
(* how much history it supplies, passes the candidates it got for bars of  *)
(* that history (one of those that share an identity), and may ask later   *)
(* whether a candidate is still admissible.                                *)
(***************************************************************************)
EXTENDS DiscoveryFactors

CONSTANTS
    MinHistory,  \* DISCOVERY_MIN_HISTORY_BARS_V1, 40
    FullContext, \* DISCOVERY_STANDARD_CONTEXT_BARS_V1, 120
    Ttl,         \* DISCOVERY_TTL_BARS_V1, 3
    Cooldown,    \* DISCOVERY_COOLDOWN_BARS_V1, 6
    History,     \* bars closed before the stream is watched
    Shapes,      \* bars the market may print
    NoCandidate, \* no predecessor
    Supplied,    \* bound: the numbers of bars a caller supplies
    MaxBars      \* bound: bars closed

Bars == [open : Int, high : Int, low : Int, close : Int, gap : BOOLEAN]

ASSUME EngineAssumption ==
    /\ MinHistory \in Nat /\ FullContext \in Nat
    /\ Ttl \in Nat /\ Cooldown \in Nat
    /\ MinHistory > Cooldown + 1
    /\ Cooldown >= Ttl
    /\ MinHistory > Window + LegSpan /\ MinHistory > LegSpan + 2
    /\ MinHistory > Lookback
    /\ Shapes \subseteq Bars /\ History \in Seq(Bars)
    /\ Supplied \subseteq Nat
    /\ MaxBars \in Nat

VARIABLES
    bars,     \* the stream, a bar's sequence is its index
    emitted,  \* candidates the caller got
    status    \* status of the latest evaluation of the latest bar

vars == <<bars, emitted, status>>

-----------------------------------------------------------------------------
\* createDiscoveryCandidateV1: what makes the identity of a candidate.
Id(c) == <<c.primary, c.group, c.seq, c.polarity>>

\* An identity is a tuple of names and numbers, "no predecessor" is not.
Ids ==
    LET Anchors == {"upper", "lower", "midpoint", "pivot-high", "pivot-low"}
    IN {EventTypes[i] : i \in 1..5} \X (Anchors \X Nat) \X Nat \X Polarities

ASSUME IdentityAssumption == NoCandidate \notin Ids

\* createDiscoveryDedupGroupKeyV1.
Thread(c) == <<c.group, c.polarity, c.family>>

Escalates(c) == c.predecessor # NoCandidate

\* semanticPredecessorFor.
Predecessors(hit, prior) ==
    {c \in prior :
        /\ hit.type = "failed_breakout_candidate"
        /\ c.primary = "breakout_attempt"
        /\ Thread(c) = <<hit.group, hit.polarity, hit.family>>
        /\ c.seq \in hit.evidence}

Primary(hits) == CHOOSE hit \in hits : \A other \in hits : Rank(hit.type) =< Rank(other.type)

\* One group of hits becomes one candidate.
Composite(hits, seen, off, prior) ==
    LET primary == Primary(hits)
        before == Predecessors(primary, prior)
    IN [seq |-> off + Len(seen),
        primary |-> primary.type,
        secondary |-> {hit.type : hit \in hits} \ {primary.type},
        polarity |-> primary.polarity,
        group |-> primary.group,
        family |-> primary.family,
        enhancers |-> ContextEnhancers(primary, seen),
        activity |-> ActivityBucket(seen),
        context |-> IF Len(seen) >= FullContext THEN "normal" ELSE "left_censored",
        predecessor |-> IF before = {} THEN NoCandidate
                        ELSE Id(CHOOSE c \in before : \A d \in before : c.seq >= d.seq)]

\* buildCandidates: hits are grouped by side and anchor group.
BuildCandidates(seen, off, prior) ==
    LET Like(h, hits) == {hit \in hits : hit.polarity = h.polarity /\ hit.group = h.group}
        Grouped(hits) == {Like(hit, hits) : hit \in hits}
    IN {Composite(group, seen, off, prior) : group \in Grouped(CoreHits(seen, off))}

\* Mutant: the cooldown is over one bar early.
CooldownBlocksShort(c, prior) ==
    /\ ~Escalates(c)
    /\ \E p \in prior : Thread(p) = Thread(c) /\ c.seq < p.seq + Cooldown

\* Mutant: an escalation is suppressed like any repetition.
CooldownBlocksAll(c, prior) ==
    \E p \in prior : Thread(p) = Thread(c) /\ c.seq =< p.seq + Cooldown

\* cooldownBlocker.
CooldownBlocks(c, prior) ==
    /\ ~Escalates(c)
    /\ \E p \in prior : Thread(p) = Thread(c) /\ c.seq =< p.seq + Cooldown

Surviving(seen, off, prior) ==
    {c \in BuildCandidates(seen, off, prior) : ~CooldownBlocks(c, prior)}

-----------------------------------------------------------------------------
Init ==
    /\ bars = History
    /\ emitted = {}
    /\ status = "not_evaluated"

CloseBar ==
    /\ Len(bars) < MaxBars
    /\ \E shape \in Shapes : bars' = Append(bars, shape)
    /\ status' = "not_evaluated"
    /\ UNCHANGED emitted

\* isValidOhlc.
IsValidOhlc(bar) ==
    /\ bar.low =< bar.open /\ bar.open =< bar.high
    /\ bar.low =< bar.close /\ bar.close =< bar.high

\* validateInput: history, continuity of every bar but the first, and geometry.
Rejects(seen) ==
    \/ Len(seen) < MinHistory
    \/ \E i \in 2..Len(seen) : seen[i].gap
    \/ \E i \in 1..Len(seen) : ~IsValidOhlc(seen[i])

\* validatePriorCandidates: what the caller passes, the bars it has forgotten
\* and the event bar itself excluded.
Prior(off) == {c \in emitted : off < c.seq /\ c.seq < Len(bars)}

Reject(seen) ==
    /\ Rejects(seen)
    /\ status' = "rejected_data_quality"
    /\ UNCHANGED <<bars, emitted>>

RejectAmbiguous(seen) ==
    /\ ~Rejects(seen)
    /\ Ambiguous(seen)
    /\ status' = "rejected_ambiguity"
    /\ UNCHANGED <<bars, emitted>>

\* no_trigger, suppressed_cooldown or candidate_emitted.
Detect(seen, off) ==
    /\ ~Rejects(seen)
    /\ ~Ambiguous(seen)
    /\ LET prior == Prior(off)
           surviving == Surviving(seen, off, prior)
       IN /\ emitted' = emitted \cup surviving
          /\ status' = CASE CoreHits(seen, off) = {} -> "no_trigger"
                          [] surviving # {} -> "candidate_emitted"
                          [] OTHER -> "suppressed_cooldown"
    /\ UNCHANGED bars

Evaluate(off) ==
    LET seen == SubSeq(bars, off + 1, Len(bars))
    IN Reject(seen) \/ RejectAmbiguous(seen) \/ Detect(seen, off)

\* Mutant: only the budget is asked.
AdmissibleOnBudget(c, now) == now >= c.seq

\* evaluateDiscoveryCandidateAdmissionV1 and its validation of the current
\* sequence, given budget; without budget the candidate is deferred, unchanged.
Admissible(c, now) == now >= c.seq /\ now =< c.seq + Ttl

Next ==
    \/ CloseBar
    \/ \E n \in Supplied : n >= 1 /\ n =< Len(bars) /\ Evaluate(Len(bars) - n)

Spec == Init /\ [][Next]_vars

-----------------------------------------------------------------------------
\* After a candidate its thread (anchor group, side and family) is quiet for
\* Cooldown bars, whatever history each evaluation was given and however often
\* a bar was evaluated; only the failure of the breakout at the very next bar
\* is let through (cooldownBlocker, isSemanticEscalation).
ThreadsStayQuiet ==
    \A a, b \in emitted :
        Thread(a) = Thread(b) /\ a.seq < b.seq /\ b.seq =< a.seq + Cooldown
            => b.seq = a.seq + 1 /\ Escalates(b)

Evaluated == status \in {"no_trigger", "suppressed_cooldown", "candidate_emitted"}

\* When a breakout was reported and the bar after it, evaluated, closes back
\* inside the range the breakout left, the failure is reported as an escalation
\* of that breakout: the cooldown the breakout started never swallows it.
FailureIsReported ==
    \A a \in emitted :
        /\ a.primary = "breakout_attempt"
        /\ Len(bars) = a.seq + 1
        /\ Evaluated
        /\ BackInside(Last(bars), Reference(SubSeq(bars, 1, a.seq - 1)), a.polarity)
        => \E b \in emitted : b.seq = a.seq + 1 /\ b.predecessor = Id(a)

\* What the caller is told of the latest bar, pivots and context quality apart.
Opinion(n) ==
    LET off == Len(bars) - n
        told == Surviving(SubSeq(bars, off + 1, Len(bars)), off, Prior(off))
    IN {[c EXCEPT !.context = "any"] : c \in
            {d \in told : d.group[1] \notin {"pivot-high", "pivot-low"}}}

\* Evaluating a bar again with more or less history yields no second opinion of
\* it: the same candidates, of the same types, with the same predecessors
\* (MINIMUM_HISTORY exceeds the window and the span of a pullback, and holds
\* every candidate a cooldown can ask for).
RepeatsAgree ==
    status = "not_evaluated" =>
        \A one, other \in {Opinion(n) : n \in Supplied \cap (MinHistory..Len(bars))} :
            one = other

\* Two candidates of one thread are never admissible at the same bar, so that
\* one turn of the market is not analysed twice; the escalation of a breakout
\* is the exception (the admission window is no longer than the cooldown).
AdmissionsDoNotOverlap ==
    \A a, b \in emitted :
        /\ Thread(a) = Thread(b)
        /\ a.seq < b.seq
        /\ \E now \in b.seq..Len(bars) : Admissible(a, now) /\ Admissible(b, now)
        => Escalates(b)

MirrorBar(bar) ==
    [bar EXCEPT !.open = -bar.open, !.high = -bar.low, !.low = -bar.high, !.close = -bar.close]

MirrorGroup(group) ==
    CASE group[1] = "upper" -> <<"lower", 0>>
      [] group[1] = "lower" -> <<"upper", 0>>
      [] group[1] = "pivot-high" -> <<"pivot-low", group[2]>>
      [] group[1] = "pivot-low" -> <<"pivot-high", group[2]>>

MirrorHit(hit) ==
    [hit EXCEPT !.polarity = IF hit.polarity = "upward" THEN "downward" ELSE "upward",
                !.group = MirrorGroup(hit.group)]

\* Neither side of the market is favoured: over bars turned upside down the
\* detectors find the same hits on the other side, the same ambiguity and the
\* same enhancers, whenever a bar has closed and the bars are accepted.  (The
\* magnet of the midpoint takes a doji for upward.)
SidesMirror ==
    LET flipped == [i \in DOMAIN bars |-> MirrorBar(bars[i])]
        Sided(hits) == {hit \in hits : hit.group[1] # "midpoint"}
        hits == Sided(CoreHits(bars, 0))
    IN status = "not_evaluated" /\ ~Rejects(bars) =>
       /\ Sided(CoreHits(flipped, 0)) = {MirrorHit(hit) : hit \in hits}
       /\ Ambiguous(flipped) = Ambiguous(bars)
       /\ \A hit \in hits :
            ContextEnhancers(MirrorHit(hit), flipped) = ContextEnhancers(hit, bars)
=============================================================================
