-------------------------- MODULE MarketDataProofs ---------------------------
(***************************************************************************)
(* Theorems about what is computed from market data, for every market.     *)
(*                                                                         *)
(* DiscoveryEngine, for every window, history, cooldown and stream: the    *)
(* engine keeps no state, so the quiet of a thread rests on what a         *)
(* candidate says of its predecessor and on the history a caller must      *)
(* supply reaching back further than the cooldown.  Nothing a caller is    *)
(* told depends on more history than that, nor on which way up the market  *)
(* is.                                                                     *)
(*                                                                         *)
(* MultiTimeframe, for every feed, span and response: what a feed says at  *)
(* an instant ends at that instant, and a Case takes only bars of its own. *)
(***************************************************************************)
EXTENDS DiscoveryEngine, MultiTimeframe, SequenceTheorems, FiniteSetTheorems,
        WellFoundedInduction, TLAPS

(***************************************************************************)
(* Discovery.                                                              *)
(***************************************************************************)

Type == {EventTypes[i] : i \in 1..5}

\* What the engine says of a candidate.
EscalationsFollow ==
    \A c \in emitted : Escalates(c) =>
        /\ c.primary = "failed_breakout_candidate"
        /\ \E p \in emitted : /\ p.primary = "breakout_attempt"
                              /\ Thread(p) = Thread(c)
                              /\ p.seq = c.seq - 1

SequencesKnown ==
    /\ bars \in Seq(Bars)
    /\ \A c \in emitted : c.seq \in Nat /\ c.seq =< Len(bars)

QuietInvariant == SequencesKnown /\ EscalationsFollow /\ ThreadsStayQuiet

-----------------------------------------------------------------------------
LEMMA RankIsKnown ==
    ASSUME NEW t \in Type
    PROVE  Rank(t) \in 1..5 /\ EventTypes[Rank(t)] = t
<1>1. DOMAIN EventTypes = 1..5
    BY DEF EventTypes
<1>2. PICK i \in 1..5 : EventTypes[i] = t
    BY DEF Type
<1> QED BY <1>1, <1>2 DEF Rank

\* A group of hits has a most specific one.
LEMMA PrimaryIsOfGroup ==
    ASSUME NEW hits, hits # {}, \A hit \in hits : hit.type \in Type
    PROVE  Primary(hits) \in hits
<1>1. \A hit \in hits : Rank(hit.type) \in 1..5
    BY RankIsKnown
<1>2. \E hit \in hits : \A other \in hits : Rank(hit.type) =< Rank(other.type)
    <2>1. CASE \E hit \in hits : Rank(hit.type) = 1
        BY <1>1, <2>1
    <2>2. CASE /\ \A hit \in hits : Rank(hit.type) >= 2
               /\ \E hit \in hits : Rank(hit.type) = 2
        BY <1>1, <2>2
    <2>3. CASE /\ \A hit \in hits : Rank(hit.type) >= 3
               /\ \E hit \in hits : Rank(hit.type) = 3
        BY <1>1, <2>3
    <2>4. CASE /\ \A hit \in hits : Rank(hit.type) >= 4
               /\ \E hit \in hits : Rank(hit.type) = 4
        BY <1>1, <2>4
    <2>5. CASE \A hit \in hits : Rank(hit.type) >= 5
        BY <1>1, <2>5
    <2> QED BY <1>1, <2>1, <2>2, <2>3, <2>4, <2>5
<1> QED BY <1>2 DEF Primary

\* The detectors report known types, and a failed breakout names the event bar
\* and the one before it.
LEMMA HitsAreKnown ==
    ASSUME NEW seen, NEW off \in Nat, Len(seen) \in Nat,
           NEW hit \in CoreHits(seen, off)
    PROVE  /\ hit.type \in Type
           /\ hit.type = "failed_breakout_candidate"
                => hit.evidence = {off + Len(seen) - 1, off + Len(seen)}
<1> DEFINE ref == Reference(Before(seen))
<1> DEFINE n == off + Len(seen)
<1>0. /\ "failed_breakout_candidate" \in Type /\ "breakout_attempt" \in Type
      /\ "range_boundary_interaction" \in Type /\ "pullback_to_structure" \in Type
      /\ "magnet_proximity" \in Type
    BY DEF Type, EventTypes
<1>1. CASE hit \in FailedBreakout(seen, off)
    <2>1. PICK polarity : hit \in
            {Lifecycle("failed_breakout_candidate", polarity, {n - 1, n}),
             Lifecycle("breakout_attempt", polarity, {n - 1}),
             Lifecycle("range_boundary_interaction", polarity, {n})}
        BY <1>1 DEF FailedBreakout
    <2>2. CASE hit = Lifecycle("failed_breakout_candidate", polarity, {n - 1, n})
        BY <1>0, <2>2 DEF Lifecycle, CoreHit
    <2>3. CASE hit = Lifecycle("breakout_attempt", polarity, {n - 1})
        BY <1>0, <2>3 DEF Lifecycle, CoreHit
    <2>4. CASE hit = Lifecycle("range_boundary_interaction", polarity, {n})
        BY <1>0, <2>4 DEF Lifecycle, CoreHit
    <2> QED BY <2>1, <2>2, <2>3, <2>4
<1>2. CASE hit \in BreakoutAttempt(Last(seen), n, ref)
    BY <1>0, <1>2 DEF BreakoutAttempt, Lifecycle, CoreHit
<1>3. CASE hit \in RangeBoundaryInteraction(Last(seen), n, ref)
    BY <1>0, <1>3 DEF RangeBoundaryInteraction, Lifecycle, CoreHit
<1>4. CASE hit \in PullbackToStructure(seen, off)
    <2>1. PICK polarity, evidence :
            hit = CoreHit("pullback_to_structure", polarity, "structure_return", evidence)
        BY <1>4 DEF PullbackToStructure
    <2> QED BY <1>0, <2>1 DEF CoreHit
<1>5. CASE hit \in MagnetProximity(seen, off, ref)
    BY <1>0, <1>5 DEF MagnetProximity, MagnetHit
<1> QED BY <1>1, <1>2, <1>3, <1>4, <1>5 DEF CoreHits

\* A candidate of an evaluation, and the breakout an escalation follows.
LEMMA CandidateIsOfBar ==
    ASSUME NEW seen, NEW off \in Nat, Len(seen) \in Nat, NEW prior,
           NEW c \in BuildCandidates(seen, off, prior)
    PROVE  /\ c.seq = off + Len(seen)
           /\ Escalates(c) =>
                /\ c.primary = "failed_breakout_candidate"
                /\ \E p \in prior : /\ p.primary = "breakout_attempt"
                                    /\ Thread(p) = Thread(c)
                                    /\ p.seq \in {c.seq - 1, c.seq}
<1> DEFINE Group(h) == {hit \in CoreHits(seen, off) :
                            hit.polarity = h.polarity /\ hit.group = h.group}
<1>1. PICK h \in CoreHits(seen, off) : c = Composite(Group(h), seen, off, prior)
    BY DEF BuildCandidates
<1> DEFINE first == Primary(Group(h))
<1>2. first \in CoreHits(seen, off)
    <2>1. Group(h) # {} /\ \A hit \in Group(h) : hit.type \in Type
        BY HitsAreKnown
    <2>2. first \in Group(h)
        BY <2>1, PrimaryIsOfGroup
    <2> QED BY <2>2
<1>3. /\ c.seq = off + Len(seen) /\ c.primary = first.type
      /\ Thread(c) = <<first.group, first.polarity, first.family>>
      /\ Predecessors(first, prior) = {} => ~Escalates(c)
    BY <1>1 DEF Composite, Thread, Escalates
<1>4. ASSUME Escalates(c)
      PROVE  /\ c.primary = "failed_breakout_candidate"
             /\ \E p \in prior : /\ p.primary = "breakout_attempt"
                                 /\ Thread(p) = Thread(c)
                                 /\ p.seq \in {c.seq - 1, c.seq}
    <2>1. PICK p \in Predecessors(first, prior) : TRUE
        BY <1>3, <1>4
    <2>2. /\ p \in prior /\ first.type = "failed_breakout_candidate"
          /\ p.primary = "breakout_attempt" /\ Thread(p) = Thread(c)
          /\ p.seq \in first.evidence
        BY <1>3, <2>1 DEF Predecessors
    <2>3. first.evidence = {c.seq - 1, c.seq}
        <3>1. first.evidence = {off + Len(seen) - 1, off + Len(seen)}
            BY <1>2, <2>2, HitsAreKnown
        <3>2. c.seq = off + Len(seen)
            BY <1>3
        <3> QED BY <3>1, <3>2
    <2> QED BY <1>3, <2>2, <2>3
<1> QED BY <1>3, <1>4

-----------------------------------------------------------------------------
LEMMA QuietInit == Init => QuietInvariant
BY EngineAssumption DEF Init, QuietInvariant, SequencesKnown, EscalationsFollow,
    ThreadsStayQuiet

LEMMA QuietStep == QuietInvariant /\ [Next]_vars => QuietInvariant'
<1> SUFFICES ASSUME QuietInvariant, [Next]_vars PROVE QuietInvariant'
    OBVIOUS
<1> USE EngineAssumption
<1>0. SequencesKnown /\ EscalationsFollow /\ ThreadsStayQuiet
    BY DEF QuietInvariant
<1>1. CASE CloseBar
    <2>1. PICK shape \in Shapes : bars' = Append(bars, shape)
        BY <1>1 DEF CloseBar
    <2>2. bars' \in Seq(Bars) /\ Len(bars') = Len(bars) + 1
        BY <1>0, <2>1 DEF SequencesKnown
    <2>3. emitted' = emitted
        BY <1>1 DEF CloseBar
    <2>4. SequencesKnown'
        BY <1>0, <2>2, <2>3 DEF SequencesKnown
    <2> QED BY <1>0, <2>3, <2>4 DEF QuietInvariant, EscalationsFollow, ThreadsStayQuiet
<1>2. ASSUME NEW n \in Supplied, n >= 1, n =< Len(bars), Evaluate(Len(bars) - n)
      PROVE  QuietInvariant'
    <2> DEFINE off == Len(bars) - n
    <2> DEFINE seen == SubSeq(bars, off + 1, Len(bars))
    <2>0. /\ bars \in Seq(Bars) /\ Len(bars) \in Nat /\ n \in Nat /\ off \in Nat
          /\ Len(seen) = n /\ off + Len(seen) = Len(bars)
        BY <1>0, <1>2 DEF SequencesKnown
    <2>1. CASE Reject(seen) \/ RejectAmbiguous(seen)
        BY <1>0, <2>1 DEF Reject, RejectAmbiguous, QuietInvariant, SequencesKnown,
            EscalationsFollow, ThreadsStayQuiet
    <2>2. CASE Detect(seen, off)
        <3> DEFINE new == Surviving(seen, off, Prior(off))
        <3>1. emitted' = emitted \cup new /\ bars' = bars /\ n >= MinHistory
            BY <2>0, <2>2 DEF Detect, Rejects
        <3>2. ASSUME NEW c \in new
              PROVE  /\ c.seq = Len(bars)
                     /\ Escalates(c) =>
                        /\ c.primary = "failed_breakout_candidate"
                        /\ \E p \in emitted : /\ p.primary = "breakout_attempt"
                                              /\ Thread(p) = Thread(c)
                                              /\ p.seq = c.seq - 1
            <4>1. c \in BuildCandidates(seen, off, Prior(off))
                BY DEF Surviving
            <4>2. \A p \in Prior(off) : p \in emitted /\ p.seq \in Nat /\ p.seq < Len(bars)
                BY <1>0 DEF Prior, SequencesKnown
            <4>3. off \in Nat /\ Len(seen) \in Nat
                BY <2>0
            <4>4. c.seq = Len(bars)
                <5> HIDE DEF off, seen, new
                <5>1. c.seq = off + Len(seen)
                    BY <4>1, <4>3, CandidateIsOfBar
                <5> QED BY <2>0, <5>1
            <4>5. Escalates(c) =>
                    /\ c.primary = "failed_breakout_candidate"
                    /\ \E p \in Prior(off) : /\ p.primary = "breakout_attempt"
                                             /\ Thread(p) = Thread(c)
                                             /\ p.seq \in {c.seq - 1, c.seq}
                BY <4>1, <4>3, CandidateIsOfBar
            <4> QED BY <2>0, <4>2, <4>4, <4>5
        <3>3. SequencesKnown'
            BY <1>0, <2>0, <3>1, <3>2 DEF SequencesKnown
        <3>4. EscalationsFollow'
            BY <1>0, <3>1, <3>2 DEF EscalationsFollow
        <3>5. ASSUME NEW a \in emitted', NEW b \in emitted', Thread(a) = Thread(b),
                     a.seq < b.seq, b.seq =< a.seq + Cooldown
              PROVE  b.seq = a.seq + 1 /\ Escalates(b)
            <4>1. a \in emitted
                BY <2>0, <3>1, <3>2, <3>3, <3>5 DEF SequencesKnown
            <4>2. CASE b \in emitted
                BY <1>0, <3>5, <4>1, <4>2 DEF ThreadsStayQuiet
            <4>3. CASE b \in new
                <5>1. b.seq = Len(bars) /\ a.seq \in Nat
                    BY <1>0, <3>2, <4>1, <4>3 DEF SequencesKnown
                <5>2. a \in Prior(off)
                    BY <2>0, <3>1, <3>5, <4>1, <5>1 DEF Prior
                <5>3. Escalates(b)
                    BY <3>5, <4>3, <5>2 DEF Surviving, CooldownBlocks
                <5>4. PICK p \in emitted : /\ p.primary = "breakout_attempt"
                                           /\ Thread(p) = Thread(b)
                                           /\ p.seq = b.seq - 1
                    BY <3>2, <4>3, <5>3
                <5>5. ~Escalates(p)
                    BY <1>0, <5>4 DEF EscalationsFollow
                <5>6. ~(a.seq < p.seq)
                    BY <1>0, <2>0, <3>5, <4>1, <5>1, <5>4, <5>5 DEF ThreadsStayQuiet
                <5> QED BY <2>0, <3>5, <5>1, <5>3, <5>4, <5>6
            <4> QED BY <3>1, <4>2, <4>3
        <3>6. ThreadsStayQuiet'
            BY <3>5 DEF ThreadsStayQuiet, Thread, Escalates
        <3> QED BY <3>3, <3>4, <3>6 DEF QuietInvariant
    <2> QED BY <1>2, <2>1, <2>2 DEF Evaluate
<1>3. CASE UNCHANGED vars
    BY <1>0, <1>3 DEF vars, QuietInvariant, SequencesKnown, EscalationsFollow,
        ThreadsStayQuiet
<1> QED BY <1>1, <1>2, <1>3 DEF Next

\* The engine forgets everything between two calls, and still no thread is
\* reported twice within a cooldown but for the failure of its breakout
\* (evaluateDiscoveryFactorsV1 with the candidates it returned earlier).
THEOREM CooldownHolds == Spec => []ThreadsStayQuiet
<1>1. QuietInvariant => ThreadsStayQuiet
    BY DEF QuietInvariant
<1> QED BY QuietInit, QuietStep, <1>1, PTL DEF Spec

\* Two candidates of one thread are never admissible at one bar, escalations
\* apart, as long as a candidate lives no longer than the cooldown
\* (evaluateDiscoveryCandidateAdmissionV1).
THEOREM AdmissionsAreApart == Spec => []AdmissionsDoNotOverlap
<1>1. QuietInvariant => AdmissionsDoNotOverlap
    <2> SUFFICES ASSUME QuietInvariant, NEW a \in emitted, NEW b \in emitted,
                        Thread(a) = Thread(b), a.seq < b.seq,
                        NEW at \in b.seq..Len(bars),
                        Admissible(a, at), Admissible(b, at)
                 PROVE  Escalates(b)
        BY DEF AdmissionsDoNotOverlap
    <2>1. a.seq \in Nat /\ b.seq \in Nat
        BY DEF QuietInvariant, SequencesKnown
    <2>2. b.seq =< a.seq + Cooldown
        BY <2>1, EngineAssumption DEF Admissible, QuietInvariant, SequencesKnown
    <2> QED BY <2>2 DEF QuietInvariant, ThreadsStayQuiet
<1> QED BY QuietInit, QuietStep, <1>1, PTL DEF Spec

-----------------------------------------------------------------------------
\* The bars 1..m of the stream.
Until(m) == SubSeq(bars, 1, m)

\* What a bar is to a breakout of the range it was compared with.
Breaks(bar, ref, polarity) ==
    \/ polarity = "upward" /\ BrokeAbove(bar, ref)
    \/ polarity = "downward" /\ BrokeBelow(bar, ref) /\ ~BrokeAbove(bar, ref)

Lifecycled(c) ==
    /\ c.family = "range_boundary_lifecycle"
    /\ c.polarity \in Polarities
    /\ c.group = IF c.polarity = "upward" THEN <<"upper", 0>> ELSE <<"lower", 0>>

\* A breakout that was reported broke out of the range of the bars before it,
\* however much history the evaluation was given.
BreakoutsAreReal ==
    \A c \in emitted : c.primary = "breakout_attempt" =>
        /\ Lifecycled(c)
        /\ c.seq \in 1..Len(bars)
        /\ Breaks(bars[c.seq], Reference(Until(c.seq - 1)), c.polarity)

FailureInvariant == QuietInvariant /\ BreakoutsAreReal /\ FailureIsReported

\* The length and the members of a cut of a sequence.
LEMMA CutProperties ==
    ASSUME NEW s \in Seq(Bars), NEW off \in Nat, NEW m \in Nat, m =< Len(s), off < m
    PROVE  /\ Len(SubSeq(s, off + 1, m)) = m - off
           /\ \A i \in 1..(m - off) : SubSeq(s, off + 1, m)[i] = s[off + i]
<1>1. Len(s) \in Nat /\ \A i \in (off + 1)..m : s[i] \in Bars
    BY LenProperties
<1>2. /\ Len(SubSeq(s, off + 1, m)) = m - (off + 1) + 1
      /\ \A i \in 1..(m - (off + 1) + 1) : SubSeq(s, off + 1, m)[i] = s[(off + 1) + i - 1]
    BY <1>1, SubSeqProperties
<1>3. m - (off + 1) + 1 = m - off /\ \A i \in 1..(m - off) : (off + 1) + i - 1 = off + i
    OBVIOUS
<1> QED BY <1>2, <1>3

\* Cutting a cut sequence is cutting the sequence.
LEMMA CutOfCut ==
    ASSUME NEW s \in Seq(Bars), NEW off \in Nat, NEW m \in Nat, m =< Len(s), off < m,
           NEW i \in 1..(m - off), NEW j \in 1..(m - off)
    PROVE  SubSeq(SubSeq(s, off + 1, m), i, j) = SubSeq(s, off + i, off + j)
<1>1. off + 1 \in 1..Len(s) /\ m \in 1..Len(s) /\ m - (off + 1) + 1 = m - off
    BY LenProperties
<1>2. SubSeq(SubSeq(s, off + 1, m), i, j) = SubSeq(s, (off + 1) + i - 1, (off + 1) + j - 1)
    BY <1>1, SubSeqOfSubSeq
<1>3. (off + 1) + i - 1 = off + i /\ (off + 1) + j - 1 = off + j
    OBVIOUS
<1> QED BY <1>2, <1>3

\* A cut of the stream that holds its latest bars has the same latest bars.
LEMMA RecentOfCut ==
    ASSUME NEW s \in Seq(Bars), NEW off \in Nat, NEW m \in Nat, m =< Len(s),
           NEW width \in Nat \ {0}, off + width =< m
    PROVE  Recent(SubSeq(s, off + 1, m), width) = SubSeq(s, m - width + 1, m)
<1>1. Len(s) \in Nat /\ off < m
    OBVIOUS
<1>2. Len(SubSeq(s, off + 1, m)) = m - off
    BY <1>1, CutProperties
<1> DEFINE from == IF m - off > width THEN m - off - width + 1 ELSE 1
<1>4. from = m - off - width + 1 /\ from \in 1..(m - off) /\ m - off \in 1..(m - off)
    BY <1>1
<1>5. Recent(SubSeq(s, off + 1, m), width) = SubSeq(SubSeq(s, off + 1, m), from, m - off)
    BY <1>2 DEF Recent
<1>7. SubSeq(SubSeq(s, off + 1, m), from, m - off) = SubSeq(s, off + from, off + (m - off))
    BY <1>1, <1>4, CutOfCut
<1>8. off + from = m - width + 1 /\ off + (m - off) = m
    BY <1>1, <1>4
<1> HIDE DEF from
<1> QED BY <1>5, <1>7, <1>8

\* The range before a bar is the same for every history that holds a window.
LEMMA RangeIsOfTheStream ==
    ASSUME NEW s \in Seq(Bars), NEW off \in Nat, NEW m \in Nat, m =< Len(s),
           off + Window =< m
    PROVE  Reference(SubSeq(s, off + 1, m)) = Reference(SubSeq(s, 1, m))
<1>1. Recent(SubSeq(s, off + 1, m), Window) = SubSeq(s, m - Window + 1, m)
    BY RecentOfCut, FactorAssumption
<1>2. Recent(SubSeq(s, 0 + 1, m), Window) = SubSeq(s, m - Window + 1, m)
    <2>1. 0 \in Nat /\ 0 + Window =< m /\ Window \in Nat \ {0}
        BY FactorAssumption
    <2> QED BY <2>1, RecentOfCut
<1>3. 0 + 1 = 1
    OBVIOUS
<1> QED BY <1>1, <1>2, <1>3 DEF Reference

\* What an evaluation sees of the stream.
LEMMA SeenOfTheStream ==
    ASSUME NEW s \in Seq(Bars), NEW off \in Nat, off + MinHistory =< Len(s),
           NEW seen, seen = SubSeq(s, off + 1, Len(s))
    PROVE  /\ Len(s) \in Nat /\ Len(seen) = Len(s) - off /\ Len(seen) > Window + 1
           /\ Last(seen) = s[Len(s)]
           /\ Len(Before(seen)) = Len(seen) - 1
           /\ Last(Before(seen)) = s[Len(s) - 1]
           /\ Reference(Before(seen)) = Reference(SubSeq(s, 1, Len(s) - 1))
           /\ Reference(Before(Before(seen))) = Reference(SubSeq(s, 1, Len(s) - 2))
<1>1. /\ Len(s) \in Nat /\ Window \in Nat \ {0} /\ MinHistory \in Nat
      /\ MinHistory > Window + 1
    BY FactorAssumption, EngineAssumption
<1>2. Len(seen) = Len(s) - off /\ Len(seen) > Window + 1
    BY <1>1, CutProperties
<1>3. Last(seen) = s[Len(s)]
    <2>1. off < Len(s) /\ Len(s) - off \in 1..(Len(s) - off) /\ off + (Len(s) - off) = Len(s)
        BY <1>1
    <2>2. seen[Len(s) - off] = s[Len(s)]
        BY <1>1, <2>1, CutProperties
    <2> QED BY <1>2, <2>2 DEF Last
<1>4. Before(seen) = SubSeq(s, off + 1, Len(s) - 1)
    <2>1. SubSeq(seen, 1, Len(seen) - 1) = SubSeq(s, off + 1, off + (Len(seen) - 1))
        BY <1>1, <1>2, CutOfCut
    <2> QED BY <1>1, <1>2, <2>1 DEF Before
<1>5. Len(Before(seen)) = Len(seen) - 1
    <2>1. Len(s) - 1 \in Nat /\ Len(s) - 1 =< Len(s) /\ off < Len(s) - 1
        BY <1>1
    <2>2. Len(SubSeq(s, off + 1, Len(s) - 1)) = (Len(s) - 1) - off
        BY <2>1, CutProperties
    <2> QED BY <1>1, <1>2, <1>4, <2>2
<1>6. Last(Before(seen)) = s[Len(s) - 1]
    <2> DEFINE m == Len(s) - 1
    <2>1. m \in Nat /\ m =< Len(s) /\ off < m /\ m - off \in 1..(m - off)
          /\ off + (m - off) = m /\ Len(seen) - 1 = m - off
        BY <1>1, <1>2
    <2>2. SubSeq(s, off + 1, m)[m - off] = s[off + (m - off)]
        BY <2>1, CutProperties
    <2> QED BY <1>4, <1>5, <2>1, <2>2 DEF Last
<1>7. Before(Before(seen)) = SubSeq(s, off + 1, Len(s) - 2)
    <2> DEFINE m == Len(s) - 1
    <2>1. m \in Nat /\ m =< Len(s) /\ off < m /\ m - off = Len(seen) - 1
          /\ 1 \in 1..(m - off) /\ Len(seen) - 2 \in 1..(m - off)
        BY <1>1, <1>2
    <2>2. SubSeq(SubSeq(s, off + 1, m), 1, Len(seen) - 2)
              = SubSeq(s, off + 1, off + (Len(seen) - 2))
        BY <2>1, CutOfCut
    <2> QED BY <1>1, <1>2, <1>4, <1>5, <2>2 DEF Before
<1>8. Reference(Before(seen)) = Reference(SubSeq(s, 1, Len(s) - 1))
    <2>1. Len(s) - 1 \in Nat /\ Len(s) - 1 =< Len(s) /\ off + Window =< Len(s) - 1
        BY <1>1
    <2> QED BY <1>4, <2>1, RangeIsOfTheStream
<1>9. Reference(Before(Before(seen))) = Reference(SubSeq(s, 1, Len(s) - 2))
    <2>1. Len(s) - 2 \in Nat /\ Len(s) - 2 =< Len(s) /\ off + Window =< Len(s) - 2
        BY <1>1
    <2> QED BY <1>7, <2>1, RangeIsOfTheStream
<1> QED BY <1>1, <1>2, <1>3, <1>5, <1>6, <1>8, <1>9

-----------------------------------------------------------------------------
\* The failure of a breakout comes from its detector alone, with its breakout.
LEMMA FailuresAreLifecycled ==
    ASSUME NEW seen, NEW off, NEW hit \in CoreHits(seen, off),
           hit.type = "failed_breakout_candidate"
    PROVE  hit.family = "range_boundary_lifecycle"
<1> DEFINE ref == Reference(Before(seen))
<1> DEFINE n == off + Len(seen)
<1>1. CASE hit \in FailedBreakout(seen, off)
    BY <1>1 DEF FailedBreakout, Lifecycle, CoreHit
<1>2. CASE hit \in BreakoutAttempt(Last(seen), n, ref)
    BY <1>2 DEF BreakoutAttempt, Lifecycle, CoreHit
<1>3. CASE hit \in RangeBoundaryInteraction(Last(seen), n, ref)
    BY <1>3 DEF RangeBoundaryInteraction, Lifecycle, CoreHit
<1>4. CASE hit \in PullbackToStructure(seen, off)
    <2>1. PICK polarity, evidence :
            hit = CoreHit("pullback_to_structure", polarity, "structure_return", evidence)
        BY <1>4 DEF PullbackToStructure
    <2> QED BY <2>1 DEF CoreHit
<1>5. CASE hit \in MagnetProximity(seen, off, ref)
    BY <1>5 DEF MagnetProximity, MagnetHit
<1> QED BY <1>1, <1>2, <1>3, <1>4, <1>5 DEF CoreHits

\* A breakout hit is one of the event bar, or stands beside the failure of the
\* bar before.
LEMMA BreakoutHits ==
    ASSUME NEW seen, NEW off, NEW hit \in CoreHits(seen, off),
           hit.type = "breakout_attempt"
    PROVE  /\ Lifecycled(hit)
           /\ \/ Breaks(Last(seen), Reference(Before(seen)), hit.polarity)
              \/ \E failure \in CoreHits(seen, off) :
                    /\ failure.type = "failed_breakout_candidate"
                    /\ failure.polarity = hit.polarity
                    /\ failure.group = hit.group
<1> DEFINE ref == Reference(Before(seen))
<1> DEFINE n == off + Len(seen)
<1> USE DEF Lifecycled, Polarities
<1>1. CASE hit \in FailedBreakout(seen, off)
    <2>1. PICK polarity \in Polarities :
            /\ hit \in
                {Lifecycle("failed_breakout_candidate", polarity, {n - 1, n}),
                 Lifecycle("breakout_attempt", polarity, {n - 1}),
                 Lifecycle("range_boundary_interaction", polarity, {n})}
            /\ Lifecycle("failed_breakout_candidate", polarity, {n - 1, n})
                   \in FailedBreakout(seen, off)
        BY <1>1 DEF FailedBreakout
    <2>2. hit = Lifecycle("breakout_attempt", polarity, {n - 1})
        BY <2>1 DEF Lifecycle, CoreHit
    <2>3. Lifecycle("failed_breakout_candidate", polarity, {n - 1, n}) \in CoreHits(seen, off)
        BY <2>1 DEF CoreHits
    <2> QED BY <2>2, <2>3 DEF Lifecycle, CoreHit
<1>2. CASE hit \in BreakoutAttempt(Last(seen), n, ref)
    BY <1>2 DEF BreakoutAttempt, Lifecycle, CoreHit, Breaks
<1>3. CASE hit \in RangeBoundaryInteraction(Last(seen), n, ref)
    BY <1>3 DEF RangeBoundaryInteraction, Lifecycle, CoreHit
<1>4. CASE hit \in PullbackToStructure(seen, off)
    <2>1. PICK polarity, evidence :
            hit = CoreHit("pullback_to_structure", polarity, "structure_return", evidence)
        BY <1>4 DEF PullbackToStructure
    <2> QED BY <2>1 DEF CoreHit
<1>5. CASE hit \in MagnetProximity(seen, off, ref)
    BY <1>5 DEF MagnetProximity, MagnetHit
<1> QED BY <1>1, <1>2, <1>3, <1>4, <1>5 DEF CoreHits

\* The failure of a breakout outranks every other hit of its group.
LEMMA FailureIsPrimary ==
    ASSUME NEW hits, \A hit \in hits : hit.type \in Type,
           \E hit \in hits : hit.type = "failed_breakout_candidate"
    PROVE  Primary(hits) \in hits /\ Primary(hits).type = "failed_breakout_candidate"
<1>1. \A hit \in hits : /\ Rank(hit.type) \in 1..5
                        /\ EventTypes[Rank(hit.type)] = hit.type
    BY RankIsKnown
<1>2. EventTypes[1] = "failed_breakout_candidate"
    BY DEF EventTypes
<1>3. PICK hit \in hits : hit.type = "failed_breakout_candidate"
    OBVIOUS
<1>4. Rank(hit.type) = 1
    <2>1. EventTypes[2] # hit.type /\ EventTypes[3] # hit.type
          /\ EventTypes[4] # hit.type /\ EventTypes[5] # hit.type
        BY <1>3 DEF EventTypes
    <2> QED BY <1>1, <2>1
<1>5. \A other \in hits : Rank(hit.type) =< Rank(other.type)
    BY <1>1, <1>4
<1>6. /\ Primary(hits) \in hits
      /\ \A other \in hits : Rank(Primary(hits).type) =< Rank(other.type)
    BY <1>3, <1>5 DEF Primary
<1>7. Rank(Primary(hits).type) = 1
    BY <1>1, <1>4, <1>6
<1> QED BY <1>1, <1>2, <1>6, <1>7

\* A candidate that reports a breakout is one of its own bar.
LEMMA BreakoutCandidates ==
    ASSUME NEW seen, NEW off \in Nat, Len(seen) \in Nat, NEW prior,
           NEW c \in BuildCandidates(seen, off, prior), c.primary = "breakout_attempt"
    PROVE  Lifecycled(c) /\ Breaks(Last(seen), Reference(Before(seen)), c.polarity)
<1> DEFINE Alike(h) == {hit \in CoreHits(seen, off) :
                            hit.polarity = h.polarity /\ hit.group = h.group}
<1>1. PICK h \in CoreHits(seen, off) : c = Composite(Alike(h), seen, off, prior)
    BY DEF BuildCandidates
<1> DEFINE first == Primary(Alike(h))
<1>2. \A hit \in Alike(h) : hit.type \in Type
    BY HitsAreKnown
<1>3. first \in CoreHits(seen, off) /\ first.polarity = h.polarity /\ first.group = h.group
    <2>1. first \in Alike(h)
        <3>1. Alike(h) # {}
            OBVIOUS
        <3> HIDE DEF Alike
        <3> QED BY <1>2, <3>1, PrimaryIsOfGroup
    <2> QED BY <2>1
<1>4. /\ first.type = "breakout_attempt" /\ c.group = first.group
      /\ c.polarity = first.polarity /\ c.family = first.family
    BY <1>1 DEF Composite
<1>5. ~\E failure \in Alike(h) : failure.type = "failed_breakout_candidate"
    <2> HIDE DEF Alike
    <2> QED BY <1>2, <1>4, FailureIsPrimary
<1>6. ~\E failure \in CoreHits(seen, off) :
            /\ failure.type = "failed_breakout_candidate"
            /\ failure.polarity = first.polarity
            /\ failure.group = first.group
    BY <1>3, <1>5
<1> HIDE DEF first
<1>7. Lifecycled(first) /\ Breaks(Last(seen), Reference(Before(seen)), first.polarity)
    BY <1>3, <1>4, <1>6, BreakoutHits
<1> QED BY <1>4, <1>7 DEF Lifecycled

\* The detector finds the failure of a breakout of the bar before.
LEMMA FailureIsDetected ==
    ASSUME NEW seen, NEW off \in Nat, Len(seen) \in Nat, ~(Len(Before(seen)) < 2),
           NEW polarity \in Polarities,
           Breaks(Last(Before(seen)), Reference(Before(Before(seen))), polarity),
           BackInside(Last(seen), Reference(Before(Before(seen))), polarity)
    PROVE  \E hit \in CoreHits(seen, off) :
                /\ hit.type = "failed_breakout_candidate"
                /\ hit.polarity = polarity
                /\ hit.group = IF polarity = "upward" THEN <<"upper", 0>> ELSE <<"lower", 0>>
<1> DEFINE n == off + Len(seen)
<1> DEFINE failure == Lifecycle("failed_breakout_candidate", polarity, {n - 1, n})
<1>1. failure \in FailedBreakout(seen, off)
    <2>1. CASE polarity = "upward"
        BY <2>1 DEF FailedBreakout, Breaks
    <2>2. CASE polarity = "downward"
        BY <2>2 DEF FailedBreakout, Breaks
    <2> QED BY <2>1, <2>2 DEF Polarities
<1>2. failure \in CoreHits(seen, off)
    BY <1>1 DEF CoreHits
<1>3. /\ failure.type = "failed_breakout_candidate" /\ failure.polarity = polarity
      /\ failure.group = IF polarity = "upward" THEN <<"upper", 0>> ELSE <<"lower", 0>>
    BY DEF Lifecycle, CoreHit
<1> QED BY <1>2, <1>3

\* A detected failure becomes a candidate that escalates the breakout before it,
\* whichever of the earlier candidates of that breakout the caller kept.
LEMMA FailureEscalates ==
    ASSUME NEW seen, NEW off \in Nat, Len(seen) \in Nat,
           NEW prior, NEW a \in prior,
           \A c \in prior : c.seq # off + Len(seen),
           a.primary = "breakout_attempt", Lifecycled(a),
           a.seq = off + Len(seen) - 1,
           NEW hit \in CoreHits(seen, off), hit.type = "failed_breakout_candidate",
           hit.polarity = a.polarity, hit.group = a.group
    PROVE  \E c \in BuildCandidates(seen, off, prior) :
                c.seq = off + Len(seen) /\ c.predecessor = Id(a)
<1> DEFINE Alike(h) == {other \in CoreHits(seen, off) :
                            other.polarity = h.polarity /\ other.group = h.group}
<1> DEFINE first == Primary(Alike(hit))
<1> DEFINE c == Composite(Alike(hit), seen, off, prior)
<1> DEFINE before == Predecessors(first, prior)
<1>1. c \in BuildCandidates(seen, off, prior)
    BY DEF BuildCandidates
<1>2. /\ first \in CoreHits(seen, off) /\ first.polarity = a.polarity
      /\ first.group = a.group /\ first.type = "failed_breakout_candidate"
    <2>1. /\ \A other \in Alike(hit) : other.type \in Type
          /\ hit \in Alike(hit)
        BY HitsAreKnown
    <2>2. first \in Alike(hit) /\ first.type = "failed_breakout_candidate"
        <3> HIDE DEF Alike
        <3> QED BY <2>1, FailureIsPrimary
    <2> QED BY <2>2
<1>3. /\ c.seq = off + Len(seen)
      /\ c.predecessor = IF before = {} THEN NoCandidate
                         ELSE Id(CHOOSE p \in before : \A d \in before : p.seq >= d.seq)
    BY DEF Composite
<1> HIDE DEF c, first
<1>4. first.evidence = {off + Len(seen) - 1, off + Len(seen)}
    BY <1>2, HitsAreKnown
<1>5. first.family = a.family
    BY <1>2, FailuresAreLifecycled DEF Lifecycled
<1>6. a \in before
    BY <1>2, <1>4, <1>5 DEF Predecessors, Thread
<1>7. ASSUME NEW p \in before
      PROVE  p.seq = off + Len(seen) - 1 /\ Id(p) = Id(a)
    <2>1. /\ p \in prior /\ p.primary = "breakout_attempt" /\ p.seq \in first.evidence
          /\ Thread(p) = <<first.group, first.polarity, first.family>>
        BY DEF Predecessors
    <2>2. p.group = a.group /\ p.polarity = a.polarity
        BY <1>2, <2>1 DEF Thread
    <2>3. p.seq = off + Len(seen) - 1
        BY <1>4, <2>1
    <2> QED BY <2>1, <2>2, <2>3 DEF Id
<1> HIDE DEF before
<1>8. \A d \in before : a.seq >= d.seq
    BY <1>7
<1>9. (CHOOSE p \in before : \A d \in before : p.seq >= d.seq) \in before
    BY <1>6, <1>8
<1>10. c.predecessor = Id(a)
    BY <1>3, <1>6, <1>7, <1>9
<1> QED BY <1>1, <1>3, <1>10

\* The identity of a breakout is one, and not the mark of no predecessor.
LEMMA BreakoutsHaveIds ==
    ASSUME NEW a, a.primary = "breakout_attempt", Lifecycled(a), a.seq \in Nat
    PROVE  Id(a) # NoCandidate
<1> DEFINE AnchorKinds == {"upper", "lower", "midpoint", "pivot-high", "pivot-low"}
<1> DEFINE Named == {EventTypes[i] : i \in 1..5}
<1>1. "breakout_attempt" \in Named
    <2>1. EventTypes[2] = "breakout_attempt" /\ 2 \in 1..5
        BY DEF EventTypes
    <2> QED BY <2>1
<1>2. a.polarity \in Polarities /\ a.group \in AnchorKinds \X Nat
    <2>1. CASE a.polarity = "upward"
        <3>1. a.group = <<"upper", 0>>
            BY <2>1 DEF Lifecycled
        <3>2. "upper" \in AnchorKinds /\ 0 \in Nat
            OBVIOUS
        <3> HIDE DEF AnchorKinds
        <3> QED BY <2>1, <3>1, <3>2 DEF Polarities
    <2>2. CASE a.polarity = "downward"
        <3>1. a.group = <<"lower", 0>>
            BY <2>2 DEF Lifecycled
        <3>2. "lower" \in AnchorKinds /\ 0 \in Nat
            OBVIOUS
        <3> HIDE DEF AnchorKinds
        <3> QED BY <2>2, <3>1, <3>2 DEF Polarities
    <2> QED BY <2>1, <2>2 DEF Lifecycled, Polarities
<1>3. Id(a) \in Named \X (AnchorKinds \X Nat) \X Nat \X Polarities
    <2> HIDE DEF AnchorKinds, Named
    <2> QED BY <1>1, <1>2 DEF Id
<1>4. Id(a) \in Ids
    BY <1>3 DEF Ids
<1> QED BY <1>4, IdentityAssumption

LEMMA FailureInit == Init => FailureInvariant
<1> SUFFICES ASSUME Init PROVE FailureInvariant
    OBVIOUS
<1>1. emitted = {}
    BY DEF Init
<1> QED BY <1>1, QuietInit DEF FailureInvariant, BreakoutsAreReal, FailureIsReported

\* Bars are only ever added, so what was said of earlier bars stays true of them.
LEMMA RealWhenBarCloses ==
    ASSUME SequencesKnown, BreakoutsAreReal, CloseBar
    PROVE  BreakoutsAreReal'
<1>1. PICK shape \in Shapes : bars' = Append(bars, shape)
    BY DEF CloseBar
<1>2. /\ emitted' = emitted /\ bars \in Seq(Bars) /\ shape \in Bars
      /\ Len(bars) \in Nat /\ Len(bars') = Len(bars) + 1
    BY <1>1, EngineAssumption DEF CloseBar, SequencesKnown
<1> SUFFICES ASSUME NEW c \in emitted, c.primary = "breakout_attempt"
             PROVE  /\ c.seq \in 1..Len(bars')
                    /\ bars'[c.seq] = bars[c.seq]
                    /\ SubSeq(bars', 1, c.seq - 1) = SubSeq(bars, 1, c.seq - 1)
    BY <1>2 DEF BreakoutsAreReal, Until
<1>3. c.seq \in 1..Len(bars)
    BY DEF BreakoutsAreReal
<1>4. \A i \in 1..Len(bars) : bars'[i] = bars[i]
    BY <1>1, <1>2
<1>5. SubSeq(bars', 1, c.seq - 1) = SubSeq(bars, 1, c.seq - 1)
    <2>1. /\ c.seq - 1 \in Nat /\ c.seq - 1 =< Len(bars)
          /\ bars' \in Seq(Bars)
        BY <1>1, <1>2, <1>3
    <2>2. \A i \in 1..(c.seq - 1) : bars'[i] = bars[i]
        BY <1>2, <1>3, <1>4
    <2>3. /\ SubSeq(bars', 1, c.seq - 1) = [i \in 1..(c.seq - 1) |-> bars'[i]]
          /\ SubSeq(bars, 1, c.seq - 1) = [i \in 1..(c.seq - 1) |-> bars[i]]
        BY <1>2, <2>1
    <2> QED BY <2>2, <2>3
<1> QED BY <1>2, <1>3, <1>4, <1>5

\* What an evaluation was given, and what it adds.
Detected(seen, off) ==
    /\ off \in Nat /\ Len(seen) \in Nat /\ off + Len(seen) = Len(bars)
    /\ off + MinHistory =< Len(bars) /\ Len(bars) \in Nat /\ bars \in Seq(Bars)
    /\ seen = SubSeq(bars, off + 1, Len(bars))
    /\ bars' = bars
    /\ emitted' = emitted \cup Surviving(seen, off, Prior(off))

LEMMA DetectionFacts ==
    ASSUME SequencesKnown, NEW n \in Supplied, n >= 1, n =< Len(bars),
           Detect(SubSeq(bars, Len(bars) - n + 1, Len(bars)), Len(bars) - n)
    PROVE  Detected(SubSeq(bars, Len(bars) - n + 1, Len(bars)), Len(bars) - n)
<1> DEFINE off == Len(bars) - n
<1> DEFINE seen == SubSeq(bars, off + 1, Len(bars))
<1>1. /\ bars \in Seq(Bars) /\ Len(bars) \in Nat /\ n \in Nat /\ off \in Nat
      /\ Len(seen) = n /\ off + Len(seen) = Len(bars)
    BY EngineAssumption DEF SequencesKnown
<1>2. bars' = bars /\ emitted' = emitted \cup Surviving(seen, off, Prior(off))
      /\ ~(Len(seen) < MinHistory)
    BY DEF Detect, Rejects
<1>3. off + MinHistory =< Len(bars)
    BY <1>1, <1>2, EngineAssumption
<1> QED BY <1>1, <1>2, <1>3 DEF Detected

LEMMA SurvivorsAreOfBar ==
    ASSUME NEW seen, NEW off, Detected(seen, off), NEW c \in Surviving(seen, off, Prior(off))
    PROVE  c \in BuildCandidates(seen, off, Prior(off)) /\ c.seq = Len(bars)
<1>1. off \in Nat /\ Len(seen) \in Nat /\ off + Len(seen) = Len(bars)
    BY DEF Detected
<1>2. c \in BuildCandidates(seen, off, Prior(off))
    BY DEF Surviving
<1>3. c.seq = off + Len(seen)
    BY <1>1, <1>2, CandidateIsOfBar
<1> QED BY <1>1, <1>2, <1>3

\* The candidates passed to an evaluation are of bars before its own.
LEMMA PriorIsEarlier ==
    ASSUME SequencesKnown, NEW seen, NEW off, Detected(seen, off)
    PROVE  \A c \in Prior(off) : c.seq # off + Len(seen)
<1>1. off + Len(seen) = Len(bars) /\ Len(bars) \in Nat
    BY DEF Detected
<1>2. \A c \in Prior(off) : c.seq \in Nat /\ c.seq < Len(bars)
    BY DEF Prior, SequencesKnown
<1> QED BY <1>1, <1>2

LEMMA RealWhenDetected ==
    ASSUME SequencesKnown, BreakoutsAreReal, NEW seen, NEW off, Detected(seen, off)
    PROVE  BreakoutsAreReal'
<1>1. /\ off \in Nat /\ Len(seen) \in Nat /\ off + Len(seen) = Len(bars)
      /\ Len(bars) \in Nat /\ bars' = bars
      /\ emitted' = emitted \cup Surviving(seen, off, Prior(off))
    BY DEF Detected
<1>0. \A c \in Surviving(seen, off, Prior(off)) :
            c \in BuildCandidates(seen, off, Prior(off)) /\ c.seq = Len(bars)
    BY SurvivorsAreOfBar
<1> SUFFICES ASSUME NEW c \in emitted', c.primary = "breakout_attempt"
             PROVE  /\ Lifecycled(c)
                    /\ c.seq \in 1..Len(bars)
                    /\ Breaks(bars[c.seq], Reference(Until(c.seq - 1)), c.polarity)
    BY <1>1 DEF BreakoutsAreReal, Until
<1>2. CASE c \in emitted
    BY <1>2 DEF BreakoutsAreReal
<1>3. CASE c \in Surviving(seen, off, Prior(off))
    <2>1. Lifecycled(c) /\ Breaks(Last(seen), Reference(Before(seen)), c.polarity)
        BY <1>0, <1>1, <1>3, BreakoutCandidates
    <2>2. /\ Last(seen) = bars[Len(bars)]
          /\ Reference(Before(seen)) = Reference(SubSeq(bars, 1, Len(bars) - 1))
        BY SeenOfTheStream DEF Detected
    <2>3. c.seq = Len(bars) /\ Len(bars) \in 1..Len(bars)
        <3>1. MinHistory \in Nat /\ MinHistory >= 1 /\ off + MinHistory =< Len(bars)
            BY EngineAssumption DEF Detected
        <3> QED BY <1>0, <1>1, <1>3, <3>1
    <2> QED BY <2>1, <2>2, <2>3 DEF Until
<1> QED BY <1>1, <1>2, <1>3

LEMMA ReportedWhenDetected ==
    ASSUME SequencesKnown, BreakoutsAreReal, NEW seen, NEW off, Detected(seen, off)
    PROVE  FailureIsReported'
<1>1. /\ off \in Nat /\ Len(seen) \in Nat /\ off + Len(seen) = Len(bars)
      /\ Len(bars) \in Nat /\ bars' = bars
      /\ emitted' = emitted \cup Surviving(seen, off, Prior(off))
    BY DEF Detected
<1>0. \A c \in Surviving(seen, off, Prior(off)) :
            c \in BuildCandidates(seen, off, Prior(off)) /\ c.seq = Len(bars)
    BY SurvivorsAreOfBar
<1> SUFFICES ASSUME NEW a \in emitted', a.primary = "breakout_attempt",
                    Len(bars) = a.seq + 1,
                    BackInside(Last(bars), Reference(SubSeq(bars, 1, a.seq - 1)), a.polarity)
             PROVE  \E b \in emitted' : b.seq = a.seq + 1 /\ b.predecessor = Id(a)
    BY <1>1 DEF FailureIsReported, Id
<1>2. a \in emitted /\ a.seq \in Nat /\ a.seq < Len(bars)
    <2>1. \A c \in emitted : c.seq \in Nat
        BY DEF SequencesKnown
    <2>2. a \in emitted
        <3>1. CASE a \in Surviving(seen, off, Prior(off))
            <4>1. a.seq = Len(bars)
                BY <1>0, <3>1
            <4> QED BY <1>1, <4>1
        <3> QED BY <1>1, <3>1
    <2> QED BY <1>1, <2>1, <2>2
<1>3. /\ Lifecycled(a) /\ a.seq \in 1..Len(bars)
      /\ Breaks(bars[a.seq], Reference(Until(a.seq - 1)), a.polarity)
    BY <1>2 DEF BreakoutsAreReal
<1>4. /\ Len(seen) > Window + 1 /\ Window \in Nat \ {0}
      /\ Last(seen) = bars[Len(bars)]
      /\ Len(Before(seen)) = Len(seen) - 1
      /\ Last(Before(seen)) = bars[Len(bars) - 1]
      /\ Reference(Before(Before(seen))) = Reference(SubSeq(bars, 1, Len(bars) - 2))
    BY SeenOfTheStream, FactorAssumption DEF Detected
<1>5. Len(bars) - 1 = a.seq /\ Len(bars) - 2 = a.seq - 1
    BY <1>1, <1>2
<1>6. /\ Breaks(Last(Before(seen)), Reference(Before(Before(seen))), a.polarity)
      /\ BackInside(Last(seen), Reference(Before(Before(seen))), a.polarity)
    BY <1>3, <1>4, <1>5 DEF Until, Last
<1>7. PICK hit \in CoreHits(seen, off) :
            /\ hit.type = "failed_breakout_candidate"
            /\ hit.polarity = a.polarity
            /\ hit.group = a.group
    <2>1. ~(Len(Before(seen)) < 2) /\ a.polarity \in Polarities
        BY <1>1, <1>3, <1>4 DEF Lifecycled
    <2>2. \E hit \in CoreHits(seen, off) :
            /\ hit.type = "failed_breakout_candidate"
            /\ hit.polarity = a.polarity
            /\ hit.group = IF a.polarity = "upward" THEN <<"upper", 0>> ELSE <<"lower", 0>>
        BY <1>1, <1>6, <2>1, FailureIsDetected
    <2> QED BY <1>3, <2>2 DEF Lifecycled
<1>8. a \in Prior(off)
    <2>1. off < a.seq
        BY <1>1, <1>2, <1>4, <1>5
    <2> QED BY <1>2, <2>1 DEF Prior
<1>9. PICK c \in BuildCandidates(seen, off, Prior(off)) :
            c.seq = off + Len(seen) /\ c.predecessor = Id(a)
    <2>1. a.seq = off + Len(seen) - 1
        BY <1>1, <1>5
    <2>2. \A p \in Prior(off) : p.seq # off + Len(seen)
        BY PriorIsEarlier
    <2> QED BY <1>1, <1>3, <1>7, <1>8, <2>1, <2>2, FailureEscalates
<1>10. c \in Surviving(seen, off, Prior(off))
    <2>1. Id(a) # NoCandidate
        BY <1>2, <1>3, BreakoutsHaveIds
    <2> QED BY <1>9, <2>1 DEF Surviving, CooldownBlocks, Escalates
<1> QED BY <1>1, <1>9, <1>10

LEMMA FailureStep == FailureInvariant /\ [Next]_vars => FailureInvariant'
<1> SUFFICES ASSUME FailureInvariant, [Next]_vars PROVE FailureInvariant'
    OBVIOUS
<1>0. QuietInvariant /\ SequencesKnown /\ BreakoutsAreReal /\ FailureIsReported
    BY DEF FailureInvariant, QuietInvariant
<1>1. QuietInvariant'
    BY <1>0, QuietStep
<1>2. CASE CloseBar
    <2>1. ~Evaluated'
        BY <1>2 DEF CloseBar, Evaluated
    <2> QED BY <1>0, <1>1, <1>2, <2>1, RealWhenBarCloses
            DEF FailureInvariant, FailureIsReported
<1>3. ASSUME NEW n \in Supplied, n >= 1, n =< Len(bars), Evaluate(Len(bars) - n)
      PROVE  FailureInvariant'
    <2> DEFINE off == Len(bars) - n
    <2> DEFINE seen == SubSeq(bars, off + 1, Len(bars))
    <2>1. CASE Reject(seen) \/ RejectAmbiguous(seen)
        <3>1. bars' = bars /\ emitted' = emitted /\ ~Evaluated'
            BY <2>1 DEF Reject, RejectAmbiguous, Evaluated
        <3>2. BreakoutsAreReal'
            BY <1>0, <3>1 DEF BreakoutsAreReal, Until
        <3> QED BY <1>1, <3>1, <3>2 DEF FailureInvariant, FailureIsReported
    <2>2. CASE Detect(seen, off)
        <3>0. Detected(seen, off)
            BY <1>0, <1>3, <2>2, DetectionFacts
        <3>1. BreakoutsAreReal'
            BY <1>0, <3>0, RealWhenDetected
        <3>2. FailureIsReported'
            BY <1>0, <3>0, ReportedWhenDetected
        <3> QED BY <1>1, <3>1, <3>2 DEF FailureInvariant
    <2> QED BY <1>3, <2>1, <2>2 DEF Evaluate
<1>4. CASE UNCHANGED vars
    <2>1. BreakoutsAreReal' /\ FailureIsReported'
        BY <1>0, <1>4 DEF vars, BreakoutsAreReal, FailureIsReported, Until, Evaluated
    <2> QED BY <1>1, <2>1 DEF FailureInvariant
<1> QED BY <1>2, <1>3, <1>4 DEF Next

\* Every breakout the engine reports closed beyond the range of the bars before
\* it, whichever history its evaluation was given (detectBreakoutAttempt; a
\* breakout that stands beside a failure is the secondary type of it).
THEOREM BreakoutsAreOfTheirBar == Spec => []BreakoutsAreReal
<1>1. FailureInvariant => BreakoutsAreReal
    BY DEF FailureInvariant
<1> QED BY FailureInit, FailureStep, <1>1, PTL DEF Spec

\* The failure of a reported breakout at the very next bar is reported as its
\* escalation, whatever the cooldown and whatever history either evaluation was
\* given (semanticPredecessorFor, cooldownBlocker).
THEOREM FailuresAreReported == Spec => []FailureIsReported
<1>1. FailureInvariant => FailureIsReported
    BY DEF FailureInvariant
<1> QED BY FailureInit, FailureStep, <1>1, PTL DEF Spec

-----------------------------------------------------------------------------
\* Every evaluation with a history that is long enough sees the same latest
\* bars and the same ranges before them.
LEMMA SeenIsOfTheStream ==
    ASSUME bars \in Seq(Bars), NEW off \in Nat, off + MinHistory =< Len(bars),
           NEW seen, seen = SubSeq(bars, off + 1, Len(bars))
    PROVE  /\ off + Len(seen) = Len(bars)
           /\ Len(seen) \in Nat /\ Len(bars) \in Nat /\ Len(seen) >= MinHistory
           /\ Last(seen) = bars[Len(bars)]
           /\ Len(Before(seen)) = Len(seen) - 1
           /\ ~(Len(Before(seen)) < 2)
           /\ Last(Before(seen)) = bars[Len(bars) - 1]
           /\ Reference(Before(seen)) = Reference(Until(Len(bars) - 1))
           /\ Reference(Before(Before(seen))) = Reference(Until(Len(bars) - 2))
           /\ Before(seen) = SubSeq(bars, off + 1, Len(bars) - 1)
<1>1. /\ Len(seen) = Len(bars) - off /\ Len(bars) \in Nat
      /\ Last(seen) = bars[Len(bars)]
      /\ Len(Before(seen)) = Len(seen) - 1
      /\ Last(Before(seen)) = bars[Len(bars) - 1]
      /\ Reference(Before(seen)) = Reference(SubSeq(bars, 1, Len(bars) - 1))
      /\ Reference(Before(Before(seen))) = Reference(SubSeq(bars, 1, Len(bars) - 2))
    BY SeenOfTheStream
<1>2. /\ MinHistory \in Nat /\ LegSpan \in Nat \ {0} /\ MinHistory > LegSpan + 2
    BY EngineAssumption, FactorAssumption
<1>3. /\ off + Len(seen) = Len(bars) /\ Len(seen) \in Nat /\ Len(seen) >= MinHistory
      /\ ~(Len(Before(seen)) < 2)
    BY <1>1, <1>2
<1>4. Before(seen) = SubSeq(bars, off + 1, Len(bars) - 1)
    <2>1. /\ off < Len(bars) /\ 1 \in 1..(Len(bars) - off)
          /\ Len(seen) - 1 \in 1..(Len(bars) - off)
          /\ off + (Len(seen) - 1) = Len(bars) - 1
        BY <1>1, <1>2
    <2>2. SubSeq(seen, 1, Len(seen) - 1) = SubSeq(bars, off + 1, off + (Len(seen) - 1))
        BY <1>1, <2>1, CutOfCut
    <2> QED BY <2>1, <2>2 DEF Before
<1> QED BY <1>1, <1>3, <1>4 DEF Until

-----------------------------------------------------------------------------
\* The event bar is back at the boundary that bar i left, on side p.
Returned(i, p) ==
    LET ref == Reference(Until(i - 1))
        event == bars[Len(bars)]
    IN  IF p = "upward"
        THEN /\ BrokeAbove(bars[i], ref)
             /\ event.low =< ref.high + ref.tolerance
             /\ event.close > ref.high
        ELSE /\ BrokeBelow(bars[i], ref)
             /\ event.high >= ref.low - ref.tolerance
             /\ event.close < ref.low

Returns ==
    {r \in ((Len(bars) - LegSpan)..(Len(bars) - 2)) \X Polarities : Returned(r[1], r[2])}

LatestReturns == {r \in Returns : \A other \in Returns : r[1] >= other[1]}

\* A pullback is one of the stream, whatever history it was found in.
LEMMA PullbacksAreOfTheStream ==
    ASSUME bars \in Seq(Bars), NEW off \in Nat, off + MinHistory =< Len(bars),
           NEW seen, seen = SubSeq(bars, off + 1, Len(bars))
    PROVE  PullbackToStructure(seen, off) =
             {CoreHit("pullback_to_structure", r[2], "structure_return",
                      {r[1], Len(bars)}) : r \in LatestReturns}
<1> DEFINE prior == Before(seen)
           event == Last(seen)
           span == (IF Len(prior) > LegSpan THEN Len(prior) - LegSpan + 1 ELSE 1)..(Len(prior) - 1)
           Back(leg, polarity, ref) ==
             IF polarity = "upward"
             THEN /\ BrokeAbove(prior[leg], ref)
                  /\ event.low =< ref.high + ref.tolerance
                  /\ event.close > ref.high
             ELSE /\ BrokeBelow(prior[leg], ref)
                  /\ event.high >= ref.low - ref.tolerance
                  /\ event.close < ref.low
           Faces(leg, ref) == {p \in Polarities : Back(leg, p, ref)}
           found == UNION {{leg} \X Faces(leg, Reference(SubSeq(prior, 1, leg - 1))) :
                            leg \in {i \in span : i >= 3}}
           latest == {r \in found : \A other \in found : r[1] >= other[1]}
<1>1. PullbackToStructure(seen, off) =
        {CoreHit("pullback_to_structure", r[2], "structure_return",
                 {off + r[1], off + Len(seen)}) : r \in latest}
    BY DEF PullbackToStructure
<1> DEFINE n == Len(bars) - off
<1>2. /\ Len(bars) \in Nat /\ n \in Nat /\ off + n = Len(bars) /\ n >= MinHistory
      /\ Len(seen) = n /\ Len(prior) = n - 1 /\ event = bars[Len(bars)]
      /\ prior = SubSeq(bars, off + 1, Len(bars) - 1)
    <2>1. /\ Len(bars) \in Nat /\ off + Len(seen) = Len(bars) /\ Len(seen) >= MinHistory
          /\ Len(seen) \in Nat /\ Len(prior) = Len(seen) - 1 /\ event = bars[Len(bars)]
          /\ prior = SubSeq(bars, off + 1, Len(bars) - 1)
        BY SeenIsOfTheStream
    <2>2. Len(seen) = n
        BY <2>1
    <2> QED BY <2>1, <2>2
<1> HIDE DEF n
<1>3. /\ MinHistory \in Nat /\ LegSpan \in Nat \ {0} /\ Window \in Nat \ {0}
      /\ MinHistory > Window + LegSpan /\ MinHistory > LegSpan + 2
    BY EngineAssumption, FactorAssumption
<1>4. span = (n - LegSpan)..(n - 2)
    <2>1. /\ Len(prior) > LegSpan /\ Len(prior) - LegSpan + 1 = n - LegSpan
          /\ Len(prior) - 1 = n - 2
        BY <1>2, <1>3
    <2> HIDE DEF prior
    <2> QED BY <2>1
<1>5. ASSUME NEW leg \in span
      PROVE  /\ leg \in Int /\ leg >= 3
             /\ off + leg \in (Len(bars) - LegSpan)..(Len(bars) - 2)
             /\ prior[leg] = bars[off + leg]
             /\ Reference(SubSeq(prior, 1, leg - 1)) = Reference(Until(off + leg - 1))
    <2>1. leg \in Int /\ n - LegSpan =< leg /\ leg =< n - 2
        BY <1>2, <1>3, <1>4
    <2> HIDE DEF prior, event, span
    <2>2. leg >= 3 /\ off + leg \in (Len(bars) - LegSpan)..(Len(bars) - 2)
        BY <2>1, <1>2, <1>3
    <2> DEFINE m == Len(bars) - 1
    <2>3. m \in Nat /\ m =< Len(bars) /\ off < m /\ m - off = n - 1
          /\ leg \in 1..(m - off) /\ leg - 1 \in 1..(m - off) /\ 1 \in 1..(m - off)
        BY <2>1, <2>2, <1>2, <1>3
    <2>4. prior[leg] = bars[off + leg]
        BY <1>2, <2>3, CutProperties
    <2>5. SubSeq(prior, 1, leg - 1) = SubSeq(bars, off + 1, off + (leg - 1))
        BY <1>2, <2>3, CutOfCut
    <2>6. off + (leg - 1) \in Nat /\ off + (leg - 1) =< Len(bars)
          /\ off + Window =< off + (leg - 1) /\ off + (leg - 1) = off + leg - 1
        BY <2>1, <2>2, <1>2, <1>3
    <2>7. Reference(SubSeq(bars, off + 1, off + (leg - 1)))
            = Reference(SubSeq(bars, 1, off + (leg - 1)))
        BY <1>2, <2>6, RangeIsOfTheStream
    <2> QED BY <2>1, <2>2, <2>4, <2>5, <2>6, <2>7 DEF Until
<1>6. ASSUME NEW leg \in span, NEW p \in Polarities
      PROVE  <<leg, p>> \in found <=> <<off + leg, p>> \in Returns
    <2>1. <<leg, p>> \in found <=> Back(leg, p, Reference(SubSeq(prior, 1, leg - 1)))
        BY <1>5
    <2>2. <<off + leg, p>> \in Returns <=> Returned(off + leg, p)
        BY <1>5 DEF Returns
    <2>3. Back(leg, p, Reference(SubSeq(prior, 1, leg - 1))) <=> Returned(off + leg, p)
        <3>1. /\ prior[leg] = bars[off + leg] /\ event = bars[Len(bars)]
              /\ Reference(SubSeq(prior, 1, leg - 1)) = Reference(Until(off + leg - 1))
            BY <1>2, <1>5
        <3> HIDE DEF prior, event
        <3> QED BY <3>1 DEF Returned
    <2> QED BY <2>1, <2>2, <2>3
<1>7. \A r \in found : \E leg \in span, p \in Polarities : r = <<leg, p>>
    OBVIOUS
<1>8. ASSUME NEW r \in Returns
      PROVE  \E leg \in span, p \in Polarities : r = <<off + leg, p>>
    <2> HIDE DEF found, prior, event, span
    <2>1. PICK i \in (Len(bars) - LegSpan)..(Len(bars) - 2), p \in Polarities : r = <<i, p>>
        BY DEF Returns
    <2>2. i - off \in span /\ off + (i - off) = i
        BY <1>2, <1>3, <1>4
    <2> QED BY <2>1, <2>2
<1> HIDE DEF found, span
<1>9. ASSUME NEW leg \in span, NEW p \in Polarities
      PROVE  <<leg, p>> \in latest <=> <<off + leg, p>> \in LatestReturns
    <2>1. ASSUME <<leg, p>> \in latest, NEW other \in Returns
          PROVE  off + leg >= other[1]
        <3>1. PICK l \in span, q \in Polarities : other = <<off + l, q>>
            BY <1>8
        <3>2. <<l, q>> \in found
            BY <1>6, <3>1
        <3>3. leg >= l
            BY <2>1, <3>2
        <3> QED BY <1>2, <1>5, <3>1, <3>3
    <2>2. ASSUME <<off + leg, p>> \in LatestReturns, NEW other \in found
          PROVE  leg >= other[1]
        <3>1. PICK l \in span, q \in Polarities : other = <<l, q>>
            BY <1>7
        <3>2. <<off + l, q>> \in Returns
            BY <1>6, <3>1
        <3>3. off + leg >= off + l
            BY <2>2, <3>2 DEF LatestReturns
        <3> QED BY <1>2, <1>5, <3>1, <3>3
    <2> QED BY <1>6, <2>1, <2>2 DEF LatestReturns
<1>10. ASSUME NEW leg \in span PROVE off + Len(seen) = Len(bars) /\ off + leg \in Int
    BY <1>2, <1>5
<1>11. \A r \in latest : \E leg \in span, p \in Polarities : r = <<leg, p>>
    BY <1>7
<1>12. \A r \in LatestReturns : \E leg \in span, p \in Polarities : r = <<off + leg, p>>
    BY <1>8 DEF LatestReturns
<1> DEFINE Here(r) == CoreHit("pullback_to_structure", r[2], "structure_return",
                              {off + r[1], off + Len(seen)})
           There(r) == CoreHit("pullback_to_structure", r[2], "structure_return",
                               {r[1], Len(bars)})
<1>13. \A leg \in span, p \in Polarities : Here(<<leg, p>>) = There(<<off + leg, p>>)
    BY <1>10
<1> HIDE DEF latest, Here, There
<1>14. {Here(r) : r \in latest} = {There(r) : r \in LatestReturns}
    <2>1. ASSUME NEW r \in latest PROVE Here(r) \in {There(q) : q \in LatestReturns}
        <3>1. PICK leg \in span, p \in Polarities : r = <<leg, p>>
            BY <1>11
        <3>2. <<off + leg, p>> \in LatestReturns /\ Here(r) = There(<<off + leg, p>>)
            BY <1>9, <1>13, <3>1
        <3> QED BY <3>2
    <2>2. ASSUME NEW q \in LatestReturns PROVE There(q) \in {Here(r) : r \in latest}
        <3>1. PICK leg \in span, p \in Polarities : q = <<off + leg, p>>
            BY <1>12
        <3>2. <<leg, p>> \in latest /\ Here(<<leg, p>>) = There(q)
            BY <1>9, <1>13, <3>1
        <3> QED BY <3>2
    <2> QED BY <2>1, <2>2
<1> QED BY <1>1, <1>14 DEF Here, There

-----------------------------------------------------------------------------
Pivot == {"pivot-high", "pivot-low"}

\* Two evaluations of the latest bar, both with history enough.
Evaluations(a, sa, b, sb) ==
    /\ a \in Nat /\ a + MinHistory =< Len(bars) /\ sa = SubSeq(bars, a + 1, Len(bars))
    /\ b \in Nat /\ b + MinHistory =< Len(bars) /\ sb = SubSeq(bars, b + 1, Len(bars))

LEMMA ViewsAgree ==
    ASSUME bars \in Seq(Bars), NEW a, NEW sa, NEW b, NEW sb, Evaluations(a, sa, b, sb)
    PROVE  /\ a + Len(sa) = b + Len(sb)
           /\ ~(Len(Before(sa)) < 2) /\ ~(Len(Before(sb)) < 2)
           /\ Last(sa) = Last(sb) /\ Last(Before(sa)) = Last(Before(sb))
           /\ Reference(Before(sa)) = Reference(Before(sb))
           /\ Reference(Before(Before(sa))) = Reference(Before(Before(sb)))
           /\ PullbackToStructure(sa, a) = PullbackToStructure(sb, b)
<1>1. /\ a \in Nat /\ a + MinHistory =< Len(bars) /\ sa = SubSeq(bars, a + 1, Len(bars))
      /\ b \in Nat /\ b + MinHistory =< Len(bars) /\ sb = SubSeq(bars, b + 1, Len(bars))
    BY DEF Evaluations
<1>2. /\ a + Len(sa) = Len(bars)
      /\ Last(sa) = bars[Len(bars)]
      /\ ~(Len(Before(sa)) < 2)
      /\ Last(Before(sa)) = bars[Len(bars) - 1]
      /\ Reference(Before(sa)) = Reference(Until(Len(bars) - 1))
      /\ Reference(Before(Before(sa))) = Reference(Until(Len(bars) - 2))
    BY <1>1, SeenIsOfTheStream
<1>3. /\ b + Len(sb) = Len(bars)
      /\ Last(sb) = bars[Len(bars)]
      /\ ~(Len(Before(sb)) < 2)
      /\ Last(Before(sb)) = bars[Len(bars) - 1]
      /\ Reference(Before(sb)) = Reference(Until(Len(bars) - 1))
      /\ Reference(Before(Before(sb))) = Reference(Until(Len(bars) - 2))
    BY <1>1, SeenIsOfTheStream
<1>4. PullbackToStructure(sa, a) = PullbackToStructure(sb, b)
    BY <1>1, PullbacksAreOfTheStream
<1> QED BY <1>2, <1>3, <1>4

\* Pivots apart, the detectors find the same in both.
LEMMA HitsAgree ==
    ASSUME bars \in Seq(Bars), NEW a, NEW sa, NEW b, NEW sb, Evaluations(a, sa, b, sb),
           NEW hit \in CoreHits(sa, a), hit.group[1] \notin Pivot
    PROVE  hit \in CoreHits(sb, b)
<1> DEFINE n == a + Len(sa)
           ref == Reference(Before(sa))
<1>1. /\ n = b + Len(sb)
      /\ Last(sa) = Last(sb) /\ ref = Reference(Before(sb))
      /\ PullbackToStructure(sa, a) = PullbackToStructure(sb, b)
    BY ViewsAgree
<1>2. FailedBreakout(sa, a) = FailedBreakout(sb, b)
    <2>1. /\ a + Len(sa) = b + Len(sb)
          /\ ~(Len(Before(sa)) < 2) /\ ~(Len(Before(sb)) < 2)
          /\ Last(sa) = Last(sb) /\ Last(Before(sa)) = Last(Before(sb))
          /\ Reference(Before(Before(sa))) = Reference(Before(Before(sb)))
        BY ViewsAgree
    <2> QED BY <2>1 DEF FailedBreakout
<1>3. ASSUME hit \in MagnetProximity(sa, a, ref)
      PROVE  hit \in MagnetProximity(sb, b, ref)
    <2>1. CASE hit.group[1] = "midpoint"
        BY <1>1, <1>3, <2>1 DEF MagnetProximity, MagnetHit
    <2>2. CASE hit.group[1] # "midpoint"
        BY <1>3, <2>2 DEF MagnetProximity, MagnetHit, Pivot
    <2> QED BY <2>1, <2>2
<1> DEFINE Others(s, off, r) ==
             BreakoutAttempt(Last(s), off + Len(s), r)
             \cup RangeBoundaryInteraction(Last(s), off + Len(s), r)
             \cup PullbackToStructure(s, off) \cup MagnetProximity(s, off, r)
           Merged(failed, others) ==
             failed \cup {h \in others : ~\E first \in failed :
                 first.type = h.type /\ first.polarity = h.polarity /\ first.group = h.group}
<1>4. /\ CoreHits(sa, a) = Merged(FailedBreakout(sa, a), Others(sa, a, ref))
      /\ CoreHits(sb, b) = Merged(FailedBreakout(sb, b), Others(sb, b, Reference(Before(sb))))
    BY DEF CoreHits
<1>5. hit \in Others(sa, a, ref) => hit \in Others(sb, b, Reference(Before(sb)))
    BY <1>1, <1>3
<1> HIDE DEF Others
<1> QED BY <1>2, <1>4, <1>5

-----------------------------------------------------------------------------
\* The two evaluations describe a hit alike.
LEMMA DescriptionsAgree ==
    ASSUME bars \in Seq(Bars), NEW a, NEW sa, NEW b, NEW sb, Evaluations(a, sa, b, sb),
           NEW hit
    PROVE  /\ ContextEnhancers(hit, sa) = ContextEnhancers(hit, sb)
           /\ ActivityBucket(sa) = ActivityBucket(sb)
<1>1. /\ a \in Nat /\ a + MinHistory =< Len(bars) /\ sa = SubSeq(bars, a + 1, Len(bars))
      /\ b \in Nat /\ b + MinHistory =< Len(bars) /\ sb = SubSeq(bars, b + 1, Len(bars))
    BY DEF Evaluations
<1>2. /\ Last(sa) = Last(sb) /\ Reference(Before(sa)) = Reference(Before(sb))
    BY ViewsAgree
<1>3. /\ Before(sa) = SubSeq(bars, a + 1, Len(bars) - 1)
      /\ Before(sb) = SubSeq(bars, b + 1, Len(bars) - 1)
    BY <1>1, SeenIsOfTheStream
<1> DEFINE m == Len(bars) - 1
<1>4. /\ Lookback \in Nat \ {0} /\ m \in Nat /\ m =< Len(bars)
      /\ a + Lookback =< m /\ b + Lookback =< m
    BY <1>1, EngineAssumption, FactorAssumption
<1>5. Recent(SubSeq(bars, a + 1, m), Lookback) = Recent(SubSeq(bars, b + 1, m), Lookback)
    <2> HIDE DEF m
    <2>1. Recent(SubSeq(bars, a + 1, m), Lookback) = SubSeq(bars, m - Lookback + 1, m)
        BY <1>1, <1>4, RecentOfCut
    <2>2. Recent(SubSeq(bars, b + 1, m), Lookback) = SubSeq(bars, m - Lookback + 1, m)
        BY <1>1, <1>4, RecentOfCut
    <2> QED BY <2>1, <2>2
<1>6. Recent(Before(sa), Lookback) = Recent(Before(sb), Lookback)
    BY <1>3, <1>5
<1>7. ContextEnhancers(hit, sa) = ContextEnhancers(hit, sb)
    BY <1>2, <1>6 DEF ContextEnhancers
<1>8. ActivityBucket(sa) = ActivityBucket(sb)
    BY <1>2 DEF ActivityBucket
<1> QED BY <1>7, <1>8

\* An evaluation remembers every candidate a cooldown or an escalation asks for.
LEMMA MemoriesAgree ==
    ASSUME SequencesKnown, NEW a, NEW sa, NEW b, NEW sb, Evaluations(a, sa, b, sb)
    PROVE  /\ \A c \in emitted : c.seq >= Len(bars) - Cooldown =>
                (c \in Prior(a) <=> c \in Prior(b))
           /\ \A c \in Prior(a) : c \in emitted
           /\ \A hit \in CoreHits(sa, a) :
                Predecessors(hit, Prior(a)) = Predecessors(hit, Prior(b))
<1>1. /\ a \in Nat /\ a + MinHistory =< Len(bars) /\ sa = SubSeq(bars, a + 1, Len(bars))
      /\ b \in Nat /\ b + MinHistory =< Len(bars) /\ sb = SubSeq(bars, b + 1, Len(bars))
      /\ bars \in Seq(Bars) /\ Len(bars) \in Nat
      /\ MinHistory \in Nat /\ Cooldown \in Nat /\ MinHistory > Cooldown + 1
    BY EngineAssumption DEF Evaluations, SequencesKnown
<1>2. \A c \in emitted : c.seq \in Nat
    BY DEF SequencesKnown
<1>3. \A c \in emitted : c.seq >= Len(bars) - Cooldown - 1 =>
        (c \in Prior(a) <=> c \in Prior(b))
    <2>1. a < Len(bars) - Cooldown - 1 /\ b < Len(bars) - Cooldown - 1
        BY <1>1
    <2> QED BY <1>1, <1>2, <2>1 DEF Prior
<1>4. \A c \in Prior(a) \cup Prior(b) : c \in emitted /\ c.seq < Len(bars)
    BY DEF Prior
<1>5. ASSUME NEW hit \in CoreHits(sa, a)
      PROVE  Predecessors(hit, Prior(a)) = Predecessors(hit, Prior(b))
    <2>1. CASE hit.type # "failed_breakout_candidate"
        BY <2>1 DEF Predecessors
    <2>2. CASE hit.type = "failed_breakout_candidate"
        <3>1. a \in Nat /\ Len(sa) \in Nat /\ a + Len(sa) = Len(bars)
            BY <1>1, SeenIsOfTheStream
        <3>2. hit.evidence = {Len(bars) - 1, Len(bars)}
            <4> DEFINE last == a + Len(sa)
            <4>1. hit.evidence = {last - 1, last}
                BY <2>2, <3>1, HitsAreKnown
            <4>2. last = Len(bars)
                BY <3>1
            <4> HIDE DEF last
            <4> QED BY <4>1, <4>2
        <3>3. ASSUME NEW c \in Prior(a) \cup Prior(b), c.seq \in hit.evidence
              PROVE  c.seq >= Len(bars) - Cooldown - 1
            <4>1. c.seq = Len(bars) - 1 \/ c.seq = Len(bars)
                BY <3>2, <3>3
            <4> QED BY <1>1, <4>1
        <3>4. \A c : c \in Predecessors(hit, Prior(a)) <=> c \in Predecessors(hit, Prior(b))
            BY <1>3, <1>4, <3>3 DEF Predecessors
        <3> HIDE DEF Prior
        <3>5. Predecessors(hit, Prior(a)) \subseteq Prior(a)
              /\ Predecessors(hit, Prior(b)) \subseteq Prior(b)
            BY DEF Predecessors
        <3> QED BY <3>4, <3>5
    <2> QED BY <2>1, <2>2
<1>6. \A c \in emitted : c.seq >= Len(bars) - Cooldown =>
        (c \in Prior(a) <=> c \in Prior(b))
    BY <1>1, <1>2, <1>3
<1> QED BY <1>4, <1>5, <1>6

\* A candidate of a group of hits, its circumstances given.
Told(hits, at, enhancers, activity, before, context) ==
    LET primary == Primary(hits)
    IN [seq |-> at,
        primary |-> primary.type,
        secondary |-> {hit.type : hit \in hits} \ {primary.type},
        polarity |-> primary.polarity,
        group |-> primary.group,
        family |-> primary.family,
        enhancers |-> enhancers,
        activity |-> activity,
        context |-> context,
        predecessor |-> IF before = {} THEN NoCandidate
                        ELSE Id(CHOOSE c \in before : \A d \in before : c.seq >= d.seq)]

\* Candidates that differ in nothing but their context.
LEMMA ContextsAside ==
    ASSUME NEW hits, NEW at, NEW enhancers, NEW activity, NEW before, NEW x, NEW y,
           NEW c, c = Told(hits, at, enhancers, activity, before, x),
           NEW d, d = Told(hits, at, enhancers, activity, before, y)
    PROVE  /\ [c EXCEPT !.context = "any"] = [d EXCEPT !.context = "any"]
           /\ c.group = d.group /\ c.seq = d.seq /\ c.seq = at
           /\ c.polarity = d.polarity /\ c.family = d.family
           /\ c.predecessor = d.predecessor
<1> DEFINE first == Primary(hits)
           others == {hit.type : hit \in hits} \ {first.type}
           predecessor == IF before = {} THEN NoCandidate
                          ELSE Id(CHOOSE p \in before : \A q \in before : p.seq >= q.seq)
           Shape(context) ==
             [seq |-> at, primary |-> first.type, secondary |-> others,
              polarity |-> first.polarity, group |-> first.group, family |-> first.family,
              enhancers |-> enhancers, activity |-> activity, context |-> context,
              predecessor |-> predecessor]
<1>1. c = Shape(x) /\ d = Shape(y)
    BY DEF Told
<1> HIDE DEF first, others, predecessor
<1> QED BY <1>1

\* What one evaluation tells of the latest bar, another tells too.
LEMMA OpinionsAgree ==
    ASSUME SequencesKnown,
           NEW n \in MinHistory..Len(bars), NEW k \in MinHistory..Len(bars)
    PROVE  Opinion(n) \subseteq Opinion(k)
<1> DEFINE a == Len(bars) - n
           sa == SubSeq(bars, a + 1, Len(bars))
           b == Len(bars) - k
           sb == SubSeq(bars, b + 1, Len(bars))
           Any(c) == [c EXCEPT !.context = "any"]
           Unpivoted(told) == {c \in told : c.group[1] \notin {"pivot-high", "pivot-low"}}
           Like(h, hits) == {hit \in hits : hit.polarity = h.polarity /\ hit.group = h.group}
<1>1. /\ Opinion(n) = {Any(c) : c \in Unpivoted(Surviving(sa, a, Prior(a)))}
      /\ Opinion(k) = {Any(c) : c \in Unpivoted(Surviving(sb, b, Prior(b)))}
    BY DEF Opinion
<1>2. Evaluations(a, sa, b, sb) /\ Evaluations(b, sb, a, sa) /\ bars \in Seq(Bars)
    <2>1. bars \in Seq(Bars) /\ Len(bars) \in Nat /\ MinHistory \in Nat
        BY EngineAssumption DEF SequencesKnown
    <2>2. a \in Nat /\ a + MinHistory =< Len(bars) /\ b \in Nat /\ b + MinHistory =< Len(bars)
        BY <2>1
    <2> QED BY <2>1, <2>2 DEF Evaluations
<1> HIDE DEF a, b, sa, sb
<1>3. ASSUME NEW c \in Surviving(sa, a, Prior(a)), c.group[1] \notin Pivot
      PROVE  \E d \in Surviving(sb, b, Prior(b)) :
                d.group[1] \notin Pivot /\ Any(c) = Any(d)
    <2>1. PICK h \in CoreHits(sa, a) :
            c = Composite(Like(h, CoreHits(sa, a)), sa, a, Prior(a))
        BY DEF Surviving, BuildCandidates
    <2>2. h.group[1] \notin Pivot /\ c.group = h.group
        <3> DEFINE first == Primary(Like(h, CoreHits(sa, a)))
        <3>1. a \in Nat /\ Len(sa) \in Nat
            BY <1>2, SeenIsOfTheStream DEF Evaluations
        <3>2. Like(h, CoreHits(sa, a)) # {} /\ \A hit \in Like(h, CoreHits(sa, a)) : hit.type \in Type
            BY <3>1, HitsAreKnown
        <3>3. first \in Like(h, CoreHits(sa, a))
            <4> HIDE DEF Like
            <4> QED BY <3>2, PrimaryIsOfGroup
        <3>4. c.group = first.group
            BY <2>1 DEF Composite
        <3>5. first.group = h.group
            BY <3>3
        <3> QED BY <1>3, <3>4, <3>5
    <2>3. Like(h, CoreHits(sa, a)) = Like(h, CoreHits(sb, b)) /\ h \in CoreHits(sb, b)
        <3>1. ASSUME NEW hit \in Like(h, CoreHits(sa, a)) PROVE hit \in CoreHits(sb, b)
            BY <1>2, <2>2, HitsAgree
        <3>2. ASSUME NEW hit \in Like(h, CoreHits(sb, b)) PROVE hit \in CoreHits(sa, a)
            BY <1>2, <2>2, HitsAgree
        <3> QED BY <3>1, <3>2
    <2> DEFINE hits == Like(h, CoreHits(sa, a))
               d == Composite(hits, sb, b, Prior(b))
    <2>4. d \in BuildCandidates(sb, b, Prior(b))
        BY <2>3 DEF BuildCandidates
    <2>5. Primary(hits) \in CoreHits(sa, a)
        <3>1. a \in Nat /\ Len(sa) \in Nat
            BY <1>2, SeenIsOfTheStream DEF Evaluations
        <3>2. hits # {} /\ \A hit \in hits : hit.type \in Type
            BY <3>1, HitsAreKnown
        <3>3. Primary(hits) \in hits
            <4> HIDE DEF hits
            <4> QED BY <3>2, PrimaryIsOfGroup
        <3> QED BY <3>3
    <2> HIDE DEF hits
    <2>6. /\ a + Len(sa) = b + Len(sb)
          /\ ContextEnhancers(Primary(hits), sa) = ContextEnhancers(Primary(hits), sb)
          /\ ActivityBucket(sa) = ActivityBucket(sb)
          /\ Predecessors(Primary(hits), Prior(a)) = Predecessors(Primary(hits), Prior(b))
        BY <1>2, <2>5, ViewsAgree, DescriptionsAgree, MemoriesAgree
    <2>7. /\ Any(c) = Any(d) /\ c.group = d.group /\ c.seq = d.seq
          /\ c.polarity = d.polarity /\ c.family = d.family
          /\ c.predecessor = d.predecessor
        <3> DEFINE first == Primary(hits)
                   Context(s) == IF Len(s) >= FullContext THEN "normal" ELSE "left_censored"
        <3>1. c = Composite(hits, sa, a, Prior(a))
            BY <2>1 DEF hits
        <3>2. d = Told(hits, b + Len(sb), ContextEnhancers(first, sb), ActivityBucket(sb),
                       Predecessors(first, Prior(b)), Context(sb))
            BY DEF Composite, Told
        <3>3. c = Told(hits, a + Len(sa), ContextEnhancers(first, sa), ActivityBucket(sa),
                       Predecessors(first, Prior(a)), Context(sa))
            BY <3>1 DEF Composite, Told
        <3> HIDE DEF d, Context, first
        <3>4. c = Told(hits, b + Len(sb), ContextEnhancers(first, sb), ActivityBucket(sb),
                       Predecessors(first, Prior(b)), Context(sa))
            BY <2>6, <3>3 DEF first
        <3> QED BY <3>2, <3>4, ContextsAside
    <2>8. ~CooldownBlocks(d, Prior(b))
        <3>1. ~CooldownBlocks(c, Prior(a))
            BY DEF Surviving
        <3>2. Thread(c) = Thread(d) /\ (Escalates(c) <=> Escalates(d))
            BY <2>7 DEF Thread, Escalates
        <3>3. d.seq = Len(bars)
            <4>1. b + Len(sb) = Len(bars)
                <5>1. /\ b \in Nat /\ b + MinHistory =< Len(bars)
                      /\ sb = SubSeq(bars, b + 1, Len(bars))
                    BY <1>2 DEF Evaluations
                <5> QED BY <1>2, <5>1, SeenIsOfTheStream
            <4> QED BY <4>1 DEF Composite
        <3>4. ASSUME NEW p \in Prior(b), d.seq =< p.seq + Cooldown PROVE p \in Prior(a)
            <4>1. p \in emitted /\ p.seq \in Nat /\ Len(bars) \in Nat /\ Cooldown \in Nat
                BY EngineAssumption DEF Prior, SequencesKnown
            <4>2. p.seq >= Len(bars) - Cooldown
                BY <3>3, <3>4, <4>1
            <4> QED BY <1>2, <3>4, <4>1, <4>2, MemoriesAgree
        <3> HIDE DEF d
        <3> QED BY <2>7, <3>1, <3>2, <3>4 DEF CooldownBlocks
    <2> HIDE DEF d
    <2>9. d \in Surviving(sb, b, Prior(b))
        BY <2>4, <2>8 DEF Surviving
    <2> QED BY <2>2, <2>7, <2>9
<1> HIDE DEF Any
<1> QED BY <1>1, <1>3 DEF Pivot

\* Evaluating a bar again with more or less history yields no second opinion
\* of it (MINIMUM_HISTORY exceeds the windows of all detectors, the span of a
\* pullback and the cooldown).
THEOREM EvaluationsRepeat == Spec => []RepeatsAgree
<1>1. QuietInvariant => RepeatsAgree
    <2> SUFFICES ASSUME QuietInvariant,
                        NEW n \in MinHistory..Len(bars), NEW k \in MinHistory..Len(bars)
                 PROVE  Opinion(n) = Opinion(k)
        BY DEF RepeatsAgree
    <2>1. SequencesKnown
        BY DEF QuietInvariant
    <2> QED BY <2>1, OpinionsAgree
<1> QED BY QuietInit, QuietStep, <1>1, PTL DEF Spec

-----------------------------------------------------------------------------
(* Every non-empty set of naturals has a least element: induction over the  *)
(* naturals, without an operator for what is shown.                         *)
LEMMA LeastNatural ==
    ASSUME NEW T \in SUBSET Nat, T # {}
    PROVE  \E m \in T : \A k \in T : m <= k
<1> DEFINE R == {ss \in Nat \X Nat : ss[1] < ss[2]}
<1>1. IsWellFoundedOn(R, Nat)
  BY NatLessThanWellFounded DEF OpToRel
<1>2. \E x \in T : \A y \in T : ~ (<<y, x>> \in R)
  <2> HIDE DEF R
  <2> QED BY <1>1, WFMin
<1>3. PICK x \in T : \A y \in T : ~ (<<y, x>> \in R)
  BY <1>2
<1>4. ASSUME NEW y \in T, y < x PROVE FALSE
  <2>1. <<y, x>> \in R
    BY <1>4
  <2> QED BY <2>1, <1>3
<1>5. \A y \in T : x <= y
  BY <1>4
<1> QED BY <1>5

LEMMA GreatestBelow ==
    ASSUME NEW T \in SUBSET Int, T # {}, NEW bound \in Int, \A k \in T : k <= bound
    PROVE  \E m \in T : \A k \in T : k <= m
<1> DEFINE D == {bound - k : k \in T}
<1>1. D \in SUBSET Nat /\ D # {}
  <2>1. ASSUME NEW k \in T PROVE bound - k \in Nat
    <3>1. k \in Int /\ k <= bound
      OBVIOUS
    <3> QED BY <3>1
  <2>2. D \in SUBSET Nat
    BY <2>1
  <2> QED BY <2>2
<1>2. PICK d \in D : \A e \in D : d <= e
  <2> HIDE DEF D
  <2> QED BY <1>1, LeastNatural
<1>3. PICK m \in T : d = bound - m
  BY <1>2
<1>4. ASSUME NEW k \in T PROVE k <= m
  <2>1. bound - k \in D
    OBVIOUS
  <2>2. d <= bound - k
    <3> HIDE DEF D
    <3> QED BY <1>2, <2>1
  <2> QED BY <1>3, <2>2
<1> QED BY <1>4

-----------------------------------------------------------------------------
(* Bars turned upside down: every price is negated, highs and lows change  *)
(* places.  A range then is the opposite one, of the same width, so each    *)
(* detector finds on one side what it found on the other.                   *)
Flip(s) == [i \in DOMAIN s |-> MirrorBar(s[i])]

\* The bars an evaluation accepts.
ValidBars == {bar \in Bars : IsValidOhlc(bar)}

\* A bar turned upside down, field by field.
LEMMA MirroredFields ==
    ASSUME NEW o, NEW h, NEW l, NEW c, NEW g, NEW bar,
           bar = [open |-> o, high |-> h, low |-> l, close |-> c, gap |-> g]
    PROVE  MirrorBar(bar) = [open |-> -o, high |-> -l, low |-> -h, close |-> -c, gap |-> g]
<1>1. bar.open = o /\ bar.high = h /\ bar.low = l /\ bar.close = c
    OBVIOUS
<1>2. MirrorBar(bar) = [bar EXCEPT !.open = -o, !.high = -l, !.low = -h, !.close = -c]
    BY <1>1 DEF MirrorBar
<1> QED BY <1>2

\* A bar that is accepted is accepted upside down, as high as it was.
LEMMA MirroredBar ==
    ASSUME NEW bar \in ValidBars
    PROVE  /\ MirrorBar(bar) \in ValidBars
           /\ MirrorBar(MirrorBar(bar)) = bar
           /\ MirrorBar(bar).high = -bar.low /\ MirrorBar(bar).low = -bar.high
           /\ MirrorBar(bar).open = -bar.open /\ MirrorBar(bar).close = -bar.close
           /\ bar.high \in Int /\ bar.low \in Int /\ bar.open \in Int /\ bar.close \in Int
           /\ Spread(bar) \in Nat /\ Spread(MirrorBar(bar)) = Spread(bar)
<1>1. /\ bar \in [open : Int, high : Int, low : Int, close : Int, gap : BOOLEAN]
      /\ IsValidOhlc(bar)
    BY DEF ValidBars, Bars
<1>2. PICK o \in Int, h \in Int, l \in Int, c \in Int, g \in BOOLEAN :
        bar = [open |-> o, high |-> h, low |-> l, close |-> c, gap |-> g]
    BY <1>1
<1>3. MirrorBar(bar) = [open |-> -o, high |-> -l, low |-> -h, close |-> -c, gap |-> g]
    BY <1>2, MirroredFields
<1>4. MirrorBar(MirrorBar(bar)) = [open |-> -(-o), high |-> -(-h), low |-> -(-l),
                                   close |-> -(-c), gap |-> g]
    BY <1>3, MirroredFields
<1>5. l =< o /\ o =< h /\ l =< c /\ c =< h
    BY <1>1, <1>2 DEF IsValidOhlc
<1>6. -(-o) = o /\ -(-h) = h /\ -(-l) = l /\ -(-c) = c
    OBVIOUS
<1>7. MirrorBar(MirrorBar(bar)) = bar
    BY <1>2, <1>4, <1>6
<1>8. MirrorBar(bar) \in Bars
    BY <1>3 DEF Bars
<1>9. IsValidOhlc(MirrorBar(bar))
    BY <1>3, <1>5 DEF IsValidOhlc
<1>10. h - l \in Nat /\ -l - -h = h - l
    BY <1>5
<1>11. Spread(bar) = h - l /\ Spread(MirrorBar(bar)) = -l - -h
    BY <1>2, <1>3 DEF Spread
<1> QED BY <1>2, <1>3, <1>7, <1>8, <1>9, <1>10, <1>11 DEF ValidBars

\* Bars turned upside down, bar by bar, and turned back.
LEMMA FlippedBars ==
    ASSUME NEW s \in Seq(ValidBars)
    PROVE  /\ Flip(s) \in Seq(ValidBars) /\ Len(Flip(s)) = Len(s) /\ Len(s) \in Nat
           /\ DOMAIN Flip(s) = 1..Len(s)
           /\ \A i \in 1..Len(s) : s[i] \in ValidBars /\ Flip(s)[i] = MirrorBar(s[i])
           /\ Flip(Flip(s)) = s
<1>1. Len(s) \in Nat /\ DOMAIN s = 1..Len(s) /\ \A i \in 1..Len(s) : s[i] \in ValidBars
    BY LenProperties
<1>2. /\ Flip(s) = [i \in 1..Len(s) |-> MirrorBar(s[i])]
      /\ DOMAIN Flip(s) = 1..Len(s)
      /\ \A i \in 1..Len(s) : Flip(s)[i] = MirrorBar(s[i])
    BY <1>1 DEF Flip
<1>3. Flip(s) \in [1..Len(s) -> ValidBars]
    BY <1>1, <1>2, MirroredBar
<1>4. Flip(s) \in Seq(ValidBars) /\ Len(Flip(s)) = Len(s)
    BY <1>1, <1>2, <1>3, SeqDef, LenProperties
<1>5. Flip(Flip(s)) = [i \in 1..Len(s) |-> MirrorBar(MirrorBar(s[i]))]
    BY <1>2 DEF Flip
<1>6. s \in [1..Len(s) -> ValidBars]
    BY <1>1, LenProperties
<1>7. \A i \in 1..Len(s) : MirrorBar(MirrorBar(s[i])) = s[i]
    BY <1>1, MirroredBar
<1> HIDE DEF Flip
<1>8. Flip(Flip(s)) = s
    BY <1>5, <1>6, <1>7
<1> QED BY <1>1, <1>2, <1>4, <1>8

\* A cut of the flipped bars is the flipped cut.
LEMMA FlippedCut ==
    ASSUME NEW s \in Seq(ValidBars), NEW m \in 1..Len(s), NEW n \in 0..Len(s)
    PROVE  /\ SubSeq(s, m, n) \in Seq(ValidBars)
           /\ SubSeq(Flip(s), m, n) = Flip(SubSeq(s, m, n))
<1>1. /\ Len(s) \in Nat /\ Flip(s) \in Seq(ValidBars) /\ Len(Flip(s)) = Len(s)
      /\ \A i \in 1..Len(s) : s[i] \in ValidBars /\ Flip(s)[i] = MirrorBar(s[i])
    BY FlippedBars
<1> DEFINE size == IF m =< n THEN n - m + 1 ELSE 0
<1>2. size \in Nat /\ \A i \in 1..size : m + i - 1 \in 1..Len(s)
    BY <1>1
<1>3. /\ SubSeq(s, m, n) \in Seq(ValidBars) /\ Len(SubSeq(s, m, n)) = size
      /\ \A i \in 1..size : SubSeq(s, m, n)[i] = s[m + i - 1]
    <2>1. \A i \in m..n : s[i] \in ValidBars
        BY <1>1
    <2> QED BY <1>1, <2>1, SubSeqProperties
<1>4. /\ SubSeq(Flip(s), m, n) \in Seq(ValidBars) /\ Len(SubSeq(Flip(s), m, n)) = size
      /\ \A i \in 1..size : SubSeq(Flip(s), m, n)[i] = Flip(s)[m + i - 1]
    <2>1. \A i \in m..n : Flip(s)[i] \in ValidBars
        BY <1>1, MirroredBar
    <2> QED BY <1>1, <2>1, SubSeqProperties
<1> HIDE DEF size
<1>5. /\ Flip(SubSeq(s, m, n)) \in Seq(ValidBars) /\ Len(Flip(SubSeq(s, m, n))) = size
      /\ \A i \in 1..size : Flip(SubSeq(s, m, n))[i] = MirrorBar(SubSeq(s, m, n)[i])
    BY <1>3, FlippedBars
<1>6. \A i \in 1..size : SubSeq(Flip(s), m, n)[i] = Flip(SubSeq(s, m, n))[i]
    BY <1>1, <1>2, <1>3, <1>4, <1>5
<1>7. SubSeq(Flip(s), m, n) = Flip(SubSeq(s, m, n))
    BY <1>2, <1>4, <1>5, <1>6, SeqEqual
<1> QED BY <1>3, <1>7

\* What precedes the event bar, and the event bar itself.
LEMMA FlippedParts ==
    ASSUME NEW s \in Seq(ValidBars), Len(s) >= 1
    PROVE  /\ Before(s) \in Seq(ValidBars) /\ Before(Flip(s)) = Flip(Before(s))
           /\ Len(Before(s)) = Len(s) - 1
           /\ Last(s) \in ValidBars /\ Last(Flip(s)) = MirrorBar(Last(s))
<1>1. /\ Len(s) \in Nat /\ Len(Flip(s)) = Len(s)
      /\ \A i \in 1..Len(s) : s[i] \in ValidBars /\ Flip(s)[i] = MirrorBar(s[i])
    BY FlippedBars
<1>2. /\ 1 \in 1..Len(s) /\ Len(s) - 1 \in 0..Len(s) /\ Len(s) \in 1..Len(s)
    BY <1>1
<1>3. Before(s) \in Seq(ValidBars) /\ Before(Flip(s)) = Flip(Before(s))
    BY <1>1, <1>2, FlippedCut DEF Before
<1>4. Len(SubSeq(s, 1, Len(s) - 1)) = Len(s) - 1
    <2>1. \A i \in 1..(Len(s) - 1) : s[i] \in ValidBars
        BY <1>1
    <2>2. Len(SubSeq(s, 1, Len(s) - 1)) = IF 1 =< Len(s) - 1 THEN (Len(s) - 1) - 1 + 1 ELSE 0
        BY <1>1, <2>1, SubSeqProperties
    <2> QED BY <1>1, <2>2
<1> QED BY <1>1, <1>2, <1>3, <1>4 DEF Last, Before

\* The most recent bars.
LEMMA FlippedRecent ==
    ASSUME NEW s \in Seq(ValidBars), Len(s) >= 1, NEW n \in Nat \ {0}
    PROVE  /\ Recent(s, n) \in Seq(ValidBars) /\ Len(Recent(s, n)) >= 1
           /\ Recent(Flip(s), n) = Flip(Recent(s, n))
<1> DEFINE from == IF Len(s) > n THEN Len(s) - n + 1 ELSE 1
<1>1. /\ Len(s) \in Nat /\ Len(Flip(s)) = Len(s)
      /\ \A i \in 1..Len(s) : s[i] \in ValidBars
    BY FlippedBars
<1>2. from \in 1..Len(s) /\ Len(s) \in 0..Len(s) /\ from =< Len(s)
    BY <1>1
<1>3. Recent(s, n) = SubSeq(s, from, Len(s)) /\ Recent(Flip(s), n) = SubSeq(Flip(s), from, Len(s))
    BY <1>1 DEF Recent
<1> HIDE DEF from
<1>4. /\ SubSeq(s, from, Len(s)) \in Seq(ValidBars)
      /\ SubSeq(Flip(s), from, Len(s)) = Flip(SubSeq(s, from, Len(s)))
    BY <1>2, FlippedCut
<1>5. Len(SubSeq(s, from, Len(s))) = Len(s) - from + 1
    <2>1. \A i \in from..Len(s) : s[i] \in ValidBars
        BY <1>1, <1>2
    <2> QED BY <1>1, <1>2, <2>1, SubSeqProperties
<1> QED BY <1>1, <1>2, <1>3, <1>4, <1>5

\* A sequence of integers has a greatest element.
LEMMA ExtremeIsGreatest ==
    ASSUME NEW n \in Nat \ {0}, NEW values \in [1..n -> Int]
    PROVE  Extreme(values) \in 1..n /\ \A j \in 1..n : values[Extreme(values)] >= values[j]
<1> DEFINE Has(m) == \E i \in 1..m : \A j \in 1..m : values[i] >= values[j]
           Lacking == {m \in 1..n : ~Has(m)}
<1>1. Lacking = {}
    <2> SUFFICES ASSUME Lacking # {} PROVE FALSE
        OBVIOUS
    <2>1. Lacking \in SUBSET Nat
        OBVIOUS
    <2>2. PICK m \in Lacking : \A k \in Lacking : m <= k
        <3> HIDE DEF Lacking
        <3> QED BY <2>1, LeastNatural
    <2>3. m \in 1..n /\ ~Has(m)
        OBVIOUS
    <2>4. m # 1
        <3>1. Has(1)
            <4>1. 1 \in 1..1 /\ \A j \in 1..1 : j = 1
                OBVIOUS
            <4>2. values[1] \in Int
                OBVIOUS
            <4> QED BY <4>1, <4>2
        <3> QED BY <2>3, <3>1
    <2>5. m - 1 \in 1..n /\ Has(m - 1)
        <3>1. m - 1 \in 1..n /\ ~(m <= m - 1)
            BY <2>3, <2>4
        <3>2. m - 1 \notin Lacking
            <4> HIDE DEF Lacking
            <4> QED BY <2>2, <3>1
        <3> QED BY <3>1, <3>2
    <2>6. PICK i \in 1..(m - 1) : \A j \in 1..(m - 1) : values[i] >= values[j]
        BY <2>5
    <2>7. /\ i \in 1..m /\ i \in 1..n /\ m \in 1..m /\ m \in 1..n
          /\ \A j \in 1..m : j \in 1..n /\ (j \in 1..(m - 1) \/ j = m)
        BY <2>3, <2>5
    <2>8. CASE values[i] >= values[m]
        <3>1. \A j \in 1..m : values[i] >= values[j]
            BY <2>6, <2>7, <2>8
        <3> QED BY <2>3, <2>7, <3>1
    <2>9. CASE ~(values[i] >= values[m])
        <3>1. \A j \in 1..m : values[m] >= values[j]
            <4> SUFFICES ASSUME NEW j \in 1..m PROVE values[m] >= values[j]
                OBVIOUS
            <4>1. values[i] \in Int /\ values[m] \in Int /\ values[j] \in Int
                BY <2>7
            <4>2. CASE j = m
                BY <4>1, <4>2
            <4>3. CASE j \in 1..(m - 1)
                BY <2>6, <2>9, <4>1, <4>3
            <4> QED BY <2>7, <4>2, <4>3
        <3> QED BY <2>3, <2>7, <3>1
    <2> QED BY <2>8, <2>9
<1>2. n \in 1..n /\ DOMAIN values = 1..n
    OBVIOUS
<1>3. \E i \in DOMAIN values : \A j \in DOMAIN values : values[i] >= values[j]
    BY <1>1, <1>2
<1> QED BY <1>2, <1>3 DEF Extreme

\* A sequence of naturals has a value at every place of its order.
LEMMA SmallestIsTaken ==
    ASSUME NEW n \in Nat \ {0}, NEW values \in [1..n -> Nat], NEW k \in 1..n
    PROVE  Smallest(values, k) \in Nat
<1> DEFINE V == {values[i] : i \in 1..n}
           UpTo(v) == {i \in 1..n : values[i] =< v}
           Under(v) == {i \in 1..n : values[i] < v}
           T == {v \in V : k =< Cardinality(UpTo(v))}
<1>1. V \in SUBSET Nat /\ V # {}
    <2>1. \A i \in 1..n : values[i] \in Nat
        OBVIOUS
    <2>2. 1 \in 1..n
        OBVIOUS
    <2> QED BY <2>1, <2>2
<1>2. /\ IsFiniteSet(1..n) /\ Cardinality(1..n) = n
    BY FS_Interval
<1>3. T # {}
    <2> DEFINE top == values[Extreme(values)]
    <2>1. values \in [1..n -> Int]
        OBVIOUS
    <2>2. Extreme(values) \in 1..n /\ \A j \in 1..n : top >= values[j]
        BY <2>1, ExtremeIsGreatest
    <2>3. UpTo(top) = 1..n
        <3> \A j \in 1..n : values[j] \in Nat
            OBVIOUS
        <3> top \in Nat
            BY <2>2
        <3> HIDE DEF top
        <3> QED BY <2>2
    <2>4. top \in V
        BY <2>2
    <2> HIDE DEF top, V
    <2> QED BY <1>2, <2>3, <2>4
<1>4. PICK v \in T : \A w \in T : v <= w
    <2>1. T \in SUBSET Nat
        BY <1>1
    <2> HIDE DEF T
    <2> QED BY <1>3, <2>1, LeastNatural
<1>5. v \in V /\ v \in Nat /\ k =< Cardinality(UpTo(v))
    BY <1>1
<1>6. Cardinality(Under(v)) < k
    <2> SUFFICES ASSUME ~(Cardinality(Under(v)) < k) PROVE FALSE
        OBVIOUS
    <2>1. IsFiniteSet(Under(v)) /\ Cardinality(Under(v)) \in Nat
        BY <1>2, FS_Subset, FS_CardinalityType
    <2>2. Under(v) # {}
        <3>1. Cardinality(Under(v)) # 0
            BY <2>1
        <3> HIDE DEF Under
        <3> QED BY <3>1, FS_EmptySet
    <2> DEFINE W == {values[i] : i \in Under(v)}
    <2>3. W \in SUBSET Int /\ W # {} /\ \A w \in W : w <= v /\ w < v
        <3>1. \A i \in Under(v) : values[i] \in Nat /\ values[i] < v
            OBVIOUS
        <3> HIDE DEF Under
        <3>2. \A w \in W : w \in Nat /\ w < v
            BY <3>1
        <3> QED BY <1>5, <2>2, <3>2
    <2>4. PICK u \in W : \A w \in W : w <= u
        <3> HIDE DEF W
        <3>1. W \in SUBSET Int /\ W # {} /\ v \in Int /\ \A w \in W : w <= v
            BY <1>5, <2>3
        <3> QED BY <3>1, GreatestBelow
    <2>5. u \in V /\ u < v /\ u \in Nat
        <3>1. u \in V
            OBVIOUS
        <3>2. u < v
            BY <2>3
        <3> HIDE DEF V, W
        <3> QED BY <1>1, <3>1, <3>2
    <2>6. Under(v) \subseteq UpTo(u)
        <3>1. ASSUME NEW i \in Under(v) PROVE i \in UpTo(u)
            <4>1. values[i] \in W /\ i \in 1..n
                OBVIOUS
            <4>2. values[i] <= u
                <5> HIDE DEF W
                <5> QED BY <2>4, <4>1
            <4> QED BY <4>1, <4>2
        <3> QED BY <3>1
    <2>7. IsFiniteSet(UpTo(u)) /\ Cardinality(UpTo(u)) \in Nat
        BY <1>2, FS_Subset, FS_CardinalityType
    <2>8. Cardinality(Under(v)) =< Cardinality(UpTo(u))
        <3> HIDE DEF UpTo, Under
        <3> QED BY <2>6, <2>7, FS_Subset
    <2>9. u \in T
        <3>1. k =< Cardinality(UpTo(u))
            <4> HIDE DEF UpTo, Under
            <4> QED BY <2>1, <2>7, <2>8
        <3> HIDE DEF UpTo, V
        <3> QED BY <2>5, <3>1
    <2>10. v <= u
        <3> HIDE DEF T
        <3> QED BY <1>4, <2>9
    <2> QED BY <1>5, <2>5, <2>10
<1>7. /\ DOMAIN values = 1..n
      /\ {values[i] : i \in DOMAIN values} = V
      /\ {i \in DOMAIN values : values[i] < v} = Under(v)
      /\ {i \in DOMAIN values : values[i] =< v} = UpTo(v)
    OBVIOUS
<1>8. \E x \in V : /\ Cardinality({i \in DOMAIN values : values[i] < x}) < k
                   /\ k =< Cardinality({i \in DOMAIN values : values[i] =< x})
    BY <1>5, <1>6, <1>7
<1>9. Smallest(values, k) \in V
    <2> HIDE DEF V
    <2> QED BY <1>7, <1>8 DEF Smallest
<1> QED BY <1>1, <1>9

\* The median of naturals is a natural: it lies between two of them.
LEMMA MedianIsTaken ==
    ASSUME NEW n \in Nat \ {0}, NEW values \in [1..n -> Nat]
    PROVE  QuantileR7(values, 2) \in Nat
<1> DEFINE h == (n - 1) * 2
           lower == Smallest(values, h \div 4 + 1)
           upper == Smallest(values, (h + 3) \div 4 + 1)
<1>1. h \div 4 + 1 \in 1..n /\ (h + 3) \div 4 + 1 \in 1..n /\ h \in Nat
    OBVIOUS
<1>2. lower \in Nat /\ upper \in Nat
    <2> HIDE DEF h
    <2> QED BY <1>1, SmallestIsTaken
<1>3. Len(values) = n
    <2>1. values \in Seq(Nat) /\ DOMAIN values = 1..n
        BY SeqDef
    <2> QED BY <2>1, LenProperties
<1>4. QuantileR7(values, 2) = lower + ((h % 4) * (upper - lower)) \div 4
    BY <1>3 DEF QuantileR7
<1>5. h % 4 \in {0, 1, 2, 3}
    BY <1>1
<1> HIDE DEF h, lower, upper
<1>6. CASE h % 4 = 0
    BY <1>2, <1>4, <1>6
<1>7. CASE h % 4 = 1
    BY <1>2, <1>4, <1>7
<1>8. CASE h % 4 = 2
    BY <1>2, <1>4, <1>8
<1>9. CASE h % 4 = 3
    BY <1>2, <1>4, <1>9
<1> QED BY <1>5, <1>6, <1>7, <1>8, <1>9

\* What a range of accepted bars is.
Sound(r) ==
    /\ r.high \in Int /\ r.low \in Int /\ r.low =< r.high
    /\ r.median \in Nat /\ r.tolerance \in Nat /\ r.displacement \in Nat

\* Two ranges are each other's reflection.
Opposed(f, r) ==
    /\ f.high = -r.low /\ f.low = -r.high
    /\ f.median = r.median /\ f.tolerance = r.tolerance /\ f.displacement = r.displacement

\* A range of accepted bars is sound, and that of the flipped bars opposed to it.
LEMMA MeasuredMirror ==
    ASSUME NEW w \in Seq(ValidBars), Len(w) >= 1
    PROVE  Sound(Measured(w)) /\ Opposed(Measured(Flip(w)), Measured(w))
<1> DEFINE n == Len(w)
           Highs == [i \in 1..n |-> w[i].high]
           Depths == [i \in 1..n |-> -w[i].low]
           Spreads == [i \in 1..n |-> Spread(w[i])]
           middle == QuantileR7(Spreads, 2)
           top == Highs[Extreme(Highs)]
           depth == Depths[Extreme(Depths)]
<1>1. /\ n \in Nat \ {0} /\ DOMAIN w = 1..n /\ DOMAIN Flip(w) = 1..n
      /\ \A i \in 1..n : w[i] \in ValidBars /\ Flip(w)[i] = MirrorBar(w[i])
    <2>1. Len(w) \in Nat
        BY FlippedBars
    <2>2. DOMAIN w = 1..n
        BY LenProperties
    <2> QED BY <2>1, <2>2, FlippedBars
<1>2. \A i \in 1..n :
        /\ w[i].high \in Int /\ w[i].low \in Int /\ w[i].low =< w[i].high
        /\ Flip(w)[i].high = -w[i].low /\ Flip(w)[i].low = -w[i].high
        /\ Spread(w[i]) \in Nat /\ Spread(Flip(w)[i]) = Spread(w[i])
    <2> SUFFICES ASSUME NEW i \in 1..n
                 PROVE  /\ w[i].high \in Int /\ w[i].low \in Int /\ w[i].low =< w[i].high
                        /\ Flip(w)[i].high = -w[i].low /\ Flip(w)[i].low = -w[i].high
                        /\ Spread(w[i]) \in Nat /\ Spread(Flip(w)[i]) = Spread(w[i])
        OBVIOUS
    <2>1. w[i] \in ValidBars /\ Flip(w)[i] = MirrorBar(w[i])
        BY <1>1
    <2>2. /\ MirrorBar(w[i]).high = -w[i].low /\ MirrorBar(w[i]).low = -w[i].high
          /\ w[i].high \in Int /\ w[i].low \in Int
          /\ Spread(w[i]) \in Nat /\ Spread(MirrorBar(w[i])) = Spread(w[i])
        BY <2>1, MirroredBar
    <2>3. w[i].high - w[i].low \in Nat
        BY <2>2 DEF Spread
    <2> QED BY <2>1, <2>2, <2>3
<1>3. Highs \in [1..n -> Int] /\ Depths \in [1..n -> Int] /\ Spreads \in [1..n -> Nat]
    BY <1>2
<1>4. /\ Extreme(Highs) \in 1..n /\ \A j \in 1..n : top >= Highs[j]
      /\ Extreme(Depths) \in 1..n /\ \A j \in 1..n : depth >= Depths[j]
    <2> HIDE DEF Highs, Depths
    <2> QED BY <1>1, <1>3, ExtremeIsGreatest
<1>5. middle \in Nat
    <2> HIDE DEF Spreads
    <2> QED BY <1>1, <1>3, MedianIsTaken
<1>6. top \in Int /\ depth \in Int /\ -depth =< top
    <2>1. top \in Int /\ depth \in Int
        <3> HIDE DEF Highs, Depths
        <3> QED BY <1>3, <1>4
    <2>2. 1 \in 1..n /\ top >= Highs[1] /\ depth >= Depths[1]
        <3> HIDE DEF top, depth
        <3> QED BY <1>1, <1>4
    <2>3. top >= w[1].high /\ depth >= -w[1].low
        <3> HIDE DEF top, depth
        <3> QED BY <2>2
    <2> HIDE DEF top, depth
    <2> QED BY <1>2, <2>1, <2>2, <2>3
<1>7. /\ [i \in DOMAIN w |-> Spread(w[i])] = Spreads
      /\ [i \in DOMAIN w |-> w[i].high] = Highs
      /\ [i \in DOMAIN w |-> -w[i].low] = Depths
    BY <1>1
<1>8. /\ [i \in DOMAIN Flip(w) |-> Spread(Flip(w)[i])] = Spreads
      /\ [i \in DOMAIN Flip(w) |-> Flip(w)[i].high] = Depths
      /\ [i \in DOMAIN Flip(w) |-> -Flip(w)[i].low] = Highs
    <2>1. \A i \in 1..n : -Flip(w)[i].low = w[i].high
        BY <1>2
    <2> QED BY <1>1, <1>2, <2>1
<1> HIDE DEF Highs, Depths, Spreads
<1>9. /\ Measured(w).high = top /\ Measured(w).low = -depth
      /\ Measured(w).median = middle /\ Measured(w).tolerance = middle \div 2
      /\ Measured(w).displacement = middle \div 4
    BY <1>7 DEF Measured
<1>10. /\ Measured(Flip(w)).high = depth /\ Measured(Flip(w)).low = -top
       /\ Measured(Flip(w)).median = middle /\ Measured(Flip(w)).tolerance = middle \div 2
       /\ Measured(Flip(w)).displacement = middle \div 4
    BY <1>8 DEF Measured
<1> HIDE DEF middle, top, depth
<1>11. middle \div 2 \in Nat /\ middle \div 4 \in Nat /\ -(-depth) = depth
    BY <1>5, <1>6
<1>12. Sound(Measured(w))
    BY <1>5, <1>6, <1>9, <1>11 DEF Sound
<1> QED BY <1>9, <1>10, <1>11, <1>12 DEF Opposed

\* The rolling range likewise.
LEMMA ReferenceMirror ==
    ASSUME NEW s \in Seq(ValidBars), Len(s) >= 1
    PROVE  Sound(Reference(s)) /\ Opposed(Reference(Flip(s)), Reference(s))
<1>1. /\ Recent(s, Window) \in Seq(ValidBars) /\ Len(Recent(s, Window)) >= 1
      /\ Recent(Flip(s), Window) = Flip(Recent(s, Window))
    BY FactorAssumption, FlippedRecent
<1> QED BY <1>1, MeasuredMirror DEF Reference

\* The other side.
Across(p) == IF p = "upward" THEN "downward" ELSE "upward"

\* A break above is a break below upside down, a bar makes one of them at most.
LEMMA BreaksMirror ==
    ASSUME NEW bar \in ValidBars, NEW r, NEW f, Sound(r), Opposed(f, r)
    PROVE  /\ BrokeAbove(MirrorBar(bar), f) <=> BrokeBelow(bar, r)
           /\ BrokeBelow(MirrorBar(bar), f) <=> BrokeAbove(bar, r)
           /\ ~(BrokeAbove(bar, r) /\ BrokeBelow(bar, r))
           /\ \A p \in Polarities :
                BackInside(MirrorBar(bar), f, Across(p)) <=> BackInside(bar, r, p)
<1>1. /\ bar.high \in Int /\ bar.low \in Int /\ bar.close \in Int
      /\ MirrorBar(bar).high = -bar.low /\ MirrorBar(bar).low = -bar.high
      /\ MirrorBar(bar).close = -bar.close
    BY MirroredBar
<1>2. /\ r.high \in Int /\ r.low \in Int /\ r.low =< r.high
      /\ r.tolerance \in Nat /\ r.displacement \in Nat
      /\ f.high = -r.low /\ f.low = -r.high
      /\ f.tolerance = r.tolerance /\ f.displacement = r.displacement
    BY DEF Sound, Opposed
<1>3. BrokeAbove(MirrorBar(bar), f) <=> BrokeBelow(bar, r)
    BY <1>1, <1>2 DEF BrokeAbove, BrokeBelow
<1>4. BrokeBelow(MirrorBar(bar), f) <=> BrokeAbove(bar, r)
    BY <1>1, <1>2 DEF BrokeAbove, BrokeBelow
<1>5. ~(BrokeAbove(bar, r) /\ BrokeBelow(bar, r))
    BY <1>1, <1>2 DEF BrokeAbove, BrokeBelow
<1>6. BackInside(MirrorBar(bar), f, "downward") <=> BackInside(bar, r, "upward")
    BY <1>1, <1>2 DEF BackInside
<1>7. BackInside(MirrorBar(bar), f, "upward") <=> BackInside(bar, r, "downward")
    BY <1>1, <1>2 DEF BackInside
<1> QED BY <1>3, <1>4, <1>5, <1>6, <1>7 DEF Across, Polarities

Mirrored(hits) == {MirrorHit(hit) : hit \in hits}

\* The anchors of a side, and what their hits look like.
SidedGroups == ({"upper", "lower"} \X {0}) \cup ({"pivot-high", "pivot-low"} \X Nat)

\* The anchor on the other side.
LEMMA MirroredGroups ==
    ASSUME NEW g \in SidedGroups
    PROVE  /\ MirrorGroup(g) \in SidedGroups
           /\ MirrorGroup(MirrorGroup(g)) = g
           /\ g[1] # "midpoint"
<1>1. CASE g \in {"upper", "lower"} \X {0}
    <2>1. g = <<"upper", 0>> \/ g = <<"lower", 0>>
        BY <1>1
    <2>2. CASE g = <<"upper", 0>>
        BY <2>2 DEF MirrorGroup, SidedGroups
    <2>3. CASE g = <<"lower", 0>>
        BY <2>3 DEF MirrorGroup, SidedGroups
    <2> QED BY <2>1, <2>2, <2>3
<1>2. CASE g \in {"pivot-high", "pivot-low"} \X Nat
    <2>1. PICK k \in Nat : g = <<"pivot-high", k>> \/ g = <<"pivot-low", k>>
        BY <1>2
    <2>2. CASE g = <<"pivot-high", k>>
        BY <2>2 DEF MirrorGroup, SidedGroups
    <2>3. CASE g = <<"pivot-low", k>>
        BY <2>3 DEF MirrorGroup, SidedGroups
    <2> QED BY <2>1, <2>2, <2>3
<1> QED BY <1>1, <1>2 DEF SidedGroups

\* A hit on the other side.
LEMMA MirroredHit ==
    ASSUME NEW t, NEW p, NEW fam, NEW g, NEW e
    PROVE  MirrorHit([type |-> t, polarity |-> p, family |-> fam, group |-> g, evidence |-> e])
             = [type |-> t, polarity |-> Across(p), family |-> fam,
                group |-> MirrorGroup(g), evidence |-> e]
<1> DEFINE hit == [type |-> t, polarity |-> p, family |-> fam, group |-> g, evidence |-> e]
<1>1. hit.polarity = p /\ hit.group = g
    OBVIOUS
<1>2. MirrorHit(hit) = [hit EXCEPT !.polarity = Across(hit.polarity), !.group = MirrorGroup(hit.group)]
    BY DEF MirrorHit, Across
<1>3. MirrorHit(hit) = [hit EXCEPT !.polarity = Across(p), !.group = MirrorGroup(g)]
    BY <1>1, <1>2
<1> QED BY <1>3

\* A hit at the range.
LEMMA MirroredSides ==
    ASSUME NEW t, NEW p \in Polarities, NEW fam, NEW e
    PROVE  /\ MirrorHit(CoreHit(t, p, fam, e)) = CoreHit(t, Across(p), fam, e)
           /\ MirrorHit(Lifecycle(t, p, e)) = Lifecycle(t, Across(p), e)
<1> DEFINE Side(q) == IF q = "upward" THEN <<"upper", 0>> ELSE <<"lower", 0>>
<1>1. MirrorGroup(Side(p)) = Side(Across(p))
    <2>1. CASE p = "upward"
        BY <2>1 DEF MirrorGroup, Across
    <2>2. CASE p = "downward"
        BY <2>2 DEF MirrorGroup, Across
    <2> QED BY <2>1, <2>2 DEF Polarities
<1>2. \A f : /\ CoreHit(t, p, f, e) = [type |-> t, polarity |-> p, family |-> f, group |-> Side(p), evidence |-> e]
             /\ CoreHit(t, Across(p), f, e) = [type |-> t, polarity |-> Across(p), family |-> f,
                                                 group |-> Side(Across(p)), evidence |-> e]
    BY DEF CoreHit
<1> HIDE DEF Side
<1>3. \A f : MirrorHit(CoreHit(t, p, f, e)) = CoreHit(t, Across(p), f, e)
    BY <1>1, <1>2, MirroredHit
<1> QED BY <1>3 DEF Lifecycle

\* A hit at a pivot.
LEMMA MirroredMagnets ==
    ASSUME NEW k \in Nat, NEW e
    PROVE  /\ MirrorHit(MagnetHit("upward", <<"pivot-high", k>>, e))
                = MagnetHit("downward", <<"pivot-low", k>>, e)
           /\ MirrorHit(MagnetHit("downward", <<"pivot-low", k>>, e))
                = MagnetHit("upward", <<"pivot-high", k>>, e)
<1>1. /\ MirrorGroup(<<"pivot-high", k>>) = <<"pivot-low", k>>
      /\ MirrorGroup(<<"pivot-low", k>>) = <<"pivot-high", k>>
    BY DEF MirrorGroup
<1>2. /\ Across("upward") = "downward" /\ Across("downward") = "upward"
    BY DEF Across
<1> QED BY <1>1, <1>2, MirroredHit DEF MagnetHit

\* detectBreakoutAttempt favours no side.
LEMMA BreakoutMirror ==
    ASSUME NEW bar \in ValidBars, NEW r, NEW f, Sound(r), Opposed(f, r), NEW n
    PROVE  BreakoutAttempt(MirrorBar(bar), n, f) = Mirrored(BreakoutAttempt(bar, n, r))
<1>1. /\ BrokeAbove(MirrorBar(bar), f) <=> BrokeBelow(bar, r)
      /\ BrokeBelow(MirrorBar(bar), f) <=> BrokeAbove(bar, r)
      /\ ~(BrokeAbove(bar, r) /\ BrokeBelow(bar, r))
    BY BreaksMirror
<1>2. /\ MirrorHit(Lifecycle("breakout_attempt", "upward", {n}))
            = Lifecycle("breakout_attempt", "downward", {n})
      /\ MirrorHit(Lifecycle("breakout_attempt", "downward", {n}))
            = Lifecycle("breakout_attempt", "upward", {n})
    BY MirroredSides DEF Polarities, Across
<1> QED BY <1>1, <1>2 DEF BreakoutAttempt, Mirrored

\* detectFailedBreakout favours no side.
LEMMA FailedMirror ==
    ASSUME NEW s \in Seq(ValidBars), Len(s) >= 1, NEW off
    PROVE  FailedBreakout(Flip(s), off) = Mirrored(FailedBreakout(s, off))
<1> DEFINE prior == Before(s)
           n == off + Len(s)
           Failed(polarity) ==
            {Lifecycle("failed_breakout_candidate", polarity, {n - 1, n}),
             Lifecycle("breakout_attempt", polarity, {n - 1}),
             Lifecycle("range_boundary_interaction", polarity, {n})}
           Against(was, last, ref) ==
            IF BrokeAbove(was, ref) /\ BackInside(last, ref, "upward")
            THEN Failed("upward")
            ELSE IF BrokeBelow(was, ref) /\ BackInside(last, ref, "downward")
            THEN Failed("downward")
            ELSE {}
           r == Reference(Before(prior))
           f == Reference(Before(Flip(prior)))
<1>1. /\ prior \in Seq(ValidBars) /\ Before(Flip(s)) = Flip(prior)
      /\ Len(prior) = Len(s) - 1 /\ Len(Flip(s)) = Len(s) /\ Len(s) \in Nat
      /\ Last(s) \in ValidBars /\ Last(Flip(s)) = MirrorBar(Last(s))
    BY FlippedParts, FlippedBars
<1>2. Len(Flip(prior)) = Len(prior) /\ Len(prior) \in Nat
    BY <1>1, FlippedBars
<1>3. /\ FailedBreakout(s, off) = IF Len(prior) < 2 THEN {} ELSE Against(Last(prior), Last(s), r)
      /\ FailedBreakout(Flip(s), off) =
            IF Len(prior) < 2 THEN {} ELSE Against(Last(Flip(prior)), MirrorBar(Last(s)), f)
    BY <1>1, <1>2 DEF FailedBreakout
<1>4. \A p \in Polarities : Failed(Across(p)) = Mirrored(Failed(p))
    <2> SUFFICES ASSUME NEW p \in Polarities PROVE Failed(Across(p)) = Mirrored(Failed(p))
        OBVIOUS
    <2>1. \A t, e : MirrorHit(Lifecycle(t, p, e)) = Lifecycle(t, Across(p), e)
        BY MirroredSides
    <2> DEFINE First(q) == Lifecycle("failed_breakout_candidate", q, {n - 1, n})
               Second(q) == Lifecycle("breakout_attempt", q, {n - 1})
               Third(q) == Lifecycle("range_boundary_interaction", q, {n})
    <2>2. /\ MirrorHit(First(p)) = First(Across(p)) /\ MirrorHit(Second(p)) = Second(Across(p))
          /\ MirrorHit(Third(p)) = Third(Across(p))
        BY <2>1
    <2>3. \A q : Failed(q) = {First(q), Second(q), Third(q)}
        OBVIOUS
    <2> HIDE DEF Failed, First, Second, Third
    <2>4. Mirrored(Failed(p)) = {MirrorHit(First(p)), MirrorHit(Second(p)), MirrorHit(Third(p))}
        BY <2>3 DEF Mirrored
    <2>5. Failed(Across(p)) = {First(Across(p)), Second(Across(p)), Third(Across(p))}
        BY <2>3
    <2> QED BY <2>2, <2>4, <2>5
<1>5. CASE Len(prior) < 2
    BY <1>3, <1>5 DEF Mirrored
<1>6. CASE ~(Len(prior) < 2)
    <2>1. /\ Before(prior) \in Seq(ValidBars) /\ Len(Before(prior)) >= 1
          /\ Before(Flip(prior)) = Flip(Before(prior))
          /\ Last(prior) \in ValidBars /\ Last(Flip(prior)) = MirrorBar(Last(prior))
        BY <1>1, <1>2, <1>6, FlippedParts
    <2>2. Sound(r) /\ Opposed(f, r)
        BY <2>1, ReferenceMirror
    <2> HIDE DEF r, f, prior, Failed
    <2>3. /\ BrokeAbove(MirrorBar(Last(prior)), f) <=> BrokeBelow(Last(prior), r)
          /\ BrokeBelow(MirrorBar(Last(prior)), f) <=> BrokeAbove(Last(prior), r)
          /\ ~(BrokeAbove(Last(prior), r) /\ BrokeBelow(Last(prior), r))
        BY <2>1, <2>2, BreaksMirror
    <2>4. /\ BackInside(MirrorBar(Last(s)), f, "downward") <=> BackInside(Last(s), r, "upward")
          /\ BackInside(MirrorBar(Last(s)), f, "upward") <=> BackInside(Last(s), r, "downward")
        BY <1>1, <2>2, BreaksMirror DEF Polarities, Across
    <2>5. Failed("downward") = Mirrored(Failed("upward")) /\ Failed("upward") = Mirrored(Failed("downward"))
        BY <1>4 DEF Polarities, Across
    <2>6. Mirrored({}) = {}
        BY DEF Mirrored
    <2>7. Against(Last(Flip(prior)), MirrorBar(Last(s)), f) = Mirrored(Against(Last(prior), Last(s), r))
        BY <2>1, <2>3, <2>4, <2>5, <2>6
    <2> QED BY <1>3, <1>6, <2>7
<1> QED BY <1>5, <1>6

\* detectRangeBoundaryInteraction favours no side.
LEMMA BoundaryMirror ==
    ASSUME NEW bar \in ValidBars, NEW r, NEW f, Sound(r), Opposed(f, r), NEW n
    PROVE  RangeBoundaryInteraction(MirrorBar(bar), n, f)
             = Mirrored(RangeBoundaryInteraction(bar, n, r))
<1> DEFINE Flat(b, ref) == ref.high = ref.low /\ Spread(b) = 0 /\ b.close = ref.high
           Upper(b, ref) == /\ ~BrokeAbove(b, ref)
                            /\ b.high >= ref.high
                            /\ b.close >= ref.high - 2 * ref.tolerance
                            /\ b.close =< ref.high + ref.tolerance
           Lower(b, ref) == /\ ~BrokeBelow(b, ref)
                            /\ b.low =< ref.low
                            /\ b.close =< ref.low + 2 * ref.tolerance
                            /\ b.close >= ref.low - ref.tolerance
           On(b, ref) == {q \in Polarities : ~Flat(b, ref) /\ (IF q = "upward" THEN Upper(b, ref) ELSE Lower(b, ref))}
           Hit(p) == Lifecycle("range_boundary_interaction", p, {n})
<1>1. /\ bar.high \in Int /\ bar.low \in Int /\ bar.close \in Int
      /\ MirrorBar(bar).high = -bar.low /\ MirrorBar(bar).low = -bar.high
      /\ MirrorBar(bar).close = -bar.close /\ Spread(MirrorBar(bar)) = Spread(bar)
    BY MirroredBar
<1>2. /\ r.high \in Int /\ r.low \in Int /\ r.low =< r.high
      /\ r.tolerance \in Nat
      /\ f.high = -r.low /\ f.low = -r.high /\ f.tolerance = r.tolerance
    BY DEF Sound, Opposed
<1>3. /\ BrokeAbove(MirrorBar(bar), f) <=> BrokeBelow(bar, r)
      /\ BrokeBelow(MirrorBar(bar), f) <=> BrokeAbove(bar, r)
    BY BreaksMirror
<1>4. Flat(MirrorBar(bar), f) <=> Flat(bar, r)
    BY <1>1, <1>2
<1>5. Upper(MirrorBar(bar), f) <=> Lower(bar, r)
    BY <1>1, <1>2, <1>3
<1>6. Lower(MirrorBar(bar), f) <=> Upper(bar, r)
    BY <1>1, <1>2, <1>3
<1> HIDE DEF Flat, Upper, Lower
<1>7. \A p \in Polarities : Across(p) \in On(MirrorBar(bar), f) <=> p \in On(bar, r)
    BY <1>4, <1>5, <1>6 DEF Across, Polarities
<1>8. /\ RangeBoundaryInteraction(MirrorBar(bar), n, f) = {Hit(p) : p \in On(MirrorBar(bar), f)}
      /\ RangeBoundaryInteraction(bar, n, r) = {Hit(p) : p \in On(bar, r)}
    BY DEF RangeBoundaryInteraction, Flat, Upper, Lower
<1>9. On(bar, r) \subseteq Polarities /\ On(MirrorBar(bar), f) \subseteq Polarities
    OBVIOUS
<1>10. \A p \in Polarities : /\ MirrorHit(Hit(p)) = Hit(Across(p))
                             /\ Across(p) \in Polarities /\ Across(Across(p)) = p
    BY MirroredSides DEF Across, Polarities
<1> HIDE DEF On, Hit
<1>11. {Hit(p) : p \in On(MirrorBar(bar), f)} = {MirrorHit(h) : h \in {Hit(p) : p \in On(bar, r)}}
    <2>1. ASSUME NEW p \in On(MirrorBar(bar), f)
          PROVE  Hit(p) \in {MirrorHit(h) : h \in {Hit(q) : q \in On(bar, r)}}
        <3>1. p \in Polarities /\ Across(p) \in Polarities /\ Across(p) \in On(bar, r)
            BY <1>7, <1>9, <1>10
        <3>2. Hit(p) = MirrorHit(Hit(Across(p)))
            BY <1>10, <3>1
        <3> QED BY <3>1, <3>2
    <2>2. ASSUME NEW p \in On(bar, r)
          PROVE  MirrorHit(Hit(p)) \in {Hit(q) : q \in On(MirrorBar(bar), f)}
        <3>1. p \in Polarities /\ Across(p) \in On(MirrorBar(bar), f) /\ MirrorHit(Hit(p)) = Hit(Across(p))
            BY <1>7, <1>9, <1>10
        <3> QED BY <3>1
    <2> QED BY <2>1, <2>2
<1> QED BY <1>8, <1>11 DEF Mirrored

\* The bars a pullback may look back at, and the sides it may return to.
LegsOf(prior) ==
    {i \in (IF Len(prior) > LegSpan THEN Len(prior) - LegSpan + 1 ELSE 1)..(Len(prior) - 1) : i >= 3}

BackAt(prior, event, leg, polarity, ref) ==
    IF polarity = "upward"
    THEN /\ BrokeAbove(prior[leg], ref)
         /\ event.low =< ref.high + ref.tolerance
         /\ event.close > ref.high
    ELSE /\ BrokeBelow(prior[leg], ref)
         /\ event.high >= ref.low - ref.tolerance
         /\ event.close < ref.low

ReturnsTo(prior, event) ==
    {r \in LegsOf(prior) \X Polarities :
        BackAt(prior, event, r[1], r[2], Reference(SubSeq(prior, 1, r[1] - 1)))}

LatestOf(found) == {r \in found : \A other \in found : r[1] >= other[1]}

\* detectPullbackToStructure in terms of the latest returns.
LEMMA PullbackByReturns ==
    ASSUME NEW seen, NEW off
    PROVE  PullbackToStructure(seen, off)
             = {CoreHit("pullback_to_structure", r[2], "structure_return",
                        {off + r[1], off + Len(seen)}) :
                    r \in LatestOf(ReturnsTo(Before(seen), Last(seen)))}
<1> DEFINE prior == Before(seen)
           event == Last(seen)
           Faces(leg, ref) == {p \in Polarities : BackAt(prior, event, leg, p, ref)}
           R == UNION {{leg} \X Faces(leg, Reference(SubSeq(prior, 1, leg - 1))) : leg \in LegsOf(prior)}
<1>1. R = ReturnsTo(prior, event)
    <2>1. ASSUME NEW r \in R PROVE r \in ReturnsTo(prior, event)
        <3>1. PICK leg \in LegsOf(prior) : r \in {leg} \X Faces(leg, Reference(SubSeq(prior, 1, leg - 1)))
            OBVIOUS
        <3>2. PICK p \in Faces(leg, Reference(SubSeq(prior, 1, leg - 1))) : r = <<leg, p>>
            BY <3>1
        <3> QED BY <3>2 DEF ReturnsTo
    <2>2. ASSUME NEW r \in ReturnsTo(prior, event) PROVE r \in R
        <3>1. PICK leg \in LegsOf(prior), p \in Polarities :
                r = <<leg, p>> /\ BackAt(prior, event, leg, p, Reference(SubSeq(prior, 1, leg - 1)))
            BY DEF ReturnsTo
        <3>2. r \in {leg} \X Faces(leg, Reference(SubSeq(prior, 1, leg - 1)))
            BY <3>1
        <3> QED BY <3>2
    <2> QED BY <2>1, <2>2
<1> HIDE DEF R
<1>2. PullbackToStructure(seen, off)
        = {CoreHit("pullback_to_structure", r[2], "structure_return",
                   {off + r[1], off + Len(seen)}) : r \in LatestOf(R)}
    BY DEF PullbackToStructure, R, Faces, BackAt, LegsOf, LatestOf, prior, event
<1> QED BY <1>1, <1>2

\* detectPullbackToStructure favours no side.
LEMMA PullbackMirror ==
    ASSUME NEW s \in Seq(ValidBars), Len(s) >= 1, NEW off
    PROVE  PullbackToStructure(Flip(s), off) = Mirrored(PullbackToStructure(s, off))
<1> DEFINE prior == Before(s)
           event == Last(s)
           Turn(r) == <<r[1], Across(r[2])>>
           R == ReturnsTo(prior, event)
           F == ReturnsTo(Flip(prior), MirrorBar(event))
           Hit(r) == CoreHit("pullback_to_structure", r[2], "structure_return",
                             {off + r[1], off + Len(s)})
<1>1. /\ prior \in Seq(ValidBars) /\ Before(Flip(s)) = Flip(prior)
      /\ Len(Flip(s)) = Len(s)
      /\ event \in ValidBars /\ Last(Flip(s)) = MirrorBar(event)
    BY FlippedParts, FlippedBars
<1>2. /\ Len(Flip(prior)) = Len(prior) /\ Len(prior) \in Nat
      /\ \A i \in 1..Len(prior) : prior[i] \in ValidBars /\ Flip(prior)[i] = MirrorBar(prior[i])
    BY <1>1, FlippedBars
<1>3. /\ PullbackToStructure(s, off) = {Hit(r) : r \in LatestOf(R)}
      /\ PullbackToStructure(Flip(s), off) = {Hit(r) : r \in LatestOf(F)}
    BY <1>1, PullbackByReturns
<1>4. /\ \A p \in Polarities : Across(p) \in Polarities /\ Across(Across(p)) = p
      /\ LegsOf(Flip(prior)) = LegsOf(prior)
      /\ \A leg \in LegsOf(prior) : leg \in Int /\ leg \in 1..Len(prior) /\ leg - 1 \in 0..Len(prior) /\ 2 =< leg - 1
    BY <1>2, FactorAssumption DEF Across, Polarities, LegsOf
<1>5. ASSUME NEW leg \in LegsOf(prior), NEW p \in Polarities
      PROVE  BackAt(Flip(prior), MirrorBar(event), leg, Across(p), Reference(SubSeq(Flip(prior), 1, leg - 1)))
             <=> BackAt(prior, event, leg, p, Reference(SubSeq(prior, 1, leg - 1)))
    <2> DEFINE cut == SubSeq(prior, 1, leg - 1)
               r == Reference(cut)
               f == Reference(SubSeq(Flip(prior), 1, leg - 1))
               bar == prior[leg]
    <2>1. cut \in Seq(ValidBars) /\ SubSeq(Flip(prior), 1, leg - 1) = Flip(cut)
        <3>1. 1 \in 1..Len(prior) /\ leg - 1 \in 0..Len(prior)
            BY <1>2, <1>4
        <3> QED BY <1>1, <3>1, FlippedCut
    <2>2. Len(cut) >= 1
        <3>1. \A i \in 1..(leg - 1) : prior[i] \in ValidBars
            BY <1>2, <1>4
        <3>2. Len(cut) = IF 1 =< leg - 1 THEN (leg - 1) - 1 + 1 ELSE 0
            BY <1>4, <3>1, SubSeqProperties
        <3> QED BY <1>4, <3>2
    <2>3. Sound(r) /\ Opposed(f, r)
        <3> HIDE DEF cut
        <3> QED BY <2>1, <2>2, ReferenceMirror
    <2>4. /\ bar \in ValidBars /\ Flip(prior)[leg] = MirrorBar(bar)
        BY <1>2, <1>4
    <2> HIDE DEF cut, r, f, bar, prior, event
    <2>5. /\ BrokeAbove(MirrorBar(bar), f) <=> BrokeBelow(bar, r)
          /\ BrokeBelow(MirrorBar(bar), f) <=> BrokeAbove(bar, r)
        BY <2>3, <2>4, BreaksMirror
    <2>6. /\ event.high \in Int /\ event.low \in Int /\ event.close \in Int
          /\ MirrorBar(event).high = -event.low /\ MirrorBar(event).low = -event.high
          /\ MirrorBar(event).close = -event.close
        BY <1>1, MirroredBar
    <2>7. /\ r.high \in Int /\ r.low \in Int /\ r.tolerance \in Nat
          /\ f.high = -r.low /\ f.low = -r.high /\ f.tolerance = r.tolerance
        BY <2>3 DEF Sound, Opposed
    <2>8. BackAt(Flip(prior), MirrorBar(event), leg, "downward", f) <=> BackAt(prior, event, leg, "upward", r)
        <3>1. /\ -event.low >= -r.high - r.tolerance <=> event.low =< r.high + r.tolerance
              /\ -event.close < -r.high <=> event.close > r.high
            BY <2>6, <2>7
        <3> QED BY <2>4, <2>5, <2>6, <2>7, <3>1 DEF BackAt, bar
    <2>9. BackAt(Flip(prior), MirrorBar(event), leg, "upward", f) <=> BackAt(prior, event, leg, "downward", r)
        <3>1. /\ -event.high =< -r.low + r.tolerance <=> event.high >= r.low - r.tolerance
              /\ -event.close > -r.low <=> event.close < r.low
            BY <2>6, <2>7
        <3> QED BY <2>4, <2>5, <2>6, <2>7, <3>1 DEF BackAt, bar
    <2> QED BY <2>8, <2>9 DEF Across, Polarities, r, f, cut
<1> HIDE DEF prior, event
<1>6. \A r \in LegsOf(prior) \X Polarities :
        /\ Turn(r) \in LegsOf(prior) \X Polarities /\ Turn(Turn(r)) = r
        /\ Turn(r)[1] = r[1] /\ Turn(r)[2] = Across(r[2])
        /\ r[1] \in LegsOf(prior) /\ r[2] \in Polarities
    BY <1>4
<1>7. \A r \in LegsOf(prior) \X Polarities : Turn(r) \in F <=> r \in R
    <2> SUFFICES ASSUME NEW r \in LegsOf(prior) \X Polarities PROVE Turn(r) \in F <=> r \in R
        OBVIOUS
    <2>1. Turn(r) \in LegsOf(Flip(prior)) \X Polarities /\ Turn(r)[1] = r[1] /\ Turn(r)[2] = Across(r[2])
        BY <1>4, <1>6
    <2>2. r[1] \in LegsOf(prior) /\ r[2] \in Polarities
        BY <1>6
    <2> HIDE DEF Turn
    <2> QED BY <1>5, <2>1, <2>2 DEF ReturnsTo
<1>8. R \subseteq LegsOf(prior) \X Polarities /\ F \subseteq LegsOf(prior) \X Polarities
    BY <1>4 DEF ReturnsTo
<1> HIDE DEF R, F, Turn
<1>9. \A r \in LegsOf(prior) \X Polarities : Turn(r) \in LatestOf(F) <=> r \in LatestOf(R)
    <2> SUFFICES ASSUME NEW r \in LegsOf(prior) \X Polarities
                 PROVE  Turn(r) \in LatestOf(F) <=> r \in LatestOf(R)
        OBVIOUS
    <2>1. ASSUME Turn(r) \in LatestOf(F) PROVE r \in LatestOf(R)
        <3>1. Turn(r) \in F /\ \A other \in F : Turn(r)[1] >= other[1]
            BY <2>1 DEF LatestOf
        <3>2. ASSUME NEW other \in R PROVE r[1] >= other[1]
            <4>1. other \in LegsOf(prior) \X Polarities /\ Turn(other) \in F
                BY <1>7, <1>8
            <4> QED BY <1>6, <3>1, <4>1
        <3> QED BY <1>7, <3>1, <3>2 DEF LatestOf
    <2>2. ASSUME r \in LatestOf(R) PROVE Turn(r) \in LatestOf(F)
        <3>1. r \in R /\ \A other \in R : r[1] >= other[1]
            BY <2>2 DEF LatestOf
        <3>2. ASSUME NEW other \in F PROVE Turn(r)[1] >= other[1]
            <4>1. /\ other \in LegsOf(prior) \X Polarities /\ Turn(Turn(other)) = other
                  /\ Turn(other) \in LegsOf(prior) \X Polarities
                BY <1>6, <1>8
            <4>2. Turn(other) \in R
                BY <1>7, <4>1
            <4> QED BY <1>6, <3>1, <4>1, <4>2
        <3> QED BY <1>7, <3>1, <3>2 DEF LatestOf
    <2> QED BY <2>1, <2>2
<1>10. \A r \in LegsOf(prior) \X Polarities : MirrorHit(Hit(r)) = Hit(Turn(r))
    <2> SUFFICES ASSUME NEW r \in LegsOf(prior) \X Polarities PROVE MirrorHit(Hit(r)) = Hit(Turn(r))
        OBVIOUS
    <2>1. Turn(r)[1] = r[1] /\ Turn(r)[2] = Across(r[2]) /\ r[2] \in Polarities
        BY <1>6
    <2>2. MirrorHit(Hit(r)) = CoreHit("pullback_to_structure", Across(r[2]), "structure_return",
                                      {off + r[1], off + Len(s)})
        BY <2>1, MirroredSides
    <2> QED BY <2>1, <2>2
<1>11. /\ LatestOf(R) \subseteq LegsOf(prior) \X Polarities
       /\ LatestOf(F) \subseteq LegsOf(prior) \X Polarities
    BY <1>8 DEF LatestOf
<1> HIDE DEF Hit
<1>12. {Hit(r) : r \in LatestOf(F)} = {MirrorHit(h) : h \in {Hit(r) : r \in LatestOf(R)}}
    <2>1. ASSUME NEW r \in LatestOf(F)
          PROVE  Hit(r) \in {MirrorHit(h) : h \in {Hit(x) : x \in LatestOf(R)}}
        <3>1. r \in LegsOf(prior) \X Polarities /\ Turn(r) \in LegsOf(prior) \X Polarities /\ Turn(Turn(r)) = r
            BY <1>6, <1>11
        <3>2. Turn(r) \in LatestOf(R) /\ Hit(r) = MirrorHit(Hit(Turn(r)))
            BY <1>9, <1>10, <3>1
        <3> QED BY <3>2
    <2>2. ASSUME NEW r \in LatestOf(R)
          PROVE  MirrorHit(Hit(r)) \in {Hit(x) : x \in LatestOf(F)}
        <3>1. Turn(r) \in LatestOf(F) /\ MirrorHit(Hit(r)) = Hit(Turn(r))
            BY <1>9, <1>10, <1>11
        <3> QED BY <3>1
    <2> QED BY <2>1, <2>2
<1> QED BY <1>3, <1>12 DEF Mirrored

Sided(hits) == {hit \in hits : hit.group[1] # "midpoint"}

\* A hit on one side of the market.
SideHit(hit) ==
    \E t, fam, e : \E p \in Polarities, g \in SidedGroups :
        hit = [type |-> t, polarity |-> p, family |-> fam, group |-> g, evidence |-> e]

\* What is known of a hit on one side, and of its reflection.
LEMMA SideHits ==
    ASSUME NEW hit, SideHit(hit)
    PROVE  /\ MirrorHit(hit).type = hit.type
           /\ hit.polarity \in Polarities /\ MirrorHit(hit).polarity = Across(hit.polarity)
           /\ hit.group \in SidedGroups /\ MirrorHit(hit).group = MirrorGroup(hit.group)
           /\ hit.group[1] # "midpoint"
<1>1. PICK t, fam, e : \E p \in Polarities, g \in SidedGroups :
        hit = [type |-> t, polarity |-> p, family |-> fam, group |-> g, evidence |-> e]
    BY DEF SideHit
<1>2. PICK p \in Polarities, g \in SidedGroups :
        hit = [type |-> t, polarity |-> p, family |-> fam, group |-> g, evidence |-> e]
    BY <1>1
<1>3. MirrorHit(hit) = [type |-> t, polarity |-> Across(p), family |-> fam,
                        group |-> MirrorGroup(g), evidence |-> e]
    BY <1>2, MirroredHit
<1>4. g[1] # "midpoint"
    BY MirroredGroups
<1> QED BY <1>2, <1>3, <1>4

\* The hits at the range are on one side,
LEMMA RangeHitsHaveASide ==
    ASSUME NEW t, NEW p \in Polarities, NEW fam, NEW e
    PROVE  SideHit(CoreHit(t, p, fam, e)) /\ SideHit(Lifecycle(t, p, e))
<1> DEFINE g == IF p = "upward" THEN <<"upper", 0>> ELSE <<"lower", 0>>
<1>1. g \in SidedGroups
    BY DEF SidedGroups
<1> HIDE DEF g
<1>2. \A f : SideHit([type |-> t, polarity |-> p, family |-> f, group |-> g, evidence |-> e])
    BY <1>1 DEF SideHit
<1>3. \A f : CoreHit(t, p, f, e)
               = [type |-> t, polarity |-> p, family |-> f, group |-> g, evidence |-> e]
    BY DEF CoreHit, g
<1> QED BY <1>2, <1>3 DEF Lifecycle

\* and so are those at a pivot.
LEMMA MagnetHitsHaveASide ==
    ASSUME NEW p \in Polarities, NEW g \in SidedGroups, NEW e
    PROVE  SideHit(MagnetHit(p, g, e))
    BY DEF SideHit, MagnetHit

\* What a failed breakout leaves of the hits found after it.
Merged(failed, others) ==
    failed \cup {hit \in others : ~\E first \in failed :
        first.type = hit.type /\ first.polarity = hit.polarity /\ first.group = hit.group}

\* dedupeHits hides a hit when it hides its reflection.
LEMMA MergeMirror ==
    ASSUME NEW A, NEW B, \A hit \in A \cup B : SideHit(hit)
    PROVE  Merged(Mirrored(A), Mirrored(B)) = Mirrored(Merged(A, B))
<1> DEFINE Same(a, b) == a.type = b.type /\ a.polarity = b.polarity /\ a.group = b.group
<1>1. \A a, b \in A \cup B : Same(MirrorHit(a), MirrorHit(b)) <=> Same(a, b)
    <2> SUFFICES ASSUME NEW a \in A \cup B, NEW b \in A \cup B
                 PROVE  Same(MirrorHit(a), MirrorHit(b)) <=> Same(a, b)
        OBVIOUS
    <2>1. /\ MirrorHit(a).type = a.type /\ MirrorHit(b).type = b.type
          /\ a.polarity \in Polarities /\ MirrorHit(a).polarity = Across(a.polarity)
          /\ b.polarity \in Polarities /\ MirrorHit(b).polarity = Across(b.polarity)
          /\ a.group \in SidedGroups /\ MirrorHit(a).group = MirrorGroup(a.group)
          /\ b.group \in SidedGroups /\ MirrorHit(b).group = MirrorGroup(b.group)
        BY SideHits
    <2>2. Across(a.polarity) = Across(b.polarity) <=> a.polarity = b.polarity
        BY <2>1 DEF Across, Polarities
    <2>3. MirrorGroup(a.group) = MirrorGroup(b.group) <=> a.group = b.group
        <3>1. /\ MirrorGroup(MirrorGroup(a.group)) = a.group
              /\ MirrorGroup(MirrorGroup(b.group)) = b.group
            BY <2>1, MirroredGroups
        <3> QED BY <3>1
    <2> QED BY <2>1, <2>2, <2>3
<1> HIDE DEF Same
<1>2. \A F, O : Merged(F, O) = F \cup {hit \in O : ~\E first \in F : Same(first, hit)}
    BY DEF Merged, Same
<1>3. \A b \in B : (\E first \in Mirrored(A) : Same(first, MirrorHit(b))) <=> \E a \in A : Same(a, b)
    BY <1>1 DEF Mirrored
<1>4. ASSUME NEW hit \in Merged(Mirrored(A), Mirrored(B)) PROVE hit \in Mirrored(Merged(A, B))
    <2>1. CASE hit \in Mirrored(A)
        BY <1>2, <2>1 DEF Mirrored
    <2>2. CASE hit \notin Mirrored(A)
        <3>1. PICK b \in B : hit = MirrorHit(b) /\ ~\E first \in Mirrored(A) : Same(first, MirrorHit(b))
            BY <1>2, <2>2 DEF Mirrored
        <3>2. b \in Merged(A, B)
            BY <1>2, <1>3, <3>1
        <3> QED BY <3>1, <3>2 DEF Mirrored
    <2> QED BY <2>1, <2>2
<1>5. ASSUME NEW hit \in Merged(A, B) PROVE MirrorHit(hit) \in Merged(Mirrored(A), Mirrored(B))
    <2>1. CASE hit \in A
        BY <1>2, <2>1 DEF Mirrored
    <2>2. CASE hit \notin A
        <3>1. hit \in B /\ ~\E a \in A : Same(a, hit)
            BY <1>2, <2>2
        <3>2. MirrorHit(hit) \in Mirrored(B) /\ ~\E first \in Mirrored(A) : Same(first, MirrorHit(hit))
            BY <1>3, <3>1 DEF Mirrored
        <3> QED BY <1>2, <3>2
    <2> QED BY <2>1, <2>2
<1> QED BY <1>4, <1>5 DEF Mirrored

\* A high pivot is a low one upside down.
LEMMA PivotsMirror ==
    ASSUME NEW q \in Seq(ValidBars)
    PROVE  /\ Pivots(Flip(q), "high") = Pivots(q, "low")
           /\ Pivots(Flip(q), "low") = Pivots(q, "high")
           /\ \A kind \in {"high", "low"} : Pivots(q, kind) \subseteq 1..Len(q)
<1>1. /\ Len(Flip(q)) = Len(q) /\ Len(q) \in Nat
      /\ \A i \in 1..Len(q) : q[i] \in ValidBars /\ Flip(q)[i] = MirrorBar(q[i])
    BY FlippedBars
<1>2. \A i \in 1..Len(q) :
        /\ q[i].high \in Int /\ q[i].low \in Int
        /\ Flip(q)[i].high = -q[i].low /\ Flip(q)[i].low = -q[i].high
    BY <1>1, MirroredBar
<1> DEFINE At == (PivotArm + 1)..(Len(q) - PivotArm)
           Around(i) == ((i - PivotArm)..(i + PivotArm)) \ {i}
<1>3. \A i \in At : i \in 1..Len(q) /\ \A j \in Around(i) : j \in 1..Len(q)
    BY <1>1, FactorAssumption
<1> HIDE DEF At, Around
<1>4. \A i \in At : \A j \in Around(i) :
        /\ Flip(q)[i].high > Flip(q)[j].high <=> q[i].low < q[j].low
        /\ Flip(q)[i].low < Flip(q)[j].low <=> q[i].high > q[j].high
    <2> SUFFICES ASSUME NEW i \in At, NEW j \in Around(i)
                 PROVE  /\ Flip(q)[i].high > Flip(q)[j].high <=> q[i].low < q[j].low
                        /\ Flip(q)[i].low < Flip(q)[j].low <=> q[i].high > q[j].high
        OBVIOUS
    <2>1. /\ q[i].high \in Int /\ q[i].low \in Int /\ q[j].high \in Int /\ q[j].low \in Int
          /\ Flip(q)[i].high = -q[i].low /\ Flip(q)[i].low = -q[i].high
          /\ Flip(q)[j].high = -q[j].low /\ Flip(q)[j].low = -q[j].high
        BY <1>2, <1>3
    <2> QED BY <2>1
<1>5. /\ Pivots(q, "high") = {i \in At : \A j \in Around(i) : q[i].high > q[j].high}
      /\ Pivots(q, "low") = {i \in At : \A j \in Around(i) : q[i].low < q[j].low}
    BY DEF Pivots, At, Around
<1>6. /\ Pivots(Flip(q), "high") = {i \in At : \A j \in Around(i) : Flip(q)[i].high > Flip(q)[j].high}
      /\ Pivots(Flip(q), "low") = {i \in At : \A j \in Around(i) : Flip(q)[i].low < Flip(q)[j].low}
    BY <1>1 DEF Pivots, At, Around
<1> QED BY <1>3, <1>4, <1>5, <1>6

\* detectMagnetProximity favours no side, the midpoint apart.
LEMMA MagnetsMirror ==
    ASSUME NEW s \in Seq(ValidBars), Len(s) >= 1, NEW off \in Nat,
           NEW r, NEW f, Sound(r), Opposed(f, r)
    PROVE  /\ Sided(MagnetProximity(Flip(s), off, f)) = Mirrored(Sided(MagnetProximity(s, off, r)))
           /\ \A hit \in Sided(MagnetProximity(s, off, r)) : SideHit(hit)
<1> DEFINE prior == Before(s)
           event == Last(s)
           n == off + Len(s)
           High(i) == MagnetHit("upward", <<"pivot-high", off + i>>, {off + i, n})
           Low(i) == MagnetHit("downward", <<"pivot-low", off + i>>, {off + i, n})
           Above == {i \in Pivots(prior, "high") : Distance(event.high, prior[i].high) =< r.tolerance}
           Below == {i \in Pivots(prior, "low") : Distance(event.low, prior[i].low) =< r.tolerance}
           FlipAbove == {i \in Pivots(Flip(prior), "high") :
                            Distance(MirrorBar(event).high, Flip(prior)[i].high) =< f.tolerance}
           FlipBelow == {i \in Pivots(Flip(prior), "low") :
                            Distance(MirrorBar(event).low, Flip(prior)[i].low) =< f.tolerance}
<1>1. /\ prior \in Seq(ValidBars) /\ Before(Flip(s)) = Flip(prior)
      /\ Len(Flip(s)) = Len(s) /\ Len(prior) \in Nat
      /\ event \in ValidBars /\ Last(Flip(s)) = MirrorBar(event)
      /\ \A i \in 1..Len(prior) : prior[i] \in ValidBars /\ Flip(prior)[i] = MirrorBar(prior[i])
    BY FlippedParts, FlippedBars
<1>2. \A i \in Nat : High(i).group[1] = "pivot-high" /\ Low(i).group[1] = "pivot-low"
    BY DEF MagnetHit
<1>3. \A p : MagnetHit(p, <<"midpoint", 0>>, {n}).group[1] = "midpoint"
    BY DEF MagnetHit
<1>4. /\ Pivots(Flip(prior), "high") = Pivots(prior, "low")
      /\ Pivots(Flip(prior), "low") = Pivots(prior, "high")
      /\ Pivots(prior, "low") \subseteq 1..Len(prior) /\ Pivots(prior, "high") \subseteq 1..Len(prior)
    <2> HIDE DEF prior
    <2> QED BY <1>1, PivotsMirror
<1>5. /\ Above \subseteq Nat /\ Below \subseteq Nat /\ FlipAbove \subseteq Nat /\ FlipBelow \subseteq Nat
    <2> HIDE DEF prior
    <2> QED BY <1>4
<1>6. f.tolerance = r.tolerance /\ r.tolerance \in Nat
    BY DEF Sound, Opposed
<1>7. FlipAbove = Below /\ FlipBelow = Above
    <2>1. /\ event.high \in Int /\ event.low \in Int
          /\ MirrorBar(event).high = -event.low /\ MirrorBar(event).low = -event.high
        BY <1>1, MirroredBar
    <2>2. \A i \in 1..Len(prior) :
            /\ prior[i].high \in Int /\ prior[i].low \in Int
            /\ Flip(prior)[i].high = -prior[i].low /\ Flip(prior)[i].low = -prior[i].high
        BY <1>1, MirroredBar
    <2>3. \A a, b \in Int : Distance(-a, -b) = Distance(a, b)
        BY DEF Distance
    <2>4. \A i \in 1..Len(prior) :
            /\ Distance(MirrorBar(event).high, Flip(prior)[i].high) = Distance(event.low, prior[i].low)
            /\ Distance(MirrorBar(event).low, Flip(prior)[i].low) = Distance(event.high, prior[i].high)
        BY <2>1, <2>2, <2>3
    <2> HIDE DEF prior, event
    <2> QED BY <1>4, <1>6, <2>4
<1>8. Sided(MagnetProximity(s, off, r)) = {High(i) : i \in Above} \cup {Low(i) : i \in Below}
    <2> DEFINE atMiddle == /\ Spread(event) < r.tolerance
                           /\ Distance(2 * event.close, r.high + r.low) =< 2 * r.tolerance
               Middle == {MagnetHit(p, <<"midpoint", 0>>, {n}) :
                            p \in {q \in Polarities : atMiddle /\ (q = "upward" <=> event.close >= event.open)}}
    <2>1. MagnetProximity(s, off, r) = Middle \cup {High(i) : i \in Above} \cup {Low(i) : i \in Below}
        BY DEF MagnetProximity
    <2>2. \A hit \in Middle : hit.group[1] = "midpoint"
        BY <1>3
    <2>3. \A hit \in {High(i) : i \in Above} \cup {Low(i) : i \in Below} : hit.group[1] # "midpoint"
        <3> HIDE DEF Above, Below, High, Low
        <3> QED BY <1>2, <1>5
    <2> HIDE DEF Middle, High, Low, Above, Below
    <2> QED BY <2>1, <2>2, <2>3 DEF Sided
<1>9. Sided(MagnetProximity(Flip(s), off, f)) = {High(i) : i \in FlipAbove} \cup {Low(i) : i \in FlipBelow}
    <2> DEFINE atMiddle == /\ Spread(MirrorBar(event)) < f.tolerance
                           /\ Distance(2 * MirrorBar(event).close, f.high + f.low) =< 2 * f.tolerance
               Middle == {MagnetHit(p, <<"midpoint", 0>>, {n}) :
                            p \in {q \in Polarities : atMiddle /\
                                    (q = "upward" <=> MirrorBar(event).close >= MirrorBar(event).open)}}
    <2>1. MagnetProximity(Flip(s), off, f)
            = Middle \cup {High(i) : i \in FlipAbove} \cup {Low(i) : i \in FlipBelow}
        <3> HIDE DEF prior, event
        <3> QED BY <1>1 DEF MagnetProximity
    <2>2. \A hit \in Middle : hit.group[1] = "midpoint"
        BY <1>3
    <2>3. \A hit \in {High(i) : i \in FlipAbove} \cup {Low(i) : i \in FlipBelow} : hit.group[1] # "midpoint"
        <3> HIDE DEF FlipAbove, FlipBelow, High, Low
        <3> QED BY <1>2, <1>5
    <2> HIDE DEF Middle, High, Low, FlipAbove, FlipBelow
    <2> QED BY <2>1, <2>2, <2>3 DEF Sided
<1>10. \A i \in Nat : /\ MirrorHit(High(i)) = Low(i) /\ MirrorHit(Low(i)) = High(i)
                      /\ SideHit(High(i)) /\ SideHit(Low(i))
    <2> SUFFICES ASSUME NEW i \in Nat
                 PROVE  /\ MirrorHit(High(i)) = Low(i) /\ MirrorHit(Low(i)) = High(i)
                        /\ SideHit(High(i)) /\ SideHit(Low(i))
        OBVIOUS
    <2>1. /\ off + i \in Nat /\ "upward" \in Polarities /\ "downward" \in Polarities
          /\ <<"pivot-high", off + i>> \in SidedGroups /\ <<"pivot-low", off + i>> \in SidedGroups
        BY DEF Polarities, SidedGroups
    <2>2. MirrorHit(High(i)) = Low(i) /\ MirrorHit(Low(i)) = High(i)
        BY <2>1, MirroredMagnets
    <2>3. SideHit(High(i)) /\ SideHit(Low(i))
        BY <2>1, MagnetHitsHaveASide
    <2> QED BY <2>2, <2>3
<1> HIDE DEF High, Low, Above, Below, FlipAbove, FlipBelow
<1>11. Mirrored({High(i) : i \in Above} \cup {Low(i) : i \in Below})
         = {High(i) : i \in Below} \cup {Low(i) : i \in Above}
    <2> DEFINE Here == {High(i) : i \in Above} \cup {Low(i) : i \in Below}
               There == {High(i) : i \in Below} \cup {Low(i) : i \in Above}
    <2>1. \A hit \in Here : MirrorHit(hit) \in There
        BY <1>5, <1>10
    <2>2. ASSUME NEW hit \in There PROVE \E other \in Here : hit = MirrorHit(other)
        <3>1. CASE hit \in {High(i) : i \in Below}
            <4>1. PICK i \in Below : hit = High(i)
                BY <3>1
            <4>2. Low(i) \in Here /\ hit = MirrorHit(Low(i))
                BY <1>5, <1>10, <4>1
            <4> QED BY <4>2
        <3>2. CASE hit \in {Low(i) : i \in Above}
            <4>1. PICK i \in Above : hit = Low(i)
                BY <3>2
            <4>2. High(i) \in Here /\ hit = MirrorHit(High(i))
                BY <1>5, <1>10, <4>1
            <4> QED BY <4>2
        <3> QED BY <3>1, <3>2
    <2> HIDE DEF Here, There
    <2>3. {MirrorHit(hit) : hit \in Here} = There
        BY <2>1, <2>2
    <2> QED BY <2>3 DEF Mirrored, Here, There
<1>12. \A hit \in {High(i) : i \in Above} \cup {Low(i) : i \in Below} : SideHit(hit)
    BY <1>5, <1>10
<1> QED BY <1>7, <1>8, <1>9, <1>11, <1>12

\* The detectors at the range report hits on one side only.
LEMMA RangeDetectorsHaveASide ==
    ASSUME NEW seen, NEW off, NEW event, NEW n, NEW ref
    PROVE  /\ \A hit \in FailedBreakout(seen, off) : SideHit(hit)
           /\ \A hit \in BreakoutAttempt(event, n, ref) : SideHit(hit)
           /\ \A hit \in RangeBoundaryInteraction(event, n, ref) : SideHit(hit)
           /\ \A hit \in PullbackToStructure(seen, off) : SideHit(hit)
<1>1. "upward" \in Polarities /\ "downward" \in Polarities
    BY DEF Polarities
<1>2. \A t, e : \A p \in Polarities : SideHit(Lifecycle(t, p, e))
    BY RangeHitsHaveASide
<1>3. \A hit \in BreakoutAttempt(event, n, ref) : SideHit(hit)
    BY <1>1, <1>2 DEF BreakoutAttempt
<1>4. \A hit \in RangeBoundaryInteraction(event, n, ref) : SideHit(hit)
    BY <1>2 DEF RangeBoundaryInteraction
<1>5. \A hit \in FailedBreakout(seen, off) : SideHit(hit)
    <2> SUFFICES ASSUME NEW hit \in FailedBreakout(seen, off) PROVE SideHit(hit)
        OBVIOUS
    <2>1. \E t, e : \E p \in Polarities : hit = Lifecycle(t, p, e)
        BY <1>1 DEF FailedBreakout
    <2> QED BY <1>2, <2>1
<1>6. \A hit \in PullbackToStructure(seen, off) : SideHit(hit)
    <2> SUFFICES ASSUME NEW hit \in PullbackToStructure(seen, off) PROVE SideHit(hit)
        OBVIOUS
    <2>1. PICK r \in LatestOf(ReturnsTo(Before(seen), Last(seen))) :
            hit = CoreHit("pullback_to_structure", r[2], "structure_return",
                          {off + r[1], off + Len(seen)})
        BY PullbackByReturns
    <2>2. r[2] \in Polarities
        BY DEF LatestOf, ReturnsTo
    <2> QED BY <2>1, <2>2, RangeHitsHaveASide
<1> QED BY <1>3, <1>4, <1>5, <1>6

\* detectCoreHits favours no side, the midpoint apart.
LEMMA CoreMirror ==
    ASSUME NEW s \in Seq(ValidBars), Len(s) >= 2, NEW off \in Nat
    PROVE  /\ Sided(CoreHits(Flip(s), off)) = Mirrored(Sided(CoreHits(s, off)))
           /\ \A hit \in Sided(CoreHits(s, off)) : SideHit(hit)
<1> DEFINE r == Reference(Before(s))
           f == Reference(Before(Flip(s)))
           n == off + Len(s)
           event == Last(s)
           A == FailedBreakout(s, off)
           FA == FailedBreakout(Flip(s), off)
           S == BreakoutAttempt(event, n, r) \cup RangeBoundaryInteraction(event, n, r)
                \cup PullbackToStructure(s, off)
           FS == BreakoutAttempt(MirrorBar(event), n, f)
                 \cup RangeBoundaryInteraction(MirrorBar(event), n, f)
                 \cup PullbackToStructure(Flip(s), off)
           M == MagnetProximity(s, off, r)
           FM == MagnetProximity(Flip(s), off, f)
<1>1. /\ Before(s) \in Seq(ValidBars) /\ Before(Flip(s)) = Flip(Before(s))
      /\ Len(Before(s)) >= 1 /\ Len(s) >= 1
      /\ Len(Flip(s)) = Len(s) /\ Flip(s) \in Seq(ValidBars)
      /\ event \in ValidBars /\ Last(Flip(s)) = MirrorBar(event)
    <2>1. Len(s) \in Nat /\ Len(s) >= 1
        BY FlippedBars
    <2>2. Len(Before(s)) = Len(s) - 1
        BY <2>1, FlippedParts
    <2> QED BY <2>1, <2>2, FlippedParts, FlippedBars
<1>2. Sound(r) /\ Opposed(f, r)
    BY <1>1, ReferenceMirror
<1>3. CoreHits(s, off) = Merged(A, S \cup M) /\ CoreHits(Flip(s), off) = Merged(FA, FS \cup FM)
    <2>1. CoreHits(s, off) = Merged(A, S \cup M)
        BY DEF CoreHits, Merged
    <2>2. CoreHits(Flip(s), off) = Merged(FA, FS \cup FM)
        <3> HIDE DEF event
        <3> QED BY <1>1 DEF CoreHits, Merged
    <2> QED BY <2>1, <2>2
<1>4. /\ \A hit \in A \cup S : SideHit(hit)
      /\ \A hit \in FA \cup FS : SideHit(hit)
    BY RangeDetectorsHaveASide
<1>5. /\ FA = Mirrored(A)
      /\ BreakoutAttempt(MirrorBar(event), n, f) = Mirrored(BreakoutAttempt(event, n, r))
      /\ RangeBoundaryInteraction(MirrorBar(event), n, f) = Mirrored(RangeBoundaryInteraction(event, n, r))
      /\ PullbackToStructure(Flip(s), off) = Mirrored(PullbackToStructure(s, off))
    <2>1. FA = Mirrored(A) /\ PullbackToStructure(Flip(s), off) = Mirrored(PullbackToStructure(s, off))
        BY <1>1, FailedMirror, PullbackMirror
    <2> HIDE DEF r, f, event, n
    <2>2. BreakoutAttempt(MirrorBar(event), n, f) = Mirrored(BreakoutAttempt(event, n, r))
        BY <1>1, <1>2, BreakoutMirror
    <2>3. RangeBoundaryInteraction(MirrorBar(event), n, f) = Mirrored(RangeBoundaryInteraction(event, n, r))
        BY <1>1, <1>2, BoundaryMirror
    <2> QED BY <2>1, <2>2, <2>3
<1>6. Sided(FM) = Mirrored(Sided(M)) /\ \A hit \in Sided(M) : SideHit(hit)
    <2> HIDE DEF r, f
    <2> QED BY <1>1, <1>2, MagnetsMirror
<1>7. FS = Mirrored(S)
    <2>1. \A X, Y, Z : Mirrored(X \cup Y \cup Z) = Mirrored(X) \cup Mirrored(Y) \cup Mirrored(Z)
        BY DEF Mirrored
    <2> QED BY <1>5, <2>1
<1> HIDE DEF r, f, n, event, A, FA, S, FS, M, FM
<1>8. \A hit : SideHit(hit) => hit.group[1] # "midpoint"
    BY SideHits
<1>9. /\ Sided(Merged(A, S \cup M)) = Merged(A, S \cup Sided(M))
      /\ Sided(Merged(FA, FS \cup FM)) = Merged(FA, FS \cup Sided(FM))
    BY <1>4, <1>8 DEF Sided, Merged
<1>10. Mirrored(S \cup Sided(M)) = Mirrored(S) \cup Mirrored(Sided(M))
    BY DEF Mirrored
<1>11. Merged(Mirrored(A), Mirrored(S \cup Sided(M))) = Mirrored(Merged(A, S \cup Sided(M)))
    BY <1>4, <1>6, MergeMirror
<1>12. \A hit \in Merged(A, S \cup Sided(M)) : SideHit(hit)
    BY <1>4, <1>6 DEF Merged
<1> QED BY <1>3, <1>5, <1>6, <1>7, <1>9, <1>10, <1>11, <1>12

\* hasSameBarAmbiguity favours no side.
LEMMA AmbiguityMirror ==
    ASSUME NEW s \in Seq(ValidBars), Len(s) >= 2
    PROVE  Ambiguous(Flip(s)) <=> Ambiguous(s)
<1> DEFINE r == Reference(Before(s))
           f == Reference(Before(Flip(s)))
           event == Last(s)
<1>1. /\ Before(s) \in Seq(ValidBars) /\ Before(Flip(s)) = Flip(Before(s))
      /\ Len(Before(s)) >= 1
      /\ event \in ValidBars /\ Last(Flip(s)) = MirrorBar(event)
    <2>1. Len(s) \in Nat /\ Len(s) >= 1
        BY FlippedBars
    <2>2. Len(Before(s)) = Len(s) - 1
        BY <2>1, FlippedParts
    <2> QED BY <2>1, <2>2, FlippedParts
<1>2. Sound(r) /\ Opposed(f, r)
    BY <1>1, ReferenceMirror
<1>3. /\ event.high \in Int /\ event.low \in Int
      /\ MirrorBar(event).high = -event.low /\ MirrorBar(event).low = -event.high
      /\ Spread(MirrorBar(event)) = Spread(event)
    BY <1>1, MirroredBar
<1>4. /\ r.high \in Int /\ r.low \in Int /\ r.displacement \in Nat
      /\ f.high = -r.low /\ f.low = -r.high /\ f.displacement = r.displacement
    BY <1>2 DEF Sound, Opposed
<1> HIDE DEF r, f, event
<1>5. /\ f.high = f.low <=> r.high = r.low
      /\ -event.low >= f.high + f.displacement <=> event.low =< r.low - r.displacement
      /\ -event.high =< f.low - f.displacement <=> event.high >= r.high + r.displacement
    <2>1. f.high = f.low <=> r.high = r.low
        <3>1. \A top, bottom \in Int : -bottom = -top <=> top = bottom
            OBVIOUS
        <3> QED BY <1>4, <3>1
    <2>2. -event.low >= f.high + f.displacement <=> event.low =< r.low - r.displacement
        <3>1. -event.low >= -r.low + r.displacement <=> event.low =< r.low - r.displacement
            BY <1>3, <1>4
        <3> QED BY <1>4, <3>1
    <2>3. -event.high =< f.low - f.displacement <=> event.high >= r.high + r.displacement
        <3>1. -event.high =< -r.high - r.displacement <=> event.high >= r.high + r.displacement
            BY <1>3, <1>4
        <3> QED BY <1>4, <3>1
    <2> QED BY <2>1, <2>2, <2>3
<1>6. /\ Ambiguous(s) <=> /\ ~(r.high = r.low /\ Spread(event) = 0)
                          /\ event.high >= r.high + r.displacement
                          /\ event.low =< r.low - r.displacement
      /\ Ambiguous(Flip(s)) <=> /\ ~(f.high = f.low /\ Spread(MirrorBar(event)) = 0)
                                /\ MirrorBar(event).high >= f.high + f.displacement
                                /\ MirrorBar(event).low =< f.low - f.displacement
    BY <1>1 DEF Ambiguous, r, f, event
<1> QED BY <1>3, <1>5, <1>6

\* detectContextEnhancers favours no side.
LEMMA EnhancersMirror ==
    ASSUME NEW s \in Seq(ValidBars), Len(s) >= 2, NEW hit, SideHit(hit)
    PROVE  ContextEnhancers(MirrorHit(hit), Flip(s)) = ContextEnhancers(hit, s)
<1> DEFINE r == Reference(Before(s))
           f == Reference(Before(Flip(s)))
           event == Last(s)
           recent == Recent(Before(s), Lookback)
           flipped == Recent(Before(Flip(s)), Lookback)
           Squeezed(e, q, ref) == /\ Spread(e) >= 2 * ref.median
                                  /\ 4 * Total([i \in DOMAIN q |-> Spread(q[i])])
                                            =< 3 * ref.median * Len(q)
           AtEdge(p, e, ref) == IF p = "upward"
                                THEN 3 * (e.close - ref.low) >= 2 * (ref.high - ref.low)
                                ELSE 3 * (e.close - ref.low) =< ref.high - ref.low
<1>1. /\ Before(s) \in Seq(ValidBars) /\ Before(Flip(s)) = Flip(Before(s))
      /\ Len(Before(s)) >= 1
      /\ event \in ValidBars /\ Last(Flip(s)) = MirrorBar(event)
    <2>1. Len(s) \in Nat /\ Len(s) >= 1
        BY FlippedBars
    <2>2. Len(Before(s)) = Len(s) - 1
        BY <2>1, FlippedParts
    <2> QED BY <2>1, <2>2, FlippedParts
<1>2. Sound(r) /\ Opposed(f, r)
    BY <1>1, ReferenceMirror
<1>3. /\ event.close \in Int /\ MirrorBar(event).close = -event.close
      /\ Spread(MirrorBar(event)) = Spread(event)
    BY <1>1, MirroredBar
<1>4. /\ r.high \in Int /\ r.low \in Int
      /\ f.high = -r.low /\ f.low = -r.high /\ f.median = r.median
    BY <1>2 DEF Sound, Opposed
<1>5. recent \in Seq(ValidBars) /\ flipped = Flip(recent)
    BY <1>1, FactorAssumption, FlippedRecent
<1>6. Len(flipped) = Len(recent) /\ [i \in DOMAIN flipped |-> Spread(flipped[i])] = [i \in DOMAIN recent |-> Spread(recent[i])]
    <2> HIDE DEF recent, flipped
    <2>1. /\ Len(flipped) = Len(recent) /\ DOMAIN flipped = 1..Len(recent)
          /\ \A i \in 1..Len(recent) : recent[i] \in ValidBars /\ flipped[i] = MirrorBar(recent[i])
        BY <1>5, FlippedBars
    <2>2. DOMAIN recent = 1..Len(recent)
        BY <1>5, LenProperties
    <2>3. \A i \in 1..Len(recent) : Spread(flipped[i]) = Spread(recent[i])
        BY <2>1, MirroredBar
    <2> QED BY <2>1, <2>2, <2>3
<1>7. Squeezed(MirrorBar(event), flipped, f) <=> Squeezed(event, recent, r)
    <2> HIDE DEF recent, flipped, event, r, f
    <2> QED BY <1>3, <1>4, <1>6
<1>8. /\ MirrorHit(hit).type = hit.type
      /\ hit.polarity \in Polarities /\ MirrorHit(hit).polarity = Across(hit.polarity)
    BY SideHits
<1>9. AtEdge(MirrorHit(hit).polarity, MirrorBar(event), f) <=> AtEdge(hit.polarity, event, r)
    <2> HIDE DEF event, r, f
    <2>1. /\ 3 * (-event.close - -r.high) =< -r.low - -r.high
                <=> 3 * (event.close - r.low) >= 2 * (r.high - r.low)
          /\ 3 * (-event.close - -r.high) >= 2 * (-r.low - -r.high)
                <=> 3 * (event.close - r.low) =< r.high - r.low
        <3>1. \A c, h, l \in Int :
                /\ 3 * (-c - -h) =< -l - -h <=> 3 * (c - l) >= 2 * (h - l)
                /\ 3 * (-c - -h) >= 2 * (-l - -h) <=> 3 * (c - l) =< h - l
            OBVIOUS
        <3> QED BY <1>3, <1>4, <3>1
    <2>2. CASE hit.polarity = "upward"
        BY <1>3, <1>4, <1>8, <2>1, <2>2 DEF Across
    <2>3. CASE hit.polarity = "downward"
        BY <1>3, <1>4, <1>8, <2>1, <2>3 DEF Across
    <2> QED BY <1>8, <2>2, <2>3 DEF Polarities
<1> DEFINE Enhanced(type, squeezed, edge) ==
             ((IF squeezed THEN {"compression_expansion"} ELSE {})
              \cup (IF edge THEN {"trading_range_top_bottom_context"} ELSE {}))
             \cup (IF type = "pullback_to_structure" THEN {"trend_leg_first_pullback"} ELSE {})
<1>10. ContextEnhancers(hit, s)
         = Enhanced(hit.type, Squeezed(event, recent, r), AtEdge(hit.polarity, event, r))
    BY DEF ContextEnhancers
<1>11. ContextEnhancers(MirrorHit(hit), Flip(s))
         = Enhanced(MirrorHit(hit).type, Squeezed(MirrorBar(event), flipped, f),
                    AtEdge(MirrorHit(hit).polarity, MirrorBar(event), f))
    <2> HIDE DEF event
    <2> QED BY <1>1 DEF ContextEnhancers
<1> HIDE DEF Squeezed, AtEdge, r, f, event, recent, flipped
<1> QED BY <1>7, <1>8, <1>9, <1>10, <1>11

(* Neither side of the market is favoured, whatever the bars, the windows   *)
(* and the arms of a pivot: what the detectors find over bars turned upside *)
(* down is what they find over the bars, on the other side.                 *)
THEOREM SidesAreMirrored == Spec => []SidesMirror
<1>1. QuietInvariant => SidesMirror
    <2> SUFFICES ASSUME QuietInvariant, status = "not_evaluated", ~Rejects(bars)
                 PROVE  /\ Sided(CoreHits(Flip(bars), 0)) = Mirrored(Sided(CoreHits(bars, 0)))
                        /\ Ambiguous(Flip(bars)) = Ambiguous(bars)
                        /\ \A hit \in Sided(CoreHits(bars, 0)) :
                             ContextEnhancers(MirrorHit(hit), Flip(bars)) = ContextEnhancers(hit, bars)
        BY DEF SidesMirror, Flip, Sided, Mirrored
    <2>1. bars \in Seq(Bars)
        BY DEF QuietInvariant, SequencesKnown
    <2>2. /\ Len(bars) \in Nat /\ DOMAIN bars = 1..Len(bars)
          /\ \A i \in 1..Len(bars) : bars[i] \in Bars
        BY <2>1, LenProperties
    <2>3. bars \in Seq(ValidBars)
        <3>1. \A i \in 1..Len(bars) : bars[i] \in ValidBars
            BY <2>2 DEF Rejects, ValidBars
        <3>2. bars \in [1..Len(bars) -> ValidBars]
            BY <2>1, <2>2, <3>1, LenProperties
        <3> QED BY <2>2, <3>2, SeqDef
    <2>4. Len(bars) >= 2
        BY <2>2, EngineAssumption, FactorAssumption DEF Rejects
    <2>5. 0 \in Nat
        OBVIOUS
    <2>6. /\ Sided(CoreHits(Flip(bars), 0)) = Mirrored(Sided(CoreHits(bars, 0)))
          /\ \A hit \in Sided(CoreHits(bars, 0)) : SideHit(hit)
        BY <2>3, <2>4, <2>5, CoreMirror
    <2>7. Ambiguous(Flip(bars)) = Ambiguous(bars)
        <3>1. Ambiguous(Flip(bars)) <=> Ambiguous(bars)
            BY <2>3, <2>4, AmbiguityMirror
        <3>2. Ambiguous(Flip(bars)) \in BOOLEAN /\ Ambiguous(bars) \in BOOLEAN
            BY DEF Ambiguous
        <3> QED BY <3>1, <3>2
    <2>8. \A hit \in Sided(CoreHits(bars, 0)) :
             ContextEnhancers(MirrorHit(hit), Flip(bars)) = ContextEnhancers(hit, bars)
        BY <2>3, <2>4, <2>6, EnhancersMirror
    <2> QED BY <2>6, <2>7, <2>8
<1>2. Spec => []QuietInvariant
    BY QuietInit, QuietStep, PTL DEF Spec
<1> QED BY <1>1, <1>2, PTL

-----------------------------------------------------------------------------
(***************************************************************************)
(* A decision on three timeframes.                                         *)
(***************************************************************************)

(* A finite set of integers has an element at every place of its order.     *)
LEMMA EveryPlaceIsTaken ==
    ASSUME NEW m \in Int, NEW n \in Int, NEW P \in SUBSET (m..n),
           NEW i \in 1..Cardinality(P)
    PROVE  \E k \in P : Cardinality({j \in P : j < k}) = i - 1
<1> DEFINE Below(k) == {j \in P : j < k}
<1>1. IsFiniteSet(P) /\ Cardinality(P) \in Nat
  <2>1. IsFiniteSet(m..n)
    BY FS_Interval
  <2> QED BY <2>1, FS_Subset, FS_CardinalityType
<1>2. \A k \in P : IsFiniteSet(Below(k)) /\ Cardinality(Below(k)) \in Nat
  BY <1>1, FS_Subset, FS_CardinalityType
<1>3. \A k \in P : k \in Int /\ m <= k /\ k <= n
  OBVIOUS
<1>4. ASSUME NEW S \in SUBSET P, NEW top \in S, \A j \in S : j <= top,
             IsFiniteSet(S), \A j \in P : j < top => j \in S
      PROVE  Cardinality(S) = Cardinality(Below(top)) + 1
  <2>1. S = Below(top) \cup {top}
    <3>1. ASSUME NEW j \in S PROVE j \in Below(top) \cup {top}
      <4>1. j \in P /\ top \in P /\ j <= top
        BY <1>4
      <4> QED BY <1>3, <4>1
    <3>2. Below(top) \cup {top} \subseteq S
      BY <1>4
    <3> QED BY <3>1, <3>2
  <2>2. top \notin Below(top)
    BY <1>3
  <2> HIDE DEF Below
  <2>3. top \in P
    OBVIOUS
  <2> QED BY <1>2, <2>1, <2>2, <2>3, FS_AddElement
<1> DEFINE Far == {k \in P : i - 1 <= Cardinality(Below(k))}
           Away == {k - m : k \in Far}
<1>5. Far # {}
  <2>1. P # {}
    BY FS_EmptySet
  <2>2. PICK top \in P : \A k \in P : k <= top
    BY <2>1, <1>3, GreatestBelow
  <2>3. Cardinality(P) = Cardinality(Below(top)) + 1
    <3> HIDE DEF Below
    <3> QED BY <1>1, <1>4, <2>2
  <2>4. i - 1 <= Cardinality(Below(top))
    <3> HIDE DEF Below
    <3> QED BY <1>1, <1>2, <2>2, <2>3
  <2> QED BY <2>2, <2>4
<1>6. PICK k \in Far : \A l \in Far : k <= l
  <2>1. Away \in SUBSET Nat
    <3> HIDE DEF Below
    <3> QED BY <1>3
  <2>2. Away # {}
    <3> HIDE DEF Far
    <3> QED BY <1>5
  <2>3. PICK d \in Away : \A e \in Away : d <= e
    <3> HIDE DEF Away
    <3> QED BY <2>1, <2>2, LeastNatural
  <2>4. PICK k \in Far : d = k - m
    BY <2>3
  <2>5. ASSUME NEW l \in Far PROVE k <= l
    <3>1. l - m \in Away
      OBVIOUS
    <3>2. k - m <= l - m
      <4> HIDE DEF Away
      <4> QED BY <2>3, <2>4, <3>1
    <3>3. k \in Int /\ l \in Int
      <4> HIDE DEF Below
      <4> QED BY <1>3
    <3> QED BY <3>2, <3>3
  <2> QED BY <2>5
<1>7. k \in P /\ i - 1 <= Cardinality(Below(k))
  OBVIOUS
<1>8. ASSUME i - 1 < Cardinality(Below(k)) PROVE FALSE
  <2>1. Below(k) # {}
    <3> HIDE DEF Below
    <3> QED BY <1>8, FS_EmptySet
  <2>2. PICK top \in Below(k) : \A j \in Below(k) : j <= top
    <3>1. Below(k) \in SUBSET Int /\ \A j \in Below(k) : j <= n
      BY <1>3
    <3> HIDE DEF Below
    <3> QED BY <2>1, <3>1, GreatestBelow
  <2>3. top \in P /\ top < k /\ Below(k) \in SUBSET P
    OBVIOUS
  <2>4. \A j \in P : j < top => j \in Below(k)
    BY <1>3, <1>7, <2>3
  <2>5. Cardinality(Below(k)) = Cardinality(Below(top)) + 1
    <3> HIDE DEF Below
    <3> QED BY <1>2, <1>4, <1>7, <2>2, <2>3, <2>4
  <2>6. i - 1 <= Cardinality(Below(top))
    <3> HIDE DEF Below
    <3> QED BY <1>2, <1>7, <1>8, <2>3, <2>5
  <2>7. top \in Far
    BY <2>3, <2>6
  <2>8. k <= top
    <3> HIDE DEF Far
    <3> QED BY <1>6, <2>7
  <2> QED BY <1>3, <1>7, <2>3, <2>8
<1>9. Cardinality(Below(k)) = i - 1
  <2> HIDE DEF Below
  <2> QED BY <1>2, <1>7, <1>8
<1> QED BY <1>7, <1>9

-----------------------------------------------------------------------------
(* What a feed says at an instant, it knows at that instant.                *)
LEMMA FetchedBarsAreKnown ==
    ASSUME NEW f \in DOMAIN Feeds, NEW tf \in DOMAIN Span, NEW m \in Nat, NEW n \in Nat,
           NEW t \in Nat, NEW gaps \in BOOLEAN,
           NEW i \in DOMAIN Fetched(f, tf, m, n, t, gaps)
    PROVE  LET bar == Fetched(f, tf, m, n, t, gaps)[i]
           IN  bar.newest <= bar.snapshot
<1> DEFINE span == Span[tf]
           present == {k \in m..n : Heard(f, (k - 1) * span, t) \cap 1..k * span # {}}
           place(k) == Cardinality({j \in present : j < k})
           number == [j \in 1..Cardinality(present) |->
                        CHOOSE k \in present : place(k) = j - 1]
           k == number[i]
           start == (k - 1) * span
           end == k * span
           until == IF end < t THEN end ELSE t
           heard == Heard(f, start, until)
           continuity == IF i = 1 THEN "unknown_left_boundary"
                         ELSE IF gaps /\ number[i] > number[i - 1] + 1
                              THEN "missing_data" ELSE "contiguous"
           bar == Fetched(f, tf, m, n, t, gaps)[i]
<1>1. /\ i \in 1..Cardinality(present)
      /\ bar = [BarAt(f, tf, k, t) EXCEPT !.continuity = continuity]
  <2>1. Fetched(f, tf, m, n, t, gaps) =
            [j \in DOMAIN number |->
                [BarAt(f, tf, number[j], t) EXCEPT !.continuity =
                    IF j = 1 THEN "unknown_left_boundary"
                    ELSE IF gaps /\ number[j] > number[j - 1] + 1
                         THEN "missing_data" ELSE "contiguous"]]
    BY DEF Fetched
  <2>2. DOMAIN number = 1..Cardinality(present)
    OBVIOUS
  <2> HIDE DEF present, number
  <2> QED BY <2>1, <2>2
<1>2. k \in present
  <2>1. present \in SUBSET (m..n)
    OBVIOUS
  <2>2. \E l \in present : place(l) = i - 1
    <3>1. m \in Int /\ n \in Int
      OBVIOUS
    <3> HIDE DEF present, number, bar
    <3>2. \E l \in present : Cardinality({j \in present : j < l}) = i - 1
      BY <1>1, <2>1, <3>1, EveryPlaceIsTaken
    <3> QED BY <3>2
  <2>3. number[i] = CHOOSE l \in present : place(l) = i - 1
    <3> HIDE DEF present
    <3> QED BY <1>1
  <2> HIDE DEF present, place, number
  <2> QED BY <2>2, <2>3
<1>3. span \in Nat \ {0} /\ k \in Int
  <2>1. Span[tf] \in Nat \ {0}
    BY MultiTimeframeAssumption
  <2> HIDE DEF number
  <2> QED BY <1>2, <2>1
<1>4. start \in Int /\ end \in Int /\ until \in Int /\ until <= t
  <2> HIDE DEF span, k
  <2>1. start \in Int /\ end \in Int
    BY <1>3
  <2> HIDE DEF start, end
  <2> QED BY <2>1
<1>5. heard # {}
  <2>1. Heard(f, start, t) \cap 1..end # {}
    <3> HIDE DEF span, number, place
    <3> QED BY <1>2
  <2> HIDE DEF start, end, span, k
  <2>2. PICK x \in Heard(f, start, t) : x \in 1..end
    BY <2>1
  <2>3. x \in start + 1..until /\ Feeds[f][x] # Null
    BY <2>2, <1>4 DEF Heard
  <2> HIDE DEF until
  <2> QED BY <2>3 DEF Heard
<1> DEFINE last == CHOOSE x \in heard : \A y \in heard : y <= x
<1>6. last \in heard
  <2>1. heard \in SUBSET Int /\ \A x \in heard : x <= until
    <3> HIDE DEF start, until
    <3> QED BY <1>4 DEF Heard
  <2>2. \E x \in heard : \A y \in heard : y <= x
    <3> HIDE DEF heard, until
    <3> QED BY <1>4, <1>5, <2>1, GreatestBelow
  <2> HIDE DEF heard
  <2> QED BY <2>2
<1>7. last <= t /\ last \in Int
  <2> HIDE DEF start, until, last
  <2> QED BY <1>4, <1>6 DEF Heard
<1>8. BarAt(f, tf, k, t).newest = last /\ BarAt(f, tf, k, t).snapshot = t
  <2> HIDE DEF k
  <2> QED BY DEF BarAt
<1>9. bar.newest = BarAt(f, tf, k, t).newest /\ bar.snapshot = BarAt(f, tf, k, t).snapshot
  <2>1. /\ "newest" \in DOMAIN BarAt(f, tf, k, t)
        /\ "snapshot" \in DOMAIN BarAt(f, tf, k, t)
    <3> HIDE DEF k
    <3> QED BY DEF BarAt
  <2> HIDE DEF k, bar, continuity
  <2> QED BY <1>1, <2>1
<1> HIDE DEF bar, last, k
<1> QED BY <1>7, <1>8, <1>9 DEF bar

(* The bars a caller holds of a timeframe. *)
LEMMA ContextsAreKnown ==
    ASSUME now \in Nat, NEW tf \in DOMAIN Span, NEW shown \in Contexts(tf),
           NEW i \in DOMAIN shown
    PROVE  shown[i].newest <= shown[i].snapshot
<1>1. PICK q \in [feed : DOMAIN Feeds, first : 1..Horizon, last : 1..Horizon,
                  at : 0..now, gaps : BOOLEAN] :
            shown = Fetched(q.feed, tf, q.first, q.last, q.at, q.gaps)
  BY DEF Contexts
<1>2. /\ q.feed \in DOMAIN Feeds /\ q.first \in Nat /\ q.last \in Nat
      /\ q.at \in Nat /\ q.gaps \in BOOLEAN
  BY MultiTimeframeAssumption
<1> QED BY <1>1, <1>2, FetchedBarsAreKnown

-----------------------------------------------------------------------------
(* The input is the Case's, and the verdict was assessed on it. *)
InputIsOfTheCase ==
    input # Null => case # Null /\ input.market = AnonymousMarket(case)

VerdictIsAssessed ==
    verdict # Null => input # Null /\ GapsAssessed(verdict, input.market)

TimeframeInv ==
    /\ now \in Nat
    /\ NothingPastTheCutoff
    /\ InputIsOfTheCase
    /\ VerdictIsAssessed

LEMMA AssembleStep ==
    ASSUME TimeframeInv, Assemble
    PROVE  TimeframeInv'
<1>1. PICK f \in DOMAIN Feeds, cutoff \in 0..Horizon, primary \in Contexts("5m") :
        /\ PrimaryHolds(primary, cutoff, f)
        /\ \E sixty \in Contexts("60m") \cup {NotSupplied, << >>} :
            /\ ReferenceHolds(sixty, "60m", cutoff, f)
            /\ \E daily \in Contexts("1d") \cup {NotSupplied, << >>} :
                /\ ReferenceHolds(daily, "1d", cutoff, f)
                /\ case' = [cutoff |-> cutoff, feed |-> f, primary |-> primary,
                            references |-> [tf \in References |->
                                IF tf = "60m" THEN sixty ELSE daily]]
  BY DEF Assemble
<1>2. PICK sixty \in Contexts("60m") \cup {NotSupplied, << >>},
           daily \in Contexts("1d") \cup {NotSupplied, << >>} :
        /\ ReferenceHolds(sixty, "60m", cutoff, f)
        /\ ReferenceHolds(daily, "1d", cutoff, f)
        /\ case' = [cutoff |-> cutoff, feed |-> f, primary |-> primary,
                    references |-> [tf \in References |->
                        IF tf = "60m" THEN sixty ELSE daily]]
  BY <1>1
<1>3. case = Null /\ UNCHANGED <<now, input, verdict>>
  BY DEF Assemble
<1>4. /\ case'.cutoff = cutoff /\ case'.feed = f /\ case'.primary = primary
      /\ case'.references["60m"] = sixty /\ case'.references["1d"] = daily
  BY <1>2 DEF References
<1>5. ASSUME NEW tf \in DOMAIN Span, NEW shown \in Contexts(tf) \cup {<< >>},
             BarsOfCase(shown, tf, cutoff, f)
      PROVE  \A i \in DOMAIN shown : shown[i].newest <= cutoff /\ shown[i].feed = f
  <2>1. CASE shown = << >>
    BY <2>1
  <2>2. CASE shown \in Contexts(tf)
    <3>1. ASSUME NEW i \in DOMAIN shown
          PROVE  shown[i].newest <= shown[i].snapshot
      BY <2>2, ContextsAreKnown DEF TimeframeInv
    <3> QED BY <3>1, <1>5 DEF BarsOfCase
  <2> QED BY <2>1, <2>2
<1>6. DOMAIN Span = {"5m", "60m", "1d"}
  BY MultiTimeframeAssumption
<1>7. \A i \in DOMAIN primary : primary[i].newest <= cutoff /\ primary[i].feed = f
  BY <1>1, <1>5, <1>6 DEF PrimaryHolds
<1>8. sixty # NotSupplied =>
        \A i \in DOMAIN sixty : sixty[i].newest <= cutoff /\ sixty[i].feed = f
  BY <1>2, <1>5, <1>6 DEF ReferenceHolds
<1>9. daily # NotSupplied =>
        \A i \in DOMAIN daily : daily[i].newest <= cutoff /\ daily[i].feed = f
  BY <1>2, <1>5, <1>6 DEF ReferenceHolds
<1>10. NothingPastTheCutoff'
  BY <1>4, <1>7, <1>8, <1>9 DEF NothingPastTheCutoff, Timeframes
<1>11. (now \in Nat)' /\ InputIsOfTheCase' /\ VerdictIsAssessed'
  BY <1>3 DEF TimeframeInv, InputIsOfTheCase, VerdictIsAssessed
<1> QED BY <1>10, <1>11 DEF TimeframeInv

LEMMA TimeframeStep ==
    ASSUME TimeframeInv, [TimeframeNext]_timeframeVars
    PROVE  TimeframeInv'
<1>1. CASE Tick
  BY <1>1 DEF Tick, TimeframeInv, NothingPastTheCutoff, InputIsOfTheCase,
              VerdictIsAssessed
<1>2. CASE Assemble
  BY <1>2, AssembleStep
<1>3. CASE Offer
  <2>1. /\ UNCHANGED <<now, case, verdict>> /\ input = Null /\ case # Null
        /\ \E charts : input' = PolicyInput(case, charts)
    BY <1>3 DEF Offer
  <2>2. input'.market = AnonymousMarket(case)
    BY <2>1 DEF PolicyInput
  <2>3. InputIsOfTheCase'
    BY <2>1, <2>2 DEF InputIsOfTheCase
  <2> QED BY <2>1, <2>3 DEF TimeframeInv, NothingPastTheCutoff, VerdictIsAssessed
<1>4. CASE Answer
  <2>1. /\ UNCHANGED <<now, case, input>> /\ input # Null
        /\ \E binding : Accepts(verdict', binding, input)
    BY <1>4 DEF Answer
  <2>2. GapsAssessed(verdict', input.market)
    BY <2>1 DEF Accepts
  <2>3. VerdictIsAssessed'
    BY <2>1, <2>2 DEF VerdictIsAssessed
  <2> QED BY <2>1, <2>3 DEF TimeframeInv, NothingPastTheCutoff, InputIsOfTheCase
<1>5. CASE UNCHANGED timeframeVars
  BY <1>5 DEF timeframeVars, TimeframeInv, NothingPastTheCutoff, InputIsOfTheCase,
              VerdictIsAssessed
<1> QED BY <1>1, <1>2, <1>3, <1>4, <1>5 DEF TimeframeNext

(* The invariant of a decision on three timeframes, for any feeds, spans    *)
(* and responses.                                                           *)
THEOREM TimeframeSafe == TimeframeSpec => []TimeframeInv
<1>1. TimeframeInit => TimeframeInv
  BY DEF TimeframeInit, TimeframeInv, NothingPastTheCutoff, InputIsOfTheCase,
         VerdictIsAssessed
<1>2. TimeframeInv /\ [TimeframeNext]_timeframeVars => TimeframeInv'
  BY TimeframeStep
<1> QED BY <1>1, <1>2, PTL DEF TimeframeSpec

(* No bar of a Case knows anything the feed said after the cutoff.          *)
THEOREM CasesEndAtTheCutoff == TimeframeSpec => []NothingPastTheCutoff
<1>1. TimeframeInv => NothingPastTheCutoff
  BY DEF TimeframeInv
<1> QED BY <1>1, TimeframeSafe, PTL

(* No plan rests on data that is known to be missing.                       *)
THEOREM PlansRestOnData == TimeframeSpec => []PlansAvoidGaps
<1>1. ASSUME TimeframeInv PROVE PlansAvoidGaps
  <2> SUFFICES ASSUME verdict # Null, verdict.decision.plan # Null,
                      NEW gap \in Gaps(AnonymousMarket(case))
               PROVE  \E g \in DOMAIN verdict.gaps :
                        /\ gap \in GapsOf(verdict, g, AnonymousMarket(case))
                        /\ verdict.gaps[g].affected \cap PlanClaims(verdict) = {}
                        /\ TimeframeOf(gap) = "5m" =>
                            verdict.gaps[g].materiality = "immaterial"
    BY DEF PlansAvoidGaps
  <2>1. input.market = AnonymousMarket(case) /\ GapsAssessed(verdict, input.market)
    BY <1>1 DEF TimeframeInv, InputIsOfTheCase, VerdictIsAssessed
  <2> DEFINE owners == {g \in DOMAIN verdict.gaps :
                            gap \in GapsOf(verdict, g, AnonymousMarket(case))}
  <2>2. Cardinality(owners) = 1
    BY <2>1 DEF GapsAssessed
  <2>3. owners # {}
    <3> HIDE DEF owners
    <3> QED BY <2>2, FS_EmptySet
  <2>4. PICK g \in DOMAIN verdict.gaps :
            gap \in GapsOf(verdict, g, AnonymousMarket(case))
    BY <2>3
  <2>5. GapAllowsPlan(verdict, verdict.gaps[g])
    BY <2>1 DEF GapsAssessed
  <2>6. TimeframeOf(gap) = verdict.gaps[g].timeframe
    BY <2>4 DEF GapsOf
  <2> QED BY <2>4, <2>5, <2>6 DEF GapAllowsPlan
<1>2. TimeframeInv => PlansAvoidGaps
  BY <1>1
<1> QED BY <1>2, TimeframeSafe, PTL
=============================================================================
