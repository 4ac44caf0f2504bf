--------------------------- MODULE ModelCallProofs ---------------------------
(***************************************************************************)
(* Theorems about a model call, from both ends.                            *)
(*                                                                         *)
(* ProviderCall, for any number of calls, modes and output limits.  A      *)
(* call's answer is computed from what its process left behind; the        *)
(* argument is that nothing it was computed from changes afterwards,       *)
(* because every event that could needs the leader or the running place,   *)
(* and that no member of the group can be born after the leader is gone.   *)
(*                                                                         *)
(* DecisionReplay, for any market, responses and number of calls.  Every   *)
(* record names its parents by content, so each comparison a contract      *)
(* makes carries one more fact from the schedule to the replay; the        *)
(* argument is which comparison carries which.                             *)
(***************************************************************************)
EXTENDS DecisionReplay, ProviderCall, SequenceTheorems, TLAPS

(***************************************************************************)
(* The provider call.                                                      *)
(***************************************************************************)

Places == {"idle", "checked", "staging", "staged", "validating", "refused",
           "failed", "running", "settled", "cleaned"}

Counts == [out : Nat, err : Nat]

Zero == [out |-> 0, err |-> 0]

Results ==
    [status : {"none", "output_resource_limit", "timeout", "transport_error",
               "response_received"},
     code : {"none", "STRICT_JSON_REJECTED", "OUTPUT_RESOURCE_LIMIT",
             "TOOL_OR_SUBAGENT_USED"}]

TypeOK ==
    /\ pc \in [Calls -> Places]
    /\ staged \in [Calls -> -1..Files]
    /\ active \in BOOLEAN
    /\ mode \in [Calls -> Modes \cup {NoMode}]
    /\ alive \subseteq Calls \X {"leader", "child"}
    /\ written \in [Calls -> Counts]
    /\ heard \in [Calls -> Counts]
    /\ exit \in [Calls -> Int]
    /\ fired \in [Calls -> SUBSET {"timeout", "force"}]
    /\ limited \subseteq Calls
    /\ spawnFailed \subseteq Calls
    /\ result \in [Calls -> Results]

-----------------------------------------------------------------------------
Busy(c) == pc[c] \in {"validating", "running"}

\* activeFixtureProcess is set exactly while one call, and one only, is busy.
OneAtATime ==
    /\ active <=> \E c \in Calls : Busy(c)
    /\ \A c, d \in Calls : Busy(c) /\ Busy(d) => c = d

\* A workspace directory exists from its mkdtemp to its removal.
WorkspaceIsTracked ==
    \A c \in Calls : staged[c] = -1 <=> pc[c] \in {"idle", "checked", "failed", "cleaned"}

\* Nothing of a process is there before it is spawned.
Unstarted(c) ==
    /\ c \notin limited /\ c \notin spawnFailed
    /\ ~Runs(c)
    /\ written[c] = Zero /\ heard[c] = Zero
    /\ fired[c] = {}
    /\ result[c].status = "none"

StartsOnce(c) ==
    /\ pc[c] \in {"idle", "checked", "staging", "staged", "validating", "refused", "failed"}
       => mode[c] = NoMode
    /\ pc[c] \in {"running", "settled"} => mode[c] # NoMode
    /\ mode[c] = NoMode => Unstarted(c)

LimitsAreKnown(c) == c \in limited <=> heard[c].out > OutCap \/ heard[c].err > ErrCap

\* A leader that is gone was ended by a signal or had said everything.
ExitIsExplained(c) ==
    mode[c] # NoMode /\ ~Runs(c) /\ c \notin spawnFailed =>
        \/ exit[c] = Signalled
        \/ exit[c] = mode[c].status /\ Said(c)

\* The answer is still what terminalStatus and the decoder would compute.
AnswerStands(c) ==
    result[c].status # "none" =>
        /\ pc[c] \in {"settled", "cleaned"}
        /\ mode[c] # NoMode
        /\ Closed(c)
        /\ result[c].status = TerminalStatus(c)
        /\ result[c].status = "response_received" => result[c].code = Decode(c)
        /\ (TimedOut(c) \/ c \in limited) => Group(c) \subseteq doomed

CallInv(c) ==
    /\ StartsOnce(c)
    /\ LimitsAreKnown(c)
    /\ ExitIsExplained(c)
    /\ AnswerStands(c)

ProviderInv ==
    /\ TypeOK
    /\ OneAtATime
    /\ WorkspaceIsTracked
    /\ \A c \in Calls : CallInv(c)

-----------------------------------------------------------------------------
\* All that CallInv reads of call d is as it was, except that processes of
\* its group may have died and signals may have been sent.
Untouched(d) ==
    /\ pc'[d] = pc[d] /\ mode'[d] = mode[d] /\ result'[d] = result[d]
    /\ written'[d] = written[d] /\ heard'[d] = heard[d]
    /\ exit'[d] = exit[d] /\ fired'[d] = fired[d]
    /\ d \in limited' <=> d \in limited
    /\ d \in spawnFailed' <=> d \in spawnFailed
    /\ Runs(d)' <=> Runs(d)
    /\ Group(d)' \subseteq Group(d)
    /\ doomed \subseteq doomed'

(* A call nothing happened to keeps its invariant.                         *)
LEMMA UntouchedKeeps ==
    ASSUME NEW d \in Calls, CallInv(d), Untouched(d)
    PROVE  CallInv(d)'
<1> USE DEF CallInv, Untouched
<1>1. StartsOnce(d)'
  BY DEF StartsOnce, Unstarted
<1>2. LimitsAreKnown(d)'
  BY DEF LimitsAreKnown
<1>3. ExitIsExplained(d)'
  BY DEF ExitIsExplained, Said
<1>4. AnswerStands(d)'
  <2>1. TimedOut(d)' = TimedOut(d) /\ Closed(d)' = Closed(d)
    BY DEF TimedOut, Closed
  <2>2. TerminalStatus(d)' = TerminalStatus(d) /\ Decode(d)' = Decode(d)
    BY <2>1 DEF TerminalStatus, Decode
  <2> QED BY <2>1, <2>2 DEF AnswerStands
<1> QED BY <1>1, <1>2, <1>3, <1>4

(* The staging, refusal and removal of a call's workspace, and the flag,   *)
(* touch no process: only its place changes.                               *)
LEMMA PlaceStep ==
    ASSUME NEW c \in Calls, CallInv(c), TypeOK,
           UNCHANGED processVars, UNCHANGED result,
           NEW place \in {"checked", "staging", "staged", "validating", "refused",
                          "failed", "cleaned"},
           Goto(c, place),
           pc[c] \in IF place = "cleaned" THEN {"settled", "refused"}
                     ELSE {"idle", "checked", "staging", "staged", "validating"}
    PROVE  CallInv(c)'
<1> USE DEF CallInv, processVars
<1>1. pc'[c] = place
  BY DEF Goto, TypeOK
<1>2. StartsOnce(c)'
  BY <1>1 DEF StartsOnce, Unstarted, Runs
<1>3. LimitsAreKnown(c)'
  BY DEF LimitsAreKnown
<1>4. ExitIsExplained(c)'
  BY DEF ExitIsExplained, Said, Runs
<1>5. AnswerStands(c)'
  <2>1. result[c].status # "none" => pc'[c] = "cleaned"
    BY <1>1 DEF AnswerStands
  <2> QED
    BY <2>1 DEF AnswerStands, TimedOut, Closed, TerminalStatus, Decode, Group, Runs
<1> QED BY <1>2, <1>3, <1>4, <1>5

(* Its steps are the staging of a workspace, the call up to its first await *)
(* or its refusal, and the cleanup.                                         *)
LEMMA StagingStep ==
    ASSUME ProviderInv, NEW c \in Calls,
           \/ CheckBase(c) \/ RefuseWorkspace(c) \/ MakeDirectory(c) \/ WriteArtifact(c)
           \/ FinishWorkspace(c) \/ AbandonWorkspace(c) \/ Call(c) \/ RefuseCall(c)
           \/ Cleanup(c)
    PROVE  CallInv(c)' /\ \A d \in Calls : d # c => Untouched(d)
<1> USE DEF ProviderInv
<1>1. UNCHANGED processVars /\ UNCHANGED result
  BY DEF CheckBase, RefuseWorkspace, MakeDirectory, WriteArtifact, FinishWorkspace,
         AbandonWorkspace, Call, RefuseCall, Cleanup
<1>2. \A d \in Calls : pc'[d] = pc[d] => Untouched(d)
  BY <1>1 DEF Untouched, Runs, Group, processVars
<1>3. CASE WriteArtifact(c)
  BY <1>2, <1>3, UntouchedKeeps DEF WriteArtifact
<1>4. CASE ~WriteArtifact(c)
  <2>1. PICK place \in {"checked", "staging", "staged", "validating", "refused",
                        "failed", "cleaned"} :
          /\ Goto(c, place)
          /\ pc[c] \in IF place = "cleaned" THEN {"settled", "refused"}
                       ELSE {"idle", "checked", "staging", "staged", "validating"}
    BY <1>4 DEF CheckBase, RefuseWorkspace, MakeDirectory, FinishWorkspace,
         AbandonWorkspace, Call, RefuseCall, Cleanup
  <2>2. CallInv(c)'
    BY <1>1, <2>1, PlaceStep
  <2>3. \A d \in Calls : d # c => pc'[d] = pc[d]
    BY <2>1 DEF Goto, TypeOK
  <2> QED BY <1>2, <2>2, <2>3
<1> QED BY <1>3, <1>4

-----------------------------------------------------------------------------
(* A process started in the workspace, or not started at all.              *)
LEMMA SpawnStep ==
    ASSUME ProviderInv, NEW c \in Calls, Spawn(c) \/ SpawnFails(c)
    PROVE  CallInv(c)' /\ \A d \in Calls : d # c => Untouched(d)
<1> USE DEF ProviderInv, TypeOK
<1>1. PICK m \in Modes : mode' = [mode EXCEPT ![c] = m]
  BY DEF Spawn, SpawnFails
<1>2. /\ pc[c] = "validating" /\ pc' = [pc EXCEPT ![c] = "running"]
      /\ UNCHANGED <<staged, active, doomed, forked, written, heard, exit, fired, limited,
                     result>>
  BY DEF Spawn, SpawnFails, Goto
<1>3. \/ alive' = alive \cup {<<c, "leader">>} /\ spawnFailed' = spawnFailed
      \/ alive' = alive /\ spawnFailed' = spawnFailed \cup {c}
  BY DEF Spawn, SpawnFails
<1>4. pc'[c] = "running" /\ mode'[c] = m /\ m # NoMode
  BY <1>1, <1>2, ProviderAssumption
<1>5. Unstarted(c)
  BY <1>2 DEF CallInv, StartsOnce
<1>6. CallInv(c)'
  <2>1. StartsOnce(c)' /\ LimitsAreKnown(c)'
    BY <1>2, <1>4 DEF CallInv, StartsOnce, LimitsAreKnown
  <2>2. AnswerStands(c)'
    BY <1>2, <1>5 DEF AnswerStands, Unstarted
  <2>3. ExitIsExplained(c)'
    BY <1>3 DEF ExitIsExplained, Runs
  <2> QED BY <2>1, <2>2, <2>3 DEF CallInv
<1>7. ASSUME NEW d \in Calls, d # c PROVE Untouched(d)
  BY <1>1, <1>2, <1>3, <1>7 DEF Untouched, Runs, Group
<1> QED BY <1>6, <1>7

(* A call whose leader runs has no answer yet, and one whose process has   *)
(* not closed has none either.                                             *)
LEMMA UnansweredWhileOpen ==
    ASSUME NEW c \in Calls, CallInv(c), Runs(c) \/ pc[c] = "running"
    PROVE  mode[c] # NoMode /\ result[c].status = "none"
BY DEF CallInv, StartsOnce, Unstarted, AnswerStands, Closed

(* While its leader runs, whatever a process prints or forks disturbs      *)
(* nothing that is known of the call.                                      *)
LEMMA PrintStep ==
    ASSUME ProviderInv, NEW c \in Calls,
           Fork(c) \/ \E stream \in {"out", "err"} : Write(c, stream)
    PROVE  CallInv(c)' /\ \A d \in Calls : d # c => Untouched(d)
<1> USE DEF ProviderInv, TypeOK
<1>1. /\ Runs(c) /\ Runs(c)'
      /\ alive' \in {alive, alive \cup {<<c, "child">>}}
      /\ \A d \in Calls : d # c => written'[d] = written[d]
      /\ UNCHANGED <<pc, staged, active, mode, doomed, heard, exit, fired, limited,
                     spawnFailed, result>>
  BY DEF Fork, Write, Runs
<1>2. mode[c] # NoMode /\ result[c].status = "none"
  BY <1>1, UnansweredWhileOpen
<1>3. CallInv(c)'
  <2>1. StartsOnce(c)' /\ LimitsAreKnown(c)'
    BY <1>1, <1>2 DEF CallInv, StartsOnce, LimitsAreKnown
  <2>2. AnswerStands(c)' /\ ExitIsExplained(c)'
    BY <1>1, <1>2 DEF AnswerStands, ExitIsExplained
  <2> QED BY <2>1, <2>2 DEF CallInv
<1>4. ASSUME NEW d \in Calls, d # c PROVE Untouched(d)
  BY <1>1, <1>4 DEF Untouched, Runs, Group
<1> QED BY <1>3, <1>4

(* A leader that is gone exited by itself, having said everything, or was  *)
(* ended by a signal.                                                      *)
LEMMA EndStep ==
    ASSUME ProviderInv, NEW c \in Calls, Exit(c) \/ Die(<<c, "leader">>)
    PROVE  CallInv(c)' /\ \A d \in Calls : d # c => Untouched(d)
<1> USE DEF ProviderInv, TypeOK
<1>1. /\ Runs(c)
      /\ alive' = alive \ {<<c, "leader">>}
      /\ \/ exit' = [exit EXCEPT ![c] = mode[c].status] /\ Said(c)
         \/ exit' = [exit EXCEPT ![c] = Signalled]
      /\ UNCHANGED <<pc, staged, active, mode, doomed, forked, written, heard, fired,
                     limited, spawnFailed, result>>
  BY DEF Exit, Die, Runs
<1>2. mode[c] # NoMode /\ result[c].status = "none"
  BY <1>1, UnansweredWhileOpen
<1>3. CallInv(c)'
  <2>1. StartsOnce(c)' /\ LimitsAreKnown(c)'
    BY <1>1, <1>2 DEF CallInv, StartsOnce, LimitsAreKnown
  <2>2. AnswerStands(c)'
    BY <1>1, <1>2 DEF AnswerStands
  <2>3. exit'[c] = Signalled \/ (exit'[c] = mode'[c].status /\ Said(c)')
    BY <1>1 DEF Said
  <2>4. ExitIsExplained(c)'
    BY <2>3 DEF ExitIsExplained
  <2> QED BY <2>1, <2>2, <2>4 DEF CallInv
<1>4. ASSUME NEW d \in Calls, d # c PROVE Untouched(d)
  BY <1>1, <1>4 DEF Untouched, Runs, Group
<1> QED BY <1>3, <1>4

(* The death of a descendant touches no call.                              *)
LEMMA ChildDies ==
    ASSUME ProviderInv, NEW c \in Calls, Die(<<c, "child">>)
    PROVE  \A d \in Calls : Untouched(d)
BY DEF Die, Untouched, Runs, Group

-----------------------------------------------------------------------------
(* A chunk is counted, and the first byte over a limit is remembered.      *)
LEMMA HearStep ==
    ASSUME ProviderInv, NEW c \in Calls,
           Hear(c, "out", OutCap) \/ Hear(c, "err", ErrCap)
    PROVE  CallInv(c)' /\ \A d \in Calls : d # c => Untouched(d)
<1> USE ProviderAssumption DEF ProviderInv, TypeOK, Counts
<1>1. /\ pc[c] = "running"
      /\ UNCHANGED <<pc, staged, active, mode, alive, forked, written, exit, fired,
                     spawnFailed, result>>
      /\ doomed \subseteq doomed'
      /\ limited' \in {limited, limited \cup {c}}
      /\ \A d \in Calls : d # c => heard'[d] = heard[d]
  BY DEF Hear
<1>2. mode[c] # NoMode /\ result[c].status = "none"
  BY <1>1, UnansweredWhileOpen
<1>3. LimitsAreKnown(c)'
  <2>1. CASE Hear(c, "out", OutCap)
    <3>1. heard'[c].out = heard[c].out + 1 /\ heard'[c].err = heard[c].err
      BY <2>1 DEF Hear
    <3>2. IF heard[c].out + 1 > OutCap /\ c \notin limited
          THEN limited' = limited \cup {c} ELSE limited' = limited
      BY <2>1 DEF Hear
    <3>3. heard[c].out \in Nat
      OBVIOUS
    <3> QED BY <3>1, <3>2, <3>3 DEF CallInv, LimitsAreKnown
  <2>2. CASE Hear(c, "err", ErrCap)
    <3>1. heard'[c].err = heard[c].err + 1 /\ heard'[c].out = heard[c].out
      BY <2>2 DEF Hear
    <3>2. IF heard[c].err + 1 > ErrCap /\ c \notin limited
          THEN limited' = limited \cup {c} ELSE limited' = limited
      BY <2>2 DEF Hear
    <3>3. heard[c].err \in Nat
      OBVIOUS
    <3> QED BY <3>1, <3>2, <3>3 DEF CallInv, LimitsAreKnown
  <2> QED BY <2>1, <2>2
<1>4. StartsOnce(c)'
  BY <1>1, <1>2 DEF CallInv, StartsOnce
<1>5. AnswerStands(c)' /\ ExitIsExplained(c)'
  BY <1>1, <1>2 DEF CallInv, AnswerStands, ExitIsExplained, Runs, Said
<1>6. ASSUME NEW d \in Calls, d # c PROVE Untouched(d)
  BY <1>1, <1>6 DEF Untouched, Runs, Group
<1> QED BY <1>3, <1>4, <1>5, <1>6 DEF CallInv

(* A timer that fires sends signals and is remembered.                     *)
LEMMA TimerStep ==
    ASSUME ProviderInv, NEW c \in Calls, TimeoutFires(c) \/ ForceKill(c)
    PROVE  CallInv(c)' /\ \A d \in Calls : d # c => Untouched(d)
<1> USE DEF ProviderInv, TypeOK
<1>1. /\ pc[c] = "running"
      /\ UNCHANGED <<pc, staged, active, mode, alive, forked, written, heard, exit,
                     limited, spawnFailed, result>>
      /\ doomed \subseteq doomed'
      /\ \A d \in Calls : d # c => fired'[d] = fired[d]
  BY DEF TimeoutFires, ForceKill
<1>2. mode[c] # NoMode /\ result[c].status = "none"
  BY <1>1, UnansweredWhileOpen
<1>3. StartsOnce(c)' /\ LimitsAreKnown(c)'
  BY <1>1, <1>2 DEF CallInv, StartsOnce, LimitsAreKnown
<1>4. AnswerStands(c)' /\ ExitIsExplained(c)'
  BY <1>1, <1>2 DEF CallInv, AnswerStands, ExitIsExplained, Runs, Said
<1>5. ASSUME NEW d \in Calls, d # c PROVE Untouched(d)
  BY <1>1, <1>5 DEF Untouched, Runs, Group
<1> QED BY <1>3, <1>4, <1>5 DEF CallInv

(* The answer is computed once the process has closed, and the rest of the *)
(* group of a call that was being ended is signalled with it.              *)
LEMMA SettleStep ==
    ASSUME ProviderInv, NEW c \in Calls, Settle(c)
    PROVE  CallInv(c)' /\ \A d \in Calls : d # c => Untouched(d)
<1> USE DEF ProviderInv, TypeOK
<1> DEFINE new == [status |-> TerminalStatus(c),
                   code |-> IF TerminalStatus(c) = "response_received"
                            THEN Decode(c) ELSE "none"]
<1>1. /\ pc[c] = "running" /\ pc' = [pc EXCEPT ![c] = "settled"]
      /\ Closed(c)
      /\ result' = [result EXCEPT ![c] = new]
      /\ doomed' = IF TimedOut(c) \/ c \in limited THEN doomed \cup Group(c) ELSE doomed
      /\ UNCHANGED <<staged, mode, alive, forked, written, heard, exit, fired, limited,
                     spawnFailed>>
  BY DEF Settle, Goto
<1>2. mode[c] # NoMode
  BY <1>1, UnansweredWhileOpen
<1>3. StartsOnce(c)' /\ LimitsAreKnown(c)'
  BY <1>1, <1>2 DEF CallInv, StartsOnce, LimitsAreKnown
<1>4. ExitIsExplained(c)'
  BY <1>1 DEF CallInv, ExitIsExplained, Runs, Said
<1>5. AnswerStands(c)'
  <2>1. /\ TimedOut(c)' = TimedOut(c) /\ Closed(c)' = Closed(c) /\ Group(c)' = Group(c)
    BY <1>1 DEF TimedOut, Closed, Group, Runs
  <2>2. TerminalStatus(c)' = TerminalStatus(c) /\ Decode(c)' = Decode(c)
    BY <1>1, <2>1 DEF TerminalStatus, Decode
  <2>3. pc'[c] = "settled" /\ mode'[c] = mode[c] /\ result'[c] = new
    BY <1>1
  <2>4. (TimedOut(c) \/ c \in limited) => Group(c) \subseteq doomed'
    BY <1>1
  <2>5. /\ new.status = TerminalStatus(c)
        /\ new.status = "response_received" => new.code = Decode(c)
    OBVIOUS
  <2> HIDE DEF new
  <2> QED BY <1>1, <1>2, <2>1, <2>2, <2>3, <2>4, <2>5 DEF AnswerStands
<1>6. ASSUME NEW d \in Calls, d # c PROVE Untouched(d)
  BY <1>1, <1>6 DEF Untouched, Runs, Group
<1> QED BY <1>3, <1>4, <1>5, <1>6 DEF CallInv

(* Whatever happens to one call, every call keeps its invariant.           *)
LEMMA StepsKeepCalls ==
    ASSUME ProviderInv, [Next]_vars
    PROVE  \A d \in Calls : CallInv(d)'
<1>1. ASSUME NEW c \in Calls, CallInv(c)', \A d \in Calls : d # c => Untouched(d)
      PROVE  \A d \in Calls : CallInv(d)'
  BY <1>1, UntouchedKeeps DEF ProviderInv
<1>2. ASSUME \A d \in Calls : Untouched(d)
      PROVE  \A d \in Calls : CallInv(d)'
  BY <1>2, UntouchedKeeps DEF ProviderInv
<1>3. ASSUME NEW c \in Calls, Steps(c) PROVE \A d \in Calls : CallInv(d)'
  BY <1>1, <1>3, StagingStep, SpawnStep DEF Steps
<1>4. ASSUME NEW c \in Calls, Events(c) PROVE \A d \in Calls : CallInv(d)'
  BY <1>1, <1>2, <1>4, PrintStep, EndStep, ChildDies, HearStep, SettleStep DEF Events
<1>5. ASSUME NEW c \in Calls, TimeoutFires(c) \/ ForceKill(c)
      PROVE  \A d \in Calls : CallInv(d)'
  BY <1>1, <1>5, TimerStep
<1>6. ASSUME UNCHANGED vars PROVE \A d \in Calls : Untouched(d)
  BY <1>6 DEF vars, Untouched, Runs, Group
<1> QED BY <1>2, <1>3, <1>4, <1>5, <1>6 DEF Next

-----------------------------------------------------------------------------
(* What a call is answered with is one of the statuses and codes.          *)
LEMMA AnswersAreTyped ==
    ASSUME NEW c \in Calls
    PROVE  [status |-> TerminalStatus(c),
            code |-> IF TerminalStatus(c) = "response_received"
                     THEN Decode(c) ELSE "none"] \in Results
<1>1. TerminalStatus(c) \in {"output_resource_limit", "timeout", "transport_error",
                             "response_received"}
  BY Zenon DEF TerminalStatus
<1>2. Decode(c) \in {"none", "STRICT_JSON_REJECTED", "OUTPUT_RESOURCE_LIMIT",
                     "TOOL_OR_SUBAGENT_USED"}
  BY Zenon DEF Decode
<1> QED BY <1>1, <1>2 DEF Results

(* Every step keeps the types.                                             *)
LEMMA StepsKeepTypes ==
    ASSUME ProviderInv, [Next]_vars
    PROVE  TypeOK'
<1>0. TypeOK /\ \A c \in Calls : CallInv(c)
  BY DEF ProviderInv
<1> USE <1>0, ProviderAssumption DEF TypeOK, Goto, Places, processVars
<1>1. ASSUME NEW c \in Calls, CheckBase(c) \/ RefuseWorkspace(c) \/ FinishWorkspace(c)
      PROVE  TypeOK'
  BY <1>1 DEF CheckBase, RefuseWorkspace, FinishWorkspace
<1>2. ASSUME NEW c \in Calls, MakeDirectory(c) \/ AbandonWorkspace(c) \/ Cleanup(c)
      PROVE  TypeOK'
  BY <1>2 DEF MakeDirectory, AbandonWorkspace, Cleanup
<1>3. ASSUME NEW c \in Calls, WriteArtifact(c) PROVE TypeOK'
  BY <1>3 DEF WriteArtifact
<1>4. ASSUME NEW c \in Calls, Call(c) \/ RefuseCall(c) PROVE TypeOK'
  BY <1>4 DEF Call, RefuseCall
<1>5. ASSUME NEW c \in Calls, Spawn(c) \/ SpawnFails(c) PROVE TypeOK'
  BY <1>5 DEF Spawn, SpawnFails
<1>6. ASSUME NEW c \in Calls, NEW stream \in {"out", "err"}, Write(c, stream) PROVE TypeOK'
  <2>1. written' \in [Calls -> Counts]
    <3>1. CASE stream = "out"
      BY <1>6, <3>1 DEF Write, Counts
    <3>2. CASE stream = "err"
      BY <1>6, <3>2 DEF Write, Counts
    <3> QED BY <3>1, <3>2
  <2> QED BY <1>6, <2>1 DEF Write
<1>7. ASSUME NEW c \in Calls, Fork(c) PROVE TypeOK'
  BY <1>7 DEF Fork
<1>8. ASSUME NEW c \in Calls, Exit(c) PROVE TypeOK'
  <2>1. mode[c] \in Modes
    BY <1>8, UnansweredWhileOpen DEF Exit
  <2>2. mode[c].status \in Int
    BY <2>1 DEF ModeType
  <2> QED BY <1>8, <2>2 DEF Exit
<1>9. ASSUME NEW p \in Calls \X {"leader", "child"}, Die(p) PROVE TypeOK'
  <2>1. exit' \in [Calls -> Int]
    BY <1>9 DEF Die, Signalled
  <2> QED BY <1>9, <2>1 DEF Die
<1>10. ASSUME NEW c \in Calls, Hear(c, "out", OutCap) \/ Hear(c, "err", ErrCap)
       PROVE  TypeOK'
  <2>1. heard' \in [Calls -> Counts]
    <3>1. CASE Hear(c, "out", OutCap)
      BY <3>1 DEF Hear, Counts
    <3>2. CASE Hear(c, "err", ErrCap)
      BY <3>2 DEF Hear, Counts
    <3> QED BY <1>10, <3>1, <3>2
  <2>2. limited' \subseteq Calls
    BY <1>10 DEF Hear
  <2> QED BY <1>10, <2>1, <2>2 DEF Hear
<1>11. ASSUME NEW c \in Calls, TimeoutFires(c) \/ ForceKill(c) PROVE TypeOK'
  BY <1>11 DEF TimeoutFires, ForceKill
<1>12. ASSUME NEW c \in Calls, Settle(c) PROVE TypeOK'
  <2>1. result' \in [Calls -> Results]
    BY <1>12, AnswersAreTyped DEF Settle
  <2> QED BY <1>12, <2>1 DEF Settle
<1>13. CASE UNCHANGED vars
  BY <1>13 DEF vars
<1> QED
  BY <1>1, <1>2, <1>3, <1>4, <1>5, <1>6, <1>7, <1>8, <1>9, <1>10, <1>11, <1>12, <1>13
  DEF Next, Steps, Events

(* The flag is raised with the place of the call that found it down, and   *)
(* lowered with the same call's last busy step.                            *)
LEMMA StepsKeepOneAtATime ==
    ASSUME TypeOK, OneAtATime, [Next]_vars
    PROVE  OneAtATime'
<1> USE DEF TypeOK, OneAtATime, Busy, Goto
<1>1. ASSUME pc' = pc, active' = active PROVE OneAtATime'
  BY <1>1
<1>2. ASSUME NEW c \in Calls, NEW place, Goto(c, place), ~Busy(c),
             place \notin {"validating", "running"}, active' = active
      PROVE  OneAtATime'
  BY <1>2
<1>3. ASSUME NEW c \in Calls, Call(c) PROVE OneAtATime'
  <2>1. CASE active
    BY <1>2, <1>3, <2>1 DEF Call
  <2>2. CASE ~active
    <3>1. pc' = [pc EXCEPT ![c] = "validating"] /\ active'
      BY <1>3, <2>2 DEF Call
    <3>2. \A d \in Calls : ~Busy(d)
      BY <2>2
    <3> QED BY <3>1, <3>2
  <2> QED BY <2>1, <2>2
<1>4. ASSUME NEW c \in Calls, RefuseCall(c) \/ Settle(c) PROVE OneAtATime'
  <2>1. /\ Busy(c) /\ active' = FALSE
        /\ pc'[c] \in {"refused", "settled"}
        /\ \A d \in Calls : d # c => pc'[d] = pc[d]
    BY <1>4 DEF RefuseCall, Settle
  <2> QED BY <2>1
<1>5. ASSUME NEW c \in Calls, Spawn(c) \/ SpawnFails(c) PROVE OneAtATime'
  BY <1>5 DEF Spawn, SpawnFails
<1>6. ASSUME NEW c \in Calls, CheckBase(c) \/ RefuseWorkspace(c) \/ MakeDirectory(c)
             \/ WriteArtifact(c) \/ FinishWorkspace(c) \/ AbandonWorkspace(c) \/ Cleanup(c)
      PROVE  OneAtATime'
  BY <1>1, <1>2, <1>6 DEF CheckBase, RefuseWorkspace, MakeDirectory, WriteArtifact,
     FinishWorkspace, AbandonWorkspace, Cleanup
<1>7. ASSUME NEW c \in Calls, Events(c), ~Settle(c) PROVE pc' = pc /\ active' = active
  BY <1>7 DEF Events, Write, Fork, Exit, Die, Hear
<1>8. ASSUME NEW c \in Calls, TimeoutFires(c) \/ ForceKill(c)
      PROVE  pc' = pc /\ active' = active
  BY <1>8 DEF TimeoutFires, ForceKill
<1>9. CASE UNCHANGED vars
  BY <1>1, <1>9 DEF vars
<1> QED BY <1>1, <1>3, <1>4, <1>5, <1>6, <1>7, <1>8, <1>9 DEF Next, Steps

(* A workspace is made and removed with the place that says so.            *)
LEMMA StepsKeepWorkspaces ==
    ASSUME TypeOK, WorkspaceIsTracked, [Next]_vars
    PROVE  WorkspaceIsTracked'
<1> USE ProviderAssumption DEF TypeOK, WorkspaceIsTracked, Goto
<1>1. ASSUME NEW c \in Calls, MakeDirectory(c) \/ AbandonWorkspace(c) \/ Cleanup(c)
      PROVE  WorkspaceIsTracked'
  BY <1>1 DEF MakeDirectory, AbandonWorkspace, Cleanup
<1>2. ASSUME NEW c \in Calls, WriteArtifact(c) PROVE WorkspaceIsTracked'
  <2>1. staged[c] # -1 /\ staged[c] \in -1..Files
    BY <1>2 DEF WriteArtifact
  <2>2. staged[c] + 1 # -1
    BY <2>1
  <2> QED BY <1>2, <2>2 DEF WriteArtifact
<1>3. ASSUME NEW c \in Calls, CheckBase(c) \/ RefuseWorkspace(c) \/ FinishWorkspace(c)
             \/ Call(c) \/ RefuseCall(c) \/ Spawn(c) \/ SpawnFails(c) \/ Settle(c)
      PROVE  WorkspaceIsTracked'
  BY <1>3 DEF CheckBase, RefuseWorkspace, FinishWorkspace, Call, RefuseCall, Spawn,
     SpawnFails, Settle
<1>4. ASSUME NEW c \in Calls, Events(c), ~Settle(c) PROVE pc' = pc /\ staged' = staged
  BY <1>4 DEF Events, Write, Fork, Exit, Die, Hear
<1>5. ASSUME NEW c \in Calls, TimeoutFires(c) \/ ForceKill(c)
      PROVE  pc' = pc /\ staged' = staged
  BY <1>5 DEF TimeoutFires, ForceKill
<1>6. CASE UNCHANGED vars
  BY <1>6 DEF vars
<1> QED BY <1>1, <1>2, <1>3, <1>4, <1>5, <1>6 DEF Next, Steps

-----------------------------------------------------------------------------
(* The inductive invariant: types, one busy call, tracked workspaces, and  *)
(* answers that stand.                                                     *)
THEOREM ProviderSafe == Spec => []ProviderInv
<1>1. ASSUME Init PROVE ProviderInv
  <2>1. TypeOK
    <3>1. /\ pc \in [Calls -> Places] /\ active \in BOOLEAN
          /\ mode \in [Calls -> Modes \cup {NoMode}]
      BY <1>1 DEF Init, Places
    <3>2. staged \in [Calls -> -1..Files]
      BY <1>1, ProviderAssumption DEF Init
    <3>3. written \in [Calls -> Counts] /\ heard \in [Calls -> Counts]
      BY <1>1 DEF Init, Counts
    <3>4. exit \in [Calls -> Int] /\ fired \in [Calls -> SUBSET {"timeout", "force"}]
      BY <1>1 DEF Init, Unknown
    <3>5. result \in [Calls -> Results]
      BY <1>1 DEF Init, Results
    <3>6. /\ alive \subseteq Calls \X {"leader", "child"}
          /\ limited \subseteq Calls /\ spawnFailed \subseteq Calls
      BY <1>1 DEF Init
    <3> QED BY <3>1, <3>2, <3>3, <3>4, <3>5, <3>6 DEF TypeOK
  <2>2. OneAtATime /\ WorkspaceIsTracked
    BY <1>1 DEF Init, OneAtATime, Busy, WorkspaceIsTracked
  <2>3. ASSUME NEW c \in Calls PROVE CallInv(c)
    <3>1. StartsOnce(c)
      BY <1>1 DEF Init, StartsOnce, Unstarted, Runs, Zero
    <3>2. LimitsAreKnown(c)
      BY <1>1, ProviderAssumption DEF Init, LimitsAreKnown
    <3>3. ExitIsExplained(c) /\ AnswerStands(c)
      BY <1>1 DEF Init, ExitIsExplained, AnswerStands
    <3> QED BY <3>1, <3>2, <3>3 DEF CallInv
  <2> QED BY <2>1, <2>2, <2>3 DEF ProviderInv
<1>2. ASSUME ProviderInv, [Next]_vars PROVE ProviderInv'
  BY <1>2, StepsKeepTypes, StepsKeepOneAtATime, StepsKeepWorkspaces, StepsKeepCalls
  DEF ProviderInv
<1> QED BY <1>1, <1>2, PTL DEF Spec

(* Two calls are never validated or run at once, whatever directories they *)
(* staged.                                                                 *)
THEOREM CallsAreSerialized == Spec => []OneAtATime
<1>1. ProviderInv => OneAtATime
  BY DEF ProviderInv
<1> QED BY <1>1, ProviderSafe, PTL

(* A status says which of the conditions held when it was given.           *)
LEMMA StatusMeans ==
    ASSUME NEW c \in Calls
    PROVE  /\ TerminalStatus(c) = "output_resource_limit" <=> c \in limited
           /\ TerminalStatus(c) = "timeout" => TimedOut(c)
           /\ TerminalStatus(c) = "response_received" =>
                /\ c \notin spawnFailed
                /\ exit[c] = 0 /\ heard[c].err = 0
           /\ TerminalStatus(c) # "none"
<1>1. CASE c \in limited
  <2>1. TerminalStatus(c) = "output_resource_limit"
    BY <1>1, Zenon DEF TerminalStatus
  <2> QED BY <1>1, <2>1
<1>2. CASE c \notin limited /\ TimedOut(c)
  <2>1. TerminalStatus(c) = "timeout"
    BY <1>2, Zenon DEF TerminalStatus
  <2> QED BY <1>2, <2>1
<1>3. CASE /\ c \notin limited /\ ~TimedOut(c)
           /\ c \in spawnFailed \/ exit[c] # 0 \/ heard[c].err # 0
  <2>1. TerminalStatus(c) = "transport_error"
    BY <1>3, Zenon DEF TerminalStatus
  <2> QED BY <1>3, <2>1
<1>4. CASE /\ c \notin limited /\ ~TimedOut(c)
           /\ c \notin spawnFailed /\ exit[c] = 0 /\ heard[c].err = 0
  <2>1. TerminalStatus(c) = "response_received"
    BY <1>4, Zenon DEF TerminalStatus
  <2> QED BY <1>4, <2>1
<1> QED BY <1>1, <1>2, <1>3, <1>4

(* No process of a call that was ended survives its answer.                *)
THEOREM GroupsAreEnded == Spec => []NothingOutlives
<1>1. ASSUME ProviderInv PROVE NothingOutlives
  BY <1>1, StatusMeans DEF ProviderInv, CallInv, AnswerStands, NothingOutlives
<1> QED BY <1>1, ProviderSafe, PTL

(* A limit is reported exactly when output was cut off.                    *)
THEOREM LimitsAreExact == Spec => []LimitsAreReported
<1>1. ASSUME ProviderInv PROVE LimitsAreReported
  BY <1>1, StatusMeans
  DEF ProviderInv, CallInv, AnswerStands, LimitsAreKnown, LimitsAreReported
<1> QED BY <1>1, ProviderSafe, PTL

(* Only a closed envelope decodes.                                         *)
LEMMA OnlyEnvelopesDecode ==
    ASSUME NEW c \in Calls, Decode(c) = "none"
    PROVE  heard[c].out # 0 /\ mode[c].envelope = "closed"
<1>1. CASE heard[c].out = 0
  <2>1. Decode(c) = "STRICT_JSON_REJECTED"
    BY <1>1, Zenon DEF Decode
  <2> QED BY <2>1
<1>2. CASE heard[c].out # 0 /\ heard[c].out > OutCap
  <2>1. Decode(c) = "OUTPUT_RESOURCE_LIMIT"
    BY <1>2, Zenon DEF Decode
  <2> QED BY <2>1
<1>3. CASE /\ heard[c].out # 0 /\ ~(heard[c].out > OutCap)
           /\ mode[c].envelope = "tool"
  <2>1. "closed" # "tool"
    OBVIOUS
  <2>2. Decode(c) = "TOOL_OR_SUBAGENT_USED"
    BY <1>3, <2>1, Zenon DEF Decode
  <2> QED BY <2>2
<1>4. CASE /\ heard[c].out # 0 /\ ~(heard[c].out > OutCap)
           /\ mode[c].envelope # "tool" /\ mode[c].envelope # "closed"
  <2>1. Decode(c) = "STRICT_JSON_REJECTED"
    BY <1>4, Zenon DEF Decode
  <2> QED BY <2>1
<1> QED BY <1>1, <1>2, <1>3, <1>4

(* A response is everything its process printed before a clean exit.       *)
THEOREM ResponsesAreComplete == Spec => []ResponsesAreWhole
<1>1. ASSUME ProviderInv PROVE ResponsesAreWhole
  <2>1. SUFFICES ASSUME NEW c \in Calls, result[c].status = "response_received"
                 PROVE  /\ exit[c] = 0 /\ mode[c].err = 0
                        /\ heard[c].out = mode[c].out /\ heard[c].out =< OutCap
                        /\ result[c].code = "none" =>
                            mode[c].envelope = "closed" /\ mode[c].out > 0
    BY DEF ResponsesAreWhole
  <2>2. /\ mode[c] # NoMode /\ Closed(c)
        /\ TerminalStatus(c) = "response_received"
        /\ result[c].code = Decode(c)
    BY <1>1, <2>1 DEF ProviderInv, CallInv, AnswerStands
  <2>3. /\ c \notin spawnFailed /\ c \notin limited
        /\ exit[c] = 0 /\ heard[c].err = 0
    BY <2>2, StatusMeans
  <2>4. Said(c)
    BY <1>1, <2>2, <2>3 DEF ProviderInv, CallInv, ExitIsExplained, Closed, Signalled
  <2>5. heard[c].out = mode[c].out /\ mode[c].err = 0
    BY <2>2, <2>3, <2>4 DEF Closed, Said
  <2>6. heard[c].out \in Nat /\ ~(heard[c].out > OutCap)
    BY <1>1, <2>3 DEF ProviderInv, TypeOK, Counts, CallInv, LimitsAreKnown
  <2>7. heard[c].out =< OutCap
    BY <2>6, ProviderAssumption
  <2>8. ASSUME result[c].code = "none"
        PROVE  mode[c].envelope = "closed" /\ mode[c].out > 0
    <3>1. heard[c].out # 0 /\ mode[c].envelope = "closed"
      BY <2>2, <2>8, OnlyEnvelopesDecode
    <3> QED BY <2>5, <2>6, <3>1
  <2> QED BY <2>3, <2>5, <2>7, <2>8
<1> QED BY <1>1, ProviderSafe, PTL

-----------------------------------------------------------------------------
(***************************************************************************)
(* From a closed bar to a replayed decision.                               *)
(***************************************************************************)

(* What the windows of a stream show is what the stream says. *)
LEMMA WindowsShowTheStream ==
    ASSUME NEW n \in 0..Len(Market[Live]), NEW case \in CasesAfter[n]
    PROVE  /\ CaseHolds(case)
           /\ case.stream \in DOMAIN Market
           /\ \E first \in DOMAIN Market[case.stream],
                 last \in DOMAIN Market[case.stream] :
               /\ first <= last
               /\ Len(case.bars) = last - first + 1
               /\ DOMAIN case.bars = 1..Len(case.bars)
               /\ \A i \in DOMAIN case.bars :
                   /\ first + i - 1 \in DOMAIN Market[case.stream]
                   /\ first + i - 1 <= last
                   /\ case.bars[i].sequence
                        = Market[case.stream][first + i - 1].sequence
                   /\ \A field \in PriceFields :
                        case.bars[i][field]
                            = Market[case.stream][first + i - 1][field]
<1>1. CaseHolds(case)
  BY DEF CasesAfter
<1>2. PICK s \in DOMAIN Market : \E last \in DOMAIN Market[s] :
        \E first \in 1..last, id \in CaseIds : case = Window(s, first, last, id, n)
  BY DEF CasesAfter, Streams
<1>2a. PICK last \in DOMAIN Market[s] : \E first \in 1..last, id \in CaseIds :
        case = Window(s, first, last, id, n)
  BY <1>2
<1>3. PICK first \in 1..last, id \in CaseIds : case = Window(s, first, last, id, n)
  BY <1>2a
<1>4. /\ Len(Market[s]) \in Nat /\ DOMAIN Market[s] = 1..Len(Market[s])
      /\ \A i \in DOMAIN Market[s] :
            DOMAIN Market[s][i] =
                PriceFields \cup {"id", "sequence", "continuity", "closed"}
  BY MarketAssumption
<1> DEFINE all == Bars(s, n)
           seenBars == SubSeq(all, first, last)
<1>5. all \in Seq({all[i] : i \in DOMAIN all}) /\ Len(all) = Len(Market[s])
  <2>1. all = [i \in 1..Len(Market[s]) |-> all[i]]
    BY <1>4 DEF Bars
  <2> HIDE DEF all
  <2>2. all \in [1..Len(Market[s]) -> {all[i] : i \in DOMAIN all}]
    BY <2>1
  <2>3. all \in Seq({all[i] : i \in DOMAIN all})
    BY <1>4, <2>2 DEF Seq
  <2> QED BY <1>4, <2>1, <2>3, LenProperties
<1>6. /\ seenBars \in Seq({all[i] : i \in DOMAIN all})
      /\ Len(seenBars) = last - first + 1
      /\ \A i \in 1..last - first + 1 : seenBars[i] = all[first + i - 1]
  <2> HIDE DEF all
  <2> QED BY <1>3, <1>4, <1>5, SubSeqProperties
<1>7. DOMAIN seenBars = 1..last - first + 1 /\ last - first + 1 \in Nat
  <2>1. DOMAIN seenBars = 1..Len(seenBars) /\ Len(seenBars) \in Nat
    <3> HIDE DEF seenBars
    <3> QED BY <1>6, LenProperties
  <2> QED BY <1>6, <2>1
<1>8. ASSUME NEW i \in 1..last - first + 1
      PROVE  /\ first + i - 1 \in DOMAIN Market[s]
             /\ seenBars[i] = [Market[s][first + i - 1] EXCEPT
                                !.closed = s # Live \/ first + i - 1 <= n]
  <2>1. first + i - 1 \in DOMAIN Market[s] /\ seenBars[i] = all[first + i - 1]
    BY <1>3, <1>4, <1>6
  <2>2. \A k \in DOMAIN Market[s] :
            all[k] = [Market[s][k] EXCEPT !.closed = s # Live \/ k <= n]
    BY DEF Bars
  <2> HIDE DEF all, seenBars
  <2> QED BY <2>1, <2>2
<1>9. /\ case.stream = s
      /\ case.bars = [seenBars EXCEPT ![1].continuity = "unknown"]
  BY <1>3 DEF Window
<1>10. DOMAIN case.bars = 1..last - first + 1
  <2> HIDE DEF seenBars
  <2> QED BY <1>7, <1>9
<1>11. Len(case.bars) = last - first + 1
  <2>1. case.bars = [i \in 1..last - first + 1 |-> case.bars[i]]
    <3> HIDE DEF seenBars
    <3> QED BY <1>7, <1>9
  <2>2. case.bars \in [1..last - first + 1 -> {case.bars[i] : i \in DOMAIN case.bars}]
    BY <2>1
  <2>3. case.bars \in Seq({case.bars[i] : i \in DOMAIN case.bars})
    BY <1>7, <2>2 DEF Seq
  <2> QED BY <1>7, <1>10, <2>3, LenProperties
<1>12. ASSUME NEW i \in 1..last - first + 1
       PROVE  /\ case.bars[i].sequence = Market[s][first + i - 1].sequence
              /\ \A field \in PriceFields :
                    case.bars[i][field] = Market[s][first + i - 1][field]
  <2> HIDE DEF seenBars
  <2>1. /\ seenBars[i].sequence = Market[s][first + i - 1].sequence
        /\ \A field \in PriceFields : seenBars[i][field] = Market[s][first + i - 1][field]
        /\ DOMAIN seenBars[i] = PriceFields \cup {"id", "sequence", "continuity", "closed"}
    BY <1>4, <1>8 DEF PriceFields
  <2>2. case.bars[i] = IF i = 1 THEN [seenBars[i] EXCEPT !.continuity = "unknown"]
                       ELSE seenBars[i]
    BY <1>7, <1>9
  <2> QED BY <2>1, <2>2 DEF PriceFields
<1>13. first \in DOMAIN Market[s] /\ first <= last
  BY <1>3, <1>4
<1>14. \A i \in 1..last - first + 1 :
        first + i - 1 \in DOMAIN Market[s] /\ first + i - 1 <= last
  BY <1>3, <1>4
<1>15. /\ first \in DOMAIN Market[case.stream] /\ last \in DOMAIN Market[case.stream]
       /\ case.stream \in DOMAIN Market
  BY <1>9, <1>13
<1>16. /\ Len(case.bars) = last - first + 1
       /\ DOMAIN case.bars = 1..Len(case.bars)
       /\ \A i \in DOMAIN case.bars :
           /\ first + i - 1 \in DOMAIN Market[case.stream]
           /\ first + i - 1 <= last
           /\ case.bars[i].sequence = Market[case.stream][first + i - 1].sequence
           /\ \A field \in PriceFields :
                case.bars[i][field] = Market[case.stream][first + i - 1][field]
  <2> HIDE DEF all, seenBars
  <2>1. \A i \in DOMAIN case.bars : i \in 1..last - first + 1
    BY <1>10
  <2>2. \A i \in DOMAIN case.bars :
            case.bars[i].sequence = Market[case.stream][first + i - 1].sequence
    BY <2>1, <1>9, <1>12
  <2>3. \A i \in DOMAIN case.bars : \A field \in PriceFields :
            case.bars[i][field] = Market[case.stream][first + i - 1][field]
    BY <2>1, <1>9, <1>12
  <2>4. \A i \in DOMAIN case.bars :
            first + i - 1 \in DOMAIN Market[case.stream] /\ first + i - 1 <= last
    BY <2>1, <1>9, <1>14
  <2> QED BY <1>10, <1>11, <2>2, <2>3, <2>4
<1> QED
  <2> HIDE DEF all, seenBars
  <2> QED BY <1>1, <1>13, <1>15, <1>16
(* What the schedule of the live stream remembers of the continuous calls. *)
ScheduleHolds ==
    /\ closed \in 0..Len(Market[Live])
    /\ schedule.stream = Live
    /\ DOMAIN schedule = {"stream", "candidate", "sequence", "bar", "input", "bars"}
    /\ schedule.sequence \in Int
    /\ \A call \in calls : call.mode = "continuous_every_close" =>
        /\ call.sequence \in Int
        /\ call.sequence <= schedule.sequence
        /\ call.bar \in schedule.bars

ResultsHold == \A frozen \in results : frozen.call \in calls

(* Every price that was accepted is printed on a bar the validator was      *)
(* shown.                                                                   *)
QuotesAreShown ==
    decision # Null =>
        \A anchor \in Cited(Response[decision.response]) : AnchorHolds(anchor, shown)

ReplayInv ==
    /\ ScheduleHolds
    /\ ResultsHold
    /\ QuotesAreShown
    /\ NoFutureReachesTheModel
    /\ ReplayIsCausal

-----------------------------------------------------------------------------

LEMMA ReplayInitHolds == ReplayInit => ReplayInv
<1> SUFFICES ASSUME ReplayInit PROVE ReplayInv
  OBVIOUS
<1>1. Len(Market[Live]) \in Nat
  BY ReplayAssumption, MarketAssumption
<1>2. ScheduleHolds
  BY <1>1 DEF ReplayInit, ScheduleHolds, EmptySchedule
<1>3. ResultsHold /\ QuotesAreShown /\ NoFutureReachesTheModel /\ ReplayIsCausal
  BY DEF ReplayInit, ResultsHold, QuotesAreShown, NoFutureReachesTheModel,
         ReplayIsCausal
<1> QED BY <1>2, <1>3 DEF ReplayInv

LEMMA CloseBarStep ==
    ASSUME ReplayInv, CloseBar, Open
    PROVE  ReplayInv'
<1>1. Len(Market[Live]) \in Nat
  BY ReplayAssumption, MarketAssumption
<1>2. ScheduleHolds'
  BY <1>1 DEF ReplayInv, ScheduleHolds, CloseBar
<1>3. ResultsHold' /\ QuotesAreShown'
  BY DEF ReplayInv, ResultsHold, QuotesAreShown, CloseBar
<1>4. NoFutureReachesTheModel' /\ ReplayIsCausal'
  BY DEF NoFutureReachesTheModel, ReplayIsCausal, CloseBar, Open
<1> QED BY <1>2, <1>3, <1>4 DEF ReplayInv

(* What a scheduled point is: a bar that has closed, later than every call. *)
LEMMA ScheduledPoints ==
    ASSUME ScheduleHolds, NEW s \in Streams, NEW i \in DOMAIN Market[s], NEW input,
           NEW policy,
           Verdict(schedule, Point(s, Bars(s, closed)[i], input, policy)) = "scheduled"
    PROVE  LET point == Point(s, Bars(s, closed)[i], input, policy)
           IN  /\ s = Live
               /\ i \in 1..closed
               /\ point.sequence = Market[Live][i].sequence
               /\ point.bar = Market[Live][i].id
               /\ point.sequence \in Int
               /\ point.sequence > schedule.sequence
               /\ point.bar \notin schedule.bars
<1> DEFINE point == Point(s, Bars(s, closed)[i], input, policy)
<1>1. /\ Follows(schedule, point) /\ point.closed
      /\ ~ AlreadyScheduled(schedule, point)
      /\ point.sequence > schedule.sequence
  <2> HIDE DEF point
  <2> QED BY DEF Verdict, point
<1>2. Bars(s, closed)[i] =
        [Market[s][i] EXCEPT !.closed = s # Live \/ i <= closed]
  BY DEF Bars
<1>3. s \in DOMAIN Market
  BY DEF Streams
<1>4. DOMAIN Market[s][i] =
        PriceFields \cup {"id", "sequence", "continuity", "closed"}
  BY <1>3, MarketAssumption
<1>5. /\ Bars(s, closed)[i].id = Market[s][i].id
      /\ Bars(s, closed)[i].sequence = Market[s][i].sequence
      /\ Bars(s, closed)[i].closed = (s # Live \/ i <= closed)
  BY <1>2, <1>4 DEF PriceFields
<1>6. s = Live
  BY <1>1 DEF Follows, Point, ScheduleHolds
<1>7. i <= closed
  BY <1>1, <1>5, <1>6 DEF Point
<1>8. i \in 1..closed
  BY <1>3, <1>7, MarketAssumption DEF ScheduleHolds
<1>9. Market[s][i].sequence \in Nat
  BY <1>3, MarketAssumption
<1> QED BY <1>1, <1>5, <1>6, <1>8, <1>9 DEF Point, AlreadyScheduled

LEMMA DeliverStep ==
    ASSUME ReplayInv, Deliver, Open
    PROVE  ReplayInv'
<1>1. PICK s \in Streams, policy \in {EveryClose, "sampled.v1"}, input \in Inputs :
        \E i \in DOMAIN Market[s] :
            LET point == Point(s, Bars(s, closed)[i], input, policy)
            IN  /\ Verdict(schedule, point) = "scheduled"
                /\ calls' = calls \cup
                    {ModelCall("continuous_every_close", point, schedule.candidate, 0)}
                /\ schedule' = Advanced(schedule, point)
  BY DEF Deliver
<1>2. PICK i \in DOMAIN Market[s] :
            LET point == Point(s, Bars(s, closed)[i], input, policy)
            IN  /\ Verdict(schedule, point) = "scheduled"
                /\ calls' = calls \cup
                    {ModelCall("continuous_every_close", point, schedule.candidate, 0)}
                /\ schedule' = Advanced(schedule, point)
  BY <1>1
<1> DEFINE point == Point(s, Bars(s, closed)[i], input, policy)
           new == ModelCall("continuous_every_close", point, schedule.candidate, 0)
<1>3. /\ point.sequence \in Int
      /\ point.sequence > schedule.sequence
  BY <1>2, ScheduledPoints DEF ReplayInv
<1>4. /\ calls' = calls \cup {new}
      /\ schedule' = Advanced(schedule, point)
  BY <1>2
<1>5. new.sequence = point.sequence /\ new.bar = point.bar
  BY DEF ModelCall
<1>6. UNCHANGED <<closed, audit, decision, shown, results, replay>>
  BY DEF Deliver
<1> HIDE DEF point, new
<1>7. /\ schedule'.stream = Live
      /\ DOMAIN schedule' = DOMAIN schedule
      /\ schedule'.sequence = point.sequence
      /\ schedule'.bars = schedule.bars \cup {point.bar}
  BY <1>4 DEF Advanced, ReplayInv, ScheduleHolds
<1>8. ScheduleHolds'
  <2>1. ASSUME NEW call \in calls', call.mode = "continuous_every_close"
        PROVE  /\ call.sequence \in Int
               /\ call.sequence <= schedule'.sequence
               /\ call.bar \in schedule'.bars
    <3>1. CASE call = new
      BY <3>1, <1>3, <1>5, <1>7
    <3>2. CASE call \in calls
      BY <3>2, <2>1, <1>3, <1>7 DEF ReplayInv, ScheduleHolds
    <3> QED BY <3>1, <3>2, <1>4
  <2> QED BY <2>1, <1>3, <1>6, <1>7 DEF ReplayInv, ScheduleHolds
<1>9. ResultsHold' /\ QuotesAreShown'
  BY <1>4, <1>6 DEF ReplayInv, ResultsHold, QuotesAreShown
<1>10. NoFutureReachesTheModel' /\ ReplayIsCausal'
  BY <1>6 DEF NoFutureReachesTheModel, ReplayIsCausal, Open
<1> QED BY <1>8, <1>9, <1>10 DEF ReplayInv

LEMMA PlanEvaluationStep ==
    ASSUME ReplayInv, PlanEvaluation, Open
    PROVE  ReplayInv'
<1>1. /\ calls = {}
      /\ UNCHANGED <<closed, schedule, audit, decision, shown, results, replay>>
      /\ \E points : calls' = EvaluationCalls(points, Candidates, 1)
  BY DEF PlanEvaluation
<1>2. \A call \in calls' : call.mode = "evaluation_sampled"
  BY <1>1 DEF EvaluationCalls, ModelCall
<1>3. ScheduleHolds'
  BY <1>1, <1>2 DEF ReplayInv, ScheduleHolds
<1>4. ResultsHold' /\ QuotesAreShown'
  BY <1>1 DEF ReplayInv, ResultsHold, QuotesAreShown
<1>5. NoFutureReachesTheModel' /\ ReplayIsCausal'
  BY <1>1 DEF NoFutureReachesTheModel, ReplayIsCausal, Open
<1> QED BY <1>3, <1>4, <1>5 DEF ReplayInv

LEMMA AuditStep ==
    ASSUME ReplayInv, Audit, Open
    PROVE  ReplayInv'
<1>1. PICK call \in calls, case \in Cases, input \in Inputs :
        /\ RunHolds(call, case, input)
        /\ \E status \in {"accepted", "rejected"}, decided \in {Null, decision} :
            audit' = [call |-> call, case |-> case, input |-> input,
                      status |-> status, decided |-> decided # Null]
  BY DEF Audit
<1>2. UNCHANGED <<closed, schedule, calls, decision, shown, results, replay>>
  BY DEF Audit
<1>3. /\ audit'.call = call /\ audit'.case = case /\ audit'.input = input
  BY <1>1
<1>4. input.market = AnonymousMarket(case) /\ call.sequence = LastBar(case).sequence
  BY <1>1 DEF RunHolds, PolicyInput
<1>5. NoFutureReachesTheModel'
  BY <1>2, <1>3, <1>4 DEF NoFutureReachesTheModel, Cases
<1>6. ScheduleHolds' /\ ResultsHold' /\ QuotesAreShown' /\ ReplayIsCausal'
  BY <1>2 DEF ReplayInv, ScheduleHolds, ResultsHold, QuotesAreShown,
              ReplayIsCausal
<1> QED BY <1>5, <1>6 DEF ReplayInv

(* An accepted response cites only prices of the bars it was validated on. *)
LEMMA AcceptedAnchorsHold ==
    ASSUME NEW r, NEW lastVisible, NEW bars, NEW doctrine,
           ResponseHolds(r, lastVisible, bars, doctrine)
    PROVE  \A anchor \in Cited(r) : AnchorHolds(anchor, bars)
<1>1. StructuresHold(r, bars) /\ VerdictHolds(r, lastVisible, bars)
  BY DEF ResponseHolds, DecisionHolds
<1>2. \A s \in DOMAIN r.structures : \A i \in DOMAIN r.structures[s].anchors :
        AnchorHolds(r.structures[s].anchors[i], bars)
  BY <1>1 DEF StructuresHold
<1>3. ASSUME r.plan # Null
      PROVE  /\ AnchorHolds(r.plan.cancellation.anchor, bars)
             /\ AnchorHolds(r.plan.invalidation.anchor, bars)
             /\ AnchorHolds(r.plan.protection.anchor, bars)
             /\ r.plan.entry.type = "stop" => AnchorHolds(r.plan.entry.anchor, bars)
  <2>1. PlanHolds(r, lastVisible, bars)
    BY <1>1, <1>3 DEF VerdictHolds, TradeHolds
  <2> QED BY <2>1 DEF PlanHolds, ConditionHolds, EntryHolds
<1> QED BY <1>2, <1>3 DEF Cited

LEMMA DecideStep ==
    ASSUME ReplayInv, Decide, Open
    PROVE  ReplayInv'
<1>1. PICK r \in DOMAIN Response, visible \in Inputs, retrieved \in SUBSET Doctrine,
           lastVisible \in 1..ContextBars :
        /\ ResponseHolds(Response[r], lastVisible, visible.market.bars, retrieved)
        /\ shown' = visible.market.bars
        /\ decision'.response = r
  BY DEF Decide
<1>2. UNCHANGED <<closed, schedule, calls, audit, results, replay>>
  BY DEF Decide
<1>3. \A anchor \in Cited(Response[r]) : AnchorHolds(anchor, shown')
  BY <1>1, AcceptedAnchorsHold
<1>4. QuotesAreShown'
  BY <1>1, <1>3 DEF QuotesAreShown
<1>5. ScheduleHolds' /\ ResultsHold'
  BY <1>2 DEF ReplayInv, ScheduleHolds, ResultsHold
<1>6. NoFutureReachesTheModel' /\ ReplayIsCausal'
  BY <1>2 DEF NoFutureReachesTheModel, ReplayIsCausal, Open
<1> QED BY <1>4, <1>5, <1>6 DEF ReplayInv

LEMMA FreezeStep ==
    ASSUME ReplayInv, Freeze, Open
    PROVE  ReplayInv'
<1>1. PICK call \in calls : \E status : results' = {FrozenResult(call, decision, status)}
  BY DEF Freeze
<1>2. UNCHANGED <<closed, schedule, calls, audit, decision, shown, replay>>
  BY DEF Freeze
<1>3. ResultsHold'
  BY <1>1, <1>2 DEF ResultsHold, FrozenResult
<1>4. ScheduleHolds' /\ QuotesAreShown'
  BY <1>2 DEF ReplayInv, ScheduleHolds, QuotesAreShown
<1>5. NoFutureReachesTheModel' /\ ReplayIsCausal'
  BY <1>2 DEF NoFutureReachesTheModel, ReplayIsCausal, Open
<1> QED BY <1>3, <1>4, <1>5 DEF ReplayInv

(* Coverage that starts after the bar the call was made for starts after    *)
(* every bar of the Case.                                                   *)
LEMMA CoverageFollowsTheCase ==
    ASSUME closed \in 0..Len(Market[Live]), NEW case \in Cases,
           NEW p, p.stream = case.stream,
           p.cutoff \in DOMAIN Market[p.stream], p.first \in DOMAIN Market[p.stream],
           p.last \in DOMAIN Market[p.stream],
           Market[p.stream][p.cutoff].sequence = LastBar(case).sequence,
           Market[p.stream][p.first].sequence > Market[p.stream][p.cutoff].sequence
    PROVE  \A i \in DOMAIN case.bars, e \in p.first..p.last :
                case.bars[i].sequence < Market[p.stream][e].sequence
<1>1. case \in CasesAfter[closed]
  BY DEF Cases
<1> DEFINE s == case.stream
<1>2. PICK first \in DOMAIN Market[s], last \in DOMAIN Market[s] :
        /\ first <= last
        /\ Len(case.bars) = last - first + 1
        /\ DOMAIN case.bars = 1..Len(case.bars)
        /\ \A i \in DOMAIN case.bars :
            /\ first + i - 1 \in DOMAIN Market[s]
            /\ first + i - 1 <= last
            /\ case.bars[i].sequence = Market[s][first + i - 1].sequence
  BY <1>1, WindowsShowTheStream
<1>3. s \in DOMAIN Market
  BY <1>1, WindowsShowTheStream
<1>4. /\ Len(Market[s]) \in Nat /\ DOMAIN Market[s] = 1..Len(Market[s])
      /\ \A i \in DOMAIN Market[s] : Market[s][i].sequence \in Nat
      /\ \A i, j \in DOMAIN Market[s] :
            i < j => Market[s][i].sequence < Market[s][j].sequence
  BY <1>3, MarketAssumption
<1> HIDE DEF s
<1>5. \A i, j \in DOMAIN Market[s] :
            i <= j => Market[s][i].sequence <= Market[s][j].sequence
  <2> SUFFICES ASSUME NEW i \in DOMAIN Market[s], NEW j \in DOMAIN Market[s], i <= j
               PROVE  Market[s][i].sequence <= Market[s][j].sequence
    OBVIOUS
  <2>1. /\ i \in Nat /\ j \in Nat
        /\ Market[s][i].sequence \in Nat /\ Market[s][j].sequence \in Nat
    BY <1>4
  <2>2. CASE i = j
    BY <2>1, <2>2
  <2>3. CASE i < j
    <3>1. Market[s][i].sequence < Market[s][j].sequence
      BY <2>3, <1>4
    <3> QED BY <2>1, <3>1
  <2> QED BY <2>1, <2>2, <2>3
<1>6. LastBar(case).sequence = Market[s][last].sequence
  <2>1. Len(case.bars) \in DOMAIN case.bars /\ first + Len(case.bars) - 1 = last
    BY <1>2, <1>4
  <2> QED BY <2>1, <1>2 DEF LastBar
<1> SUFFICES ASSUME NEW i \in DOMAIN case.bars, NEW e \in p.first..p.last
             PROVE  case.bars[i].sequence < Market[s][e].sequence
  BY DEF s
<1>7. first + i - 1 \in DOMAIN Market[s] /\ first + i - 1 <= last
  BY <1>2
<1>8. case.bars[i].sequence <= Market[s][last].sequence
  BY <1>2, <1>5, <1>7
<1>9. p.first \in DOMAIN Market[s] /\ p.last \in DOMAIN Market[s]
  BY DEF s
<1>10. e \in DOMAIN Market[s] /\ p.first <= e
  BY <1>4, <1>9
<1>11. Market[s][p.first].sequence <= Market[s][e].sequence
  BY <1>5, <1>9, <1>10
<1>12. Market[s][p.first].sequence > Market[s][last].sequence
  BY <1>6 DEF s
<1>13. /\ case.bars[i].sequence \in Nat /\ Market[s][last].sequence \in Nat
       /\ Market[s][p.first].sequence \in Nat /\ Market[s][e].sequence \in Nat
  BY <1>2, <1>4, <1>7, <1>9, <1>10
<1> QED BY <1>8, <1>11, <1>12, <1>13

LEMMA RequestStep ==
    ASSUME ReplayInv, Request, Open
    PROVE  ReplayInv'
<1>1. PICK frozen \in results, case \in Cases, input \in Inputs,
           dataset \in Datasets, policy \in Policies :
        /\ DecisionBinds(case, input)
        /\ ResultBinds(frozen, case, input)
        /\ AnonymousMarket(case) = input.market
        /\ CaseHolds(case) /\ InputHolds(input) /\ PolicyHolds(policy)
        /\ \E s \in Streams : \E p \in Provenances(s) :
            /\ ProvenanceHolds(p)
            /\ ProvenanceBinds(p, frozen, case, input, dataset)
            /\ replay' = [case |-> case, decision |-> decision, call |-> frozen.call,
                          stream |-> s, first |-> p.first, last |-> p.last,
                          state |-> "requested", at |-> Null]
  BY DEF Request
<1>2. PICK s \in Streams : \E p \in Provenances(s) :
            /\ ProvenanceHolds(p)
            /\ ProvenanceBinds(p, frozen, case, input, dataset)
            /\ replay' = [case |-> case, decision |-> decision, call |-> frozen.call,
                          stream |-> s, first |-> p.first, last |-> p.last,
                          state |-> "requested", at |-> Null]
  BY <1>1
<1>3. PICK p \in Provenances(s) :
            /\ ProvenanceHolds(p)
            /\ ProvenanceBinds(p, frozen, case, input, dataset)
            /\ replay' = [case |-> case, decision |-> decision, call |-> frozen.call,
                          stream |-> s, first |-> p.first, last |-> p.last,
                          state |-> "requested", at |-> Null]
  BY <1>2
<1>4. UNCHANGED <<closed, schedule, calls, audit, decision, shown, results>>
  BY DEF Request
<1>5. /\ p.stream = s /\ p.cutoff \in DOMAIN Market[s]
      /\ p.first \in DOMAIN Market[s] /\ p.last \in DOMAIN Market[s]
  BY DEF Provenances
<1>6. p.stream = case.stream
  BY <1>3 DEF ProvenanceBinds
<1>7. Market[s][p.cutoff].sequence = LastBar(case).sequence
  BY <1>1, <1>3, <1>5 DEF ProvenanceBinds, ResultBinds
<1>8. Market[s][p.first].sequence > Market[s][p.cutoff].sequence
  BY <1>3, <1>5 DEF ProvenanceHolds
<1>9. \A i \in DOMAIN case.bars, e \in p.first..p.last :
            case.bars[i].sequence < Market[s][e].sequence
  BY <1>5, <1>6, <1>7, <1>8, CoverageFollowsTheCase DEF ReplayInv, ScheduleHolds
<1>10. frozen.call \in calls
  BY DEF ReplayInv, ResultsHold
<1>11. decision.input.market = AnonymousMarket(case)
  BY <1>1 DEF DecisionBinds
<1>12. /\ replay'.case = case /\ replay'.decision = decision /\ replay'.call = frozen.call
       /\ replay'.stream = s /\ replay'.first = p.first /\ replay'.last = p.last
       /\ replay'.at = Null
  BY <1>3
<1>13. ReplayIsCausal'
  BY <1>4, <1>5, <1>6, <1>9, <1>10, <1>11, <1>12 DEF ReplayIsCausal
<1>14. ScheduleHolds' /\ ResultsHold' /\ QuotesAreShown'
  BY <1>4 DEF ReplayInv, ScheduleHolds, ResultsHold, QuotesAreShown
<1>15. NoFutureReachesTheModel'
  BY <1>4 DEF NoFutureReachesTheModel, Open
<1> QED BY <1>13, <1>14, <1>15 DEF ReplayInv

LEMMA ResolveStep ==
    ASSUME ReplayInv, Resolve
    PROVE  ReplayInv'
<1>1. PICK state \in {"rejected", "resolved", "unresolved", "right_censored"},
           at \in DOMAIN Market[replay.stream] \cup {Null} :
        /\ \E artifacts : TerminalHolds(state, at, replay.first..replay.last, artifacts)
        /\ replay' = [replay EXCEPT !.state = state, !.at = at]
  BY DEF Resolve
<1>2. UNCHANGED <<closed, schedule, calls, audit, decision, shown, results>>
  BY DEF Resolve
<1>3. /\ replay'.case = replay.case /\ replay'.decision = replay.decision
      /\ replay'.call = replay.call /\ replay'.stream = replay.stream
      /\ replay'.first = replay.first /\ replay'.last = replay.last
      /\ replay'.at = at
  BY <1>1
<1>4. at # Null => at \in replay.first..replay.last
  BY <1>1 DEF TerminalHolds
<1>5. ReplayIsCausal'
  BY <1>2, <1>3, <1>4 DEF ReplayInv, ReplayIsCausal, Resolve
<1>6. ScheduleHolds' /\ ResultsHold' /\ QuotesAreShown'
  BY <1>2 DEF ReplayInv, ScheduleHolds, ResultsHold, QuotesAreShown
<1>7. NoFutureReachesTheModel'
  BY <1>2 DEF ReplayInv, NoFutureReachesTheModel, Cases
<1> QED BY <1>5, <1>6, <1>7 DEF ReplayInv

LEMMA ReplayStep ==
    ASSUME ReplayInv, [ReplayNext]_replayVars
    PROVE  ReplayInv'
<1>1. CASE Open /\ CloseBar
  BY <1>1, CloseBarStep
<1>2. CASE Open /\ Deliver
  BY <1>2, DeliverStep
<1>3. CASE Open /\ PlanEvaluation
  BY <1>3, PlanEvaluationStep
<1>4. CASE Open /\ Audit
  BY <1>4, AuditStep
<1>5. CASE Open /\ Decide
  BY <1>5, DecideStep
<1>6. CASE Open /\ Freeze
  BY <1>6, FreezeStep
<1>7. CASE Open /\ Request
  BY <1>7, RequestStep
<1>8. CASE Resolve
  BY <1>8, ResolveStep
<1>9. CASE UNCHANGED replayVars
  BY <1>9 DEF replayVars, ReplayInv, ScheduleHolds, ResultsHold,
              QuotesAreShown, NoFutureReachesTheModel, ReplayIsCausal, Cases
<1> QED BY <1>1, <1>2, <1>3, <1>4, <1>5, <1>6, <1>7, <1>8, <1>9 DEF ReplayNext

(* The invariant of the records that a call leaves behind. *)
THEOREM ReplaySafe == ReplaySpec => []ReplayInv
<1>1. ReplayInv /\ [ReplayNext]_replayVars => ReplayInv'
  BY ReplayStep
<1> QED BY ReplayInitHolds, <1>1, PTL DEF ReplaySpec

(* What an audited call was shown is the market of a Case of closed bars    *)
(* that ends where the call was scheduled.                                  *)
THEOREM AuditsSeeNoFuture == ReplaySpec => []NoFutureReachesTheModel
<1>1. ReplayInv => NoFutureReachesTheModel
  BY DEF ReplayInv
<1> QED BY <1>1, ReplaySafe, PTL

(* A replay starts after every bar its decision could have seen.            *)
THEOREM ReplaysFollowDecisions == ReplaySpec => []ReplayIsCausal
<1>1. ReplayInv => ReplayIsCausal
  BY DEF ReplayInv
<1> QED BY <1>1, ReplaySafe, PTL

-----------------------------------------------------------------------------
(* Normalisation, undone.                                                   *)

LEMMA NormalizedRoundsDown ==
    ASSUME NEW price \in Nat, NEW base \in Nat, 0 < base
    PROVE  /\ Normalized(price, base) * base <= NormalizedFirstClose * price
           /\ NormalizedFirstClose * price < (Normalized(price, base) + 1) * base
<1> DEFINE x == price * 100
           q == x \div base
<1>1. x \in Nat
  OBVIOUS
<1>2. q \in Int /\ x % base \in 0..base - 1 /\ x = base * q + (x % base)
  <2> HIDE DEF x
  <2> QED BY <1>1
<1>3. q * base <= x /\ x < (q + 1) * base
  <2> HIDE DEF x, q
  <2>1. q * base = base * q /\ (q + 1) * base = base * q + base
    BY <1>2
  <2> QED BY <1>1, <1>2, <2>1
<1>4. NormalizedFirstClose * price = x
  BY DEF NormalizedFirstClose
<1> QED BY <1>3, <1>4 DEF Normalized, NormalizedFirstClose

LEMMA QuotesArePrinted == ReplayInv => PlansQuoteTheMarket
<1> SUFFICES ASSUME ReplayInv, decision # Null,
                    NEW case \in Cases, NEW anchor \in Cited(Response[decision.response]),
                    AnonymousMarket(case).bars = shown
             PROVE  /\ anchor.bar \in DOMAIN case.bars
                    /\ case.bars[anchor.bar].closed
                    /\ LET printed == NormalizedFirstClose
                                        * case.bars[anchor.bar][anchor.field]
                       IN  /\ anchor.price * case.bars[1].close <= printed
                           /\ printed < (anchor.price + 1) * case.bars[1].close
  BY DEF PlansQuoteTheMarket
<1> DEFINE base == case.bars[1].close
<1>1. case \in CasesAfter[closed] /\ closed \in 0..Len(Market[Live])
  BY DEF Cases, ReplayInv, ScheduleHolds
<1>2. CaseHolds(case)
  BY <1>1, WindowsShowTheStream
<1>3. shown = [i \in DOMAIN case.bars |->
                [id |-> i,
                 open |-> Normalized(case.bars[i].open, base),
                 low |-> Normalized(case.bars[i].low, base),
                 close |-> Normalized(case.bars[i].close, base),
                 high |-> Normalized(case.bars[i].high, base),
                 continuity |-> case.bars[i].continuity]]
  BY DEF AnonymousMarket
<1>4. AnchorHolds(anchor, shown)
  BY DEF ReplayInv, QuotesAreShown
<1> HIDE DEF base
<1>5. /\ anchor.bar \in DOMAIN case.bars
      /\ BarOf(shown, anchor.bar) = shown[anchor.bar]
      /\ anchor.field \in PriceFields
      /\ shown[anchor.bar][anchor.field] = anchor.price
  <2>1. DOMAIN shown = DOMAIN case.bars /\ \A i \in DOMAIN shown : shown[i].id = i
    BY <1>3
  <2>2. anchor.bar \in DOMAIN shown
    BY <1>4, <2>1 DEF AnchorHolds, BarIds
  <2>3. BarOf(shown, anchor.bar) = shown[anchor.bar]
    BY <2>1, <2>2 DEF BarOf
  <2> QED BY <1>4, <2>1, <2>2, <2>3 DEF AnchorHolds
<1>6. anchor.price = Normalized(case.bars[anchor.bar][anchor.field], base)
  BY <1>3, <1>5 DEF PriceFields
<1>7. case.bars[anchor.bar].closed
  BY <1>2, <1>5 DEF CaseHolds, LocalBarsHold
<1>8. PICK first \in DOMAIN Market[case.stream] :
        /\ DOMAIN case.bars = 1..Len(case.bars) /\ Len(case.bars) \in Int
        /\ \A i \in DOMAIN case.bars :
            /\ first + i - 1 \in DOMAIN Market[case.stream]
            /\ \A field \in PriceFields :
                case.bars[i][field] = Market[case.stream][first + i - 1][field]
  <2>1. case.stream \in DOMAIN Market
    BY <1>1, WindowsShowTheStream
  <2>2. DOMAIN Market[case.stream] \subseteq Nat
    BY <2>1, MarketAssumption
  <2> QED BY <1>1, <2>2, WindowsShowTheStream
<1>9. \A i \in DOMAIN case.bars, field \in PriceFields : case.bars[i][field] \in Nat
  <2>1. case.stream \in DOMAIN Market
    BY <1>1, WindowsShowTheStream
  <2> QED BY <1>8, <2>1, MarketAssumption
<1>10. case.bars[anchor.bar][anchor.field] \in Nat
  BY <1>5, <1>9
<1>11. 1 \in DOMAIN case.bars
  BY <1>5, <1>8
<1>12. base \in Nat /\ 0 < base
  <2>1. PricesHold(case.bars[1])
    BY <1>2, <1>11 DEF CaseHolds, LocalBarsHold
  <2>2. case.bars[1].low \in Nat /\ case.bars[1].close \in Nat
    BY <1>9, <1>11 DEF PriceFields
  <2> QED BY <2>1, <2>2 DEF PricesHold, base
<1>13. LET printed == NormalizedFirstClose * case.bars[anchor.bar][anchor.field]
       IN  /\ anchor.price * base <= printed
           /\ printed < (anchor.price + 1) * base
  BY <1>6, <1>10, <1>12, NormalizedRoundsDown
<1> QED BY <1>5, <1>7, <1>13 DEF base

(* The prices of an accepted plan are printed on closed bars of every       *)
(* window that shows what the validator was shown.                          *)
THEOREM PlansQuotePrintedPrices == ReplaySpec => []PlansQuoteTheMarket
BY QuotesArePrinted, ReplaySafe, PTL

-----------------------------------------------------------------------------
(* The continuous calls, step by step.                                      *)

LEMMA DeliveriesFollowTheStream ==
    ASSUME ReplayInv, Deliver, NEW call \in calls' \ calls
    PROVE  /\ \E i \in 1..closed : /\ Market[Live][i].sequence = call.sequence
                                   /\ Market[Live][i].id = call.bar
           /\ \A earlier \in calls : earlier.mode = "continuous_every_close" =>
                earlier.sequence < call.sequence /\ earlier.bar # call.bar
<1>1. PICK s \in Streams, policy \in {EveryClose, "sampled.v1"}, input \in Inputs :
        \E i \in DOMAIN Market[s] :
            LET point == Point(s, Bars(s, closed)[i], input, policy)
            IN  /\ Verdict(schedule, point) = "scheduled"
                /\ calls' = calls \cup
                    {ModelCall("continuous_every_close", point, schedule.candidate, 0)}
  BY DEF Deliver
<1>2. PICK i \in DOMAIN Market[s] :
            LET point == Point(s, Bars(s, closed)[i], input, policy)
            IN  /\ Verdict(schedule, point) = "scheduled"
                /\ calls' = calls \cup
                    {ModelCall("continuous_every_close", point, schedule.candidate, 0)}
  BY <1>1
<1> DEFINE point == Point(s, Bars(s, closed)[i], input, policy)
<1>3. /\ i \in 1..closed
      /\ point.sequence = Market[Live][i].sequence
      /\ point.bar = Market[Live][i].id
      /\ point.sequence \in Int
      /\ point.sequence > schedule.sequence
      /\ point.bar \notin schedule.bars
  BY <1>2, ScheduledPoints DEF ReplayInv
<1>4. call = ModelCall("continuous_every_close", point, schedule.candidate, 0)
  BY <1>2
<1> HIDE DEF point
<1>5. call.sequence = point.sequence /\ call.bar = point.bar
  BY <1>4 DEF ModelCall
<1>6. ASSUME NEW earlier \in calls, earlier.mode = "continuous_every_close"
      PROVE  earlier.sequence < call.sequence /\ earlier.bar # call.bar
  <2>1. /\ earlier.sequence \in Int /\ schedule.sequence \in Int
        /\ earlier.sequence <= schedule.sequence
        /\ earlier.bar \in schedule.bars
    BY <1>6 DEF ReplayInv, ScheduleHolds
  <2> QED BY <1>3, <1>5, <2>1
<1> QED BY <1>3, <1>5, <1>6

(* Continuous calls are made once per closed bar, in the order of the       *)
(* stream.                                                                  *)
THEOREM CallsKeepTheOrder == ReplaySpec => CallsFollowTheStream
<1> DEFINE Follow ==
        \A call \in calls' \ calls : call.mode = "continuous_every_close" =>
            /\ \E i \in 1..closed : /\ Market[Live][i].sequence = call.sequence
                                    /\ Market[Live][i].id = call.bar
            /\ \A earlier \in calls : earlier.mode = call.mode =>
                earlier.sequence < call.sequence /\ earlier.bar # call.bar
<1>1. ASSUME ReplayInv, [ReplayNext]_replayVars
      PROVE  Follow \/ UNCHANGED replayVars
  <2>1. CASE Deliver
    BY <1>1, <2>1, DeliveriesFollowTheStream
  <2>2. CASE PlanEvaluation
    BY <2>2 DEF PlanEvaluation, EvaluationCalls, ModelCall
  <2>3. CASE CloseBar \/ Audit \/ Decide \/ Freeze \/ Request \/ Resolve
    BY <2>3 DEF CloseBar, Audit, Decide, Freeze, Request, Resolve
  <2> QED BY <1>1, <2>1, <2>2, <2>3 DEF ReplayNext
<1>2. ReplayInv /\ [ReplayNext]_replayVars => [Follow]_replayVars
  BY <1>1
<1> QED BY <1>2, ReplaySafe, PTL DEF ReplaySpec, CallsFollowTheStream
=============================================================================
