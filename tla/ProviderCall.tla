---------------------------- MODULE ProviderCall ----------------------------
(***************************************************************************)
(* One offline provider call after another, or several at once: the        *)
(* isolated workspace of a call, the supervised process group that runs in *)
(* it, and the envelope decoded from what it printed, in the order the     *)
(* tests compose them.  The lab process is single threaded: an action is   *)
(* what runs between two awaits, or one event of the child (a chunk, an    *)
(* exit, a timer).  A group is a leader, whose output is piped, and at     *)
(* most one descendant, whose output is ignored.                           *)
(***************************************************************************)
EXTENDS Integers, FiniteSets

CONSTANTS
    Calls,  \* calls a caller makes
    Bases,  \* base directories
    BaseOf, \* BaseOf[c]: where a call stages its workspace
    Files,  \* number of staged artifacts
    Modes,  \* what a fixture does
    NoMode, \* mode of a call that has not started a process
    OutCap, \* stdout limit, 262144 bytes
    ErrCap  \* stderr limit, 65536 bytes

\* out and err are what the leader prints, status what it exits with unless it
\* hangs, child its descendant, envelope what the printed bytes are.
ModeType == [out : Nat, err : Nat, status : Nat, hangs : BOOLEAN,
             child : {"none", "plain", "resistant"},
             envelope : {"closed", "tool", "other"}]

ASSUME ProviderAssumption ==
    /\ BaseOf \in [Calls -> Bases]
    /\ Files \in Nat \ {0}
    /\ Modes \subseteq ModeType /\ NoMode \notin Modes
    /\ OutCap \in Nat /\ ErrCap \in Nat

VARIABLES
    pc,      \* where a call is
    staged,  \* artifacts in its workspace directory, -1 without a directory
    active,  \* activeFixtureProcess
    mode,    \* what its process does
    alive,   \* processes <<call, "leader">> and <<call, "child">>
    doomed,  \* processes a signal will end
    forked,  \* calls whose descendant was started
    written, \* bytes the leader has printed, and what arrived of them
    heard,
    exit,    \* exit code of the leader, or one of the two below
    fired,   \* which of the timers "timeout" and "force" have run
    limited, \* outputResourceLimit
    spawnFailed,
    result   \* terminal status and decoded envelope

vars == <<pc, staged, active, mode, alive, doomed, forked, written, heard, exit,
          fired, limited, spawnFailed, result>>

processVars == <<mode, alive, doomed, forked, written, heard, exit, fired, limited,
                 spawnFailed>>

Unknown == -1

Signalled == -2

-----------------------------------------------------------------------------
Init ==
    /\ pc = [c \in Calls |-> "idle"]
    /\ staged = [c \in Calls |-> -1]
    /\ active = FALSE
    /\ mode = [c \in Calls |-> NoMode]
    /\ alive = {} /\ doomed = {} /\ forked = {}
    /\ written = [c \in Calls |-> [out |-> 0, err |-> 0]]
    /\ heard = [c \in Calls |-> [out |-> 0, err |-> 0]]
    /\ exit = [c \in Calls |-> Unknown]
    /\ fired = [c \in Calls |-> {}]
    /\ limited = {} /\ spawnFailed = {}
    /\ result = [c \in Calls |-> [status |-> "none", code |-> "none"]]

Goto(c, place) == pc' = [pc EXCEPT ![c] = place]

Group(c) == {<<c, "leader">>, <<c, "child">>} \cap alive

-----------------------------------------------------------------------------
\* createIsolatedProviderWorkspace: validation, and the base is empty.
CheckBase(c) ==
    /\ pc[c] = "idle"
    /\ \A d \in Calls : BaseOf[d] = BaseOf[c] => staged[d] = -1
    /\ Goto(c, "checked")
    /\ UNCHANGED <<staged, active, result>> /\ UNCHANGED processVars

\* The base is not empty, or the input is invalid.
RefuseWorkspace(c) ==
    /\ pc[c] = "idle"
    /\ Goto(c, "failed")
    /\ UNCHANGED <<staged, active, result>> /\ UNCHANGED processVars

\* mkdtemp: a directory of its own, even if two calls found the base empty.
MakeDirectory(c) ==
    /\ pc[c] = "checked"
    /\ Goto(c, "staging")
    /\ staged' = [staged EXCEPT ![c] = 0]
    /\ UNCHANGED <<active, result>> /\ UNCHANGED processVars

WriteArtifact(c) ==
    /\ pc[c] = "staging"
    /\ staged[c] < Files
    /\ staged' = [staged EXCEPT ![c] = @ + 1]
    /\ UNCHANGED <<pc, active, result>> /\ UNCHANGED processVars

\* The directory holds exactly the artifacts.
FinishWorkspace(c) ==
    /\ pc[c] = "staging"
    /\ staged[c] = Files
    /\ Goto(c, "staged")
    /\ UNCHANGED <<staged, active, result>> /\ UNCHANGED processVars

\* Mutant: the catch block leaves what was written.
AbandonAndLeave(c) ==
    /\ pc[c] \in {"checked", "staging"}
    /\ Goto(c, "failed")
    /\ UNCHANGED <<staged, active, result>> /\ UNCHANGED processVars

\* A write, chmod or check fails: the catch block removes the directory.
AbandonWorkspace(c) ==
    /\ pc[c] \in {"checked", "staging"}
    /\ Goto(c, "failed")
    /\ staged' = [staged EXCEPT ![c] = -1]
    /\ UNCHANGED <<active, result>> /\ UNCHANGED processVars

-----------------------------------------------------------------------------
\* runOfflineProviderFixtureProcess up to its first await.
Call(c) ==
    /\ pc[c] = "staged"
    /\ IF active THEN Goto(c, "refused") /\ UNCHANGED active
                 ELSE Goto(c, "validating") /\ active' = TRUE
    /\ UNCHANGED <<staged, result>> /\ UNCHANGED processVars

\* The envelope, timeout, workspace, fixture or mode is refused.
RefuseCall(c) ==
    /\ pc[c] = "validating"
    /\ Goto(c, "refused")
    /\ active' = FALSE
    /\ UNCHANGED <<staged, result>> /\ UNCHANGED processVars

\* spawnFixture, detached: the leader is a group of its own.
Spawn(c) ==
    /\ pc[c] = "validating"
    /\ Goto(c, "running")
    /\ mode' \in {[mode EXCEPT ![c] = m] : m \in Modes}
    /\ alive' = alive \cup {<<c, "leader">>}
    /\ UNCHANGED <<staged, active, doomed, forked, written, heard, exit, fired,
                   limited, spawnFailed, result>>

\* The system has no process to give: an error event and no leader.
SpawnFails(c) ==
    /\ pc[c] = "validating"
    /\ Goto(c, "running")
    /\ mode' \in {[mode EXCEPT ![c] = m] : m \in Modes}
    /\ spawnFailed' = spawnFailed \cup {c}
    /\ UNCHANGED <<staged, active, alive, doomed, forked, written, heard, exit,
                   fired, limited, result>>

-----------------------------------------------------------------------------
Runs(c) == <<c, "leader">> \in alive

Said(c) == written[c].out = mode[c].out /\ written[c].err = mode[c].err

\* The leader prints one more unit, or starts its descendant.
Write(c, stream) ==
    /\ Runs(c)
    /\ written[c][stream] < mode[c][stream]
    /\ written' = [written EXCEPT ![c][stream] = @ + 1]
    /\ UNCHANGED <<pc, staged, active, mode, alive, doomed, forked, heard, exit,
                   fired, limited, spawnFailed, result>>

Fork(c) ==
    /\ Runs(c)
    /\ mode[c].child # "none" /\ c \notin forked
    /\ forked' = forked \cup {c}
    /\ alive' = alive \cup {<<c, "child">>}
    /\ UNCHANGED <<pc, staged, active, mode, doomed, written, heard, exit, fired,
                   limited, spawnFailed, result>>

\* The leader is done.
Exit(c) ==
    /\ Runs(c)
    /\ Said(c) /\ ~mode[c].hangs /\ (mode[c].child # "none" => c \in forked)
    /\ alive' = alive \ {<<c, "leader">>}
    /\ exit' = [exit EXCEPT ![c] = mode[c].status]
    /\ UNCHANGED <<pc, staged, active, mode, doomed, forked, written, heard, fired,
                   limited, spawnFailed, result>>

\* A signal takes effect.
Die(p) ==
    /\ p \in alive \cap doomed
    /\ alive' = alive \ {p}
    /\ exit' = IF p[2] = "leader" THEN [exit EXCEPT ![p[1]] = Signalled] ELSE exit
    /\ UNCHANGED <<pc, staged, active, mode, doomed, forked, written, heard, fired,
                   limited, spawnFailed, result>>

-----------------------------------------------------------------------------
\* signalGroup: SIGTERM ends what does not resist it, SIGKILL everything.
Terminated(c) ==
    {p \in Group(c) : ~(p[2] = "child" /\ mode[c].child = "resistant")}

\* A chunk arrives; the first byte over a limit ends the group.
Hear(c, stream, cap) ==
    /\ pc[c] = "running"
    /\ heard[c][stream] < written[c][stream]
    /\ heard' = [heard EXCEPT ![c][stream] = @ + 1]
    /\ IF heard[c][stream] + 1 > cap /\ c \notin limited
       THEN limited' = limited \cup {c} /\ doomed' = doomed \cup Terminated(c)
       ELSE UNCHANGED <<limited, doomed>>
    /\ UNCHANGED <<pc, staged, active, mode, alive, forked, written, exit, fired,
                   spawnFailed, result>>

TimeoutFires(c) ==
    /\ pc[c] = "running"
    /\ "timeout" \notin fired[c]
    /\ fired' = [fired EXCEPT ![c] = @ \cup {"timeout"}]
    /\ doomed' = doomed \cup Terminated(c)
    /\ UNCHANGED <<pc, staged, active, mode, alive, forked, written, heard, exit,
                   limited, spawnFailed, result>>

TimedOut(c) == "timeout" \in fired[c]

\* The timer terminateGroup armed, 100 ms later.
ForceKill(c) ==
    /\ pc[c] = "running"
    /\ TimedOut(c) \/ c \in limited
    /\ "force" \notin fired[c]
    /\ fired' = [fired EXCEPT ![c] = @ \cup {"force"}]
    /\ doomed' = doomed \cup Group(c)
    /\ UNCHANGED <<pc, staged, active, mode, alive, forked, written, heard, exit,
                   limited, spawnFailed, result>>

-----------------------------------------------------------------------------
\* Mutant: a timeout is reported although output was cut off.
StatusTimeoutFirst(c) ==
    CASE TimedOut(c) -> "timeout"
      [] ~TimedOut(c) /\ c \in limited -> "output_resource_limit"
      [] ~TimedOut(c) /\ c \notin limited /\
         (c \in spawnFailed \/ exit[c] # 0 \/ heard[c].err # 0) -> "transport_error"
      [] OTHER -> "response_received"

\* terminalStatus.
TerminalStatus(c) ==
    CASE c \in limited -> "output_resource_limit"
      [] TimedOut(c) /\ c \notin limited -> "timeout"
      [] ~TimedOut(c) /\ c \notin limited /\
         (c \in spawnFailed \/ exit[c] # 0 \/ heard[c].err # 0) -> "transport_error"
      [] OTHER -> "response_received"

\* decodeProviderCliTerminalEnvelope of the kept bytes, "none" when it decodes.
Decode(c) ==
    CASE heard[c].out = 0 -> "STRICT_JSON_REJECTED"
      [] heard[c].out > OutCap -> "OUTPUT_RESOURCE_LIMIT"
      [] OTHER -> CASE mode[c].envelope = "closed" -> "none"
                    [] mode[c].envelope = "tool" -> "TOOL_OR_SUBAGENT_USED"
                    [] OTHER -> "STRICT_JSON_REJECTED"

\* Mutant: the exit of the leader is enough, its pipes need not be drained.
ClosedOnExit(c) == ~Runs(c)

\* The close event: the leader is gone and its pipes are empty.
Closed(c) == ~Runs(c) /\ heard[c] = written[c]

\* Mutant: no signal follows the close event.
SettleQuietly(c) ==
    /\ pc[c] = "running"
    /\ Closed(c)
    /\ result' = [result EXCEPT ![c] =
            [status |-> TerminalStatus(c),
             code |-> IF TerminalStatus(c) = "response_received" THEN Decode(c) ELSE "none"]]
    /\ active' = FALSE
    /\ Goto(c, "settled")
    /\ UNCHANGED <<staged, mode, alive, doomed, forked, written, heard, exit, fired,
                   limited, spawnFailed>>

\* What follows the close event, up to the answer and the reset of the flag; the
\* caller decodes a response.
Settle(c) ==
    /\ pc[c] = "running"
    /\ Closed(c)
    /\ doomed' = IF TimedOut(c) \/ c \in limited THEN doomed \cup Group(c) ELSE doomed
    /\ result' = [result EXCEPT ![c] =
            [status |-> TerminalStatus(c),
             code |-> IF TerminalStatus(c) = "response_received" THEN Decode(c) ELSE "none"]]
    /\ active' = FALSE
    /\ Goto(c, "settled")
    /\ UNCHANGED <<staged, mode, alive, forked, written, heard, exit, fired, limited,
                   spawnFailed>>

\* cleanup, in the caller's finally block.
Cleanup(c) ==
    /\ pc[c] \in {"settled", "refused"}
    /\ Goto(c, "cleaned")
    /\ staged' = [staged EXCEPT ![c] = -1]
    /\ UNCHANGED <<active, result>> /\ UNCHANGED processVars

-----------------------------------------------------------------------------
Events(c) ==
    \/ \E stream \in {"out", "err"} : Write(c, stream)
    \/ Fork(c)
    \/ Exit(c)
    \/ \E p \in {<<c, "leader">>, <<c, "child">>} : Die(p)
    \/ Hear(c, "out", OutCap)
    \/ Hear(c, "err", ErrCap)
    \/ Settle(c)

Steps(c) ==
    \/ CheckBase(c)
    \/ RefuseWorkspace(c)
    \/ MakeDirectory(c)
    \/ WriteArtifact(c)
    \/ FinishWorkspace(c)
    \/ AbandonWorkspace(c)
    \/ Call(c)
    \/ RefuseCall(c)
    \/ Spawn(c)
    \/ SpawnFails(c)
    \/ Cleanup(c)

Next == \E c \in Calls : Steps(c) \/ Events(c) \/ TimeoutFires(c) \/ ForceKill(c)

Spec == Init /\ [][Next]_vars

\* The event loop runs what is ready, timers run out, and the system delivers
\* signals and bytes.
FairSpec ==
    /\ Spec
    /\ \A c \in Calls : /\ WF_vars(Steps(c)) /\ WF_vars(Events(c))
                        /\ WF_vars(TimeoutFires(c)) /\ WF_vars(ForceKill(c))

-----------------------------------------------------------------------------
\* When a call is answered with a timeout or an output limit, every process of
\* its group is dead or has been sent a signal it cannot survive, a descendant
\* that ignores SIGTERM and was forked at any moment included.
NothingOutlives ==
    \A c \in Calls :
        /\ pc[c] \in {"settled", "cleaned"}
        /\ result[c].status \in {"timeout", "output_resource_limit"}
        => Group(c) \subseteq doomed

\* A response is everything a process printed that exited by itself with status
\* 0 and printed no diagnostics, and it decodes only if it is one closed
\* envelope without tool use.
ResponsesAreWhole ==
    \A c \in Calls : result[c].status = "response_received" =>
        /\ exit[c] = 0 /\ mode[c].err = 0
        /\ heard[c].out = mode[c].out /\ heard[c].out =< OutCap
        /\ result[c].code = "none" => mode[c].envelope = "closed" /\ mode[c].out > 0

\* A call whose kept output is not all that arrived is reported as limited, not
\* as the timeout that fired while it was being ended.
LimitsAreReported ==
    \A c \in Calls : result[c].status # "none" =>
        (result[c].status = "output_resource_limit" <=>
            heard[c].out > OutCap \/ heard[c].err > ErrCap)

\* Every call ends with its workspace removed, or never had one.
EveryCallEnds ==
    \A c \in Calls : <>[](pc[c] \in {"cleaned", "failed"} /\ staged[c] = -1)
=============================================================================
