--------------------------- MODULE PolicyAssembly ---------------------------
(***************************************************************************)
(* Policy Assembly: one SERIALIZABLE transaction per request, which binds  *)
(* a Case to the current Doctrine activation or records why it cannot.     *)
(* Both kinds of terminal record are immutable and accumulate; a request   *)
(* that repeats one is answered with it and writes nothing.                *)
(*                                                                         *)
(* Steps are taken in the serialization order, like those of               *)
(* CorpusActivation; what a transaction may miss of the commit order is    *)
(* the subject of AuthorityLocks.                                          *)
(***************************************************************************)
EXTENDS CorpusActivation

CONSTANT Cases  \* stored synthetic Cases authorized for this deployment

VARIABLES
    overBounds,  \* bounds the pilot's snapshot exceeds: entries, bytes
    assemblies,  \* rows of pa_policy_assemblies with all their bindings
    failures     \* rows of pa_policy_assembly_failures

assemblyVars == <<overBounds, assemblies, failures>>
policyVars ==
    <<proposed, approved, retired, runs, activations, lastSequence, inFlight,
      overBounds, assemblies, failures>>

-----------------------------------------------------------------------------
\* An activation is named by its sequence; 0 stands for "none".  It fixes
\* the run, the snapshot, the count and the byte length.
Assemblies == [case : Cases, seq : 1..MaxSequence]

FailureCodes ==
    {"ACTIVATION_UNAVAILABLE", "ACTIVE_CORPUS_INELIGIBLE",
     "DOCTRINE_COUNT_EXCEEDED", "DOCTRINE_CONTEXT_BYTES_EXCEEDED"}

PolicyFailures == [case : Cases, seq : 0..MaxSequence, code : FailureCodes]

AssemblyOf(c, n) == [case |-> c, seq |-> n]

FailureOf(c, n, code) == [case |-> c, seq |-> n, code |-> code]

FailedOn(c, n) == \E f \in failures : f.case = c /\ f.seq = n

Bounds == {"count", "bytes"}

AssemblyTypeOK ==
    /\ TypeOK
    /\ overBounds \subseteq Bounds
    /\ assemblies \subseteq Assemblies
    /\ failures \subseteq PolicyFailures

\* Every activated snapshot is the pilot's, whose size the committed
\* fixtures fix once and for all; each outcome of measuring it is checked.
AssemblyInit ==
    /\ Init
    /\ overBounds \in SUBSET Bounds
    /\ assemblies = {}
    /\ failures = {}

-----------------------------------------------------------------------------
RecordFailure(c, n, code) ==
    /\ failures' = failures \cup {FailureOf(c, n, code)}
    /\ UNCHANGED <<corpusVars, overBounds, assemblies>>

AssembleUnavailable(c) ==
    /\ activations = {}
    /\ RecordFailure(c, 0, "ACTIVATION_UNAVAILABLE")

\* Unlike the bounded failures below, this one is accepted beside a success.
AssembleIneligible(c) ==
    \E a \in activations :
        /\ IsCurrent(a)
        /\ ~ChainEligible(a.run)
        /\ RecordFailure(c, a.seq, "ACTIVE_CORPUS_INELIGIBLE")

AssembleTooMany(c) ==
    \E a \in activations :
        /\ IsCurrent(a)
        /\ ChainEligible(a.run)
        /\ "count" \in overBounds
        /\ AssemblyOf(c, a.seq) \notin assemblies
        /\ RecordFailure(c, a.seq, "DOCTRINE_COUNT_EXCEEDED")

\* Mutant: the byte length is measured before the entries are counted.
AssembleTooLargeUncounted(c) ==
    \E a \in activations :
        /\ IsCurrent(a)
        /\ ChainEligible(a.run)
        /\ "bytes" \in overBounds
        /\ AssemblyOf(c, a.seq) \notin assemblies
        /\ RecordFailure(c, a.seq, "DOCTRINE_CONTEXT_BYTES_EXCEEDED")

AssembleTooLarge(c) ==
    \E a \in activations :
        /\ IsCurrent(a)
        /\ ChainEligible(a.run)
        /\ overBounds = {"bytes"}
        /\ AssemblyOf(c, a.seq) \notin assemblies
        /\ RecordFailure(c, a.seq, "DOCTRINE_CONTEXT_BYTES_EXCEEDED")

\* Mutant: a rollback is assembled under the activation it restores.
AssembleOnTarget(c) ==
    \E a, b \in activations :
        /\ IsCurrent(a)
        /\ b.seq = IF a.kind = "rollback" THEN a.target ELSE a.seq
        /\ ChainEligible(b.run)
        /\ overBounds = {}
        /\ assemblies' = assemblies \cup {AssemblyOf(c, b.seq)}
        /\ UNCHANGED <<corpusVars, overBounds, failures>>

\* Mutant: neither service nor trigger looks at retirements.
AssembleRetired(c) ==
    \E a \in activations :
        /\ IsCurrent(a)
        /\ ChainPassed(a.run)
        /\ overBounds = {}
        /\ assemblies' = assemblies \cup {AssemblyOf(c, a.seq)}
        /\ UNCHANGED <<corpusVars, overBounds, failures>>

\* The input, the assembly and its ordered bindings are one transaction.
AssembleSuccess(c) ==
    \E a \in activations :
        /\ IsCurrent(a)
        /\ ChainEligible(a.run)
        /\ overBounds = {}
        /\ ~FailedOn(c, a.seq)
        /\ assemblies' = assemblies \cup {AssemblyOf(c, a.seq)}
        /\ UNCHANGED <<corpusVars, overBounds, failures>>

Assemble(c) ==
    \/ AssembleUnavailable(c)
    \/ AssembleIneligible(c)
    \/ AssembleTooMany(c)
    \/ AssembleTooLarge(c)
    \/ AssembleSuccess(c)

AssemblyNext ==
    \/ Next /\ UNCHANGED assemblyVars
    \/ \E c \in Cases : Assemble(c)

AssemblySpec == AssemblyInit /\ [][AssemblyNext]_policyVars

-----------------------------------------------------------------------------
\* Every terminal record names one activation, or 0 for none.
Terminals == {<<x.case, x.seq, "SUCCESS">> : x \in assemblies}
             \cup {<<f.case, f.seq, f.code>> : f \in failures}

(* No terminal binds an authority older than one already bound by another, *)
(* whatever was rolled back, drawn early, committed late or retired: the   *)
(* sequence named by new terminals never decreases.                        *)
TerminalsFollowAuthority ==
    [][\A t \in Terminals' \ Terminals, s \in Terminals : s[2] <= t[2]]_policyVars

(* Once any Case met an ineligible activation, no Case is ever assembled   *)
(* under that activation again: nothing makes it eligible a second time.   *)
IneligibleEndsAssembly ==
    [][\A x \in assemblies' \ assemblies, f \in failures :
        f.code = "ACTIVE_CORPUS_INELIGIBLE" => f.seq # x.seq]_policyVars

(* For one Case and activation there is one verdict, whatever is retried:  *)
(* a success, too many entries or too many bytes.  Only a retirement can   *)
(* add a second terminal.                                                  *)
OneVerdictPerActivation ==
    \A s, t \in Terminals :
        s[1] = t[1] /\ s[2] = t[2] /\ s # t =>
            /\ "ACTIVE_CORPUS_INELIGIBLE" \in {s[3], t[3]}
            /\ \E a \in activations : a.seq = s[2] /\ a.run.snapshot \cap retired # {}

=============================================================================
