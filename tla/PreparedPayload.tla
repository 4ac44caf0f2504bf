-------------------------- MODULE PreparedPayload ---------------------------
(***************************************************************************)
(* Prepared payloads bind an assembly to the prompt package that is        *)
(* current: the one place where both authorities meet.                     *)
(*                                                                         *)
(* The approvals table admits exactly one package hash, so the package log *)
(* holds at most its one standard activation.  A rollback needs a target   *)
(* below the current activation, of which there is none: every rollback    *)
(* request fails and is no action here.                                    *)
(***************************************************************************)
EXTENDS PolicyAssembly

VARIABLES
    packageActive, \* the approved package has its standard activation
    payloads       \* rows of pa_prepared_policy_payloads, by their assembly

preparationVars == <<packageActive, payloads>>
preparedVars ==
    <<proposed, approved, retired, runs, activations, lastSequence, inFlight,
      overBounds, assemblies, failures, packageActive, payloads>>

PreparedInit ==
    /\ AssemblyInit
    /\ packageActive = FALSE
    /\ payloads = {}

-----------------------------------------------------------------------------
\* activate: the exact repeat is answered "existing".
ActivatePackage ==
    /\ ~packageActive
    /\ packageActive' = TRUE
    /\ UNCHANGED <<policyVars, payloads>>

\* Mutant: an assembly once made may always be prepared.
PrepareStored(x) ==
    /\ packageActive
    /\ x \in assemblies
    /\ payloads' = payloads \cup {x}
    /\ UNCHANGED <<policyVars, packageActive>>

\* prepare: the assembly must still be under the current, eligible Doctrine
\* activation; both the service and the insert trigger look.
Prepare(x) ==
    /\ packageActive
    /\ x \in assemblies
    /\ \E a \in activations :
        IsCurrent(a) /\ a.seq = x.seq /\ ChainEligible(a.run)
    /\ payloads' = payloads \cup {x}
    /\ UNCHANGED <<policyVars, packageActive>>

PreparedNext ==
    \/ AssemblyNext /\ UNCHANGED preparationVars
    \/ ActivatePackage
    \/ \E x \in assemblies : Prepare(x)

PreparedSpec == PreparedInit /\ [][PreparedNext]_preparedVars

-----------------------------------------------------------------------------
(* A payload is never prepared behind a terminal that says otherwise: no   *)
(* terminal of any Case, stored before it, binds a later activation or     *)
(* calls its own ineligible.                                               *)
PayloadsFollowTerminals ==
    [][\A x \in payloads' \ payloads, t \in Terminals :
        /\ t[2] <= x.seq
        /\ t[2] = x.seq => t[3] # "ACTIVE_CORPUS_INELIGIBLE"]_preparedVars

=============================================================================
