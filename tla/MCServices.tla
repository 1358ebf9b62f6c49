------------------------------ MODULE MCServices ------------------------------
(***************************************************************************)
(* One instance of each component that shares no state with the others: a  *)
(* behaviour is a behaviour of one of them, "component", and the others    *)
(* rest in their initial states.  The same model values stand for the      *)
(* sources of one component, the runtimes of another and so on, so that    *)
(* one small symmetry group serves all; lifecycle calls are numbers and    *)
(* begin in their order instead.                                           *)
(***************************************************************************)
EXTENDS OperationLifecycle, NativeBroker, MCProgressiveAnalysis, ProjectionPublication,
        SupersetInstall, BrowserStarter, PortableLifecycle

CONSTANTS PairA, PairB, PairC

ServicesSymmetry == Permutations(PairA) \union Permutations(PairB) \union Permutations(PairC)

VARIABLE component

vars == <<lifecycleVars, brokerVars, progressiveVars, publicationVars, installVars, starterVars,
          portableVars, component>>

Init ==
    /\ LifecycleInit /\ BrokerInit /\ ProgressiveInit /\ PublicationInit
    /\ InstallInit /\ StarterInit /\ PortableInit
    /\ component \in {"lifecycle", "broker", "progressive", "publication", "install",
                      "starter", "portable"}
    /\ component # "progressive" => probes = {}

\* Every call is made once: which one is made first makes no difference.
InOrder ==
    \A c, d \in LifecycleCalls : stage[c] # "idle" /\ d < c => stage[d] # "idle"

\* Nothing is claimed of what follows a careless recovery: the third call is then not
\* started, and no call goes beyond taking the marker.
CarelessBound ==
    careless => /\ \E c \in LifecycleCalls : stage[c] = "idle"
                /\ \A c \in LifecycleCalls :
                        stage[c] \in {"idle", "write", "check", "failing", "over"}

\* Bound: calls of the broker in flight at a time.
TwoCalls == Cardinality({p \in Runtimes \X Operations : calls[p[1]][p[2]].at \in Phases}) <= 2

Next ==
    /\ \/ /\ component = "lifecycle" /\ LifecycleNext /\ (InOrder /\ CarelessBound)'
          /\ UNCHANGED <<brokerVars, progressiveVars, publicationVars, installVars, starterVars,
                         portableVars>>
       \/ /\ component = "broker" /\ BrokerNext /\ TwoCalls'
          /\ UNCHANGED <<lifecycleVars, progressiveVars, publicationVars, installVars, starterVars,
                         portableVars>>
       \/ /\ component = "progressive" /\ ProgressiveNext
          /\ UNCHANGED <<lifecycleVars, brokerVars, publicationVars, installVars, starterVars,
                         portableVars>>
       \/ /\ component = "publication" /\ PublicationNext
          /\ UNCHANGED <<lifecycleVars, brokerVars, progressiveVars, installVars, starterVars,
                         portableVars>>
       \/ /\ component = "install" /\ InstallNext
          /\ UNCHANGED <<lifecycleVars, brokerVars, progressiveVars, publicationVars, starterVars,
                         portableVars>>
       \/ /\ component = "starter" /\ StarterNext
          /\ UNCHANGED <<lifecycleVars, brokerVars, progressiveVars, publicationVars, installVars,
                         portableVars>>
       \/ /\ component = "portable" /\ PortableNext
          /\ UNCHANGED <<lifecycleVars, brokerVars, progressiveVars, publicationVars, installVars,
                         starterVars>>
    /\ UNCHANGED component

Spec == Init /\ [][Next]_vars

(* The type invariants of all the components of this module. *)
ServicesTypeOK ==
    /\ LifecycleTypeOK /\ BrokerTypeOK /\ ProgressiveTypeOK /\ PublicationTypeOK
    /\ InstallTypeOK /\ StarterTypeOK /\ PortableTypeOK
================================================================================
