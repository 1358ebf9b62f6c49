-------------------------- MODULE ProgressiveAnalysis --------------------------
(***************************************************************************)
(* The sealed state of a progressive analysis                              *)
(* (db-analyzer/progressive-analysis-v1.mjs) over the controller run it    *)
(* composes (progressive-controller.mjs).  Every operation is a function   *)
(* from one sealed state to the next, and its caller commits the result by *)
(* compare-and-swap, so that an operation is one step; several callers     *)
(* interleave, and what they reserved is answered in any order or never.   *)
(* A candidate stands for its typed target (a column, or a relationship of *)
(* two), method, arguments and intent; the coverage is complete, every     *)
(* method is allowed and has capability, and the expected gain is above    *)
(* its minimum.                                                            *)
(***************************************************************************)
EXTENDS Naturals, FiniteSets

CONSTANTS Hypotheses, Tables,
          TableOf,        \* the table a hypothesis is bound to
          Columns, Intents,
          LastPhase,      \* bound: depth phases
          MaxRunProbes, MaxObjectProbes, MaxTableProbes, MaxHypothesisProbes,
          MaxNoGain, MaxCounterevidence

ASSUME TableOfAssumption == TableOf \in [Hypotheses -> Tables]
ASSUME BudgetAssumption ==
    /\ {MaxRunProbes, MaxObjectProbes, MaxTableProbes, MaxHypothesisProbes} \subseteq Nat \ {0}
    /\ {MaxNoGain, MaxCounterevidence, LastPhase} \subseteq Nat \ {0}

VARIABLES
    phase,
    probes,         \* of the controller run
    hypotheses,     \* the ledger
    reservations,   \* the candidates reserved; each has one probe in the controller run
    outcomes,       \* their outcomes: a signal, or how they failed
    reconciliations,\* what an unknown outcome was resolved to
    budget          \* the debits kept with the state

progressiveVars == <<phase, probes, hypotheses, reservations, outcomes, reconciliations, budget>>

Objects == Tables \X Columns

\* A target is a source column and, of a relationship, the column it is joined with.
Joins == {{}} \union {{o} : o \in Objects}

\* The phase and the kind of target stand for the method, which belongs to one of each.
Probes ==
    {p \in [source : Objects, joined : Joins, phase : 1..LastPhase] : p.source \notin p.joined}

\* The objects a probe is debited to.
ObjectsOf(p) == {p.source} \union p.joined

Candidates ==
    {c \in [hypothesis : Hypotheses, column : Columns, joined : Joins, phase : 1..LastPhase,
            intent : Intents] : <<TableOf[c.hypothesis], c.column>> \notin c.joined}

NearDuplicateKey(c) == <<c.hypothesis, c.column, c.joined, c.intent>>

ProbeKey(c) ==
    [source |-> <<TableOf[c.hypothesis], c.column>>, joined |-> c.joined, phase |-> c.phase]

None == "NONE"
Signals == {"SUPPORTS", "COUNTERS", "NO_GAIN"}     \* of a SUCCEEDED or PARTIAL result
Stops == {"TIMEOUT"}                 \* CANCELLED, DENIED and UNSUPPORTED do the same
Resolved == Signals \union Stops
Outcomes == Resolved \union {"UNKNOWN"}

Statuses == {"OPEN", "SUPPORTED_CANDIDATE", "COUNTEREVIDENCE_CANDIDATE", "STOPPED",
             "AWAITING_RECONCILIATION"}
EventSources == {"outcome", "reconciliation"} \X Candidates
Hypothesis == [status : Statuses, noGain : Nat, counterevidence : Nat,
               sources : SUBSET EventSources, contradictions : SUBSET EventSources]

ProgressiveTypeOK ==
    /\ phase \in 1..LastPhase /\ probes \subseteq Probes
    /\ hypotheses \in [Hypotheses -> Hypothesis]
    /\ reservations \subseteq Candidates
    /\ outcomes \in [Candidates -> Outcomes \union {None}]
    /\ reconciliations \in [Candidates -> Resolved \union {None}]
    /\ budget \in [run : Nat, objects : [Objects -> Nat],
                   tables : [Tables -> Nat], hypotheses : [Hypotheses -> Nat]]

\* The debits of a run with these probes, as validateRun recomputes them.
ProbeDebits(S, o) == Cardinality({p \in S : o \in ObjectsOf(p)})

\* A run that reached the first depth phase, perhaps with probes of its own that no
\* reservation stands for, and its hypotheses registered.
ProgressiveInit ==
    /\ phase = 1
    /\ probes \in SUBSET {p \in Probes : p.phase = 1}
    /\ IsFiniteSet(probes) /\ Cardinality(probes) <= MaxRunProbes
    /\ \A o \in Objects : ProbeDebits(probes, o) <= MaxObjectProbes
    /\ hypotheses = [h \in Hypotheses |->
          [status |-> "OPEN", noGain |-> 0, counterevidence |-> 0, sources |-> {},
           contradictions |-> {}]]
    /\ reservations = {}
    /\ outcomes = [c \in Candidates |-> None]
    /\ reconciliations = [c \in Candidates |-> None]
    /\ budget = [run |-> Cardinality(probes),
                 objects |-> [o \in Objects |-> ProbeDebits(probes, o)],
                 tables |-> [t \in Tables |-> 0], hypotheses |-> [h \in Hypotheses |-> 0]]

--------------------------------------------------------------------------------
\* Both a reservation of the candidate itself and one of a near duplicate.
Suppressed(c) == \E r \in reservations : NearDuplicateKey(r) = NearDuplicateKey(c)

\* What the eligibility leaf knows of the controller's probes: those of the reservations.
HasProbe(c) == \E r \in reservations : ProbeKey(r) = ProbeKey(c)

\* Mutant: a probe is looked for among those of the candidate's own hypothesis.
ProbedForItself(c) ==
    \E r \in reservations : ProbeKey(r) = ProbeKey(c) /\ r.hypothesis = c.hypothesis

\* REUSED_SUCCESS or SUPPRESSED_DUPLICATE of the controller.
AlreadyProbed(c) == ProbeKey(c) \in probes

\* authorizeProgressiveProbe
Authorized(c) ==
    /\ c.phase = phase
    /\ ~AlreadyProbed(c)
    /\ budget.run < MaxRunProbes
    /\ \A o \in ObjectsOf(ProbeKey(c)) : budget.objects[o] < MaxObjectProbes

\* Mutant: a stopped hypothesis is not asked about.
ReservableWhenStopped(c) ==
    /\ ~Suppressed(c)
    /\ budget.tables[TableOf[c.hypothesis]] < MaxTableProbes
    /\ budget.hypotheses[c.hypothesis] < MaxHypothesisProbes
    /\ Authorized(c)

\* When reserveProgressiveProbeCandidate answers RESERVED.
Reservable(c) ==
    /\ ~Suppressed(c)
    /\ hypotheses[c.hypothesis].status \notin {"STOPPED", "AWAITING_RECONCILIATION"}
    /\ budget.tables[TableOf[c.hypothesis]] < MaxTableProbes
    /\ budget.hypotheses[c.hypothesis] < MaxHypothesisProbes
    /\ Authorized(c)

\* When evaluateProgressiveDrilldownEligibility answers ELIGIBLE: its gates, of which the
\* object budget is not one, of a request without a receipt to resume from (with one it
\* never does).
Eligible(c) ==
    /\ c.phase = phase
    /\ hypotheses[c.hypothesis].status \notin {"STOPPED", "AWAITING_RECONCILIATION"}
    /\ hypotheses[c.hypothesis].noGain < MaxNoGain
    /\ hypotheses[c.hypothesis].counterevidence < MaxCounterevidence
    /\ budget.run < MaxRunProbes
    /\ budget.tables[TableOf[c.hypothesis]] < MaxTableProbes
    /\ budget.hypotheses[c.hypothesis] < MaxHypothesisProbes
    /\ ~Suppressed(c) /\ ~HasProbe(c)

ReserveCandidate(c) ==
    /\ Reservable(c)
    /\ reservations' = reservations \union {c}
    /\ probes' = probes \union {ProbeKey(c)}
    /\ budget' = [run |-> budget.run + 1,
                   objects |-> [o \in Objects |->
                       budget.objects[o] + IF o \in ObjectsOf(ProbeKey(c)) THEN 1 ELSE 0],
                   tables |-> [budget.tables EXCEPT ![TableOf[c.hypothesis]] = @ + 1],
                   hypotheses |-> [budget.hypotheses EXCEPT ![c.hypothesis] = @ + 1]]
    /\ UNCHANGED <<phase, hypotheses, outcomes, reconciliations>>

\* The status is that of the last event, whatever it was before.
updateHypothesis(h, event, source) ==
    LET old == hypotheses[h]
        noGain == IF event = "NO_GAIN" THEN old.noGain + 1 ELSE 0
        counters == IF event = "COUNTERS" THEN old.counterevidence + 1 ELSE 0
    IN [status |-> CASE event = "UNKNOWN" -> "AWAITING_RECONCILIATION"
                     [] event \in Stops -> "STOPPED"
                     [] event = "SUPPORTS" -> "SUPPORTED_CANDIDATE"
                     [] event = "COUNTERS" -> IF counters >= MaxCounterevidence
                                              THEN "STOPPED" ELSE "COUNTEREVIDENCE_CANDIDATE"
                     [] OTHER -> IF noGain >= MaxNoGain THEN "STOPPED" ELSE "OPEN",
        noGain |-> noGain,
        counterevidence |-> counters,
        sources |-> old.sources \union {source},
        contradictions |-> old.contradictions \union (IF event = "COUNTERS" THEN {source} ELSE {})]

\* recordProgressiveProbeOutcome: of a reservation without an outcome.
RecordOutcome(c, event) ==
    /\ c \in reservations /\ outcomes[c] = None
    /\ outcomes' = [outcomes EXCEPT ![c] = event]
    /\ hypotheses' = [hypotheses EXCEPT ![c.hypothesis] =
                         updateHypothesis(c.hypothesis, event, <<"outcome", c>>)]
    /\ UNCHANGED <<phase, probes, reservations, reconciliations, budget>>

\* reconcileProgressiveUnknownOutcome: of an unknown outcome without a reconciliation.
Reconcile(c, event) ==
    /\ outcomes[c] = "UNKNOWN" /\ reconciliations[c] = None
    /\ reconciliations' = [reconciliations EXCEPT ![c] = event]
    /\ hypotheses' = [hypotheses EXCEPT ![c.hypothesis] =
                         updateHypothesis(c.hypothesis, event, <<"reconciliation", c>>)]
    /\ UNCHANGED <<phase, probes, reservations, outcomes, budget>>

\* advanceProgressiveAnalysisPhase
AdvancePhase ==
    /\ phase < LastPhase
    /\ phase' = phase + 1
    /\ UNCHANGED <<probes, hypotheses, reservations, outcomes, reconciliations, budget>>

ProgressiveNext ==
    \/ \E c \in Candidates :
         \/ ReserveCandidate(c)
         \/ \E e \in Outcomes : RecordOutcome(c, e)
         \/ \E e \in Resolved : Reconcile(c, e)
    \/ AdvancePhase

ProgressiveSpec == ProgressiveInit /\ [][ProgressiveNext]_progressiveVars
--------------------------------------------------------------------------------
\* The probes the run had before the analysis.
RunsOwnProbes == probes \ {ProbeKey(r) : r \in reservations}

(* What the eligibility leaf answers, the controller does: a request is eligible exactly
   when its reservation would be made, but for two things only the controller knows: the
   budgets of the objects the target is debited to, and the probes the run had of its
   own, for which the leaf still answers ELIGIBLE where a reservation is suppressed. *)
EligibilityAgrees ==
    \A c \in Candidates :
        Reservable(c) <=> /\ Eligible(c)
                          /\ ProbeKey(c) \notin RunsOwnProbes
                          /\ \A o \in ObjectsOf(ProbeKey(c)) : budget.objects[o] < MaxObjectProbes

Debited(n, S, max) == n = Cardinality(S) /\ n <= max

DebitsFit ==
    /\ Debited(budget.run, probes, MaxRunProbes)
    /\ \A o \in Objects :
         Debited(budget.objects[o], {p \in probes : o \in ObjectsOf(p)}, MaxObjectProbes)
    /\ \A t \in Tables :
         Debited(budget.tables[t], {c \in reservations : TableOf[c.hypothesis] = t}, MaxTableProbes)
    /\ \A h \in Hypotheses :
         Debited(budget.hypotheses[h], {c \in reservations : c.hypothesis = h}, MaxHypothesisProbes)

Signal(e) == IF e[1] = "outcome" THEN outcomes[e[2]] ELSE reconciliations[e[2]]

Events(h) == {e \in EventSources : e[2].hypothesis = h /\ Signal(e) # None}

EventsFit ==
    /\ \A c \in Candidates : outcomes[c] # None => c \in reservations
    /\ \A c \in Candidates : reconciliations[c] # None => outcomes[c] = "UNKNOWN"
    /\ \A h \in Hypotheses :
         /\ hypotheses[h].sources = Events(h)
         /\ hypotheses[h].contradictions = {e \in Events(h) : Signal(e) = "COUNTERS"}

(* The states the operations produce are states validateState accepts, so that no run
   ends in one that cannot be resumed: debits are those of the probes and reservations and
   within the budgets, every reservation has a probe of its own, outcomes are of
   reservations, reconciliations of unknown outcomes, and the ledger cites exactly the
   recorded events. *)
StateStaysValid ==
    /\ DebitsFit /\ EventsFit
    /\ \A c \in reservations : ProbeKey(c) \in probes
    /\ \A c, d \in reservations : ProbeKey(c) = ProbeKey(d) => c = d

(* A branch with an unknown outcome is held until the outcome is reconciled: no probe of
   its hypothesis is reserved before ("stops the branch pending a separate hash-bound
   readback reconciliation", docs/decisions/PROGRESSIVE-ANALYSIS-V1.md). *)
UnknownHoldsTheBranch ==
    [][\A c \in reservations' \ reservations : \A d \in reservations :
          d.hypothesis = c.hypothesis /\ outcomes[d] = "UNKNOWN"
             => reconciliations[d] # None]_progressiveVars
================================================================================
