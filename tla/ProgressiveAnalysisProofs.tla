---------------------- MODULE ProgressiveAnalysisProofs ----------------------
(***************************************************************************)
(* Proofs about ProgressiveAnalysis for any hypotheses, tables, columns,   *)
(* intents, phases and budgets.                                            *)
(***************************************************************************)
EXTENDS ProgressiveAnalysis, FiniteSetTheorems, TLAPS

\* A hypothesis that may be probed is below the limits that stop it.
LedgerFits ==
    \A h \in Hypotheses :
        hypotheses[h].status \notin {"STOPPED", "AWAITING_RECONCILIATION"} =>
            hypotheses[h].noGain < MaxNoGain /\ hypotheses[h].counterevidence < MaxCounterevidence

ProgressiveInv ==
    /\ ProgressiveTypeOK /\ IsFiniteSet(reservations) /\ IsFiniteSet(probes)
    /\ LedgerFits /\ StateStaysValid

--------------------------------------------------------------------------------
LEMMA BudgetsArePositive ==
    /\ MaxRunProbes \in Nat \ {0} /\ MaxObjectProbes \in Nat \ {0} /\ MaxTableProbes \in Nat \ {0}
    /\ MaxHypothesisProbes \in Nat \ {0} /\ MaxNoGain \in Nat \ {0}
    /\ MaxCounterevidence \in Nat \ {0} /\ LastPhase \in Nat \ {0}
BY BudgetAssumption

LEMMA CandidateParts ==
    ASSUME NEW c \in Candidates
    PROVE  /\ c.hypothesis \in Hypotheses /\ c.phase \in 1..LastPhase
           /\ TableOf[c.hypothesis] \in Tables
           /\ ProbeKey(c) \in Probes /\ ObjectsOf(ProbeKey(c)) \subseteq Objects
<1>1. /\ c.hypothesis \in Hypotheses /\ c.phase \in 1..LastPhase /\ c.column \in Columns
      /\ c.joined \in Joins /\ <<TableOf[c.hypothesis], c.column>> \notin c.joined
  BY DEF Candidates
<1>2. TableOf[c.hypothesis] \in Tables
  BY <1>1, TableOfAssumption
<1>3. <<TableOf[c.hypothesis], c.column>> \in Objects
  BY <1>1, <1>2 DEF Objects
<1>4. ProbeKey(c) \in Probes
  BY <1>1, <1>3 DEF ProbeKey, Probes
<1>5. c.joined \subseteq Objects
  BY <1>1 DEF Joins
<1> QED
  BY <1>1, <1>2, <1>3, <1>4, <1>5 DEF ProbeKey, ObjectsOf

\* What the ledger makes of an event.
LEMMA UpdateFacts ==
    ASSUME NEW h \in Hypotheses, hypotheses[h] \in Hypothesis, NEW e \in Outcomes,
           NEW s \in EventSources
    PROVE  LET new == updateHypothesis(h, e, s) IN
           /\ new \in Hypothesis
           /\ new.status \notin {"STOPPED", "AWAITING_RECONCILIATION"} =>
                 new.noGain < MaxNoGain /\ new.counterevidence < MaxCounterevidence
           /\ new.sources = hypotheses[h].sources \union {s}
           /\ new.contradictions = hypotheses[h].contradictions
                                   \union (IF e = "COUNTERS" THEN {s} ELSE {})
<1> DEFINE new == updateHypothesis(h, e, s)
<1>1. /\ hypotheses[h].noGain \in Nat /\ hypotheses[h].counterevidence \in Nat
      /\ hypotheses[h].sources \subseteq EventSources
      /\ hypotheses[h].contradictions \subseteq EventSources
  BY DEF Hypothesis
<1>2. /\ new.noGain = IF e = "NO_GAIN" THEN hypotheses[h].noGain + 1 ELSE 0
      /\ new.counterevidence = IF e = "COUNTERS" THEN hypotheses[h].counterevidence + 1 ELSE 0
      /\ new.sources = hypotheses[h].sources \union {s}
      /\ new.contradictions = hypotheses[h].contradictions
                              \union (IF e = "COUNTERS" THEN {s} ELSE {})
  BY DEF updateHypothesis
<1>3. /\ new.status \in Statuses
      /\ new.status \notin {"STOPPED", "AWAITING_RECONCILIATION"} =>
            \/ e = "SUPPORTS"
            \/ e = "COUNTERS" /\ ~(new.counterevidence >= MaxCounterevidence)
            \/ e = "NO_GAIN" /\ ~(new.noGain >= MaxNoGain)
  BY DEF updateHypothesis, Outcomes, Resolved, Signals, Stops, Statuses
<1>4. new.noGain \in Nat /\ new.counterevidence \in Nat
  BY <1>1, <1>2
<1>5. new = [status |-> new.status, noGain |-> new.noGain, counterevidence |-> new.counterevidence,
             sources |-> new.sources, contradictions |-> new.contradictions]
  BY DEF updateHypothesis
<1>6. new \in Hypothesis
  <2>1. new.sources \subseteq EventSources /\ new.contradictions \subseteq EventSources
    BY <1>1, <1>2
  <2> QED
    BY <1>3, <1>4, <1>5, <2>1 DEF Hypothesis
<1>7. new.status \notin {"STOPPED", "AWAITING_RECONCILIATION"} =>
        new.noGain < MaxNoGain /\ new.counterevidence < MaxCounterevidence
  BY <1>2, <1>3, <1>4, BudgetsArePositive
<1> QED
  BY <1>2, <1>6, <1>7

LEMMA ProgressiveInvInit == ProgressiveInit => ProgressiveInv
<1> SUFFICES ASSUME ProgressiveInit PROVE ProgressiveInv
  OBVIOUS
<1>1. /\ Cardinality(probes) \in Nat /\ IsFiniteSet(probes)
      /\ \A o \in Objects : ProbeDebits(probes, o) \in Nat
  <2>1. \A o \in Objects : {p \in probes : o \in ObjectsOf(p)} \subseteq probes
    OBVIOUS
  <2> QED
    BY <2>1, FS_CardinalityType, FS_Subset DEF ProgressiveInit, ProbeDebits
<1>2. IsFiniteSet(reservations) /\ Cardinality({}) = 0 /\ reservations = {}
  BY FS_EmptySet DEF ProgressiveInit
<1>3. ProgressiveTypeOK
  <2>1. budget \in [run : Nat, objects : [Objects -> Nat],
                    tables : [Tables -> Nat], hypotheses : [Hypotheses -> Nat]]
    BY <1>1 DEF ProgressiveInit
  <2>2. hypotheses \in [Hypotheses -> Hypothesis]
    BY DEF ProgressiveInit, Hypothesis, Statuses
  <2> QED
    BY <2>1, <2>2, BudgetsArePositive DEF ProgressiveInit, ProgressiveTypeOK, None
<1>4. LedgerFits /\ DebitsFit
  <2>1. /\ \A t \in Tables : {c \in reservations : TableOf[c.hypothesis] = t} = {}
        /\ \A h \in Hypotheses : {c \in reservations : c.hypothesis = h} = {}
    BY <1>2
  <2>2. /\ Debited(budget.run, probes, MaxRunProbes)
        /\ \A o \in Objects :
             Debited(budget.objects[o], {p \in probes : o \in ObjectsOf(p)}, MaxObjectProbes)
    BY DEF ProgressiveInit, Debited, ProbeDebits
  <2>3. /\ \A t \in Tables : Debited(budget.tables[t], {}, MaxTableProbes)
        /\ \A h \in Hypotheses : Debited(budget.hypotheses[h], {}, MaxHypothesisProbes)
    BY <1>2, BudgetsArePositive DEF ProgressiveInit, Debited
  <2> QED
    BY <2>1, <2>2, <2>3, BudgetsArePositive DEF ProgressiveInit, LedgerFits, DebitsFit
<1>5. EventsFit
  <2>1. \A e \in EventSources : Signal(e) = None
    BY DEF ProgressiveInit, Signal, EventSources
  <2>2. \A h \in Hypotheses : Events(h) = {}
    BY <2>1 DEF Events
  <2> QED
    BY <2>2 DEF ProgressiveInit, EventsFit, None
<1> QED
  BY <1>1, <1>2, <1>3, <1>4, <1>5 DEF ProgressiveInv, StateStaysValid

LEMMA AddOne ==
    ASSUME NEW S, IsFiniteSet(S), NEW A \in SUBSET S, NEW c, c \notin S
    PROVE  Cardinality(A \union {c}) = Cardinality(A) + 1
<1>1. IsFiniteSet(A)
  BY FS_Subset
<1> QED
  BY <1>1, FS_AddElement

\* The debits count one more where the candidate belongs, and stay within the budgets.
LEMMA ReserveKeepsDebits ==
    ASSUME ProgressiveInv, NEW c \in Candidates, ReserveCandidate(c)
    PROVE  DebitsFit'
<1> USE DEF ProgressiveInv, StateStaysValid, DebitsFit, Debited
<1> DEFINE key == ProbeKey(c)
<1> HIDE DEF key
<1>1. /\ c \notin reservations /\ reservations' = reservations \union {c}
      /\ key \notin probes /\ probes' = probes \union {key}
  BY DEF ReserveCandidate, Reservable, Suppressed, NearDuplicateKey, Authorized, AlreadyProbed, key
<1>2. IsFiniteSet(reservations) /\ IsFiniteSet(probes)
  OBVIOUS
<1>3. /\ c.hypothesis \in Hypotheses /\ TableOf[c.hypothesis] \in Tables
      /\ ObjectsOf(key) \subseteq Objects
  BY CandidateParts DEF key
<1>4. /\ budget.run \in Nat /\ budget.objects \in [Objects -> Nat]
      /\ budget.tables \in [Tables -> Nat] /\ budget.hypotheses \in [Hypotheses -> Nat]
  BY DEF ProgressiveTypeOK
<1>5. /\ budget.run < MaxRunProbes /\ \A o \in ObjectsOf(key) : budget.objects[o] < MaxObjectProbes
      /\ budget.tables[TableOf[c.hypothesis]] < MaxTableProbes
      /\ budget.hypotheses[c.hypothesis] < MaxHypothesisProbes
  BY DEF ReserveCandidate, Reservable, Authorized, key
<1>6. /\ budget'.run = budget.run + 1
      /\ \A o \in Objects :
           budget'.objects[o] = budget.objects[o] + IF o \in ObjectsOf(key) THEN 1 ELSE 0
      /\ budget'.tables = [budget.tables EXCEPT ![TableOf[c.hypothesis]] = @ + 1]
      /\ budget'.hypotheses = [budget.hypotheses EXCEPT ![c.hypothesis] = @ + 1]
  BY DEF ReserveCandidate, key
<1>7. Debited(budget'.run, probes', MaxRunProbes)
  <2>1. Cardinality(probes') = Cardinality(probes) + 1
    BY <1>1, <1>2, AddOne
  <2> QED
    BY <1>4, <1>5, <1>6, <2>1, BudgetsArePositive
<1>8. ASSUME NEW o \in Objects
      PROVE  Debited(budget'.objects[o], {p \in probes' : o \in ObjectsOf(p)}, MaxObjectProbes)
  <2> DEFINE A == {p \in probes : o \in ObjectsOf(p)}
  <2>0. budget.objects[o] \in Nat /\ Cardinality(A) = budget.objects[o]
        /\ budget.objects[o] <= MaxObjectProbes
    BY <1>4
  <2>1. CASE o \in ObjectsOf(key)
    <3>1. {p \in probes' : o \in ObjectsOf(p)} = A \union {key}
      BY <1>1, <2>1
    <3>2. Cardinality(A \union {key}) = Cardinality(A) + 1
      BY <1>1, <1>2, AddOne
    <3>3. budget'.objects[o] = budget.objects[o] + 1 /\ budget.objects[o] < MaxObjectProbes
      BY <1>5, <1>6, <2>1
    <3>4. budget.objects[o] + 1 <= MaxObjectProbes
      BY <2>0, <3>3, BudgetsArePositive
    <3> QED
      BY <2>0, <3>1, <3>2, <3>3, <3>4
  <2>2. CASE o \notin ObjectsOf(key)
    <3>1. {p \in probes' : o \in ObjectsOf(p)} = A
      BY <1>1, <2>2
    <3>2. budget'.objects[o] = budget.objects[o]
      BY <1>6, <2>0, <2>2
    <3> QED
      BY <2>0, <3>1, <3>2
  <2> QED
    BY <2>1, <2>2
<1>9. ASSUME NEW t \in Tables
      PROVE  Debited(budget'.tables[t], {d \in reservations' : TableOf[d.hypothesis] = t},
                     MaxTableProbes)
  <2> DEFINE A == {d \in reservations : TableOf[d.hypothesis] = t}
  <2>1. CASE t = TableOf[c.hypothesis]
    <3>1. {d \in reservations' : TableOf[d.hypothesis] = t} = A \union {c}
      BY <1>1, <2>1
    <3>2. Cardinality(A \union {c}) = Cardinality(A) + 1
      BY <1>1, <1>2, AddOne
    <3>3. Cardinality(A) = budget.tables[t] /\ budget'.tables[t] = budget.tables[t] + 1
      BY <1>4, <1>6, <2>1
    <3>4. budget.tables[t] \in Nat /\ budget.tables[t] < MaxTableProbes
      BY <1>4, <1>5, <2>1
    <3>5. budget.tables[t] + 1 <= MaxTableProbes
      BY <3>4, BudgetsArePositive
    <3> QED
      BY <3>1, <3>2, <3>3, <3>5
  <2>2. CASE t # TableOf[c.hypothesis]
    <3>1. {d \in reservations' : TableOf[d.hypothesis] = t} = A
      BY <1>1, <2>2
    <3> QED
      BY <1>3, <1>4, <1>6, <2>2, <3>1
  <2> QED
    BY <2>1, <2>2
<1>10. ASSUME NEW h \in Hypotheses
       PROVE  Debited(budget'.hypotheses[h], {d \in reservations' : d.hypothesis = h},
                      MaxHypothesisProbes)
  <2> DEFINE A == {d \in reservations : d.hypothesis = h}
  <2>1. CASE h = c.hypothesis
    <3>1. {d \in reservations' : d.hypothesis = h} = A \union {c}
      BY <1>1, <2>1
    <3>2. Cardinality(A \union {c}) = Cardinality(A) + 1
      BY <1>1, <1>2, AddOne
    <3>3. Cardinality(A) = budget.hypotheses[h] /\ budget'.hypotheses[h] = budget.hypotheses[h] + 1
      BY <1>4, <1>6, <2>1
    <3>4. budget.hypotheses[h] \in Nat /\ budget.hypotheses[h] < MaxHypothesisProbes
      BY <1>4, <1>5, <2>1
    <3>5. budget.hypotheses[h] + 1 <= MaxHypothesisProbes
      BY <3>4, BudgetsArePositive
    <3> QED
      BY <3>1, <3>2, <3>3, <3>5
  <2>2. CASE h # c.hypothesis
    <3>1. {d \in reservations' : d.hypothesis = h} = A
      BY <1>1, <2>2
    <3> QED
      BY <1>3, <1>4, <1>6, <2>2, <3>1
  <2> QED
    BY <2>1, <2>2
<1> QED
  BY <1>7, <1>8, <1>9, <1>10

LEMMA ReserveCandidateStep ==
    ASSUME ProgressiveInv, NEW c \in Candidates, ReserveCandidate(c)
    PROVE  ProgressiveInv'
<1>1. /\ UNCHANGED <<phase, hypotheses, outcomes, reconciliations>>
      /\ reservations' = reservations \union {c} /\ probes' = probes \union {ProbeKey(c)}
      /\ ProbeKey(c) \notin probes
  BY DEF ReserveCandidate, Reservable, Authorized, AlreadyProbed
<1>2. ProgressiveTypeOK'
  <2>1. /\ c.hypothesis \in Hypotheses /\ TableOf[c.hypothesis] \in Tables
        /\ ProbeKey(c) \in Probes
    BY CandidateParts
  <2>2. /\ budget.run \in Nat /\ budget.objects \in [Objects -> Nat]
        /\ budget.tables \in [Tables -> Nat] /\ budget.hypotheses \in [Hypotheses -> Nat]
    BY DEF ProgressiveInv, ProgressiveTypeOK
  <2>3. /\ budget.run + 1 \in Nat
        /\ [o \in Objects |-> budget.objects[o] + IF o \in ObjectsOf(ProbeKey(c)) THEN 1 ELSE 0]
             \in [Objects -> Nat]
        /\ [budget.tables EXCEPT ![TableOf[c.hypothesis]] = @ + 1] \in [Tables -> Nat]
        /\ [budget.hypotheses EXCEPT ![c.hypothesis] = @ + 1] \in [Hypotheses -> Nat]
    BY <2>1, <2>2
  <2>4. budget' \in [run : Nat, objects : [Objects -> Nat],
                     tables : [Tables -> Nat], hypotheses : [Hypotheses -> Nat]]
    BY <2>3 DEF ReserveCandidate
  <2> QED
    BY <1>1, <2>1, <2>4 DEF ProgressiveInv, ProgressiveTypeOK
<1>3. IsFiniteSet(reservations') /\ IsFiniteSet(probes')
  BY <1>1, FS_AddElement DEF ProgressiveInv
<1>4. LedgerFits'
  BY <1>1 DEF ProgressiveInv, LedgerFits
<1>5. EventsFit'
  BY <1>1 DEF ProgressiveInv, StateStaysValid, EventsFit, Events, Signal
<1>6. /\ \A d \in reservations' : ProbeKey(d) \in probes'
      /\ \A d, e \in reservations' : ProbeKey(d) = ProbeKey(e) => d = e
  BY <1>1 DEF ProgressiveInv, StateStaysValid
<1> QED
  BY <1>2, <1>3, <1>4, <1>5, <1>6, ReserveKeepsDebits DEF ProgressiveInv, StateStaysValid

\* An event that the ledger did not cite is cited, and changes no other one.
LEMMA EventStep ==
    ASSUME ProgressiveInv, NEW c \in Candidates, NEW e \in Outcomes, NEW s \in EventSources,
           s[2] = c, Signal(s) = None, Signal(s)' = e,
           \A r \in EventSources : r # s => Signal(r)' = Signal(r),
           hypotheses' = [hypotheses EXCEPT ![c.hypothesis] = updateHypothesis(c.hypothesis, e, s)]
    PROVE  /\ hypotheses' \in [Hypotheses -> Hypothesis] /\ LedgerFits'
           /\ \A h \in Hypotheses :
                /\ hypotheses'[h].sources = Events(h)'
                /\ hypotheses'[h].contradictions = {r \in Events(h)' : Signal(r)' = "COUNTERS"}
<1>1. c.hypothesis \in Hypotheses /\ hypotheses \in [Hypotheses -> Hypothesis]
  BY CandidateParts DEF ProgressiveInv, ProgressiveTypeOK
<1>2. LET new == updateHypothesis(c.hypothesis, e, s) IN
      /\ new \in Hypothesis
      /\ new.status \notin {"STOPPED", "AWAITING_RECONCILIATION"} =>
            new.noGain < MaxNoGain /\ new.counterevidence < MaxCounterevidence
      /\ new.sources = hypotheses[c.hypothesis].sources \union {s}
      /\ new.contradictions = hypotheses[c.hypothesis].contradictions
                              \union (IF e = "COUNTERS" THEN {s} ELSE {})
  BY <1>1, UpdateFacts
<1> DEFINE new == updateHypothesis(c.hypothesis, e, s)
<1> HIDE DEF new
<1>3. hypotheses' = [hypotheses EXCEPT ![c.hypothesis] = new]
  BY DEF new
<1>4. hypotheses' \in [Hypotheses -> Hypothesis] /\ LedgerFits'
  BY <1>1, <1>2, <1>3 DEF new, LedgerFits, ProgressiveInv
<1>5. e # None
  BY DEF Outcomes, Resolved, Signals, Stops, None
<1>6. ASSUME NEW h \in Hypotheses
      PROVE  /\ hypotheses'[h].sources = Events(h)'
             /\ hypotheses'[h].contradictions = {r \in Events(h)' : Signal(r)' = "COUNTERS"}
  <2>1. /\ hypotheses[h].sources = Events(h)
        /\ hypotheses[h].contradictions = {r \in Events(h) : Signal(r) = "COUNTERS"}
    BY DEF ProgressiveInv, StateStaysValid, EventsFit
  <2>2. CASE h # c.hypothesis
    <3>1. hypotheses'[h] = hypotheses[h]
      BY <1>1, <1>3, <2>2
    <3>2. Events(h)' = Events(h) /\ s \notin Events(h)
      BY <2>2 DEF Events
    <3>3. \A r \in Events(h) : Signal(r)' = Signal(r)
      BY <3>2 DEF Events
    <3> QED
      BY <2>1, <3>1, <3>2, <3>3
  <2>3. CASE h = c.hypothesis
    <3>1. hypotheses'[h] = new
      BY <1>1, <1>3, <2>3
    <3>2. Events(h)' = Events(h) \union {s} /\ s \notin Events(h)
      BY <1>5, <2>3 DEF Events
    <3>3. \A r \in Events(h) : Signal(r)' = Signal(r)
      BY <3>2 DEF Events
    <3>4. {r \in Events(h)' : Signal(r)' = "COUNTERS"}
            = {r \in Events(h) : Signal(r) = "COUNTERS"} \union (IF e = "COUNTERS" THEN {s} ELSE {})
      BY <3>2, <3>3
    <3> QED
      BY <1>2, <2>1, <2>3, <3>1, <3>2, <3>4 DEF new
  <2> QED
    BY <2>2, <2>3
<1> QED
  BY <1>4, <1>6

LEMMA RecordStep ==
    ASSUME ProgressiveInv, NEW c \in Candidates, NEW e \in Outcomes, RecordOutcome(c, e)
    PROVE  ProgressiveInv'
<1> DEFINE s == <<"outcome", c>>
<1>1. /\ UNCHANGED <<phase, probes, reservations, reconciliations, budget>>
      /\ outcomes' = [outcomes EXCEPT ![c] = e] /\ outcomes[c] = None /\ c \in reservations
  BY DEF RecordOutcome
<1>2. outcomes \in [Candidates -> Outcomes \union {None}]
  BY DEF ProgressiveInv, ProgressiveTypeOK
<1>3. s \in EventSources /\ s[2] = c /\ Signal(s) = None /\ Signal(s)' = e
  BY <1>1, <1>2 DEF EventSources, Signal
<1>4. \A r \in EventSources : r # s => Signal(r)' = Signal(r)
  BY <1>1, <1>2 DEF EventSources, Signal
<1>5. /\ hypotheses' \in [Hypotheses -> Hypothesis] /\ LedgerFits'
      /\ \A h \in Hypotheses :
           /\ hypotheses'[h].sources = Events(h)'
           /\ hypotheses'[h].contradictions = {r \in Events(h)' : Signal(r)' = "COUNTERS"}
  BY <1>3, <1>4, EventStep DEF RecordOutcome
<1>6. ProgressiveTypeOK'
  BY <1>1, <1>5 DEF ProgressiveInv, ProgressiveTypeOK
<1>7. EventsFit'
  BY <1>1, <1>2, <1>5 DEF ProgressiveInv, StateStaysValid, EventsFit, None
<1>8. DebitsFit'
  BY <1>1 DEF ProgressiveInv, StateStaysValid, DebitsFit
<1> QED
  BY <1>1, <1>5, <1>6, <1>7, <1>8 DEF ProgressiveInv, StateStaysValid

LEMMA ReconcileStep ==
    ASSUME ProgressiveInv, NEW c \in Candidates, NEW e \in Resolved, Reconcile(c, e)
    PROVE  ProgressiveInv'
<1> DEFINE s == <<"reconciliation", c>>
<1>1. /\ UNCHANGED <<phase, probes, reservations, outcomes, budget>>
      /\ reconciliations' = [reconciliations EXCEPT ![c] = e] /\ reconciliations[c] = None
      /\ outcomes[c] = "UNKNOWN" /\ e \in Outcomes
  BY DEF Reconcile, Outcomes
<1>2. reconciliations \in [Candidates -> Resolved \union {None}]
  BY DEF ProgressiveInv, ProgressiveTypeOK
<1>3. s \in EventSources /\ s[2] = c /\ Signal(s) = None /\ Signal(s)' = e
  BY <1>1, <1>2 DEF EventSources, Signal
<1>4. \A r \in EventSources : r # s => Signal(r)' = Signal(r)
  BY <1>1, <1>2 DEF EventSources, Signal
<1>5. /\ hypotheses' \in [Hypotheses -> Hypothesis] /\ LedgerFits'
      /\ \A h \in Hypotheses :
           /\ hypotheses'[h].sources = Events(h)'
           /\ hypotheses'[h].contradictions = {r \in Events(h)' : Signal(r)' = "COUNTERS"}
  BY <1>1, <1>3, <1>4, EventStep DEF Reconcile
<1>6. ProgressiveTypeOK'
  BY <1>1, <1>5 DEF ProgressiveInv, ProgressiveTypeOK
<1>7. EventsFit'
  BY <1>1, <1>2, <1>5 DEF ProgressiveInv, StateStaysValid, EventsFit, None
<1>8. DebitsFit'
  BY <1>1 DEF ProgressiveInv, StateStaysValid, DebitsFit
<1> QED
  BY <1>1, <1>5, <1>6, <1>7, <1>8 DEF ProgressiveInv, StateStaysValid

LEMMA ProgressiveInvStep ==
    ASSUME ProgressiveInv, [ProgressiveNext]_progressiveVars
    PROVE  ProgressiveInv'
<1>1. CASE UNCHANGED progressiveVars
  BY <1>1 DEF progressiveVars, ProgressiveInv, ProgressiveTypeOK, LedgerFits, StateStaysValid,
              DebitsFit, EventsFit, Events, Signal
<1>2. CASE AdvancePhase
  <2>1. phase + 1 \in 1..LastPhase
    BY <1>2, BudgetsArePositive DEF AdvancePhase, ProgressiveInv, ProgressiveTypeOK
  <2>2. phase' = phase + 1
        /\ UNCHANGED <<probes, hypotheses, reservations, outcomes, reconciliations, budget>>
    BY <1>2 DEF AdvancePhase
  <2> QED
    BY <2>1, <2>2 DEF ProgressiveInv, ProgressiveTypeOK, LedgerFits, StateStaysValid,
                      DebitsFit, EventsFit, Events, Signal
<1> QED
  BY <1>1, <1>2, ReserveCandidateStep, RecordStep, ReconcileStep DEF ProgressiveNext

LEMMA ProgressiveInvariant == ProgressiveSpec => []ProgressiveInv
BY ProgressiveInvInit, ProgressiveInvStep, PTL DEF ProgressiveSpec

--------------------------------------------------------------------------------
\* The sealed state keeps its type.
THEOREM ProgressiveTypes == ProgressiveSpec => []ProgressiveTypeOK
BY ProgressiveInvariant, PTL DEF ProgressiveInv

\* Reserving, recording and reconciling, in any order, leave a state validateState accepts.
THEOREM ProgressiveStateStaysValid == ProgressiveSpec => []StateStaysValid
BY ProgressiveInvariant, PTL DEF ProgressiveInv

\* The eligibility leaf and the controller agree, but for the budgets of objects and the
\* probes that the run had of its own.
THEOREM ProgressiveEligibilityAgrees == ProgressiveSpec => []EligibilityAgrees
<1>1. ProgressiveInv => EligibilityAgrees
  <2> SUFFICES ASSUME ProgressiveInv, NEW c \in Candidates
               PROVE  Reservable(c)
                        <=> /\ Eligible(c)
                            /\ ProbeKey(c) \notin RunsOwnProbes
                            /\ \A o \in ObjectsOf(ProbeKey(c)) :
                                 budget.objects[o] < MaxObjectProbes
    BY DEF EligibilityAgrees
  <2>1. c.hypothesis \in Hypotheses
    BY CandidateParts
  <2>2. AlreadyProbed(c) <=> HasProbe(c) \/ ProbeKey(c) \in RunsOwnProbes
    <3>1. \A r \in reservations : ProbeKey(r) \in probes
      BY DEF ProgressiveInv, StateStaysValid
    <3>2. HasProbe(c) <=> ProbeKey(c) \in {ProbeKey(r) : r \in reservations}
      BY DEF HasProbe
    <3> QED
      BY <3>1, <3>2 DEF AlreadyProbed, RunsOwnProbes
  <2> QED
    BY <2>1, <2>2 DEF ProgressiveInv, LedgerFits, Reservable, Eligible, Authorized
<1> QED
  BY <1>1, ProgressiveInvariant, PTL
================================================================================
