-------------------- MODULE OutcomeReconciliationProofs --------------------
(***************************************************************************)
(* Proofs about OutcomeReconciliation for a plan of any length and any     *)
(* number of keys, recoverers, compensators, deaths and edits by others,   *)
(* as long as the dispatcher runs one call of the executor at a time.      *)
(***************************************************************************)
EXTENDS OutcomeReconciliation, ReviewedWorkflowProofs

-----------------------------------------------------------------------------
(* The invariant.                                                          *)

\* What an unknown outcome may become, and what it then says of the assets.
Resolutions == {"committed_equivalent", "unchanged_safe_to_retry", "partial", "diverged",
                "manual_review", "outcome_unknown"}

\* Of the assets something can only be told while nobody else has edited them.
Tells(state) ==
    edits = 0 => /\ state = "committed_equivalent" => assets = AllAfter
                 /\ state = "unchanged_safe_to_retry" => assets = AllBefore

InPlace == edits = 0 => assets = AllAfter
Untouched == edits = 0 => assets = AllBefore

FileFits ==
    /\ Tells(file.state)
    /\ file.compensated => file.state = "manual_review" /\ Untouched

\* The executor only runs under a dispatcher that has not recorded what came of
\* it, and keeps no receipt that no journal acknowledges.
ExecutorFits ==
    /\ saved = [idempotency |-> {}, rollback |-> {}]
    /\ \A c \in Calls : /\ pc[c] \notin RollbackLabels
                        /\ pc[c] # "idle" => step[Dispatcher] = "dispatched"
    /\ \/ idempotency = {}
       \/ file.state = "committed_equivalent"
       \/ /\ step[Dispatcher] = "dispatched"
          /\ \A c \in Calls : pc[c] = "idle" /\ result[c] = "succeeded"
       \/ step[Dispatcher] = "flush" /\ mem[Dispatcher].state = "committed_equivalent"

\* Nothing happens to the journal behind the back of a dispatcher that goes on.
DispatcherFits ==
    /\ step[Dispatcher] \in {"idle", "open", "opened", "flush", "ready", "dispatched"}
    /\ step[Dispatcher] = "opened" /\ mem[Dispatcher].state \in {"start", "unchanged_safe_to_retry"} =>
          file = mem[Dispatcher]
    /\ step[Dispatcher] = "flush" =>
          /\ ~mem[Dispatcher].compensated
          /\ <<file.state, mem[Dispatcher].state>> \in
                {<<"absent", "start">>, <<"start", "start">>, <<"start", "not_dispatched">>,
                 <<"unchanged_safe_to_retry", "not_dispatched">>,
                 <<"not_dispatched", "outcome_unknown">>,
                 <<"not_dispatched", "committed_equivalent">>}
          /\ Tells(mem[Dispatcher].state)
    /\ step[Dispatcher] \in {"ready", "dispatched"} =>
          file.state = "not_dispatched" /\ mem[Dispatcher] = file
    /\ step[Dispatcher] = "dispatched" =>
          \A c \in Calls : pc[c] = "idle" =>
              result[c] = "failed" \/ (result[c] = "succeeded" /\ InPlace)

\* How the asset of an action that was read relates to the plan.
Related(i) == IF assets[i] = "other" THEN "diverged" ELSE assets[i]

\* A recoverer is alone at work, and an unknown outcome waits for it.
RecovererFits(r) ==
    /\ step[r] \in {"idle", "open", "opened", "reading", "flush", "release"}
    /\ step[r] # "idle" => lease = r /\ file.state \notin {"absent", "start"}
    /\ step[r] \in {"idle", "open", "opened"} => cursor[r] = 1
    /\ step[r] = "opened" /\ mem[r].state = "outcome_unknown" => file = mem[r]
    /\ step[r] = "reading" =>
          /\ file = mem[r] /\ file.state = "outcome_unknown"
          /\ \A i \in Actions : edits = 0 /\ i < cursor[r] =>
                "unknown" \in relations[r] \/ Related(i) \in relations[r]
    /\ step[r] = "flush" =>
          /\ file.state = "outcome_unknown"
          /\ ~mem[r].compensated
          /\ mem[r].state \in Resolutions /\ Tells(mem[r].state)

\* Compensators restore what nobody touches any more but to restore it.
CompensatorFits(m) ==
    /\ step[m] \in {"idle", "open", "opened", "restore", "restorePut", "restoreReadback", "flush"}
    /\ step[m] # "idle" => file.state \notin {"absent", "start"}
    /\ step[m] = "opened" /\ mem[m].state = "partial" => file.state \in {"partial", "manual_review"}
    /\ step[m] \in {"restore", "restorePut", "restoreReadback"} =>
          /\ file.state \in {"partial", "manual_review"}
          /\ mem[m].state = "partial"
          /\ \A i \in Actions : edits = 0 /\ i > cursor[m] => assets[i] = "before"
    /\ step[m] = "flush" =>
          /\ file.state \in {"partial", "manual_review"}
          /\ mem[m].state = "manual_review" /\ Untouched

JournalFits ==
    /\ FileFits /\ ExecutorFits /\ DispatcherFits
    /\ \A r \in Recoverers : RecovererFits(r)
    /\ \A m \in Compensators : CompensatorFits(m)

WorkflowInv == TypeInv /\ WalkInv
JournalInv == JournalTypeOK /\ WorkflowInv /\ JournalFits

-----------------------------------------------------------------------------
(* What the steps of a process do to its own variables.                    *)

ProcessTypeOK ==
    /\ file \in Journals
    /\ lease \in Recoverers \union {None}
    /\ step \in [Procs -> Steps]
    /\ mem \in [Procs -> Journals]
    /\ cursor \in [Procs -> Actions]
    /\ relations \in [Procs -> SUBSET Relations]
    /\ restored \in [Procs -> SUBSET Actions]

\* Only p moves.
Alone(p) == \A q \in Procs \ {p} : /\ step'[q] = step[q]
                                  /\ mem'[q] = mem[q]
                                  /\ cursor'[q] = cursor[q]
                                  /\ relations'[q] = relations[q]

LEMMA AtFacts ==
    ASSUME ProcessTypeOK, NEW p \in Procs, NEW label \in Steps, At(p, label)
    PROVE  /\ step' \in [Procs -> Steps]
           /\ step'[p] = label
           /\ \A q \in Procs \ {p} : step'[q] = step[q]
BY DEF ProcessTypeOK, At

\* The state of a record is what the table says, the rest what the caller says.
LEMMA RecordFacts ==
    ASSUME NEW entry \in Journals, NEW state \in OutcomeStates \union {"start", "absent"}
    PROVE  /\ [entry EXCEPT !.state = state] \in Journals
           /\ [entry EXCEPT !.state = state].state = state
           /\ [entry EXCEPT !.state = state].compensated = entry.compensated
BY DEF Journals

LEMMA TransitionStates ==
    ASSUME NEW row \in Transitions
    PROVE  row[1] \in OutcomeStates \union {"start"} /\ row[3] \in OutcomeStates
BY DEF Transitions, OutcomeStates

LEMMA AppendFacts ==
    ASSUME ProcessTypeOK, NEW p \in Procs, NEW event, NEW entry \in Journals,
           Append(p, event, entry)
    PROVE  /\ mem' \in [Procs -> Journals]
           /\ mem'[p].compensated = entry.compensated
           /\ <<mem[p].state, event, mem'[p].state>> \in Transitions
           /\ \A q \in Procs \ {p} : mem'[q] = mem[q]
<1>1. PICK row \in Transitions :
         /\ row[1] = mem[p].state
         /\ row[2] = event
         /\ mem' = [mem EXCEPT ![p] = [entry EXCEPT !.state = row[3]]]
  BY DEF Append
<1>2. row[3] \in OutcomeStates \union {"start", "absent"}
  BY TransitionStates
<1>3. row = <<row[1], row[2], row[3]>>
  BY DEF Transitions
<1> DEFINE new == [entry EXCEPT !.state = row[3]]
<1>4. new \in Journals /\ new.state = row[3] /\ new.compensated = entry.compensated
  BY <1>2, RecordFacts
<1>5. mem' = [mem EXCEPT ![p] = new]
  BY <1>1
<1> HIDE DEF new
<1>6. mem' \in [Procs -> Journals] /\ mem'[p] = new /\ \A q \in Procs \ {p} : mem'[q] = mem[q]
  BY <1>4, <1>5 DEF ProcessTypeOK
<1> QED
  BY <1>1, <1>3, <1>4, <1>6

LEMMA NoJournalFacts == NoJournal \in Journals /\ NoJournal.state = "absent" /\ ~NoJournal.compensated
BY ContextAssumption DEF NoJournal, Journals

LEMMA LeaveFacts ==
    ASSUME ProcessTypeOK, NEW p \in Procs, Leave(p)
    PROVE  /\ step' \in [Procs -> Steps] /\ mem' \in [Procs -> Journals]
           /\ cursor' \in [Procs -> Actions] /\ relations' \in [Procs -> SUBSET Relations]
           /\ restored' \in [Procs -> SUBSET Actions]
           /\ step'[p] = "idle" /\ mem'[p] = NoJournal /\ cursor'[p] = 1
           /\ Alone(p)
<1>1. 1 \in Actions
  BY PlanAssumption DEF Actions
<1> QED
  BY <1>1, NoJournalFacts DEF ProcessTypeOK, Leave, At, Alone, Steps

LEMMA JournalTypes == JournalTypeOK <=> ProcessTypeOK /\ TypeOK
BY DEF JournalTypeOK, ProcessTypeOK

LEMMA Kinds ==
    /\ Dispatcher \in Procs /\ Dispatcher \notin Recoverers /\ Dispatcher \notin Compensators
    /\ \A r \in Recoverers : r \in Procs /\ r \notin Compensators
    /\ \A m \in Compensators : m \in Procs /\ m \notin Recoverers
    /\ \A p \in Procs : p = Dispatcher \/ p \in Recoverers \/ p \in Compensators
BY ProcsAssumption DEF Procs

-----------------------------------------------------------------------------
(* A step that only concerns one process.                                  *)

Fits(p) == /\ p = Dispatcher => DispatcherFits /\ ExecutorFits
           /\ p \in Recoverers => RecovererFits(p)
           /\ p \in Compensators => CompensatorFits(p)

LEMMA OwnStep ==
    ASSUME JournalInv, NEW p \in Procs, Alone(p), Fits(p)',
           UNCHANGED <<file, assets, edits, pc, result, idempotency, saved>>,
           lease' = lease \/ \A r \in Recoverers \ {p} : step[r] = "idle"
    PROVE  JournalFits'
<1> USE Kinds
<1>1. FileFits'
  BY DEF JournalInv, JournalFits, FileFits, Tells, InPlace, Untouched
<1>2. DispatcherFits' /\ ExecutorFits'
  <2>1. CASE p = Dispatcher
    BY <2>1 DEF Fits
  <2>2. CASE p # Dispatcher
    <3>1. step'[Dispatcher] = step[Dispatcher] /\ mem'[Dispatcher] = mem[Dispatcher]
      BY <2>2 DEF Alone
    <3>2. DispatcherFits'
      BY <3>1 DEF JournalInv, JournalFits, DispatcherFits, Tells, InPlace, Untouched
    <3>3. ExecutorFits'
      BY <3>1 DEF JournalInv, JournalFits, ExecutorFits
    <3> QED
      BY <3>2, <3>3
  <2> QED
    BY <2>1, <2>2
<1>3. ASSUME NEW r \in Recoverers PROVE RecovererFits(r)'
  <2>1. CASE p = r
    BY <2>1 DEF Fits
  <2>2. CASE p # r
    <3>1. /\ step'[r] = step[r] /\ mem'[r] = mem[r] /\ cursor'[r] = cursor[r]
          /\ relations'[r] = relations[r]
      BY <2>2 DEF Alone
    <3>2. RecovererFits(r) /\ (lease' = lease \/ step[r] = "idle")
      BY <2>2 DEF JournalInv, JournalFits
    <3> QED
      BY <3>1, <3>2 DEF RecovererFits, Tells, Related, InPlace, Untouched
  <2> QED
    BY <2>1, <2>2
<1>4. ASSUME NEW m \in Compensators PROVE CompensatorFits(m)'
  <2>1. CASE p = m
    BY <2>1 DEF Fits
  <2>2. CASE p # m
    <3>1. step'[m] = step[m] /\ mem'[m] = mem[m] /\ cursor'[m] = cursor[m]
      BY <2>2 DEF Alone
    <3> QED
      BY <3>1 DEF JournalInv, JournalFits, CompensatorFits, Untouched
  <2> QED
    BY <2>1, <2>2
<1> QED
  BY <1>1, <1>2, <1>3, <1>4 DEF JournalFits
-----------------------------------------------------------------------------
(* The executor, between the steps of the journal.                         *)

\* A restore is no step of the executor, but leaves it as it is.
LEMMA RestoreKeepsWorkflow ==
    ASSUME JournalInv, NEW p \in Procs, NEW answer \in Answers, RestorePut(p, answer)
    PROVE  TypeOK' /\ WorkflowInv'
<1> USE DEF executorVars, callVars, approvalVars
<1>1. cursor[p] \in Actions /\ "before" \in Values /\ step[p] = "restorePut"
  BY DEF JournalInv, JournalTypeOK, Values, RestorePut
<1>2. UNCHANGED <<edits, restarts, grants, consumed, held, uses, idempotency, rollback, saved, pc,
                  key, at, applied, unrestored, start, error, result>>
  BY DEF RestorePut
<1>3. assets' \in [Actions -> Values]
  BY <1>1 DEF JournalInv, JournalTypeOK, TypeOK, RestorePut, PutValue
<1>4. TypeOK' /\ UsesBounded'
  BY <1>2, <1>3 DEF JournalInv, JournalTypeOK, WorkflowInv, TypeInv, TypeOK, UsesBounded
<1>5. p \in Compensators /\ step[Dispatcher] # "dispatched"
  BY <1>1, Kinds DEF JournalInv, JournalFits, DispatcherFits, RecovererFits, CompensatorFits,
       InPlace, Untouched
<1>6. ASSUME NEW c \in Calls PROVE HandPoint(c)' /\ QuietPoint(c)'
  <2>1. pc[c] = "idle" /\ pc'[c] = "idle"
    BY <1>2, <1>5 DEF JournalInv, JournalFits, ExecutorFits
  <2>2. applied'[c] = {}
    BY <1>2, <2>1 DEF JournalInv, WorkflowInv, WalkInv, HandPoint
  <2> QED
    BY <2>1, <2>2 DEF HandPoint, QuietPoint, ApplyPoint, RollbackPoint, HiddenPoint, RollbackLabels
<1> QED
  BY <1>4, <1>6 DEF WorkflowInv, TypeInv, WalkInv

\* Every other step is one of the executor, or leaves it alone.
LEMMA WorkflowProjection ==
    ASSUME JournalTypeOK, JournalNext, ~\E p \in Procs, answer \in Answers : RestorePut(p, answer)
    PROVE  [Next]_vars
<1>a. workflowVars' = workflowVars => UNCHANGED vars
  BY DEF workflowVars, vars
<1>1. CASE DispatcherBegin
  BY <1>1, <1>a DEF DispatcherBegin
<1>2. CASE ContinueDispatcher
  <2>1. CASE \E c \in Calls : Execute(c)
    BY <2>1 DEF Execute, Next
  <2>2. ASSUME NEW c \in Calls, Dispatch(c) PROVE Next
    <3>1. mem[Dispatcher].key \in Keys /\ ApplyBegin(c, mem[Dispatcher].key)
      BY <2>2 DEF Dispatch, ApplyBegin, JournalTypeOK, TypeOK
    <3> QED
      BY <3>1 DEF Next, Begin
  <2> QED
    BY <1>2, <2>1, <2>2, <1>a DEF ContinueDispatcher, DispatcherInitialize, DispatcherLeaves,
         Retry, RecordOutcome
<1>3. ASSUME NEW p \in Procs, BeginProcess(p) PROVE UNCHANGED vars
  BY <1>3, <1>a DEF BeginProcess, RecoverBegin, CompensatorBegin
<1>4. ASSUME NEW p \in Procs, ContinueProcess(p) PROVE UNCHANGED vars
  BY <1>4, <1>a DEF ContinueProcess, Open, Flush, RecoverOpened, ReconcileDrifted, Release,
       CompensatorOpened, RestoreRead, RestoreRefused, ReconcileRead, RestoreReadback
<1>5. CASE Around
  BY <1>5 DEF Around, Next
<1>6. ASSUME NEW p \in Procs, Kill(p) PROVE [Next]_vars
  BY <1>6, <1>a DEF Kill, Next
<1> QED
  BY <1>1, <1>2, <1>3, <1>4, <1>5, <1>6 DEF JournalNext, JournalStep
-----------------------------------------------------------------------------
(* The steps of the dispatcher, and those all processes take.              *)

LEMMA InvFacts ==
    ASSUME JournalInv
    PROVE  /\ ProcessTypeOK /\ TypeOK
           /\ FileFits /\ ExecutorFits /\ DispatcherFits
           /\ \A r \in Recoverers : RecovererFits(r)
           /\ \A m \in Compensators : CompensatorFits(m)
BY JournalTypes DEF JournalInv, JournalFits

LEMMA OpenStep ==
    ASSUME JournalInv, NEW p \in Procs, Open(p)
    PROVE  ProcessTypeOK' /\ JournalFits'
<1> USE InvFacts, Kinds
<1>1. UNCHANGED <<file, lease, cursor, relations, restored, assets, edits, pc, result, idempotency, saved>>
  BY DEF Open, workflowVars
<1>2. CASE file.state \in {"absent", "start"}
  <2> DEFINE started == [file EXCEPT !.state = "start"]
  <2>1. started \in Journals /\ started.state = "start" /\ started.compensated = file.compensated
    BY RecordFacts DEF ProcessTypeOK
  <2>2. mem' = [mem EXCEPT ![p] = started] /\ At(p, "flush")
    BY <1>2 DEF Open
  <2> HIDE DEF started
  <2>3. step' \in [Procs -> Steps] /\ step'[p] = "flush" /\ mem' \in [Procs -> Journals] /\ mem'[p] = started
    BY <2>1, <2>2, AtFacts DEF ProcessTypeOK, Steps
  <2>4. Alone(p)
    BY <1>1, <2>2, AtFacts DEF Alone, ProcessTypeOK, Steps
  <2>5. p = Dispatcher
    BY <1>2 DEF Open, RecovererFits, CompensatorFits, Untouched
  <2>6. DispatcherFits'
    BY <1>1, <1>2, <2>1, <2>3, <2>5 DEF DispatcherFits, FileFits, Tells, InPlace, Untouched
  <2>7. ExecutorFits'
    BY <1>1, <1>2, <2>3, <2>5 DEF ExecutorFits, Open
  <2> QED
    BY <1>1, <2>3, <2>4, <2>5, <2>6, <2>7, OwnStep DEF Fits, ProcessTypeOK
<1>3. CASE file.state \notin {"absent", "start"}
  <2>1. mem' = [mem EXCEPT ![p] = file] /\ At(p, "opened")
    BY <1>3 DEF Open
  <2>2. step' \in [Procs -> Steps] /\ step'[p] = "opened" /\ mem' \in [Procs -> Journals] /\ mem'[p] = file
    BY <2>1, AtFacts DEF ProcessTypeOK, Steps
  <2>3. Alone(p)
    BY <1>1, <2>1, AtFacts DEF Alone, ProcessTypeOK, Steps
  <2>4. p = Dispatcher => DispatcherFits' /\ ExecutorFits'
    BY <1>1, <2>2 DEF DispatcherFits, ExecutorFits, Open, InPlace
  <2>5. p \in Recoverers => RecovererFits(p)'
    BY <1>1, <1>3, <2>2 DEF RecovererFits, Open
  <2>6. p \in Compensators => CompensatorFits(p)'
    BY <1>1, <1>3, <2>2 DEF CompensatorFits, Open, Untouched
  <2> QED
    BY <1>1, <2>2, <2>3, <2>4, <2>5, <2>6, OwnStep DEF Fits, ProcessTypeOK
<1> QED
  BY <1>2, <1>3

\* Whoever leaves has no say any more.
LEMMA LeaveStep ==
    ASSUME JournalInv, NEW p \in Procs, Leave(p), p # Dispatcher \/ step[p] = "opened",
           UNCHANGED <<file, assets, edits, pc, result, idempotency, saved>>,
           lease' = lease \/ (lease' = None /\ lease = p)
    PROVE  ProcessTypeOK' /\ JournalFits'
<1> USE InvFacts, Kinds, LeaveFacts
<1>1. p = Dispatcher => DispatcherFits' /\ ExecutorFits'
  BY DEF DispatcherFits, ExecutorFits, InPlace
<1>2. p \in Recoverers => RecovererFits(p)'
  BY DEF RecovererFits
<1>3. p \in Compensators => CompensatorFits(p)'
  BY DEF CompensatorFits, Untouched
<1>4. lease' = lease \/ \A r \in Recoverers \ {p} : step[r] = "idle"
  BY DEF RecovererFits
<1> QED
  BY <1>1, <1>2, <1>3, <1>4, OwnStep DEF Fits, ProcessTypeOK

LEMMA DispatcherBeginStep ==
    ASSUME JournalInv, DispatcherBegin
    PROVE  ProcessTypeOK' /\ JournalFits'
<1> USE InvFacts, Kinds
<1>1. UNCHANGED <<file, lease, mem, cursor, relations, restored, assets, edits, pc, result, idempotency, saved>>
  BY DEF DispatcherBegin, workflowVars, locals
<1>2. step' \in [Procs -> Steps] /\ step'[Dispatcher] = "open" /\ Alone(Dispatcher)
  BY <1>1, AtFacts DEF DispatcherBegin, Alone, Steps
<1>3. DispatcherFits' /\ ExecutorFits'
  BY <1>1, <1>2 DEF DispatcherFits, ExecutorFits, DispatcherBegin, InPlace
<1> QED
  BY <1>1, <1>2, <1>3, OwnStep DEF Fits, ProcessTypeOK

\* What the dispatcher writes next follows from what the file holds.
LEMMA DispatcherAppends ==
    ASSUME JournalInv, NEW event, NEW entry \in Journals, ~entry.compensated,
           Append(Dispatcher, event, entry), At(Dispatcher, "flush"),
           event \in {"initialized", "fresh_retry_authorized", "dispatch_response_lost",
                      "dispatch_committed_acknowledged"},
           file.state = mem[Dispatcher].state,
           event = "dispatch_committed_acknowledged" => InPlace,
           idempotency = {} \/ event = "dispatch_committed_acknowledged",
           \A c \in Calls : pc[c] = "idle",
           UNCHANGED <<file, lease, cursor, relations, restored, workflowVars>>
    PROVE  ProcessTypeOK' /\ JournalFits'
<1> USE InvFacts, Kinds
<1>1. UNCHANGED <<file, lease, cursor, relations, restored, assets, edits, pc, result, idempotency, saved>>
  BY DEF workflowVars
<1>2. /\ mem' \in [Procs -> Journals]
      /\ ~mem'[Dispatcher].compensated
      /\ <<mem[Dispatcher].state, event, mem'[Dispatcher].state>> \in Transitions
      /\ \A q \in Procs \ {Dispatcher} : mem'[q] = mem[q]
  BY AppendFacts
<1>3. /\ step' \in [Procs -> Steps] /\ step'[Dispatcher] = "flush"
      /\ \A q \in Procs \ {Dispatcher} : step'[q] = step[q]
  BY AtFacts DEF Steps
<1>4. <<file.state, mem'[Dispatcher].state>> \in
          {<<"start", "not_dispatched">>, <<"unchanged_safe_to_retry", "not_dispatched">>,
           <<"not_dispatched", "outcome_unknown">>, <<"not_dispatched", "committed_equivalent">>}
  BY <1>2 DEF Transitions
<1>5. /\ mem'[Dispatcher].state = "committed_equivalent" => event = "dispatch_committed_acknowledged"
      /\ event = "dispatch_committed_acknowledged" => mem'[Dispatcher].state = "committed_equivalent"
  BY <1>2, <1>4 DEF Transitions
<1>6. DispatcherFits'
  BY <1>1, <1>2, <1>3, <1>4, <1>5 DEF DispatcherFits, Tells, InPlace, Untouched
<1>7. ExecutorFits'
  BY <1>1, <1>3, <1>5 DEF ExecutorFits
<1> QED
  BY <1>1, <1>2, <1>3, <1>6, <1>7, OwnStep DEF Fits, ProcessTypeOK, Alone

LEMMA DispatcherStep ==
    ASSUME JournalInv, SingleCall,
           \/ DispatcherInitialize \/ DispatcherLeaves
           \/ \E k \in Keys : Retry(k)
           \/ \E c \in Calls : RecordOutcome(c)
    PROVE  ProcessTypeOK' /\ JournalFits'
<1> USE InvFacts, Kinds
<1>a. mem[Dispatcher] \in Journals
  BY DEF ProcessTypeOK
<1>1. CASE DispatcherInitialize
  <2>1. step[Dispatcher] = "opened" /\ mem[Dispatcher].state = "start" /\ file = mem[Dispatcher]
    BY <1>1 DEF DispatcherInitialize, DispatcherFits, InPlace
  <2>2. ~mem[Dispatcher].compensated /\ idempotency = {} /\ \A c \in Calls : pc[c] = "idle"
    BY <2>1 DEF FileFits, Tells, ExecutorFits, InPlace, Untouched
  <2> QED
    BY <1>1, <1>a, <2>1, <2>2, DispatcherAppends DEF DispatcherInitialize
<1>2. CASE DispatcherLeaves
  BY <1>2, LeaveStep DEF DispatcherLeaves, workflowVars
<1>3. ASSUME NEW k \in Keys, Retry(k) PROVE ProcessTypeOK' /\ JournalFits'
  <2>1. /\ step[Dispatcher] = "opened" /\ mem[Dispatcher].state = "unchanged_safe_to_retry"
        /\ file = mem[Dispatcher]
    BY <1>3 DEF Retry, DispatcherFits, InPlace
  <2>2. ~mem[Dispatcher].compensated /\ idempotency = {} /\ \A c \in Calls : pc[c] = "idle"
    BY <2>1 DEF FileFits, Tells, ExecutorFits, InPlace, Untouched
  <2> DEFINE entry == [mem[Dispatcher] EXCEPT !.key = k, !.keys = @ \union {k}]
  <2>3. entry \in Journals /\ entry.compensated = mem[Dispatcher].compensated
    BY <1>a DEF Journals
  <2>4. Append(Dispatcher, "fresh_retry_authorized", entry)
    BY <1>3 DEF Retry
  <2> HIDE DEF entry
  <2> QED
    BY <1>3, <2>1, <2>2, <2>3, <2>4, DispatcherAppends DEF Retry
<1>4. ASSUME NEW c \in Calls, RecordOutcome(c) PROVE ProcessTypeOK' /\ JournalFits'
  <2>1. /\ step[Dispatcher] = "dispatched" /\ pc[c] = "idle"
        /\ file.state = "not_dispatched" /\ mem[Dispatcher] = file
    BY <1>4 DEF RecordOutcome, DispatcherFits, InPlace
  <2>2. ~mem[Dispatcher].compensated /\ \A d \in Calls : d = c
    BY <2>1 DEF FileFits, Tells, SingleCall, InPlace, Untouched
  <2>3. result[c] # "failed" => InPlace
    BY <2>1 DEF DispatcherFits, InPlace
  <2>4. idempotency = {} \/ result[c] # "failed"
    BY <2>1 DEF ExecutorFits
  <2>5. CASE result[c] = "failed"
    BY <1>4, <1>a, <2>1, <2>2, <2>4, <2>5, DispatcherAppends DEF RecordOutcome
  <2>6. CASE result[c] # "failed"
    BY <1>4, <1>a, <2>1, <2>2, <2>3, <2>6, DispatcherAppends DEF RecordOutcome
  <2> QED
    BY <2>5, <2>6
<1> QED
  BY <1>1, <1>2, <1>3, <1>4
-----------------------------------------------------------------------------
(* The executor under its dispatcher.                                      *)

LEMMA DispatchStep ==
    ASSUME JournalInv, SingleCall, NEW c \in Calls, Dispatch(c)
    PROVE  ProcessTypeOK' /\ JournalFits'
<1> USE InvFacts, Kinds
<1>1. UNCHANGED <<file, lease, mem, cursor, relations, restored, assets, edits, idempotency, saved>>
  BY DEF Dispatch, ApplyBegin, locals, Elsewhere, executorVars
<1>2. /\ step' \in [Procs -> Steps] /\ step'[Dispatcher] = "dispatched"
      /\ \A q \in Procs \ {Dispatcher} : step'[q] = step[q]
  BY AtFacts DEF Dispatch, Steps
<1>3. /\ step[Dispatcher] = "ready" /\ file.state = "not_dispatched" /\ mem[Dispatcher] = file
      /\ idempotency = {}
  BY DEF Dispatch, DispatcherFits, ExecutorFits, InPlace
<1>4. pc'[c] = "read" /\ \A d \in Calls : d = c
  BY <1>3 DEF Dispatch, ApplyBegin, Goto, TypeOK, SingleCall
<1>5. DispatcherFits'
  BY <1>1, <1>2, <1>3, <1>4 DEF DispatcherFits, InPlace
<1>6. ExecutorFits'
  BY <1>1, <1>2, <1>3, <1>4 DEF ExecutorFits, RollbackLabels
<1>7. FileFits'
  BY <1>1 DEF FileFits, Tells, Untouched, InPlace
<1>8. ASSUME NEW r \in Recoverers PROVE RecovererFits(r)'
  BY <1>1, <1>2 DEF RecovererFits, Tells, Related, InPlace, Untouched
<1>9. ASSUME NEW m \in Compensators PROVE CompensatorFits(m)'
  BY <1>1, <1>2 DEF CompensatorFits, Untouched
<1> QED
  BY <1>1, <1>2, <1>5, <1>6, <1>7, <1>8, <1>9 DEF JournalFits, ProcessTypeOK

\* A call goes on to another label of an apply, or ends.
LEMMA ContinueFacts ==
    ASSUME JournalInv, NEW c \in Calls, Continue(c)
    PROVE  /\ pc[c] # "idle" /\ pc'[c] \notin RollbackLabels /\ saved' = saved
           /\ pc'[c] # "idle" => idempotency' = idempotency
           /\ pc'[c] = "idle" => \/ result'[c] = "failed" /\ idempotency' = idempotency
                                 \/ result'[c] = "succeeded" /\ InPlace'
<1> USE InvFacts DEF TypeOK, RollbackLabels, Elsewhere, Goto, Return, Throw, executorVars
<1>1. pc[c] \notin RollbackLabels /\ (edits = 0 => ApplyPoint(c))
  BY DEF ExecutorFits, JournalInv, WorkflowInv, WalkInv, QuietPoint
<1>2. ASSUME NEW answer \in Answers, ApplyFinal(c, answer)
      PROVE  /\ pc[c] # "idle" /\ pc'[c] = "idle" /\ saved' = saved
             /\ \/ result'[c] = "failed" /\ idempotency' = idempotency
                \/ result'[c] = "succeeded" /\ InPlace'
  <2>1. pc[c] = "final" /\ UNCHANGED <<assets, edits>>
    BY <1>2 DEF ApplyFinal
  <2>2. InPlace'
    BY <1>1, <2>1 DEF ApplyPoint, InPlace, AllAfter
  <2> QED
    BY <1>2, <2>1, <2>2 DEF ApplyFinal
<1>3. ASSUME NEW answer \in Answers, Rollback(c, answer) PROVE FALSE
  BY <1>1, <1>3 DEF Rollback, RollbackRead, RollbackPut, RollbackReadback
<1>4. ASSUME NEW answer \in Answers, Apply(c, answer), ~ApplyFinal(c, answer)
      PROVE  /\ pc[c] # "idle" /\ pc'[c] # "idle" /\ pc'[c] \notin RollbackLabels
             /\ UNCHANGED <<saved, idempotency>>
  BY <1>4 DEF Apply, ApplyRead, ApplyPut, ApplyReadback, CompensatePut, CompensateReadback
<1>5. CASE ApplyNext(c) \/ ApplyInterrupt(c) \/ ApplyFails(c)
  BY <1>5 DEF ApplyNext, ApplyInterrupt, ApplyFails
<1> QED
  BY <1>2, <1>3, <1>4, <1>5 DEF Continue

LEMMA ExecuteStep ==
    ASSUME JournalInv, SingleCall, NEW c \in Calls, Execute(c)
    PROVE  ProcessTypeOK' /\ JournalFits'
<1> USE InvFacts, Kinds
<1>1. UNCHANGED <<file, lease, step, mem, cursor, relations, restored>> /\ Continue(c)
  BY DEF Execute, journalVars
<1>2. \A d \in Calls : d = c
  BY DEF SingleCall
<1>3. /\ pc[c] # "idle" /\ pc'[c] \notin RollbackLabels /\ saved' = saved
      /\ pc'[c] # "idle" => idempotency' = idempotency
      /\ pc'[c] = "idle" => \/ result'[c] = "failed" /\ idempotency' = idempotency
                            \/ result'[c] = "succeeded" /\ InPlace'
  BY <1>1, ContinueFacts
<1>4. step[Dispatcher] = "dispatched" /\ file.state = "not_dispatched" /\ mem[Dispatcher] = file
  BY <1>3 DEF ExecutorFits, DispatcherFits, InPlace
<1>5. idempotency = {}
  BY <1>3, <1>4 DEF ExecutorFits
<1>6. DispatcherFits' /\ ExecutorFits' /\ FileFits'
  BY <1>1, <1>2, <1>3, <1>4, <1>5 DEF DispatcherFits, ExecutorFits, FileFits, Tells, InPlace,
       Untouched
<1>7. ASSUME NEW r \in Recoverers PROVE RecovererFits(r)'
  BY <1>1, <1>4 DEF RecovererFits
<1>8. ASSUME NEW m \in Compensators PROVE CompensatorFits(m)'
  BY <1>1, <1>4 DEF CompensatorFits, Untouched
<1> QED
  BY <1>1, <1>6, <1>7, <1>8 DEF JournalFits, ProcessTypeOK

\* Approvals say nothing of the journal, and after an edit it tells nothing of
\* the assets.
LEMMA AroundStep ==
    ASSUME JournalInv, Around
    PROVE  ProcessTypeOK' /\ JournalFits'
<1> USE InvFacts
<1>1. /\ UNCHANGED <<file, lease, step, mem, cursor, relations, restored, pc, result, idempotency,
                     saved>>
      /\ UNCHANGED <<assets, edits>> \/ edits' # 0
  BY DEF Around, Register, Authorize, Edit, journalVars, executorVars, callVars, TypeOK
<1>2. DispatcherFits' /\ ExecutorFits' /\ FileFits'
  BY <1>1 DEF DispatcherFits, ExecutorFits, FileFits, Tells, InPlace, Untouched
<1>3. ASSUME NEW r \in Recoverers PROVE RecovererFits(r)'
  BY <1>1 DEF RecovererFits, Tells, Related, InPlace, Untouched
<1>4. ASSUME NEW m \in Compensators PROVE CompensatorFits(m)'
  BY <1>1 DEF CompensatorFits, Untouched
<1> QED
  BY <1>1, <1>2, <1>3, <1>4 DEF JournalFits, ProcessTypeOK

\* A death of the dispatcher takes receipts along that no journal acknowledges.
LEMMA KillStep ==
    ASSUME JournalInv, NEW p \in Procs, Kill(p)
    PROVE  ProcessTypeOK' /\ JournalFits'
<1> USE InvFacts, Kinds
<1>1. CASE p # Dispatcher
  BY <1>1, LeaveStep DEF Kill, workflowVars
<1>2. CASE p = Dispatcher
  <2>1. /\ UNCHANGED <<file, lease, assets, edits, saved>> /\ idempotency' = {}
        /\ \A c \in Calls : pc'[c] = "idle"
    BY <1>2 DEF Kill, Restart, ExecutorFits
  <2>2. /\ step' \in [Procs -> Steps] /\ mem' \in [Procs -> Journals]
        /\ cursor' \in [Procs -> Actions] /\ relations' \in [Procs -> SUBSET Relations]
        /\ restored' \in [Procs -> SUBSET Actions]
        /\ step'[Dispatcher] = "idle" /\ Alone(Dispatcher)
    BY <1>2, LeaveFacts DEF Kill
  <2>3. DispatcherFits' /\ ExecutorFits' /\ FileFits'
    BY <2>1, <2>2 DEF DispatcherFits, ExecutorFits, FileFits, Tells, RollbackLabels, InPlace,
         Untouched
  <2>4. ASSUME NEW q \in Procs, q # Dispatcher
        PROVE  /\ step'[q] = step[q] /\ mem'[q] = mem[q] /\ cursor'[q] = cursor[q]
               /\ relations'[q] = relations[q]
    BY <2>2, <2>4 DEF Alone
  <2>5. ASSUME NEW r \in Recoverers PROVE RecovererFits(r)'
    BY <2>1, <2>4 DEF RecovererFits, Tells, Related, InPlace, Untouched
  <2>6. ASSUME NEW m \in Compensators PROVE CompensatorFits(m)'
    BY <2>1, <2>4 DEF CompensatorFits, Untouched
  <2> QED
    BY <2>1, <2>2, <2>3, <2>5, <2>6 DEF JournalFits, ProcessTypeOK
<1> QED
  BY <1>1, <1>2
-----------------------------------------------------------------------------
(* The steps of recoverers.                                                *)

LEMMA RecoverBeginStep ==
    ASSUME JournalInv, NEW p \in Procs, RecoverBegin(p)
    PROVE  ProcessTypeOK' /\ JournalFits'
<1> USE InvFacts, Kinds
<1>1. UNCHANGED <<file, mem, cursor, relations, restored, assets, edits, pc, result, idempotency, saved>>
  BY DEF RecoverBegin, locals, workflowVars
<1>2. step' \in [Procs -> Steps] /\ step'[p] = "open" /\ Alone(p)
  BY <1>1, AtFacts DEF RecoverBegin, Alone, Steps
<1>3. p \in Recoverers /\ lease' = p /\ \A r \in Recoverers : step[r] = "idle"
  BY ProcsAssumption DEF RecoverBegin, RecovererFits
<1>4. RecovererFits(p)'
  BY <1>1, <1>2, <1>3 DEF RecoverBegin, RecovererFits
<1> QED
  BY <1>1, <1>2, <1>3, <1>4, OwnStep DEF Fits, ProcessTypeOK

LEMMA RecoverOpenedStep ==
    ASSUME JournalInv, NEW p \in Procs, RecoverOpened(p)
    PROVE  ProcessTypeOK' /\ JournalFits'
<1> USE InvFacts, Kinds
<1>1. UNCHANGED <<file, lease, mem, cursor, relations, restored, assets, edits, pc, result, idempotency,
                  saved>>
  BY DEF RecoverOpened, locals, workflowVars
<1> DEFINE next == IF mem[p].state = "outcome_unknown" THEN "reading" ELSE "release"
<1>2. next \in Steps /\ At(p, next)
  BY DEF RecoverOpened, Steps
<1>3. step' \in [Procs -> Steps] /\ step'[p] = next /\ Alone(p)
  BY <1>1, <1>2, AtFacts DEF Alone
<1>4. p \in Recoverers /\ step[p] = "opened"
  BY DEF RecoverOpened
<1>5. RecovererFits(p)'
  BY <1>1, <1>3, <1>4, PlanAssumption DEF RecovererFits, Actions
<1> QED
  BY <1>1, <1>3, <1>4, <1>5, OwnStep DEF Fits, ProcessTypeOK

\* The loop ends with a decision on an outcome that is still unknown.
LEMMA Decides ==
    ASSUME JournalInv, NEW p \in Procs, step[p] = "reading", NEW event,
           Append(p, event, mem[p]), At(p, "flush"),
           event = "reconcile_exact_after" => InPlace,
           event = "reconcile_exact_before" => Untouched,
           relations' \in [Procs -> SUBSET Relations],
           \A q \in Procs \ {p} : relations'[q] = relations[q],
           UNCHANGED <<file, lease, cursor, restored, workflowVars>>
    PROVE  ProcessTypeOK' /\ JournalFits'
<1> USE InvFacts, Kinds
<1>1. UNCHANGED <<file, lease, cursor, restored, assets, edits, pc, result, idempotency, saved>>
  BY DEF workflowVars
<1>2. mem[p] \in Journals
  BY DEF ProcessTypeOK
<1>3. /\ mem' \in [Procs -> Journals]
      /\ mem'[p].compensated = mem[p].compensated
      /\ <<mem[p].state, event, mem'[p].state>> \in Transitions
      /\ \A q \in Procs \ {p} : mem'[q] = mem[q]
  BY <1>2, AppendFacts
<1>4. step' \in [Procs -> Steps] /\ step'[p] = "flush" /\ \A q \in Procs \ {p} : step'[q] = step[q]
  BY AtFacts DEF Steps
<1>5. p \in Recoverers
  BY DEF DispatcherFits, CompensatorFits, InPlace, Untouched
<1>6. file = mem[p] /\ file.state = "outcome_unknown" /\ ~file.compensated
  BY <1>5 DEF RecovererFits, FileFits, Tells, InPlace, Untouched
<1>7. /\ mem'[p].state \in Resolutions
      /\ mem'[p].state = "committed_equivalent" => event = "reconcile_exact_after"
      /\ mem'[p].state = "unchanged_safe_to_retry" => event = "reconcile_exact_before"
  BY <1>3, <1>6 DEF Transitions, Resolutions
<1>8. RecovererFits(p)'
  BY <1>1, <1>3, <1>4, <1>5, <1>6, <1>7 DEF RecovererFits, Tells, InPlace, Untouched
<1> QED
  BY <1>1, <1>3, <1>4, <1>5, <1>8, OwnStep DEF Fits, ProcessTypeOK, Alone

LEMMA DriftedStep ==
    ASSUME JournalInv, NEW p \in Procs, ReconcileDrifted(p)
    PROVE  ProcessTypeOK' /\ JournalFits'
BY InvFacts, Decides DEF ReconcileDrifted, ProcessTypeOK

\* One turn of the loop adds what it read.
LEMMA ReadFacts ==
    ASSUME ProcessTypeOK, TypeOK, NEW p \in Procs, NEW answer \in Answers, ReconcileRead(p, answer)
    PROVE  /\ relations' \in [Procs -> SUBSET Relations]
           /\ relations[p] \subseteq relations'[p]
           /\ "unknown" \in relations'[p] \/ Related(cursor[p]) \in relations'[p]
           /\ \A q \in Procs \ {p} : relations'[q] = relations[q]
<1> DEFINE told(foreign) == relations[p] \union {Relation(cursor[p], answer)} \union
              (IF foreign /\ Relation(cursor[p], answer) = "after" THEN {"foreign"} ELSE {})
<1>1. PICK foreign \in BOOLEAN : relations' = [relations EXCEPT ![p] = told(foreign)]
  BY DEF ReconcileRead
<1>2. assets[cursor[p]] \in Values
  BY DEF ProcessTypeOK, TypeOK
<1>3. Relation(cursor[p], answer) \in Relations \ {"foreign"}
  BY <1>2 DEF Relation, Relations, Values
<1>4. told(foreign) \in SUBSET Relations
  BY <1>3 DEF ProcessTypeOK, Relations
<1>5. Relation(cursor[p], answer) \in {"unknown", Related(cursor[p])}
  BY DEF Relation, Related
<1> HIDE DEF told
<1>6. /\ relations' \in [Procs -> SUBSET Relations] /\ relations'[p] = told(foreign)
      /\ \A q \in Procs \ {p} : relations'[q] = relations[q]
  BY <1>1, <1>4 DEF ProcessTypeOK
<1> USE DEF told
<1> QED
  BY <1>5, <1>6

\* An exact verdict speaks for every action of the plan.
LEMMA VerdictTells ==
    ASSUME TypeOK, NEW rs,
           \A i \in Actions : edits = 0 => "unknown" \in rs \/ Related(i) \in rs
    PROVE  /\ Verdict(rs) = "reconcile_exact_after" => InPlace
           /\ Verdict(rs) = "reconcile_exact_before" => Untouched
<1>1. Verdict(rs) = "reconcile_exact_after" => rs = {"after"}
  BY DEF Verdict
<1>2. Verdict(rs) = "reconcile_exact_before" => rs = {"before"}
  BY DEF Verdict
<1>3. rs = {"after"} /\ edits = 0 => \A i \in Actions : assets[i] = "after"
  BY DEF Related
<1>4. rs = {"before"} /\ edits = 0 => \A i \in Actions : assets[i] = "before"
  BY DEF Related
<1> QED
  BY <1>1, <1>2, <1>3, <1>4 DEF TypeOK, InPlace, Untouched, AllAfter, AllBefore

LEMMA ReadStep ==
    ASSUME JournalInv, NEW p \in Procs, NEW answer \in Answers, ReconcileRead(p, answer)
    PROVE  ProcessTypeOK' /\ JournalFits'
<1> USE InvFacts, Kinds
<1>1. /\ relations' \in [Procs -> SUBSET Relations]
      /\ relations[p] \subseteq relations'[p]
      /\ "unknown" \in relations'[p] \/ Related(cursor[p]) \in relations'[p]
      /\ \A q \in Procs \ {p} : relations'[q] = relations[q]
  BY ReadFacts
<1>2. step[p] = "reading" /\ p \in Recoverers
  BY DEF ReconcileRead, DispatcherFits, CompensatorFits, InPlace, Untouched
<1>3. cursor[p] \in 1..N /\ N \in Nat
  BY PlanAssumption DEF ProcessTypeOK, Actions
<1>4. \A i \in Actions : edits = 0 /\ i < cursor[p] => "unknown" \in relations[p] \/ Related(i) \in relations[p]
  BY <1>2 DEF RecovererFits
<1>5. \A i \in Actions : edits = 0 /\ i <= cursor[p] => "unknown" \in relations'[p] \/ Related(i) \in relations'[p]
  <2> SUFFICES ASSUME NEW i \in Actions, edits = 0, i <= cursor[p]
               PROVE  "unknown" \in relations'[p] \/ Related(i) \in relations'[p]
    OBVIOUS
  <2>1. i < cursor[p] \/ i = cursor[p]
    BY <1>3 DEF Actions
  <2> QED
    BY <1>1, <1>4, <2>1
<1>6. CASE cursor[p] < N
  <2>1. /\ UNCHANGED <<file, lease, step, mem, restored, assets, edits, pc, result, idempotency, saved>>
        /\ cursor' = [cursor EXCEPT ![p] = @ + 1]
    BY <1>6 DEF ReconcileRead, workflowVars
  <2>2. cursor[p] + 1 \in Actions
    BY <1>3, <1>6 DEF Actions
  <2>3. cursor' \in [Procs -> Actions] /\ cursor'[p] = cursor[p] + 1
        /\ \A q \in Procs \ {p} : cursor'[q] = cursor[q]
    BY <2>1, <2>2 DEF ProcessTypeOK
  <2>4. \A i \in Actions : i < cursor'[p] => i <= cursor[p]
    BY <1>3, <2>3 DEF Actions
  <2>5. RecovererFits(p)'
    BY <1>2, <1>5, <2>1, <2>4 DEF RecovererFits, Related
  <2> QED
    BY <1>1, <1>2, <2>1, <2>3, <2>5, OwnStep DEF Fits, ProcessTypeOK, Alone
<1>7. CASE ~(cursor[p] < N)
  <2>1. \A i \in Actions : i <= cursor[p]
    BY <1>3, <1>7 DEF Actions
  <2>2. /\ Verdict(relations'[p]) = "reconcile_exact_after" => InPlace
        /\ Verdict(relations'[p]) = "reconcile_exact_before" => Untouched
    BY <1>5, <2>1, VerdictTells
  <2>3. /\ Append(p, Verdict(relations'[p]), mem[p]) /\ At(p, "flush")
        /\ UNCHANGED <<file, lease, cursor, restored, workflowVars>>
    BY <1>7 DEF ReconcileRead
  <2> QED
    BY <1>1, <1>2, <2>2, <2>3, Decides
<1> QED
  BY <1>6, <1>7

LEMMA ReleaseStep ==
    ASSUME JournalInv, NEW p \in Procs, Release(p)
    PROVE  ProcessTypeOK' /\ JournalFits'
<1>1. p \in Recoverers /\ lease = p
  BY InvFacts, Kinds DEF Release, DispatcherFits, CompensatorFits, RecovererFits, InPlace, Untouched
<1> QED
  BY <1>1, LeaveStep, Kinds DEF Release, workflowVars
-----------------------------------------------------------------------------
(* The steps of compensators.                                              *)

LEMMA CompensatorBeginStep ==
    ASSUME JournalInv, NEW p \in Procs, CompensatorBegin(p)
    PROVE  ProcessTypeOK' /\ JournalFits'
<1> USE InvFacts, Kinds
<1>1. UNCHANGED <<file, lease, mem, cursor, relations, restored, assets, edits, pc, result, idempotency,
                  saved>>
  BY DEF CompensatorBegin, locals, workflowVars
<1>2. step' \in [Procs -> Steps] /\ step'[p] = "open" /\ Alone(p)
  BY <1>1, AtFacts DEF CompensatorBegin, Alone, Steps
<1>3. p \in Compensators /\ CompensatorFits(p)'
  BY <1>1, <1>2 DEF CompensatorBegin, CompensatorFits, Untouched
<1> QED
  BY <1>1, <1>2, <1>3, OwnStep DEF Fits, ProcessTypeOK

LEMMA CompensatorOpenedStep ==
    ASSUME JournalInv, NEW p \in Procs, CompensatorOpened(p)
    PROVE  ProcessTypeOK' /\ JournalFits'
<1> USE InvFacts, Kinds
<1>a. p \in Compensators /\ UNCHANGED <<file, lease, assets, edits, pc, result, idempotency, saved>>
  BY DEF CompensatorOpened, workflowVars
<1>1. CASE mem[p].state = "partial"
  <2>1. /\ UNCHANGED <<mem, relations, restored>> /\ At(p, "restore")
        /\ cursor' = [cursor EXCEPT ![p] = N]
    BY <1>1 DEF CompensatorOpened
  <2>2. N \in Actions /\ \A i \in Actions : ~(i > N)
    BY PlanAssumption DEF Actions
  <2>3. step' \in [Procs -> Steps] /\ step'[p] = "restore" /\ \A q \in Procs \ {p} : step'[q] = step[q]
    BY <2>1, AtFacts DEF Steps
  <2>4. cursor' \in [Procs -> Actions] /\ cursor'[p] = N /\ \A q \in Procs \ {p} : cursor'[q] = cursor[q]
    BY <2>1, <2>2 DEF ProcessTypeOK
  <2>5. CompensatorFits(p)'
    BY <1>a, <1>1, <2>1, <2>2, <2>3, <2>4 DEF CompensatorOpened, CompensatorFits, Untouched
  <2> QED
    BY <1>a, <2>1, <2>3, <2>4, <2>5, OwnStep DEF Fits, ProcessTypeOK, Alone
<1>2. CASE mem[p].state # "partial"
  BY <1>a, <1>2, LeaveStep DEF CompensatorOpened
<1> QED
  BY <1>1, <1>2

\* The loop goes on below an action that is restored, and ends below the first.
LEMMA RestoredStep ==
    ASSUME JournalInv, NEW p \in Procs, Restored(p), step[p] \in {"restore", "restoreReadback"},
           assets[cursor[p]] = "before", relations' = relations,
           restored' \in [Procs -> SUBSET Actions],
           UNCHANGED <<file, lease, workflowVars>>
    PROVE  ProcessTypeOK' /\ JournalFits'
<1> USE InvFacts, Kinds
<1>1. UNCHANGED <<file, lease, relations, assets, edits, pc, result, idempotency, saved>>
  BY DEF workflowVars
<1>2. p \in Compensators /\ cursor[p] \in 1..N /\ N \in Nat
  BY PlanAssumption DEF DispatcherFits, RecovererFits, ProcessTypeOK, Actions, InPlace
<1>3. /\ file.state \in {"partial", "manual_review"} /\ mem[p].state = "partial"
      /\ \A i \in Actions : edits = 0 /\ i > cursor[p] => assets[i] = "before"
  BY <1>2 DEF CompensatorFits, Untouched
<1>4. \A i \in Actions : edits = 0 /\ i >= cursor[p] => assets[i] = "before"
  <2> SUFFICES ASSUME NEW i \in Actions, edits = 0, i >= cursor[p] PROVE assets[i] = "before"
    OBVIOUS
  <2>1. i > cursor[p] \/ i = cursor[p]
    BY <1>2 DEF Actions
  <2> QED
    BY <1>3, <2>1
<1>5. CASE cursor[p] = 1
  <2>1. At(p, "flush") /\ cursor' = cursor
        /\ Append(p, "manual_review_opened", [mem[p] EXCEPT !.compensated = TRUE])
    BY <1>5 DEF Restored
  <2>2. [mem[p] EXCEPT !.compensated = TRUE] \in Journals
    BY DEF ProcessTypeOK, Journals
  <2>3. /\ mem' \in [Procs -> Journals]
        /\ <<mem[p].state, "manual_review_opened", mem'[p].state>> \in Transitions
        /\ \A q \in Procs \ {p} : mem'[q] = mem[q]
    BY <2>1, <2>2, AppendFacts
  <2>4. mem'[p].state = "manual_review"
    BY <2>3 DEF Transitions
  <2>5. step' \in [Procs -> Steps] /\ step'[p] = "flush" /\ \A q \in Procs \ {p} : step'[q] = step[q]
    BY <2>1, AtFacts DEF Steps
  <2>6. Untouched
    BY <1>4, <1>5 DEF Actions, Untouched, AllBefore, TypeOK
  <2>7. CompensatorFits(p)'
    BY <1>1, <1>3, <2>4, <2>5, <2>6 DEF CompensatorFits, Untouched
  <2> QED
    BY <1>1, <1>2, <2>1, <2>3, <2>5, <2>7, OwnStep DEF Fits, ProcessTypeOK, Alone
<1>6. CASE cursor[p] # 1
  <2>1. At(p, "restore") /\ mem' = mem /\ cursor' = [cursor EXCEPT ![p] = @ - 1]
    BY <1>6 DEF Restored
  <2>2. cursor[p] - 1 \in Actions
    BY <1>2, <1>6 DEF Actions
  <2>3. /\ cursor' \in [Procs -> Actions] /\ cursor'[p] = cursor[p] - 1
        /\ \A q \in Procs \ {p} : cursor'[q] = cursor[q]
    BY <2>1, <2>2 DEF ProcessTypeOK
  <2>4. step' \in [Procs -> Steps] /\ step'[p] = "restore" /\ \A q \in Procs \ {p} : step'[q] = step[q]
    BY <2>1, AtFacts DEF Steps
  <2>5. \A i \in Actions : edits = 0 /\ i > cursor'[p] => assets[i] = "before"
    BY <1>2, <1>4, <2>3 DEF Actions
  <2>6. CompensatorFits(p)'
    BY <1>1, <1>3, <2>1, <2>4, <2>5 DEF CompensatorFits, Untouched
  <2> QED
    BY <1>1, <1>2, <2>1, <2>3, <2>4, <2>6, OwnStep DEF Fits, ProcessTypeOK, Alone
<1> QED
  BY <1>5, <1>6

LEMMA RestoreReadStep ==
    ASSUME JournalInv, NEW p \in Procs, RestoreRead(p) \/ RestoreRefused(p)
    PROVE  ProcessTypeOK' /\ JournalFits'
<1> USE InvFacts, Kinds
<1>a. step[p] = "restore" /\ UNCHANGED <<file, lease, workflowVars>>
  BY DEF RestoreRead, RestoreRefused
<1>b. p \in Compensators
  BY <1>a DEF DispatcherFits, RecovererFits, InPlace
<1>1. CASE Leave(p)
  BY <1>a, <1>b, <1>1, LeaveStep DEF workflowVars
<1>2. CASE assets[cursor[p]] = "before" /\ Restored(p) /\ UNCHANGED <<relations, restored>>
  BY <1>a, <1>2, RestoredStep DEF ProcessTypeOK
<1>3. CASE At(p, "restorePut") /\ UNCHANGED locals
  <2>1. UNCHANGED <<file, lease, mem, cursor, relations, restored, assets, edits, pc, result, idempotency,
                    saved>>
    BY <1>a, <1>3 DEF locals, workflowVars
  <2>2. step' \in [Procs -> Steps] /\ step'[p] = "restorePut" /\ Alone(p)
    BY <1>3, <2>1, AtFacts DEF Alone, Steps
  <2>3. CompensatorFits(p)'
    BY <1>a, <1>b, <2>1, <2>2 DEF CompensatorFits, Untouched
  <2> QED
    BY <1>b, <2>1, <2>2, <2>3, OwnStep DEF Fits, ProcessTypeOK
<1> QED
  BY <1>1, <1>2, <1>3 DEF RestoreRead, RestoreRefused

LEMMA RestoreReadbackStep ==
    ASSUME JournalInv, NEW p \in Procs, NEW answer \in Answers, RestoreReadback(p, answer)
    PROVE  ProcessTypeOK' /\ JournalFits'
<1> USE InvFacts, Kinds
<1>a. step[p] = "restoreReadback" /\ UNCHANGED <<file, lease, workflowVars>>
  BY DEF RestoreReadback
<1>b. p \in Compensators
  BY <1>a DEF DispatcherFits, RecovererFits, InPlace
<1>1. CASE answer = "ok" /\ assets[cursor[p]] = "before"
  <2>1. /\ restored' = [restored EXCEPT ![p] = @ \union {cursor[p]}]
        /\ Restored(p) /\ relations' = relations
    BY <1>1 DEF RestoreReadback
  <2>2. restored[p] \union {cursor[p]} \in SUBSET Actions
    BY DEF ProcessTypeOK
  <2>3. restored' \in [Procs -> SUBSET Actions]
    BY <2>1, <2>2 DEF ProcessTypeOK
  <2> QED
    BY <1>a, <1>1, <2>1, <2>3, RestoredStep
<1>2. CASE ~(answer = "ok" /\ assets[cursor[p]] = "before")
  <2>1. Leave(p)
    BY <1>2 DEF RestoreReadback
  <2> QED
    BY <1>a, <1>b, <2>1, LeaveStep DEF workflowVars
<1> QED
  BY <1>1, <1>2

\* A restore only ever brings assets back, under everybody's eyes.
LEMMA RestorePutStep ==
    ASSUME JournalInv, NEW p \in Procs, NEW answer \in Answers, RestorePut(p, answer)
    PROVE  ProcessTypeOK' /\ JournalFits'
<1> USE InvFacts, Kinds
<1>1. /\ step[p] = "restorePut" /\ PutValue(cursor[p], "before", answer)
      /\ UNCHANGED <<file, lease, edits, pc, result, idempotency, saved>>
  BY DEF RestorePut, executorVars, callVars
<1>2. p \in Compensators
  BY <1>1 DEF DispatcherFits, RecovererFits, InPlace
<1>3. file.state \in {"partial", "manual_review"} /\ cursor[p] \in Actions
  BY <1>1, <1>2 DEF CompensatorFits, ProcessTypeOK, Untouched
<1>4. \A i \in Actions : assets[i] = "before" => assets'[i] = "before"
  BY <1>1, <1>3 DEF PutValue, TypeOK
<1>5. Untouched => Untouched'
  BY <1>1, <1>3 DEF PutValue, Untouched, AllBefore
<1>6. /\ ProcessTypeOK' /\ Alone(p)
      /\ step'[p] = "idle" \/ (step'[p] = "restoreReadback" /\ mem' = mem /\ cursor' = cursor)
  <2>1. CASE answer = "ok"
    <3>1. At(p, "restoreReadback") /\ UNCHANGED <<mem, cursor, relations, restored>>
      BY <2>1 DEF RestorePut, locals
    <3> QED
      BY <1>1, <3>1, AtFacts DEF ProcessTypeOK, Alone, Steps
  <2>2. CASE answer # "ok"
    <3>1. Leave(p)
      BY <2>2 DEF RestorePut
    <3> QED
      BY <1>1, <3>1, LeaveFacts DEF ProcessTypeOK
  <2> QED
    BY <2>1, <2>2
<1>7. ASSUME NEW q \in Procs, q # p
      PROVE  step'[q] = step[q] /\ mem'[q] = mem[q] /\ cursor'[q] = cursor[q]
  BY <1>6, <1>7 DEF Alone
<1>8. FileFits'
  BY <1>1, <1>3, <1>5 DEF FileFits, Tells, Untouched, InPlace
<1>9. DispatcherFits' /\ ExecutorFits'
  BY <1>1, <1>2, <1>3, <1>7 DEF DispatcherFits, ExecutorFits, InPlace
<1>10. ASSUME NEW r \in Recoverers PROVE RecovererFits(r)'
  BY <1>1, <1>2, <1>3, <1>7 DEF RecovererFits
<1>11. ASSUME NEW m \in Compensators PROVE CompensatorFits(m)'
  <2>1. CASE m = p
    BY <1>1, <1>2, <1>3, <1>4, <1>6, <2>1 DEF CompensatorFits, Untouched
  <2>2. CASE m # p
    BY <1>1, <1>4, <1>5, <1>7, <2>2 DEF CompensatorFits, Untouched
  <2> QED
    BY <2>1, <2>2
<1> QED
  BY <1>6, <1>8, <1>9, <1>10, <1>11 DEF JournalFits

-----------------------------------------------------------------------------
(* Whoever writes the journal file knows what it holds.                    *)

LEMMA FlushFacts ==
    ASSUME JournalInv, NEW p \in Procs, Flush(p)
    PROVE  /\ ProcessTypeOK' /\ Alone(p) /\ step[p] = "flush" /\ file' = mem[p]
           /\ UNCHANGED <<lease, assets, edits, pc, result, idempotency, saved>>
           /\ \/ p \in Recoverers /\ step'[p] = "release"
              \/ /\ p \notin Recoverers /\ mem[p].state \in {"start", "not_dispatched"}
                 /\ step'[p] = IF mem[p].state = "start" THEN "opened" ELSE "ready"
                 /\ mem' = mem
              \/ /\ p \notin Recoverers /\ mem[p].state \notin {"start", "not_dispatched"}
                 /\ step'[p] = "idle"
<1> USE InvFacts, Kinds
<1>1. /\ step[p] = "flush" /\ file' = mem[p] /\ mem[p] \in Journals
      /\ UNCHANGED <<lease, assets, edits, pc, result, idempotency, saved>>
  BY DEF Flush, workflowVars, ProcessTypeOK
<1>2. p \in Recoverers => mem[p].state \notin {"start", "not_dispatched"}
  BY <1>1 DEF RecovererFits, Resolutions
<1> DEFINE Stays(label) == At(p, label) /\ UNCHANGED locals
<1>3. ASSUME NEW label \in Steps, Stays(label)
      PROVE  ProcessTypeOK' /\ Alone(p) /\ step'[p] = label /\ mem' = mem
  BY <1>1, <1>3, AtFacts DEF locals, ProcessTypeOK, Alone
<1>4. CASE p \in Recoverers
  <2>1. Stays("release")
    BY <1>2, <1>4 DEF Flush
  <2> QED
    BY <1>1, <1>3, <1>4, <2>1 DEF Steps
<1>5. CASE p \notin Recoverers /\ mem[p].state = "start"
  <2>1. Stays("opened")
    BY <1>5 DEF Flush
  <2> QED
    BY <1>1, <1>3, <1>5, <2>1 DEF Steps
<1>6. CASE p \notin Recoverers /\ mem[p].state = "not_dispatched"
  <2>1. Stays("ready")
    BY <1>6 DEF Flush
  <2> QED
    BY <1>1, <1>3, <1>6, <2>1 DEF Steps
<1>7. CASE p \notin Recoverers /\ mem[p].state \notin {"start", "not_dispatched"}
  <2>1. Leave(p)
    BY <1>7 DEF Flush
  <2> QED
    BY <1>1, <1>7, <2>1, LeaveFacts DEF ProcessTypeOK
<1> QED
  BY <1>4, <1>5, <1>6, <1>7

LEMMA FlushStep ==
    ASSUME JournalInv, NEW p \in Procs, Flush(p)
    PROVE  ProcessTypeOK' /\ JournalFits'
<1> USE InvFacts, Kinds
<1>1. /\ ProcessTypeOK' /\ Alone(p) /\ step[p] = "flush" /\ file' = mem[p]
      /\ UNCHANGED <<lease, assets, edits, pc, result, idempotency, saved>>
      /\ \/ p \in Recoverers /\ step'[p] = "release"
         \/ /\ p \notin Recoverers /\ mem[p].state \in {"start", "not_dispatched"}
            /\ step'[p] = IF mem[p].state = "start" THEN "opened" ELSE "ready"
            /\ mem' = mem
         \/ /\ p \notin Recoverers /\ mem[p].state \notin {"start", "not_dispatched"}
            /\ step'[p] = "idle"
  BY FlushFacts
<1>2. ASSUME NEW q \in Procs, q # p
      PROVE  /\ step'[q] = step[q] /\ mem'[q] = mem[q] /\ cursor'[q] = cursor[q]
             /\ relations'[q] = relations[q]
  BY <1>1, <1>2 DEF Alone
<1>3. CASE p = Dispatcher
  <2>1. /\ ~mem[p].compensated
        /\ <<file.state, mem[p].state>> \in
              {<<"absent", "start">>, <<"start", "start">>, <<"start", "not_dispatched">>,
               <<"unchanged_safe_to_retry", "not_dispatched">>,
               <<"not_dispatched", "outcome_unknown">>,
               <<"not_dispatched", "committed_equivalent">>}
        /\ Tells(mem[p].state)
    BY <1>1, <1>3 DEF DispatcherFits, InPlace
  <2>2. FileFits'
    BY <1>1, <2>1 DEF FileFits, Tells, Untouched, InPlace
  <2>3. DispatcherFits'
    BY <1>1, <1>3, <2>1 DEF DispatcherFits, InPlace
  <2>4. ExecutorFits'
    BY <1>1, <1>3, <2>1 DEF ExecutorFits
  <2>5. ASSUME NEW r \in Recoverers PROVE RecovererFits(r)'
    BY <1>1, <1>2, <1>3, <2>1 DEF RecovererFits
  <2>6. ASSUME NEW m \in Compensators PROVE CompensatorFits(m)'
    BY <1>1, <1>2, <1>3, <2>1 DEF CompensatorFits, Untouched
  <2> QED
    BY <1>1, <2>2, <2>3, <2>4, <2>5, <2>6 DEF JournalFits
<1>4. CASE p \in Recoverers
  <2>1. /\ file.state = "outcome_unknown" /\ lease = p /\ ~mem[p].compensated
        /\ mem[p].state \in Resolutions /\ Tells(mem[p].state)
    BY <1>1, <1>4 DEF RecovererFits
  <2>2. FileFits'
    BY <1>1, <2>1 DEF FileFits, Tells, Untouched, InPlace
  <2>3. DispatcherFits' /\ ExecutorFits'
    BY <1>1, <1>2, <1>4, <2>1 DEF DispatcherFits, ExecutorFits, InPlace
  <2>4. ASSUME NEW r \in Recoverers PROVE RecovererFits(r)'
    <3>1. CASE r = p
      BY <1>1, <2>1, <3>1 DEF RecovererFits, Resolutions
    <3>2. CASE r # p
      <4>1. step[r] = "idle"
        BY <2>1, <3>2 DEF RecovererFits
      <4> QED
        BY <1>2, <3>2, <4>1 DEF RecovererFits
    <3> QED
      BY <3>1, <3>2
  <2>5. ASSUME NEW m \in Compensators PROVE CompensatorFits(m)'
    BY <1>1, <1>2, <1>4, <2>1 DEF CompensatorFits, Resolutions, Untouched
  <2> QED
    BY <1>1, <2>2, <2>3, <2>4, <2>5 DEF JournalFits
<1>5. CASE p \in Compensators
  <2>1. /\ file.state \in {"partial", "manual_review"} /\ mem[p].state = "manual_review"
        /\ Untouched
    BY <1>1, <1>5 DEF CompensatorFits, Untouched
  <2>2. FileFits'
    BY <1>1, <2>1 DEF FileFits, Tells, Untouched, AllBefore, InPlace
  <2>3. DispatcherFits' /\ ExecutorFits'
    BY <1>1, <1>2, <1>5, <2>1 DEF DispatcherFits, ExecutorFits, InPlace
  <2>4. ASSUME NEW r \in Recoverers PROVE RecovererFits(r)'
    BY <1>1, <1>2, <1>5, <2>1 DEF RecovererFits
  <2>5. ASSUME NEW m \in Compensators PROVE CompensatorFits(m)'
    <3>1. CASE m = p
      BY <1>1, <1>5, <2>1, <3>1 DEF CompensatorFits, Untouched
    <3>2. CASE m # p
      BY <1>1, <1>2, <2>1, <3>2 DEF CompensatorFits, Untouched
    <3> QED
      BY <3>1, <3>2
  <2> QED
    BY <1>1, <2>2, <2>3, <2>4, <2>5 DEF JournalFits
<1> QED
  BY <1>3, <1>4, <1>5

-----------------------------------------------------------------------------
(* The invariant of the whole.                                             *)

LEMMA JournalInvInit == JournalInit => JournalInv
<1> SUFFICES ASSUME JournalInit PROVE JournalInv
  OBVIOUS
<1>1. WorkflowInv /\ TypeOK
  BY TypeInit, WalkInit DEF JournalInit, WorkflowInv, TypeInv
<1>2. 1 \in Actions /\ NoJournal \in Journals /\ NoJournal.state = "absent" /\ ~NoJournal.compensated
  BY PlanAssumption, NoJournalFacts DEF Actions
<1>3. ProcessTypeOK
  BY <1>2 DEF JournalInit, ProcessTypeOK, Steps
<1>4. FileFits /\ ExecutorFits /\ DispatcherFits
  BY <1>2, Kinds DEF JournalInit, Init, FileFits, Tells, ExecutorFits, DispatcherFits,
       RollbackLabels, InPlace, Untouched
<1>5. \A r \in Recoverers : RecovererFits(r)
  BY <1>2, Kinds DEF JournalInit, RecovererFits
<1>6. \A m \in Compensators : CompensatorFits(m)
  BY <1>2, Kinds DEF JournalInit, CompensatorFits, Untouched
<1> QED
  BY <1>1, <1>3, <1>4, <1>5, <1>6, JournalTypes DEF JournalInv, JournalFits

LEMMA FitsStep ==
    ASSUME SingleCall, JournalInv, JournalNext
    PROVE  ProcessTypeOK' /\ JournalFits'
<1>1. ASSUME DispatcherBegin PROVE ProcessTypeOK' /\ JournalFits'
  BY <1>1, DispatcherBeginStep
<1>2. ASSUME ContinueDispatcher PROVE ProcessTypeOK' /\ JournalFits'
  BY <1>2, DispatcherStep, DispatchStep, ExecuteStep DEF ContinueDispatcher
<1>3. ASSUME NEW p \in Procs, BeginProcess(p) PROVE ProcessTypeOK' /\ JournalFits'
  BY <1>3, RecoverBeginStep, CompensatorBeginStep DEF BeginProcess
<1>4. ASSUME NEW p \in Procs, ContinueProcess(p) PROVE ProcessTypeOK' /\ JournalFits'
  <2>1. CASE Open(p) \/ Flush(p)
    BY <2>1, OpenStep, FlushStep
  <2>2. CASE RecoverOpened(p) \/ ReconcileDrifted(p) \/ Release(p)
    BY <2>2, RecoverOpenedStep, DriftedStep, ReleaseStep
  <2>3. CASE CompensatorOpened(p) \/ RestoreRead(p) \/ RestoreRefused(p)
    BY <2>3, CompensatorOpenedStep, RestoreReadStep
  <2>4. CASE \E answer \in Answers :
                ReconcileRead(p, answer) \/ RestorePut(p, answer) \/ RestoreReadback(p, answer)
    BY <2>4, ReadStep, RestorePutStep, RestoreReadbackStep
  <2> QED
    BY <1>4, <2>1, <2>2, <2>3, <2>4 DEF ContinueProcess
<1>5. ASSUME Around PROVE ProcessTypeOK' /\ JournalFits'
  BY <1>5, AroundStep
<1>6. ASSUME NEW p \in Procs, Kill(p) PROVE ProcessTypeOK' /\ JournalFits'
  BY <1>6, KillStep
<1> QED
  BY <1>1, <1>2, <1>3, <1>4, <1>5, <1>6 DEF JournalNext, JournalStep

LEMMA WorkflowStep ==
    ASSUME SingleCall, JournalInv, JournalNext
    PROVE  TypeOK' /\ WorkflowInv'
<1>1. CASE \E p \in Procs, answer \in Answers : RestorePut(p, answer)
  BY <1>1, RestoreKeepsWorkflow
<1>2. CASE ~\E p \in Procs, answer \in Answers : RestorePut(p, answer)
  <2>1. [Next]_vars
    BY <1>2, WorkflowProjection DEF JournalInv
  <2> QED
    BY <2>1, TypeStep, UsesStep, WalkStep DEF JournalInv, WorkflowInv, TypeInv
<1> QED
  BY <1>1, <1>2

LEMMA JournalStutters ==
    ASSUME JournalInv, UNCHANGED allVars
    PROVE  JournalInv'
BY DEF allVars, JournalInv, JournalTypeOK, WorkflowInv, TypeInv, TypeOK, UsesBounded, WalkInv,
       HandPoint, QuietPoint, ApplyPoint, RollbackPoint, HiddenPoint, Hidden, JournalFits,
       FileFits, Tells, InPlace, Untouched, ExecutorFits, DispatcherFits, RecovererFits, Related,
       CompensatorFits

LEMMA JournalInvariant == ASSUME SingleCall PROVE JournalSpec => []JournalInv
<1>1. ASSUME JournalInv, [JournalNext]_allVars PROVE JournalInv'
  <2>1. CASE JournalNext
    <3>1. ProcessTypeOK' /\ TypeOK' /\ WorkflowInv' /\ JournalFits'
      BY <1>1, <2>1, FitsStep, WorkflowStep
    <3>2. JournalTypeOK'
      BY <3>1 DEF JournalTypeOK, ProcessTypeOK
    <3> QED
      BY <3>1, <3>2 DEF JournalInv
  <2>2. CASE UNCHANGED allVars
    BY <1>1, <2>2, JournalStutters
  <2> QED
    BY <1>1, <2>1, <2>2
<1>2. JournalInv /\ [JournalNext]_allVars => JournalInv'
  BY <1>1
<1> QED
  BY JournalInvInit, <1>2, PTL DEF JournalSpec

-----------------------------------------------------------------------------
(* Types need no more than types.                                          *)

LEMMA MemTypes ==
    ASSUME ProcessTypeOK, NEW p \in Procs, NEW event, NEW entry \in Journals,
           Append(p, event, entry), At(p, "flush"),
           UNCHANGED <<file, lease, cursor, restored>>,
           relations' \in [Procs -> SUBSET Relations]
    PROVE  ProcessTypeOK'
BY AppendFacts, AtFacts DEF ProcessTypeOK, Steps

LEMMA DispatcherTypes ==
    ASSUME ProcessTypeOK, DispatcherBegin \/ ContinueDispatcher
    PROVE  ProcessTypeOK'
<1> USE Kinds
<1>a. mem[Dispatcher] \in Journals
  BY DEF ProcessTypeOK
<1>1. CASE DispatcherBegin \/ \E c \in Calls : Dispatch(c)
  BY <1>1, AtFacts DEF DispatcherBegin, Dispatch, ProcessTypeOK, locals, Steps
<1>2. CASE DispatcherInitialize
  BY <1>2, <1>a, MemTypes DEF DispatcherInitialize, ProcessTypeOK
<1>3. CASE DispatcherLeaves
  BY <1>3, LeaveFacts DEF DispatcherLeaves, ProcessTypeOK
<1>4. ASSUME NEW k \in Keys, Retry(k) PROVE ProcessTypeOK'
  <2>1. [mem[Dispatcher] EXCEPT !.key = k, !.keys = @ \union {k}] \in Journals
    BY <1>a DEF Journals
  <2> QED
    BY <1>4, <2>1, MemTypes DEF Retry, ProcessTypeOK
<1>5. ASSUME NEW c \in Calls, RecordOutcome(c) PROVE ProcessTypeOK'
  BY <1>5, <1>a, MemTypes DEF RecordOutcome, ProcessTypeOK
<1>6. ASSUME NEW c \in Calls, Execute(c) PROVE ProcessTypeOK'
  BY <1>6 DEF Execute, journalVars, ProcessTypeOK
<1> QED
  BY <1>1, <1>2, <1>3, <1>4, <1>5, <1>6 DEF ContinueDispatcher

LEMMA RecovererTypes ==
    ASSUME ProcessTypeOK, TypeOK, NEW p \in Procs, NEW answer \in Answers,
           \/ RecoverBegin(p) \/ RecoverOpened(p) \/ ReconcileDrifted(p) \/ Release(p)
           \/ ReconcileRead(p, answer)
    PROVE  ProcessTypeOK'
<1>a. mem[p] \in Journals /\ cursor[p] \in 1..N /\ N \in Nat
  BY PlanAssumption DEF ProcessTypeOK, Actions
<1>1. CASE RecoverBegin(p)
  BY <1>1, AtFacts DEF RecoverBegin, ProcessTypeOK, locals, Steps
<1>2. CASE RecoverOpened(p)
  <2>1. (IF mem[p].state = "outcome_unknown" THEN "reading" ELSE "release") \in Steps
    BY DEF Steps
  <2> QED
    BY <1>2, <2>1, AtFacts DEF RecoverOpened, ProcessTypeOK, locals
<1>3. CASE ReconcileDrifted(p)
  BY <1>3, <1>a, MemTypes DEF ReconcileDrifted, ProcessTypeOK
<1>4. CASE Release(p)
  BY <1>4, LeaveFacts DEF Release, ProcessTypeOK
<1>5. CASE ReconcileRead(p, answer)
  <2>1. relations' \in [Procs -> SUBSET Relations]
    BY <1>5, ReadFacts
  <2>2. CASE cursor[p] < N
    <3>1. cursor[p] + 1 \in Actions
      BY <1>a, <2>2 DEF Actions
    <3> QED
      BY <1>5, <2>1, <2>2, <3>1 DEF ReconcileRead, ProcessTypeOK
  <2>3. CASE ~(cursor[p] < N)
    BY <1>5, <1>a, <2>1, <2>3, MemTypes DEF ReconcileRead
  <2> QED
    BY <2>2, <2>3
<1> QED
  BY <1>1, <1>2, <1>3, <1>4, <1>5

LEMMA RestoredTypes ==
    ASSUME ProcessTypeOK, NEW p \in Procs, Restored(p), relations' = relations,
           restored' \in [Procs -> SUBSET Actions], UNCHANGED <<file, lease>>
    PROVE  ProcessTypeOK'
<1>1. CASE cursor[p] = 1
  <2>1. [mem[p] EXCEPT !.compensated = TRUE] \in Journals
    BY DEF ProcessTypeOK, Journals
  <2> QED
    BY <1>1, <2>1, AppendFacts, AtFacts DEF Restored, ProcessTypeOK, Steps
<1>2. CASE cursor[p] # 1
  <2>1. cursor[p] - 1 \in Actions
    BY <1>2, PlanAssumption DEF ProcessTypeOK, Actions
  <2> QED
    BY <1>2, <2>1, AtFacts DEF Restored, ProcessTypeOK, Steps
<1> QED
  BY <1>1, <1>2

LEMMA CompensatorTypes ==
    ASSUME ProcessTypeOK, NEW p \in Procs, NEW answer \in Answers,
           \/ CompensatorBegin(p) \/ CompensatorOpened(p) \/ RestoreRead(p) \/ RestoreRefused(p)
           \/ RestorePut(p, answer) \/ RestoreReadback(p, answer)
    PROVE  ProcessTypeOK'
<1>a. N \in Actions
  BY PlanAssumption DEF Actions
<1>1. CASE CompensatorBegin(p)
  BY <1>1, AtFacts DEF CompensatorBegin, ProcessTypeOK, locals, Steps
<1>2. CASE CompensatorOpened(p)
  BY <1>2, <1>a, AtFacts, LeaveFacts DEF CompensatorOpened, ProcessTypeOK, Steps
<1>3. CASE RestoreRead(p) \/ RestoreRefused(p)
  BY <1>3, AtFacts, LeaveFacts, RestoredTypes
     DEF RestoreRead, RestoreRefused, ProcessTypeOK, locals, Steps
<1>4. CASE RestorePut(p, answer)
  BY <1>4, AtFacts, LeaveFacts DEF RestorePut, ProcessTypeOK, locals, Steps
<1>5. CASE RestoreReadback(p, answer)
  <2>1. [restored EXCEPT ![p] = @ \union {cursor[p]}] \in [Procs -> SUBSET Actions]
    BY DEF ProcessTypeOK
  <2> QED
    BY <1>5, <2>1, LeaveFacts, RestoredTypes DEF RestoreReadback, ProcessTypeOK
<1> QED
  BY <1>1, <1>2, <1>3, <1>4, <1>5

LEMMA SharedTypes ==
    ASSUME ProcessTypeOK, NEW p \in Procs, Open(p) \/ Flush(p) \/ Kill(p)
    PROVE  ProcessTypeOK'
<1>1. CASE Open(p)
  <2>1. [file EXCEPT !.state = "start"] \in Journals
    BY RecordFacts DEF ProcessTypeOK
  <2> QED
    BY <1>1, <2>1, AtFacts DEF Open, ProcessTypeOK, Steps
<1>2. CASE Flush(p)
  <2>1. file' \in Journals /\ lease' = lease
    BY <1>2 DEF Flush, ProcessTypeOK
  <2>2. CASE Leave(p)
    BY <2>1, <2>2, LeaveFacts DEF ProcessTypeOK
  <2>3. ASSUME NEW label \in {"release", "opened", "ready"}, At(p, label), UNCHANGED locals
        PROVE  ProcessTypeOK'
    BY <2>1, <2>3, AtFacts DEF ProcessTypeOK, locals, Steps
  <2> QED
    BY <1>2, <2>2, <2>3 DEF Flush
<1>3. CASE Kill(p)
  BY <1>3, LeaveFacts DEF Kill, ProcessTypeOK
<1> QED
  BY <1>1, <1>2, <1>3

LEMMA JournalTypesStep ==
    ASSUME JournalTypeOK, UsesBounded, [JournalNext]_allVars
    PROVE  JournalTypeOK' /\ UsesBounded'
<1> USE JournalTypes
<1>1. CASE JournalNext
  <2>1. ProcessTypeOK'
    <3>1. CASE Around
      BY <3>1 DEF Around, journalVars, ProcessTypeOK
    <3>2. ASSUME NEW p \in Procs, BeginProcess(p) \/ ContinueProcess(p) \/ Kill(p)
          PROVE  ProcessTypeOK'
      BY <3>2, SharedTypes, RecovererTypes, CompensatorTypes DEF BeginProcess, ContinueProcess, Answers
    <3> QED
      BY <1>1, <3>1, <3>2, DispatcherTypes DEF JournalNext, JournalStep
  <2>2. TypeOK' /\ UsesBounded'
    <3>1. ASSUME NEW p \in Procs, NEW answer \in Answers, RestorePut(p, answer)
          PROVE  TypeOK' /\ UsesBounded'
      <4>1. cursor[p] \in Actions /\ "before" \in Values
        BY DEF ProcessTypeOK, Values
      <4> QED
        BY <3>1, <4>1 DEF RestorePut, PutValue, TypeOK, UsesBounded, approvalVars, executorVars, callVars
    <3> QED
      BY <1>1, <3>1, WorkflowProjection, TypeStep, UsesStep DEF TypeInv
  <2> QED
    BY <2>1, <2>2 DEF JournalTypeOK, ProcessTypeOK
<1>2. CASE UNCHANGED allVars
  BY <1>2 DEF allVars, JournalTypeOK, TypeOK, UsesBounded
<1> QED
  BY <1>1, <1>2

\* Journal, lease and the variables of every process keep their types, however
\* many calls of the executor the dispatcher runs.
THEOREM JournalTypeCorrect == JournalSpec => []JournalTypeOK
<1>1. JournalInit => JournalTypeOK /\ UsesBounded
  BY JournalInvInit DEF JournalInv, WorkflowInv, TypeInv
<1>2. JournalTypeOK /\ UsesBounded /\ [JournalNext]_allVars => JournalTypeOK' /\ UsesBounded'
  BY JournalTypesStep
<1> QED
  BY <1>1, <1>2, PTL DEF JournalSpec

-----------------------------------------------------------------------------
(* What the journal promises.                                              *)

\* The journal decides nothing about the assets that is not so, however many
\* recoverers, compensators and retries overlap, and whoever is killed.
THEOREM JournalIsTruthful ==
    ASSUME SingleCall
    PROVE  JournalSpec => []JournalTellsTheTruth
<1>1. JournalInv => JournalTellsTheTruth
  BY DEF JournalInv, JournalFits, FileFits, Tells, JournalTellsTheTruth, InPlace, Untouched
<1> QED
  BY JournalInvariant, <1>1, PTL

\* A compensation recorded as completed restored the whole plan, although
\* compensators share neither a lock nor a look at the journal.
THEOREM CompensationsComplete ==
    ASSUME SingleCall
    PROVE  JournalSpec => []CompensationIsComplete
<1>1. JournalInv => CompensationIsComplete
  BY DEF JournalInv, JournalFits, FileFits, Tells, CompensationIsComplete, InPlace, Untouched
<1> QED
  BY JournalInvariant, <1>1, PTL

\* Only a flush writes the file, and what it writes follows from what is there.
LEMMA FileStep ==
    ASSUME JournalInv, JournalNext, file' # file
    PROVE  \E p \in Procs : Flush(p)
BY DEF JournalNext, JournalStep, DispatcherBegin, ContinueDispatcher, DispatcherInitialize,
       DispatcherLeaves, Retry, Dispatch, Execute, journalVars, RecordOutcome, BeginProcess,
       RecoverBegin, CompensatorBegin, ContinueProcess, Open, RecoverOpened, ReconcileDrifted,
       Release, CompensatorOpened, RestoreRead, RestoreRefused, ReconcileRead, RestorePut,
       RestoreReadback, Around, Kill

\* No writer undoes what was decided since it read the file: recoverers see to
\* that with the lease, the others because nobody else writes where they do.
THEOREM JournalsNeverFork ==
    ASSUME SingleCall
    PROVE  JournalSpec => JournalNeverForks
<1> DEFINE Follows ==
      \/ <<file.state, file'.state>> = <<"absent", "start">>
      \/ \E row \in Transitions : row[1] = file.state /\ row[3] = file'.state
<1>1. ASSUME JournalInv, NEW p \in Procs, Flush(p), file'.state # file.state PROVE Follows
  <2> USE <1>1, InvFacts, Kinds
  <2>1. step[p] = "flush" /\ file' = mem[p]
    BY FlushFacts
  <2>2. CASE p = Dispatcher
    BY <2>1, <2>2 DEF DispatcherFits, Transitions, InPlace
  <2>3. CASE p \in Recoverers
    <3>1. file.state = "outcome_unknown" /\ mem[p].state \in Resolutions
      BY <2>1, <2>3 DEF RecovererFits
    <3> QED
      BY <2>1, <3>1 DEF Resolutions, Transitions
  <2>4. CASE p \in Compensators
    BY <2>1, <2>4 DEF CompensatorFits, Transitions, Untouched
  <2> QED
    BY <2>2, <2>3, <2>4
<1>2. JournalInv /\ [JournalNext]_allVars => (file'.state # file.state => Follows)
  BY <1>1, FileStep DEF allVars
<1> QED
  BY JournalInvariant, <1>2, PTL DEF JournalSpec, JournalNeverForks

-----------------------------------------------------------------------------
(* What a journal that says not_dispatched stands for.                     *)

\* A dispatcher that did not die is about to record what came of its dispatch.
Attended == restarts = 0 /\ file.state = "not_dispatched" =>
                step[Dispatcher] \in {"ready", "dispatched", "flush"}

LEMMA AttendedStep ==
    ASSUME JournalInv, Attended, [JournalNext]_allVars PROVE Attended'
<1> USE InvFacts, Kinds DEF Attended
<1>1. CASE UNCHANGED allVars
  BY <1>1 DEF allVars
<1>2. ASSUME NEW p \in Procs, Flush(p) PROVE Attended'
  <2> USE <1>2
  <2>1. step[p] = "flush" /\ file' = mem[p] /\ restarts' = restarts
    BY FlushFacts DEF Flush, workflowVars
  <2>2. CASE p = Dispatcher /\ mem[p].state = "not_dispatched"
    <3>1. step'[p] = "ready"
      BY <2>2, FlushFacts
    <3> QED
      BY <2>2, <3>1
  <2>3. CASE p = Dispatcher /\ mem[p].state # "not_dispatched"
    BY <2>1, <2>3
  <2>4. CASE p \in Recoverers
    BY <2>1, <2>4 DEF RecovererFits, Resolutions
  <2>5. CASE p \in Compensators
    BY <2>1, <2>5 DEF CompensatorFits
  <2> QED
    BY <2>2, <2>3, <2>4, <2>5
<1>3. ASSUME NEW p \in Procs, Kill(p) PROVE Attended'
  <2>1. CASE p = Dispatcher
    BY <1>3, <2>1 DEF Kill, Restart, JournalTypeOK, TypeOK
  <2>2. CASE p # Dispatcher
    BY <1>3, <2>2 DEF Kill, Leave, At, workflowVars, JournalTypeOK
  <2> QED
    BY <2>1, <2>2
<1>4. ASSUME JournalStep, \A p \in Procs : ~Flush(p) PROVE Attended'
  <2> DEFINE AtWork == {"ready", "dispatched", "flush"}
  <2> DEFINE Goes == restarts' = restarts
                     /\ (step[Dispatcher] \in AtWork => step'[Dispatcher] \in AtWork)
  <2>1. file' = file
    BY <1>4, FileStep DEF JournalNext
  <2>2. ASSUME \/ DispatcherBegin \/ DispatcherInitialize \/ DispatcherLeaves
               \/ \E k \in Keys : Retry(k)
        PROVE  Goes
    <3>1. (step[Dispatcher] = "idle" \/ step[Dispatcher] = "opened") /\ UNCHANGED workflowVars
      BY <2>2, Zenon DEF DispatcherBegin, DispatcherInitialize, DispatcherLeaves, Retry
    <3> QED
      BY <3>1 DEF workflowVars
  <2>3. ASSUME NEW c \in Calls, Dispatch(c) PROVE Goes
    BY <2>3 DEF Dispatch, At, ApplyBegin, Elsewhere, ProcessTypeOK
  <2>4. ASSUME NEW c \in Calls, Execute(c) PROVE Goes
    BY <2>4 DEF Execute, journalVars, Continue, Apply, ApplyRead, ApplyPut, ApplyReadback,
         ApplyFinal, CompensatePut, CompensateReadback, Rollback, RollbackRead, RollbackPut,
         RollbackReadback, ApplyNext, ApplyInterrupt, ApplyFails, Elsewhere
  <2>5. ASSUME NEW c \in Calls, RecordOutcome(c) PROVE Goes
    BY <2>5 DEF RecordOutcome, At, workflowVars, ProcessTypeOK
  <2>6. ASSUME Around PROVE Goes
    BY <2>6 DEF Around, journalVars, Register, Authorize, Edit
  <2>7. ASSUME NEW p \in Procs, BeginProcess(p) \/ ContinueProcess(p) PROVE Goes
    <3>1. restarts' = restarts
      BY <1>4, <2>7
         DEF BeginProcess, RecoverBegin, CompensatorBegin, ContinueProcess, Open, RecoverOpened,
             ReconcileDrifted, Release, CompensatorOpened, RestoreRead, RestoreRefused,
             ReconcileRead, RestorePut, RestoreReadback, workflowVars
    <3>2. CASE p = Dispatcher
      BY <1>4, <2>7, <3>1, <3>2
         DEF BeginProcess, RecoverBegin, CompensatorBegin, ContinueProcess, Open, RecoverOpened,
             ReconcileDrifted, Release, CompensatorOpened, RestoreRead, RestoreRefused,
             ReconcileRead, RestorePut, RestoreReadback, DispatcherFits
    <3>3. CASE p # Dispatcher
      <4>1. step'[Dispatcher] = step[Dispatcher]
        BY <1>4, <2>7, <3>3
           DEF BeginProcess, RecoverBegin, CompensatorBegin, ContinueProcess, Open, RecoverOpened,
               ReconcileDrifted, Release, CompensatorOpened, RestoreRead, RestoreRefused,
               ReconcileRead, RestorePut, RestoreReadback, Restored, At, Leave, ProcessTypeOK
      <4> QED
        BY <3>1, <4>1
    <3> QED
      BY <3>2, <3>3
  <2>8. Goes
    <3> HIDE DEF Goes
    <3> QED
      BY <1>4, <2>2, <2>3, <2>4, <2>5, <2>6, <2>7 DEF JournalStep, ContinueDispatcher
  <2> QED
    BY <2>1, <2>8
<1> QED
  BY <1>1, <1>2, <1>3, <1>4 DEF JournalNext

\* The journal that says not_dispatched although the request went out is what the death of a
\* dispatcher leaves, and nothing else: until one dies the process that dispatches is still
\* at work on every such journal, whatever others recover, compensate, kill or edit.
THEOREM NotDispatchedUnlessDead ==
    ASSUME SingleCall
    PROVE  JournalSpec => [](restarts = 0 => NotDispatchedMeansUntouched)
<1>1. JournalInit => Attended
  BY DEF JournalInit, Attended, NoJournal
<1>2. JournalInv /\ Attended /\ [JournalNext]_allVars => Attended'
  BY AttendedStep
<1>3. Attended => (restarts = 0 => NotDispatchedMeansUntouched)
  BY DEF Attended, NotDispatchedMeansUntouched
<1> QED
  BY <1>1, <1>2, <1>3, JournalInvariant, PTL DEF JournalSpec
=============================================================================
