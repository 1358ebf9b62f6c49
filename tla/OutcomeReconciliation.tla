------------------------ MODULE OutcomeReconciliation ------------------------
(***************************************************************************)
(* The journal that follows the execution of a plan when the answer to a   *)
(* request is lost (ambiguous-outcome-reconciliation.mjs), composed with   *)
(* the executor of ReviewedWorkflow that it follows.  Processes share one  *)
(* journal file, replaced atomically by rename, and one lease file:        *)
(*   - the dispatcher opens the journal, lets the executor apply the plan  *)
(*     and records what it learned, as scripts/run-ambiguous-outcome-      *)
(*     reconciliation-evidence.mjs does; it also retries;                  *)
(*   - recoverers classify an unknown outcome under the lease;             *)
(*   - compensators restore an owned partial outcome.                      *)
(* Of the hash-chained entries a journal record keeps what later decisions *)
(* depend on.                                                              *)
(***************************************************************************)
EXTENDS ReviewedWorkflow

CONSTANTS Dispatcher, Recoverers, Compensators,
          ContextKey,   \* the key the outcome context is bound to
          None

Procs == {Dispatcher} \union Recoverers \union Compensators

ASSUME ContextAssumption == ContextKey \in Keys
ASSUME ProcsAssumption ==
    /\ Dispatcher \notin Recoverers \union Compensators
    /\ Recoverers \intersect Compensators = {}
    /\ None \notin Procs

VARIABLES
    file,        \* the journal file
    lease,       \* who created the recovery lock that is on disk
    \* one of each per process:
    step,        \* where it is
    mem,         \* its journal in memory
    cursor,      \* the action its loop is at
    relations,   \* how the actions read so far relate to the plan
    restored     \* actions its compensation restored

journalVars == <<file, lease, step, mem, cursor, relations, restored>>
workflowVars == <<assets, edits, restarts, grants, consumed, held, uses, idempotency,
                  rollback, saved, pc, key, at, applied, unrestored, start, error, result>>
allVars == <<assets, edits, restarts, grants, consumed, held, uses, idempotency,
             rollback, saved, pc, key, at, applied, unrestored, start, error, result,
             file, lease, step, mem, cursor, relations, restored>>

OutcomeStates == {"not_dispatched", "known_rejected", "outcome_unknown", "committed_equivalent",
                  "unchanged_safe_to_retry", "partial", "diverged", "manual_review"}

Relations == {"after", "before", "diverged", "unknown", "foreign"}

\* state "start": no entry yet; "absent": no file.  keys: those the context and
\* the fresh_retry_authorized entries name; compensated: the decision of
\* manual_review_opened.
Journals == [state : OutcomeStates \union {"start", "absent"},
             key : Keys, keys : SUBSET Keys, compensated : BOOLEAN]

Steps == {"idle", "open", "opened", "flush", "ready", "dispatched", "reading", "release",
          "restore", "restorePut", "restoreReadback"}

JournalTypeOK ==
    /\ file \in Journals
    /\ lease \in Recoverers \union {None}
    /\ step \in [Procs -> Steps]
    /\ mem \in [Procs -> Journals]
    /\ cursor \in [Procs -> Actions]
    /\ relations \in [Procs -> SUBSET Relations]
    /\ restored \in [Procs -> SUBSET Actions]
    /\ TypeOK

NoJournal == [state |-> "absent", key |-> ContextKey, keys |-> {ContextKey}, compensated |-> FALSE]

JournalInit ==
    /\ Init
    /\ file = NoJournal
    /\ lease = None
    /\ step = [p \in Procs |-> "idle"]
    /\ mem = [p \in Procs |-> NoJournal]
    /\ cursor = [p \in Procs |-> 1]
    /\ relations = [p \in Procs |-> {}]
    /\ restored = [p \in Procs |-> {}]

-----------------------------------------------------------------------------
(* transitionOutcomeState: TRANSITIONS as triples.                          *)

Transitions == {
    <<"start", "initialized", "not_dispatched">>,
    <<"not_dispatched", "dispatch_known_rejected", "known_rejected">>,
    <<"not_dispatched", "dispatch_response_lost", "outcome_unknown">>,
    <<"not_dispatched", "dispatch_committed_acknowledged", "committed_equivalent">>,
    <<"outcome_unknown", "reconcile_exact_after", "committed_equivalent">>,
    <<"outcome_unknown", "reconcile_exact_before", "unchanged_safe_to_retry">>,
    <<"outcome_unknown", "reconcile_owned_partial", "partial">>,
    <<"outcome_unknown", "reconcile_diverged", "diverged">>,
    <<"outcome_unknown", "reconcile_manual_review", "manual_review">>,
    <<"outcome_unknown", "reconcile_unknown_unresolved", "outcome_unknown">>,
    <<"unchanged_safe_to_retry", "fresh_retry_authorized", "not_dispatched">>,
    <<"partial", "manual_review_opened", "manual_review">>,
    <<"diverged", "manual_review_opened", "manual_review">>}

\* append: OUTCOME_ILLEGAL_TRANSITION when the table has no such row.
Append(p, event, entry) ==
    \E row \in Transitions :
        /\ row[1] = mem[p].state
        /\ row[2] = event
        /\ mem' = [mem EXCEPT ![p] = [entry EXCEPT !.state = row[3]]]

At(p, label) == step' = [step EXCEPT ![p] = label]

\* The operation returns or throws, its local variables are gone.
Leave(p) == /\ At(p, "idle")
            /\ mem' = [mem EXCEPT ![p] = NoJournal]
            /\ cursor' = [cursor EXCEPT ![p] = 1]
            /\ relations' = [relations EXCEPT ![p] = {}]
            /\ restored' = [restored EXCEPT ![p] = {}]

locals == <<mem, cursor, relations, restored>>

-----------------------------------------------------------------------------
(* FileOutcomeJournal.                                                     *)

\* open: read and verify the file; a journal without entries is written at once.
Open(p) ==
    /\ step[p] = "open"
    /\ IF file.state \in {"absent", "start"}
       THEN mem' = [mem EXCEPT ![p] = [file EXCEPT !.state = "start"]] /\ At(p, "flush")
       ELSE mem' = [mem EXCEPT ![p] = file] /\ At(p, "opened")
    /\ UNCHANGED <<file, lease, cursor, relations, restored, workflowVars>>

\* flush: write a temporary file and rename it over the journal.
Flush(p) ==
    /\ step[p] = "flush"
    /\ file' = mem[p]
    /\ CASE p \in Recoverers             -> At(p, "release") /\ UNCHANGED locals
         [] mem[p].state = "start"          -> At(p, "opened") /\ UNCHANGED locals
         [] mem[p].state = "not_dispatched" -> At(p, "ready") /\ UNCHANGED locals
         [] OTHER                           -> Leave(p)
    /\ UNCHANGED <<lease, workflowVars>>

-----------------------------------------------------------------------------
(* The dispatcher.                                                         *)

DispatcherBegin ==
    /\ step[Dispatcher] = "idle"
    /\ At(Dispatcher, "open")
    /\ UNCHANGED <<file, lease, locals, workflowVars>>

DispatcherInitialize ==
    /\ step[Dispatcher] = "opened"
    /\ mem[Dispatcher].state = "start"
    /\ Append(Dispatcher, "initialized", mem[Dispatcher])
    /\ At(Dispatcher, "flush")
    /\ UNCHANGED <<file, lease, cursor, relations, restored, workflowVars>>

\* Mutant: the retry is allowed while the outcome is still unknown.
RetryUnresolved(k) ==
    /\ step[Dispatcher] = "opened"
    /\ mem[Dispatcher].state \in {"unchanged_safe_to_retry", "outcome_unknown"}
    /\ k # ContextKey
    /\ mem' = [mem EXCEPT ![Dispatcher] =
                  [@ EXCEPT !.state = "not_dispatched", !.key = k, !.keys = @ \union {k}]]
    /\ At(Dispatcher, "flush")
    /\ UNCHANGED <<file, lease, cursor, relations, restored, workflowVars>>

\* authorizeFreshRetryAfterUnchanged: the key must not be the context's key and
\* an authorization must be bound to it.
Retry(k) ==
    /\ step[Dispatcher] = "opened"
    /\ mem[Dispatcher].state = "unchanged_safe_to_retry"
    /\ k # ContextKey
    /\ k \in held
    /\ Append(Dispatcher, "fresh_retry_authorized",
              [mem[Dispatcher] EXCEPT !.key = k, !.keys = @ \union {k}])
    /\ At(Dispatcher, "flush")
    /\ UNCHANGED <<file, lease, cursor, relations, restored, workflowVars>>

\* Any other state leaves the dispatcher nothing to do.
DispatcherLeaves ==
    /\ step[Dispatcher] = "opened"
    /\ mem[Dispatcher].state \notin {"start", "unchanged_safe_to_retry"}
    /\ Leave(Dispatcher)
    /\ UNCHANGED <<file, lease, workflowVars>>

Dispatch(c) ==
    /\ step[Dispatcher] = "ready"
    /\ ApplyBegin(c, mem[Dispatcher].key)
    /\ At(Dispatcher, "dispatched")
    /\ UNCHANGED <<file, lease, locals>>

\* Mutant: an error is recorded as a rejection, the outcome as known.
RecordOutcomeRejected(c) ==
    /\ step[Dispatcher] = "dispatched"
    /\ pc[c] = "idle"
    /\ Append(Dispatcher, IF result[c] = "failed" THEN "dispatch_known_rejected"
                          ELSE "dispatch_committed_acknowledged", mem[Dispatcher])
    /\ At(Dispatcher, "flush")
    /\ UNCHANGED <<file, lease, cursor, relations, restored, workflowVars>>

\* A receipt is an acknowledgement; every error counts as a lost response.
RecordOutcome(c) ==
    /\ step[Dispatcher] = "dispatched"
    /\ pc[c] = "idle"
    /\ Append(Dispatcher, IF result[c] = "failed" THEN "dispatch_response_lost"
                          ELSE "dispatch_committed_acknowledged", mem[Dispatcher])
    /\ At(Dispatcher, "flush")
    /\ UNCHANGED <<file, lease, cursor, relations, restored, workflowVars>>

-----------------------------------------------------------------------------
(* recoverUnknownOutcomeFromFile, reconcileUnknownOutcome                  *)

\* open(leasePath, 'wx').  Recovery is started for a journal with entries: one
\* without would be written by open.
RecoverBegin(p) ==
    /\ p \in Recoverers
    /\ step[p] = "idle"
    /\ file.state \notin {"absent", "start"}
    /\ lease = None
    /\ lease' = p
    /\ At(p, "open")
    /\ UNCHANGED <<file, locals, workflowVars>>

\* A journal that is not unknown (any more) is returned as it is.
RecoverOpened(p) ==
    /\ p \in Recoverers
    /\ step[p] = "opened"
    /\ At(p, IF mem[p].state = "outcome_unknown" THEN "reading" ELSE "release")
    /\ UNCHANGED <<file, lease, locals, workflowVars>>

\* The target, its capabilities or its asset snapshot are not those of the plan.
ReconcileDrifted(p) ==
    /\ step[p] = "reading"
    /\ cursor[p] = 1
    /\ Append(p, "reconcile_manual_review", mem[p])
    /\ At(p, "flush")
    /\ UNCHANGED <<file, lease, cursor, relations, restored, workflowVars>>

\* Mutant: an action that cannot be read counts as absent, that is unchanged.
RelationMintsAbsence(i, answer) ==
    IF answer = "unread" THEN "before"
    ELSE IF assets[i] = "other" THEN "diverged" ELSE assets[i]

\* readStateForError, relationForObserved: a failed read says nothing about the
\* asset, and only a value that was read, or a typed absence, has a relation.
Relation(i, answer) ==
    IF answer = "unread" THEN "unknown"
    ELSE IF assets[i] = "other" THEN "diverged" ELSE assets[i]

\* What the set of relations decides, in the order of the code.
Verdict(rs) ==
    CASE "unknown" \in rs            -> "reconcile_unknown_unresolved"
      [] "unknown" \notin rs /\ "foreign" \in rs -> "reconcile_manual_review"
      [] rs = {"after"}              -> "reconcile_exact_after"
      [] rs = {"before"}             -> "reconcile_exact_before"
      [] rs = {"after", "before"}    -> "reconcile_owned_partial"
      [] OTHER                       -> "reconcile_diverged"

\* One turn of the loop; ownership is whatever the caller says it is.
ReconcileRead(p, answer) ==
    /\ step[p] = "reading"
    /\ answer \in {"ok", "unread"}
    /\ \E foreign \in BOOLEAN :
          relations' = [relations EXCEPT ![p] = @ \union {Relation(cursor[p], answer)} \union
              IF foreign /\ Relation(cursor[p], answer) = "after" THEN {"foreign"} ELSE {}]
    /\ IF cursor[p] < N
       THEN /\ cursor' = [cursor EXCEPT ![p] = @ + 1]
            /\ UNCHANGED <<mem, step>>
       ELSE /\ Append(p, Verdict(relations'[p]), mem[p])
            /\ At(p, "flush")
            /\ UNCHANGED cursor
    /\ UNCHANGED <<file, lease, restored, workflowVars>>

\* finally: the lock file is removed.
Release(p) ==
    /\ step[p] = "release"
    /\ lease' = None
    /\ Leave(p)
    /\ UNCHANGED <<file, workflowVars>>

-----------------------------------------------------------------------------
(* compensateOwnedPartialOutcome                                           *)

CompensatorBegin(p) ==
    /\ p \in Compensators
    /\ step[p] = "idle"
    /\ file.state \notin {"absent", "start"}
    /\ At(p, "open")
    /\ UNCHANGED <<file, lease, locals, workflowVars>>

\* OUTCOME_COMPENSATION_STATE_INVALID unless the outcome is partial.
CompensatorOpened(p) ==
    /\ p \in Compensators
    /\ step[p] = "opened"
    /\ IF mem[p].state = "partial"
       THEN /\ cursor' = [cursor EXCEPT ![p] = N]
            /\ At(p, "restore")
            /\ UNCHANGED <<mem, relations, restored>>
       ELSE Leave(p)
    /\ UNCHANGED <<file, lease, workflowVars>>

\* Mutant: the loop runs past the first action.
RestoredOffByOne(p) ==
    IF cursor[p] = 0
    THEN /\ Append(p, "manual_review_opened", [mem[p] EXCEPT !.compensated = TRUE])
         /\ At(p, "flush")
         /\ UNCHANGED cursor
    ELSE /\ cursor' = [cursor EXCEPT ![p] = @ - 1]
         /\ At(p, "restore")
         /\ UNCHANGED mem

\* The loop ends at the first action of the plan; the entry is written then.
Restored(p) ==
    IF cursor[p] = 1
    THEN /\ Append(p, "manual_review_opened", [mem[p] EXCEPT !.compensated = TRUE])
         /\ At(p, "flush")
         /\ UNCHANGED cursor
    ELSE /\ cursor' = [cursor EXCEPT ![p] = @ - 1]
         /\ At(p, "restore")
         /\ UNCHANGED mem

\* Mutant: the loop breaks, instead of going on, at an action that needs no restore.
RestoreReadBreaks(p) ==
    /\ step[p] = "restore"
    /\ CASE assets[cursor[p]] = "before" ->
              /\ Append(p, "manual_review_opened", [mem[p] EXCEPT !.compensated = TRUE])
              /\ At(p, "flush")
              /\ UNCHANGED <<cursor, relations, restored>>
         [] assets[cursor[p]] = "after"  -> At(p, "restorePut") /\ UNCHANGED locals
         [] OTHER                        -> Leave(p)
    /\ UNCHANGED <<file, lease, workflowVars>>

\* A value that is neither is drift.
RestoreRead(p) ==
    /\ step[p] = "restore"
    /\ CASE assets[cursor[p]] = "before" -> Restored(p) /\ UNCHANGED <<relations, restored>>
         [] assets[cursor[p]] = "after"  -> At(p, "restorePut") /\ UNCHANGED locals
         [] OTHER                        -> Leave(p)
    /\ UNCHANGED <<file, lease, workflowVars>>

\* OUTCOME_COMPENSATION_FOREIGN_OWNERSHIP, or the read fails.
RestoreRefused(p) ==
    /\ step[p] = "restore"
    /\ Leave(p)
    /\ UNCHANGED <<file, lease, workflowVars>>

RestorePut(p, answer) ==
    /\ step[p] = "restorePut"
    /\ answer \in {"ok", "refused", "lost"}
    /\ PutValue(cursor[p], "before", answer)
    /\ IF answer = "ok"
       THEN At(p, "restoreReadback") /\ UNCHANGED locals
       ELSE Leave(p)
    /\ UNCHANGED <<file, lease, edits, restarts, approvalVars, saved, executorVars, callVars>>

RestoreReadback(p, answer) ==
    /\ step[p] = "restoreReadback"
    /\ answer \in {"ok", "unread"}
    /\ IF answer = "ok" /\ assets[cursor[p]] = "before"
       THEN /\ restored' = [restored EXCEPT ![p] = @ \union {cursor[p]}]
            /\ Restored(p)
            /\ UNCHANGED relations
       ELSE Leave(p)
    /\ UNCHANGED <<file, lease, workflowVars>>

-----------------------------------------------------------------------------
\* A process dies; what it had in memory is gone, its lock file is not.  With
\* the dispatcher dies the executor it called.
Kill(p) ==
    /\ step[p] # "idle"
    /\ Leave(p)
    /\ IF p = Dispatcher THEN Restart ELSE UNCHANGED workflowVars
    /\ UNCHANGED <<file, lease>>

ContinueProcess(p) ==
    \/ Open(p) \/ Flush(p)
    \/ RecoverOpened(p) \/ ReconcileDrifted(p) \/ Release(p)
    \/ CompensatorOpened(p) \/ RestoreRead(p) \/ RestoreRefused(p)
    \/ \E answer \in Answers :
          ReconcileRead(p, answer) \/ RestorePut(p, answer) \/ RestoreReadback(p, answer)

\* The executor call of a dispatcher goes on between its awaits.
Execute(c) == /\ Continue(c)
              /\ UNCHANGED journalVars

ContinueDispatcher ==
    \/ DispatcherInitialize \/ DispatcherLeaves
    \/ \E k \in Keys : Retry(k)
    \/ \E c \in Calls : Dispatch(c) \/ Execute(c) \/ RecordOutcome(c)

BeginProcess(p) == RecoverBegin(p) \/ CompensatorBegin(p)

Around == /\ (\E k \in Keys : Register(k) \/ Authorize(k)) \/ (\E i \in Actions : Edit(i))
          /\ UNCHANGED journalVars

JournalStep == \/ DispatcherBegin \/ ContinueDispatcher
               \/ \E p \in Procs : BeginProcess(p) \/ ContinueProcess(p)
               \/ Around

JournalNext == JournalStep \/ \E p \in Procs : Kill(p)

JournalSpec == JournalInit /\ [][JournalNext]_allVars

-----------------------------------------------------------------------------
(* Properties.                                                             *)

\* What the journal decides is so, as long as nobody else edits the plan's
\* assets: a committed plan is in place, and one that may be retried left nothing
\* behind - whatever requests failed, whoever was killed and however recoveries,
\* compensations and retries overlap ("no committed / safe-retry decision is
\* fabricated", ambiguous-outcome-reconciliation.mjs:89-90).
JournalTellsTheTruth ==
    edits = 0 => /\ file.state = "committed_equivalent" => assets = AllAfter
                 /\ file.state = "unchanged_safe_to_retry" => assets = AllBefore

\* A compensation that is recorded as completed restored everything nobody else
\* edited, although compensators take no lease and work on the same assets.
CompensationIsComplete == edits = 0 /\ file.compensated => assets = AllBefore

\* No writer that read the file earlier undoes what was decided since: the state
\* on disk only changes by a transition of that very state.
JournalNeverForks ==
    [][file'.state # file.state =>
          \/ <<file.state, file'.state>> = <<"absent", "start">>
          \/ \E row \in Transitions : row[1] = file.state /\ row[3] = file'.state]_allVars

\* "After a mutation request may have reached the ... fixture but its response
\* is lost, the executor records outcome_unknown" (M6-05:8-9): with no dispatcher
\* at work, not_dispatched means that nothing was sent.
NotDispatchedMeansUntouched ==
    file.state = "not_dispatched" /\ step[Dispatcher] = "idle" => assets = AllBefore

\* "Exact before-state permits only a newly bound grant and idempotency key"
\* (M6-05:14-15): a retry never reuses the key of an earlier dispatch.
RetryKeyIsNew ==
    [][file.state = "unchanged_safe_to_retry" /\ file'.state = "not_dispatched"
         => file'.key \notin file.keys]_allVars

\* "Owned partial compensation is allowed only when every touched value is still
\* the exact planned after-state" and "refuses ... concurrent drift" (M6-05:19-21):
\* one that is refused for drift has restored nothing.
RefusedCompensationRestoresNothing ==
    [][\A p \in Procs :
          step[p] = "restore" /\ assets[cursor[p]] = "other" /\ step'[p] = "idle"
          => restored[p] = {}]_allVars
=============================================================================
