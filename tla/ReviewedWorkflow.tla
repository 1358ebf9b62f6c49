--------------------------- MODULE ReviewedWorkflow ---------------------------
(***************************************************************************)
(* One compiled change plan and what runs it against Superset              *)
(* (services/bi-control/src/trusted-workflow): the approval controller     *)
(* that turns an approval into one authorization, and the executor whose   *)
(* apply and rollback calls read, write and read back one asset after      *)
(* another over HTTP.  Calls are asynchronous: each action below is the    *)
(* code between two awaits, together with the request it waited for.       *)
(*                                                                         *)
(* Action i of 1..N is the i-th of plan.applyOrder; the compiler gives     *)
(* every action an asset of its own.  Of an asset's value the code only    *)
(* ever asks whether it is the action's "before" or "after".  An approval  *)
(* binds one idempotency key and is named by it.                           *)
(***************************************************************************)
EXTENDS Naturals, FiniteSets

CONSTANTS
    N,            \* actions in the plan
    Keys,         \* idempotency keys
    Calls,        \* calls of the executor that may overlap
    Faults,       \* how a request may fail
    MaxEdits,     \* bound: edits by other users of Superset
    MaxRestarts   \* bound: deaths of the process that runs the executor

FaultKinds == {"refused",   \* a PUT fails and changes nothing
               "lost",      \* a PUT is carried out, its response is lost
               "unread"}    \* a GET fails

ASSUME PlanAssumption == N \in Nat \ {0}
ASSUME KeysAssumption == Keys # {}
ASSUME FaultsAssumption == Faults \subseteq FaultKinds
ASSUME BoundsAssumption == MaxEdits \in Nat /\ MaxRestarts \in Nat

Actions == 1..N
Values == {"before", "after", "other"}

VARIABLES
    assets,       \* what Superset holds for each action's asset
    edits,        \* edits by other users so far
    restarts,     \* deaths so far
    grants,       \* ExecutionController #grants
    consumed,     \* ExecutionController #consumed
    held,         \* authorizations that callers hold
    uses,         \* history: how often each approval was turned into one
    idempotency,  \* executor #idempotency: keys with a receipt
    rollback,     \* executor #rollback: tokens not yet consumed, by key
    saved,        \* the last snapshot() that was kept
    \* one of each per call:
    pc, key, at,  \* where it is, for which key, at which action
    applied,      \* actions whose applyValue returned
    unrestored,   \* actions reported rollback_failed by the compensation
    start,        \* history: the assets when the call began
    error,        \* why its apply failed
    result        \* how it ended

approvalVars == <<grants, consumed, held, uses>>
executorVars == <<idempotency, rollback>>
callVars == <<pc, key, at, applied, unrestored, start, error, result>>
vars == <<assets, edits, restarts, grants, consumed, held, uses, idempotency, rollback,
          saved, pc, key, at, applied, unrestored, start, error, result>>

Labels == {"idle", "read", "put", "readback", "pushed", "final", "compensate", "restored",
           "rollbackRead", "rollbackPut", "rollbackReadback"}
Errors == {"none", "interrupted", "drift", "request"}
Results == {"none", "succeeded", "already_applied", "failed", "rolled_back",
            "drift", "rollback_failed", "killed"}

TypeOK == /\ assets \in [Actions -> Values]
          /\ edits \in 0..MaxEdits
          /\ restarts \in 0..MaxRestarts
          /\ grants \subseteq Keys /\ consumed \subseteq Keys /\ held \subseteq Keys
          /\ uses \in [Keys -> 0..(MaxRestarts + 1)]
          /\ idempotency \subseteq Keys /\ rollback \subseteq Keys
          /\ saved \in [idempotency : SUBSET Keys, rollback : SUBSET Keys]
          /\ pc \in [Calls -> Labels]
          /\ key \in [Calls -> Keys]
          /\ at \in [Calls -> Actions]
          /\ applied \in [Calls -> SUBSET Actions]
          /\ unrestored \in [Calls -> SUBSET Actions]
          /\ start \in [Calls -> [Actions -> Values]]
          /\ error \in [Calls -> Errors]
          /\ result \in [Calls -> Results]

\* Every action's before-value is the value of its asset in the compiled target.
AllBefore == [i \in Actions |-> "before"]
AllAfter == [i \in Actions |-> "after"]

Init == /\ assets = AllBefore
        /\ edits = 0 /\ restarts = 0
        /\ grants = {} /\ consumed = {} /\ held = {}
        /\ uses = [k \in Keys |-> 0]
        /\ idempotency = {} /\ rollback = {}
        /\ saved = [idempotency |-> {}, rollback |-> {}]
        /\ pc = [c \in Calls |-> "idle"]
        /\ key \in [Calls -> {CHOOSE k \in Keys : TRUE}]
        /\ at = [c \in Calls |-> 1]
        /\ applied = [c \in Calls |-> {}]
        /\ unrestored = [c \in Calls |-> {}]
        /\ start = [c \in Calls |-> AllBefore]
        /\ error = [c \in Calls |-> "none"]
        /\ result = [c \in Calls |-> "none"]

-----------------------------------------------------------------------------
(* The approval controller.                                                *)

\* registerGrant: APPROVAL_GRANT_REPLAY for a grant it knows or has consumed.
Register(k) ==
    /\ k \notin grants \union consumed
    /\ grants' = grants \union {k}
    /\ UNCHANGED <<assets, edits, restarts, consumed, held, uses, saved, executorVars, callVars>>

\* Mutant: the grant stays usable after it was used.
AuthorizeKeepsGrant(k) ==
    /\ k \in grants
    /\ held' = held \union {k}
    /\ uses' = [uses EXCEPT ![k] = @ + 1]
    /\ UNCHANGED <<assets, edits, restarts, grants, consumed, saved, executorVars, callVars>>

\* authorize consumes the grant.  The target it compares with the plan's asset
\* snapshot is the caller's copy, so nothing follows for the assets themselves.
Authorize(k) ==
    /\ k \in grants
    /\ k \notin consumed
    /\ grants' = grants \ {k}
    /\ consumed' = consumed \union {k}
    /\ held' = held \union {k}
    /\ uses' = [uses EXCEPT ![k] = @ + 1]
    /\ UNCHANGED <<assets, edits, restarts, saved, executorVars, callVars>>

-----------------------------------------------------------------------------
(* Requests.  A PUT is carried out by Superset in one step; what the caller *)
(* learns of it is Answers.                                                 *)

Answers == {"ok"} \union Faults

PutValue(i, value, answer) ==
    assets' = IF answer = "refused" THEN assets ELSE [assets EXCEPT ![i] = value]

Goto(c, label) == pc' = [pc EXCEPT ![c] = label]

Return(c, r) == /\ pc' = [pc EXCEPT ![c] = "idle"]
                /\ result' = [result EXCEPT ![c] = r]

\* The catch block is entered.
Throw(c, e) == /\ Goto(c, "compensate")
               /\ error' = [error EXCEPT ![c] = e]

\* A call changes nothing outside the executor but the assets.
Elsewhere == UNCHANGED <<edits, restarts, approvalVars, saved>>

-----------------------------------------------------------------------------
(* TrustedSupersetWorkflowExecutor.apply                                    *)

ApplyBegin(c, k) ==
    /\ pc[c] = "idle"
    /\ k \in held
    /\ key' = [key EXCEPT ![c] = k]
    /\ start' = [start EXCEPT ![c] = assets]
    /\ unrestored' = [unrestored EXCEPT ![c] = {}]
    /\ error' = [error EXCEPT ![c] = "none"]
    /\ at' = [at EXCEPT ![c] = 1]
    /\ IF k \in idempotency
       THEN Return(c, "already_applied")
       ELSE Goto(c, "read") /\ UNCHANGED result
    /\ UNCHANGED <<assets, applied, executorVars>>
    /\ Elsewhere

\* Mutant: the pre-apply value is not compared.
ApplyReadUnchecked(c, answer) ==
    /\ pc[c] = "read"
    /\ answer \in {"ok", "unread"}
    /\ IF answer = "unread"
       THEN Throw(c, "request")
       ELSE Goto(c, "put") /\ UNCHANGED error
    /\ UNCHANGED <<assets, key, at, applied, unrestored, start, result, executorVars>>
    /\ Elsewhere

\* WORKFLOW_PRE_APPLY_DRIFT_DENIED unless the asset is exactly the before-value.
ApplyRead(c, answer) ==
    /\ pc[c] = "read"
    /\ answer \in {"ok", "unread"}
    /\ CASE answer = "unread" -> Throw(c, "request")
         [] answer = "ok" /\ assets[at[c]] # "before" -> Throw(c, "drift")
         [] OTHER -> Goto(c, "put") /\ UNCHANGED error
    /\ UNCHANGED <<assets, key, at, applied, unrestored, start, result, executorVars>>
    /\ Elsewhere

\* adapter.applyValue: any failure throws past applied.push.
ApplyPut(c, answer) ==
    /\ pc[c] = "put"
    /\ answer \in {"ok", "refused", "lost"}
    /\ PutValue(at[c], "after", answer)
    /\ IF answer = "ok"
       THEN Goto(c, "readback") /\ UNCHANGED error
       ELSE Throw(c, "request")
    /\ UNCHANGED <<key, at, applied, unrestored, start, result, executorVars>>
    /\ Elsewhere

\* Mutant: the action is not recorded as applied.
ApplyReadbackForgets(c, answer) ==
    /\ pc[c] = "readback"
    /\ answer \in {"ok", "unread"}
    /\ IF answer = "ok" /\ assets[at[c]] = "after"
       THEN Goto(c, "pushed") /\ UNCHANGED error
       ELSE Throw(c, "request")
    /\ UNCHANGED <<assets, key, at, applied, unrestored, start, result, executorVars>>
    /\ Elsewhere

ApplyReadback(c, answer) ==
    /\ pc[c] = "readback"
    /\ answer \in {"ok", "unread"}
    /\ IF answer = "ok" /\ assets[at[c]] = "after"
       THEN /\ applied' = [applied EXCEPT ![c] = @ \union {at[c]}]
            /\ Goto(c, "pushed")
            /\ UNCHANGED error
       ELSE Throw(c, "request") /\ UNCHANGED applied
    /\ UNCHANGED <<assets, key, at, unrestored, start, result, executorVars>>
    /\ Elsewhere

\* Mutant: the loop ends one action early.
ApplyNextOffByOne(c) ==
    /\ pc[c] = "pushed"
    /\ IF at[c] + 1 < N
       THEN at' = [at EXCEPT ![c] = @ + 1] /\ Goto(c, "read")
       ELSE Goto(c, "final") /\ UNCHANGED at
    /\ UNCHANGED <<assets, key, applied, unrestored, start, error, result, executorVars>>
    /\ Elsewhere

ApplyNext(c) ==
    /\ pc[c] = "pushed"
    /\ IF at[c] < N
       THEN at' = [at EXCEPT ![c] = @ + 1] /\ Goto(c, "read")
       ELSE Goto(c, "final") /\ UNCHANGED at
    /\ UNCHANGED <<assets, key, applied, unrestored, start, error, result, executorVars>>
    /\ Elsewhere

\* assertActive and failAfterActionId: cancelled, timed out or told to fail,
\* before an action and after one was pushed.
ApplyInterrupt(c) ==
    /\ pc[c] \in {"read", "pushed"}
    /\ Throw(c, "interrupted")
    /\ UNCHANGED <<assets, key, at, applied, unrestored, start, result, executorVars>>
    /\ Elsewhere

\* The readback of all actions is outside the try block: when it fails the call
\* rejects with neither a receipt nor a compensation.  Its values are only
\* digested.
ApplyFinal(c, answer) ==
    /\ pc[c] = "final"
    /\ answer \in {"ok", "unread"}
    /\ IF answer = "ok"
       THEN /\ Return(c, "succeeded")
            /\ rollback' = rollback \union {key[c]}
            /\ idempotency' = idempotency \union {key[c]}
            /\ UNCHANGED error
       ELSE /\ Return(c, "failed")
            /\ error' = [error EXCEPT ![c] = "request"]
            /\ UNCHANGED executorVars
    /\ applied' = [applied EXCEPT ![c] = {}]
    /\ UNCHANGED <<assets, key, at, unrestored, start>>
    /\ Elsewhere

\* The catch block restores the applied actions, last first, without looking at
\* what the assets hold by now.
CompensatePut(c, answer) ==
    /\ pc[c] = "compensate"
    /\ answer \in {"ok", "refused", "lost"}
    /\ \E i \in applied[c] :
          /\ \A j \in applied[c] : j <= i
          /\ at' = [at EXCEPT ![c] = i]
          /\ PutValue(i, "before", answer)
          /\ IF answer = "ok"
             THEN Goto(c, "restored") /\ UNCHANGED <<applied, unrestored>>
             ELSE /\ unrestored' = [unrestored EXCEPT ![c] = @ \union {i}]
                  /\ applied' = [applied EXCEPT ![c] = @ \ {i}]
                  /\ UNCHANGED pc
    /\ UNCHANGED <<key, start, error, result, executorVars>>
    /\ Elsewhere

CompensateReadback(c, answer) ==
    /\ pc[c] = "restored"
    /\ answer \in {"ok", "unread"}
    /\ applied' = [applied EXCEPT ![c] = @ \ {at[c]}]
    /\ unrestored' = IF answer = "ok" /\ assets[at[c]] = "before"
                     THEN unrestored
                     ELSE [unrestored EXCEPT ![c] = @ \union {at[c]}]
    /\ Goto(c, "compensate")
    /\ UNCHANGED <<assets, key, at, start, error, result, executorVars>>
    /\ Elsewhere

ApplyFails(c) ==
    /\ pc[c] = "compensate"
    /\ applied[c] = {}
    /\ Return(c, "failed")
    /\ UNCHANGED <<assets, key, at, applied, unrestored, start, error, executorVars>>
    /\ Elsewhere

-----------------------------------------------------------------------------
(* TrustedSupersetWorkflowExecutor.rollback                                 *)

RollbackBegin(c, k) ==
    /\ pc[c] = "idle"
    /\ k \in rollback
    /\ key' = [key EXCEPT ![c] = k]
    /\ start' = [start EXCEPT ![c] = assets]
    /\ unrestored' = [unrestored EXCEPT ![c] = {}]
    /\ at' = [at EXCEPT ![c] = N]
    /\ Goto(c, "rollbackRead")
    /\ UNCHANGED <<assets, applied, error, result, executorVars>>
    /\ Elsewhere

\* Mutant: the rollback restores without comparing.
RollbackReadUnchecked(c, answer) ==
    /\ pc[c] = "rollbackRead"
    /\ answer \in {"ok", "unread"}
    /\ IF answer = "unread"
       THEN Return(c, "rollback_failed")
       ELSE Goto(c, "rollbackPut") /\ UNCHANGED result
    /\ UNCHANGED <<assets, key, at, applied, unrestored, start, error, executorVars>>
    /\ Elsewhere

\* WORKFLOW_ROLLBACK_DRIFT_DENIED unless the asset is exactly the after-value.
RollbackRead(c, answer) ==
    /\ pc[c] = "rollbackRead"
    /\ answer \in {"ok", "unread"}
    /\ CASE answer = "unread" -> Return(c, "rollback_failed")
         [] answer = "ok" /\ assets[at[c]] # "after" -> Return(c, "drift")
         [] OTHER -> Goto(c, "rollbackPut") /\ UNCHANGED result
    /\ UNCHANGED <<assets, key, at, applied, unrestored, start, error, executorVars>>
    /\ Elsewhere

RollbackPut(c, answer) ==
    /\ pc[c] = "rollbackPut"
    /\ answer \in {"ok", "refused", "lost"}
    /\ PutValue(at[c], "before", answer)
    /\ IF answer = "ok"
       THEN Goto(c, "rollbackReadback") /\ UNCHANGED result
       ELSE Return(c, "rollback_failed")
    /\ UNCHANGED <<key, at, applied, unrestored, start, error, executorVars>>
    /\ Elsewhere

\* Mutant: the rollback's loop runs past the first action.
RollbackReadbackOffByOne(c, answer) ==
    /\ pc[c] = "rollbackReadback"
    /\ answer \in {"ok", "unread"}
    /\ IF answer = "unread" \/ assets[at[c]] # "before"
       THEN Return(c, "rollback_failed") /\ UNCHANGED at
       ELSE /\ Goto(c, "rollbackRead")
            /\ at' = [at EXCEPT ![c] = @ - 1]
            /\ UNCHANGED result
    /\ UNCHANGED <<assets, key, applied, unrestored, start, error, executorVars>>
    /\ Elsewhere

\* Mutant: the token is consumed after the first restored action.
RollbackReadbackStopsEarly(c, answer) ==
    /\ pc[c] = "rollbackReadback"
    /\ answer \in {"ok", "unread"}
    /\ IF answer = "unread" \/ assets[at[c]] # "before"
       THEN Return(c, "rollback_failed") /\ UNCHANGED rollback
       ELSE Return(c, "rolled_back") /\ rollback' = rollback \ {key[c]}
    /\ UNCHANGED <<assets, key, at, applied, unrestored, start, error, idempotency>>
    /\ Elsewhere

\* The token is deleted after the last asset was read back.
RollbackReadback(c, answer) ==
    /\ pc[c] = "rollbackReadback"
    /\ answer \in {"ok", "unread"}
    /\ IF answer = "unread" \/ assets[at[c]] # "before"
       THEN Return(c, "rollback_failed") /\ UNCHANGED <<at, rollback>>
       ELSE IF at[c] = 1
            THEN /\ Return(c, "rolled_back")
                 /\ rollback' = rollback \ {key[c]}
                 /\ UNCHANGED at
            ELSE /\ Goto(c, "rollbackRead")
                 /\ at' = [at EXCEPT ![c] = @ - 1]
                 /\ UNCHANGED <<result, rollback>>
    /\ UNCHANGED <<assets, key, applied, unrestored, start, error, idempotency>>
    /\ Elsewhere

-----------------------------------------------------------------------------
(* The world around the executor.                                           *)

\* Another user of Superset changes an asset of the plan.
Edit(i) ==
    /\ edits < MaxEdits
    /\ edits' = edits + 1
    /\ assets' = [assets EXCEPT ![i] = "other"]
    /\ UNCHANGED <<restarts, approvalVars, saved, executorVars, callVars>>

\* snapshot(): the caller keeps receipts and rollback points.
Snapshot ==
    /\ saved' = [idempotency |-> idempotency, rollback |-> rollback]
    /\ UNCHANGED <<assets, edits, restarts, approvalVars, executorVars, callVars>>

\* The process dies and a new one is built from the last snapshot.  Neither the
\* grants nor a call in progress survive.
Restart ==
    /\ restarts < MaxRestarts
    /\ restarts' = restarts + 1
    /\ grants' = {} /\ consumed' = {} /\ held' = {}
    /\ idempotency' = saved.idempotency
    /\ rollback' = saved.rollback
    /\ pc' = [c \in Calls |-> "idle"]
    /\ result' = [c \in Calls |-> IF pc[c] = "idle" THEN result[c] ELSE "killed"]
    /\ applied' = [c \in Calls |-> {}]
    /\ UNCHANGED <<assets, edits, uses, saved, key, at, unrestored, start, error>>

Apply(c, answer) == \/ ApplyRead(c, answer) \/ ApplyPut(c, answer) \/ ApplyReadback(c, answer)
                    \/ ApplyFinal(c, answer)
                    \/ CompensatePut(c, answer) \/ CompensateReadback(c, answer)

Rollback(c, answer) == \/ RollbackRead(c, answer) \/ RollbackPut(c, answer)
                       \/ RollbackReadback(c, answer)

Continue(c) == \/ \E answer \in Answers : Apply(c, answer) \/ Rollback(c, answer)
               \/ ApplyNext(c) \/ ApplyInterrupt(c) \/ ApplyFails(c)

Begin(c, k) == ApplyBegin(c, k) \/ RollbackBegin(c, k)

Next == \/ \E k \in Keys : Register(k) \/ Authorize(k)
        \/ \E c \in Calls : Continue(c) \/ \E k \in Keys : Begin(c, k)
        \/ \E i \in Actions : Edit(i)
        \/ Snapshot
        \/ Restart

Spec == Init /\ [][Next]_vars

-----------------------------------------------------------------------------
(* Properties.  The executor keeps no lock and reads an asset once before it *)
(* writes it, so what it promises of the assets' values it can only promise  *)
(* while nobody else edits them.                                             *)

Ends(c, r) == pc[c] # "idle" /\ pc'[c] = "idle" /\ result'[c] = r

\* A receipt is only issued for a plan all of whose actions are in place: it is
\* what a rollback and every later replay of the key rely on.
ReceiptMeansApplied ==
    [][\A c \in Calls : edits' = 0 /\ Ends(c, "succeeded") => assets' = AllAfter]_vars

\* A rollback consumes its token only when every asset is back at the value it
\* had when the plan was compiled, also when earlier attempts ended half way and
\* the process was restarted from a snapshot that predates them.
RollbackRestores ==
    [][\A c \in Calls : edits' = 0 /\ Ends(c, "rolled_back") => assets' = AllBefore]_vars

\* What a failed apply changed without reporting it as rollback_failed.
Unreported(c) == {i \in Actions : assets'[i] # start[c][i]} \ unrestored[c]

\* Cancelled, timed out, told to fail or stopped by drift, at any point and
\* whichever requests of the compensation fail, an apply changes nothing that it
\* does not report ("compensates every dispatched action in reverse order",
\* M6-04:47-49).  When it was a request of its own that failed it hides the
\* action of that request at most - or, in the final readback, the whole plan -
\* but never an arbitrary part of it.
FailedApplyIsReported ==
    [][\A c \in Calls : edits' = 0 /\ Ends(c, "failed") =>
          \/ Unreported(c) = {}
          \/ error'[c] = "request" /\ (Cardinality(Unreported(c)) = 1 \/ pc[c] = "final")]_vars

\* What somebody else had put into an asset before a call began is still there
\* while it runs and when it ends, whichever way it ends ("denies concurrent
\* drift", M6-04:46).
EarlierEditSurvives ==
    \A c \in Calls : pc[c] # "idle" =>
        \A i \in Actions : start[c][i] = "other" => assets[i] = "other"

\* An approval is turned into one authorization at most ("one-shot", "replayed
\* ... approval fails closed", M6-04:16-20), by one process: the grants that were
\* consumed are not in the snapshot a restart is built from.
ApprovalUsedOnce == restarts = 0 => \A k \in Keys : uses[k] <= 1
=============================================================================
