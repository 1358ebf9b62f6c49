----------------------- MODULE ReviewedWorkflowProofs -----------------------
(***************************************************************************)
(* Proofs about ReviewedWorkflow for plans of any length and any number of *)
(* keys, deaths and edits: one-shot approvals for any number of concurrent *)
(* calls, and, when calls do not overlap, what receipts, rollbacks and     *)
(* failures say of the assets.                                             *)
(***************************************************************************)
EXTENDS ReviewedWorkflow, FiniteSetTheorems, TLAPS

\* The executor runs one call at a time.  (Its caller sees to that: apply and
\* rollback take no lock.)
SingleCall == \A c, d \in Calls : c = d

-----------------------------------------------------------------------------
(* The invariants.                                                         *)

RollbackLabels == {"rollbackRead", "rollbackPut", "rollbackReadback"}

\* An approval was used once per life of the process at most, in this life only
\* if the controller remembers it: one-shot use rests on consumed, which a death
\* empties.
UsesBounded == \A k \in Keys : uses[k] <= IF k \in consumed THEN restarts + 1 ELSE restarts

\* Where a call is says what it has in hand, whatever other users do: it only
\* writes, now or to compensate, where it has seen no foreign value.
HandPoint(c) ==
    /\ pc[c] \in RollbackLabels \union {"idle"} => applied[c] = {}
    /\ pc[c] = "restored" => at[c] \in applied[c]
    /\ pc[c] \in {"put", "readback", "rollbackPut"} => start[c][at[c]] # "other"
    /\ \A i \in applied[c] : start[c][i] # "other"
    /\ pc[c] # "idle" => \A i \in Actions : start[c][i] = "other" => assets[i] = "other"

\* While nobody else edits, an apply has the actions behind it in place.
ApplyPoint(c) ==
    /\ pc[c] \in {"read", "put", "readback", "pushed"} =>
          \A i \in Actions : i < at[c] => assets[i] = "after"
    /\ pc[c] = "put" => assets[at[c]] = "before"
    /\ pc[c] = "pushed" => assets[at[c]] = "after"
    /\ pc[c] = "final" => \A i \in Actions : assets[i] = "after"

\* A rollback has the actions behind it restored.
RollbackPoint(c) ==
    pc[c] \in RollbackLabels => \A i \in Actions : i > at[c] => assets[i] = "before"

\* What a call has changed and neither keeps in applied nor has reported.
Hidden(c) == {i \in Actions : assets[i] # start[c][i]} \ (applied[c] \union unrestored[c])

\* That is nothing, but for the action whose own request has just failed.
HiddenPoint(c) ==
    /\ pc[c] \in {"read", "put", "readback", "pushed"} => unrestored[c] = {}
    /\ pc[c] \in {"put", "readback"} => start[c][at[c]] = "before"
    /\ \A i \in applied[c] : start[c][i] = "before"
    /\ pc[c] = "restored" => assets[at[c]] = "before"
    /\ pc[c] \in {"read", "put", "pushed"} => Hidden(c) = {}
    /\ pc[c] = "readback" => Hidden(c) \subseteq {at[c]}
    /\ pc[c] \in {"compensate", "restored"} =>
          /\ error[c] \in {"interrupted", "drift", "request"}
          /\ error[c] # "request" => Hidden(c) = {}
          /\ \E x \in Actions : Hidden(c) \subseteq {x}

QuietPoint(c) == ApplyPoint(c) /\ RollbackPoint(c) /\ HiddenPoint(c)

WalkInv == \A c \in Calls : HandPoint(c) /\ (edits = 0 => QuietPoint(c))

-----------------------------------------------------------------------------
(* Types.                                                                  *)

TypeInv == TypeOK /\ UsesBounded

LEMMA TypeInit == Init => TypeInv
BY PlanAssumption, KeysAssumption, BoundsAssumption
   DEF Init, TypeInv, TypeOK, UsesBounded, AllBefore, Actions, Values, Labels, Errors, Results

\* Every step keeps the types; the loops stay within the plan.
LEMMA TypeStep ==
    ASSUME TypeInv, [Next]_vars
    PROVE  TypeOK'
<1> USE DEF TypeInv, TypeOK, UsesBounded, approvalVars, executorVars, callVars,
        Labels, Errors, Results, Elsewhere, Goto, Return, Throw, PutValue
<1>1. CASE UNCHANGED vars
  BY <1>1 DEF vars
<1>a. "before" \in Values /\ "after" \in Values /\ "other" \in Values
  BY DEF Values
<1>2. ASSUME NEW k \in Keys, Register(k) \/ Authorize(k) PROVE TypeOK'
  <2>1. CASE Register(k)
    BY <2>1 DEF Register
  <2>2. CASE Authorize(k)
    <3>1. uses[k] \in Nat /\ uses[k] + 1 <= MaxRestarts + 1
      BY <2>2, BoundsAssumption DEF Authorize
    <3>2. uses' \in [Keys -> 0..(MaxRestarts + 1)]
      BY <2>2, <3>1, BoundsAssumption DEF Authorize
    <3> QED
      BY <2>2, <3>2 DEF Authorize
  <2> QED
    BY <1>2, <2>1, <2>2
<1>3. ASSUME NEW c \in Calls, NEW answer \in Answers, Apply(c, answer) PROVE TypeOK'
  <2>1. CASE ApplyRead(c, answer)
    BY <2>1 DEF ApplyRead
  <2>2. CASE ApplyPut(c, answer)
    BY <2>2, <1>a DEF ApplyPut
  <2>3. CASE ApplyReadback(c, answer)
    <3>1. CASE answer = "ok" /\ assets[at[c]] = "after"
      <4>a. applied[c] \union {at[c]} \in SUBSET Actions
        OBVIOUS
      <4>1. applied' \in [Calls -> SUBSET Actions]
        BY <2>3, <3>1, <4>a DEF ApplyReadback
      <4> QED
        BY <2>3, <3>1, <4>1 DEF ApplyReadback
    <3>2. CASE ~(answer = "ok" /\ assets[at[c]] = "after")
      BY <2>3, <3>2 DEF ApplyReadback
    <3> QED
      BY <3>1, <3>2
  <2>4. CASE ApplyFinal(c, answer)
    <3>1. CASE answer = "ok"
      <4>1. idempotency' \subseteq Keys /\ rollback' \subseteq Keys
        BY <2>4, <3>1 DEF ApplyFinal
      <4>2. applied' \in [Calls -> SUBSET Actions]
        BY <2>4 DEF ApplyFinal
      <4> QED
        BY <2>4, <3>1, <4>1, <4>2 DEF ApplyFinal
    <3>2. CASE ~(answer = "ok")
      BY <2>4, <3>2 DEF ApplyFinal
    <3> QED
      BY <3>1, <3>2
  <2>5. CASE CompensatePut(c, answer)
    <3>1. PICK i \in applied[c] :
             /\ at' = [at EXCEPT ![c] = i]
             /\ PutValue(i, "before", answer)
             /\ IF answer = "ok"
                THEN Goto(c, "restored") /\ UNCHANGED <<applied, unrestored>>
                ELSE /\ unrestored' = [unrestored EXCEPT ![c] = @ \union {i}]
                     /\ applied' = [applied EXCEPT ![c] = @ \ {i}]
                     /\ UNCHANGED pc
      BY <2>5 DEF CompensatePut
    <3>a. i \in Actions
      OBVIOUS
    <3>b. at' \in [Calls -> Actions]
      BY <3>1, <3>a
    <3>c. assets' \in [Actions -> Values]
      BY <3>1, <3>a, <1>a
    <3>2. CASE answer = "ok"
      <4>1. pc' \in [Calls -> Labels]
        BY <3>1, <3>2
      <4> QED
        BY <2>5, <3>1, <3>2, <3>b, <3>c, <4>1 DEF CompensatePut
    <3>3. CASE ~(answer = "ok")
      <4>1. unrestored[c] \union {i} \in SUBSET Actions /\ applied[c] \ {i} \in SUBSET Actions
        BY <3>a
      <4>2. unrestored' \in [Calls -> SUBSET Actions] /\ applied' \in [Calls -> SUBSET Actions]
        BY <3>1, <3>3, <4>1
      <4> QED
        BY <2>5, <3>1, <3>3, <3>b, <3>c, <4>2 DEF CompensatePut
    <3> QED
      BY <3>2, <3>3
  <2>6. CASE CompensateReadback(c, answer)
    BY <2>6 DEF CompensateReadback
  <2> QED
    BY <1>3, <2>1, <2>2, <2>3, <2>4, <2>5, <2>6 DEF Apply
<1>4. ASSUME NEW c \in Calls, NEW answer \in Answers, Rollback(c, answer) PROVE TypeOK'
  <2>1. CASE RollbackRead(c, answer)
    BY <2>1 DEF RollbackRead
  <2>2. CASE RollbackPut(c, answer)
    BY <2>2, <1>a DEF RollbackPut
  <2>3. CASE RollbackReadback(c, answer)
    <3>1. CASE answer = "unread" \/ assets[at[c]] # "before"
      BY <2>3, <3>1 DEF RollbackReadback
    <3>2. CASE ~(answer = "unread" \/ assets[at[c]] # "before") /\ at[c] = 1
      BY <2>3, <3>2 DEF RollbackReadback
    <3>3. CASE ~(answer = "unread" \/ assets[at[c]] # "before") /\ at[c] # 1
      <4>1. at[c] - 1 \in Actions
        BY <3>3, PlanAssumption DEF Actions
      <4>2. at' \in [Calls -> Actions]
        BY <2>3, <3>3, <4>1 DEF RollbackReadback
      <4> QED
        BY <2>3, <3>3, <4>2 DEF RollbackReadback
    <3> QED
      BY <3>1, <3>2, <3>3
  <2> QED
    BY <1>4, <2>1, <2>2, <2>3 DEF Rollback
<1>5. ASSUME NEW c \in Calls, ApplyNext(c) \/ ApplyInterrupt(c) \/ ApplyFails(c) PROVE TypeOK'
  <2>1. CASE ApplyNext(c)
    <3>1. CASE at[c] < N
      <4>1. at[c] + 1 \in Actions
        BY <2>1, <3>1, PlanAssumption DEF ApplyNext, Actions
      <4>2. at' \in [Calls -> Actions]
        BY <2>1, <3>1, <4>1 DEF ApplyNext
      <4> QED
        BY <2>1, <3>1, <4>2 DEF ApplyNext
    <3>2. CASE ~(at[c] < N)
      BY <2>1, <3>2 DEF ApplyNext
    <3> QED
      BY <3>1, <3>2
  <2>2. CASE ApplyInterrupt(c) \/ ApplyFails(c)
    BY <2>2 DEF ApplyInterrupt, ApplyFails
  <2> QED
    BY <1>5, <2>1, <2>2
<1>6. ASSUME NEW c \in Calls, NEW k \in Keys, Begin(c, k) PROVE TypeOK'
  <2>1. CASE ApplyBegin(c, k)
    <3>a. 1 \in Actions
      BY PlanAssumption DEF Actions
    <3>b. start' \in [Calls -> [Actions -> Values]] /\ at' \in [Calls -> Actions]
      BY <2>1, <3>a DEF ApplyBegin
    <3>c. /\ key' \in [Calls -> Keys]
          /\ unrestored' \in [Calls -> SUBSET Actions]
          /\ error' \in [Calls -> Errors]
      BY <2>1 DEF ApplyBegin
    <3>1. CASE k \in idempotency
      <4>1. pc' \in [Calls -> Labels] /\ result' \in [Calls -> Results]
        BY <2>1, <3>1 DEF ApplyBegin
      <4> QED
        BY <2>1, <3>1, <3>b, <3>c, <4>1 DEF ApplyBegin
    <3>2. CASE ~(k \in idempotency)
      BY <2>1, <3>2, <3>b, <3>c DEF ApplyBegin
    <3> QED
      BY <3>1, <3>2
  <2>2. CASE RollbackBegin(c, k)
    <3>a. N \in Actions
      BY PlanAssumption DEF Actions
    <3>b. start' \in [Calls -> [Actions -> Values]] /\ at' \in [Calls -> Actions]
      BY <2>2, <3>a DEF RollbackBegin
    <3> QED
      BY <2>2, <3>b DEF RollbackBegin
  <2> QED
    BY <1>6, <2>1, <2>2 DEF Begin
<1>7. ASSUME NEW i \in Actions, Edit(i) PROVE TypeOK'
  BY <1>7, <1>a, BoundsAssumption DEF Edit
<1>8. CASE Snapshot
  BY <1>8 DEF Snapshot
<1>9. CASE Restart
  BY <1>9, BoundsAssumption DEF Restart
<1> QED
  BY <1>1, <1>2, <1>3, <1>4, <1>5, <1>6, <1>7, <1>8, <1>9 DEF Next, Continue

\* Only Authorize counts a use, and a death is what makes another one possible.
LEMMA UsesStep ==
    ASSUME TypeInv, [Next]_vars
    PROVE  UsesBounded'
<1> USE DEF TypeInv, TypeOK, UsesBounded, approvalVars, Elsewhere
<1>1. CASE UNCHANGED vars
  BY <1>1 DEF vars
<1>2. ASSUME NEW k \in Keys, Register(k) \/ Authorize(k) PROVE UsesBounded'
  BY <1>2, BoundsAssumption DEF Register, Authorize
<1>3. ASSUME NEW c \in Calls, Continue(c) \/ \E k \in Keys : Begin(c, k)
      PROVE  UNCHANGED <<approvalVars, restarts>>
  BY <1>3 DEF Continue, Apply, Rollback, ApplyRead, ApplyPut, ApplyReadback, ApplyFinal,
       CompensatePut, CompensateReadback, RollbackRead, RollbackPut, RollbackReadback,
       ApplyNext, ApplyInterrupt, ApplyFails, Begin, ApplyBegin, RollbackBegin
<1>4. ASSUME NEW i \in Actions, Edit(i) PROVE UsesBounded'
  BY <1>4 DEF Edit
<1>5. CASE Snapshot
  BY <1>5 DEF Snapshot
<1>6. CASE Restart
  BY <1>6, BoundsAssumption DEF Restart
<1> QED
  BY <1>1, <1>2, <1>3, <1>4, <1>5, <1>6 DEF Next

LEMMA TypeInvariant == Spec => []TypeInv
<1>1. TypeInv /\ [Next]_vars => TypeInv'
  BY TypeStep, UsesStep DEF TypeInv
<1> QED
  BY TypeInit, <1>1, PTL DEF Spec

\* Every variable keeps its type, however many calls overlap.
THEOREM TypeCorrect == Spec => []TypeOK
<1>1. TypeInv => TypeOK
  BY DEF TypeInv
<1> QED
  BY TypeInvariant, <1>1, PTL

\* An approval is turned into one authorization at most by one process, however
\* registrations and authorizations of it are repeated.
THEOREM ApprovalIsOneShot == Spec => []ApprovalUsedOnce
<1>1. TypeInv => ApprovalUsedOnce
  BY DEF TypeInv, TypeOK, UsesBounded, ApprovalUsedOnce
<1> QED
  BY TypeInvariant, <1>1, PTL

-----------------------------------------------------------------------------
(* The walk of a call through the plan.                                    *)

LEMMA WalkInit == Init => WalkInv
BY DEF Init, WalkInv, HandPoint, QuietPoint, ApplyPoint, RollbackPoint, HiddenPoint, Hidden,
       RollbackLabels

\* What a call has in hand stays so, also under the edits of others.
LEMMA HandStep ==
    ASSUME SingleCall, TypeInv, WalkInv, [Next]_vars, NEW d \in Calls
    PROVE  HandPoint(d)'
<1> USE DEF TypeInv, TypeOK, HandPoint, RollbackLabels, callVars, Elsewhere, Goto, Return,
        Throw, PutValue
<1>a. HandPoint(d) /\ \A c \in Calls : c = d
  BY DEF SingleCall, WalkInv
<1>1. CASE UNCHANGED vars
  BY <1>a, <1>1 DEF vars
<1>2. ASSUME NEW k \in Keys, Register(k) \/ Authorize(k) PROVE HandPoint(d)'
  BY <1>a, <1>2 DEF Register, Authorize
<1>3. ASSUME NEW answer \in Answers, Apply(d, answer) PROVE HandPoint(d)'
  <2>1. CASE ApplyRead(d, answer)
    BY <1>a, <2>1 DEF ApplyRead
  <2>2. CASE ApplyPut(d, answer)
    BY <1>a, <2>2 DEF ApplyPut
  <2>3. CASE ApplyReadback(d, answer)
    BY <1>a, <2>3 DEF ApplyReadback
  <2>4. CASE ApplyFinal(d, answer)
    BY <1>a, <2>4 DEF ApplyFinal
  <2>5. CASE CompensatePut(d, answer)
    BY <1>a, <2>5 DEF CompensatePut
  <2>6. CASE CompensateReadback(d, answer)
    BY <1>a, <2>6 DEF CompensateReadback
  <2> QED
    BY <1>3, <2>1, <2>2, <2>3, <2>4, <2>5, <2>6 DEF Apply
<1>4. ASSUME NEW answer \in Answers, Rollback(d, answer) PROVE HandPoint(d)'
  <2>1. CASE RollbackRead(d, answer)
    BY <1>a, <2>1 DEF RollbackRead
  <2>2. CASE RollbackPut(d, answer)
    BY <1>a, <2>2 DEF RollbackPut
  <2>3. CASE RollbackReadback(d, answer)
    BY <1>a, <2>3 DEF RollbackReadback
  <2> QED
    BY <1>4, <2>1, <2>2, <2>3 DEF Rollback
<1>5. CASE ApplyNext(d) \/ ApplyInterrupt(d) \/ ApplyFails(d)
  BY <1>a, <1>5 DEF ApplyNext, ApplyInterrupt, ApplyFails
<1>6. ASSUME NEW k \in Keys, Begin(d, k) PROVE HandPoint(d)'
  BY <1>a, <1>6 DEF Begin, ApplyBegin, RollbackBegin
<1>7. ASSUME NEW i \in Actions, Edit(i) PROVE HandPoint(d)'
  BY <1>a, <1>7 DEF Edit
<1>8. CASE Snapshot
  BY <1>a, <1>8 DEF Snapshot
<1>9. CASE Restart
  BY <1>a, <1>9 DEF Restart
<1> QED
  BY <1>a, <1>1, <1>2, <1>3, <1>4, <1>5, <1>6, <1>7, <1>8, <1>9 DEF Next, Continue

\* No action takes an edit back.
LEMMA EditsStay ==
    ASSUME TypeInv, [Next]_vars, edits' = 0
    PROVE  edits = 0 /\ \A i \in Actions : ~Edit(i)
<1>1. edits \in Nat
  BY BoundsAssumption DEF TypeInv, TypeOK
<1>2. ASSUME NEW i \in Actions, Edit(i) PROVE FALSE
  BY <1>1, <1>2 DEF Edit
<1>3. ~(\E i \in Actions : Edit(i)) => edits' = edits
  BY DEF Next, vars, Register, Authorize, Continue, Apply, Rollback, ApplyRead, ApplyPut,
     ApplyReadback, ApplyFinal, CompensatePut, CompensateReadback, RollbackRead, RollbackPut,
     RollbackReadback, ApplyNext, ApplyInterrupt, ApplyFails, Begin, ApplyBegin, RollbackBegin,
     Snapshot, Restart, Elsewhere
<1> QED
  BY <1>2, <1>3

\* An apply leaves the actions behind it in place and only then goes on.
LEMMA ApplyPointStep ==
    ASSUME SingleCall, TypeInv, WalkInv, [Next]_vars, NEW d \in Calls, edits' = 0
    PROVE  ApplyPoint(d)'
<1> USE DEF TypeInv, TypeOK, ApplyPoint, Actions, callVars, Elsewhere, Goto, Return, Throw, PutValue
<1>a. HandPoint(d) /\ \A c \in Calls : c = d
  BY DEF SingleCall, WalkInv
<1>b. edits = 0
  BY EditsStay
<1>c. ApplyPoint(d)
  BY <1>b DEF WalkInv, QuietPoint
<1> USE <1>a, <1>b, <1>c
<1>1. CASE UNCHANGED vars
  BY <1>1 DEF vars
<1>2. ASSUME NEW k \in Keys, Register(k) \/ Authorize(k) PROVE ApplyPoint(d)'
  BY <1>2 DEF Register, Authorize
<1>3. ASSUME NEW answer \in Answers, Apply(d, answer) PROVE ApplyPoint(d)'
  <2>1. CASE ApplyRead(d, answer)
    BY <2>1 DEF ApplyRead
  <2>2. CASE ApplyPut(d, answer)
    BY <2>2 DEF ApplyPut
  <2>3. CASE ApplyReadback(d, answer)
    BY <2>3 DEF ApplyReadback
  <2>4. CASE ApplyFinal(d, answer)
    BY <2>4 DEF ApplyFinal
  <2>5. CASE CompensatePut(d, answer)
    BY <2>5 DEF CompensatePut
  <2>6. CASE CompensateReadback(d, answer)
    BY <2>6 DEF CompensateReadback
  <2> QED
    BY <1>3, <2>1, <2>2, <2>3, <2>4, <2>5, <2>6 DEF Apply
<1>4. ASSUME NEW answer \in Answers, Rollback(d, answer) PROVE ApplyPoint(d)'
  <2>1. CASE RollbackRead(d, answer)
    BY <2>1 DEF RollbackRead
  <2>2. CASE RollbackPut(d, answer)
    BY <2>2 DEF RollbackPut
  <2>3. CASE RollbackReadback(d, answer)
    BY <2>3 DEF RollbackReadback
  <2> QED
    BY <1>4, <2>1, <2>2, <2>3 DEF Rollback
<1>5. CASE ApplyNext(d)
  <2>1. CASE at[d] < N
    BY <1>5, <2>1, PlanAssumption DEF ApplyNext
  <2>2. CASE ~(at[d] < N)
    BY <1>5, <2>2, PlanAssumption DEF ApplyNext
  <2> QED
    BY <2>1, <2>2
<1>6. CASE ApplyInterrupt(d) \/ ApplyFails(d)
  BY <1>6 DEF ApplyInterrupt, ApplyFails
<1>7. ASSUME NEW k \in Keys, Begin(d, k) PROVE ApplyPoint(d)'
  BY <1>7 DEF Begin, ApplyBegin, RollbackBegin
<1>8. CASE Snapshot
  BY <1>8 DEF Snapshot
<1>9. CASE Restart
  BY <1>9 DEF Restart
<1> QED
  BY <1>1, <1>2, <1>3, <1>4, <1>5, <1>6, <1>7, <1>8, <1>9, EditsStay DEF Next, Continue, Edit


\* A rollback leaves the actions behind it restored.
LEMMA RollbackPointStep ==
    ASSUME SingleCall, TypeInv, WalkInv, [Next]_vars, NEW d \in Calls, edits' = 0
    PROVE  RollbackPoint(d)'
<1> USE DEF TypeInv, TypeOK, RollbackPoint, RollbackLabels, Actions, callVars, Elsewhere, Goto, Return, Throw, PutValue
<1>a. HandPoint(d) /\ \A c \in Calls : c = d
  BY DEF SingleCall, WalkInv
<1>b. edits = 0
  BY EditsStay
<1>c. RollbackPoint(d)
  BY <1>b DEF WalkInv, QuietPoint
<1> USE <1>a, <1>b, <1>c
<1>1. CASE UNCHANGED vars
  BY <1>1 DEF vars
<1>2. ASSUME NEW k \in Keys, Register(k) \/ Authorize(k) PROVE RollbackPoint(d)'
  BY <1>2 DEF Register, Authorize
<1>3. ASSUME NEW answer \in Answers, Apply(d, answer) PROVE RollbackPoint(d)'
  <2>1. CASE ApplyRead(d, answer)
    BY <2>1 DEF ApplyRead
  <2>2. CASE ApplyPut(d, answer)
    BY <2>2 DEF ApplyPut
  <2>3. CASE ApplyReadback(d, answer)
    BY <2>3 DEF ApplyReadback
  <2>4. CASE ApplyFinal(d, answer)
    BY <2>4 DEF ApplyFinal
  <2>5. CASE CompensatePut(d, answer)
    BY <2>5 DEF CompensatePut
  <2>6. CASE CompensateReadback(d, answer)
    BY <2>6 DEF CompensateReadback
  <2> QED
    BY <1>3, <2>1, <2>2, <2>3, <2>4, <2>5, <2>6 DEF Apply
<1>4. ASSUME NEW answer \in Answers, Rollback(d, answer) PROVE RollbackPoint(d)'
  <2>1. CASE RollbackRead(d, answer)
    BY <2>1 DEF RollbackRead
  <2>2. CASE RollbackPut(d, answer)
    BY <2>2 DEF RollbackPut
  <2>3. CASE RollbackReadback(d, answer)
    BY <2>3 DEF RollbackReadback
  <2> QED
    BY <1>4, <2>1, <2>2, <2>3 DEF Rollback
<1>5. CASE ApplyNext(d)
  BY <1>5 DEF ApplyNext
<1>6. CASE ApplyInterrupt(d) \/ ApplyFails(d)
  BY <1>6 DEF ApplyInterrupt, ApplyFails
<1>7. ASSUME NEW k \in Keys, Begin(d, k) PROVE RollbackPoint(d)'
  <2>1. CASE ApplyBegin(d, k)
    BY <2>1 DEF ApplyBegin
  <2>2. CASE RollbackBegin(d, k)
    BY <2>2, PlanAssumption DEF RollbackBegin
  <2> QED
    BY <1>7, <2>1, <2>2 DEF Begin
<1>8. CASE Snapshot
  BY <1>8 DEF Snapshot
<1>9. CASE Restart
  BY <1>9 DEF Restart
<1> QED
  BY <1>1, <1>2, <1>3, <1>4, <1>5, <1>6, <1>7, <1>8, <1>9, EditsStay DEF Next, Continue, Edit


\* Only the action whose own request fails drops out of what is compensated.
LEMMA HiddenStep ==
    ASSUME SingleCall, TypeInv, WalkInv, [Next]_vars, NEW d \in Calls, edits' = 0
    PROVE  HiddenPoint(d)'
<1> USE DEF TypeInv, TypeOK, HiddenPoint, HandPoint, Hidden, RollbackLabels, callVars, Elsewhere, Goto, Return, Throw, PutValue
<1>a. HandPoint(d) /\ \A c \in Calls : c = d
  BY DEF SingleCall, WalkInv
<1>b. edits = 0
  BY EditsStay
<1>c. ApplyPoint(d) /\ HiddenPoint(d)
  BY <1>b DEF WalkInv, QuietPoint
<1> USE <1>a, <1>b, <1>c
<1>1. CASE UNCHANGED vars
  BY <1>1 DEF vars
<1>2. ASSUME NEW k \in Keys, Register(k) \/ Authorize(k) PROVE HiddenPoint(d)'
  BY <1>2 DEF Register, Authorize
<1>3. ASSUME NEW answer \in Answers, Apply(d, answer) PROVE HiddenPoint(d)'
  <2>1. CASE ApplyRead(d, answer)
    BY <2>1 DEF ApplyRead
  <2>2. CASE ApplyPut(d, answer)
    BY <2>2 DEF ApplyPut
  <2>3. CASE ApplyReadback(d, answer)
    BY <2>3 DEF ApplyReadback
  <2>4. CASE ApplyFinal(d, answer)
    BY <2>4 DEF ApplyFinal
  <2>5. CASE CompensatePut(d, answer)
    BY <2>5 DEF CompensatePut
  <2>6. CASE CompensateReadback(d, answer)
    BY <2>6 DEF CompensateReadback
  <2> QED
    BY <1>3, <2>1, <2>2, <2>3, <2>4, <2>5, <2>6 DEF Apply
<1>4. ASSUME NEW answer \in Answers, Rollback(d, answer) PROVE HiddenPoint(d)'
  <2>1. CASE RollbackRead(d, answer)
    BY <2>1 DEF RollbackRead
  <2>2. CASE RollbackPut(d, answer)
    BY <2>2 DEF RollbackPut
  <2>3. CASE RollbackReadback(d, answer)
    BY <2>3 DEF RollbackReadback
  <2> QED
    BY <1>4, <2>1, <2>2, <2>3 DEF Rollback
<1>5. CASE ApplyNext(d)
  BY <1>5 DEF ApplyNext
<1>6. CASE ApplyInterrupt(d) \/ ApplyFails(d)
  BY <1>6 DEF ApplyInterrupt, ApplyFails
<1>7. ASSUME NEW k \in Keys, Begin(d, k) PROVE HiddenPoint(d)'
  BY <1>7 DEF Begin, ApplyBegin, RollbackBegin
<1>8. CASE Snapshot
  BY <1>8 DEF Snapshot
<1>9. CASE Restart
  BY <1>9 DEF Restart
<1> QED
  BY <1>1, <1>2, <1>3, <1>4, <1>5, <1>6, <1>7, <1>8, <1>9, EditsStay DEF Next, Continue, Edit

LEMMA WalkStep ==
    ASSUME SingleCall, TypeInv, WalkInv, [Next]_vars
    PROVE  WalkInv'
<1> SUFFICES ASSUME NEW d \in Calls
             PROVE  HandPoint(d)' /\ (edits' = 0 => QuietPoint(d)')
  BY DEF WalkInv
<1>1. HandPoint(d)'
  BY HandStep
<1>2. edits' = 0 => ApplyPoint(d)' /\ RollbackPoint(d)' /\ HiddenPoint(d)'
  BY ApplyPointStep, RollbackPointStep, HiddenStep
<1> QED
  BY <1>1, <1>2 DEF QuietPoint

LEMMA WalkInvariant == ASSUME SingleCall PROVE Spec => []WalkInv
<1>1. TypeInv /\ WalkInv /\ [Next]_vars => WalkInv'
  BY WalkStep
<1> QED
  BY WalkInit, TypeInvariant, <1>1, PTL DEF Spec

\* A call never overwrites what somebody else had put into an asset before it
\* began, in a plan of any length and whatever else is edited meanwhile.
THEOREM EarlierEditsSurvive == ASSUME SingleCall PROVE Spec => []EarlierEditSurvives
<1>1. WalkInv => EarlierEditSurvives
  BY DEF WalkInv, HandPoint, EarlierEditSurvives
<1> QED
  BY WalkInvariant, <1>1, PTL

-----------------------------------------------------------------------------
(* How calls end.                                                          *)

\* Which action ends a call, and with which result.
LEMMA Endings ==
    ASSUME TypeInv, [Next]_vars, NEW c \in Calls, SingleCall, pc[c] # "idle", pc'[c] = "idle"
    PROVE  \/ \E answer \in Answers : ApplyFinal(c, answer) \/ Rollback(c, answer)
           \/ ApplyFails(c)
           \/ Restart
<1> USE DEF TypeInv, TypeOK, callVars, Elsewhere, Goto, Return, Throw
<1>1. ~UNCHANGED pc
  OBVIOUS
<1>2. ASSUME NEW answer \in Answers, Apply(c, answer) PROVE ApplyFinal(c, answer)
  BY <1>2 DEF Apply, ApplyRead, ApplyPut, ApplyReadback, CompensatePut, CompensateReadback
<1>3. ~ApplyNext(c) /\ ~ApplyInterrupt(c)
  BY DEF ApplyNext, ApplyInterrupt
<1>4. ASSUME NEW k \in Keys, Begin(c, k) PROVE FALSE
  BY <1>4 DEF Begin, ApplyBegin, RollbackBegin
<1>5. ASSUME NEW d \in Calls, Continue(d) \/ \E k \in Keys : Begin(d, k) PROVE d = c
  BY DEF SingleCall
<1>6. \E d \in Calls : (Continue(d) \/ \E k \in Keys : Begin(d, k)) \/ Restart
  BY <1>1 DEF Next, vars, Register, Authorize, Edit, Snapshot
<1> QED
  BY <1>2, <1>3, <1>4, <1>5, <1>6 DEF Continue

\* A receipt is only issued for a plan all of whose actions are in place.
THEOREM ReceiptsAreTrue == ASSUME SingleCall PROVE Spec => ReceiptMeansApplied
<1>1. ASSUME TypeInv, WalkInv, [Next]_vars, NEW c \in Calls, edits' = 0, Ends(c, "succeeded")
      PROVE  assets' = AllAfter
  <2>1. PICK answer \in Answers : ApplyFinal(c, answer)
    BY <1>1, Endings DEF Ends, Rollback, RollbackRead, RollbackPut, RollbackReadback, ApplyFails,
         Restart, TypeInv, TypeOK, Return, Goto
  <2>2. ApplyPoint(c)
    BY <1>1, EditsStay DEF WalkInv, QuietPoint
  <2>3. pc[c] = "final" /\ assets' = assets
    BY <2>1 DEF ApplyFinal
  <2> QED
    BY <1>1, <2>2, <2>3 DEF ApplyPoint, AllAfter, TypeInv, TypeOK
<1>2. TypeInv /\ WalkInv /\ [Next]_vars =>
        \A c \in Calls : edits' = 0 /\ Ends(c, "succeeded") => assets' = AllAfter
  BY <1>1
<1> QED
  BY <1>2, TypeInvariant, WalkInvariant, PTL DEF Spec, ReceiptMeansApplied

\* A rollback consumes its token only when every asset is back, whatever earlier
\* attempts and deaths left behind.
THEOREM RollbacksRestore == ASSUME SingleCall PROVE Spec => RollbackRestores
<1>1. ASSUME TypeInv, WalkInv, [Next]_vars, NEW c \in Calls, edits' = 0, Ends(c, "rolled_back")
      PROVE  assets' = AllBefore
  <2>1. PICK answer \in Answers : RollbackReadback(c, answer)
    BY <1>1, Endings DEF Ends, Rollback, RollbackRead, RollbackPut, ApplyFinal, ApplyFails,
         Restart, TypeInv, TypeOK, Return, Goto
  <2>2. RollbackPoint(c)
    BY <1>1, EditsStay DEF WalkInv, QuietPoint
  <2>3. at[c] = 1 /\ assets[at[c]] = "before" /\ assets' = assets
    BY <1>1, <2>1 DEF RollbackReadback, Ends, TypeInv, TypeOK, Return, Goto
  <2>4. \A i \in Actions : assets[i] = "before"
    BY <2>1, <2>2, <2>3 DEF RollbackPoint, RollbackLabels, RollbackReadback, Actions
  <2> QED
    BY <1>1, <2>3, <2>4 DEF AllBefore, TypeInv, TypeOK
<1>2. TypeInv /\ WalkInv /\ [Next]_vars =>
        \A c \in Calls : edits' = 0 /\ Ends(c, "rolled_back") => assets' = AllBefore
  BY <1>1
<1> QED
  BY <1>2, TypeInvariant, WalkInvariant, PTL DEF Spec, RollbackRestores

\* A failed apply changes nothing it does not report, but for the action whose
\* own request failed, or the plan whose last readback did.
THEOREM FailuresAreReported == ASSUME SingleCall PROVE Spec => FailedApplyIsReported
<1> DEFINE Reported(c) ==
      \/ Unreported(c) = {}
      \/ error'[c] = "request" /\ (Cardinality(Unreported(c)) = 1 \/ pc[c] = "final")
<1>1. ASSUME TypeInv, WalkInv, [Next]_vars, NEW c \in Calls, edits' = 0, Ends(c, "failed")
      PROVE  Reported(c)
  <2>1. (\E answer \in Answers : ApplyFinal(c, answer)) \/ ApplyFails(c)
    BY <1>1, Endings DEF Ends, Rollback, RollbackRead, RollbackPut, RollbackReadback, Restart,
         TypeInv, TypeOK, Return, Goto
  <2>2. ASSUME NEW answer \in Answers, ApplyFinal(c, answer) PROVE Reported(c)
    <3>1. answer # "ok"
      BY <1>1, <2>2 DEF ApplyFinal, Ends, TypeInv, TypeOK, Return
    <3>2. error'[c] = "request" /\ pc[c] = "final"
      BY <1>1, <2>2, <3>1 DEF ApplyFinal, TypeInv, TypeOK
    <3> QED
      BY <3>2
  <2>3. CASE ApplyFails(c)
    <3>1. HiddenPoint(c)
      BY <1>1, EditsStay DEF WalkInv, QuietPoint
    <3>2. Unreported(c) = Hidden(c) /\ error' = error /\ pc[c] = "compensate"
      BY <2>3 DEF ApplyFails, Unreported, Hidden
    <3>3. PICK x \in Actions : Hidden(c) \subseteq {x}
      BY <3>1, <3>2 DEF HiddenPoint
    <3>4. CASE Hidden(c) = {}
      BY <3>2, <3>4
    <3>5. CASE Hidden(c) = {x}
      <4>1. Cardinality({x}) = 1
        BY FS_Singleton
      <4> QED
        BY <3>1, <3>2, <3>5, <4>1 DEF HiddenPoint
    <3> QED
      BY <3>3, <3>4, <3>5
  <2> QED
    BY <2>1, <2>2, <2>3
<1>2. TypeInv /\ WalkInv /\ [Next]_vars =>
        \A c \in Calls : edits' = 0 /\ Ends(c, "failed") => Reported(c)
  BY <1>1
<1> QED
  BY <1>2, TypeInvariant, WalkInvariant, PTL DEF Spec, FailedApplyIsReported
=============================================================================
