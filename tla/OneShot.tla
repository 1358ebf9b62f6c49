------------------------------- MODULE OneShot -------------------------------
(***************************************************************************)
(* What the model broker (runtime/) and the browser starter (hosting/)     *)
(* promise of an operation, and nothing of how they keep it: its outcome   *)
(* is recorded as unknown no later than its request goes out, one request  *)
(* goes out at most, whatever is retried or restarted, and the outcome     *)
(* stays unknown until it is concluded, once, from that request.           *)
(***************************************************************************)
EXTENDS Naturals

CONSTANTS Operations, Requests

VARIABLES outcome,   \* what is recorded of each operation
          sent       \* how often each of its possible requests went out

oneShotVars == <<outcome, sent>>

OneShotInit == /\ outcome = [o \in Operations |-> "none"]
               /\ sent = [o \in Operations |-> [r \in Requests |-> 0]]

Unsent(o) == \A r \in Requests : sent[o][r] = 0

\* The record goes ahead of the request.
Record(o) == /\ outcome[o] = "none"
             /\ outcome' = [outcome EXCEPT ![o] = "unknown"]
             /\ UNCHANGED sent

\* The request goes out, with its record at the latest.
Dispatch(o, r) == /\ outcome[o] # "concluded"
                  /\ Unsent(o)
                  /\ outcome' = [outcome EXCEPT ![o] = "unknown"]
                  /\ sent' = [sent EXCEPT ![o] = [@ EXCEPT ![r] = 1]]

\* Nothing is concluded of a request that did not go out.
Conclude(o) == /\ outcome[o] = "unknown"
               /\ ~Unsent(o)
               /\ outcome' = [outcome EXCEPT ![o] = "concluded"]
               /\ UNCHANGED sent

OneShotNext == \E o \in Operations :
                  Record(o) \/ Conclude(o) \/ \E r \in Requests : Dispatch(o, r)

OneShotSpec == OneShotInit /\ [][OneShotNext]_oneShotVars

\* What the owner of the budget relies on: one request at most is ever paid for, and it is
\* on record.
PaidForOnce ==
    \A o \in Operations : \A r, q \in Requests :
        sent[o][r] > 0 /\ sent[o][q] > 0 => r = q /\ sent[o][r] = 1 /\ outcome[o] # "none"
==============================================================================
