----------------------------- MODULE NativeBroker -----------------------------
(***************************************************************************)
(* The model broker runtime (runtime/h05-native-broker-runtime.mjs) over   *)
(* its reservation table (h05-native-resource-store.mjs), a SQLite file    *)
(* that several runtimes may open. Each transaction of the table is one    *)
(* step, and so is the read by which the catch of a failed call learns the *)
(* row, because another process may run, or this one be killed, between    *)
(* two of them. The shared model broker and the provider behind it are     *)
(* external: the provider takes a request, uses some units and answers, or *)
(* the answer is lost, refused or out of range.                            *)
(***************************************************************************)
EXTENDS Naturals, FiniteSetsExt

CONSTANTS Runtimes,        \* processes with a runtime on the same state root
          Operations, Digests,
          ModelUnits,      \* modelReservationUnits; a reservation has one runtime unit
          ModelLimit, RuntimeLimit,
          NoDigest

ASSUME UnitsAssumption == ModelUnits \in Nat /\ ModelLimit \in Nat /\ RuntimeLimit \in Nat
\* The store refuses an operation id outside /^operation:[a-z0-9][a-z0-9._-]{2,63}$/.
ASSUME FiniteOperations == IsFiniteSet(Operations)
ASSUME NoDigestAssumption == NoDigest \notin Digests

VARIABLES
    rows,      \* the reservations table
    calls,     \* per runtime and operation: the call in flight, or what the last one was told
    sent,      \* how often the provider received each request
    used       \* the units the provider used for each operation

brokerVars == <<rows, calls, sent, used>>

RowStates == {"ABSENT", "RESERVED", "UNKNOWN_USAGE", "SETTLED"}
Rows == [state : RowStates, digest : Digests \union {NoDigest}, consumed : Nat]

\* "failed": a call of the table threw and the catch has not read the row yet.
Phases == {"reserve", "mark", "invoke", "sent", "failed"}
\* REJECTED: the promise rejects, because the read of the catch throws as well.
Answers == {"SETTLED", "SETTLED_REPLAY", "UNKNOWN_USAGE_HELD", "NOT_DISPATCHED", "REJECTED"}
Calls == [at : Phases \union Answers \union {"none"}, digest : Digests \union {NoDigest}]

BrokerTypeOK ==
    /\ rows \in [Operations -> Rows]
    /\ calls \in [Runtimes -> [Operations -> Calls]]
    /\ sent \in [Operations -> [Digests -> Nat]]
    /\ used \in [Operations -> Nat]

BrokerInit ==
    /\ rows = [o \in Operations |-> [state |-> "ABSENT", digest |-> NoDigest, consumed |-> 0]]
    /\ calls = [b \in Runtimes |-> [o \in Operations |-> [at |-> "none", digest |-> NoDigest]]]
    /\ sent = [o \in Operations |-> [d \in Digests |-> 0]]
    /\ used = [o \in Operations |-> 0]

At(b, o, phase) == calls[b][o].at = phase

GoOn(b, o, at) == calls' = [calls EXCEPT ![b][o].at = at]

--------------------------------------------------------------------------------
\* Mutant: settled reservations no longer count.
ForgetSettled(o) == IF rows[o].state \in {"ABSENT", "SETTLED"} THEN 0 ELSE ModelUnits

\* What snapshot counts as committed: what a settled reservation consumed, all of
\* what another one reserved.
Committed(o) == CASE rows[o].state = "ABSENT" -> 0
                  [] rows[o].state = "SETTLED" -> rows[o].consumed
                  [] OTHER -> ModelUnits

Reserved == {o \in Operations : rows[o].state # "ABSENT"}

Exhausted == \/ MapThenSumSet(Committed, Operations) + ModelUnits > ModelLimit
             \/ Cardinality(Reserved) + 1 > RuntimeLimit

\* invoke: one call per operation is in flight in a runtime; others join it.
Invoke(b, o, d) ==
    /\ calls[b][o].at \notin Phases
    /\ calls' = [calls EXCEPT ![b][o] = [at |-> "reserve", digest |-> d]]
    /\ UNCHANGED <<rows, sent, used>>

\* Mutant: a retry is recognised by its operation alone.
AnyDigest(b, o) == TRUE

SameRequest(b, o) == rows[o].digest = calls[b][o].digest

Reserve(b, o) ==
    /\ At(b, o, "reserve")
    /\ \/ /\ rows[o].state = "ABSENT" /\ ~Exhausted
          /\ rows' = [rows EXCEPT ![o] = [state |-> "RESERVED", digest |-> calls[b][o].digest,
                                          consumed |-> 0]]
          /\ GoOn(b, o, "mark")
       \/ /\ rows[o].state # "ABSENT" /\ SameRequest(b, o)
          /\ GoOn(b, o, "mark")
          /\ UNCHANGED rows
       \/ /\ IF rows[o].state = "ABSENT" THEN Exhausted ELSE ~SameRequest(b, o)
          /\ GoOn(b, o, "failed")
          /\ UNCHANGED rows
    /\ UNCHANGED <<sent, used>>

\* SQLite throws (busy beyond its timeout, an I/O error) and the transaction is rolled back.
StoreFails(b, o) ==
    /\ calls[b][o].at \in {"reserve", "mark", "sent"}
    /\ GoOn(b, o, "failed")
    /\ UNCHANGED <<rows, sent, used>>

\* What the catch of "first" reports, from the row as it reads it.
Failure(o) == IF rows[o].state = "UNKNOWN_USAGE" THEN "UNKNOWN_USAGE_HELD" ELSE "NOT_DISPATCHED"

\* The read of the catch is a transaction of its own, and may throw too.
ReadBack(b, o) ==
    /\ At(b, o, "failed")
    /\ GoOn(b, o, Failure(o)) \/ GoOn(b, o, "REJECTED")
    /\ UNCHANGED <<rows, sent, used>>

\* Mutant: a reservation that was marked and not settled is granted again.
GrantUnsettled(o) == rows[o].state # "SETTLED"

DispatchGranted(o) == rows[o].state = "RESERVED"

\* markUnknownUsage
Mark(b, o) ==
    /\ At(b, o, "mark")
    /\ IF DispatchGranted(o)
       THEN rows' = [rows EXCEPT ![o].state = "UNKNOWN_USAGE"] /\ GoOn(b, o, "invoke")
       ELSE /\ GoOn(b, o, IF rows[o].state = "SETTLED" THEN "SETTLED_REPLAY" ELSE "UNKNOWN_USAGE_HELD")
            /\ UNCHANGED rows
    /\ UNCHANGED <<sent, used>>

\* The shared broker sends the request; the provider may use more than was reserved.
Send(b, o, u) ==
    /\ At(b, o, "invoke")
    /\ sent' = [sent EXCEPT ![o][calls[b][o].digest] = @ + 1]
    /\ used' = [used EXCEPT ![o] = @ + u]
    /\ GoOn(b, o, "sent")
    /\ UNCHANGED rows

\* It refuses to send (its own request budget), or the answer is lost or refused.
HeldWithoutAnswer(b, o) ==
    /\ calls[b][o].at \in {"invoke", "sent"}
    /\ GoOn(b, o, "UNKNOWN_USAGE_HELD")
    /\ UNCHANGED <<rows, sent, used>>

\* The answer is read and settled; settle writes only a row in UNKNOWN_USAGE.
Settle(b, o) ==
    /\ At(b, o, "sent")
    /\ IF used[o] <= ModelUnits
       THEN /\ rows[o].state = "UNKNOWN_USAGE"
            /\ rows' = [rows EXCEPT ![o] = [@ EXCEPT !.state = "SETTLED", !.consumed = used[o]]]
            /\ GoOn(b, o, "SETTLED")
       ELSE GoOn(b, o, "UNKNOWN_USAGE_HELD") /\ UNCHANGED rows
    /\ UNCHANGED <<sent, used>>

\* The process ends and another is started on the same state root.
KillRuntime(b) ==
    /\ \E o \in Operations : calls[b][o].at \in Phases
    /\ calls' = [calls EXCEPT ![b] = [o \in Operations |-> [at |-> "none", digest |-> NoDigest]]]
    /\ UNCHANGED <<rows, sent, used>>

BrokerNext ==
    \E b \in Runtimes :
        \/ \E o \in Operations :
            \/ \E d \in Digests : Invoke(b, o, d)
            \/ Reserve(b, o) \/ Mark(b, o)
            \/ \E u \in 0..(ModelUnits + 1) : Send(b, o, u)
            \/ HeldWithoutAnswer(b, o) \/ Settle(b, o)
            \/ StoreFails(b, o) \/ ReadBack(b, o)
        \/ KillRuntime(b)

BrokerSpec == BrokerInit /\ [][BrokerNext]_brokerVars
--------------------------------------------------------------------------------
(* A provider receives at most one request for an operation: whatever is retried, by
   however many runtimes and with whatever other request under the same operation, and
   wherever a runtime is killed. *)
DispatchedAtMostOnce ==
    \A o \in Operations : \A d, e \in Digests :
        sent[o][d] > 0 /\ sent[o][e] > 0 => d = e /\ sent[o][d] = 1

(* The table keeps the promise of OneShot: the mark records an operation before its
   request goes out, a request goes out once over all runtimes, conflicting digests and
   kills, and a settlement is final and of a request that was received. *)
BrokerPromise == INSTANCE OneShot
    WITH Requests <- Digests,
         outcome <- [o \in Operations |->
                       CASE rows[o].state = "UNKNOWN_USAGE" -> "unknown"
                         [] rows[o].state = "SETTLED" -> "concluded"
                         [] OTHER -> "none"]
BrokerIsOneShot == BrokerPromise!OneShotSpec

(* The ledger stays within its limits and never understates the provider's use: what
   is committed covers what was used, up to what was reserved. *)
BudgetCoversUse ==
    /\ MapThenSumSet(Committed, Operations) <= ModelLimit
    /\ Cardinality(Reserved) <= RuntimeLimit
    /\ \A o \in Operations : Committed(o) >= (IF used[o] > ModelUnits THEN ModelUnits ELSE used[o])

(* What a caller is told accounts for its request.  A settled answer or its replay is of
   this very request, received once and charged with what the provider used; "held" leaves
   the units reserved; and "not dispatched", which the catch reads from the row after the
   refusal and so may be told of a request that another runtime has sent and settled
   meanwhile, never leaves a charge open: either the provider has not received this
   request, or it is settled and charged with what was used. *)
AnswersAreAccountedFor ==
    [][\A b \in Runtimes, o \in Operations :
          LET call == calls'[b][o]
              Settled == /\ rows'[o] = [state |-> "SETTLED", digest |-> call.digest,
                                        consumed |-> used'[o]]
                         /\ sent'[o][call.digest] = 1
          IN
          calls[b][o].at \in Phases =>
            /\ call.at \in {"SETTLED", "SETTLED_REPLAY"} => Settled
            /\ call.at = "UNKNOWN_USAGE_HELD" => rows'[o].state = "UNKNOWN_USAGE"
            /\ call.at = "NOT_DISPATCHED" => sent'[o][call.digest] = 0 \/ Settled]_brokerVars
================================================================================
