---------------------------- MODULE BrowserStarter ----------------------------
(***************************************************************************)
(* The browser starter (hosting/browser-starter.mjs) over its SQLite store *)
(* (hosting/browser-starter-store.mjs).  A run is recorded with an unknown *)
(* outcome before it is dispatched and completed afterwards; the server    *)
(* that runs it may be killed, and another one opened on the same store.   *)
(* Requests that are refused, replayed or only look change nothing and are *)
(* not steps.                                                              *)
(***************************************************************************)
EXTENDS Naturals, FiniteSets

CONSTANTS StarterServers, StarterOperations, NoOperation,
          OperationBound,    \* of the operations table
          LastGeneration

ASSUME StarterAssumption ==
    NoOperation \notin StarterOperations /\ LastGeneration \in Nat \ {0}

VARIABLES
    owner,        \* the owner row: state, operation and generation
    operations,   \* the operations table
    running,      \* per server: its activeOperation
    dispatched,   \* how often each operation was started
    prepared      \* the catalog journeys whose analysis committed a generation

starterVars == <<owner, operations, running, dispatched, prepared>>

Journeys == {"catalog", "metric"}
Finals == {"succeeded", "failed", "aborted"}
OwnerRows == [state : Finals \union {"idle", "outcome_unknown"},
              operation : StarterOperations \union {NoOperation}, generation : 1..LastGeneration]
OperationRows == [state : Finals \union {"absent", "outcome_unknown"}, generation : 0..LastGeneration]
Inactive == [operation |-> NoOperation, journey |-> "metric", abort |-> FALSE]

StarterTypeOK ==
    /\ owner \in OwnerRows
    /\ operations \in [StarterOperations -> OperationRows]
    /\ running \in [StarterServers -> [operation : StarterOperations \union {NoOperation},
                                       journey : Journeys, abort : BOOLEAN]]
    /\ dispatched \in [StarterOperations -> Nat]
    /\ prepared \subseteq StarterOperations

StarterInit ==
    /\ owner = [state |-> "idle", operation |-> NoOperation, generation |-> 1]
    /\ operations = [o \in StarterOperations |-> [state |-> "absent", generation |-> 0]]
    /\ running = [v \in StarterServers |-> Inactive]
    /\ dispatched = [o \in StarterOperations |-> 0]
    /\ prepared = {}

Recorded == {o \in StarterOperations : operations[o].state # "absent"}
Active(v) == running[v].operation # NoOperation

Held == owner.state = "outcome_unknown"

--------------------------------------------------------------------------------
\* Mutant: an operation is begun although the outcome of the last one is unknown.
HoldIgnored(o) == o \notin Recorded /\ Cardinality(Recorded) < OperationBound

\* Mutant: an operation that was completed may be begun again.
CompletedMayBegin(o) == ~Held /\ Cardinality(Recorded) < OperationBound

\* begin dispatches an operation that is not in the table.
MayBegin(o) == ~Held /\ o \notin Recorded /\ Cardinality(Recorded) < OperationBound

RunStarter(v, o, j) ==
    /\ MayBegin(o)
    /\ operations' = [operations EXCEPT ![o] = [state |-> "outcome_unknown",
                                                generation |-> owner.generation]]
    /\ owner' = [owner EXCEPT !.state = "outcome_unknown", !.operation = o]
    /\ running' = [running EXCEPT ![v] = [operation |-> o, journey |-> j, abort |-> FALSE]]
    /\ dispatched' = [dispatched EXCEPT ![o] = @ + 1]
    /\ UNCHANGED prepared

\* Only the server that runs the operation can abort it.
AbortStarter(v) ==
    /\ Active(v)
    /\ running' = [running EXCEPT ![v].abort = TRUE]
    /\ UNCHANGED <<owner, operations, dispatched, prepared>>

\* analyze() of a catalog journey, which nothing aborts.
PrepareCatalog(v) ==
    /\ Active(v) /\ running[v].journey = "catalog"
    /\ prepared' = prepared \union {running[v].operation}
    /\ UNCHANGED <<owner, operations, running, dispatched>>

\* complete: refused unless the owner row holds this operation with an unknown outcome.
Complete(o, state) ==
    /\ Held /\ owner.operation = o
    /\ operations' = [operations EXCEPT ![o].state = state]
    /\ owner' = [owner EXCEPT !.state = state]

\* The journey ended with a value, right or wrong, or with an error after an abort.
FinishStarter(v) ==
    LET o == running[v].operation IN
    /\ Active(v)
    /\ \/ running[v].abort /\ Complete(o, "aborted")
       \/ /\ ~running[v].abort
          /\ running[v].journey = "catalog" => o \in prepared
          /\ \E state \in {"succeeded", "failed"} : Complete(o, state)
    /\ running' = [running EXCEPT ![v] = Inactive]
    /\ UNCHANGED <<dispatched, prepared>>

\* It ended with an error nobody asked for, or the server was killed.
LoseStarter(v) ==
    /\ Active(v)
    /\ running' = [running EXCEPT ![v] = Inactive]
    /\ UNCHANGED <<owner, operations, dispatched, prepared>>

\* Mutant: a reset does not ask for the bound of the generation.
ResetUnbounded == ~Held

\* Mutant: a reset does not ask for the state.
ResetAnyway == owner.generation < LastGeneration

MayReset == owner.generation < LastGeneration /\ ~Held

ResetStarter ==
    /\ MayReset
    /\ owner' = [state |-> "idle", operation |-> NoOperation, generation |-> owner.generation + 1]
    /\ UNCHANGED <<operations, running, dispatched, prepared>>

StarterNext ==
    \/ \E v \in StarterServers :
         \/ \E o \in StarterOperations, j \in Journeys : RunStarter(v, o, j)
         \/ AbortStarter(v) \/ PrepareCatalog(v) \/ FinishStarter(v) \/ LoseStarter(v)
    \/ ResetStarter

StarterSpec == StarterInit /\ [][StarterNext]_starterVars
--------------------------------------------------------------------------------
(* One operation runs at a time over all servers on the store, it is the one the owner
   row holds, and no operation is ever started twice: not by a retry, nor after a kill or
   a reset. *)
StarterRunsOnce ==
    /\ \A o \in StarterOperations : dispatched[o] <= 1
    /\ \A v, u \in StarterServers : Active(v) /\ Active(u) => u = v
    /\ \A v \in StarterServers : Active(v) => Held /\ owner.operation = running[v].operation

(* An operation whose outcome is unknown stays in the owner row: no reset, later operation
   or restart hides it. *)
UnknownOutcomeIsShown ==
    \A o \in StarterOperations :
        operations[o].state = "outcome_unknown" => Held /\ owner.operation = o

(* The starter keeps the promise of OneShot: what it recorded is never started again,
   and a result is final, whatever is retried, reset or killed. *)
StarterPromise == INSTANCE OneShot
    WITH Operations <- StarterOperations, Requests <- {"start"},
         outcome <- [o \in StarterOperations |->
                       CASE operations[o].state = "absent" -> "none"
                         [] operations[o].state = "outcome_unknown" -> "unknown"
                         [] OTHER -> "concluded"],
         sent <- [o \in StarterOperations |-> [r \in {"start"} |-> dispatched[o]]]
StarterIsOneShot == StarterPromise!OneShotSpec
================================================================================
