---------------------------- MODULE ServicesProofs ----------------------------
(***************************************************************************)
(* Proofs about the two components of hosting/: BrowserStarter, for any    *)
(* number of servers, operations and generations, and PortableLifecycle,   *)
(* for any number of handles; and about MCServices, the behaviours of the  *)
(* services that share no state: what is proved of each of them holds of   *)
(* the module that is model-checked.                                       *)
(***************************************************************************)
EXTENDS MCServices, OperationLifecycleProofs, NativeBrokerProofs, ProgressiveAnalysisProofs,
        SupersetProofs

\* What is not in the table was never started.
NewIsNotDispatched == \A o \in StarterOperations : o \notin Recorded => dispatched[o] = 0

StarterInv == StarterTypeOK /\ StarterRunsOnce /\ UnknownOutcomeIsShown /\ NewIsNotDispatched

LEMMA StarterInvInit == StarterInit => StarterInv
BY StarterAssumption
   DEF StarterInit, StarterInv, StarterTypeOK, StarterRunsOnce, UnknownOutcomeIsShown,
       NewIsNotDispatched, Recorded, Active, Inactive, Held, OwnerRows, OperationRows, Journeys,
       Finals

LEMMA StarterInvStep ==
    ASSUME StarterInv, [StarterNext]_starterVars
    PROVE  StarterInv'
<1> USE StarterAssumption
    DEF StarterInv, StarterTypeOK, Inactive, OwnerRows, OperationRows, Journeys, Finals
<1>1. CASE UNCHANGED starterVars
  BY <1>1 DEF starterVars, StarterRunsOnce, UnknownOutcomeIsShown, NewIsNotDispatched, Recorded,
              Active, Held
<1>2. ASSUME NEW v \in StarterServers, NEW o \in StarterOperations, NEW j \in Journeys,
             RunStarter(v, o, j)
      PROVE  StarterInv'
  <2> USE <1>2 DEF RunStarter, MayBegin
  <2>1. StarterTypeOK'
    <3>1. owner' \in OwnerRows /\ owner.generation \in 0..LastGeneration
      <4>1. owner.generation \in 1..LastGeneration
        OBVIOUS
      <4>2. owner' = [state |-> "outcome_unknown", operation |-> o,
                      generation |-> owner.generation]
        OBVIOUS
      <4> QED
        BY <4>1, <4>2
    <3>2. [state |-> "outcome_unknown", generation |-> owner.generation] \in OperationRows
      BY <3>1
    <3>3. operations' \in [StarterOperations -> OperationRows]
      BY <3>2
    <3>4. dispatched' \in [StarterOperations -> Nat] /\ prepared' \subseteq StarterOperations
      OBVIOUS
    <3>5. [operation |-> o, journey |-> j, abort |-> FALSE]
            \in [operation : StarterOperations \union {NoOperation}, journey : Journeys,
                 abort : BOOLEAN]
      OBVIOUS
    <3>6. running' \in [StarterServers -> [operation : StarterOperations \union {NoOperation},
                                           journey : Journeys, abort : BOOLEAN]]
      BY <3>5
    <3> QED
      BY <3>1, <3>3, <3>4, <3>6
  <2>2. \A u \in StarterServers : running[u].operation = NoOperation
    \* nothing is active, for nothing is held
    BY DEF StarterRunsOnce, Active, Held
  <2>3. /\ \A u \in StarterServers \ {v} : running'[u].operation = NoOperation
        /\ running'[v].operation = o /\ owner'.operation = o
        /\ owner'.state = "outcome_unknown"
    BY <2>2
  <2>4. (\A p \in StarterOperations : dispatched'[p] <= 1) /\ NewIsNotDispatched'
    BY DEF StarterRunsOnce, NewIsNotDispatched, Recorded
  <2>5. StarterRunsOnce'
    BY <2>3, <2>4 DEF StarterRunsOnce, Active, Held
  <2>6. UnknownOutcomeIsShown'
    BY DEF UnknownOutcomeIsShown, Held
  <2> QED
    BY <2>1, <2>4, <2>5, <2>6
<1>3. ASSUME NEW v \in StarterServers, AbortStarter(v) \/ PrepareCatalog(v) \/ LoseStarter(v)
      PROVE  StarterInv'
  <2>1. StarterTypeOK'
    <3>1. running[v] \in [operation : StarterOperations \union {NoOperation}, journey : Journeys,
                          abort : BOOLEAN]
      OBVIOUS
    <3>2. CASE AbortStarter(v)
      BY <3>1, <3>2 DEF AbortStarter
    <3>3. CASE PrepareCatalog(v)
      BY <3>1, <3>3 DEF PrepareCatalog, Active
    <3>4. CASE LoseStarter(v)
      BY <3>4 DEF LoseStarter
    <3> QED
      BY <1>3, <3>2, <3>3, <3>4
  <2>2. UNCHANGED <<owner, operations, dispatched>>
    BY <1>3 DEF AbortStarter, PrepareCatalog, LoseStarter
  <2>3. \A u \in StarterServers :
          running'[u].operation \in {NoOperation, running[u].operation}
    BY <1>3 DEF AbortStarter, PrepareCatalog, LoseStarter
  <2>4. StarterRunsOnce'
    BY <2>2, <2>3 DEF StarterRunsOnce, Active, Held
  <2>5. NewIsNotDispatched' /\ UnknownOutcomeIsShown'
    BY <2>2 DEF NewIsNotDispatched, UnknownOutcomeIsShown, Recorded, Held
  <2> QED
    BY <2>1, <2>4, <2>5
<1>4. ASSUME NEW v \in StarterServers, FinishStarter(v)
      PROVE  StarterInv'
  <2> DEFINE o == running[v].operation
  <2>1. PICK state \in Finals : Complete(o, state)
    BY <1>4 DEF FinishStarter
  <2>2. o \in StarterOperations /\ Held /\ owner.operation = o
    BY <1>4, <2>1 DEF FinishStarter, Active, Complete
  <2>3. StarterTypeOK'
    <3>1. operations[o] \in OperationRows /\ state \in Finals
      BY <2>1, <2>2
    <3>2. operations' \in [StarterOperations -> OperationRows]
      BY <2>1, <3>1 DEF Complete
    <3>3. owner' \in OwnerRows
      BY <2>1, <3>1 DEF Complete
    <3>4. running' \in [StarterServers -> [operation : StarterOperations \union {NoOperation},
                                           journey : Journeys, abort : BOOLEAN]]
      BY <1>4 DEF FinishStarter
    <3> QED
      BY <1>4, <3>2, <3>3, <3>4 DEF FinishStarter
  <2>4. \A u \in StarterServers : running'[u].operation = NoOperation
    BY <1>4 DEF FinishStarter, StarterRunsOnce, Active
  <2>5. StarterRunsOnce'
    BY <1>4, <2>4 DEF FinishStarter, StarterRunsOnce, Active
  <2>6. NewIsNotDispatched'
    BY <1>4, <2>1, <2>2 DEF FinishStarter, Complete, NewIsNotDispatched, Recorded
  <2>7. UnknownOutcomeIsShown'
    BY <2>1, <2>2 DEF Complete, UnknownOutcomeIsShown, Held
  <2> QED
    BY <2>3, <2>5, <2>6, <2>7
<1>5. CASE ResetStarter
  BY <1>5 DEF ResetStarter, MayReset, StarterRunsOnce, UnknownOutcomeIsShown, NewIsNotDispatched,
              Recorded, Active, Held
<1> QED
  BY <1>1, <1>2, <1>3, <1>4, <1>5 DEF StarterNext

LEMMA StarterInvariant == StarterSpec => []StarterInv
BY StarterInvInit, StarterInvStep, PTL DEF StarterSpec

\* The starter's types, its generations within their bound (browser-starter-store.mjs).
THEOREM StarterTypes == StarterSpec => []StarterTypeOK
BY StarterInvariant, PTL DEF StarterInv

\* begin dispatches every operation at most once and one at a time, over all servers,
\* kills and resets.
THEOREM StarterRunsOperationsOnce == StarterSpec => []StarterRunsOnce
BY StarterInvariant, PTL DEF StarterInv

\* begin and reset never leave an operation behind whose outcome is unknown.
THEOREM UnknownOutcomesAreShown == StarterSpec => []UnknownOutcomeIsShown
BY StarterInvariant, PTL DEF StarterInv

--------------------------------------------------------------------------------
\* Nothing is recorded or started of a new store.
LEMMA StarterIsOneShotInit == StarterInit => StarterPromise!OneShotInit
BY DEF StarterInit, StarterPromise!OneShotInit

\* The outcomes on record and the starts, as OneShot sees them.
StarterOutcome == [o \in StarterOperations |->
                     CASE operations[o].state = "absent" -> "none"
                       [] operations[o].state = "outcome_unknown" -> "unknown"
                       [] OTHER -> "concluded"]
Starts == [o \in StarterOperations |-> [r \in {"start"} |-> dispatched[o]]]

\* What is in the table was started, and what the owner row holds is in the table.
RecordedFits ==
    /\ \A o \in Recorded : dispatched[o] = 1
    /\ Held => /\ owner.operation \in StarterOperations
               /\ operations[owner.operation].state = "outcome_unknown"

LEMMA RecordedFitsStep ==
    ASSUME StarterInv, RecordedFits, [StarterNext]_starterVars
    PROVE  RecordedFits'
<1> USE DEF StarterInv, StarterTypeOK, RecordedFits, Recorded, Held, OwnerRows, OperationRows
<1>1. CASE UNCHANGED <<owner, operations, dispatched>>
  BY <1>1
<1>2. ASSUME NEW v \in StarterServers, NEW o \in StarterOperations, NEW j \in Journeys,
             RunStarter(v, o, j)
      PROVE  RecordedFits'
  BY <1>2 DEF RunStarter, MayBegin, NewIsNotDispatched
<1>3. ASSUME NEW v \in StarterServers, FinishStarter(v)
      PROVE  RecordedFits'
  <2> DEFINE o == running[v].operation
  <2>1. PICK state \in Finals : Complete(o, state)
    BY <1>3 DEF FinishStarter, Finals
  <2>2. o \in StarterOperations /\ operations[o].state = "outcome_unknown" /\ dispatched' = dispatched
    BY <1>3, <2>1 DEF FinishStarter, Complete
  <2>3. /\ \A p \in StarterOperations \ {o} : operations'[p] = operations[p]
        /\ owner'.state = state
    BY <2>1 DEF Complete
  <2> QED
    BY <2>2, <2>3 DEF Finals
<1>4. CASE ResetStarter
  BY <1>4 DEF ResetStarter
<1> QED
  BY <1>1, <1>2, <1>3, <1>4
     DEF StarterNext, starterVars, AbortStarter, PrepareCatalog, LoseStarter

LEMMA StarterIsOneShotStep ==
    ASSUME StarterInv, RecordedFits, [StarterNext]_starterVars
    PROVE  [StarterPromise!OneShotNext]_(StarterPromise!oneShotVars)
<1> USE DEF StarterInv
<1>1. CASE UNCHANGED <<operations, dispatched>>
  BY <1>1 DEF StarterPromise!oneShotVars
<1>2. ASSUME NEW v \in StarterServers, NEW o \in StarterOperations, NEW j \in Journeys,
             RunStarter(v, o, j)
      PROVE  StarterPromise!Dispatch(o, "start")
  <2>1. operations[o].state = "absent" /\ dispatched[o] = 0
    BY <1>2 DEF RunStarter, MayBegin, Recorded, NewIsNotDispatched
  <2>2. dispatched' = [dispatched EXCEPT ![o] = 1]
    <3>1. dispatched' = [dispatched EXCEPT ![o] = dispatched[o] + 1]
      BY <1>2 DEF RunStarter
    <3> QED
      BY <2>1, <3>1
  <2>3. /\ operations' = [operations EXCEPT ![o] = [state |-> "outcome_unknown",
                                                   generation |-> owner.generation]]
        /\ operations \in [StarterOperations -> OperationRows]
        /\ dispatched \in [StarterOperations -> Nat]
    BY <1>2 DEF RunStarter, StarterTypeOK
  <2>4. /\ operations'[o].state = "outcome_unknown"
        /\ \A p \in StarterOperations \ {o} : operations'[p] = operations[p]
    BY <2>3
  <2>5. StarterOutcome[o] = "none" /\ StarterOutcome' = [StarterOutcome EXCEPT ![o] = "unknown"]
    BY <2>1, <2>4 DEF StarterOutcome
  <2>6. /\ Starts[o]["start"] = 0
        /\ Starts' = [Starts EXCEPT ![o] = [Starts[o] EXCEPT !["start"] = 1]]
    BY <2>1, <2>2, <2>3 DEF Starts
  <2> QED
    BY <2>5, <2>6 DEF StarterPromise!Dispatch, StarterPromise!Unsent, StarterOutcome, Starts
<1>3. ASSUME NEW v \in StarterServers, FinishStarter(v),
             NEW o \in StarterOperations, o = running[v].operation
      PROVE  StarterPromise!Conclude(o)
  <2>1. PICK state \in Finals : Complete(o, state)
    BY <1>3 DEF FinishStarter, Finals
  <2>2. /\ operations[o].state = "outcome_unknown" /\ dispatched[o] = 1 /\ dispatched' = dispatched
    BY <1>3, <2>1 DEF FinishStarter, Complete, RecordedFits, Recorded
  <2>3. /\ \A p \in StarterOperations \ {o} : operations'[p] = operations[p]
        /\ operations'[o].state = state
    BY <2>1, <2>2 DEF Complete, StarterTypeOK, OperationRows
  <2>4. /\ StarterOutcome[o] = "unknown"
        /\ StarterOutcome' = [StarterOutcome EXCEPT ![o] = "concluded"]
    BY <2>2, <2>3 DEF StarterOutcome, Finals
  <2>5. Starts[o]["start"] = 1 /\ Starts' = Starts
    BY <2>2 DEF Starts
  <2> QED
    BY <2>2, <2>4, <2>5 DEF StarterPromise!Conclude, StarterPromise!Unsent, StarterOutcome, Starts
<1>4. ASSUME NEW o \in StarterOperations, StarterPromise!Conclude(o)
      PROVE  StarterPromise!OneShotNext
  BY <1>4 DEF StarterPromise!OneShotNext
<1>5. ASSUME NEW v \in StarterServers, NEW o \in StarterOperations, NEW j \in Journeys,
             RunStarter(v, o, j)
      PROVE  StarterPromise!OneShotNext
  BY <1>2, <1>5 DEF StarterPromise!OneShotNext, StarterPromise!Dispatch
<1>6. ASSUME NEW v \in StarterServers, FinishStarter(v)
      PROVE  StarterPromise!OneShotNext
  <2>1. running[v].operation \in StarterOperations
    BY <1>6 DEF FinishStarter, Complete, RecordedFits, Held
  <2>2. PICK o \in StarterOperations : o = running[v].operation
    BY <2>1
  <2> QED
    BY <1>3, <1>4, <1>6, <2>2
<1>7. ASSUME NEW v \in StarterServers, AbortStarter(v) \/ PrepareCatalog(v) \/ LoseStarter(v)
      PROVE  UNCHANGED <<operations, dispatched>>
  BY <1>7 DEF AbortStarter, PrepareCatalog, LoseStarter
<1>8. CASE ResetStarter
  BY <1>1, <1>8 DEF ResetStarter
<1>9. CASE StarterNext
  BY <1>1, <1>5, <1>6, <1>7, <1>8, <1>9 DEF StarterNext
<1>10. CASE UNCHANGED starterVars
  BY <1>1, <1>10 DEF starterVars
<1> QED
  BY <1>9, <1>10

\* begin and complete implement OneShot: recorded as it is started, started once, completed
\* once, over servers, retries, kills and resets.
THEOREM StarterImplementsOneShot == StarterSpec => StarterIsOneShot
<1>1. StarterInit => RecordedFits
  BY DEF StarterInit, RecordedFits, Recorded, Held
<1>2. StarterInv /\ RecordedFits /\ [StarterNext]_starterVars
        => RecordedFits' /\ [StarterPromise!OneShotNext]_(StarterPromise!oneShotVars)
  BY RecordedFitsStep, StarterIsOneShotStep
<1> QED
  BY <1>1, <1>2, StarterIsOneShotInit, StarterInvariant, PTL
     DEF StarterSpec, StarterIsOneShot, StarterPromise!OneShotSpec

--------------------------------------------------------------------------------
\* Where a handle is when it removes, and when it writes.
InRemoval == Trees \union {"removing receipts", "removing projection"}
InWrite == {"pending", "rename"}

\* Who removes found a tombstone; who writes "removed" has removed everything.
WorkersFit ==
    \A h \in Handles :
        /\ handle[h] \in Work => writes[h] # "RESTORED_LOCAL"
        /\ handle[h] \in InRemoval =>
              writes[h] = "SCOPED_DATA_REMOVED" /\ portableMarker # "RESTORED_LOCAL"
        /\ handle[h] \in {"projection", "removing projection"} => "receipts" \notin remains
        /\ handle[h] \in InWrite /\ writes[h] = "SCOPED_DATA_REMOVED" => remains = {}

\* A tree is no longer whole before it is gone.
TreesFit ==
    /\ trees \subseteq remains
    /\ \A h \in Handles :
        /\ handle[h] = "removing receipts" => "receipts" \notin trees
        /\ handle[h] = "removing projection" => "projection" \notin trees

\* Where nothing was killed and nobody met, one handle is at work and leaves nothing.
UndisturbedFits ==
    ~disturbed =>
        /\ \A h, g \in Handles : handle[h] \in Work /\ handle[g] \in Work => h = g
        /\ \A h \in leftovers : handle[h] = "rename"
        /\ \A h \in Handles :
              /\ handle[h] = "receipts" => trees = Trees
              /\ handle[h] \in {"removing receipts", "projection"} => "projection" \in trees
              /\ handle[h] \in InWrite /\ writes[h] = "TOMBSTONED" => trees = Trees
        /\ (\A h \in Handles : handle[h] \notin Work) =>
              trees = Trees \/ portableMarker = "SCOPED_DATA_REMOVED"

MarkerFits ==
    /\ trees # Trees => portableMarker # "RESTORED_LOCAL"
    /\ portableMarker = "SCOPED_DATA_REMOVED" => remains = {}

PortableInv == PortableTypeOK /\ WorkersFit /\ TreesFit /\ UndisturbedFits /\ MarkerFits

--------------------------------------------------------------------------------
LEMMA RemovingNames ==
    /\ Removing["receipts"] = "removing receipts"
    /\ Removing["projection"] = "removing projection"
    /\ Work = {"receipts", "projection", "removing receipts", "removing projection",
               "pending", "rename"}
<1>1. /\ Removing["receipts"] = "removing receipts"
      /\ Removing["projection"] = "removing projection"
  BY DEF Removing
<1>2. {Removing[t] : t \in Trees} = {"removing receipts", "removing projection"}
  BY <1>1 DEF Trees
<1> QED
  BY <1>1, <1>2 DEF Work, Trees

LEMMA PortableInvInit == PortableInit => PortableInv
BY RemovingNames
   DEF PortableInit, PortableInv, PortableTypeOK, WorkersFit, TreesFit, UndisturbedFits,
       MarkerFits, Trees, LifecycleStates, InRemoval, InWrite

LEMMA PortableInvStep ==
    ASSUME PortableInv, [PortableNext]_portableVars
    PROVE  PortableInv'
<1> USE RemovingNames DEF PortableInv, PortableTypeOK, Trees, LifecycleStates, InRemoval, InWrite,
                          HandleTo
<1>1. CASE UNCHANGED portableVars
  BY <1>1 DEF portableVars, WorkersFit, TreesFit, UndisturbedFits, MarkerFits
<1>2. ASSUME NEW h \in Handles, Tombstone(h)
      PROVE  PortableInv'
  <2>1. PortableTypeOK' /\ MarkerFits'
    BY <1>2 DEF Tombstone, Start, Qualified, MarkerFits, WorkersFit
  <2>2. WorkersFit'
    BY <1>2 DEF Tombstone, Start, Qualified, WorkersFit
  <2>3. TreesFit'
    BY <1>2 DEF Tombstone, Start, Qualified, TreesFit
  <2>4. UndisturbedFits'
    BY <1>2 DEF Tombstone, Start, Qualified, UndisturbedFits, TreesFit, WorkersFit
  <2> QED
    BY <2>1, <2>2, <2>3, <2>4
<1>3. ASSUME NEW h \in Handles, Cleanup(h)
      PROVE  PortableInv'
  <2>1. PortableTypeOK' /\ MarkerFits'
    BY <1>3 DEF Cleanup, Start, Qualified, MarkerFits, WorkersFit
  <2>2. WorkersFit'
    BY <1>3 DEF Cleanup, Start, Qualified, WorkersFit
  <2>3. TreesFit'
    BY <1>3 DEF Cleanup, Start, Qualified, TreesFit
  <2>4. UndisturbedFits'
    BY <1>3 DEF Cleanup, Start, Qualified, UndisturbedFits, TreesFit, WorkersFit
  <2> QED
    BY <2>1, <2>2, <2>3, <2>4
<1>4. ASSUME NEW h \in Handles, BeginRemoval(h)
      PROVE  PortableInv'
  <2>1. PortableTypeOK' /\ MarkerFits'
    BY <1>4 DEF BeginRemoval, MarkerFits, WorkersFit
  <2>2. WorkersFit'
    BY <1>4 DEF BeginRemoval, WorkersFit
  <2>3. TreesFit'
    BY <1>4 DEF BeginRemoval, TreesFit
  <2>4. UndisturbedFits'
    <3>1. handle[h] \in Work /\ disturbed' = disturbed
      BY <1>4 DEF BeginRemoval
    <3>2. ~disturbed => \A g \in Handles \ {h} : handle[g] \notin Work /\ handle'[g] = handle[g]
      BY <1>4, <3>1 DEF BeginRemoval, UndisturbedFits
    <3>3. ~disturbed => handle[h] \in remains
      BY <1>4 DEF BeginRemoval, UndisturbedFits, TreesFit
    <3>4. ~disturbed => handle'[h] \in {"removing receipts", "removing projection"}
      BY <1>4, <3>3 DEF BeginRemoval
    <3>5. leftovers' = leftovers /\ (~disturbed => h \notin leftovers)
      BY <1>4 DEF BeginRemoval, UndisturbedFits
    <3>6. ~disturbed /\ handle'[h] = "removing receipts" => "projection" \in trees'
      BY <1>4, <3>3 DEF BeginRemoval, UndisturbedFits
    <3>7. ~disturbed => handle'[h] \in Work /\ \A g \in Handles : handle'[g] \in Work => g = h
      BY <3>2, <3>4
    <3>8. ~disturbed => \A g \in leftovers : handle'[g] = "rename"
      BY <3>2, <3>5 DEF UndisturbedFits
    <3>9. ~disturbed => \A g \in Handles :
            /\ handle'[g] = "receipts" => trees' = Trees
            /\ handle'[g] \in {"removing receipts", "projection"} => "projection" \in trees'
            /\ handle'[g] \in InWrite /\ writes'[g] = "TOMBSTONED" => trees' = Trees
      BY <3>4, <3>6, <3>7
    <3> QED
      BY <3>1, <3>5, <3>7, <3>8, <3>9 DEF UndisturbedFits
  <2> QED
    BY <2>1, <2>2, <2>3, <2>4
<1>5. ASSUME NEW h \in Handles, NEW t \in Trees, EndRemoval(h, t)
      PROVE  PortableInv'
  <2>1. PortableTypeOK' /\ MarkerFits'
    BY <1>5 DEF EndRemoval, MarkerFits, WorkersFit, TreesFit
  <2>2. WorkersFit'
    BY <1>5 DEF EndRemoval, WorkersFit
  <2>3. TreesFit'
    BY <1>5 DEF EndRemoval, TreesFit
  <2>4. UndisturbedFits'
    <3>1. handle[h] \in Work /\ disturbed' = disturbed
      BY <1>5 DEF EndRemoval
    <3>2. ~disturbed => \A g \in Handles \ {h} : handle[g] \notin Work /\ handle'[g] = handle[g]
      BY <1>5, <3>1 DEF EndRemoval, UndisturbedFits
    <3>3. UNCHANGED <<portableMarker, trees, leftovers, writes>>
      BY <1>5 DEF EndRemoval
    <3>4. handle'[h] \in {"projection", "pending"} /\ writes[h] = "SCOPED_DATA_REMOVED"
      BY <1>5 DEF EndRemoval, WorkersFit
    <3>5. h \notin leftovers \/ disturbed
      BY <1>5 DEF EndRemoval, UndisturbedFits
    <3>6. ~disturbed /\ handle'[h] = "projection" => "projection" \in trees'
      BY <1>5, <3>3 DEF EndRemoval, UndisturbedFits
    <3> QED
      BY <3>1, <3>2, <3>3, <3>4, <3>5, <3>6 DEF UndisturbedFits
  <2> QED
    BY <2>1, <2>2, <2>3, <2>4
<1>6. ASSUME NEW h \in Handles, WritePendingMarker(h)
      PROVE  PortableInv'
  <2>1. PortableTypeOK' /\ MarkerFits'
    BY <1>6 DEF WritePendingMarker, MarkerFits, WorkersFit
  <2>2. WorkersFit'
    BY <1>6 DEF WritePendingMarker, WorkersFit
  <2>3. TreesFit'
    BY <1>6 DEF WritePendingMarker, TreesFit
  <2>4. UndisturbedFits'
    <3>1. handle[h] \in Work /\ disturbed' = disturbed
      BY <1>6 DEF WritePendingMarker
    <3>2. ~disturbed => \A g \in Handles \ {h} : handle[g] \notin Work /\ handle'[g] = handle[g]
      BY <1>6, <3>1 DEF WritePendingMarker, UndisturbedFits
    <3>3. /\ handle[h] = "pending" /\ handle'[h] = "rename" /\ leftovers' = leftovers \union {h}
          /\ UNCHANGED <<portableMarker, trees, writes>>
      BY <1>6 DEF WritePendingMarker
    <3> QED
      BY <3>1, <3>2, <3>3 DEF UndisturbedFits
  <2> QED
    BY <2>1, <2>2, <2>3, <2>4
<1>7. ASSUME NEW h \in Handles, RenameMarker(h)
      PROVE  PortableInv'
  <2>1. PortableTypeOK' /\ MarkerFits'
    BY <1>7 DEF RenameMarker, MarkerFits, WorkersFit
  <2>2. WorkersFit'
    BY <1>7 DEF RenameMarker, WorkersFit
  <2>3. TreesFit'
    BY <1>7 DEF RenameMarker, TreesFit
  <2>4. UndisturbedFits'
    BY <1>7 DEF RenameMarker, UndisturbedFits, TreesFit, WorkersFit
  <2> QED
    BY <2>1, <2>2, <2>3, <2>4
<1>8. ASSUME NEW h \in Handles, CloseHandle(h)
      PROVE  PortableInv'
  <2>1. PortableTypeOK' /\ MarkerFits'
    BY <1>8 DEF CloseHandle, MarkerFits, WorkersFit
  <2>2. WorkersFit'
    BY <1>8 DEF CloseHandle, WorkersFit
  <2>3. TreesFit'
    BY <1>8 DEF CloseHandle, TreesFit
  <2>4. UndisturbedFits'
    <3>1. CASE handle[h] \in Work
      BY <1>8, <3>1 DEF CloseHandle, UndisturbedFits
    <3>2. CASE handle[h] \notin Work
      <4>1. disturbed' = disturbed /\ UNCHANGED <<portableMarker, trees, leftovers, writes>>
        BY <1>8, <3>2 DEF CloseHandle
      <4>2. /\ handle'[h] = "closed" /\ \A g \in Handles \ {h} : handle'[g] = handle[g]
            /\ handle'[h] \notin Work
        BY <1>8 DEF CloseHandle
      <4>3. handle[h] # "rename"
        BY <3>2
      <4> QED
        BY <3>2, <4>1, <4>2, <4>3 DEF UndisturbedFits
    <3> QED
      BY <3>1, <3>2
  <2> QED
    BY <2>1, <2>2, <2>3, <2>4
<1>9. ASSUME NEW h \in Handles, WorkFails(h)
      PROVE  PortableInv'
  <2>1. PortableTypeOK' /\ MarkerFits'
    BY <1>9 DEF WorkFails, MarkerFits, WorkersFit
  <2>2. WorkersFit'
    BY <1>9 DEF WorkFails, WorkersFit
  <2>3. TreesFit'
    BY <1>9 DEF WorkFails, TreesFit
  <2>4. UndisturbedFits'
    BY <1>9 DEF WorkFails, UndisturbedFits
  <2> QED
    BY <2>1, <2>2, <2>3, <2>4
<1> QED
  BY <1>1, <1>2, <1>3, <1>4, <1>5, <1>6, <1>7, <1>8, <1>9 DEF PortableNext

LEMMA PortableInvariant == PortableSpec => []PortableInv
BY PortableInvInit, PortableInvStep, PTL DEF PortableSpec

--------------------------------------------------------------------------------
\* The marker, the trees and the handles keep their types.
THEOREM PortableTypes == PortableSpec => []PortableTypeOK
BY PortableInvariant, PTL DEF PortableInv

\* tombstone and cleanup keep the marker true to the trees, for any number of handles.
THEOREM PortableMarkerIsTrue == PortableSpec => []PortableMarkerTellsTheTruth
<1>1. PortableInv => PortableMarkerTellsTheTruth
  <2> SUFFICES ASSUME PortableInv PROVE PortableMarkerTellsTheTruth
    OBVIOUS
  <2>1. ~disturbed /\ (\A h \in Handles : handle[h] \notin Work)
          => Qualified \/ portableMarker = "SCOPED_DATA_REMOVED"
    BY RemovingNames DEF PortableInv, UndisturbedFits, PortableTypeOK, Qualified
  <2> QED
    BY <2>1 DEF PortableInv, MarkerFits, PortableMarkerTellsTheTruth
<1> QED
  BY <1>1, PortableInvariant, PTL

--------------------------------------------------------------------------------
\* A step of MCServices is a step of one service and leaves the others alone.
LEMMA ServicesStep ==
    ASSUME [Next]_vars
    PROVE  /\ [LifecycleNext]_lifecycleVars /\ [BrokerNext]_brokerVars
           /\ [ProgressiveNext]_progressiveVars /\ [PublicationNext]_publicationVars
           /\ [InstallNext]_installVars /\ [StarterNext]_starterVars
           /\ [PortableNext]_portableVars
BY DEF Next, vars

\* Every behaviour of MCServices is one of each service: the stores, sockets and files of
\* the lifecycle store, the broker, the analyses, the projections, the installation, the
\* starter and the portable runtime are disjoint in the code.
THEOREM ServicesAreTheirComponents ==
    Spec => /\ LifecycleSpec /\ BrokerSpec /\ ProgressiveSpec /\ PublicationSpec
            /\ InstallSpec /\ StarterSpec /\ PortableSpec
<1>1. Init => /\ LifecycleInit /\ BrokerInit /\ ProgressiveInit /\ PublicationInit
              /\ InstallInit /\ StarterInit /\ PortableInit
  BY DEF Init
<1> QED
  BY <1>1, ServicesStep, PTL
     DEF Spec, LifecycleSpec, BrokerSpec, ProgressiveSpec, PublicationSpec, InstallSpec,
         StarterSpec, PortableSpec

\* Every variable of every service keeps its type in the module that is model-checked.
THEOREM ServicesTypeCorrect == Spec => []ServicesTypeOK
BY ServicesAreTheirComponents, LifecycleTypes, BrokerTypes, ProgressiveTypes, PublicationTypes,
   InstallTypes, StarterTypes, PortableTypes, PTL DEF ServicesTypeOK

\* What the owner marker, begin, reserve, markUnknownUsage, recover, the replacement of the
\* live database and the tombstone promise holds in every behaviour of the module that is
\* model-checked.
THEOREM ServicesKeepTheirPromises ==
    Spec => /\ [](OwnersExclude /\ ReceiptsMatchTheStore /\ DispatchedAtMostOnce /\ BudgetCoversUse
                  /\ EligibilityAgrees /\ StateStaysValid /\ MirrorsFollowThePointer
                  /\ StarterRunsOnce /\ UnknownOutcomeIsShown /\ PortableMarkerTellsTheTruth)
            /\ StoreWritesAreSerial /\ AnswersAreAccountedFor /\ LiveKeepsItsState
            /\ BrokerIsOneShot /\ StarterIsOneShot
BY ServicesAreTheirComponents, LifecycleOwnersExclude, LifecycleReceiptsMatch,
   LifecycleWritesAreSerial, BrokerDispatchesOnce, BudgetAlwaysCovers,
   BrokerAccountsForItsAnswers, ProgressiveEligibilityAgrees, ProgressiveStateStaysValid,
   PublicationMirrorsFollow, InstallKeepsLive, StarterRunsOperationsOnce,
   UnknownOutcomesAreShown, PortableMarkerIsTrue, BrokerImplementsOneShot,
   StarterImplementsOneShot, PTL
================================================================================
