-------------------------- MODULE NativeBrokerProofs --------------------------
(***************************************************************************)
(* Proofs about NativeBroker for any number of runtimes, operations and    *)
(* requests, and any units and limits.                                     *)
(***************************************************************************)
EXTENDS NativeBroker, FiniteSetTheorems, WellFoundedInduction, TLAPS

\* The row of an operation: the provider received nothing but its request, once, and
\* only after the reservation was marked.
RowFits(o) ==
    /\ rows[o].state = "ABSENT" <=> rows[o].digest = NoDigest
    /\ \A d \in Digests : sent[o][d] > 0 => d = rows[o].digest /\ sent[o][d] = 1
    /\ rows[o].state \in {"ABSENT", "RESERVED"} => \A d \in Digests : sent[o][d] = 0
    /\ rows[o].state = "SETTLED" => sent[o][rows[o].digest] = 1 /\ rows[o].consumed = used[o]

\* A call in flight: past the reservation the row is of its request; past the mark it is
\* the one that marked it, and sends it once.
CallFits(b, o) ==
    LET call == calls[b][o] IN
    /\ call.at \in Phases => call.digest \in Digests
    /\ call.at \in {"mark", "invoke", "sent"} => rows[o].digest = call.digest
    /\ call.at \in {"invoke", "sent"} => rows[o].state = "UNKNOWN_USAGE"
    /\ call.at = "invoke" => \A d \in Digests : sent[o][d] = 0
    /\ call.at = "sent" => sent[o][call.digest] = 1

OneSends == \A o \in Operations : \A b, c \in Runtimes :
    calls[b][o].at \in {"invoke", "sent"} /\ calls[c][o].at \in {"invoke", "sent"} => b = c

BrokerInv ==
    /\ BrokerTypeOK /\ OneSends
    /\ \A o \in Operations : RowFits(o)
    /\ \A b \in Runtimes, o \in Operations : CallFits(b, o)

--------------------------------------------------------------------------------
LEMMA BrokerInvInit == BrokerInit => BrokerInv
BY NoDigestAssumption
   DEF BrokerInit, BrokerInv, BrokerTypeOK, OneSends, RowFits, CallFits, Rows, RowStates, Calls,
       Phases, Answers

\* The call of b for o goes on; no other call moves.
LEMMA GoOnFacts ==
    ASSUME BrokerTypeOK, NEW b \in Runtimes, NEW o \in Operations,
           NEW at \in Phases \union Answers, GoOn(b, o, at)
    PROVE  /\ calls' \in [Runtimes -> [Operations -> Calls]]
           /\ calls'[b][o].at = at /\ calls'[b][o].digest = calls[b][o].digest
           /\ \A c \in Runtimes, p \in Operations :
                 c # b \/ p # o => calls'[c][p] = calls[c][p]
<1>1. calls[b] \in [Operations -> Calls] /\ calls[b][o] \in Calls
  BY DEF BrokerTypeOK
<1>2. calls' = [calls EXCEPT ![b] = [calls[b] EXCEPT ![o] = [calls[b][o] EXCEPT !.at = at]]]
  BY DEF GoOn
<1>3. [calls[b][o] EXCEPT !.at = at] = [at |-> at, digest |-> calls[b][o].digest]
  BY <1>1 DEF Calls
<1>4. [at |-> at, digest |-> calls[b][o].digest] \in Calls
  BY <1>1 DEF Calls
<1> QED
  BY <1>1, <1>2, <1>3, <1>4 DEF BrokerTypeOK

\* A step that moves one call, and changes at most the row and the ledger of its
\* operation, has to be looked at for that call and that operation alone, if another
\* call for it cannot tell.
LEMMA BrokerInvLocal ==
    ASSUME BrokerInv, BrokerTypeOK', NEW b \in Runtimes, NEW o \in Operations,
           \A c \in Runtimes, p \in Operations : c # b \/ p # o => calls'[c][p] = calls[c][p],
           \A p \in Operations \ {o} :
               rows'[p] = rows[p] /\ sent'[p] = sent[p] /\ used'[p] = used[p],
           RowFits(o)', CallFits(b, o)',
           \A c \in Runtimes \ {b} : CallFits(c, o)',
           calls'[b][o].at \in {"invoke", "sent"} =>
               \A c \in Runtimes \ {b} : calls[c][o].at \notin {"invoke", "sent"}
    PROVE  BrokerInv'
<1>1. \A p \in Operations : RowFits(p)'
  BY DEF BrokerInv, RowFits
<1>2. \A c \in Runtimes, p \in Operations : CallFits(c, p)'
  BY DEF BrokerInv, CallFits
<1>3. OneSends'
  BY DEF BrokerInv, OneSends
<1> QED
  BY <1>1, <1>2, <1>3 DEF BrokerInv

LEMMA InvokeStep ==
    ASSUME BrokerInv, NEW b \in Runtimes, NEW o \in Operations, NEW d \in Digests,
           Invoke(b, o, d)
    PROVE  BrokerInv'
<1>1. [at |-> "reserve", digest |-> d] \in Calls
  BY DEF Calls, Phases
<1>2. calls' = [calls EXCEPT ![b] = [calls[b] EXCEPT ![o] = [at |-> "reserve", digest |-> d]]]
  BY DEF Invoke
<1>3. /\ calls' \in [Runtimes -> [Operations -> Calls]]
      /\ calls'[b][o] = [at |-> "reserve", digest |-> d]
      /\ \A c \in Runtimes, p \in Operations : c # b \/ p # o => calls'[c][p] = calls[c][p]
  BY <1>1, <1>2 DEF BrokerInv, BrokerTypeOK
<1>4. UNCHANGED <<rows, sent, used>>
  BY DEF Invoke
<1>5. RowFits(o)' /\ CallFits(b, o)' /\ \A c \in Runtimes \ {b} : CallFits(c, o)'
  BY <1>3, <1>4 DEF BrokerInv, RowFits, CallFits, Phases
<1>6. BrokerTypeOK'
  BY <1>3, <1>4 DEF BrokerInv, BrokerTypeOK
<1> QED
  BY <1>3, <1>4, <1>5, <1>6, BrokerInvLocal

LEMMA ReserveStep ==
    ASSUME BrokerInv, NEW b \in Runtimes, NEW o \in Operations, Reserve(b, o)
    PROVE  BrokerInv'
<1> DEFINE d == calls[b][o].digest
<1>1. calls[b][o].at = "reserve" /\ d \in Digests /\ UNCHANGED <<sent, used>> /\ d # NoDigest
  BY NoDigestAssumption DEF Reserve, At, BrokerInv, CallFits, Phases
<1>2. PICK at \in Phases \union Answers : GoOn(b, o, at) /\ at \notin {"reserve", "invoke", "sent"}
                                   /\ (at = "mark" => rows'[o].digest = d)
  BY <1>1 DEF Reserve, Phases, Answers, SameRequest, BrokerInv, BrokerTypeOK, Rows
<1>3. /\ calls' \in [Runtimes -> [Operations -> Calls]]
      /\ calls'[b][o].at = at /\ calls'[b][o].digest = d
      /\ \A c \in Runtimes, p \in Operations : c # b \/ p # o => calls'[c][p] = calls[c][p]
  BY <1>2, GoOnFacts DEF BrokerInv
<1>4. CASE rows' = rows
  <2>1. BrokerTypeOK'
    BY <1>1, <1>3, <1>4 DEF BrokerInv, BrokerTypeOK
  <2>2. RowFits(o)' /\ CallFits(b, o)' /\ \A c \in Runtimes \ {b} : CallFits(c, o)'
    BY <1>1, <1>2, <1>3, <1>4 DEF BrokerInv, RowFits, CallFits, Phases
  <2> QED
    BY <1>1, <1>2, <1>3, <1>4, <2>1, <2>2, BrokerInvLocal
<1>5. CASE /\ rows[o].state = "ABSENT"
           /\ rows' = [rows EXCEPT ![o] = [state |-> "RESERVED", digest |-> d,
                                           consumed |-> 0]]
  <2>2. /\ rows' \in [Operations -> Rows]
        /\ rows'[o].state = "RESERVED" /\ rows'[o].digest = d
        /\ \A p \in Operations \ {o} : rows'[p] = rows[p]
    <3>1. [state |-> "RESERVED", digest |-> d, consumed |-> 0] \in Rows
      BY <1>1 DEF Rows, RowStates
    <3> QED
      BY <1>5, <3>1 DEF BrokerInv, BrokerTypeOK
  <2>3. BrokerTypeOK'
    BY <1>1, <1>3, <2>2 DEF BrokerInv, BrokerTypeOK
  <2>4. RowFits(o)'
    BY <1>1, <1>5, <2>2 DEF BrokerInv, RowFits, BrokerTypeOK
  <2>5. \A c \in Runtimes : calls[c][o].at \notin {"mark", "invoke", "sent"}
    \* their row would have a request
    BY <1>5, NoDigestAssumption DEF BrokerInv, CallFits, RowFits, Phases
  <2>6. CallFits(b, o)' /\ \A c \in Runtimes \ {b} : CallFits(c, o)'
    BY <1>1, <1>2, <1>3, <2>2, <2>5 DEF BrokerInv, CallFits, Phases
  <2> QED
    BY <1>1, <1>2, <1>3, <2>2, <2>3, <2>4, <2>6, BrokerInvLocal
<1> QED
  BY <1>4, <1>5 DEF Reserve

LEMMA MarkStep ==
    ASSUME BrokerInv, NEW b \in Runtimes, NEW o \in Operations, Mark(b, o)
    PROVE  BrokerInv'
<1> DEFINE d == calls[b][o].digest
<1>1. /\ calls[b][o].at = "mark" /\ d \in Digests /\ rows[o].digest = d
      /\ UNCHANGED <<sent, used>>
  BY DEF Mark, At, BrokerInv, CallFits, Phases
<1>2. CASE DispatchGranted(o)
  <2>1. rows[o] \in Rows /\ rows[o].state = "RESERVED"
    BY <1>2 DEF BrokerInv, BrokerTypeOK, DispatchGranted
  <2>2. rows' = [rows EXCEPT ![o].state = "UNKNOWN_USAGE"] /\ GoOn(b, o, "invoke")
    BY <1>2 DEF Mark
  <2>3. /\ rows' \in [Operations -> Rows]
        /\ rows'[o].state = "UNKNOWN_USAGE" /\ rows'[o].digest = d
        /\ \A p \in Operations \ {o} : rows'[p] = rows[p]
    BY <1>1, <2>1, <2>2 DEF BrokerInv, BrokerTypeOK, Rows, RowStates
  <2>4. /\ calls' \in [Runtimes -> [Operations -> Calls]]
        /\ calls'[b][o].at = "invoke" /\ calls'[b][o].digest = d
        /\ \A c \in Runtimes, p \in Operations : c # b \/ p # o => calls'[c][p] = calls[c][p]
    BY <2>2, GoOnFacts DEF BrokerInv, Phases
  <2>5. BrokerTypeOK'
    BY <1>1, <2>3, <2>4 DEF BrokerInv, BrokerTypeOK
  <2>6. \A c \in Runtimes : calls[c][o].at \notin {"invoke", "sent"}
    \* their row would be marked
    BY <2>1 DEF BrokerInv, CallFits
  <2>7. RowFits(o)'
    BY <1>1, <2>1, <2>3 DEF BrokerInv, RowFits
  <2>8. CallFits(b, o)' /\ \A c \in Runtimes \ {b} : CallFits(c, o)'
    BY <1>1, <2>1, <2>3, <2>4, <2>6 DEF BrokerInv, CallFits, RowFits, Phases
  <2> QED
    BY <1>1, <2>3, <2>4, <2>5, <2>6, <2>7, <2>8, BrokerInvLocal
<1>3. CASE ~DispatchGranted(o)
  <2>1. PICK at \in Answers : GoOn(b, o, at)
    BY <1>3 DEF Mark, Answers
  <2>2. rows' = rows
    BY <1>3 DEF Mark
  <2>3. /\ calls' \in [Runtimes -> [Operations -> Calls]]
        /\ calls'[b][o].at = at
        /\ \A c \in Runtimes, p \in Operations : c # b \/ p # o => calls'[c][p] = calls[c][p]
    BY <2>1, GoOnFacts DEF BrokerInv
  <2>4. BrokerTypeOK'
    BY <1>1, <2>2, <2>3 DEF BrokerInv, BrokerTypeOK
  <2>5. RowFits(o)' /\ CallFits(b, o)' /\ \A c \in Runtimes \ {b} : CallFits(c, o)'
    BY <1>1, <2>2, <2>3 DEF BrokerInv, RowFits, CallFits, Phases, Answers
  <2> QED
    BY <1>1, <2>2, <2>3, <2>4, <2>5, BrokerInvLocal DEF Answers
<1> QED
  BY <1>2, <1>3

LEMMA SendStep ==
    ASSUME BrokerInv, NEW b \in Runtimes, NEW o \in Operations, NEW u \in Nat, Send(b, o, u)
    PROVE  BrokerInv'
<1> DEFINE d == calls[b][o].digest
<1>1. /\ calls[b][o].at = "invoke" /\ d \in Digests /\ rows[o].digest = d /\ rows' = rows
      /\ rows[o].state = "UNKNOWN_USAGE" /\ \A e \in Digests : sent[o][e] = 0
  BY DEF Send, At, BrokerInv, CallFits, Phases
<1>2. /\ calls' \in [Runtimes -> [Operations -> Calls]]
      /\ calls'[b][o].at = "sent" /\ calls'[b][o].digest = d
      /\ \A c \in Runtimes, p \in Operations : c # b \/ p # o => calls'[c][p] = calls[c][p]
  BY GoOnFacts DEF Send, BrokerInv, Phases
<1>3. /\ sent' \in [Operations -> [Digests -> Nat]] /\ sent'[o][d] = 1
      /\ \A e \in Digests \ {d} : sent'[o][e] = 0
      /\ \A p \in Operations \ {o} : sent'[p] = sent[p]
  <2>1. sent' = [sent EXCEPT ![o] = [sent[o] EXCEPT ![d] = sent[o][d] + 1]]
    BY DEF Send
  <2>2. sent \in [Operations -> [Digests -> Nat]]
    BY DEF BrokerInv, BrokerTypeOK
  <2> QED
    BY <1>1, <2>1, <2>2
<1>4. used' \in [Operations -> Nat] /\ \A p \in Operations \ {o} : used'[p] = used[p]
  BY DEF Send, BrokerInv, BrokerTypeOK
<1>5. BrokerTypeOK'
  BY <1>1, <1>2, <1>3, <1>4 DEF BrokerInv, BrokerTypeOK
<1>6. RowFits(o)'
  BY <1>1, <1>3 DEF BrokerInv, RowFits
<1>7. \A c \in Runtimes \ {b} : calls[c][o].at \notin {"invoke", "sent"}
  BY <1>1 DEF BrokerInv, OneSends
<1>8. CallFits(b, o)' /\ \A c \in Runtimes \ {b} : CallFits(c, o)'
  BY <1>1, <1>2, <1>3, <1>7 DEF BrokerInv, CallFits, Phases
<1> QED
  BY <1>1, <1>2, <1>3, <1>4, <1>5, <1>6, <1>7, <1>8, BrokerInvLocal

LEMMA HeldStep ==
    ASSUME BrokerInv, NEW b \in Runtimes, NEW o \in Operations, HeldWithoutAnswer(b, o)
    PROVE  BrokerInv'
<1>1. /\ calls' \in [Runtimes -> [Operations -> Calls]]
      /\ calls'[b][o].at = "UNKNOWN_USAGE_HELD"
      /\ \A c \in Runtimes, p \in Operations : c # b \/ p # o => calls'[c][p] = calls[c][p]
  BY GoOnFacts DEF HeldWithoutAnswer, BrokerInv, Answers
<1>2. UNCHANGED <<rows, sent, used>>
  BY DEF HeldWithoutAnswer
<1>3. BrokerTypeOK'
  BY <1>1, <1>2 DEF BrokerInv, BrokerTypeOK
<1>4. RowFits(o)' /\ CallFits(b, o)' /\ \A c \in Runtimes \ {b} : CallFits(c, o)'
  BY <1>1, <1>2 DEF BrokerInv, RowFits, CallFits, Phases
<1> QED
  BY <1>1, <1>2, <1>3, <1>4, BrokerInvLocal

\* A call that failed, and its answer from the row as it is by then.
LEMMA FailedStep ==
    ASSUME BrokerInv, NEW b \in Runtimes, NEW o \in Operations, StoreFails(b, o) \/ ReadBack(b, o)
    PROVE  BrokerInv'
<1>1. PICK at \in Answers \union {"failed"} : GoOn(b, o, at)
  BY DEF StoreFails, ReadBack, Failure, Answers
<1>2. /\ calls' \in [Runtimes -> [Operations -> Calls]]
      /\ calls'[b][o].at = at /\ calls'[b][o].digest = calls[b][o].digest
      /\ \A c \in Runtimes, p \in Operations : c # b \/ p # o => calls'[c][p] = calls[c][p]
  BY <1>1, GoOnFacts DEF BrokerInv, Phases
<1>3. UNCHANGED <<rows, sent, used>> /\ calls[b][o].at \in Phases
  BY DEF StoreFails, ReadBack, At, Phases
<1>4. BrokerTypeOK'
  BY <1>2, <1>3 DEF BrokerInv, BrokerTypeOK
<1>5. RowFits(o)' /\ CallFits(b, o)' /\ \A c \in Runtimes \ {b} : CallFits(c, o)'
  BY <1>1, <1>2, <1>3 DEF BrokerInv, RowFits, CallFits, Phases, Answers
<1>6. calls'[b][o].at \notin {"invoke", "sent"}
  BY <1>1, <1>2 DEF Answers
<1> QED
  BY <1>2, <1>3, <1>4, <1>5, <1>6, BrokerInvLocal

LEMMA SettleStep ==
    ASSUME BrokerInv, NEW b \in Runtimes, NEW o \in Operations, Settle(b, o)
    PROVE  BrokerInv'
<1> DEFINE d == calls[b][o].digest
<1>1. /\ calls[b][o].at = "sent" /\ d \in Digests /\ rows[o].digest = d
      /\ rows[o].state = "UNKNOWN_USAGE" /\ sent[o][d] = 1 /\ UNCHANGED <<sent, used>>
  BY DEF Settle, At, BrokerInv, CallFits, Phases
<1>2. PICK at \in Answers : GoOn(b, o, at)
  BY DEF Settle, Answers
<1>3. /\ calls' \in [Runtimes -> [Operations -> Calls]]
      /\ calls'[b][o].at = at
      /\ \A c \in Runtimes, p \in Operations : c # b \/ p # o => calls'[c][p] = calls[c][p]
  BY <1>2, GoOnFacts DEF BrokerInv
<1>4. \A c \in Runtimes \ {b} : calls[c][o].at \notin {"invoke", "sent"}
  BY <1>1 DEF BrokerInv, OneSends
<1>5. /\ rows' \in [Operations -> Rows] /\ rows'[o].digest = d
      /\ \/ rows'[o].state = "UNKNOWN_USAGE"
         \/ rows'[o].state = "SETTLED" /\ rows'[o].consumed = used[o]
      /\ \A p \in Operations \ {o} : rows'[p] = rows[p]
  <2>1. rows[o] \in Rows /\ used[o] \in Nat
    BY DEF BrokerInv, BrokerTypeOK
  <2>2. CASE used[o] <= ModelUnits
    <3>1. rows' = [rows EXCEPT ![o] = [state |-> "SETTLED", digest |-> d, consumed |-> used[o]]]
      BY <1>1, <2>1, <2>2 DEF Settle, Rows
    <3> QED
      BY <1>1, <2>1, <3>1 DEF BrokerInv, BrokerTypeOK, Rows, RowStates
  <2>3. CASE ~(used[o] <= ModelUnits)
    <3>1. rows' = rows
      BY <2>3 DEF Settle
    <3> QED
      BY <1>1, <3>1 DEF BrokerInv, BrokerTypeOK
  <2> QED
    BY <2>2, <2>3
<1>6. BrokerTypeOK'
  BY <1>1, <1>3, <1>5 DEF BrokerInv, BrokerTypeOK
<1>7. RowFits(o)'
  BY <1>1, <1>5, NoDigestAssumption DEF BrokerInv, RowFits
<1>8. CallFits(b, o)' /\ \A c \in Runtimes \ {b} : CallFits(c, o)'
  BY <1>1, <1>3, <1>4, <1>5 DEF BrokerInv, CallFits, Phases, Answers
<1> QED
  BY <1>1, <1>3, <1>5, <1>6, <1>7, <1>8, BrokerInvLocal DEF Answers

LEMMA KillRuntimeStep ==
    ASSUME BrokerInv, NEW b \in Runtimes, KillRuntime(b)
    PROVE  BrokerInv'
<1>1. [at |-> "none", digest |-> NoDigest] \in Calls
  BY DEF Calls
<1>2. /\ calls' \in [Runtimes -> [Operations -> Calls]]
      /\ \A o \in Operations : calls'[b][o].at = "none"
      /\ \A c \in Runtimes \ {b} : calls'[c] = calls[c]
  BY <1>1 DEF KillRuntime, BrokerInv, BrokerTypeOK
<1>3. UNCHANGED <<rows, sent, used>>
  BY DEF KillRuntime
<1>4. BrokerTypeOK'
  BY <1>2, <1>3 DEF BrokerInv, BrokerTypeOK
<1>5. \A o \in Operations : RowFits(o)'
  BY <1>3 DEF BrokerInv, RowFits
<1>6. \A c \in Runtimes, o \in Operations : CallFits(c, o)'
  BY <1>2, <1>3 DEF BrokerInv, CallFits, Phases
<1>7. OneSends'
  BY <1>2 DEF BrokerInv, OneSends
<1> QED
  BY <1>4, <1>5, <1>6, <1>7 DEF BrokerInv

LEMMA BrokerInvStep ==
    ASSUME BrokerInv, [BrokerNext]_brokerVars
    PROVE  BrokerInv'
<1>1. CASE UNCHANGED brokerVars
  BY <1>1 DEF brokerVars, BrokerInv, BrokerTypeOK, OneSends, RowFits, CallFits
<1>2. 0..(ModelUnits + 1) \subseteq Nat
  BY UnitsAssumption
<1> QED
  BY <1>1, <1>2, InvokeStep, ReserveStep, MarkStep, SendStep, HeldStep, FailedStep, SettleStep,
     KillRuntimeStep DEF BrokerNext

LEMMA BrokerInvariant == BrokerSpec => []BrokerInv
BY BrokerInvInit, BrokerInvStep, PTL DEF BrokerSpec

--------------------------------------------------------------------------------
\* The reservation table and the calls of the broker runtime keep their types.
THEOREM BrokerTypes == BrokerSpec => []BrokerTypeOK
BY BrokerInvariant, PTL DEF BrokerInv

\* reserve and markUnknownUsage let at most one request of an operation through to the
\* provider, over retries, conflicting requests, runtimes and kills.
THEOREM BrokerDispatchesOnce == BrokerSpec => []DispatchedAtMostOnce
<1>1. BrokerInv => DispatchedAtMostOnce
  BY DEF BrokerInv, RowFits, DispatchedAtMostOnce
<1> QED
  BY <1>1, BrokerInvariant, PTL

\* The body of AnswersAreAccountedFor for one call.
AnswerIsAccountedFor(b, o) ==
    LET call == calls'[b][o]
        Settled == /\ rows'[o] = [state |-> "SETTLED", digest |-> call.digest,
                                  consumed |-> used'[o]]
                   /\ sent'[o][call.digest] = 1
    IN
    calls[b][o].at \in Phases =>
      /\ call.at \in {"SETTLED", "SETTLED_REPLAY"} => Settled
      /\ call.at = "UNKNOWN_USAGE_HELD" => rows'[o].state = "UNKNOWN_USAGE"
      /\ call.at = "NOT_DISPATCHED" => sent'[o][call.digest] = 0 \/ Settled

\* A settled row is what a settled answer promises.
LEMMA SettledRow ==
    ASSUME BrokerInv, NEW o \in Operations, rows[o].state = "SETTLED"
    PROVE  /\ rows[o] = [state |-> "SETTLED", digest |-> rows[o].digest, consumed |-> used[o]]
           /\ sent[o][rows[o].digest] = 1
BY DEF BrokerInv, BrokerTypeOK, RowFits, Rows

\* A call that stays in flight, or is not in flight, is told nothing.
LEMMA NothingIsTold ==
    ASSUME NEW b, NEW o,
           calls'[b][o] = calls[b][o] \/ calls'[b][o].at \in Phases \union {"none"}
    PROVE  AnswerIsAccountedFor(b, o)
BY DEF AnswerIsAccountedFor, Phases

LEMMA AnswersStep ==
    ASSUME BrokerInv, BrokerInv', [BrokerNext]_brokerVars,
           NEW b \in Runtimes, NEW o \in Operations
    PROVE  AnswerIsAccountedFor(b, o)
<1> DEFINE d == calls[b][o].digest
<1>1. CASE calls' = calls
  BY <1>1, NothingIsTold
<1>2. ASSUME NEW c \in Runtimes, NEW p \in Operations, NEW e \in Digests, Invoke(c, p, e)
      PROVE  AnswerIsAccountedFor(b, o)
  <2>1. calls'[b][o] = calls[b][o] \/ calls'[b][o].at = "reserve"
    BY <1>2 DEF Invoke, BrokerInv, BrokerTypeOK
  <2> QED
    BY <2>1, NothingIsTold DEF Phases
<1>3. ASSUME NEW c \in Runtimes, KillRuntime(c)
      PROVE  AnswerIsAccountedFor(b, o)
  <2>1. calls'[b][o] = calls[b][o] \/ calls'[b][o].at = "none"
    BY <1>3 DEF KillRuntime, BrokerInv, BrokerTypeOK
  <2> QED
    BY <2>1, NothingIsTold
<1>4. ASSUME NEW c \in Runtimes, NEW p \in Operations, NEW at \in Phases \union Answers,
             GoOn(c, p, at), c # b \/ p # o \/ at \in Phases
      PROVE  AnswerIsAccountedFor(b, o)
  <2>1. calls'[b][o] = calls[b][o] \/ calls'[b][o].at \in Phases
    BY <1>4, GoOnFacts DEF BrokerInv
  <2> QED
    BY <2>1, NothingIsTold
<1>5. ASSUME NEW at \in Answers, GoOn(b, o, at)
      PROVE  calls'[b][o].at = at /\ calls'[b][o].digest = d
  BY <1>5, GoOnFacts DEF BrokerInv
<1>6. ASSUME NEW c \in Runtimes, NEW p \in Operations, Reserve(c, p)
      PROVE  AnswerIsAccountedFor(b, o)
  BY <1>4, <1>6 DEF Reserve, Phases
<1>7. ASSUME NEW c \in Runtimes, NEW p \in Operations, Mark(c, p)
      PROVE  AnswerIsAccountedFor(b, o)
  <2>1. CASE DispatchGranted(p)
    BY <1>4, <1>7, <2>1 DEF Mark, Phases
  <2>2. CASE ~DispatchGranted(p)
    <3> DEFINE at == IF rows[p].state = "SETTLED" THEN "SETTLED_REPLAY" ELSE "UNKNOWN_USAGE_HELD"
    <3>1. at \in Answers /\ GoOn(c, p, at) /\ UNCHANGED <<rows, sent, used>>
      BY <1>7, <2>2 DEF Mark, Answers
    <3>2. CASE c # b \/ p # o
      BY <1>4, <3>1, <3>2
    <3>3. CASE c = b /\ p = o
      <4>1. calls'[b][o].at = at /\ calls'[b][o].digest = d
        BY <1>5, <3>1, <3>3
      <4>2. rows[o].digest = d /\ d \in Digests
        BY <1>7, <3>3 DEF Mark, At, BrokerInv, CallFits, Phases
      <4>3. rows[o].state \in {"SETTLED", "UNKNOWN_USAGE"}
        BY <2>2, <3>3, <4>2, NoDigestAssumption
           DEF DispatchGranted, BrokerInv, BrokerTypeOK, Rows, RowStates, RowFits
      <4>4. CASE rows[o].state = "SETTLED"
        BY <3>1, <3>3, <4>1, <4>2, <4>4, SettledRow DEF AnswerIsAccountedFor
      <4>5. CASE rows[o].state = "UNKNOWN_USAGE"
        BY <3>1, <3>3, <4>1, <4>5 DEF AnswerIsAccountedFor
      <4> QED
        BY <4>3, <4>4, <4>5
    <3> QED
      BY <3>2, <3>3
  <2> QED
    BY <2>1, <2>2
<1>8. ASSUME NEW c \in Runtimes, NEW p \in Operations, NEW u, Send(c, p, u)
      PROVE  AnswerIsAccountedFor(b, o)
  BY <1>4, <1>8 DEF Send, Phases
<1>9. ASSUME NEW c \in Runtimes, NEW p \in Operations, HeldWithoutAnswer(c, p)
      PROVE  AnswerIsAccountedFor(b, o)
  <2>1. CASE c # b \/ p # o
    BY <1>4, <1>9, <2>1 DEF HeldWithoutAnswer, Answers
  <2>2. CASE c = b /\ p = o
    <3>1. calls'[b][o].at = "UNKNOWN_USAGE_HELD"
      BY <1>5, <1>9, <2>2 DEF HeldWithoutAnswer, Answers
    <3>2. rows'[o].state = "UNKNOWN_USAGE"
      BY <1>9, <2>2 DEF HeldWithoutAnswer, BrokerInv, CallFits
    <3> QED
      BY <3>1, <3>2 DEF AnswerIsAccountedFor
  <2> QED
    BY <2>1, <2>2
<1>10. ASSUME NEW c \in Runtimes, NEW p \in Operations, Settle(c, p)
       PROVE  AnswerIsAccountedFor(b, o)
  <2>1. CASE c # b \/ p # o
    BY <1>4, <1>10, <2>1 DEF Settle, Answers
  <2>2. CASE c = b /\ p = o
    <3>1. /\ rows[o].state = "UNKNOWN_USAGE" /\ rows[o].digest = d
          /\ UNCHANGED <<sent, used>>
      BY <1>10, <2>2 DEF Settle, At, BrokerInv, CallFits
    <3>2. CASE used[o] <= ModelUnits
      <4>1. calls'[b][o].at = "SETTLED" /\ calls'[b][o].digest = d
        BY <1>5, <1>10, <2>2, <3>2 DEF Settle, Answers
      <4>2. rows'[o].state = "SETTLED" /\ rows'[o].digest = d
        <5>1. rows[o] \in Rows /\ rows \in [Operations -> Rows]
          BY DEF BrokerInv, BrokerTypeOK
        <5>2. rows' = [rows EXCEPT ![o] = [state |-> "SETTLED", digest |-> d,
                                           consumed |-> used[o]]]
          BY <1>10, <2>2, <3>1, <3>2, <5>1 DEF Settle, Rows
        <5> QED
          BY <5>1, <5>2
      <4>3. /\ rows'[o] = [state |-> "SETTLED", digest |-> rows'[o].digest,
                           consumed |-> used'[o]]
            /\ sent'[o][rows'[o].digest] = 1
        BY <4>2 DEF BrokerInv, BrokerTypeOK, RowFits, Rows
      <4> QED
        BY <4>1, <4>2, <4>3 DEF AnswerIsAccountedFor
    <3>3. CASE ~(used[o] <= ModelUnits)
      <4>1. calls'[b][o].at = "UNKNOWN_USAGE_HELD" /\ rows' = rows
        BY <1>5, <1>10, <2>2, <3>3 DEF Settle, Answers
      <4> QED
        BY <3>1, <4>1 DEF AnswerIsAccountedFor
    <3> QED
      BY <3>2, <3>3
  <2> QED
    BY <2>1, <2>2
<1>11. ASSUME NEW c \in Runtimes, NEW p \in Operations, StoreFails(c, p)
       PROVE  AnswerIsAccountedFor(b, o)
  BY <1>4, <1>11 DEF StoreFails, Phases
<1>12. ASSUME NEW c \in Runtimes, NEW p \in Operations, ReadBack(c, p)
       PROVE  AnswerIsAccountedFor(b, o)
  <2>1. PICK at \in {"UNKNOWN_USAGE_HELD", "NOT_DISPATCHED", "REJECTED"} :
            GoOn(c, p, at) /\ (at = Failure(p) \/ at = "REJECTED")
    BY <1>12 DEF ReadBack, Failure
  <2>2. UNCHANGED <<rows, sent, used>> /\ calls[c][p].at = "failed"
    BY <1>12 DEF ReadBack, At
  <2>3. CASE c # b \/ p # o
    BY <1>4, <2>1, <2>3 DEF Answers
  <2>4. CASE c = b /\ p = o
    <3>1. calls'[b][o].at = at /\ calls'[b][o].digest = d /\ d \in Digests
      BY <1>5, <2>1, <2>2, <2>4 DEF Answers, BrokerInv, CallFits, Phases
    <3>2. at = "UNKNOWN_USAGE_HELD" => rows[o].state = "UNKNOWN_USAGE"
      BY <2>1, <2>4 DEF Failure
    <3>3. at = "NOT_DISPATCHED" => rows[o].state \in {"ABSENT", "RESERVED", "SETTLED"}
      BY <2>1, <2>4 DEF Failure, BrokerInv, BrokerTypeOK, Rows, RowStates
    <3>4. CASE rows[o].state \in {"ABSENT", "RESERVED"}
      <4>1. sent[o][d] = 0
        BY <3>1, <3>4 DEF BrokerInv, RowFits
      <4> QED
        BY <2>1, <2>2, <3>1, <3>2, <4>1 DEF AnswerIsAccountedFor
    <3>5. CASE rows[o].state = "SETTLED"
      <4>1. CASE d = rows[o].digest
        <5>1. /\ rows'[o] = [state |-> "SETTLED", digest |-> d, consumed |-> used'[o]]
              /\ sent'[o][d] = 1
          BY <2>2, <3>5, <4>1, SettledRow
        <5> QED
          BY <2>1, <3>1, <3>2, <3>5, <5>1 DEF AnswerIsAccountedFor
      <4>2. CASE d # rows[o].digest
        <5>1. sent[o][d] = 0
          BY <3>1, <4>2 DEF BrokerInv, RowFits, BrokerTypeOK
        <5> QED
          BY <2>1, <2>2, <3>1, <3>2, <3>5, <5>1 DEF AnswerIsAccountedFor
      <4> QED
        BY <4>1, <4>2
    <3>6. CASE rows[o].state = "UNKNOWN_USAGE"
      BY <2>1, <2>2, <3>1, <3>3, <3>6 DEF AnswerIsAccountedFor
    <3> QED
      BY <2>2, <3>4, <3>5, <3>6 DEF BrokerInv, BrokerTypeOK, Rows, RowStates
  <2> QED
    BY <2>3, <2>4
<1> QED
  BY <1>1, <1>2, <1>3, <1>6, <1>7, <1>8, <1>9, <1>10, <1>11, <1>12 DEF BrokerNext, brokerVars

\* What invoke answers accounts for its request, also when the row that the catch reads was
\* settled by another runtime since the refusal.
THEOREM BrokerAccountsForItsAnswers == BrokerSpec => AnswersAreAccountedFor
<1>1. BrokerInv /\ BrokerInv' /\ [BrokerNext]_brokerVars
        => [\A b \in Runtimes, o \in Operations :
              LET call == calls'[b][o]
                  Settled == /\ rows'[o] = [state |-> "SETTLED", digest |-> call.digest,
                                            consumed |-> used'[o]]
                             /\ sent'[o][call.digest] = 1
              IN
              calls[b][o].at \in Phases =>
                /\ call.at \in {"SETTLED", "SETTLED_REPLAY"} => Settled
                /\ call.at = "UNKNOWN_USAGE_HELD" => rows'[o].state = "UNKNOWN_USAGE"
                /\ call.at = "NOT_DISPATCHED" => sent'[o][call.digest] = 0 \/ Settled]_brokerVars
  BY AnswersStep DEF AnswerIsAccountedFor
<1> QED
  BY <1>1, BrokerInvariant, PTL DEF BrokerSpec, AnswersAreAccountedFor

--------------------------------------------------------------------------------
\* What MapThenSumSet computes: g[s] is the sum of c over s, for every subset s of S.
Pick(s) == CHOOSE x \in s : TRUE
Sums(g, c, S) ==
    g = [s \in SUBSET S |-> IF s = {} THEN 0 ELSE c[Pick(s)] + g[s \ {Pick(s)}]]

\* A set of subsets of a finite set has a least one.
LEMMA LeastSubset ==
    ASSUME NEW S, IsFiniteSet(S), NEW T \in SUBSET (SUBSET S), T # {}
    PROVE  \E s \in T : \A t \in T : t \subseteq s => t = s
<1>1. IsWellFoundedOn(StrictSubsetOrdering(S), SUBSET S)
  BY FS_StrictSubsetOrderingWellFounded, FS_FiniteSubsetsOfFinite
<1>2. PICK s \in T : \A t \in T : <<t, s>> \notin StrictSubsetOrdering(S)
  BY <1>1, WFMin
<1> QED
  BY <1>2 DEF StrictSubsetOrdering

LEMMA PickIn == ASSUME NEW s, s # {} PROVE Pick(s) \in s
BY DEF Pick

LEMMA SumsAt ==
    ASSUME NEW S, NEW c, NEW g, Sums(g, c, S), NEW s \in SUBSET S
    PROVE  g[s] = IF s = {} THEN 0 ELSE c[Pick(s)] + g[s \ {Pick(s)}]
BY Zenon DEF Sums

\* Two sums of functions that agree on a set agree on it.
LEMMA SumsAgree ==
    ASSUME NEW S, IsFiniteSet(S), NEW A, NEW B, S \subseteq A, S \subseteq B,
           NEW c, NEW d, \A x \in S : c[x] = d[x],
           NEW g, Sums(g, c, A), NEW h, Sums(h, d, B)
    PROVE  g[S] = h[S]
<1> DEFINE Bad == {s \in SUBSET S : g[s] # h[s]}
<1>1. SUFFICES ASSUME Bad # {} PROVE FALSE
  OBVIOUS
<1>2. PICK s \in Bad : \A t \in Bad : t \subseteq s => t = s
  <2>1. Bad \in SUBSET (SUBSET S)
    OBVIOUS
  <2> HIDE DEF Bad
  <2> QED
    BY <1>1, <2>1, LeastSubset
<1>3. /\ g[s] = IF s = {} THEN 0 ELSE c[Pick(s)] + g[s \ {Pick(s)}]
      /\ h[s] = IF s = {} THEN 0 ELSE d[Pick(s)] + h[s \ {Pick(s)}]
  BY SumsAt
<1>4. s # {}
  BY <1>2, <1>3
<1>5. Pick(s) \in s
  BY <1>4, PickIn
<1>6. g[s \ {Pick(s)}] = h[s \ {Pick(s)}]
  BY <1>2, <1>5
<1> QED
  BY <1>3, <1>5, <1>6

LEMMA SumsExist ==
    ASSUME NEW S, IsFiniteSet(S), NEW c
    PROVE  \E g : Sums(g, c, S)
<1> DEFINE Bad == {s \in SUBSET S : ~ \E g : Sums(g, c, s)}
<1>1. SUFFICES ASSUME Bad # {} PROVE FALSE
  BY FS_Subset
<1>2. PICK s \in Bad : \A t \in Bad : t \subseteq s => t = s
  <2>1. Bad \in SUBSET (SUBSET S)
    OBVIOUS
  <2> HIDE DEF Bad
  <2> QED
    BY <1>1, <2>1, LeastSubset
<1> DEFINE sum(t) == CHOOSE g : Sums(g, c, t)
           G == [t \in SUBSET s |->
                   IF t = {} THEN 0
                   ELSE c[Pick(t)] + sum(t \ {Pick(t)})[t \ {Pick(t)}]]
<1>3. ASSUME NEW t \in SUBSET s, t # s PROVE Sums(sum(t), c, t)
  <2>1. \E g : Sums(g, c, t)
    BY <1>2, <1>3
  <2> QED
    BY <2>1
<1>4. ASSUME NEW t \in SUBSET s, t # {} PROVE G[t \ {Pick(t)}] = sum(t \ {Pick(t)})[t \ {Pick(t)}]
  <2> DEFINE u == t \ {Pick(t)}
  <2>1. u \in SUBSET s /\ u # s
    BY <1>4, PickIn
  <2>2. Sums(sum(u), c, u)
    BY <1>3, <2>1
  <2>3. sum(u)[u] = IF u = {} THEN 0 ELSE c[Pick(u)] + sum(u)[u \ {Pick(u)}]
    <3> HIDE DEF sum, u
    <3> QED
      BY <2>2, SumsAt
  <2>4. CASE u = {}
    BY <2>1, <2>3, <2>4
  <2>5. CASE u # {}
    <3> DEFINE w == u \ {Pick(u)}
    <3>1. w \in SUBSET s /\ w # s /\ IsFiniteSet(w)
      BY <2>1, FS_Subset
    <3>2. Sums(sum(w), c, w)
      BY <1>3, <3>1
    <3>3. sum(u)[w] = sum(w)[w]
      <4> HIDE DEF sum
      <4> QED
        BY <2>2, <3>1, <3>2, SumsAgree
    <3> QED
      BY <2>1, <2>3, <2>5, <3>3
  <2> QED
    BY <2>4, <2>5
<1>5. Sums(G, c, s)
  <2> HIDE DEF sum
  <2> QED
    BY <1>4 DEF Sums
<1> QED
  BY <1>2, <1>5

\* The sum takes one element after the other, in any order.
LEMMA SumsSplit ==
    ASSUME NEW S, IsFiniteSet(S), NEW c \in [S -> Nat], NEW g, Sums(g, c, S)
    PROVE  \A s \in SUBSET S : /\ g[s] \in Nat
                               /\ \A x \in s : g[s] = c[x] + g[s \ {x}]
<1> DEFINE Good(s) == g[s] \in Nat /\ \A x \in s : g[s] = c[x] + g[s \ {x}]
           Bad == {s \in SUBSET S : ~Good(s)}
<1>1. SUFFICES ASSUME Bad # {} PROVE FALSE
  OBVIOUS
<1>2. PICK s \in Bad : \A t \in Bad : t \subseteq s => t = s
  <2>1. Bad \in SUBSET (SUBSET S)
    OBVIOUS
  <2> HIDE DEF Bad
  <2> QED
    BY <1>1, <2>1, LeastSubset
<1>3. g[s] = IF s = {} THEN 0 ELSE c[Pick(s)] + g[s \ {Pick(s)}]
  BY SumsAt
<1>4. CASE s = {}
  BY <1>2, <1>3, <1>4
<1>5. CASE s # {}
  <2> DEFINE y == Pick(s)
  <2>1. y \in s /\ y \in S
    BY <1>5, PickIn
  <2> HIDE DEF y
  <2>2. \A x \in s : Good(s \ {x})
    BY <1>2
  <2>3. g[s] = c[y] + g[s \ {y}] /\ g[s] \in Nat
    <3>1. g[s] = c[y] + g[s \ {y}]
      BY <1>3, <1>5 DEF y
    <3>2. c[y] \in Nat /\ g[s \ {y}] \in Nat
      BY <2>1, <2>2
    <3> QED
      BY <3>1, <3>2
  <2>4. ASSUME NEW x \in s, x # y PROVE g[s] = c[x] + g[s \ {x}]
    <3>1. g[s \ {y}] = c[x] + g[(s \ {y}) \ {x}]
      BY <2>1, <2>2, <2>4
    <3>2. g[s \ {x}] = c[y] + g[(s \ {x}) \ {y}]
      BY <2>1, <2>2, <2>4
    <3>3. (s \ {y}) \ {x} = (s \ {x}) \ {y}
      OBVIOUS
    <3>4. c[x] \in Nat /\ c[y] \in Nat /\ g[(s \ {x}) \ {y}] \in Nat
      <4>1. (s \ {x}) \ {y} \in SUBSET S /\ (s \ {x}) \ {y} # s /\ (s \ {x}) \ {y} \subseteq s
        BY <2>1
      <4> QED
        BY <1>2, <2>1, <4>1
    <3> DEFINE w == g[(s \ {x}) \ {y}]
    <3>5. g[s \ {y}] = c[x] + w /\ g[s \ {x}] = c[y] + w /\ w \in Nat
      BY <3>1, <3>2, <3>3, <3>4
    <3> HIDE DEF w, Good, Bad
    <3> QED
      BY <2>3, <3>4, <3>5
  <2> QED
    BY <1>2, <2>3, <2>4
<1> QED
  BY <1>4, <1>5

--------------------------------------------------------------------------------
\* The units that count as committed, per operation.
Charged == [o \in Operations |-> Committed(o)]
Spent == MapThenSumSet(Committed, Operations)

LEMMA SpentIsASum == \E g : Sums(g, Charged, Operations) /\ Spent = g[Operations]
<1> DEFINE Iter(g) == g = [s \in SUBSET Operations |->
                         IF s = {} THEN 0
                         ELSE Committed(CHOOSE x \in s : TRUE) + g[s \ {CHOOSE x \in s : TRUE}]]
           G == CHOOSE g : Iter(g)
<1>1. Spent = G[Operations]
  BY DEF Spent, MapThenSumSet, MapThenFoldSet
<1>2. ASSUME NEW g PROVE Iter(g) <=> Sums(g, Charged, Operations)
  <2>1. \A s \in SUBSET Operations : s # {} => (CHOOSE x \in s : TRUE) \in Operations
    OBVIOUS
  <2> QED
    BY <2>1 DEF Sums, Pick, Charged
<1>3. \E g : Iter(g)
  <2> HIDE DEF Iter
  <2> QED
    BY <1>2, SumsExist, FiniteOperations
<1>4. Iter(G)
  <2> HIDE DEF Iter
  <2> QED
    BY <1>3
<1> QED
  <2> HIDE DEF Iter, G
  <2> QED
    BY <1>1, <1>2, <1>4

LEMMA SpentAfterIsASum == (\E g : Sums(g, Charged, Operations) /\ Spent = g[Operations])'
BY SpentIsASum, PTL

LEMMA SpentChanges ==
    ASSUME BrokerTypeOK, BrokerTypeOK', NEW o \in Operations,
           \A p \in Operations \ {o} : rows'[p] = rows[p]
    PROVE  /\ Spent \in Nat /\ Spent' \in Nat
           /\ Spent' + Committed(o) = Spent + Committed(o)'
<1>1. /\ Charged \in [Operations -> Nat]
      /\ Charged' \in [Operations -> Nat]
  BY UnitsAssumption DEF Charged, Committed, BrokerTypeOK, Rows, RowStates
<1>2. PICK g : Sums(g, Charged, Operations) /\ Spent = g[Operations]
  BY SpentIsASum
<1>3. PICK h : Sums(h, Charged', Operations) /\ Spent' = h[Operations]
  BY SpentAfterIsASum
<1>4. \A p \in Operations \ {o} : Charged[p] = Charged'[p]
  BY DEF Charged, Committed
<1> DEFINE Others == Operations \ {o}
<1>5. g[Others] = h[Others]
  <2>1. IsFiniteSet(Others) /\ Others \subseteq Operations
    BY FS_Subset, FiniteOperations
  <2> QED
    BY <1>2, <1>3, <1>4, <2>1, SumsAgree
<1>6. ASSUME NEW c \in [Operations -> Nat], NEW f, Sums(f, c, Operations)
      PROVE  f[Operations] = c[o] + f[Others] /\ f[Operations] \in Nat /\ f[Others] \in Nat
  <2>1. o \in Operations /\ Others \in SUBSET Operations /\ Operations \in SUBSET Operations
    OBVIOUS
  <2> HIDE DEF Others
  <2>2. f[Operations] = c[o] + f[Operations \ {o}]
    BY <1>6, <2>1, FiniteOperations, SumsSplit
  <2>3. f[Operations] \in Nat /\ f[Others] \in Nat
    BY <1>6, <2>1, FiniteOperations, SumsSplit
  <2> QED
    BY <2>2, <2>3 DEF Others
<1>7. Charged[o] = Committed(o) /\ Charged'[o] = Committed(o)'
  BY DEF Charged
<1>8. Charged[o] \in Nat /\ Charged'[o] \in Nat
  BY <1>1
<1>9. /\ g[Operations] = Charged[o] + g[Others] /\ g[Operations] \in Nat /\ g[Others] \in Nat
      /\ h[Operations] = Charged'[o] + h[Others] /\ h[Operations] \in Nat /\ h[Others] \in Nat
  BY <1>1, <1>2, <1>3, <1>6
<1> QED
  BY <1>2, <1>3, <1>5, <1>7, <1>8, <1>9

\* The ledger: no unit is used before the mark, a settled row consumed no more than it
\* reserved, and the limits hold.
LedgerInv ==
    /\ \A o \in Operations :
          /\ rows[o].state \in {"ABSENT", "RESERVED"} => used[o] = 0
          /\ rows[o].state = "SETTLED" => rows[o].consumed <= ModelUnits
    /\ Spent <= ModelLimit
    /\ Cardinality(Reserved) <= RuntimeLimit

LEMMA ReservedIsFinite == IsFiniteSet(Reserved) /\ Cardinality(Reserved) \in Nat
<1>1. Reserved \in SUBSET Operations
  BY DEF Reserved
<1> QED
  BY <1>1, FiniteOperations, FS_Subset, FS_CardinalityType

LEMMA LedgerInit == BrokerInit => LedgerInv
<1> SUFFICES ASSUME BrokerInit PROVE LedgerInv
  OBVIOUS
<1>1. Reserved = {}
  BY DEF Reserved, BrokerInit
<1>2. Charged = [o \in Operations |-> 0]
  BY DEF Charged, Committed, BrokerInit
<1>3. Spent = 0
  <2>1. PICK g : Sums(g, Charged, Operations) /\ Spent = g[Operations]
    BY SpentIsASum
  <2> DEFINE z == [s \in SUBSET Operations |-> 0]
  <2>2. Sums(z, Charged, Operations)
    <3>1. \A s \in SUBSET Operations : s # {} => Charged[Pick(s)] + z[s \ {Pick(s)}] = 0
      BY <1>2, PickIn
    <3> QED
      BY <3>1 DEF Sums
  <2>3. Operations \in SUBSET Operations
    OBVIOUS
  <2>4. z[Operations] = 0
    OBVIOUS
  <2> HIDE DEF z
  <2> QED
    BY <2>1, <2>2, <2>3, <2>4, SumsAgree, FiniteOperations
<1> QED
  BY <1>1, <1>3, FS_EmptySet, UnitsAssumption DEF LedgerInv, BrokerInit

\* A step that leaves the rows alone leaves what they add up to.
LEMMA SpentStays ==
    ASSUME rows' = rows
    PROVE  Spent' = Spent /\ Reserved' = Reserved
<1>1. Reserved' = Reserved
  BY DEF Reserved
<1>2. Charged' = Charged
  BY DEF Charged, Committed
<1>3. PICK g : Sums(g, Charged, Operations) /\ Spent = g[Operations]
  BY SpentIsASum
<1>4. PICK h : Sums(h, Charged', Operations) /\ Spent' = h[Operations]
  BY SpentAfterIsASum
<1> QED
  BY <1>1, <1>2, <1>3, <1>4, SumsAgree, FiniteOperations

LEMMA LedgerStep ==
    ASSUME BrokerInv, BrokerInv', LedgerInv, [BrokerNext]_brokerVars
    PROVE  LedgerInv'
<1> USE DEF BrokerInv
<1>1. CASE UNCHANGED <<rows, used>>
  BY <1>1, SpentStays DEF LedgerInv
<1>2. ASSUME NEW b \in Runtimes, NEW o \in Operations, Reserve(b, o), rows' # rows
      PROVE  LedgerInv'
  <2>1. /\ rows[o].state = "ABSENT" /\ ~Exhausted
        /\ rows' = [rows EXCEPT ![o] = [state |-> "RESERVED", digest |-> calls[b][o].digest,
                                        consumed |-> 0]]
        /\ used' = used
    BY <1>2 DEF Reserve
  <2>2. rows'[o].state = "RESERVED" /\ \A p \in Operations \ {o} : rows'[p] = rows[p]
    BY <2>1 DEF BrokerTypeOK
  <2>3. Spent' <= ModelLimit
    <3>1. Spent + ModelUnits <= ModelLimit
      <4>1. ~(Spent + ModelUnits > ModelLimit)
        BY <2>1 DEF Exhausted, Spent
      <4>2. Spent \in Nat
        BY <2>2, SpentChanges
      <4> QED
        BY <4>1, <4>2, UnitsAssumption
    <3>2. Committed(o) = 0 /\ Committed(o)' = ModelUnits
      BY <2>1, <2>2 DEF Committed
    <3> QED
      BY <2>2, <3>1, <3>2, SpentChanges, UnitsAssumption
  <2>4. Cardinality(Reserved') <= RuntimeLimit
    <3>1. Cardinality(Reserved) + 1 <= RuntimeLimit
      BY <2>1, ReservedIsFinite, UnitsAssumption DEF Exhausted
    <3>2. Reserved' = Reserved \union {o} /\ o \notin Reserved
      BY <2>1, <2>2 DEF Reserved
    <3> QED
      <4>1. Cardinality(Reserved \union {o}) = Cardinality(Reserved) + 1
        BY <3>2, ReservedIsFinite, FS_AddElement
      <4> QED
        BY <3>1, <3>2, <4>1
  <2> QED
    BY <2>1, <2>2, <2>3, <2>4 DEF LedgerInv
<1>3. ASSUME NEW b \in Runtimes, NEW o \in Operations, Mark(b, o), rows' # rows
      PROVE  LedgerInv'
  <2>1. /\ rows[o].state = "RESERVED" /\ used' = used
        /\ rows' = [rows EXCEPT ![o].state = "UNKNOWN_USAGE"]
    BY <1>3 DEF Mark, DispatchGranted
  <2>2. rows'[o].state = "UNKNOWN_USAGE" /\ \A p \in Operations \ {o} : rows'[p] = rows[p]
    BY <2>1 DEF BrokerTypeOK, Rows
  <2>3. Spent' = Spent
    <3>1. Committed(o) = ModelUnits /\ Committed(o)' = ModelUnits
      BY <2>1, <2>2 DEF Committed
    <3> QED
      BY <2>2, <3>1, SpentChanges, UnitsAssumption
  <2>4. Reserved' = Reserved
    BY <2>1, <2>2 DEF Reserved
  <2> QED
    BY <2>1, <2>2, <2>3, <2>4 DEF LedgerInv
<1>4. ASSUME NEW b \in Runtimes, NEW o \in Operations, NEW u \in Nat, Send(b, o, u)
      PROVE  LedgerInv'
  <2>1. /\ rows[o].state = "UNKNOWN_USAGE" /\ rows' = rows
        /\ \A p \in Operations \ {o} : used'[p] = used[p]
    BY <1>4 DEF Send, At, CallFits, BrokerTypeOK
  <2> QED
    BY <2>1, SpentStays DEF LedgerInv
<1>5. ASSUME NEW b \in Runtimes, NEW o \in Operations, Settle(b, o), rows' # rows
      PROVE  LedgerInv'
  <2>1. /\ rows[o].state = "UNKNOWN_USAGE" /\ used[o] <= ModelUnits /\ used' = used
        /\ rows' = [rows EXCEPT ![o] = [@ EXCEPT !.state = "SETTLED", !.consumed = used[o]]]
    BY <1>5 DEF Settle
  <2>2. /\ rows'[o].state = "SETTLED" /\ rows'[o].consumed = used[o]
        /\ \A p \in Operations \ {o} : rows'[p] = rows[p]
    <3>1. rows[o] \in Rows
      BY DEF BrokerTypeOK
    <3> QED
      BY <2>1, <3>1 DEF BrokerTypeOK, Rows
  <2>3. Spent' <= Spent /\ Spent \in Nat /\ Spent' \in Nat
    <3>1. Committed(o) = ModelUnits /\ Committed(o)' = used[o] /\ used[o] \in Nat
      BY <2>1, <2>2 DEF Committed, BrokerTypeOK
    <3> QED
      BY <2>1, <2>2, <3>1, SpentChanges, UnitsAssumption
  <2>4. Reserved' = Reserved
    BY <2>1, <2>2 DEF Reserved
  <2> QED
    BY <2>1, <2>2, <2>3, <2>4, UnitsAssumption DEF LedgerInv
<1>6. 0..(ModelUnits + 1) \subseteq Nat
  BY UnitsAssumption
<1>7. \A b \in Runtimes, o \in Operations :
         Reserve(b, o) \/ Mark(b, o) \/ Settle(b, o) => used' = used
  BY DEF Reserve, Mark, Settle
<1> QED
  BY <1>1, <1>2, <1>3, <1>4, <1>5, <1>6, <1>7
     DEF BrokerNext, brokerVars, Invoke, HeldWithoutAnswer, StoreFails, ReadBack, KillRuntime

\* The ledger of the broker runtime stays within the limits it was opened with and
\* covers what the provider used, for any number of operations and runtimes.
THEOREM BudgetAlwaysCovers == BrokerSpec => []BudgetCoversUse
<1>1. BrokerInv /\ BrokerInv' /\ LedgerInv /\ [BrokerNext]_brokerVars => LedgerInv'
  BY LedgerStep
<1>2. BrokerInv /\ LedgerInv => BudgetCoversUse
  <2> SUFFICES ASSUME BrokerInv, LedgerInv, NEW o \in Operations
      PROVE  Committed(o) >= (IF used[o] > ModelUnits THEN ModelUnits ELSE used[o])
    BY DEF BudgetCoversUse, LedgerInv, Spent
  <2>1. rows[o] \in Rows /\ used[o] \in Nat
    BY DEF BrokerInv, BrokerTypeOK
  <2>2. rows[o].state = "SETTLED" => rows[o].consumed = used[o]
    BY DEF BrokerInv, RowFits
  <2> QED
    BY <2>1, <2>2, UnitsAssumption DEF LedgerInv, Committed, Rows, RowStates
<1> QED
  BY <1>1, <1>2, LedgerInit, BrokerInvariant, PTL DEF BrokerSpec

--------------------------------------------------------------------------------
LEMMA BrokerIsOneShotInit == BrokerInit => BrokerPromise!OneShotInit
BY DEF BrokerInit, BrokerPromise!OneShotInit

\* The outcomes that are on record, as OneShot sees them.
BrokerOutcome == [o \in Operations |->
                    CASE rows[o].state = "UNKNOWN_USAGE" -> "unknown"
                      [] rows[o].state = "SETTLED" -> "concluded"
                      [] OTHER -> "none"]

LEMMA BrokerIsOneShotStep ==
    ASSUME BrokerInv, BrokerInv', [BrokerNext]_brokerVars
    PROVE  [BrokerPromise!OneShotNext]_(BrokerPromise!oneShotVars)
<1> USE DEF BrokerInv
<1> DEFINE out == [o \in Operations |->
                       CASE rows[o].state = "UNKNOWN_USAGE" -> "unknown"
                         [] rows[o].state = "SETTLED" -> "concluded"
                         [] OTHER -> "none"]
<1>1. ASSUME sent' = sent, NEW o \in Operations,
             \A p \in Operations \ {o} : rows'[p] = rows[p],
             \/ rows'[o].state = rows[o].state
             \/ {rows[o].state, rows'[o].state} \subseteq {"ABSENT", "RESERVED"}
      PROVE  UNCHANGED BrokerPromise!oneShotVars
  <2>1. out' = out
    BY <1>1
  <2> QED
    BY <1>1, <2>1 DEF BrokerPromise!oneShotVars
<1>2. CASE UNCHANGED <<rows, sent>>
  BY <1>2 DEF BrokerPromise!oneShotVars
<1>3. ASSUME NEW b \in Runtimes, NEW o \in Operations, Reserve(b, o), rows' # rows
      PROVE  UNCHANGED BrokerPromise!oneShotVars
  <2>1. /\ rows[o].state = "ABSENT" /\ rows'[o].state = "RESERVED" /\ sent' = sent
        /\ \A p \in Operations \ {o} : rows'[p] = rows[p]
    BY <1>3 DEF Reserve, BrokerTypeOK
  <2> QED
    BY <1>1, <2>1
<1>4. ASSUME NEW b \in Runtimes, NEW o \in Operations, Mark(b, o), rows' # rows
      PROVE  BrokerPromise!Record(o)
  <2>1. /\ rows[o].state = "RESERVED" /\ sent' = sent
        /\ rows' = [rows EXCEPT ![o].state = "UNKNOWN_USAGE"]
    BY <1>4 DEF Mark, DispatchGranted
  <2>2. /\ rows'[o].state = "UNKNOWN_USAGE" /\ \A p \in Operations \ {o} : rows'[p] = rows[p]
    BY <2>1 DEF BrokerTypeOK, Rows
  <2>3. out[o] = "none" /\ out' = [out EXCEPT ![o] = "unknown"]
    BY <2>1, <2>2
  <2> QED
    BY <2>1, <2>3 DEF BrokerPromise!Record
<1>5. ASSUME NEW b \in Runtimes, NEW o \in Operations, NEW u \in Nat, Send(b, o, u)
      PROVE  calls[b][o].digest \in Digests /\ BrokerPromise!Dispatch(o, calls[b][o].digest)
  <2> DEFINE d == calls[b][o].digest
  <2>1. /\ rows[o].state = "UNKNOWN_USAGE" /\ rows' = rows /\ d \in Digests
        /\ \A e \in Digests : sent[o][e] = 0
    BY <1>5 DEF Send, At, CallFits, Phases
  <2>2. sent' = [sent EXCEPT ![o] = [sent[o] EXCEPT ![d] = 1]]
    <3>1. sent' = [sent EXCEPT ![o] = [sent[o] EXCEPT ![d] = sent[o][d] + 1]]
      BY <1>5 DEF Send
    <3>2. sent[o][d] + 1 = 1
      BY <2>1
    <3> QED
      BY <3>1, <3>2
  <2>3. out[o] = "unknown" /\ out' = [out EXCEPT ![o] = "unknown"]
    <3>1. out' = out /\ out[o] = "unknown"
      BY <2>1
    <3>2. out = [p \in Operations |-> out[p]]
      OBVIOUS
    <3> HIDE DEF out
    <3> QED
      BY <3>1, <3>2
  <2>4. BrokerPromise!Dispatch(o, d)
    BY <2>1, <2>2, <2>3 DEF BrokerPromise!Dispatch, BrokerPromise!Unsent
  <2> QED
    BY <2>1, <2>4
<1>6. ASSUME NEW b \in Runtimes, NEW o \in Operations, Settle(b, o), rows' # rows
      PROVE  BrokerPromise!Conclude(o)
  <2>1. /\ rows[o].state = "UNKNOWN_USAGE" /\ sent' = sent
        /\ rows' = [rows EXCEPT ![o] = [@ EXCEPT !.state = "SETTLED", !.consumed = used[o]]]
        /\ calls[b][o].digest \in Digests /\ sent[o][calls[b][o].digest] = 1
    BY <1>6 DEF Settle, At, CallFits, Phases
  <2>2. /\ rows'[o].state = "SETTLED" /\ \A p \in Operations \ {o} : rows'[p] = rows[p]
    <3>1. rows[o] \in Rows
      BY DEF BrokerTypeOK
    <3> QED
      BY <2>1, <3>1 DEF BrokerTypeOK, Rows
  <2>3. out[o] = "unknown" /\ out' = [out EXCEPT ![o] = "concluded"]
    BY <2>1, <2>2
  <2> QED
    BY <2>1, <2>3 DEF BrokerPromise!Conclude, BrokerPromise!Unsent
<1>7. 0..(ModelUnits + 1) \subseteq Nat
  BY UnitsAssumption
<1>8. \A b \in Runtimes, o \in Operations :
         Reserve(b, o) \/ Mark(b, o) \/ Settle(b, o) => sent' = sent
  BY DEF Reserve, Mark, Settle
<1>9. ASSUME NEW o \in Operations, BrokerPromise!Record(o) \/ BrokerPromise!Conclude(o)
      PROVE  BrokerPromise!OneShotNext
  BY <1>9 DEF BrokerPromise!OneShotNext
<1>10. ASSUME NEW b \in Runtimes, NEW o \in Operations, Mark(b, o) \/ Settle(b, o)
       PROVE  [BrokerPromise!OneShotNext]_(BrokerPromise!oneShotVars)
  BY <1>2, <1>4, <1>6, <1>8, <1>9, <1>10
<1>11. ASSUME NEW b \in Runtimes, NEW o \in Operations, NEW u \in Nat, Send(b, o, u)
       PROVE  BrokerPromise!OneShotNext
  <2> DEFINE d == calls[b][o].digest
  <2>1. d \in Digests /\ BrokerPromise!Dispatch(o, d)
    BY <1>5, <1>11
  <2> HIDE DEF d
  <2> QED
    BY <2>1 DEF BrokerPromise!OneShotNext, BrokerPromise!Dispatch
<1> QED
  BY <1>2, <1>3, <1>7, <1>8, <1>10, <1>11
     DEF BrokerNext, brokerVars, Invoke, HeldWithoutAnswer, StoreFails, ReadBack, KillRuntime

\* The reservation table implements OneShot: recorded before it is sent, sent once, settled
\* once, over retries, conflicting requests, runtimes and kills.
THEOREM BrokerImplementsOneShot == BrokerSpec => BrokerIsOneShot
<1>1. BrokerInv /\ BrokerInv' /\ [BrokerNext]_brokerVars
        => [BrokerPromise!OneShotNext]_(BrokerPromise!oneShotVars)
  BY BrokerIsOneShotStep
<1> QED
  BY <1>1, BrokerIsOneShotInit, BrokerInvariant, PTL
     DEF BrokerSpec, BrokerIsOneShot, BrokerPromise!OneShotSpec

\* What follows from the promise alone, whoever keeps it: one request at most went out,
\* and only of an operation on record.
PaidFits ==
    /\ sent \in [Operations -> [Digests -> {0, 1}]]
    /\ \A o \in Operations : \A d, e \in Digests :
          sent[o][d] = 1 /\ sent[o][e] = 1 => d = e /\ BrokerOutcome[o] # "none"

LEMMA PaidFitsStep ==
    ASSUME PaidFits, BrokerPromise!OneShotNext
    PROVE  PaidFits'
<1> DEFINE out == BrokerOutcome
<1>0. out \in [Operations -> {"none", "unknown", "concluded"}] /\ out' \in [Operations -> {"none", "unknown", "concluded"}]
  BY DEF BrokerOutcome
<1>1. PICK o \in Operations : \/ BrokerPromise!Record(o) \/ BrokerPromise!Conclude(o)
                              \/ \E d \in Digests : BrokerPromise!Dispatch(o, d)
  BY DEF BrokerPromise!OneShotNext
<1>2. CASE BrokerPromise!Record(o) \/ BrokerPromise!Conclude(o)
  <2>1. PICK answer \in {"unknown", "concluded"} : out' = [out EXCEPT ![o] = answer]
    BY <1>2 DEF BrokerPromise!Record, BrokerPromise!Conclude, BrokerOutcome
  <2>2. sent' = sent
    BY <1>2 DEF BrokerPromise!Record, BrokerPromise!Conclude
  <2>3. \A p \in Operations : out[p] # "none" => out'[p] # "none"
    BY <1>0, <2>1
  <2> QED
    BY <2>2, <2>3 DEF PaidFits
<1>3. ASSUME NEW d \in Digests, BrokerPromise!Dispatch(o, d)
      PROVE  PaidFits'
  <2>1. /\ \A e \in Digests : sent[o][e] = 0
        /\ sent' = [sent EXCEPT ![o] = [@ EXCEPT ![d] = 1]]
        /\ out' = [out EXCEPT ![o] = "unknown"]
    BY <1>3 DEF BrokerPromise!Dispatch, BrokerPromise!Unsent, BrokerOutcome
  <2> QED
    BY <1>0, <2>1 DEF PaidFits
<1> QED
  BY <1>1, <1>2, <1>3

\* Whoever keeps the promise of OneShot pays for one request of an operation at most, and
\* has it on record.
THEOREM OneShotPaysOnce == BrokerIsOneShot => []BrokerPromise!PaidForOnce
<1>1. BrokerPromise!OneShotInit => PaidFits
  BY DEF BrokerPromise!OneShotInit, PaidFits
<1>2. PaidFits /\ [BrokerPromise!OneShotNext]_(BrokerPromise!oneShotVars) => PaidFits'
  BY PaidFitsStep DEF BrokerPromise!oneShotVars, PaidFits, BrokerOutcome
<1>3. PaidFits => BrokerPromise!PaidForOnce
  BY DEF PaidFits, BrokerPromise!PaidForOnce, BrokerOutcome
<1> QED
  BY <1>1, <1>2, <1>3, PTL DEF BrokerIsOneShot, BrokerPromise!OneShotSpec
================================================================================
