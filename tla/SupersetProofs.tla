--------------------------- MODULE SupersetProofs ---------------------------
(***************************************************************************)
(* Proofs about what happens to Superset's metadata database: the installs *)
(* and recoveries that replace it (SupersetInstall), and about the mirror  *)
(* of the analyses that it reads (ProjectionPublication), for any number   *)
(* of installs, recoveries and analyses.                                   *)
(***************************************************************************)
EXTENDS SupersetInstall, ProjectionPublication, TLAPS

-----------------------------------------------------------------------------
(* Installation.                                                           *)

CompleteBases == staged \union generations

\* What is published or compared was seeded before; the pointer names what is published.
PublishedIsSeeded ==
    /\ \A i \in Installs : run[i] \in {"idle", "copy", "build"} => i \notin CompleteBases
    /\ current \in generations \union {NoInstall}
    /\ \A p \in Installs \union InstallRecoveries, i \in Installs :
          i = mirrors[p] => run[i] \notin {"idle", "copy", "build"}

CompleteIsWhole == \A i \in CompleteBases : candidate[i].whole

\* A live database that is not whole holds nothing.
TornIsEmpty == ~live.whole => live.holds = {}

\* Unless somebody raced, the live database holds what the candidates were seeded from,
\* and so does every candidate that was not stripped.
SeedsAreKept ==
    ~raced => \A i \in Installs :
        /\ base[i].holds \subseteq live.holds
        /\ i \notin stripped /\ (i \in CompleteBases \/ run[i] = "build")
              => base[i].holds \subseteq candidate[i].holds

\* Who is about to replace the live database compared it with the seed.
ReplacersCompared ==
    \A p \in Installs \union InstallRecoveries :
        run[p] = "replace" => mirrors[p] \in Installs /\ MayReplace(p, seen[p])

InstallInv ==
    /\ InstallTypeOK /\ PublishedIsSeeded /\ CompleteIsWhole /\ TornIsEmpty
    /\ SeedsAreKept /\ ReplacersCompared

--------------------------------------------------------------------------------
LEMMA MissingHoldsNothing == Missing \in Databases /\ Missing.holds = {} /\ ~Missing.whole
BY DEF Missing, Databases

LEMMA InstallInvInit == InstallInit => InstallInv
<1> SUFFICES ASSUME InstallInit PROVE InstallInv
  OBVIOUS
<1>1. InstallTypeOK
  BY MissingHoldsNothing DEF InstallInit, InstallTypeOK
<1>2. PublishedIsSeeded
  BY InstallAssumption DEF InstallInit, PublishedIsSeeded, CompleteBases
<1>3. CompleteIsWhole /\ TornIsEmpty /\ SeedsAreKept
  BY MissingHoldsNothing DEF InstallInit, CompleteIsWhole, TornIsEmpty, SeedsAreKept, CompleteBases
<1>4. ReplacersCompared
  BY DEF InstallInit, ReplacersCompared
<1> QED
  BY <1>1, <1>2, <1>3, <1>4 DEF InstallInv

\* The one step that could lose something.
LEMMA ReplacementKeeps ==
    ASSUME InstallInv, NEW p \in Installs \union InstallRecoveries, ReplaceLive(p), ~raced'
    PROVE  live.holds \subseteq live'.holds
<1>1. CASE mirrors[p] \in generations
  <2>1. live' = candidate[mirrors[p]] /\ live = seen[p] /\ ~raced /\ run[p] = "replace"
        /\ mirrors[p] \notin stripped
    BY <1>1 DEF ReplaceLive
  <2>2. CASE ~live.whole
    BY <2>2 DEF InstallInv, TornIsEmpty
  <2>3. CASE live.whole
    <3>1. live = base[mirrors[p]] /\ mirrors[p] \in Installs
      BY <2>1, <2>3 DEF InstallInv, ReplacersCompared, MayReplace
    <3>2. base[mirrors[p]].holds \subseteq candidate[mirrors[p]].holds
      BY <1>1, <2>1, <3>1 DEF InstallInv, SeedsAreKept, CompleteBases
    <3> QED
      BY <2>1, <3>1, <3>2
  <2> QED
    BY <2>2, <2>3
<1>2. CASE mirrors[p] \notin generations
  BY <1>2 DEF ReplaceLive
<1> QED
  BY <1>1, <1>2

\* Only candidates of installs at work are stripped.
LEMMA RemovedType ==
    ASSUME InstallTypeOK, NEW gone, NEW emptied, RemoveUnfinished(gone, emptied)
    PROVE  /\ candidate' \in [Installs -> Databases] /\ stripped' \subseteq Installs
           /\ stripped \subseteq stripped'
           /\ \A i \in Installs : candidate'[i] = candidate[i] \/ i \in AtWork \cap stripped'
BY MissingHoldsNothing DEF RemoveUnfinished, InstallTypeOK, AtWork

LEMMA InstallInvStep ==
    ASSUME InstallInv, [InstallNext]_installVars
    PROVE  InstallInv'
<1> USE InstallAssumption DEF InstallInv, InstallTypeOK, RunTo
<1> DEFINE P == Installs \union InstallRecoveries
<1>1. CASE UNCHANGED installVars
  BY <1>1 DEF installVars, PublishedIsSeeded, CompleteIsWhole, TornIsEmpty, SeedsAreKept,
              ReplacersCompared, CompleteBases, MayReplace
<1>2. ASSUME NEW w \in Writes, RuntimeWrites(w)
      PROVE  InstallInv'
  <2>1. live.whole /\ live' = [whole |-> TRUE, holds |-> live.holds \union {w}]
    BY <1>2 DEF RuntimeWrites, Databases
  <2>2. live' \in Databases
    BY <2>1 DEF Databases, Contents
  <2>3. UNCHANGED <<base, candidate, staged, generations, current, run, mirrors, seen, stripped, raced>>
    BY <1>2 DEF RuntimeWrites
  <2> QED
    BY <2>1, <2>2, <2>3 DEF PublishedIsSeeded, CompleteIsWhole, TornIsEmpty, SeedsAreKept,
                            ReplacersCompared, CompleteBases, MayReplace
<1>3. ASSUME NEW i \in Installs, Seed(i)
      PROVE  InstallInv'
  <2>1. PICK db \in Looks : /\ base' = [base EXCEPT ![i] = db]
                            /\ RunTo(i, IF db.whole THEN "copy" ELSE "build")
    BY <1>3 DEF Seed
  <2>2. UNCHANGED <<live, candidate, staged, generations, current, mirrors, seen, stripped, raced>>
        /\ run[i] = "idle"
    BY <1>3 DEF Seed
  <2>3. db \in Databases /\ db.holds \subseteq live.holds /\ (~db.whole => db.holds = {})
    <3>1. CASE db = live
      BY <3>1 DEF TornIsEmpty
    <3>2. CASE db = Missing
      BY <3>2, MissingHoldsNothing
    <3> QED
      BY <3>1, <3>2 DEF Looks
  <2>4. i \notin CompleteBases /\ \A p \in P : i # mirrors[p]
    BY <2>2 DEF PublishedIsSeeded
  <2>5. /\ InstallTypeOK'
        /\ base'[i] = db /\ run'[i] \in {"copy", "build"} /\ (db.whole <=> run'[i] = "copy")
        /\ \A j \in Installs \ {i} : base'[j] = base[j]
        /\ \A p \in P \ {i} : run'[p] = run[p]
    <3>1. base' \in [Installs -> Databases] /\ base'[i] = db
          /\ \A j \in Installs \ {i} : base'[j] = base[j]
      BY <2>1, <2>3
    <3>2. /\ run'[i] \in {"copy", "build"} /\ (db.whole <=> run'[i] = "copy")
          /\ \A p \in P \ {i} : run'[p] = run[p]
      BY <2>1, <2>3 DEF Databases
    <3>3. run' \in [P -> {"idle", "copy", "build", "activate", "read", "check", "replace", "over"}]
      BY <2>1
    <3> QED
      BY <2>2, <3>1, <3>2, <3>3
  <2>6. PublishedIsSeeded' /\ CompleteIsWhole' /\ TornIsEmpty'
    BY <2>2, <2>4, <2>5 DEF PublishedIsSeeded, CompleteIsWhole, TornIsEmpty, CompleteBases
  <2>7. SeedsAreKept'
    BY <2>2, <2>3, <2>4, <2>5 DEF SeedsAreKept, CompleteBases
  <2>8. ReplacersCompared'
    BY <2>2, <2>4, <2>5 DEF ReplacersCompared, MayReplace
  <2> QED
    BY <2>5, <2>6, <2>7, <2>8
<1>4. ASSUME NEW i \in Installs, CopySeed(i)
      PROVE  InstallInv'
  <2>1. /\ UNCHANGED <<live, base, staged, generations, current, mirrors, seen, stripped, raced>>
        /\ run[i] = "copy" /\ run' = [run EXCEPT ![i] = "build"]
        /\ candidate' = [candidate EXCEPT ![i] = live]
    BY <1>4 DEF CopySeed
  <2>2. i \notin CompleteBases
    BY <2>1 DEF PublishedIsSeeded
  <2>3. InstallTypeOK' /\ PublishedIsSeeded' /\ TornIsEmpty'
    BY <2>1 DEF PublishedIsSeeded, TornIsEmpty, CompleteBases
  <2>4. CompleteIsWhole'
    BY <2>1, <2>2 DEF CompleteIsWhole, CompleteBases
  <2>5. SeedsAreKept'
    BY <2>1, <2>2 DEF SeedsAreKept, CompleteBases
  <2>6. ReplacersCompared'
    BY <2>1 DEF ReplacersCompared, MayReplace
  <2> QED
    BY <2>3, <2>4, <2>5, <2>6
<1>5. ASSUME NEW i \in Installs, Build(i)
      PROVE  InstallInv'
  <2>1. UNCHANGED <<live, base, generations, current, mirrors, seen, stripped, raced>> /\ run[i] = "build"
    BY <1>5 DEF Build
  <2>2. i \notin CompleteBases
    BY <2>1 DEF PublishedIsSeeded
  <2>3. CASE /\ candidate' = [candidate EXCEPT ![i] = [whole |-> TRUE, holds |-> @.holds \union {i}]]
             /\ staged' = staged \union {i}
             /\ RunTo(i, "activate")
    <3>1. candidate[i] \in Databases
      OBVIOUS
    <3>2. [whole |-> TRUE, holds |-> candidate[i].holds \union {i}] \in Databases
      BY <3>1 DEF Databases, Contents
    <3>3. /\ candidate' \in [Installs -> Databases] /\ candidate'[i].whole
          /\ candidate[i].holds \subseteq candidate'[i].holds
          /\ \A j \in Installs \ {i} : candidate'[j] = candidate[j]
      BY <2>3, <3>2
    <3>4. InstallTypeOK' /\ TornIsEmpty'
      BY <2>1, <2>3, <3>3 DEF TornIsEmpty
    <3>5. PublishedIsSeeded'
      BY <2>1, <2>3 DEF PublishedIsSeeded, CompleteBases
    <3>6. CompleteIsWhole'
      BY <2>1, <2>3, <3>3 DEF CompleteIsWhole, CompleteBases
    <3>7. SeedsAreKept'
      BY <2>1, <2>3, <3>3 DEF SeedsAreKept, CompleteBases
    <3>8. ReplacersCompared'
      BY <2>1, <2>3 DEF ReplacersCompared, MayReplace
    <3> QED
      BY <3>4, <3>5, <3>6, <3>7, <3>8
  <2>4. CASE RunTo(i, "over") /\ UNCHANGED <<candidate, staged>>
    BY <2>1, <2>4 DEF PublishedIsSeeded, CompleteIsWhole, TornIsEmpty, SeedsAreKept,
                      ReplacersCompared, CompleteBases, MayReplace
  <2> QED
    BY <1>5, <2>3, <2>4 DEF Build
<1>6. ASSUME NEW i \in Installs, Activate(i)
      PROVE  InstallInv'
  <2>1. UNCHANGED <<live, base, candidate, seen, stripped, raced>> /\ run[i] = "activate"
    BY <1>6 DEF Activate
  <2>2. CASE i \in staged
    <3>1. /\ staged' = staged \ {i} /\ generations' = generations \union {i} /\ current' = i
          /\ mirrors' = [mirrors EXCEPT ![i] = i] /\ run' = [run EXCEPT ![i] = "check"]
      BY <1>6, <2>2 DEF Activate
    <3>2. CompleteBases' = CompleteBases
      BY <2>2, <3>1 DEF CompleteBases
    <3>3. InstallTypeOK' /\ PublishedIsSeeded'
      BY <2>1, <3>1, <3>2 DEF PublishedIsSeeded
    <3>4. CompleteIsWhole' /\ TornIsEmpty' /\ SeedsAreKept'
      BY <2>1, <3>1, <3>2 DEF CompleteIsWhole, TornIsEmpty, SeedsAreKept
    <3>5. ReplacersCompared'
      BY <2>1, <3>1 DEF ReplacersCompared, MayReplace
    <3> QED
      BY <3>3, <3>4, <3>5
  <2>3. CASE i \notin staged
    <3>1. run' = [run EXCEPT ![i] = "over"] /\ UNCHANGED <<staged, generations, current, mirrors>>
      BY <1>6, <2>3 DEF Activate
    <3> QED
      BY <2>1, <3>1 DEF PublishedIsSeeded, CompleteIsWhole, TornIsEmpty, SeedsAreKept,
                        ReplacersCompared, CompleteBases, MayReplace
  <2> QED
    BY <2>2, <2>3
\* Steps that leave the live database and the complete candidates alone and start nobody:
\* published stays published.
<1>7. ASSUME UNCHANGED <<live, base, seen, raced>>, InstallTypeOK',
             stripped \subseteq stripped',
             \A i \in Installs : candidate'[i] = candidate[i] \/ i \in AtWork \cap stripped',
             CompleteBases' \subseteq CompleteBases,
             current' \in generations' \union {NoInstall},
             \A p \in P : \/ run'[p] = run[p] /\ run[p] # "replace" /\ mirrors'[p] = mirrors[p]
                          \/ run'[p] \notin {"idle", "copy", "build", "replace"}
                             /\ mirrors'[p] \in {mirrors[p], current}
                          \/ run'[p] = "replace" /\ run[p] = "replace" /\ mirrors'[p] = mirrors[p]
      PROVE  InstallInv'
  <2>1. PublishedIsSeeded'
    <3>1. \A i \in Installs : run'[i] \in {"idle", "copy", "build"} => run'[i] = run[i]
      BY <1>7
    <3>2. current \in Installs => run[current] \notin {"idle", "copy", "build"}
      BY DEF PublishedIsSeeded, CompleteBases
    <3>3. \A p \in P, i \in Installs : i = mirrors'[p] => run'[i] \notin {"idle", "copy", "build"}
      BY <1>7, <3>1, <3>2 DEF PublishedIsSeeded
    <3> QED
      BY <1>7, <3>1, <3>3 DEF PublishedIsSeeded
  <2>2. CompleteBases \subseteq Installs /\ \A i \in CompleteBases : i \notin AtWork
    BY DEF PublishedIsSeeded, CompleteBases, AtWork
  <2>3. \A i \in CompleteBases : candidate'[i] = candidate[i]
    BY <1>7, <2>2
  <2>4. CompleteIsWhole' /\ TornIsEmpty'
    BY <1>7, <2>3 DEF CompleteIsWhole, TornIsEmpty
  <2>5. ASSUME NEW i \in Installs, i \notin stripped',
               i \in CompleteBases' \/ run'[i] = "build"
        PROVE  /\ i \notin stripped /\ (i \in CompleteBases \/ run[i] = "build")
               /\ candidate'[i] = candidate[i]
    BY <1>7, <2>5
  <2>6. SeedsAreKept'
    BY <1>7, <2>5 DEF SeedsAreKept
  <2>7. ReplacersCompared'
    BY <1>7 DEF ReplacersCompared, MayReplace
  <2> QED
    BY <1>7, <2>1, <2>4, <2>6, <2>7
<1>8. ASSUME NEW r \in InstallRecoveries, RecoverStore(r)
      PROVE  InstallInv'
  <2>1. PICK gone \in SUBSET Installs, emptied \in SUBSET Installs :
          /\ RemoveUnfinished(gone, emptied)
          /\ run' = [p \in P |-> IF p = r THEN "read" ELSE IF p \in gone THEN "over" ELSE run[p]]
    BY <1>8 DEF RecoverStore
  <2>2. CompleteBases' = CompleteBases /\ mirrors' = mirrors
        /\ current' \in generations' \union {NoInstall}
    BY <1>8 DEF RecoverStore, CompleteBases, PublishedIsSeeded
  <2>3. \A p \in P : run'[p] \in {"read", "over"} \/ run'[p] = run[p]
    BY <2>1
  <2>4. InstallTypeOK'
    BY <1>8, <2>1, RemovedType DEF RecoverStore
  <2>5. UNCHANGED <<live, base, seen, raced>>
    BY <1>8 DEF RecoverStore
  <2> QED
    BY <1>7, <2>1, <2>2, <2>3, <2>4, <2>5, RemovedType
<1>9. ASSUME NEW r \in InstallRecoveries, ReadActive(r)
      PROVE  InstallInv'
  <2>1. \A p \in P : p # r => run'[p] = run[p] /\ mirrors'[p] = mirrors[p]
    BY <1>9 DEF ReadActive
  <2>2. run'[r] \in {"over", "check"} /\ mirrors'[r] = current
    BY <1>9 DEF ReadActive
  <2>3. InstallTypeOK' /\ CompleteBases' = CompleteBases /\ current' \in generations' \union {NoInstall}
    BY <1>9 DEF ReadActive, CompleteBases, PublishedIsSeeded
  <2>4. UNCHANGED <<live, base, candidate, seen, stripped, raced>>
    BY <1>9 DEF ReadActive
  <2> QED
    BY <1>7, <2>1, <2>2, <2>3, <2>4
<1>10. CASE CleanupStore
  <2>1. PICK gone \in SUBSET Installs, emptied \in SUBSET Installs :
          /\ RemoveUnfinished(gone, emptied)
          /\ run' = [p \in P |-> IF p \in gone THEN "over" ELSE run[p]]
    BY <1>10 DEF CleanupStore
  <2>2. current' = current /\ mirrors' = mirrors /\ current' \in generations'
        /\ CompleteBases' \subseteq CompleteBases
    BY <1>10 DEF CleanupStore, CompleteBases
  <2>3. \A p \in P : run'[p] = "over" \/ run'[p] = run[p]
    BY <2>1
  <2>4. InstallTypeOK'
    BY <1>10, <2>1, RemovedType DEF CleanupStore
  <2>5. UNCHANGED <<live, base, seen, raced>>
    BY <1>10 DEF CleanupStore
  <2> QED
    BY <1>7, <2>1, <2>2, <2>3, <2>4, <2>5, RemovedType
<1>11. ASSUME NEW p \in P, CheckLive(p)
       PROVE  InstallInv'
  <2>1. /\ UNCHANGED <<live, base, candidate, staged, generations, current, mirrors, stripped, raced>>
        /\ run[p] = "check"
    BY <1>11 DEF CheckLive
  <2>2. CASE mirrors[p] \in generations
    <3>1. PICK db \in Looks :
            /\ seen' = [seen EXCEPT ![p] = db]
            /\ RunTo(p, IF db # candidate[mirrors[p]] /\ MayReplace(p, db) THEN "replace" ELSE "over")
      BY <1>11, <2>2 DEF CheckLive
    <3>2. db \in Databases
      BY MissingHoldsNothing DEF Looks
    <3>3. InstallTypeOK' /\ PublishedIsSeeded' /\ CompleteIsWhole' /\ TornIsEmpty' /\ SeedsAreKept'
      BY <2>1, <3>1, <3>2 DEF PublishedIsSeeded, CompleteIsWhole, TornIsEmpty, SeedsAreKept, CompleteBases
    <3>4. ReplacersCompared'
      BY <2>1, <2>2, <3>1 DEF ReplacersCompared, MayReplace
    <3> QED
      BY <3>3, <3>4
  <2>3. CASE mirrors[p] \notin generations
    <3>1. run' = [run EXCEPT ![p] = "over"] /\ seen' = seen
      BY <1>11, <2>3 DEF CheckLive
    <3> QED
      BY <1>7, <2>1, <3>1 DEF CompleteBases, PublishedIsSeeded
  <2> QED
    BY <2>2, <2>3
<1>12. ASSUME NEW p \in P, ReplaceLive(p)
       PROVE  InstallInv'
  <2>1. /\ UNCHANGED <<base, candidate, staged, generations, current, mirrors, seen, stripped>>
        /\ run' = [run EXCEPT ![p] = "over"] /\ CompleteBases' = CompleteBases /\ (raced => raced')
    BY <1>12 DEF ReplaceLive, CompleteBases
  <2>2. \/ live' = live
        \/ live' = candidate[mirrors[p]] /\ mirrors[p] \in generations
    BY <1>12 DEF ReplaceLive
  <2>3. live' \in Databases /\ raced' \in BOOLEAN
    <3>1. mirrors[p] \in generations => candidate[mirrors[p]] \in Databases
      OBVIOUS
    <3>2. raced' = raced \/ raced' = (raced \/ live # seen[p] \/ mirrors[p] \in stripped)
      BY <1>12 DEF ReplaceLive
    <3> QED
      BY <2>2, <3>1, <3>2
  <2>4. InstallTypeOK' /\ PublishedIsSeeded' /\ CompleteIsWhole'
    BY <2>1, <2>3 DEF PublishedIsSeeded, CompleteIsWhole
  <2>5. TornIsEmpty'
    BY <2>2 DEF TornIsEmpty, CompleteIsWhole, CompleteBases
  <2>6. SeedsAreKept'
    BY <1>12, <2>1, ReplacementKeeps DEF SeedsAreKept
  <2>7. ReplacersCompared'
    BY <2>1 DEF ReplacersCompared, MayReplace
  <2> QED
    BY <2>4, <2>5, <2>6, <2>7
<1>13. ASSUME NEW p \in P, KillRun(p)
       PROVE  InstallInv'
  <2>1. InstallTypeOK' /\ CompleteBases' = CompleteBases /\ mirrors' = mirrors
        /\ current' \in generations' \union {NoInstall}
    BY <1>13 DEF KillRun, CompleteBases, PublishedIsSeeded
  <2>2. run'[p] = "over" /\ \A q \in P \ {p} : run'[q] = run[q]
    BY <1>13 DEF KillRun
  <2>3. UNCHANGED <<live, base, candidate, seen, stripped, raced>>
    BY <1>13 DEF KillRun
  <2> QED
    BY <1>7, <2>1, <2>2, <2>3
<1> QED
  BY <1>1, <1>2, <1>3, <1>4, <1>5, <1>6, <1>8, <1>9, <1>10, <1>11, <1>12, <1>13 DEF InstallNext

LEMMA InstallInvariant == InstallSpec => []InstallInv
BY InstallInvInit, InstallInvStep, PTL DEF InstallSpec

--------------------------------------------------------------------------------
\* The databases, generations and processes of the installation keep their types.
THEOREM InstallTypes == InstallSpec => []InstallTypeOK
BY InstallInvariant, PTL DEF InstallInv

\* refresh_live_mirror never takes from the live database what the runtime or an
\* installation put there, unless a write falls between its comparison and its rename, the
\* database could not be read, or the candidate was stripped.
THEOREM InstallKeepsLive == InstallSpec => LiveKeepsItsState
<1>1. ASSUME InstallInv, InstallNext, ~raced'
      PROVE  live.holds \subseteq live'.holds
  <2>1. ASSUME NEW w \in Writes, RuntimeWrites(w)
        PROVE  live.holds \subseteq live'.holds
    BY <1>1, <2>1 DEF RuntimeWrites, InstallInv, InstallTypeOK, Databases
  <2>2. ASSUME NEW p \in Installs \union InstallRecoveries, ReplaceLive(p)
        PROVE  live.holds \subseteq live'.holds
    BY <1>1, <2>2, ReplacementKeeps
  <2>3. CASE live' = live
    BY <2>3
  <2> QED
    BY <1>1, <2>1, <2>2, <2>3
       DEF InstallNext, Seed, CopySeed, Build, Activate, RecoverStore, ReadActive, CleanupStore,
           CheckLive, KillRun
<1>2. InstallInv /\ [InstallNext]_installVars
        => [~raced' => live.holds \subseteq live'.holds]_installVars
  BY <1>1
<1> QED
  BY <1>2, InstallInvariant, PTL DEF InstallSpec, LiveKeepsItsState

-----------------------------------------------------------------------------
(* Publication.                                                            *)

\* One analysis at a time is past its staging.
OneIsBusy ==
    \A a, b \in Analyses :
        /\ analysis[a] \in {"staged", "mirror", "receipts"}
        /\ analysis[b] \in {"staged", "mirror", "receipts"}
        => a = b

\* The server has a copy in hand only within its mirror step.
ServerCopies == copying["server"] # Nothing => \E a \in Analyses : analysis[a] = "mirror"

\* Unless it was left behind, the database is of the active generation, or being written
\* from it.
DatabaseFollows ==
    "mirror" \notin behind =>
        /\ \A w \in Writers : copying[w] \in {Nothing, active}
        /\ (\A a \in Analyses : analysis[a] # "mirror") => mirror = active

\* Unless it was left behind, latest.json is of the active generation, or the analysis that
\* committed it is about to write it.
ReceiptFollows ==
    "latest" \notin behind =>
        /\ \A a \in Analyses : analysis[a] \in {"mirror", "receipts"} => active = a
        /\ (\A a \in Analyses : analysis[a] \notin {"mirror", "receipts"}) => latest = active

PublicationInv ==
    PublicationTypeOK /\ OneIsBusy /\ ServerCopies /\ DatabaseFollows /\ ReceiptFollows

LEMMA PublicationInvInit == PublicationInit => PublicationInv
BY DEF PublicationInit, PublicationInv, PublicationTypeOK, OneIsBusy, ServerCopies,
       DatabaseFollows, ReceiptFollows, Writers

\* A copy is read: of the generation that is active at that moment.
LEMMA ReadingFacts ==
    ASSUME PublicationTypeOK, NEW w \in Writers, ReadProjection(w)
    PROVE  /\ copying' \in [Writers -> Analyses \union {Nothing}]
           /\ copying'[w] = active
           /\ \A v \in Writers \ {w} : copying'[v] = copying[v]
BY DEF ReadProjection, PublicationTypeOK

\* A copy is written: the database is of that generation, and it is found up to date only
\* if no copy of another generation is in hand.
LEMMA WritingFacts ==
    ASSUME PublicationTypeOK, NEW w \in Writers, WriteMirror(w)
    PROVE  /\ copying' \in [Writers -> Analyses \union {Nothing}]
           /\ mirror' = copying[w] /\ mirror' \in Analyses
           /\ copying'[w] = Nothing
           /\ \A v \in Writers \ {w} : copying'[v] = copying[v]
           /\ behind' \subseteq {"mirror", "latest"}
           /\ "latest" \in behind' <=> "latest" \in behind
           /\ \/ behind' = behind
              \/ \A v \in Writers : copying[v] \in {active, Nothing}
BY DEF WriteMirror, PublicationTypeOK

\* A staging directory becomes a generation.
LEMMA RenameTypes ==
    ASSUME PublicationTypeOK, NEW a \in Analyses, Rename(a)
    PROVE  stagedProjections' \subseteq Analyses /\ publishedProjections' \subseteq Analyses
BY DEF Rename, PublicationTypeOK

LEMMA EndAnalysesStep ==
    ASSUME PublicationInv, NEW S \in SUBSET Analyses, EndAnalyses(S)
    PROVE  PublicationInv'
<1> USE DEF PublicationInv
<1>1. /\ analysis' \in [Analyses -> {"idle", "reading", "staged", "mirror", "receipts", "over"}]
      /\ \A a \in Analyses : analysis'[a] = IF a \in S THEN "over" ELSE analysis[a]
  BY DEF EndAnalyses, PublicationTypeOK
<1>2. stagedProjections' \subseteq Analyses /\ publishedProjections' \subseteq Analyses
  BY RenameTypes DEF EndAnalyses, PublicationTypeOK
<1>3. /\ copying' \in [Writers -> Analyses \union {Nothing}]
      /\ copying'["server"] = Nothing \/ copying' = copying
      /\ \A w \in Writers : copying'[w] \in {Nothing, copying[w]}
      /\ (\E a \in S : analysis[a] = "mirror") => copying'["server"] = Nothing
  BY DEF EndAnalyses, PublicationTypeOK, Writers
<1>4. /\ behind' \subseteq {"mirror", "latest"} /\ behind \subseteq behind'
      /\ (\E a \in S : analysis[a] = "mirror") => "mirror" \in behind'
      /\ (\E a \in S : analysis[a] \in {"mirror", "receipts"}) => "latest" \in behind'
      /\ UNCHANGED <<active, mirror, latest, projectionRecovery>>
  BY DEF EndAnalyses, PublicationTypeOK
<1>5. PublicationTypeOK'
  BY <1>1, <1>2, <1>3, <1>4 DEF PublicationTypeOK
<1>6. OneIsBusy'
  BY <1>1 DEF OneIsBusy
<1>7. ServerCopies'
  BY <1>1, <1>3 DEF ServerCopies
<1>8. DatabaseFollows'
  BY <1>1, <1>3, <1>4 DEF DatabaseFollows
<1>9. ReceiptFollows'
  BY <1>1, <1>4 DEF ReceiptFollows
<1> QED
  BY <1>5, <1>6, <1>7, <1>8, <1>9

LEMMA AnalysisStep ==
    ASSUME PublicationInv, NEW a \in Analyses,
           \/ Analyze(a) \/ StageProjection(a) \/ CommitProjection(a) \/ Mirror(a)
           \/ WriteReceipts(a) \/ AnalysisFails(a)
    PROVE  PublicationInv'
<1> USE DEF PublicationInv
<1>1. CASE Analyze(a)
  BY <1>1 DEF Analyze, AnalysisTo, PublicationTypeOK, OneIsBusy, ServerCopies, DatabaseFollows,
              ReceiptFollows
<1>2. CASE StageProjection(a)
  BY <1>2 DEF StageProjection, AnalysisTo, Busy, PublicationTypeOK, OneIsBusy, ServerCopies,
              DatabaseFollows, ReceiptFollows
<1>3. CASE CommitProjection(a)
  <2>1. /\ stagedProjections' \subseteq Analyses /\ publishedProjections' \subseteq Analyses
        /\ active' = a /\ analysis[a] = "staged" /\ analysis' = [analysis EXCEPT ![a] = "mirror"]
        /\ UNCHANGED <<copying, mirror, latest, projectionRecovery>>
    BY <1>3, RenameTypes DEF CommitProjection, Commit, AnalysisTo
  <2>2. \A b \in Analyses \ {a} : analysis[b] \notin {"staged", "mirror", "receipts"}
    BY <2>1 DEF OneIsBusy
  <2>3. copying["server"] = Nothing
    BY <2>1, <2>2 DEF ServerCopies
  <2>4. /\ behind' \subseteq {"mirror", "latest"}
        /\ "latest" \in behind' <=> "latest" \in behind
        /\ "mirror" \notin behind' => copying["recovery"] = Nothing
    BY <1>3 DEF CommitProjection, PublicationTypeOK
  <2>5. PublicationTypeOK'
    BY <2>1, <2>4 DEF PublicationTypeOK
  <2>6. OneIsBusy' /\ ServerCopies'
    BY <2>1, <2>2, <2>3 DEF OneIsBusy, ServerCopies, PublicationTypeOK
  <2>7. DatabaseFollows'
    BY <2>1, <2>3, <2>4 DEF DatabaseFollows, Writers, PublicationTypeOK
  <2>8. ReceiptFollows'
    BY <2>1, <2>2, <2>4 DEF ReceiptFollows, PublicationTypeOK
  <2> QED
    BY <2>5, <2>6, <2>7, <2>8
<1>4. CASE Mirror(a)
  <2>1. /\ analysis[a] = "mirror" /\ "server" \in Writers
        /\ UNCHANGED <<stagedProjections, publishedProjections, active, latest,
                       projectionRecovery>>
    BY <1>4 DEF Mirror, Writers
  <2>2. CASE ReadProjection("server") /\ UNCHANGED <<mirror, behind, analysis>>
    <3>1. /\ copying' \in [Writers -> Analyses \union {Nothing}]
          /\ copying'["server"] = active
          /\ \A v \in Writers \ {"server"} : copying'[v] = copying[v]
      BY <2>1, <2>2, ReadingFacts
    <3>2. PublicationTypeOK' /\ OneIsBusy' /\ ServerCopies' /\ ReceiptFollows'
      BY <2>1, <2>2, <3>1 DEF PublicationTypeOK, OneIsBusy, ServerCopies, ReceiptFollows
    <3>3. DatabaseFollows'
      BY <2>1, <2>2, <3>1 DEF DatabaseFollows
    <3> QED
      BY <3>2, <3>3
  <2>3. CASE WriteMirror("server") /\ AnalysisTo(a, "receipts")
    <3>1. /\ copying' \in [Writers -> Analyses \union {Nothing}]
          /\ mirror' = copying["server"] /\ mirror' \in Analyses
          /\ copying'["server"] = Nothing
          /\ \A v \in Writers \ {"server"} : copying'[v] = copying[v]
          /\ behind' \subseteq {"mirror", "latest"}
          /\ "latest" \in behind' <=> "latest" \in behind
          /\ \/ behind' = behind
             \/ \A v \in Writers : copying[v] \in {active, Nothing}
      BY <2>1, <2>3, WritingFacts
    <3>2. analysis' = [analysis EXCEPT ![a] = "receipts"]
      BY <2>3 DEF AnalysisTo
    <3>3. PublicationTypeOK' /\ OneIsBusy' /\ ServerCopies' /\ ReceiptFollows'
      BY <2>1, <3>1, <3>2 DEF PublicationTypeOK, OneIsBusy, ServerCopies, ReceiptFollows
    <3>4. "mirror" \notin behind' => \A v \in Writers : copying[v] \in {active, Nothing}
      BY <3>1 DEF DatabaseFollows
    <3>5. DatabaseFollows'
      BY <2>1, <3>1, <3>4, NothingAssumption DEF DatabaseFollows
    <3> QED
      BY <3>3, <3>5
  <2> QED
    BY <1>4, <2>2, <2>3 DEF Mirror
<1>5. CASE WriteReceipts(a)
  <2>1. /\ analysis[a] = "receipts" /\ analysis' = [analysis EXCEPT ![a] = "over"] /\ latest' = a
        /\ behind' = IF active = a THEN behind \ {"latest"} ELSE behind
        /\ UNCHANGED <<stagedProjections, publishedProjections, active, copying, mirror,
                       projectionRecovery>>
    BY <1>5 DEF WriteReceipts, AnalysisTo
  <2>2. \A b \in Analyses \ {a} : analysis[b] \notin {"staged", "mirror", "receipts"}
    BY <2>1 DEF OneIsBusy
  <2>3. PublicationTypeOK' /\ OneIsBusy' /\ ServerCopies'
    BY <2>1 DEF PublicationTypeOK, OneIsBusy, ServerCopies
  <2>4. DatabaseFollows'
    BY <2>1 DEF DatabaseFollows, PublicationTypeOK
  <2>5. "latest" \notin behind' => active = a
    BY <2>1 DEF ReceiptFollows
  <2>6. ReceiptFollows'
    BY <2>1, <2>2, <2>5 DEF ReceiptFollows, PublicationTypeOK
  <2> QED
    BY <2>3, <2>4, <2>6
<1>6. CASE AnalysisFails(a)
  BY <1>6, EndAnalysesStep DEF AnalysisFails
<1> QED
  BY <1>1, <1>2, <1>3, <1>4, <1>5, <1>6

LEMMA ProjectionRecoveryStep ==
    ASSUME PublicationInv,
           \/ StartProjectionRecovery \/ RecoverMirror \/ EndProjectionRecovery
           \/ CleanupProjections \/ \E a \in Analyses : RecoverProjection(a)
    PROVE  PublicationInv'
<1> USE DEF PublicationInv
<1> DEFINE RecoveryStates == [at : {"idle", "activating", "mirroring"}, listed : SUBSET Analyses]
<1>1. CASE StartProjectionRecovery
  <2>1. projectionRecovery' \in RecoveryStates
    BY <1>1 DEF StartProjectionRecovery, PublicationTypeOK
  <2> QED
    BY <1>1, <2>1 DEF StartProjectionRecovery, PublicationTypeOK, OneIsBusy, ServerCopies,
                      DatabaseFollows, ReceiptFollows
<1>2. ASSUME NEW a \in Analyses, RecoverProjection(a)
      PROVE  PublicationInv'
  <2>1. projectionRecovery' \in RecoveryStates /\ UNCHANGED <<analysis, copying, mirror, latest>>
    BY <1>2 DEF RecoverProjection, PublicationTypeOK
  <2>2. CASE Commit(a) /\ behind' = {"mirror", "latest"}
    <3>1. /\ stagedProjections' \subseteq Analyses /\ publishedProjections' \subseteq Analyses
          /\ active' = a
      BY <2>2, RenameTypes DEF Commit
    <3>2. PublicationTypeOK'
      BY <2>1, <2>2, <3>1 DEF PublicationTypeOK
    <3> QED
      BY <2>1, <2>2, <3>2 DEF OneIsBusy, ServerCopies, DatabaseFollows, ReceiptFollows
  <2>3. CASE UNCHANGED <<stagedProjections, publishedProjections, active, behind>>
    BY <2>1, <2>3 DEF PublicationTypeOK, OneIsBusy, ServerCopies, DatabaseFollows, ReceiptFollows
  <2> QED
    BY <1>2, <2>2, <2>3 DEF RecoverProjection
<1>3. CASE RecoverMirror
  <2>1. /\ "recovery" \in Writers /\ "server" \in Writers \ {"recovery"}
        /\ UNCHANGED <<analysis, stagedProjections, publishedProjections, active, latest>>
    BY <1>3 DEF RecoverMirror, Writers
  <2>2. projectionRecovery' \in RecoveryStates
    BY <1>3 DEF RecoverMirror, PublicationTypeOK
  <2>3. CASE ReadProjection("recovery") /\ UNCHANGED <<mirror, behind>>
    <3>1. /\ copying' \in [Writers -> Analyses \union {Nothing}]
          /\ copying'["recovery"] = active
          /\ \A v \in Writers \ {"recovery"} : copying'[v] = copying[v]
      BY <2>1, <2>3, ReadingFacts
    <3>2. PublicationTypeOK' /\ OneIsBusy' /\ ServerCopies' /\ ReceiptFollows'
      BY <2>1, <2>2, <2>3, <3>1 DEF PublicationTypeOK, OneIsBusy, ServerCopies, ReceiptFollows
    <3>3. DatabaseFollows'
      BY <2>1, <2>3, <3>1 DEF DatabaseFollows
    <3> QED
      BY <3>2, <3>3
  <2>4. CASE WriteMirror("recovery")
    <3>1. /\ copying' \in [Writers -> Analyses \union {Nothing}]
          /\ mirror' = copying["recovery"] /\ mirror' \in Analyses
          /\ copying'["recovery"] = Nothing
          /\ \A v \in Writers \ {"recovery"} : copying'[v] = copying[v]
          /\ behind' \subseteq {"mirror", "latest"}
          /\ "latest" \in behind' <=> "latest" \in behind
          /\ \/ behind' = behind
             \/ \A v \in Writers : copying[v] \in {active, Nothing}
      BY <2>1, <2>4, WritingFacts
    <3>2. PublicationTypeOK' /\ OneIsBusy' /\ ServerCopies' /\ ReceiptFollows'
      BY <2>1, <2>2, <3>1 DEF PublicationTypeOK, OneIsBusy, ServerCopies, ReceiptFollows
    <3>3. "mirror" \notin behind' => \A v \in Writers : copying[v] \in {active, Nothing}
      BY <3>1 DEF DatabaseFollows
    <3>4. DatabaseFollows'
      BY <2>1, <3>1, <3>3, NothingAssumption DEF DatabaseFollows
    <3> QED
      BY <3>2, <3>4
  <2> QED
    BY <1>3, <2>3, <2>4 DEF RecoverMirror
<1>4. CASE EndProjectionRecovery
  <2>1. /\ projectionRecovery' \in RecoveryStates
        /\ stagedProjections' \subseteq Analyses /\ publishedProjections' \subseteq Analyses
    BY <1>4, RenameTypes DEF EndProjectionRecovery, PublicationTypeOK
  <2>2. /\ copying' \in [Writers -> Analyses \union {Nothing}]
        /\ copying'["server"] = copying["server"]
        /\ \A w \in Writers : copying'[w] \in {Nothing, copying[w]}
        /\ UNCHANGED <<analysis, active, mirror, latest, behind>>
    BY <1>4 DEF EndProjectionRecovery, PublicationTypeOK, Writers
  <2> QED
    BY <2>1, <2>2 DEF PublicationTypeOK, OneIsBusy, ServerCopies, DatabaseFollows, ReceiptFollows
<1>5. CASE CleanupProjections
  BY <1>5 DEF CleanupProjections, PublicationTypeOK, OneIsBusy, ServerCopies, DatabaseFollows,
              ReceiptFollows
<1> QED
  BY <1>1, <1>2, <1>3, <1>4, <1>5

LEMMA PublicationInvStep ==
    ASSUME PublicationInv, [PublicationNext]_publicationVars
    PROVE  PublicationInv'
<1>1. CASE UNCHANGED publicationVars
  BY <1>1 DEF publicationVars, PublicationInv, PublicationTypeOK, OneIsBusy, ServerCopies,
              DatabaseFollows, ReceiptFollows
<1>2. CASE KillServer
  <2>1. PICK S \in SUBSET Analyses : EndAnalyses(S)
    BY <1>2 DEF KillServer
  <2> QED
    BY <2>1, EndAnalysesStep
<1> QED
  BY <1>1, <1>2, AnalysisStep, ProjectionRecoveryStep DEF PublicationNext

LEMMA PublicationInvariant == PublicationSpec => []PublicationInv
BY PublicationInvInit, PublicationInvStep, PTL DEF PublicationSpec

--------------------------------------------------------------------------------
\* The analyses, the pointer and its mirrors keep their types.
THEOREM PublicationTypes == PublicationSpec => []PublicationTypeOK
BY PublicationInvariant, PTL DEF PublicationInv

\* Once a mirror is written undisturbed, it names the generation of the pointer until a
\* step is cut short or another process commits.
THEOREM PublicationMirrorsFollow == PublicationSpec => []MirrorsFollowThePointer
<1>1. PublicationInv => MirrorsFollowThePointer
  BY DEF PublicationInv, DatabaseFollows, ReceiptFollows, MirrorsFollowThePointer
<1> QED
  BY <1>1, PublicationInvariant, PTL
================================================================================
