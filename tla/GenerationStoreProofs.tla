------------------------ MODULE GenerationStoreProofs ------------------------
(***************************************************************************)
(* Proofs about GenerationStore for any number of processes, generations   *)
(* and names: type correctness, and under SingleMaintainer that the        *)
(* pointer always resolves, that the store implements ActiveGeneration,    *)
(* and that recovery and cleanup leave nothing behind.                     *)
(***************************************************************************)
EXTENDS GenerationStore, TLAPS

(***************************************************************************)
(* First level, for any roles: types, and what each process has in hand.   *)
(***************************************************************************)

StageLabels    == {"build", "verifyBuilt", "manifest"}
ActivateLabels == {"activate", "exists", "verifyExisting", "publish", "link", "flip"}
CleanupLabels  == {"listGens", "cleanGens", "dropGen", "cleanDirs", "debris"}
RemoveLabels   == {"discard", "discarded"}

DirLabels == StageLabels \union {"activate", "exists", "verifyExisting", "publish"}
                         \union RemoveLabels
GenLabels == ActivateLabels \union {"verifyBuilt", "manifest", "resolve", "listGens", "dropGen"}

\* A process has the directory, the generation, the temporary and the return
\* point that its next call uses.
InHand == \A p \in Procs :
             /\ pc[p] \in DirLabels => dir[p] \in Staging
             /\ pc[p] \in GenLabels => gen[p] \in Generations
             /\ pc[p] = "flip" => temp[p] \in Temps
             /\ pc[p] \in RemoveLabels => ret[p] # "none"
             /\ pc[p] \in RemoveLabels /\ ret[p] = "link" => gen[p] \in Generations

\* A staging directory that was built makes up a generation.
StagedGenerations ==
    \A s \in Staging : stagingState[s] \in {"built", "complete"} => stagingGen[s] \in Generations

TypeInv == TypeOK /\ InHand /\ StagedGenerations

(***************************************************************************)
(* Second level, under SingleMaintainer.  PointerResolvable alone is not   *)
(* inductive: a flip needs its generation to be published still, a removal *)
(* needs its list to exclude the pointer, and both need to know that no    *)
(* other process is doing the opposite at that moment.                     *)
(***************************************************************************)

\* A process only runs operations of its role, and each program point belongs
\* to the operations that pass through it.
RolesRespected ==
    \A p \in Procs :
       /\ job[p] = "provision" => p \in Provisioners
       /\ job[p] = "recover" => p \in Recoverers
       /\ job[p] = "cleanup" => p \in Cleaners
       /\ job[p] \in {"none", "read"} => dir[p] = None /\ pc[p] \in {"idle", "resolve"}
       /\ pc[p] \in StageLabels \union ActivateLabels => job[p] \in {"provision", "recover"}
       /\ pc[p] \in StageLabels => job[p] = "provision"
       /\ pc[p] = "recoverNext" => job[p] = "recover"
       /\ pc[p] = "resolve" => job[p] \in {"read", "cleanup"}
       /\ pc[p] \in CleanupLabels => job[p] = "cleanup"
       /\ pc[p] = "idle" => job[p] = "none"
       /\ pc[p] \in RemoveLabels =>
             \/ ret[p] = "throw" /\ job[p] = "provision"
             \/ ret[p] = "link" /\ job[p] \in {"provision", "recover"}
             \/ ret[p] = "recoverNext" /\ job[p] = "recover"
             \/ ret[p] = "cleanDirs" /\ job[p] = "cleanup"

\* A staging directory is in the hands of one process, a temporary likewise.
OneHolder == \A p, q \in Procs : p # q /\ dir[p] # None => dir[p] # dir[q]
OneTemp == \A p, q \in Procs : p # q /\ pc[p] = "flip" /\ pc[q] = "flip" => temp[p] # temp[q]

\* What an activation has established at each of its points.
ActivationPoint ==
    \A p \in Procs :
       /\ pc[p] \in {"exists", "verifyExisting", "publish"} => stagingState[dir[p]] = "complete"
       /\ pc[p] \in {"link", "flip"} => published[gen[p]] = "complete"
       /\ pc[p] \in RemoveLabels /\ ret[p] = "link" => published[gen[p]] = "complete"
       /\ pc[p] = "flip" => temps[temp[p]] = gen[p]

\* What a cleanup has established at each of its points.
CleanupPoint ==
    \A p \in Procs :
       /\ pc[p] = "resolve" /\ job[p] = "cleanup" => gen[p] = pointer
       /\ pc[p] = "listGens" => gen[p] = pointer
       /\ pc[p] \in {"listGens", "cleanGens", "dropGen"} => pointer # None
       /\ pc[p] \in {"cleanGens", "dropGen"} => pointer \notin todo[p]
       /\ pc[p] = "dropGen" => gen[p] # pointer

TornHasPointer == \A g \in Generations : published[g] = "torn" => pointer # None

ProtocolInv == /\ RolesRespected
               /\ OneHolder
               /\ OneTemp
               /\ ActivationPoint
               /\ CleanupPoint
               /\ TornHasPointer
               /\ PointerResolvable

\* Every step preserves the types; what a process has in hand keeps EXCEPT inside
\* its domains.
LEMMA TypeStep ==
    ASSUME TypeInv, [Next]_vars
    PROVE  TypeOK'
<1> USE DEF TypeInv, TypeOK, InHand, DirLabels, GenLabels, StageLabels,
          ActivateLabels, CleanupLabels, RemoveLabels, disk, locals, Goto, Finish,
          Throw, Discard, Visit, StagingStates, PublishedStates, Outcomes, Labels,
          Jobs, Returns
<1>1. CASE UNCHANGED vars
  BY <1>1 DEF vars
<1>2. ASSUME NEW p \in Procs, Begin(p) PROVE TypeOK'
  <2>1. CASE StageMkdir(p)
    BY <2>1 DEF StageMkdir, FreshStaging
  <2>2. CASE RecoverStart(p)
    BY <2>2 DEF RecoverStart, Present
  <2>3. CASE CleanupStart(p)
    <3>1. CASE pointer = None
      BY <2>3, <3>1 DEF CleanupStart, ReadStart
    <3>2. CASE ~(pointer = None)
      BY <2>3, <3>2 DEF CleanupStart, ReadStart
    <3> QED
      BY <3>1, <3>2
  <2>4. CASE Read(p)
    <3>1. CASE pointer = None
      BY <2>4, <3>1 DEF Read, ReadStart
    <3>2. CASE ~(pointer = None)
      BY <2>4, <3>2 DEF Read, ReadStart
    <3> QED
      BY <3>1, <3>2
  <2> QED
    BY <1>2, <2>1, <2>2, <2>3, <2>4 DEF Begin
<1>3. ASSUME NEW p \in Procs, Stage(p) PROVE TypeOK'
  BY <1>3 DEF Stage, StageBuild, StageBuildFails, StageVerify, StageManifest, Present
<1>4. ASSUME NEW p \in Procs, Activate(p) PROVE TypeOK'
  <2>1. CASE ActivateVerify(p)
    <3>1. CASE stagingState[dir[p]] = "complete"
      BY <2>1, <3>1 DEF ActivateVerify
    <3>2. CASE ~(stagingState[dir[p]] = "complete")
      <4>1. Finish(p, "failed") /\ UNCHANGED <<stagingState, stagingGen, published, pointer, temps>>
        BY <2>1, <3>2 DEF ActivateVerify
      <4> QED
        BY <4>1
    <3> QED
      BY <3>1, <3>2
  <2>2. CASE ActivateExists(p)
    BY <2>2 DEF ActivateExists
  <2>3. CASE ActivateVerifyExisting(p)
    <3>1. CASE published[gen[p]] = "complete"
      BY <2>3, <3>1 DEF ActivateVerifyExisting
    <3>2. CASE ~(published[gen[p]] = "complete")
      BY <2>3, <3>2 DEF ActivateVerifyExisting
    <3> QED
      BY <3>1, <3>2
  <2>4. CASE ActivatePublish(p)
    <3>1. CASE Present(dir[p]) /\ published[gen[p]] = "absent"
      BY <2>4, <3>1 DEF ActivatePublish, Present
    <3>2. CASE ~(Present(dir[p]) /\ published[gen[p]] = "absent")
      <4>1. Finish(p, "failed") /\ UNCHANGED <<stagingState, stagingGen, published, pointer, temps>>
        BY <2>4, <3>2 DEF ActivatePublish
      <4> QED
        BY <4>1
    <3> QED
      BY <3>1, <3>2
  <2>5. CASE ActivateLink(p)
    BY <2>5 DEF ActivateLink, FreshTemp
  <2>6. CASE ActivateFlip(p)
    <3>1. CASE temps[temp[p]] # None /\ job[p] = "recover"
      BY <2>6, <3>1 DEF ActivateFlip
    <3>2. CASE temps[temp[p]] # None /\ job[p] # "recover"
      <4>1. pointer' \in Generations \union {None} /\ temps' \in [Temps -> Generations \union {None}]
        BY <2>6, <3>2 DEF ActivateFlip
      <4>2. Finish(p, "ok") /\ UNCHANGED <<stagingState, stagingGen, published>>
        BY <2>6, <3>2 DEF ActivateFlip
      <4> QED
        BY <4>1, <4>2
    <3>3. CASE temps[temp[p]] = None
      <4>1. Finish(p, "failed") /\ UNCHANGED <<stagingState, stagingGen, published, pointer, temps>>
        BY <2>6, <3>3 DEF ActivateFlip
      <4> QED
        BY <4>1
    <3> QED
      BY <3>1, <3>2, <3>3
  <2> QED
    BY <1>4, <2>1, <2>2, <2>3, <2>4, <2>5, <2>6 DEF Activate
<1>5. ASSUME NEW p \in Procs, DiscardTear(p) \/ DiscardDrop(p) PROVE TypeOK'
  <2>1. CASE DiscardTear(p)
    BY <2>1 DEF DiscardTear, Present
  <2>2. CASE DiscardDrop(p)
    <3>1. CASE ret[p] = "throw"
      <4>1. /\ stagingState' \in [Staging -> StagingStates]
            /\ stagingGen' \in [Staging -> Generations \union {None}]
        BY <2>2 DEF DiscardDrop
      <4>2. Finish(p, "failed") /\ UNCHANGED <<published, pointer, temps>>
        BY <2>2, <3>1 DEF DiscardDrop
      <4> QED
        BY <4>1, <4>2
    <3>2. CASE ~(ret[p] = "throw")
      BY <2>2, <3>2 DEF DiscardDrop
    <3> QED
      BY <3>1, <3>2
  <2> QED
    BY <1>5, <2>1, <2>2
<1>6. ASSUME NEW p \in Procs, Recover(p) PROVE TypeOK'
  <2>1. CASE RecoverInspect(p)
    BY <2>1 DEF RecoverInspect
  <2>2. CASE RecoverDone(p)
    BY <2>2 DEF RecoverDone
  <2> QED
    BY <1>6, <2>1, <2>2 DEF Recover
<1>7. ASSUME NEW p \in Procs, Cleanup(p) PROVE TypeOK'
  <2>1. CASE CleanupResolve(p)
    <3>1. CASE Resolution(gen[p]) = "ACTIVE"
      BY <2>1, <3>1 DEF CleanupResolve
    <3>2. CASE ~(Resolution(gen[p]) = "ACTIVE")
      BY <2>1, <3>2 DEF CleanupResolve
    <3> QED
      BY <3>1, <3>2
  <2>2. CASE CleanupListGenerations(p)
    BY <2>2 DEF CleanupListGenerations
  <2>3. CASE CleanupTearGeneration(p)
    BY <2>3 DEF CleanupTearGeneration
  <2>4. CASE CleanupDropGeneration(p)
    BY <2>4 DEF CleanupDropGeneration
  <2>5. CASE CleanupListStaging(p)
    BY <2>5 DEF CleanupListStaging, Present
  <2>6. CASE CleanupStaging(p)
    BY <2>6 DEF CleanupStaging
  <2>7. CASE CleanupListDebris(p)
    BY <2>7 DEF CleanupListDebris
  <2>8. CASE CleanupDebris(p)
    BY <2>8 DEF CleanupDebris
  <2>9. CASE CleanupDone(p)
    BY <2>9 DEF CleanupDone
  <2> QED
    BY <1>7, <2>1, <2>2, <2>3, <2>4, <2>5, <2>6, <2>7, <2>8, <2>9 DEF Cleanup
<1>8. ASSUME NEW p \in Procs, ReadResolve(p) PROVE TypeOK'
  BY <1>8 DEF ReadResolve, Resolution
<1>9. ASSUME NEW p \in Procs, Kill(p) PROVE TypeOK'
  BY <1>9 DEF Kill
<1> QED
  BY <1>1, <1>2, <1>3, <1>4, <1>5, <1>6, <1>7, <1>8, <1>9 DEF Next, Continue

\* Every step leaves its process with what the next one uses.
LEMMA InHandStep ==
    ASSUME TypeInv, [Next]_vars
    PROVE  InHand'
<1> USE DEF TypeInv, TypeOK, InHand, DirLabels, GenLabels, StageLabels,
          ActivateLabels, CleanupLabels, RemoveLabels, disk, locals, Goto, Finish,
          Throw, Discard, Visit, StagingStates, PublishedStates, Outcomes, Labels,
          Jobs, Returns, StagedGenerations
<1>1. CASE UNCHANGED vars
  BY <1>1 DEF vars
<1>2. ASSUME NEW p \in Procs, Begin(p) PROVE InHand'
  BY <1>2 DEF Begin, StageMkdir, FreshStaging, RecoverStart, Present, CleanupStart,
         ReadStart, Read
<1>3. ASSUME NEW p \in Procs, Stage(p) PROVE InHand'
  BY <1>3 DEF Stage, StageBuild, StageBuildFails, StageVerify, StageManifest, Present
<1>4. ASSUME NEW p \in Procs, Activate(p) PROVE InHand'
  BY <1>4 DEF Activate, ActivateVerify, ActivateExists, ActivateVerifyExisting,
         ActivatePublish, Present, ActivateLink, FreshTemp, ActivateFlip
<1>5. ASSUME NEW p \in Procs, DiscardTear(p) \/ DiscardDrop(p) PROVE InHand'
  BY <1>5 DEF DiscardTear, Present, DiscardDrop
<1>6. ASSUME NEW p \in Procs, Recover(p) PROVE InHand'
  BY <1>6 DEF Recover, RecoverInspect, RecoverDone
<1>7. ASSUME NEW p \in Procs, Cleanup(p) PROVE InHand'
  BY <1>7 DEF Cleanup, CleanupResolve, CleanupListGenerations, CleanupTearGeneration,
         CleanupDropGeneration, CleanupListStaging, Present, CleanupStaging,
         CleanupListDebris, CleanupDebris, CleanupDone
<1>8. ASSUME NEW p \in Procs, ReadResolve(p) PROVE InHand'
  BY <1>8 DEF ReadResolve, Resolution
<1>9. ASSUME NEW p \in Procs, Kill(p) PROVE InHand'
  BY <1>9 DEF Kill
<1> QED
  BY <1>1, <1>2, <1>3, <1>4, <1>5, <1>6, <1>7, <1>8, <1>9 DEF Next, Continue

\* Every step keeps a built staging directory bound to a generation.
LEMMA StagedStep ==
    ASSUME TypeInv, [Next]_vars
    PROVE  StagedGenerations'
<1> USE DEF TypeInv, TypeOK, InHand, DirLabels, GenLabels, StageLabels,
          ActivateLabels, CleanupLabels, RemoveLabels, disk, locals, Goto, Finish,
          Throw, Discard, Visit, StagingStates, PublishedStates, Outcomes, Labels,
          Jobs, Returns, StagedGenerations
<1>1. CASE UNCHANGED vars
  BY <1>1 DEF vars
<1>2. ASSUME NEW p \in Procs, Begin(p) PROVE StagedGenerations'
  BY <1>2 DEF Begin, StageMkdir, FreshStaging, RecoverStart, Present, CleanupStart,
         ReadStart, Read
<1>3. ASSUME NEW p \in Procs, Stage(p) PROVE StagedGenerations'
  BY <1>3 DEF Stage, StageBuild, StageBuildFails, StageVerify, StageManifest, Present
<1>4. ASSUME NEW p \in Procs, Activate(p) PROVE StagedGenerations'
  BY <1>4 DEF Activate, ActivateVerify, ActivateExists, ActivateVerifyExisting,
         ActivatePublish, Present, ActivateLink, FreshTemp, ActivateFlip
<1>5. ASSUME NEW p \in Procs, DiscardTear(p) \/ DiscardDrop(p) PROVE StagedGenerations'
  BY <1>5 DEF DiscardTear, Present, DiscardDrop
<1>6. ASSUME NEW p \in Procs, Recover(p) PROVE StagedGenerations'
  BY <1>6 DEF Recover, RecoverInspect, RecoverDone
<1>7. ASSUME NEW p \in Procs, Cleanup(p) PROVE StagedGenerations'
  BY <1>7 DEF Cleanup, CleanupResolve, CleanupListGenerations, CleanupTearGeneration,
         CleanupDropGeneration, CleanupListStaging, Present, CleanupStaging,
         CleanupListDebris, CleanupDebris, CleanupDone
<1>8. ASSUME NEW p \in Procs, ReadResolve(p) PROVE StagedGenerations'
  BY <1>8 DEF ReadResolve, Resolution
<1>9. ASSUME NEW p \in Procs, Kill(p) PROVE StagedGenerations'
  BY <1>9 DEF Kill
<1> QED
  BY <1>1, <1>2, <1>3, <1>4, <1>5, <1>6, <1>7, <1>8, <1>9 DEF Next, Continue

\* Every step stays inside the operation its process is running.
LEMMA RolesStep ==
    ASSUME TypeInv, RolesRespected, [Next]_vars
    PROVE  RolesRespected'
<1> USE DEF TypeInv, TypeOK, InHand, DirLabels, GenLabels, StageLabels,
          ActivateLabels, CleanupLabels, RemoveLabels, disk, locals, Goto, Finish,
          Throw, Discard, Visit, StagingStates, PublishedStates, Outcomes, Labels,
          Jobs, Returns, RolesRespected
<1>1. CASE UNCHANGED vars
  BY <1>1 DEF vars
<1>2. ASSUME NEW p \in Procs, Begin(p) PROVE RolesRespected'
  BY <1>2 DEF Begin, StageMkdir, FreshStaging, RecoverStart, Present, CleanupStart,
         ReadStart, Read
<1>3. ASSUME NEW p \in Procs, Stage(p) PROVE RolesRespected'
  BY <1>3 DEF Stage, StageBuild, StageBuildFails, StageVerify, StageManifest, Present
<1>4. ASSUME NEW p \in Procs, Activate(p) PROVE RolesRespected'
  BY <1>4 DEF Activate, ActivateVerify, ActivateExists, ActivateVerifyExisting,
         ActivatePublish, Present, ActivateLink, FreshTemp, ActivateFlip
<1>5. ASSUME NEW p \in Procs, DiscardTear(p) \/ DiscardDrop(p) PROVE RolesRespected'
  BY <1>5 DEF DiscardTear, Present, DiscardDrop
<1>6. ASSUME NEW p \in Procs, Recover(p) PROVE RolesRespected'
  BY <1>6 DEF Recover, RecoverInspect, RecoverDone
<1>7. ASSUME NEW p \in Procs, Cleanup(p) PROVE RolesRespected'
  BY <1>7 DEF Cleanup, CleanupResolve, CleanupListGenerations, CleanupTearGeneration,
         CleanupDropGeneration, CleanupListStaging, Present, CleanupStaging,
         CleanupListDebris, CleanupDebris, CleanupDone
<1>8. ASSUME NEW p \in Procs, ReadResolve(p) PROVE RolesRespected'
  BY <1>8 DEF ReadResolve, Resolution
<1>9. ASSUME NEW p \in Procs, Kill(p) PROVE RolesRespected'
  BY <1>9 DEF Kill
<1> QED
  BY <1>1, <1>2, <1>3, <1>4, <1>5, <1>6, <1>7, <1>8, <1>9 DEF Next, Continue

\* A fresh name is held by nobody, and only the single maintainer ever takes up a
\* directory it has listed.
LEMMA HolderStep ==
    ASSUME SingleMaintainer, TypeInv, ProtocolInv, [Next]_vars
    PROVE  OneHolder'
<1> USE DEF TypeInv, TypeOK, InHand, DirLabels, GenLabels, StageLabels,
          ActivateLabels, CleanupLabels, RemoveLabels, disk, locals, Goto, Finish,
          Throw, Discard, Visit, StagingStates, PublishedStates, Outcomes, Labels,
          Jobs, Returns, ProtocolInv, RolesRespected, OneHolder, SingleMaintainer
<1>1. CASE UNCHANGED vars
  BY <1>1 DEF vars
<1>2. ASSUME NEW p \in Procs, Begin(p) PROVE OneHolder'
  BY <1>2 DEF Begin, StageMkdir, FreshStaging, RecoverStart, Present, CleanupStart,
         ReadStart, Read
<1>3. ASSUME NEW p \in Procs, Stage(p) PROVE OneHolder'
  BY <1>3 DEF Stage, StageBuild, StageBuildFails, StageVerify, StageManifest, Present
<1>4. ASSUME NEW p \in Procs, Activate(p) PROVE OneHolder'
  BY <1>4 DEF Activate, ActivateVerify, ActivateExists, ActivateVerifyExisting,
         ActivatePublish, Present, ActivateLink, FreshTemp, ActivateFlip
<1>5. ASSUME NEW p \in Procs, DiscardTear(p) \/ DiscardDrop(p) PROVE OneHolder'
  BY <1>5 DEF DiscardTear, Present, DiscardDrop
<1>6. ASSUME NEW p \in Procs, Recover(p) PROVE OneHolder'
  <2>1. CASE RecoverInspect(p)
    BY <2>1 DEF RecoverInspect
  <2>2. CASE RecoverDone(p)
    BY <2>2 DEF RecoverDone
  <2> QED
    BY <1>6, <2>1, <2>2 DEF Recover
<1>7. ASSUME NEW p \in Procs, Cleanup(p) PROVE OneHolder'
  BY <1>7 DEF Cleanup, CleanupResolve, CleanupListGenerations, CleanupTearGeneration,
         CleanupDropGeneration, CleanupListStaging, Present, CleanupStaging,
         CleanupListDebris, CleanupDebris, CleanupDone
<1>8. ASSUME NEW p \in Procs, ReadResolve(p) PROVE OneHolder'
  BY <1>8 DEF ReadResolve, Resolution
<1>9. ASSUME NEW p \in Procs, Kill(p) PROVE OneHolder'
  BY <1>9 DEF Kill
<1> QED
  BY <1>1, <1>2, <1>3, <1>4, <1>5, <1>6, <1>7, <1>8, <1>9 DEF Next, Continue

\* A fresh pointer temporary is held by nobody.
LEMMA TempStep ==
    ASSUME TypeInv, OneTemp, [Next]_vars
    PROVE  OneTemp'
<1> USE DEF TypeInv, TypeOK, InHand, DirLabels, GenLabels, StageLabels,
          ActivateLabels, CleanupLabels, RemoveLabels, disk, locals, Goto, Finish,
          Throw, Discard, Visit, StagingStates, PublishedStates, Outcomes, Labels,
          Jobs, Returns, OneTemp
<1>1. CASE UNCHANGED vars
  BY <1>1 DEF vars
<1>2. ASSUME NEW p \in Procs, Begin(p) PROVE OneTemp'
  BY <1>2 DEF Begin, StageMkdir, FreshStaging, RecoverStart, Present, CleanupStart,
         ReadStart, Read
<1>3. ASSUME NEW p \in Procs, Stage(p) PROVE OneTemp'
  BY <1>3 DEF Stage, StageBuild, StageBuildFails, StageVerify, StageManifest, Present
<1>4. ASSUME NEW p \in Procs, Activate(p) PROVE OneTemp'
  BY <1>4 DEF Activate, ActivateVerify, ActivateExists, ActivateVerifyExisting,
         ActivatePublish, Present, ActivateLink, FreshTemp, ActivateFlip
<1>5. ASSUME NEW p \in Procs, DiscardTear(p) \/ DiscardDrop(p) PROVE OneTemp'
  BY <1>5 DEF DiscardTear, Present, DiscardDrop
<1>6. ASSUME NEW p \in Procs, Recover(p) PROVE OneTemp'
  BY <1>6 DEF Recover, RecoverInspect, RecoverDone
<1>7. ASSUME NEW p \in Procs, Cleanup(p) PROVE OneTemp'
  BY <1>7 DEF Cleanup, CleanupResolve, CleanupListGenerations, CleanupTearGeneration,
         CleanupDropGeneration, CleanupListStaging, Present, CleanupStaging,
         CleanupListDebris, CleanupDebris, CleanupDone
<1>8. ASSUME NEW p \in Procs, ReadResolve(p) PROVE OneTemp'
  BY <1>8 DEF ReadResolve, Resolution
<1>9. ASSUME NEW p \in Procs, Kill(p) PROVE OneTemp'
  BY <1>9 DEF Kill
<1> QED
  BY <1>1, <1>2, <1>3, <1>4, <1>5, <1>6, <1>7, <1>8, <1>9 DEF Next, Continue

\* No step undoes what a running activation has established: removals are the single
\* maintainer's, and a directory has one holder.
LEMMA ActivationStep ==
    ASSUME SingleMaintainer, TypeInv, ProtocolInv, [Next]_vars
    PROVE  ActivationPoint'
<1> USE DEF TypeInv, TypeOK, InHand, DirLabels, GenLabels, StageLabels,
          ActivateLabels, CleanupLabels, RemoveLabels, disk, locals, Goto, Finish,
          Throw, Discard, Visit, StagingStates, PublishedStates, Outcomes, Labels,
          Jobs, Returns, ProtocolInv, RolesRespected, OneHolder, OneTemp,
          ActivationPoint, SingleMaintainer
<1>1. CASE UNCHANGED vars
  BY <1>1 DEF vars
<1>2. ASSUME NEW p \in Procs, Begin(p) PROVE ActivationPoint'
  BY <1>2 DEF Begin, StageMkdir, FreshStaging, RecoverStart, Present, CleanupStart,
         ReadStart, Read
<1>3. ASSUME NEW p \in Procs, Stage(p) PROVE ActivationPoint'
  BY <1>3 DEF Stage, StageBuild, StageBuildFails, StageVerify, StageManifest, Present
<1>4. ASSUME NEW p \in Procs, Activate(p) PROVE ActivationPoint'
  <2>1. CASE ActivateVerify(p)
    BY <2>1 DEF ActivateVerify
  <2>2. CASE ActivateExists(p)
    BY <2>2 DEF ActivateExists
  <2>3. CASE ActivateVerifyExisting(p)
    BY <2>3 DEF ActivateVerifyExisting
  <2>4. CASE ActivatePublish(p)
    BY <2>4, NoneAssumption DEF ActivatePublish, Present
  <2>5. CASE ActivateLink(p)
    BY <2>5 DEF ActivateLink, FreshTemp
  <2>6. CASE ActivateFlip(p)
    BY <2>6 DEF ActivateFlip
  <2> QED
    BY <1>4, <2>1, <2>2, <2>3, <2>4, <2>5, <2>6 DEF Activate
<1>5. ASSUME NEW p \in Procs, DiscardTear(p) \/ DiscardDrop(p) PROVE ActivationPoint'
  <2>1. CASE DiscardTear(p)
    BY <2>1, NoneAssumption DEF DiscardTear, Present
  <2>2. CASE DiscardDrop(p)
    BY <2>2, NoneAssumption DEF DiscardDrop
  <2> QED
    BY <1>5, <2>1, <2>2
<1>6. ASSUME NEW p \in Procs, Recover(p) PROVE ActivationPoint'
  BY <1>6 DEF Recover, RecoverInspect, RecoverDone
<1>7. ASSUME NEW p \in Procs, Cleanup(p) PROVE ActivationPoint'
  <2>1. CASE CleanupResolve(p)
    BY <2>1 DEF CleanupResolve
  <2>2. CASE CleanupListGenerations(p)
    BY <2>2 DEF CleanupListGenerations
  <2>3. CASE CleanupTearGeneration(p)
    BY <2>3 DEF CleanupTearGeneration
  <2>4. CASE CleanupDropGeneration(p)
    BY <2>4 DEF CleanupDropGeneration
  <2>5. CASE CleanupListStaging(p)
    BY <2>5 DEF CleanupListStaging, Present
  <2>6. CASE CleanupStaging(p)
    BY <2>6 DEF CleanupStaging
  <2>7. CASE CleanupListDebris(p)
    BY <2>7 DEF CleanupListDebris
  <2>8. CASE CleanupDebris(p)
    BY <2>8 DEF CleanupDebris
  <2>9. CASE CleanupDone(p)
    BY <2>9 DEF CleanupDone
  <2> QED
    BY <1>7, <2>1, <2>2, <2>3, <2>4, <2>5, <2>6, <2>7, <2>8, <2>9 DEF Cleanup
<1>8. ASSUME NEW p \in Procs, ReadResolve(p) PROVE ActivationPoint'
  BY <1>8 DEF ReadResolve, Resolution
<1>9. ASSUME NEW p \in Procs, Kill(p) PROVE ActivationPoint'
  BY <1>9 DEF Kill
<1> QED
  BY <1>1, <1>2, <1>3, <1>4, <1>5, <1>6, <1>7, <1>8, <1>9 DEF Next, Continue

\* No step moves the pointer under a running cleanup.
LEMMA CleanupStep ==
    ASSUME SingleMaintainer, TypeInv, ProtocolInv, [Next]_vars
    PROVE  CleanupPoint'
<1> USE DEF TypeInv, TypeOK, InHand, DirLabels, GenLabels, StageLabels,
          ActivateLabels, CleanupLabels, RemoveLabels, disk, locals, Goto, Finish,
          Throw, Discard, Visit, StagingStates, PublishedStates, Outcomes, Labels,
          Jobs, Returns, ProtocolInv, RolesRespected, CleanupPoint, SingleMaintainer
<1>1. CASE UNCHANGED vars
  BY <1>1 DEF vars
<1>2. ASSUME NEW p \in Procs, Begin(p) PROVE CleanupPoint'
  BY <1>2 DEF Begin, StageMkdir, FreshStaging, RecoverStart, Present, CleanupStart,
         ReadStart, Read
<1>3. ASSUME NEW p \in Procs, Stage(p) PROVE CleanupPoint'
  BY <1>3 DEF Stage, StageBuild, StageBuildFails, StageVerify, StageManifest, Present
<1>4. ASSUME NEW p \in Procs, Activate(p) PROVE CleanupPoint'
  <2>1. CASE ActivateVerify(p)
    BY <2>1 DEF ActivateVerify
  <2>2. CASE ActivateExists(p)
    BY <2>2 DEF ActivateExists
  <2>3. CASE ActivateVerifyExisting(p)
    BY <2>3 DEF ActivateVerifyExisting
  <2>4. CASE ActivatePublish(p)
    BY <2>4 DEF ActivatePublish, Present
  <2>5. CASE ActivateLink(p)
    BY <2>5 DEF ActivateLink, FreshTemp
  <2>6. CASE ActivateFlip(p)
    BY <2>6 DEF ActivateFlip
  <2> QED
    BY <1>4, <2>1, <2>2, <2>3, <2>4, <2>5, <2>6 DEF Activate
<1>5. ASSUME NEW p \in Procs, DiscardTear(p) \/ DiscardDrop(p) PROVE CleanupPoint'
  BY <1>5 DEF DiscardTear, Present, DiscardDrop
<1>6. ASSUME NEW p \in Procs, Recover(p) PROVE CleanupPoint'
  BY <1>6 DEF Recover, RecoverInspect, RecoverDone
<1>7. ASSUME NEW p \in Procs, Cleanup(p) PROVE CleanupPoint'
  <2>1. CASE CleanupResolve(p)
    BY <2>1, NoneAssumption DEF CleanupResolve
  <2>2. CASE CleanupListGenerations(p)
    BY <2>2 DEF CleanupListGenerations
  <2>3. CASE CleanupTearGeneration(p)
    BY <2>3 DEF CleanupTearGeneration
  <2>4. CASE CleanupDropGeneration(p)
    BY <2>4 DEF CleanupDropGeneration
  <2>5. CASE CleanupListStaging(p)
    BY <2>5 DEF CleanupListStaging, Present
  <2>6. CASE CleanupStaging(p)
    BY <2>6 DEF CleanupStaging
  <2>7. CASE CleanupListDebris(p)
    BY <2>7 DEF CleanupListDebris
  <2>8. CASE CleanupDebris(p)
    BY <2>8 DEF CleanupDebris
  <2>9. CASE CleanupDone(p)
    BY <2>9 DEF CleanupDone
  <2> QED
    BY <1>7, <2>1, <2>2, <2>3, <2>4, <2>5, <2>6, <2>7, <2>8, <2>9 DEF Cleanup
<1>8. ASSUME NEW p \in Procs, ReadResolve(p) PROVE CleanupPoint'
  BY <1>8 DEF ReadResolve, Resolution
<1>9. ASSUME NEW p \in Procs, Kill(p) PROVE CleanupPoint'
  BY <1>9 DEF Kill
<1> QED
  BY <1>1, <1>2, <1>3, <1>4, <1>5, <1>6, <1>7, <1>8, <1>9 DEF Next, Continue

\* A generation is only torn by a cleanup, which has seen a pointer.
LEMMA TornStep ==
    ASSUME TypeInv, ProtocolInv, [Next]_vars
    PROVE  TornHasPointer'
<1> USE DEF TypeInv, TypeOK, InHand, DirLabels, GenLabels, StageLabels,
          ActivateLabels, CleanupLabels, RemoveLabels, disk, locals, Goto, Finish,
          Throw, Discard, Visit, StagingStates, PublishedStates, Outcomes, Labels,
          Jobs, Returns, ProtocolInv, ActivationPoint, CleanupPoint, TornHasPointer
<1>1. CASE UNCHANGED vars
  BY <1>1 DEF vars
<1>2. ASSUME NEW p \in Procs, Begin(p) PROVE TornHasPointer'
  BY <1>2 DEF Begin, StageMkdir, FreshStaging, RecoverStart, Present, CleanupStart,
         ReadStart, Read
<1>3. ASSUME NEW p \in Procs, Stage(p) PROVE TornHasPointer'
  BY <1>3 DEF Stage, StageBuild, StageBuildFails, StageVerify, StageManifest, Present
<1>4. ASSUME NEW p \in Procs, Activate(p) PROVE TornHasPointer'
  BY <1>4 DEF Activate, ActivateVerify, ActivateExists, ActivateVerifyExisting,
         ActivatePublish, Present, ActivateLink, FreshTemp, ActivateFlip
<1>5. ASSUME NEW p \in Procs, DiscardTear(p) \/ DiscardDrop(p) PROVE TornHasPointer'
  BY <1>5 DEF DiscardTear, Present, DiscardDrop
<1>6. ASSUME NEW p \in Procs, Recover(p) PROVE TornHasPointer'
  BY <1>6 DEF Recover, RecoverInspect, RecoverDone
<1>7. ASSUME NEW p \in Procs, Cleanup(p) PROVE TornHasPointer'
  BY <1>7 DEF Cleanup, CleanupResolve, CleanupListGenerations, CleanupTearGeneration,
         CleanupDropGeneration, CleanupListStaging, Present, CleanupStaging,
         CleanupListDebris, CleanupDebris, CleanupDone
<1>8. ASSUME NEW p \in Procs, ReadResolve(p) PROVE TornHasPointer'
  BY <1>8 DEF ReadResolve, Resolution
<1>9. ASSUME NEW p \in Procs, Kill(p) PROVE TornHasPointer'
  BY <1>9 DEF Kill
<1> QED
  BY <1>1, <1>2, <1>3, <1>4, <1>5, <1>6, <1>7, <1>8, <1>9 DEF Next, Continue

\* The pointer moves only to a complete generation and its generation is not removed.
LEMMA PointerStep ==
    ASSUME SingleMaintainer, TypeInv, ProtocolInv, [Next]_vars
    PROVE  PointerResolvable'
<1> USE DEF TypeInv, TypeOK, InHand, DirLabels, GenLabels, StageLabels,
          ActivateLabels, CleanupLabels, RemoveLabels, disk, locals, Goto, Finish,
          Throw, Discard, Visit, StagingStates, PublishedStates, Outcomes, Labels,
          Jobs, Returns, ProtocolInv, RolesRespected, ActivationPoint, CleanupPoint,
          PointerResolvable, SingleMaintainer
<1>1. CASE UNCHANGED vars
  BY <1>1 DEF vars
<1>2. ASSUME NEW p \in Procs, Begin(p) PROVE PointerResolvable'
  BY <1>2 DEF Begin, StageMkdir, FreshStaging, RecoverStart, Present, CleanupStart,
         ReadStart, Read
<1>3. ASSUME NEW p \in Procs, Stage(p) PROVE PointerResolvable'
  BY <1>3 DEF Stage, StageBuild, StageBuildFails, StageVerify, StageManifest, Present
<1>4. ASSUME NEW p \in Procs, Activate(p) PROVE PointerResolvable'
  <2>1. CASE ActivateVerify(p)
    BY <2>1 DEF ActivateVerify
  <2>2. CASE ActivateExists(p)
    BY <2>2 DEF ActivateExists
  <2>3. CASE ActivateVerifyExisting(p)
    BY <2>3 DEF ActivateVerifyExisting
  <2>4. CASE ActivatePublish(p)
    BY <2>4 DEF ActivatePublish, Present
  <2>5. CASE ActivateLink(p)
    BY <2>5 DEF ActivateLink, FreshTemp
  <2>6. CASE ActivateFlip(p)
    BY <2>6 DEF ActivateFlip
  <2> QED
    BY <1>4, <2>1, <2>2, <2>3, <2>4, <2>5, <2>6 DEF Activate
<1>5. ASSUME NEW p \in Procs, DiscardTear(p) \/ DiscardDrop(p) PROVE PointerResolvable'
  BY <1>5 DEF DiscardTear, Present, DiscardDrop
<1>6. ASSUME NEW p \in Procs, Recover(p) PROVE PointerResolvable'
  BY <1>6 DEF Recover, RecoverInspect, RecoverDone
<1>7. ASSUME NEW p \in Procs, Cleanup(p) PROVE PointerResolvable'
  <2>1. CASE CleanupResolve(p)
    BY <2>1 DEF CleanupResolve
  <2>2. CASE CleanupListGenerations(p)
    BY <2>2 DEF CleanupListGenerations
  <2>3. CASE CleanupTearGeneration(p)
    BY <2>3 DEF CleanupTearGeneration
  <2>4. CASE CleanupDropGeneration(p)
    BY <2>4 DEF CleanupDropGeneration
  <2>5. CASE CleanupListStaging(p)
    BY <2>5 DEF CleanupListStaging, Present
  <2>6. CASE CleanupStaging(p)
    BY <2>6 DEF CleanupStaging
  <2>7. CASE CleanupListDebris(p)
    BY <2>7 DEF CleanupListDebris
  <2>8. CASE CleanupDebris(p)
    BY <2>8 DEF CleanupDebris
  <2>9. CASE CleanupDone(p)
    BY <2>9 DEF CleanupDone
  <2> QED
    BY <1>7, <2>1, <2>2, <2>3, <2>4, <2>5, <2>6, <2>7, <2>8, <2>9 DEF Cleanup
<1>8. ASSUME NEW p \in Procs, ReadResolve(p) PROVE PointerResolvable'
  BY <1>8 DEF ReadResolve, Resolution
<1>9. ASSUME NEW p \in Procs, Kill(p) PROVE PointerResolvable'
  BY <1>9 DEF Kill
<1> QED
  BY <1>1, <1>2, <1>3, <1>4, <1>5, <1>6, <1>7, <1>8, <1>9 DEF Next, Continue

-----------------------------------------------------------------------------
(* The theorems.                                                           *)

LEMMA TypeInvInit == Init => TypeInv
BY NoneAssumption
   DEF Init, TypeInv, TypeOK, InHand, StagedGenerations, DirLabels, GenLabels, StageLabels,
       ActivateLabels, RemoveLabels, StagingStates, PublishedStates, Outcomes, Labels, Jobs,
       Returns

\* Types, and what each process has in hand, for any roles and any interleaving.
LEMMA TypeInvInvariant == Spec => []TypeInv
<1>1. TypeInv /\ [Next]_vars => TypeInv'
  BY TypeStep, InHandStep, StagedStep DEF TypeInv
<1> QED
  BY TypeInvInit, <1>1, PTL DEF Spec

\* Every variable keeps its type, whoever runs which operation at the same time.
THEOREM TypeCorrect == Spec => []TypeOK
<1>1. TypeInv => TypeOK
  BY DEF TypeInv
<1> QED
  BY TypeInvInvariant, <1>1, PTL

LEMMA ProtocolInit == Init => ProtocolInv
BY DEF Init, ProtocolInv, RolesRespected, OneHolder, OneTemp, ActivationPoint, CleanupPoint,
       TornHasPointer, PointerResolvable, StageLabels, ActivateLabels, CleanupLabels,
       RemoveLabels

LEMMA ProtocolStep ==
    ASSUME SingleMaintainer, TypeInv, ProtocolInv, [Next]_vars
    PROVE  ProtocolInv'
<1>1. RolesRespected'
  BY RolesStep DEF ProtocolInv
<1>2. OneHolder' /\ ActivationPoint' /\ CleanupPoint' /\ PointerResolvable'
  BY HolderStep, ActivationStep, CleanupStep, PointerStep
<1>3. OneTemp' /\ TornHasPointer'
  BY TempStep, TornStep DEF ProtocolInv
<1> QED
  BY <1>1, <1>2, <1>3 DEF ProtocolInv

\* The protocol invariant, when recovery and cleanup have the store to themselves.
LEMMA ProtocolInvariant == ASSUME SingleMaintainer PROVE Spec => []ProtocolInv
<1>1. TypeInv /\ ProtocolInv /\ [Next]_vars => ProtocolInv'
  BY ProtocolStep
<1> QED
  BY ProtocolInit, TypeInvInvariant, <1>1, PTL DEF Spec

\* Whatever the pointer names is complete: for any number of processes that
\* provision and are killed at any point, as long as the process that recovers
\* and cleans up is the only one that writes when it exists at all.
THEOREM PointerAlwaysResolvable == ASSUME SingleMaintainer PROVE Spec => []PointerResolvable
<1>1. ProtocolInv => PointerResolvable
  BY DEF ProtocolInv
<1> QED
  BY ProtocolInvariant, <1>1, PTL

\* A torn generation never leaves the store without an operation that repairs it.
THEOREM TornAlwaysCleanable ==
    ASSUME SingleMaintainer PROVE Spec => []TornGenerationCanBeCleaned
<1>1. ProtocolInv => TornGenerationCanBeCleaned
  BY DEF ProtocolInv, TornHasPointer, PointerResolvable, TornGenerationCanBeCleaned
<1> QED
  BY ProtocolInvariant, <1>1, PTL

-----------------------------------------------------------------------------
(* Refinement: usable is the set of complete generations, active the        *)
(* pointer.                                                                 *)

Usable == {g \in Generations : published[g] = "complete"}

\* A step publishes, commits or reclaims one generation, or leaves both alone.
LEMMA RefinementStep ==
    ASSUME SingleMaintainer, TypeInv, ProtocolInv, [Next]_vars
    PROVE  [Promise!ANext]_<<Usable, pointer>>
<1> USE DEF Usable, disk, Goto, Finish, Throw, Discard, Visit
<1>a. ASSUME UNCHANGED <<published, pointer>> PROVE UNCHANGED <<Usable, pointer>>
  BY <1>a
<1>1. CASE UNCHANGED vars
  BY <1>1, <1>a DEF vars
<1>2. ASSUME NEW p \in Procs, Begin(p) \/ Stage(p) \/ Recover(p) \/ ReadResolve(p)
                             \/ DiscardTear(p) \/ DiscardDrop(p) \/ Kill(p)
      PROVE  UNCHANGED <<published, pointer>>
  BY <1>2 DEF Begin, StageMkdir, RecoverStart, CleanupStart, Read, ReadStart, Stage, StageBuild,
       StageBuildFails, StageVerify, StageManifest, Recover, RecoverInspect, RecoverDone,
       ReadResolve, DiscardTear, DiscardDrop, Kill
<1>3. ASSUME NEW p \in Procs, Activate(p) PROVE [Promise!ANext]_<<Usable, pointer>>
  <2>1. CASE ActivateVerify(p) \/ ActivateExists(p) \/ ActivateVerifyExisting(p) \/ ActivateLink(p)
    BY <2>1, <1>a DEF ActivateVerify, ActivateExists, ActivateVerifyExisting, ActivateLink
  <2>2. CASE ActivatePublish(p)
    <3>1. CASE Present(dir[p]) /\ published[gen[p]] = "absent"
      <4>1. gen[p] \in Generations /\ stagingState[dir[p]] = "complete"
        BY <2>2 DEF ActivatePublish, TypeInv, InHand, GenLabels, ActivateLabels, ProtocolInv,
             ActivationPoint
      <4>2. published' = [published EXCEPT ![gen[p]] = "complete"] /\ UNCHANGED pointer
        BY <2>2, <3>1, <4>1 DEF ActivatePublish
      <4>3. Usable' = Usable \union {gen[p]} /\ gen[p] \notin Usable
        BY <3>1, <4>1, <4>2 DEF TypeInv, TypeOK
      <4> QED
        BY <4>1, <4>2, <4>3 DEF Promise!ANext, Promise!Publish
    <3>2. CASE ~(Present(dir[p]) /\ published[gen[p]] = "absent")
      BY <2>2, <3>2, <1>a DEF ActivatePublish
    <3> QED
      BY <3>1, <3>2
  <2>3. CASE ActivateFlip(p)
    <3>1. gen[p] \in Generations /\ published[gen[p]] = "complete" /\ temps[temp[p]] = gen[p]
      BY <2>3 DEF ActivateFlip, TypeInv, InHand, GenLabels, ActivateLabels, ProtocolInv,
           ActivationPoint
    <3>2. pointer' = gen[p] /\ UNCHANGED published
      BY <2>3, <3>1, NoneAssumption DEF ActivateFlip
    <3>3. Promise!Commit(gen[p])
      BY <3>1, <3>2 DEF Promise!Commit
    <3> QED
      BY <3>1, <3>3 DEF Promise!ANext
  <2> QED
    BY <1>3, <2>1, <2>2, <2>3 DEF Activate
<1>4. ASSUME NEW p \in Procs, Cleanup(p) PROVE [Promise!ANext]_<<Usable, pointer>>
  <2>1. CASE CleanupTearGeneration(p)
    <3>1. PICK g \in Generations \cap todo[p] :
             published' = [published EXCEPT ![g] = IF @ = "absent" THEN "absent" ELSE "torn"]
      BY <2>1 DEF CleanupTearGeneration
    <3>2. g # pointer /\ UNCHANGED pointer
      BY <2>1, <3>1 DEF CleanupTearGeneration, ProtocolInv, CleanupPoint
    <3>3. Usable' = Usable \ {g}
      BY <3>1 DEF TypeInv, TypeOK
    <3> QED
      BY <3>1, <3>2, <3>3 DEF Promise!ANext, Promise!Reclaim
  <2>2. CASE CleanupDropGeneration(p)
    <3>1. gen[p] \in Generations /\ gen[p] # pointer
      BY <2>2 DEF CleanupDropGeneration, TypeInv, InHand, GenLabels, ProtocolInv, CleanupPoint
    <3>2. Usable' = Usable \ {gen[p]} /\ UNCHANGED pointer
      BY <2>2, <3>1 DEF CleanupDropGeneration, TypeInv, TypeOK
    <3> QED
      BY <3>1, <3>2 DEF Promise!ANext, Promise!Reclaim
  <2>3. CASE ~CleanupTearGeneration(p) /\ ~CleanupDropGeneration(p)
    BY <1>4, <2>3, <1>a DEF Cleanup, CleanupResolve, CleanupListGenerations, CleanupListStaging,
         CleanupStaging, CleanupListDebris, CleanupDebris, CleanupDone
  <2> QED
    BY <2>1, <2>2, <2>3
<1> QED
  BY <1>1, <1>2, <1>3, <1>4, <1>a DEF Next, Continue

\* The store keeps the promise of ActiveGeneration: one commit point, publish
\* before commit, and the committed generation is never reclaimed.
THEOREM StoreImplementsActiveGeneration ==
    ASSUME SingleMaintainer PROVE Spec => ImplementsActiveGeneration
<1>1. Init => Promise!AInit
  BY DEF Init, Promise!AInit
<1>2. TypeInv /\ ProtocolInv /\ [Next]_vars => [Promise!ANext]_(Promise!avars)
  BY RefinementStep DEF Usable, Promise!avars
<1> QED
  BY <1>1, <1>2, TypeInvInvariant, ProtocolInvariant, PTL
     DEF Spec, ImplementsActiveGeneration, Promise!ASpec

-----------------------------------------------------------------------------
(* Readers, when nobody cleans up.                                         *)

\* A read in progress will find its generation complete, and no read failed.
ReadersServed == /\ ReaderNeverRefused
                 /\ \A p \in Procs : pc[p] = "resolve" => published[gen[p]] = "complete"

\* Without cleanup no complete generation is lost, so a read keeps what it saw.
LEMMA ReadersStep ==
    ASSUME Cleaners = {}, TypeInv, ProtocolInv, ReadersServed, [Next]_vars
    PROVE  ReadersServed'
<1> USE DEF ReadersServed, ReaderNeverRefused, TypeInv, TypeOK, InHand, GenLabels,
         ActivateLabels, disk, locals, Goto, Finish, Throw, Discard, Visit, Labels
<1>1. CASE UNCHANGED vars
  BY <1>1 DEF vars
<1>2. ASSUME NEW p \in Procs, Begin(p) PROVE ReadersServed'
  BY <1>2 DEF Begin, StageMkdir, RecoverStart, CleanupStart, Read, ReadStart, ProtocolInv,
       PointerResolvable
<1>3. ASSUME NEW p \in Procs, Stage(p) \/ Recover(p) \/ Kill(p) PROVE ReadersServed'
  BY <1>3 DEF Stage, StageBuild, StageBuildFails, StageVerify, StageManifest, Recover,
       RecoverInspect, RecoverDone, Kill
<1>4. ASSUME NEW p \in Procs, Activate(p) PROVE ReadersServed'
  BY <1>4 DEF Activate, ActivateVerify, ActivateExists, ActivateVerifyExisting,
       ActivatePublish, ActivateLink, ActivateFlip
<1>5. ASSUME NEW p \in Procs, DiscardTear(p) \/ DiscardDrop(p) PROVE ReadersServed'
  BY <1>5 DEF DiscardTear, DiscardDrop, ProtocolInv, RolesRespected, RemoveLabels
<1>6. ASSUME NEW p \in Procs, ReadResolve(p) PROVE ReadersServed'
  BY <1>6 DEF ReadResolve, Resolution
<1>7. ASSUME NEW p \in Procs, Cleanup(p) PROVE FALSE
  BY <1>7 DEF Cleanup, CleanupResolve, CleanupListGenerations, CleanupTearGeneration,
       CleanupDropGeneration, CleanupListStaging, CleanupStaging, CleanupListDebris,
       CleanupDebris, CleanupDone, ProtocolInv, RolesRespected, CleanupLabels
<1> QED
  BY <1>1, <1>2, <1>3, <1>4, <1>5, <1>6, <1>7 DEF Next, Continue

\* A reader is never refused however many activations and deaths it overlaps,
\* as long as nobody cleans up: cleanup is the only operation that can take the
\* generation away between a reader's readlink and its open.
THEOREM ReadersNeverRefused ==
    ASSUME SingleMaintainer, Cleaners = {} PROVE Spec => []ReaderNeverRefused
<1>1. Init => ReadersServed
  BY DEF Init, ReadersServed, ReaderNeverRefused
<1>2. TypeInv /\ ProtocolInv /\ ReadersServed /\ [Next]_vars => ReadersServed'
  BY ReadersStep
<1>3. ReadersServed => ReaderNeverRefused
  BY DEF ReadersServed
<1> QED
  BY <1>1, <1>2, <1>3, TypeInvInvariant, ProtocolInvariant, PTL DEF Spec
-----------------------------------------------------------------------------
(* What a maintenance operation that reports success leaves behind.        *)

\* A cleanup has dealt with the generations.
Swept(p) == \/ pc[p] \in {"cleanDirs", "debris"}
            \/ pc[p] \in RemoveLabels /\ ret[p] = "cleanDirs"

\* What the list of a loop, and the entry in hand, still have to cover.
MaintenancePoint(p) ==
    /\ pc[p] \in {"resolve", "recoverNext", "link", "flip"} \union CleanupLabels => dir[p] = None
    /\ job[p] = "recover" \/ (Swept(p) /\ pc[p] # "debris") =>
          \A s \in Staging : Present(s) => s \in todo[p] \/ s = dir[p]
    /\ pc[p] \in {"cleanGens", "dropGen"} =>
          \A g \in Generations : published[g] # "absent" =>
              g = pointer \/ g \in todo[p] \/ (pc[p] = "dropGen" /\ g = gen[p])
    /\ Swept(p) => \A g \in Generations : published[g] # "absent" => g = pointer
    /\ pc[p] = "debris" => /\ \A s \in Staging : ~Present(s)
                           /\ \A t \in Temps : temps[t] # None => t \in todo[p]

MaintenanceInv == \A p \in Procs : MaintenancePoint(p)

\* A process that maintains the store is the only one that writes to it.
LEMMA OthersOnlyRead ==
    ASSUME SingleMaintainer, TypeInv, ProtocolInv, NEW p \in Recoverers \union Cleaners,
           NEW q \in Procs, q # p, Begin(q) \/ Continue(q) \/ Kill(q)
    PROVE  /\ UNCHANGED disk
           /\ UNCHANGED <<pc[p], outcome[p], job[p], dir[p], gen[p], todo[p], ret[p]>>
<1> USE DEF TypeInv, TypeOK, disk, locals, Goto, Finish, Throw
<1>a. q \notin Provisioners \union Recoverers \union Cleaners /\ p \in Procs
  BY RolesAssumption DEF SingleMaintainer
<1>b. job[q] \in {"none", "read"}
  BY <1>a DEF ProtocolInv, RolesRespected, Jobs
<1>c. pc[q] \in {"idle", "resolve"}
  BY <1>b DEF ProtocolInv, RolesRespected
<1>1. CASE Begin(q)
  BY <1>1, <1>a DEF Begin, StageMkdir, RecoverStart, CleanupStart, Read, ReadStart
<1>2. CASE Continue(q)
  <2>1. ReadResolve(q)
    BY <1>2, <1>b, <1>c DEF Continue, Stage, StageBuild, StageBuildFails, StageVerify,
         StageManifest, Activate, ActivateVerify, ActivateExists, ActivateVerifyExisting,
         ActivatePublish, ActivateLink, ActivateFlip, DiscardTear, DiscardDrop, Recover,
         RecoverInspect, RecoverDone, Cleanup, CleanupResolve, CleanupListGenerations,
         CleanupTearGeneration, CleanupDropGeneration, CleanupListStaging, CleanupStaging,
         CleanupListDebris, CleanupDebris, CleanupDone
  <2> QED
    BY <1>a, <2>1 DEF ReadResolve
<1>3. CASE Kill(q)
  BY <1>3, <1>a DEF Kill
<1> QED
  BY <1>1, <1>2, <1>3

\* The steps of the process itself.
LEMMA OwnMaintenance ==
    ASSUME TypeInv, ProtocolInv, NEW p \in Procs, MaintenancePoint(p),
           Begin(p) \/ Continue(p) \/ Kill(p)
    PROVE  MaintenancePoint(p)'
<1> USE NoneAssumption DEF TypeInv, TypeOK, InHand, DirLabels, GenLabels, StageLabels, ActivateLabels,
        CleanupLabels, RemoveLabels, disk, locals, Goto, Finish, Throw, Discard, Visit,
        ProtocolInv, RolesRespected, MaintenancePoint, Swept, Present
<1>1. CASE Begin(p)
  BY <1>1 DEF Begin, StageMkdir, RecoverStart, CleanupStart, Read, ReadStart
<1>2. CASE Stage(p)
  BY <1>2 DEF Stage, StageBuild, StageBuildFails, StageVerify, StageManifest
<1>3. CASE Activate(p)
  <2>1. CASE ActivateVerify(p) \/ ActivateExists(p) \/ ActivateVerifyExisting(p)
    BY <2>1 DEF ActivateVerify, ActivateExists, ActivateVerifyExisting
  <2>2. CASE ActivatePublish(p)
    BY <2>2 DEF ActivatePublish
  <2>3. CASE ActivateLink(p)
    BY <2>3 DEF ActivateLink
  <2>4. CASE ActivateFlip(p)
    BY <2>4 DEF ActivateFlip
  <2> QED
    BY <1>3, <2>1, <2>2, <2>3, <2>4 DEF Activate
<1>4. CASE DiscardTear(p)
  BY <1>4 DEF DiscardTear
<1>5. CASE DiscardDrop(p)
  BY <1>5 DEF DiscardDrop
<1>6. CASE Recover(p)
  BY <1>6 DEF Recover, RecoverInspect, RecoverDone
<1>7. CASE Cleanup(p)
  <2>1. CASE CleanupResolve(p)
    <3>1. CASE Resolution(gen[p]) = "ACTIVE"
      BY <2>1, <3>1 DEF CleanupResolve
    <3>2. CASE ~(Resolution(gen[p]) = "ACTIVE")
      BY <2>1, <3>2 DEF CleanupResolve
    <3> QED
      BY <3>1, <3>2
  <2>2. CASE CleanupListGenerations(p)
    BY <2>2 DEF CleanupListGenerations, CleanupPoint
  <2>3. CASE CleanupTearGeneration(p)
    BY <2>3 DEF CleanupTearGeneration
  <2>4. CASE CleanupDropGeneration(p)
    BY <2>4 DEF CleanupDropGeneration
  <2>5. CASE CleanupListStaging(p)
    BY <2>5 DEF CleanupListStaging
  <2>6. CASE CleanupStaging(p)
    BY <2>6 DEF CleanupStaging
  <2>7. CASE CleanupListDebris(p)
    BY <2>7 DEF CleanupListDebris
  <2>8. CASE CleanupDebris(p)
    BY <2>8 DEF CleanupDebris
  <2>9. CASE CleanupDone(p)
    BY <2>9 DEF CleanupDone
  <2> QED
    BY <1>7, <2>1, <2>2, <2>3, <2>4, <2>5, <2>6, <2>7, <2>8, <2>9 DEF Cleanup
<1>8. CASE ReadResolve(p)
  BY <1>8 DEF ReadResolve
<1>9. CASE Kill(p)
  BY <1>9 DEF Kill
<1> QED
  BY <1>1, <1>2, <1>3, <1>4, <1>5, <1>6, <1>7, <1>8, <1>9 DEF Continue

\* No step changes the variables of another process.
LEMMA LocalsOwned ==
    ASSUME TypeInv, NEW p \in Procs, NEW q \in Procs, q # p, Begin(q) \/ Continue(q) \/ Kill(q)
    PROVE  UNCHANGED <<pc[p], outcome[p], job[p], dir[p], gen[p], todo[p], ret[p]>>
<1> USE DEF TypeInv, TypeOK, disk, locals, Goto, Finish, Throw, Discard, Visit
<1>1. CASE Begin(q) \/ Kill(q)
  BY <1>1 DEF Begin, StageMkdir, RecoverStart, CleanupStart, Read, ReadStart, Kill
<1>2. CASE Stage(q) \/ DiscardTear(q) \/ DiscardDrop(q) \/ Recover(q) \/ ReadResolve(q)
  BY <1>2 DEF Stage, StageBuild, StageBuildFails, StageVerify, StageManifest, DiscardTear,
       DiscardDrop, Recover, RecoverInspect, RecoverDone, ReadResolve
<1>3. CASE Activate(q)
  BY <1>3 DEF Activate, ActivateVerify, ActivateExists, ActivateVerifyExisting, ActivatePublish,
       ActivateLink, ActivateFlip
<1>4. CASE Cleanup(q)
  BY <1>4 DEF Cleanup, CleanupResolve, CleanupListGenerations, CleanupTearGeneration,
       CleanupDropGeneration, CleanupListStaging, CleanupStaging, CleanupListDebris,
       CleanupDebris, CleanupDone
<1> QED
  BY <1>1, <1>2, <1>3, <1>4 DEF Continue

LEMMA MaintenanceStep ==
    ASSUME SingleMaintainer, TypeInv, ProtocolInv, MaintenanceInv, [Next]_vars
    PROVE  MaintenanceInv'
<1>1. CASE UNCHANGED vars
  BY <1>1 DEF vars, MaintenanceInv, MaintenancePoint, Swept, Present
<1>2. ASSUME NEW q \in Procs, Begin(q) \/ Continue(q) \/ Kill(q), NEW p \in Procs
      PROVE  MaintenancePoint(p)'
  <2>a. MaintenancePoint(p)
    BY DEF MaintenanceInv
  <2>1. CASE p = q
    BY <1>2, <2>a, <2>1, OwnMaintenance
  <2>2. CASE p # q
    <3>1. UNCHANGED <<pc[p], outcome[p], job[p], dir[p], gen[p], todo[p], ret[p]>>
      BY <1>2, <2>2, LocalsOwned
    <3>2. CASE p \in Recoverers \union Cleaners
      <4>1. UNCHANGED disk
        BY <1>2, <2>2, <3>2, OthersOnlyRead
      <4> QED
        BY <2>a, <3>1, <4>1 DEF MaintenancePoint, Swept, Present, disk
    <3>3. CASE p \notin Recoverers \union Cleaners
      <4>1. job[p] \notin {"recover", "cleanup"} /\ pc[p] \notin CleanupLabels /\ ~Swept(p)
        BY <3>3 DEF ProtocolInv, RolesRespected, Swept, CleanupLabels
      <4> QED
        BY <2>a, <3>1, <4>1 DEF MaintenancePoint, Swept, CleanupLabels
    <3> QED
      BY <3>2, <3>3
  <2> QED
    BY <2>1, <2>2
<1> QED
  BY <1>1, <1>2 DEF Next, MaintenanceInv

LEMMA MaintenanceInvariant == ASSUME SingleMaintainer PROVE Spec => []MaintenanceInv
<1>1. Init => MaintenanceInv
  BY DEF Init, MaintenanceInv, MaintenancePoint, Swept, CleanupLabels, RemoveLabels
<1>2. TypeInv /\ ProtocolInv /\ MaintenanceInv /\ [Next]_vars => MaintenanceInv'
  BY MaintenanceStep
<1> QED
  BY <1>1, <1>2, TypeInvInvariant, ProtocolInvariant, PTL DEF Spec

\* A process only reports success from a loop that has nothing left to visit.
LEMMA SuccessEndsLoop ==
    ASSUME TypeInv, NEW p \in Procs, [Next]_vars, pc[p] \in {"recoverNext", "debris"},
           pc'[p] = "idle", outcome'[p] = "ok"
    PROVE  todo[p] = {} /\ UNCHANGED disk
<1> USE DEF TypeInv, TypeOK, disk, locals, Goto, Finish, Throw, Discard, Visit
<1>1. PICK q \in Procs : Begin(q) \/ Continue(q) \/ Kill(q)
  BY DEF Next, vars
<1>2. p = q
  BY <1>1, LocalsOwned
<1>3. RecoverDone(p) \/ CleanupDone(p)
  BY <1>1, <1>2 DEF Begin, StageMkdir, RecoverStart, CleanupStart, Read, ReadStart, Kill,
     Continue, Stage, StageBuild, StageBuildFails, StageVerify,
     StageManifest, Activate, ActivateVerify, ActivateExists, ActivateVerifyExisting,
     ActivatePublish, ActivateLink, ActivateFlip, DiscardTear, DiscardDrop, Recover,
     RecoverInspect, Cleanup, CleanupResolve, CleanupListGenerations,
     CleanupTearGeneration, CleanupDropGeneration, CleanupListStaging, CleanupStaging,
     CleanupListDebris, CleanupDebris, ReadResolve
<1> QED
  BY <1>3 DEF RecoverDone, CleanupDone

\* A recovery that reports success has left no staging directory behind, whatever
\* earlier operations were killed in the middle of.
THEOREM RecoveryIsComplete == ASSUME SingleMaintainer PROVE Spec => RecoverLeavesNoStaging
<1>1. ASSUME TypeInv, ProtocolInv, MaintenanceInv, [Next]_vars, NEW p \in Procs,
             pc[p] = "recoverNext" /\ pc'[p] = "idle" /\ outcome'[p] = "ok"
      PROVE  \A s \in Staging : ~Present(s)'
  <2>1. todo[p] = {} /\ UNCHANGED disk
    BY <1>1, SuccessEndsLoop
  <2>2. job[p] = "recover" /\ dir[p] = None
    BY <1>1 DEF ProtocolInv, RolesRespected, MaintenanceInv, MaintenancePoint
  <2>3. \A s \in Staging : ~Present(s)
    BY <1>1, <2>1, <2>2, NoneAssumption DEF MaintenanceInv, MaintenancePoint
  <2> QED
    BY <2>1, <2>3 DEF Present, disk
<1>2. TypeInv /\ ProtocolInv /\ MaintenanceInv /\ [Next]_vars =>
        \A p \in Procs : pc[p] = "recoverNext" /\ pc'[p] = "idle" /\ outcome'[p] = "ok"
            => \A s \in Staging : ~Present(s)'
  BY <1>1
<1> QED
  BY <1>2, TypeInvInvariant, ProtocolInvariant, MaintenanceInvariant, PTL
     DEF Spec, RecoverLeavesNoStaging

\* A cleanup that reports success has left the committed generation, whole, and
\* neither another generation nor a staging directory nor a pointer temporary.
THEOREM CleanupIsComplete == ASSUME SingleMaintainer PROVE Spec => CleanupLeavesOnlyActive
<1> DEFINE OnlyActive(p) ==
      pc[p] = "debris" /\ pc'[p] = "idle" /\ outcome'[p] = "ok"
        => /\ \A s \in Staging : ~Present(s)'
           /\ \A t \in Temps : temps'[t] = None
           /\ \A g \in Generations :
                 published'[g] = IF g = pointer' THEN "complete" ELSE "absent"
<1>1. ASSUME TypeInv, ProtocolInv, MaintenanceInv, [Next]_vars, NEW p \in Procs
      PROVE  OnlyActive(p)
  <2> SUFFICES ASSUME pc[p] = "debris" /\ pc'[p] = "idle" /\ outcome'[p] = "ok"
               PROVE  OnlyActive(p)
    OBVIOUS
  <2>1. todo[p] = {} /\ UNCHANGED disk
    BY <1>1, SuccessEndsLoop
  <2>2. /\ \A s \in Staging : ~Present(s)
        /\ \A t \in Temps : temps[t] = None
    BY <1>1, <2>1 DEF MaintenanceInv, MaintenancePoint
  <2>3. \A g \in Generations : published[g] = IF g = pointer THEN "complete" ELSE "absent"
    BY <1>1, NoneAssumption
       DEF MaintenanceInv, MaintenancePoint, Swept, ProtocolInv, PointerResolvable
  <2> QED
    BY <2>1, <2>2, <2>3 DEF Present, disk
<1>2. TypeInv /\ ProtocolInv /\ MaintenanceInv /\ [Next]_vars => \A p \in Procs : OnlyActive(p)
  BY <1>1
<1> QED
  BY <1>2, TypeInvInvariant, ProtocolInvariant, MaintenanceInvariant, PTL
     DEF Spec, CleanupLeavesOnlyActive

-----------------------------------------------------------------------------
(* What a cleanup may take away.                                           *)

\* The active generation stays complete when nothing else writes during a cleanup: what the
\* comment of cleanupGenerationStore promises, under the rule the code does not enforce.
THEOREM CommittedIsUntouched == ASSUME SingleMaintainer PROVE Spec => ActiveGenerationUntouched
<1> DEFINE Untouched(g) ==
      pointer = g /\ published[g] = "complete" => published'[g] = "complete"
<1>1. ASSUME TypeInv, ProtocolInv, [Next]_vars, NEW g \in Generations PROVE Untouched(g)
  <2> SUFFICES ASSUME g = pointer, g \in Usable PROVE g \in Usable'
    BY DEF Usable
  <2>1. [Promise!ANext]_<<Usable, pointer>>
    BY <1>1, RefinementStep
  <2> QED
    BY <2>1 DEF Promise!ANext, Promise!Publish, Promise!Commit, Promise!Reclaim, Usable
<1>2. TypeInv /\ ProtocolInv /\ [Next]_vars => \A g \in Generations : Untouched(g)
  BY <1>1
<1> QED
  BY <1>2, TypeInvInvariant, ProtocolInvariant, PTL DEF Spec, ActiveGenerationUntouched

\* Nothing but a cleanup takes a complete generation away: without one the active generation
\* stays untouched beside any number of overlapping recoveries and provisioners.
THEOREM OnlyCleanupReclaims ==
    ASSUME Cleaners = {} PROVE Spec => ActiveGenerationUntouched
<1> DEFINE Untouched == \A g \in Generations :
      pointer = g /\ published[g] = "complete" => published'[g] = "complete"
<1>1. Init => RolesRespected
  BY ProtocolInit DEF ProtocolInv
<1>2. ASSUME TypeInv, RolesRespected, [Next]_vars PROVE Untouched
  <2> USE <1>2 DEF disk
  <2>1. CASE UNCHANGED vars
    BY <2>1 DEF vars
  <2>2. ASSUME NEW p \in Procs, Begin(p) \/ Stage(p) \/ Recover(p) \/ ReadResolve(p)
                                \/ DiscardTear(p) \/ DiscardDrop(p) \/ Kill(p)
        PROVE  UNCHANGED published
    BY <2>2 DEF Begin, StageMkdir, RecoverStart, CleanupStart, Read, ReadStart, Stage,
         StageBuild, StageBuildFails, StageVerify, StageManifest, Throw, Recover,
         RecoverInspect, RecoverDone, ReadResolve, DiscardTear, DiscardDrop, Kill
  <2>3. ASSUME NEW p \in Procs, Activate(p) PROVE Untouched
    BY <2>3 DEF Activate, ActivateVerify, ActivateExists, ActivateVerifyExisting,
         ActivatePublish, ActivateLink, ActivateFlip, Throw, TypeInv, TypeOK
  <2>4. ASSUME NEW p \in Procs, Cleanup(p) PROVE FALSE
    BY <2>4 DEF Cleanup, CleanupResolve, CleanupListGenerations, CleanupTearGeneration,
         CleanupDropGeneration, CleanupListStaging, CleanupStaging, CleanupListDebris,
         CleanupDebris, CleanupDone, RolesRespected, CleanupLabels
  <2> QED
    BY <2>1, <2>2, <2>3, <2>4 DEF Next, Continue
<1>3. TypeInv /\ RolesRespected /\ [Next]_vars => RolesRespected' /\ Untouched
  BY <1>2, RolesStep
<1> QED
  BY <1>1, <1>3, TypeInvInvariant, PTL DEF Spec, ActiveGenerationUntouched
=============================================================================
