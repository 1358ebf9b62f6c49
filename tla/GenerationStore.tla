--------------------------- MODULE GenerationStore ---------------------------
(***************************************************************************)
(* The crash-safe generation store of services/bi-control/src/             *)
(* generation-store.mjs.  Several operating-system processes share one     *)
(* directory and no lock: each runs an operation (provision = stage then   *)
(* activate, recover, cleanup, read) as a sequence of file-system calls,   *)
(* one action per call, and may be killed between any two of them.         *)
(*                                                                         *)
(* A directory is abstracted to what verifyGenerationManifest makes of it: *)
(* it verifies ("complete"), or it does not ("building", "built", "torn"). *)
(***************************************************************************)
EXTENDS Naturals, FiniteSets

CONSTANTS
    Generations,   \* generation ids, the digests of what a build may produce
    Staging,       \* staging directory names (24+8 random hex digits)
    Temps,         \* pointer temporaries (.active.<pid>.<nonce>)
    Procs,         \* operating-system processes
    Provisioners, Recoverers, Cleaners, Readers,   \* who runs which operation
    None

ASSUME RolesAssumption ==
    /\ Provisioners \subseteq Procs /\ Recoverers \subseteq Procs
    /\ Cleaners \subseteq Procs     /\ Readers \subseteq Procs

ASSUME NoneAssumption == None \notin Generations \union Staging \union Temps

VARIABLES
    stagingState,  \* what each staging directory holds
    stagingGen,    \* the generation its bytes make up
    published,     \* what generations/<id> holds
    pointer,       \* target of the symlink "active"
    temps,         \* target of each pointer temporary
    \* one of each per process:
    pc,            \* where it is in its operation
    outcome,       \* how its last operation ended
    job,           \* the operation
    dir,           \* stagingPath
    gen,           \* the generation id in hand
    temp,          \* pointerTemp
    todo,          \* the directory entries a loop has still to visit
    ret            \* where rmSync(stagingPath) returns to

disk == <<stagingState, stagingGen, published, pointer, temps>>
locals == <<job, dir, gen, temp, todo, ret>>
vars == <<stagingState, stagingGen, published, pointer, temps,
          pc, outcome, job, dir, gen, temp, todo, ret>>

StagingStates == {"absent", "building", "built", "complete", "torn"}
PublishedStates == {"absent", "complete", "torn"}
Jobs == {"none", "provision", "recover", "cleanup", "read"}
Outcomes == {"none", "ok", "failed", "killed", "ABSENT", "ACTIVE", "DANGLING", "INCOMPLETE"}
Labels == {"idle", "build", "verifyBuilt", "manifest", "activate", "exists", "verifyExisting",
           "publish", "link", "flip", "discard", "discarded", "recoverNext", "resolve",
           "listGens", "cleanGens", "dropGen", "cleanDirs", "debris"}
Returns == {"none", "throw", "link", "recoverNext", "cleanDirs"}

TypeOK == /\ stagingState \in [Staging -> StagingStates]
          /\ stagingGen \in [Staging -> Generations \union {None}]
          /\ published \in [Generations -> PublishedStates]
          /\ pointer \in Generations \union {None}
          /\ temps \in [Temps -> Generations \union {None}]
          /\ pc \in [Procs -> Labels]
          /\ outcome \in [Procs -> Outcomes]
          /\ job \in [Procs -> Jobs]
          /\ dir \in [Procs -> Staging \union {None}]
          /\ gen \in [Procs -> Generations \union {None}]
          /\ temp \in [Procs -> Temps \union {None}]
          /\ todo \in [Procs -> SUBSET (Generations \union Staging \union Temps)]
          /\ ret \in [Procs -> Returns]

Init == /\ stagingState = [s \in Staging |-> "absent"]
        /\ stagingGen = [s \in Staging |-> None]
        /\ published = [g \in Generations |-> "absent"]
        /\ pointer = None
        /\ temps = [t \in Temps |-> None]
        /\ pc = [p \in Procs |-> "idle"]
        /\ outcome = [p \in Procs |-> "none"]
        /\ job = [p \in Procs |-> "none"]
        /\ dir = [p \in Procs |-> None]
        /\ gen = [p \in Procs |-> None]
        /\ temp = [p \in Procs |-> None]
        /\ todo = [p \in Procs |-> {}]
        /\ ret = [p \in Procs |-> "none"]

-----------------------------------------------------------------------------
(* Control flow shared by the operations.                                  *)

Goto(p, label) == /\ pc' = [pc EXCEPT ![p] = label]
                  /\ UNCHANGED outcome

Finish(p, result) == /\ pc' = [pc EXCEPT ![p] = "idle"]
                     /\ outcome' = [outcome EXCEPT ![p] = result]
                     /\ job' = [job EXCEPT ![p] = "none"]
                     /\ dir' = [dir EXCEPT ![p] = None]
                     /\ gen' = [gen EXCEPT ![p] = None]
                     /\ temp' = [temp EXCEPT ![p] = None]
                     /\ todo' = [todo EXCEPT ![p] = {}]
                     /\ ret' = [ret EXCEPT ![p] = "none"]

\* An exception leaves the operation; whatever is on disk stays there.
Throw(p) == Finish(p, "failed") /\ UNCHANGED disk

\* The names are random, so one that any process still holds is never drawn again.
FreshStaging(s) == /\ stagingState[s] = "absent"
                   /\ \A q \in Procs : s # dir[q] /\ s \notin todo[q]

FreshTemp(t) == /\ temps[t] = None
                /\ \A q \in Procs : t # temp[q] /\ t \notin todo[q]

Present(s) == stagingState[s] # "absent"

\* rmSync(stagingPath, {recursive, force}) takes many unlinks: while it runs
\* the directory exists and no longer verifies.
DiscardTear(p) ==
    /\ pc[p] = "discard"
    /\ stagingState' = [stagingState EXCEPT ![dir[p]] =
                            IF Present(dir[p]) THEN "torn" ELSE "absent"]
    /\ Goto(p, "discarded")
    /\ UNCHANGED <<stagingGen, published, pointer, temps, locals>>

DiscardDrop(p) ==
    /\ pc[p] = "discarded"
    /\ stagingState' = [stagingState EXCEPT ![dir[p]] = "absent"]
    /\ stagingGen' = [stagingGen EXCEPT ![dir[p]] = None]
    /\ IF ret[p] = "throw"
       THEN Finish(p, "failed")
       ELSE /\ Goto(p, ret[p])
            /\ dir' = [dir EXCEPT ![p] = None]
            /\ ret' = [ret EXCEPT ![p] = "none"]
            /\ UNCHANGED <<job, gen, temp, todo>>
    /\ UNCHANGED <<published, pointer, temps>>

Discard(p, label) == /\ Goto(p, "discard")
                     /\ ret' = [ret EXCEPT ![p] = label]
                     /\ UNCHANGED <<job, dir, gen, temp, todo>>

\* The next iteration of a loop over the staging directories.
Visit(p, s) == /\ todo' = [todo EXCEPT ![p] = @ \ {s}]
               /\ dir' = [dir EXCEPT ![p] = s]

-----------------------------------------------------------------------------
(* stageGeneration                                                         *)

StageMkdir(p) ==
    /\ p \in Provisioners
    /\ pc[p] = "idle"
    /\ \E s \in Staging :
          /\ FreshStaging(s)
          /\ stagingState' = [stagingState EXCEPT ![s] = "building"]
          /\ job' = [job EXCEPT ![p] = "provision"]
          /\ dir' = [dir EXCEPT ![p] = s]
          /\ UNCHANGED <<gen, temp, todo, ret>>
    /\ Goto(p, "build")
    /\ UNCHANGED <<stagingGen, published, pointer, temps>>

\* build(stagingPath) writes the bytes of some generation.
StageBuild(p) ==
    /\ pc[p] = "build"
    /\ stagingState[dir[p]] = "building"
    /\ \E g \in Generations :
          /\ stagingState' = [stagingState EXCEPT ![dir[p]] = "built"]
          /\ stagingGen' = [stagingGen EXCEPT ![dir[p]] = g]
          /\ gen' = [gen EXCEPT ![p] = g]
          /\ UNCHANGED <<job, dir, temp, todo, ret>>
    /\ Goto(p, "verifyBuilt")
    /\ UNCHANGED <<published, pointer, temps>>

\* The builder throws or declares no files: the staging directory is removed.
StageBuildFails(p) ==
    /\ pc[p] = "build"
    /\ Discard(p, "throw")
    /\ UNCHANGED disk

\* Every declared byte is re-read before the directory may count as complete.
StageVerify(p) ==
    /\ pc[p] = "verifyBuilt"
    /\ IF stagingState[dir[p]] = "built"
       THEN Goto(p, "manifest") /\ UNCHANGED locals
       ELSE Discard(p, "throw")
    /\ UNCHANGED disk

\* writeFileSync(manifest): ENOENT when another process removed the directory.
StageManifest(p) ==
    /\ pc[p] = "manifest"
    /\ IF Present(dir[p])
       THEN /\ stagingState' = [stagingState EXCEPT ![dir[p]] =
                                    IF @ = "built" THEN "complete" ELSE @]
            /\ Goto(p, "activate")
            /\ UNCHANGED <<stagingGen, published, pointer, temps, locals>>
       ELSE Throw(p)

-----------------------------------------------------------------------------
(* activateGeneration                                                      *)

ActivateVerify(p) ==
    /\ pc[p] = "activate"
    /\ IF stagingState[dir[p]] = "complete"
       THEN Goto(p, "exists") /\ UNCHANGED <<disk, locals>>
       ELSE Throw(p)

\* Mutant: the pointer is flipped to a generation that is not published.
ActivateExistsFlipsFirst(p) ==
    /\ pc[p] = "exists"
    /\ Goto(p, IF published[gen[p]] = "absent" THEN "link" ELSE "verifyExisting")
    /\ UNCHANGED <<disk, locals>>

ActivateExists(p) ==
    /\ pc[p] = "exists"
    /\ Goto(p, IF published[gen[p]] = "absent" THEN "publish" ELSE "verifyExisting")
    /\ UNCHANGED <<disk, locals>>

\* Mutant: an existing generation directory is reused unverified.
ActivateReusesUnverified(p) ==
    /\ pc[p] = "verifyExisting"
    /\ Discard(p, "link")
    /\ UNCHANGED disk

\* Mutant: a generation that is already published is taken to be active.
ActivateTakesPublishedForActive(p) ==
    /\ pc[p] = "verifyExisting"
    /\ IF published[gen[p]] = "complete"
       THEN Finish(p, "ok") /\ UNCHANGED disk
       ELSE Throw(p)

\* REUSED: the staged copy is dropped; GENERATION_PUBLISH_COLLISION otherwise.
ActivateVerifyExisting(p) ==
    /\ pc[p] = "verifyExisting"
    /\ IF published[gen[p]] = "complete"
       THEN Discard(p, "link") /\ UNCHANGED disk
       ELSE Throw(p)

\* Mutant: the installed generation is deleted to make room for the new one.
ActivatePublishReplaces(p) ==
    /\ pc[p] = "publish"
    /\ published' = [g \in Generations |->
                         IF g = gen[p] THEN "complete" ELSE "absent"]
    /\ stagingState' = [stagingState EXCEPT ![dir[p]] = "absent"]
    /\ stagingGen' = [stagingGen EXCEPT ![dir[p]] = None]
    /\ dir' = [dir EXCEPT ![p] = None]
    /\ UNCHANGED <<job, gen, temp, todo, ret>>
    /\ Goto(p, "link")
    /\ UNCHANGED <<pointer, temps>>

\* renameSync moves whatever the directory holds by now; it fails when the
\* source is gone or when the target directory has appeared meanwhile.
ActivatePublish(p) ==
    /\ pc[p] = "publish"
    /\ IF Present(dir[p]) /\ published[gen[p]] = "absent"
       THEN /\ published' = [published EXCEPT ![gen[p]] =
                   IF stagingState[dir[p]] = "complete" THEN "complete" ELSE "torn"]
            /\ stagingState' = [stagingState EXCEPT ![dir[p]] = "absent"]
            /\ stagingGen' = [stagingGen EXCEPT ![dir[p]] = None]
            /\ dir' = [dir EXCEPT ![p] = None]
            /\ UNCHANGED <<job, gen, temp, todo, ret>>
            /\ Goto(p, "link")
            /\ UNCHANGED <<pointer, temps>>
       ELSE Throw(p)

ActivateLink(p) ==
    /\ pc[p] = "link"
    /\ \E t \in Temps :
          /\ FreshTemp(t)
          /\ temps' = [temps EXCEPT ![t] = gen[p]]
          /\ temp' = [temp EXCEPT ![p] = t]
          /\ UNCHANGED <<job, dir, gen, todo, ret>>
    /\ Goto(p, "flip")
    /\ UNCHANGED <<stagingState, stagingGen, published, pointer>>

\* The commit point: rename(2) of the temporary over the pointer.
ActivateFlip(p) ==
    /\ pc[p] = "flip"
    /\ IF temps[temp[p]] # None
       THEN /\ pointer' = temps[temp[p]]
            /\ temps' = [temps EXCEPT ![temp[p]] = None]
            /\ IF job[p] = "recover"
               THEN /\ Goto(p, "recoverNext")
                    /\ temp' = [temp EXCEPT ![p] = None]
                    /\ gen' = [gen EXCEPT ![p] = None]
                    /\ UNCHANGED <<job, dir, todo, ret>>
               ELSE Finish(p, "ok")
            /\ UNCHANGED <<stagingState, stagingGen, published>>
       ELSE Throw(p)

-----------------------------------------------------------------------------
(* recoverGenerationStore                                                  *)

RecoverStart(p) ==
    /\ p \in Recoverers
    /\ pc[p] = "idle"
    /\ job' = [job EXCEPT ![p] = "recover"]
    /\ todo' = [todo EXCEPT ![p] = {s \in Staging : Present(s)}]
    /\ UNCHANGED <<dir, gen, temp, ret>>
    /\ Goto(p, "recoverNext")
    /\ UNCHANGED disk

\* Mutant: an incomplete staging directory is skipped, not discarded.
RecoverSkipsIncomplete(p) ==
    /\ pc[p] = "recoverNext"
    /\ \E s \in Staging \cap todo[p] :
          /\ Visit(p, s)
          /\ Goto(p, IF stagingState[s] = "complete" THEN "activate" ELSE "recoverNext")
          /\ gen' = [gen EXCEPT ![p] = stagingGen[s]]
          /\ UNCHANGED <<job, temp, ret>>
    /\ UNCHANGED disk

\* One iteration: finish the activation of a complete directory, discard any other.
RecoverInspect(p) ==
    /\ pc[p] = "recoverNext"
    /\ \E s \in Staging \cap todo[p] :
          /\ Visit(p, s)
          /\ IF stagingState[s] = "complete"
             THEN /\ Goto(p, "activate")
                  /\ gen' = [gen EXCEPT ![p] = stagingGen[s]]
                  /\ UNCHANGED ret
             ELSE /\ Goto(p, "discard")
                  /\ ret' = [ret EXCEPT ![p] = "recoverNext"]
                  /\ UNCHANGED gen
          /\ UNCHANGED <<job, temp>>
    /\ UNCHANGED disk

RecoverDone(p) ==
    /\ pc[p] = "recoverNext"
    /\ todo[p] = {}
    /\ Finish(p, "ok")
    /\ UNCHANGED disk

-----------------------------------------------------------------------------
(* readActiveGeneration, by a reader and as the first step of a cleanup    *)

\* readlinkSync(pointer).
ReadStart(p, op) ==
    /\ pc[p] = "idle"
    /\ IF pointer = None
       THEN Finish(p, IF op = "read" THEN "ABSENT" ELSE "failed")
       ELSE /\ job' = [job EXCEPT ![p] = op]
            /\ gen' = [gen EXCEPT ![p] = pointer]
            /\ UNCHANGED <<dir, temp, todo, ret>>
            /\ Goto(p, "resolve")
    /\ UNCHANGED disk

Read(p) == p \in Readers /\ ReadStart(p, "read")

\* Mutant: the state of the directory is returned for the state of the read.
ResolutionRaw(g) == published[g]

Resolution(g) == CASE published[g] = "complete" -> "ACTIVE"
                   [] published[g] = "torn"     -> "INCOMPLETE"
                   [] published[g] = "absent"   -> "DANGLING"

\* Open generations/<id> and verify every byte of it.
ReadResolve(p) ==
    /\ pc[p] = "resolve"
    /\ job[p] = "read"
    /\ Finish(p, Resolution(gen[p]))
    /\ UNCHANGED disk

-----------------------------------------------------------------------------
(* cleanupGenerationStore, then cleanupPointerDebris                       *)

CleanupStart(p) == p \in Cleaners /\ ReadStart(p, "cleanup")

\* GENERATION_CLEANUP_ACTIVE_UNRESOLVED unless the active generation verifies.
CleanupResolve(p) ==
    /\ pc[p] = "resolve"
    /\ job[p] = "cleanup"
    /\ IF Resolution(gen[p]) = "ACTIVE"
       THEN Goto(p, "listGens") /\ UNCHANGED <<disk, locals>>
       ELSE Throw(p)

\* Mutant: the active generation is listed with the others.
CleanupListsActive(p) ==
    /\ pc[p] = "listGens"
    /\ todo' = [todo EXCEPT ![p] = {g \in Generations : published[g] # "absent"}]
    /\ UNCHANGED <<job, dir, gen, temp, ret>>
    /\ Goto(p, "cleanGens")
    /\ UNCHANGED disk

CleanupListGenerations(p) ==
    /\ pc[p] = "listGens"
    /\ todo' = [todo EXCEPT ![p] = {g \in Generations : published[g] # "absent" /\ g # gen[p]}]
    /\ UNCHANGED <<job, dir, gen, temp, ret>>
    /\ Goto(p, "cleanGens")
    /\ UNCHANGED disk

CleanupTearGeneration(p) ==
    /\ pc[p] = "cleanGens"
    /\ \E g \in Generations \cap todo[p] :
          /\ published' = [published EXCEPT ![g] = IF @ = "absent" THEN "absent" ELSE "torn"]
          /\ todo' = [todo EXCEPT ![p] = @ \ {g}]
          /\ gen' = [gen EXCEPT ![p] = g]
          /\ UNCHANGED <<job, dir, temp, ret>>
    /\ Goto(p, "dropGen")
    /\ UNCHANGED <<stagingState, stagingGen, pointer, temps>>

CleanupDropGeneration(p) ==
    /\ pc[p] = "dropGen"
    /\ published' = [published EXCEPT ![gen[p]] = "absent"]
    /\ Goto(p, "cleanGens")
    /\ UNCHANGED <<stagingState, stagingGen, pointer, temps, locals>>

\* Mutant: only staging directories that verify are taken for leftovers.
CleanupListsCompleteStaging(p) ==
    /\ pc[p] = "cleanGens"
    /\ todo[p] = {}
    /\ todo' = [todo EXCEPT ![p] = {s \in Staging : stagingState[s] = "complete"}]
    /\ UNCHANGED <<job, dir, gen, temp, ret>>
    /\ Goto(p, "cleanDirs")
    /\ UNCHANGED disk

CleanupListStaging(p) ==
    /\ pc[p] = "cleanGens"
    /\ todo[p] = {}
    /\ todo' = [todo EXCEPT ![p] = {s \in Staging : Present(s)}]
    /\ UNCHANGED <<job, dir, gen, temp, ret>>
    /\ Goto(p, "cleanDirs")
    /\ UNCHANGED disk

CleanupStaging(p) ==
    /\ pc[p] = "cleanDirs"
    /\ \E s \in Staging \cap todo[p] :
          /\ Visit(p, s)
          /\ ret' = [ret EXCEPT ![p] = "cleanDirs"]
          /\ UNCHANGED <<job, gen, temp>>
    /\ Goto(p, "discard")
    /\ UNCHANGED disk

CleanupListDebris(p) ==
    /\ pc[p] = "cleanDirs"
    /\ todo[p] = {}
    /\ todo' = [todo EXCEPT ![p] = {t \in Temps : temps[t] # None}]
    /\ UNCHANGED <<job, dir, gen, temp, ret>>
    /\ Goto(p, "debris")
    /\ UNCHANGED disk

CleanupDebris(p) ==
    /\ pc[p] = "debris"
    /\ \E t \in Temps \cap todo[p] :
          /\ temps' = [temps EXCEPT ![t] = None]
          /\ todo' = [todo EXCEPT ![p] = @ \ {t}]
          /\ UNCHANGED <<job, dir, gen, temp, ret>>
    /\ UNCHANGED <<stagingState, stagingGen, published, pointer, pc, outcome>>

CleanupDone(p) ==
    /\ pc[p] = "debris"
    /\ todo[p] = {}
    /\ Finish(p, "ok")
    /\ UNCHANGED disk

-----------------------------------------------------------------------------
\* SIGKILL between any two calls: the disk keeps what was done so far and the
\* process is started again later.
Kill(p) == /\ pc[p] # "idle"
           /\ Finish(p, "killed")
           /\ UNCHANGED disk

Stage(p) == StageBuild(p) \/ StageBuildFails(p) \/ StageVerify(p) \/ StageManifest(p)

Activate(p) == \/ ActivateVerify(p) \/ ActivateExists(p) \/ ActivateVerifyExisting(p)
               \/ ActivatePublish(p) \/ ActivateLink(p) \/ ActivateFlip(p)

Recover(p) == RecoverInspect(p) \/ RecoverDone(p)

Cleanup(p) == \/ CleanupResolve(p) \/ CleanupListGenerations(p) \/ CleanupTearGeneration(p)
              \/ CleanupDropGeneration(p) \/ CleanupListStaging(p) \/ CleanupStaging(p)
              \/ CleanupListDebris(p) \/ CleanupDebris(p) \/ CleanupDone(p)

\* The calls of an operation that has begun.
Continue(p) == \/ Stage(p) \/ Activate(p) \/ DiscardTear(p) \/ DiscardDrop(p)
               \/ Recover(p) \/ Cleanup(p) \/ ReadResolve(p)

Begin(p) == StageMkdir(p) \/ RecoverStart(p) \/ CleanupStart(p) \/ Read(p)

Next == \E p \in Procs : Begin(p) \/ Continue(p) \/ Kill(p)

Spec == Init /\ [][Next]_vars

\* A running process keeps running; nobody has to start one or to kill one.
FairSpec == Spec /\ \A p \in Procs : WF_vars(Continue(p))

-----------------------------------------------------------------------------
(* Properties.                                                             *)

\* Recovery and cleanup change what other processes are working on, so the
\* operator runs them only while nothing else writes to the store.  (No such
\* rule is in the code; the runs without it show what it is needed for.)
SingleMaintainer ==
    \A p \in Recoverers \union Cleaners :
        \A q \in Provisioners \union Recoverers \union Cleaners : p = q

\* Whatever the pointer names can be opened and verifies: no kill and no
\* interleaving leaves it at a partial or a removed generation
\* (generation-store.mjs header, "never a mix, and never a deleted-only state").
PointerResolvable == pointer # None => published[pointer] = "complete"

\* The store implements the abstract promise: publish, one commit, reclaim only
\* what is not committed.
Promise == INSTANCE ActiveGeneration
             WITH usable <- {g \in Generations : published[g] = "complete"},
                  active <- pointer
ImplementsActiveGeneration == Promise!ASpec

\* A partly removed generation, which makes every later activation of that id
\* collide, only exists while a cleanup would be accepted: the store is never
\* left without an operation that repairs it ("an interrupted run can always be
\* completed or rolled back").
TornGenerationCanBeCleaned ==
    (\E g \in Generations : published[g] = "torn")
        => pointer # None /\ published[pointer] = "complete"

\* A recovery that reports success has dealt with every staging directory:
\* nothing an earlier death left half done remains in the store.
RecoverLeavesNoStaging ==
    [][\A p \in Procs :
          pc[p] = "recoverNext" /\ pc'[p] = "idle" /\ outcome'[p] = "ok"
            => \A s \in Staging : ~Present(s)']_vars

\* A cleanup that reports success leaves the committed generation, whole, and
\* nothing else that the store owns, whatever deaths preceded it.
CleanupLeavesOnlyActive ==
    [][\A p \in Procs :
          pc[p] = "debris" /\ pc'[p] = "idle" /\ outcome'[p] = "ok"
            => /\ \A s \in Staging : ~Present(s)'
               /\ \A t \in Temps : temps'[t] = None
               /\ \A g \in Generations :
                     published'[g] = IF g = pointer' THEN "complete" ELSE "absent"]_vars

\* Without a cleanup a reader that found a pointer opens a complete generation,
\* however many activations and deaths happen while it reads.
ReaderNeverRefused == \A p \in Procs : outcome[p] \notin {"DANGLING", "INCOMPLETE"}

\* The committed generation is "untouched by construction" by a cleanup
\* (generation-store.mjs, comment of cleanupGenerationStore).
ActiveGenerationUntouched ==
    [][\A g \in Generations :
          pointer = g /\ published[g] = "complete" => published'[g] = "complete"]_vars

\* Once its staging is complete a generation gets committed, even when two
\* processes stage the same one and the later rename fails.
StagedGenerationCommits ==
    \A g \in Generations :
        (\E p \in Procs : pc[p] = "activate" /\ gen[p] = g) ~> (pointer = g)
=============================================================================
