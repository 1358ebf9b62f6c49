----------------------- MODULE OperationLifecycleProofs -----------------------
(***************************************************************************)
(* Proofs about OperationLifecycle for any number of sources, calls and    *)
(* recoveries.                                                             *)
(***************************************************************************)
EXTENDS OperationLifecycle, TLAPS

\* A call at work has a task, and stands where one of its kind may.
TasksFit ==
    \A c \in LifecycleCalls : Live(c) =>
        /\ task[c] \in Tasks
        /\ stage[c] \in {"save", "keep"} => task[c].action = "BACKUP"
        /\ stage[c] \in {"pend", "rename", "reread"} => task[c].action # "BACKUP"

\* The marker at the lock path is that of the call at work.
MarkersFit == ~careless => \A c \in LifecycleCalls : Live(c) => marker = c

\* One recovery runs at a time; the marker it read stays where it left it.
RecoveriesFit ==
    ~careless =>
        /\ \A r, s \in Recoveries : Running(r) /\ Running(s) => r = s
        /\ \A r \in Recoveries :
              /\ recovery[r] # "putback"
              /\ recovery[r] = "rename" =>
                    /\ marker = expects[r] /\ expects[r] \in LifecycleCalls
                    /\ ~Live(expects[r])
              /\ recovery[r] \in {"verify", "unlink"} =>
                    quarantine[expects[r]] = expects[r] /\ expects[r] \in LifecycleCalls

\* A recovery at work has read a marker.
ExpectsFit == \A r \in Recoveries : Running(r) => expects[r] \in LifecycleCalls

\* What a call read is the store until it replaces it, and fits its task from then on.
LifecycleCallFits(c) ==
    LET t == task[c] IN
    /\ stage[c] \in {"save", "keep", "pend", "rename"} => before[c] = store
    /\ stage[c] \in {"pend", "rename", "reread", "release"} /\ t.action \in {"RESET", "REMOVE"} =>
          before[c].records[t.source] \subseteq t.records
    /\ stage[c] \in {"reread", "release"} /\ t.action # "BACKUP" =>
          store.records[t.source] = Desired(t)
    /\ stage[c] = "release" /\ t.action = "BACKUP" =>
          [source |-> t.source, records |-> store.records[t.source]] \in backups

ReadsFit == ~careless => \A c \in LifecycleCalls : LifecycleCallFits(c)

LifecycleInv ==
    /\ LifecycleTypeOK /\ TasksFit /\ ExpectsFit
    /\ MarkersFit /\ RecoveriesFit /\ ReadsFit

--------------------------------------------------------------------------------
LEMMA DesiredType ==
    ASSUME NEW t \in Tasks
    PROVE  Desired(t) \in SUBSET Kinds
BY DEF Tasks, Desired, Kinds, LifecycleActions

LEMMA DesiredShrinks ==
    ASSUME NEW t \in Tasks
    PROVE  Desired(t) \subseteq t.records
BY DEF Tasks, Desired

LEMMA AfterType ==
    ASSUME LifecycleTypeOK, TasksFit, NEW c \in LifecycleCalls, Live(c)
    PROVE  /\ After(c) \in StoreFiles
           /\ After(c).revision = before[c].revision + 1
           /\ After(c).records[task[c].source] = Desired(task[c])
           /\ \A s \in Sources \ {task[c].source} : After(c).records[s] = before[c].records[s]
<1>1. before[c] \in StoreFiles /\ task[c] \in Tasks
  BY DEF LifecycleTypeOK, TasksFit
<1>2. task[c].source \in Sources /\ before[c].revision \in Nat
      /\ before[c].records \in [Sources -> SUBSET Kinds]
  BY <1>1 DEF StoreFiles, Tasks
<1>3. Desired(task[c]) \in SUBSET Kinds
  BY <1>1, DesiredType
<1> QED
  BY <1>2, <1>3 DEF After, StoreFiles

LEMMA BackupType ==
    ASSUME LifecycleTypeOK, TasksFit, NEW c \in LifecycleCalls, Live(c)
    PROVE  BackupOf(c) \in Backups
<1>1. task[c] \in Tasks /\ before[c] \in StoreFiles
  BY DEF LifecycleTypeOK, TasksFit
<1>2. task[c].source \in Sources /\ before[c].records \in [Sources -> SUBSET Kinds]
  BY <1>1 DEF Tasks, StoreFiles
<1> QED
  BY <1>2 DEF BackupOf, Backups

LEMMA LifecycleInvInit == LifecycleInit => LifecycleInv
<1> SUFFICES ASSUME LifecycleInit PROVE LifecycleInv
  OBVIOUS
<1>1. InitialStore \in StoreFiles
  BY DEF InitialStore, StoreFiles
<1>2. LifecycleTypeOK
  BY <1>1 DEF LifecycleInit, LifecycleTypeOK
<1>3. \A c \in LifecycleCalls : stage[c] = "idle"
  BY DEF LifecycleInit
<1>4. \A r \in Recoveries : recovery[r] = "idle"
  BY DEF LifecycleInit
<1> QED
  BY <1>2, <1>3, <1>4 DEF LifecycleInv, TasksFit, ExpectsFit, MarkersFit, RecoveriesFit, ReadsFit,
                          LifecycleCallFits, Live, Section, Running

LEMMA TypeStep ==
    ASSUME LifecycleTypeOK, TasksFit, ExpectsFit, [LifecycleNext]_lifecycleVars
    PROVE  LifecycleTypeOK' /\ ExpectsFit'
<1> SUFFICES LifecycleTypeOK'
  <2>1. ASSUME NEW r \in Recoveries, RecoverRead(r)
        PROVE  ExpectsFit'
    BY <2>1 DEF RecoverRead, LifecycleTypeOK, ExpectsFit, Running
  <2>2. ASSUME \A r \in Recoveries : ~RecoverRead(r), LifecycleNext
        PROVE  \A r \in Recoveries : Running(r)' => Running(r) /\ expects'[r] = expects[r]
    BY <2>2 DEF LifecycleNext, Acquire, WriteMarker, CheckMarker, ReadStore, WriteBackup,
                RenameBackup, WritePending, RenamePending, Reread, CallFails, Release, Kill,
                RecoverRename,
                RecoverVerify, RecoverPutBack, RecoverUnlink, KillRecovery, Return, Running,
                LifecycleTypeOK
  <2> QED
    BY <2>1, <2>2 DEF ExpectsFit, lifecycleVars, Running
<1> USE DEF LifecycleTypeOK, To
<1>1. CASE UNCHANGED lifecycleVars
  BY <1>1 DEF lifecycleVars
<1>2. ASSUME NEW c \in LifecycleCalls, NEW t \in Requests, Acquire(c, t)
      PROVE  LifecycleTypeOK'
  <2>1. t \in Tasks
    BY DEF Requests, Tasks
  <2> QED
    BY <1>2, <2>1 DEF Acquire, Section
<1>3. ASSUME NEW c \in LifecycleCalls, WriteMarker(c) \/ CheckMarker(c)
      PROVE  LifecycleTypeOK'
  BY <1>3 DEF WriteMarker, CheckMarker, Section
<1>4. ASSUME NEW c \in LifecycleCalls, ReadStore(c)
      PROVE  LifecycleTypeOK'
  BY <1>4 DEF ReadStore, Section
<1>5. ASSUME NEW c \in LifecycleCalls, WriteBackup(c) \/ RenameBackup(c)
      PROVE  LifecycleTypeOK'
  <2>1. BackupOf(c) \in Backups
    BY <1>5, BackupType DEF WriteBackup, RenameBackup, Live, Section
  <2> QED
    BY <1>5, <2>1 DEF WriteBackup, RenameBackup, Section
<1>6. ASSUME NEW c \in LifecycleCalls, WritePending(c) \/ Reread(c)
      PROVE  LifecycleTypeOK'
  BY <1>6 DEF WritePending, Reread, Section
<1>7. ASSUME NEW c \in LifecycleCalls, RenamePending(c)
      PROVE  LifecycleTypeOK'
  <2>1. After(c) \in StoreFiles
    BY <1>7, AfterType DEF RenamePending, Live, Section
  <2> QED
    BY <1>7, <2>1 DEF RenamePending, Section
<1>8. ASSUME NEW c \in LifecycleCalls, Release(c) \/ Kill(c) \/ CallFails(c)
      PROVE  LifecycleTypeOK'
  <2>1. InitialStore \in StoreFiles
    BY DEF InitialStore, StoreFiles
  <2>2. {BackupOf(d) : d \in {c} \cap Saving} \subseteq Backups
    BY BackupType DEF Saving, Live, Section
  <2>3. unrenamed' \subseteq Backups
    BY <1>8, <2>2 DEF Release, Kill, CallFails
  <2>4. CASE CallFails(c)
    BY <2>3, <2>4 DEF CallFails, Section
  <2>5. CASE Release(c)
    BY <2>1, <2>3, <2>5 DEF Release, Over
  <2>6. CASE Kill(c)
    BY <2>1, <2>3, <2>6 DEF Kill, Over
  <2> QED
    BY <1>8, <2>4, <2>5, <2>6
<1>9. ASSUME NEW r \in Recoveries, RecoverRead(r)
      PROVE  LifecycleTypeOK'
  BY <1>9 DEF RecoverRead
<1>10. ASSUME NEW r \in Recoveries, RecoverRename(r) \/ RecoverUnlink(r)
       PROVE  LifecycleTypeOK'
  BY <1>10 DEF RecoverRename, RecoverUnlink, Return, Name
<1>11. ASSUME NEW r \in Recoveries, RecoverVerify(r) \/ RecoverPutBack(r)
       PROVE  LifecycleTypeOK'
  <2>1. quarantine[Name(r)] # NoCall => quarantine[Name(r)] \in LifecycleCalls
    BY <1>11 DEF Name, ExpectsFit, RecoverVerify, RecoverPutBack, Running
  <2>2. CASE PutBack(r)
    <3>1. marker' \in LifecycleCalls \union {NoCall}
          /\ quarantine' \in [LifecycleCalls -> LifecycleCalls \union {NoCall}]
      BY <2>1, <2>2 DEF PutBack
    <3> QED
      BY <1>11, <3>1 DEF RecoverVerify, RecoverPutBack, Return
  <2>3. CASE UNCHANGED <<marker, quarantine>>
    BY <1>11, <2>3 DEF RecoverVerify, RecoverPutBack, Return
  <2> QED
    BY <1>11, <2>2, <2>3 DEF RecoverVerify, RecoverPutBack
<1>12. ASSUME NEW r \in Recoveries, KillRecovery(r)
       PROVE  LifecycleTypeOK'
  BY <1>12 DEF KillRecovery, Return
<1> QED
  BY <1>1, <1>2, <1>3, <1>4, <1>5, <1>6, <1>7, <1>8, <1>9, <1>10, <1>11, <1>12
     DEF LifecycleNext

LEMMA TasksStep ==
    ASSUME LifecycleTypeOK, TasksFit, [LifecycleNext]_lifecycleVars
    PROVE  TasksFit'
<1> USE DEF LifecycleTypeOK, TasksFit, Live, Section, To
<1>1. CASE UNCHANGED lifecycleVars
  BY <1>1 DEF lifecycleVars
<1>2. ASSUME NEW c \in LifecycleCalls, NEW t \in Requests, Acquire(c, t)
      PROVE  TasksFit'
  <2>1. t \in Tasks
    BY DEF Requests, Tasks
  <2> QED
    BY <1>2, <2>1 DEF Acquire
<1>3. ASSUME NEW c \in LifecycleCalls,
             \/ WriteMarker(c) \/ CheckMarker(c) \/ WriteBackup(c) \/ RenameBackup(c)
             \/ WritePending(c) \/ RenamePending(c) \/ Reread(c) \/ CallFails(c)
      PROVE  TasksFit'
  <2>1. task' = task
    BY <1>3 DEF WriteMarker, CheckMarker, WriteBackup, RenameBackup, WritePending, RenamePending,
                Reread, CallFails
  <2>2. /\ Live(c)
        /\ stage'[c] = "keep" => stage[c] = "save"
        /\ stage'[c] = "rename" => stage[c] = "pend"
        /\ stage'[c] = "reread" => stage[c] = "rename"
        /\ stage'[c] \notin {"save", "pend"}
        /\ \A d \in LifecycleCalls \ {c} : stage'[d] = stage[d]
    BY <1>3 DEF WriteMarker, CheckMarker, WriteBackup, RenameBackup, WritePending, RenamePending,
                Reread, CallFails
  <2> QED
    BY <2>1, <2>2
<1>4. ASSUME NEW c \in LifecycleCalls, ReadStore(c)
      PROVE  TasksFit'
  <2>1. task' = task
    BY <1>4 DEF ReadStore
  <2>2. /\ Live(c)
        /\ stage'[c] \notin {"keep", "rename", "reread"}
        /\ stage'[c] = "save" => task[c].action = "BACKUP"
        /\ stage'[c] = "pend" => task[c].action # "BACKUP"
        /\ \A d \in LifecycleCalls \ {c} : stage'[d] = stage[d]
    BY <1>4 DEF ReadStore
  <2> QED
    BY <2>1, <2>2
<1>5. ASSUME NEW c \in LifecycleCalls, Release(c) \/ Kill(c)
      PROVE  TasksFit'
  <2>1. /\ ~(Live(c))'
        /\ \A d \in LifecycleCalls \ {c} : stage'[d] = stage[d] /\ task'[d] = task[d]
    BY <1>5 DEF Release, Kill, Over
  <2> QED
    BY <2>1
<1>6. ASSUME NEW r \in Recoveries,
             \/ RecoverRead(r) \/ RecoverRename(r) \/ RecoverVerify(r) \/ RecoverPutBack(r)
             \/ RecoverUnlink(r) \/ KillRecovery(r)
      PROVE  TasksFit'
  <2>1. UNCHANGED <<stage, task>>
    BY <1>6 DEF RecoverRead, RecoverRename, RecoverVerify, RecoverPutBack, RecoverUnlink,
                KillRecovery
  <2> QED
    BY <2>1
<1> QED
  BY <1>1, <1>2, <1>3, <1>4, <1>5, <1>6 DEF LifecycleNext

\* Only a recovery, and a call that begins or ends, touch the marker.
LEMMA MarkersStep ==
    ASSUME LifecycleTypeOK, MarkersFit, RecoveriesFit, [LifecycleNext]_lifecycleVars
    PROVE  MarkersFit' /\ RecoveriesFit'
<1> SUFFICES ASSUME ~careless'
             PROVE  MarkersFit' /\ RecoveriesFit'
  BY DEF MarkersFit, RecoveriesFit
<1> USE NoCallAssumption DEF LifecycleTypeOK, MarkersFit, RecoveriesFit, Live, Section, To
<1>1. CASE UNCHANGED lifecycleVars
  BY <1>1 DEF lifecycleVars, Running
<1>2. ASSUME NEW c \in LifecycleCalls, NEW t \in Requests, Acquire(c, t)
      PROVE  MarkersFit' /\ RecoveriesFit'
  <2>1. \A r \in Recoveries : recovery[r] # "rename"
    \* there is no marker
    BY <1>2 DEF Acquire
  <2>2. \A d \in LifecycleCalls : d # c => ~Live(d)
    BY <1>2 DEF Acquire
  <2> QED
    BY <1>2, <2>1, <2>2 DEF Acquire, Running
<1>3. ASSUME NEW c \in LifecycleCalls,
             \/ WriteMarker(c) \/ CheckMarker(c) \/ ReadStore(c) \/ WriteBackup(c)
             \/ RenameBackup(c) \/ WritePending(c) \/ RenamePending(c) \/ Reread(c)
             \/ CallFails(c)
      PROVE  MarkersFit' /\ RecoveriesFit'
  <2>1. UNCHANGED <<marker, quarantine, recovery, expects, careless>>
    BY <1>3 DEF WriteMarker, CheckMarker, ReadStore, WriteBackup, RenameBackup, WritePending,
                RenamePending, Reread, CallFails
  <2>2. Live(c) /\ \A d \in LifecycleCalls \ {c} : stage'[d] = stage[d]
    BY <1>3 DEF WriteMarker, CheckMarker, ReadStore, WriteBackup, RenameBackup, WritePending,
                RenamePending, Reread, CallFails
  <2> QED
    BY <2>1, <2>2 DEF Running
<1>4. ASSUME NEW c \in LifecycleCalls, Release(c) \/ Kill(c)
      PROVE  MarkersFit' /\ RecoveriesFit'
  <2>1. UNCHANGED <<quarantine, recovery, expects, careless>>
    BY <1>4 DEF Release, Kill
  <2>2. /\ Live(c) /\ marker = c /\ ~(Live(c))'
        /\ \A d \in LifecycleCalls \ {c} : ~Live(d) /\ stage'[d] = stage[d]
    BY <1>4, <2>1 DEF Release, Kill, Over
  <2>3. \A r \in Recoveries : recovery[r] # "rename"
    BY <2>1, <2>2
  <2> QED
    BY <2>1, <2>2, <2>3 DEF Running
<1>5. ASSUME NEW r \in Recoveries, RecoverRead(r)
      PROVE  MarkersFit' /\ RecoveriesFit'
  <2>1. ~careless /\ ~Live(marker) /\ \A s \in Recoveries : ~Running(s)
    BY <1>5 DEF RecoverRead
  <2>2. marker \in LifecycleCalls
    BY <1>5 DEF RecoverRead
  <2>3. /\ recovery'[r] = "rename" /\ expects'[r] = marker
        /\ \A s \in Recoveries \ {r} : recovery'[s] = recovery[s] /\ expects'[s] = expects[s]
        /\ UNCHANGED <<marker, quarantine, stage>>
    BY <1>5 DEF RecoverRead
  <2> QED
    BY <2>1, <2>2, <2>3 DEF Running
<1>6. ASSUME NEW r \in Recoveries,
             RecoverRename(r) \/ RecoverVerify(r) \/ RecoverPutBack(r) \/ RecoverUnlink(r)
             \/ KillRecovery(r)
      PROVE  MarkersFit' /\ RecoveriesFit'
  <2>1. UNCHANGED <<stage, careless>>
    BY <1>6 DEF RecoverRename, RecoverVerify, RecoverPutBack, RecoverUnlink, KillRecovery
  <2>2. Running(r) /\ \A s \in Recoveries \ {r} : recovery[s] \in {"idle", "over"}
    BY <1>6, <2>1 DEF RecoverRename, RecoverVerify, RecoverPutBack, RecoverUnlink,
                      KillRecovery, Running
  <2>3. ~RecoverPutBack(r)
    BY <2>1 DEF RecoverPutBack
  <2>4. CASE RecoverRename(r)
    <3>1. marker = expects[r] /\ expects[r] \in LifecycleCalls /\ ~Live(expects[r])
      BY <2>1, <2>4 DEF RecoverRename
    <3>2. /\ recovery' = [recovery EXCEPT ![r] = "verify"] /\ expects' = expects
          /\ quarantine' = [quarantine EXCEPT ![expects[r]] = marker]
      BY <2>4, <3>1 DEF RecoverRename, Name
    <3> QED
      BY <2>1, <2>2, <3>1, <3>2 DEF Running
  <2>5. CASE RecoverVerify(r)
    <3>1. quarantine[expects[r]] = expects[r] /\ expects[r] \in LifecycleCalls
      BY <2>1, <2>5 DEF RecoverVerify
    <3>2. /\ recovery' = [recovery EXCEPT ![r] = "unlink"]
          /\ UNCHANGED <<marker, quarantine, expects>>
      BY <2>5, <3>1 DEF RecoverVerify, Name
    <3> QED
      BY <2>1, <2>2, <3>1, <3>2 DEF Running
  <2>6. CASE RecoverUnlink(r)
    <3>1. quarantine[expects[r]] = expects[r] /\ expects[r] \in LifecycleCalls
      BY <2>1, <2>6 DEF RecoverUnlink
    <3>2. Return(r) /\ marker' = marker
      BY <2>6, <3>1 DEF RecoverUnlink, Name
    <3> QED
      BY <2>1, <2>2, <3>2 DEF Running, Return
  <2>7. CASE KillRecovery(r)
    BY <2>1, <2>2, <2>7 DEF Running, KillRecovery, Return
  <2> QED
    BY <1>6, <2>3, <2>4, <2>5, <2>6, <2>7
<1> QED
  BY <1>1, <1>2, <1>3, <1>4, <1>5, <1>6 DEF LifecycleNext

\* Only the call at work reads and writes the store.
LEMMA ReadsStep ==
    ASSUME LifecycleInv, [LifecycleNext]_lifecycleVars, ~careless'
    PROVE  \A c \in LifecycleCalls : LifecycleCallFits(c)'
<1> USE DEF LifecycleInv, To
<1>1. ~careless
  BY DEF LifecycleNext, lifecycleVars, Acquire, WriteMarker, CheckMarker, ReadStore,
         WriteBackup, RenameBackup, WritePending, RenamePending, Reread, CallFails, Release, Kill,
         RecoverRead, RecoverRename, RecoverVerify, RecoverPutBack, RecoverUnlink, KillRecovery
<1>2. \A c \in LifecycleCalls : LifecycleCallFits(c)
  BY <1>1 DEF ReadsFit
<1>3. CASE UNCHANGED <<stage, task, before, store, backups>>
  BY <1>2, <1>3 DEF LifecycleCallFits
\* It is enough to look at the one call that a step is of.
<1>4. ASSUME NEW c \in LifecycleCalls, Live(c), LifecycleCallFits(c)',
             \A d \in LifecycleCalls \ {c} : stage'[d] = stage[d]
      PROVE  \A d \in LifecycleCalls : LifecycleCallFits(d)'
  <2>1. \A d \in LifecycleCalls \ {c} : ~Live(d)
    BY <1>1, <1>4 DEF MarkersFit
  <2> QED
    BY <1>4, <2>1 DEF LifecycleCallFits, Live, Section
<1>5. ASSUME NEW c \in LifecycleCalls, NEW t \in Requests, Acquire(c, t)
      PROVE  \A d \in LifecycleCalls : LifecycleCallFits(d)'
  <2>1. stage'[c] = "write" /\ \A d \in LifecycleCalls \ {c} :
          stage'[d] = stage[d] /\ task'[d] = task[d]
    BY <1>5 DEF Acquire, LifecycleTypeOK
  <2>2. UNCHANGED <<store, before, backups>>
    BY <1>5 DEF Acquire
  <2> QED
    BY <1>2, <2>1, <2>2 DEF LifecycleCallFits
<1>6. ASSUME NEW c \in LifecycleCalls,
             WriteMarker(c) \/ CheckMarker(c) \/ CallFails(c) \/ Release(c) \/ Kill(c)
      PROVE  \A d \in LifecycleCalls : LifecycleCallFits(d)'
  <2>1. /\ Live(c) /\ \A d \in LifecycleCalls \ {c} : stage'[d] = stage[d]
        /\ stage'[c] \notin {"save", "keep", "pend", "rename", "reread", "release"}
    BY <1>6 DEF WriteMarker, CheckMarker, CallFails, Release, Kill, Over, Live, Section,
                LifecycleTypeOK
  <2> QED
    BY <1>4, <2>1 DEF LifecycleCallFits
<1>7. ASSUME NEW c \in LifecycleCalls, ReadStore(c)
      PROVE  \A d \in LifecycleCalls : LifecycleCallFits(d)'
  <2>1. /\ Live(c) /\ \A d \in LifecycleCalls \ {c} : stage'[d] = stage[d]
        /\ store' = store /\ task' = task /\ before'[c] = store
    BY <1>7 DEF ReadStore, Live, Section, LifecycleTypeOK
  <2>2. /\ stage'[c] \in {"save", "failing", "release", "pend"}
        /\ task[c].action = "BACKUP" => stage'[c] \in {"save", "failing"}
        /\ stage'[c] \in {"release", "pend"} => NotStale(task[c])
        /\ stage'[c] = "release" => AlreadySatisfied(task[c])
    BY <1>7 DEF ReadStore, LifecycleTypeOK
  <2>3. Desired(task[c]) \subseteq task[c].records
    BY <2>1, DesiredShrinks DEF TasksFit
  <2>4. LifecycleCallFits(c)'
    BY <2>1, <2>2, <2>3 DEF LifecycleCallFits, NotStale, AlreadySatisfied
  <2> QED
    BY <1>4, <2>1, <2>4
<1>8. ASSUME NEW c \in LifecycleCalls, WriteBackup(c) \/ RenameBackup(c)
      PROVE  \A d \in LifecycleCalls : LifecycleCallFits(d)'
  <2>1. /\ Live(c) /\ \A d \in LifecycleCalls \ {c} : stage'[d] = stage[d]
        /\ stage[c] \in {"save", "keep"} /\ stage'[c] \in {"keep", "release", "failing"}
        /\ UNCHANGED <<store, task, before>>
    BY <1>8 DEF WriteBackup, RenameBackup, Live, Section, LifecycleTypeOK
  <2>2. task[c].action = "BACKUP" /\ before[c] = store
    BY <1>2, <2>1 DEF TasksFit, LifecycleCallFits
  <2>3. stage'[c] = "release" => BackupOf(c) \in backups'
    BY <1>8 DEF WriteBackup, RenameBackup, LifecycleTypeOK
  <2> QED
    BY <1>4, <2>1, <2>2, <2>3 DEF LifecycleCallFits, BackupOf
<1>9. ASSUME NEW c \in LifecycleCalls, WritePending(c) \/ Reread(c)
      PROVE  \A d \in LifecycleCalls : LifecycleCallFits(d)'
  <2>1. /\ Live(c) /\ \A d \in LifecycleCalls \ {c} : stage'[d] = stage[d]
        /\ UNCHANGED <<store, task, before>>
    BY <1>9 DEF WritePending, Reread, Live, Section, LifecycleTypeOK
  <2>2. \/ stage[c] = "pend" /\ stage'[c] \in {"rename", "failing"}
        \/ stage[c] = "reread" /\ stage'[c] \in {"release", "failing"}
    BY <1>9 DEF WritePending, Reread, LifecycleTypeOK
  <2>3. task[c].action # "BACKUP"
    BY <2>1, <2>2 DEF TasksFit
  <2> QED
    BY <1>2, <1>4, <2>1, <2>2, <2>3 DEF LifecycleCallFits
<1>10. ASSUME NEW c \in LifecycleCalls, RenamePending(c)
       PROVE  \A d \in LifecycleCalls : LifecycleCallFits(d)'
  <2>1. /\ Live(c) /\ \A d \in LifecycleCalls \ {c} : stage'[d] = stage[d]
        /\ stage[c] = "rename" /\ stage'[c] = "reread"
        /\ UNCHANGED <<task, before>> /\ store' = After(c)
    BY <1>10 DEF RenamePending, Live, Section, LifecycleTypeOK
  <2>2. store'.records[task[c].source] = Desired(task[c])
    BY <2>1, AfterType
  <2> QED
    BY <1>2, <1>4, <2>1, <2>2 DEF LifecycleCallFits
<1>11. ASSUME NEW r \in Recoveries,
              \/ RecoverRead(r) \/ RecoverRename(r) \/ RecoverVerify(r) \/ RecoverPutBack(r)
              \/ RecoverUnlink(r) \/ KillRecovery(r)
       PROVE  UNCHANGED <<stage, task, before, store, backups>>
  BY <1>11 DEF RecoverRead, RecoverRename, RecoverVerify, RecoverPutBack, RecoverUnlink,
               KillRecovery
<1> QED
  BY <1>3, <1>5, <1>6, <1>7, <1>8, <1>9, <1>10, <1>11 DEF LifecycleNext, lifecycleVars

LEMMA LifecycleInvStep ==
    ASSUME LifecycleInv, [LifecycleNext]_lifecycleVars
    PROVE  LifecycleInv'
BY TypeStep, TasksStep, MarkersStep, ReadsStep DEF LifecycleInv, ReadsFit

LEMMA LifecycleInvariant == LifecycleSpec => []LifecycleInv
BY LifecycleInvInit, LifecycleInvStep, PTL DEF LifecycleSpec

--------------------------------------------------------------------------------
\* The store file, the markers and the calls of the lifecycle store keep their types.
THEOREM LifecycleTypes == LifecycleSpec => []LifecycleTypeOK
BY LifecycleInvariant, PTL DEF LifecycleInv

\* The exclusive owner marker keeps two calls from being in their sections at once, over
\* kills and recoveries that are made with care.
THEOREM LifecycleOwnersExclude == LifecycleSpec => []OwnersExclude
<1>1. LifecycleInv => OwnersExclude
  BY DEF LifecycleInv, MarkersFit, OwnersExclude
<1> QED
  BY <1>1, LifecycleInvariant, PTL

\* What applyOperationLifecycleAction answers is so in the store, what it dropped is in its
\* backup, and what createOperationLifecycleBackup answers is in a file.
THEOREM LifecycleReceiptsMatch == LifecycleSpec => []ReceiptsMatchTheStore
<1>1. ASSUME LifecycleInv, NEW c \in LifecycleCalls, ~careless, stage[c] = "release",
             task[c].action # "BACKUP"
      PROVE  /\ store.records[task[c].source] = Desired(task[c])
             /\ task[c].action # "RESTORE"
                  => before[c].records[task[c].source] \subseteq task[c].records
  <2>1. task[c] \in Tasks
    BY <1>1 DEF LifecycleInv, TasksFit, Live, Section
  <2>2. task[c].action \in LifecycleActions
    BY <1>1, <2>1 DEF Tasks
  <2> QED
    BY <1>1, <2>2 DEF LifecycleInv, ReadsFit, LifecycleCallFits, LifecycleActions
<1>2. LifecycleInv => ReceiptsMatchTheStore
  BY <1>1 DEF ReceiptsMatchTheStore, LifecycleInv, ReadsFit, LifecycleCallFits
<1> QED
  BY <1>2, LifecycleInvariant, PTL

\* No write of the store is lost: each is computed from the store it replaces.
THEOREM LifecycleWritesAreSerial == LifecycleSpec => StoreWritesAreSerial
<1>1. ASSUME LifecycleInv, [LifecycleNext]_lifecycleVars, ~careless, store' # store
      PROVE  /\ store'.revision = store.revision + 1
             /\ \E s \in Sources : \A o \in Sources \ {s} :
                   store'.records[o] = store.records[o]
  <2>1. PICK c \in LifecycleCalls : RenamePending(c)
    BY <1>1 DEF LifecycleNext, lifecycleVars, Acquire, WriteMarker, CheckMarker, ReadStore,
                WriteBackup, RenameBackup, WritePending, Reread, CallFails, Release, Kill,
                RecoverRead, RecoverRename, RecoverVerify, RecoverPutBack, RecoverUnlink, KillRecovery
  <2>2. store' = After(c) /\ before[c] = store /\ Live(c)
    BY <1>1, <2>1 DEF RenamePending, LifecycleInv, ReadsFit, LifecycleCallFits, Live, Section
  <2>3. task[c].source \in Sources
    BY <1>1, <2>2 DEF LifecycleInv, TasksFit, Tasks
  <2> QED
    BY <1>1, <2>2, <2>3, AfterType DEF LifecycleInv
<1>2. LifecycleInv /\ [LifecycleNext]_lifecycleVars
        => [~careless /\ store' # store =>
              /\ store'.revision = store.revision + 1
              /\ \E s \in Sources : \A o \in Sources \ {s} :
                    store'.records[o] = store.records[o]]_lifecycleVars
  BY <1>1
<1> QED
  BY <1>2, LifecycleInvariant, PTL DEF LifecycleSpec, StoreWritesAreSerial
================================================================================
