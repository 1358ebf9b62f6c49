-------------------------- MODULE OperationLifecycle --------------------------
(***************************************************************************)
(* The operation lifecycle store of db-analyzer/operation.mjs: one JSON    *)
(* file of records, an owner marker created exclusively and unlinked by    *)
(* path, backups, and the recovery of a marker its owner left behind.      *)
(* Calls and recoveries belong to different processes and interleave at    *)
(* every file operation; a call may be killed and a file operation may     *)
(* throw anywhere.                                                         *)
(* Every call and every recovery is made once (a call's ownership identity *)
(* names it).  A call that finds a marker, and a recovery that finds no    *)
(* fitting one, leave all as it was and are not steps.                     *)
(***************************************************************************)
EXTENDS Naturals, FiniteSets

CONSTANTS Sources,      \* markerSha256: one per registry, source and engine
          LifecycleCalls,
          Recoveries,   \* processes that recover stale ownership
          NoCall

ASSUME NoCallAssumption == NoCall \notin LifecycleCalls

\* Of the artifact kinds the model keeps one that RESET leaves and one it drops.
Kinds == {"RESOLUTION", "CHECKPOINT"}

\* ROLLBACK does what RESTORE does.
LifecycleActions == {"REMOVE", "RESET", "RESTORE"}

VARIABLES
    store,        \* the store file: revision and the kinds recorded of each source
    pending,      \* the call whose "<store>.pending" exists
    marker,       \* the call whose owner marker is at the lock path
    written,      \* calls whose marker has its contents
    quarantine,   \* the marker renamed to "<lock>.recover-<identity>", by identity
    backups,      \* the backup files, without createdAt, which is part of their names
    unrenamed,    \* the backups whose "<backup>.pending" a writer left behind
    \* one of each per call:
    stage,        \* where it is
    task,         \* its source, its action and the records of its backup
    before,       \* the store as it read it
    \* one of each per recovery:
    recovery,     \* where it is
    expects,      \* the call whose marker it read
    careless      \* history: a recovery was started of an owner that lives, or during another one

lifecycleVars == <<store, pending, marker, written, quarantine, backups, unrenamed,
                   stage, task, before, recovery, expects, careless>>

StoreFiles == [revision : Nat, records : [Sources -> SUBSET Kinds]]
Backups == [source : Sources, records : SUBSET Kinds]
Tasks == [source : Sources, action : LifecycleActions \union {"BACKUP"}, records : SUBSET Kinds]
NoTask == [source |-> NoCall, action |-> "BACKUP", records |-> {}]

Section == {"write", "check", "read", "save", "keep", "pend", "rename", "reread", "release",
            "failing"}   \* an error was thrown inside the section

LifecycleTypeOK ==
    /\ store \in StoreFiles
    /\ pending \in LifecycleCalls \union {NoCall}
    /\ marker \in LifecycleCalls \union {NoCall}
    /\ written \subseteq LifecycleCalls
    /\ quarantine \in [LifecycleCalls -> LifecycleCalls \union {NoCall}]
    /\ backups \subseteq Backups
    /\ unrenamed \subseteq Backups
    /\ stage \in [LifecycleCalls -> Section \union {"idle", "over"}]
    /\ task \in [LifecycleCalls -> Tasks \union {NoTask}]
    /\ before \in [LifecycleCalls -> StoreFiles]
    /\ recovery \in [Recoveries -> {"idle", "rename", "verify", "putback", "unlink", "over"}]
    /\ expects \in [Recoveries -> LifecycleCalls \union {NoCall}]
    /\ careless \in BOOLEAN

InitialStore == [revision |-> 0, records |-> [s \in Sources |-> Kinds]]

\* The store is initialized with a record of every kind of every source.
LifecycleInit ==
    /\ store = InitialStore
    /\ pending = NoCall /\ marker = NoCall /\ written = {}
    /\ quarantine = [c \in LifecycleCalls |-> NoCall]
    /\ backups = {} /\ unrenamed = {}
    /\ stage = [c \in LifecycleCalls |-> "idle"]
    /\ task = [c \in LifecycleCalls |-> NoTask]
    /\ before = [c \in LifecycleCalls |-> InitialStore]
    /\ recovery = [r \in Recoveries |-> "idle"]
    /\ expects = [r \in Recoveries |-> NoCall]
    /\ careless = FALSE

To(c, s) == stage' = [stage EXCEPT ![c] = s]

Live(c) == stage[c] \in Section

\* The call is over, answered or not; what it held in memory is gone.
Over(c) ==
    /\ To(c, "over")
    /\ before' = [before EXCEPT ![c] = InitialStore]
    /\ task' = [task EXCEPT ![c] = NoTask]

\* What a call may be made with: a document with a backup's shape, its own digest and the
\* source's resolution record, whether or not it was ever taken; or nothing, to take one.
Requests == [source : Sources, action : {"BACKUP"}, records : {{}}]
            \union {t \in Tasks : t.action \in LifecycleActions /\ "RESOLUTION" \in t.records}

--------------------------------------------------------------------------------
\* Mutant: the marker is opened without the exclusive flag.
AcquireAnyway(c, t) ==
    /\ stage[c] = "idle"
    /\ task' = [task EXCEPT ![c] = t]
    /\ marker' = c
    /\ To(c, "write")
    /\ UNCHANGED <<store, pending, written, quarantine, backups, unrenamed, before, recovery,
                   expects, careless>>

\* createOperationLifecycleBackup and applyOperationLifecycleAction create the owner marker.
Acquire(c, t) ==
    /\ stage[c] = "idle"
    /\ marker = NoCall
    /\ task' = [task EXCEPT ![c] = t]
    /\ marker' = c
    /\ To(c, "write")
    /\ UNCHANGED <<store, pending, written, quarantine, backups, unrenamed, before, recovery,
                   expects, careless>>

\* The handle writes the file wherever it was renamed to meanwhile.
WriteMarker(c) ==
    /\ stage[c] = "write"
    /\ written' = written \union {c}
    /\ To(c, "check")
    /\ UNCHANGED <<store, pending, marker, quarantine, backups, unrenamed, task, before,
                   recovery, expects, careless>>

\* The lock path is read back: it is gone, somebody else's or the call's own.
CheckMarker(c) ==
    /\ stage[c] = "check"
    /\ To(c, IF marker = c THEN "read" ELSE "failing")
    /\ UNCHANGED <<store, pending, marker, written, quarantine, backups, unrenamed, task,
                   before, recovery, expects, careless>>

\* What the source's records become.
Desired(t) == CASE t.action = "RESET" -> t.records \ {"CHECKPOINT"}
                [] t.action = "REMOVE" -> {}
                [] OTHER -> t.records

\* RESET and REMOVE need the backup to be of what they drop.
NotStale(t) ==
    t.action \in {"RESET", "REMOVE"} =>
        store.records[t.source] \in {t.records, Desired(t)}

\* Mutant: the store is compared with the backup, not with what it should become.
SatisfiedByBackup(t) == store.records[t.source] = t.records

AlreadySatisfied(t) == store.records[t.source] = Desired(t)

ReadStore(c) ==
    LET t == task[c] IN
    /\ stage[c] = "read"
    /\ before' = [before EXCEPT ![c] = store]
    /\ To(c, IF t.action = "BACKUP"
             THEN IF "RESOLUTION" \in store.records[t.source] THEN "save" ELSE "failing"
             ELSE IF ~NotStale(t) THEN "failing"
             ELSE IF AlreadySatisfied(t) THEN "release" ELSE "pend")
    /\ UNCHANGED <<store, pending, marker, written, quarantine, backups, unrenamed, task,
                   recovery, expects, careless>>

\* The source's records as the call read them.
BackupOf(c) == [source |-> task[c].source, records |-> before[c].records[task[c].source]]

\* The calls whose backup is in its pending file.
Saving == {c \in LifecycleCalls : stage[c] = "keep"}

\* The backup's pending file is created exclusively, unless one is there: then the file of
\* that name must be, too.  (Equal backups of another createdAt have another name.)
WriteBackup(c) ==
    LET b == BackupOf(c) IN
    /\ stage[c] = "save"
    /\ \/ To(c, "keep")
       \/ /\ b \in unrenamed \union {BackupOf(d) : d \in Saving}
          /\ To(c, IF b \in backups THEN "release" ELSE "failing")
    /\ UNCHANGED <<store, pending, marker, written, quarantine, backups, unrenamed, task,
                   before, recovery, expects, careless>>

RenameBackup(c) ==
    /\ stage[c] = "keep"
    /\ backups' = backups \union {BackupOf(c)}
    /\ To(c, "release")
    /\ UNCHANGED <<store, pending, marker, written, quarantine, unrenamed, task, before,
                   recovery, expects, careless>>

\* atomicWriteJson: the pending file is created exclusively; one left by a killed
\* call refuses every later write.
WritePending(c) ==
    /\ stage[c] = "pend"
    /\ IF pending = NoCall THEN pending' = c /\ To(c, "rename")
                           ELSE pending' = pending /\ To(c, "failing")
    /\ UNCHANGED <<store, marker, written, quarantine, backups, unrenamed, task, before,
                   recovery, expects, careless>>

\* Mutant: the records of the other sources are not carried over.
TargetOnly(c) ==
    [revision |-> before[c].revision + 1,
     records |-> [s \in Sources |-> IF s = task[c].source THEN Desired(task[c]) ELSE {}]]

\* The store as the call computed it from what it read.
After(c) == [revision |-> before[c].revision + 1,
             records |-> [before[c].records EXCEPT ![task[c].source] = Desired(task[c])]]

RenamePending(c) ==
    /\ stage[c] = "rename"
    /\ store' = After(c)
    /\ pending' = NoCall
    /\ To(c, "reread")
    /\ UNCHANGED <<marker, written, quarantine, backups, unrenamed, task, before, recovery,
                   expects, careless>>

\* The store is read back: the records of the other sources and the revision must fit.
Reread(c) ==
    /\ stage[c] = "reread"
    /\ To(c, IF /\ store.revision = before[c].revision + 1
                /\ \A s \in Sources \ {task[c].source} : store.records[s] = before[c].records[s]
             THEN "release" ELSE "failing")
    /\ UNCHANGED <<store, pending, marker, written, quarantine, backups, unrenamed, task,
                   before, recovery, expects, careless>>

\* A file operation throws.  A pending file is unlinked, or stays: half written, or neither
\* renamed nor unlinked.
CallFails(c) ==
    /\ Live(c) /\ stage[c] \notin {"release", "failing"}
    /\ To(c, "failing")
    /\ pending' \in IF stage[c] = "rename" THEN {NoCall, pending} ELSE {pending}
    /\ unrenamed' \in {unrenamed} \union
                      {unrenamed \union {BackupOf(d) : d \in {c} \cap Saving}}
    /\ UNCHANGED <<store, marker, written, quarantine, backups, task, before, recovery,
                   expects, careless>>

\* finally: the lock path is unlinked, whoever's marker is there; an error is swallowed.
Release(c) ==
    /\ stage[c] \in {"release", "failing"}
    /\ marker' \in {NoCall, marker}
    /\ Over(c)
    /\ UNCHANGED <<store, pending, written, quarantine, backups, unrenamed, recovery, expects,
                   careless>>

Kill(c) ==
    /\ Live(c)
    /\ Over(c)
    /\ unrenamed' = unrenamed \union {BackupOf(d) : d \in {c} \cap Saving}
    /\ UNCHANGED <<store, pending, marker, written, quarantine, backups, recovery, expects,
                   careless>>

--------------------------------------------------------------------------------
Running(r) == recovery[r] \notin {"idle", "over"}

\* recoverStaleOperationLifecycleOwnership reads a marker with contents; whether it is
\* old enough is for the clock the caller brings, not for whether the owner lives.
RecoverRead(r) ==
    /\ recovery[r] = "idle"
    /\ marker \in written
    /\ expects' = [expects EXCEPT ![r] = marker]
    /\ recovery' = [recovery EXCEPT ![r] = "rename"]
    /\ careless' = (careless \/ Live(marker) \/ \E o \in Recoveries : Running(o))
    /\ UNCHANGED <<store, pending, marker, written, quarantine, backups, unrenamed, stage,
                   task, before>>

Return(r) ==
    /\ recovery' = [recovery EXCEPT ![r] = "over"]
    /\ expects' = [expects EXCEPT ![r] = NoCall]

\* The quarantine name is that of the marker read, not of the one renamed.
Name(r) == expects[r]

\* The lock path, whatever is there by now, is renamed over the quarantine name.
RecoverRename(r) ==
    /\ recovery[r] = "rename"
    /\ IF marker = NoCall
       THEN /\ Return(r)
            /\ UNCHANGED <<marker, quarantine>>
       ELSE /\ quarantine' = [quarantine EXCEPT ![Name(r)] = marker]
            /\ marker' = NoCall
            /\ recovery' = [recovery EXCEPT ![r] = "verify"]
            /\ UNCHANGED expects
    /\ UNCHANGED <<store, pending, written, backups, unrenamed, stage, task, before, careless>>

\* rename(quarantine, lock), over whatever marker is there by now.
PutBack(r) ==
    /\ marker' = IF quarantine[Name(r)] = NoCall THEN marker ELSE quarantine[Name(r)]
    /\ quarantine' = [quarantine EXCEPT ![Name(r)] = NoCall]

\* What was quarantined is read: the marker expected is to be unlinked, another one is
\* renamed back; an unreadable or missing one is left to the handler of the error.
RecoverVerify(r) ==
    LET q == quarantine[Name(r)] IN
    /\ recovery[r] = "verify"
    /\ recovery' = [recovery EXCEPT ![r] = IF q = expects[r] THEN "unlink" ELSE "putback"]
    /\ IF q \in written \ {expects[r]} THEN PutBack(r) ELSE UNCHANGED <<marker, quarantine>>
    /\ UNCHANGED <<store, pending, written, backups, unrenamed, stage, task, before, expects,
                   careless>>

\* The handler of every error renames back (again).
RecoverPutBack(r) ==
    /\ recovery[r] = "putback"
    /\ PutBack(r)
    /\ Return(r)
    /\ UNCHANGED <<store, pending, written, backups, unrenamed, stage, task, before, careless>>

RecoverUnlink(r) ==
    /\ recovery[r] = "unlink"
    /\ IF quarantine[Name(r)] = NoCall
       THEN recovery' = [recovery EXCEPT ![r] = "putback"] /\ UNCHANGED expects
       ELSE Return(r)
    /\ quarantine' = [quarantine EXCEPT ![Name(r)] = NoCall]
    /\ UNCHANGED <<store, pending, marker, written, backups, unrenamed, stage, task, before,
                   careless>>

KillRecovery(r) ==
    /\ Running(r)
    /\ Return(r)
    /\ UNCHANGED <<store, pending, marker, written, quarantine, backups, unrenamed, stage,
                   task, before, careless>>

LifecycleNext ==
    \/ \E c \in LifecycleCalls :
         \/ \E t \in Requests : Acquire(c, t)
         \/ WriteMarker(c) \/ CheckMarker(c) \/ ReadStore(c)
         \/ WriteBackup(c) \/ RenameBackup(c) \/ WritePending(c) \/ RenamePending(c)
         \/ Reread(c) \/ CallFails(c) \/ Release(c) \/ Kill(c)
    \/ \E r \in Recoveries :
         \/ RecoverRead(r) \/ RecoverRename(r) \/ RecoverVerify(r) \/ RecoverPutBack(r)
         \/ RecoverUnlink(r) \/ KillRecovery(r)

LifecycleSpec == LifecycleInit /\ [][LifecycleNext]_lifecycleVars
--------------------------------------------------------------------------------

(* The store has one owner at a time: two calls are never inside their sections at
   once, however they are killed and their markers recovered, provided that the marker
   of a living owner is never declared stale and that recoveries do not overlap. *)
OwnersExclude ==
    ~careless => \A c, d \in LifecycleCalls : Live(c) /\ Live(d) => c = d

(* Under the same proviso no write is lost: every write of the store is computed from
   the store it replaces, so that it counts the revision up by one and leaves the
   records of every other source as they are. *)
StoreWritesAreSerial ==
    [][~careless /\ store' # store =>
          /\ store'.revision = store.revision + 1
          /\ \E s \in Sources : \A o \in Sources \ {s} :
                store'.records[o] = store.records[o]]_lifecycleVars

(* Under that proviso an answer tells the truth: when an action is about to answer, its
   source's records are those the action stands for and what RESET or REMOVE dropped is in
   the backup it was made with; when a backup is, a file holds what the store holds. *)
ReceiptsMatchTheStore ==
    \A c \in LifecycleCalls :
        LET t == task[c] IN
        stage[c] = "release" /\ ~careless =>
            IF t.action = "BACKUP"
            THEN [source |-> t.source, records |-> store.records[t.source]] \in backups
            ELSE /\ store.records[t.source] = Desired(t)
                 /\ t.action # "RESTORE" => before[c].records[t.source] \subseteq t.records
================================================================================
