--------------------------- MODULE PortableLifecycle ---------------------------
(***************************************************************************)
(* The tombstone and the cleanup of a restored portable runtime            *)
(* (hosting/portable-runtime-lifecycle.mjs): an authenticated marker in    *)
(* the restored root, two trees, and the handles that processes hold on    *)
(* the root.  Each checks the whole root, then removes the trees and       *)
(* replaces the marker; it may be killed between any two calls, and each   *)
(* call may throw.                                                         *)
(***************************************************************************)
EXTENDS FiniteSets

CONSTANTS Handles

VARIABLES
    portableMarker, \* the state in portable-lifecycle.json
    trees,          \* the restored trees that are still whole
    remains,        \* the trees that are not gone
    leftovers,      \* the handles whose pending marker file is in the root
    handle,         \* per handle: what it is doing
    writes,         \* per handle: the state it is about to write
    disturbed       \* history: a handle was killed, a call of one threw, or two were at work

portableVars == <<portableMarker, trees, remains, leftovers, handle, writes, disturbed>>

Trees == {"receipts", "projection"}
LifecycleStates == {"RESTORED_LOCAL", "TOMBSTONED", "SCOPED_DATA_REMOVED"}
Removing == [receipts |-> "removing receipts", projection |-> "removing projection"]
Work == Trees \union {Removing[t] : t \in Trees} \union {"pending", "rename"}

PortableTypeOK ==
    /\ portableMarker \in LifecycleStates /\ trees \subseteq Trees /\ remains \subseteq Trees
    /\ leftovers \subseteq Handles
    /\ handle \in [Handles -> Work \union {"open", "closed"}]
    /\ writes \in [Handles -> LifecycleStates]
    /\ disturbed \in BOOLEAN

\* createH08PortableLifecycleV1 restored the bundle and wrote the first marker.
PortableInit ==
    /\ portableMarker = "RESTORED_LOCAL"
    /\ trees = Trees /\ remains = Trees /\ leftovers = {}
    /\ handle = [h \in Handles |-> "open"]
    /\ writes = [h \in Handles |-> "RESTORED_LOCAL"]
    /\ disturbed = FALSE

HandleTo(h, s) == handle' = [handle EXCEPT ![h] = s]

\* qualifiedTree: the root holds exactly the trees, their files and the marker.
Qualified == trees = Trees /\ leftovers = {}

Start(h, first, state) ==
    /\ handle[h] = "open"
    /\ Qualified
    /\ HandleTo(h, first)
    /\ writes' = [writes EXCEPT ![h] = state]
    /\ disturbed' = (disturbed \/ \E o \in Handles : handle[o] \in Work)
    /\ UNCHANGED <<portableMarker, trees, remains, leftovers>>

Tombstone(h) ==
    /\ portableMarker # "SCOPED_DATA_REMOVED"
    /\ Start(h, "pending", "TOMBSTONED")

\* Mutant: the cleanup does not ask for the tombstone.
CleanupUntombstoned(h) ==
    /\ portableMarker # "SCOPED_DATA_REMOVED"
    /\ Start(h, "receipts", "SCOPED_DATA_REMOVED")

Cleanup(h) ==
    /\ portableMarker = "TOMBSTONED"
    /\ Start(h, "receipts", "SCOPED_DATA_REMOVED")

\* rmSync removes a tree file by file; of a tree that is gone it is an error.
BeginRemoval(h) ==
    /\ handle[h] \in Trees
    /\ trees' = trees \ {handle[h]}
    /\ HandleTo(h, IF handle[h] \in remains THEN Removing[handle[h]] ELSE "open")
    /\ UNCHANGED <<portableMarker, remains, leftovers, writes, disturbed>>

EndRemoval(h, t) ==
    /\ handle[h] = Removing[t]
    /\ remains' = remains \ {t}
    /\ HandleTo(h, IF t = "receipts" THEN "projection" ELSE "pending")
    /\ UNCHANGED <<portableMarker, trees, leftovers, writes, disturbed>>

\* The new marker is written to a pending file of its own, and renamed.
WritePendingMarker(h) ==
    /\ handle[h] = "pending"
    /\ leftovers' = leftovers \union {h}
    /\ HandleTo(h, "rename")
    /\ UNCHANGED <<portableMarker, trees, remains, writes, disturbed>>

RenameMarker(h) ==
    /\ handle[h] = "rename"
    /\ portableMarker' = writes[h]
    /\ leftovers' = leftovers \ {h}
    /\ HandleTo(h, "open")
    /\ UNCHANGED <<trees, remains, writes, disturbed>>

\* A removal, the write of the marker or its rename throws: what was removed stays removed,
\* the pending file stays if it was created, and the handle stays open.
WorkFails(h) ==
    /\ handle[h] \in Work
    /\ \/ UNCHANGED leftovers
       \/ handle[h] = "pending" /\ leftovers' = leftovers \union {h}
    /\ HandleTo(h, "open")
    /\ disturbed' = TRUE
    /\ UNCHANGED <<portableMarker, trees, remains, writes>>

\* A handle is closed, or its process killed at work.
CloseHandle(h) ==
    /\ handle[h] # "closed"
    /\ HandleTo(h, "closed")
    /\ disturbed' = (disturbed \/ handle[h] \in Work)
    /\ UNCHANGED <<portableMarker, trees, remains, leftovers, writes>>

PortableNext ==
    \E h \in Handles :
        \/ Tombstone(h) \/ Cleanup(h) \/ BeginRemoval(h) \/ \E t \in Trees : EndRemoval(h, t)
        \/ WritePendingMarker(h) \/ RenameMarker(h) \/ WorkFails(h) \/ CloseHandle(h)

PortableSpec == PortableInit /\ [][PortableNext]_portableVars
--------------------------------------------------------------------------------
(* Restored data goes only under a tombstone; "removed" is said only of trees that are
   gone, whoever else is at work, whatever was killed and whichever call threw; and as long
   as no handle was killed, no call threw and no two handles met, a root at rest is whole
   or removed, never half removed or with a pending file in it, which every later call
   refuses. *)
PortableMarkerTellsTheTruth ==
    /\ trees # Trees => portableMarker # "RESTORED_LOCAL"
    /\ portableMarker = "SCOPED_DATA_REMOVED" => remains = {}
    /\ ~disturbed /\ (\A h \in Handles : handle[h] \notin Work)
         => Qualified \/ portableMarker = "SCOPED_DATA_REMOVED"
================================================================================
