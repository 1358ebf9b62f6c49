------------------------- MODULE ProjectionPublication -------------------------
(***************************************************************************)
(* What the control server does around the generation store: an analysis   *)
(* stages and commits a generation and then refreshes the mirrors of the   *)
(* active one, the database at PROJECTION_DB and latest.json (analyze in   *)
(* server.mjs, projection-generation.mjs).  Another process may recover or *)
(* clean up the same store.  The server runs from the staging to the last  *)
(* mirror without an await, but it may be killed, or fail, at each step.   *)
(* An activation and a cleanup of the store are one step each here:        *)
(* GenerationStore takes them apart.                                       *)
(***************************************************************************)
EXTENDS Naturals

CONSTANTS Analyses, Nothing

ASSUME NothingAssumption == Nothing \notin Analyses

VARIABLES
    analysis,             \* where each analysis is
    stagedProjections,    \* the analyses whose staging directory is complete
    publishedProjections, \* the analyses whose generation is published
    active,               \* the analysis whose generation the pointer names
    copying,              \* per process: the generation it read to copy it to PROJECTION_DB
    mirror,               \* the analysis whose projection is at PROJECTION_DB
    latest,               \* the analysis whose receipt is in latest.json
    projectionRecovery,   \* the recovery: where it is, and the staging directories it listed
    behind                \* history: the mirrors that a kill, a failure or another process left
                          \* behind the pointer, until they are written again

publicationVars == <<analysis, stagedProjections, publishedProjections, active, copying, mirror,
                     latest, projectionRecovery, behind>>

Writers == {"server", "recovery"}

PublicationTypeOK ==
    /\ analysis \in [Analyses -> {"idle", "reading", "staged", "mirror", "receipts", "over"}]
    /\ stagedProjections \subseteq Analyses /\ publishedProjections \subseteq Analyses
    /\ active \in Analyses \union {Nothing}
    /\ copying \in [Writers -> Analyses \union {Nothing}]
    /\ mirror \in Analyses \union {Nothing} /\ latest \in Analyses \union {Nothing}
    /\ projectionRecovery \in [at : {"idle", "activating", "mirroring"}, listed : SUBSET Analyses]
    /\ behind \subseteq {"mirror", "latest"}

PublicationInit ==
    /\ analysis = [a \in Analyses |-> "idle"]
    /\ stagedProjections = {} /\ publishedProjections = {}
    /\ active = Nothing /\ mirror = Nothing /\ latest = Nothing
    /\ copying = [w \in Writers |-> Nothing]
    /\ projectionRecovery = [at |-> "idle", listed |-> {}]
    /\ behind = {}

\* Mutant: the mirrors are written asynchronously.
NeverBusy == FALSE

\* From the end of its staging to its last mirror an analysis runs without an await.
Busy == \E a \in Analyses : analysis[a] \in {"staged", "mirror", "receipts"}

AnalysisTo(a, s) == analysis' = [analysis EXCEPT ![a] = s]

--------------------------------------------------------------------------------
\* analyze() awaits runAnalyzeProfile.
Analyze(a) ==
    /\ analysis[a] = "idle" /\ ~Busy
    /\ AnalysisTo(a, "reading")
    /\ UNCHANGED <<stagedProjections, publishedProjections, active, copying, mirror, latest,
                   projectionRecovery, behind>>

\* stageProjectionGeneration
StageProjection(a) ==
    /\ analysis[a] = "reading" /\ ~Busy
    /\ stagedProjections' = stagedProjections \union {a}
    /\ AnalysisTo(a, "staged")
    /\ UNCHANGED <<publishedProjections, active, copying, mirror, latest, projectionRecovery, behind>>

\* activateGeneration: the staging directory is renamed, or another process has published
\* the very generation in the meantime; the pointer names it from now on.
Rename(a) ==
    /\ a \in stagedProjections \union publishedProjections
    /\ stagedProjections' = stagedProjections \ {a}
    /\ publishedProjections' = publishedProjections \union {a}

Commit(a) == Rename(a) /\ active' = a

\* A copy that the recovery has read is now an old one.
CommitProjection(a) ==
    /\ analysis[a] = "staged"
    /\ Commit(a)
    /\ AnalysisTo(a, "mirror")
    /\ behind' = behind \union (IF copying["recovery"] = Nothing THEN {} ELSE {"mirror"})
    /\ UNCHANGED <<copying, mirror, latest, projectionRecovery>>

\* mirrorActiveProjectionGeneration reads the active generation ...
ReadProjection(w) ==
    /\ copying[w] = Nothing
    /\ copying' = [copying EXCEPT ![w] = active]

\* ... and replaces the file.  It is up to date again if neither this copy nor another one
\* under way is of an older generation.
WriteMirror(w) ==
    /\ copying[w] # Nothing
    /\ mirror' = copying[w]
    /\ copying' = [copying EXCEPT ![w] = Nothing]
    /\ behind' = IF \A v \in Writers : copying[v] \in {active, Nothing}
                 THEN behind \ {"mirror"} ELSE behind

Mirror(a) ==
    /\ analysis[a] = "mirror"
    /\ \/ ReadProjection("server") /\ UNCHANGED <<mirror, behind, analysis>>
       \/ WriteMirror("server") /\ AnalysisTo(a, "receipts")
    /\ UNCHANGED <<stagedProjections, publishedProjections, active, latest, projectionRecovery>>

\* The receipt of its generation is copied to latest.json and the analysis answers.
WriteReceipts(a) ==
    /\ analysis[a] = "receipts"
    /\ latest' = a
    /\ behind' = IF active = a THEN behind \ {"latest"} ELSE behind
    /\ AnalysisTo(a, "over")
    /\ UNCHANGED <<stagedProjections, publishedProjections, active, copying, mirror,
                   projectionRecovery>>

\* The analyses of S end where they are.  A generation that was renamed and not yet named by
\* the pointer stays published; a pointer that was moved stays ahead of the mirrors.
EndAnalyses(S) ==
    /\ analysis' = [a \in Analyses |-> IF a \in S THEN "over" ELSE analysis[a]]
    /\ \/ UNCHANGED <<stagedProjections, publishedProjections>>
       \/ \E a \in S \intersect stagedProjections : analysis[a] = "staged" /\ Rename(a)
    /\ copying' = IF \E a \in S : analysis[a] = "mirror"
                  THEN [copying EXCEPT !["server"] = Nothing] ELSE copying
    /\ behind' = behind \union (IF \E a \in S : analysis[a] = "mirror" THEN {"mirror"} ELSE {})
                        \union (IF \E a \in S : analysis[a] \in {"mirror", "receipts"}
                                THEN {"latest"} ELSE {})
    /\ UNCHANGED <<active, mirror, latest, projectionRecovery>>

\* The source cannot be read, the staging directory is gone, the generation does not verify,
\* or a file cannot be written: the analysis throws.
AnalysisFails(a) ==
    /\ analysis[a] \notin {"idle", "over"}
    /\ analysis[a] = "reading" => ~Busy
    /\ EndAnalyses({a})

\* The server is killed and started again.
KillServer ==
    LET AtWork == {a \in Analyses : analysis[a] \notin {"idle", "over"}} IN
    AtWork # {} /\ EndAnalyses(AtWork)

--------------------------------------------------------------------------------
\* recoverProjectionStore, in another process, lists the staging directories ...
StartProjectionRecovery ==
    /\ projectionRecovery.at = "idle"
    /\ projectionRecovery' = [at |-> "activating", listed |-> stagedProjections]
    /\ UNCHANGED <<analysis, stagedProjections, publishedProjections, active, copying, mirror,
                   latest, behind>>

\* ... and activates the complete ones, in the order of their random names; one that another
\* process has taken is discarded.  Its commit leaves both mirrors behind.
RecoverProjection(a) ==
    /\ projectionRecovery.at = "activating" /\ a \in projectionRecovery.listed
    /\ projectionRecovery' = [projectionRecovery EXCEPT !.listed = @ \ {a}]
    /\ \/ Commit(a) /\ behind' = {"mirror", "latest"}
       \/ /\ a \notin stagedProjections
          /\ UNCHANGED <<stagedProjections, publishedProjections, active, behind>>
    /\ UNCHANGED <<analysis, copying, mirror, latest>>

\* With the active generation, and unless no PROJECTION_DB was given, it then refreshes the
\* database; it never writes latest.json.
RecoverMirror ==
    /\ projectionRecovery.listed = {}
    /\ \/ /\ projectionRecovery.at = "activating" /\ active # Nothing
          /\ ReadProjection("recovery")
          /\ projectionRecovery' = [projectionRecovery EXCEPT !.at = "mirroring"]
          /\ UNCHANGED <<mirror, behind>>
       \/ /\ projectionRecovery.at = "mirroring"
          /\ WriteMirror("recovery")
          /\ projectionRecovery' = [projectionRecovery EXCEPT !.at = "idle"]
    /\ UNCHANGED <<analysis, stagedProjections, publishedProjections, active, latest>>

\* The recovery is killed, throws, or has no mirror to write; one staging directory may be
\* renamed, and the pointer not moved to it yet.
EndProjectionRecovery ==
    /\ projectionRecovery.at # "idle"
    /\ projectionRecovery' = [at |-> "idle", listed |-> {}]
    /\ \/ UNCHANGED <<stagedProjections, publishedProjections>>
       \/ \E a \in projectionRecovery.listed \intersect stagedProjections : Rename(a)
    /\ copying' = [copying EXCEPT !["recovery"] = Nothing]
    /\ UNCHANGED <<analysis, active, mirror, latest, behind>>

\* cleanupProjectionStore, in another process, removes what is not active.
CleanupProjections ==
    /\ active # Nothing
    /\ stagedProjections \union publishedProjections # {active}
    /\ stagedProjections' = {}
    /\ publishedProjections' = {active}
    /\ UNCHANGED <<analysis, active, copying, mirror, latest, projectionRecovery, behind>>

PublicationNext ==
    \/ \E a \in Analyses :
         \/ Analyze(a) \/ StageProjection(a) \/ CommitProjection(a) \/ Mirror(a)
         \/ WriteReceipts(a) \/ AnalysisFails(a) \/ RecoverProjection(a)
    \/ KillServer \/ StartProjectionRecovery \/ RecoverMirror \/ EndProjectionRecovery
    \/ CleanupProjections

PublicationSpec == PublicationInit /\ [][PublicationNext]_publicationVars
--------------------------------------------------------------------------------
(* Whenever a handler of the server may run, PROJECTION_DB and latest.json are of the
   generation that the pointer names, unless the writing of that mirror was cut short after
   the commit, or another process committed beside it; and then until a whole analysis, or
   for PROJECTION_DB a whole recovery, has written it again undisturbed. *)
MirrorsFollowThePointer ==
    (\A a \in Analyses : analysis[a] \notin {"mirror", "receipts"}) =>
        /\ "mirror" \notin behind => mirror = active
        /\ "latest" \notin behind => latest = active
================================================================================
