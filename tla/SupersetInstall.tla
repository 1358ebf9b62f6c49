---------------------------- MODULE SupersetInstall ----------------------------
(***************************************************************************)
(* The staged installation of Superset's metadata database                 *)
(* (superset/runtime/ks254_install.py over generation_store.py, the Python *)
(* counterpart of the store that GenerationStore models call by call).     *)
(* Here an activation, a recovery and a cleanup of the store are one step  *)
(* each; the seeding of the candidate, and the check and replacement of    *)
(* the live database, are taken apart, because the running Superset writes *)
(* to it meanwhile.  A database is what it holds: the writes of the        *)
(* runtime and the installations it went through.                          *)
(***************************************************************************)
EXTENDS Naturals, FiniteSets

CONSTANTS Installs, InstallRecoveries,   \* processes of init.sh, by mode
          Writes, NoInstall

ASSUME InstallAssumption ==
    NoInstall \notin Installs /\ Installs \intersect InstallRecoveries = {}

VARIABLES
    live,        \* the database at the live path
    base,        \* per install: the live database its candidate was seeded from
    candidate,   \* per install: its database, in its staging directory or generation
    staged,      \* the installs whose staging directory is complete
    generations, \* the installs whose generation is published
    current,     \* the install whose generation the pointer names
    run,         \* per process: where it is
    mirrors,     \* per process: the generation it brings to the live path
    seen,        \* per process: the live database it compared
    stripped,    \* history: the installs whose candidate was removed under their commands
    raced        \* history: the live database was replaced although it was no longer the one
                 \* compared, or was whole and could not be read, or by a stripped candidate

installVars == <<live, base, candidate, staged, generations, current, run, mirrors, seen,
                 stripped, raced>>

Contents == Writes \union Installs
Databases == [whole : BOOLEAN, holds : SUBSET Contents]
Missing == [whole |-> FALSE, holds |-> {}]

InstallTypeOK ==
    /\ live \in Databases
    /\ base \in [Installs -> Databases] /\ candidate \in [Installs -> Databases]
    /\ staged \subseteq Installs /\ generations \subseteq Installs
    /\ current \in Installs \union {NoInstall}
    /\ run \in [Installs \union InstallRecoveries ->
                  {"idle", "copy", "build", "activate", "read", "check", "replace", "over"}]
    /\ mirrors \in [Installs \union InstallRecoveries -> Installs \union {NoInstall}]
    /\ seen \in [Installs \union InstallRecoveries -> Databases]
    /\ stripped \subseteq Installs /\ raced \in BOOLEAN

InstallInit ==
    /\ live = Missing
    /\ base = [i \in Installs |-> Missing] /\ candidate = [i \in Installs |-> Missing]
    /\ staged = {} /\ generations = {} /\ current = NoInstall
    /\ run = [p \in Installs \union InstallRecoveries |-> "idle"]
    /\ mirrors = [p \in Installs \union InstallRecoveries |-> NoInstall]
    /\ seen = [p \in Installs \union InstallRecoveries |-> Missing]
    /\ stripped = {} /\ raced = FALSE

RunTo(p, s) == run' = [run EXCEPT ![p] = s]

\* verify_metadata_database of the live path: a whole database may be unreadable for the
\* moment (locked by the runtime).
Looks == {live, Missing}

--------------------------------------------------------------------------------
\* The runtime commits a write to the live database.
RuntimeWrites(w) ==
    /\ live.whole
    /\ live' = [live EXCEPT !.holds = @ \union {w}]
    /\ UNCHANGED <<base, candidate, staged, generations, current, run, mirrors, seen,
                   stripped, raced>>

\* install: the digest of the live database goes into the receipt ...
Seed(i) ==
    /\ run[i] = "idle"
    /\ \E db \in Looks :
         /\ base' = [base EXCEPT ![i] = db]
         /\ RunTo(i, IF db.whole THEN "copy" ELSE "build")
    /\ UNCHANGED <<live, candidate, staged, generations, current, mirrors, seen,
                   stripped, raced>>

\* ... and then the file is copied.
CopySeed(i) ==
    /\ run[i] = "copy"
    /\ candidate' = [candidate EXCEPT ![i] = live]
    /\ RunTo(i, "build")
    /\ UNCHANGED <<live, base, staged, generations, current, mirrors, seen,
                   stripped, raced>>

\* The pinned commands run on the candidate; it is verified, the receipt and the manifest
\* are written.  A command may fail: the staging directory is removed.
Build(i) ==
    /\ run[i] = "build"
    /\ \/ /\ candidate' = [candidate EXCEPT ![i] = [whole |-> TRUE, holds |-> @.holds \union {i}]]
          /\ staged' = staged \union {i}
          /\ RunTo(i, "activate")
       \/ RunTo(i, "over") /\ UNCHANGED <<candidate, staged>>
    /\ UNCHANGED <<live, base, generations, current, mirrors, seen,
                   stripped, raced>>

\* A staging directory that a recovery or a cleanup took away is not complete.
Activate(i) ==
    /\ run[i] = "activate"
    /\ IF i \in staged
       THEN /\ staged' = staged \ {i}
            /\ generations' = generations \union {i}
            /\ current' = i
            /\ mirrors' = [mirrors EXCEPT ![i] = i]
            /\ RunTo(i, "check")
       ELSE RunTo(i, "over") /\ UNCHANGED <<staged, generations, current, mirrors>>
    /\ UNCHANGED <<live, base, candidate, seen, stripped, raced>>

AtWork == {i \in Installs : run[i] \in {"copy", "build"}}

\* rmtree ignores its errors. Of the staging directories of installs at work some are gone,
\* and the install fails; one that was written to meanwhile stays, without the database or
\* with it, and the command at work goes on, with a new database if need be.
RemoveUnfinished(gone, emptied) ==
    /\ gone \subseteq AtWork
    /\ emptied \subseteq {i \in AtWork \ gone : run[i] = "build"}
    /\ candidate' = [i \in Installs |-> IF i \in emptied THEN Missing ELSE candidate[i]]
    /\ stripped' = stripped \union emptied

\* recover_generation_store: every complete staging directory is activated, in the order of
\* their random names; the incomplete ones are removed, also those of installs at work.
RecoverStore(r) ==
    /\ run[r] = "idle"
    /\ current' \in IF staged = {} THEN {current} ELSE staged
    /\ generations' = generations \union staged
    /\ staged' = {}
    /\ \E gone, emptied \in SUBSET Installs :
         /\ RemoveUnfinished(gone, emptied)
         /\ run' = [p \in Installs \union InstallRecoveries |->
                      IF p = r THEN "read" ELSE IF p \in gone THEN "over" ELSE run[p]]
    /\ UNCHANGED <<live, base, mirrors, seen, raced>>

ReadActive(r) ==
    /\ run[r] = "read"
    /\ mirrors' = [mirrors EXCEPT ![r] = current]
    /\ RunTo(r, IF current = NoInstall THEN "over" ELSE "check")
    /\ UNCHANGED <<live, base, candidate, staged, generations, current, seen, stripped, raced>>

\* What cannot be removed stays, whole or no generation any more.
CleanupStore ==
    /\ current # NoInstall
    /\ generations' \in {g \in SUBSET generations : current \in g}
    /\ staged' \in SUBSET staged
    /\ \E gone, emptied \in SUBSET Installs :
         /\ RemoveUnfinished(gone, emptied)
         /\ run' = [p \in Installs \union InstallRecoveries |->
                      IF p \in gone THEN "over" ELSE run[p]]
    /\ UNCHANGED <<live, base, current, mirrors, seen, raced>>

\* Mutant: an install replaces the live database whatever it holds.
ReplacesAnything(p, db) == TRUE

\* refresh_live_mirror: a whole database is replaced only if it is still the seed.
MayReplace(p, db) ==
    ~db.whole \/ (base[mirrors[p]].whole /\ db = base[mirrors[p]])

CheckLive(p) ==
    /\ run[p] = "check"
    /\ IF mirrors[p] \in generations
       THEN \E db \in Looks :
              /\ seen' = [seen EXCEPT ![p] = db]
              /\ RunTo(p, IF db # candidate[mirrors[p]] /\ MayReplace(p, db)
                          THEN "replace" ELSE "over")
       ELSE RunTo(p, "over") /\ UNCHANGED seen
    /\ UNCHANGED <<live, base, candidate, staged, generations, current, mirrors, stripped, raced>>

\* _atomic_write: a copy of the generation is renamed over the live path.
ReplaceLive(p) ==
    /\ run[p] = "replace"
    /\ IF mirrors[p] \in generations
       THEN /\ live' = candidate[mirrors[p]]
            /\ raced' = (raced \/ live # seen[p] \/ mirrors[p] \in stripped)
       ELSE UNCHANGED <<live, raced>>
    /\ RunTo(p, "over")
    /\ UNCHANGED <<base, candidate, staged, generations, current, mirrors, seen, stripped>>

\* What is staged or published stays for a recovery.
KillRun(p) ==
    /\ run[p] \notin {"idle", "over"}
    /\ RunTo(p, "over")
    /\ UNCHANGED <<live, base, candidate, staged, generations, current, mirrors, seen,
                   stripped, raced>>

InstallNext ==
    \/ \E w \in Writes : RuntimeWrites(w)
    \/ \E i \in Installs : Seed(i) \/ CopySeed(i) \/ Build(i) \/ Activate(i)
    \/ \E r \in InstallRecoveries : RecoverStore(r) \/ ReadActive(r)
    \/ CleanupStore
    \/ \E p \in Installs \union InstallRecoveries : CheckLive(p) \/ ReplaceLive(p) \/ KillRun(p)

InstallSpec == InstallInit /\ [][InstallNext]_installVars
--------------------------------------------------------------------------------
(* The live database never loses what the runtime wrote or an installation did, whichever
   install or recovery replaces it and whatever was killed before; except that a write
   between a comparison and its replacement, or a whole database that cannot be read, is
   replaced, and that so is the seed of an install whose candidate a recovery or a cleanup
   removed under the command that was at work on it. *)
LiveKeepsItsState == [][~raced' => live.holds \subseteq live'.holds]_installVars
================================================================================
