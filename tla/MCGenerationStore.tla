-------------------------- MODULE MCGenerationStore --------------------------
(* Small instances of GenerationStore for TLC.                             *)
EXTENDS GenerationStore, TLC

\* Ids and names are only ever compared, so they are interchangeable; a
\* process is not, for the roles differ.
DataSymmetry == Permutations(Generations) \union Permutations(Staging) \union Permutations(Temps)

\* A run in which nobody is killed: only then is an operation that has begun
\* bound to end by itself.
NoKillSpec == /\ Init
              /\ [][\E p \in Procs : Begin(p) \/ Continue(p)]_vars
              /\ \A p \in Procs : WF_vars(Continue(p))
=============================================================================
