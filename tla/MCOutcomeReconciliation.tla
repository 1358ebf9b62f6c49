----------------------- MODULE MCOutcomeReconciliation -----------------------
(* Model values for OutcomeReconciliation: recoverers, and compensators, are *)
(* interchangeable; keys are not, one of them is the context's.               *)
EXTENDS OutcomeReconciliation, TLC

Interchangeable == Permutations(Recoverers) \union Permutations(Compensators)
=============================================================================
