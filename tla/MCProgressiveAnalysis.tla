-------------------------- MODULE MCProgressiveAnalysis --------------------------
\* Two hypotheses of one table, for TLC.
EXTENDS ProgressiveAnalysis, TLC

CONSTANTS t1, h1, h2

MCTableOf == (h1 :> t1) @@ (h2 :> t1)

ProgressiveSymmetry ==
    Permutations({h1, h2}) \union Permutations(Columns) \union Permutations(Intents)
================================================================================
