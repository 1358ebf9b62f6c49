CONSTANTS
    t1 = t1
    h1 = h1
    h2 = h2
    Hypotheses = {h1, h2}
    Tables = {t1}
    TableOf <- MCTableOf
    Columns = {b1, b2}
    Intents = {d1, d2}
    LastPhase = 2
    MaxRunProbes = 4
    MaxObjectProbes = 3
    MaxTableProbes = 4
    MaxHypothesisProbes = 3
    MaxNoGain = 2
    MaxCounterevidence = 2
SPECIFICATION ProgressiveSpec
PROPERTIES UnknownHoldsTheBranch
SYMMETRY ProgressiveSymmetry
CHECK_DEADLOCK FALSE
