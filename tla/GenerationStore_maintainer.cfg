\* One maintainer runs every operation and may be killed at any point; one reader.
CONSTANTS
    Generations = {g1, g2}
    Staging = {s1, s2}
    Temps = {t1, t2}
    Procs = {m, r}
    Provisioners = {m}
    Recoverers = {m}
    Cleaners = {m}
    Readers = {r}
    None = None
SPECIFICATION Spec
SYMMETRY DataSymmetry
INVARIANTS TypeOK TornGenerationCanBeCleaned
PROPERTIES ImplementsActiveGeneration RecoverLeavesNoStaging CleanupLeavesOnlyActive
