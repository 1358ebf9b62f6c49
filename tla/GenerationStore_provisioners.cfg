\* Two processes provision at once and may be killed; one reader; no maintenance.
CONSTANTS
    Generations = {g1, g2}
    Staging = {s1, s2}
    Temps = {t1, t2}
    Procs = {p1, p2, r}
    Provisioners = {p1, p2}
    Recoverers = {}
    Cleaners = {}
    Readers = {r}
    None = None
SPECIFICATION Spec
SYMMETRY DataSymmetry
INVARIANTS PointerResolvable ReaderNeverRefused
