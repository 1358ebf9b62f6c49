\* A recovery runs while another process stages and activates a generation.
CONSTANTS
    Generations = {g1, g2}
    Staging = {s1, s2}
    Temps = {t1, t2}
    Procs = {m, p}
    Provisioners = {p}
    Recoverers = {m}
    Cleaners = {}
    Readers = {}
    None = None
SPECIFICATION Spec
SYMMETRY DataSymmetry
INVARIANTS PointerResolvable
