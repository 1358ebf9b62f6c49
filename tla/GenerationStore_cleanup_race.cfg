\* A cleanup runs while another process activates a generation.
CONSTANTS
    Generations = {g1, g2}
    Staging = {s1, s2}
    Temps = {t1, t2}
    Procs = {m, p}
    Provisioners = {p}
    Recoverers = {}
    Cleaners = {m}
    Readers = {}
    None = None
SPECIFICATION Spec
SYMMETRY DataSymmetry
PROPERTIES ActiveGenerationUntouched
