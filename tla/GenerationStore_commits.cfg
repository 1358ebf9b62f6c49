\* Two processes provision at once, nobody is killed: progress.
CONSTANTS
    Generations = {g1, g2}
    Staging = {s1, s2}
    Temps = {t1, t2}
    Procs = {p1, p2}
    Provisioners = {p1, p2}
    Recoverers = {}
    Cleaners = {}
    Readers = {p1, p2}
    None = None
SPECIFICATION NoKillSpec
PROPERTIES StagedGenerationCommits
