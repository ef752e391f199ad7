CONSTANTS
    Procs = {p1, p2}
    Projects = {d1, d2}
    Name = {a}
    Tree = {t1, t2}
    NoTree = NoTree
    Partial = Partial
    Local = Local
    MaxFetches = 1
    Mirrors = 2
    Crashes = TRUE
    IoFaults = TRUE
SPECIFICATION FairSpec
INVARIANTS TypeOK NeverDangles RecordsWhatWasServed ViewIsGraph ScratchCleared
PROPERTIES WriteOnce RaceLoserSucceeds JobReturns
