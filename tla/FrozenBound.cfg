CONSTANTS
    m1 = m1 m2 = m2 a = a b = b early = early late = late soon = soon
    Member = {m1, m2}
    Dep = {a, b}
    Needs <- MCNeeds
    Version = {early, late}
    Time = {soon}
    Older <- MCOlder
    None = None
    Torn = Torn
    IoFaults = TRUE
    MaxVerbs = 3
SPECIFICATION Spec
SYMMETRY Directories
CHECK_DEADLOCK FALSE
INVARIANT LockHonoursBound
