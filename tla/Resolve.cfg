CONSTANTS
    rp = rp rc = rc rq = rq ru = ru xc = xc xu = xu xw = xw
    Names = {"p", "c", "q", "u", "w"}
    Registry = {rp, rc, rq, ru}
    Urls = {xc, xu, xw}
    Published <- MCPublished
    Root = Root
    Nothing = Nothing
    Version <- MCVersion
    Worlds <- MCWorlds
    Faults = TRUE
SPECIFICATION FairSpec
CHECK_DEADLOCK FALSE
INVARIANTS TypeOK SolutionIsSound OneSourcePerName KnownConstrainersCaught
PROPERTY ResolveReturns
