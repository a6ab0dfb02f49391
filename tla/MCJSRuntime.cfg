CONSTANTS
    o1 = o1
    o2 = o2
    o3 = o3
    g1 = g1
    g2 = g2
    r1 = r1
    r2 = r2
    c1 = c1
    c2 = c2
    f1 = f1
    f2 = f2
    NULL = NULL
    Objs <- MCObjs
    Roots <- MCRoots
    Fields = {1}
    Limits = {0}
    MallocMayFail = TRUE
    ErrValue = ErrValue
    Ctxs = {c1, c2}
    Global <- MCGlobal
    Fins = {f1, f2}
    MaxCtxRef = 2
    MaxJobs = 1
INIT RTInit
NEXT RTNext
SYMMETRY Symmetry
CHECK_DEADLOCK FALSE
INVARIANTS
    RTRefCountExact
    ContextGlobalAlive
    NoLeakWhenReleased
