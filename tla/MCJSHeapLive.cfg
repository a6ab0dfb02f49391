CONSTANTS
    o1 = o1
    o2 = o2
    o3 = o3
    r1 = r1
    r2 = r2
    NULL = NULL
    Objs <- MCObjs
    Roots <- MCRoots
    Fields <- MCFields
    Limits = {0}
    MallocMayFail = TRUE
    ErrValue = ErrValue
SPECIFICATION Spec
PROPERTIES
    AcyclicGarbageFreed
