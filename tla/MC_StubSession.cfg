\* One application thread calling stubs of every shape; the
\* return_object's stack slot also usable by application locals.
CONSTANTS
    Refs = {a1, a2}
    RetAddr = a1
    TmpNames = {t1, t2}
    UserFiles = {}
    NULL = NULL
    NoType = NoType
    Uninit = Uninit
    FdLimit = 2
    IOFailure = FALSE
    MaxSessions = 1
    Classes = {"A", "B"}
    Vals = {v1, v2}
    Dflt = Dflt
    Funcs <- AllShapes
    MaxCalls = 3
SPECIFICATION Spec
INVARIANT ReturnValueDelivered
INVARIANT UpdatesChained
\* The application may stop after its last call.
CHECK_DEADLOCK FALSE
