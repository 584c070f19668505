\* A non-void method called on an object of class A.
CONSTANTS
    Refs = {a1, a2}
    RetAddr = a1
    TmpNames = {t1, t2}
    UserFiles = {}
    NULL = NULL
    NoType = NoType
    Uninit = Uninit
    FdLimit = 2
    IOFailure = FALSE
    MaxSessions = 1
    Classes = {"A", "B"}
    Vals = {v1, v2}
    Dflt = Dflt
    Funcs <- ValueMethod
    MaxCalls = 3
SPECIFICATION Spec
INVARIANT ReturnValueDelivered
