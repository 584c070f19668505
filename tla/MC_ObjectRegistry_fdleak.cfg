\* No I/O errors at all, and two sessions: mkstemp fails only when earlier
\* registrations leaked the descriptors, and compss_on follows compss_off.
CONSTANTS
    Refs = {r1, r2, r3}
    TmpNames = {t1, t2, t3}
    UserFiles = {u1}
    NULL = NULL
    NoType = NoType
    Uninit = Uninit
    FdLimit = 2
    IOFailure = FALSE
    MaxSessions = 2
SPECIFICATION Spec
INVARIANT FoundMeansBackingFileReady
CHECK_DEADLOCK FALSE
