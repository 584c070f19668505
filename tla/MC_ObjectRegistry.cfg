\* One application session: three addresses, a descriptor limit below the
\* number of addresses and I/O failures allowed, so that mkstemp failure,
\* re-registration and compss_off all occur.
CONSTANTS
    Refs = {r1, r2, r3}
    TmpNames = {t1, t2, t3}
    UserFiles = {u1}
    NULL = NULL
    NoType = NoType
    Uninit = Uninit
    FdLimit = 2
    IOFailure = TRUE
    MaxSessions = 1
SPECIFICATION Spec
INVARIANT TypeOK
\* The application ends after compss_off.
CHECK_DEADLOCK FALSE
