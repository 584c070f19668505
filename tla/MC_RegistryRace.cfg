\* Two threads register the same address once each.
CONSTANTS
    Threads = {th1, th2}
    Refs = {r1}
    RefOf <- SameAddress
    TmpNames = {n1, n2}
    NULL = NULL
    MaxCalls = 1
SPECIFICATION Spec
INVARIANT ConcurrentRegistrationsAgree
\* Each thread makes one call and the run ends.
CHECK_DEADLOCK FALSE
