\* One file, every mode C's fopen accepts here, two calls.
CONSTANTS
    Names = {n1}
    Modes <- CModes
    MaxOpens = 2
SPECIFICATION Spec
INVARIANT AccessAnnouncedToRuntime
\* The application stops after its last call.
CHECK_DEADLOCK FALSE
