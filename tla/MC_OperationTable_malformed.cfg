\* Records of every length up to the longest well-formed one, naming
\* functions of the table or not.
CONSTANTS
    Names <- PlainNames
    MaxFuncs = 3
    MaxSlaves = 2
    MaxAppArgs = 1
    WellFormed = FALSE
SPECIFICATION Spec
INVARIANT MalformedRecordRejected
\* execute() returns once the case, the error path or the rejection has run.
CHECK_DEADLOCK FALSE
