\* Schemas of up to three functions over the method A::f and a free
\* function A__f, the smallest pair replace_char maps to one enumerator.
CONSTANTS
    Names <- ClashingNames
    MaxFuncs = 3
    MaxSlaves = 2
    MaxAppArgs = 1
    WellFormed = FALSE
SPECIFICATION Spec
INVARIANT EnumeratorsDistinct
\* execute() returns once the case, the error path or the rejection has run.
CHECK_DEADLOCK FALSE
