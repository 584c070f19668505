\* Every function shape with up to two int, boolean, string or object
\* arguments passed in or with no direction.
CONSTANTS
    MaxArgs = 2
    ArgTypes = {"int", "bool", "string", "object"}
    ArgDirs = {"in", "null"}
    Targets <- AllTargets
    MaxWords = 2
    IntLiteral = 1
SPECIFICATION Spec
INVARIANT ArgumentsArriveUnchanged
\* execute() returns after calling the implementation.
CHECK_DEADLOCK FALSE
