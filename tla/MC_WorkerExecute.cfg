\* Every function shape, every argument type and direction, up to two
\* arguments and strings of up to two words.
CONSTANTS
    MaxArgs = 2
    ArgTypes = {"int", "bool", "string", "object", "file"}
    ArgDirs = {"in", "out", "inout", "null"}
    Targets <- AllTargets
    MaxWords = 2
    IntLiteral = 1
SPECIFICATION Spec
INVARIANT FixedArgumentsAligned
INVARIANT CallMatchesPrototype
\* execute() returns after calling the implementation.
CHECK_DEADLOCK FALSE
