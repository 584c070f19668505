\* A free void function with one argument of every type that owns a
\* buffer, in every direction.
CONSTANTS
    MaxArgs = 1
    ArgTypes = {"int", "string", "object", "file"}
    ArgDirs = {"in", "out", "inout", "null"}
    Targets <- FreeVoid
    MaxWords = 1
    IntLiteral = 1
SPECIFICATION Spec
INVARIANT ReleasesDecodeBuffers
\* execute() returns after calling the implementation.
CHECK_DEADLOCK FALSE
