SPECIFICATION Spec
CONSTANTS
    Name <- MCName
    Builtin <- MCBuiltin
    Container <- MCContainer
    Handle = "handle"
    Struct <- MCStruct
    Interface <- MCInterface
    MaxDeclarations = 3
INVARIANTS
    TypesExist
CHECK_DEADLOCK FALSE
