SPECIFICATION CppSpec
CONSTANTS
    Name <- MCName
    Builtin <- MCBuiltin
    Container <- MCContainer
    Handle = "handle"
    Struct <- MCStruct
    Interface <- MCInterface
    MaxDeclarations = 3
INVARIANTS
    TypeOK
    DefinedBeforeUse
    TaintIsExact
    NoHandleContained
    CallsAgree
    HeaderInOrder
    HandlesAreTranslated
CHECK_DEADLOCK FALSE
