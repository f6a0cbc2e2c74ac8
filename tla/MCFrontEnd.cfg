SPECIFICATION Spec
CONSTANTS
    Space <- MCSpace
    OtherSpace <- MCOtherSpace
    Separators <- MCSeparators
    Keywords <- MCKeywords
    Indentation = 1
    Input <- MCInput
    TextOf <- PrintedText
INVARIANTS
    TokensAreTheText
    PositionsExact
    TreeIsTheText
    PrintedIsReadBack
    SameVerdict
PROPERTIES
    ParseEnds
CHECK_DEADLOCK FALSE
