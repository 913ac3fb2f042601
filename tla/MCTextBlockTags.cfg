SPECIFICATION MCSpec
CONSTANTS
    Chars <- MCChars
    CommandLines <- MCCommandLines
    Inputs <- MCAllInputs
INVARIANT
    TagsOnlyAsManual
