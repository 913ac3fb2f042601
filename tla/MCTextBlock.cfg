SPECIFICATION MCSpec
CONSTANTS
    Chars <- MCChars
    CommandLines <- MCCommandLines
    Inputs <- MCAllInputs
INVARIANTS
    TypeOK
    AssertionsHold
    LinesConserved
    OutputAsManual
    ActionLimitsHold
PROPERTIES
    ScanAdvances
    Terminates
