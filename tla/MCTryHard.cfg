SPECIFICATION FairSpec
CONSTANTS
    MaxTime = 4
    Trials <- MCTrials
    Delays <- MCDelays
    Increments <- MCIncrements
    Factors <- MCFactors
    Printable <- MCPrintable
    Longest = 6
    Statuses <- MCStatuses
    TrialCap = 5
    Unusable = Unusable
INVARIANTS
    TypeOK
    ExitTells
    DelaysInBounds
    WaitNeverRefused
    PausesBetweenTrials
    SleepsTheDelay
PROPERTIES
    BacksOff
    Terminates
