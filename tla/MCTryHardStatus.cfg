SPECIFICATION MCRandomSpec
CONSTANTS
    MaxTime = 4
    Trials <- MCTrials
    Delays <- MCDelays
    Increments <- MCIncrements
    Factors <- MCFactors
    Printable <- MCPrintable
    Longest = 6
    Statuses <- MCStatuses
    TrialCap = 5
    Unusable = Unusable
INVARIANT ExitOfLastTrial
