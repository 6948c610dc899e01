SPECIFICATION Spec
CONSTANTS
    MaxEvents = 5
    MaxLineBytes = 4
    MaxLogBytes = 9
    Reserve = 3
    OmissionField = 2
    MaxStaged = 2
    MaxOffered = 3
    MaxRestarts = 1
    LineSizes <- MCLineSizes
    FaultyAppends <- AllFaults
INVARIANTS
    TerminalAlwaysFits
PROPERTIES
    EarlierRunUntouched
    FinalizationEnds
\* A settled, abandoned or crashed run is over.
CHECK_DEADLOCK FALSE
