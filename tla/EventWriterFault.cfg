SPECIFICATION Spec
CONSTANTS
    MaxEvents = 5
    MaxLineBytes = 4
    MaxLogBytes = 9
    Reserve = 3
    OmissionField = 2
    MaxStaged = 2
    MaxOffered = 3
    MaxRestarts = 1
    LineSizes <- MCLineSizes
    FaultyAppends <- AllFaults
INVARIANT
    MarkerBindsLog
CHECK_DEADLOCK FALSE
