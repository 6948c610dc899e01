SPECIFICATION Spec
CONSTANTS
    NsPerMs = 1
    MinStageMs = 1
    U64Max = 100
    ActorDone = 1
    ToolSettled = 7
    ReserveMs = 6
    CleanupStart = 8
    HardDeadline = 9
    MaxCalls = 2
    MaxTime = 9
INVARIANTS
    NeverBlamed
    PublicationWindowKept
    DeadlineBeforeEof
    CleanReturn
PROPERTIES
    KeepsContract
    Returns
