SPECIFICATION Spec
CONSTANTS
    NsPerMs = 2
    MinStageMs = 1
    U64Max = 30
    CleanupMs = 1
    TerminalizationMs = 1
    ProviderSendMs = 1
    ProcessSettlementMs = 6
    ReserveMs = {0, 1, 2, 5}
\* A run with its deadline makes no step that matters here.
CHECK_DEADLOCK FALSE
INVARIANTS
    StagesAgree
    StageMinimum
    DeadlineAgrees
