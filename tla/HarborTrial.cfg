SPECIFICATION Spec
CONSTANTS
    t1 = t1
    Tasks = {t1}
    WsFiles = 1
    MaxFaults = 2
    Names = {"agent-run.json", "trajectory.json", "runtime-background-manifest.json", "workspace-receipt.json", "runtime-entry.json"}
    Strays = {"agent-run.json", "workspace-receipt.json"}
\* A trial that is over stays over.
CHECK_DEADLOCK FALSE
INVARIANTS
    EntryTruth
    CaptureHonest
    VerifierSafe
    CleanEnd
    HandoffHonest
    Published
    HistoryIsolated
