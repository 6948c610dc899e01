SPECIFICATION Spec
CONSTANTS
    t1 = t1
    t2 = t2
    Trials = {t1, t2}
    Concurrency = 1
    Detailed = {t1}
    Pricings = {"own", "other"}
    Ends = {"priced", "plain"}
    Finals = {"success", "provider_failure"}
    Snapshots = {"complete"}
    Results = {"rewarded", "rewarded_late", "unfinished", "errored"}
    Edits = {"rewarded", "misnamed"}
\* A campaign that is over and collected may stop.
CHECK_DEADLOCK FALSE
INVARIANTS
    InterruptionHonest
    ScoreAgrees
    Collectable
