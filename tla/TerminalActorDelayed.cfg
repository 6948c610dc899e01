SPECIFICATION Spec
CONSTANTS
    c1 = c1
    t1 = t1
    t2 = t2
    t3 = t3
    s1 = s1
    Commands = {c1}
    Tasks = {t1, t2, t3}
    Snapshots = {s1}
    Troubled = {t3}
    Sessions = {{c1}}
    Later = {t2}
    DelayedRun = TRUE
    MaxBackground = 1
    SpoolPerRun = 2
    MaxTombstones = 1
\* A session that was cleaned up is over.
CHECK_DEADLOCK FALSE
INVARIANT
    OwnedUntilGone
