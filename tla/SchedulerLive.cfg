CONSTANTS
    Tasks = {t1}
    Drafts <- MixedDrafts
    NoTask = NoTask
    NoJob = NoJob
    Never = Never
    Attached = FALSE
    Second = 2
    MaxGap = 3
    Window = 6
    Minute = 8
    Cycle = 2
    MaxAge = 9
    Wrap = 64
    DurationMax = 32
    MaxTurns = 1
SPECIFICATION FairSpec
CHECK_DEADLOCK FALSE
INVARIANTS
    EveryRunRecorded
PROPERTIES
    GuardReleased
    Recurs
    OnceFires
