CONSTANTS
    Tasks = {t1}
    Drafts <- CronDrafts
    NoTask = NoTask
    NoJob = NoJob
    Never = Never
    Attached = TRUE
    Second = 2
    MaxGap = 3
    Window = 6
    Minute = 8
    Cycle = 2
    MaxAge = 9
    Wrap = 64
    DurationMax = 32
    MaxTurns = 2
SPECIFICATION LifeSpec
CHECK_DEADLOCK FALSE
INVARIANTS
    CronOncePerMinute
