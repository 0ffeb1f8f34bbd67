SPECIFICATION FairSpec
CONSTANTS
    t1 = t1
    t2 = t2
    t3 = t3
    once = once
    beat = beat
    Thread = {t1, t2, t3}
    Entry = {once, beat}
    Periodic = {beat}
    MaxDelay = 2
    Locking = {t1, t2}
INVARIANTS
    NoLostWakeUp
PROPERTIES
    EntriesAreCalled
    StopEndsRun
