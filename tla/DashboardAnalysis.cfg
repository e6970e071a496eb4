\* Two runs of each kind and two clicks; one task of the operator beside a poll.
SPECIFICATION FairSpec
CONSTANTS
    t1 = t1
    t2 = t2
    p1 = p1
    p2 = p2
    Slots = {t1, p1}
    PollSlots = {p1}
    MaxRuns = 2
    MaxRev = 2
    MaxClicks = 2
    MaxFaults = 0
PROPERTY AnalysisIsSeenToFinish
CHECK_DEADLOCK FALSE
