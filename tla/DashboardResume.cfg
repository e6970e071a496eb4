\* Two runs of each kind with two revisions, two clicks and one failed request;
\* one task of the operator beside two polls that may overlap.
SPECIFICATION FairSpec
CONSTANTS
    t1 = t1
    t2 = t2
    p1 = p1
    p2 = p2
    Slots = {t1, p1, p2}
    PollSlots = {p1, p2}
    MaxRuns = 2
    MaxRev = 2
    MaxClicks = 2
    MaxFaults = 1
PROPERTY ResumeIsSeenToFinish
CHECK_DEADLOCK FALSE
