\* Two runs of each kind that change up to twice, one click and one failed
\* request; two tasks of the operator beside a poll.
SPECIFICATION Spec
CONSTANTS
    t1 = t1
    t2 = t2
    p1 = p1
    p2 = p2
    Slots = {t1, t2, p1}
    PollSlots = {p1}
    MaxRuns = 2
    MaxRev = 3
    MaxClicks = 1
    MaxFaults = 1
INVARIANTS
    TypeOK
    RefreshedOnce
    DisposedIsQuiet
    AnalysisIsFollowed
PROPERTIES
    NoStepBack
SYMMETRY SlotsAlike
CHECK_DEADLOCK FALSE
