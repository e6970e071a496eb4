\* Two runs, one after the other, over two Applications of one PDF name, a
\* target of one, and two interferences anywhere.
SPECIFICATION FairSpec
CONSTANTS
    r1 = r1
    r2 = r2
    a1 = a1
    a2 = a2
    NoProof = NoProof
    Runs = {r1, r2}
    Applications = {a1, a2}
    Keys = {r1, r2}
    Stages <- TwoStages
    Queues <- TwoQueue
    Targets = {1}
    Reservations = {2}
    Versions <- SourceVersions
    Ceiling = 6
    DispatchLimit = 2
    FileName <- SameFile
    Reservation = 2
    Costs = {1}
    MaxFaults = 2
INVARIANTS
    TypeOK
    CompletedIsWhole
    OneResumePerApplication
    CleanedIsUnrelated
    CountersAreTheCalls
    SpendWithinCeiling
PROPERTIES
    SettledIsFinal
    EveryResumeRunFinishes
CHECK_DEADLOCK FALSE
