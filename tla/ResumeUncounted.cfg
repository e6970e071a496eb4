\* A crash between the commit of a candidate and its completion.
SPECIFICATION Spec
CONSTANTS
    r1 = r1
    r2 = r2
    a1 = a1
    a2 = a2
    NoProof = NoProof
    Runs = {r1, r2}
    Applications = {a1, a2}
    Keys = {r1, r2}
    Stages <- TwoStages
    Queues <- TwoQueue
    Targets = {1}
    Reservations = {2}
    Versions <- SourceVersions
    Ceiling = 6
    DispatchLimit = 2
    FileName <- SameFile
    Reservation = 2
    Costs = {1}
    MaxFaults = 2
INVARIANTS
    CommitIsCounted
CHECK_DEADLOCK FALSE
