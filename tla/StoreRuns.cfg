\* One run and two candidates, two workers taking turns, three calls of which the
\* ceiling admits two until one of them settles for less.
SPECIFICATION StoreSpec
CONSTANTS
    r1 = r1
    r2 = r2
    a1 = a1
    a2 = a2
    w1 = w1
    w2 = w2
    c1 = c1
    c2 = c2
    c3 = c3
    k1 = k1
    k2 = k2
    NoOne = NoOne
    Runs = {r1}
    Applications = {a1, a2}
    Workers = {w1, w2}
    Calls = {c1, c2, c3}
    Keys = {k1}
    Queues <- TwoCandidates
    Targets = {1}
    Reservations = {2}
    LeaseTerms = {1}
    Results = {"received"}
    Reasons = {"cancelled"}
    AskedResults = {"analyzed", "failed"}
    AskedOutcomes = {"failed"}
    Ceiling = 5
    TransmissionLimit = 2
SYMMETRY Symmetry
INVARIANTS
    StoreTypeOK
    OneCallInFlight
    OneCandidateEvaluated
    FinishedRunIsQuiet
    ProgressIsCounted
    TransmissionsNumbered
    SpendWithinCeiling
PROPERTIES
    KeepsSpendLedger
    CancellationWins
    FinishedIsFinal
    ResultsAreFinal
    FencedByLease
CHECK_DEADLOCK FALSE
