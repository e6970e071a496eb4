\* Two workers taking one run of one Application over from each other.
SPECIFICATION Spec
CONSTANTS
    r1 = r1
    r2 = r2
    a1 = a1
    a2 = a2
    a3 = a3
    w1 = w1
    w2 = w2
    s1 = s1
    s2 = s2
    c1 = c1
    c2 = c2
    c3 = c3
    c4 = c4
    c5 = c5
    k1 = k1
    k2 = k2
    Runs = {r1}
    Applications = {a1}
    Workers = {w1, w2}
    Calls = {c1, c2, c3, c4, c5}
    Keys = {k1}
    Queues <- OneApplication
    Targets = {1}
    Reservations = {1}
    LeaseTerms = {1, 2}
    Results = {"received", "invalid", "valid", "commit_unknown", "source", "rejected", "systemic", "authorization", "terminal"}
    Reasons = {"cancelled", "stopped"}
    AskedResults = {"analyzed", "repaired", "skipped", "failed", "indeterminate"}
    AskedOutcomes = {"target_met", "spend_limited", "attempt_budget_exhausted", "queue_exhausted", "cancelled", "authorization_blocked", "failed"}
    Ceiling = 2
    TransmissionLimit = 2
    Starters = {s1}
    LeaseTerm = 1
    Protection = 2
    AttemptsPerTarget = 2
    PretransmissionLimit = 2
    MaxFaults = 3
    NoOne = NoOne
INVARIANTS
    RunsTypeOK
    OutstandingAppendIsQuarantined
    ResultsMatchNotion
    NoSecondPurchase
SYMMETRY WorkersAlike
CHECK_DEADLOCK FALSE
