\* Four confirmations of one Job URL and three interferences anywhere.
SPECIFICATION Spec
CONSTANTS
    c1 = c1
    c2 = c2
    c3 = c3
    c4 = c4
    u1 = u1
    u2 = u2
    NoPage = NoPage
    Confirms = {c1, c2, c3, c4}
    Urls = {u1}
    Appends = {0, 1}
    MaxFaults = 3
INVARIANTS
    TypeOK
    OnePageUnlessLate
    ReportedIsKept
    ArchivedWasNamed
    CleanedIsGone
SYMMETRY RequestsAlike
CHECK_DEADLOCK FALSE
