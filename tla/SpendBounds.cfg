\* Every approval, request and receipt of small counts, with a unit of three
\* tokens so that every remainder of the divisions occurs.
SPECIFICATION SpendSpec
CONSTANTS
    Unit = 3
    Rates = {1, 2, 4}
    Tokens = {0, 1, 2, 3}
    OutputBound = 2
    Contexts = {5, 6}
    Overhead = 1
INVARIANTS
    BoundedReceiptsSettle
    CostCoversMetered
CHECK_DEADLOCK FALSE
