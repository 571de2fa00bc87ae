\* One job of two items; two server starts of two worker threads; two
\* concurrent requests.
CONSTANTS
    j1 = j1
    j2 = j2
    None = None
    Jobs = {j1}
    NItems = 2
    Items <- MCItems
    JobOf <- MCJobOf
    w1 = w1
    w2 = w2
    w3 = w3
    w4 = w4
    Workers <- MCWorkers
    StartOf <- MCStartOf
    Clients = {c1, c2}
    LegacyItems = {}
    MaxFaults = 2
    MaxRequests = 3
SYMMETRY Symmetric
SPECIFICATION Spec
INVARIANTS TypeOK CountersMatch ClosedJobsHaveNoQueue
PROPERTY KeepsLedger
CHECK_DEADLOCK FALSE
