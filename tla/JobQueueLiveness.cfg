\* Two jobs of one item each; the first was left over, in progress, by a
\* release without leases.  Two requests, one crash or missed heartbeat or
\* failed report; a crash has a restart with a fresh worker.
CONSTANTS
    j1 = j1
    j2 = j2
    None = None
    Jobs = {j1, j2}
    NItems = 2
    Items <- MCItems
    JobOf <- MCSplitJobOf
    w1 = w1
    w2 = w2
    w3 = w3
    w4 = w4
    Workers <- MCFewWorkers
    StartOf <- MCFewStartOf
    Clients = {c1}
    LegacyItems = {1}
    MaxFaults = 1
    MaxRequests = 2
SPECIFICATION FairSpec
PROPERTIES CancelIsFinal OpenItemsGetSettled
CHECK_DEADLOCK FALSE
