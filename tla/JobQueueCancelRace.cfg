\* The same cancel-is-final property with two requests in flight.
CONSTANTS
    j1 = j1
    j2 = j2
    None = None
    Jobs = {j1}
    NItems = 2
    Items <- MCItems
    JobOf <- MCJobOf
    w1 = w1
    w2 = w2
    w3 = w3
    w4 = w4
    Workers <- MCWorkers
    StartOf <- MCStartOf
    Clients = {c1, c2}
    LegacyItems = {}
    MaxFaults = 0
    MaxRequests = 2
SPECIFICATION Spec
PROPERTY CancelIsFinal
CHECK_DEADLOCK FALSE
