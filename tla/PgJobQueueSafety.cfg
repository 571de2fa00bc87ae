\* Two items, two workers with their heartbeats, and one of: a lease that
\* runs out, a worker that dies.  A creation and two more requests of any
\* kind; requests for one job wait for each other: one client is enough.
CONSTANTS
    j1 = j1
    None = None
    Jobs = {j1}
    NItems = 2
    Items <- MCItems
    JobOf <- MCJobOf
    Workers = {w1, w2}
    Clients = {c1}
    Asked = {"create", "cancel", "retry", "pause", "resume", "delete", "erase"}
    Results = {"completed", "failed"}
    MaxAsked = 3
    MaxFaults = 1
SYMMETRY Symmetric
SPECIFICATION Spec
INVARIANTS TypeOK CountersMatch JobsCloseWithTheirItems ErasedStaysErased
PROPERTY EndsAreFinal
CHECK_DEADLOCK FALSE
