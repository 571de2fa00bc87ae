\* Two workers and one lease that runs out: who settles the item?
CONSTANTS
    j1 = j1
    None = None
    Jobs = {j1}
    NItems = 2
    Items <- MCItems
    JobOf <- MCJobOf
    Workers = {w1, w2}
    Clients = {c1}
    Asked = {"create"}
    Results = {"completed", "failed"}
    MaxAsked = 1
    MaxFaults = 1
SPECIFICATION Spec
PROPERTY SettledByHolder
CHECK_DEADLOCK FALSE
