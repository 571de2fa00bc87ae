\* One thread: a memory is deleted and its source saved again.
SPECIFICATION Spec
CONSTANTS
    a = a
    b = b
    c = c
    u1 = u1
    u2 = u2
    v = v
    p = p
    t1 = t1
    t2 = t2
    None = None
    Items = {a, b, c}
    Owner <- MCOwner
    Source <- MCSource
    Pages = {p}
    Threads = {t1}
    Starts <- MCSaved
    MaxOps = 2
    MaxFaults = 0
CHECK_DEADLOCK FALSE
PROPERTIES
    AlreadyIndexedIsIndexed
