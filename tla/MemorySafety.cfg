\* Of two users' copies of a video and one page, one copy and the page are saved; two threads, two operations, one fault.
SPECIFICATION Spec
CONSTANTS
    a = a
    b = b
    c = c
    u1 = u1
    u2 = u2
    v = v
    p = p
    t1 = t1
    t2 = t2
    None = None
    Items = {a, b, c}
    Owner <- MCOwner
    Source <- MCSource
    Pages = {p}
    Threads = {t1, t2}
    Starts <- MCStarts
    MaxOps = 2
    MaxFaults = 1
SYMMETRY Alike
CHECK_DEADLOCK FALSE
INVARIANTS
    TypeOK
    SettledMemoriesAreWhole
    SettledDeletionsLeaveNothing
    AnswersAreCurrent
PROPERTIES
    OwnershipGoesLast
