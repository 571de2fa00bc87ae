\* Two owners, two threads for the one who leaves, three live writes or requests, two migration runs, one failure.
SPECIFICATION Spec
CONSTANTS
    t1 = t1
    t2 = t2
    Threads = {t1, t2}
    Leaver = 2
    MaxOps = 3
    MaxRuns = 2
    MaxFaults = 1
SYMMETRY Alike
CHECK_DEADLOCK FALSE
INVARIANTS
    TypeOK
    ErasedTenantsStayErased
    StagesMigrateOnce
    OneCallPerRun
    RunsTellTheTruth
PROPERTIES
    ErasureIsExact
    MigrationsAreFaithful
    EventsAreRecorded
    OrphansNeedARace
