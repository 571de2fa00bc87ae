\* The SQLite retry queue with the code's five attempts, one thread: nothing
\* runs at the same time.
SPECIFICATION Spec
CONSTANTS
    video = video
    link = link
    page = page
    r1 = r1
    c1 = c1
    g1 = g1
    t1 = t1
    t2 = t2
    None = None
    Urls <- MCUrls
    Canon <- MCCanon
    Videos = {video, link}
    Callers = {t1}
    Runs = {r1}
    ItemsOf <- MCItems
    ImportThreads = {t1}
    Captures = {c1}
    UrlOf <- MCUrlOf
    CaptureThreads = {}
    Rules = {g1}
    Candidates <- MCCandidates
    Refreshing = {}
    RunThreads = {}
    RetryThreads = {t1}
    UniqueRetries = FALSE
    MaxAttempts = 5
    MaxFaults = 0
    MaxAsked = 4
    MaxCancels = 0
CHECK_DEADLOCK FALSE
PROPERTY DeadStaysDead
