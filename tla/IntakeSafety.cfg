\* One import of two items, one capture, one rule; two requests over a pool of
\* two threads, one cancel, one fault or crash; the Postgres retry queue.
SPECIFICATION Spec
CONSTANTS
    video = video
    link = link
    page = page
    r1 = r1
    c1 = c1
    g1 = g1
    t1 = t1
    t2 = t2
    None = None
    Urls <- MCUrls
    Canon <- MCCanon
    Videos = {video, link}
    Callers = {t1, t2}
    Runs = {r1}
    ItemsOf <- MCItems
    ImportThreads = {t1, t2}
    Captures = {c1}
    UrlOf <- MCUrlOf
    CaptureThreads = {t1, t2}
    Rules = {g1}
    Candidates <- MCCandidates
    Refreshing = {}
    RunThreads = {t1, t2}
    RetryThreads = {t1, t2}
    UniqueRetries = TRUE
    MaxAttempts = 3
    MaxFaults = 1
    MaxAsked = 2
    MaxCancels = 1
SYMMETRY Alike
CHECK_DEADLOCK FALSE
INVARIANTS
    TypeOK
    FinishedTotalsAddUp
    QuietIntakeIsSettled
    OneIngestPerClaim
    ClaimsAreWorkedOn
    LiveRowsMayBeRetried
PROPERTIES
    CancelLostOnlyInWindows
