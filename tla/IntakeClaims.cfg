\* One run of one rule, with nothing else going on.
SPECIFICATION Spec
CONSTANTS
    video = video
    link = link
    page = page
    r1 = r1
    c1 = c1
    g1 = g1
    t1 = t1
    t2 = t2
    None = None
    Urls <- MCUrls
    Canon <- MCCanon
    Videos = {video, link}
    Callers = {t1}
    Runs = {r1}
    ItemsOf <- MCItems
    ImportThreads = {t1}
    Captures = {c1}
    UrlOf <- MCUrlOf
    CaptureThreads = {t1}
    Rules = {g1}
    Candidates <- MCCandidates
    Refreshing = {}
    RunThreads = {t1}
    RetryThreads = {t1}
    UniqueRetries = TRUE
    MaxAttempts = 3
    MaxFaults = 0
    MaxAsked = 1
    MaxCancels = 0
CHECK_DEADLOCK FALSE
INVARIANT CompletedClaimsAreStored
