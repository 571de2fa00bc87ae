CONSTANTS
    t1 = t1
    t2 = t2
    h1 = h1
    h2 = h2
    best = best
    other = other
    Threads <- MCThreads
    Hooks <- MCHooks
    Preference <- MCPreference
    Budget <- MCBudget
    MaxCalls = 2
    Quick = 1
    Survey = 2
    DailyCap = 2
    Videos <- MCVideos
    TopicsOf <- MCTopicsOf
    EntitiesOf <- MCEntitiesOf
    MaxNames = 1
    MaxPeers = 1
    MaxConcepts = 1
    MaxViewed = 1
    MaxAsked = 3
    Earlier = 3
    Commands = {import_bookmarks, import_playlist}
    Ttl = 1
    MaxClock = 2
SPECIFICATION Spec
SYMMETRY Symmetry
INVARIANT TypeOK
INVARIANT SpendingStaysInBounds
INVARIANT SharedTopicsAreLinked
INVARIANT ReadersMissNothing
INVARIANT TokensStayGood
INVARIANT UpgradesKeepTheLibrary
PROPERTY ConfirmedOnce
PROPERTY RevokedTokensStayRevoked
CHECK_DEADLOCK FALSE
