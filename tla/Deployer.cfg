SPECIFICATION FairSpec
CONSTANTS
    a = a
    alias = alias
    b = b
    A = A
    B = B
    o1 = o1
    o2 = o2
    i1 = i1
    i2 = i2
    None = None
    Contexts <- MCContexts
    Clusters <- MCClusters
    Meaning <- MCMeaning
    CurrentContext = b
    Objects <- MCObjects
    Installers <- OneInstaller
    OlderStates = TRUE
    MaxFaults = 2
INVARIANTS
    RefusesUnlessReused
    AsksAboutPending
    RefusalIsRight
PROPERTIES
    RecordedDeletesWhereAsked
    StaleLockReleased
