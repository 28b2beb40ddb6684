SPECIFICATION Spec
CONSTANTS
    a = a
    alias = alias
    b = b
    A = A
    B = B
    o1 = o1
    o2 = o2
    i1 = i1
    i2 = i2
    None = None
    Contexts <- MCContexts
    Clusters <- MCClusters
    Meaning <- MCMeaning
    CurrentContext = b
    Objects <- OneObject
    Installers <- TwoInstallers
    OlderStates = FALSE
    MaxFaults = 0
INVARIANT OneUpdateAtATime
CHECK_DEADLOCK FALSE
