SPECIFICATION FairSpec
CONSTANTS
    ns = ns
    ns2 = ns2
    svc = svc
    svc2 = svc2
    secret = secret
    secret2 = secret2
    p = p
    q = q
    r = r
    None = None
    Namespaces <- MCNamespaces
    Services <- MCServices
    Secrets <- MCSecrets
    DefaultNamespace = ns
    DefaultService = svc
    DefaultSecret = secret
    StackProjects <- MCStackProjects
    ImageProjects <- MCImageProjects
    ModelProject = q
    Harbors <- MCHarbors
    StepLists <- AllSteps
    Platforms <- BothPlatforms
    MaxFaults = 2
INVARIANTS
    NoUnaskedSecondHarbor
    OneHarbor
    OneTunnel
    PushPromptRight
PROPERTY HealthyRunCompletes
