SPECIFICATION Spec
CONSTANTS
    ns = ns
    ns2 = ns2
    svc = svc
    svc2 = svc2
    secret = secret
    secret2 = secret2
    p = p
    q = q
    r = r
    None = None
    Namespaces <- MCNamespaces
    Services <- MCServices
    Secrets <- MCSecrets
    DefaultNamespace = ns
    DefaultService = svc
    DefaultSecret = secret
    StackProjects <- MCStackProjects
    ImageProjects <- MCImageProjects
    ModelProject = q
    Harbors <- FewHarbors
    StepLists <- AllSteps
    Platforms <- CloudOnly
    MaxFaults = 1
INVARIANT CredentialsOnlyIfProject
