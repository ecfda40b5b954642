SPECIFICATION Spec
CONSTANTS
    Requests = {r1}
    Targets <- MCTargets
    EnvProxies <- MCEnvProxies
    EnvNoProxy <- MCEnvNoProxy
    ProxyUser = "user"
    MaxRetries = 1
    BackoffBase = 1
    BackoffCap = 1
    MaxSleep = 2
    RetryAfters <- MCRetryAfters
    Releases = {2, 3}
    Tasks = {t1, t2}
    Providers = {"entra", "okta"}
    ProxyForms <- MCProxyForms
    OidcForms <- MCOidcForms
    Envs <- MCEnvs
    MaxEdits = 2
    MaxFaults = 1
SYMMETRY Symmetry
INVARIANTS
    AWayIn
    RegistryCurrent
    RoutedAsConfigured
    WaitBounded
    SchemaAtHead
