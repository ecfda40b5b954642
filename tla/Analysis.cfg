SPECIFICATION MCSpec
CONSTANTS
    NoVal = NoVal
    CRITICAL_PERMISSIONS = {"debugger"}
    HIGH_PERMISSIONS = {"tabs"}
    MEDIUM_PERMISSIONS = {"storage"}
    BROAD_HOST_PATTERNS = {"<all_urls>"}
    HostPatterns = {"<all_urls>", "https://a/*"}
    StarPatterns = {}
    SafeDomains = {"safe"}
    registrable_domain <- MCDomain
    MaxFindings = 4
    MaxDomains = 3
    Tasks = {t1, t2}
    Versions = {"v1", "v2", "v3"}
    Package <- MCPackages
    Publishers = {"p1", "p2"}
    GenericPublishers = {"p2"}
    Counts = {50000}
    Ages = {10}
    Stores = {"chrome", "edge"}
    Losses = {{"version", "publisher", "install_count", "last_updated"}, {"manifest"}}
    MaxEdits = 2
    MaxFaults = 2
SYMMETRY Symmetry
INVARIANTS
    NothingSlipsIn
    SnapshotTrusted
    ManifestKept
    TransientIsSilent
