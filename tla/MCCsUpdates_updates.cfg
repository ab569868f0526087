SPECIFICATION Spec
CHECK_DEADLOCK FALSE
CONSTANTS
    a = a
    b = b
    Tag = {a, b}
    Status = {"Accepted", "Expired"}
    NotListed = NotListed
    MaxVersion = 3
    ListStatus <- Versions
    Package = {p1, p2}
    NoPackage = NoPackage
    Retries = {1, 2}
    DefaultNumDownloadRetries = 2
    MaxRequests = 2
    MaxRestarts = 2
INVARIANTS
    TypeOK
    DownloadPursued
    AttemptsBounded
    NotLeftDownloaded
    InstallingIsLatest
    ResultIsTrue
    ListMatchesVersion
