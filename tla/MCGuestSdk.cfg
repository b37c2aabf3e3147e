CONSTANTS
    HostNames = {"a", "b"}
    OtherHosts = {"localhost"}
    Ports = {0, 443, 65535, 65536}
    Absent = Absent
    MAX_EGRESS_ALLOW = 2
    Urls <- MCUrls
    Headers <- MCHeaders
    Modules <- MCModules
    Ptrs <- MCPtrs
    Lens <- MCLens
    OutLens <- MCOutLens
    Bodies <- MCBodies
    Overheads = {80}
    PageCounts = {0, 1, 17, 1024, 1025}
    HttpBodies = {0, 262144, 262145}
SPECIFICATION SdkSpec
CHECK_DEADLOCK FALSE
INVARIANTS
    SdkTypeOK
    ChecksAgree
    ReachesWhatWasNamed
    WritesOnlyTheBuffer
    GrowthSuffices
    SdkFetchDelivers
