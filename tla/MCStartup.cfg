SPECIFICATION FairStartup
CONSTANTS
    Absent = Absent
    Pods = {p1}
    CAs = {a1, a2, a3}
    IPs = {i1, i2}
    HostedIP = HostedIP
    External = TRUE
    MayMisread = TRUE
    Window = 2
    Profiles <- SomeProfiles
    KnownGroups = {"X25519", "secp256r1", "secp521r1"}
INVARIANT ProfileHonoured
INVARIANT EndpointsFollowService
PROPERTY RetriesEnd
PROPERTY ComesToRest
CHECK_DEADLOCK FALSE
