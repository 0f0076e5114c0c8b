SPECIFICATION FairSpec
CONSTANTS
    Absent = Absent
    Pods = {p1, p2}
    CAs = {a1, a2, a3}
    IPs = {i1, i2}
    HostedIP = HostedIP
    External = TRUE
    MayMisread = TRUE
INVARIANT OneCA
INVARIANT CompletedIsComplete
PROPERTY SetupCompletes
CHECK_DEADLOCK FALSE
