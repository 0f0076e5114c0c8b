SPECIFICATION Spec
CONSTANTS
    Absent = Absent
    Pods = {p1}
    CAs = {a1, a2}
    IPs = {i1, i2}
    HostedIP = HostedIP
    External = FALSE
    MayMisread = TRUE
INVARIANT CompletedIsRegistered
CHECK_DEADLOCK FALSE
