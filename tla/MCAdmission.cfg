SPECIFICATION AdmissionSpec
CONSTANTS
    c1 = c1  c2 = c2
    Absent = Absent
    Channels = {c1, c2}
    NsOf <- Homes
    Requests = {"r1"}
    MayBypass = TRUE
    MayRetype = TRUE
    Pods = {p1}
    CAs = {a1, a2, a3}
    IPs = {i1}
    HostedIP = HostedIP
    External = FALSE
    MayMisread = TRUE
INVARIANT PairsExplained
 
