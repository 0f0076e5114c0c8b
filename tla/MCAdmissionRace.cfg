SPECIFICATION Spec
CONSTANTS
    c1 = c1  c2 = c2
    Absent = Absent
    Channels = {c1, c2}
    NsOf <- Homes
    Requests = {"r1", "r2"}
    MayBypass = FALSE
    MayRetype = FALSE
INVARIANT OneNonGit
