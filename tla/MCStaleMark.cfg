SPECIFICATION FairSpec
CONSTANTS
    c1 = c1  c2 = c2  n1 = n1  n2 = n2  a = a
    Absent = Absent  NoRef = NoRef  EmptyName = EmptyName  NoNs = NoNs
    NoOwner = NoOwner  Foreign = Foreign
    Channels = {c1}
    Namespaces = {n1}
    NsOf <- Alone
    Names = {a}
    Specs <- SecretOrNot
    UserObjects <- SecretHere
    Clusters = {}
    Hubs = {}
    UserRBAC = {}
    UserRules = {}
    MaxUid = 1
    MayRestart = FALSE
PROPERTY MarksMeanReferences
CHECK_DEADLOCK FALSE
