SPECIFICATION FairSpec
CONSTANTS
    c1 = c1  c2 = c2  n1 = n1  n2 = n2  a = a
    Absent = Absent  NoRef = NoRef  EmptyName = EmptyName  NoNs = NoNs
    NoOwner = NoOwner  Foreign = Foreign
    Channels = {c1}
    Namespaces = {n1}
    NsOf <- Alone
    Names = {a}
    Specs <- GrantSpecs
    UserObjects = {}
    Clusters = {"k1"}
    Hubs = {n1}
    UserRBAC = {c1}
    UserRules <- SomeRules
    MaxUid = 2
    MayRestart = TRUE
INVARIANT TypeOK
PROPERTY KeepsUserSpec
PROPERTY OwnersAdvance
PROPERTY GrantsConverge
PROPERTY OrphansCollected
PROPERTY AcmCleaned
PROPERTY GrantsStay
CHECK_DEADLOCK FALSE
