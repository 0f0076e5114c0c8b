SPECIFICATION Spec
CONSTANTS
    c1 = c1  c2 = c2  n1 = n1  n2 = n2  a = a
    Absent = Absent  NoRef = NoRef  EmptyName = EmptyName  NoNs = NoNs
    NoOwner = NoOwner  Foreign = Foreign
    Channels = {c1, c2}
    Namespaces = {n1, n2}
    NsOf <- OneHome
    Names = {a}
    Specs <- AwayOrNot
    UserObjects <- SecretsHereAndAway
    Clusters = {}
    Hubs = {}
    UserRBAC = {}
    UserRules = {}
    MaxUid = 2
    MayRestart = TRUE
SYMMETRY Interchangeable
INVARIANT ServingIsMarked
INVARIANT ServingAtHome
PROPERTY RegistryImplemented
PROPERTY KeepsOthersEntries
CHECK_DEADLOCK FALSE
