SPECIFICATION Spec
CONSTANTS
    h1 = h1  h2 = h2  h3 = h3  h4 = h4  n1 = n1  n2 = n2  a = a  b = b
    k1 = k1  k2 = k2  e1 = e1  aws = aws  b1 = b1
    Absent = Absent  NoRef = NoRef  NoNs = NoNs  NoSlash = NoSlash
    Minio = Minio  NoRegion = NoRegion
    Names = {a, b}
    Namespaces = {n1, n2}
    Specs <- Places
    Versions <- Coming
    Callers = {k1, k2}
    Handlers = {h1, h2, h3, h4}
    Given = {h4}
    Endpoints = {e1, aws}
    AwsS3 = {aws}
    Buckets = {b1}
    Regions = {"r1"}
SYMMETRY Interchangeable
INVARIANT SettledLeadsHome
PROPERTY Isolated
