SPECIFICATION Spec
CONSTANTS
    Keys = {k1, k2, k3}
    EmptyToken = EmptyToken
    MaxTokens = 4
INVARIANT KeysAreMembers
PROPERTY NoMembersNoAnnotation
PROPERTY NeverGrowsWithoutKeys
