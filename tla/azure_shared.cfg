CONSTANTS
    Keys <- TwoKeys
    Names <- TwoNames
    Roles <- OneRoles
    Expirations = {"e1", "e2", NoExpiration}
    TagSets = {"t1", "t2"}
    Accesses = {"a1"}
    Allowed <- TwoAllowed
    Foreign = {}
    NoObject = NoObject
    NoKey = NoKey
    NoName = NoName
    NoRole = NoRole
    NoExpiration = NoExpiration
    NoTags = NoTags
    Nothing = Nothing
    Alphanumerics <- Letters
    MaxAccountName = 2
    Contested = FALSE
    SecretLag = FALSE
    SecretDeletion = FALSE
    MaxLag = 1
    Faults = FALSE
SPECIFICATION Spec
INVARIANT Dedicated
CHECK_DEADLOCK FALSE
