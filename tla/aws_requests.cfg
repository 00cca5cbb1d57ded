CONSTANTS
    Keys <- OneKeys
    Names <- OneNames
    Roles <- OneRoles
    Expirations = {"e1", NoExpiration}
    TagSets = {"t1", "t2"}
    Accesses = {"a1", "a2"}
    Allowed <- OneAllowed
    Foreign = {}
    NoObject = NoObject
    NoKey = NoKey
    NoName = NoName
    NoRole = NoRole
    NoExpiration = NoExpiration
    NoTags = NoTags
    NoPolicy = NoPolicy
    Nothing = Nothing
    RefusedTags = {}
    Objects = {1}
    PageSize = 1
    MaxLag = 1
    Faults = TRUE
SPECIFICATION Spec
INVARIANTS TypeOK ReadyMeansSecured SettledInCloud RequestInv
PROPERTIES DataOnlyGoesOnDeletion ContractSpec
CHECK_DEADLOCK FALSE
