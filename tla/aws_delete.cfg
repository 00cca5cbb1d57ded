CONSTANTS
    Keys <- OneKeys
    Names <- OneNames
    Roles <- OneRoles
    Expirations = {"e1", NoExpiration}
    TagSets = {"t1", "t2"}
    Accesses = {"a1", "a2"}
    Allowed <- TaggedAllowed
    Foreign = {}
    NoObject = NoObject
    NoKey = NoKey
    NoName = NoName
    NoRole = NoRole
    NoExpiration = NoExpiration
    NoTags = NoTags
    NoPolicy = NoPolicy
    Nothing = Nothing
    RefusedTags = {"t2"}
    Objects = {1, 2, 3}
    PageSize = 1
    MaxLag = 1
    Faults = FALSE
SPECIFICATION FairSpec
PROPERTY DeletionCompletes
CHECK_DEADLOCK FALSE
