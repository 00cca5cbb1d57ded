CONSTANTS
    Keys <- TwoKeys
    Names <- TwoNames
    Roles <- OneRoles
    Expirations = {"e1"}
    TagSets = {"t1"}
    Accesses = {"a1"}
    Allowed <- TwoAllowed
    Foreign = {}
    NoObject = NoObject
    NoKey = NoKey
    NoName = NoName
    NoRole = NoRole
    Nothing = Nothing
    RefusedTags = {}
    HasRoles = TRUE
    MaxLag = 1
    Faults = TRUE
SPECIFICATION Spec
INVARIANTS NoOrphans SettledWhenIdle ConvergeInv
PROPERTIES DestroysOnlyDeleted LifecycleSpec
CHECK_DEADLOCK FALSE
