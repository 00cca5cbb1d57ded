CONSTANTS
    Keys <- OneKeys
    Names <- OneNames
    Roles <- OneRoles
    Expirations = {"e1", "e2"}
    TagSets = {"t1"}
    Accesses = {"a1"}
    Allowed <- OneAllowed
    Foreign = {}
    NoObject = NoObject
    NoKey = NoKey
    NoName = NoName
    NoRole = NoRole
    Nothing = Nothing
    RefusedTags = {}
    HasRoles = TRUE
    MaxLag = 3
    Faults = TRUE
SPECIFICATION Spec
INVARIANTS TypeOK NoOrphans ReadyMeansProvisioned SettledWhenIdle Inv
PROPERTIES DestroysOnlyDeleted LifecycleSpec
CHECK_DEADLOCK FALSE
