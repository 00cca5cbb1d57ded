CONSTANTS
    Keys <- OneKeys
    Names <- OneNames
    Roles <- OneRoles
    Expirations = {"e1"}
    TagSets = {"t1", "t2"}
    Accesses = {"a1"}
    Allowed <- TaggedAllowed
    Foreign = {"f"}
    NoObject = NoObject
    NoKey = NoKey
    NoName = NoName
    NoRole = NoRole
    Nothing = Nothing
    RefusedTags = {"t2"}
    HasRoles = TRUE
    MaxLag = 2
    Faults = TRUE
SPECIFICATION FairSpec
PROPERTIES EventuallyReady VanishesUnheld
INVARIANTS NoOrphans SettledWhenIdle Inv UnheldInv
CHECK_DEADLOCK FALSE
