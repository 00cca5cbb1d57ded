CONSTANTS
    Keys <- OneKeys
    Names <- OneNames
    Roles <- OneRoles
    Expirations = {"e1", "e2", NoExpiration}
    TagSets = {"t1", "t2"}
    Accesses = {"a1"}
    Allowed <- OneAllowed
    Foreign = {}
    NoObject = NoObject
    NoKey = NoKey
    NoName = NoName
    NoRole = NoRole
    NoExpiration = NoExpiration
    NoTags = NoTags
    Nothing = Nothing
    Alphanumerics <- Letters
    MaxAccountName = 2
    Contested = TRUE
    SecretLag = TRUE
    SecretDeletion = TRUE
    MaxLag = 1
    Faults = TRUE
SPECIFICATION Spec
INVARIANTS TypeOK ReadyMeansUsable ReachableWhenIdle NoOrphanAccounts AzureInv
PROPERTY ContractSpec
CHECK_DEADLOCK FALSE
