SPECIFICATION FairSpec
CONSTANTS
    Providers = {"capa", "capz", "vsphere"}
    Home = "home"
    Clusters <- ClustersOf
    Slots <- TwoSlots
    Identities <- IdentitiesOf
    SecretSlots <- OneSecret
    Secrets <- SomeSecrets
    BucketTags <- Tags
    Parsable = {"r1", "r2"}
    Tenants = {"t"}
    Malformed = Malformed
    Absent = Absent
    None = None
    MaxChanges = 2
    Faults = TRUE
INVARIANTS
    TypeOK
    Coherent
PROPERTIES
    CredentialsFollow
    TagsFollow
