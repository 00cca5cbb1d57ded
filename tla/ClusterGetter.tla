--------------------------- MODULE ClusterGetter ---------------------------
(***************************************************************************)
(* How a pass learns which cloud it works on: main.go picks a getter and a *)
(* service factory by provider; GetCluster (cloud/aws/cluster.go,          *)
(* cloud/azure/cluster.go) reads the management cluster's object, the      *)
(* identity it refers to and, on Azure, the identity's Secret; the         *)
(* factories (service.go) turn what was read into clients; and the calls   *)
(* of the pass put the tags of Bucket and cluster on the resources.        *)
(*                                                                         *)
(* The three reads are three requests, between which others edit all three *)
(* objects.  Cluster and identity are unstructured and read from the API   *)
(* server; the Secret is typed and comes from the manager's cache.  Edits  *)
(* start no pass: the controller watches Buckets only.                     *)
(***************************************************************************)
EXTENDS Naturals, Sequences

CONSTANTS
    Providers,   \* values of --management-cluster-provider
    Home,        \* --management-cluster-namespace
    Clusters,    \* Clusters[p]: contents of the cluster object
    Slots,       \* namespace and name of the identities that may exist
    Identities,  \* Identities[p]: contents of an identity
    SecretSlots, \* namespace and name of the Secrets that may exist
    Secrets,     \* contents of a Secret: its owner label and client secret
    BucketTags,  \* spec.tags of the Bucket, a list of keys and values
    Parsable,    \* the role ARNs that arn.Parse takes
    Tenants,     \* the tenant IDs that azidentity takes, none of them empty
    Malformed,   \* the content of a field of an unexpected type
    Absent,      \* no such object
    None,        \* not read, or not set
    MaxChanges,  \* bound: how often others edit the objects
    Faults       \* whether crashes and failing requests may happen at first

\* Slots and SecretSlots hold whatever an object may refer to.
ASSUME GetterAssumption ==
    /\ DOMAIN Clusters = {"capa", "capz"} /\ DOMAIN Identities = {"capa", "capz"}
    /\ \A p \in {"capa", "capz"} :
          {Absent, None} \cap (Clusters[p] \cup Identities[p]) = {}
    /\ {Absent, None} \cap Secrets = {}
    /\ Absent # None
    /\ "" \notin Tenants
    /\ MaxChanges \in Nat
    /\ Faults \in BOOLEAN
    /\ \A p \in {"capa", "capz"} : \A c \in Clusters[p] :
          {"identityName"} \subseteq DOMAIN c =>
              /\ <<Home, c.identityName>> \in Slots
              /\ \A f \in {"identityNamespace"} \cap DOMAIN c :
                    c[f] \in {"", Malformed} \/ <<c[f], c.identityName>> \in Slots
    /\ \A i \in Identities["capz"] :
          {"secretNamespace", "secretName"} \subseteq DOMAIN i =>
              <<i.secretNamespace, i.secretName>> \in SecretSlots

VARIABLES
    provider,    \* the flag the process was started with
    cluster,     \* the AWSCluster or AzureCluster object
    identities,  \* identities[s]: the identity object at s
    secrets,     \* secrets[s]: versions of the Secret at s: the cache holds
                 \*             the first, the API server the last
    pc,          \* the step of the pass
    due,         \* the work queue holds the Bucket
    got,         \* what the pass has read
    cloud,       \* the resources: credentials and tags they were last given
    since,       \* for the properties: what was there during this pass
    changes,     \* how often the objects were edited
    faulty       \* crashes and failing requests may still happen

objects == <<cluster, identities, secrets>>
vars == <<provider, objects, pc, due, got, cloud, since, changes, faulty>>

Blank == [cluster |-> None, identity |-> None, secret |-> None]

Elements(s) == {s[i] : i \in DOMAIN s}
Current(s) == secrets[s][Len(secrets[s])]

Now == [clusters   |-> {cluster},
        identities |-> [s \in Slots |-> {identities[s]}],
        secrets    |-> [s \in SecretSlots |-> Elements(secrets[s])]]
Nothing == [clusters   |-> {},
            identities |-> [s \in Slots |-> {}],
            secrets    |-> [s \in SecretSlots |-> {}]]

\* What others may put into the objects.  CAPA's identities are not namespaced
\* and use no Secret.
Contents(options) == IF provider \in DOMAIN options THEN options[provider] ELSE {}
ClusterContents == Contents(Clusters) \cup {Absent}
IdentityContents(s) ==
    {Absent} \cup IF provider = "capa" /\ s[1] # Home THEN {} ELSE Contents(Identities)
SecretContents == {Absent} \cup IF provider = "capz" THEN Secrets ELSE {}

Init ==
    /\ provider \in Providers
    /\ cluster \in ClusterContents
    /\ identities \in {f \in [Slots -> Contents(Identities) \cup {Absent}] :
                         \A s \in Slots : f[s] \in IdentityContents(s)}
    /\ secrets \in [SecretSlots -> {<<v>> : v \in SecretContents}]
    /\ pc = "down" /\ due = FALSE
    /\ got = Blank
    /\ cloud = [by |-> None, tags |-> None]
    /\ since = Nothing
    /\ changes = 0
    /\ faulty = Faults

-----------------------------------------------------------------------------
(* Reading the fields of an object.                                        *)

\* NestedString and NestedStringMap: a field is found, and of its type.
Readable(o, f) == f \in DOMAIN o /\ o[f] # Malformed
NotMalformed(o, f) == f \in DOMAIN o => Readable(o, f)
NotEmpty(o, f) == Readable(o, f) /\ o[f] # ""

\* identityRef: a name, and on Azure an optional namespace.
RefersToIdentity(c) ==
    /\ NotEmpty(c, "identityName")
    /\ provider = "capz" => NotMalformed(c, "identityNamespace")

ToObjectKey(name, namespace) == <<namespace, name>>

\* Where AWSClusterGetter looks for the identity; for Azure, where it looks
\* without a namespace (and, as a mutant of IdentitySlot, with one).
HomeSlot(c) == ToObjectKey(c.identityName, Home)

\* Where AzureClusterGetter looks for it.
IdentitySlot(c) ==
    IF provider = "capz" /\ NotEmpty(c, "identityNamespace")
    THEN ToObjectKey(c.identityName, c.identityNamespace) ELSE HomeSlot(c)

\* The fields that each type of Azure identity must have.
Required == [UserAssignedMSI        |-> {"clientID"},
             ManualServicePrincipal |-> {"tenantID", "clientID", "secretName",
                                         "secretNamespace"},
             WorkloadIdentity       |-> {"tenantID", "clientID"}]

\* The checks the GetCluster of each getter makes once it has both objects.
ValidAWS(c, i) == Readable(i, "roleARN") /\ NotMalformed(c, "additionalTags")

\* Mutant of ValidAzure: every type of identity must name its tenant.
TenantDemanded(c, i) ==
    /\ NotMalformed(c, "additionalTags")
    /\ \A f \in {"resourceGroup", "subscriptionID"} : Readable(c, f)
    /\ Readable(i, "type") /\ i.type \in DOMAIN Required
    /\ \A f \in Required[i.type] \cup {"tenantID"} : Readable(i, f)

ValidAzure(c, i) ==
    /\ NotMalformed(c, "additionalTags")
    /\ \A f \in {"resourceGroup", "subscriptionID"} : Readable(c, f)
    /\ Readable(i, "type") /\ i.type \in DOMAIN Required
    /\ \A f \in Required[i.type] : Readable(i, f)

Valid(c, i) == IF provider = "capa" THEN ValidAWS(c, i) ELSE ValidAzure(c, i)

NeedsSecret(i) == provider = "capz" /\ i.type = "ManualServicePrincipal"

\* The cache leaves out the Secrets labelled as Helm's.
Cached(secret) == secret # Absent /\ secret.owner # "helm"

\* The credentials of the Cluster that GetCluster returns.
AWSCredentials(i) == [role |-> i.roleARN]
AzureCredentials(c, i, secret) ==
    [resourceGroup  |-> c.resourceGroup,
     subscriptionID |-> c.subscriptionID,
     type           |-> i.type,
     ids            |-> [f \in Required[i.type] \cap {"tenantID", "clientID"} |-> i[f]],
     secret         |-> secret]
Credentials(c, i, secret) ==
    IF provider = "capa" THEN AWSCredentials(i) ELSE AzureCredentials(c, i, secret)

\* The factories parse the role's ARN; azidentity takes neither a tenant it finds
\* ill-formed nor, for a service principal, an empty client secret.  A workload
\* identity without a tenant falls back on the environment of the process.
BuildableAWS(cred)   == cred.role \in Parsable
BuildableAzure(cred) ==
    CASE cred.type = "ManualServicePrincipal" ->
            cred.ids.tenantID \in Tenants /\ cred.secret.data # ""
      [] cred.type = "WorkloadIdentity" -> cred.ids.tenantID \in Tenants \cup {""}
      [] OTHER -> TRUE
Buildable(cred) ==
    IF provider = "capa" THEN BuildableAWS(cred) ELSE BuildableAzure(cred)

-----------------------------------------------------------------------------
(* Tags.  A key is a sequence of characters.                               *)

sanitizeTagKey(key) ==
    [n \in DOMAIN key |-> IF key[n] = "-" THEN "_" ELSE key[n]]

\* The places of BucketTags, and the keys of the cluster's map, that count.
OwnTags == {n \in DOMAIN BucketTags :
              BucketTags[n].key # <<>> /\ BucketTags[n].value # ""}
GetTags(c) == IF "additionalTags" \in DOMAIN c THEN c.additionalTags ELSE <<>>
ClusterKeys(c) == {k \in DOMAIN GetTags(c) : k # <<>> /\ GetTags(c)[k] # ""}

Last(places) == CHOOSE n \in places : \A m \in places : m <= n

\* Mutant of getBucketTags: the tags of the Bucket go over the cluster's.
BucketWins(c) ==
    LET own   == {sanitizeTagKey(BucketTags[n].key) : n \in OwnTags}
        extra == {sanitizeTagKey(k) : k \in ClusterKeys(c)}
        OwnValue(k) == BucketTags[Last({n \in OwnTags :
                                    sanitizeTagKey(BucketTags[n].key) = k})].value
    IN {[k \in own \cup extra |-> IF k \in own THEN OwnValue(k)
                                  ELSE GetTags(c)[from[k]]] :
          from \in {f \in [extra -> ClusterKeys(c)] :
                      \A k \in extra : sanitizeTagKey(f[k]) = k}}

\* Azure: a map, in which later tags replace earlier ones and those of the
\* cluster, in any order, replace the Bucket's.  The maps that may come out:
getBucketTags(c) ==
    LET own   == {sanitizeTagKey(BucketTags[n].key) : n \in OwnTags}
        extra == {sanitizeTagKey(k) : k \in ClusterKeys(c)}
        OwnValue(k) == BucketTags[Last({n \in OwnTags :
                                    sanitizeTagKey(BucketTags[n].key) = k})].value
    IN {[k \in own \cup extra |-> IF k \in extra THEN GetTags(c)[from[k]]
                                  ELSE OwnValue(k)] :
          from \in {f \in [extra -> ClusterKeys(c)] :
                      \A k \in extra : sanitizeTagKey(f[k]) = k}}

\* AWS: a list, which S3 and IAM refuse when a key is in it twice.
setTags(c) ==
    LET own == {BucketTags[n].key : n \in OwnTags}
        Place(k) == CHOOSE n \in OwnTags : BucketTags[n].key = k
    IN IF \/ own \cap ClusterKeys(c) # {}
          \/ \E n, m \in OwnTags : n # m /\ BucketTags[n].key = BucketTags[m].key
       THEN {}
       ELSE {[k \in own \cup ClusterKeys(c) |->
                IF k \in own THEN BucketTags[Place(k)].value ELSE GetTags(c)[k]]}

TagsOf(c) == IF provider = "capa" THEN setTags(c) ELSE getBucketTags(c)

-----------------------------------------------------------------------------
(* The process and its passes.                                             *)

\* main: a provider it does not know ends the process, which is restarted.
\* Otherwise the caches are filled and every Bucket is enqueued.
Start ==
    /\ pc = "down"
    /\ IF provider \in {"capa", "capz"} THEN pc' = "idle" /\ due' = TRUE
                                        ELSE UNCHANGED <<pc, due>>
    /\ secrets' = [s \in SecretSlots |-> <<Current(s)>>]
    /\ UNCHANGED <<provider, cluster, identities, got, cloud, since, changes, faulty>>

EndPass(next, again) ==
    pc' = next /\ due' = again /\ got' = Blank /\ since' = Nothing

\* Mutant of Retry: what was read survives the pass.
KeepReading == pc' = "idle" /\ due' = TRUE /\ since' = Nothing /\ UNCHANGED got

\* Reconcile returns the error of GetCluster or of a factory.
Retry == EndPass("idle", TRUE)

\* A request that fails for reasons of its own: broken connections, no
\* shared AWS config, no federated token file.
Fails == faulty /\ Retry

Begin ==
    /\ pc = "idle" /\ due
    /\ pc' = "cluster" /\ due' = FALSE
    /\ since' = Now
    /\ UNCHANGED <<got, cloud>>

ReadCluster ==
    /\ pc = "cluster"
    /\ IF cluster # Absent /\ RefersToIdentity(cluster)
       THEN \/ /\ got' = [got EXCEPT !.cluster = cluster]
               /\ pc' = "identity" /\ UNCHANGED <<due, since>>
            \/ Fails
       ELSE Retry
    /\ UNCHANGED cloud

ReadIdentity ==
    /\ pc = "identity"
    /\ LET i == identities[IdentitySlot(got.cluster)] IN
       IF i # Absent /\ Valid(got.cluster, i)
       THEN \/ /\ got' = [got EXCEPT !.identity = i]
               /\ pc' = IF NeedsSecret(i) THEN "secret" ELSE "services"
               /\ UNCHANGED <<due, since>>
            \/ Fails
       ELSE Retry
    /\ UNCHANGED cloud

ReadSecret ==
    /\ pc = "secret"
    /\ LET secret == Head(secrets[<<got.identity.secretNamespace,
                                    got.identity.secretName>>]) IN
       IF Cached(secret)
       THEN \/ /\ got' = [got EXCEPT !.secret = secret]
               /\ pc' = "services" /\ UNCHANGED <<due, since>>
            \/ Fails
       ELSE Retry
    /\ UNCHANGED cloud

InUse == Credentials(got.cluster, got.identity, got.secret)

\* NewObjectStorageService and NewAccessRoleService.
NewServices ==
    /\ pc = "services"
    /\ IF Buildable(InUse)
       THEN \/ pc' = "calls" /\ UNCHANGED <<due, got, since>>
            \/ Fails
       ELSE Retry
    /\ UNCHANGED cloud

\* The service calls of the pass, of which only the tags matter here.
ServiceCalls ==
    /\ pc = "calls"
    /\ \/ \E ts \in TagsOf(got.cluster) :
             /\ cloud' = [by |-> InUse, tags |-> ts]
             /\ EndPass("idle", due) \/ Fails
       \/ TagsOf(got.cluster) = {} /\ Retry /\ UNCHANGED cloud
       \/ Fails /\ UNCHANGED cloud

Pass ==
    /\ \/ Begin \/ ReadCluster \/ ReadIdentity \/ ReadSecret \/ NewServices
       \/ ServiceCalls
    /\ UNCHANGED <<provider, objects, changes, faulty>>

\* A change of the Bucket, or the informer's resync, starts another pass.
Enqueue ==
    /\ pc # "down" /\ ~due
    /\ due' = TRUE
    /\ UNCHANGED <<provider, objects, pc, got, cloud, since, changes, faulty>>

\* The informer applies the next change of a Secret to the cache.
SecretWatch(s) ==
    /\ pc # "down"
    /\ Len(secrets[s]) > 1
    /\ secrets' = [secrets EXCEPT ![s] = Tail(@)]
    /\ UNCHANGED <<provider, cluster, identities, pc, due, got, cloud, since,
                   changes, faulty>>

\* Others edit, create or delete an object.
Edit ==
    /\ changes < MaxChanges
    /\ changes' = changes + 1
    /\ \/ /\ cluster' \in ClusterContents \ {cluster}
          /\ UNCHANGED <<identities, secrets>>
       \/ \E s \in Slots : \E i \in IdentityContents(s) \ {identities[s]} :
             /\ identities' = [identities EXCEPT ![s] = i]
             /\ UNCHANGED <<cluster, secrets>>
       \/ \E s \in SecretSlots : \E v \in SecretContents \ {Current(s)} :
             /\ secrets' = [secrets EXCEPT ![s] = Append(@, v)]
             /\ UNCHANGED <<cluster, identities>>
    /\ since' = IF pc \in {"down", "idle"} THEN since
                ELSE [clusters   |-> since.clusters \cup {cluster'},
                      identities |-> [s \in Slots |-> since.identities[s]
                                                        \cup {identities'[s]}],
                      secrets    |-> [s \in SecretSlots |-> since.secrets[s]
                                                    \cup Elements(secrets'[s])]]
    /\ UNCHANGED <<provider, pc, due, got, cloud, faulty>>

Crash ==
    /\ faulty /\ pc # "down"
    /\ EndPass("down", FALSE)
    /\ UNCHANGED <<provider, objects, cloud, changes, faulty>>

Stabilize ==
    /\ faulty
    /\ faulty' = FALSE
    /\ UNCHANGED <<provider, objects, pc, due, got, cloud, since, changes>>

Next ==
    \/ Start
    \/ Pass
    \/ Enqueue
    \/ \E s \in SecretSlots : SecretWatch(s)
    \/ Edit
    \/ Crash
    \/ Stabilize

Spec == Init /\ [][Next]_vars

\* The kubelet restarts the process, the worker goes on with its pass, the
\* resync comes round and the watch delivers.
FairSpec ==
    /\ Spec
    /\ WF_vars(Start)
    /\ WF_vars(Pass)
    /\ WF_vars(Enqueue)
    /\ \A s \in SecretSlots : WF_vars(SecretWatch(s))

-----------------------------------------------------------------------------
(* Properties.                                                             *)

TypeOK ==
    /\ provider \in Providers
    /\ cluster \in ClusterContents
    /\ identities \in [Slots -> Contents(Identities) \cup {Absent}]
    /\ secrets \in [SecretSlots -> Seq(SecretContents) \ {<<>>}]
    /\ pc \in {"down", "idle", "cluster", "identity", "secret", "services", "calls"}
    /\ pc = "down" \/ provider \in {"capa", "capz"}
    /\ due \in BOOLEAN
    /\ got \in [cluster  : Contents(Clusters) \cup {None},
               identity : Contents(Identities) \cup {None},
               secret   : Secrets \cup {None}]
    /\ pc \in {"down", "idle", "cluster"} <=> got.cluster = None
    /\ pc \in {"secret", "services", "calls"} <=> got.identity # None
    /\ changes \in 0 .. MaxChanges
    /\ faulty \in BOOLEAN

\* The identity that a cluster object names.  CAPZ looks where identityRef
\* says and CAPA's identities have no namespace of their own.
Names(c, s) ==
    /\ s[2] = c.identityName
    /\ s[1] = IF provider = "capz" /\ "identityNamespace" \in DOMAIN c
                 /\ c.identityNamespace # ""
              THEN c.identityNamespace ELSE Home

\* GetCluster reads three objects one by one while others edit them.  The
\* clients that a pass works with are still made of one version of the cluster
\* object, of one version of the identity that this version names, and of the
\* Secret that this identity names, each of them there (for the Secret: there
\* or still in the cache) at some moment of this same pass: never of the
\* identity in another namespace, of a Secret the identity does not use, or of
\* anything remembered from an earlier pass.
Coherent ==
    pc \in {"services", "calls"} =>
        /\ got.cluster \in since.clusters
        /\ \E s \in Slots : Names(got.cluster, s) /\ got.identity \in since.identities[s]
        /\ got.secret \in IF provider = "capz" /\ got.identity.type = "ManualServicePrincipal"
                         THEN since.secrets[<<got.identity.secretNamespace,
                                              got.identity.secretName>>]
                         ELSE {None}

\* The cluster object, the identity and the Secret it names are there and
\* complete; then Sought(s, secret) holds of one identity and Secret.
Complete(o, fs) == \A f \in fs : f \in DOMAIN o /\ o[f] \notin {Malformed, ""}
Sought(s, secret) ==
    /\ provider \in {"capa", "capz"}
    /\ cluster # Absent /\ Complete(cluster, {"identityName"})
    /\ \A f \in {"identityNamespace", "additionalTags"} \cap DOMAIN cluster :
          cluster[f] # Malformed
    /\ Names(cluster, s) /\ identities[s] # Absent
    /\ LET i == identities[s] IN
       IF provider = "capa"
       THEN Complete(i, {"roleARN"}) /\ i.roleARN \in Parsable /\ secret = None
       ELSE /\ Complete(cluster, {"resourceGroup", "subscriptionID"})
            /\ Complete(i, {"type", "clientID"})
            /\ \/ i.type = "UserAssignedMSI" /\ secret = None
               \/ /\ i.type = "WorkloadIdentity"
                  /\ Complete(i, {"tenantID"}) /\ i.tenantID \in Tenants
                  /\ secret = None
               \/ /\ i.type = "ManualServicePrincipal"
                  /\ Complete(i, {"tenantID", "secretName", "secretNamespace"})
                  /\ i.tenantID \in Tenants
                  /\ secret = Current(<<i.secretNamespace, i.secretName>>)
                  /\ secret # Absent /\ secret.owner # "helm" /\ secret.data # ""

\* Nothing but the resync tells the operator of an edited cluster object, of a
\* moved identity or of a rotated Secret.  All the same, once requests stop
\* failing and the objects are complete and edited no more, the resources are
\* for ever administered with the credentials these objects hold, unless the
\* tags are refused.
CredentialsFollow ==
    <>[](~faulty => \A s \in Slots, secret \in Secrets \cup {None} :
            Sought(s, secret) /\ TagsOf(cluster) # {} =>
                cloud.by = Credentials(cluster, identities[s], secret))

\* Under the same conditions the resources end up tagged as the cluster object
\* says now: on both clouds its tags are on them, on Azure in their sanitized
\* form and over the Bucket's own, the Bucket's other tags are too, and nothing
\* of an earlier version of the cluster object is left.
Written(k) == IF provider = "capz" THEN sanitizeTagKey(k) ELSE k
TagsFollow ==
    <>[](~faulty /\ (\E s \in Slots, secret \in Secrets \cup {None} : Sought(s, secret))
                 /\ TagsOf(cluster) # {} =>
            /\ cloud.tags # None
            /\ DOMAIN cloud.tags =
                  {Written(k) : k \in ClusterKeys(cluster)} \cup
                  {Written(BucketTags[n].key) : n \in OwnTags}
            /\ \A k \in ClusterKeys(cluster) :
                  \E l \in ClusterKeys(cluster) :
                     /\ Written(l) = Written(k)
                     /\ cloud.tags[Written(k)] = GetTags(cluster)[l]
            /\ \A n \in OwnTags :
                  LET Rivals == {Written(k) : k \in ClusterKeys(cluster)} \cup
                                {Written(BucketTags[m].key) :
                                    m \in {l \in OwnTags : l > n}}
                      key == Written(BucketTags[n].key)
                  IN key \notin Rivals => cloud.tags[key] = BucketTags[n].value)
=============================================================================
