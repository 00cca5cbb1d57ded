-------------------------- MODULE AzureController --------------------------
(***************************************************************************)
(* The reconciler over Azure: each request that the adapter in             *)
(* internal/pkg/service/objectstorage/cloud/azure makes to Azure, or to    *)
(* the API server about the Secret with the access key, is a step of its   *)
(* own.  Azure has no access roles: their service does nothing.  Shown to  *)
(* implement BucketController.                                             *)
(***************************************************************************)
EXTENDS ReconcileLoop

CONSTANTS
    NoExpiration,   \* the absent expirationPolicy: no management policy
    NoTags,         \* a resource that carries no tags yet
    Nothing,        \* settings that are no spec's, for the contract
    Alphanumerics,  \* the letters and digits among the characters of Names
    MaxAccountName, \* bound: how long account names may be, 24 in the code
    Contested,      \* whether others take names of storage accounts
    SecretLag,      \* whether the cache may be behind on Secrets
    SecretDeletion  \* whether others try to delete Secrets

ASSUME AzureAssumption ==
    /\ NoExpiration \in Expirations
    /\ NoTags \notin TagSets
    /\ \A n \in Names : n \in Seq({n[i] : i \in DOMAIN n})
    /\ MaxAccountName \in Nat \ {0}
    /\ Contested \in BOOLEAN
    /\ SecretLag \in BOOLEAN /\ SecretDeletion \in BOOLEAN

\* Names are sequences of characters: those that are no letters or digits are
\* dropped, and what is left is cut.
sanitizeStorageAccountName(n) ==
    LET AlphaNumeric(c) == c \in Alphanumerics
        kept == SelectSeq(n, AlphaNumeric)
    IN IF Len(kept) <= MaxAccountName THEN kept ELSE SubSeq(kept, 1, MaxAccountName)
AccountOf == [n \in Names |-> sanitizeStorageAccountName(n)]
Accounts  == {AccountOf[n] : n \in Names}

VARIABLES
    taken,       \* the account names that are in use elsewhere in Azure
    accounts,    \* accounts[a]: the storage account a
    containers,  \* containers[n]: the storage container n, in AccountOf[n]
    endpoints,   \* the buckets that have a private endpoint
    records,     \* the accounts that have an A record in the private zone
    secrets,     \* secrets[n]: the Secret n in the API server
    known,       \* known[n]: the Secret n in the cache
    private,     \* the ConfigMap says that the management cluster is private
    call,        \* the request the running service call makes next
    local        \* what the call has read: the network mode or the Secret

azureVars  == <<taken, accounts, containers, endpoints, records>>
secretVars == <<secrets, known>>
vars == <<loopVars, azureVars, secretVars, private, call, local>>

\* closed: public network access is disabled; policy: the only management
\* policy an account can have, "default".
NoAccount   == [exists |-> FALSE, closed |-> FALSE, tags |-> NoTags,
                policy |-> NoExpiration]
NoContainer == [exists |-> FALSE, tags |-> NoTags]

\* A Secret is missing, held by the finalizer, held and marked for deletion,
\* or without finalizer.
SecretStates == {"none", "held", "marked", "free"}
Released(s)  == IF s = "held" THEN "free" ELSE IF s = "marked" THEN "none" ELSE s
Deleted(s)   == IF s = "held" THEN "marked" ELSE IF s = "free" THEN "none" ELSE s

Init ==
    /\ LoopInit
    /\ taken = {}
    /\ accounts = [a \in Accounts |-> NoAccount]
    /\ containers = [n \in Names |-> NoContainer]
    /\ endpoints = {} /\ records = {}
    /\ secrets = [n \in Names |-> "none"]
    /\ known = secrets
    /\ private \in BOOLEAN
    /\ call = "none"
    /\ local = "none"

-----------------------------------------------------------------------------
(* Requests, and how a service call goes on.                               *)

\* The first request of the service call that a step of the pass makes.
Entry(step) ==
    CASE step \in {"exists", "existsDelete"} -> "CheckNameAvailability"
      [] step \in {"create", "update"} -> "GetUserValues"
      [] step = "configure"    -> "PutManagementPolicy"
      [] step = "deleteBucket" -> "DeleteAccount"
      [] OTHER -> "none"

Ask(request) == call' = request /\ UNCHANGED <<workerVars, local>>
Return(step) == Goto(step) /\ call' = Entry(step) /\ local' = "none" /\ UNCHANGED obj
ReturnError  == Retry /\ call' = "none" /\ local' = "none"
RequestFails == faulty /\ ReturnError

Name    == obj.spec.name
Account == AccountOf[Name]

\* A request with the effect e: done, done but the answer is lost, not done.
AzureRequest(e, then) ==
    \/ e /\ then
    \/ (e \/ UNCHANGED azureVars) /\ RequestFails
SecretRequest(s, then) ==
    \/ secrets' = [secrets EXCEPT ![Name] = s] /\ then
    \/ secrets' \in {secrets, [secrets EXCEPT ![Name] = s]} /\ RequestFails

-----------------------------------------------------------------------------
(* ExistsBucket, in reconcileNormal and reconcileDelete.                   *)

\* In reconcileDelete an error ends the pass as a missing bucket does.
Decide(exists) ==
    \/ pc = "exists" /\ Return(IF exists THEN "update" ELSE "create")
    \/ pc = "existsDelete" /\ exists /\ obj.spec.reclaim = "Delete" /\
          Return("deleteBucket")
    \/ pc = "existsDelete" /\ ~(exists /\ obj.spec.reclaim = "Delete") /\
          Finish /\ call' = "none" /\ local' = "none"
CheckFails ==
    \/ pc = "exists" /\ RequestFails
    \/ pc = "existsDelete" /\ faulty /\ Finish /\ call' = "none" /\ local' = "none"

\* A name that is not available counts as an account of ours.
Unavailable == accounts[Account].exists \/ Account \in taken

CheckNameAvailability ==
    /\ call = "CheckNameAvailability"
    /\ \/ Unavailable /\ Ask("GetContainer")
       \/ ~Unavailable /\ Decide(FALSE)
       \/ CheckFails
    /\ UNCHANGED azureVars

ExistsContainer ==
    /\ call = "GetContainer"
    /\ Decide(containers[Name].exists) \/ CheckFails
    /\ UNCHANGED azureVars

-----------------------------------------------------------------------------
(* CreateBucket, which UpdateBucket calls.                                 *)

\* The mode is read once and used for the rest of the call.
IsManagementClusterPrivate ==
    /\ call = "GetUserValues"
    /\ \/ /\ call' = "CreateAccount"
          /\ local' = IF private THEN "private" ELSE "public"
          /\ UNCHANGED workerVars
       \/ RequestFails
    /\ UNCHANGED azureVars

\* Creates the account, or updates it, whatever the check before it says;
\* Azure refuses a name that is in use elsewhere.
UpsertStorageAccount ==
    /\ call = "CreateAccount"
    /\ \/ Account \in taken /\ ReturnError /\ UNCHANGED azureVars
       \/ Account \notin taken /\ AzureRequest(
          /\ accounts' = [accounts EXCEPT ![Account].exists = TRUE,
                                          ![Account].closed = (local = "private"),
                                          ![Account].tags = obj.spec.tags]
          /\ UNCHANGED <<taken, containers, endpoints, records>>,
          Ask("UpsertContainer"))

\* Mutants of UpsertContainer: the endpoint is made for new containers only,
\* or an existing container keeps its metadata.
EndpointForNewOnly ==
    /\ call = "UpsertContainer"
    /\ AzureRequest(
          /\ containers' = [containers EXCEPT ![Name] = [exists |-> TRUE,
                                                         tags |-> obj.spec.tags]]
          /\ UNCHANGED <<taken, accounts, endpoints, records>>,
          Ask(IF local = "private" /\ ~containers[Name].exists
              THEN "PutEndpoint" ELSE "ListKeys"))
KeepMetadata ==
    /\ call = "UpsertContainer"
    /\ AzureRequest(
          /\ containers' = [containers EXCEPT ![Name] =
                IF @.exists THEN @ ELSE [exists |-> TRUE, tags |-> obj.spec.tags]]
          /\ UNCHANGED <<taken, accounts, endpoints, records>>,
          Ask(IF local = "private" THEN "PutEndpoint" ELSE "ListKeys"))

\* The lookup and the request that creates the container or sets its metadata.
UpsertContainer ==
    /\ call = "UpsertContainer"
    /\ AzureRequest(
          /\ containers' = [containers EXCEPT ![Name] = [exists |-> TRUE,
                                                         tags |-> obj.spec.tags]]
          /\ UNCHANGED <<taken, accounts, endpoints, records>>,
          Ask(IF local = "private" THEN "PutEndpoint" ELSE "ListKeys"))

UpsertPrivateEndpoint ==
    /\ call = "PutEndpoint"
    /\ AzureRequest(
          /\ endpoints' = endpoints \cup {Name}
          /\ UNCHANGED <<taken, accounts, containers, records>>,
          Ask("PutRecord"))

UpsertPrivateEndpointARecords ==
    /\ call = "PutRecord"
    /\ AzureRequest(
          /\ records' = records \cup {Account}
          /\ UNCHANGED <<taken, accounts, containers, endpoints>>,
          Ask("ListKeys"))

\* Mutant of ListKeys: the Secret is not written.
SkipSecret ==
    /\ call = "ListKeys"
    /\ Return("configure")
    /\ UNCHANGED azureVars

ListKeys ==
    /\ call = "ListKeys"
    /\ Ask("GetSecret") \/ RequestFails
    /\ UNCHANGED azureVars

\* CreateOrUpdate goes by the cache: it creates a Secret that it does not see,
\* which fails when there is one, and updates one that it sees, which fails
\* when there is none.  What is in it, account name and key, is left out.
UpsertSecret ==
    /\ call = "GetSecret" /\ pc \in {"create", "update"}
    /\ IF (known[Name] = "none") # (secrets[Name] = "none")
       THEN ReturnError /\ UNCHANGED secrets
       ELSE SecretRequest(IF secrets[Name] = "none" THEN "held" ELSE secrets[Name],
                          Return("configure"))
    /\ UNCHANGED azureVars

-----------------------------------------------------------------------------
(* ConfigureBucket.                                                        *)

\* The policy is written under the name "default".  Without expiration one
\* named after the rule is deleted, which does not exist: not found, no error.
SetLifecycleRules ==
    /\ call = "PutManagementPolicy"
    /\ AzureRequest(
          /\ accounts' = [accounts EXCEPT ![Account].policy =
                IF obj.spec.expiration = NoExpiration THEN @ ELSE obj.spec.expiration]
          /\ UNCHANGED <<taken, containers, endpoints, records>>,
          Return("status"))

-----------------------------------------------------------------------------
(* DeleteBucket.                                                           *)

\* Mutant of DeleteStorageAccount: the Secret is forgotten.
ForgetSecret ==
    /\ call = "DeleteAccount"
    /\ accounts' = [accounts EXCEPT ![Account] = NoAccount]
    /\ containers' = [n \in Names |-> IF AccountOf[n] = Account
                                      THEN NoContainer ELSE containers[n]]
    /\ Return(IF obj.spec.role = NoRole THEN "release" ELSE "deleteRole")
    /\ UNCHANGED <<taken, endpoints, records>>

\* The account goes with its policy and all its containers.  The private
\* endpoint and the A record stay.
DeleteStorageAccount ==
    /\ call = "DeleteAccount"
    /\ AzureRequest(
          /\ accounts' = [accounts EXCEPT ![Account] = NoAccount]
          /\ containers' = [n \in Names |-> IF AccountOf[n] = Account
                                            THEN NoContainer ELSE containers[n]]
          /\ UNCHANGED <<taken, endpoints, records>>,
          Ask("GetSecret"))

GetSecret ==
    /\ call = "GetSecret" /\ pc = "deleteBucket"
    /\ \/ /\ known[Name] # "none"
          /\ call' = "PatchSecret"
          /\ local' = known[Name]
          /\ UNCHANGED workerVars
       \/ known[Name] = "none" /\ ReturnError
    /\ UNCHANGED <<azureVars, secrets>>

\* A patch that takes the finalizer off, if the copy read has it.
PatchSecret ==
    /\ call = "PatchSecret"
    /\ IF secrets[Name] = "none" THEN ReturnError /\ UNCHANGED secrets
       ELSE SecretRequest(IF local = "free" THEN secrets[Name]
                                            ELSE Released(secrets[Name]),
                          Ask("DeleteSecret"))
    /\ UNCHANGED azureVars

\* A Secret that is already gone is an error.
DeleteSecret ==
    /\ call = "DeleteSecret"
    /\ IF secrets[Name] = "none" THEN ReturnError /\ UNCHANGED secrets
       ELSE SecretRequest(Deleted(secrets[Name]),
                          Return(IF obj.spec.role = NoRole THEN "release"
                                                           ELSE "deleteRole"))
    /\ UNCHANGED azureVars

-----------------------------------------------------------------------------
(* The access role service.                                                *)

ConfigureRole ==
    /\ pc = "role"
    /\ Finish /\ UNCHANGED <<call, local, azureVars>>

DeleteRole == pc = "deleteRole" /\ Return("release") /\ UNCHANGED azureVars

-----------------------------------------------------------------------------
Request ==
    /\ \/ /\ \/ CheckNameAvailability \/ ExistsContainer
             \/ IsManagementClusterPrivate \/ UpsertStorageAccount
             \/ UpsertContainer \/ UpsertPrivateEndpoint
             \/ UpsertPrivateEndpointARecords \/ ListKeys \/ SetLifecycleRules
             \/ DeleteStorageAccount \/ ConfigureRole \/ DeleteRole
          /\ UNCHANGED secrets
       \/ UpsertSecret \/ GetSecret \/ PatchSecret \/ DeleteSecret
    /\ known' = IF SecretLag THEN known ELSE secrets'
    /\ UNCHANGED <<clusterVars, faulty, private>>

\* Steps of the loop: a pass that moves on or dies leaves its request behind,
\* and a new process fills its cache.
LoopStep(A) ==
    /\ A
    /\ call' = IF pc' = pc THEN call ELSE Entry(pc')
    /\ local' = IF pc' = pc THEN local ELSE "none"
    /\ UNCHANGED <<azureVars, secrets, private>>

Others ==
    \/ \E k \in Keys : OthersAct(k) \/ Resync(k)
    \/ Stabilize

\* The watch on Secrets is not the one on Buckets, and may be later.
SecretWatch(n) ==
    /\ known[n] # secrets[n]
    /\ known' = [known EXCEPT ![n] = secrets[n]]
    /\ UNCHANGED <<loopVars, azureVars, secrets, private, call, local>>

\* Somebody deletes the Secret, which the finalizer holds back.
SecretDelete(n) ==
    /\ SecretDeletion
    /\ secrets[n] \in {"held", "free"}
    /\ secrets' = [secrets EXCEPT ![n] = Deleted(@)]
    /\ known' = IF SecretLag THEN known ELSE secrets'
    /\ UNCHANGED <<loopVars, azureVars, private, call, local>>

\* Somebody else in Azure takes the name of an account that does not exist, or
\* gives it back.
Claim(a) ==
    /\ Contested
    /\ ~accounts[a].exists
    /\ taken' = IF a \in taken THEN taken \ {a} ELSE taken \cup {a}
    /\ UNCHANGED <<loopVars, accounts, containers, endpoints, records, secretVars,
                   private, call, local>>

\* The management cluster turns private.  Bound: it does not turn back.
SwitchMode ==
    /\ ~private
    /\ private' = TRUE
    /\ UNCHANGED <<loopVars, azureVars, secretVars, call, local>>

Next ==
    \/ LoopStep(Others) /\ UNCHANGED known
    \/ LoopStep(Crash) /\ known' = secrets
    \/ \E k \in Keys : LoopStep(Watch(k)) /\ UNCHANGED known
    \/ \E k \in Keys : LoopStep(Begin(k)) /\ UNCHANGED known
    \/ LoopStep(ControllerStep) /\ UNCHANGED known
    \/ Request
    \/ \E n \in Names : SecretWatch(n) \/ SecretDelete(n)
    \/ \E a \in Accounts : Claim(a)
    \/ SwitchMode

Spec == Init /\ [][Next]_vars

FairSpec ==
    /\ Spec
    /\ \A k \in Keys :
          /\ WF_vars(LoopStep(Watch(k)) /\ UNCHANGED known)
          /\ SF_vars(LoopStep(Begin(k)) /\ UNCHANGED known)
          /\ WF_vars(LoopStep(Resync(k)) /\ UNCHANGED known)
    /\ \A n \in Names : WF_vars(SecretWatch(n))
    /\ WF_vars(LoopStep(ControllerStep) /\ UNCHANGED known)
    /\ WF_vars(Request)

-----------------------------------------------------------------------------
(* Properties.                                                             *)

TypeOK ==
    /\ LoopTypeOK
    /\ taken \subseteq Accounts
    /\ accounts \in [Accounts -> [exists : BOOLEAN, closed : BOOLEAN,
                                  tags : TagSets \cup {NoTags},
                                  policy : Expirations]]
    /\ containers \in [Names -> [exists : BOOLEAN, tags : TagSets \cup {NoTags}]]
    /\ endpoints \subseteq Names /\ records \subseteq Accounts
    /\ secrets \in [Names -> SecretStates] /\ known \in [Names -> SecretStates]
    /\ private \in BOOLEAN
    /\ local \in {"none", "public", "private"} \cup SecretStates
    /\ call = "none" <=> Entry(pc) = "none"

\* A bucket announced as ready can be used: CreateBucket has made the account,
\* although a name that others hold counts as an existing account, the container
\* and the Secret with the access key, and whatever passes fail later and
\* whoever deletes the Secret, they stay until deletion is requested.
ReadyMeansUsable ==
    \A k \in Keys : Live(k) /\ api[k].status.ready =>
        LET n == api[k].status.id IN
        /\ accounts[AccountOf[n]].exists
        /\ containers[n].exists
        /\ secrets[n] # "none"

\* CreateBucket closes an account to the public before there is another way
\* in.  When nothing is left to do for a live Bucket its account, if closed,
\* has the private endpoint and the A record, whenever the mode was switched.
ReachableWhenIdle ==
    \A k \in Keys : Live(k) /\ Idle(k) =>
        LET n == api[k].spec.name
            a == AccountOf[n]
        IN accounts[a].closed => n \in endpoints /\ a \in records

\* An account, with or without its container, and a Secret exist only under a
\* Bucket object that carries the finalizer: DeleteBucket, which takes them
\* away one after the other, is never cut short for good with the object gone.
NoOrphanAccounts ==
    \A n \in Names : accounts[AccountOf[n]].exists \/ secrets[n] # "none" =>
        \E k \in Keys : Exists(k) /\ api[k].fin /\ api[k].spec.name = n

\* The cloud as the contract sees it.  A container carries the settings of a spec
\* when the account it is in has the same tags; there are no roles.
BucketSeen(a, c) ==
    [exists |-> c.exists,
     carries |-> IF c.exists /\ c.tags = a.tags
                 THEN [expiration |-> a.policy, tags |-> c.tags]
                 ELSE Nothing]
StoreOf == [n \in Names |-> BucketSeen(accounts[AccountOf[n]], containers[n])]
RolesOf == [r \in Roles |-> [exists |-> FALSE, carries |-> Nothing]]

\* The requests of the adapter implement the contract of the services, and so
\* the reconciler over Azure implements BucketController.
Contract == INSTANCE BucketController WITH
    HasRoles <- FALSE, RefusedTags <- {}, store <- StoreOf, roles <- RolesOf
ContractSpec == Contract!Spec

\* When nothing is left to do for a live Bucket the management policy of its
\* account is the expirationPolicy of its spec: "No Lifecycle Policy defines in
\* the bucket CR, we delete it in the Storage Account".
ExpiryFollowsSpec ==
    \A k \in Keys : Live(k) /\ Idle(k) =>
        accounts[AccountOf[api[k].spec.name]].policy = api[k].spec.expiration

\* "Here, we decided to have a Storage Account dedicated to a Storage Container
\* (relation 1 - 1)": no two buckets live in one account.
Dedicated ==
    \A n, m \in Names : containers[n].exists /\ containers[m].exists /\ n # m =>
        AccountOf[n] # AccountOf[m]
=============================================================================
