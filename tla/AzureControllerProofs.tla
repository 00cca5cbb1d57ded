----------------------- MODULE AzureControllerProofs -----------------------
(***************************************************************************)
(* Where a service call on Azure stands among its requests, what follows   *)
(* for the buckets, and that AzureController implements BucketController.  *)
(***************************************************************************)
EXTENDS AzureInvariant, LoopProofs

AccountRecord   == [exists : BOOLEAN, closed : BOOLEAN,
                    tags : TagSets \cup {NoTags}, policy : Expirations]
ContainerRecord == [exists : BOOLEAN, tags : TagSets \cup {NoTags}]

\* The types of what is not the loop's.
CloudOK ==
    /\ taken \subseteq Accounts
    /\ accounts \in [Accounts -> AccountRecord]
    /\ containers \in [Names -> ContainerRecord]
    /\ endpoints \subseteq Names /\ records \subseteq Accounts
    /\ secrets \in [Names -> SecretStates] /\ known \in [Names -> SecretStates]
    /\ private \in BOOLEAN
    /\ local \in {"none", "public", "private"} \cup SecretStates

\* The type invariant follows from its parts.
LEMMA TypeParts ==
  /\ TypeOK => LoopTypeOK /\ CloudOK
  /\ LoopTypeOK /\ CloudOK /\ CallInv => TypeOK
<1>1. TypeOK => LoopTypeOK /\ CloudOK
  BY DEF TypeOK, CloudOK, AccountRecord, ContainerRecord
<1>2. ASSUME LoopTypeOK, CallInv PROVE call = "none" <=> Entry(pc) = "none"
  BY <1>2 DEF LoopTypeOK, Steps, CallInv, RequestsOf, Entry
<1> QED
  BY <1>1, <1>2 DEF TypeOK, CloudOK, AccountRecord, ContainerRecord

\* What a pass that makes requests works on.
LEMMA Target ==
  ASSUME LoopTypeOK, CloudOK, pc # "idle"
  PROVE  /\ req \in Keys /\ obj \in Bucket /\ obj.spec \in BucketSpec
         /\ Name \in Names /\ Account \in Accounts
         /\ obj.spec.tags \in TagSets /\ obj.spec.expiration \in Expirations
         /\ TheAccount \in AccountRecord /\ TheContainer \in ContainerRecord
         /\ secrets[Name] \in SecretStates /\ known[Name] \in SecretStates
<1>1. req \in Keys /\ obj \in Bucket
  BY DEF LoopTypeOK, Version
<1>2. obj.spec \in BucketSpec
  BY <1>1 DEF Bucket
<1>3. /\ Name \in Names /\ obj.spec.tags \in TagSets
      /\ obj.spec.expiration \in Expirations
  BY <1>2 DEF BucketSpec, Name
<1>4. Account \in Accounts
  BY <1>3 DEF Account, Accounts
<1> QED
  BY <1>1, <1>2, <1>3, <1>4 DEF CloudOK, TheAccount, TheContainer

\* Every bucket has its account.
LEMMA InAccount == \A n \in Names : AccountOf[n] \in Accounts
BY DEF Accounts

\* The step of the pass that makes a request.
LEMMA CallStep ==
  ASSUME LoopTypeOK, CallInv
  PROVE  /\ call \in {"CheckNameAvailability", "GetContainer"} =>
               pc \in {"exists", "existsDelete"}
         /\ call \in {"GetUserValues", "CreateAccount", "UpsertContainer",
                      "PutEndpoint", "PutRecord", "ListKeys"} => Creating
         /\ call = "GetSecret" => Creating \/ pc = "deleteBucket"
         /\ call = "PutManagementPolicy" => pc = "configure"
         /\ call \in {"DeleteAccount", "PatchSecret", "DeleteSecret"} =>
               pc = "deleteBucket"
         /\ pc \in {"idle", "getCluster", "addFinalizer", "status", "role",
                    "deleteRole", "release"} => call = "none"
BY DEF LoopTypeOK, Steps, CallInv, RequestsOf, Creating

\* The first request of a step is one of that step's.
LEMMA EntryFits == \A step \in Steps : Entry(step) \in RequestsOf(step)
BY DEF Steps, Entry, RequestsOf

(***************************************************************************)
(* Requests build up: TypeOK and RequestInv.                               *)
(***************************************************************************)

\* The cache of Secrets after a request.
CacheStep == known' = IF SecretLag THEN known ELSE secrets'

\* A call that ends leaves nothing of its own to keep.
LEMMA Ended ==
  ASSUME pc' \in {"idle", "getCluster", "addFinalizer", "exists", "existsDelete"},
         call' = Entry(pc'), Contained', KnownFree'
  PROVE  RequestInv'
<1>1. call' \in RequestsOf(pc')
  BY EntryFits DEF Steps
<1> QED
  BY <1>1 DEF RequestInv, CallInv, BuiltInv, NetworkInv, DeletedInv, Creating, Created,
     EndpointMade, RecordMade, ContainerMade, AccountMade, Entry

\* Where no Secret changes, neither does what its cached copy says of it.
LEMMA SecretsStay ==
  ASSUME CloudOK, KnownFree, UNCHANGED secrets, CacheStep
  PROVE  KnownFree' /\ known' \in [Names -> SecretStates]
BY DEF CloudOK, KnownFree, Unheld, CacheStep

\* The steps of the loop.
LEMMA LoopKept ==
  ASSUME LoopTypeOK, CloudOK, RequestInv,
         LoopStep(TRUE), UNCHANGED known \/ known' = secrets,
         \/ UNCHANGED <<pc, obj>>
         \/ /\ pc' \in {"idle", "getCluster", "addFinalizer", "exists", "existsDelete"}
            /\ pc' = "idle" \/ pc' # pc
         \/ pc' = "role" /\ pc # "role" /\ obj'.spec.role # NoRole
  PROVE  CloudOK' /\ RequestInv'
<1>1. /\ UNCHANGED <<azureVars, secrets, private>>
      /\ call' = IF pc' = pc THEN call ELSE Entry(pc')
      /\ local' = IF pc' = pc THEN local ELSE "none"
  BY DEF LoopStep
<1>2. CloudOK'
  BY <1>1 DEF CloudOK, azureVars
<1>3. Contained' /\ KnownFree'
  BY <1>1 DEF RequestInv, BuiltInv, DeletedInv, Contained, KnownFree, Unheld, azureVars
<1>4. CASE UNCHANGED <<pc, obj>>
  <2>1. UNCHANGED <<pc, obj, call, local, accounts, containers, endpoints, records, secrets>>
    BY <1>1, <1>4 DEF azureVars
  <2>2. /\ UNCHANGED <<Creating, Created, EndpointMade, RecordMade, ContainerMade,
                       AccountMade, Name, Account, TheAccount, TheContainer>>
        /\ Reachable(Name)' = Reachable(Name) /\ Unheld(Name)' = Unheld(Name)
    BY <2>1 DEF Creating, Created, EndpointMade, RecordMade, ContainerMade,
       AccountMade, Name, Account, TheAccount, TheContainer, Reachable, Unheld
  <2>3. CallInv' /\ BuiltInv'
    BY <1>3, <2>1, <2>2 DEF RequestInv, CallInv, BuiltInv
  <2>4. NetworkInv' /\ DeletedInv'
    BY <1>3, <2>1, <2>2 DEF RequestInv, NetworkInv, DeletedInv
  <2> QED
    BY <1>2, <2>3, <2>4 DEF RequestInv
<1>5. CASE /\ pc' \in {"idle", "getCluster", "addFinalizer", "exists", "existsDelete"}
           /\ pc' = "idle" \/ pc' # pc
  <2>1. pc' = "idle" /\ pc = "idle" => call' = "none"
    BY <1>1, CallStep DEF RequestInv
  <2>2. call' = Entry(pc')
    BY <1>1, <1>5, <2>1 DEF Entry
  <2> QED
    BY <1>2, <1>3, <1>5, <2>2, Ended
<1>6. CASE pc' = "role" /\ pc # "role" /\ obj'.spec.role # NoRole
  <2>1. call' = "none"
    BY <1>1, <1>6 DEF Entry
  <2> QED
    BY <1>2, <1>3, <1>6, <2>1 DEF RequestInv, CallInv, RequestsOf, BuiltInv, NetworkInv,
       DeletedInv, Creating, Created, EndpointMade, RecordMade, ContainerMade,
       AccountMade
<1> QED
  BY <1>2, <1>4, <1>5, <1>6

\* What a request leaves alone.
LEMMA CloudStays ==
  ASSUME CloudOK, RequestInv, UNCHANGED <<azureVars, secrets, private>>, CacheStep,
         local' \in {"none", "public", "private"} \cup SecretStates
  PROVE  CloudOK' /\ Contained' /\ KnownFree'
<1>1. KnownFree' /\ known' \in [Names -> SecretStates]
  BY SecretsStay DEF RequestInv, DeletedInv
<1>2. Contained'
  BY DEF RequestInv, BuiltInv, Contained, azureVars
<1> QED
  BY <1>1, <1>2 DEF CloudOK, azureVars

\* The decision on what ExistsBucket has found.
LEMMA DecideKept ==
  ASSUME LoopTypeOK, CloudOK, RequestInv, pc \in {"exists", "existsDelete"},
         NEW e, e = TheContainer.exists, Decide(e) \/ CheckFails,
         UNCHANGED <<azureVars, secrets, private>>, CacheStep
  PROVE  CloudOK' /\ RequestInv'
<1>1. CloudOK' /\ Contained' /\ KnownFree'
  <2>1. local' = "none"
    BY DEF Decide, CheckFails, RequestFails, ReturnError, Return
  <2> QED
    BY <2>1, CloudStays
<1>2. CASE pc' = "idle" /\ call' = "none"
  BY <1>1, <1>2, Ended DEF Entry
<1>3. CASE Return(IF e THEN "update" ELSE "create")
  <2>1. /\ pc' = IF e THEN "update" ELSE "create"
        /\ call' = "GetUserValues" /\ UNCHANGED obj
    BY <1>3 DEF Return, Goto, Entry
  <2>2. TheContainer' = TheContainer
    BY <2>1 DEF TheContainer, Name, azureVars
  <2>3. CallInv' /\ ~ContainerMade' /\ ~AccountMade' /\ ~Created' /\ ~EndpointMade'
        /\ ~RecordMade'
    BY <2>1 DEF CallInv, RequestsOf, Created, EndpointMade, RecordMade, ContainerMade,
       AccountMade
  <2>4. BuiltInv'
    BY <1>1, <2>1, <2>2, <2>3 DEF BuiltInv
  <2> QED
    BY <1>1, <2>1, <2>3, <2>4 DEF RequestInv, NetworkInv, DeletedInv
<1>4. CASE Return("deleteBucket")
  <2>1. pc' = "deleteBucket" /\ call' = "DeleteAccount" /\ UNCHANGED obj
    BY <1>4 DEF Return, Goto, Entry
  <2> QED
    BY <1>1, <2>1 DEF RequestInv, CallInv, RequestsOf, BuiltInv, NetworkInv, DeletedInv,
       Creating, Created, EndpointMade, RecordMade, ContainerMade, AccountMade
<1> QED
  BY <1>2, <1>3, <1>4 DEF Decide, CheckFails, RequestFails, ReturnError, Finish, Retry

\* CheckNameAvailability and the lookup of the container: where the name of the
\* account is available there is no container.
LEMMA ExistsBucketKept ==
  ASSUME LoopTypeOK, CloudOK, RequestInv, CheckNameAvailability \/ ExistsContainer,
         UNCHANGED <<secrets, private>>, CacheStep
  PROVE  CloudOK' /\ RequestInv'
<1>1. pc \in {"exists", "existsDelete"} /\ UNCHANGED azureVars
  BY CallStep DEF CheckNameAvailability, ExistsContainer, RequestInv
<1>2. Name \in Names
  BY <1>1, Target
<1>3. CASE call = "CheckNameAvailability" /\ Ask("GetContainer")
  <2>1. call' = "GetContainer" /\ UNCHANGED <<pc, obj, local>>
    BY <1>3 DEF Ask, workerVars
  <2>2. CloudOK' /\ Contained' /\ KnownFree'
    BY <1>1, <2>1, CloudStays DEF CloudOK
  <2> QED
    BY <1>1, <2>1, <2>2 DEF RequestInv, CallInv, RequestsOf, BuiltInv, NetworkInv,
       DeletedInv, Creating, Created, EndpointMade, RecordMade, ContainerMade, AccountMade
<1>4. ASSUME ~Unavailable PROVE FALSE = TheContainer.exists
  <2>1. ~accounts[AccountOf[Name]].exists
    BY <1>4 DEF Unavailable, Account
  <2>2. ~containers[Name].exists
    BY <1>2, <2>1 DEF RequestInv, BuiltInv, Contained
  <2>3. TheContainer.exists \in BOOLEAN
    BY <1>1, Target DEF ContainerRecord
  <2> QED
    BY <2>2, <2>3 DEF TheContainer
<1>5. \/ call = "CheckNameAvailability" /\ Ask("GetContainer")
      \/ ~Unavailable /\ Decide(FALSE)
      \/ Decide(TheContainer.exists)
      \/ CheckFails
  BY DEF CheckNameAvailability, ExistsContainer, TheContainer
<1>6. CASE ~Unavailable /\ Decide(FALSE)
  BY <1>1, <1>4, <1>6, DecideKept
<1>7. CASE Decide(TheContainer.exists) \/ CheckFails
  BY <1>1, <1>7, DecideKept
<1> QED
  BY <1>3, <1>5, <1>6, <1>7

\* A request that fails, whatever it did to the cloud.
LEMMA FailureKept ==
  ASSUME ReturnError, Contained', KnownFree'
  PROVE  RequestInv'
<1>1. pc' = "idle" /\ call' = "none"
  BY DEF ReturnError, Retry
<1> QED
  BY <1>1, Ended DEF Entry

\* A change of one account.
LEMMA AccountSet ==
  ASSUME accounts \in [Accounts -> AccountRecord], NEW a \in Accounts,
         NEW c \in AccountRecord, accounts' = [accounts EXCEPT ![a] = c]
  PROVE  /\ accounts' \in [Accounts -> AccountRecord] /\ accounts'[a] = c
         /\ \A x \in Accounts : x # a => accounts'[x] = accounts[x]
OBVIOUS

\* The mode of the cluster is read.
LEMMA ReadModeKept ==
  ASSUME LoopTypeOK, CloudOK, RequestInv, IsManagementClusterPrivate,
         UNCHANGED <<secrets, private>>, CacheStep
  PROVE  CloudOK' /\ RequestInv'
<1>1. Creating /\ call = "GetUserValues"
  BY CallStep DEF IsManagementClusterPrivate, RequestInv
<1>2. /\ UNCHANGED azureVars
      /\ local' \in {"none", "public", "private"}
      /\ \/ call' = "CreateAccount" /\ UNCHANGED <<pc, obj>>
         \/ ReturnError
  BY DEF IsManagementClusterPrivate, RequestFails, ReturnError, workerVars
<1>3. CloudOK' /\ Contained' /\ KnownFree'
  BY <1>2, CloudStays
<1>4. CASE call' = "CreateAccount" /\ UNCHANGED <<pc, obj>>
  <2>1. /\ ~ContainerMade' /\ ~AccountMade' /\ ~Created' /\ ~EndpointMade'
        /\ ~RecordMade' /\ ~ContainerMade /\ CallInv'
    BY <1>1, <1>4 DEF Creating, Created, EndpointMade, RecordMade, ContainerMade,
       AccountMade, CallInv, RequestsOf
  <2>2. TheContainer' = TheContainer
    BY <1>2, <1>4 DEF TheContainer, Name, azureVars
  <2> QED
    BY <1>1, <1>3, <1>4, <2>1, <2>2 DEF RequestInv, BuiltInv, NetworkInv, DeletedInv,
       Creating
<1> QED
  BY <1>2, <1>3, <1>4, FailureKept

\* The account is created or updated, closed to the public if the mode says so.
LEMMA UpsertStorageAccountKept ==
  ASSUME LoopTypeOK, CloudOK, RequestInv, UpsertStorageAccount,
         UNCHANGED <<secrets, private>>, CacheStep
  PROVE  CloudOK' /\ RequestInv'
<1>1. Creating /\ call = "CreateAccount" /\ pc # "idle"
  BY CallStep DEF UpsertStorageAccount, RequestInv, Creating
<1>2. /\ Name \in Names /\ Account \in Accounts /\ obj.spec.tags \in TagSets
      /\ TheAccount \in AccountRecord
  BY <1>1, Target
<1>3. KnownFree' /\ known' \in [Names -> SecretStates]
  BY SecretsStay DEF RequestInv, DeletedInv
<1>4. CASE ReturnError /\ UNCHANGED azureVars
  <2>1. local' = "none"
    BY <1>4 DEF ReturnError
  <2> QED
    BY <1>4, <2>1, CloudStays, FailureKept
<1>5. CASE /\ accounts' = [accounts EXCEPT ![Account].exists = TRUE,
                                           ![Account].closed = (local = "private"),
                                           ![Account].tags = obj.spec.tags]
           /\ UNCHANGED <<taken, containers, endpoints, records>>
           /\ Ask("UpsertContainer") \/ ReturnError
  <2>0. PICK c \in AccountRecord :
           /\ accounts' = [accounts EXCEPT ![Account] = c]
           /\ c.exists = TRUE /\ c.closed = (local = "private")
           /\ c.tags = obj.spec.tags
    <3>1. PICK b \in BOOLEAN : b = (local = "private")
      OBVIOUS
    <3>2. PICK r \in AccountRecord : r = accounts[Account]
      BY <1>2 DEF TheAccount
    <3>3. PICK t \in TagSets : t = obj.spec.tags
      BY <1>2
    <3> DEFINE c == [r EXCEPT !.exists = TRUE, !.closed = b, !.tags = t]
    <3>4. accounts' = [accounts EXCEPT ![Account] = c]
      BY <1>5, <3>1, <3>2, <3>3
    <3>5. c \in AccountRecord /\ c.exists = TRUE /\ c.closed = b /\ c.tags = t
      BY DEF AccountRecord
    <3> QED
      BY <3>1, <3>3, <3>4, <3>5
  <2>1. /\ accounts' \in [Accounts -> AccountRecord] /\ accounts'[Account] = c
        /\ \A x \in Accounts : x # Account => accounts'[x] = accounts[x]
    BY <1>2, <2>0, AccountSet DEF CloudOK
  <2>2. Contained'
    BY <1>5, <2>0, <2>1, InAccount DEF RequestInv, BuiltInv, Contained
  <2>3. local' = local \/ local' = "none"
    BY <1>5 DEF Ask, ReturnError
  <2>4. CloudOK'
    BY <1>3, <1>5, <2>1, <2>3 DEF CloudOK
  <2>5. CASE Ask("UpsertContainer")
    <3>1. call' = "UpsertContainer" /\ UNCHANGED <<pc, obj, local>>
      BY <2>5 DEF Ask, workerVars
    <3>2. /\ ~ContainerMade' /\ ~Created' /\ ~EndpointMade'
          /\ ~RecordMade' /\ ~ContainerMade /\ CallInv'
      BY <1>1, <3>1 DEF Creating, Created, EndpointMade, RecordMade, ContainerMade,
         AccountMade, CallInv, RequestsOf
    <3>3. TheContainer' = TheContainer /\ Name' = Name /\ Account' = Account
          /\ TheAccount' = accounts'[Account]
      BY <1>5, <3>1 DEF TheContainer, Name, Account, TheAccount
    <3>4. BuiltInv'
      BY <1>1, <2>0, <2>1, <2>2, <3>1, <3>2, <3>3 DEF RequestInv, BuiltInv
    <3>5. NetworkInv'
      BY <1>1, <2>0, <2>1, <3>1, <3>2, <3>3 DEF NetworkInv
    <3> QED
      BY <1>1, <1>3, <2>4, <3>1, <3>2, <3>4, <3>5 DEF RequestInv, DeletedInv, Creating
  <2> QED
    BY <1>3, <1>5, <2>2, <2>4, <2>5, FailureKept
<1> QED
  BY <1>4, <1>5 DEF UpsertStorageAccount, AzureRequest, RequestFails

\* The container is created, or its metadata set.
LEMMA UpsertContainerKept ==
  ASSUME LoopTypeOK, CloudOK, RequestInv, UpsertContainer,
         UNCHANGED <<secrets, private>>, CacheStep
  PROVE  CloudOK' /\ RequestInv'
<1>1. Creating /\ call = "UpsertContainer" /\ pc # "idle" /\ AccountMade
  BY CallStep DEF UpsertContainer, RequestInv, Creating, AccountMade
<1>2. /\ Name \in Names /\ Account \in Accounts /\ obj.spec.tags \in TagSets
      /\ TheAccount \in AccountRecord
  BY <1>1, Target
<1>3. KnownFree' /\ known' \in [Names -> SecretStates]
  BY SecretsStay DEF RequestInv, DeletedInv
<1>4. CASE ReturnError /\ UNCHANGED azureVars
  <2>1. local' = "none"
    BY <1>4 DEF ReturnError
  <2> QED
    BY <1>4, <2>1, CloudStays, FailureKept
<1>5. CASE /\ containers' = [containers EXCEPT ![Name] = [exists |-> TRUE,
                                                          tags |-> obj.spec.tags]]
           /\ UNCHANGED <<taken, accounts, endpoints, records>>
           /\ \/ Ask(IF local = "private" THEN "PutEndpoint" ELSE "ListKeys")
              \/ ReturnError
  <2>1. PICK c \in ContainerRecord : /\ c.exists = TRUE /\ c.tags = obj.spec.tags
                                     /\ containers' = [containers EXCEPT ![Name] = c]
    BY <1>2, <1>5 DEF ContainerRecord
  <2>2. /\ containers' \in [Names -> ContainerRecord] /\ containers'[Name] = c
        /\ \A n \in Names : n # Name => containers'[n] = containers[n]
    BY <1>2, <2>1 DEF CloudOK
  <2>3. TheAccount.exists /\ TheAccount.tags = obj.spec.tags
    BY <1>1 DEF RequestInv, BuiltInv
  <2>4. Contained'
    BY <1>5, <2>2, <2>3 DEF RequestInv, BuiltInv, Contained, TheAccount, Account
  <2>5. local' = local \/ local' = "none"
    BY <1>5 DEF Ask, ReturnError
  <2>6. CloudOK'
    BY <1>3, <1>5, <2>2, <2>5 DEF CloudOK
  <2>7. CASE Ask(IF local = "private" THEN "PutEndpoint" ELSE "ListKeys")
    <3>1. /\ call' = IF local = "private" THEN "PutEndpoint" ELSE "ListKeys"
          /\ UNCHANGED <<pc, obj, local>>
      BY <2>7 DEF Ask, workerVars
    <3>2. /\ ContainerMade' /\ ~Created' /\ CallInv'
          /\ EndpointMade' \/ RecordMade' => local # "private"
      BY <1>1, <3>1 DEF Creating, Created, EndpointMade, RecordMade, ContainerMade,
         AccountMade, CallInv, RequestsOf
    <3>3. TheContainer' = c /\ Name' = Name /\ Account' = Account
          /\ TheAccount' = TheAccount
      BY <1>5, <2>2, <3>1 DEF TheContainer, Name, Account, TheAccount
    <3>4. BuiltInv'
      BY <2>1, <2>3, <2>4, <3>1, <3>2, <3>3 DEF BuiltInv
    <3>5. NetworkInv'
      BY <1>1, <3>1, <3>2, <3>3 DEF RequestInv, NetworkInv, Creating
    <3> QED
      BY <1>1, <1>3, <2>6, <3>1, <3>2, <3>4, <3>5 DEF RequestInv, DeletedInv, Creating
  <2> QED
    BY <1>3, <1>5, <2>4, <2>6, <2>7, FailureKept
<1> QED
  BY <1>4, <1>5 DEF UpsertContainer, AzureRequest, RequestFails

\* The private endpoint, the A record and the keys.
LEMMA NetworkKept ==
  ASSUME LoopTypeOK, CloudOK, RequestInv,
         UpsertPrivateEndpoint \/ UpsertPrivateEndpointARecords \/ ListKeys,
         UNCHANGED <<secrets, private>>, CacheStep
  PROVE  CloudOK' /\ RequestInv'
<1>1. Creating /\ call \in {"PutEndpoint", "PutRecord", "ListKeys"} /\ pc # "idle"
  BY CallStep DEF UpsertPrivateEndpoint, UpsertPrivateEndpointARecords, ListKeys,
     RequestInv, Creating
<1>2. Name \in Names /\ Account \in Accounts
  BY <1>1, Target
<1>3. KnownFree' /\ known' \in [Names -> SecretStates]
  BY SecretsStay DEF RequestInv, DeletedInv
<1>4. /\ UNCHANGED <<taken, accounts, containers>>
      /\ endpoints' \in {endpoints, endpoints \cup {Name}}
      /\ records' \in {records, records \cup {Account}}
      /\ \/ ReturnError
         \/ call = "PutEndpoint" /\ Ask("PutRecord") /\ Name \in endpoints'
         \/ call = "PutRecord" /\ Ask("ListKeys") /\ Account \in records'
         \/ call = "ListKeys" /\ Ask("GetSecret")
  BY DEF UpsertPrivateEndpoint, UpsertPrivateEndpointARecords, ListKeys, AzureRequest,
     RequestFails, azureVars
<1>5. CloudOK' /\ Contained'
  <2>1. local' = local \/ local' = "none"
    BY <1>4 DEF Ask, ReturnError
  <2>2. Contained'
    BY <1>4 DEF RequestInv, BuiltInv, Contained
  <2>3. endpoints' \subseteq Names /\ records' \subseteq Accounts
    BY <1>2, <1>4 DEF CloudOK
  <2> QED
    BY <1>3, <1>4, <2>1, <2>2, <2>3 DEF CloudOK
<1>6. CASE ~ReturnError
  <2>1. /\ UNCHANGED <<pc, obj, local>>
        /\ \/ call = "PutEndpoint" /\ call' = "PutRecord" /\ Name \in endpoints'
           \/ call = "PutRecord" /\ call' = "ListKeys" /\ Account \in records'
           \/ call = "ListKeys" /\ call' = "GetSecret"
    BY <1>4, <1>6 DEF Ask, workerVars
  <2>2. /\ UNCHANGED <<Name, Account, TheAccount, TheContainer>>
        /\ endpoints \subseteq endpoints' /\ records \subseteq records'
    BY <1>4, <2>1 DEF Name, Account, TheAccount, TheContainer
  <2>3. /\ ContainerMade /\ ContainerMade' /\ AccountMade /\ ~Created' /\ CallInv'
        /\ EndpointMade' => EndpointMade \/ call = "PutEndpoint"
        /\ RecordMade' => RecordMade \/ call = "PutRecord"
    BY <1>1, <2>1 DEF Creating, Created, EndpointMade, RecordMade, ContainerMade,
       AccountMade, CallInv, RequestsOf
  <2>4. BuiltInv'
    BY <1>5, <2>1, <2>2, <2>3 DEF RequestInv, BuiltInv
  <2>5. NetworkInv'
    BY <1>1, <2>1, <2>2, <2>3 DEF RequestInv, NetworkInv
  <2> QED
    BY <1>1, <1>3, <1>5, <2>1, <2>3, <2>4, <2>5 DEF RequestInv, DeletedInv, Creating
<1> QED
  BY <1>3, <1>5, <1>6, FailureKept

\* A change of the Secret of the bucket at hand, which its cached copy, if without
\* finalizer, does not contradict.
LEMMA SecretSet ==
  ASSUME CloudOK, KnownFree, Name \in Names, NEW v \in SecretStates,
         secrets' \in {secrets, [secrets EXCEPT ![Name] = v]}, CacheStep,
         known[Name] = "free" => v \in {"free", "none"}
  PROVE  /\ secrets' \in [Names -> SecretStates] /\ known' \in [Names -> SecretStates]
         /\ KnownFree'
         /\ \A n \in Names : n # Name => secrets'[n] = secrets[n]
<1>1. /\ secrets' \in [Names -> SecretStates]
      /\ \A n \in Names : n # Name => secrets'[n] = secrets[n]
      /\ secrets'[Name] = secrets[Name] \/ secrets'[Name] = v
  BY DEF CloudOK
<1>2. known' = known \/ known' = secrets'
  BY DEF CacheStep
<1> QED
  BY <1>1, <1>2 DEF CloudOK, KnownFree, Unheld

\* The Secret is created or updated, and CreateBucket is done.
LEMMA UpsertSecretKept ==
  ASSUME LoopTypeOK, CloudOK, RequestInv, UpsertSecret, UNCHANGED private, CacheStep
  PROVE  CloudOK' /\ RequestInv'
<1>1. Creating /\ call = "GetSecret" /\ pc # "idle" /\ UNCHANGED azureVars
  BY DEF UpsertSecret, Creating
<1>2. Name \in Names /\ secrets[Name] \in SecretStates
  BY <1>1, Target
<1> DEFINE v == IF secrets[Name] = "none" THEN "held" ELSE secrets[Name]
<1>3. /\ secrets' \in {secrets, [secrets EXCEPT ![Name] = v]}
      /\ ReturnError \/ Return("configure")
      /\ secrets' = secrets \/ ((known[Name] = "none") = (secrets[Name] = "none"))
  BY DEF UpsertSecret, SecretRequest, RequestFails
<1>4. /\ secrets' \in [Names -> SecretStates] /\ known' \in [Names -> SecretStates]
      /\ KnownFree'
  <2>1. CASE secrets' = secrets
    BY <2>1, SecretsStay DEF RequestInv, DeletedInv, CloudOK
  <2>2. CASE (known[Name] = "none") = (secrets[Name] = "none")
    <3>1. v \in SecretStates
      BY <1>2 DEF SecretStates
    <3>2. known[Name] = "free" => v \in {"free", "none"}
      BY <1>2, <2>2 DEF RequestInv, DeletedInv, KnownFree, Unheld
    <3> HIDE DEF v
    <3> QED
      BY <1>2, <1>3, <3>1, <3>2, SecretSet DEF RequestInv, DeletedInv
  <2> QED
    BY <1>3, <2>1, <2>2
<1>5. CloudOK' /\ Contained'
  <2>1. local' = "none"
    BY <1>3 DEF Return, ReturnError
  <2>2. Contained'
    BY <1>1 DEF RequestInv, BuiltInv, Contained, azureVars
  <2> QED
    BY <1>1, <1>4, <2>1, <2>2 DEF CloudOK, azureVars
<1>6. CASE Return("configure")
  <2>1. pc' = "configure" /\ call' = "PutManagementPolicy" /\ UNCHANGED obj
    BY <1>6 DEF Return, Goto, Entry
  <2>2. /\ UNCHANGED <<Name, Account, TheAccount, TheContainer, endpoints, records>>
    BY <1>1, <2>1 DEF Name, Account, TheAccount, TheContainer, azureVars
  <2>3. /\ ContainerMade /\ AccountMade /\ EndpointMade /\ RecordMade /\ Creating
        /\ CallInv'
    BY <1>1, <2>1 DEF Creating, EndpointMade, RecordMade, ContainerMade, AccountMade,
       CallInv, RequestsOf
  <2>4. BuiltInv'
    BY <1>5, <2>1, <2>2, <2>3 DEF RequestInv, BuiltInv
  <2>5. Reachable(Name)'
    BY <2>2, <2>3 DEF RequestInv, NetworkInv, Reachable, TheAccount, Account
  <2>6. NetworkInv'
    BY <2>1, <2>5 DEF NetworkInv, Creating, EndpointMade, RecordMade
  <2> QED
    BY <1>4, <1>5, <2>1, <2>3, <2>4, <2>6 DEF RequestInv, DeletedInv
<1> QED
  BY <1>3, <1>4, <1>5, <1>6, FailureKept

\* The management policy is set; nothing else of the account changes.
LEMMA SetLifecycleRulesKept ==
  ASSUME LoopTypeOK, CloudOK, RequestInv, SetLifecycleRules,
         UNCHANGED <<secrets, private>>, CacheStep
  PROVE  CloudOK' /\ RequestInv'
<1>1. pc = "configure" /\ Created
  BY CallStep DEF SetLifecycleRules, RequestInv, Created
<1>2. /\ Name \in Names /\ Account \in Accounts /\ TheAccount \in AccountRecord
      /\ obj.spec.expiration \in Expirations
  BY <1>1, Target
<1>3. KnownFree' /\ known' \in [Names -> SecretStates]
  BY SecretsStay DEF RequestInv, DeletedInv
<1>4. CASE ReturnError /\ UNCHANGED azureVars
  <2>1. local' = "none"
    BY <1>4 DEF ReturnError
  <2> QED
    BY <1>4, <2>1, CloudStays, FailureKept
<1>5. CASE /\ accounts' = [accounts EXCEPT ![Account].policy =
                 IF obj.spec.expiration = NoExpiration THEN @ ELSE obj.spec.expiration]
           /\ UNCHANGED <<taken, containers, endpoints, records>>
           /\ Return("status") \/ ReturnError
  <2>1. PICK c \in AccountRecord :
           /\ accounts' = [accounts EXCEPT ![Account] = c]
           /\ c.exists = TheAccount.exists /\ c.closed = TheAccount.closed
           /\ c.tags = TheAccount.tags
    <3>1. PICK r \in AccountRecord : r = accounts[Account]
      BY <1>2 DEF TheAccount
    <3>2. PICK e \in Expirations :
             accounts' = [accounts EXCEPT ![Account].policy = e]
      BY <1>2, <1>5, <3>1 DEF AccountRecord
    <3> DEFINE c == [r EXCEPT !.policy = e]
    <3>3. accounts' = [accounts EXCEPT ![Account] = c]
      BY <3>1, <3>2
    <3>4. /\ c \in AccountRecord /\ c.exists = r.exists /\ c.closed = r.closed
          /\ c.tags = r.tags
      BY DEF AccountRecord
    <3> QED
      BY <3>1, <3>3, <3>4 DEF TheAccount
  <2>2. /\ accounts' \in [Accounts -> AccountRecord] /\ accounts'[Account] = c
        /\ \A x \in Accounts : x # Account => accounts'[x] = accounts[x]
    BY <1>2, <2>1, AccountSet DEF CloudOK
  <2>3. Contained'
    BY <1>5, <2>1, <2>2, InAccount DEF RequestInv, BuiltInv, Contained, TheAccount
  <2>4. local' = "none"
    BY <1>5 DEF Return, ReturnError
  <2>5. CloudOK'
    BY <1>3, <1>5, <2>2, <2>4 DEF CloudOK
  <2>6. CASE Return("status")
    <3>1. pc' = "status" /\ call' = "none" /\ UNCHANGED obj
      BY <2>6 DEF Return, Goto, Entry
    <3>2. /\ UNCHANGED <<Name, Account, TheContainer>> /\ TheAccount' = c
      BY <1>5, <2>2, <3>1 DEF Name, Account, TheAccount, TheContainer
    <3>3. CallInv' /\ Created' /\ ContainerMade /\ AccountMade
      BY <1>1, <3>1 DEF CallInv, RequestsOf, Created, ContainerMade, AccountMade
    <3>4. BuiltInv'
      BY <2>1, <2>3, <3>1, <3>2, <3>3 DEF RequestInv, BuiltInv
    <3>5. Reachable(Name)'
      BY <1>1, <1>5, <2>1, <3>2 DEF RequestInv, NetworkInv, Reachable, TheAccount, Account
    <3>6. NetworkInv'
      BY <3>1, <3>5 DEF NetworkInv, Creating, EndpointMade, RecordMade
    <3> QED
      BY <1>3, <2>5, <3>1, <3>3, <3>4, <3>6 DEF RequestInv, DeletedInv
  <2> QED
    BY <1>3, <1>5, <2>3, <2>5, <2>6, FailureKept
<1> QED
  BY <1>4, <1>5 DEF SetLifecycleRules, AzureRequest, RequestFails

\* The account goes, and with it its containers.
LEMMA DeleteStorageAccountKept ==
  ASSUME LoopTypeOK, CloudOK, RequestInv, DeleteStorageAccount,
         UNCHANGED <<secrets, private>>, CacheStep
  PROVE  CloudOK' /\ RequestInv'
<1>1. pc = "deleteBucket"
  BY CallStep DEF DeleteStorageAccount, RequestInv
<1>2. Name \in Names /\ Account \in Accounts
  BY <1>1, Target
<1>3. KnownFree' /\ known' \in [Names -> SecretStates]
  BY SecretsStay DEF RequestInv, DeletedInv
<1>4. CASE ReturnError /\ UNCHANGED azureVars
  <2>1. local' = "none"
    BY <1>4 DEF ReturnError
  <2> QED
    BY <1>4, <2>1, CloudStays, FailureKept
<1>5. CASE /\ accounts' = [accounts EXCEPT ![Account] = NoAccount]
           /\ containers' = [n \in Names |-> IF AccountOf[n] = Account
                                             THEN NoContainer ELSE containers[n]]
           /\ UNCHANGED <<taken, endpoints, records>>
           /\ Ask("GetSecret") \/ ReturnError
  <2>1. /\ NoAccount \in AccountRecord /\ NoAccount.exists = FALSE
        /\ NoContainer \in ContainerRecord /\ NoContainer.exists = FALSE
    BY AzureAssumption DEF NoAccount, NoContainer, AccountRecord, ContainerRecord
  <2>2. /\ accounts' \in [Accounts -> AccountRecord] /\ accounts'[Account] = NoAccount
        /\ \A x \in Accounts : x # Account => accounts'[x] = accounts[x]
    BY <1>2, <1>5, <2>1, AccountSet DEF CloudOK
  <2>3. containers' \in [Names -> ContainerRecord]
    BY <1>5, <2>1 DEF CloudOK
  <2>4. Contained'
    <3>1. ASSUME NEW n \in Names, containers'[n].exists
          PROVE  accounts'[AccountOf[n]].exists
      <4>1. AccountOf[n] # Account /\ containers[n].exists
        BY <1>5, <2>1, <3>1
      <4>2. accounts[AccountOf[n]].exists
        BY <4>1 DEF RequestInv, BuiltInv, Contained
      <4> QED
        BY <2>2, <4>1, <4>2, InAccount
    <3> QED
      BY <3>1 DEF Contained
  <2>5. local' = local \/ local' = "none"
    BY <1>5 DEF Ask, ReturnError
  <2>6. CloudOK'
    BY <1>3, <1>5, <2>2, <2>3, <2>5 DEF CloudOK
  <2>7. CASE Ask("GetSecret")
    <3>1. call' = "GetSecret" /\ UNCHANGED <<pc, obj>>
      BY <2>7 DEF Ask, workerVars
    <3>2. TheAccount' = NoAccount
      BY <2>2, <3>1 DEF TheAccount, Account, Name
    <3>3. CallInv'
      BY <1>1, <3>1 DEF CallInv, RequestsOf
    <3>4. BuiltInv' /\ NetworkInv'
      BY <1>1, <2>4, <3>1 DEF BuiltInv, NetworkInv, Creating, Created, EndpointMade,
         RecordMade, ContainerMade, AccountMade
    <3> QED
      BY <1>1, <1>3, <2>1, <2>6, <3>1, <3>2, <3>3, <3>4 DEF RequestInv, DeletedInv
  <2> QED
    BY <1>3, <1>5, <2>4, <2>6, <2>7, FailureKept
<1> QED
  BY <1>4, <1>5 DEF DeleteStorageAccount, AzureRequest, RequestFails

\* The Secret loses its finalizer, if the copy read has it, and goes.
LEMMA DeletingSecretKept ==
  ASSUME LoopTypeOK, CloudOK, RequestInv, GetSecret \/ PatchSecret \/ DeleteSecret,
         UNCHANGED private, CacheStep
  PROVE  CloudOK' /\ RequestInv'
<1>1. /\ pc = "deleteBucket" /\ UNCHANGED azureVars
      /\ call \in {"GetSecret", "PatchSecret", "DeleteSecret"}
  BY CallStep DEF GetSecret, PatchSecret, DeleteSecret, RequestInv
<1>2. /\ Name \in Names /\ secrets[Name] \in SecretStates
      /\ known[Name] \in SecretStates
  BY <1>1, Target
<1>3. Contained'
  BY <1>1 DEF RequestInv, BuiltInv, Contained, azureVars
<1>4. ~TheAccount.exists
  BY <1>1 DEF RequestInv, DeletedInv
<1>5. ASSUME UNCHANGED <<pc, obj>>, call' \in {"PatchSecret", "DeleteSecret"},
             KnownFree', call' = "DeleteSecret" \/ local' = "free" => Unheld(Name)'
      PROVE  RequestInv'
  <2>1. CallInv'
    BY <1>1, <1>5 DEF CallInv, RequestsOf
  <2>2. BuiltInv' /\ NetworkInv'
    BY <1>1, <1>3, <1>5 DEF BuiltInv, NetworkInv, Creating, Created, EndpointMade,
       RecordMade, ContainerMade, AccountMade
  <2>3. TheAccount' = TheAccount
    BY <1>1, <1>5 DEF TheAccount, Account, Name, azureVars
  <2> QED
    BY <1>1, <1>4, <1>5, <2>1, <2>2, <2>3 DEF RequestInv, DeletedInv
<1>6. CASE GetSecret
  <2>1. /\ UNCHANGED secrets
        /\ \/ call' = "PatchSecret" /\ local' = known[Name] /\ UNCHANGED <<pc, obj>>
           \/ ReturnError
    BY <1>6 DEF GetSecret, workerVars
  <2>2. local' \in {"none", "public", "private"} \cup SecretStates
    BY <1>2, <2>1 DEF ReturnError
  <2>3. CloudOK' /\ KnownFree'
    BY <1>1, <2>1, <2>2, CloudStays
  <2>4. CASE call' = "PatchSecret" /\ local' = known[Name] /\ UNCHANGED <<pc, obj>>
    <3>1. local' = "free" => Unheld(Name)'
      BY <1>2, <2>1, <2>4 DEF RequestInv, DeletedInv, KnownFree, Unheld, Name
    <3> QED
      BY <1>5, <2>3, <2>4, <3>1
  <2> QED
    BY <1>3, <2>1, <2>3, <2>4, FailureKept
<1>7. ASSUME NEW v \in {"free", "none"},
             secrets' \in {secrets, [secrets EXCEPT ![Name] = v]},
             local' = local \/ local' = "none"
      PROVE  CloudOK' /\ KnownFree'
  <2>1. /\ secrets' \in [Names -> SecretStates] /\ known' \in [Names -> SecretStates]
        /\ KnownFree'
    BY <1>2, <1>7, SecretSet DEF RequestInv, DeletedInv, SecretStates
  <2> QED
    BY <1>1, <1>7, <2>1 DEF CloudOK, azureVars
<1>8. CASE PatchSecret
  <2> DEFINE v == IF local = "free" THEN secrets[Name] ELSE Released(secrets[Name])
  <2>1. /\ secrets' \in {secrets, [secrets EXCEPT ![Name] = v]}
        /\ \/ secrets' = [secrets EXCEPT ![Name] = v] /\ Ask("DeleteSecret")
           \/ ReturnError
    BY <1>8 DEF PatchSecret, SecretRequest, RequestFails
  <2>2. v \in {"free", "none"}
    <3>1. local = "free" => secrets[Name] \in {"free", "none"}
      BY <1>8 DEF PatchSecret, RequestInv, DeletedInv, Unheld
    <3> QED
      BY <1>2, <3>1 DEF Released, SecretStates
  <2> HIDE DEF v
  <2>3. CloudOK' /\ KnownFree'
    <3>1. local' = local \/ local' = "none"
      BY <2>1 DEF Ask, ReturnError
    <3> QED
      BY <1>7, <2>1, <2>2, <3>1
  <2>4. CASE secrets' = [secrets EXCEPT ![Name] = v] /\ Ask("DeleteSecret")
    <3>1. call' = "DeleteSecret" /\ UNCHANGED <<pc, obj>>
      BY <2>4 DEF Ask, workerVars
    <3>2. Unheld(Name)'
      BY <1>2, <2>2, <2>4, <3>1 DEF Unheld, Name, CloudOK
    <3> QED
      BY <1>5, <2>3, <3>1, <3>2
  <2> QED
    BY <1>3, <2>1, <2>3, <2>4, FailureKept
<1>9. CASE DeleteSecret
  <2>1. Unheld(Name)
    BY <1>9 DEF DeleteSecret, RequestInv, DeletedInv
  <2>2. /\ secrets' \in {secrets, [secrets EXCEPT ![Name] = "none"]}
        /\ \/ /\ secrets' = [secrets EXCEPT ![Name] = "none"]
              /\ Return(IF obj.spec.role = NoRole THEN "release" ELSE "deleteRole")
           \/ ReturnError
    BY <1>9, <2>1 DEF DeleteSecret, SecretRequest, RequestFails, Deleted, Unheld
  <2>3. CloudOK' /\ KnownFree'
    <3>1. local' = "none"
      BY <2>2 DEF Return, ReturnError
    <3> QED
      BY <1>7, <2>2, <3>1
  <2>4. CASE /\ secrets' = [secrets EXCEPT ![Name] = "none"]
             /\ Return(IF obj.spec.role = NoRole THEN "release" ELSE "deleteRole")
    <3>1. /\ pc' = IF obj.spec.role = NoRole THEN "release" ELSE "deleteRole"
          /\ call' = "none" /\ UNCHANGED obj
      BY <2>4 DEF Return, Goto, Entry
    <3>2. TheAccount' = TheAccount /\ secrets'[Name'] = "none"
      BY <1>1, <1>2, <2>4, <3>1 DEF TheAccount, Account, Name, azureVars, CloudOK
    <3>3. CallInv'
      BY <3>1 DEF CallInv, RequestsOf
    <3>4. BuiltInv' /\ NetworkInv'
      BY <1>3, <3>1 DEF BuiltInv, NetworkInv, Creating, Created, EndpointMade,
         RecordMade, ContainerMade, AccountMade
    <3> QED
      BY <1>4, <2>3, <3>1, <3>2, <3>3, <3>4 DEF RequestInv, DeletedInv
  <2> QED
    BY <1>3, <2>2, <2>3, <2>4, FailureKept
<1> QED
  BY <1>6, <1>8, <1>9

\* The access role service, which does nothing.
LEMMA RoleKept ==
  ASSUME LoopTypeOK, CloudOK, RequestInv, ConfigureRole \/ DeleteRole,
         UNCHANGED <<secrets, private>>, CacheStep
  PROVE  CloudOK' /\ RequestInv'
<1>1. /\ UNCHANGED azureVars
      /\ local' = local \/ local' = "none"
      /\ \/ pc' = "idle" /\ call' = call /\ pc = "role"
         \/ /\ pc' = "release" /\ call' = "none" /\ pc = "deleteRole"
            /\ UNCHANGED obj
  BY DEF ConfigureRole, DeleteRole, Return, Goto, Entry, Finish
<1>2. CloudOK' /\ Contained' /\ KnownFree'
  BY <1>1, CloudStays DEF CloudOK
<1>3. call = "none"
  BY <1>1, CallStep DEF RequestInv
<1>4. CASE pc' = "idle" /\ call' = call
  BY <1>2, <1>3, <1>4, Ended DEF Entry
<1>5. CASE pc' = "release" /\ call' = "none" /\ pc = "deleteRole" /\ UNCHANGED obj
  <2>1. TheAccount' = TheAccount /\ secrets'[Name'] = secrets[Name]
    BY <1>1, <1>5 DEF TheAccount, Account, Name, azureVars
  <2>2. CallInv'
    BY <1>5 DEF CallInv, RequestsOf
  <2>3. BuiltInv' /\ NetworkInv'
    BY <1>2, <1>5 DEF BuiltInv, NetworkInv, Creating, Created, EndpointMade,
       RecordMade, ContainerMade, AccountMade
  <2> QED
    BY <1>2, <1>5, <2>1, <2>2, <2>3 DEF RequestInv, DeletedInv
<1> QED
  BY <1>1, <1>4, <1>5

\* What others do to Secrets, to names of accounts and to the mode.
LEMMA OutsideKept ==
  ASSUME LoopTypeOK, CloudOK, RequestInv,
         \/ \E n \in Names : SecretWatch(n) \/ SecretDelete(n)
         \/ \E a \in Accounts : Claim(a)
         \/ SwitchMode
  PROVE  /\ UNCHANGED <<loopVars, accounts, containers, endpoints, records>>
         /\ CloudOK' /\ RequestInv'
<1>1. /\ UNCHANGED <<loopVars, accounts, containers, endpoints, records, call, local>>
      /\ taken' \subseteq Accounts /\ private' \in BOOLEAN
  BY DEF SecretWatch, SecretDelete, Claim, SwitchMode, CloudOK, azureVars
<1>2. /\ secrets' \in [Names -> SecretStates] /\ known' \in [Names -> SecretStates]
      /\ KnownFree'
      /\ \A n \in Names : Unheld(n) => secrets'[n] \in {"free", "none"}
      /\ \A n \in Names : secrets[n] = "none" => secrets'[n] = "none"
  <2>1. CASE UNCHANGED secretVars
    BY <2>1 DEF CloudOK, RequestInv, DeletedInv, KnownFree, Unheld, secretVars
  <2>2. ASSUME NEW n \in Names, SecretWatch(n)
        PROVE  /\ UNCHANGED secrets /\ known' \in [Names -> SecretStates]
               /\ KnownFree'
    <3>1. UNCHANGED secrets /\ known' = [known EXCEPT ![n] = secrets[n]]
      BY <2>2 DEF SecretWatch
    <3> QED
      BY <3>1 DEF CloudOK, RequestInv, DeletedInv, KnownFree, Unheld
  <2>3. ASSUME NEW n \in Names, SecretDelete(n)
        PROVE  /\ secrets' \in [Names -> SecretStates]
               /\ known' \in [Names -> SecretStates] /\ KnownFree'
               /\ \A m \in Names : Unheld(m) => secrets'[m] \in {"free", "none"}
               /\ \A m \in Names : secrets[m] = "none" => secrets'[m] = "none"
    <3>1. PICK v \in {"marked", "none"} :
             /\ secrets' = [secrets EXCEPT ![n] = v] /\ secrets[n] \in {"held", "free"}
             /\ secrets[n] = "free" => v = "none"
      BY <2>3 DEF SecretDelete, Deleted
    <3>2. known' = known \/ known' = secrets'
      BY <2>3 DEF SecretDelete
    <3>3. /\ secrets' \in [Names -> SecretStates] /\ secrets'[n] = v
          /\ \A m \in Names : m # n => secrets'[m] = secrets[m]
      BY <3>1 DEF CloudOK, SecretStates
    <3>4. KnownFree
      BY DEF RequestInv, DeletedInv
    <3>5. /\ \A m \in Names : Unheld(m) => secrets'[m] \in {"free", "none"}
          /\ \A m \in Names : secrets[m] = "none" => secrets'[m] = "none"
      BY <3>1, <3>3 DEF Unheld
    <3>6. KnownFree'
      BY <3>2, <3>4, <3>5 DEF KnownFree, Unheld
    <3> QED
      BY <3>2, <3>3, <3>5, <3>6 DEF CloudOK
  <2>4. \A a \in Accounts : Claim(a) => UNCHANGED secretVars
    BY DEF Claim
  <2>5. SwitchMode => UNCHANGED secretVars
    BY DEF SwitchMode
  <2> QED
    BY <2>1, <2>2, <2>3, <2>4, <2>5 DEF CloudOK, Unheld
<1>3. CloudOK'
  BY <1>1, <1>2 DEF CloudOK
<1>4. UNCHANGED <<pc, obj, Name, Account, TheAccount, TheContainer>>
  BY <1>1 DEF loopVars, Name, Account, TheAccount, TheContainer
<1>5. CallInv' /\ BuiltInv'
  <2>1. UNCHANGED <<ContainerMade, AccountMade, Contained>>
    BY <1>1, <1>4 DEF ContainerMade, AccountMade, Contained, Created, EndpointMade, Creating
  <2> QED
    BY <1>1, <1>4, <2>1 DEF RequestInv, CallInv, BuiltInv
<1>6. NetworkInv'
  <2>1. /\ UNCHANGED <<Creating, Created, EndpointMade, RecordMade, AccountMade>>
        /\ Reachable(Name)' = Reachable(Name)
    BY <1>1, <1>4 DEF AccountMade, ContainerMade, Created, EndpointMade, RecordMade,
       Creating, Reachable
  <2> QED
    BY <1>1, <1>4, <2>1 DEF RequestInv, NetworkInv
<1>7. DeletedInv'
  <2>1. pc # "idle" => Name \in Names
    BY Target
  <2>2. call \in {"DeleteSecret", "PatchSecret"} => pc # "idle"
    BY CallStep DEF RequestInv
  <2>3. call \in {"DeleteSecret", "PatchSecret"} /\ Unheld(Name) => Unheld(Name)'
    BY <1>2, <1>4, <2>1, <2>2 DEF Unheld
  <2> QED
    BY <1>1, <1>2, <1>4, <2>1, <2>3 DEF RequestInv, DeletedInv
<1> QED
  BY <1>1, <1>3, <1>5, <1>6, <1>7 DEF RequestInv

\* How the steps of the loop that are no requests move the pass.
LEMMA LoopMoves ==
  ASSUME \/ Others \/ Crash \/ \E k \in Keys : Watch(k) \/ Begin(k)
         \/ ControllerStep
  PROVE  \/ UNCHANGED <<pc, obj>>
         \/ /\ pc' \in {"idle", "getCluster", "addFinalizer", "exists", "existsDelete"}
            /\ pc' = "idle" \/ pc' # pc
         \/ pc' = "role" /\ pc # "role" /\ obj'.spec.role # NoRole
<1>1. CASE Others
  BY <1>1 DEF Others, OthersAct, UserCreate, UserEdit, UserDelete, Hold, Release,
     Resync, Stabilize, workerVars
<1>2. CASE Crash
  BY <1>2 DEF Crash
<1>3. ASSUME NEW k \in Keys, Watch(k) PROVE UNCHANGED <<pc, obj>>
  BY <1>3 DEF Watch
<1>4. ASSUME NEW k \in Keys, Begin(k) PROVE pc = "idle" /\ pc' \in {"idle", "getCluster"}
  BY <1>4 DEF Begin
<1>5. CASE GetCluster
  BY <1>5 DEF GetCluster, Goto, Fail, Retry
<1>6. CASE AddFinalizer
  BY <1>6 DEF AddFinalizer, Goto, Fail, Retry
<1>7. CASE PatchStatus
  <2> DEFINE v == [api[req] EXCEPT
                     !.status.id = Merge(@, obj.status.id, obj.spec.name),
                     !.status.ready = Merge(@, obj.status.ready, TRUE)]
  <2>1. /\ pc = "status"
        /\ \/ pc' = "idle"
           \/ pc' = "role" /\ obj' = v /\ v.spec.role # NoRole
    BY <1>7 DEF PatchStatus, Goto, Fail, Retry, Finish
  <2> HIDE DEF v
  <2> QED
    BY <2>1
<1>8. CASE RemoveFinalizer
  BY <1>8 DEF RemoveFinalizer, Fail, Retry, Finish
<1> QED
  BY <1>1, <1>2, <1>3, <1>4, <1>5, <1>6, <1>7, <1>8 DEF ControllerStep

\* Every step keeps what the requests have established.
LEMMA KeptStep ==
  ASSUME LoopTypeOK, CloudOK, RequestInv, [Next]_vars
  PROVE  CloudOK' /\ RequestInv'
<1>1. CASE UNCHANGED vars
  <2>1. /\ UNCHANGED <<taken, accounts, containers, endpoints, records, secrets, known,
                       private, call, local, pc, obj>>
    BY <1>1 DEF vars, azureVars, secretVars, loopVars
  <2>2. CloudOK'
    BY <2>1 DEF CloudOK
  <2>3. UNCHANGED <<Creating, Created, EndpointMade, RecordMade, ContainerMade,
                    AccountMade, Name, Account, TheAccount, TheContainer, Contained,
                    KnownFree>>
    BY <2>1 DEF Creating, Created, EndpointMade, RecordMade, ContainerMade, AccountMade,
       Name, Account, TheAccount, TheContainer, Contained, KnownFree, Unheld
  <2>4. Reachable(Name)' = Reachable(Name) /\ Unheld(Name)' = Unheld(Name)
    BY <2>1, <2>3 DEF Reachable, Unheld
  <2>5. CallInv' /\ BuiltInv'
    BY <2>1, <2>3 DEF RequestInv, CallInv, BuiltInv
  <2>6. NetworkInv' /\ DeletedInv'
    BY <2>1, <2>3, <2>4 DEF RequestInv, NetworkInv, DeletedInv
  <2> QED
    BY <2>2, <2>5, <2>6 DEF RequestInv
<1>2. CASE \/ LoopStep(Others) /\ UNCHANGED known
           \/ LoopStep(Crash) /\ known' = secrets
           \/ \E k \in Keys : LoopStep(Watch(k)) /\ UNCHANGED known
           \/ \E k \in Keys : LoopStep(Begin(k)) /\ UNCHANGED known
           \/ LoopStep(ControllerStep) /\ UNCHANGED known
  <2>1. /\ LoopStep(TRUE)
        /\ UNCHANGED known \/ known' = secrets
        /\ \/ Others \/ Crash \/ \E k \in Keys : Watch(k) \/ Begin(k)
           \/ ControllerStep
    BY <1>2 DEF LoopStep
  <2> QED
    BY <2>1, LoopMoves, LoopKept
<1>3. CASE Request
  <2>1. CacheStep /\ UNCHANGED private
    BY <1>3 DEF Request, CacheStep
  <2> QED
    BY <1>3, <2>1, ExistsBucketKept, ReadModeKept, UpsertStorageAccountKept,
       UpsertContainerKept, NetworkKept, SetLifecycleRulesKept, DeleteStorageAccountKept,
       RoleKept, UpsertSecretKept, DeletingSecretKept DEF Request
<1>4. CASE \/ \E n \in Names : SecretWatch(n) \/ SecretDelete(n)
           \/ \E a \in Accounts : Claim(a)
           \/ SwitchMode
  BY <1>4, OutsideKept
<1> QED
  BY <1>1, <1>2, <1>3, <1>4 DEF Next

\* How a request moves the pass on.
LEMMA RequestMoves ==
  ASSUME LoopTypeOK, CallInv, Request
  PROVE  ServiceMove /\ pc # "idle"
<1>1. UNCHANGED <<clusterVars, faulty>>
  BY DEF Request
<1>2. CASE CheckNameAvailability \/ ExistsContainer
  BY <1>1, <1>2, CallStep DEF CheckNameAvailability, ExistsContainer, Decide, CheckFails,
     RequestFails, ReturnError, Return, Goto, Ask, ServiceMove
<1>3. CASE IsManagementClusterPrivate \/ UpsertStorageAccount \/ UpsertContainer
  BY <1>1, <1>3, CallStep DEF IsManagementClusterPrivate, UpsertStorageAccount,
     UpsertContainer, AzureRequest, RequestFails, ReturnError, Ask, ServiceMove, Creating
<1>4. CASE UpsertPrivateEndpoint \/ UpsertPrivateEndpointARecords \/ ListKeys
  BY <1>1, <1>4, CallStep DEF UpsertPrivateEndpoint, UpsertPrivateEndpointARecords,
     ListKeys, AzureRequest, RequestFails, ReturnError, Ask, ServiceMove, Creating
<1>5. CASE UpsertSecret \/ SetLifecycleRules
  BY <1>1, <1>5, CallStep DEF UpsertSecret, SetLifecycleRules, SecretRequest,
     AzureRequest, RequestFails, ReturnError, Return, Goto, ServiceMove
<1>6. CASE DeleteStorageAccount \/ GetSecret \/ PatchSecret \/ DeleteSecret
  BY <1>1, <1>6, CallStep DEF DeleteStorageAccount, GetSecret, PatchSecret, DeleteSecret,
     SecretRequest, AzureRequest, RequestFails, ReturnError, Return, Goto, Ask, ServiceMove
<1>7. CASE ConfigureRole \/ DeleteRole
  BY <1>1, <1>7 DEF ConfigureRole, DeleteRole, Return, Goto, ServiceMove
<1> QED
  BY <1>2, <1>3, <1>4, <1>5, <1>6, <1>7 DEF Request

\* The steps are those of the loop.
LEMMA StepOfLoop ==
  ASSUME LoopTypeOK, CallInv, [Next]_vars
  PROVE  [LoopNext]_loopVars
<1>1. CASE \/ \E n \in Names : SecretWatch(n) \/ SecretDelete(n)
           \/ \E a \in Accounts : Claim(a)
           \/ SwitchMode
           \/ UNCHANGED vars
  BY <1>1 DEF SecretWatch, SecretDelete, Claim, SwitchMode, vars
<1>2. CASE Request
  BY <1>2, RequestMoves DEF LoopNext
<1> QED
  BY <1>1, <1>2 DEF Next, LoopStep, Others, LoopNext, Environment

\* Nothing is there at first.
LEMMA KeptInit ==
  ASSUME Init
  PROVE  LoopTypeOK /\ CloudOK /\ RequestInv
<1>1. LoopTypeOK
  BY LoopAssumption DEF Init, LoopInit, LoopTypeOK, Version, Steps
<1>2. /\ NoAccount \in AccountRecord /\ NoAccount.exists = FALSE
      /\ NoContainer \in ContainerRecord /\ NoContainer.exists = FALSE
  BY AzureAssumption DEF NoAccount, NoContainer, AccountRecord, ContainerRecord
<1>3. CloudOK
  BY <1>2 DEF Init, CloudOK, SecretStates
<1>4. pc = "idle" /\ call = "none" /\ Contained /\ KnownFree
  BY <1>2, InAccount DEF Init, LoopInit, Contained, KnownFree, Unheld
<1> QED
  BY <1>1, <1>3, <1>4 DEF RequestInv, CallInv, RequestsOf, BuiltInv, NetworkInv,
     DeletedInv, Creating, Created, EndpointMade, RecordMade, ContainerMade, AccountMade

\* Whatever objects, names, faults and rivals there are, every state is of the right
\* type, and a service call makes the requests of its own step only.
THEOREM AzureTypeCorrect == Spec => []TypeOK
<1>1. Init => LoopTypeOK /\ CloudOK /\ RequestInv
  BY KeptInit
<1>2. LoopTypeOK /\ CloudOK /\ RequestInv /\ [Next]_vars =>
         LoopTypeOK' /\ CloudOK' /\ RequestInv'
  BY KeptStep, StepOfLoop, LoopTypeStep DEF RequestInv
<1>3. LoopTypeOK /\ CloudOK /\ RequestInv => TypeOK
  BY TypeParts DEF RequestInv
<1> QED
  BY <1>1, <1>2, <1>3, PTL DEF Spec

\* The requests of CreateBucket and DeleteBucket build on one another: account,
\* container, private endpoint, A record and Secret are there when the pass says ready,
\* and none of account and Secret when it gives up the finalizer, whatever happens
\* between the requests, a switch of the mode included.
THEOREM AzureRequestsBuildUp == Spec => []RequestInv
<1>1. Init => LoopTypeOK /\ CloudOK /\ RequestInv
  BY KeptInit
<1>2. LoopTypeOK /\ CloudOK /\ RequestInv /\ [Next]_vars =>
         LoopTypeOK' /\ CloudOK' /\ RequestInv'
  BY KeptStep, StepOfLoop, LoopTypeStep DEF RequestInv
<1> QED
  BY <1>1, <1>2, PTL DEF Spec

(***************************************************************************)
(* Accounts, containers and Secrets under Bucket objects.                  *)
(***************************************************************************)

\* What a step does to accounts.
LEMMA AccountMoves ==
  ASSUME LoopTypeOK, CloudOK, RequestInv, [Next]_vars, ~UNCHANGED accounts
  PROVE  /\ Request /\ pc # "idle" /\ Name \in Names /\ Account \in Accounts
         /\ \A x \in Accounts : x # Account => accounts'[x] = accounts[x]
         /\ \/ /\ Creating /\ call = "CreateAccount"
               /\ accounts'[Account].policy = TheAccount.policy
               /\ accounts'[Account].closed = (local = "private")
               /\ accounts'[Account].tags = obj.spec.tags
               /\ UNCHANGED <<containers, endpoints, records>>
            \/ /\ pc = "configure"
               /\ accounts'[Account].exists = TheAccount.exists
               /\ accounts'[Account].closed = TheAccount.closed
               /\ accounts'[Account].tags = TheAccount.tags
               /\ accounts'[Account].policy = IF obj.spec.expiration = NoExpiration
                                              THEN TheAccount.policy
                                              ELSE obj.spec.expiration
               /\ UNCHANGED <<containers, endpoints, records>>
            \/ /\ pc = "deleteBucket" /\ call = "DeleteAccount"
               /\ accounts'[Account] = NoAccount
               /\ UNCHANGED <<endpoints, records>>
<1>1. UpsertStorageAccount \/ SetLifecycleRules \/ DeleteStorageAccount
  BY DEF Next, vars, azureVars, LoopStep, Request, CheckNameAvailability, ExistsContainer,
     IsManagementClusterPrivate, UpsertContainer, UpsertPrivateEndpoint,
     UpsertPrivateEndpointARecords, ListKeys, UpsertSecret, GetSecret, PatchSecret,
     DeleteSecret, ConfigureRole, DeleteRole, AzureRequest, SecretWatch, SecretDelete,
     Claim, SwitchMode
<1>2. Request
  BY DEF Next, vars, azureVars, LoopStep, SecretWatch, SecretDelete, Claim, SwitchMode
<1>3. pc # "idle"
  BY <1>2, RequestMoves DEF RequestInv
<1>4. /\ Name \in Names /\ Account \in Accounts /\ TheAccount \in AccountRecord
      /\ obj.spec.expiration \in Expirations /\ obj.spec.tags \in TagSets
  BY <1>3, Target
<1>5. PICK r \in AccountRecord : r = accounts[Account]
  BY <1>4 DEF TheAccount
<1>6. CASE UpsertStorageAccount
  <2>1. Creating /\ call = "CreateAccount"
    BY <1>6, CallStep DEF UpsertStorageAccount, RequestInv
  <2>2. PICK b \in BOOLEAN : b = (local = "private")
    OBVIOUS
  <2>3. PICK t \in TagSets : t = obj.spec.tags
    BY <1>4
  <2>4. /\ accounts' = [accounts EXCEPT ![Account].exists = TRUE, ![Account].closed = b,
                                        ![Account].tags = t]
        /\ UNCHANGED <<containers, endpoints, records>>
    BY <1>6, <2>2, <2>3 DEF UpsertStorageAccount, AzureRequest, azureVars
  <2> DEFINE c == [r EXCEPT !.exists = TRUE, !.closed = b, !.tags = t]
  <2>5. accounts' = [accounts EXCEPT ![Account] = c]
    BY <1>5, <2>4
  <2>6. /\ c \in AccountRecord /\ c.closed = b /\ c.policy = r.policy /\ c.tags = t
    BY DEF AccountRecord
  <2> HIDE DEF c
  <2>7. /\ accounts'[Account] = c
        /\ \A x \in Accounts : x # Account => accounts'[x] = accounts[x]
    BY <1>4, <2>5, <2>6, AccountSet DEF CloudOK
  <2> QED
    BY <1>2, <1>3, <1>4, <1>5, <2>1, <2>2, <2>3, <2>4, <2>6, <2>7 DEF TheAccount
<1>7. CASE SetLifecycleRules
  <2>1. pc = "configure"
    BY <1>7, CallStep DEF SetLifecycleRules, RequestInv
  <2> DEFINE e == IF obj.spec.expiration = NoExpiration THEN r.policy
                                                       ELSE obj.spec.expiration
  <2>2. e \in Expirations
    BY <1>4, <1>5 DEF AccountRecord
  <2>3. /\ accounts' = [accounts EXCEPT ![Account].policy = e]
        /\ UNCHANGED <<containers, endpoints, records>>
    BY <1>5, <1>7 DEF SetLifecycleRules, AzureRequest, azureVars
  <2>4. e = IF obj.spec.expiration = NoExpiration THEN TheAccount.policy
                                                  ELSE obj.spec.expiration
    BY <1>5 DEF TheAccount
  <2> HIDE DEF e
  <2> DEFINE c == [r EXCEPT !.policy = e]
  <2>5. accounts' = [accounts EXCEPT ![Account] = c]
    BY <1>5, <2>3
  <2>6. /\ c \in AccountRecord /\ c.exists = r.exists /\ c.closed = r.closed
        /\ c.tags = r.tags /\ c.policy = e
    BY <2>2 DEF AccountRecord
  <2> HIDE DEF c
  <2>7. /\ accounts'[Account] = c
        /\ \A x \in Accounts : x # Account => accounts'[x] = accounts[x]
    BY <1>4, <2>5, <2>6, AccountSet DEF CloudOK
  <2> QED
    BY <1>2, <1>3, <1>4, <1>5, <2>1, <2>3, <2>4, <2>6, <2>7 DEF TheAccount
<1>8. CASE DeleteStorageAccount
  <2>1. pc = "deleteBucket" /\ call = "DeleteAccount"
    BY <1>8, CallStep DEF DeleteStorageAccount, RequestInv
  <2>2. /\ accounts' = [accounts EXCEPT ![Account] = NoAccount]
        /\ UNCHANGED <<endpoints, records>>
    BY <1>8 DEF DeleteStorageAccount, AzureRequest, azureVars
  <2>3. NoAccount \in AccountRecord
    BY AzureAssumption DEF NoAccount, AccountRecord
  <2>4. /\ accounts'[Account] = NoAccount
        /\ \A x \in Accounts : x # Account => accounts'[x] = accounts[x]
    BY <1>4, <2>2, <2>3, AccountSet DEF CloudOK
  <2> QED
    BY <1>2, <1>3, <1>4, <2>1, <2>2, <2>4
<1> QED
  BY <1>1, <1>6, <1>7, <1>8

\* What a step does to containers.
LEMMA ContainerMoves ==
  ASSUME LoopTypeOK, CloudOK, RequestInv, [Next]_vars, ~UNCHANGED containers
  PROVE  /\ pc # "idle" /\ Name \in Names
         /\ \/ /\ Creating /\ containers'[Name].exists
               /\ \A n \in Names : n # Name => containers'[n] = containers[n]
            \/ /\ pc = "deleteBucket"
               /\ \A n \in Names : AccountOf[n] # Account => containers'[n] = containers[n]
<1>1. UpsertContainer \/ DeleteStorageAccount
  BY DEF Next, vars, azureVars, LoopStep, Request, CheckNameAvailability, ExistsContainer,
     IsManagementClusterPrivate, UpsertStorageAccount, UpsertPrivateEndpoint,
     UpsertPrivateEndpointARecords, ListKeys, UpsertSecret, GetSecret, PatchSecret,
     DeleteSecret, ConfigureRole, DeleteRole, SetLifecycleRules, AzureRequest, SecretWatch,
     SecretDelete, Claim, SwitchMode
<1>2. Creating \/ pc = "deleteBucket"
  BY <1>1, CallStep DEF UpsertContainer, DeleteStorageAccount, RequestInv
<1>3. Name \in Names /\ pc # "idle"
  BY <1>2, Target DEF Creating
<1>4. CASE UpsertContainer
  <2>1. Creating
    BY <1>4, CallStep DEF UpsertContainer, RequestInv
  <2>2. containers' = [containers EXCEPT ![Name] = [exists |-> TRUE, tags |-> obj.spec.tags]]
    BY <1>4 DEF UpsertContainer, AzureRequest, azureVars
  <2> QED
    BY <1>3, <2>1, <2>2 DEF CloudOK
<1>5. CASE DeleteStorageAccount
  <2>1. pc = "deleteBucket"
    BY <1>5, CallStep DEF DeleteStorageAccount, RequestInv
  <2>2. containers' = [n \in Names |-> IF AccountOf[n] = Account
                                       THEN NoContainer ELSE containers[n]]
    BY <1>5 DEF DeleteStorageAccount, AzureRequest, azureVars
  <2> QED
    BY <1>3, <2>1, <2>2
<1> QED
  BY <1>1, <1>4, <1>5

\* What a step does to Secrets.
LEMMA SecretMoves ==
  ASSUME LoopTypeOK, CloudOK, RequestInv, [Next]_vars, ~UNCHANGED secrets
  PROVE  \/ /\ UNCHANGED loopVars
            /\ \A n \in Names : \/ secrets'[n] = secrets[n]
                                \/ secrets[n] = "held" /\ secrets'[n] = "marked"
                                \/ secrets[n] = "free" /\ secrets'[n] = "none"
         \/ /\ pc # "idle" /\ Name \in Names /\ UNCHANGED clusterVars
            /\ \A n \in Names : n # Name => secrets'[n] = secrets[n]
            /\ \/ Creating /\ secrets[Name] = "none" /\ secrets'[Name] = "held"
               \/ /\ pc = "deleteBucket" /\ secrets[Name] # "none"
                  /\ UNCHANGED workerVars \/ pc' = "idle" \/ pc' \in {"deleteRole", "release"}
                  /\ secrets'[Name] = "free" => UNCHANGED workerVars \/ pc' = "idle"
<1>1. \/ \E n \in Names : SecretDelete(n)
      \/ UpsertSecret \/ PatchSecret \/ DeleteSecret
  BY DEF Next, vars, secretVars, LoopStep, Request, GetSecret, SecretWatch, Claim, SwitchMode
<1>2. ASSUME NEW n \in Names, SecretDelete(n)
      PROVE  /\ UNCHANGED loopVars
             /\ \A m \in Names : \/ secrets'[m] = secrets[m]
                                 \/ secrets[m] = "held" /\ secrets'[m] = "marked"
                                 \/ secrets[m] = "free" /\ secrets'[m] = "none"
  <2>1. /\ UNCHANGED loopVars /\ secrets[n] \in {"held", "free"}
        /\ secrets' = [secrets EXCEPT ![n] = Deleted(secrets[n])]
    BY <1>2 DEF SecretDelete
  <2>2. /\ secrets[n] = "held" => Deleted(secrets[n]) = "marked"
        /\ secrets[n] = "free" => Deleted(secrets[n]) = "none"
    BY DEF Deleted
  <2> QED
    BY <2>1, <2>2 DEF CloudOK
<1>3. CASE UpsertSecret \/ PatchSecret \/ DeleteSecret
  <2>1. Creating \/ pc = "deleteBucket"
    BY <1>3, CallStep DEF UpsertSecret, PatchSecret, DeleteSecret, RequestInv, Creating
  <2>2. Name \in Names /\ pc # "idle" /\ secrets[Name] \in SecretStates
    BY <2>1, Target DEF Creating
  <2>3. PICK v : secrets' = [secrets EXCEPT ![Name] = v] /\ v # secrets[Name]
    BY <1>3, <2>2 DEF UpsertSecret, PatchSecret, DeleteSecret, SecretRequest, CloudOK
  <2>4. /\ secrets'[Name] = v
        /\ \A n \in Names : n # Name => secrets'[n] = secrets[n]
    BY <2>2, <2>3 DEF CloudOK
  <2>5. UNCHANGED clusterVars
    BY <1>3 DEF Next, vars, secretVars, LoopStep, Request, SecretDelete, GetSecret, SecretWatch,
       Claim, SwitchMode, loopVars, clusterVars
  <2>6. CASE UpsertSecret
    <3>1. secrets' = [secrets EXCEPT ![Name] =
                        IF secrets[Name] = "none" THEN "held" ELSE secrets[Name]]
      BY <2>6 DEF UpsertSecret, SecretRequest
    <3>2. v = IF secrets[Name] = "none" THEN "held" ELSE secrets[Name]
      BY <2>2, <2>4, <3>1 DEF CloudOK
    <3> QED
      BY <2>2, <2>3, <2>4, <2>5, <2>6, <3>2 DEF UpsertSecret, Creating
  <2>7. CASE PatchSecret
    <3>1. /\ pc = "deleteBucket" /\ secrets[Name] # "none"
          /\ UNCHANGED workerVars \/ pc' = "idle"
      BY <2>7, CallStep DEF PatchSecret, RequestInv, SecretRequest, Ask, RequestFails,
         ReturnError, Retry
    <3> QED
      BY <2>2, <2>4, <2>5, <3>1
  <2>8. CASE DeleteSecret
    <3>1. /\ pc = "deleteBucket" /\ secrets[Name] # "none"
          /\ pc' \in {"idle", "deleteRole", "release"}
      BY <2>8, CallStep DEF DeleteSecret, RequestInv, SecretRequest, Return, Goto,
         RequestFails, ReturnError, Retry
    <3>2. secrets' = [secrets EXCEPT ![Name] = Deleted(secrets[Name])]
      BY <2>8 DEF DeleteSecret, SecretRequest
    <3>3. secrets'[Name] # "free"
      BY <2>2, <3>2 DEF Deleted, CloudOK
    <3> QED
      BY <2>2, <2>4, <2>5, <3>1, <3>3
  <2> QED
    BY <1>3, <2>6, <2>7, <2>8
<1> QED
  BY <1>1, <1>2, <1>3

\* The invariants of loop and requests together.
Base == LoopTypeOK /\ LoopInv /\ FreshInv /\ CloudOK /\ RequestInv

\* They hold at first, and every step keeps them.
LEMMA BaseHolds ==
  ASSUME Exclusive
  PROVE  /\ Init => Base
         /\ Base /\ [Next]_vars => Base' /\ [LoopNext]_loopVars
<1>1. Init => Base
  <2> SUFFICES ASSUME Init PROVE Base
    OBVIOUS
  <2>1. LoopInv /\ FreshInv
    BY LoopInvInit DEF Init, LoopInit, FreshInv
  <2> QED
    BY <2>1, KeptInit DEF Base
<1>2. ASSUME Base, [Next]_vars PROVE Base' /\ [LoopNext]_loopVars
  <2>1. [LoopNext]_loopVars
    BY <1>2, StepOfLoop DEF Base, RequestInv
  <2>2. LoopTypeOK' /\ CloudOK' /\ RequestInv'
    BY <1>2, <2>1, LoopTypeStep, KeptStep DEF Base
  <2>3. LoopInv' /\ FreshInv'
    BY <1>2, <2>1, <2>2, LoopInvStep, FreshStep, LoopAssumption DEF Base
  <2> QED
    BY <2>1, <2>2, <2>3 DEF Base
<1> QED
  BY <1>1, <1>2

\* The object that the running pass is about, if it exists, names the same bucket,
\* and no other object does.
LEMMA PassNames ==
  ASSUME Exclusive, Base, pc # "idle"
  PROVE  /\ req \in Keys /\ Name \in Names
         /\ Exists(req) => api[req].spec.name = Name
         /\ \A k \in Keys : Exists(k) /\ api[k].spec.name = Name => k = req
         /\ \A k \in Keys : \A s \in Allowed[k] : s.name = Name => k = req
         /\ obj.spec \in Allowed[req]
<1>1. /\ req \in Keys /\ obj \in Bucket /\ obj # NoObject /\ Genuine(req, obj)
      /\ Name \in Names
  BY Target, LoopAssumption DEF Base, LoopInv, PassInv, LoopTypeOK
<1>2. ASSUME NEW k \in Keys, Exists(k) PROVE api[k] \in Bucket /\ Genuine(k, api[k])
  BY <1>2, ApiGenuine DEF Base, LoopTypeOK, Exists, Version
<1>3. obj.spec \in Allowed[req]
  BY <1>1 DEF Genuine
<1>4. \A k \in Keys : \A s \in Allowed[k] : s.name = Name => k = req
  BY <1>1, <1>3 DEF Exclusive, Name
<1>5. ASSUME NEW k \in Keys, Exists(k)
      PROVE  /\ k = req => api[k].spec.name = Name
             /\ api[k].spec.name = Name => k = req
  BY <1>1, <1>2, <1>5, SameNames, LoopAssumption DEF Name
<1> QED
  BY <1>1, <1>3, <1>4, <1>5

\* The account or the Secret of n exists.
Remains(n) == accounts[AccountOf[n]].exists \/ secrets[n] # "none"

\* Only CreateBucket makes accounts and Secrets.
LEMMA RemainsNews ==
  ASSUME Separate, LoopTypeOK, CloudOK, RequestInv, [Next]_vars, NEW n \in Names,
         Remains(n)'
  PROVE  Remains(n) \/ (Creating /\ Name = n)
<1>1. CASE accounts'[AccountOf[n]].exists
  <2>1. CASE UNCHANGED accounts
    BY <1>1, <2>1 DEF Remains
  <2>2. CASE ~UNCHANGED accounts /\ AccountOf[n] = Account
    <3>1. n = Name
      BY <2>2, AccountMoves DEF Separate, Account
    <3>2. NoAccount.exists = FALSE
      BY DEF NoAccount
    <3> QED
      BY <1>1, <2>2, <3>1, <3>2, AccountMoves DEF Remains, TheAccount
  <2>3. CASE ~UNCHANGED accounts /\ AccountOf[n] # Account
    BY <1>1, <2>3, AccountMoves, InAccount DEF Remains
  <2> QED
    BY <2>1, <2>2, <2>3
<1>2. CASE secrets'[n] # "none"
  BY <1>2, SecretMoves DEF Remains
<1> QED
  BY <1>1, <1>2 DEF Remains

\* An account or a Secret is never without a Bucket object that has the finalizer.
LEMMA OrphanStep ==
  ASSUME Exclusive, Separate, Base, NoOrphanAccounts, [Next]_vars
  PROVE  NoOrphanAccounts'
<1> SUFFICES ASSUME NEW n \in Names, Remains(n)'
             PROVE  \E k \in Keys : api'[k] # NoObject /\ api'[k].fin /\ api'[k].spec.name = n
  BY DEF NoOrphanAccounts, Remains, Exists
<1>1. PICK k \in Keys : Exists(k) /\ api[k].fin /\ api[k].spec.name = n
  <2>1. CASE Remains(n)
    BY <2>1 DEF NoOrphanAccounts, Remains
  <2>2. CASE Creating /\ Name = n
    <3>1. Exists(req) /\ api[req].fin
      BY <2>2 DEF Base, LoopInv, PassInv, HoldingSteps, Creating
    <3> QED
      BY <2>2, <3>1, PassNames DEF Creating
  <2> QED
    BY <2>1, <2>2, RemainsNews DEF Base
<1>2. Base' /\ [LoopNext]_loopVars
  BY BaseHolds
<1>3. CASE api'[k] # NoObject /\ api'[k].fin
  <2>1. /\ api[k] \in Bucket /\ api'[k] \in Bucket
    BY <1>1, <1>2, <1>3 DEF Base, LoopTypeOK, Exists, Version
  <2>2. Genuine(k, api[k]) /\ Genuine(k, api'[k])
    <3>1. Genuine(k, api[k])
      BY ApiGenuine DEF Base
    <3>2. \A i \in 0..Len(events'[k]) : Genuine(k, At(cache'[k], events'[k], i))
      BY <1>2 DEF Base, LoopInv
    <3>3. Pipeline(cache'[k], events'[k], api'[k])
      BY <1>2 DEF Base, LoopInv
    <3>4. Len(events'[k]) \in 0..Len(events'[k])
      BY <1>2 DEF Base, LoopTypeOK
    <3> QED
      BY <3>1, <3>2, <3>3, <3>4 DEF Pipeline
  <2> QED
    BY <1>1, <1>3, <2>1, <2>2, SameNames, LoopAssumption
<1>4. CASE pc = "release" /\ req = k
  <2>1. Name = n
    BY <1>1, <1>4, PassNames
  <2>2. ~Remains(n)
    BY <1>4, <2>1 DEF Base, RequestInv, DeletedInv, Remains, TheAccount, Account
  <2> QED
    BY <1>4, <2>2, RemainsNews DEF Base, Creating
<1> QED
  BY <1>1, <1>2, <1>3, <1>4, FinalizerStays, LoopAssumption DEF Base

(***************************************************************************)
(* What is ready can be used.                                              *)
(***************************************************************************)

\* The names of what users may ask for.
LEMMA AllowedNames == \A k \in Keys : \A s \in Allowed[k] : s.name \in Names
<1> SUFFICES ASSUME NEW k \in Keys, NEW s \in Allowed[k] PROVE s.name \in Names
  OBVIOUS
<1>1. s \in BucketSpec
  BY LoopAssumption
<1> QED
  BY <1>1 DEF BucketSpec

\* The status of an object that is ready tells its bucket.
LEMMA ReadyName ==
  ASSUME Base, NEW k \in Keys, api[k] # NoObject, api[k].status.ready
  PROVE  api[k].status.id = api[k].spec.name /\ api[k].status.id \in Names
<1>1. Genuine(k, api[k])
  BY ApiGenuine DEF Base
<1>2. /\ api[k].spec \in Allowed[k]
      /\ api[k].status \in {[id |-> NoName, ready |-> FALSE],
                            [id |-> api[k].spec.name, ready |-> TRUE]}
  BY <1>1 DEF Genuine
<1>3. api[k].status = [id |-> api[k].spec.name, ready |-> TRUE]
  <2>1. api[k].status # [id |-> NoName, ready |-> FALSE]
    <3> SUFFICES ASSUME api[k].status = [id |-> NoName, ready |-> FALSE] PROVE FALSE
      OBVIOUS
    <3>1. api[k].status.ready = FALSE
      OBVIOUS
    <3> QED
      BY <3>1
  <2> QED
    BY <1>2, <2>1
<1> QED
  BY <1>2, <1>3, AllowedNames

\* Only DeleteBucket makes a bucket unusable.
LEMMA UsableStays ==
  ASSUME Separate, LoopTypeOK, CloudOK, RequestInv, [Next]_vars, NEW n \in Names,
         Usable(n)
  PROVE  Usable(n)' \/ (pc = "deleteBucket" /\ Name = n)
<1>1. containers[n].exists /\ secrets[n] \in {"held", "marked"}
  BY DEF Usable
<1>2. ASSUME ~(pc = "deleteBucket" /\ Name = n) PROVE containers'[n].exists
  <2>1. CASE UNCHANGED containers
    BY <1>1, <2>1
  <2>2. CASE ~UNCHANGED containers /\ Creating
    BY <1>1, <2>2, ContainerMoves DEF Creating
  <2>3. CASE ~UNCHANGED containers /\ pc = "deleteBucket"
    <3>1. AccountOf[n] # Account
      BY <1>2, <2>3, ContainerMoves DEF Separate, Account
    <3> QED
      BY <1>1, <2>3, <3>1, ContainerMoves DEF Creating
  <2> QED
    BY <2>1, <2>2, <2>3, ContainerMoves
<1>3. ASSUME ~(pc = "deleteBucket" /\ Name = n) PROVE secrets'[n] \in {"held", "marked"}
  BY <1>1, <1>3, SecretMoves
<1> QED
  BY <1>2, <1>3 DEF Usable

\* A pass that deletes, where others put no finalizers on Buckets and there is still
\* something to delete, finds all versions of its object marked.
LEMMA DeletingIsMarked ==
  ASSUME Exclusive, Base, NoOrphanAccounts, Foreign = {}, pc \in DeletingSteps,
         Remains(Name)
  PROVE  All(Marked, cache[req], events[req]) /\ Marked(api[req])
<1>1. pc # "idle" /\ Deleting
  BY DEF DeletingSteps, Deleting
<1>2. req \in Keys /\ Name \in Names
  BY <1>1, PassNames
<1>3. PICK k \in Keys : Exists(k) /\ api[k].fin /\ api[k].spec.name = Name
  BY <1>2 DEF NoOrphanAccounts, Remains
<1>4. k = req
  BY <1>1, <1>3, PassNames
<1>5. obj.fin /\ obj.deleting
  <2>1. obj \in Bucket /\ obj # NoObject
    BY <1>1, LoopAssumption DEF Base, LoopTypeOK, Version
  <2>2. obj.others = {}
    BY <2>1 DEF Bucket
  <2>3. obj.deleting /\ Genuine(req, obj)
    BY <1>1 DEF Base, LoopInv, PassInv
  <2> QED
    BY <2>1, <2>2, <2>3 DEF Genuine
<1>6. ~Held(api[req])
  BY <1>1, <1>2, <1>5, ApiGenuine DEF Base, LoopInv, PassInv
<1>7. Marked(api[req])
  BY <1>3, <1>4, <1>6 DEF Held, Marked, Exists
<1> QED
  BY <1>1, <1>5, <1>7 DEF Base, LoopInv, PassInv

\* A Secret without finalizer is that of a Bucket on its way out.
LEMMA FreedStep ==
  ASSUME Exclusive, Separate, Foreign = {}, Base, NoOrphanAccounts, FreedInv, [Next]_vars
  PROVE  FreedInv'
<1> SUFFICES ASSUME NEW k \in Keys, NEW s \in Allowed[k], secrets'[s.name] = "free"
             PROVE  All(Marked, cache'[k], events'[k]) /\ (req' = k => Deleting')
  BY DEF FreedInv
<1>1. s.name \in Names
  BY AllowedNames
<1>2. [LoopNext]_loopVars
  BY BaseHolds
<1>3. CASE secrets[s.name] = "free"
  <2>1. All(Marked, cache[k], events[k]) /\ (req = k => Deleting)
    BY <1>3 DEF FreedInv
  <2>2. ~(pc = "release" /\ req = k)
    <3>1. pc = "release" /\ req = k => Name = s.name
      BY PassNames DEF Exclusive, Name
    <3> QED
      BY <1>3, <3>1 DEF Base, RequestInv, DeletedInv
  <2> QED
    BY <1>2, <2>1, <2>2, MarkedStays, LoopAssumption DEF Base
<1>4. CASE secrets[s.name] # "free"
  <2>1. /\ pc = "deleteBucket" /\ Name = s.name /\ secrets[Name] # "none"
        /\ UNCHANGED clusterVars
        /\ UNCHANGED workerVars \/ pc' = "idle"
    BY <1>1, <1>4, SecretMoves DEF Base
  <2>2. k = req
    BY <2>1, PassNames
  <2>3. All(Marked, cache[k], events[k])
    BY <2>1, <2>2, DeletingIsMarked DEF DeletingSteps, Remains
  <2>4. UNCHANGED <<cache, events>>
    BY <2>1 DEF clusterVars
  <2>5. req' = k => Deleting'
    BY <2>1, BaseHolds, LoopAssumption DEF workerVars, Deleting, DeletingSteps, Base,
       LoopTypeOK
  <2> QED
    BY <2>3, <2>4, <2>5
<1> QED
  BY <1>3, <1>4

\* A pass is past CreateBucket only with the Secret in place, and stays so.
LEMMA CreatedStep ==
  ASSUME Exclusive, Separate, Base, UsableInv, [Next]_vars, Created'
  PROVE  Usable(Name)'
<1>1. CASE Created /\ UNCHANGED obj
  <2>1. Name \in Names /\ Usable(Name) /\ pc # "deleteBucket"
    BY <1>1, PassNames DEF UsableInv, Created
  <2>2. Usable(Name)' = (containers'[Name].exists /\ secrets'[Name] \in {"held", "marked"})
    BY <1>1 DEF Usable, Name
  <2>3. containers'[Name].exists /\ secrets'[Name] \in {"held", "marked"}
    <3>1. PICK n \in Names : n = Name
      BY <2>1
    <3>2. Usable(n)'
      BY <2>1, <3>1, UsableStays DEF Base
    <3> QED
      BY <3>1, <3>2 DEF Usable
  <2> QED
    BY <2>2, <2>3
<1>2. CASE UpsertSecret /\ Return("configure")
  <2>1. /\ Creating /\ pc # "idle" /\ UNCHANGED <<azureVars, obj>>
        /\ secrets' = [secrets EXCEPT ![Name] =
                         IF secrets[Name] = "none" THEN "held" ELSE secrets[Name]]
    BY <1>2 DEF UpsertSecret, Creating, SecretRequest, Return, ReturnError, RequestFails,
       Goto, Retry
  <2>2. Name \in Names /\ req \in Keys /\ obj.spec \in Allowed[req]
    BY <2>1, PassNames
  <2>3. secrets[Name] # "free"
    BY <2>1, <2>2 DEF UsableInv, FreedInv, Creating, Deleting, DeletingSteps, Name
  <2>4. secrets[Name] \in SecretStates
    BY <2>1, Target DEF Base
  <2>5. containers[Name].exists
    BY <1>2, <2>1 DEF UpsertSecret, Base, RequestInv, BuiltInv, ContainerMade, EndpointMade,
       TheContainer
  <2>6. secrets'[Name] \in {"held", "marked"}
    BY <2>1, <2>2, <2>3, <2>4 DEF SecretStates, Base, CloudOK
  <2> QED
    BY <2>1, <2>5, <2>6 DEF Usable, Name, azureVars
<1>3. \/ Created /\ UNCHANGED obj
      \/ UpsertSecret /\ Return("configure")
  <2>1. CASE Request
    <3>1. ServiceMove
      BY <2>1, RequestMoves DEF Base, RequestInv
    <3>2. CASE pc \in {"configure", "status"}
      BY <3>1, <3>2 DEF ServiceMove, Created, workerVars, Retry, Finish
    <3>3. CASE pc \in {"create", "update"}
      <4>1. pc' = "configure"
        BY <3>1, <3>3 DEF ServiceMove, Created, workerVars, Retry, Finish
      <4>2. CASE UpsertSecret
        BY <4>1, <4>2 DEF UpsertSecret, SecretRequest, RequestFails, ReturnError, Retry
      <4>3. CASE ~UpsertSecret
        <5>1. \/ IsManagementClusterPrivate \/ UpsertStorageAccount \/ UpsertContainer
              \/ UpsertPrivateEndpoint \/ UpsertPrivateEndpointARecords \/ ListKeys
          BY <2>1, <3>3, <4>3, CallStep DEF Request, CheckNameAvailability, ExistsContainer,
             SetLifecycleRules, DeleteStorageAccount, ConfigureRole, DeleteRole, GetSecret,
             PatchSecret, DeleteSecret, Base, RequestInv
        <5>2. UNCHANGED pc \/ pc' = "idle"
          BY <5>1 DEF IsManagementClusterPrivate, UpsertStorageAccount, UpsertContainer,
             UpsertPrivateEndpoint, UpsertPrivateEndpointARecords, ListKeys, AzureRequest,
             Ask, RequestFails, ReturnError, Retry, workerVars
        <5> QED
          BY <3>3, <4>1, <5>2
      <4> QED
        BY <4>2, <4>3
    <3> QED
      BY <3>1, <3>2, <3>3 DEF ServiceMove, Created, workerVars, Retry, Finish
  <2>2. CASE ~Request
    <3>1. \/ UNCHANGED loopVars
          \/ Others \/ Crash \/ \E k \in Keys : Watch(k) \/ Begin(k)
          \/ ControllerStep
      BY <2>2 DEF Next, LoopStep, vars, SecretWatch, SecretDelete, Claim, SwitchMode
    <3>2. UNCHANGED <<pc, obj>>
      BY <3>1, LoopMoves DEF loopVars, Created
    <3> QED
      BY <3>2 DEF Created
  <2> QED
    BY <2>1, <2>2
<1> QED
  BY <1>1, <1>2, <1>3

\* A Bucket that is ready, and not being deleted, keeps container and Secret.
LEMMA ReadyStep ==
  ASSUME Exclusive, Separate, Foreign = {}, Base, NoOrphanAccounts, UsableInv, [Next]_vars,
         NEW k \in Keys, api'[k] # NoObject, ~api'[k].deleting, api'[k].status.ready
  PROVE  Usable(api[k].status.id)'
<1>1. [LoopNext]_loopVars /\ Base'
  BY BaseHolds
<1>2. PICK n : n = api'[k].status.id
  OBVIOUS
<1>3. CASE pc = "status" /\ n = obj.spec.name
  <2>1. n \in Names /\ Usable(n)
    BY <1>3, PassNames DEF UsableInv, Created, Name
  <2>2. Usable(n)'
    BY <1>3, <2>1, UsableStays DEF Base
  <2> QED
    BY <1>2, <2>2 DEF Usable
<1>4. CASE api[k] # NoObject /\ ~api[k].deleting /\ api'[k].status = api[k].status
  <2>1. api[k].status.ready /\ n = api[k].status.id
    BY <1>2, <1>4
  <2>3. n = api[k].spec.name /\ n \in Names
    BY <1>4, <2>1, ReadyName
  <2>4. Usable(n)
    BY <1>4, <2>1 DEF UsableInv, Live, Exists
  <2>5. ~(pc = "deleteBucket" /\ Name = n)
    <3> SUFFICES ASSUME pc = "deleteBucket", Name = n PROVE FALSE
      OBVIOUS
    <3>1. k = req
      BY <1>4, <2>3, PassNames DEF Exists
    <3>2. Remains(Name)
      BY <2>4 DEF Remains, Usable
    <3> QED
      BY <1>4, <3>1, <3>2, DeletingIsMarked DEF DeletingSteps, Marked
  <2>6. Usable(n)'
    BY <2>3, <2>4, <2>5, UsableStays DEF Base
  <2> QED
    BY <1>2, <2>6 DEF Usable
<1> QED
  BY <1>1, <1>2, <1>3, <1>4, ReadyNews, LoopAssumption DEF Base

(***************************************************************************)
(* A way into closed accounts.                                             *)
(***************************************************************************)

\* Endpoints and records are never taken away.
LEMMA NetworkGrows ==
  ASSUME [Next]_vars
  PROVE  endpoints \subseteq endpoints' /\ records \subseteq records'
<1>1. \/ UNCHANGED <<endpoints, records>>
      \/ UpsertPrivateEndpoint \/ UpsertPrivateEndpointARecords
  BY DEF Next, vars, azureVars, LoopStep, Request, CheckNameAvailability, ExistsContainer,
     IsManagementClusterPrivate, UpsertStorageAccount, UpsertContainer, ListKeys,
     UpsertSecret, GetSecret, PatchSecret, DeleteSecret, ConfigureRole, DeleteRole,
     SetLifecycleRules, DeleteStorageAccount, AzureRequest, SecretWatch, SecretDelete,
     Claim, SwitchMode
<1> QED
  BY <1>1 DEF UpsertPrivateEndpoint, UpsertPrivateEndpointARecords, AzureRequest, azureVars

\* Only CreateBucket closes an account.
LEMMA ReachableStays ==
  ASSUME Separate, LoopTypeOK, CloudOK, RequestInv, [Next]_vars, NEW n \in Names,
         Reachable(n)
  PROVE  Reachable(n)' \/ (Creating /\ Name = n)
<1>1. ASSUME ~(Creating /\ Name = n), accounts'[AccountOf[n]].closed
      PROVE  accounts[AccountOf[n]].closed
  <2>1. CASE UNCHANGED accounts
    BY <1>1, <2>1
  <2>2. CASE ~UNCHANGED accounts /\ AccountOf[n] # Account
    BY <1>1, <2>2, AccountMoves, InAccount
  <2>3. CASE ~UNCHANGED accounts /\ AccountOf[n] = Account
    <3>1. Name = n
      BY <2>3, AccountMoves DEF Separate, Account
    <3>2. NoAccount.closed = FALSE
      BY DEF NoAccount
    <3> QED
      BY <1>1, <2>3, <3>1, <3>2, AccountMoves DEF TheAccount
  <2> QED
    BY <2>1, <2>2, <2>3
<1> QED
  BY <1>1, NetworkGrows DEF Reachable

\* A pass that ends, and leaves nothing to do, ends after its last step.
LEMMA LastStep ==
  ASSUME Exclusive, Base, [Next]_vars, NEW k \in Keys, req = k, Quiet(k), Live(k),
         req' # k, k \notin queue'
  PROVE  pc \in {"status", "role"} /\ obj = api[k]
<1>1. pc # "idle" /\ obj = api[k] /\ ~obj.deleting
  <2>1. pc # "idle"
    BY LoopAssumption DEF Base, LoopTypeOK
  <2> QED
    BY <2>1 DEF Base, FreshInv, Fresh, Quiet, Live
<1>2. ~Deleting
  BY <1>1 DEF Base, LoopInv, PassInv
<1>3. ~Crash
  BY DEF Crash, Live
<1>4. ~Retry
  BY DEF Retry
<1>5. CASE ControllerStep
  BY <1>1, <1>2, <1>4, <1>5 DEF ControllerStep, GetCluster, AddFinalizer, PatchStatus,
     RemoveFinalizer, Goto, Fail, Deleting, DeletingSteps
<1>6. CASE ServiceMove
  BY <1>1, <1>2, <1>4, <1>6 DEF ServiceMove, workerVars, Deleting, DeletingSteps
<1>7. CASE UNCHANGED loopVars \/ Environment \/ \E l \in Keys : Begin(l)
  BY <1>1, <1>3, <1>7 DEF loopVars, Environment, OthersAct, UserCreate, UserEdit, UserDelete,
     Hold, Release, Watch, Resync, Stabilize, Begin, workerVars
<1> QED
  BY <1>1, <1>5, <1>6, <1>7, BaseHolds DEF LoopNext

\* When a pass is at the role, PatchStatus has just been there, or it stays there.
LEMMA RoleReached ==
  ASSUME Exclusive, Separate, Base, pc = "role" => Reachable(Name), [Next]_vars,
         pc' = "role"
  PROVE  Reachable(Name)'
<1>1. [LoopNext]_loopVars
  BY BaseHolds
<1>2. /\ pc \in {"status", "role"} /\ Name' = Name
  <2>1. CASE PatchStatus
    <3> DEFINE v == [api[req] EXCEPT
                       !.status.id = Merge(@, obj.status.id, obj.spec.name),
                       !.status.ready = Merge(@, obj.status.ready, TRUE)]
    <3>1. pc = "status" /\ obj' = v
      BY <2>1 DEF PatchStatus, Goto, Fail, Retry, Finish
    <3>2. PICK w : w = v
      OBVIOUS
    <3>3. w.spec.name = obj.spec.name
      BY <3>1, <3>2, StatusWritten, LoopAssumption DEF Base
    <3> HIDE DEF v
    <3> QED
      BY <3>1, <3>2, <3>3 DEF Name
  <2>2. CASE ~PatchStatus
    <3>1. UNCHANGED <<pc, obj>>
      BY <1>1, <2>2 DEF LoopNext, loopVars, Environment, OthersAct, UserCreate, UserEdit,
         UserDelete, Hold, Release, Watch, Resync, Stabilize, Crash, Begin, workerVars,
         ControllerStep, GetCluster, AddFinalizer, RemoveFinalizer, Goto, Fail, Retry,
         Finish, ServiceMove
    <3> QED
      BY <3>1 DEF Name
  <2> QED
    BY <2>1, <2>2
<1>3. Name \in Names /\ Reachable(Name)
  BY <1>2, PassNames DEF Base, RequestInv, NetworkInv, Created
<1>4. PICK n \in Names : n = Name
  BY <1>3
<1>5. Reachable(n)'
  BY <1>2, <1>3, <1>4, ReachableStays DEF Base, Creating
<1> QED
  BY <1>2, <1>4, <1>5 DEF Reachable

\* A Bucket for which nothing is left to do has been reached by its last pass.
LEMMA ReachStep ==
  ASSUME Exclusive, Separate, Base, ReachInv, [Next]_vars
  PROVE  ReachInv'
<1>1. Base' /\ [LoopNext]_loopVars
  BY BaseHolds
<1>2. ASSUME NEW k \in Keys, Live(k)', Idle(k)'
      PROVE  Reachable(api[k].spec.name)'
  <2>1. Quiet(k)' /\ req' # k /\ k \notin queue' /\ api'[k] # NoObject
    BY <1>2 DEF Idle, Quiet, Live, Exists
  <2>2. ~(Crash /\ UNCHANGED api)
    BY <2>1 DEF Crash, Exists
  <2>3. ~(Begin(k) /\ UNCHANGED clusterVars)
    <3> SUFFICES ASSUME Begin(k), UNCHANGED clusterVars PROVE FALSE
      OBVIOUS
    <3>1. events[k] = <<>> /\ api[k] # NoObject
      BY <2>1 DEF clusterVars, Quiet
    <3>2. cache[k] # NoObject
      BY <3>1, QuietCache DEF Base
    <3> QED
      BY <2>1, <3>2 DEF Begin
  <2>4. Quiet(k) /\ api'[k] = api[k]
    BY <1>1, <2>1, <2>2, <2>3, QuietFrom, LoopAssumption DEF Base
  <2>5. Live(k)
    BY <1>2, <2>4 DEF Live, Exists
  <2>6. PICK n : n = api[k].spec.name
    OBVIOUS
  <2>7. n \in Names
    BY <2>5, <2>6, ApiGenuine, AllowedNames DEF Genuine, Base, Live, Exists
  <2>8. Reachable(n) /\ ~(Creating /\ Name = n)
    <3>1. CASE req = k
      <4>1. pc \in {"status", "role"} /\ obj = api[k]
        BY <2>1, <2>4, <2>5, <3>1, LastStep
      <4> QED
        BY <2>6, <4>1 DEF ReachInv, Base, RequestInv, NetworkInv, Created, Creating, Name
    <3>2. CASE req # k
      <4>1. Reachable(n)
        BY <2>4, <2>5, <2>6, <3>2 DEF ReachInv, ReachableWhenIdle, Idle, Quiet, Reachable
      <4>2. ~(Creating /\ Name = n)
        BY <2>5, <2>6, <3>2, PassNames DEF Creating, Live
      <4> QED
        BY <4>1, <4>2
    <3> QED
      BY <3>1, <3>2
  <2>9. Reachable(n)'
    BY <2>7, <2>8, ReachableStays DEF Base
  <2> QED
    BY <2>4, <2>6, <2>9 DEF Reachable
<1>3. ReachableWhenIdle'
  BY <1>2 DEF ReachableWhenIdle, Reachable
<1>4. (pc = "role" => Reachable(Name))'
  BY RoleReached DEF ReachInv
<1> QED
  BY <1>3, <1>4 DEF ReachInv

(***************************************************************************)
(* The invariant and the properties.                                       *)
(***************************************************************************)

\* Where no owner drops an expirationPolicy, there is no management policy without one.
LEMMA PolicyStep ==
  ASSUME Exclusive, Separate, Steady, Base, PolicyInv, [Next]_vars
  PROVE  PolicyInv'
<1> SUFFICES ASSUME NEW k \in Keys, NEW s \in Allowed[k], s.expiration = NoExpiration
             PROVE  accounts'[AccountOf[s.name]].policy = NoExpiration
  BY DEF PolicyInv
<1>1. s.name \in Names /\ accounts[AccountOf[s.name]].policy = NoExpiration
  BY AllowedNames DEF PolicyInv
<1>2. CASE UNCHANGED accounts
  BY <1>1, <1>2
<1>3. CASE ~UNCHANGED accounts /\ AccountOf[s.name] # Account
  BY <1>1, <1>3, AccountMoves, InAccount DEF Base
<1>4. CASE ~UNCHANGED accounts /\ AccountOf[s.name] = Account
  <2>1. s.name = Name /\ pc # "idle"
    BY <1>1, <1>4, AccountMoves DEF Separate, Account, Base
  <2>2. k = req /\ obj.spec \in Allowed[req]
    BY <2>1, PassNames
  <2>3. obj.spec.expiration = NoExpiration
    BY <2>2 DEF Steady
  <2>4. NoAccount.policy = NoExpiration
    BY DEF NoAccount
  <2> QED
    BY <1>1, <1>4, <2>3, <2>4, AccountMoves DEF Base, TheAccount
<1> QED
  BY <1>2, <1>3, <1>4

\* What is ready, or about to be, stays usable.
LEMMA UsableStep ==
  ASSUME Exclusive, Separate, Foreign = {}, Base, NoOrphanAccounts, UsableInv, [Next]_vars
  PROVE  UsableInv'
<1>1. Base' /\ NoOrphanAccounts'
  BY BaseHolds, OrphanStep
<1>2. FreedInv'
  BY FreedStep DEF UsableInv
<1>3. (Created => Usable(Name))'
  BY CreatedStep
<1>4. (\A k \in Keys : Live(k) /\ api[k].status.ready => Usable(api[k].status.id))'
  BY ReadyStep DEF Live, Exists
<1> QED
  BY <1>1, <1>2, <1>3, <1>4 DEF UsableInv

\* At first there is nothing in the cloud.
LEMMA AzureInvInit ==
  ASSUME Exclusive, Init
  PROVE  AzureInv
<1>1. NoAccount.exists = FALSE /\ NoAccount.policy = NoExpiration
  BY DEF NoAccount
<1>2. RequestInv
  BY BaseHolds DEF Base
<1>3. NoOrphanAccounts
  BY <1>1, InAccount DEF Init, NoOrphanAccounts
<1>4. ReachInv
  BY DEF Init, LoopInit, ReachInv, ReachableWhenIdle, Live, Exists
<1>5. UsableInv
  BY AllowedNames DEF Init, LoopInit, UsableInv, FreedInv, Created, Live, Exists
<1>6. PolicyInv
  BY <1>1, InAccount, AllowedNames DEF Init, PolicyInv
<1> QED
  BY <1>2, <1>3, <1>4, <1>5, <1>6 DEF AzureInv

\* The invariant of the adapter and that of the loop hold in every reachable state, with
\* any number of objects and rivals, any lag of the caches, and whoever deletes Secrets.
THEOREM AzureInvariance ==
  ASSUME Exclusive
  PROVE  Spec => [](Base /\ AzureInv)
<1>1. Init => Base /\ AzureInv
  BY BaseHolds, AzureInvInit
<1>2. Base /\ AzureInv /\ [Next]_vars => Base' /\ AzureInv'
  <2> SUFFICES ASSUME Base, AzureInv, [Next]_vars PROVE Base' /\ AzureInv'
    OBVIOUS
  <2>1. Base' /\ RequestInv'
    BY BaseHolds DEF Base
  <2>2. ASSUME Separate
        PROVE  /\ NoOrphanAccounts' /\ ReachInv'
               /\ Foreign = {} => UsableInv'
               /\ Steady => PolicyInv'
    <3>1. /\ NoOrphanAccounts /\ ReachInv
          /\ Foreign = {} => UsableInv
          /\ Steady => PolicyInv
      BY <2>2 DEF AzureInv
    <3>2. NoOrphanAccounts'
      BY <2>2, <3>1, OrphanStep
    <3>3. ReachInv'
      BY <2>2, <3>1, ReachStep
    <3>4. Foreign = {} => UsableInv'
      BY <2>2, <3>1, UsableStep
    <3>5. Steady => PolicyInv'
      BY <2>2, <3>1, PolicyStep
    <3> QED
      BY <3>2, <3>3, <3>4, <3>5
  <2> QED
    BY <2>1, <2>2 DEF AzureInv, Separate, Steady
<1> QED
  BY <1>1, <1>2, PTL DEF Spec

\* An account and a Secret exist only under a Bucket object that carries the finalizer,
\* with any number of objects and rivals and whatever request is cut short, as long as
\* no two buckets share an account and no two objects a bucket.
THEOREM NoAccountIsOrphaned ==
  ASSUME Exclusive, Separate
  PROVE  Spec => []NoOrphanAccounts
<1>1. AzureInv => NoOrphanAccounts
  BY DEF AzureInv
<1> QED
  BY <1>1, AzureInvariance, PTL

\* When nothing is left to do for a live Bucket its account, if closed to the public, has
\* its private endpoint and its A record, whenever the mode was switched and whichever
\* request failed, as long as no two buckets share an account.
THEOREM IdleIsReachable ==
  ASSUME Exclusive, Separate
  PROVE  Spec => []ReachableWhenIdle
<1>1. AzureInv => ReachableWhenIdle
  BY DEF AzureInv, ReachInv
<1> QED
  BY <1>1, AzureInvariance, PTL

\* The bucket of a ready Bucket that is not being deleted has its account, its container
\* and its Secret, with any number of objects and rivals, any lag of the caches, and
\* whoever deletes Secrets, as long as no two buckets share an account and others put no
\* finalizers on Buckets.
THEOREM ReadyIsUsable ==
  ASSUME Exclusive, Separate, Foreign = {}
  PROVE  Spec => []ReadyMeansUsable
<1>1. Base /\ AzureInv => ReadyMeansUsable
  <2> SUFFICES ASSUME Base, AzureInv, NEW k \in Keys, Live(k), api[k].status.ready
               PROVE  LET n == api[k].status.id
                      IN accounts[AccountOf[n]].exists /\ containers[n].exists
                         /\ secrets[n] # "none"
    BY DEF ReadyMeansUsable
  <2>1. Usable(api[k].status.id)
    BY DEF AzureInv, UsableInv
  <2>2. api[k].status.id \in Names
    BY ReadyName DEF Live, Exists
  <2> QED
    BY <2>1, <2>2 DEF Usable, Base, RequestInv, BuiltInv, Contained
<1> QED
  BY <1>1, AzureInvariance, PTL

(***************************************************************************)
(* The adapter implements the contract.                                    *)
(***************************************************************************)

\* The moves of a pass are the contract's.
LEMMA SamePass ==
  /\ \A s : Goto(s) <=> Contract!Goto(s)
  /\ Finish <=> Contract!Finish
  /\ Retry <=> Contract!Retry
  /\ faulty /\ Retry <=> Contract!Fail
BY DEF Goto, Contract!Goto, Finish, Contract!Finish, Retry, Contract!Retry, Contract!Fail

\* The steps of the loop are the contract's.
LEMMA SameLoop ==
  /\ \A k : OthersAct(k) <=> Contract!OthersAct(k)
  /\ \A k : Watch(k) <=> Contract!Watch(k)
  /\ \A k : Resync(k) <=> Contract!Resync(k)
  /\ \A k : Begin(k) <=> Contract!Begin(k)
  /\ Crash <=> Contract!Crash
  /\ Stabilize <=> Contract!Stabilize
  /\ ControllerStep <=> Contract!ControllerStep
<1>1. \A k : OthersAct(k) <=> Contract!OthersAct(k)
  BY DEF OthersAct, UserCreate, UserEdit, UserDelete, Hold, Release, Live, Exists,
     Write, Stored, workerVars, Contract!OthersAct, Contract!UserCreate, Contract!UserEdit,
     Contract!UserDelete, Contract!Hold, Contract!Release, Contract!Live, Contract!Exists,
     Contract!Write, Contract!Stored, Contract!workerVars
<1>2. /\ \A k : Watch(k) <=> Contract!Watch(k)
      /\ \A k : Resync(k) <=> Contract!Resync(k)
      /\ \A k : Begin(k) <=> Contract!Begin(k)
  BY DEF Watch, Resync, Begin, clusterVars, Contract!Watch, Contract!Resync,
     Contract!Begin, Contract!clusterVars
<1>3. (Crash <=> Contract!Crash) /\ (Stabilize <=> Contract!Stabilize)
  BY DEF Crash, Stabilize, Exists, clusterVars, workerVars, Contract!Crash,
     Contract!Stabilize, Contract!Exists, Contract!clusterVars, Contract!workerVars
<1>4. GetCluster <=> Contract!GetCluster
  BY DEF GetCluster, Goto, Fail, Retry, clusterVars, Contract!GetCluster, Contract!Goto,
     Contract!Fail, Contract!Retry, Contract!clusterVars
<1>5. AddFinalizer <=> Contract!AddFinalizer
  BY DEF AddFinalizer, Goto, Fail, Retry, clusterVars, Exists, Refuses, Relisted, Write,
     Contract!AddFinalizer, Contract!Goto, Contract!Fail, Contract!Retry,
     Contract!clusterVars, Contract!Exists, Contract!Refuses, Contract!Relisted,
     Contract!Write
<1>6. PatchStatus <=> Contract!PatchStatus
  BY DEF PatchStatus, Goto, Fail, Retry, Finish, clusterVars, Exists, Merge, Write,
     Contract!PatchStatus, Contract!Goto, Contract!Fail, Contract!Retry, Contract!Finish,
     Contract!clusterVars, Contract!Exists, Contract!Merge, Contract!Write
<1>7. RemoveFinalizer <=> Contract!RemoveFinalizer
  BY DEF RemoveFinalizer, Fail, Retry, Finish, clusterVars, Exists, Refuses, Relisted,
     Stored, Write, Contract!RemoveFinalizer, Contract!Fail, Contract!Retry,
     Contract!Finish, Contract!clusterVars, Contract!Exists, Contract!Refuses,
     Contract!Relisted, Contract!Stored, Contract!Write
<1> QED
  BY <1>1, <1>2, <1>3, <1>4, <1>5, <1>6, <1>7 DEF ControllerStep, Contract!ControllerStep

\* A change of the account and the container of the bucket at hand is a change of what
\* the contract sees of that bucket.
LEMMA StoreSet ==
  ASSUME Separate, CloudOK, Name \in Names, NEW a, NEW c,
         \A x \in Accounts : x # Account => accounts'[x] = accounts[x],
         \A n \in Names : n # Name => containers'[n] = containers[n],
         accounts'[Account] = a, containers'[Name] = c
  PROVE  /\ StoreOf' = [StoreOf EXCEPT ![Name] = BucketSeen(a, c)]
         /\ UNCHANGED RolesOf
         /\ StoreOf[Name] = BucketSeen(TheAccount, TheContainer)
<1>1. \A n \in Names : AccountOf[n] \in Accounts /\ (AccountOf[n] = Account <=> n = Name)
  BY InAccount DEF Separate, Account
<1>2. \A n \in Names : BucketSeen(accounts'[AccountOf[n]], containers'[n]) =
         IF n = Name THEN BucketSeen(a, c) ELSE BucketSeen(accounts[AccountOf[n]], containers[n])
  BY <1>1
<1>3. StoreOf' = [n \in Names |-> BucketSeen(accounts'[AccountOf[n]], containers'[n])]
  BY DEF StoreOf, BucketSeen
<1>4. StoreOf' = [StoreOf EXCEPT ![Name] = BucketSeen(a, c)]
  BY <1>2, <1>3 DEF StoreOf
<1> QED
  BY <1>4 DEF StoreOf, RolesOf, TheAccount, TheContainer, Account

\* Where neither accounts nor containers change, nothing does that the contract sees.
LEMMA StoreStays ==
  ASSUME UNCHANGED <<accounts, containers>>
  PROVE  UNCHANGED <<StoreOf, RolesOf>>
BY DEF StoreOf, RolesOf, BucketSeen

\* The settings that the contract sees.
LEMMA SeenSettings ==
  /\ \A a, c : BucketSeen(a, c).exists = c.exists
  /\ \A a, c : c.exists = FALSE => BucketSeen(a, c) = Contract!Absent
  /\ \A a, c : c.exists = TRUE => BucketSeen(a, c) = Contract!Carrying(BucketSeen(a, c).carries)
  /\ \A a, c : c.exists = TRUE /\ c.tags = a.tags =>
        BucketSeen(a, c).carries = [expiration |-> a.policy, tags |-> c.tags]
  /\ \A a \in AccountRecord, c \in ContainerRecord : a.tags \in TagSets =>
        BucketSeen(a, c).carries \in Contract!StoreSettings \cup {Nothing}
<1>1. /\ \A a, c : BucketSeen(a, c).exists = c.exists
      /\ \A a, c : c.exists = FALSE => BucketSeen(a, c) = Contract!Absent
      /\ \A a, c : c.exists = TRUE =>
            BucketSeen(a, c) = Contract!Carrying(BucketSeen(a, c).carries)
      /\ \A a, c : c.exists = TRUE /\ c.tags = a.tags =>
            BucketSeen(a, c).carries = [expiration |-> a.policy, tags |-> c.tags]
  BY DEF BucketSeen, Contract!Absent, Contract!Carrying
<1>2. ASSUME NEW a \in AccountRecord, NEW c \in ContainerRecord, a.tags \in TagSets
      PROVE  BucketSeen(a, c).carries \in Contract!StoreSettings \cup {Nothing}
  <2>1. CASE c.exists /\ c.tags = a.tags
    <3>1. BucketSeen(a, c).carries = [expiration |-> a.policy, tags |-> c.tags]
      BY <2>1 DEF BucketSeen
    <3>2. a.policy \in Expirations
      BY DEF AccountRecord
    <3> QED
      BY <1>2, <2>1, <3>1, <3>2 DEF Contract!StoreSettings
  <2>2. CASE ~(c.exists /\ c.tags = a.tags)
    <3>1. BucketSeen(a, c).carries = Nothing
      BY <2>2 DEF BucketSeen
    <3> QED
      BY <3>1
  <2> QED
    BY <2>1, <2>2
<1> QED
  BY <1>1, <1>2

\* The bucket exists with some settings.
LEMMA BucketUnsettled ==
  ASSUME Separate, CloudOK, Name \in Names, pc \in {"create", "update", "configure"},
         NEW a \in AccountRecord, NEW c \in ContainerRecord,
         c.exists = TRUE, a.tags \in TagSets,
         \A x \in Accounts : x # Account => accounts'[x] = accounts[x],
         \A n \in Names : n # Name => containers'[n] = containers[n],
         accounts'[Account] = a, containers'[Name] = c
  PROVE  /\ Contract!Unsettled /\ UNCHANGED RolesOf
         /\ StoreOf' = [StoreOf EXCEPT ![Name] = Contract!Carrying(BucketSeen(a, c).carries)]
<1>1. StoreOf' = [StoreOf EXCEPT ![Name] = BucketSeen(a, c)] /\ UNCHANGED RolesOf
  BY StoreSet
<1>2. PICK t \in Contract!StoreSettings \cup {Nothing} : t = BucketSeen(a, c).carries
  BY SeenSettings
<1>3. StoreOf' = [StoreOf EXCEPT ![Name] = Contract!Carrying(t)]
  <2>1. BucketSeen(a, c) = Contract!Carrying(BucketSeen(a, c).carries)
    BY SeenSettings
  <2>2. BucketSeen(a, c) = Contract!Carrying(t)
    BY <1>2, <2>1
  <2> QED
    BY <1>1, <2>2
<1>4. Contract!BucketWith(t)
  BY <1>3 DEF Contract!BucketWith, Name
<1> QED
  BY <1>1, <1>2, <1>3, <1>4 DEF Contract!Unsettled

\* Requests that change nothing the contract sees are steps it does not take.
LEMMA Stutters ==
  ASSUME UNCHANGED <<clusterVars, workerVars, faulty, accounts, containers>>
  PROVE  UNCHANGED Contract!vars
BY StoreStays DEF Contract!vars, Contract!loopVars, clusterVars, workerVars

\* A service call of the contract that returns.
LEMMA Served ==
  ASSUME UNCHANGED <<clusterVars, faulty>>,
         \/ Contract!ExistsBucket \/ Contract!CreateBucket \/ Contract!UpdateBucket
         \/ Contract!ConfigureBucket \/ Contract!ConfigureRole
         \/ Contract!ExistsBucketDelete \/ Contract!DeleteBucket \/ Contract!DeleteRole
  PROVE  Contract!Next
BY DEF Contract!Next, Contract!ServiceCall, clusterVars, Contract!clusterVars

\* A call that has done something and goes on, or fails.
LEMMA CreatingGoesOn ==
  ASSUME UNCHANGED <<clusterVars, faulty>>, Contract!Unsettled, Creating,
         UNCHANGED workerVars \/ RequestFails
  PROVE  Contract!Next
<1>1. CASE UNCHANGED workerVars
  BY <1>1 DEF Contract!Next, Contract!Progress, Contract!loopVars, clusterVars, workerVars
<1>2. CASE RequestFails
  <2>1. Contract!Fail
    BY <1>2, SamePass DEF RequestFails, ReturnError
  <2> QED
    BY <2>1, Served DEF Creating, Contract!CreateBucket, Contract!UpdateBucket
<1> QED
  BY <1>1, <1>2

\* A call that has done nothing goes on, fails or gives up.
LEMMA NothingDone ==
  ASSUME UNCHANGED <<clusterVars, faulty, accounts, containers>>,
         Creating \/ pc = "deleteBucket",
         UNCHANGED workerVars \/ ReturnError
  PROVE  [Contract!Next]_Contract!vars
<1>1. UNCHANGED <<StoreOf, RolesOf>>
  BY StoreStays
<1>2. CASE UNCHANGED workerVars
  BY <1>2, Stutters
<1>3. CASE ReturnError
  <2>1. Contract!Refused
    BY <1>1, <1>3, SamePass DEF Contract!Refused, ReturnError, clusterVars,
       Contract!clusterVars, Creating
  <2> QED
    BY <2>1 DEF Contract!Next
<1> QED
  BY <1>2, <1>3

\* ExistsBucket.
LEMMA ExistsBucketRefines ==
  ASSUME Base, CheckNameAvailability \/ ExistsContainer, UNCHANGED <<clusterVars, faulty>>
  PROVE  [Contract!Next]_Contract!vars
<1>1. pc \in {"exists", "existsDelete"} /\ UNCHANGED <<accounts, containers>>
  BY CallStep DEF CheckNameAvailability, ExistsContainer, RequestInv, Base, azureVars
<1>2. Name \in Names /\ TheContainer \in ContainerRecord
  BY <1>1, Target DEF Base
<1>3. UNCHANGED <<StoreOf, RolesOf>>
  BY <1>1, StoreStays
<1>4. StoreOf[obj.spec.name].exists = TheContainer.exists
  BY <1>2, SeenSettings DEF StoreOf, TheContainer, Name
<1>5. ~Unavailable => TheContainer.exists = FALSE
  <2> SUFFICES ASSUME ~Unavailable PROVE TheContainer.exists = FALSE
    OBVIOUS
  <2>1. ~accounts[AccountOf[Name]].exists
    BY DEF Unavailable, Account
  <2>2. ~containers[Name].exists
    BY <1>2, <2>1 DEF Base, RequestInv, BuiltInv, Contained
  <2>3. TheContainer.exists \in BOOLEAN
    BY <1>2 DEF ContainerRecord
  <2> QED
    BY <2>2, <2>3 DEF TheContainer
<1>6. ASSUME NEW e, e = TheContainer.exists, Decide(e) \/ CheckFails
      PROVE  Contract!Next
  <2>1. CASE pc = "exists"
    <3>1. \/ Goto(IF e THEN "update" ELSE "create") /\ UNCHANGED obj
          \/ faulty /\ Retry
      BY <1>6, <2>1 DEF Decide, CheckFails, Return, RequestFails, ReturnError
    <3>2. Contract!ExistsBucket
      BY <1>3, <1>4, <1>6, <2>1, <3>1, SamePass DEF Contract!ExistsBucket
    <3> QED
      BY <3>2, Served
  <2>2. CASE pc = "existsDelete"
    <3>1. \/ e /\ obj.spec.reclaim = "Delete" /\ Goto("deleteBucket") /\ UNCHANGED obj
          \/ ~(e /\ obj.spec.reclaim = "Delete") /\ Finish
          \/ faulty /\ Finish
      BY <1>6, <2>2 DEF Decide, CheckFails, Return, RequestFails
    <3>2. Contract!ExistsBucketDelete
      BY <1>3, <1>4, <1>6, <2>2, <3>1, SamePass DEF Contract!ExistsBucketDelete
    <3> QED
      BY <3>2, Served
  <2> QED
    BY <1>1, <2>1, <2>2
<1>7. CASE Ask("GetContainer")
  BY <1>1, <1>7, Stutters DEF Ask
<1>8. CASE (~Unavailable /\ Decide(FALSE)) \/ Decide(TheContainer.exists) \/ CheckFails
  BY <1>5, <1>6, <1>8
<1> QED
  BY <1>7, <1>8 DEF CheckNameAvailability, ExistsContainer, TheContainer

\* The account: nothing is seen of it before its container is there.
LEMMA AccountRefines ==
  ASSUME Separate, Base, UpsertStorageAccount, UNCHANGED <<clusterVars, faulty>>, [Next]_vars
  PROVE  [Contract!Next]_Contract!vars
<1>1. Creating /\ call = "CreateAccount" /\ pc # "idle"
  BY CallStep DEF UpsertStorageAccount, RequestInv, Creating, Base
<1>2. /\ Name \in Names /\ Account \in Accounts /\ obj.spec.tags \in TagSets
      /\ TheAccount \in AccountRecord /\ TheContainer \in ContainerRecord
  BY <1>1, Target DEF Base
<1>3. UNCHANGED containers /\ (UNCHANGED workerVars \/ ReturnError)
  BY DEF UpsertStorageAccount, AzureRequest, RequestFails, Ask, azureVars
<1>4. CASE UNCHANGED accounts
  BY <1>1, <1>3, <1>4, NothingDone
<1>5. CASE ~UNCHANGED accounts
  <2>1. /\ \A x \in Accounts : x # Account => accounts'[x] = accounts[x]
        /\ accounts'[Account].tags = obj.spec.tags
    BY <1>1, <1>5, AccountMoves DEF Base, Creating
  <2>2. \A n \in Names : n # Name => containers'[n] = containers[n]
    BY <1>3
  <2>3. PICK a \in AccountRecord : a = accounts'[Account]
    BY <1>2, KeptStep DEF Base, CloudOK
  <2>4. CASE TheContainer.exists = FALSE
    <3>1. /\ StoreOf' = [StoreOf EXCEPT ![Name] = BucketSeen(a, TheContainer)]
          /\ UNCHANGED RolesOf
          /\ StoreOf[Name] = BucketSeen(TheAccount, TheContainer)
      BY <1>2, <1>3, <2>1, <2>2, <2>3, StoreSet DEF Base, TheContainer
    <3>2. BucketSeen(a, TheContainer) = StoreOf[Name]
      BY <2>4, <3>1, SeenSettings
    <3>3. UNCHANGED StoreOf
      BY <3>1, <3>2 DEF StoreOf
    <3>4. CASE UNCHANGED workerVars
      BY <3>1, <3>3, <3>4 DEF Contract!vars, Contract!loopVars, clusterVars, workerVars
    <3>5. CASE ReturnError
      <4>1. Contract!Refused
        BY <1>1, <3>1, <3>3, <3>5, SamePass DEF Contract!Refused, ReturnError, clusterVars,
           Contract!clusterVars, Creating
      <4> QED
        BY <4>1 DEF Contract!Next
    <3> QED
      BY <1>3, <3>4, <3>5
  <2>5. CASE TheContainer.exists = TRUE
    <3>1. Contract!Unsettled
      BY <1>1, <1>2, <1>3, <2>1, <2>2, <2>3, <2>5, BucketUnsettled DEF Base, Creating,
         TheContainer
    <3>2. UNCHANGED workerVars \/ RequestFails
      BY <1>5 DEF UpsertStorageAccount, AzureRequest, Ask, azureVars
    <3> QED
      BY <1>1, <3>1, <3>2, CreatingGoesOn
  <2> QED
    BY <1>2, <2>4, <2>5 DEF ContainerRecord
<1> QED
  BY <1>4, <1>5

\* The container.
LEMMA ContainerRefines ==
  ASSUME Separate, Base, UpsertContainer, UNCHANGED <<clusterVars, faulty>>
  PROVE  [Contract!Next]_Contract!vars
<1>1. Creating /\ call = "UpsertContainer" /\ pc # "idle" /\ AccountMade
  BY CallStep DEF UpsertContainer, RequestInv, Creating, AccountMade, Base
<1>2. /\ Name \in Names /\ obj.spec.tags \in TagSets /\ TheAccount \in AccountRecord
      /\ TheAccount.tags = obj.spec.tags
  BY <1>1, Target DEF Base, RequestInv, BuiltInv
<1>3. UNCHANGED accounts
  BY DEF UpsertContainer, AzureRequest, azureVars
<1>4. CASE UNCHANGED containers
  BY <1>1, <1>3, <1>4, NothingDone DEF UpsertContainer, AzureRequest, Ask, RequestFails
<1>5. CASE ~UNCHANGED containers
  <2>1. /\ containers' = [containers EXCEPT ![Name] = [exists |-> TRUE, tags |-> obj.spec.tags]]
        /\ UNCHANGED workerVars \/ RequestFails
    BY <1>5 DEF UpsertContainer, AzureRequest, Ask, azureVars
  <2>2. PICK c \in ContainerRecord : c = [exists |-> TRUE, tags |-> obj.spec.tags]
    BY <1>2 DEF ContainerRecord
  <2>3. /\ containers'[Name] = c /\ c.exists = TRUE
        /\ \A n \in Names : n # Name => containers'[n] = containers[n]
    BY <1>2, <2>1, <2>2 DEF Base, CloudOK
  <2>4. accounts'[Account] = TheAccount
    BY <1>3 DEF TheAccount
  <2>5. Contract!Unsettled
    BY <1>1, <1>2, <1>3, <2>3, <2>4, BucketUnsettled DEF Base, Creating
  <2> QED
    BY <1>1, <2>1, <2>5, CreatingGoesOn
<1> QED
  BY <1>4, <1>5

\* The settings that the bucket of a pass carries once its container is made.
LEMMA Carried ==
  ASSUME Separate, Base, ContainerMade, UNCHANGED <<accounts, containers>>,
         pc \in {"create", "update", "configure"}
  PROVE  Contract!Unsettled
<1>1. pc # "idle" /\ AccountMade
  BY DEF AccountMade
<1>2. /\ Name \in Names /\ TheAccount \in AccountRecord /\ TheContainer \in ContainerRecord
      /\ obj.spec.tags \in TagSets
  BY <1>1, Target DEF Base
<1>3. TheContainer.exists /\ TheAccount.tags = obj.spec.tags
  BY <1>1 DEF Base, RequestInv, BuiltInv
<1>4. TheContainer.exists = TRUE
  BY <1>2, <1>3 DEF ContainerRecord
<1> QED
  BY <1>2, <1>3, <1>4, BucketUnsettled DEF Base, TheAccount, TheContainer

\* The Secret, and with it the end of CreateBucket and of UpdateBucket.
LEMMA SecretRefines ==
  ASSUME Separate, Base, UpsertSecret, UNCHANGED <<clusterVars, faulty>>
  PROVE  [Contract!Next]_Contract!vars
<1>1. /\ Creating /\ ContainerMade /\ UNCHANGED <<accounts, containers>>
      /\ ReturnError \/ Return("configure")
  BY DEF UpsertSecret, Creating, ContainerMade, EndpointMade, SecretRequest, RequestFails,
     azureVars
<1>2. CASE ReturnError
  BY <1>1, <1>2, NothingDone
<1>3. CASE Return("configure")
  <2>1. Goto("configure") /\ UNCHANGED obj
    BY <1>3 DEF Return
  <2>2. UNCHANGED <<StoreOf, RolesOf>>
    BY <1>1, StoreStays
  <2>3. Contract!Unsettled
    BY <1>1, Carried DEF Creating
  <2>4. Contract!CreateBucket \/ Contract!UpdateBucket
    BY <1>1, <2>1, <2>2, <2>3, SamePass DEF Creating, Contract!CreateBucket,
       Contract!UpdateBucket
  <2> QED
    BY <2>4, Served
<1> QED
  BY <1>1, <1>2, <1>3

\* The management policy, and with it the end of ConfigureBucket.
LEMMA PolicyRefines ==
  ASSUME Exclusive, Separate, Base, PolicyInv, SetLifecycleRules,
         UNCHANGED <<clusterVars, faulty>>, [Next]_vars
  PROVE  [Contract!Next]_Contract!vars
<1>1. pc = "configure" /\ Created /\ ContainerMade /\ AccountMade
  BY CallStep DEF SetLifecycleRules, RequestInv, Base, Created, ContainerMade, AccountMade
<1>2. /\ Name \in Names /\ Account \in Accounts /\ TheAccount \in AccountRecord
      /\ TheContainer \in ContainerRecord /\ obj.spec.tags \in TagSets
  BY <1>1, Target DEF Base
<1>3. /\ TheContainer.exists = TRUE /\ TheContainer.tags = obj.spec.tags
      /\ TheAccount.tags = obj.spec.tags
  BY <1>1, <1>2 DEF Base, RequestInv, BuiltInv, ContainerRecord
<1>4. UNCHANGED containers /\ (Return("status") \/ RequestFails)
  BY DEF SetLifecycleRules, AzureRequest, azureVars
<1>5. PICK a \in AccountRecord : a = accounts'[Account]
  BY <1>2, KeptStep DEF Base, CloudOK
<1>6. /\ \A x \in Accounts : x # Account => accounts'[x] = accounts[x]
      /\ a.tags = obj.spec.tags
  BY <1>1, <1>3, <1>5, AccountMoves DEF Base, TheAccount, Creating
<1>7. /\ Contract!Unsettled /\ UNCHANGED RolesOf
      /\ StoreOf' = [StoreOf EXCEPT ![Name] =
                        Contract!Carrying(BucketSeen(a, TheContainer).carries)]
  BY <1>1, <1>2, <1>3, <1>4, <1>5, <1>6, BucketUnsettled DEF Base, TheContainer
<1>8. CASE RequestFails
  <2>1. Contract!Fail
    BY <1>8, SamePass DEF RequestFails, ReturnError
  <2> QED
    BY <1>1, <1>7, <2>1, Served DEF Contract!ConfigureBucket
<1>9. CASE Return("status")
  <2>1. a.policy = obj.spec.expiration
    <3>1. PICK r \in AccountRecord : r = accounts[Account]
      BY <1>2 DEF TheAccount
    <3> DEFINE e == IF obj.spec.expiration = NoExpiration THEN r.policy
                                                         ELSE obj.spec.expiration
    <3>2. accounts' = [accounts EXCEPT ![Account].policy = e]
      BY <1>9, <3>1 DEF SetLifecycleRules, AzureRequest, Return, RequestFails, ReturnError,
         Goto, Retry
    <3>3. e = obj.spec.expiration
      <4>1. obj.spec \in Allowed[req] /\ req \in Keys
        BY <1>1, PassNames
      <4>2. obj.spec.expiration = NoExpiration => r.policy = NoExpiration
        BY <3>1, <4>1 DEF PolicyInv, Account, Name
      <4> QED
        BY <4>2
    <3> HIDE DEF e
    <3> DEFINE c == [r EXCEPT !.policy = e]
    <3>4. accounts' = [accounts EXCEPT ![Account] = c]
      BY <3>1, <3>2
    <3>5. c.policy = e
      BY DEF AccountRecord
    <3> HIDE DEF c
    <3>6. accounts'[Account] = c
      BY <1>2, <3>4 DEF Base, CloudOK
    <3> QED
      BY <1>5, <3>3, <3>5, <3>6
  <2>2. BucketSeen(a, TheContainer).carries = Contract!StoreSettingsOf(obj.spec)
    BY <1>3, <1>6, <2>1, SeenSettings DEF Contract!StoreSettingsOf
  <2>3. Contract!BucketWith(Contract!StoreSettingsOf(obj.spec))
    BY <1>7, <2>2 DEF Contract!BucketWith, Name
  <2>4. Contract!ConfigureBucket
    BY <1>1, <1>7, <1>9, <2>3, SamePass DEF Contract!ConfigureBucket, Return
  <2> QED
    BY <2>4, Served
<1> QED
  BY <1>4, <1>8, <1>9

\* The account goes: the contract sees the bucket go.
LEMMA DeleteAccountRefines ==
  ASSUME Separate, Base, DeleteStorageAccount, UNCHANGED <<clusterVars, faulty>>
  PROVE  [Contract!Next]_Contract!vars
<1>1. pc = "deleteBucket"
  BY CallStep DEF DeleteStorageAccount, RequestInv, Base
<1>2. Name \in Names /\ Account \in Accounts
  BY <1>1, Target DEF Base
<1>3. CASE UNCHANGED azureVars
  BY <1>1, <1>3, NothingDone DEF DeleteStorageAccount, AzureRequest, Ask, RequestFails,
     azureVars
<1>4. CASE /\ accounts' = [accounts EXCEPT ![Account] = NoAccount]
           /\ containers' = [n \in Names |-> IF AccountOf[n] = Account
                                             THEN NoContainer ELSE containers[n]]
           /\ UNCHANGED workerVars \/ RequestFails
  <2>1. /\ accounts'[Account] = NoAccount
        /\ \A x \in Accounts : x # Account => accounts'[x] = accounts[x]
    BY <1>2, <1>4 DEF Base, CloudOK
  <2>2. /\ containers'[Name] = NoContainer
        /\ \A n \in Names : n # Name => containers'[n] = containers[n]
    BY <1>2, <1>4 DEF Separate, Account
  <2>3. /\ StoreOf' = [StoreOf EXCEPT ![Name] = BucketSeen(NoAccount, NoContainer)]
        /\ UNCHANGED RolesOf
    BY <1>2, <2>1, <2>2, StoreSet DEF Base
  <2>4. BucketSeen(NoAccount, NoContainer) = Contract!Absent
    BY SeenSettings DEF NoContainer
  <2>5. Contract!BucketGone
    BY <2>3, <2>4 DEF Contract!BucketGone, Name
  <2>6. CASE UNCHANGED workerVars
    BY <1>1, <2>3, <2>5, <2>6 DEF Contract!Next, Contract!Progress, Contract!loopVars,
       clusterVars, workerVars
  <2>7. CASE RequestFails
    <3>1. Contract!Fail
      BY <2>7, SamePass DEF RequestFails, ReturnError
    <3> QED
      BY <1>1, <2>3, <2>5, <3>1, Served DEF Contract!DeleteBucket
  <2> QED
    BY <1>4, <2>6, <2>7
<1> QED
  BY <1>3, <1>4 DEF DeleteStorageAccount, AzureRequest, Ask

\* The Secret goes, and with it ends DeleteBucket.
LEMMA DeleteSecretRefines ==
  ASSUME Base, DeleteSecret, UNCHANGED <<clusterVars, faulty>>
  PROVE  [Contract!Next]_Contract!vars
<1>1. pc = "deleteBucket" /\ UNCHANGED <<accounts, containers>>
  BY CallStep DEF DeleteSecret, RequestInv, Base, azureVars
<1>2. Name \in Names /\ TheContainer \in ContainerRecord
  BY <1>1, Target DEF Base
<1>3. UNCHANGED <<StoreOf, RolesOf>>
  BY <1>1, StoreStays
<1>4. CASE ReturnError
  BY <1>1, <1>4, NothingDone
<1>5. CASE Return(IF obj.spec.role = NoRole THEN "release" ELSE "deleteRole")
  <2>1. ~accounts[AccountOf[Name]].exists
    BY <1>1 DEF DeleteSecret, Base, RequestInv, DeletedInv, TheAccount, Account
  <2>2. ~containers[Name].exists
    BY <1>2, <2>1 DEF Base, RequestInv, BuiltInv, Contained
  <2>3. containers[Name].exists = FALSE
    BY <1>2, <2>2 DEF TheContainer, ContainerRecord
  <2>4. StoreOf[Name] = Contract!Absent
    BY <1>2, <2>3, SeenSettings DEF StoreOf
  <2>5. Contract!BucketGone
    BY <1>2, <1>3, <2>4 DEF Contract!BucketGone, Name, StoreOf
  <2>6. Contract!DeleteBucket
    BY <1>1, <1>3, <1>5, <2>5, SamePass DEF Contract!DeleteBucket, Return
  <2> QED
    BY <2>6, Served
<1> QED
  BY <1>4, <1>5 DEF DeleteSecret, SecretRequest, RequestFails

\* The access role service, which has nothing to do for the contract either.
LEMMA RoleRefines ==
  ASSUME Base, ConfigureRole \/ DeleteRole, UNCHANGED <<clusterVars, faulty>>
  PROVE  [Contract!Next]_Contract!vars
<1>1. UNCHANGED <<StoreOf, RolesOf>>
  BY StoreStays DEF ConfigureRole, DeleteRole, azureVars
<1>2. CASE ConfigureRole
  <2>1. Contract!RoleWith(Contract!RoleSettingsOf(obj.spec))
    BY <1>1 DEF Contract!RoleWith
  <2>2. Contract!ConfigureRole
    BY <1>1, <1>2, <2>1, SamePass DEF ConfigureRole, Contract!ConfigureRole
  <2> QED
    BY <2>2, Served
<1>3. CASE DeleteRole
  <2>1. Contract!RoleGone
    BY <1>1 DEF Contract!RoleGone, RolesOf, Contract!Absent
  <2>2. Contract!DeleteRole
    BY <1>1, <1>3, <2>1, SamePass DEF DeleteRole, Return, Contract!DeleteRole
  <2> QED
    BY <2>2, Served
<1> QED
  BY <1>2, <1>3

\* Every step implements one of the contract's or none.
LEMMA StepRefines ==
  ASSUME Exclusive, Separate, Base, PolicyInv, [Next]_vars
  PROVE  [Contract!Next]_Contract!vars
<1>1. CASE Request
  <2>1. UNCHANGED <<clusterVars, faulty>>
    BY <1>1 DEF Request
  <2>2. CASE IsManagementClusterPrivate \/ UpsertPrivateEndpoint
             \/ UpsertPrivateEndpointARecords \/ ListKeys \/ GetSecret \/ PatchSecret
    <3>1. /\ Creating \/ pc = "deleteBucket"
          /\ UNCHANGED <<accounts, containers>>
          /\ UNCHANGED workerVars \/ ReturnError
      BY <2>2, CallStep DEF IsManagementClusterPrivate, UpsertPrivateEndpoint,
         UpsertPrivateEndpointARecords, ListKeys, GetSecret, PatchSecret, AzureRequest,
         SecretRequest, Ask, RequestFails, azureVars, Base, RequestInv
    <3> QED
      BY <2>1, <3>1, NothingDone
  <2> QED
    BY <1>1, <2>1, <2>2, ExistsBucketRefines, AccountRefines, ContainerRefines,
       SecretRefines, PolicyRefines, DeleteAccountRefines, DeleteSecretRefines, RoleRefines
       DEF Request
<1>2. CASE ~Request
  <2>1. UNCHANGED <<accounts, containers>>
    BY <1>2 DEF Next, vars, azureVars, LoopStep, SecretWatch, SecretDelete, Claim, SwitchMode
  <2>2. UNCHANGED <<StoreOf, RolesOf>>
    BY <2>1, StoreStays
  <2>3. \/ UNCHANGED loopVars
        \/ Others \/ Crash \/ ControllerStep
        \/ \E k \in Keys : Watch(k) \/ Begin(k)
    BY <1>2 DEF Next, vars, LoopStep, SecretWatch, SecretDelete, Claim, SwitchMode
  <2>4. CASE UNCHANGED loopVars
    BY <2>2, <2>4 DEF Contract!vars, Contract!loopVars, loopVars
  <2>5. CASE Others \/ Crash \/ ControllerStep \/ \E k \in Keys : Watch(k) \/ Begin(k)
    BY <2>2, <2>5, SameLoop DEF Others, Contract!Next, Contract!Environment
  <2> QED
    BY <2>3, <2>4, <2>5
<1> QED
  BY <1>1, <1>2

\* Every request to Azure or about a Secret implements a step of the services' contract or
\* nothing that the contract sees, and so the reconciler over Azure implements
\* BucketController, where no two buckets share an account and no owner drops an
\* expirationPolicy: both are needed (findings 3 and 4).
THEOREM AzureImplementsContract ==
  ASSUME Exclusive, Separate, Steady
  PROVE  Spec => ContractSpec
<1>1. Init => Contract!Init
  <2> SUFFICES ASSUME Init PROVE Contract!Init
    OBVIOUS
  <2>1. Contract!LoopInit
    BY DEF Init, LoopInit, Contract!LoopInit
  <2>2. \A a : BucketSeen(a, NoContainer) = Contract!Absent
    BY SeenSettings DEF NoContainer
  <2>3. StoreOf = [n \in Names |-> Contract!Absent]
    BY <2>2 DEF Init, StoreOf
  <2>4. RolesOf = [r \in Roles |-> Contract!Absent]
    BY DEF RolesOf, Contract!Absent
  <2> QED
    BY <2>1, <2>3, <2>4 DEF Contract!Init
<1>2. Base /\ AzureInv /\ [Next]_vars => [Contract!Next]_Contract!vars
  BY StepRefines DEF AzureInv
<1> QED
  BY <1>1, <1>2, AzureInvariance, PTL DEF Spec, ContractSpec, Contract!Spec
=============================================================================
