------------------------ MODULE AWSControllerProofs ------------------------
(***************************************************************************)
(* AWSController implements BucketController, and what follows.  Safe is   *)
(* the contract with the theorems proved of it.                            *)
(***************************************************************************)
EXTENDS AWSInvariant, FiniteSetTheorems, TLAPS

Safe == INSTANCE ConvergenceProofs WITH
    HasRoles <- TRUE, store <- StoreOf, roles <- RolesOf

(***************************************************************************)
(* The loop is the contract's.                                             *)
(***************************************************************************)

\* The assumptions of the contract are those made here.
LEMMA SafeAssumptions == Safe!LoopAssumption /\ Safe!ControllerAssumption
<1>1. Safe!LoopAssumption
  BY LoopAssumption DEF Safe!LoopAssumption, Safe!BucketSpec, Safe!Bucket,
     Safe!BucketStatus, BucketSpec, Bucket, BucketStatus
<1>2. Safe!ControllerAssumption
  BY AWSAssumption DEF Safe!ControllerAssumption, Safe!StoreSettings,
     Safe!RoleSettings
<1> QED
  BY <1>1, <1>2

\* Types and small predicates agree.
LEMMA SameTypes ==
  /\ LoopTypeOK <=> Safe!LoopTypeOK
  /\ Bucket = Safe!Bucket /\ Version = Safe!Version /\ Steps = Safe!Steps
  /\ BucketSpec = Safe!BucketSpec
  /\ \A k : Exists(k) <=> Safe!Exists(k)
BY DEF LoopTypeOK, Safe!LoopTypeOK, Bucket, Safe!Bucket, Version, Safe!Version,
   Steps, Safe!Steps, BucketSpec, Safe!BucketSpec, BucketStatus,
   Safe!BucketStatus, Exists, Safe!Exists

\* How a pass moves on and ends.
LEMMA SamePass ==
  /\ \A s : Goto(s) <=> Safe!Goto(s)
  /\ Finish <=> Safe!Finish
  /\ Retry <=> Safe!Retry
  /\ Fail <=> Safe!Fail
BY DEF Goto, Safe!Goto, Finish, Safe!Finish, Retry, Safe!Retry, Fail, Safe!Fail

\* The actions of the API server, the watch and the queue.
LEMMA SameEnvironment ==
  /\ \A k : OthersAct(k) <=> Safe!OthersAct(k)
  /\ \A k : Watch(k) <=> Safe!Watch(k)
  /\ \A k : Resync(k) <=> Safe!Resync(k)
  /\ \A k : Begin(k) <=> Safe!Begin(k)
  /\ Crash <=> Safe!Crash
  /\ Stabilize <=> Safe!Stabilize
<1>1. \A k : OthersAct(k) <=> Safe!OthersAct(k)
  BY DEF OthersAct, UserCreate, UserEdit, UserDelete, Hold, Release, Live, Exists,
     Write, Stored, workerVars, Safe!OthersAct, Safe!UserCreate, Safe!UserEdit,
     Safe!UserDelete, Safe!Hold, Safe!Release, Safe!Live, Safe!Exists, Safe!Write,
     Safe!Stored, Safe!workerVars
<1>2. /\ \A k : Watch(k) <=> Safe!Watch(k)
      /\ \A k : Resync(k) <=> Safe!Resync(k)
      /\ \A k : Begin(k) <=> Safe!Begin(k)
  BY DEF Watch, Resync, Begin, clusterVars, Safe!Watch, Safe!Resync, Safe!Begin,
     Safe!clusterVars
<1>3. (Crash <=> Safe!Crash) /\ (Stabilize <=> Safe!Stabilize)
  BY DEF Crash, Stabilize, Exists, clusterVars, workerVars, Safe!Crash,
     Safe!Stabilize, Safe!Exists, Safe!clusterVars, Safe!workerVars
<1> QED
  BY <1>1, <1>2, <1>3

\* The steps of Reconcile that patch a Bucket.
LEMMA SameController == ControllerStep <=> Safe!ControllerStep
<1>1. GetCluster <=> Safe!GetCluster
  BY DEF GetCluster, Goto, Fail, Retry, clusterVars, Safe!GetCluster, Safe!Goto,
     Safe!Fail, Safe!Retry, Safe!clusterVars
<1>2. AddFinalizer <=> Safe!AddFinalizer
  BY DEF AddFinalizer, Goto, Fail, Retry, clusterVars, Exists, Refuses, Relisted,
     Write, Safe!AddFinalizer, Safe!Goto, Safe!Fail, Safe!Retry,
     Safe!clusterVars, Safe!Exists, Safe!Refuses, Safe!Relisted, Safe!Write
<1>3. PatchStatus <=> Safe!PatchStatus
  BY DEF PatchStatus, Goto, Fail, Retry, Finish, clusterVars, Exists, Merge, Write,
     Safe!PatchStatus, Safe!Goto, Safe!Fail, Safe!Retry, Safe!Finish,
     Safe!clusterVars, Safe!Exists, Safe!Merge, Safe!Write
<1>4. RemoveFinalizer <=> Safe!RemoveFinalizer
  BY DEF RemoveFinalizer, Fail, Retry, Finish, clusterVars, Exists, Refuses,
     Relisted, Stored, Write, Safe!RemoveFinalizer, Safe!Fail,
     Safe!Retry, Safe!Finish, Safe!clusterVars, Safe!Exists, Safe!Refuses,
     Safe!Relisted, Safe!Stored, Safe!Write
<1> QED
  BY <1>1, <1>2, <1>3, <1>4 DEF ControllerStep, Safe!ControllerStep

\* A step of the loop that leaves the cloud alone is one of the contract's.
LEMMA LoopRefines ==
  ASSUME UNCHANGED <<StoreOf, RolesOf>>,
         \/ Others \/ ControllerStep
         \/ \E k \in Keys : Watch(k) \/ Begin(k)
  PROVE  Safe!Next
<1>1. CASE Others
  BY <1>1, SameEnvironment DEF Others, Safe!Next, Safe!Environment
<1>2. CASE ControllerStep
  BY <1>2, SameController DEF Safe!Next
<1>3. CASE \E k \in Keys : Watch(k) \/ Begin(k)
  BY <1>3, SameEnvironment DEF Safe!Next, Safe!Environment
<1> QED
  BY <1>1, <1>2, <1>3

(***************************************************************************)
(* The cloud as the contract sees it.                                      *)
(***************************************************************************)

BucketRecord == [exists : BOOLEAN, lifecycle : Expirations, secured : BOOLEAN,
                 tags : TagSets \cup {NoTags}, objects : SUBSET Objects]
RoleRecord == [exists : BOOLEAN, trust : Accesses \cup {NoPolicy},
               inline : [bucket : Names, access : Accesses] \cup {NoPolicy},
               tags : TagSets \cup {NoTags}, attached : BOOLEAN,
               profile : {"none", "empty", "member"}]

\* What a pass that makes requests works on.
LEMMA Target ==
  ASSUME TypeOK, pc # "idle"
  PROVE  /\ req \in Keys /\ obj \in Bucket /\ obj.spec \in BucketSpec
         /\ obj.spec.name \in Names /\ obj.spec.role \in Roles \cup {NoRole}
         /\ obj.spec.tags \in TagSets /\ obj.spec.access \in Accesses
         /\ obj.spec.expiration \in Expirations
         /\ TheBucket \in BucketRecord
         /\ obj.spec.role # NoRole => TheRole \in RoleRecord
<1>1. req \in Keys /\ obj \in Bucket
  BY DEF TypeOK, LoopTypeOK, Version
<1>2. obj.spec \in BucketSpec
  BY <1>1 DEF Bucket
<1>3. /\ obj.spec.name \in Names /\ obj.spec.role \in Roles \cup {NoRole}
      /\ obj.spec.tags \in TagSets /\ obj.spec.access \in Accesses
      /\ obj.spec.expiration \in Expirations
  BY <1>2 DEF BucketSpec
<1> QED
  BY <1>1, <1>2, <1>3 DEF TypeOK, TheBucket, TheRole, BucketRecord, RoleRecord

\* What the contract sees of a bucket or a role is of its types.
LEMMA SeenTypes ==
  /\ \A b \in BucketRecord : /\ BucketSeen(b).exists = b.exists
                             /\ BucketSeen(b).exists \in BOOLEAN
                             /\ BucketSeen(b).carries
                                   \in Safe!StoreSettings \cup {Nothing}
                             /\ BucketSeen(b) =
                                   [exists |-> b.exists,
                                    carries |-> BucketSeen(b).carries]
  /\ \A r \in RoleRecord : /\ RoleSeen(r).exists = r.exists
                           /\ RoleSeen(r).exists \in BOOLEAN
                           /\ RoleSeen(r).carries
                                 \in Safe!RoleSettings \cup {Nothing}
                           /\ RoleSeen(r) = [exists |-> r.exists,
                                             carries |-> RoleSeen(r).carries]
<1>1. ASSUME NEW b \in BucketRecord
      PROVE  /\ BucketSeen(b).exists = b.exists
             /\ BucketSeen(b).exists \in BOOLEAN
             /\ BucketSeen(b).carries \in Safe!StoreSettings \cup {Nothing}
             /\ BucketSeen(b) = [exists |-> b.exists,
                                 carries |-> BucketSeen(b).carries]
  BY DEF BucketSeen, BucketRecord, Safe!StoreSettings
<1>2. ASSUME NEW r \in RoleRecord
      PROVE  /\ RoleSeen(r).exists = r.exists
             /\ RoleSeen(r).exists \in BOOLEAN
             /\ RoleSeen(r).carries \in Safe!RoleSettings \cup {Nothing}
             /\ RoleSeen(r) = [exists |-> r.exists, carries |-> RoleSeen(r).carries]
  BY DEF RoleSeen, RoleRecord, Safe!RoleSettings
<1> QED
  BY <1>1, <1>2

\* The contract's types follow from the types here.
LEMMA ContractTypes ==
  ASSUME TypeOK, CallInv
  PROVE  Safe!TypeOK
<1>1. Safe!LoopTypeOK
  BY SameTypes DEF TypeOK
<1>2. StoreOf \in [Names -> [exists : BOOLEAN,
                             carries : Safe!StoreSettings \cup {Nothing}]]
  BY SeenTypes DEF TypeOK, StoreOf, BucketRecord
<1>3. RolesOf \in [Roles -> [exists : BOOLEAN,
                             carries : Safe!RoleSettings \cup {Nothing}]]
  BY SeenTypes DEF TypeOK, RolesOf, RoleRecord
<1> QED
  BY <1>1, <1>2, <1>3 DEF Safe!TypeOK, CallInv

\* A request that changes the bucket or the role changes what is seen of it.
LEMMA BucketSet ==
  ASSUME TypeOK, pc # "idle", NEW b, SetBucket(b)
  PROVE  /\ StoreOf' = [StoreOf EXCEPT ![obj.spec.name] = BucketSeen(b)]
         /\ UNCHANGED RolesOf
         /\ StoreOf[obj.spec.name] = BucketSeen(TheBucket)
         /\ BucketSeen(b) = BucketSeen(TheBucket) => UNCHANGED StoreOf
<1>1. obj.spec.name \in Names
  BY Target
<1>2. s3' = [s3 EXCEPT ![obj.spec.name] = b] /\ iam' = iam
  BY DEF SetBucket
<1>3. \A n \in Names : s3'[n] = IF n = obj.spec.name THEN b ELSE s3[n]
  BY <1>1, <1>2 DEF TypeOK
<1>4. StoreOf' = [StoreOf EXCEPT ![obj.spec.name] = BucketSeen(b)]
  BY <1>1, <1>3 DEF StoreOf
<1> QED
  BY <1>1, <1>2, <1>4 DEF StoreOf, RolesOf, TheBucket

\* The same for a role.
LEMMA RoleSet ==
  ASSUME TypeOK, pc # "idle", obj.spec.role # NoRole, NEW r, SetRole(r)
  PROVE  /\ RolesOf' = [RolesOf EXCEPT ![obj.spec.role] = RoleSeen(r)]
         /\ UNCHANGED StoreOf
         /\ RolesOf[obj.spec.role] = RoleSeen(TheRole)
         /\ RoleSeen(r) = RoleSeen(TheRole) => UNCHANGED RolesOf
<1>1. obj.spec.role \in Roles
  BY Target
<1>2. iam' = [iam EXCEPT ![obj.spec.role] = r] /\ s3' = s3
  BY DEF SetRole
<1>3. \A q \in Roles : iam'[q] = IF q = obj.spec.role THEN r ELSE iam[q]
  BY <1>1, <1>2 DEF TypeOK
<1>4. RolesOf' = [RolesOf EXCEPT ![obj.spec.role] = RoleSeen(r)]
  BY <1>1, <1>3 DEF RolesOf
<1> QED
  BY <1>1, <1>2, <1>4 DEF StoreOf, RolesOf, TheRole

\* Requests that change nothing the contract sees are steps it does not take.
LEMMA Stutters ==
  ASSUME UNCHANGED <<clusterVars, workerVars, faulty, StoreOf, RolesOf>>
  PROVE  UNCHANGED Safe!vars
BY DEF Safe!vars, Safe!loopVars, clusterVars, workerVars

\* A service call of the contract, and one that has not returned yet.
LEMMA Served ==
  ASSUME UNCHANGED <<clusterVars, faulty>>,
         \/ Safe!ExistsBucket \/ Safe!CreateBucket \/ Safe!UpdateBucket
         \/ Safe!ConfigureBucket \/ Safe!ConfigureRole
         \/ Safe!ExistsBucketDelete \/ Safe!DeleteBucket \/ Safe!DeleteRole
  PROVE  Safe!Next
BY DEF Safe!Next, Safe!ServiceCall, clusterVars, Safe!clusterVars

\* A call that has done something and goes on.
LEMMA Progressed ==
  ASSUME UNCHANGED <<clusterVars, workerVars, faulty>>, Safe!Unsettled
  PROVE  Safe!Next
BY DEF Safe!Next, Safe!Progress, Safe!loopVars, clusterVars, workerVars

\* A refusal of the cloud that is no fault.
LEMMA RefusedHere ==
  ASSUME UNCHANGED <<clusterVars, faulty>>, ReturnError, UNCHANGED cloudVars,
         \/ pc \in {"create", "update", "deleteBucket", "deleteRole"}
         \/ pc \in {"configure", "role"} /\ obj.spec.tags \in RefusedTags
  PROVE  Safe!Next
<1>1. UNCHANGED <<StoreOf, RolesOf>>
  BY DEF StoreOf, RolesOf, cloudVars
<1>2. Safe!Refused
  BY <1>1, SamePass DEF Safe!Refused, ReturnError, clusterVars, Safe!clusterVars
<1> QED
  BY <1>2 DEF Safe!Next

\* The bucket exists with some settings after a request of CreateBucket or
\* ConfigureBucket, or after none.
LEMMA BucketUnsettled ==
  ASSUME TypeOK, pc \in {"create", "update", "configure"},
         NEW b \in BucketRecord, b.exists,
         \/ SetBucket(b)
         \/ UNCHANGED cloudVars /\ b = TheBucket
  PROVE  /\ Safe!Unsettled
         /\ StoreOf' = [StoreOf EXCEPT ![obj.spec.name] = BucketSeen(b)]
         /\ UNCHANGED RolesOf
<1>1. obj.spec.name \in Names
  BY Target
<1>2. /\ StoreOf' = [StoreOf EXCEPT ![obj.spec.name] = BucketSeen(b)]
      /\ UNCHANGED RolesOf
  <2>1. CASE SetBucket(b)
    BY <2>1, BucketSet
  <2>2. CASE UNCHANGED cloudVars /\ b = TheBucket
    BY <1>1, <2>2 DEF StoreOf, RolesOf, cloudVars, TheBucket
  <2> QED
    BY <2>1, <2>2
<1>3. /\ BucketSeen(b).carries \in Safe!StoreSettings \cup {Nothing}
      /\ BucketSeen(b) = Safe!Carrying(BucketSeen(b).carries)
  BY SeenTypes DEF Safe!Carrying, BucketRecord
<1>4. Safe!BucketWith(BucketSeen(b).carries)
  BY <1>2, <1>3 DEF Safe!BucketWith
<1> QED
  BY <1>2, <1>3, <1>4 DEF Safe!Unsettled

\* The same for the role, which ConfigureRole may create and DeleteRole not.
LEMMA RoleUnsettled ==
  ASSUME TypeOK, CallInv, pc \in {"role", "deleteRole"},
         pc = "role" \/ TheRole.exists,
         NEW r \in RoleRecord, r.exists, SetRole(r)
  PROVE  /\ Safe!Unsettled
         /\ RolesOf' = [RolesOf EXCEPT ![obj.spec.role] = RoleSeen(r)]
         /\ UNCHANGED StoreOf
<1>1. obj.spec.role # NoRole /\ TheRole \in RoleRecord
  BY Target DEF CallInv
<1>2. /\ RolesOf' = [RolesOf EXCEPT ![obj.spec.role] = RoleSeen(r)]
      /\ UNCHANGED StoreOf
      /\ RolesOf[obj.spec.role] = RoleSeen(TheRole)
  BY <1>1, RoleSet
<1>3. /\ RoleSeen(r).carries \in Safe!RoleSettings \cup {Nothing}
      /\ RoleSeen(r) = Safe!Carrying(RoleSeen(r).carries)
  BY SeenTypes DEF Safe!Carrying, RoleRecord
<1>4. pc = "role" \/ RolesOf[obj.spec.role].exists
  BY <1>1, <1>2, SeenTypes
<1>5. Safe!RoleWith(RoleSeen(r).carries)
  BY <1>2, <1>3 DEF Safe!RoleWith
<1> QED
  BY <1>2, <1>3, <1>4, <1>5 DEF Safe!Unsettled

(***************************************************************************)
(* Every request implements the contract.                                  *)
(***************************************************************************)

\* What a request is made for.
LEMMA CallStep ==
  ASSUME CallInv
  PROVE  /\ call = "HeadBucket" => pc \in {"exists", "existsDelete"}
         /\ call = "CreateBucket" => pc = "create"
         /\ call \in ConfigureRequests => pc = "configure"
         /\ call \in EmptyingRequests => pc = "deleteBucket"
         /\ call = "GetRole" => pc \in {"role", "deleteRole"}
         /\ call = "CreateRole" => pc = "role"
         /\ call \in RoleRequests => pc = "role"
         /\ call \in UnhookRequests => pc = "deleteRole"
         /\ call # "none" => pc # "idle"
BY DEF CallInv, RequestsOf, ConfigureRequests, EmptyingRequests, RoleRequests,
   UnhookRequests

\* ExistsBucket.
LEMMA HeadBucketRefines ==
  ASSUME TypeOK, RequestInv, HeadBucket, UNCHANGED <<clusterVars, faulty>>
  PROVE  Safe!Next
<1>1. pc \in {"exists", "existsDelete"} /\ pc # "idle"
  BY CallStep DEF HeadBucket, RequestInv
<1>2. UNCHANGED <<StoreOf, RolesOf>>
  BY DEF HeadBucket, cloudVars, StoreOf, RolesOf
<1>3. StoreOf[obj.spec.name].exists = TheBucket.exists
  BY <1>1, Target, SeenTypes DEF StoreOf, TheBucket
<1>4. CASE pc = "exists"
  <2>1. Safe!ExistsBucket
    BY <1>2, <1>3, <1>4, SamePass
       DEF HeadBucket, Safe!ExistsBucket, Return, RequestFails, ReturnError, Fail
  <2> QED
    BY <2>1, Served
<1>5. CASE pc = "existsDelete"
  <2>1. Safe!ExistsBucketDelete
    BY <1>2, <1>3, <1>5, SamePass DEF HeadBucket, Safe!ExistsBucketDelete, Return
  <2> QED
    BY <2>1, Served
<1> QED
  BY <1>1, <1>4, <1>5

\* CreateBucket and UpdateBucket.
LEMMA CreateBucketRefines ==
  ASSUME TypeOK, RequestInv, CreateBucket \/ UpdateBucket,
         UNCHANGED <<clusterVars, faulty>>
  PROVE  Safe!Next
<1>1. CASE UpdateBucket
  <2>1. UNCHANGED <<StoreOf, RolesOf>>
    BY <1>1 DEF UpdateBucket, cloudVars, StoreOf, RolesOf
  <2>2. Safe!UpdateBucket
    BY <1>1, <2>1, SamePass DEF UpdateBucket, Safe!UpdateBucket, Return
  <2> QED
    BY <2>2, Served
<1>2. CASE CreateBucket
  <2> DEFINE b == [NoBucket EXCEPT !.exists = TRUE]
  <2>1. pc = "create"
    BY <1>2, CallStep DEF CreateBucket, RequestInv
  <2>2. b \in BucketRecord /\ b.exists
    BY AWSAssumption DEF BucketRecord, NoBucket
  <2>3. ASSUME SetBucket(b) PROVE Safe!Unsettled
    BY <2>1, <2>2, <2>3, BucketUnsettled
  <2>4. UNCHANGED cloudVars => UNCHANGED <<StoreOf, RolesOf>>
    BY DEF cloudVars, StoreOf, RolesOf
  <2>5. Safe!CreateBucket
    BY <1>2, <2>1, <2>3, <2>4, SamePass
       DEF CreateBucket, S3Request, Safe!CreateBucket, Return, RequestFails,
           ReturnError, Fail
  <2> QED
    BY <2>5, Served
<1> QED
  BY <1>1, <1>2

\* ConfigureBucket: the last of its requests leaves the settings of the spec.
LEMMA ConfigureBucketRefines ==
  ASSUME TypeOK, RequestInv, SetLifecycleRules \/ SetBucketPolicy \/ SetTags,
         UNCHANGED <<clusterVars, faulty>>
  PROVE  Safe!Next
<1>1. /\ pc = "configure" /\ TheBucket.exists
      /\ call = "PutBucketTagging" =>
            TheBucket.lifecycle = obj.spec.expiration /\ TheBucket.secured
  BY CallStep DEF SetLifecycleRules, SetBucketPolicy, SetTags, RequestInv,
     ConfigureRequests, BucketInv
<1>2. TheBucket \in BucketRecord /\ obj.spec.tags \in TagSets
      /\ obj.spec.expiration \in Expirations
  BY <1>1, Target
<1>3. ASSUME NEW b \in BucketRecord, b.exists,
             \/ SetBucket(b) /\ UNCHANGED workerVars
             \/ (SetBucket(b) \/ UNCHANGED cloudVars) /\ RequestFails
      PROVE  Safe!Next
  <2>1. Safe!Unsettled
    BY <1>1, <1>2, <1>3, BucketUnsettled
  <2>2. CASE UNCHANGED workerVars
    BY <2>1, <2>2, Progressed
  <2>3. CASE RequestFails
    <3>1. Safe!ConfigureBucket
      BY <1>1, <2>1, <2>3, SamePass DEF Safe!ConfigureBucket, RequestFails,
         ReturnError, Fail
    <3> QED
      BY <3>1, Served
  <2> QED
    BY <1>3, <2>2, <2>3
<1>4. CASE SetLifecycleRules
  <2> DEFINE b == [TheBucket EXCEPT !.lifecycle = obj.spec.expiration]
  <2>1. b \in BucketRecord /\ b.exists
    BY <1>1, <1>2 DEF BucketRecord
  <2> HIDE DEF b
  <2> QED
    BY <1>3, <1>4, <2>1 DEF b, SetLifecycleRules, S3Request, Ask
<1>5. CASE SetBucketPolicy
  <2> DEFINE b == [TheBucket EXCEPT !.secured = TRUE]
  <2>1. b \in BucketRecord /\ b.exists
    BY <1>1, <1>2 DEF BucketRecord
  <2> HIDE DEF b
  <2> QED
    BY <1>3, <1>5, <2>1 DEF b, SetBucketPolicy, S3Request, Ask
<1>6. CASE SetTags
  <2> DEFINE b == [TheBucket EXCEPT !.tags = obj.spec.tags]
  <2>1. b \in BucketRecord /\ b.exists
    BY <1>1, <1>2 DEF BucketRecord
  <2>2. BucketSeen(b) = Safe!Carrying(Safe!StoreSettingsOf(obj.spec))
    <3>1. call = "PutBucketTagging"
      BY <1>6 DEF SetTags
    <3>2. b.secured /\ b.lifecycle = obj.spec.expiration
          /\ b.tags = obj.spec.tags /\ b.tags # NoTags
      BY <1>1, <1>2, <3>1, AWSAssumption DEF BucketRecord
    <3> HIDE DEF b
    <3> QED
      BY <2>1, <3>2 DEF BucketSeen, Safe!Carrying, Safe!StoreSettingsOf, BucketRecord
  <2> HIDE DEF b
  <2>3. CASE SetBucket(b) /\ Return("status")
    <3>1. /\ StoreOf' = [StoreOf EXCEPT ![obj.spec.name] = BucketSeen(b)]
          /\ UNCHANGED RolesOf
      BY <1>1, <2>3, BucketSet
    <3>2. Safe!BucketWith(Safe!StoreSettingsOf(obj.spec))
      BY <2>2, <3>1 DEF Safe!BucketWith
    <3>3. obj.spec.tags \notin RefusedTags
      BY <1>6, <2>3 DEF SetTags, Tagging, Return, ReturnError, Retry, Goto
    <3>4. Safe!ConfigureBucket
      BY <1>1, <2>3, <3>1, <3>2, <3>3, SamePass DEF Safe!ConfigureBucket, Return
    <3> QED
      BY <3>4, Served
  <2>4. CASE obj.spec.tags \in RefusedTags
    BY <1>1, <1>6, <2>4, RefusedHere DEF SetTags, Tagging
  <2>5. CASE obj.spec.tags \notin RefusedTags
    BY <1>3, <1>6, <2>1, <2>3, <2>5 DEF b, SetTags, Tagging, S3Request
  <2> QED
    BY <2>4, <2>5
<1> QED
  BY <1>4, <1>5, <1>6

\* DeleteBucket: the contract sees the deletion, not how the bucket is emptied.
LEMMA DeleteBucketRefines ==
  ASSUME TypeOK, RequestInv, ListObjects \/ DeleteObjects \/ DeleteBucket,
         UNCHANGED <<clusterVars, faulty>>
  PROVE  Safe!Next \/ UNCHANGED Safe!vars
<1>1. pc = "deleteBucket"
  BY CallStep DEF ListObjects, DeleteObjects, DeleteBucket, RequestInv,
     EmptyingRequests
<1>2. UNCHANGED cloudVars => UNCHANGED <<StoreOf, RolesOf>>
  BY DEF cloudVars, StoreOf, RolesOf
<1>3. ASSUME UNCHANGED <<StoreOf, RolesOf>>, RequestFails
      PROVE  Safe!Next
  <2>1. Safe!DeleteBucket
    BY <1>1, <1>3, SamePass DEF Safe!DeleteBucket, RequestFails, ReturnError, Fail
  <2> QED
    BY <2>1, Served
<1>4. CASE ListObjects
  BY <1>2, <1>3, <1>4, Stutters DEF ListObjects, Ask
<1>5. CASE DeleteObjects
  <2>1. PICK left : SetBucket([TheBucket EXCEPT !.objects =
                       (@ \ scan.page) \cup (@ \cap left)])
    BY <1>5 DEF DeleteObjects
  <2> DEFINE b == [TheBucket EXCEPT !.objects = (@ \ scan.page) \cup (@ \cap left)]
  <2>2. TheBucket \in BucketRecord
    BY <1>1, Target
  <2>3. BucketSeen(b) = BucketSeen(TheBucket)
    BY <2>2 DEF BucketSeen, BucketRecord
  <2>4. UNCHANGED <<StoreOf, RolesOf>>
    BY <1>1, <2>1, <2>3, BucketSet
  <2> QED
    BY <1>3, <1>5, <2>4, Stutters DEF DeleteObjects, Ask
<1>6. CASE DeleteBucket
  <2>1. BucketSeen(NoBucket) = Safe!Absent
    BY DEF BucketSeen, NoBucket, Safe!Absent
  <2>2. ASSUME SetBucket(NoBucket) PROVE Safe!BucketGone /\ UNCHANGED RolesOf
    BY <1>1, <2>1, <2>2, BucketSet DEF Safe!BucketGone
  <2>3. CASE TheBucket.objects = {}
    <3>1. Safe!DeleteBucket
      BY <1>1, <1>2, <1>6, <2>2, <2>3, SamePass
         DEF DeleteBucket, S3Request, Safe!DeleteBucket, Return, RequestFails,
             ReturnError, Fail
    <3> QED
      BY <3>1, Served
  <2>4. CASE TheBucket.objects # {}
    BY <1>1, <1>6, <2>4, RefusedHere DEF DeleteBucket
  <2> QED
    BY <2>3, <2>4
<1> QED
  BY <1>4, <1>5, <1>6

\* ConfigureRole: the last of its requests leaves the settings of the spec.
LEMMA ConfigureRoleRefines ==
  ASSUME TypeOK, RequestInv, pc = "role",
         \/ GetRole \/ CreateRole \/ UpdateAssumeRolePolicy \/ UntagRole
         \/ TagRole \/ PutRolePolicy,
         UNCHANGED <<clusterVars, faulty>>
  PROVE  Safe!Next \/ UNCHANGED Safe!vars
<1>1. /\ obj.spec.role # NoRole /\ TheRole \in RoleRecord
      /\ obj.spec.tags \in TagSets /\ obj.spec.access \in Accesses
      /\ obj.spec.name \in Names
  BY Target DEF RequestInv, CallInv
<1>2. UNCHANGED cloudVars => UNCHANGED <<StoreOf, RolesOf>>
  BY DEF cloudVars, StoreOf, RolesOf
<1>3. ASSUME UNCHANGED cloudVars, RequestFails
      PROVE  Safe!Next
  <2>1. Safe!ConfigureRole
    BY <1>2, <1>3, SamePass DEF Safe!ConfigureRole, RequestFails, ReturnError, Fail
  <2> QED
    BY <2>1, Served
<1>4. ASSUME NEW r \in RoleRecord, r.exists,
             \/ SetRole(r) /\ UNCHANGED workerVars
             \/ (SetRole(r) \/ UNCHANGED cloudVars) /\ RequestFails
      PROVE  Safe!Next
  <2>1. SetRole(r) => Safe!Unsettled
    BY <1>4, RoleUnsettled DEF RequestInv
  <2>2. CASE SetRole(r) /\ UNCHANGED workerVars
    BY <2>1, <2>2, Progressed
  <2>3. CASE SetRole(r) /\ RequestFails
    <3>1. Safe!ConfigureRole
      BY <2>1, <2>3, SamePass DEF Safe!ConfigureRole, RequestFails, ReturnError, Fail
    <3> QED
      BY <3>1, Served
  <2> QED
    BY <1>3, <1>4, <2>2, <2>3
<1>5. CASE GetRole
  BY <1>2, <1>3, <1>5, Stutters DEF GetRole, Ask
<1>6. CASE CreateRole
  <2> DEFINE r == [NoIAMRole EXCEPT !.exists = TRUE, !.trust = obj.spec.access,
                                    !.tags = obj.spec.tags]
  <2>1. r \in RoleRecord /\ r.exists
    BY <1>1 DEF RoleRecord, NoIAMRole
  <2> HIDE DEF r
  <2>2. CASE obj.spec.tags \in RefusedTags
    BY <1>6, <2>2, RefusedHere DEF CreateRole, Tagging
  <2>3. CASE obj.spec.tags \notin RefusedTags
    BY <1>4, <1>6, <2>1, <2>3 DEF r, CreateRole, Tagging, IAMRequest, Ask
  <2> QED
    BY <2>2, <2>3
<1>7. TheRole.exists \/ call \in {"GetRole", "CreateRole"}
  BY DEF RequestInv, RoleInv, CallInv, RequestsOf
<1>8. CASE UpdateAssumeRolePolicy
  <2> DEFINE r == [TheRole EXCEPT !.trust = obj.spec.access]
  <2>1. r \in RoleRecord /\ r.exists
    BY <1>1, <1>7, <1>8 DEF RoleRecord, UpdateAssumeRolePolicy
  <2> HIDE DEF r
  <2> QED
    BY <1>4, <1>8, <2>1 DEF r, UpdateAssumeRolePolicy, IAMRequest, Ask
<1>9. CASE UntagRole
  <2> DEFINE r == [TheRole EXCEPT !.tags = NoTags]
  <2>1. r \in RoleRecord /\ r.exists
    BY <1>1, <1>7, <1>9 DEF RoleRecord, UntagRole
  <2> HIDE DEF r
  <2> QED
    BY <1>4, <1>9, <2>1 DEF r, UntagRole, IAMRequest, Ask
<1>10. CASE TagRole
  <2> DEFINE r == [TheRole EXCEPT !.tags = obj.spec.tags]
  <2>1. r \in RoleRecord /\ r.exists
    BY <1>1, <1>7, <1>10 DEF RoleRecord, TagRole
  <2> HIDE DEF r
  <2>2. CASE obj.spec.tags \in RefusedTags
    BY <1>10, <2>2, RefusedHere DEF TagRole, Tagging
  <2>3. CASE obj.spec.tags \notin RefusedTags
    BY <1>4, <1>10, <2>1, <2>3 DEF r, TagRole, Tagging, IAMRequest, Ask
  <2> QED
    BY <2>2, <2>3
<1>11. CASE PutRolePolicy
  <2> DEFINE p == [bucket |-> obj.spec.name, access |-> obj.spec.access]
             r == [TheRole EXCEPT !.inline = p]
  <2>1. p \in [bucket : Names, access : Accesses] /\ p # NoPolicy
    BY <1>1, AWSAssumption
  <2>2. r \in RoleRecord /\ r.exists
    BY <1>1, <1>7, <1>11, <2>1 DEF RoleRecord, PutRolePolicy
  <2>3. TheRole.trust = obj.spec.access /\ TheRole.tags = obj.spec.tags
    BY <1>11 DEF PutRolePolicy, RequestInv, RoleInv
  <2>4. /\ r.inline = p /\ r.trust = obj.spec.access /\ r.tags = obj.spec.tags
        /\ r.tags # NoTags
    BY <1>1, <2>3, AWSAssumption DEF RoleRecord
  <2>5. RoleSeen(r) = Safe!Carrying(Safe!RoleSettingsOf(obj.spec))
    <3> HIDE DEF r
    <3> QED
      BY <2>1, <2>2, <2>4 DEF RoleSeen, Safe!Carrying, Safe!RoleSettingsOf, RoleRecord
  <2> HIDE DEF r
  <2>6. CASE SetRole(r) /\ Finish
    <3>1. /\ RolesOf' = [RolesOf EXCEPT ![obj.spec.role] = RoleSeen(r)]
          /\ UNCHANGED StoreOf
      BY <1>1, <2>6, RoleSet
    <3>2. Safe!RoleWith(Safe!RoleSettingsOf(obj.spec))
      BY <2>5, <3>1 DEF Safe!RoleWith
    <3>3. obj.spec.tags \notin RefusedTags
      BY <1>1, <2>3, Target DEF RequestInv, RoleInv, TheRole
    <3>4. Safe!ConfigureRole
      BY <2>6, <3>1, <3>2, <3>3, SamePass DEF Safe!ConfigureRole
    <3> QED
      BY <3>4, Served
  <2> QED
    BY <1>4, <1>11, <2>2, <2>6 DEF r, PutRolePolicy, IAMRequest
<1> QED
  BY <1>5, <1>6, <1>8, <1>9, <1>10, <1>11

\* DeleteRole: the contract sees inline policies and the role go.
LEMMA DeleteRoleRefines ==
  ASSUME TypeOK, RequestInv, pc = "deleteRole",
         \/ GetRole \/ ListAttachedRolePolicies \/ DetachRolePolicy
         \/ ListRolePolicies \/ DeleteRolePolicy
         \/ RemoveRoleFromInstanceProfile \/ DeleteInstanceProfile
         \/ DeleteRole,
         UNCHANGED <<clusterVars, faulty>>
  PROVE  Safe!Next \/ UNCHANGED Safe!vars
<1>1. obj.spec.role # NoRole /\ TheRole \in RoleRecord /\ obj.spec.role \in Roles
  BY Target DEF RequestInv, CallInv
<1>2. UNCHANGED cloudVars => UNCHANGED <<StoreOf, RolesOf>>
  BY DEF cloudVars, StoreOf, RolesOf
<1>3. ASSUME UNCHANGED <<StoreOf, RolesOf>>, RequestFails
      PROVE  Safe!Next
  <2>1. Safe!DeleteRole
    BY <1>3, SamePass DEF Safe!DeleteRole, RequestFails, ReturnError, Fail
  <2> QED
    BY <2>1, Served
<1>4. ASSUME NEW r, RoleSeen(r) = RoleSeen(TheRole),
             \/ SetRole(r) /\ UNCHANGED workerVars
             \/ (SetRole(r) \/ UNCHANGED cloudVars) /\ RequestFails
      PROVE  Safe!Next \/ UNCHANGED Safe!vars
  <2>1. UNCHANGED <<StoreOf, RolesOf>>
    BY <1>1, <1>2, <1>4, RoleSet
  <2> QED
    BY <1>3, <1>4, <2>1, Stutters
<1>5. RoleSeen(NoIAMRole) = Safe!Absent
  BY DEF RoleSeen, NoIAMRole, Safe!Absent
<1>6. CASE GetRole
  <2>1. CASE ~TheRole.exists /\ Return("release")
    <3>1. RoleSeen(TheRole) = Safe!Absent
      BY <1>1, <2>1 DEF RequestInv, RoleInv, TheRole, RoleSeen, Safe!Absent, RoleRecord
    <3>2. UNCHANGED <<StoreOf, RolesOf>>
      BY <1>2, <1>6 DEF GetRole
    <3>3. Safe!RoleGone
      BY <1>1, <3>1, <3>2 DEF Safe!RoleGone, RolesOf, TheRole
    <3>4. Safe!DeleteRole
      BY <2>1, <3>2, <3>3, SamePass DEF Safe!DeleteRole, Return
    <3> QED
      BY <3>4, Served
  <2> QED
    BY <1>2, <1>3, <1>6, <2>1, Stutters DEF GetRole, Ask
<1>7. CASE ListAttachedRolePolicies \/ ListRolePolicies
  BY <1>2, <1>3, <1>7, Stutters DEF ListAttachedRolePolicies, ListRolePolicies, Ask
<1>8. CASE DetachRolePolicy
  <2> DEFINE r == [TheRole EXCEPT !.attached = FALSE]
  <2>1. RoleSeen(r) = RoleSeen(TheRole)
    BY <1>1 DEF RoleSeen, RoleRecord
  <2> HIDE DEF r
  <2> QED
    BY <1>4, <1>8, <2>1 DEF r, DetachRolePolicy, IAMRequest, Ask
<1>9. CASE DeleteRolePolicy
  <2> DEFINE r == [TheRole EXCEPT !.inline = NoPolicy]
  <2>1. TheRole.exists
    BY <1>9 DEF DeleteRolePolicy, RequestInv, RoleInv, UnhookRequests
  <2>2. r \in RoleRecord /\ r.exists
    BY <1>1, <2>1 DEF RoleRecord
  <2> HIDE DEF r
  <2>3. SetRole(r) => Safe!Unsettled
    BY <2>1, <2>2, RoleUnsettled DEF RequestInv
  <2>4. CASE SetRole(r) /\ UNCHANGED workerVars
    BY <2>3, <2>4, Progressed
  <2>5. CASE SetRole(r) /\ RequestFails
    <3>1. UNCHANGED StoreOf
      BY <2>5 DEF SetRole, StoreOf
    <3>2. Safe!DeleteRole
      BY <2>3, <2>5, <3>1, SamePass DEF Safe!DeleteRole, RequestFails, ReturnError,
         Fail
    <3> QED
      BY <3>2, Served
  <2> QED
    BY <1>2, <1>3, <1>9, <2>4, <2>5 DEF r, DeleteRolePolicy, IAMRequest, Ask
<1>10. CASE RemoveRoleFromInstanceProfile
  <2> DEFINE r == [TheRole EXCEPT !.profile = IF @ = "member" THEN "empty" ELSE @]
  <2>1. RoleSeen(r) = RoleSeen(TheRole)
    BY <1>1 DEF RoleSeen, RoleRecord
  <2> HIDE DEF r
  <2>2. \/ IAMRequest(r, Ask("DeleteInstanceProfile"))
        \/ UNCHANGED cloudVars /\ UNCHANGED workerVars
    BY <1>10 DEF r, RemoveRoleFromInstanceProfile, Ask
  <2> QED
    BY <1>2, <1>4, <2>1, <2>2, Stutters DEF IAMRequest, Ask
<1>11. CASE DeleteInstanceProfile
  <2> DEFINE r == [TheRole EXCEPT !.profile = "none"]
  <2>1. RoleSeen(r) = RoleSeen(TheRole)
    BY <1>1 DEF RoleSeen, RoleRecord
  <2> HIDE DEF r
  <2>2. \/ IAMRequest(r, Ask("DeleteRole"))
        \/ UNCHANGED cloudVars /\ UNCHANGED workerVars
        \/ ReturnError /\ UNCHANGED cloudVars
    BY <1>11 DEF r, DeleteInstanceProfile, Ask
  <2> QED
    BY <1>2, <1>4, <2>1, <2>2, Stutters, RefusedHere DEF IAMRequest, Ask
<1>12. CASE DeleteRole
  <2> DEFINE r == [NoIAMRole EXCEPT !.profile = TheRole.profile]
  <2>1. RoleSeen(r) = Safe!Absent
    BY DEF RoleSeen, NoIAMRole, Safe!Absent
  <2> HIDE DEF r
  <2>2. ASSUME SetRole(r) PROVE Safe!RoleGone /\ UNCHANGED StoreOf
    BY <1>1, <2>1, <2>2, RoleSet DEF Safe!RoleGone
  <2>3. CASE IAMRequest(r, Return("release"))
    <3>1. Safe!DeleteRole
      BY <1>2, <2>2, <2>3, SamePass DEF IAMRequest, Safe!DeleteRole, Return,
         RequestFails, ReturnError, Fail
    <3> QED
      BY <3>1, Served
  <2> QED
    BY <1>12, <2>3, RefusedHere DEF r, DeleteRole
<1> QED
  BY <1>6, <1>7, <1>8, <1>9, <1>10, <1>11, <1>12

\* What applications and others do to the cloud, the contract does not see.
LEMMA OutsideRefines ==
  ASSUME TypeOK,
         \/ \E n \in Names, o \in Objects : AppWrite(n, o)
         \/ \E r \in Roles : Meddle(r)
  PROVE  UNCHANGED Safe!vars
<1>1. ASSUME NEW n \in Names, NEW o \in Objects, AppWrite(n, o)
      PROVE  UNCHANGED Safe!vars
  <2>1. \A m \in Names : BucketSeen(s3'[m]) = BucketSeen(s3[m])
    BY <1>1 DEF AppWrite, TypeOK, BucketSeen
  <2>2. UNCHANGED <<StoreOf, RolesOf>>
    BY <1>1, <2>1 DEF AppWrite, StoreOf, RolesOf
  <2> QED
    BY <1>1, <2>2 DEF AppWrite, loopVars, Safe!vars, Safe!loopVars
<1>2. ASSUME NEW r \in Roles, Meddle(r)
      PROVE  UNCHANGED Safe!vars
  <2>1. \A q \in Roles : RoleSeen(iam'[q]) = RoleSeen(iam[q])
    <3> DEFINE a == [iam[r] EXCEPT !.attached = TRUE]
               b == [iam[r] EXCEPT !.profile = "member"]
    <3>1. iam \in [Roles -> RoleRecord] /\ iam[r] \in RoleRecord
      BY <1>2 DEF TypeOK, RoleRecord
    <3>2. PICK c \in {a, b} : iam' = [iam EXCEPT ![r] = c]
      BY <1>2 DEF Meddle
    <3>3. /\ c.exists = iam[r].exists /\ c.trust = iam[r].trust
          /\ c.tags = iam[r].tags /\ c.inline = iam[r].inline
      BY <3>1, <3>2 DEF RoleRecord
    <3>4. \A q \in Roles : iam'[q] = IF q = r THEN c ELSE iam[q]
      BY <3>1, <3>2
    <3>5. RoleSeen(c) = RoleSeen(iam[r])
      <4> HIDE DEF a, b
      <4> QED
        BY <3>3 DEF RoleSeen
    <3> HIDE DEF a, b
    <3> QED
      BY <3>4, <3>5
  <2>2. UNCHANGED <<StoreOf, RolesOf>>
    BY <1>2, <2>1 DEF Meddle, StoreOf, RolesOf
  <2> QED
    BY <1>2, <2>2 DEF Meddle, loopVars, Safe!vars, Safe!loopVars
<1> QED
  BY <1>1, <1>2

\* Every step is one of the contract's, or none.
LEMMA StepRefines ==
  ASSUME TypeOK, RequestInv, [Next]_vars
  PROVE  [Safe!Next]_Safe!vars
<1>1. CASE UNCHANGED vars
  BY <1>1 DEF vars, loopVars, Safe!vars, Safe!loopVars, StoreOf, RolesOf
<1>2. ASSUME LoopStep(Others) \/ LoopStep(ControllerStep)
             \/ \E k \in Keys : LoopStep(Watch(k)) \/ LoopStep(Begin(k))
      PROVE  Safe!Next
  <2>1. UNCHANGED <<StoreOf, RolesOf>>
    BY <1>2 DEF LoopStep, cloudVars, StoreOf, RolesOf
  <2> QED
    BY <1>2, <2>1, LoopRefines DEF LoopStep
<1>3. CASE Request
  <2>1. UNCHANGED <<clusterVars, faulty>>
    BY <1>3 DEF Request
  <2>2. CASE HeadBucket \/ CreateBucket \/ UpdateBucket \/ SetLifecycleRules
             \/ SetBucketPolicy \/ SetTags \/ ListObjects \/ DeleteObjects
             \/ DeleteBucket
    BY <2>1, <2>2, HeadBucketRefines, CreateBucketRefines, ConfigureBucketRefines,
       DeleteBucketRefines
  <2>3. CASE GetRole \/ CreateRole \/ UpdateAssumeRolePolicy \/ UntagRole
             \/ TagRole \/ PutRolePolicy \/ ListAttachedRolePolicies
             \/ DetachRolePolicy \/ ListRolePolicies \/ DeleteRolePolicy
             \/ RemoveRoleFromInstanceProfile \/ DeleteInstanceProfile
             \/ DeleteRole
    <3>1. \/ GetRole /\ pc \in {"role", "deleteRole"}
          \/ pc = "role" /\ \/ CreateRole \/ UpdateAssumeRolePolicy \/ UntagRole
                            \/ TagRole \/ PutRolePolicy
          \/ pc = "deleteRole" /\ \/ ListAttachedRolePolicies \/ DetachRolePolicy
                                  \/ ListRolePolicies \/ DeleteRolePolicy
                                  \/ RemoveRoleFromInstanceProfile
                                  \/ DeleteInstanceProfile \/ DeleteRole
      BY <2>3, CallStep DEF RequestInv, RoleRequests, UnhookRequests, GetRole,
         CreateRole, UpdateAssumeRolePolicy, UntagRole, TagRole, PutRolePolicy,
         ListAttachedRolePolicies, DetachRolePolicy, ListRolePolicies,
         DeleteRolePolicy, RemoveRoleFromInstanceProfile, DeleteInstanceProfile,
         DeleteRole
    <3> QED
      BY <2>1, <3>1, ConfigureRoleRefines, DeleteRoleRefines
  <2> QED
    BY <1>3, <2>2, <2>3 DEF Request
<1> QED
  BY <1>1, <1>2, <1>3, OutsideRefines DEF Next

(***************************************************************************)
(* The invariant of the requests.                                          *)
(***************************************************************************)

ScanRecord == [page : SUBSET Objects, token : Objects \cup {0}]

\* The parts of TypeOK and RequestInv that are about the cloud and the call,
\* and those that hold of the cloud whatever the pass does.
CloudOK ==
    /\ s3 \in [Names -> BucketRecord] /\ iam \in [Roles -> RoleRecord]
    /\ written \subseteq Objects /\ scan \in ScanRecord
    /\ \A n \in Names : ~s3[n].exists => s3[n].objects = {}
    /\ \A r \in Roles : /\ ~iam[r].exists => iam[r].inline = NoPolicy
                       /\ iam[r].tags \notin RefusedTags
Kept == CloudOK /\ call \in RequestsOf(pc) /\ BucketInv /\ RoleInv

\* Together with the types of the loop they make up both invariants.
LEMMA KeptParts ==
  /\ TypeOK /\ RequestInv => Kept
  /\ /\ LoopTypeOK /\ Kept
     /\ pc \in {"role", "deleteRole"} => obj.spec.role # NoRole
     => TypeOK /\ RequestInv
<1>1. ASSUME TypeOK, RequestInv PROVE Kept
  BY <1>1 DEF TypeOK, RequestInv, Kept, CloudOK, BucketRecord, RoleRecord, ScanRecord,
     CallInv, BucketInv, RoleInv
<1>2. ASSUME LoopTypeOK, Kept,
             pc \in {"role", "deleteRole"} => obj.spec.role # NoRole
      PROVE  TypeOK /\ RequestInv
  <2>1. call = "none" <=> Entry(pc) = "none"
    BY <1>2 DEF Kept, RequestsOf, Entry, LoopTypeOK, Steps, ConfigureRequests,
       EmptyingRequests, RoleRequests, UnhookRequests
  <2> QED
    BY <1>2, <2>1 DEF TypeOK, RequestInv, Kept, CloudOK, BucketRecord, RoleRecord,
       ScanRecord, CallInv
<1> QED
  BY <1>1, <1>2

\* A pass that has ended claims nothing.
LEMMA Ended ==
  ASSUME CloudOK', pc' = "idle", call' = "none"
  PROVE  Kept'
BY DEF Kept, CloudOK, BucketInv, RoleInv, RequestsOf, RoleRequests, UnhookRequests

\* The first request of each step.
LEMMA EntryFits == \A step \in Steps : Entry(step) \in RequestsOf(step)
BY DEF Steps, Entry, RequestsOf, ConfigureRequests, EmptyingRequests, RoleRequests,
   UnhookRequests

\* Steps of the loop: the pass stands still, or is where it claims nothing.
LEMMA LoopKept ==
  ASSUME TypeOK, Kept, LoopTypeOK',
         \/ LoopStep(Others) \/ LoopStep(ControllerStep)
         \/ \E k \in Keys : LoopStep(Watch(k)) \/ LoopStep(Begin(k))
  PROVE  Kept'
<1>1. /\ call' = IF pc' = pc THEN call ELSE Entry(pc')
      /\ scan' = IF pc' = pc THEN scan ELSE NoScan
      /\ UNCHANGED <<cloudVars, written>>
  BY DEF LoopStep
<1>2. /\ CloudOK'
      /\ UNCHANGED obj => TheBucket' = TheBucket /\ TheRole' = TheRole
  BY <1>1 DEF Kept, CloudOK, cloudVars, TheBucket, TheRole, NoScan, ScanRecord
<1>3. call' \in RequestsOf(pc')
  BY <1>1, EntryFits DEF Kept, LoopTypeOK
<1>4. \/ UNCHANGED <<pc, obj>>
      \/ pc' \in {"idle", "getCluster", "addFinalizer", "existsDelete", "exists",
                  "role"} /\ pc' # pc
      \/ pc' = "idle" /\ pc = "idle"
  <2>1. CASE Others
    BY <2>1 DEF Others, OthersAct, UserCreate, UserEdit, UserDelete, Hold, Release,
       Resync, Crash, Stabilize, workerVars
  <2>2. CASE ControllerStep
    BY <2>2 DEF ControllerStep, GetCluster, AddFinalizer, PatchStatus,
       RemoveFinalizer, Goto, Fail, Retry, Finish
  <2>3. CASE \E k \in Keys : Watch(k) \/ Begin(k)
    BY <2>3 DEF Watch, Begin
  <2> QED
    BY <2>1, <2>2, <2>3 DEF LoopStep
<1>5. CASE UNCHANGED <<pc, obj>>
  <2>1. UNCHANGED <<call, cloudVars>>
    BY <1>1, <1>5
  <2> QED
    BY <1>2, <1>3, <1>5, <2>1 DEF Kept, BucketInv, RoleInv, cloudVars
<1>6. CASE pc' = "idle"
  <2>1. call' = "none"
    BY <1>3, <1>6 DEF RequestsOf
  <2> QED
    BY <1>2, <1>6, <2>1, Ended
<1>7. CASE pc' \in {"getCluster", "addFinalizer", "existsDelete", "exists", "role"}
           /\ pc' # pc
  <2>1. call' \in {"none", "HeadBucket", "GetRole"}
    BY <1>1, <1>7 DEF Entry
  <2> QED
    BY <1>2, <1>3, <1>7, <2>1 DEF Kept, CloudOK, BucketInv, RoleInv, RoleRequests,
       UnhookRequests
<1> QED
  BY <1>4, <1>5, <1>6, <1>7

\* A bucket after a request.
LEMMA BucketAfter ==
  ASSUME TypeOK, Kept, pc # "idle", NEW b \in BucketRecord,
         ~b.exists => b.objects = {}, SetBucket(b), UNCHANGED written,
         scan' \in ScanRecord
  PROVE  /\ CloudOK'
         /\ UNCHANGED obj => TheBucket' = b /\ TheRole' = TheRole
<1>1. obj.spec.name \in Names
  BY Target
<1>2. s3' = [s3 EXCEPT ![obj.spec.name] = b] /\ iam' = iam
  BY DEF SetBucket
<1>3. /\ \A n \in Names : s3'[n] = IF n = obj.spec.name THEN b ELSE s3[n]
      /\ s3' \in [Names -> BucketRecord]
  BY <1>1, <1>2 DEF Kept, CloudOK
<1>4. \A n \in Names : ~s3'[n].exists => s3'[n].objects = {}
  BY <1>3 DEF Kept, CloudOK
<1>5. CloudOK'
  BY <1>2, <1>3, <1>4 DEF Kept, CloudOK
<1> QED
  BY <1>1, <1>2, <1>3, <1>5 DEF TheBucket, TheRole

\* A role after a request.
LEMMA RoleAfter ==
  ASSUME TypeOK, Kept, pc # "idle", obj.spec.role # NoRole, NEW r \in RoleRecord,
         ~r.exists => r.inline = NoPolicy, r.tags \notin RefusedTags, SetRole(r),
         UNCHANGED <<written, scan>>
  PROVE  /\ CloudOK'
         /\ UNCHANGED obj => TheRole' = r /\ TheBucket' = TheBucket
<1>1. obj.spec.role \in Roles
  BY Target
<1>2. iam' = [iam EXCEPT ![obj.spec.role] = r] /\ s3' = s3
  BY DEF SetRole
<1>3. /\ \A q \in Roles : iam'[q] = IF q = obj.spec.role THEN r ELSE iam[q]
      /\ iam' \in [Roles -> RoleRecord]
  BY <1>1, <1>2 DEF Kept, CloudOK
<1>4. \A q \in Roles : /\ ~iam'[q].exists => iam'[q].inline = NoPolicy
                      /\ iam'[q].tags \notin RefusedTags
  BY <1>3 DEF Kept, CloudOK
<1>5. CloudOK'
  BY <1>2, <1>3, <1>4 DEF Kept, CloudOK
<1> QED
  BY <1>1, <1>2, <1>3, <1>5 DEF TheBucket, TheRole

\* A request that leaves the cloud alone.
LEMMA NothingAfter ==
  ASSUME Kept, UNCHANGED <<cloudVars, written>>, scan' \in ScanRecord
  PROVE  /\ CloudOK'
         /\ UNCHANGED obj => TheBucket' = TheBucket /\ TheRole' = TheRole
BY DEF Kept, CloudOK, cloudVars, TheBucket, TheRole

\* What the lookup found decides whether the bucket is created or configured.
LEMMA HeadBucketKept ==
  ASSUME TypeOK, Kept, HeadBucket, pc \in {"exists", "existsDelete"},
         UNCHANGED written
  PROVE  Kept'
<1>1. scan' \in ScanRecord /\ UNCHANGED cloudVars
  BY DEF HeadBucket, Kept, CloudOK
<1>2. /\ CloudOK'
      /\ UNCHANGED obj => TheBucket' = TheBucket /\ TheRole' = TheRole
  BY <1>1, NothingAfter
<1>3. CASE pc' = "idle" /\ call' = "none"
  BY <1>2, <1>3, Ended
<1>4. CASE UNCHANGED obj /\ pc' = "create" /\ call' = Entry("create")
           /\ ~TheBucket.exists
  <2>1. call' = "CreateBucket"
    BY <1>4 DEF Entry
  <2> QED
    BY <1>2, <1>4, <2>1 DEF Kept, CloudOK, BucketInv, RoleInv, RequestsOf, RoleRequests,
       UnhookRequests
<1>5. CASE UNCHANGED obj /\ pc' = "update" /\ call' = Entry("update")
           /\ TheBucket.exists
  <2>1. call' = "none"
    BY <1>5 DEF Entry
  <2> QED
    BY <1>2, <1>5, <2>1 DEF Kept, CloudOK, BucketInv, RoleInv, RequestsOf, RoleRequests,
       UnhookRequests
<1>6. CASE UNCHANGED obj /\ pc' = "deleteBucket" /\ call' = Entry("deleteBucket")
  <2>1. call' = "ListObjects"
    BY <1>6 DEF Entry
  <2> QED
    BY <1>2, <1>6, <2>1 DEF Kept, CloudOK, BucketInv, RoleInv, RequestsOf, RoleRequests,
       UnhookRequests, EmptyingRequests
<1> QED
  BY <1>3, <1>4, <1>5, <1>6 DEF HeadBucket, Return, Goto, Finish, RequestFails,
     ReturnError, Retry

\* A bucket that CreateBucket leaves exists, and is not yet configured.
LEMMA CreateBucketKept ==
  ASSUME TypeOK, Kept, CreateBucket \/ UpdateBucket,
         call = "CreateBucket" => pc = "create", UNCHANGED written
  PROVE  Kept'
<1>1. scan' \in ScanRecord
  BY DEF CreateBucket, UpdateBucket, Kept, CloudOK
<1>2. ASSUME CloudOK', TheBucket'.exists, Return("configure")
      PROVE  Kept'
  <2>1. pc' = "configure" /\ call' = "PutBucketLifecycle"
    BY <1>2 DEF Return, Goto, Entry
  <2> QED
    BY <1>2, <2>1 DEF Kept, CloudOK, BucketInv, RoleInv, RequestsOf, RoleRequests,
       UnhookRequests, ConfigureRequests
<1>3. CASE UpdateBucket
  <2>1. CloudOK' /\ TheBucket' = TheBucket /\ TheBucket.exists
    BY <1>1, <1>3, NothingAfter DEF UpdateBucket, Return, Kept, BucketInv
  <2> QED
    BY <1>2, <1>3, <2>1 DEF UpdateBucket
<1>4. CASE CreateBucket
  <2> DEFINE b == [NoBucket EXCEPT !.exists = TRUE]
  <2>1. b \in BucketRecord /\ b.exists
    BY AWSAssumption DEF BucketRecord, NoBucket
  <2>2. pc # "idle"
    BY <1>4 DEF CreateBucket
  <2> HIDE DEF b
  <2>3. SetBucket(b) => CloudOK' /\ (UNCHANGED obj => TheBucket' = b)
    BY <1>1, <2>1, <2>2, BucketAfter
  <2>4. CASE SetBucket(b) /\ Return("configure")
    BY <1>2, <2>1, <2>3, <2>4 DEF Return
  <2>5. CASE RequestFails
    <3>1. CloudOK'
      BY <1>1, <1>4, <2>3, NothingAfter DEF b, CreateBucket, S3Request
    <3> QED
      BY <2>5, <3>1, Ended DEF RequestFails, ReturnError, Retry
  <2> QED
    BY <1>4, <2>4, <2>5 DEF b, CreateBucket, S3Request
<1> QED
  BY <1>3, <1>4

\* Each request of ConfigureBucket adds to what the earlier ones established.
LEMMA ConfigureBucketKept ==
  ASSUME TypeOK, Kept, SetLifecycleRules \/ SetBucketPolicy \/ SetTags,
         pc = "configure", UNCHANGED written
  PROVE  Kept'
<1>1. scan' \in ScanRecord
  BY DEF SetLifecycleRules, SetBucketPolicy, SetTags, Kept, CloudOK
<1>2. /\ TheBucket \in BucketRecord /\ TheBucket.exists
      /\ obj.spec.tags \in TagSets /\ obj.spec.expiration \in Expirations
  BY Target DEF Kept, BucketInv
<1>3. ASSUME NEW b \in BucketRecord, b.exists,
             (SetBucket(b) \/ UNCHANGED cloudVars) /\ RequestFails
      PROVE  Kept'
  <2>1. CloudOK'
    BY <1>1, <1>3, BucketAfter, NothingAfter
  <2> QED
    BY <1>3, <2>1, Ended DEF RequestFails, ReturnError, Retry
<1>4. ASSUME NEW b \in BucketRecord, b.exists, SetBucket(b), UNCHANGED obj
      PROVE  CloudOK' /\ TheBucket' = b
  BY <1>1, <1>4, BucketAfter
<1>5. CASE SetLifecycleRules
  <2> DEFINE b == [TheBucket EXCEPT !.lifecycle = obj.spec.expiration]
  <2>1. b \in BucketRecord /\ b.exists /\ b.lifecycle = obj.spec.expiration
    BY <1>2 DEF BucketRecord
  <2> HIDE DEF b
  <2>2. CASE SetBucket(b) /\ Ask("PutBucketPolicy")
    <3>1. UNCHANGED <<pc, obj>> /\ call' = "PutBucketPolicy"
      BY <2>2 DEF Ask, workerVars
    <3>2. CloudOK' /\ TheBucket' = b
      BY <1>4, <2>1, <2>2, <3>1
    <3> QED
      BY <2>1, <3>1, <3>2 DEF Kept, CloudOK, BucketInv, RoleInv, RequestsOf,
         RoleRequests, UnhookRequests, ConfigureRequests
  <2> QED
    BY <1>3, <1>5, <2>1, <2>2 DEF b, SetLifecycleRules, S3Request
<1>6. CASE SetBucketPolicy
  <2> DEFINE b == [TheBucket EXCEPT !.secured = TRUE]
  <2>1. b \in BucketRecord /\ b.exists /\ b.secured
        /\ b.lifecycle = obj.spec.expiration
    BY <1>2, <1>6 DEF BucketRecord, SetBucketPolicy, Kept, BucketInv
  <2> HIDE DEF b
  <2>2. CASE SetBucket(b) /\ Ask("PutBucketTagging")
    <3>1. UNCHANGED <<pc, obj>> /\ call' = "PutBucketTagging"
      BY <2>2 DEF Ask, workerVars
    <3>2. CloudOK' /\ TheBucket' = b
      BY <1>4, <2>1, <2>2, <3>1
    <3> QED
      BY <2>1, <3>1, <3>2 DEF Kept, CloudOK, BucketInv, RoleInv, RequestsOf,
         RoleRequests, UnhookRequests, ConfigureRequests
  <2> QED
    BY <1>3, <1>6, <2>1, <2>2 DEF b, SetBucketPolicy, S3Request
<1>7. CASE SetTags
  <2> DEFINE b == [TheBucket EXCEPT !.tags = obj.spec.tags]
  <2>1. b \in BucketRecord /\ b.exists /\ b.secured
    BY <1>2, <1>7 DEF BucketRecord, SetTags, Kept, BucketInv
  <2> HIDE DEF b
  <2>2. CASE SetBucket(b) /\ Return("status")
    <3>1. UNCHANGED obj /\ pc' = "status" /\ call' = "none"
      BY <2>2 DEF Return, Goto, Entry
    <3>2. CloudOK' /\ TheBucket' = b
      BY <1>4, <2>1, <2>2, <3>1
    <3> QED
      BY <2>1, <3>1, <3>2 DEF Kept, CloudOK, BucketInv, RoleInv, RequestsOf,
         RoleRequests, UnhookRequests
  <2>3. CASE ReturnError /\ UNCHANGED cloudVars
    BY <1>1, <2>3, NothingAfter, Ended DEF ReturnError, Retry
  <2> QED
    BY <1>3, <1>7, <2>1, <2>2, <2>3 DEF b, SetTags, Tagging, S3Request
<1> QED
  BY <1>5, <1>6, <1>7

\* A pass under way to delete claims only what DeleteRole needs.
LEMMA DeletingKept ==
  ASSUME CloudOK', pc' \in {"deleteBucket", "deleteRole", "release"},
         call' \in RequestsOf(pc'), call' \in UnhookRequests => TheRole'.exists
  PROVE  Kept'
BY DEF Kept, CloudOK, BucketInv, RoleInv, RequestsOf, RoleRequests, UnhookRequests,
   EmptyingRequests

\* A set of numbers has a least one.
LEMMA Least ==
  ASSUME NEW S, S \subseteq Nat, S # {}
  PROVE  \E m \in S : \A p \in S : m <= p
<1> DEFINE R == {ss \in Nat \X Nat : ss[1] < ss[2]}
<1>1. R = OpToRel(<, Nat)
  BY DEF OpToRel
<1>2. IsWellFoundedOn(R, Nat)
  BY <1>1, NatLessThanWellFounded
<1>3. \A p, m \in Nat : p < m => <<p, m>> \in R
  OBVIOUS
<1> HIDE DEF R
<1>4. PICK m \in S : \A p \in S : ~(<<p, m>> \in R)
  BY <1>2, WFMin
<1>5. ASSUME NEW p \in S PROVE m <= p
  <2>1. p \in Nat /\ m \in Nat /\ ~(p < m)
    BY <1>3, <1>4
  <2> QED
    BY <2>1
<1> QED
  BY <1>5

\* A bounded set of positive numbers has a greatest one.
LEMMA Greatest ==
  ASSUME NEW S, S # {}, \A p \in S : p \in Nat /\ p > 0,
         NEW o \in Nat, \A p \in S : p <= o
  PROVE  \E u \in S : \A p \in S : p <= u
<1> DEFINE U == {u \in Nat : \A p \in S : p <= u}
<1>1. U # {} /\ U \subseteq Nat
  OBVIOUS
<1>2. PICK u \in U : \A w \in U : u <= w
  <2> HIDE DEF U
  <2> QED
    BY <1>1, Least
<1>3. u \in Nat /\ \A p \in S : p <= u
  BY <1>2
<1>4. u \in S
  <2> SUFFICES ASSUME u \notin S PROVE FALSE
    OBVIOUS
  <2>1. \A p \in S : p <= u - 1
    BY <1>3
  <2>2. u - 1 \in Nat
    BY <1>3
  <2>3. u - 1 \in U
    BY <2>1, <2>2
  <2>4. u <= u - 1
    BY <1>2, <2>3
  <2> QED
    BY <1>3, <2>4
<1> QED
  BY <1>3, <1>4

\* What a listing of the objects in rest answers first.
PageOf(rest, size) == {o \in rest : Cardinality({p \in rest : p < o}) < size}

\* A page of a listing that goes on has a last object: the token for the rest.
LEMMA PageHasLast ==
  ASSUME NEW rest, rest \subseteq Nat \ {0}, NEW size \in Nat \ {0},
         PageOf(rest, size) # rest
  PROVE  \E u \in PageOf(rest, size) : \A p \in PageOf(rest, size) : p <= u
<1> DEFINE Below(q) == {p \in rest : p < q}
           page == PageOf(rest, size)
<1>0. \A q \in rest : q \in Nat /\ q > 0 /\ Below(q) \in SUBSET Nat
                      /\ \A p \in Below(q) : p <= q
  <2>1. \A q \in rest : q \in Nat /\ q > 0
    OBVIOUS
  <2>2. \A q \in rest : Below(q) \subseteq rest /\ \A p \in Below(q) : p < q
    OBVIOUS
  <2> HIDE DEF Below
  <2>3. ASSUME NEW q \in rest
        PROVE  q \in Nat /\ q > 0 /\ Below(q) \subseteq Nat
               /\ \A p \in Below(q) : p <= q
    <3>1. q \in Nat /\ q > 0 /\ Below(q) \subseteq rest /\ \A p \in Below(q) : p < q
      BY <2>1, <2>2
    <3>2. \A p \in Below(q) : p \in Nat
      BY <2>1, <3>1
    <3> QED
      BY <3>1, <3>2
  <2> QED
    BY <2>3
<1>1. PICK o \in rest : ~(Cardinality(Below(o)) < size)
  BY DEF PageOf
<1>2. ASSUME NEW q \in rest
      PROVE  IsFiniteSet(Below(q)) /\ Cardinality(Below(q)) \in Nat
  <2>1. q \in Nat /\ Below(q) \in SUBSET Nat /\ \A p \in Below(q) : p <= q
    BY <1>0
  <2> HIDE DEF Below
  <2>2. IsFiniteSet(Below(q))
    BY <2>1, FS_BoundedSetOfNaturals
  <2> QED
    BY <2>2, FS_CardinalityType
<1>3. \A q \in page : q \in rest /\ Cardinality(Below(q)) < size
  BY DEF PageOf
<1>4. ASSUME NEW q \in page PROVE q <= o
  <2>1. q \in Nat /\ o \in Nat /\ q \in rest
    BY <1>0, <1>3
  <2> SUFFICES ASSUME o < q PROVE FALSE
    BY <2>1
  <2>2. Below(o) \in SUBSET Below(q)
    BY <2>1, <1>0
  <2>3. Cardinality(Below(o)) <= Cardinality(Below(q))
    <3> HIDE DEF Below
    <3> QED
      BY <1>2, <2>1, <2>2, FS_Subset
  <2>4. /\ Cardinality(Below(o)) \in Nat /\ Cardinality(Below(q)) \in Nat
        /\ Cardinality(Below(q)) < size /\ size \in Nat
    BY <1>2, <1>3, <2>1
  <2> HIDE DEF Below
  <2> QED
    BY <1>1, <2>3, <2>4
<1>5. page # {}
  <2>1. PICK m \in rest : \A p \in rest : m <= p
    BY <1>1, Least
  <2>2. Below(m) = {}
    BY <1>0, <2>1
  <2>3. Cardinality(Below(m)) = 0
    BY <2>2, FS_EmptySet
  <2> QED
    BY <2>1, <2>3 DEF PageOf
<1> HIDE DEF Below
<1>6. \A q \in page : q \in Nat /\ q > 0
  BY <1>0, <1>3
<1>7. o \in Nat
  BY <1>0
<1>8. \E u \in page : \A p \in page : p <= u
  BY <1>4, <1>5, <1>6, <1>7, Greatest
<1> QED
  BY <1>8

\* The requests of DeleteBucket.
LEMMA DeleteBucketKept ==
  ASSUME TypeOK, Kept, ListObjects \/ DeleteObjects \/ DeleteBucket,
         pc = "deleteBucket", UNCHANGED written
  PROVE  Kept'
<1>1. TheBucket \in BucketRecord /\ scan \in ScanRecord /\ NoScan \in ScanRecord
      /\ (~TheBucket.exists => TheBucket.objects = {})
  BY Target DEF Kept, CloudOK, NoScan, ScanRecord, TheBucket
<1>2. ASSUME CloudOK', RequestFails \/ ReturnError PROVE Kept'
  BY <1>2, Ended DEF RequestFails, ReturnError, Retry
<1>3. ASSUME CloudOK', NEW c \in EmptyingRequests, Ask(c) PROVE Kept'
  <2>1. pc' = "deleteBucket" /\ call' \in EmptyingRequests
    BY <1>3 DEF Ask, workerVars
  <2> QED
    BY <1>3, <2>1, DeletingKept DEF EmptyingRequests, UnhookRequests, RequestsOf
<1>4. CASE ListObjects
  <2>1. scan' \in ScanRecord
    <3> DEFINE rest == {o \in TheBucket.objects : o > scan.token}
               page == {o \in rest : Cardinality({p \in rest : p < o}) < PageSize}
               last  == CHOOSE o \in page : \A p \in page : p <= o
               token == IF page = rest THEN 0 ELSE last
    <3>1. CASE scan' = NoScan
      BY <1>1, <3>1
    <3>2. CASE scan' = [page |-> page, token |-> token]
      <4>1. page \subseteq Objects
        BY <1>1 DEF BucketRecord
      <4>2. token \in Objects \cup {0}
        <5>1. CASE page = rest
          BY <5>1
        <5>2. CASE page # rest
          <6>1. rest \subseteq Nat \ {0} /\ PageSize \in Nat \ {0}
            BY <1>1, AWSAssumption DEF BucketRecord
          <6>2. page = PageOf(rest, PageSize)
            BY DEF PageOf
          <6> HIDE DEF rest, page
          <6>3. \E u \in page : \A p \in page : p <= u
            BY <5>2, <6>1, <6>2, PageHasLast
          <6>4. last \in page
            BY <6>3
          <6> HIDE DEF last
          <6> QED
            BY <4>1, <5>2, <6>4
        <5> QED
          BY <5>1, <5>2
      <4> HIDE DEF page, token
      <4> QED
        BY <3>2, <4>1, <4>2 DEF ScanRecord
    <3> QED
      BY <1>4, <3>1, <3>2 DEF ListObjects
  <2>2. CloudOK'
    BY <1>4, <2>1, NothingAfter DEF ListObjects
  <2> QED
    BY <1>2, <1>3, <1>4, <2>2 DEF ListObjects, EmptyingRequests
<1>5. CASE DeleteObjects
  <2>1. PICK left : SetBucket([TheBucket EXCEPT !.objects =
                       (@ \ scan.page) \cup (@ \cap left)])
    BY <1>5 DEF DeleteObjects
  <2> DEFINE b == [TheBucket EXCEPT !.objects = (@ \ scan.page) \cup (@ \cap left)]
  <2>2. b \in BucketRecord /\ (~b.exists => b.objects = {})
    BY <1>1 DEF BucketRecord
  <2>3. scan' \in ScanRecord
    BY <1>1, <1>5 DEF DeleteObjects, ScanRecord
  <2> HIDE DEF b
  <2>4. CloudOK'
    BY <2>1, <2>2, <2>3, BucketAfter DEF b
  <2> QED
    BY <1>2, <1>3, <1>5, <2>4 DEF DeleteObjects, EmptyingRequests
<1>6. CASE DeleteBucket
  <2>1. NoBucket \in BucketRecord /\ NoBucket.objects = {}
    BY AWSAssumption DEF BucketRecord, NoBucket
  <2>2. scan' \in ScanRecord
    BY <1>1, <1>6 DEF DeleteBucket
  <2>3. SetBucket(NoBucket) \/ UNCHANGED cloudVars
    BY <1>6 DEF DeleteBucket, S3Request
  <2>4. CloudOK'
    BY <2>1, <2>2, <2>3, BucketAfter, NothingAfter
  <2>5. CASE Return(IF obj.spec.role = NoRole THEN "release" ELSE "deleteRole")
    <3>1. \/ pc' = "release" /\ call' = "none"
          \/ pc' = "deleteRole" /\ call' = "GetRole"
      BY <2>5 DEF Return, Goto, Entry
    <3> QED
      BY <2>4, <3>1, DeletingKept DEF RequestsOf, UnhookRequests
  <2> QED
    BY <1>2, <1>6, <2>4, <2>5 DEF DeleteBucket, S3Request
<1> QED
  BY <1>4, <1>5, <1>6

\* A request of ConfigureRole that succeeds with the role as r.
LEMMA ConfiguringKept ==
  ASSUME TypeOK, Kept, pc = "role", obj.spec.role # NoRole,
         NEW r \in RoleRecord, r.exists, SetRole(r), UNCHANGED <<written, scan>>,
         NEW c \in {"UntagRole", "TagRole", "PutRolePolicy"}, Ask(c),
         r.trust = obj.spec.access, c = "PutRolePolicy" => r.tags = obj.spec.tags,
         r.tags \notin RefusedTags
  PROVE  Kept'
<1>1. UNCHANGED <<pc, obj>> /\ call' = c
  BY DEF Ask, workerVars
<1>2. CloudOK' /\ TheRole' = r
  BY <1>1, RoleAfter
<1> QED
  BY <1>1, <1>2 DEF Kept, CloudOK, BucketInv, RoleInv, RequestsOf, RoleRequests,
     UnhookRequests

\* Each request of ConfigureRole adds to what the earlier ones established.
LEMMA ConfigureRoleKept ==
  ASSUME TypeOK, Kept, pc = "role", obj.spec.role # NoRole,
         \/ GetRole \/ CreateRole \/ UpdateAssumeRolePolicy \/ UntagRole
         \/ TagRole \/ PutRolePolicy,
         UNCHANGED <<written, scan>>
  PROVE  Kept'
<1>1. /\ TheRole \in RoleRecord /\ obj.spec.tags \in TagSets
      /\ obj.spec.access \in Accesses /\ obj.spec.name \in Names
      /\ TheRole.tags \notin RefusedTags
      /\ NoTags \notin RefusedTags
  <2>1. /\ TheRole \in RoleRecord /\ obj.spec.tags \in TagSets
        /\ obj.spec.access \in Accesses /\ obj.spec.name \in Names
        /\ obj.spec.role \in Roles
    BY Target
  <2> QED
    BY <2>1, AWSAssumption DEF Kept, CloudOK, TheRole
<1>2. scan' \in ScanRecord
  BY DEF Kept, CloudOK
<1>3. ASSUME CloudOK', ReturnError \/ (Finish /\ call' = "none") PROVE Kept'
  BY <1>3, Ended DEF ReturnError, Retry, Finish
<1>4. ASSUME NEW r \in RoleRecord, r.exists, r.tags \notin RefusedTags,
             SetRole(r) \/ UNCHANGED cloudVars
      PROVE  CloudOK'
  BY <1>2, <1>4, RoleAfter, NothingAfter
<1>5. CASE GetRole
  <2>1. UNCHANGED cloudVars
    BY <1>5 DEF GetRole
  <2>2. CloudOK' /\ (UNCHANGED obj => TheRole' = TheRole)
    BY <1>2, <2>1, NothingAfter
  <2>3. CASE Ask(IF TheRole.exists THEN "UpdateAssumeRolePolicy" ELSE "CreateRole")
    <3>1. UNCHANGED <<pc, obj>> /\ call' = IF TheRole.exists
             THEN "UpdateAssumeRolePolicy" ELSE "CreateRole"
      BY <2>3 DEF Ask, workerVars
    <3> QED
      BY <2>2, <3>1 DEF Kept, CloudOK, BucketInv, RoleInv, RequestsOf, RoleRequests,
         UnhookRequests
  <2> QED
    BY <1>3, <1>5, <2>2, <2>3 DEF GetRole, RequestFails
<1>6. ASSUME NEW r \in RoleRecord, r.exists, r.trust = obj.spec.access,
              r.tags = obj.spec.tags,
              \/ UNCHANGED cloudVars /\ ReturnError
              \/ /\ obj.spec.tags \notin RefusedTags
                 /\ IAMRequest(r, Ask("PutRolePolicy"))
       PROVE  Kept'
  <2>1. CASE UNCHANGED cloudVars /\ ReturnError
    <3>1. CloudOK'
      BY <1>2, <2>1, NothingAfter
    <3> QED
      BY <1>3, <2>1, <3>1
  <2>2. CASE /\ obj.spec.tags \notin RefusedTags
             /\ SetRole(r) /\ Ask("PutRolePolicy")
    BY <1>6, <2>2, ConfiguringKept
  <2>3. CASE /\ obj.spec.tags \notin RefusedTags
             /\ (SetRole(r) \/ UNCHANGED cloudVars) /\ RequestFails
    BY <1>3, <1>4, <1>6, <2>3 DEF RequestFails
  <2> QED
    BY <1>6, <2>1, <2>2, <2>3 DEF IAMRequest
<1>7. CASE CreateRole
  <2> DEFINE r == [NoIAMRole EXCEPT !.exists = TRUE, !.trust = obj.spec.access,
                                    !.tags = obj.spec.tags]
  <2>1. r \in RoleRecord /\ r.exists /\ r.trust = obj.spec.access
        /\ r.tags = obj.spec.tags
    BY <1>1 DEF RoleRecord, NoIAMRole
  <2> HIDE DEF r
  <2>2. \/ UNCHANGED cloudVars /\ ReturnError
        \/ obj.spec.tags \notin RefusedTags /\ IAMRequest(r, Ask("PutRolePolicy"))
    BY <1>7 DEF r, CreateRole, Tagging
  <2> QED
    BY <1>6, <2>1, <2>2
<1>8. ASSUME call \in RoleRequests PROVE TheRole.exists
  BY <1>8 DEF Kept, RoleInv
<1>9. CASE UpdateAssumeRolePolicy
  <2> DEFINE r == [TheRole EXCEPT !.trust = obj.spec.access]
  <2>1. r \in RoleRecord /\ r.exists /\ r.trust = obj.spec.access
        /\ r.tags = TheRole.tags /\ r.tags \notin RefusedTags
    BY <1>1, <1>8, <1>9 DEF RoleRecord, UpdateAssumeRolePolicy, RoleRequests
  <2> HIDE DEF r
  <2>2. PICK c \in {"UntagRole", "PutRolePolicy"} :
           /\ c = "PutRolePolicy" => TheRole.tags = obj.spec.tags
           /\ IAMRequest(r, Ask(c))
    BY <1>9 DEF r, UpdateAssumeRolePolicy
  <2>3. CASE SetRole(r) /\ Ask(c)
    BY <2>1, <2>2, <2>3, ConfiguringKept
  <2> QED
    BY <1>3, <1>4, <2>1, <2>2, <2>3 DEF IAMRequest, RequestFails
<1>10. CASE UntagRole
  <2> DEFINE r == [TheRole EXCEPT !.tags = NoTags]
  <2>1. r \in RoleRecord /\ r.exists /\ r.trust = obj.spec.access
        /\ r.tags \notin RefusedTags
    BY <1>1, <1>8, <1>10 DEF RoleRecord, UntagRole, RoleRequests, Kept, RoleInv
  <2> HIDE DEF r
  <2>2. IAMRequest(r, Ask("TagRole"))
    BY <1>10 DEF r, UntagRole
  <2>3. CASE SetRole(r) /\ Ask("TagRole")
    BY <2>1, <2>3, ConfiguringKept
  <2> QED
    BY <1>3, <1>4, <2>1, <2>2, <2>3 DEF IAMRequest, RequestFails
<1>11. CASE TagRole
  <2> DEFINE r == [TheRole EXCEPT !.tags = obj.spec.tags]
  <2>1. r \in RoleRecord /\ r.exists /\ r.trust = obj.spec.access
        /\ r.tags = obj.spec.tags
    BY <1>1, <1>8, <1>11 DEF RoleRecord, TagRole, RoleRequests, Kept, RoleInv
  <2> HIDE DEF r
  <2>2. \/ UNCHANGED cloudVars /\ ReturnError
        \/ obj.spec.tags \notin RefusedTags /\ IAMRequest(r, Ask("PutRolePolicy"))
    BY <1>11 DEF r, TagRole, Tagging
  <2> QED
    BY <1>6, <2>1, <2>2
<1>12. CASE PutRolePolicy
  <2> DEFINE p == [bucket |-> obj.spec.name, access |-> obj.spec.access]
             r == [TheRole EXCEPT !.inline = p]
  <2>1. r \in RoleRecord /\ r.exists /\ r.tags \notin RefusedTags
    BY <1>1, <1>8, <1>12 DEF RoleRecord, PutRolePolicy, RoleRequests
  <2> HIDE DEF r
  <2>2. IAMRequest(r, Finish /\ call' = "none")
    BY <1>12 DEF r, PutRolePolicy
  <2> QED
    BY <1>3, <1>4, <2>1, <2>2 DEF IAMRequest, RequestFails
<1> QED
  BY <1>5, <1>7, <1>9, <1>10, <1>11, <1>12

\* The role is there until the last request of DeleteRole.
LEMMA DeleteRoleKept ==
  ASSUME TypeOK, Kept, pc = "deleteRole", obj.spec.role # NoRole,
         \/ GetRole \/ ListAttachedRolePolicies \/ DetachRolePolicy
         \/ ListRolePolicies \/ DeleteRolePolicy
         \/ RemoveRoleFromInstanceProfile \/ DeleteInstanceProfile
         \/ DeleteRole,
         UNCHANGED <<written, scan>>
  PROVE  Kept'
<1>1. /\ TheRole \in RoleRecord /\ scan' \in ScanRecord
      /\ TheRole.tags \notin RefusedTags
  <2>1. TheRole \in RoleRecord /\ obj.spec.role \in Roles
    BY Target
  <2> QED
    BY <2>1 DEF Kept, CloudOK, TheRole
<1>2. ASSUME CloudOK', RequestFails \/ ReturnError PROVE Kept'
  BY <1>2, Ended DEF RequestFails, ReturnError, Retry
<1>3. ASSUME CloudOK', Return("release") PROVE Kept'
  <2>1. pc' = "release" /\ call' = "none"
    BY <1>3 DEF Return, Goto, Entry
  <2> QED
    BY <1>3, <2>1, DeletingKept DEF RequestsOf, UnhookRequests
<1>4. ASSUME NEW r \in RoleRecord, r.exists \/ r.inline = NoPolicy,
             r.tags \notin RefusedTags,
             SetRole(r) \/ UNCHANGED cloudVars
      PROVE  CloudOK'
  BY <1>1, <1>4, RoleAfter, NothingAfter
<1>5. ASSUME NEW r \in RoleRecord, r.exists, r.tags \notin RefusedTags,
             SetRole(r) \/ (UNCHANGED cloudVars /\ TheRole.exists),
             NEW c \in UnhookRequests, Ask(c)
      PROVE  Kept'
  <2>1. UNCHANGED <<pc, obj>> /\ call' = c
    BY <1>5 DEF Ask, workerVars
  <2>2. CloudOK' /\ TheRole'.exists
    BY <1>1, <1>5, <2>1, RoleAfter, NothingAfter
  <2> QED
    BY <1>5, <2>1, <2>2, DeletingKept DEF RequestsOf
<1>6. UNCHANGED cloudVars => CloudOK'
  BY <1>1, NothingAfter
<1>7. CASE GetRole
  <2>1. UNCHANGED cloudVars
    BY <1>7 DEF GetRole
  <2>2. \/ TheRole.exists /\ Ask("ListAttachedRolePolicies")
        \/ Return("release") \/ RequestFails
    BY <1>7 DEF GetRole
  <2> QED
    BY <1>1, <1>2, <1>3, <1>5, <1>6, <2>1, <2>2 DEF UnhookRequests
<1>8. ASSUME call \in UnhookRequests PROVE TheRole.exists
  BY <1>8 DEF Kept, RoleInv
<1>9. CASE ListAttachedRolePolicies \/ ListRolePolicies
  <2>1. UNCHANGED cloudVars /\ TheRole.exists
    BY <1>8, <1>9 DEF ListAttachedRolePolicies, ListRolePolicies, UnhookRequests
  <2>2. (\E c \in UnhookRequests : Ask(c)) \/ RequestFails
    BY <1>9 DEF ListAttachedRolePolicies, ListRolePolicies, UnhookRequests
  <2> QED
    BY <1>1, <1>2, <1>5, <1>6, <2>1, <2>2
<1>10. ASSUME NEW r \in RoleRecord, r.exists, r.tags \notin RefusedTags,
              NEW c \in UnhookRequests, IAMRequest(r, Ask(c))
       PROVE  Kept'
  BY <1>2, <1>4, <1>5, <1>6, <1>10 DEF IAMRequest
<1>11. CASE DetachRolePolicy
  <2> DEFINE r == [TheRole EXCEPT !.attached = FALSE]
  <2>1. r \in RoleRecord /\ r.exists /\ r.tags \notin RefusedTags
    BY <1>1, <1>8, <1>11 DEF RoleRecord, DetachRolePolicy, UnhookRequests
  <2> HIDE DEF r
  <2> QED
    BY <1>10, <1>11, <2>1 DEF r, DetachRolePolicy, UnhookRequests
<1>12. CASE DeleteRolePolicy
  <2> DEFINE r == [TheRole EXCEPT !.inline = NoPolicy]
  <2>1. r \in RoleRecord /\ r.exists /\ r.tags \notin RefusedTags
    BY <1>1, <1>8, <1>12 DEF RoleRecord, DeleteRolePolicy, UnhookRequests
  <2> HIDE DEF r
  <2> QED
    BY <1>10, <1>12, <2>1 DEF r, DeleteRolePolicy, UnhookRequests
<1>13. CASE RemoveRoleFromInstanceProfile
  <2> DEFINE r == [TheRole EXCEPT !.profile = IF @ = "member" THEN "empty" ELSE @]
  <2>1. /\ r \in RoleRecord /\ r.exists /\ TheRole.exists
        /\ r.tags \notin RefusedTags
    BY <1>1, <1>8, <1>13 DEF RoleRecord, RemoveRoleFromInstanceProfile, UnhookRequests
  <2> HIDE DEF r
  <2>2. \/ IAMRequest(r, Ask("DeleteInstanceProfile"))
        \/ UNCHANGED cloudVars /\ Ask("DeleteInstanceProfile")
    BY <1>13 DEF r, RemoveRoleFromInstanceProfile
  <2> QED
    BY <1>5, <1>10, <2>1, <2>2 DEF UnhookRequests
<1>14. CASE DeleteInstanceProfile
  <2> DEFINE r == [TheRole EXCEPT !.profile = "none"]
  <2>1. /\ r \in RoleRecord /\ r.exists /\ TheRole.exists
        /\ r.tags \notin RefusedTags
    BY <1>1, <1>8, <1>14 DEF RoleRecord, DeleteInstanceProfile, UnhookRequests
  <2> HIDE DEF r
  <2>2. \/ IAMRequest(r, Ask("DeleteRole"))
        \/ UNCHANGED cloudVars /\ Ask("DeleteRole")
        \/ UNCHANGED cloudVars /\ ReturnError
    BY <1>14 DEF r, DeleteInstanceProfile
  <2> QED
    BY <1>2, <1>5, <1>6, <1>10, <2>1, <2>2 DEF UnhookRequests
<1>15. CASE DeleteRole
  <2> DEFINE r == [NoIAMRole EXCEPT !.profile = TheRole.profile]
  <2>1. r \in RoleRecord /\ r.inline = NoPolicy /\ r.tags \notin RefusedTags
    BY <1>1, AWSAssumption DEF RoleRecord, NoIAMRole
  <2> HIDE DEF r
  <2>2. \/ SetRole(r) /\ Return("release")
        \/ (SetRole(r) \/ UNCHANGED cloudVars) /\ RequestFails
        \/ UNCHANGED cloudVars /\ ReturnError
    BY <1>15 DEF r, DeleteRole, IAMRequest
  <2> QED
    BY <1>2, <1>3, <1>4, <2>1, <2>2
<1> QED
  BY <1>7, <1>9, <1>11, <1>12, <1>13, <1>14, <1>15

\* Applications and others of IAM disturb nothing a call relies on.
LEMMA OutsideKept ==
  ASSUME TypeOK, RequestInv, Kept,
         \/ \E n \in Names, o \in Objects : AppWrite(n, o)
         \/ \E r \in Roles : Meddle(r)
  PROVE  Kept'
<1>1. UNCHANGED <<pc, obj, call, scan>>
  BY DEF AppWrite, Meddle, loopVars
<1>2. ASSUME NEW n \in Names, NEW o \in Objects, AppWrite(n, o)
      PROVE  Kept'
  <2>1. /\ s3' \in [Names -> BucketRecord]
        /\ iam' = iam /\ written' \subseteq Objects /\ s3[n].exists
        /\ \A m \in Names : /\ s3'[m].exists = s3[m].exists
                            /\ s3'[m].lifecycle = s3[m].lifecycle
                            /\ s3'[m].secured = s3[m].secured
                            /\ m # n => s3'[m] = s3[m]
    BY <1>2 DEF AppWrite, Kept, CloudOK, BucketRecord
  <2>2. CloudOK'
    BY <1>1, <2>1 DEF Kept, CloudOK
  <2>3. pc # "idle" => obj.spec.name \in Names
    BY Target
  <2>4. pc = "idle" => call = "none"
    BY DEF Kept, RequestsOf
  <2> QED
    BY <1>1, <2>1, <2>2, <2>3, <2>4 DEF Kept, CloudOK, BucketInv, RoleInv, TheBucket,
       TheRole
<1>3. ASSUME NEW r \in Roles, Meddle(r)
      PROVE  Kept'
  <2>1. /\ iam' \in [Roles -> RoleRecord]
        /\ s3' = s3 /\ written' = written
        /\ \A q \in Roles : /\ iam'[q].exists = iam[q].exists
                            /\ iam'[q].trust = iam[q].trust
                            /\ iam'[q].tags = iam[q].tags
                            /\ iam'[q].inline = iam[q].inline
    <3> DEFINE a == [iam[r] EXCEPT !.attached = TRUE]
               b == [iam[r] EXCEPT !.profile = "member"]
    <3>1. /\ iam \in [Roles -> RoleRecord] /\ iam[r] \in RoleRecord
          /\ s3' = s3 /\ written' = written
      BY <1>3 DEF Meddle, Kept, CloudOK
    <3>2. PICK c \in {a, b} : iam' = [iam EXCEPT ![r] = c]
      BY <1>3 DEF Meddle
    <3>3. /\ c \in RoleRecord /\ c.exists = iam[r].exists /\ c.trust = iam[r].trust
          /\ c.tags = iam[r].tags /\ c.inline = iam[r].inline
      BY <3>1, <3>2 DEF RoleRecord
    <3>4. \A q \in Roles : iam'[q] = IF q = r THEN c ELSE iam[q]
      BY <3>1, <3>2
    <3>5. iam' \in [Roles -> RoleRecord]
      <4> HIDE DEF a, b
      <4> QED
        BY <3>1, <3>2, <3>3
    <3> HIDE DEF a, b
    <3> QED
      BY <3>1, <3>3, <3>4, <3>5
  <2>2. CloudOK'
    <3>1. s3' \in [Names -> BucketRecord] /\ written' \subseteq Objects
          /\ scan' \in ScanRecord /\ \A n \in Names : ~s3'[n].exists => s3'[n].objects = {}
      BY <1>1, <2>1 DEF Kept, CloudOK
    <3>2. \A q \in Roles : /\ ~iam'[q].exists => iam'[q].inline = NoPolicy
                          /\ iam'[q].tags \notin RefusedTags
      BY <2>1 DEF Kept, CloudOK
    <3> QED
      BY <2>1, <3>1, <3>2 DEF CloudOK
  <2>3. call \in RoleRequests \cup UnhookRequests => obj.spec.role \in Roles
    <3>1. call \in RoleRequests \cup UnhookRequests =>
             pc \in {"role", "deleteRole"} /\ pc # "idle"
      BY CallStep DEF RequestInv
    <3> QED
      BY <3>1, Target DEF RequestInv, CallInv
  <2>4. BucketInv' /\ call' \in RequestsOf(pc')
    BY <1>1, <2>1 DEF Kept, BucketInv, TheBucket
  <2>5. RoleInv'
    <3>1. \A q \in Roles : /\ ~iam'[q].exists => iam'[q].inline = NoPolicy
                          /\ iam'[q].tags \notin RefusedTags
      BY <2>1 DEF Kept, CloudOK
    <3> QED
      BY <1>1, <2>1, <2>3, <3>1 DEF Kept, RoleInv, TheRole, RoleRequests
  <2> QED
    BY <2>2, <2>4, <2>5 DEF Kept
<1> QED
  BY <1>2, <1>3

\* What the requests rely on survives every step.
LEMMA KeptStep ==
  ASSUME TypeOK, RequestInv, LoopTypeOK', [Next]_vars
  PROVE  Kept'
<1>1. Kept /\ CallInv
  BY KeptParts DEF RequestInv
<1>2. CASE UNCHANGED vars
  BY <1>1, <1>2 DEF vars, loopVars, Kept, CloudOK, BucketInv, RoleInv, TheBucket, TheRole
<1>3. CASE \/ LoopStep(Others) \/ LoopStep(ControllerStep)
           \/ \E k \in Keys : LoopStep(Watch(k)) \/ LoopStep(Begin(k))
  BY <1>1, <1>3, LoopKept
<1>4. CASE Request
  <2>1. UNCHANGED written
    BY <1>4 DEF Request
  <2>2. CASE HeadBucket
    BY <1>1, <2>1, <2>2, CallStep, HeadBucketKept DEF HeadBucket
  <2>3. CASE CreateBucket \/ UpdateBucket
    BY <1>1, <2>1, <2>3, CallStep, CreateBucketKept
  <2>4. CASE SetLifecycleRules \/ SetBucketPolicy \/ SetTags
    <3>1. pc = "configure"
      BY <1>1, <2>4, CallStep DEF SetLifecycleRules, SetBucketPolicy, SetTags,
         ConfigureRequests
    <3> QED
      BY <1>1, <2>1, <2>4, <3>1, ConfigureBucketKept
  <2>5. CASE ListObjects \/ DeleteObjects \/ DeleteBucket
    <3>1. pc = "deleteBucket"
      BY <1>1, <2>5, CallStep DEF ListObjects, DeleteObjects, DeleteBucket,
         EmptyingRequests
    <3> QED
      BY <1>1, <2>1, <2>5, <3>1, DeleteBucketKept
  <2>6. ASSUME UNCHANGED scan,
               \/ GetRole \/ CreateRole \/ UpdateAssumeRolePolicy \/ UntagRole
               \/ TagRole \/ PutRolePolicy \/ ListAttachedRolePolicies
               \/ DetachRolePolicy \/ ListRolePolicies \/ DeleteRolePolicy
               \/ RemoveRoleFromInstanceProfile \/ DeleteInstanceProfile
               \/ DeleteRole
        PROVE  Kept'
    <3>1. \/ GetRole /\ pc \in {"role", "deleteRole"}
          \/ pc = "role" /\ \/ CreateRole \/ UpdateAssumeRolePolicy \/ UntagRole
                            \/ TagRole \/ PutRolePolicy
          \/ pc = "deleteRole" /\ \/ ListAttachedRolePolicies \/ DetachRolePolicy
                                  \/ ListRolePolicies \/ DeleteRolePolicy
                                  \/ RemoveRoleFromInstanceProfile
                                  \/ DeleteInstanceProfile \/ DeleteRole
      BY <1>1, <2>6, CallStep DEF RoleRequests, UnhookRequests, GetRole,
         CreateRole, UpdateAssumeRolePolicy, UntagRole, TagRole, PutRolePolicy,
         ListAttachedRolePolicies, DetachRolePolicy, ListRolePolicies,
         DeleteRolePolicy, RemoveRoleFromInstanceProfile, DeleteInstanceProfile,
         DeleteRole
    <3>2. obj.spec.role # NoRole
      BY <1>1, <3>1 DEF CallInv
    <3> QED
      BY <1>1, <2>1, <2>6, <3>1, <3>2, ConfigureRoleKept, DeleteRoleKept
  <2> QED
    BY <1>4, <2>2, <2>3, <2>4, <2>5, <2>6 DEF Request
<1> QED
  BY <1>1, <1>2, <1>3, <1>4, OutsideKept DEF Next

\* Both invariants hold at first.
LEMMA Started == Init => TypeOK /\ RequestInv
<1> SUFFICES ASSUME Init PROVE TypeOK /\ RequestInv
  OBVIOUS
<1>1. LoopTypeOK
  BY LoopAssumption DEF Init, LoopInit, LoopTypeOK, Version, Steps
<1>2. NoBucket \in BucketRecord /\ NoIAMRole \in RoleRecord /\ NoScan \in ScanRecord
  BY AWSAssumption DEF NoBucket, NoIAMRole, NoScan, BucketRecord, RoleRecord, ScanRecord
<1>3. CloudOK
  <2>1. NoIAMRole.tags \notin RefusedTags /\ NoIAMRole.inline = NoPolicy
        /\ NoBucket.objects = {}
    BY AWSAssumption DEF NoIAMRole, NoBucket
  <2> QED
    BY <1>2, <2>1 DEF Init, CloudOK
<1>4. pc = "idle" /\ call = "none"
  BY DEF Init, LoopInit
<1>5. Kept
  BY <1>3, <1>4 DEF Kept, CloudOK, BucketInv, RoleInv, RequestsOf, RoleRequests,
     UnhookRequests
<1> QED
  BY <1>1, <1>4, <1>5, KeptParts

\* Both are inductive together: the types of the loop come from the contract.
LEMMA InvStep ==
  ASSUME TypeOK, RequestInv, [Next]_vars
  PROVE  (TypeOK /\ RequestInv)'
<1>1. Safe!TypeOK /\ [Safe!Next]_Safe!vars
  BY ContractTypes, StepRefines DEF RequestInv
<1>2. Safe!TypeOK'
  BY <1>1, SafeAssumptions, Safe!TypeStep
<1>3. LoopTypeOK' /\ (pc' \in {"role", "deleteRole"} => obj'.spec.role # NoRole)
  <2>1. (LoopTypeOK <=> Safe!LoopTypeOK)'
    BY SameTypes, PTL
  <2> QED
    BY <1>2, <2>1 DEF Safe!TypeOK
<1>4. Kept'
  BY <1>3, KeptStep
<1>5. (/\ LoopTypeOK /\ Kept
       /\ pc \in {"role", "deleteRole"} => obj.spec.role # NoRole
       => TypeOK /\ RequestInv)'
  BY KeptParts, PTL
<1> QED
  BY <1>3, <1>4, <1>5

(***************************************************************************)
(* The theorems.                                                           *)
(***************************************************************************)

\* Every request finds the bucket, the role and the listing it works on of
\* their types, whatever crashes, failures and applications do in between.
THEOREM AWSTypeCorrect == Spec => []TypeOK
<1>1. TypeOK /\ RequestInv /\ [Next]_vars => (TypeOK /\ RequestInv)'
  BY InvStep
<1> QED
  BY <1>1, Started, PTL DEF Spec

\* The requests of a service call build on one another: when a later one is
\* made, what the earlier ones established is still in place.
THEOREM RequestsBuildUp == Spec => []RequestInv
<1>1. TypeOK /\ RequestInv /\ [Next]_vars => (TypeOK /\ RequestInv)'
  BY InvStep
<1> QED
  BY <1>1, Started, PTL DEF Spec

\* Nothing exists at first, here and for the contract.
LEMMA StartRefines == Init => Safe!Init
<1> SUFFICES ASSUME Init PROVE Safe!Init
  OBVIOUS
<1>1. Safe!LoopInit
  BY DEF Init, LoopInit, Safe!LoopInit
<1>2. BucketSeen(NoBucket) = Safe!Absent /\ RoleSeen(NoIAMRole) = Safe!Absent
  BY DEF BucketSeen, RoleSeen, NoBucket, NoIAMRole, Safe!Absent
<1>3. StoreOf = [n \in Names |-> Safe!Absent] /\ RolesOf = [r \in Roles |-> Safe!Absent]
  BY <1>2 DEF Init, StoreOf, RolesOf
<1> QED
  BY <1>1, <1>3 DEF Safe!Init

\* The same step by step: the contract with its theorems.
LEMMA RefinesSafe == Spec => Safe!Spec
<1>1. TypeOK /\ RequestInv /\ [Next]_vars => [Safe!Next]_Safe!vars
  BY StepRefines
<1> QED
  BY <1>1, AWSTypeCorrect, RequestsBuildUp, StartRefines, PTL DEF Spec, Safe!Spec

\* Every S3 or IAM request implements a step of the services' contract or
\* nothing that the contract sees: the reconciler over the AWS adapters
\* implements BucketController, for any Buckets, faults and bounds.
THEOREM ImplementsContract == Spec => ContractSpec
<1>1. Safe!Init => Contract!Init
  BY DEF Safe!Init, Contract!Init, Safe!LoopInit, Contract!LoopInit,
     Safe!Absent, Contract!Absent
<1>2. Safe!Environment => Contract!Environment
  BY DEF Safe!Environment, Contract!Environment, Safe!OthersAct,
     Contract!OthersAct, Safe!UserCreate, Contract!UserCreate, Safe!UserEdit,
     Contract!UserEdit, Safe!UserDelete, Contract!UserDelete, Safe!Hold,
     Contract!Hold, Safe!Release, Contract!Release, Safe!Watch, Contract!Watch,
     Safe!Resync, Contract!Resync, Safe!Crash, Contract!Crash, Safe!Stabilize,
     Contract!Stabilize, Safe!Live, Contract!Live, Safe!Exists, Contract!Exists,
     Safe!Write, Contract!Write, Safe!Stored, Contract!Stored, Safe!clusterVars,
     Contract!clusterVars, Safe!workerVars, Contract!workerVars
<1>3. /\ Safe!ControllerStep => Contract!ControllerStep
      /\ \A k : Safe!Begin(k) => Contract!Begin(k)
  BY DEF Safe!ControllerStep, Contract!ControllerStep, Safe!GetCluster,
     Contract!GetCluster, Safe!AddFinalizer, Contract!AddFinalizer,
     Safe!PatchStatus, Contract!PatchStatus, Safe!RemoveFinalizer,
     Contract!RemoveFinalizer, Safe!Begin, Contract!Begin, Safe!Goto,
     Contract!Goto, Safe!Finish, Contract!Finish, Safe!Retry, Contract!Retry,
     Safe!Fail, Contract!Fail, Safe!Exists, Contract!Exists, Safe!Merge,
     Contract!Merge, Safe!Relisted, Contract!Relisted, Safe!Refuses,
     Contract!Refuses, Safe!Stored, Contract!Stored, Safe!Write, Contract!Write,
     Safe!clusterVars, Contract!clusterVars
<1>4. /\ Safe!ServiceCall => Contract!ServiceCall
      /\ Safe!Progress \/ Safe!Refused => Contract!Progress \/ Contract!Refused
  BY DEF Safe!ServiceCall, Contract!ServiceCall, Safe!Progress,
     Contract!Progress, Safe!Refused, Contract!Refused, Safe!Unsettled,
     Contract!Unsettled, Safe!ExistsBucket, Contract!ExistsBucket,
     Safe!CreateBucket, Contract!CreateBucket, Safe!UpdateBucket,
     Contract!UpdateBucket, Safe!ConfigureBucket, Contract!ConfigureBucket,
     Safe!ConfigureRole, Contract!ConfigureRole, Safe!ExistsBucketDelete,
     Contract!ExistsBucketDelete, Safe!DeleteBucket, Contract!DeleteBucket,
     Safe!DeleteRole, Contract!DeleteRole, Safe!BucketWith, Contract!BucketWith,
     Safe!RoleWith, Contract!RoleWith, Safe!BucketGone, Contract!BucketGone,
     Safe!RoleGone, Contract!RoleGone, Safe!Carrying, Contract!Carrying,
     Safe!Absent, Contract!Absent, Safe!StoreSettings, Contract!StoreSettings,
     Safe!RoleSettings, Contract!RoleSettings, Safe!StoreSettingsOf,
     Contract!StoreSettingsOf, Safe!RoleSettingsOf, Contract!RoleSettingsOf,
     Safe!Goto, Contract!Goto, Safe!Finish, Contract!Finish, Safe!Retry,
     Contract!Retry, Safe!Fail, Contract!Fail, Safe!clusterVars,
     Contract!clusterVars, Safe!loopVars, Contract!loopVars
<1>5. [Safe!Next]_Safe!vars => [Contract!Next]_Contract!vars
  BY <1>2, <1>3, <1>4 DEF Safe!Next, Contract!Next, Safe!vars, Contract!vars,
     Safe!loopVars, Contract!loopVars
<1> QED
  BY <1>1, <1>5, RefinesSafe, PTL DEF Safe!Spec, ContractSpec, Contract!Spec

(***************************************************************************)
(* What follows for buckets and their data.                                *)
(***************************************************************************)

\* What a step may take from a bucket: its policy only when it is created or
\* deleted, and objects only while DeleteBucket empties it.
LEMMA BucketStep ==
  ASSUME TypeOK, RequestInv, [Next]_vars, NEW n \in Names
  PROVE  /\ s3[n].exists /\ s3'[n].exists /\ s3[n].secured => s3'[n].secured
         /\ ~(s3[n].objects \subseteq s3'[n].objects) =>
               n = obj.spec.name /\ pc = "deleteBucket" /\ s3[n].exists
<1> DEFINE Goal ==
      /\ s3[n].exists /\ s3'[n].exists /\ s3[n].secured => s3'[n].secured
      /\ ~(s3[n].objects \subseteq s3'[n].objects) =>
            n = obj.spec.name /\ pc = "deleteBucket" /\ s3[n].exists
<1>1. CASE UNCHANGED s3
  BY <1>1
<1>2. CallInv /\ (~s3[n].exists => s3[n].objects = {}) /\ s3[n] \in BucketRecord
  BY DEF RequestInv, BucketInv, TypeOK, BucketRecord
<1>3. ASSUME NEW b, SetBucket(b), pc # "idle",
             /\ TheBucket.exists /\ b.exists /\ TheBucket.secured => b.secured
             /\ TheBucket.objects \subseteq b.objects \/ pc = "deleteBucket"
      PROVE  Goal
  <2>1. obj.spec.name \in Names
    BY <1>3, Target
  <2>2. s3'[n] = IF n = obj.spec.name THEN b ELSE s3[n]
    BY <1>3, <2>1 DEF SetBucket, TypeOK
  <2> QED
    BY <1>2, <1>3, <2>2 DEF TheBucket
<1>4. ASSUME pc # "idle" PROVE TheBucket \in BucketRecord
  BY <1>4, Target
<1>5. CASE CreateBucket
  <2>1. pc = "create" /\ ~TheBucket.exists /\ obj.spec.name \in Names
    BY <1>2, <1>5, CallStep, Target DEF CreateBucket, RequestInv, BucketInv
  <2>2. TheBucket.objects = {}
    BY <2>1 DEF RequestInv, BucketInv, TheBucket
  <2>3. UNCHANGED s3 \/ SetBucket([NoBucket EXCEPT !.exists = TRUE])
    BY <1>5 DEF CreateBucket, S3Request, cloudVars
  <2> QED
    BY <1>1, <1>3, <2>1, <2>2, <2>3
<1>6. CASE SetLifecycleRules
  <2> DEFINE b == [TheBucket EXCEPT !.lifecycle = obj.spec.expiration]
  <2>1. pc = "configure"
    BY <1>2, <1>6, CallStep DEF SetLifecycleRules, ConfigureRequests
  <2>2. b.secured = TheBucket.secured /\ b.objects = TheBucket.objects
    BY <1>4, <2>1 DEF BucketRecord
  <2>3. UNCHANGED s3 \/ SetBucket(b)
    BY <1>6 DEF SetLifecycleRules, S3Request, cloudVars
  <2> HIDE DEF b
  <2> QED
    BY <1>1, <1>3, <2>1, <2>2, <2>3
<1>7. CASE SetBucketPolicy
  <2> DEFINE b == [TheBucket EXCEPT !.secured = TRUE]
  <2>1. pc = "configure"
    BY <1>2, <1>7, CallStep DEF SetBucketPolicy, ConfigureRequests
  <2>2. b.secured /\ b.objects = TheBucket.objects
    BY <1>4, <2>1 DEF BucketRecord
  <2>3. UNCHANGED s3 \/ SetBucket(b)
    BY <1>7 DEF SetBucketPolicy, S3Request, cloudVars
  <2> HIDE DEF b
  <2> QED
    BY <1>1, <1>3, <2>1, <2>2, <2>3
<1>8. CASE SetTags
  <2> DEFINE b == [TheBucket EXCEPT !.tags = obj.spec.tags]
  <2>1. pc = "configure"
    BY <1>2, <1>8, CallStep DEF SetTags, ConfigureRequests
  <2>2. b.secured = TheBucket.secured /\ b.objects = TheBucket.objects
    BY <1>4, <2>1 DEF BucketRecord
  <2>3. UNCHANGED s3 \/ SetBucket(b)
    BY <1>8 DEF SetTags, Tagging, S3Request, cloudVars
  <2> HIDE DEF b
  <2> QED
    BY <1>1, <1>3, <2>1, <2>2, <2>3
<1>9. CASE DeleteObjects
  <2>1. PICK left : SetBucket([TheBucket EXCEPT !.objects =
                       (@ \ scan.page) \cup (@ \cap left)])
    BY <1>9 DEF DeleteObjects
  <2> DEFINE b == [TheBucket EXCEPT !.objects = (@ \ scan.page) \cup (@ \cap left)]
  <2>2. pc = "deleteBucket"
    BY <1>2, <1>9, CallStep DEF DeleteObjects, EmptyingRequests
  <2>3. b.secured = TheBucket.secured
    BY <1>4, <2>2 DEF BucketRecord
  <2> HIDE DEF b
  <2> QED
    BY <1>3, <2>1, <2>2, <2>3 DEF b
<1>10. CASE DeleteBucket
  <2>1. pc = "deleteBucket"
    BY <1>2, <1>10, CallStep DEF DeleteBucket, EmptyingRequests
  <2>2. UNCHANGED s3 \/ SetBucket(NoBucket)
    BY <1>10 DEF DeleteBucket, S3Request, cloudVars
  <2> QED
    BY <1>1, <1>3, <2>1, <2>2 DEF NoBucket
<1>11. ASSUME NEW m \in Names, NEW o \in Objects, AppWrite(m, o)
       PROVE  Goal
  <2>1. s3'[n].secured = s3[n].secured /\ s3[n].objects \subseteq s3'[n].objects
    BY <1>2, <1>11 DEF AppWrite, TypeOK
  <2> QED
    BY <2>1
<1>12. CASE Request
  <2>1. ASSUME HeadBucket \/ UpdateBucket \/ ListObjects PROVE UNCHANGED s3
    BY <2>1 DEF HeadBucket, UpdateBucket, ListObjects, cloudVars
  <2>2. ASSUME \/ GetRole \/ CreateRole \/ UpdateAssumeRolePolicy \/ UntagRole
               \/ TagRole \/ PutRolePolicy \/ ListAttachedRolePolicies
               \/ DetachRolePolicy \/ ListRolePolicies \/ DeleteRolePolicy
               \/ RemoveRoleFromInstanceProfile \/ DeleteInstanceProfile
               \/ DeleteRole
        PROVE  UNCHANGED s3
    BY <2>2 DEF GetRole, CreateRole, UpdateAssumeRolePolicy, UntagRole, TagRole,
       PutRolePolicy, ListAttachedRolePolicies, DetachRolePolicy, ListRolePolicies,
       DeleteRolePolicy, RemoveRoleFromInstanceProfile, DeleteInstanceProfile,
       DeleteRole, Tagging, IAMRequest, SetRole, cloudVars
  <2> QED
    BY <1>1, <1>5, <1>6, <1>7, <1>8, <1>9, <1>10, <1>12, <2>1, <2>2 DEF Request
<1>13. ASSUME ~UNCHANGED s3
       PROVE  Request \/ \E m \in Names, o \in Objects : AppWrite(m, o)
  BY <1>13 DEF Next, vars, LoopStep, cloudVars, Meddle
<1> QED
  BY <1>1, <1>11, <1>12, <1>13

\* The contract's invariant, of this specification.
LEMMA SafeInvariance ==
  ASSUME Safe!Exclusive
  PROVE  Spec => [](Safe!TypeOK /\ Safe!Inv)
<1>1. Safe!Spec => []Safe!Inv
  BY SafeAssumptions, Safe!Invariance
<1>2. Safe!Spec => []Safe!TypeOK
  BY SafeAssumptions, Safe!TypeCorrect
<1> QED
  BY <1>1, <1>2, RefinesSafe, PTL

\* The name in a Ready status is the object's own.
LEMMA ReadyName ==
  ASSUME Safe!TypeOK, Safe!Inv, NEW k \in Keys, Live(k), api[k].status.ready
  PROVE  api[k].status.id \in Names
<1>1. Safe!LoopTypeOK /\ Safe!LoopInv
  BY DEF Safe!TypeOK, Safe!Inv
<1>2. api[k] \in Safe!Bucket /\ api[k] # NoObject
  BY <1>1 DEF Live, Exists, Safe!LoopTypeOK, Safe!Version
<1>3. Safe!Genuine(k, api[k])
  BY <1>1, SafeAssumptions, Safe!ApiGenuine
<1>4. api[k].status \in {[id |-> NoName, ready |-> FALSE],
                        [id |-> api[k].spec.name, ready |-> TRUE]}
  BY <1>2, <1>3 DEF Safe!Genuine
<1>5. api[k].status.id = api[k].spec.name
  BY <1>4
<1>6. api[k].spec \in Safe!BucketSpec
  BY <1>2 DEF Safe!Bucket
<1> QED
  BY <1>5, <1>6 DEF Safe!BucketSpec

\* No step leaves a live, ready Bucket with a bucket that is not secured.
LEMMA SecuredStep ==
  ASSUME Safe!Exclusive, Foreign = {}, TypeOK, RequestInv, [Next]_vars,
         Safe!TypeOK, Safe!Inv, Safe!TypeOK', Safe!Inv', ReadyMeansSecured
  PROVE  ReadyMeansSecured'
<1> SUFFICES ASSUME NEW k \in Keys, api'[k] # NoObject, ~api'[k].deleting,
                    api'[k].status.ready
             PROVE  s3'[api'[k].status.id].secured
  BY DEF ReadyMeansSecured, Live, Exists
<1> DEFINE n == api'[k].status.id
<1>1. n \in Names
  <2>1. (Live(k) /\ api[k].status.ready => api[k].status.id \in Names)'
    BY ReadyName, PTL
  <2> QED
    BY <2>1 DEF Live, Exists
<1>2. s3'[n].exists
  <2>1. StoreOf'[n].exists
    BY DEF Safe!Inv, Safe!ReadyMeansProvisioned, Safe!Live, Safe!Exists
  <2>2. s3' \in [Names -> BucketRecord]
    BY InvStep DEF TypeOK, BucketRecord
  <2> QED
    BY <1>1, <2>1, <2>2, SeenTypes DEF StoreOf
<1>3. s3[n].exists /\ s3[n].secured
  <2>1. \/ Live(k) /\ api'[k].status = api[k].status
        \/ pc = "status" /\ n = obj.spec.name
    <3>1. [Safe!Next]_Safe!vars
      BY StepRefines
    <3> QED
      BY <3>1, SafeAssumptions, Safe!StepOfLoop, Safe!ReadyNews DEF Safe!TypeOK, Safe!Inv, Live, Exists
  <2>2. CASE Live(k) /\ api'[k].status = api[k].status
    <3>1. StoreOf[n].exists
      BY <2>2 DEF Safe!Inv, Safe!ReadyMeansProvisioned, Live, Exists, Safe!Live,
         Safe!Exists
    <3>2. s3[n].exists
      BY <1>1, <3>1, SeenTypes DEF StoreOf, TypeOK, BucketRecord
    <3> QED
      BY <2>2, <3>2 DEF ReadyMeansSecured
  <2>3. CASE pc = "status" /\ n = obj.spec.name
    BY <2>3 DEF RequestInv, BucketInv, TheBucket
  <2> QED
    BY <2>1, <2>2, <2>3
<1> QED
  BY <1>1, <1>2, <1>3, BucketStep

\* Where Buckets name their buckets and roles apart and for life and nobody
\* else puts finalizers on them, a bucket announced as ready refuses
\* unencrypted access until its deletion is requested: ConfigureBucket sets the
\* policy before the status is patched, and no later request takes it off.
THEOREM ReadyIsSecured ==
  ASSUME Contract!Exclusive, Foreign = {}
  PROVE  Spec => []ReadyMeansSecured
<1>1. Safe!Exclusive
  BY DEF Contract!Exclusive, Safe!Exclusive
<1>2. Init => ReadyMeansSecured
  BY DEF Init, LoopInit, ReadyMeansSecured, Live, Exists
<1>3. /\ TypeOK /\ RequestInv /\ Safe!TypeOK /\ Safe!Inv
      /\ (Safe!TypeOK /\ Safe!Inv)'
      /\ ReadyMeansSecured /\ [Next]_vars
      => ReadyMeansSecured'
  BY <1>1, SecuredStep
<1>4. Spec => [](Safe!TypeOK /\ Safe!Inv)
  BY <1>1, SafeInvariance
<1> QED
  BY <1>2, <1>3, <1>4, AWSTypeCorrect, RequestsBuildUp, PTL DEF Spec

\* Under the same assumptions objects go only while the API server's object for
\* their bucket is marked for deletion and has known a Delete policy, although
\* DeleteBucket works on a copy of it that may be old.
THEOREM DataIsForfeit ==
  ASSUME Contract!Exclusive, Foreign = {}
  PROVE  Spec => DataOnlyGoesOnDeletion
<1> DEFINE A == \A n \in Names : ~(s3[n].objects \subseteq s3'[n].objects) =>
                   \E k \in Keys : Forfeit(k) /\ api[k].spec.name = n
<1>1. Safe!Exclusive
  BY DEF Contract!Exclusive, Safe!Exclusive
<1>2. TypeOK /\ RequestInv /\ Safe!TypeOK /\ Safe!Inv /\ [Next]_vars => [A]_vars
  <2> SUFFICES ASSUME TypeOK, RequestInv, Safe!TypeOK, Safe!Inv, [Next]_vars,
                      NEW n \in Names, ~(s3[n].objects \subseteq s3'[n].objects)
               PROVE  \E k \in Keys : Forfeit(k) /\ api[k].spec.name = n
    OBVIOUS
  <2>1. n = obj.spec.name /\ pc = "deleteBucket" /\ s3[n].exists
    BY BucketStep
  <2>2. /\ Safe!LoopTypeOK /\ Safe!LoopInv /\ Safe!NoOrphans /\ Safe!CloudInv
        /\ pc \in Safe!DeletingSteps
    BY <2>1 DEF Safe!TypeOK, Safe!Inv, Safe!DeletingSteps
  <2>3. obj \in Safe!Bucket /\ obj # NoObject /\ obj.others = {}
    BY <2>1, LoopAssumption, SameTypes
       DEF Safe!TypeOK, Safe!LoopTypeOK, Safe!Version, Safe!Bucket
  <2>4. obj.fin
    BY <2>1, <2>2, <2>3
       DEF Safe!LoopInv, Safe!PassInv, Safe!Genuine, Safe!Deleting, Safe!DeletingSteps
  <2>5. StoreOf[obj.spec.name].exists
    BY <2>1, SeenTypes DEF StoreOf, TypeOK, BucketRecord
  <2>6. req \in Keys /\ Safe!Genuine(req, obj) /\ Safe!Marked(api[req])
    BY <1>1, <2>2, <2>4, <2>5, SafeAssumptions, Safe!ResourcesMarked
  <2>7. obj.spec.reclaim = "Delete" /\ obj.spec \in Allowed[req]
    BY <2>1, <2>2, <2>3, <2>6 DEF Safe!CloudInv, Safe!Genuine
  <2>8. api[req] \in Safe!Bucket /\ Safe!Genuine(req, api[req])
    BY <2>2, <2>6, SafeAssumptions, Safe!ApiGenuine DEF Safe!LoopTypeOK, Safe!Version, Safe!Marked
  <2>9. api[req].spec.name = obj.spec.name
    BY <1>1, <2>3, <2>6, <2>8, SafeAssumptions, Safe!SameNames
  <2> QED
    BY <2>1, <2>6, <2>7, <2>9 DEF Forfeit, Exists, Safe!Marked
<1>3. Spec => [](Safe!TypeOK /\ Safe!Inv)
  BY <1>1, SafeInvariance
<1>4. Spec => [][A]_vars
  BY <1>2, <1>3, AWSTypeCorrect, RequestsBuildUp, PTL DEF Spec
<1> QED
  BY <1>4 DEF DataOnlyGoesOnDeletion

\* What it takes, in S3 and IAM, for a bucket or role to carry a spec's settings.
LEMMA CarriedSettings ==
  ASSUME TypeOK, NEW s \in BucketSpec
  PROVE  /\ StoreOf[s.name] = Safe!Carrying(Safe!StoreSettingsOf(s)) =>
               /\ s3[s.name].exists /\ s3[s.name].secured
               /\ s3[s.name].lifecycle = s.expiration /\ s3[s.name].tags = s.tags
         /\ s.role # NoRole /\ RolesOf[s.role] = Safe!Carrying(Safe!RoleSettingsOf(s)) =>
               /\ iam[s.role].exists /\ iam[s.role].trust = s.access
               /\ iam[s.role].tags = s.tags
               /\ iam[s.role].inline = [bucket |-> s.name, access |-> s.access]
<1> DEFINE c == Safe!StoreSettingsOf(s)
           d == Safe!RoleSettingsOf(s)
<1>1. /\ s.name \in Names
      /\ s.role # NoRole => s.role \in Roles
      /\ s.expiration \in Expirations /\ s.tags \in TagSets /\ s.access \in Accesses
  BY DEF BucketSpec
<1>2. /\ c # Nothing /\ c.expiration = s.expiration /\ c.tags = s.tags
      /\ d # Nothing /\ d.bucket = s.name /\ d.access = s.access /\ d.tags = s.tags
  <2>1. c \in Safe!StoreSettings /\ d \in Safe!RoleSettings
    BY <1>1 DEF Safe!StoreSettingsOf, Safe!RoleSettingsOf, Safe!StoreSettings,
       Safe!RoleSettings
  <2>2. Nothing \notin Safe!StoreSettings \cup Safe!RoleSettings
    BY SafeAssumptions DEF Safe!ControllerAssumption
  <2>3. /\ c.expiration = s.expiration /\ c.tags = s.tags
        /\ d.bucket = s.name /\ d.access = s.access /\ d.tags = s.tags
    BY DEF Safe!StoreSettingsOf, Safe!RoleSettingsOf
  <2> QED
    BY <2>1, <2>2, <2>3
<1> HIDE DEF c, d
<1>3. ASSUME StoreOf[s.name] = Safe!Carrying(c)
      PROVE  /\ s3[s.name].exists /\ s3[s.name].secured
             /\ s3[s.name].lifecycle = s.expiration /\ s3[s.name].tags = s.tags
  <2> DEFINE b == s3[s.name]
  <2>1. BucketSeen(b) = [exists |-> TRUE, carries |-> c]
    BY <1>1, <1>3 DEF StoreOf, Safe!Carrying
  <2>2. b.exists /\ BucketSeen(b).carries = c
    <3> DEFINE t == [exists |-> TRUE, carries |-> c]
    <3>1. BucketSeen(b).exists = b.exists
      BY DEF BucketSeen
    <3>2. t.exists = TRUE /\ t.carries = c /\ BucketSeen(b) = t
      BY <2>1
    <3> HIDE DEF t, b
    <3> QED
      BY <3>1, <3>2, Zenon
  <2> HIDE DEF b
  <2>3. b.secured /\ b.tags # NoTags /\ c = [expiration |-> b.lifecycle, tags |-> b.tags]
    BY <1>2, <2>2 DEF BucketSeen
  <2> QED
    BY <1>2, <2>2, <2>3 DEF b
<1>4. ASSUME s.role # NoRole, RolesOf[s.role] = Safe!Carrying(d)
      PROVE  /\ iam[s.role].exists /\ iam[s.role].trust = s.access
             /\ iam[s.role].tags = s.tags
             /\ iam[s.role].inline = [bucket |-> s.name, access |-> s.access]
  <2> DEFINE r == iam[s.role]
  <2>0. r \in RoleRecord
    BY <1>1, <1>4 DEF TypeOK, RoleRecord
  <2>1. RoleSeen(r) = [exists |-> TRUE, carries |-> d]
    BY <1>1, <1>4 DEF RolesOf, Safe!Carrying
  <2>2. r.exists /\ RoleSeen(r).carries = d
    <3> DEFINE t == [exists |-> TRUE, carries |-> d]
    <3>1. RoleSeen(r).exists = r.exists
      BY DEF RoleSeen
    <3>2. t.exists = TRUE /\ t.carries = d /\ RoleSeen(r) = t
      BY <2>1
    <3> HIDE DEF t, r
    <3> QED
      BY <3>1, <3>2, Zenon
  <2> HIDE DEF r
  <2>3. /\ r.inline # NoPolicy /\ r.inline.access = r.trust
        /\ d = [bucket |-> r.inline.bucket, access |-> r.trust, tags |-> r.tags]
    BY <1>2, <2>2 DEF RoleSeen
  <2>4. /\ r.inline \in [bucket : Names, access : Accesses]
        /\ r.inline.bucket = s.name /\ r.inline.access = s.access
        /\ r.trust = s.access /\ r.tags = s.tags
    BY <1>2, <2>0, <2>3 DEF RoleRecord
  <2>5. r.inline = [bucket |-> s.name, access |-> s.access]
    BY <2>4
  <2> QED
    BY <2>2, <2>4, <2>5 DEF r
<1> QED
  BY <1>3, <1>4 DEF c, d

\* For Buckets that name their buckets and roles apart and for life, whoever
\* else puts finalizers on them, the operator rests only when S3 and IAM hold
\* what the current spec says: what ConfigureBucket and ConfigureRole put in
\* place request by request, and retry as a whole.
THEOREM IdleIsSettledInCloud ==
  ASSUME Contract!Exclusive
  PROVE  Spec => []SettledInCloud
<1>1. Safe!Exclusive
  BY DEF Contract!Exclusive, Safe!Exclusive
<1>2. Spec => []Safe!SettledWhenIdle
  BY <1>1, SafeAssumptions, Safe!IdleIsSettled, RefinesSafe, PTL
<1>3. TypeOK /\ Safe!SettledWhenIdle => SettledInCloud
  <2> SUFFICES ASSUME TypeOK, Safe!SettledWhenIdle, NEW k \in Keys, Live(k), Idle(k)
               PROVE  LET s == api[k].spec
                          b == s3[s.name]
                          r == iam[s.role] IN
                      /\ b.exists /\ b.secured /\ b.lifecycle = s.expiration
                      /\ b.tags = s.tags
                      /\ s.role # NoRole =>
                            /\ r.exists /\ r.trust = s.access /\ r.tags = s.tags
                            /\ r.inline = [bucket |-> s.name, access |-> s.access]
    BY DEF SettledInCloud
  <2>1. api[k].spec \in BucketSpec
    BY DEF TypeOK, LoopTypeOK, Version, Bucket, Live, Exists
  <2>2. /\ StoreOf[api[k].spec.name] =
              Safe!Carrying(Safe!StoreSettingsOf(api[k].spec))
        /\ api[k].spec.role # NoRole =>
              RolesOf[api[k].spec.role] =
                 Safe!Carrying(Safe!RoleSettingsOf(api[k].spec))
    BY DEF Safe!SettledWhenIdle, Safe!Live, Safe!Exists, Safe!Idle, Live, Exists, Idle
  <2> QED
    BY <2>1, <2>2, CarriedSettings
<1> QED
  BY <1>2, <1>3, AWSTypeCorrect, PTL
=============================================================================
