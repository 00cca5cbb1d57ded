----------------------- MODULE ControllerSafetyProofs -----------------------
EXTENDS ControllerInvariant, BucketControllerProofs, TLAPS

\* What a service call, returned or not, does to the cloud.
LEMMA ServiceEffects ==
  ASSUME ServiceCall \/ Progress \/ Refused
  PROVE  \/ UNCHANGED <<store, roles>>
         \/ /\ pc \in {"create", "update", "configure"}
            /\ \E c : BucketWith(c)
            /\ UNCHANGED roles
         \/ /\ pc = "role" /\ UNCHANGED store
            /\ \E c : RoleWith(c)
         \/ /\ pc = "deleteRole" /\ UNCHANGED store
            /\ \/ RoleGone
               \/ roles[obj.spec.role].exists /\ \E c : RoleWith(c)
         \/ pc = "deleteBucket" /\ BucketGone /\ UNCHANGED roles
<1>1. CASE Unsettled
  BY <1>1 DEF Unsettled
<1>2. CASE Progress \/ Refused
  BY <1>1, <1>2 DEF Progress, Refused
<1>3. CASE ExistsBucket \/ CreateBucket \/ UpdateBucket \/ ConfigureBucket
  BY <1>1, <1>3 DEF ExistsBucket, CreateBucket, UpdateBucket, ConfigureBucket
<1>4. CASE ConfigureRole
  BY <1>1, <1>4 DEF ConfigureRole
<1>5. CASE ExistsBucketDelete \/ DeleteBucket \/ DeleteRole
  BY <1>1, <1>5 DEF ExistsBucketDelete, DeleteBucket, DeleteRole
<1> QED
  BY <1>2, <1>3, <1>4, <1>5 DEF ServiceCall

(***************************************************************************)
(* The cloud.                                                              *)
(***************************************************************************)

\* A deleting pass that found the operator's finalizer on its copy finds its
\* resources, if they exist, under a marked object.
LEMMA ResourcesMarked ==
  ASSUME LoopAssumption, Exclusive, LoopTypeOK, LoopInv, NoOrphans,
         pc \in DeletingSteps, obj.fin
  PROVE  /\ req \in Keys /\ obj \in Bucket /\ Genuine(req, obj)
         /\ store[obj.spec.name].exists => Marked(api[req])
         /\ obj.spec.role # NoRole /\ roles[obj.spec.role].exists =>
               Marked(api[req])
<1>1. /\ req \in Keys /\ obj \in Bucket /\ Genuine(req, obj)
      /\ ~Held(api[req])
  BY ApiGenuine DEF DeletingSteps, LoopTypeOK, Version, LoopInv, PassInv,
                    Deleting
<1>2. obj.spec.name \in Names /\ obj.spec.role \in Roles \cup {NoRole}
  BY <1>1 DEF Bucket, BucketSpec
<1>3. ASSUME NEW k \in Keys, Exists(k), api[k].fin,
             \/ api[k].spec.name = obj.spec.name
             \/ api[k].spec.role = obj.spec.role /\ obj.spec.role # NoRole
      PROVE  Marked(api[req])
  <2>1. api[k] \in Bucket /\ Genuine(k, api[k])
    BY <1>3, ApiGenuine DEF Exists, LoopTypeOK, Version
  <2>2. k = req
    BY <1>1, <1>3, <2>1, SameNames
  <2> QED
    BY <1>1, <1>3, <2>2 DEF Held, Marked, Exists
<1>4. ASSUME store[obj.spec.name].exists PROVE Marked(api[req])
  BY <1>2, <1>3, <1>4 DEF NoOrphans
<1>5. ASSUME obj.spec.role # NoRole, roles[obj.spec.role].exists
      PROVE  Marked(api[req])
  BY <1>2, <1>3, <1>5 DEF NoOrphans
<1> QED
  BY <1>1, <1>4, <1>5

\* A step that keeps every finalizer and the cloud keeps NoOrphans.
LEMMA HeldKeeps ==
  ASSUME LoopAssumption, Exclusive, LoopTypeOK, LoopTypeOK', LoopInv, LoopInv',
         NoOrphans, UNCHANGED <<store, roles>>,
         \A k \in Keys : Exists(k) /\ api[k].fin => api'[k] # NoObject /\ api'[k].fin
  PROVE  NoOrphans'
<1>1. ASSUME NEW k \in Keys, Exists(k), api[k].fin
      PROVE  /\ api'[k] # NoObject /\ api'[k].fin
             /\ api'[k].spec.name = api[k].spec.name
             /\ api'[k].spec.role = api[k].spec.role
  <2>1. /\ api[k] \in Bucket /\ api'[k] \in Bucket
        /\ api'[k] # NoObject /\ api'[k].fin
    BY <1>1 DEF Exists, LoopTypeOK, Version
  <2>2. Genuine(k, api[k]) /\ Genuine(k, api[k])'
    BY ApiGenuine, PTL
  <2> QED
    BY <2>1, <2>2, SameNames DEF Genuine
<1> QED
  BY <1>1 DEF NoOrphans, Exists

\* The service calls, and the cloud they leave behind.
LEMMA ServiceKeeps ==
  ASSUME LoopAssumption, Exclusive, TypeOK, Inv,
         \/ ServiceCall \/ Progress
         \/ Refused
  PROVE  /\ CloudInv' /\ NoOrphans'
         /\ Foreign = {} =>
               /\ ReadyMeansProvisioned'
               /\ \A n \in Names : store[n].exists /\ ~store'[n].exists =>
                     \E k \in Keys : Doomed(k) /\ api[k].spec.name = n
               /\ \A r \in Roles : roles[r].exists /\ ~roles'[r].exists =>
                     \E k \in Keys : Doomed(k) /\ api[k].spec.role = r
<1> DEFINE n0 == obj.spec.name
           r0 == obj.spec.role
<1>1. /\ UNCHANGED <<api, cache, events, faulty>>
      /\ req \in Keys /\ obj \in Bucket /\ Genuine(req, obj)
      /\ pc \in HoldingSteps \/ pc \in DeletingSteps
  <2>1. pc \in HoldingSteps \/ pc \in DeletingSteps
    BY DEF ServiceCall, Progress, Unsettled, Refused, ExistsBucket,
       CreateBucket, UpdateBucket, ConfigureBucket, ConfigureRole,
       ExistsBucketDelete, DeleteBucket, DeleteRole, HoldingSteps, DeletingSteps
  <2> QED
    BY <2>1, ServiceMoves DEF ServiceMove, clusterVars, TypeOK, LoopTypeOK, Version,
       Inv, LoopInv, PassInv, HoldingSteps, DeletingSteps
<1>2. /\ n0 \in Names /\ r0 \in Roles \cup {NoRole}
      /\ pc \in {"role", "deleteRole"} => r0 \in Roles
  BY <1>1 DEF Bucket, BucketSpec, TypeOK
\* What the calls do to the two resources.
<1>3. \/ UNCHANGED store
      \/ pc \in HoldingSteps /\ \E c : BucketWith(c)
      \/ pc = "deleteBucket" /\ BucketGone
  BY DEF ServiceCall, Progress, Unsettled, Refused, ExistsBucket,
     CreateBucket, UpdateBucket, ConfigureBucket, ConfigureRole,
     ExistsBucketDelete, DeleteBucket, DeleteRole, HoldingSteps
<1>4. \/ UNCHANGED roles
      \/ pc = "role" /\ \E c : RoleWith(c)
      \/ pc = "deleteRole" /\ roles[r0].exists /\ \E c : RoleWith(c)
      \/ pc = "deleteRole" /\ RoleGone
  BY DEF ServiceCall, Progress, Unsettled, Refused, ExistsBucket,
     CreateBucket, UpdateBucket, ConfigureBucket, ConfigureRole,
     ExistsBucketDelete, DeleteBucket, DeleteRole
<1>13. /\ \A n \in Names : n # n0 => store'[n] = store[n]
       /\ pc \in HoldingSteps /\ store[n0].exists => store'[n0].exists
       /\ store'[n0].exists => store[n0].exists \/ pc \in HoldingSteps
       /\ store[n0].exists /\ ~store'[n0].exists => pc = "deleteBucket"
  <2>1. CASE UNCHANGED store
    BY <2>1
  <2>2. ASSUME NEW c, pc \in HoldingSteps, BucketWith(c)
        PROVE  /\ \A n \in Names : n # n0 => store'[n] = store[n]
               /\ store'[n0].exists
    BY <1>2, <2>2 DEF TypeOK, BucketWith, Carrying
  <2>3. CASE pc = "deleteBucket" /\ BucketGone
    <3>1. /\ \A n \in Names : n # n0 => store'[n] = store[n]
          /\ ~store'[n0].exists
      BY <1>2, <2>3 DEF TypeOK, BucketGone, Absent
    <3> QED
      BY <2>3, <3>1 DEF HoldingSteps
  <2> QED
    BY <1>3, <2>1, <2>2, <2>3
<1>14. /\ \A r \in Roles : r # r0 => roles'[r] = roles[r]
       /\ r0 \in Roles /\ roles'[r0].exists => roles[r0].exists \/ pc \in HoldingSteps
       /\ r0 \in Roles /\ roles[r0].exists /\ ~roles'[r0].exists => pc = "deleteRole"
  <2>1. CASE UNCHANGED roles
    BY <2>1
  <2>2. ASSUME NEW c, pc \in {"role", "deleteRole"}, RoleWith(c), HasRoles
        PROVE  /\ \A r \in Roles : r # r0 => roles'[r] = roles[r]
               /\ roles'[r0].exists
    BY <1>2, <2>2 DEF TypeOK, RoleWith, Carrying
  <2>3. CASE pc = "deleteRole" /\ RoleGone
    <3>1. /\ \A r \in Roles : r # r0 => roles'[r] = roles[r]
          /\ ~roles'[r0].exists
      BY <1>2, <2>3 DEF TypeOK, RoleGone, Absent
    <3> QED
      BY <2>3, <3>1
  <2>4. ASSUME NEW c, RoleWith(c), ~HasRoles
        PROVE  UNCHANGED roles
    BY <2>4 DEF RoleWith
  <2> QED
    BY <1>4, <2>1, <2>2, <2>3, <2>4 DEF HoldingSteps
<1>5. /\ \A n \in Names : n # n0 => store'[n] = store[n]
      /\ \A r \in Roles : r # r0 => roles'[r] = roles[r]
      /\ pc \in HoldingSteps /\ store[n0].exists => store'[n0].exists
      /\ store'[n0].exists => store[n0].exists \/ pc \in HoldingSteps
      /\ r0 \in Roles /\ roles'[r0].exists => roles[r0].exists \/ pc \in HoldingSteps
      /\ store[n0].exists /\ ~store'[n0].exists => pc = "deleteBucket"
      /\ r0 \in Roles /\ roles[r0].exists /\ ~roles'[r0].exists => pc = "deleteRole"
  BY <1>13, <1>14
<1>6. CloudInv'
  <2>1. CASE pc' = "idle"
    BY <2>1 DEF CloudInv
  <2>2. CASE UNCHANGED <<pc, obj>> /\ Progress
    BY <1>5, <2>2 DEF Inv, CloudInv, Progress, Unsettled, HoldingSteps
  <2>3. CASE pc' # "idle" /\ ServiceCall
    <3>1. UNCHANGED obj
      BY <2>3 DEF ServiceCall, ExistsBucket, CreateBucket, UpdateBucket,
         ConfigureBucket, ConfigureRole, ExistsBucketDelete, DeleteBucket,
         DeleteRole, Fail, Finish, Retry
    <3>2. CASE ExistsBucket
      BY <2>3, <3>1, <3>2 DEF ExistsBucket, Fail, Retry, Goto, CloudInv
    <3>3. CASE CreateBucket \/ UpdateBucket \/ ConfigureBucket \/ ConfigureRole
      <4>1. pc' \in {"configure", "status"} /\ store'[n0].exists
        <5>1. CASE CreateBucket
          <6>1. pc' = "configure" /\ \E c : BucketWith(c)
            BY <2>3, <5>1 DEF CreateBucket, Unsettled, Fail, Retry, Goto
          <6> QED
            BY <1>2, <6>1 DEF BucketWith, Carrying, TypeOK
        <5>2. CASE UpdateBucket
          BY <2>3, <5>2 DEF UpdateBucket, Fail, Retry, Goto, Inv, CloudInv
        <5>3. CASE ConfigureBucket
          BY <1>2, <2>3, <5>3 DEF ConfigureBucket, Fail, Retry, Goto,
             BucketWith, Carrying, TypeOK
        <5>4. CASE ConfigureRole
          BY <2>3, <5>4 DEF ConfigureRole, Fail, Finish, Retry
        <5> QED
          BY <3>3, <5>1, <5>2, <5>3, <5>4
      <4> QED
        BY <3>1, <4>1 DEF CloudInv
    <3>4. CASE ExistsBucketDelete
      BY <2>3, <3>1, <3>4 DEF ExistsBucketDelete, Fail, Finish, Goto, CloudInv
    <3>5. CASE DeleteBucket
      <4>1. /\ pc' = IF r0 = NoRole THEN "release" ELSE "deleteRole"
            /\ BucketGone /\ obj.spec.reclaim = "Delete"
        BY <2>3, <3>5 DEF DeleteBucket, Fail, Retry, Goto, Inv, CloudInv
      <4>2. ~store'[n0].exists
        BY <1>2, <4>1 DEF BucketGone, Absent, TypeOK
      <4> QED
        BY <3>1, <4>1, <4>2 DEF CloudInv
    <3>6. CASE DeleteRole
      <4>1. /\ pc' = "release" /\ RoleGone /\ obj.spec.reclaim = "Delete"
            /\ UNCHANGED store /\ ~store[n0].exists /\ r0 \in Roles
        BY <1>2, <2>3, <3>6 DEF DeleteRole, Fail, Retry, Goto, Inv, CloudInv
      <4>2. ~roles'[r0].exists
        BY <4>1 DEF RoleGone, Absent, TypeOK
      <4> QED
        BY <3>1, <4>1, <4>2 DEF CloudInv
    <3> QED
      BY <2>3, <3>2, <3>3, <3>4, <3>5, <3>6 DEF ServiceCall
  <2> QED
    BY <2>1, <2>2, <2>3 DEF Progress, Refused, Retry, loopVars
\* A resource that comes is the one of the object the pass holds.
<1>7. pc \in HoldingSteps =>
        /\ Exists(req) /\ api[req].fin
        /\ api[req].spec.name = n0 /\ api[req].spec.role = r0
  <2> SUFFICES ASSUME pc \in HoldingSteps
               PROVE  /\ Exists(req) /\ api[req].fin
                      /\ api[req].spec.name = n0 /\ api[req].spec.role = r0
    OBVIOUS
  <2>1. Exists(req) /\ api[req].fin
    BY DEF Inv, LoopInv, PassInv
  <2>2. api[req] \in Bucket /\ Genuine(req, api[req])
    BY <1>1, <2>1, ApiGenuine DEF Inv, TypeOK, LoopTypeOK, Version, Exists
  <2> QED
    BY <1>1, <2>1, <2>2, SameNames
<1>8. NoOrphans'
  <2>1. ASSUME NEW n \in Names, store'[n].exists
        PROVE  \E k \in Keys : Exists(k) /\ api[k].fin /\ api[k].spec.name = n
    BY <1>1, <1>5, <1>7, <2>1 DEF Inv, NoOrphans
  <2>2. ASSUME NEW r \in Roles, roles'[r].exists
        PROVE  \E k \in Keys : Exists(k) /\ api[k].fin /\ api[k].spec.role = r
    BY <1>1, <1>5, <1>7, <2>2 DEF Inv, NoOrphans
  <2> QED
    BY <1>1, <2>1, <2>2 DEF NoOrphans, Exists
\* A resource that goes belongs to a marked object.
<1>9. Foreign = {} /\ pc \in {"deleteBucket", "deleteRole"} =>
        /\ \E s \in Allowed[req] : s.reclaim = "Delete"
        /\ store[n0].exists \/ (r0 # NoRole /\ roles[r0].exists) =>
              Doomed(req) /\ api[req].spec.name = n0 /\ api[req].spec.role = r0
  <2> SUFFICES ASSUME Foreign = {}, pc \in {"deleteBucket", "deleteRole"}
               PROVE  /\ \E s \in Allowed[req] : s.reclaim = "Delete"
                      /\ store[n0].exists \/ (r0 # NoRole /\ roles[r0].exists) =>
                            /\ Doomed(req)
                            /\ api[req].spec.name = n0 /\ api[req].spec.role = r0
    OBVIOUS
  <2>1. obj.spec \in Allowed[req] /\ obj.spec.reclaim = "Delete"
    BY <1>1 DEF Genuine, Inv, CloudInv, LoopAssumption
  <2>4. obj.fin
    <3>1. obj.others = {} /\ obj # NoObject
      BY <1>1 DEF Bucket, LoopAssumption
    <3>2. obj.deleting
      BY DEF Inv, LoopInv, PassInv, Deleting, DeletingSteps
    <3> QED
      BY <1>1, <3>1, <3>2 DEF Genuine
  <2>2. store[n0].exists \/ (r0 # NoRole /\ roles[r0].exists) => Marked(api[req])
    BY <2>4, ResourcesMarked DEF Inv, TypeOK, DeletingSteps
  <2>3. ASSUME Marked(api[req])
        PROVE  api[req].spec.name = n0 /\ api[req].spec.role = r0
    <3>1. api[req] \in Bucket /\ Genuine(req, api[req])
      BY <1>1, <2>3, ApiGenuine DEF Marked, Inv, TypeOK, LoopTypeOK, Version
    <3> QED
      BY <1>1, <3>1, SameNames
  <2> QED
    BY <2>1, <2>2, <2>3 DEF Doomed, Marked, Exists
<1>10. ASSUME Foreign = {}, NEW n \in Names, store[n].exists, ~store'[n].exists
       PROVE  n = n0 /\ Doomed(req) /\ api[req].spec.name = n
  BY <1>5, <1>9, <1>10
<1>11. ASSUME Foreign = {}, NEW r \in Roles, roles[r].exists, ~roles'[r].exists
       PROVE  r = r0 /\ Doomed(req) /\ api[req].spec.role = r
  BY <1>5, <1>9, <1>11 DEF LoopAssumption
<1>12. Foreign = {} => ReadyMeansProvisioned'
  <2> SUFFICES ASSUME Foreign = {}, NEW k \in Keys, Live(k), api[k].status.ready,
                      ~store'[api[k].status.id].exists
               PROVE  FALSE
    BY <1>1 DEF ReadyMeansProvisioned, Live, Exists
  <2>1. api[k] \in Bucket /\ Genuine(k, api[k]) /\ api[k] # NoObject
    BY ApiGenuine DEF Live, Exists, Inv, TypeOK, LoopTypeOK, Version
  <2>2. api[k].status.id = api[k].spec.name /\ api[k].spec.name \in Names
    <3>1. api[k].status # [id |-> NoName, ready |-> FALSE]
      <4> SUFFICES ASSUME api[k].status = [id |-> NoName, ready |-> FALSE]
                   PROVE  api[k].status.ready = FALSE
        OBVIOUS
      <4> QED
        OBVIOUS
    <3> QED
      <4>1. api[k].status = [id |-> api[k].spec.name, ready |-> TRUE]
        BY <2>1, <3>1 DEF Genuine
      <4>2. api[k].status.id = api[k].spec.name
        BY <4>1
      <4> QED
        BY <2>1, <4>2 DEF Bucket, BucketSpec
  <2>3. store[api[k].status.id].exists
    BY DEF Inv, ReadyMeansProvisioned
  <2>4. Doomed(req) /\ api[req].spec.name = api[k].spec.name
    BY <1>10, <2>2, <2>3
  <2>5. api[req] \in Bucket /\ Genuine(req, api[req])
    BY <1>1, <2>4, ApiGenuine DEF Doomed, Exists, Inv, TypeOK, LoopTypeOK, Version
  <2>6. k = req
    BY <1>1, <2>1, <2>4, <2>5, SameNames
  <2> QED
    BY <2>4, <2>6 DEF Doomed, Live
<1> QED
  BY <1>1, <1>6, <1>8, <1>10, <1>11, <1>12

\* The steps of the loop leave the cloud alone, and the pass where the cloud
\* has yet to be looked at.
LEMMA CloudInvKeeps ==
  ASSUME CloudInv, UNCHANGED <<store, roles>>,
         \/ UNCHANGED <<pc, obj>>
         \/ pc' \in {"idle", "getCluster", "addFinalizer", "existsDelete",
                     "exists", "role"}
  PROVE  CloudInv'
BY DEF CloudInv

\* A write by which no object that was not ready becomes so, under a cloud
\* that stays, keeps ReadyMeansProvisioned.
LEMMA ReadyKeeps ==
  ASSUME LoopTypeOK, ReadyMeansProvisioned, UNCHANGED store,
         NEW k \in Keys, NEW v \in Version, Write(k, v),
         \/ NoNews(api[k], v)
         \/ v # NoObject /\ store[v.status.id].exists
  PROVE  ReadyMeansProvisioned'
<1>1. api'[k] = v /\ \A l \in Keys : l # k => api'[l] = api[l]
  BY DEF Write, LoopTypeOK
<1> QED
  BY <1>1 DEF ReadyMeansProvisioned, NoNews, Live, Exists

\* Users and other controllers keep the invariant: they take no finalizer of
\* the operator's away.
LEMMA OthersKeep ==
  ASSUME LoopAssumption, Exclusive, TypeOK, TypeOK', Inv, LoopInv',
         NEW k \in Keys, OthersAct(k), UNCHANGED <<store, roles>>
  PROVE  Inv'
<1>1. PICK v \in Version : /\ Write(k, v) /\ Genuine(k, v)
                           /\ Benign(api[k], v) /\ NoNews(api[k], v)
  BY OthersWrite DEF TypeOK, Inv
<1>2. UNCHANGED <<pc, obj>>
  BY OthersWrite DEF TypeOK, Inv
<1>3. \A l \in Keys : Exists(l) /\ api[l].fin => api'[l] # NoObject /\ api'[l].fin
  BY <1>1, BenignWrite DEF TypeOK, Inv, Exists
<1>4. NoOrphans'
  BY <1>3, HeldKeeps DEF TypeOK, Inv
<1>5. Foreign = {} => ReadyMeansProvisioned'
  BY <1>1, ReadyKeeps DEF TypeOK, Inv
<1>6. CloudInv'
  BY <1>2, CloudInvKeeps DEF Inv
<1> QED
  BY <1>4, <1>5, <1>6 DEF Inv

\* So does every step that writes nothing.
LEMMA QuietKeeps ==
  ASSUME Inv, LoopInv', UNCHANGED <<api, store, roles>>,
         \/ UNCHANGED <<pc, obj>>
         \/ pc' \in {"idle", "getCluster", "addFinalizer", "existsDelete",
                     "exists", "role"}
  PROVE  Inv'
<1>1. CloudInv'
  BY CloudInvKeeps DEF Inv
<1> QED
  BY <1>1 DEF Inv, NoOrphans, ReadyMeansProvisioned, Live, Exists

\* The finalizer patch of reconcileNormal preserves the safety properties.
LEMMA AddFinalizerSafe ==
  ASSUME LoopAssumption, Exclusive, TypeOK, TypeOK', Inv, LoopInv',
         AddFinalizer, UNCHANGED <<store, roles>>
  PROVE  Inv'
<1> DEFINE v == Relisted(TRUE)
<1>1. pc' \in {"idle", "exists"}
  BY DEF AddFinalizer, Goto, Fail, Retry
<1>2. CASE UNCHANGED clusterVars
  BY <1>1, <1>2, QuietKeeps DEF clusterVars
<1>3. CASE Exists(req) /\ Write(req, v)
  <2>1. req \in Keys /\ api[req] \in Bucket /\ api[req] # NoObject
    BY <1>3 DEF AddFinalizer, TypeOK, LoopTypeOK, Version, Exists
  <2>9. obj \in Bucket
    BY <2>1 DEF AddFinalizer, TypeOK, LoopTypeOK, Version
  <2>2. /\ v \in Bucket /\ v # NoObject /\ v.fin
        /\ v.deleting = api[req].deleting /\ v.status = api[req].status
    BY <2>1, <2>9 DEF Bucket, LoopAssumption, Relisted
  <2> HIDE DEF v
  <2>3. NoNews(api[req], v)
    BY <2>1, <2>2 DEF NoNews
  <2>4. Foreign = {} => ReadyMeansProvisioned'
    BY <1>3, <2>1, <2>2, <2>3, ReadyKeeps DEF TypeOK, Inv, Version
  <2>5. api'[req] = v /\ \A l \in Keys : l # req => api'[l] = api[l]
    BY <1>3, <2>1 DEF Write, TypeOK, LoopTypeOK
  <2>6. NoOrphans'
    BY <2>2, <2>5, HeldKeeps DEF TypeOK, Inv, Exists
  <2>7. CloudInv'
    BY <1>1, CloudInvKeeps DEF Inv
  <2> QED
    BY <2>4, <2>6, <2>7 DEF Inv
<1> QED
  BY <1>2, <1>3 DEF AddFinalizer

\* The status patch announces only a bucket that exists.
LEMMA PatchStatusSafe ==
  ASSUME LoopAssumption, Exclusive, TypeOK, TypeOK', Inv, LoopInv',
         PatchStatus, UNCHANGED <<store, roles>>
  PROVE  Inv'
<1> DEFINE v == [api[req] EXCEPT
                   !.status.id = Merge(@, obj.status.id, obj.spec.name),
                   !.status.ready = Merge(@, obj.status.ready, TRUE)]
<1>1. pc' \in {"idle", "role"}
  BY DEF PatchStatus, Goto, Fail, Finish, Retry
<1>2. CASE UNCHANGED clusterVars
  BY <1>1, <1>2, QuietKeeps DEF clusterVars
<1>3. CASE Write(req, v)
  <2>1. pc = "status"
    BY DEF PatchStatus
  <2>2. /\ req \in Keys /\ v \in Bucket /\ v # NoObject /\ Genuine(req, v)
        /\ v.fin = api[req].fin /\ v.deleting = api[req].deleting
        /\ v.status = [id |-> obj.spec.name, ready |-> TRUE]
           \/ v.status = api[req].status
        /\ Benign(api[req], v)
    BY <2>1, StatusWritten DEF TypeOK, Inv
  <2>3. Exists(req) /\ store[obj.spec.name].exists
    BY <2>1 DEF Inv, LoopInv, PassInv, CloudInv, HoldingSteps
  <2> HIDE DEF v
  <2>4. NoNews(api[req], v) \/ (v # NoObject /\ store[v.status.id].exists)
    BY <2>2, <2>3 DEF NoNews, Exists
  <2>5. Foreign = {} => ReadyMeansProvisioned'
    BY <1>3, <2>2, <2>4, ReadyKeeps DEF TypeOK, Inv, Version
  <2>6. \A l \in Keys : Exists(l) /\ api[l].fin => api'[l] # NoObject /\ api'[l].fin
    BY <1>3, <2>2, BenignWrite DEF TypeOK, Inv, Exists, Version
  <2>7. NoOrphans'
    BY <2>6, HeldKeeps DEF TypeOK, Inv
  <2>8. CloudInv'
    BY <1>1, CloudInvKeeps DEF Inv
  <2> QED
    BY <2>5, <2>7, <2>8 DEF Inv
<1> QED
  BY <1>2, <1>3 DEF PatchStatus

\* The finalizer goes when the object's bucket and role are gone.
LEMMA RemoveFinalizerSafe ==
  ASSUME LoopAssumption, Exclusive, TypeOK, TypeOK', Inv, LoopInv',
         RemoveFinalizer, UNCHANGED <<store, roles>>
  PROVE  Inv'
<1> DEFINE w == Relisted(FALSE)
           v == IF obj.fin THEN Stored(w) ELSE api[req]
<1>1. pc' = "idle" /\ pc = "release"
  BY DEF RemoveFinalizer, Fail, Finish, Retry
<1>2. CASE UNCHANGED clusterVars
  BY <1>1, <1>2, QuietKeeps DEF clusterVars
<1>3. CASE Exists(req) /\ Write(req, v)
  <2>1. /\ req \in Keys /\ obj \in Bucket /\ api[req] \in Bucket
        /\ Genuine(req, obj) /\ Genuine(req, api[req]) /\ api[req] # NoObject
    BY <1>1, <1>3, ApiGenuine DEF TypeOK, LoopTypeOK, Version, Inv, LoopInv,
                                  PassInv, Exists
  <2>2. /\ w \in Bucket /\ w # NoObject
        /\ w.deleting = api[req].deleting /\ w.status = api[req].status
    BY <2>1 DEF Bucket, Relisted, LoopAssumption
  <2> HIDE DEF w
  <2>3. v \in Version /\ NoNews(api[req], v)
    BY <2>1, <2>2 DEF Stored, Version, NoNews
  <2> HIDE DEF v
  <2>4. Foreign = {} => ReadyMeansProvisioned'
    BY <1>3, <2>1, <2>3, ReadyKeeps DEF TypeOK, Inv
  <2>5. \A l \in Keys : l # req => api'[l] = api[l]
    BY <1>3, <2>1 DEF Write, TypeOK, LoopTypeOK
  <2>6. /\ ~store[api[req].spec.name].exists
        /\ api[req].spec.role # NoRole => ~roles[api[req].spec.role].exists
    <3>1. /\ obj.spec.name = api[req].spec.name
          /\ obj.spec.role = api[req].spec.role
      BY <2>1, SameNames
    <3> QED
      BY <1>1, <3>1 DEF Inv, CloudInv
  <2>7. NoOrphans'
    <3>1. ASSUME NEW n \in Names, store[n].exists
          PROVE  \E k \in Keys : /\ api'[k] # NoObject /\ api'[k].fin
                                 /\ api'[k].spec.name = n
      <4>1. PICK k \in Keys : Exists(k) /\ api[k].fin /\ api[k].spec.name = n
        BY <3>1 DEF Inv, NoOrphans
      <4> QED
        BY <2>5, <2>6, <3>1, <4>1 DEF Exists
    <3>2. ASSUME NEW r \in Roles, roles[r].exists
          PROVE  \E k \in Keys : /\ api'[k] # NoObject /\ api'[k].fin
                                 /\ api'[k].spec.role = r
      <4>1. PICK k \in Keys : Exists(k) /\ api[k].fin /\ api[k].spec.role = r
        BY <3>2 DEF Inv, NoOrphans
      <4>2. r # NoRole
        BY DEF LoopAssumption
      <4> QED
        BY <2>5, <2>6, <3>2, <4>1, <4>2 DEF Exists
    <3> QED
      BY <3>1, <3>2 DEF NoOrphans, Exists
  <2>8. CloudInv'
    BY <1>1, CloudInvKeeps DEF Inv
  <2> QED
    BY <2>4, <2>7, <2>8 DEF Inv
<1> QED
  BY <1>2, <1>3 DEF RemoveFinalizer

\* The invariant holds when the operator starts with an empty cluster.
LEMMA InvInit ==
  ASSUME LoopAssumption, Init
  PROVE  Inv
<1>1. LoopInv
  BY LoopInvInit DEF Init
<1>2. CloudInv
  BY DEF Init, LoopInit, CloudInv
<1>3. NoOrphans /\ ReadyMeansProvisioned
  BY DEF Init, LoopInit, NoOrphans, ReadyMeansProvisioned, Absent, Live, Exists
<1> QED
  BY <1>1, <1>2, <1>3 DEF Inv

\* The invariant is preserved by every step.
LEMMA InvStep ==
  ASSUME LoopAssumption, Exclusive, TypeOK, TypeOK', Inv, [Next]_vars
  PROVE  Inv'
<1>0. LoopInv'
  BY LoopInvStep, StepOfLoop DEF TypeOK, Inv
<1> DEFINE SameCloud == UNCHANGED <<store, roles>>
<1>1. CASE UNCHANGED vars
  BY <1>0, <1>1, QuietKeeps DEF vars, loopVars
<1>2. ASSUME NEW k \in Keys, OthersAct(k), SameCloud PROVE Inv'
  BY <1>0, <1>2, OthersKeep
<1>3. ASSUME NEW k \in Keys, Watch(k) \/ Resync(k) \/ Begin(k), SameCloud
      PROVE  Inv'
  BY <1>0, <1>3, QuietKeeps DEF Watch, Resync, Begin, clusterVars
<1>4. CASE (Crash \/ Stabilize) /\ SameCloud
  BY <1>0, <1>4, QuietKeeps DEF Crash, Stabilize, clusterVars, workerVars
<1>5. CASE GetCluster /\ SameCloud
  BY <1>0, <1>5, QuietKeeps DEF GetCluster, Goto, Fail, Retry, clusterVars
<1>6. CASE AddFinalizer /\ SameCloud
  BY <1>0, <1>6, AddFinalizerSafe
<1>7. CASE PatchStatus /\ SameCloud
  BY <1>0, <1>7, PatchStatusSafe
<1>8. CASE RemoveFinalizer /\ SameCloud
  BY <1>0, <1>8, RemoveFinalizerSafe
<1>9. CASE \/ ServiceCall \/ Progress
           \/ Refused
  BY <1>0, <1>9, ServiceKeeps DEF Inv
<1> QED
  BY <1>1, <1>2, <1>3, <1>4, <1>5, <1>6, <1>7, <1>8, <1>9
     DEF Next, Environment, ControllerStep

(***************************************************************************)
(* The theorems.                                                           *)
(***************************************************************************)

\* The strengthening holds in every reachable state.
THEOREM Invariance ==
  ASSUME Exclusive
  PROVE  Spec => []Inv
<1>1. Init => Inv
  BY InvInit, LoopAssumption
<1>2. TypeOK /\ TypeOK' /\ Inv /\ [Next]_vars => Inv'
  BY InvStep, LoopAssumption
<1> QED
  BY <1>1, <1>2, TypeCorrect, PTL DEF Spec

\* In a cluster whose Bucket objects name their buckets and roles apart and
\* for life, no crash, failed call, stale read, user action or finalizer of
\* another controller leaves a cloud bucket or role without the operator's
\* finalizer on its object (the finalizer's patch precedes the cloud calls, and
\* its removal follows both deletions).
THEOREM NeverOrphaned ==
  ASSUME Exclusive
  PROVE  Spec => []NoOrphans
<1>1. Inv => NoOrphans
  BY DEF Inv
<1> QED
  BY <1>1, Invariance, PTL

\* Under the same assumption, and where nobody else puts finalizers on Buckets,
\* a live Bucket with a Ready status has its cloud bucket: reconcileNormal
\* patches the status only after CreateBucket.
THEOREM ReadyIsProvisioned ==
  ASSUME Exclusive, Foreign = {}
  PROVE  Spec => []ReadyMeansProvisioned
<1>1. Inv => ReadyMeansProvisioned
  BY DEF Inv
<1> QED
  BY <1>1, Invariance, PTL

\* Under the same assumptions reconcileDelete, working on a copy that may be
\* arbitrarily old, destroys a bucket or a role only while the API server's
\* object for it is marked for deletion and has known a Delete policy.
THEOREM DestructionIsAuthorised ==
  ASSUME Exclusive, Foreign = {}
  PROVE  Spec => DestroysOnlyDeleted
<1> DEFINE A ==
      /\ \A n \in Names : store[n].exists /\ ~store'[n].exists =>
            \E k \in Keys : Doomed(k) /\ api[k].spec.name = n
      /\ \A r \in Roles : roles[r].exists /\ ~roles'[r].exists =>
            \E k \in Keys : Doomed(k) /\ api[k].spec.role = r
<1>1. TypeOK /\ Inv /\ [Next]_vars => [A]_vars
  <2> SUFFICES ASSUME TypeOK, Inv, [Next]_vars PROVE [A]_vars
    OBVIOUS
  <2>1. CASE UNCHANGED <<store, roles>>
    BY <2>1
  <2>2. CASE \/ ServiceCall \/ Progress
             \/ Refused
    <3>1. A
      BY <2>2, ServiceKeeps, LoopAssumption
    <3> QED
      BY <3>1
  <2> QED
    BY <2>1, <2>2 DEF Next, vars
<1>2. Spec => [][A]_vars
  BY <1>1, Invariance, TypeCorrect, PTL DEF Spec
<1> QED
  BY <1>2 DEF DestroysOnlyDeleted

\* A pass that has found a bucket to delete has a marked object until it gives up
\* the finalizer itself.
LEMMA DoomedStays ==
  ASSUME LoopAssumption, Exclusive, TypeOK, TypeOK', Inv, Inv', UnheldInv, [Next]_vars,
         pc' \in {"deleteBucket", "deleteRole", "release"}, obj'.fin
  PROVE  Marked(api'[req'])
<1>1. LoopTypeOK /\ LoopTypeOK' /\ LoopInv /\ LoopInv' /\ [LoopNext]_loopVars
  BY StepOfLoop DEF TypeOK, Inv
<1>2. Deleting /\ UNCHANGED <<req, obj>>
  <2>1. Deleting'
    BY DEF Deleting, DeletingSteps
  <2>2. ~Begin(req')
    BY DEF Begin
  <2> QED
    BY <1>1, <2>1, <2>2, DeletingFrom
<1>3. PICK k \in Keys : k = req
  BY <1>2 DEF TypeOK, LoopTypeOK, Deleting, DeletingSteps
<1>4. CASE pc \in {"deleteBucket", "deleteRole", "release"}
  <2>1. All(Marked, cache[k], events[k])
    BY <1>1, <1>2, <1>3, <1>4 DEF UnheldInv, LoopInv, PassInv
  <2>2. ~RemoveFinalizer
    BY DEF RemoveFinalizer, Finish, Fail, Retry
  <2>3. All(Marked, cache'[k], events'[k])
    BY <1>1, <1>2, <2>1, <2>2, MarkedStays
  <2>4. Len(events'[k]) \in Nat
    BY <1>1 DEF LoopTypeOK
  <2>5. At(cache'[k], events'[k], Len(events'[k])) = api'[k]
    BY <1>1 DEF LoopInv, Pipeline
  <2> QED
    BY <1>2, <1>3, <2>3, <2>4, <2>5 DEF All
<1>5. CASE pc \notin {"deleteBucket", "deleteRole", "release"}
  <2>1. ExistsBucketDelete /\ UNCHANGED clusterVars
    <3>1. pc' # pc
      BY <1>5
    <3>2. ~Environment /\ ~Refused /\ ~Progress
      BY <1>5, <3>1 DEF Environment, OthersAct, UserCreate, UserEdit, UserDelete, Hold,
         Release, Watch, Resync, Crash, Stabilize, workerVars, Refused, Retry, Progress,
         loopVars
    <3>3. ~ControllerStep /\ \A l \in Keys : ~Begin(l)
      BY DEF ControllerStep, GetCluster, AddFinalizer, PatchStatus, RemoveFinalizer,
         Goto, Fail, Retry, Finish, Begin
    <3>4. ServiceCall
      BY <3>1, <3>2, <3>3 DEF Next, vars, loopVars
    <3> QED
      BY <1>5, <3>4 DEF ServiceCall, ExistsBucket, CreateBucket, UpdateBucket,
         ConfigureBucket, ConfigureRole, DeleteBucket, DeleteRole, Goto, Fail, Retry,
         Finish
  <2>2. pc \in DeletingSteps /\ store[obj.spec.name].exists
    BY <2>1 DEF ExistsBucketDelete, DeletingSteps, Goto, Finish
  <2>3. Marked(api[req])
    BY <1>1, <1>2, <2>2, ResourcesMarked DEF Inv
  <2> QED
    BY <1>2, <2>1, <2>3 DEF clusterVars
<1> QED
  BY <1>4, <1>5

\* Under the same assumption as NeverOrphaned: nobody's finalizer comes back by a patch
\* of an old list, and a pass that gives up the finalizer has a marked object.
THEOREM ListsOnlyShrink ==
  ASSUME Exclusive
  PROVE  Spec => []UnheldInv
<1>1. Init => UnheldInv
  BY ListInit DEF Init, LoopInit, UnheldInv
<1>2. TypeOK /\ TypeOK' /\ Inv /\ Inv' /\ UnheldInv /\ [Next]_vars => UnheldInv'
  <2> SUFFICES ASSUME TypeOK, TypeOK', Inv, Inv', UnheldInv, [Next]_vars
               PROVE  UnheldInv'
    OBVIOUS
  <2>1. ListInv'
    BY ListStep, StepOfLoop, LoopAssumption DEF TypeOK, Inv, UnheldInv
  <2> QED
    BY <2>1, DoomedStays, LoopAssumption DEF UnheldInv
<1> QED
  BY <1>1, <1>2, TypeCorrect, Invariance, PTL DEF Spec

\* Under the same assumption, RemoveFinalizer, which replaces the whole list of
\* finalizers by that of a copy, makes no Bucket go that another controller holds.
THEOREM GoesUnheld ==
  ASSUME Exclusive
  PROVE  Spec => VanishesUnheld
<1> DEFINE A == \A k \in Keys : Exists(k) /\ api'[k] = NoObject /\ pc' # pc =>
                   api[k].others = {}
<1>1. TypeOK /\ Inv /\ UnheldInv /\ [Next]_vars => [A]_vars
  <2> SUFFICES ASSUME TypeOK, Inv, UnheldInv, [Next]_vars,
                      NEW k \in Keys, Exists(k), api'[k] = NoObject, pc' # pc
               PROVE  api[k].others = {}
    OBVIOUS
  <2>1. LoopTypeOK /\ LoopInv /\ [LoopNext]_loopVars
    BY StepOfLoop DEF TypeOK, Inv
  <2>2. AddFinalizer \/ PatchStatus \/ RemoveFinalizer
    BY <2>1 DEF Exists, LoopNext, loopVars, Environment, OthersAct, UserCreate, UserEdit,
       UserDelete, Hold, Release, Watch, Resync, Crash, Stabilize, Begin,
       ControllerStep, GetCluster, ServiceMove, clusterVars, workerVars
  <2>3. pc # "idle" /\ req \in Keys /\ obj \in Bucket
    BY <2>1, <2>2 DEF AddFinalizer, PatchStatus, RemoveFinalizer, LoopTypeOK, Version
  <2>4. ASSUME NEW v, Write(req, v) PROVE k = req /\ v = NoObject
    BY <2>1, <2>3, <2>4 DEF Write, LoopTypeOK, Exists
  <2>5. ~UNCHANGED clusterVars
    BY DEF clusterVars, Exists
  <2>6. api[k] \in Bucket
    BY <2>1 DEF LoopTypeOK, Version, Exists
  <2>7. CASE AddFinalizer
    <3>1. Write(req, Relisted(TRUE))
      BY <2>5, <2>7 DEF AddFinalizer, clusterVars
    <3>2. Relisted(TRUE) \in Bucket
      BY <2>3, <2>4, <2>6, <3>1 DEF Relisted, Bucket
    <3>3. Relisted(TRUE) # NoObject
      BY <3>2, LoopAssumption DEF LoopAssumption
    <3>4. Relisted(TRUE) = NoObject
      BY <2>4, <3>1
    <3> QED
      BY <3>3, <3>4
  <2>8. CASE PatchStatus
    <3> DEFINE v == [api[req] EXCEPT
                       !.status.id = Merge(@, obj.status.id, obj.spec.name),
                       !.status.ready = Merge(@, obj.status.ready, TRUE)]
    <3>1. pc = "status" /\ Write(req, v)
      BY <2>5, <2>8 DEF PatchStatus, clusterVars
    <3>2. v # NoObject
      BY <2>1, <3>1, StatusWritten, LoopAssumption
    <3> QED
      BY <2>4, <3>1, <3>2
  <2>9. CASE RemoveFinalizer
    <3>1. /\ pc = "release"
          /\ Write(req, IF obj.fin THEN Stored(Relisted(FALSE)) ELSE api[req])
      BY <2>5, <2>9 DEF RemoveFinalizer, clusterVars
    <3>2. k = req /\ (IF obj.fin THEN Stored(Relisted(FALSE)) ELSE api[req]) = NoObject
      BY <2>4, <3>1
    <3>3. obj.fin /\ Stored(Relisted(FALSE)) = NoObject
      BY <3>2 DEF Exists
    <3>4. Relisted(FALSE) \in Bucket /\ Relisted(FALSE).others = obj.others
      BY <2>3, <2>6, <3>2 DEF Relisted, Bucket
    <3>5. obj.others = {}
      BY <3>3, <3>4, LoopAssumption DEF Stored
    <3>6. Marked(api[k])
      BY <3>1, <3>2, <3>3 DEF UnheldInv
    <3>7. Len(events[k]) \in 0..Len(events[k])
      BY <2>1 DEF LoopTypeOK
    <3>8. At(cache[k], events[k], Len(events[k])) = api[k]
      BY <2>1 DEF LoopInv, Pipeline
    <3>9. Deleting
      BY <3>1 DEF Deleting, DeletingSteps
    <3>10. api[k].others \subseteq obj.others
      BY <3>2, <3>3, <3>6, <3>7, <3>8, <3>9 DEF UnheldInv, ListInv
    <3> QED
      BY <3>5, <3>10
  <2> QED
    BY <2>2, <2>7, <2>8, <2>9
<1>2. Spec => [][A]_vars
  BY <1>1, Invariance, ListsOnlyShrink, TypeCorrect, PTL DEF Spec
<1> QED
  BY <1>2 DEF VanishesUnheld
=============================================================================
