----------------------- MODULE BucketControllerProofs -----------------------
(* Type correctness of BucketController.                                   *)
EXTENDS BucketController, LoopProofs

\* How a service call moves the pass on.
LEMMA ServiceMoves ==
  ASSUME ServiceCall \/ Progress \/ Refused
  PROVE  ServiceMove /\ pc # "idle"
BY DEF ServiceCall, Progress, Unsettled, Refused, ExistsBucket,
       CreateBucket, UpdateBucket, ConfigureBucket, ConfigureRole,
       ExistsBucketDelete, DeleteBucket, DeleteRole, clusterVars, loopVars,
       workerVars, Fail, Goto, ServiceMove

\* The steps are those of the loop.
LEMMA StepOfLoop ==
  ASSUME [Next]_vars
  PROVE  [LoopNext]_loopVars
BY ServiceMoves DEF Next, vars, LoopNext

\* A pass works on a role only if its copy names one.
LEMMA RoleNamed ==
  ASSUME TypeOK, [Next]_vars, pc' \in {"role", "deleteRole"}
  PROVE  obj'.spec.role # NoRole
<1>1. CASE UNCHANGED vars
  BY <1>1 DEF vars, loopVars, TypeOK
<1>2. CASE Environment
  BY <1>2 DEF Environment, OthersAct, UserCreate, UserEdit, UserDelete, Hold,
     Release, Watch, Resync, Crash, Stabilize, workerVars, TypeOK
<1>3. ASSUME NEW k \in Keys, Begin(k) PROVE FALSE
  BY <1>3 DEF Begin
<1>4. CASE ControllerStep
  <2> DEFINE v == [api[req] EXCEPT
                     !.status.id = Merge(@, obj.status.id, obj.spec.name),
                     !.status.ready = Merge(@, obj.status.ready, TRUE)]
  <2>1. v.spec.role # NoRole /\ obj' = v
    BY <1>4 DEF ControllerStep, GetCluster, AddFinalizer, PatchStatus,
       RemoveFinalizer, Goto, Finish, Fail, Retry
  <2> QED
    BY <2>1
<1>5. CASE ServiceCall \/ Progress \/ Refused
  <2>1. \/ UNCHANGED <<pc, obj>>
        \/ UNCHANGED obj /\ obj.spec.role # NoRole
    BY <1>5 DEF ServiceCall, Progress, Unsettled, Refused, ExistsBucket,
       CreateBucket, UpdateBucket, ConfigureBucket, ConfigureRole,
       ExistsBucketDelete, DeleteBucket, DeleteRole, Fail, Goto, Finish, Retry,
       loopVars
  <2> QED
    BY <2>1 DEF TypeOK
<1> QED
  BY <1>1, <1>2, <1>3, <1>4, <1>5 DEF Next

\* Every step of Reconcile, of the services and of the environment keeps the
\* types.
LEMMA TypeStep ==
  ASSUME TypeOK, [Next]_vars
  PROVE  TypeOK'
<1> USE LoopAssumption, ControllerAssumption
<1>1. LoopTypeOK'
  BY StepOfLoop, LoopTypeStep DEF TypeOK
<1>2. pc' \in {"role", "deleteRole"} => obj'.spec.role # NoRole
  BY RoleNamed
<1>3. CASE UNCHANGED <<store, roles>>
  BY <1>1, <1>2, <1>3 DEF TypeOK
<1>4. CASE ServiceCall \/ Progress \/ Refused
  <2>1. req \in Keys /\ obj \in Bucket
    BY <1>4, ServiceMoves DEF TypeOK, LoopTypeOK, Version
  <2>2. /\ obj.spec \in BucketSpec /\ obj.spec.name \in Names
        /\ pc \in {"role", "deleteRole"} => obj.spec.role \in Roles
        /\ StoreSettingsOf(obj.spec) \in StoreSettings
        /\ RoleSettingsOf(obj.spec) \in RoleSettings
    BY <2>1 DEF TypeOK, Bucket, BucketSpec, StoreSettingsOf, StoreSettings,
                RoleSettingsOf, RoleSettings
  <2>3. /\ \/ UNCHANGED store
           \/ BucketGone
           \/ \E c \in StoreSettings \cup {Nothing} : BucketWith(c)
        /\ \/ UNCHANGED roles
           \/ pc \in {"role", "deleteRole"} /\ RoleGone
           \/ /\ pc \in {"role", "deleteRole"}
              /\ \E c \in RoleSettings \cup {Nothing} : RoleWith(c)
    BY <1>4, <2>2 DEF ServiceCall, Progress, Unsettled, Refused,
         ExistsBucket, CreateBucket, UpdateBucket, ConfigureBucket,
         ConfigureRole, ExistsBucketDelete, DeleteBucket, DeleteRole
  <2>4. store' \in [Names -> [exists : BOOLEAN,
                              carries : StoreSettings \cup {Nothing}]]
    <3>1. ASSUME NEW c \in StoreSettings \cup {Nothing}
          PROVE  /\ Absent \in [exists : BOOLEAN, carries : StoreSettings \cup {Nothing}]
                 /\ Carrying(c) \in [exists : BOOLEAN, carries : StoreSettings \cup {Nothing}]
      BY DEF Absent, Carrying
    <3> QED
      BY <2>2, <2>3, <3>1 DEF TypeOK, BucketGone, BucketWith
  <2>5. roles' \in [Roles -> [exists : BOOLEAN,
                              carries : RoleSettings \cup {Nothing}]]
    <3>1. ASSUME NEW c \in RoleSettings \cup {Nothing}
          PROVE  /\ Absent \in [exists : BOOLEAN, carries : RoleSettings \cup {Nothing}]
                 /\ Carrying(c) \in [exists : BOOLEAN, carries : RoleSettings \cup {Nothing}]
      BY DEF Absent, Carrying
    <3>2. CASE UNCHANGED roles
      BY <3>2 DEF TypeOK
    <3>3. CASE obj.spec.role \in Roles /\ RoleGone
      BY <3>1, <3>3 DEF TypeOK, RoleGone
    <3>4. ASSUME NEW c \in RoleSettings \cup {Nothing},
                 obj.spec.role \in Roles, RoleWith(c)
          PROVE  roles' \in [Roles -> [exists : BOOLEAN,
                              carries : RoleSettings \cup {Nothing}]]
      BY <3>1, <3>4 DEF TypeOK, RoleWith
    <3> QED
      BY <2>2, <2>3, <3>2, <3>3, <3>4
  <2> QED
    BY <1>1, <1>2, <2>4, <2>5 DEF TypeOK
<1> QED
  BY <1>3, <1>4 DEF Next, vars

\* Whatever objects, specs, lag and faults there are, every state is of the
\* right type; a pass has a key and a copy while it runs, and works on a role
\* only if its copy names one.
THEOREM TypeCorrect == Spec => []TypeOK
<1> USE LoopAssumption, ControllerAssumption
<1>1. Init => TypeOK
  <2> SUFFICES ASSUME Init PROVE TypeOK
    OBVIOUS
  <2>1. LoopTypeOK
    BY DEF Init, LoopInit, LoopTypeOK, Version, Steps
  <2>2. Absent \in [exists : BOOLEAN, carries : StoreSettings \cup {Nothing}]
    BY DEF Absent
  <2>3. Absent \in [exists : BOOLEAN, carries : RoleSettings \cup {Nothing}]
    BY DEF Absent
  <2> QED
    BY <2>1, <2>2, <2>3 DEF Init, LoopInit, TypeOK
<1>2. TypeOK /\ [Next]_vars => TypeOK'
  BY TypeStep
<1>3. QED
  BY <1>1, <1>2, PTL DEF Spec
=============================================================================
