------------------------- MODULE ConvergenceProofs -------------------------
(***************************************************************************)
(* That the operator is done only when it is right: the proof of           *)
(* SettledWhenIdle from ConvergeInv.                                       *)
(***************************************************************************)
EXTENDS ControllerSafetyProofs

Settled(k) ==
    /\ BucketSettled(k)
    /\ HasRoles /\ api[k].spec.role # NoRole =>
          roles[api[k].spec.role] = Carrying(RoleSettingsOf(api[k].spec))

\* SettledWhenIdle in these terms.
LEMMA SettledParts ==
  SettledWhenIdle <=> \A k \in Keys : Live(k) /\ Idle(k) => Settled(k)
BY DEF SettledWhenIdle, Settled, BucketSettled

\* When the pass is to patch the status, the bucket carries its copy's settings.
LEMMA ConfiguredStep ==
  ASSUME LoopAssumption, TypeOK, Inv, ConvergeInv, [Next]_vars, pc' = "status"
  PROVE  store'[obj'.spec.name] = Carrying(StoreSettingsOf(obj'.spec))
<1>1. CASE ConfigureBucket
  <2>1. obj.spec.name \in Names
    BY <1>1 DEF ConfigureBucket, TypeOK, LoopTypeOK, Version, Bucket, BucketSpec
  <2>2. BucketWith(StoreSettingsOf(obj.spec)) /\ UNCHANGED obj
    BY <1>1 DEF ConfigureBucket, Fail, Retry
  <2> QED
    BY <2>1, <2>2 DEF BucketWith, TypeOK
<1>2. CASE pc = "status" /\ UNCHANGED <<obj, store>>
  BY <1>2 DEF ConvergeInv
<1>3. (pc = "status" /\ UNCHANGED <<obj, store>>) \/ ConfigureBucket
  <2>1. CASE UNCHANGED vars
    BY <2>1 DEF vars, loopVars
  <2>2. CASE Environment /\ UNCHANGED <<store, roles>>
    BY <2>2 DEF Environment, OthersAct, UserCreate, UserEdit, UserDelete, Hold,
       Release, Watch, Resync, Crash, Stabilize, workerVars
  <2>3. ASSUME NEW k \in Keys, Begin(k), UNCHANGED <<store, roles>>
        PROVE FALSE
    BY <2>3 DEF Begin
  <2>4. CASE ControllerStep
    BY <2>4 DEF ControllerStep, GetCluster, AddFinalizer, PatchStatus,
       RemoveFinalizer, Goto, Finish, Fail, Retry
  <2>5. CASE ServiceCall
    BY <2>5 DEF ServiceCall, ExistsBucket, CreateBucket, UpdateBucket,
       ConfigureRole, ExistsBucketDelete, DeleteBucket, DeleteRole, Goto, Finish,
       Fail, Retry
  <2>6. CASE Progress \/ Refused
    BY <2>6 DEF Progress, Unsettled, Refused, Retry, loopVars
  <2> QED
    BY <2>1, <2>2, <2>3, <2>4, <2>5, <2>6 DEF Next
<1> QED
  BY <1>1, <1>2, <1>3

\* The status patch of a pass that nothing has overtaken, if it changes nothing,
\* finds everything but the role in order.
LEMMA StatusSettles ==
  ASSUME LoopAssumption, Exclusive, TypeOK, Inv, ConvergeInv, pc = "status", Fresh,
         api[req] = [api[req] EXCEPT
                       !.status.id = Merge(@, obj.status.id, obj.spec.name),
                       !.status.ready = Merge(@, obj.status.ready, TRUE)]
  PROVE  BucketSettled(req) /\ obj = api[req] /\ req \in Keys
<1> DEFINE a == api[req]
           v == [api[req] EXCEPT
                   !.status.id = Merge(@, obj.status.id, obj.spec.name),
                   !.status.ready = Merge(@, obj.status.ready, TRUE)]
           t == [id |-> a.spec.name, ready |-> TRUE]
<1>1. obj = a
  BY DEF ConvergeInv, FreshInv
<1>2. req \in Keys /\ a \in Bucket /\ v \in Bucket
  BY StatusWritten DEF TypeOK, Inv
<1>3. /\ v.status.id = Merge(a.status.id, a.status.id, a.spec.name)
      /\ v.status.ready = Merge(a.status.ready, a.status.ready, TRUE)
  BY <1>1, <1>2 DEF Bucket, BucketStatus
<1>4. v.status.id = a.spec.name /\ v.status.ready = TRUE
  BY <1>3 DEF Merge
<1>5. v.status \in BucketStatus /\ a.spec.name \in Names
  BY <1>2 DEF Bucket, BucketSpec
<1>6. t \in BucketStatus /\ t.id = a.spec.name /\ t.ready = TRUE
  BY <1>5 DEF BucketStatus
<1>7. a = v
  OBVIOUS
<1>8. store[a.spec.name] = Carrying(StoreSettingsOf(a.spec))
  BY <1>1 DEF ConvergeInv
<1>9. a.fin
  BY DEF Inv, LoopInv, PassInv, HoldingSteps
<1> HIDE DEF v, t, a
<1>10. a.status = t
  BY <1>4, <1>5, <1>6, <1>7, StatusFields
<1> QED
  BY <1>1, <1>2, <1>8, <1>9, <1>10 DEF BucketSettled, a, t

\* A status patch whose object is quiet afterwards has changed nothing.
LEMMA QuietPatch ==
  ASSUME LoopAssumption, Exclusive, TypeOK, Inv, ConvergeInv, PatchStatus,
         NEW k \in Keys, k = req, Quiet(k)'
  PROVE  /\ BucketSettled(k) /\ obj = api[k] /\ api'[k] = api[k]
         /\ \/ pc' = "idle" /\ api[k].spec.role = NoRole
            \/ pc' = "role"
<1> DEFINE v == [api[req] EXCEPT
                   !.status.id = Merge(@, obj.status.id, obj.spec.name),
                   !.status.ready = Merge(@, obj.status.ready, TRUE)]
<1>1. pc = "status" /\ ~Retry
  BY DEF PatchStatus, Retry, Quiet
<1>2. /\ Write(req, v)
      /\ IF v.spec.role = NoRole THEN Finish ELSE obj' = v /\ Goto("role")
  BY <1>1 DEF PatchStatus, Fail
<1>3. v \in Version /\ v.spec = api[req].spec
  BY <1>1, StatusWritten DEF TypeOK, Inv, Version
<1>4. api'[k] = v
  BY <1>2 DEF Write, TypeOK, LoopTypeOK
<1> HIDE DEF v
<1>5. api'[k] = api[k] /\ events[k] = <<>>
  BY <1>2, <1>3, WriteIsSeen DEF Quiet, TypeOK
<1>6. Fresh
  BY <1>2, <1>5 DEF Fresh, Quiet, Finish, Goto
<1>7. BucketSettled(req) /\ obj = api[req]
  BY <1>1, <1>4, <1>5, <1>6, StatusSettles DEF v
<1> QED
  BY <1>2, <1>3, <1>5, <1>7 DEF Finish, Goto

\* When a pass that nothing has overtaken is to configure the role, all the rest
\* is in order.
LEMMA RoleLastStep ==
  ASSUME LoopAssumption, Exclusive, TypeOK, TypeOK', Inv, ConvergeInv, [Next]_vars,
         pc' = "role", Fresh'
  PROVE  BucketSettled(req)'
<1>0. PICK k \in Keys : k = req'
  BY DEF TypeOK, LoopTypeOK
<1>1. Quiet(k)'
  BY <1>0 DEF Fresh, Quiet
<1>2. (PatchStatus \/ pc = "role") /\ UNCHANGED <<req, store>>
  <2>1. CASE UNCHANGED vars
    BY <2>1 DEF vars, loopVars
  <2>2. CASE Environment /\ UNCHANGED <<store, roles>>
    BY <2>2 DEF Environment, OthersAct, UserCreate, UserEdit, UserDelete, Hold,
       Release, Watch, Resync, Crash, Stabilize, workerVars
  <2>3. ASSUME NEW l \in Keys, Begin(l), UNCHANGED <<store, roles>>
        PROVE FALSE
    BY <2>3 DEF Begin
  <2>4. CASE ControllerStep /\ UNCHANGED <<store, roles>>
    BY <2>4 DEF ControllerStep, GetCluster, AddFinalizer, PatchStatus,
       RemoveFinalizer, Goto, Finish, Fail, Retry
  <2>5. CASE ServiceCall
    BY <2>5 DEF ServiceCall, ExistsBucket, CreateBucket, UpdateBucket, ConfigureBucket,
       ConfigureRole, ExistsBucketDelete, DeleteBucket, DeleteRole, Goto, Finish,
       Fail, Retry
  <2>6. CASE Progress \/ Refused
    BY <2>6 DEF Progress, Unsettled, Refused, Retry, loopVars
  <2> QED
    BY <2>1, <2>2, <2>3, <2>4, <2>5, <2>6 DEF Next
<1>3. BucketSettled(k) /\ api'[k] = api[k] /\ UNCHANGED store
  <2>1. CASE PatchStatus /\ UNCHANGED <<req, store>>
    BY <1>0, <1>1, <2>1, QuietPatch
  <2>2. CASE pc = "role" /\ UNCHANGED <<req, store>>
    <3>1. ~Begin(k) /\ ~Crash
      BY <2>2 DEF Begin, Crash
    <3>2. Quiet(k) /\ api'[k] = api[k]
      BY <1>1, <3>1, QuietFrom, StepOfLoop DEF TypeOK, Inv
    <3> QED
      BY <1>0, <2>2, <3>2 DEF ConvergeInv, Quiet, Fresh
  <2> QED
    BY <1>2, <2>1, <2>2
<1> QED
  BY <1>0, <1>3 DEF BucketSettled

\* The pass of one object leaves the bucket and the role of another alone.
LEMMA OthersUntouched ==
  ASSUME LoopAssumption, Exclusive, TypeOK, Inv, [Next]_vars, NEW k \in Keys,
         k # req, Exists(k)
  PROVE  /\ store'[api[k].spec.name] = store[api[k].spec.name]
         /\ api[k].spec.role # NoRole =>
               roles'[api[k].spec.role] = roles[api[k].spec.role]
<1>1. CASE UNCHANGED <<store, roles>>
  BY <1>1
<1>2. CASE ServiceCall \/ Progress \/ Refused
  <2>1. \/ UNCHANGED <<store, roles>>
        \/ /\ pc # "idle" /\ UNCHANGED roles
           /\ \E c : store' = [store EXCEPT ![obj.spec.name] = c]
        \/ /\ pc \in {"role", "deleteRole"} /\ UNCHANGED store
           /\ UNCHANGED roles \/ \E c : roles' = [roles EXCEPT ![obj.spec.role] = c]
    BY <1>2, ServiceEffects DEF BucketWith, BucketGone, RoleWith, RoleGone
  <2>2. CASE pc # "idle"
    <3>1. /\ req \in Keys /\ obj \in Bucket /\ Genuine(req, obj)
          /\ api[k] \in Bucket /\ Genuine(k, api[k])
      BY <2>2, ApiGenuine DEF TypeOK, LoopTypeOK, Version, Inv, LoopInv, PassInv,
         Exists
    <3>2. /\ obj.spec.name # api[k].spec.name
          /\ obj.spec.role = api[k].spec.role => api[k].spec.role = NoRole
      BY <3>1, SameNames
    <3>3. /\ obj.spec.name \in Names /\ api[k].spec.name \in Names
          /\ api[k].spec.role \in Roles \cup {NoRole}
      BY <3>1 DEF Bucket, BucketSpec
    <3> QED
      BY <2>1, <3>2, <3>3 DEF TypeOK
  <2> QED
    BY <2>1, <2>2
<1> QED
  BY <1>1, <1>2 DEF Next, vars

\* A pass that ends for good, its object being quiet, is one of a deleted object
\* or leaves everything as the spec says.
LEMMA LastPass ==
  ASSUME LoopAssumption, Exclusive, TypeOK, TypeOK', Inv, ConvergeInv, [Next]_vars,
         NEW k \in Keys, k = req, k # req', Quiet(k), Quiet(k)', api'[k] = api[k],
         Live(k), ~Crash
  PROVE  Settled(k)'
<1>1. obj = api[k] /\ pc # "idle" /\ obj.deleting = FALSE
  <2>1. pc # "idle"
    BY DEF TypeOK, LoopTypeOK, LoopAssumption
  <2>2. obj = api[k]
    BY <2>1 DEF ConvergeInv, FreshInv, Fresh, Quiet
  <2>3. api[k] \in Bucket
    BY DEF TypeOK, LoopTypeOK, Version, Live, Exists
  <2> QED
    BY <2>1, <2>2, <2>3 DEF Live, Bucket
<1>2. pc \notin DeletingSteps
  BY <1>1 DEF Inv, LoopInv, PassInv, Deleting
<1>3. ~Retry
  BY DEF Retry, Quiet
<1>4. \/ PatchStatus /\ UNCHANGED <<store, roles>>
      \/ ConfigureRole
  <2>1. CASE UNCHANGED vars
    BY <2>1 DEF vars, loopVars
  <2>2. CASE Environment /\ UNCHANGED <<store, roles>>
    BY <2>2 DEF Environment, OthersAct, UserCreate, UserEdit, UserDelete, Hold,
       Release, Watch, Resync, Stabilize, workerVars
  <2>3. ASSUME NEW l \in Keys, Begin(l)
        PROVE FALSE
    BY <1>1, <2>3 DEF Begin
  <2>4. CASE ControllerStep /\ UNCHANGED <<store, roles>>
    BY <1>2, <1>3, <2>4 DEF ControllerStep, GetCluster, AddFinalizer,
       RemoveFinalizer, Goto, Fail, DeletingSteps
  <2>5. CASE ServiceCall
    BY <1>2, <1>3, <2>5 DEF ServiceCall, ExistsBucket, CreateBucket, UpdateBucket,
       ConfigureBucket, ExistsBucketDelete, DeleteBucket, DeleteRole, Goto, Fail,
       DeletingSteps
  <2>6. CASE Progress \/ Refused
    BY <1>3, <2>6 DEF Progress, Refused, loopVars
  <2> QED
    BY <2>1, <2>2, <2>3, <2>4, <2>5, <2>6 DEF Next
<1>5. CASE PatchStatus /\ UNCHANGED <<store, roles>>
  <2>1. /\ BucketSettled(k)
        /\ \/ pc' = "idle" /\ api[k].spec.role = NoRole
           \/ pc' = "role"
    BY <1>5, QuietPatch
  <2>2. pc' # "role"
    BY <1>3, <1>5 DEF PatchStatus, Fail, Finish, Goto
  <2> QED
    BY <1>5, <2>1, <2>2 DEF Settled, BucketSettled
<1>6. CASE ConfigureRole
  <2>1. RoleWith(RoleSettingsOf(obj.spec)) /\ UNCHANGED store /\ pc = "role"
    BY <1>3, <1>6 DEF ConfigureRole, Fail
  <2>2. BucketSettled(k)
    BY <2>1 DEF ConvergeInv, FreshInv, Fresh, Quiet
  <2>3. obj.spec.role \in Roles
    BY <1>1, <2>1 DEF TypeOK, LoopTypeOK, Version, Bucket, BucketSpec
  <2>4. HasRoles => roles'[obj.spec.role] = Carrying(RoleSettingsOf(obj.spec))
    BY <2>1, <2>3 DEF RoleWith, TypeOK
  <2> QED
    BY <1>1, <2>1, <2>2, <2>4 DEF Settled, BucketSettled
<1> QED
  BY <1>4, <1>5, <1>6

\* The invariant is preserved by every step.
LEMMA ConvergeStep ==
  ASSUME LoopAssumption, Exclusive, TypeOK, TypeOK', Inv, ConvergeInv, [Next]_vars
  PROVE  ConvergeInv'
<1>1. ASSUME NEW k \in Keys, Live(k)', Idle(k)'
      PROVE  Settled(k)'
  <2>1. Quiet(k)' /\ req' # k
    BY <1>1 DEF Idle, Quiet
  <2>2. ~Crash
    BY <1>1, <2>1 DEF Crash, Quiet, Live, Exists
  <2>3. ~(Begin(k) /\ UNCHANGED clusterVars)
    <3> SUFFICES ASSUME Begin(k), UNCHANGED clusterVars PROVE FALSE
      OBVIOUS
    <3>1. events[k] = <<>> /\ cache[k] = NoObject
      BY <2>1 DEF Begin, Quiet, clusterVars
    <3>2. api[k] = NoObject
      BY <3>1, QuietCache DEF TypeOK, Inv
    <3> QED
      BY <1>1, <3>2 DEF clusterVars, Live, Exists
  <2>4. Quiet(k) /\ api'[k] = api[k]
    BY <2>1, <2>2, <2>3, QuietFrom, StepOfLoop DEF TypeOK, Inv
  <2>5. Live(k)
    BY <1>1, <2>4 DEF Live, Exists
  <2>6. CASE req = k
    BY <2>1, <2>2, <2>4, <2>5, <2>6, LastPass
  <2>7. CASE req # k
    <3>1. Settled(k)
      BY <2>4, <2>5, <2>7, SettledParts DEF ConvergeInv, Idle, Quiet
    <3> QED
      BY <2>4, <2>5, <2>7, <3>1, OthersUntouched DEF Settled, BucketSettled, Live
  <2> QED
    BY <2>6, <2>7
<1>2. SettledWhenIdle'
  <2>1. (SettledWhenIdle <=> \A k \in Keys : Live(k) /\ Idle(k) => Settled(k))'
    BY SettledParts, PTL
  <2> QED
    BY <1>1, <2>1
<1>3. FreshInv'
  BY FreshStep, StepOfLoop DEF TypeOK, Inv, ConvergeInv
<1> QED
  BY <1>2, <1>3, ConfiguredStep, RoleLastStep DEF ConvergeInv

\* The strengthening holds in every reachable state: what the pass that may be the
\* last one for its object has brought about.
THEOREM Convergence ==
  ASSUME Exclusive
  PROVE  Spec => []ConvergeInv
<1>1. Init => ConvergeInv
  BY DEF Init, LoopInit, ConvergeInv, FreshInv, SettledWhenIdle, Live, Exists
<1>2. TypeOK /\ TypeOK' /\ Inv /\ ConvergeInv /\ [Next]_vars => ConvergeInv'
  BY ConvergeStep, LoopAssumption
<1> QED
  BY <1>1, <1>2, TypeCorrect, Invariance, PTL DEF Spec

\* In a cluster whose Bucket objects name their buckets and roles apart and for
\* life, whatever others do and whatever finalizers they put on Buckets, the
\* operator has nothing left to do for a live Bucket only when finalizer,
\* status, bucket and role are as its current spec says (reconcileNormal: an
\* error is returned and retried, a change that overtakes a pass is reconciled).
THEOREM IdleIsSettled ==
  ASSUME Exclusive
  PROVE  Spec => []SettledWhenIdle
<1>1. ConvergeInv => SettledWhenIdle
  BY DEF ConvergeInv
<1> QED
  BY <1>1, Convergence, PTL
=============================================================================
