-------------------------- MODULE BucketController --------------------------
(***************************************************************************)
(* The reconciler over any cloud provider.  A provider is reduced to the   *)
(* contract of the ObjectStorageService and AccessRoleService interfaces:  *)
(* a call returns with its postcondition established, or fails, and while  *)
(* it runs or when it fails it may have changed the settings of the        *)
(* resource it works on in any way.                                        *)
(***************************************************************************)
EXTENDS ReconcileLoop

CONSTANTS
    Nothing,  \* settings that are no spec's
    HasRoles, \* whether the provider has access roles: Azure's AccessRoleService
              \* does nothing
    RefusedTags  \* the tags the provider never takes: with those of the cluster
                 \* they name a key twice

StoreSettings == [expiration : Expirations, tags : TagSets]
RoleSettings  == [bucket : Names, access : Accesses, tags : TagSets]

ASSUME ControllerAssumption ==
    /\ Nothing \notin StoreSettings \cup RoleSettings
    /\ HasRoles \in BOOLEAN
    /\ RefusedTags \subseteq TagSets

\* The part of a spec that ConfigureBucket and ConfigureRole put in place.
StoreSettingsOf(s) == [expiration |-> s.expiration, tags |-> s.tags]
RoleSettingsOf(s)  == [bucket |-> s.name, access |-> s.access, tags |-> s.tags]

VARIABLES
    store,  \* store[n]: the cloud bucket n, whether it exists and its settings
    roles   \* roles[r]: the same for the access role r

vars == <<loopVars, store, roles>>

Absent == [exists |-> FALSE, carries |-> Nothing]
Carrying(c) == [exists |-> TRUE, carries |-> c]

Init ==
    /\ LoopInit
    /\ store = [n \in Names |-> Absent]
    /\ roles = [r \in Roles |-> Absent]

-----------------------------------------------------------------------------
(* The contract of the services.                                           *)

\* What the calls leave behind, returned or not.
BucketWith(c) == store' = [store EXCEPT ![obj.spec.name] = Carrying(c)]
RoleWith(c)   == roles' = IF HasRoles
                           THEN [roles EXCEPT ![obj.spec.role] = Carrying(c)]
                           ELSE roles
BucketGone    == store' = [store EXCEPT ![obj.spec.name] = Absent]
RoleGone      == roles' = [roles EXCEPT ![obj.spec.role] = Absent]

\* Any settings of the resource the running call is working on.
Unsettled ==
    \/ /\ pc \in {"create", "update", "configure"}
       /\ \E c \in StoreSettings \cup {Nothing} : BucketWith(c)
       /\ UNCHANGED roles
    \/ /\ pc \in {"role", "deleteRole"}
       /\ pc = "role" \/ roles[obj.spec.role].exists
       /\ \E c \in RoleSettings \cup {Nothing} : RoleWith(c)
       /\ UNCHANGED store

\* A call has done something and has not returned yet.
Progress ==
    /\ \/ Unsettled
       \/ pc = "deleteBucket" /\ BucketGone /\ UNCHANGED roles
    /\ UNCHANGED loopVars

ExistsBucket ==
    /\ pc = "exists"
    /\ \/ /\ Goto(IF store[obj.spec.name].exists THEN "update" ELSE "create")
          /\ UNCHANGED obj
       \/ Fail
    /\ UNCHANGED <<store, roles>>

CreateBucket ==
    /\ pc = "create"
    /\ \/ Unsettled /\ Goto("configure") /\ UNCHANGED obj
       \/ (Unsettled \/ UNCHANGED <<store, roles>>) /\ Fail

UpdateBucket ==
    /\ pc = "update"
    /\ \/ Goto("configure") /\ UNCHANGED <<obj, store, roles>>
       \/ (Unsettled \/ UNCHANGED <<store, roles>>) /\ Fail

ConfigureBucket ==
    /\ pc = "configure"
    /\ \/ /\ obj.spec.tags \notin RefusedTags
          /\ BucketWith(StoreSettingsOf(obj.spec))
          /\ Goto("status")
          /\ UNCHANGED <<obj, roles>>
       \/ Unsettled /\ Fail

ConfigureRole ==
    /\ pc = "role"
    /\ \/ /\ obj.spec.tags \notin RefusedTags
          /\ RoleWith(RoleSettingsOf(obj.spec))
          /\ Finish
          /\ UNCHANGED store
       \/ (Unsettled \/ UNCHANGED <<store, roles>>) /\ Fail

\* Mutant of ExistsBucketDelete: the reclaim policy is not looked at.
DeleteAnyPolicy ==
    /\ pc = "existsDelete"
    /\ \/ store[obj.spec.name].exists /\ Goto("deleteBucket") /\ UNCHANGED obj
       \/ ~store[obj.spec.name].exists /\ Finish
    /\ UNCHANGED <<store, roles>>

\* In reconcileDelete an error is not returned, and neither a missing bucket
\* nor a policy other than Delete leads to the finalizer's removal.
ExistsBucketDelete ==
    /\ pc = "existsDelete"
    /\ \/ /\ store[obj.spec.name].exists
          /\ obj.spec.reclaim = "Delete"
          /\ Goto("deleteBucket")
          /\ UNCHANGED obj
       \/ ~(store[obj.spec.name].exists /\ obj.spec.reclaim = "Delete") /\ Finish
       \/ faulty /\ Finish
    /\ UNCHANGED <<store, roles>>

\* Mutant of DeleteBucket: the access role is forgotten.
ForgetRole ==
    /\ pc = "deleteBucket"
    /\ BucketGone /\ Goto("release")
    /\ UNCHANGED <<obj, roles>>

DeleteBucket ==
    /\ pc = "deleteBucket"
    /\ \/ /\ BucketGone
          /\ Goto(IF obj.spec.role = NoRole THEN "release" ELSE "deleteRole")
          /\ UNCHANGED obj
       \/ (BucketGone \/ UNCHANGED store) /\ Fail
    /\ UNCHANGED roles

DeleteRole ==
    /\ pc = "deleteRole"
    /\ \/ RoleGone /\ Goto("release") /\ UNCHANGED obj
       \/ (RoleGone \/ UNCHANGED roles) /\ Fail
       \/ Unsettled /\ Fail
    /\ UNCHANGED store

ServiceCall ==
    /\ \/ ExistsBucket \/ CreateBucket \/ UpdateBucket \/ ConfigureBucket
       \/ ConfigureRole \/ ExistsBucketDelete \/ DeleteBucket \/ DeleteRole
    /\ UNCHANGED <<clusterVars, faulty>>

\* A provider may refuse without any fault: S3 to delete a bucket written to
\* since it was emptied, IAM a role on which something hangs, Azure's adapter
\* when its cache of Secrets is behind; and both S3 and IAM, for as long as the
\* spec says so, tags that name a key twice.
Refused ==
    /\ \/ pc \in {"create", "update", "deleteBucket", "deleteRole"}
       \/ pc \in {"configure", "role"} /\ obj.spec.tags \in RefusedTags
    /\ Retry
    /\ UNCHANGED <<clusterVars, faulty, store, roles>>

-----------------------------------------------------------------------------
Next ==
    \/ Environment /\ UNCHANGED <<store, roles>>
    \/ \E k \in Keys : Begin(k) /\ UNCHANGED <<store, roles>>
    \/ ControllerStep /\ UNCHANGED <<store, roles>>
    \/ ServiceCall
    \/ Progress
    \/ Refused

Spec == Init /\ [][Next]_vars

\* The watch delivers, a pass goes on, a call returns, the queue is served in
\* order, faults end, and to create or update a bucket is not refused for ever.
Fairness ==
    /\ \A k \in Keys : WF_vars(Watch(k) /\ UNCHANGED <<store, roles>>)
    /\ \A k \in Keys : SF_vars(Begin(k) /\ UNCHANGED <<store, roles>>)
    /\ WF_vars(ControllerStep /\ UNCHANGED <<store, roles>>)
    /\ WF_vars(ServiceCall \/ Refused)
    /\ \A k \in Keys : SF_vars(req = k /\ pc \in {"create", "update"} /\ ServiceCall)
    /\ WF_vars(Stabilize /\ UNCHANGED <<store, roles>>)

FairSpec == Spec /\ Fairness

-----------------------------------------------------------------------------
(* Properties.                                                             *)

TypeOK ==
    /\ LoopTypeOK
    /\ store \in [Names -> [exists : BOOLEAN,
                            carries : StoreSettings \cup {Nothing}]]
    /\ roles \in [Roles -> [exists : BOOLEAN,
                            carries : RoleSettings \cup {Nothing}]]
    /\ pc \in {"role", "deleteRole"} => obj.spec.role # NoRole

\* A bucket or role exists only under a Bucket object that carries the
\* finalizer, whatever crashed or failed ("avoid orphaning AWS resources").
NoOrphans ==
    /\ \A n \in Names : store[n].exists =>
          \E k \in Keys : Exists(k) /\ api[k].fin /\ api[k].spec.name = n
    /\ \A r \in Roles : roles[r].exists =>
          \E k \in Keys : Exists(k) /\ api[k].fin /\ api[k].spec.role = r

\* Users never see a Ready status on a Bucket, unless its deletion has been
\* requested, whose cloud bucket does not exist.
ReadyMeansProvisioned ==
    \A k \in Keys : Live(k) /\ api[k].status.ready =>
        store[api[k].status.id].exists

\* When nothing is left to do, the cloud is as the current spec says: no
\* stale read, crash or half-made call is the last word on a live Bucket.
SettledWhenIdle ==
    \A k \in Keys : Live(k) /\ Idle(k) =>
        LET s == api[k].spec IN
        /\ api[k].fin
        /\ api[k].status = [id |-> s.name, ready |-> TRUE]
        /\ store[s.name] = Carrying(StoreSettingsOf(s))
        /\ HasRoles /\ s.role # NoRole => roles[s.role] = Carrying(RoleSettingsOf(s))

\* A resource goes only while the API server's own object for it is marked
\* for deletion, however old the copy a pass works on, and only if some spec
\* of that object asked for deletion.
Doomed(k) ==
    /\ Exists(k)
    /\ api[k].deleting
    /\ \E s \in Allowed[k] : s.reclaim = "Delete"
DestroysOnlyDeleted ==
    [][/\ \A n \in Names : store[n].exists /\ ~store'[n].exists =>
             \E k \in Keys : Doomed(k) /\ api[k].spec.name = n
       /\ \A r \in Roles : roles[r].exists /\ ~roles'[r].exists =>
             \E k \in Keys : Doomed(k) /\ api[k].spec.role = r]_vars

\* The patches replace the whole list of finalizers by that of a copy which may
\* be old, and still no pass makes a Bucket go that another controller holds.
VanishesUnheld ==
    [][\A k \in Keys : Exists(k) /\ api'[k] = NoObject /\ pc' # pc =>
          api[k].others = {}]_vars

\* The reconciler implements the promise of BucketLifecycle.
Owned(k) ==
    {x \in {"bucket", "role"} : \E s \in Allowed[k] :
        IF x = "bucket" THEN store[s.name].exists
                        ELSE s.role # NoRole /\ roles[s.role].exists}
Phase(k) ==
    IF ~Exists(k) THEN "none"
    ELSE IF api[k].deleting THEN "deleting"
    ELSE IF api[k].fin THEN "held" ELSE "requested"
Lifecycle == INSTANCE BucketLifecycle WITH
    phase <- [k \in Keys |-> Phase(k)],
    resources <- [k \in Keys |-> Owned(k)],
    ready <- [k \in Keys |-> Exists(k) /\ api[k].status.ready]
LifecycleSpec == Lifecycle!Spec

\* A Bucket that is not deleted becomes ready, once faults have ended, even when
\* it had tags before that no provider takes, and passes over old copies of it
\* are still refused.
EventuallyReady ==
    \A k \in Keys : Live(k) ~>
        (Live(k) /\ api[k].spec.tags \notin RefusedTags => api[k].status.ready)
=============================================================================
