--------------------------- MODULE ReconcileLoop ---------------------------
(***************************************************************************)
(* The provider-independent half of the operator: Bucket objects in the    *)
(* API server, the controller's informer cache and work queue, and the     *)
(* steps of a reconcile pass (internal/controller/bucket_controller.go)    *)
(* that read or patch a Bucket.  The calls of a pass to the object storage *)
(* and access role services belong to the modules that extend this one.    *)
(*                                                                         *)
(* A pass works on obj, a copy of the cached object, which lags behind the *)
(* API server; each patch is a JSON merge patch without optimistic lock    *)
(* and replaces obj by the server's answer.  There is one worker           *)
(* (MaxConcurrentReconciles is not set, one replica, leader election).     *)
(***************************************************************************)
EXTENDS Naturals, Sequences

CONSTANTS
    Keys,         \* namespaced names of Bucket objects
    Names,        \* values of spec.name, the name of the cloud bucket
    Roles,        \* values of spec.accessRole.roleName
    Expirations,  \* values of spec.expirationPolicy, absent included
    TagSets,      \* values of spec.tags
    Accesses,     \* what else spec.accessRole holds
    Foreign,      \* finalizers of others, such as foregroundDeletion
    Allowed,      \* Allowed[k]: the specs users give the object k
    NoObject,     \* the object does not exist
    NoKey,        \* the worker is idle
    NoName,       \* status.bucketID is not set
    NoRole,       \* no access role, or an empty roleName
    MaxLag,       \* bound: users wait when so many changes of an object are
                  \*        on their way to the cache
    Faults        \* whether crashes and failing calls may happen at first

BucketSpec == [name : Names, role : Roles \cup {NoRole},
               reclaim : {"Delete", "Retain", ""}, expiration : Expirations,
               tags : TagSets, access : Accesses]

BucketStatus == [id : Names \cup {NoName}, ready : BOOLEAN]

\* fin: the operator's finalizer is on the list; others: who else is on it.
Bucket == [spec : BucketSpec, fin : BOOLEAN, others : SUBSET Foreign,
           deleting : BOOLEAN, status : BucketStatus]

Version == Bucket \cup {NoObject}

ASSUME LoopAssumption ==
    /\ Allowed \in [Keys -> SUBSET BucketSpec]
    /\ NoObject \notin Bucket
    /\ NoKey \notin Keys
    /\ NoName \notin Names
    /\ NoRole \notin Roles
    /\ MaxLag \in Nat
    /\ Faults \in BOOLEAN

VARIABLES
    api,     \* api[k]: the object in the API server
    cache,   \* cache[k]: the object in the informer's cache
    events,  \* events[k]: later versions of it that the watch still carries
    queue,   \* the work queue, a set: a key waiting twice waits once
    pc,      \* the step of Reconcile the worker takes next
    req,     \* the key being reconciled
    obj,     \* the worker's copy of the object
    faulty   \* crashes and failing calls may still happen

clusterVars == <<api, cache, events>>
workerVars  == <<queue, pc, req, obj>>
loopVars    == <<api, cache, events, queue, pc, req, obj, faulty>>

Steps == {"idle", "getCluster", "addFinalizer", "exists", "create", "update",
          "configure", "status", "role", "existsDelete", "deleteBucket",
          "deleteRole", "release"}

LoopInit ==
    /\ api = [k \in Keys |-> NoObject]
    /\ cache = api
    /\ events = [k \in Keys |-> <<>>]
    /\ queue = {}
    /\ pc = "idle" /\ req = NoKey /\ obj = NoObject
    /\ faulty = Faults

LoopTypeOK ==
    /\ api \in [Keys -> Version]
    /\ cache \in [Keys -> Version]
    /\ events \in [Keys -> Seq(Version)]
    /\ queue \in SUBSET Keys
    /\ pc \in Steps
    /\ req \in Keys \cup {NoKey}
    /\ obj \in Version
    /\ faulty \in BOOLEAN
    /\ pc = "idle" <=> req = NoKey
    /\ pc = "idle" <=> obj = NoObject

Exists(k) == api[k] # NoObject
Live(k)   == Exists(k) /\ ~api[k].deleting

-----------------------------------------------------------------------------
(* The API server and the watch.                                           *)

\* A write that changes nothing produces no event.
Write(k, v) ==
    /\ api' = [api EXCEPT ![k] = v]
    /\ events' = IF v = api[k] THEN events
                              ELSE [events EXCEPT ![k] = Append(@, v)]
    /\ UNCHANGED cache

\* A field of the stored object after a merge patch computed as the
\* difference between old and new.
Merge(stored, old, new) == IF old = new THEN stored ELSE new

\* The server drops an object that is being deleted once it has no finalizer.
Stored(v) == IF v.deleting /\ ~v.fin /\ v.others = {} THEN NoObject ELSE v

UserCreate(k) ==
    /\ ~Exists(k)
    /\ Len(events[k]) < MaxLag
    /\ \E s \in Allowed[k] :
          Write(k, [spec |-> s, fin |-> FALSE, others |-> {}, deleting |-> FALSE,
                    status |-> [id |-> NoName, ready |-> FALSE]])
    /\ UNCHANGED <<workerVars, faulty>>

UserEdit(k) ==
    /\ Exists(k)
    /\ Len(events[k]) < MaxLag
    /\ \E s \in Allowed[k] \ {api[k].spec} : Write(k, [api[k] EXCEPT !.spec = s])
    /\ UNCHANGED <<workerVars, faulty>>

\* A deletion in the foreground puts a finalizer on the object as it marks it.
UserDelete(k) ==
    /\ Live(k)
    /\ Len(events[k]) < MaxLag
    /\ \E fs \in SUBSET Foreign :
          Write(k, Stored([api[k] EXCEPT !.deleting = TRUE, !.others = @ \cup fs]))
    /\ UNCHANGED <<workerVars, faulty>>

\* Another controller puts its finalizer on an object, or takes it off.
Hold(k) ==
    /\ Live(k)
    /\ Len(events[k]) < MaxLag
    /\ \E f \in Foreign : Write(k, [api[k] EXCEPT !.others = @ \cup {f}])
    /\ UNCHANGED <<workerVars, faulty>>

Release(k) ==
    /\ Exists(k)
    /\ Len(events[k]) < MaxLag
    /\ \E f \in Foreign : /\ f \in api[k].others
                          /\ Write(k, Stored([api[k] EXCEPT !.others = @ \ {f}]))
    /\ UNCHANGED <<workerVars, faulty>>

OthersAct(k) ==
    UserCreate(k) \/ UserEdit(k) \/ UserDelete(k) \/ Hold(k) \/ Release(k)

\* The informer applies the next change to its cache and enqueues the key:
\* SetupWithManager installs no predicate, so status changes count too.
Watch(k) ==
    /\ events[k] # <<>>
    /\ cache' = [cache EXCEPT ![k] = Head(events[k])]
    /\ events' = [events EXCEPT ![k] = Tail(@)]
    /\ queue' = queue \cup {k}
    /\ UNCHANGED <<api, pc, req, obj, faulty>>

\* The informer's periodic resync enqueues what the cache holds.
Resync(k) ==
    /\ cache[k] # NoObject
    /\ queue' = queue \cup {k}
    /\ UNCHANGED <<clusterVars, pc, req, obj, faulty>>

-----------------------------------------------------------------------------
(* How a pass moves on and how it ends.                                    *)

Goto(step) == pc' = step /\ UNCHANGED <<queue, req>>

\* Reconcile returns no error, and the key is forgotten ...
Finish ==
    /\ pc' = "idle" /\ req' = NoKey /\ obj' = NoObject
    /\ UNCHANGED queue

\* Mutant of Retry: the error is logged and not returned.
SwallowError == Finish

\* ... or an error, and the rate limiter puts the key back.
Retry ==
    /\ pc' = "idle" /\ req' = NoKey /\ obj' = NoObject
    /\ queue' = queue \cup {req}

\* A remote call fails.  Whether it took effect is for the caller to say.
Fail == faulty /\ Retry

\* The process dies at any point and its successor fills its cache from the
\* API server, which enqueues every object.
Crash ==
    /\ faulty
    /\ cache' = api
    /\ events' = [k \in Keys |-> <<>>]
    /\ queue' = {k \in Keys : Exists(k)}
    /\ pc' = "idle" /\ req' = NoKey /\ obj' = NoObject
    /\ UNCHANGED <<api, faulty>>

\* From some moment on nothing crashes and no call fails.
Stabilize ==
    /\ faulty
    /\ faulty' = FALSE
    /\ UNCHANGED <<clusterVars, workerVars>>

-----------------------------------------------------------------------------
(* The steps of Reconcile that are not service calls.                      *)

\* Mutant of Begin: a Bucket that is not found does not end the pass.
BeginAnyway(k) ==
    /\ pc = "idle"
    /\ k \in queue
    /\ queue' = queue \ {k}
    /\ obj' = cache[k]
    /\ pc' = "getCluster" /\ req' = k
    /\ UNCHANGED <<clusterVars, faulty>>

\* Take a key and read its object from the cache; not found ends the pass.
Begin(k) ==
    /\ pc = "idle"
    /\ k \in queue
    /\ queue' = queue \ {k}
    /\ obj' = cache[k]
    /\ IF cache[k] = NoObject THEN UNCHANGED <<pc, req>>
                              ELSE pc' = "getCluster" /\ req' = k
    /\ UNCHANGED <<clusterVars, faulty>>

\* Mutant of GetCluster: the policy is taken for the deletion timestamp.
GetClusterByPolicy ==
    /\ pc = "getCluster"
    /\ Goto(IF obj.deleting \/ obj.spec.reclaim = "Delete" THEN "existsDelete"
                                                           ELSE "addFinalizer")
    /\ UNCHANGED <<clusterVars, obj, faulty>>

\* GetCluster, NewObjectStorageService and NewAccessRoleService, then the
\* branch on the deletion timestamp of the copy.
GetCluster ==
    /\ pc = "getCluster"
    /\ \/ /\ Goto(IF obj.deleting THEN "existsDelete" ELSE "addFinalizer")
          /\ UNCHANGED obj
       \/ Fail
    /\ UNCHANGED <<clusterVars, faulty>>

\* A patch that changes the list of finalizers carries the whole list of the
\* copy, with or without ours, and replaces the stored one.
Relisted(fin) == [api[req] EXCEPT !.fin = fin, !.others = obj.others]

\* While an object is being deleted the server takes no new finalizer.
Refuses(fin) ==
    /\ api[req].deleting
    /\ (fin /\ ~api[req].fin) \/ ~(obj.others \subseteq api[req].others)

\* Mutants of AddFinalizer: the finalizer is not patched, or the status is
\* patched right after it.
SkipFinalizer ==
    /\ pc = "addFinalizer"
    /\ Goto("exists")
    /\ UNCHANGED <<clusterVars, obj, faulty>>
StatusFirst ==
    /\ pc = "addFinalizer"
    /\ IF ~Exists(req) THEN Retry /\ UNCHANGED clusterVars
       ELSE LET v == [api[req] EXCEPT !.fin = TRUE] IN
            Write(req, v) /\ obj' = v /\ Goto("status")
    /\ UNCHANGED faulty

\* reconcileNormal registers the finalizer before it touches the cloud.
AddFinalizer ==
    /\ pc = "addFinalizer"
    /\ IF obj.fin THEN Goto("exists") /\ UNCHANGED <<clusterVars, obj>>
       ELSE IF ~Exists(req) THEN Retry /\ UNCHANGED clusterVars
       ELSE IF Refuses(TRUE) THEN Retry /\ UNCHANGED clusterVars
       ELSE LET v == Relisted(TRUE) IN
            \/ Write(req, v) /\ obj' = v /\ Goto("exists")
            \/ Write(req, v) /\ Fail
            \/ UNCHANGED clusterVars /\ Fail
    /\ UNCHANGED faulty

\* The status says ready, with the name the pass worked on; the answer then
\* decides whether there is an access role to configure.
PatchStatus ==
    /\ pc = "status"
    /\ IF ~Exists(req) THEN Retry /\ UNCHANGED clusterVars
       ELSE LET v == [api[req] EXCEPT
                        !.status.id = Merge(@, obj.status.id, obj.spec.name),
                        !.status.ready = Merge(@, obj.status.ready, TRUE)] IN
            \/ /\ Write(req, v)
               /\ IF v.spec.role = NoRole THEN Finish
                                          ELSE obj' = v /\ Goto("role")
            \/ Write(req, v) /\ Fail
            \/ UNCHANGED clusterVars /\ Fail
    /\ UNCHANGED faulty

\* Mutants of RemoveFinalizer: the patch is computed against a copy taken too
\* late, and is empty; or the whole list is cleared.
EmptyPatch == pc = "release" /\ Finish /\ UNCHANGED <<clusterVars, faulty>>
ClearFinalizers ==
    /\ pc = "release"
    /\ IF ~Exists(req) THEN Retry /\ UNCHANGED clusterVars
       ELSE /\ Write(req, Stored([api[req] EXCEPT !.fin = FALSE, !.others = {}]))
            /\ Finish
    /\ UNCHANGED faulty

\* reconcileDelete's last step: give up the finalizer.
RemoveFinalizer ==
    /\ pc = "release"
    /\ IF ~Exists(req) THEN Retry /\ UNCHANGED clusterVars
       ELSE IF obj.fin /\ Refuses(FALSE) THEN Retry /\ UNCHANGED clusterVars
       ELSE LET v == IF obj.fin THEN Stored(Relisted(FALSE)) ELSE api[req] IN
            \/ Write(req, v) /\ Finish
            \/ Write(req, v) /\ Fail
            \/ UNCHANGED clusterVars /\ Fail
    /\ UNCHANGED faulty

-----------------------------------------------------------------------------
(* The next-state relation of this half, for the modules that extend it.   *)

Environment ==
    \/ \E k \in Keys : OthersAct(k)
    \/ \E k \in Keys : Watch(k) \/ Resync(k)
    \/ Crash
    \/ Stabilize

ControllerStep == GetCluster \/ AddFinalizer \/ PatchStatus \/ RemoveFinalizer

-----------------------------------------------------------------------------
\* No two objects may ever name the same bucket or the same role, and an
\* object keeps both for life: what many properties presuppose.
Exclusive ==
    /\ \A k \in Keys : \A s, t \in Allowed[k] : s.name = t.name /\ s.role = t.role
    /\ \A k, l \in Keys : k # l =>
          \A s \in Allowed[k], t \in Allowed[l] :
             s.name # t.name /\ (s.role = t.role => s.role = NoRole)

\* Nothing is left to do for k: no change on its way, no pass due or running.
Idle(k) == events[k] = <<>> /\ k \notin queue /\ req # k

\* Deletion of a Bucket under the Delete policy completes: the object goes, so
\* reconcileDelete reaches the removal of the finalizer.  For the modules that
\* say what the service calls do, and under which fairness.
DeletionCompletes ==
    \A k \in Keys : (Exists(k) /\ api[k].deleting /\ api[k].spec.reclaim = "Delete")
                       ~> (Exists(k) => api[k].spec.reclaim # "Delete")
=============================================================================
