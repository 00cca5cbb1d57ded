# A TLA+ model of object-storage-operator

This directory holds TLA+ specifications of the operator, the configurations
that check them with TLC, and proofs checked by TLAPS. The source of truth is
the Go code; `PROJECT.json` ("map") names the lines each definition stands for.

## 1. The system

The operator runs in a management cluster and reconciles `Bucket` objects with
buckets and access roles at a cloud provider.

| Component | Code | State | Operations |
|---|---|---|---|
| Bucket API type | `api/v1alpha1/bucket_types.go` | spec, finalizers, deletion timestamp, status | users create, edit and delete objects |
| Bucket reconciler | `internal/controller/bucket_controller.go` | informer cache, work queue, one running pass with its copy of the object | `Reconcile`, `reconcileNormal`, `reconcileDelete` |
| Service interfaces | `internal/pkg/service/objectstorage/service.go` | none | Exists-, Create-, Update-, Configure-, DeleteBucket; Configure-, DeleteRole |
| AWS adapters | `cloud/aws/s3.go`, `iam.go`, `templates.go` | S3 buckets with their objects; IAM roles with policies, tags, instance profile | some twenty S3 and IAM requests |
| Azure adapter | `cloud/azure/*.go` | storage accounts, containers, private endpoints, DNS records, a Secret with the access key | account, container, endpoint, record, key and policy requests; Secret upsert, patch and delete |
| Cluster getters | `cloud/*/cluster.go`, `internal/pkg/cluster` | none; they read the cluster object, an identity and a Secret | `GetCluster` |
| Service factories | `cloud/*/service.go` | none | build SDK clients from credentials |
| Process set-up | `main.go`, `internal/pkg/flags` | the provider flag | choose getter and factory, manager, caches |

How they interact: the API server's watch feeds the cache and enqueues keys; the
worker takes a key, reads the cached object, asks the cluster getter and the
factories for services, and makes a sequence of service calls, each of which is
a sequence of remote requests. Patches of the Bucket go to the API server and
replace the worker's copy. An error puts the key back.

What is hard:

* the pass works on a copy that may be arbitrarily old, while the object is
  edited, deleted and created again;
* the process may die between any two requests, and a request may take effect
  although its answer is lost; only the finalizer and the cloud are persistent;
* patches are merge patches without an optimistic lock, and one that changes the
  finalizers carries the whole list of the copy;
* applications, other administrators and users of Secrets act between requests;
* the Azure adapter reads Secrets through a cache with a watch of its own;
* cluster object, identity and Secret are read one after the other while others
  edit them, and an edit of them starts no pass;
* nothing retries a pass that ended without an error.

What makes each part correct: nothing exists in the cloud without an object
that holds it; nothing is destroyed unless its own object is being deleted and
asked for it; Ready means usable; when nothing is left to do the cloud is what
the spec says; a Bucket becomes ready and a deletion completes; credentials belong
together, and credentials and tags follow the cluster object. The full list of
what can go wrong, with lines, is "hazards" in `PROJECT.json`.

## 2. The modules

| Module | Role |
|---|---|
| `ReconcileLoop` | The provider-independent half: API server, watch, cache, queue, crash and restart, and the steps of `Reconcile` that read or patch a Bucket |
| `BucketController` | Extends it with a provider reduced to the contract of the two service interfaces; the properties; fairness |
| `BucketLifecycle` | Abstract specification: what the owner of a Bucket is promised |
| `LoopInvariant` | What the loop keeps whatever the provider does: `LoopInv`, `FreshInv`, `ListInv` |
| `ControllerInvariant` | Extends it with the contract's cloud, for the proofs about `BucketController`: `Inv`, `ConvergeInv`, `UnheldInv` |
| `AWSController` | Extends `ReconcileLoop` with one step per S3 and IAM request |
| `AWSInvariant` | What the requests of a call build on: `RequestInv` |
| `AzureController` | Extends `ReconcileLoop` with one step per Azure and Secret request |
| `AzureInvariant` | Extends `LoopInvariant` with what makes the Azure properties inductive: `AzureInv` |
| `ClusterGetter` | How a pass gets its credentials and tags: set-up by provider, the reads of `GetCluster`, the factories, the tags |
| `LoopProofs` | Theorems about the loop over any provider |
| `BucketControllerProofs`, `ControllerSafetyProofs`, `LifecycleProofs`, `ConvergenceProofs` | Theorems about `BucketController`: types; safety; refinement of `BucketLifecycle`; convergence |
| `AWSControllerProofs` | Refinement of the contract on AWS and what follows from it |
| `AzureControllerProofs` | The properties on Azure, and the refinement of the contract there |
| `ClusterGetterProofs` | Theorems about `ClusterGetter` |
| `MC*` | Small instances for TLC |

    BucketLifecycle  <--implements--  BucketController  <--implements--  AWSController
                                                        <--implements--  AzureController

`ClusterGetter` stands beside them: it takes apart the step `GetCluster` of
`ReconcileLoop`, which there succeeds or fails, and reduces the rest of a pass to
one step.

So a safety property of `BucketController` holds of the buckets and roles of both
providers. The refinement is proved for AWS without further assumptions, and for Azure
where no two names sanitize alike and no expirationPolicy is dropped (findings 3 and 4).

### ReconcileLoop

`api`, `cache` and `events` are, per object, the API server's version, the cached
one and the versions the watch still carries. `queue` is a set, as a key that
waits twice waits once. `pc`, `req` and `obj` are the running pass. There is one
worker: `MaxConcurrentReconciles` is not set, the chart runs one replica, with
leader election. `Begin` is the cached read with its not-found return;
`GetCluster` stands for the cluster getter, both factories and the branch on the
deletion timestamp; `AddFinalizer`, `PatchStatus` and `RemoveFinalizer` are the
three patches. A patch is computed from the difference between the copies, so
`Merge` leaves a field alone that does not differ; the patched object may by now
be another one of the same name. `Finish` is a return without error and `Retry`
one with an error. Deletion of an object without finalizer removes it at once.

`others` are the finalizers of other controllers: `Hold` adds one, `Release` takes
one off, and a deletion in the foreground adds one as it marks the object. A patch
that changes the list of finalizers replaces the stored list by the copy's
(`Relisted`), and the API server refuses one that would add a finalizer to an
object that is being deleted (`Refuses`).

### BucketController

`store` and `roles` say which buckets and roles exist and which settings they
carry. A service call returns with its postcondition, or fails with any part of
it done; while it runs (`Progress`), it may have done any part of it. `Refused` is
an error without a fault. `RefusedTags` are the tags the provider never takes: with
them neither `ConfigureBucket` nor `ConfigureRole` succeeds, and both may be refused,
until the spec has others. On Azure there are no roles: `HasRoles` is FALSE and
the calls do nothing.

### AWSController

`call` is the request the running service call makes next. A request is done,
done with its answer lost, or not done. Listing is paginated; `DeleteObjects`
may leave some objects without an error; S3 refuses to delete a bucket that is
not empty, and IAM a role on which anything hangs. `Meddle` lets others attach
policies or use the role in a profile, and the lists of policies, which the code
reads without pagination, may be cut short, while `faulty` holds. After that a
deletion of the role may still be refused, which the contract knows (`Refused`); the
object then stays for ever, as in finding 1, and with it the role. A request that
carries tags (`Tagging`: PutBucketTagging, CreateRole, TagRole) is refused when the
spec's and the cluster's together name a key twice (`RefusedTags`). The Bucket does
not become ready then; one that was stays so, and a role configured from the answer
to the status patch may be left without tags, between UntagRole and TagRole.

### AzureController

`sanitizeStorageAccountName` works on names as sequences of characters: it keeps
letters and digits and cuts at `MaxAccountName` (24 in the code, 2 in the
instances). `Claim` lets others in Azure take and give back the name of an account
that does not exist: it then counts as existing, and its creation is refused. Accounts and containers go together; private
endpoints and A records are never deleted, by the code and hence in the model. A
Secret is missing, held by its finalizer, held and marked, or without finalizer;
`known` is what the cache says of it. `SecretLag` and `SecretDeletion` say
whether that cache may be late and whether others try to delete Secrets. The
management policy is written under the name "default" and deleted under the
rule's name; Azure knows only "default", so the deletion finds nothing.

### ClusterGetter

`cluster`, `identities` and `secrets` are the objects, as functions from the fields
that are present; `Malformed` is a field of the wrong type. The first version in
`secrets[s]` is the cached one and the last the API server's; cluster and identity
are unstructured objects, which the manager's client reads from the API server.
`ReadCluster`, `ReadIdentity` and `ReadSecret` are the requests of `GetCluster`,
each with the checks that follow it up to the next request (`RefersToIdentity`,
`ValidAWS`, `ValidAzure`); the error returns are `Retry`. `Cached` is the label
selector of `main.go`, which hides Helm's Secrets. `NewServices` are both
factories: `arn.Parse` must take the role (`Parsable`) and azidentity the tenant
(`Tenants`) and the client secret. `ServiceCalls` is the rest of the pass, reduced to the tags it puts
on: on Azure a map in which the cluster's tags replace the Bucket's after `-` became
`_`, in the random order of a Go map where keys fall together; on AWS a list that is
refused when it has a key twice. `Edit` changes, creates or deletes any of the
objects at any moment and enqueues nothing. `since` records, for the properties,
what was there during the running pass. An unknown provider ends the process.

## 3. The runs

| Run | Shows | Distinct states |
|---|---|---|
| `controller_one` | one object, edits up to three versions ahead of the cache, all faults: type, NoOrphans, ReadyMeansProvisioned, SettledWhenIdle, the inductive invariant, DestroysOnlyDeleted, refinement of BucketLifecycle | 70 000 |
| `controller_two` | two objects and one worker: the same questions about one object's passes harming the other, and the invariant of the convergence proof | 260 000 |
| `controller_foreign` | the same object with a finalizer of somebody else coming and going, two versions ahead: NoOrphans, SettledWhenIdle, the inductive invariants; VanishesUnheld: no object goes while others hold it; EventuallyReady: every live Bucket becomes ready after faults have ended, unless its tags are refused, which they may have been before | 346 000 |
| `aws_requests` | ReadyMeansSecured, SettledInCloud, DataOnlyGoesOnDeletion, the invariant of the requests, refinement of BucketController | 753 000 |
| `aws_delete` | deletion completes without faults, though applications write behind the listing (three objects, pages of one), and whether or not AWS took the tags | 71 000 |
| `azure_requests` | ReadyMeansUsable, ReachableWhenIdle, NoOrphanAccounts, the inductive invariant, refinement of BucketController, with account names that others take | 533 000 |
| `azure_delete` | deletion completes without faults | 9 000 |
| `cluster_getter` | Coherent: credentials come from objects that belong together and to this pass; CredentialsFollow and TagsFollow: in the end credentials and tags are those of the current objects; both providers and an unknown one | 335 000 |
| `aws_stuck` | violation: a deletion in the foreground, without any fault, never completes | |
| `azure_secret` | violation: the same after an attempt to delete the Secret | |
| `azure_expiry` | violation: a dropped expirationPolicy leaves the management policy | |
| `azure_shared` | violation: two buckets in one storage account | |

Each property of a passing run has a mutant: an operator that changes a mapped
definition the way a plausible bug would, under which the run fails.

**Findings.** (1) `reconcileDelete` removes the finalizer only in the pass that
itself finds and deletes the bucket. If that pass is interrupted later, or its last
patch fails, the next one finds no bucket, returns nil, and the object stays for
ever; a test named "was free of its finalizer" asserts that the finalizer is there.
No fault is needed: `aws_stuck` gets there by a deletion in the foreground, whose
finalizer the garbage collector takes off between the operator's read and its last
patch; that patch still lists it and is refused. (2) On Azure a Secret that somebody tried to delete
leads there without any fault. (3) The Azure adapter cannot remove a management
policy. (4) The one-to-one relation of account and container does not survive the
sanitizing of names; deletion of one bucket then takes the other with it.
A Bucket under Retain, or without policy, also keeps its finalizer for ever: the
tests ask for that, and no property speaks against it.

**Bounds.** One object shows every interleaving of a pass with edits, deletion,
re-creation and faults, since the worker handles one object at a time; two show
that passes over different objects do not interfere. `MaxLag` bounds how far
users run ahead of the cache; three versions are enough for deletion, re-creation
and the finalizer's patch to be in flight together. Two values of the settings
suffice to tell an old spec from a new one. In `controller_foreign` and `aws_delete`
the second value of the tags is one that is refused; that refused requests implement
the contract is the theorem `ImplementsContract`, as `aws_requests` has only tags
that are taken. The clause of `DestroysOnlyDeleted` and `DataOnlyGoesOnDeletion` about
the reclaim policy has force in `controller_two`, where one object is never under
Delete, and in the theorems; in `controller_one` and `aws_requests` some spec of the
only object asks for deletion. `Objects` and `PageSize` make the
listing take several pages with writes before and behind its position; an object
is written once. The private mode is switched on at most once. One finalizer of
others stands for any number, as all are treated alike. In `cluster_getter` two
edits (`MaxChanges`) fall between any two reads, enough to move the reference and
to remove what it pointed to, or to rotate a Secret twice, from every initial
configuration; the contents differ in provider, namespace of the identity, type of
identity, missing and malformed fields, and in tags that clash as written and only
once sanitized; the tenant of the one service principal is well-formed. `CHECK_DEADLOCK
FALSE`: when no object exists and the users rest, the system stops.

**Fairness.** Weak fairness for the watch (the informer reconnects and delivers),
for the steps of a running pass (requests return, with an answer, an error or a
refusal);
strong fairness for `Begin(k)`: the queue is first in, first out, so a waiting key
is served though others come and go. In `controller_foreign` also: faults end, and
creation and update of a bucket are not refused for ever, which on Azure rests on
the Secret cache catching up. The violation runs about deletion use the same, with
the periodic resync made fair, so that they show more than a missing retry; in
`aws_stuck` the garbage collector, too, takes its finalizer off. `cluster_getter`
assumes that the kubelet restarts the process, that passes go on, that the watch on
Secrets delivers and that the resync comes round: without it an edit of the cluster
object would never be noticed.

## 4. What is proved

All theorems hold for any number of objects, any lag and any faults. `Exclusive` is
the assumption that no two objects ever name the same bucket or role, and that an
object keeps both for life.

`LoopProofs!LoopInvariance`: under `Exclusive`, `LoopSpec => [](LoopTypeOK /\ LoopInv /\
FreshInv /\ ListInv)`. `LoopSpec` is the loop over a provider of which only `ServiceMove`
is known: a service call waits, fails, ends the pass or moves it on. Every provider's
specification implements it, so both providers and the contract share this part.

`BucketControllerProofs!TypeCorrect`: type correctness, for all constants.

`ControllerSafetyProofs`, under `Exclusive`:

* `Invariance`: `Spec => []Inv`, whatever others do to the list of finalizers;
* `NeverOrphaned`: `Spec => []NoOrphans`, likewise;
* `ReadyIsProvisioned`: `Spec => []ReadyMeansProvisioned`, if `Foreign = {}`;
* `DestructionIsAuthorised`: `Spec => DestroysOnlyDeleted`, if `Foreign = {}`;
* `ListsOnlyShrink` and `GoesUnheld`: `Spec => []UnheldInv`, `Spec => VanishesUnheld`.

`LifecycleProofs!KeepsThePromise`: under `Exclusive` and `Foreign = {}`, `Spec =>
LifecycleSpec`. The state of one object maps to a phase, the set of its resources
and whether it says ready; each action is a step of `BucketLifecycle` for one
object, or none. It needs `Inv`, and that a ready object is held.

`ConvergenceProofs`, under `Exclusive` alone: `Convergence`, `Spec => []ConvergeInv`, and
`IdleIsSettled`, `Spec => []SettledWhenIdle`.

`AWSControllerProofs`, for any page size, objects and others' doings in IAM, from
`AWSAssumption` (objects are numbered, pages are not empty, the values that stand
for "none" are none of the others):

* `AWSTypeCorrect` and `RequestsBuildUp`: `Spec => []TypeOK`, `Spec => []RequestInv`;
* `ImplementsContract`: `Spec => ContractSpec`, without further assumptions;
* `ReadyIsSecured` and `DataIsForfeit`: `Spec => []ReadyMeansSecured` and `Spec =>
  DataOnlyGoesOnDeletion`, under `Exclusive` and `Foreign = {}`;
* `IdleIsSettledInCloud`: `Spec => []SettledInCloud`, under `Exclusive`.

`AzureControllerProofs`, for any alphabet, any length of account names, a late Secret cache
or not, and others who delete Secrets and take account names:

* `AzureTypeCorrect` and `AzureRequestsBuildUp`: `Spec => []TypeOK`, `Spec =>
  []RequestInv`, without further assumptions, so also where buckets share an account;
* `AzureInvariance`: `Spec => [](Base /\ AzureInv)`, under `Exclusive`; `Base` is the
  invariant of the loop with the types;
* `NoAccountIsOrphaned` and `IdleIsReachable`: `Spec => []NoOrphanAccounts` and `Spec =>
  []ReachableWhenIdle`, under `Exclusive` and `Separate`;
* `ReadyIsUsable`: `Spec => []ReadyMeansUsable`, if moreover `Foreign = {}`;
* `AzureImplementsContract`: `Spec => ContractSpec`, under `Exclusive`, `Separate` and
  `Steady`.

`ClusterGetterProofs`, for any contents of the objects and any number of edits, from
`GetterAssumption` (no reference leads outside the sets of names considered):

* `GetterTypeCorrect`: `Spec => []TypeOK`;
* `CredentialsAreCoherent`: `Spec => []Coherent`.

### The invariants and why they are needed

None of the safety properties is inductive, for each depends on how old a copy may be.
The heart of `LoopInv`, on which all of them rest, is `Pipeline`, a fact about the
versions of an object from the cached one to the API server's. Versions marked for
deletion form one unbroken run; after a marked version none follows that is held and
unmarked; and if any version is held and unmarked then the API server's object has
the finalizer. `PassInv` carries this over to the running pass: one that provisions
has the finalizer in the API server, one that deletes has nothing but marked
versions before it while the object is marked. From this a pass that destroys
works, if there is anything to destroy, on an object that is marked right now.
The proof has one lemma per action, on the pipeline first (`LoopProofs`) and on the
cloud next.

VanishesUnheld asks how the copy's list of finalizers compares with the stored one, which
the last patch overwrites. `ListInv` says that lists of marked versions only get shorter
along the pipeline, and that none is longer than the copy of a pass that deletes: the API
server refuses additions to a marked object, and a marked version never follows another
one across an unmarked. `UnheldInv` adds that a pass which has found something to delete
has a marked object until the end (by NoOrphans, and `MarkedStays`). So an empty list in
the copy means an empty list in the API server.

SettledWhenIdle speaks of states in which nothing goes on, and says nothing of how
they come about. `ConvergeInv` adds what the last pass for an object has done: a pass
is `Fresh` while no change of its object is on its way and its key does not wait
again; a fresh pass works on the API server's own version; when it is to patch the
status the bucket carries the settings of its copy; and when it is to configure the
role all the rest is in order. An object becomes quiet only when a pass takes its key
(`QuietFrom`), so the pass that leaves it idle was fresh from beginning to end; it did
not fail, for then the key would wait; and it did not delete, for then its copy, which
is the API server's, would be marked (`LastPass`). Passes over other objects touch
other names (`OthersUntouched`).

On AWS a service call is many requests. `RequestInv` says which request may be under
way at each step of a pass and what the earlier ones have established: after
PutBucketPolicy the bucket is secured, the role a call configures exists, its trust
policy and tags are those of the copy, a bucket that does not exist has no objects,
and no role carries tags that are refused (so a call that does not retag one succeeds).
With it every request is a step of the contract: the last one of a call is its return,
the others are `Progress` or invisible, because `BucketSeen` and `RoleSeen` show
settings only when all of them are in place. `Safe` in `AWSControllerProofs` is an
instance of the proof module of the contract under this mapping; the refinement gives
`Safe!Spec`, hence `Safe!Inv` and `Safe!SettledWhenIdle`, and the AWS theorems are
consequences of these and `RequestInv`.

On Azure `RequestInv` has the same role: what `CreateBucket` has made at each request
(account, container, endpoint, record), and what `DeleteBucket` has removed. The Secret
needs most: the adapter may go by an old copy of it. `KnownFree` says that a copy without
finalizer is never older than a Secret with one, so whoever reads it may delete. `FreedInv`
says when a Secret has lost its finalizer: only in a deletion, when all versions of the
Bucket are marked and no pass works on an older one; until the finalizer of the Bucket
goes nothing changes that (`MarkedStays`), and so no pass announces Ready over such a
Secret. `ReachInv` follows the last pass over an object as `ConvergeInv` does, but only
through its requests for endpoint and record. `PolicyInv` says that an account of a bucket
that never had an expirationPolicy has no management policy, which `ConfigureBucket`
could not remove. The refinement is proved request by request, as on AWS.

`GetterInv`, for the getters, says what the pass has read at each step (`ReadSoFar`)
and that the history holds what is there now (`Recorded`).

### The assumptions

`Exclusive` is needed: with two objects for one bucket TLC finds
ReadyMeansProvisioned and DestroysOnlyDeleted violated (the deletion of one takes
the bucket of the other), and an edit of the name leaves the old bucket behind.
`Foreign = {}` is needed where it is assumed: with a finalizer of others a marked
object can linger, be released and be created again while a pass from before the
deletion is still running; that pass makes the new object's bucket, and the next one,
which still reads the lingering version, deletes it.
`Separate` (no two names have the same account name) is needed on Azure since the deletion
of one of two buckets in one account takes the account of the other (finding 4); names of
at most 24 letters and digits satisfy it. `Steady` (an object whose specs have an
expirationPolicy never goes without) is needed for the refinement alone: where the policy
is dropped the contract promises settings that the adapter does not bring about (finding 3).

### Only model-checked

Liveness (EventuallyReady, DeletionCompletes, CredentialsFollow, TagsFollow), which is
beyond the prover: each needs fairness, and ENABLED. Every invariant, action property and
refinement that a passing run checks is also a theorem.

## 5. What is not modelled

* Edits of `spec.name` or `accessRole.roleName`, and objects that share them, beyond
  what section 4 says: nothing in the repository promises anything for them.
* The text of policies; key rotation and the contents of the Secret on Azure.
* `identityRef.kind`, which neither getter looks at; region and base domain, which
  are flags and never change.
* What the SDKs do with credentials that the factories accept.
* A new process that lists from a stale API server: its cache starts current.
* Health checks, metrics, logging; generated code, fakes, the chart.

## 6. Plan

1. (done) `ReconcileLoop`, `BucketController`, `BucketLifecycle`, the AWS and
   Azure modules, the runs above, `TypeCorrect` and the safety theorems.
2. (done) Cluster getters, factories and set-up; finalizers of others; tags and
   names as pure operators; account names taken by others; lists cut short.
3. (done) Proofs: `LifecycleSpec` and `SettledWhenIdle` of `BucketController`; on AWS
   the step simulation of the contract, `ReadyMeansSecured`, `SettledInCloud` and
   `DataOnlyGoesOnDeletion`.
4. (done) Proofs: the loop over any provider (`LoopInvariance`); on Azure type
   correctness, `NoOrphanAccounts`, `ReadyMeansUsable`, `ReachableWhenIdle` and the step
   simulation of the contract; `VanishesUnheld`.
5. Proofs: on Azure what the refinement carries over from the contract
   (`DestroysOnlyDeleted`, `SettledWhenIdle`, the promise of `BucketLifecycle`); the tags
   and credentials of `ClusterGetter` as safety statements about one pass.
