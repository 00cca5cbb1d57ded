--------------------------- MODULE AWSController ---------------------------
(***************************************************************************)
(* The reconciler over AWS: each S3 and IAM request that the adapters in   *)
(* internal/pkg/service/objectstorage/cloud/aws make is a step of its own, *)
(* between which the process may crash, users and applications act, and    *)
(* others administer IAM.  Shown to implement BucketController.            *)
(***************************************************************************)
EXTENDS ReconcileLoop, FiniteSets

CONSTANTS
    NoExpiration,  \* the absent expirationPolicy: no lifecycle rules
    NoTags,        \* a resource that carries no tags yet
    NoPolicy,      \* a role without trust policy or inline policy
    Nothing,       \* settings that are no spec's, for the contract
    RefusedTags,   \* tags that name a key of the cluster's tags again, or twice
    Objects,       \* bound: the objects applications write, each at most once
    PageSize       \* bound: how many objects ListObjectsV2 returns at once

ASSUME AWSAssumption ==
    /\ Objects \subseteq Nat \ {0}
    /\ PageSize \in Nat \ {0}
    /\ NoExpiration \in Expirations
    /\ NoTags \notin TagSets
    /\ RefusedTags \subseteq TagSets
    /\ NoPolicy \notin [bucket : Names, access : Accesses]
    /\ Nothing \notin [expiration : Expirations, tags : TagSets]
                    \cup [bucket : Names, access : Accesses, tags : TagSets]

VARIABLES
    s3,       \* s3[n]: the S3 bucket n
    iam,      \* iam[r]: the IAM role r and what hangs on it
    written,  \* the objects written so far
    call,     \* the request the running service call makes next
    scan      \* where DeleteBucket is in its listing of the bucket

cloudVars == <<s3, iam>>
vars == <<loopVars, s3, iam, written, call, scan>>

NoBucket == [exists |-> FALSE, lifecycle |-> NoExpiration, secured |-> FALSE,
             tags |-> NoTags, objects |-> {}]

\* trust and inline hold what the templates are filled in with; attached is a
\* managed policy and profile an instance profile, which only others add.
NoIAMRole == [exists |-> FALSE, trust |-> NoPolicy, inline |-> NoPolicy,
              tags |-> NoTags, attached |-> FALSE, profile |-> "none"]

NoScan == [page |-> {}, token |-> 0]

Init ==
    /\ LoopInit
    /\ s3 = [n \in Names |-> NoBucket]
    /\ iam = [r \in Roles |-> NoIAMRole]
    /\ written = {}
    /\ call = "none"
    /\ scan = NoScan

-----------------------------------------------------------------------------
(* Requests, and how a service call goes on.                               *)

\* The first request of the service call that a step of the pass makes.
Entry(step) ==
    CASE step \in {"exists", "existsDelete"} -> "HeadBucket"
      [] step = "create"       -> "CreateBucket"
      [] step = "configure"    -> "PutBucketLifecycle"
      [] step = "deleteBucket" -> "ListObjects"
      [] step \in {"role", "deleteRole"} -> "GetRole"
      [] OTHER -> "none"

Ask(request)  == call' = request /\ UNCHANGED workerVars
Return(step)  == Goto(step) /\ call' = Entry(step) /\ UNCHANGED obj
ReturnError   == Retry /\ call' = "none"
RequestFails  == faulty /\ ReturnError

TheBucket == s3[obj.spec.name]
TheRole   == iam[obj.spec.role]
SetBucket(b) == s3' = [s3 EXCEPT ![obj.spec.name] = b] /\ UNCHANGED iam
SetRole(r)   == iam' = [iam EXCEPT ![obj.spec.role] = r] /\ UNCHANGED s3

\* A request that turns the bucket into b, or the role into r: done, done but
\* the answer is lost, or not done.
S3Request(b, then) ==
    \/ SetBucket(b) /\ then
    \/ (SetBucket(b) \/ UNCHANGED cloudVars) /\ RequestFails
IAMRequest(r, then) ==
    \/ SetRole(r) /\ then
    \/ (SetRole(r) \/ UNCHANGED cloudVars) /\ RequestFails

\* setTags and ConfigureRole append the cluster's tags to the spec's.  AWS takes
\* no list with a key twice: a request that carries one has no effect.
Tagging(request) ==
    IF obj.spec.tags \in RefusedTags THEN ReturnError /\ UNCHANGED cloudVars
                                     ELSE request

-----------------------------------------------------------------------------
(* The S3 adapter.                                                         *)

HeadBucket ==
    /\ call = "HeadBucket"
    /\ \/ pc = "exists" /\ Return(IF TheBucket.exists THEN "update" ELSE "create")
       \/ pc = "exists" /\ RequestFails
       \/ /\ pc = "existsDelete"
          /\ IF TheBucket.exists /\ obj.spec.reclaim = "Delete"
             THEN Return("deleteBucket")
             ELSE Finish /\ call' = "none"
       \/ pc = "existsDelete" /\ faulty /\ Finish /\ call' = "none"
    /\ UNCHANGED <<cloudVars, scan>>

CreateBucket ==
    /\ call = "CreateBucket"
    /\ S3Request([NoBucket EXCEPT !.exists = TRUE], Return("configure"))
    /\ UNCHANGED scan

\* Mutant of UpdateBucket: the bucket is replaced by a new one.
ReplaceBucket ==
    /\ pc = "update"
    /\ SetBucket([TheBucket EXCEPT !.objects = {}])
    /\ Return("configure")
    /\ UNCHANGED scan

\* There is nothing to update in an S3 bucket.
UpdateBucket == pc = "update" /\ Return("configure") /\ UNCHANGED <<cloudVars, scan>>

\* Mutant of SetLifecycleRules: the bucket policy is not set.
SkipBucketPolicy ==
    /\ call = "PutBucketLifecycle"
    /\ S3Request([TheBucket EXCEPT !.lifecycle = obj.spec.expiration],
                 Ask("PutBucketTagging"))
    /\ UNCHANGED scan

\* ConfigureBucket: lifecycle rules (or their removal), policy, tags.
SetLifecycleRules ==
    /\ call = "PutBucketLifecycle"
    /\ S3Request([TheBucket EXCEPT !.lifecycle = obj.spec.expiration],
                 Ask("PutBucketPolicy"))
    /\ UNCHANGED scan

SetBucketPolicy ==
    /\ call = "PutBucketPolicy"
    /\ S3Request([TheBucket EXCEPT !.secured = TRUE], Ask("PutBucketTagging"))
    /\ UNCHANGED scan

SetTags ==
    /\ call = "PutBucketTagging"
    /\ Tagging(S3Request([TheBucket EXCEPT !.tags = obj.spec.tags],
                         Return("status")))
    /\ UNCHANGED scan

\* DeleteBucket empties the bucket page by page; objects come in the order of
\* their keys, and those written behind the listing are missed.
ListObjects ==
    /\ call = "ListObjects"
    /\ LET rest == {o \in TheBucket.objects : o > scan.token}
           page == {o \in rest : Cardinality({p \in rest : p < o}) < PageSize}
       IN \/ /\ scan' = [page |-> page,
                         token |-> IF page = rest THEN 0
                                   ELSE CHOOSE o \in page : \A p \in page : p <= o]
             /\ Ask(IF page = {} THEN "DeleteBucket" ELSE "DeleteObjects")
          \/ RequestFails /\ scan' = NoScan
    /\ UNCHANGED cloudVars

\* The answer may list objects that could not be deleted; nobody reads it.
DeleteObjects ==
    /\ call = "DeleteObjects"
    /\ \E left \in SUBSET scan.page :
          /\ left = {} \/ faulty
          /\ SetBucket([TheBucket EXCEPT !.objects = (@ \ scan.page) \cup (@ \cap left)])
    /\ \/ /\ Ask(IF scan.token = 0 THEN "DeleteBucket" ELSE "ListObjects")
          /\ scan' = [scan EXCEPT !.page = {}]
       \/ RequestFails /\ scan' = NoScan

\* S3 deletes only an empty bucket.
DeleteBucket ==
    /\ call = "DeleteBucket"
    /\ IF TheBucket.objects = {}
       THEN S3Request(NoBucket, Return(IF obj.spec.role = NoRole THEN "release"
                                                                ELSE "deleteRole"))
       ELSE ReturnError /\ UNCHANGED cloudVars
    /\ scan' = NoScan

-----------------------------------------------------------------------------
(* The IAM adapter.                                                        *)

\* ConfigureRole and DeleteRole look the role up; none to delete is success.
GetRole ==
    /\ call = "GetRole"
    /\ \/ pc = "role" /\ Ask(IF TheRole.exists THEN "UpdateAssumeRolePolicy"
                                             ELSE "CreateRole")
       \/ pc = "deleteRole" /\ TheRole.exists /\ Ask("ListAttachedRolePolicies")
       \/ pc = "deleteRole" /\ ~TheRole.exists /\ Return("release")
       \/ RequestFails
    /\ UNCHANGED cloudVars

CreateRole ==
    /\ call = "CreateRole"
    /\ Tagging(IAMRequest([NoIAMRole EXCEPT !.exists = TRUE,
                                            !.trust = obj.spec.access,
                                            !.tags = obj.spec.tags],
                          Ask("PutRolePolicy")))

\* The tags are compared as lists, and those of the cluster come in the random
\* order of a Go map: equal sets may compare different, and are set again.
UpdateAssumeRolePolicy ==
    /\ call = "UpdateAssumeRolePolicy"
    /\ \E request \in {"UntagRole"} \cup
                      (IF TheRole.tags = obj.spec.tags THEN {"PutRolePolicy"} ELSE {}) :
          IAMRequest([TheRole EXCEPT !.trust = obj.spec.access], Ask(request))

\* Mutant of UntagRole: the new tags are not put on.
UntagOnly ==
    /\ call = "UntagRole"
    /\ IAMRequest([TheRole EXCEPT !.tags = NoTags], Ask("PutRolePolicy"))

UntagRole ==
    /\ call = "UntagRole"
    /\ IAMRequest([TheRole EXCEPT !.tags = NoTags], Ask("TagRole"))

TagRole ==
    /\ call = "TagRole"
    /\ Tagging(IAMRequest([TheRole EXCEPT !.tags = obj.spec.tags],
                          Ask("PutRolePolicy")))

PutRolePolicy ==
    /\ call = "PutRolePolicy"
    /\ IAMRequest([TheRole EXCEPT !.inline = [bucket |-> obj.spec.name,
                                            access |-> obj.spec.access]],
                  Finish /\ call' = "none")

\* cleanAttachedPolicies: what was listed is detached.  What was put on the
\* role since is not, nor what IAM left for a further page of the list.
ListAttachedRolePolicies ==
    /\ call = "ListAttachedRolePolicies"
    /\ \/ Ask(IF TheRole.attached THEN "DetachRolePolicy" ELSE "ListRolePolicies")
       \/ faulty /\ Ask("ListRolePolicies")
       \/ RequestFails
    /\ UNCHANGED cloudVars

DetachRolePolicy ==
    /\ call = "DetachRolePolicy"
    /\ IAMRequest([TheRole EXCEPT !.attached = FALSE], Ask("ListRolePolicies"))

\* Mutant of ListRolePolicies: inline policies are left on the role.
SkipInlinePolicies ==
    /\ call = "ListRolePolicies"
    /\ Ask("RemoveRoleFromInstanceProfile")
    /\ UNCHANGED cloudVars

ListRolePolicies ==
    /\ call = "ListRolePolicies"
    /\ \/ Ask(IF TheRole.inline = NoPolicy THEN "RemoveRoleFromInstanceProfile"
                                         ELSE "DeleteRolePolicy")
       \/ faulty /\ Ask("RemoveRoleFromInstanceProfile")
       \/ RequestFails
    /\ UNCHANGED cloudVars

DeleteRolePolicy ==
    /\ call = "DeleteRolePolicy"
    /\ IAMRequest([TheRole EXCEPT !.inline = NoPolicy],
                  Ask("RemoveRoleFromInstanceProfile"))

\* A missing profile is no error here and in the next request, and an error
\* that is not the service's answer (a broken connection) is not looked at.
RemoveRoleFromInstanceProfile ==
    /\ call = "RemoveRoleFromInstanceProfile"
    /\ LET out == [TheRole EXCEPT !.profile = IF @ = "member" THEN "empty" ELSE @] IN
       \/ IAMRequest(out, Ask("DeleteInstanceProfile"))
       \/ faulty /\ UNCHANGED cloudVars /\ Ask("DeleteInstanceProfile")

\* IAM deletes a profile only when no role is in it.
DeleteInstanceProfile ==
    /\ call = "DeleteInstanceProfile"
    /\ \/ TheRole.profile # "member" /\
          IAMRequest([TheRole EXCEPT !.profile = "none"], Ask("DeleteRole"))
       \/ TheRole.profile = "member" /\ ReturnError /\ UNCHANGED cloudVars
       \/ faulty /\ UNCHANGED cloudVars /\ Ask("DeleteRole")

\* IAM deletes a role only when nothing hangs on it.
DeleteRole ==
    /\ call = "DeleteRole"
    /\ IF TheRole.attached \/ TheRole.inline # NoPolicy \/ TheRole.profile = "member"
       THEN ReturnError /\ UNCHANGED cloudVars
       ELSE IAMRequest([NoIAMRole EXCEPT !.profile = TheRole.profile],
                       Return("release"))

-----------------------------------------------------------------------------
Request ==
    /\ \/ HeadBucket \/ CreateBucket \/ UpdateBucket
       \/ SetLifecycleRules \/ SetBucketPolicy \/ SetTags
       \/ ListObjects \/ DeleteObjects \/ DeleteBucket
       \/ /\ \/ GetRole \/ CreateRole \/ UpdateAssumeRolePolicy \/ UntagRole
             \/ TagRole \/ PutRolePolicy \/ ListAttachedRolePolicies
             \/ DetachRolePolicy \/ ListRolePolicies \/ DeleteRolePolicy
             \/ RemoveRoleFromInstanceProfile \/ DeleteInstanceProfile
             \/ DeleteRole
          /\ UNCHANGED scan
    /\ UNCHANGED <<clusterVars, faulty, written>>

\* Steps of the loop: a pass that moves on or dies leaves its request behind.
LoopStep(A) ==
    /\ A
    /\ call' = IF pc' = pc THEN call ELSE Entry(pc')
    /\ scan' = IF pc' = pc THEN scan ELSE NoScan
    /\ UNCHANGED <<cloudVars, written>>

\* An application writes a new object to a bucket.
AppWrite(n, o) ==
    /\ s3[n].exists
    /\ o \notin written
    /\ s3' = [s3 EXCEPT ![n].objects = @ \cup {o}]
    /\ written' = written \cup {o}
    /\ UNCHANGED <<loopVars, iam, call, scan>>

\* Somebody else attaches a policy to a role, or puts it in a profile.
Meddle(r) ==
    /\ faulty
    /\ iam[r].exists
    /\ \/ iam' = [iam EXCEPT ![r].attached = TRUE]
       \/ iam' = [iam EXCEPT ![r].profile = "member"]
    /\ UNCHANGED <<loopVars, s3, written, call, scan>>

Others ==
    \/ \E k \in Keys : OthersAct(k) \/ Resync(k)
    \/ Crash
    \/ Stabilize

Next ==
    \/ LoopStep(Others)
    \/ \E k \in Keys : LoopStep(Watch(k))
    \/ \E k \in Keys : LoopStep(Begin(k))
    \/ LoopStep(ControllerStep)
    \/ Request
    \/ \E n \in Names, o \in Objects : AppWrite(n, o)
    \/ \E r \in Roles : Meddle(r)

Spec == Init /\ [][Next]_vars

FairSpec ==
    /\ Spec
    /\ \A k \in Keys : WF_vars(LoopStep(Watch(k))) /\ SF_vars(LoopStep(Begin(k)))
    /\ WF_vars(LoopStep(ControllerStep))
    /\ WF_vars(Request)

\* The same with the informer's periodic resync (every ten hours), and when
\* others, such as the garbage collector, take their finalizers off.
ResyncSpec ==
    /\ FairSpec
    /\ \A k \in Keys : WF_vars(LoopStep(Resync(k))) /\ WF_vars(LoopStep(Release(k)))

-----------------------------------------------------------------------------
(* Properties.                                                             *)

TypeOK ==
    /\ LoopTypeOK
    /\ s3 \in [Names -> [exists : BOOLEAN, lifecycle : Expirations,
                         secured : BOOLEAN, tags : TagSets \cup {NoTags},
                         objects : SUBSET Objects]]
    /\ iam \in [Roles -> [exists : BOOLEAN, trust : Accesses \cup {NoPolicy},
                          inline : [bucket : Names, access : Accesses] \cup {NoPolicy},
                          tags : TagSets \cup {NoTags}, attached : BOOLEAN,
                          profile : {"none", "empty", "member"}]]
    /\ written \subseteq Objects
    /\ scan \in [page : SUBSET Objects, token : Objects \cup {0}]
    /\ call = "none" <=> Entry(pc) = "none"

\* A bucket announced as ready refuses unencrypted access, and keeps doing so
\* through every later pass until its deletion is requested.
ReadyMeansSecured ==
    \A k \in Keys : Live(k) /\ api[k].status.ready => s3[api[k].status.id].secured

\* DeleteBucket empties a bucket object by object, long before it deletes it:
\* data goes only while the API server's own object is marked for deletion and
\* asked for it, even when the pass works on an old copy.
Forfeit(k) ==
    /\ Exists(k)
    /\ api[k].deleting
    /\ \E s \in Allowed[k] : s.reclaim = "Delete"
DataOnlyGoesOnDeletion ==
    [][\A n \in Names : ~(s3[n].objects \subseteq s3'[n].objects) =>
          \E k \in Keys : Forfeit(k) /\ api[k].spec.name = n]_vars

\* When nothing is left to do for a live Bucket, S3 and IAM hold what its current
\* spec says, whichever requests of however many passes failed on the way: the
\* settings are put in place by seven requests to two services.
SettledInCloud ==
    \A k \in Keys : Live(k) /\ Idle(k) =>
        LET s == api[k].spec
            b == s3[s.name]
            r == iam[s.role] IN
        /\ b.exists /\ b.secured /\ b.lifecycle = s.expiration /\ b.tags = s.tags
        /\ s.role # NoRole =>
              /\ r.exists /\ r.trust = s.access /\ r.tags = s.tags
              /\ r.inline = [bucket |-> s.name, access |-> s.access]

\* The cloud as the contract sees it.  A bucket or role carries the settings of
\* a spec only when the requests of a whole call have put them there.
BucketSeen(b) ==
    [exists |-> b.exists,
     carries |-> IF b.secured /\ b.tags # NoTags
                 THEN [expiration |-> b.lifecycle, tags |-> b.tags]
                 ELSE Nothing]
RoleSeen(r) ==
    [exists |-> r.exists,
     carries |-> IF /\ r.inline # NoPolicy /\ r.tags # NoTags
                    /\ r.inline.access = r.trust
                 THEN [bucket |-> r.inline.bucket, access |-> r.trust, tags |-> r.tags]
                 ELSE Nothing]
StoreOf == [n \in Names |-> BucketSeen(s3[n])]
RolesOf == [r \in Roles |-> RoleSeen(iam[r])]

\* The requests of the adapters implement the contract of the services, and
\* so the reconciler over AWS implements BucketController.
Contract == INSTANCE BucketController WITH
    HasRoles <- TRUE, store <- StoreOf, roles <- RolesOf
ContractSpec == Contract!Spec
=============================================================================
