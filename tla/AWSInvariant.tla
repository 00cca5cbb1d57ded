--------------------------- MODULE AWSInvariant ---------------------------
(***************************************************************************)
(* What makes the refinement of the contract by AWSController, and its     *)
(* safety properties, inductive: where a service call stands among its     *)
(* requests, and what the earlier ones have established.                   *)
(***************************************************************************)
EXTENDS AWSController

ConfigureRequests == {"PutBucketLifecycle", "PutBucketPolicy", "PutBucketTagging"}
EmptyingRequests  == {"ListObjects", "DeleteObjects", "DeleteBucket"}
RoleRequests      == {"UpdateAssumeRolePolicy", "UntagRole", "TagRole",
                      "PutRolePolicy"}
UnhookRequests    == {"ListAttachedRolePolicies", "DetachRolePolicy",
                      "ListRolePolicies", "DeleteRolePolicy",
                      "RemoveRoleFromInstanceProfile", "DeleteInstanceProfile",
                      "DeleteRole"}

\* The requests a step of the pass may be making.
RequestsOf(step) ==
    CASE step \in {"exists", "existsDelete"} -> {"HeadBucket"}
      [] step = "create"       -> {"CreateBucket"}
      [] step = "configure"    -> ConfigureRequests
      [] step = "deleteBucket" -> EmptyingRequests
      [] step = "role"         -> {"GetRole", "CreateRole"} \cup RoleRequests
      [] step = "deleteRole"   -> {"GetRole"} \cup UnhookRequests
      [] OTHER -> {"none"}

CallInv ==
    /\ call \in RequestsOf(pc)
    /\ pc \in {"role", "deleteRole"} => obj.spec.role # NoRole

\* The requests of ConfigureBucket build on one another.
BucketInv ==
    /\ pc \in {"update", "configure", "status"} => TheBucket.exists
    /\ pc = "create" => ~TheBucket.exists
    /\ call \in {"PutBucketPolicy", "PutBucketTagging"} =>
          TheBucket.lifecycle = obj.spec.expiration
    /\ call = "PutBucketTagging" \/ pc = "status" => TheBucket.secured
    /\ \A n \in Names : ~s3[n].exists => s3[n].objects = {}

\* So do those of ConfigureRole and DeleteRole; no role carries refused tags.
RoleInv ==
    /\ call \in RoleRequests \cup UnhookRequests => TheRole.exists
    /\ call \in {"UntagRole", "TagRole", "PutRolePolicy"} =>
          TheRole.trust = obj.spec.access
    /\ call = "PutRolePolicy" => TheRole.tags = obj.spec.tags
    /\ \A r \in Roles : ~iam[r].exists => iam[r].inline = NoPolicy
    /\ \A r \in Roles : iam[r].tags \notin RefusedTags

\* The inductive invariant behind the refinement.
RequestInv == CallInv /\ BucketInv /\ RoleInv
=============================================================================
