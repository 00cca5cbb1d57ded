-------------------------- MODULE BucketLifecycle --------------------------
(***************************************************************************)
(* What the operator promises the owner of a Bucket object, without cache, *)
(* queue, passes or failures: cloud resources come into being only while   *)
(* the object is held by the finalizer, go only after its deletion was     *)
(* requested, and the object goes only when they are gone.                 *)
(***************************************************************************)
CONSTANT Keys

Resources == {"bucket", "role"}

VARIABLES
    phase,      \* phase[k]: "none", "requested", "held" or "deleting"
    resources,  \* resources[k]: the cloud resources of k that exist
    ready       \* ready[k]: the status of k says that the bucket is ready

vars == <<phase, resources, ready>>

Init ==
    /\ phase = [k \in Keys |-> "none"]
    /\ resources = [k \in Keys |-> {}]
    /\ ready = [k \in Keys |-> FALSE]

Move(k, from, to) ==
    /\ phase[k] = from
    /\ phase' = [phase EXCEPT ![k] = to]

\* The user asks for a bucket, the operator puts its finalizer on the
\* object, and the user asks for the object's deletion, before or after that.
Request(k)  == Move(k, "none", "requested") /\ UNCHANGED <<resources, ready>>
Hold(k)     == Move(k, "requested", "held") /\ UNCHANGED <<resources, ready>>
Withdraw(k) == Move(k, "requested", "none") /\ UNCHANGED <<resources, ready>>
Mark(k)     == Move(k, "held", "deleting") /\ UNCHANGED <<resources, ready>>

\* A pass that started before the deletion was requested may still provision.
Provision(k, x) ==
    /\ phase[k] \in {"held", "deleting"}
    /\ resources' = [resources EXCEPT ![k] = @ \cup {x}]
    /\ UNCHANGED <<phase, ready>>

Announce(k) ==
    /\ phase[k] \in {"held", "deleting"}
    /\ "bucket" \in resources[k]
    /\ ready' = [ready EXCEPT ![k] = TRUE]
    /\ UNCHANGED <<phase, resources>>

\* The bucket goes first.
Destroy(k, x) ==
    /\ phase[k] = "deleting"
    /\ x = "role" => "bucket" \notin resources[k]
    /\ resources' = [resources EXCEPT ![k] = @ \ {x}]
    /\ UNCHANGED <<phase, ready>>

Release(k) ==
    /\ Move(k, "deleting", "none")
    /\ resources[k] = {}
    /\ ready' = [ready EXCEPT ![k] = FALSE]
    /\ UNCHANGED resources

Next == \E k \in Keys :
    \/ Request(k) \/ Hold(k) \/ Withdraw(k) \/ Mark(k)
    \/ \E x \in Resources : Provision(k, x) \/ Destroy(k, x)
    \/ Announce(k) \/ Release(k)

Spec == Init /\ [][Next]_vars
=============================================================================
