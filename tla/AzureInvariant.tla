--------------------------- MODULE AzureInvariant ---------------------------
(***************************************************************************)
(* What makes the properties of AzureController inductive: where a service *)
(* call stands among its requests, what the earlier ones have established, *)
(* and what a Secret without finalizer says of its Bucket.                 *)
(***************************************************************************)
EXTENDS AzureController, LoopInvariant

\* No two buckets share an account, which the code presumes (finding 4).
Separate == \A n, m \in Names : AccountOf[n] = AccountOf[m] => n = m

\* No owner ever drops an expirationPolicy (finding 3).
Steady ==
    \A k \in Keys : \A s, t \in Allowed[k] :
        s.expiration = NoExpiration => t.expiration = NoExpiration

TheAccount   == accounts[Account]
TheContainer == containers[Name]

-----------------------------------------------------------------------------
\* The requests a step of the pass may be making.
RequestsOf(step) ==
    CASE step \in {"exists", "existsDelete"} ->
           {"CheckNameAvailability", "GetContainer"}
      [] step \in {"create", "update"} ->
           {"GetUserValues", "CreateAccount", "UpsertContainer", "PutEndpoint",
            "PutRecord", "ListKeys", "GetSecret"}
      [] step = "configure" -> {"PutManagementPolicy"}
      [] step = "deleteBucket" ->
           {"DeleteAccount", "GetSecret", "PatchSecret", "DeleteSecret"}
      [] OTHER -> {"none"}

CallInv ==
    /\ call \in RequestsOf(pc)
    /\ pc \in {"role", "deleteRole"} => obj.spec.role # NoRole

\* How far CreateBucket has come.
Creating      == pc \in {"create", "update"}
Created       == pc \in {"configure", "status"}
EndpointMade  == Creating /\ call \in {"PutRecord", "ListKeys", "GetSecret"}
RecordMade    == Creating /\ call \in {"ListKeys", "GetSecret"}
ContainerMade == Created \/ EndpointMade \/ (Creating /\ call = "PutEndpoint")
AccountMade   == ContainerMade \/ (Creating /\ call = "UpsertContainer")

\* The requests of CreateBucket build on one another.
Contained == \A n \in Names : containers[n].exists => accounts[AccountOf[n]].exists
BuiltInv ==
    /\ Contained
    /\ pc = "create" /\ ~ContainerMade => ~TheContainer.exists
    /\ pc = "update" => TheContainer.exists
    /\ AccountMade => TheAccount.exists /\ TheAccount.tags = obj.spec.tags
    /\ ContainerMade => TheContainer.exists /\ TheContainer.tags = obj.spec.tags

\* An account that is closed gets its private endpoint and its A record.
Reachable(n) ==
    accounts[AccountOf[n]].closed => n \in endpoints /\ AccountOf[n] \in records
NetworkInv ==
    /\ Creating /\ AccountMade => (TheAccount.closed <=> local = "private")
    /\ EndpointMade /\ local = "private" => Name \in endpoints
    /\ RecordMade /\ local = "private" => Account \in records
    /\ Created => Reachable(Name)

\* DeleteBucket leaves neither the account nor the Secret behind.  It may go by
\* an old copy of the Secret without finalizer: then there is no newer one.
Unheld(n) == secrets[n] \in {"free", "none"}
KnownFree == \A n \in Names : known[n] = "free" => Unheld(n)
DeletedInv ==
    /\ pc = "deleteBucket" /\ call # "DeleteAccount" => ~TheAccount.exists
    /\ pc \in {"deleteRole", "release"} =>
          ~TheAccount.exists /\ secrets[Name] = "none"
    /\ KnownFree
    /\ call = "DeleteSecret" \/ (call = "PatchSecret" /\ local = "free") =>
          Unheld(Name)

RequestInv == CallInv /\ BuiltInv /\ NetworkInv /\ DeletedInv

-----------------------------------------------------------------------------
\* A Secret has lost its finalizer only in a deletion that will not be followed
\* by a pass that uses the Secret: all versions of the Bucket are marked.
FreedInv ==
    \A k \in Keys : \A s \in Allowed[k] : secrets[s.name] = "free" =>
        /\ All(Marked, cache[k], events[k])
        /\ req = k => Deleting

\* The container and the Secret of a bucket that is ready, or about to be.
Usable(n) == containers[n].exists /\ secrets[n] \in {"held", "marked"}
UsableInv ==
    /\ FreedInv
    /\ Created => Usable(Name)
    /\ \A k \in Keys : Live(k) /\ api[k].status.ready => Usable(api[k].status.id)

ReachInv == ReachableWhenIdle /\ (pc = "role" => Reachable(Name))

\* The management policy is none where no expirationPolicy ever was.
PolicyInv ==
    \A k \in Keys : \A s \in Allowed[k] : s.expiration = NoExpiration =>
        accounts[AccountOf[s.name]].policy = NoExpiration

\* The inductive invariant, where no two objects name the same bucket.
AzureInv ==
    /\ RequestInv
    /\ Separate => /\ NoOrphanAccounts /\ ReachInv
                   /\ Foreign = {} => UsableInv
                   /\ Steady => PolicyInv
=============================================================================
