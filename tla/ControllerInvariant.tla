------------------------ MODULE ControllerInvariant ------------------------
(***************************************************************************)
(* The strengthening that makes the safety properties of BucketController  *)
(* inductive: the invariant of the loop, and the cloud around it.          *)
(***************************************************************************)
EXTENDS BucketController, LoopInvariant

\* What the cloud is like while a pass runs.
CloudInv ==
    /\ pc \in {"update", "configure", "status"} => store[obj.spec.name].exists
    /\ pc \in {"deleteBucket", "deleteRole", "release"} =>
          obj.spec.reclaim = "Delete"
    /\ pc \in {"deleteRole", "release"} => ~store[obj.spec.name].exists
    /\ pc = "release" /\ obj.spec.role # NoRole => ~roles[obj.spec.role].exists

\* The inductive invariant behind NoOrphans and, where nobody else puts a
\* finalizer on a Bucket, ReadyMeansProvisioned and DestroysOnlyDeleted.
Inv == LoopInv /\ CloudInv /\ NoOrphans /\ (Foreign = {} => ReadyMeansProvisioned)
-----------------------------------------------------------------------------
\* The object k and its resources are as the current spec says, but for the role.
BucketSettled(k) ==
    /\ api[k].fin
    /\ api[k].status = [id |-> api[k].spec.name, ready |-> TRUE]
    /\ store[api[k].spec.name] = Carrying(StoreSettingsOf(api[k].spec))

\* The inductive invariant behind SettledWhenIdle.  A pass that may be the last
\* one for its object works on the API server's own version of it, and by its
\* last steps has brought the bucket, the finalizer and the status in line.
ConvergeInv ==
    /\ SettledWhenIdle
    /\ FreshInv
    /\ pc = "status" => store[obj.spec.name] = Carrying(StoreSettingsOf(obj.spec))
    /\ pc = "role" /\ Fresh => BucketSettled(req)
-----------------------------------------------------------------------------
\* The inductive invariant behind VanishesUnheld: while an object is being deleted
\* nobody adds a finalizer, and a pass that has found something to delete works on
\* a marked object, whose list is no longer than that of the copy.
UnheldInv ==
    /\ ListInv
    /\ pc \in {"deleteBucket", "deleteRole", "release"} /\ obj.fin => Marked(api[req])
=============================================================================
