-------------------------- MODULE LifecycleProofs --------------------------
(***************************************************************************)
(* BucketController implements BucketLifecycle: the initial states map to  *)
(* its initial state and every step to one of its actions or to none.      *)
(***************************************************************************)
EXTENDS ControllerSafetyProofs

\* The status of k says that the bucket is ready, the third abstract variable.
Announced(k) == Exists(k) /\ api[k].status.ready

\* The abstract state of k stays as it is.
PhaseSame(k) == Phase(k)' = Phase(k)
OwnedSame(k) == Owned(k)' = Owned(k)
ReadySame(k) == Announced(k)' = Announced(k)
Same(k)      == PhaseSame(k) /\ OwnedSame(k) /\ ReadySame(k)

\* What happens to one key alone, said of that key.
AbstractStep(k) ==
    \/ OwnedSame(k) /\ ReadySame(k) /\
       \/ Phase(k) = "none" /\ Phase(k)' = "requested"
       \/ Phase(k) = "requested" /\ Phase(k)' \in {"held", "none"}
       \/ Phase(k) = "held" /\ Phase(k)' = "deleting"
    \/ /\ PhaseSame(k) /\ ReadySame(k)
       /\ Phase(k) \in {"held", "deleting"}
       /\ \E x \in {"bucket", "role"} : Owned(k)' = Owned(k) \cup {x}
    \/ /\ PhaseSame(k) /\ ReadySame(k)
       /\ Phase(k) = "deleting"
       /\ \E x \in {"bucket", "role"} :
             /\ x = "role" => "bucket" \notin Owned(k)
             /\ Owned(k)' = Owned(k) \ {x}
    \/ /\ PhaseSame(k) /\ OwnedSame(k)
       /\ Phase(k) \in {"held", "deleting"} /\ "bucket" \in Owned(k)
       /\ Announced(k)'
    \/ /\ Phase(k) = "deleting" /\ Phase(k)' = "none"
       /\ OwnedSame(k) /\ Owned(k) = {} /\ ~Announced(k)'

\* Nothing happens to any key: a stuttering step of the abstract state.
LEMMA LiftSame ==
  ASSUME \A l \in Keys : Same(l)
  PROVE  UNCHANGED Lifecycle!vars
<1>1. [l \in Keys |-> Phase(l)]' = [l \in Keys |-> Phase(l)]
  BY DEF Same, PhaseSame
<1>2. [l \in Keys |-> Owned(l)]' = [l \in Keys |-> Owned(l)]
  BY DEF Same, OwnedSame
<1>3. [l \in Keys |-> Exists(l) /\ api[l].status.ready]'
         = [l \in Keys |-> Exists(l) /\ api[l].status.ready]
  BY DEF Same, ReadySame, Announced
<1> QED
  BY <1>1, <1>2, <1>3 DEF Lifecycle!vars

\* What happens to one key alone is an action of BucketLifecycle.
LEMMA LiftOne ==
  ASSUME NEW k \in Keys, \A l \in Keys : l # k => Same(l), AbstractStep(k)
  PROVE  Lifecycle!Next
<1> DEFINE P == [l \in Keys |-> Phase(l)]
           O == [l \in Keys |-> Owned(l)]
           R == [l \in Keys |-> Exists(l) /\ api[l].status.ready]
<1>1. P' = [P EXCEPT ![k] = Phase(k)']
  BY DEF Same, PhaseSame
<1>2. O' = [O EXCEPT ![k] = Owned(k)']
  BY DEF Same, OwnedSame
<1>3. R' = [R EXCEPT ![k] = Announced(k)']
  BY DEF Same, ReadySame, Announced
<1>4. P[k] = Phase(k) /\ O[k] = Owned(k) /\ R[k] = Announced(k)
  BY DEF Announced
<1>5. /\ PhaseSame(k) => P' = P
      /\ OwnedSame(k) => O' = O
      /\ ReadySame(k) => R' = R
  BY <1>1, <1>2, <1>3, <1>4 DEF PhaseSame, OwnedSame, ReadySame
<1>6. CASE /\ OwnedSame(k) /\ ReadySame(k)
           /\ \/ Phase(k) = "none" /\ Phase(k)' = "requested"
              \/ Phase(k) = "requested" /\ Phase(k)' \in {"held", "none"}
              \/ Phase(k) = "held" /\ Phase(k)' = "deleting"
  <2> HIDE DEF P, O, R
  <2>1. \/ P[k] = "none" /\ P' = [P EXCEPT ![k] = "requested"]
        \/ P[k] = "requested" /\ P' = [P EXCEPT ![k] = "held"]
        \/ P[k] = "requested" /\ P' = [P EXCEPT ![k] = "none"]
        \/ P[k] = "held" /\ P' = [P EXCEPT ![k] = "deleting"]
    BY <1>1, <1>4, <1>6
  <2>2. O' = O /\ R' = R
    BY <1>5, <1>6
  <2>3. \/ Lifecycle!Request(k) \/ Lifecycle!Hold(k)
        \/ Lifecycle!Withdraw(k) \/ Lifecycle!Mark(k)
    BY <2>1, <2>2 DEF P, O, R, Lifecycle!Request, Lifecycle!Hold,
       Lifecycle!Withdraw, Lifecycle!Mark, Lifecycle!Move
  <2> QED
    BY <2>3 DEF Lifecycle!Next
<1>7. ASSUME PhaseSame(k), ReadySame(k), Phase(k) \in {"held", "deleting"},
             NEW x \in {"bucket", "role"}, Owned(k)' = Owned(k) \cup {x}
      PROVE  Lifecycle!Next
  <2>1. O' = [O EXCEPT ![k] = O[k] \cup {x}] /\ P' = P /\ R' = R
    BY <1>2, <1>4, <1>5, <1>7
  <2>2. Lifecycle!Provision(k, x)
    BY <1>4, <1>7, <2>1 DEF Lifecycle!Provision
  <2> QED
    BY <2>2 DEF Lifecycle!Next, Lifecycle!Resources
<1>8. ASSUME PhaseSame(k), ReadySame(k), Phase(k) = "deleting",
             NEW x \in {"bucket", "role"}, x = "role" => "bucket" \notin Owned(k),
             Owned(k)' = Owned(k) \ {x}
      PROVE  Lifecycle!Next
  <2>1. O' = [O EXCEPT ![k] = O[k] \ {x}] /\ P' = P /\ R' = R
    BY <1>2, <1>4, <1>5, <1>8
  <2>2. Lifecycle!Destroy(k, x)
    BY <1>4, <1>8, <2>1 DEF Lifecycle!Destroy
  <2> QED
    BY <2>2 DEF Lifecycle!Next, Lifecycle!Resources
<1>9. CASE /\ PhaseSame(k) /\ OwnedSame(k)
           /\ Phase(k) \in {"held", "deleting"} /\ "bucket" \in Owned(k)
           /\ Announced(k)'
  <2>1. R' = [R EXCEPT ![k] = TRUE]
    BY <1>3, <1>9
  <2>2. Lifecycle!Announce(k)
    BY <1>4, <1>5, <1>9, <2>1 DEF Lifecycle!Announce
  <2> QED
    BY <2>2 DEF Lifecycle!Next
<1>10. CASE /\ Phase(k) = "deleting" /\ Phase(k)' = "none"
            /\ OwnedSame(k) /\ Owned(k) = {} /\ ~Announced(k)'
  <2>1. P' = [P EXCEPT ![k] = "none"] /\ R' = [R EXCEPT ![k] = FALSE]
    BY <1>1, <1>3, <1>10
  <2>2. Lifecycle!Release(k)
    BY <1>4, <1>5, <1>10, <2>1 DEF Lifecycle!Release, Lifecycle!Move
  <2> QED
    BY <2>2 DEF Lifecycle!Next
<1> QED
  BY <1>6, <1>7, <1>8, <1>9, <1>10 DEF AbstractStep

(***************************************************************************)
(* What the concrete steps do to a key.                                    *)
(***************************************************************************)

\* An object keeps the same bucket and role under all its specs, so any of
\* them tells which resources it owns; before and after a step.
LEMMA OwnedBy ==
  ASSUME Exclusive, NEW k \in Keys, NEW s \in Allowed[k]
  PROVE  /\ "bucket" \in Owned(k) <=> store[s.name].exists
         /\ "role" \in Owned(k) <=> s.role # NoRole /\ roles[s.role].exists
         /\ Owned(k) \subseteq {"bucket", "role"}
         /\ "bucket" \in Owned(k)' <=> store'[s.name].exists
         /\ "role" \in Owned(k)' <=> s.role # NoRole /\ roles'[s.role].exists
         /\ Owned(k)' \subseteq {"bucket", "role"}
<1>1. \A t \in Allowed[k] : t.name = s.name /\ t.role = s.role
  BY DEF Exclusive
<1>2. Owned(k) = {x \in {"bucket", "role"} :
                    IF x = "bucket" THEN store[s.name].exists
                                    ELSE s.role # NoRole /\ roles[s.role].exists}
  BY <1>1 DEF Owned
<1>3. Owned(k)' = {x \in {"bucket", "role"} :
                    IF x = "bucket" THEN store'[s.name].exists
                                    ELSE s.role # NoRole /\ roles'[s.role].exists}
  BY <1>1 DEF Owned
<1> QED
  BY <1>2, <1>3

\* A key whose object and cloud do not change keeps its abstract state.
LEMMA SameKey ==
  ASSUME NEW k \in Keys, api'[k] = api[k], UNCHANGED <<store, roles>>
  PROVE  Same(k)
<1>1. Phase(k)' = Phase(k) /\ Announced(k)' = Announced(k)
  BY DEF Phase, Announced, Exists
<1>2. Owned(k)' = Owned(k)
  BY DEF Owned
<1> QED
  BY <1>1, <1>2 DEF Same, PhaseSame, OwnedSame, ReadySame

\* Where nobody else puts finalizers on Buckets: what is marked has ours, and
\* what is ready and not marked has it too.
LEMMA HeldIfReady ==
  ASSUME LoopAssumption, Exclusive, Foreign = {}, TypeOK, Inv, NEW k \in Keys,
         Exists(k)
  PROVE  /\ api[k] \in Bucket /\ api[k].others = {} /\ Genuine(k, api[k])
         /\ api[k].deleting => api[k].fin
         /\ api[k].status.ready => api[k].fin
<1>1. /\ api[k] \in Bucket /\ api[k] # NoObject /\ Genuine(k, api[k])
  BY ApiGenuine DEF TypeOK, LoopTypeOK, Version, Exists, Inv
<1>2. api[k].others = {}
  BY <1>1 DEF Bucket
<1>3. api[k].deleting => api[k].fin
  BY <1>1, <1>2 DEF Genuine
<1>4. ASSUME ~api[k].deleting, api[k].status.ready PROVE api[k].fin
  <2>1. api[k].status.id = api[k].spec.name
    BY <1>1, <1>4 DEF Genuine
  <2>2. api[k].spec.name \in Names
    BY <1>1 DEF Bucket, BucketSpec
  <2>3. store[api[k].spec.name].exists
    BY <1>4, <2>1 DEF Inv, ReadyMeansProvisioned, Live
  <2>4. PICK l \in Keys : /\ Exists(l) /\ api[l].fin
                          /\ api[l].spec.name = api[k].spec.name
    BY <2>2, <2>3 DEF Inv, NoOrphans
  <2>5. api[l] \in Bucket /\ Genuine(l, api[l])
    BY <2>4, ApiGenuine DEF TypeOK, LoopTypeOK, Version, Exists, Inv
  <2>6. l = k
    BY <1>1, <2>4, <2>5, SameNames
  <2> QED
    BY <2>4, <2>6
<1> QED
  BY <1>1, <1>2, <1>3, <1>4

\* A write to the API server leaves the other keys alone.
LEMMA WriteOne ==
  ASSUME LoopTypeOK, NEW k \in Keys, NEW v, Write(k, v), UNCHANGED <<store, roles>>
  PROVE  /\ api'[k] = v
         /\ \A l \in Keys : l # k => Same(l)
         /\ OwnedSame(k)
<1>1. api'[k] = v /\ \A l \in Keys : l # k => api'[l] = api[l]
  BY DEF LoopTypeOK, Write
<1>2. OwnedSame(k)
  BY DEF Owned, OwnedSame
<1> QED
  BY <1>1, <1>2, SameKey

\* Users' steps.
LEMMA OthersRefine ==
  ASSUME LoopAssumption, Exclusive, Foreign = {}, TypeOK, Inv, NEW k \in Keys,
         OthersAct(k), UNCHANGED <<store, roles>>
  PROVE  [Lifecycle!Next]_Lifecycle!vars
<1> USE DEF TypeOK
<1>1. ASSUME Same(k), \A l \in Keys : l # k => Same(l)
      PROVE  UNCHANGED Lifecycle!vars
  BY <1>1, LiftSame
<1>2. CASE UserCreate(k)
  <2>1. PICK s \in Allowed[k] :
           Write(k, [spec |-> s, fin |-> FALSE, others |-> {}, deleting |-> FALSE,
                     status |-> [id |-> NoName, ready |-> FALSE]])
    BY <1>2 DEF UserCreate
  <2> DEFINE v == [spec |-> s, fin |-> FALSE, others |-> {}, deleting |-> FALSE,
                   status |-> [id |-> NoName, ready |-> FALSE]]
  <2>2. v \in Bucket
    BY LoopAssumption DEF Bucket, BucketStatus
  <2>3. api'[k] = v /\ OwnedSame(k) /\ \A l \in Keys : l # k => Same(l)
    BY <2>1, WriteOne
  <2>4. Phase(k) = "none" /\ Phase(k)' = "requested"
    <3>1. v # NoObject /\ ~v.deleting /\ ~v.fin
      BY <2>2, LoopAssumption
    <3>2. ~Exists(k)
      BY <1>2 DEF UserCreate
    <3> HIDE DEF v
    <3> QED
      BY <2>3, <3>1, <3>2 DEF Phase, Exists
  <2>5. ReadySame(k)
    BY <1>2, <2>3 DEF UserCreate, ReadySame, Announced, Exists
  <2>6. AbstractStep(k)
    BY <2>3, <2>4, <2>5 DEF AbstractStep
  <2> QED
    BY <2>3, <2>6, LiftOne
<1>3. CASE UserEdit(k)
  <2>1. PICK s \in Allowed[k] : Write(k, [api[k] EXCEPT !.spec = s])
    BY <1>3 DEF UserEdit
  <2> DEFINE v == [api[k] EXCEPT !.spec = s]
  <2>2. Exists(k) /\ api[k] \in Bucket
    BY <1>3, HeldIfReady DEF UserEdit
  <2>3. /\ v \in Bucket /\ v.fin = api[k].fin /\ v.deleting = api[k].deleting
        /\ v.status = api[k].status
    BY <2>2, LoopAssumption DEF Bucket
  <2>4. api'[k] = v /\ OwnedSame(k) /\ \A l \in Keys : l # k => Same(l)
    BY <2>1, WriteOne
  <2>5. PhaseSame(k) /\ ReadySame(k)
    BY <2>2, <2>3, <2>4, LoopAssumption
       DEF PhaseSame, ReadySame, Phase, Announced, Exists
  <2> QED
    BY <1>1, <2>4, <2>5 DEF Same
<1>4. CASE UserDelete(k)
  <2>1. PICK fs \in SUBSET Foreign :
           Write(k, Stored([api[k] EXCEPT !.deleting = TRUE, !.others = @ \cup fs]))
    BY <1>4 DEF UserDelete
  <2> DEFINE w == [api[k] EXCEPT !.deleting = TRUE, !.others = @ \cup fs]
  <2>2. Exists(k) /\ ~api[k].deleting
    BY <1>4 DEF UserDelete, Live
  <2>3. /\ api[k] \in Bucket /\ api[k].others = {} /\ fs = {}
        /\ api[k].status.ready => api[k].fin
    BY <2>2, HeldIfReady
  <2>4. /\ w \in Bucket /\ w.fin = api[k].fin /\ w.deleting /\ w.others = {}
        /\ w.status = api[k].status
    BY <2>3 DEF Bucket
  <2>5. api'[k] = Stored(w) /\ OwnedSame(k) /\ \A l \in Keys : l # k => Same(l)
    BY <2>1, WriteOne
  <2>6. CASE api[k].fin
    <3>1. api'[k] = w
      BY <2>4, <2>5, <2>6 DEF Stored
    <3>2. /\ Phase(k) = "held" /\ Phase(k)' = "deleting" /\ ReadySame(k)
      BY <2>2, <2>4, <2>6, <3>1, LoopAssumption
         DEF Phase, ReadySame, Announced, Exists
    <3>3. AbstractStep(k)
      BY <2>5, <3>2 DEF AbstractStep
    <3> QED
      BY <2>5, <3>3, LiftOne
  <2>7. CASE ~api[k].fin
    <3>1. api'[k] = NoObject
      BY <2>4, <2>5, <2>7 DEF Stored
    <3>2. /\ Phase(k) = "requested" /\ Phase(k)' = "none" /\ ReadySame(k)
      BY <2>2, <2>3, <2>7, <3>1 DEF Phase, ReadySame, Announced, Exists
    <3>3. AbstractStep(k)
      BY <2>5, <3>2 DEF AbstractStep
    <3> QED
      BY <2>5, <3>3, LiftOne
  <2> QED
    BY <2>6, <2>7
<1>5. ~Hold(k) /\ ~Release(k)
  BY DEF Hold, Release
<1> QED
  BY <1>2, <1>3, <1>4, <1>5 DEF OthersAct

\* reconcileNormal's first patch holds the object.
LEMMA AddFinalizerRefines ==
  ASSUME LoopAssumption, Exclusive, Foreign = {}, TypeOK, Inv, AddFinalizer,
         UNCHANGED <<store, roles>>, NEW k \in Keys, k = req
  PROVE  [Lifecycle!Next]_Lifecycle!vars
<1> USE DEF TypeOK
<1> DEFINE v == Relisted(TRUE)
<1>1. CASE UNCHANGED api
  BY <1>1, SameKey, LiftSame
<1>2. CASE Exists(req) /\ ~Refuses(TRUE) /\ Write(req, v)
  <2>1. req \in Keys /\ obj \in Bucket
    BY DEF AddFinalizer, LoopTypeOK, Version
  <2>2. /\ api[req] \in Bucket /\ api[req].others = {}
        /\ api[req].deleting => api[req].fin
    BY <1>2, <2>1, HeldIfReady
  <2>3. /\ v \in Bucket /\ v.fin /\ v.deleting = api[req].deleting
        /\ v.status = api[req].status
    BY <2>1, <2>2 DEF Relisted, Bucket
  <2>4. api'[k] = v /\ OwnedSame(k) /\ \A l \in Keys : l # k => Same(l)
    <3>1. Write(k, v)
      BY <1>2 DEF Write
    <3> QED
      BY <3>1, WriteOne
  <2>5. ReadySame(k)
    BY <1>2, <2>3, <2>4, LoopAssumption DEF ReadySame, Announced, Exists
  <2>6. CASE api[req].fin
    <3>1. PhaseSame(k)
      BY <1>2, <2>3, <2>4, <2>6, LoopAssumption DEF PhaseSame, Phase, Exists
    <3> QED
      BY <2>4, <2>5, <3>1, LiftSame DEF Same
  <2>7. CASE ~api[req].fin
    <3>1. Phase(k) = "requested" /\ Phase(k)' = "held"
      BY <1>2, <2>2, <2>3, <2>4, <2>7, LoopAssumption DEF Phase, Exists
    <3>2. AbstractStep(k)
      BY <2>4, <2>5, <3>1 DEF AbstractStep
    <3> QED
      BY <2>1, <2>4, <3>2, LiftOne
  <2> QED
    BY <2>6, <2>7
<1> QED
  BY <1>1, <1>2 DEF AddFinalizer, clusterVars

\* The status is patched only when the bucket is there, so the patch announces
\* it or says nothing new.
LEMMA PatchStatusRefines ==
  ASSUME LoopAssumption, Exclusive, Foreign = {}, TypeOK, Inv, PatchStatus,
         UNCHANGED <<store, roles>>, NEW k \in Keys, k = req
  PROVE  [Lifecycle!Next]_Lifecycle!vars
<1> USE DEF TypeOK
<1> DEFINE v == [api[req] EXCEPT
                   !.status.id = Merge(@, obj.status.id, obj.spec.name),
                   !.status.ready = Merge(@, obj.status.ready, TRUE)]
<1>1. CASE UNCHANGED api
  BY <1>1, SameKey, LiftSame
<1>2. CASE Exists(req) /\ Write(req, v)
  <2>1. pc = "status"
    BY DEF PatchStatus
  <2>2. /\ req \in Keys /\ obj \in Bucket /\ api[req] \in Bucket
        /\ v \in Bucket /\ v.fin = api[req].fin /\ v.deleting = api[req].deleting
    BY <2>1, StatusWritten DEF Inv
  <2>3. v.status.ready = Merge(api[req].status.ready, obj.status.ready, TRUE)
    BY <2>2 DEF Bucket, BucketStatus
  <2>4. api'[k] = v /\ OwnedSame(k) /\ \A l \in Keys : l # k => Same(l)
    <3>1. Write(k, v)
      BY <1>2 DEF Write
    <3> QED
      BY <3>1, WriteOne
  <2>5. PhaseSame(k)
    BY <1>2, <2>2, <2>4, LoopAssumption DEF PhaseSame, Phase, Exists
  <2>6. CASE v.status.ready = api[req].status.ready
    <3>1. ReadySame(k)
      BY <1>2, <2>2, <2>4, <2>6, LoopAssumption DEF ReadySame, Announced, Exists
    <3> QED
      BY <2>4, <2>5, <3>1, LiftSame DEF Same
  <2>7. CASE v.status.ready = TRUE
    <3>1. Announced(k)'
      BY <2>2, <2>4, <2>7, LoopAssumption DEF Announced, Exists
    <3>2. Phase(k) \in {"held", "deleting"}
      BY <1>2, <2>1 DEF Phase, Inv, LoopInv, PassInv, HoldingSteps
    <3>3. obj.spec \in Allowed[req] /\ store[obj.spec.name].exists
      BY <2>1, <2>2, LoopAssumption DEF Inv, LoopInv, PassInv, CloudInv, Genuine
    <3>4. "bucket" \in Owned(k)
      BY <2>2, <3>3, OwnedBy
    <3>5. AbstractStep(k)
      BY <2>4, <2>5, <3>1, <3>2, <3>4 DEF AbstractStep
    <3> QED
      BY <2>2, <2>4, <3>5, LiftOne
  <2> QED
    BY <2>3, <2>6, <2>7 DEF Merge
<1> QED
  BY <1>1, <1>2 DEF PatchStatus, clusterVars

\* The finalizer goes when bucket and role are gone, from an object that is
\* marked, and the object goes with it.
LEMMA RemoveFinalizerRefines ==
  ASSUME LoopAssumption, Exclusive, Foreign = {}, TypeOK, Inv, RemoveFinalizer,
         UNCHANGED <<store, roles>>, NEW k \in Keys, k = req
  PROVE  [Lifecycle!Next]_Lifecycle!vars
<1> USE DEF TypeOK
<1> DEFINE w == Relisted(FALSE)
<1>1. CASE UNCHANGED api
  BY <1>1, SameKey, LiftSame
<1>2. /\ pc = "release" /\ req \in Keys /\ obj \in Bucket /\ obj # NoObject
      /\ Genuine(req, obj) /\ obj.deleting
  BY LoopAssumption DEF RemoveFinalizer, LoopTypeOK, Version, Inv, LoopInv, PassInv, Deleting,
     DeletingSteps
<1>3. obj.others = {} /\ obj.fin
  BY <1>2 DEF Genuine, Bucket
<1>4. CASE Exists(req) /\ Write(req, Stored(w))
  <2>1. /\ api[req] \in Bucket /\ api[req].others = {}
        /\ api[req].deleting => api[req].fin
    BY <1>2, <1>4, HeldIfReady
  <2>2. ~Held(api[req])
    BY <1>2, <1>3, ApiGenuine DEF Inv, LoopInv, PassInv, Deleting, DeletingSteps
  <2>3. /\ w \in Bucket /\ ~w.fin /\ w.deleting = api[req].deleting
        /\ w.status = api[req].status /\ w.others = {}
    BY <1>2, <1>3, <2>1 DEF Relisted, Bucket
  <2>4. api'[k] = Stored(w) /\ OwnedSame(k) /\ \A l \in Keys : l # k => Same(l)
    <3>1. Write(k, Stored(w))
      BY <1>4 DEF Write
    <3> QED
      BY <3>1, WriteOne
  <2>5. CASE api[req].deleting
    <3>1. api'[k] = NoObject
      BY <2>3, <2>4, <2>5 DEF Stored
    <3>2. Phase(k) = "deleting" /\ Phase(k)' = "none" /\ ~Announced(k)'
      BY <1>4, <2>5, <3>1 DEF Phase, Announced, Exists
    <3>3. obj.spec \in Allowed[req]
      BY <1>2 DEF Genuine
    <3>4. Owned(k) = {}
      BY <1>2, <3>3, OwnedBy DEF Inv, CloudInv
    <3>5. AbstractStep(k)
      BY <2>4, <3>2, <3>4 DEF AbstractStep
    <3> QED
      BY <1>2, <2>4, <3>5, LiftOne
  <2>6. CASE ~api[req].deleting
    <3>1. api'[k] = w /\ ~api[req].fin
      BY <1>4, <2>2, <2>3, <2>4, <2>6 DEF Stored, Held, Exists
    <3>2. PhaseSame(k) /\ ReadySame(k)
      BY <1>4, <2>3, <2>6, <3>1, LoopAssumption
         DEF PhaseSame, ReadySame, Phase, Announced, Exists
    <3> QED
      BY <2>4, <3>2, LiftSame DEF Same
  <2> QED
    BY <2>5, <2>6
<1> QED
  BY <1>1, <1>3, <1>4 DEF RemoveFinalizer, clusterVars

\* The names of the object that a pass works on are not those of another.
LEMMA OtherOwned ==
  ASSUME LoopAssumption, Exclusive, TypeOK, NEW k \in Keys, NEW s \in Allowed[k],
         \A n \in Names : n # s.name => store'[n] = store[n],
         s.role = NoRole => UNCHANGED roles,
         \A r \in Roles : r # s.role => roles'[r] = roles[r],
         NEW l \in Keys, l # k
  PROVE  OwnedSame(l)
<1>1. ASSUME NEW t \in Allowed[l]
      PROVE  /\ store'[t.name] = store[t.name]
             /\ t.role # NoRole => roles'[t.role] = roles[t.role]
  <2>1. t.name # s.name /\ (t.role = s.role => t.role = NoRole)
    BY DEF Exclusive
  <2>2. t \in BucketSpec
    BY LoopAssumption
  <2>3. t.name \in Names /\ t.role \in Roles \cup {NoRole}
    BY <2>2 DEF BucketSpec
  <2> QED
    BY <2>1, <2>3
<1> QED
  BY <1>1 DEF OwnedSame, Owned

\* The services' steps: what is provisioned is held, what is destroyed is
\* marked for deletion, and a role goes after the bucket.
LEMMA ServiceRefines ==
  ASSUME LoopAssumption, Exclusive, Foreign = {}, TypeOK, Inv,
         ServiceCall \/ Progress \/ Refused
  PROVE  [Lifecycle!Next]_Lifecycle!vars
<1>1. UNCHANGED api
  BY ServiceMoves DEF ServiceMove, clusterVars
<1>2. CASE UNCHANGED <<store, roles>>
  BY <1>1, <1>2, SameKey, LiftSame
<1>3. ASSUME ~UNCHANGED <<store, roles>>
      PROVE  [Lifecycle!Next]_Lifecycle!vars
  <2>1. pc \in {"create", "update", "configure", "role", "deleteRole", "deleteBucket"}
    BY <1>3, ServiceEffects
  <2>2. /\ req \in Keys /\ obj \in Bucket /\ obj # NoObject
        /\ Genuine(req, obj)
    BY <2>1, LoopAssumption DEF TypeOK, LoopTypeOK, Version, Inv, LoopInv, PassInv
  <2>0. PICK k \in Keys : k = req
    BY <2>2
  <2>3. PICK s \in Allowed[k] : k = req /\ s = obj.spec
    BY <2>0, <2>2 DEF Genuine
  <2>4. s \in BucketSpec
    BY LoopAssumption
  <2>5. s.name \in Names /\ s.role \in Roles \cup {NoRole}
    BY <2>4 DEF BucketSpec
  <2>6. \A l \in Keys : PhaseSame(l) /\ ReadySame(l)
    BY <1>1 DEF PhaseSame, ReadySame, Phase, Announced, Exists
  <2>7. ASSUME \A n \in Names : n # s.name => store'[n] = store[n],
               s.role = NoRole => UNCHANGED roles,
               \A r \in Roles : r # s.role => roles'[r] = roles[r]
        PROVE  \A l \in Keys : l # k => Same(l)
    BY <2>6, <2>7, OtherOwned DEF Same
  <2>8. /\ "bucket" \in Owned(k) <=> store[s.name].exists
        /\ "role" \in Owned(k) <=> s.role # NoRole /\ roles[s.role].exists
        /\ Owned(k) \subseteq {"bucket", "role"}
        /\ "bucket" \in Owned(k)' <=> store'[s.name].exists
        /\ "role" \in Owned(k)' <=> s.role # NoRole /\ roles'[s.role].exists
        /\ Owned(k)' \subseteq {"bucket", "role"}
    BY OwnedBy
  <2>9. CASE /\ pc \in {"create", "update", "configure"}
             /\ \E c : BucketWith(c)
             /\ UNCHANGED roles
    <3>1. PICK c : store' = [store EXCEPT ![s.name] = Carrying(c)]
      BY <2>3, <2>9 DEF BucketWith
    <3>2. /\ store'[s.name] = Carrying(c)
          /\ \A n \in Names : n # s.name => store'[n] = store[n]
      BY <2>5, <3>1 DEF TypeOK
    <3>3. Owned(k)' = Owned(k) \cup {"bucket"}
      BY <2>8, <2>9, <3>2 DEF Carrying
    <3>4. Phase(k) \in {"held", "deleting"}
      BY <2>3, <2>9 DEF Phase, Inv, LoopInv, PassInv, HoldingSteps
    <3>5. AbstractStep(k)
      BY <2>6, <3>3, <3>4 DEF AbstractStep
    <3> QED
      BY <2>7, <2>9, <3>2, <3>5, LiftOne
  <2>10. ASSUME pc \in {"role", "deleteRole"}, UNCHANGED store, NEW c,
                RoleWith(c)
         PROVE  /\ \A l \in Keys : l # k => Same(l)
                /\ Owned(k)' = Owned(k) \cup {"role"}
    <3>1. s.role # NoRole /\ s.role \in Roles
      BY <2>3, <2>5, <2>10 DEF TypeOK
    <3>2. HasRoles
      BY <1>3, <2>10 DEF RoleWith
    <3>3. roles' = [roles EXCEPT ![s.role] = Carrying(c)]
      BY <2>3, <2>10, <3>2 DEF RoleWith
    <3>4. /\ roles'[s.role] = Carrying(c)
          /\ \A r \in Roles : r # s.role => roles'[r] = roles[r]
      BY <3>1, <3>3 DEF TypeOK
    <3> QED
      BY <2>7, <2>8, <2>10, <3>1, <3>4 DEF Carrying
  <2>11. CASE pc = "role" /\ UNCHANGED store /\ \E c : RoleWith(c)
    <3>1. Phase(k) \in {"held", "deleting"}
      BY <2>3, <2>11 DEF Phase, Inv, LoopInv, PassInv, HoldingSteps
    <3>2. AbstractStep(k)
      BY <2>6, <2>10, <2>11, <3>1 DEF AbstractStep
    <3> QED
      BY <2>10, <2>11, <3>2, LiftOne
  <2>12. CASE /\ pc = "deleteRole" /\ UNCHANGED store
              /\ roles[obj.spec.role].exists /\ \E c : RoleWith(c)
    <3>1. "role" \in Owned(k)
      BY <2>3, <2>8, <2>12 DEF TypeOK
    <3>2. OwnedSame(k)
      BY <2>10, <2>12, <3>1 DEF OwnedSame
    <3> QED
      BY <2>6, <2>10, <2>12, <3>2, LiftSame DEF Same
  <2>13. ASSUME pc \in DeletingSteps
         PROVE  /\ store[s.name].exists => Phase(k) = "deleting"
                /\ s.role # NoRole /\ roles[s.role].exists => Phase(k) = "deleting"
    <3>1. obj.deleting /\ obj.others = {}
      BY <2>2, <2>13 DEF Inv, LoopInv, PassInv, Deleting, Bucket
    <3>2. obj.fin
      BY <2>2, <3>1 DEF Genuine
    <3> QED
      BY <2>3, <2>13, <3>2, ResourcesMarked DEF Phase, Marked, Exists, TypeOK, Inv
  <2>14. CASE pc = "deleteRole" /\ UNCHANGED store /\ RoleGone
    <3>1. s.role # NoRole /\ s.role \in Roles
      BY <2>3, <2>5, <2>14 DEF TypeOK
    <3>2. roles' = [roles EXCEPT ![s.role] = Absent]
      BY <2>3, <2>14 DEF RoleGone
    <3>3. /\ roles'[s.role] = Absent
          /\ \A r \in Roles : r # s.role => roles'[r] = roles[r]
      BY <3>1, <3>2 DEF TypeOK
    <3>4. Owned(k)' = Owned(k) \ {"role"}
      BY <2>8, <2>14, <3>3 DEF Absent
    <3>5. "bucket" \notin Owned(k)
      BY <2>3, <2>8, <2>14 DEF Inv, CloudInv
    <3>6. \A l \in Keys : l # k => Same(l)
      BY <2>7, <2>14, <3>1, <3>3
    <3>7. CASE roles[s.role].exists
      <4>1. Phase(k) = "deleting"
        BY <2>13, <2>14, <3>1, <3>7 DEF DeletingSteps
      <4>2. AbstractStep(k)
        BY <2>6, <3>4, <3>5, <4>1 DEF AbstractStep
      <4> QED
        BY <3>6, <4>2, LiftOne
    <3>8. CASE ~roles[s.role].exists
      <4>1. OwnedSame(k)
        BY <2>8, <3>4, <3>8 DEF OwnedSame
      <4> QED
        BY <2>6, <3>6, <4>1, LiftSame DEF Same
    <3> QED
      BY <3>7, <3>8
  <2>15. CASE pc = "deleteBucket" /\ BucketGone /\ UNCHANGED roles
    <3>1. store' = [store EXCEPT ![s.name] = Absent]
      BY <2>3, <2>15 DEF BucketGone
    <3>2. /\ store'[s.name] = Absent
          /\ \A n \in Names : n # s.name => store'[n] = store[n]
      BY <2>5, <3>1 DEF TypeOK
    <3>3. Owned(k)' = Owned(k) \ {"bucket"}
      BY <2>8, <2>15, <3>2 DEF Absent
    <3>4. \A l \in Keys : l # k => Same(l)
      BY <2>7, <2>15, <3>2
    <3>5. CASE store[s.name].exists
      <4>1. Phase(k) = "deleting"
        BY <2>13, <2>15, <3>5 DEF DeletingSteps
      <4>2. AbstractStep(k)
        BY <2>6, <3>3, <4>1 DEF AbstractStep
      <4> QED
        BY <3>4, <4>2, LiftOne
    <3>6. CASE ~store[s.name].exists
      <4>1. OwnedSame(k)
        BY <2>8, <3>3, <3>6 DEF OwnedSame
      <4> QED
        BY <2>6, <3>4, <4>1, LiftSame DEF Same
    <3> QED
      BY <3>5, <3>6
  <2> QED
    BY <1>3, <2>9, <2>11, <2>12, <2>14, <2>15, ServiceEffects
<1> QED
  BY <1>2, <1>3

(***************************************************************************)
(* The theorem.                                                            *)
(***************************************************************************)

\* Where Buckets name their resources apart and for life and nobody else puts
\* finalizers on them, the reconciler keeps the promise of BucketLifecycle with
\* all its stale reads, crashes, lost answers and half-made calls: resources
\* come only while the finalizer holds the object, Ready is announced only
\* with the bucket there, resources go, the bucket first, only once deletion
\* was asked for, and the object goes only when they are gone.
THEOREM KeepsThePromise ==
  ASSUME Exclusive, Foreign = {}
  PROVE  Spec => LifecycleSpec
<1>1. Init => Lifecycle!Init
  <2> SUFFICES ASSUME Init PROVE Lifecycle!Init
    OBVIOUS
  <2>1. \A k \in Keys : ~Exists(k)
    BY DEF Init, LoopInit, Exists
  <2>2. ASSUME NEW k \in Keys PROVE Owned(k) = {}
    <3>1. ASSUME NEW s \in Allowed[k]
          PROVE  /\ ~store[s.name].exists
                 /\ s.role # NoRole => ~roles[s.role].exists
      <4>1. s \in BucketSpec
        BY LoopAssumption
      <4>2. s.name \in Names /\ s.role \in Roles \cup {NoRole}
        BY <4>1 DEF BucketSpec
      <4> QED
        BY <4>2 DEF Init, Absent
    <3> QED
      BY <3>1 DEF Owned
  <2> QED
    BY <2>1, <2>2 DEF Lifecycle!Init, Phase
<1>2. TypeOK /\ Inv /\ [Next]_vars => [Lifecycle!Next]_Lifecycle!vars
  <2> SUFFICES ASSUME TypeOK, Inv, [Next]_vars
               PROVE  [Lifecycle!Next]_Lifecycle!vars
    OBVIOUS
  <2>1. CASE UNCHANGED <<api, store, roles>>
    BY <2>1, SameKey, LiftSame
  <2>2. ASSUME NEW k \in Keys, OthersAct(k), UNCHANGED <<store, roles>>
        PROVE  [Lifecycle!Next]_Lifecycle!vars
    BY <2>2, OthersRefine, LoopAssumption
  <2>3. CASE ControllerStep /\ UNCHANGED <<store, roles>>
    <3>1. CASE GetCluster
      BY <2>1, <2>3, <3>1 DEF GetCluster, clusterVars
    <3>2. CASE ~GetCluster
      <4>1. PICK k \in Keys : k = req
        BY <2>3, <3>2 DEF ControllerStep, AddFinalizer, PatchStatus,
                          RemoveFinalizer, TypeOK, LoopTypeOK
      <4> QED
        BY <2>3, <3>2, <4>1, LoopAssumption, AddFinalizerRefines,
           PatchStatusRefines, RemoveFinalizerRefines DEF ControllerStep
    <3> QED
      BY <3>1, <3>2
  <2>4. CASE ServiceCall \/ Progress \/ Refused
    BY <2>4, ServiceRefines, LoopAssumption
  <2>5. ASSUME NEW k \in Keys, Watch(k) \/ Resync(k) \/ Begin(k),
               UNCHANGED <<store, roles>>
        PROVE  [Lifecycle!Next]_Lifecycle!vars
    BY <2>1, <2>5 DEF Watch, Resync, Begin, clusterVars
  <2>6. CASE (Crash \/ Stabilize) /\ UNCHANGED <<store, roles>>
    BY <2>1, <2>6 DEF Crash, Stabilize, clusterVars
  <2>7. CASE UNCHANGED vars
    BY <2>1, <2>7 DEF vars, loopVars
  <2> QED
    BY <2>2, <2>3, <2>4, <2>5, <2>6, <2>7 DEF Next, Environment
<1>3. Spec => Lifecycle!Spec
  BY <1>1, <1>2, Invariance, TypeCorrect, PTL DEF Spec, Lifecycle!Spec
<1> QED
  BY <1>3 DEF LifecycleSpec
=============================================================================
