--------------------------- MODULE LoopInvariant ---------------------------
(***************************************************************************)
(* What the loop keeps whatever the provider does.  The heart of it is a   *)
(* fact about the versions of one object that the controller has yet to    *)
(* see: the cached one, then those the watch carries, the last of which is *)
(* the API server's.                                                       *)
(***************************************************************************)
EXTENDS ReconcileLoop

\* What the service calls of any provider do to the pass: it waits for the
\* answer, fails, ends or goes on.
ServiceMove ==
    /\ \/ UNCHANGED workerVars
       \/ /\ pc \in {"exists", "create", "update", "configure", "role",
                     "deleteBucket", "deleteRole"}
          /\ Retry
       \/ pc \in {"role", "existsDelete"} /\ Finish
       \/ /\ \/ pc = "exists" /\ pc' \in {"create", "update"}
             \/ pc \in {"create", "update"} /\ pc' = "configure"
             \/ pc = "configure" /\ pc' = "status"
             \/ pc = "existsDelete" /\ pc' = "deleteBucket"
             \/ pc = "deleteBucket" /\ pc' \in {"deleteRole", "release"}
             \/ pc = "deleteRole" /\ pc' = "release"
          /\ UNCHANGED <<queue, req, obj>>
    /\ UNCHANGED <<clusterVars, faulty>>

LoopNext ==
    \/ Environment
    \/ \E k \in Keys : Begin(k)
    \/ ControllerStep
    \/ ServiceMove

LoopSpec == LoopInit /\ [][LoopNext]_loopVars

-----------------------------------------------------------------------------
\* A version that only others hold is neither.
Held(v)   == v # NoObject /\ v.fin /\ ~v.deleting
Marked(v) == v # NoObject /\ v.fin /\ v.deleting

\* The i-th version of a pipeline of cached version c and changes e.
At(c, e, i) == IF i = 0 THEN c ELSE e[i]
Some(P(_), c, e) == \E i \in 0..Len(e) : P(At(c, e, i))
All(P(_), c, e)  == \A i \in 0..Len(e) : P(At(c, e, i))

\* The marked versions are one unbroken run, which ends with the API server's
\* version a or else begins with the cached one; no held version follows a
\* marked one; and a held version anywhere means that a has the finalizer.
Pipeline(c, e, a) ==
    /\ At(c, e, Len(e)) = a
    /\ \A i, j \in 0..Len(e) :
          i < j /\ Marked(At(c, e, i)) => ~Held(At(c, e, j))
    /\ \A i, m, j \in 0..Len(e) :
          i < m /\ m < j /\ Marked(At(c, e, i)) /\ Marked(At(c, e, j)) =>
             Marked(At(c, e, m))
    /\ ~Marked(a) => \A i, j \in 0..Len(e) :
          j < i /\ Marked(At(c, e, i)) => Marked(At(c, e, j))
    /\ Some(Held, c, e) => a # NoObject /\ a.fin

\* A version of k that users and the controller can have written.
Genuine(k, v) ==
    v # NoObject =>
       /\ v.spec \in Allowed[k]
       /\ v.deleting => v.fin \/ v.others # {}
       /\ v.status \in {[id |-> NoName, ready |-> FALSE],
                        [id |-> v.spec.name, ready |-> TRUE]}

\* The steps of a pass that found its copy unmarked, and those of one that
\* found it marked.  Later the copy is replaced by the answers to patches.
HoldingSteps  == {"exists", "create", "update", "configure", "status", "role"}
Normal ==
    \/ pc = "getCluster" /\ ~obj.deleting
    \/ pc \in HoldingSteps \cup {"addFinalizer"}
DeletingSteps == {"existsDelete", "deleteBucket", "deleteRole", "release"}
Deleting ==
    \/ pc = "getCluster" /\ obj.deleting
    \/ pc \in DeletingSteps

\* What a running pass may rely on, although its copy is old.
PassInv ==
    /\ pc # "idle" => Genuine(req, obj)
    /\ pc = "addFinalizer" => ~obj.deleting
    /\ pc \in {"getCluster", "addFinalizer"} /\ Held(obj) =>
          Exists(req) /\ api[req].fin
    /\ pc \in HoldingSteps => Exists(req) /\ api[req].fin
    /\ Normal /\ Some(Marked, cache[req], events[req]) => Marked(api[req])
    /\ Deleting => obj.deleting
    /\ Deleting /\ obj.fin =>
          /\ ~Some(Held, cache[req], events[req])
          /\ Marked(api[req]) => All(Marked, cache[req], events[req])

LoopInv ==
    /\ \A k \in Keys : Pipeline(cache[k], events[k], api[k])
    /\ \A k \in Keys : \A i \in 0..Len(events[k]) :
          Genuine(k, At(cache[k], events[k], i))
    /\ PassInv

\* Nothing has happened to the object of the running pass since the pass took
\* its key: no change is on its way, and the key does not wait again.
Fresh == events[req] = <<>> /\ req \notin queue

\* A pass that may be the last one for its object works on the API server's own
\* version of it.
FreshInv == pc # "idle" /\ Fresh => obj = api[req]

\* While an object is being deleted the list of finalizers only gets shorter, and so
\* it is for the pass that deletes, compared with its copy.
ShorterLists(c, e) ==
    \A i, j \in 0..Len(e) :
       i < j /\ Marked(At(c, e, i)) /\ Marked(At(c, e, j)) =>
          At(c, e, j).others \subseteq At(c, e, i).others
ListInv ==
    /\ \A k \in Keys : ShorterLists(cache[k], events[k])
    /\ Deleting /\ obj.fin =>
          \A i \in 0..Len(events[req]) :
             LET v == At(cache[req], events[req], i)
             IN Marked(v) => v.others \subseteq obj.others
=============================================================================
