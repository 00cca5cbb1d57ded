----------------------------- MODULE LoopProofs -----------------------------
(***************************************************************************)
(* What holds of the loop over any provider: the proof of LoopInvariance,  *)
(* and lemmas on single steps that the providers' proofs rest on.          *)
(***************************************************************************)
EXTENDS LoopInvariant, TLAPS

(***************************************************************************)
(* Types.                                                                  *)
(***************************************************************************)

\* A write keeps the types of the three variables of the API server.
LEMMA WriteType ==
  ASSUME NEW k \in Keys, NEW v \in Version, LoopTypeOK, Write(k, v)
  PROVE  /\ api' \in [Keys -> Version]
         /\ cache' \in [Keys -> Version]
         /\ events' \in [Keys -> Seq(Version)]
<1>1. api' \in [Keys -> Version] /\ cache' \in [Keys -> Version]
  BY DEF LoopTypeOK, Write
<1>2. Append(events[k], v) \in Seq(Version)
  BY DEF LoopTypeOK
<1>3. events' \in [Keys -> Seq(Version)]
  BY <1>2 DEF LoopTypeOK, Write
<1> QED
  BY <1>1, <1>3

\* The status patch, field by field.
LEMMA StatusPatched ==
  ASSUME NEW v \in Bucket, NEW w \in Bucket
  PROVE  [v EXCEPT !.status.id = Merge(@, w.status.id, w.spec.name),
                   !.status.ready = Merge(@, w.status.ready, TRUE)] \in Bucket
BY DEF Bucket, BucketStatus, BucketSpec, Merge

\* The ends of a pass.
LEMMA PassEnds ==
  ASSUME LoopTypeOK, Finish \/ Retry, pc # "idle"
  PROVE  /\ queue' \in SUBSET Keys
         /\ pc' = "idle" /\ req' = NoKey /\ obj' = NoObject
         /\ pc' \in Steps /\ req' \in Keys \cup {NoKey} /\ obj' \in Version
BY DEF LoopTypeOK, Finish, Retry, Steps, Version

\* Every step of Reconcile, of the services and of the environment keeps the
\* types of the loop.
LEMMA LoopTypeStep ==
  ASSUME LoopTypeOK, [LoopNext]_loopVars
  PROVE  LoopTypeOK'
<1> USE LoopAssumption
<1>0. CASE UNCHANGED loopVars
  BY <1>0 DEF loopVars, LoopTypeOK
<1>1. ASSUME NEW k \in Keys, OthersAct(k)
      PROVE  LoopTypeOK'
  <2>1. \E v \in Version : Write(k, v)
    <3>1. CASE UserCreate(k)
      <4>1. PICK s \in Allowed[k] :
              Write(k, [spec |-> s, fin |-> FALSE, others |-> {}, deleting |-> FALSE,
                        status |-> [id |-> NoName, ready |-> FALSE]])
        BY <3>1 DEF UserCreate
      <4>2. [spec |-> s, fin |-> FALSE, others |-> {}, deleting |-> FALSE,
             status |-> [id |-> NoName, ready |-> FALSE]] \in Version
        BY DEF Version, Bucket, BucketStatus
      <4> QED
        BY <4>1, <4>2
    <3>2. CASE UserEdit(k)
      <4>1. PICK s \in Allowed[k] : Write(k, [api[k] EXCEPT !.spec = s])
        BY <3>2 DEF UserEdit
      <4>2. api[k] \in Bucket /\ s \in BucketSpec
        BY <3>2 DEF UserEdit, Exists, LoopTypeOK, Version
      <4> QED
        BY <4>1, <4>2 DEF Version, Bucket
    <3>3. CASE UserDelete(k)
      <4>1. api[k] \in Bucket
        BY <3>3 DEF UserDelete, Live, Exists, LoopTypeOK, Version
      <4>2. PICK fs \in SUBSET Foreign :
              Write(k, Stored([api[k] EXCEPT !.deleting = TRUE,
                                             !.others = @ \cup fs]))
        BY <3>3 DEF UserDelete
      <4>3. [api[k] EXCEPT !.deleting = TRUE, !.others = @ \cup fs] \in Bucket
        BY <4>1 DEF Bucket
      <4> QED
        BY <4>2, <4>3 DEF Stored, Version
    <3>4. CASE Hold(k)
      <4>1. api[k] \in Bucket
        BY <3>4 DEF Hold, Live, Exists, LoopTypeOK, Version
      <4>2. PICK f \in Foreign : Write(k, [api[k] EXCEPT !.others = @ \cup {f}])
        BY <3>4 DEF Hold
      <4>3. [api[k] EXCEPT !.others = @ \cup {f}] \in Bucket
        BY <4>1 DEF Bucket
      <4> QED
        BY <4>2, <4>3 DEF Version
    <3>5. CASE Release(k)
      <4>1. api[k] \in Bucket
        BY <3>5 DEF Release, Exists, LoopTypeOK, Version
      <4>2. PICK f \in Foreign :
              Write(k, Stored([api[k] EXCEPT !.others = @ \ {f}]))
        BY <3>5 DEF Release
      <4>3. [api[k] EXCEPT !.others = @ \ {f}] \in Bucket
        BY <4>1 DEF Bucket
      <4> QED
        BY <4>2, <4>3 DEF Stored, Version
    <3> QED
      BY <1>1, <3>1, <3>2, <3>3, <3>4, <3>5 DEF OthersAct
  <2>2. /\ api' \in [Keys -> Version] /\ cache' \in [Keys -> Version]
        /\ events' \in [Keys -> Seq(Version)]
    BY <2>1, WriteType 
  <2>3. UNCHANGED <<queue, pc, req, obj, faulty>>
    BY <1>1 DEF OthersAct, UserCreate, UserEdit, UserDelete, Hold, Release,
                workerVars
  <2> QED
    BY <1>1, <2>2, <2>3 DEF LoopTypeOK
<1>2. ASSUME NEW k \in Keys, Watch(k) \/ Resync(k)
      PROVE  LoopTypeOK'
  <2>1. CASE Watch(k)
    <3>1. events[k] \in Seq(Version) /\ events[k] # <<>>
      BY <2>1 DEF Watch, LoopTypeOK
    <3>2. Head(events[k]) \in Version /\ Tail(events[k]) \in Seq(Version)
      BY <3>1
    <3> QED
      BY <1>2, <2>1, <3>2 DEF Watch, LoopTypeOK
  <2>2. CASE Resync(k)
    BY <1>2, <2>2 DEF Resync, LoopTypeOK, clusterVars
  <2> QED
    BY <1>2, <2>1, <2>2
<1>3. CASE Crash
  BY <1>3 DEF Crash, LoopTypeOK, Version, Steps
<1>4. CASE Stabilize
  BY <1>4 DEF Stabilize, LoopTypeOK, clusterVars, workerVars
<1>5. ASSUME NEW k \in Keys, Begin(k) PROVE LoopTypeOK'
  <2>1. CASE cache[k] = NoObject
    BY <1>5, <2>1 DEF Begin, LoopTypeOK, clusterVars, Version
  <2>2. CASE cache[k] # NoObject
    BY <1>5, <2>2 DEF Begin, LoopTypeOK, clusterVars, Version, Steps
  <2> QED
    BY <2>1, <2>2
<1>6. CASE GetCluster
  <2>1. CASE Finish \/ Retry
    BY <1>6, <2>1, PassEnds DEF GetCluster, LoopTypeOK, clusterVars
  <2>2. CASE Goto(IF obj.deleting THEN "existsDelete" ELSE "addFinalizer") /\ UNCHANGED obj
    BY <1>6, <2>2 DEF GetCluster, Goto, LoopTypeOK, clusterVars, Steps
  <2> QED
    BY <1>6, <2>1, <2>2 DEF GetCluster, Fail
<1>7. CASE AddFinalizer \/ PatchStatus \/ RemoveFinalizer
  <2>1. /\ req \in Keys /\ obj \in Bucket /\ pc # "idle"
        /\ Exists(req) => api[req] \in Bucket
    BY <1>7 DEF AddFinalizer, PatchStatus, RemoveFinalizer, Exists,
                LoopTypeOK, Version
  <2>2. \/ UNCHANGED clusterVars
        \/ \E v \in Version : Write(req, v)
    <3>1. CASE AddFinalizer
      <4>1. \/ UNCHANGED clusterVars
            \/ Exists(req) /\ Write(req, Relisted(TRUE))
        BY <3>1 DEF AddFinalizer
      <4>2. Exists(req) => Relisted(TRUE) \in Version
        BY <2>1 DEF Version, Bucket, Relisted
      <4> QED
        BY <4>1, <4>2
    <3>2. CASE PatchStatus
      <4> DEFINE v == [api[req] EXCEPT
                      !.status.id = Merge(@, obj.status.id, obj.spec.name),
                      !.status.ready = Merge(@, obj.status.ready, TRUE)]
      <4>1. UNCHANGED clusterVars \/ (Exists(req) /\ Write(req, v))
        BY <3>2 DEF PatchStatus
      <4>2. Exists(req) => v \in Version
        BY <2>1, StatusPatched DEF Version
      <4> QED
        BY <4>1, <4>2
    <3>3. CASE RemoveFinalizer
      <4> DEFINE v == IF obj.fin THEN Stored(Relisted(FALSE)) ELSE api[req]
      <4>1. UNCHANGED clusterVars \/ (Exists(req) /\ Write(req, v))
        BY <3>3 DEF RemoveFinalizer
      <4>2. Exists(req) => Relisted(FALSE) \in Bucket
        BY <2>1 DEF Bucket, Relisted
      <4>3. Exists(req) => v \in Version
        BY <2>1, <4>2 DEF Stored, Version
      <4> QED
        BY <4>1, <4>3
    <3> QED
      BY <1>7, <3>1, <3>2, <3>3
  <2>3. /\ api' \in [Keys -> Version] /\ cache' \in [Keys -> Version]
        /\ events' \in [Keys -> Seq(Version)]
    BY <2>1, <2>2, WriteType DEF LoopTypeOK, clusterVars
  <2>4. /\ queue' \in SUBSET Keys /\ pc' \in Steps
        /\ req' \in Keys \cup {NoKey} /\ obj' \in Version
        /\ pc' = "idle" <=> req' = NoKey
        /\ pc' = "idle" <=> obj' = NoObject
    <3>1. CASE Finish \/ Retry
      BY <2>1, <3>1, PassEnds
    <3>2. CASE AddFinalizer /\ ~(Finish \/ Retry)
      <4>1. /\ Goto("exists")
            /\ \/ UNCHANGED obj
               \/ Exists(req) /\ obj' = Relisted(TRUE)
        BY <3>2 DEF AddFinalizer, Fail
      <4>2. obj' \in Bucket
        BY <2>1, <4>1 DEF Bucket, Relisted
      <4> QED
        BY <2>1, <4>1, <4>2 DEF Goto, LoopTypeOK, Version, Steps
    <3>3. CASE PatchStatus /\ ~(Finish \/ Retry)
      <4> DEFINE v == [api[req] EXCEPT
                      !.status.id = Merge(@, obj.status.id, obj.spec.name),
                      !.status.ready = Merge(@, obj.status.ready, TRUE)]
      <4>1. Exists(req) /\ v.spec.role # NoRole /\ obj' = v /\ Goto("role")
        BY <3>3 DEF PatchStatus, Fail
      <4>2. v \in Bucket
        BY <2>1, <4>1, StatusPatched
      <4> HIDE DEF v
      <4> QED
        BY <2>1, <4>1, <4>2 DEF Goto, LoopTypeOK, Version, Steps
    <3> QED
      BY <1>7, <3>1, <3>2, <3>3 DEF RemoveFinalizer, Fail
  <2> QED
    BY <1>7, <2>3, <2>4 DEF AddFinalizer, PatchStatus, RemoveFinalizer,
                            LoopTypeOK
<1>8. CASE ServiceMove
  <2>1. CASE UNCHANGED workerVars
    BY <1>8, <2>1 DEF ServiceMove, clusterVars, workerVars, LoopTypeOK
  <2>2. CASE pc # "idle" /\ (Finish \/ Retry)
    BY <1>8, <2>2, PassEnds DEF ServiceMove, clusterVars, LoopTypeOK
  <2>3. CASE /\ UNCHANGED <<queue, req, obj>> /\ pc # "idle"
             /\ pc' \in Steps \ {"idle"}
    BY <1>8, <2>3 DEF ServiceMove, clusterVars, LoopTypeOK
  <2> QED
    BY <1>8, <2>1, <2>2, <2>3 DEF ServiceMove, Steps
<1> QED
  BY <1>0, <1>1, <1>2, <1>3, <1>4, <1>5, <1>6, <1>7, <1>8
     DEF LoopNext, Environment, ControllerStep

(***************************************************************************)
(* The pipeline of versions under the changes it undergoes.                *)
(***************************************************************************)

\* What a pipeline holds after one more change.
LEMMA AtAppend ==
  ASSUME NEW c, NEW S, NEW e \in Seq(S), NEW v \in S
  PROVE  /\ Append(e, v) \in Seq(S)
         /\ Len(Append(e, v)) = Len(e) + 1
         /\ \A i \in 0..Len(e) : At(c, Append(e, v), i) = At(c, e, i)
         /\ At(c, Append(e, v), Len(e) + 1) = v
BY DEF At

\* What a pipeline holds after the watch has delivered one change.
LEMMA AtShift ==
  ASSUME NEW c, NEW S, NEW e \in Seq(S), e # <<>>
  PROVE  /\ Len(e) \in Nat \ {0}
         /\ Len(Tail(e)) = Len(e) - 1
         /\ \A i \in 0..Len(Tail(e)) :
               At(Head(e), Tail(e), i) = At(c, e, i + 1)
BY DEF At

\* A change keeps the pipeline in order if it is one the writers make.
LEMMA PipelineAppend ==
  ASSUME NEW c \in Version, NEW e \in Seq(Version), NEW a \in Version,
         NEW v \in Version,
         Pipeline(c, e, a),
         Held(v) => ~Some(Marked, c, e),
         Marked(v) => Held(a) \/ Marked(a),
         ~Marked(v) /\ Marked(a) => All(Marked, c, e),
         Some(Held, c, e) \/ Held(v) => v # NoObject /\ v.fin
  PROVE  Pipeline(c, Append(e, v), v)
<1> DEFINE f == Append(e, v)
           n == Len(e)
<1>1. /\ n \in Nat /\ Len(f) = n + 1
      /\ \A i \in 0..n : At(c, f, i) = At(c, e, i)
      /\ At(c, f, n + 1) = v
      /\ At(c, e, n) = a
  BY AtAppend DEF Pipeline
<1>0. \A x : Held(x) => ~Marked(x)
  BY DEF Held, Marked
<1> HIDE DEF f, n
<1>2. ASSUME NEW i \in 0..n + 1, NEW j \in 0..n + 1, i < j, Marked(At(c, f, i))
      PROVE  ~Held(At(c, f, j))
  <2>1. i \in 0..n /\ Marked(At(c, e, i))
    BY <1>1, <1>2
  <2>2. CASE j = n + 1
    BY <1>1, <2>1, <2>2 DEF Some, n
  <2>3. CASE j \in 0..n
    BY <1>1, <1>2, <2>1, <2>3 DEF Pipeline, n
  <2> QED
    BY <1>1, <2>2, <2>3
<1>3. ASSUME NEW i \in 0..n + 1, NEW m \in 0..n + 1, NEW j \in 0..n + 1,
             i < m, m < j, Marked(At(c, f, i)), Marked(At(c, f, j))
      PROVE  Marked(At(c, f, m))
  <2>1. i \in 0..n /\ Marked(At(c, e, i)) /\ m \in 0..n
        /\ At(c, f, m) = At(c, e, m) /\ i < n
    BY <1>1, <1>3
  <2>2. CASE j = n + 1
    <3>1. Marked(a)
      BY <1>1, <1>3, <2>1, <2>2 DEF Pipeline, n
    <3> QED
      BY <1>1, <1>3, <2>1, <3>1 DEF Pipeline, n
  <2>3. CASE j \in 0..n
    BY <1>1, <1>3, <2>1, <2>3 DEF Pipeline, n
  <2> QED
    BY <1>1, <2>2, <2>3
<1>4. ASSUME ~Marked(v), NEW i \in 0..n + 1, NEW j \in 0..n + 1, j < i,
             Marked(At(c, f, i))
      PROVE  Marked(At(c, f, j))
  <2>1. i \in 0..n /\ Marked(At(c, e, i)) /\ j \in 0..n
        /\ At(c, f, j) = At(c, e, j)
    BY <1>1, <1>4
  <2> QED
    BY <1>4, <2>1 DEF Pipeline, All, n
<1>5. Some(Held, c, f) => v # NoObject /\ v.fin
  BY <1>1 DEF Some, n
<1> QED
  BY <1>1, <1>2, <1>3, <1>4, <1>5 DEF Pipeline, f, n

\* Delivery keeps it in order.
LEMMA PipelineShift ==
  ASSUME NEW c \in Version, NEW e \in Seq(Version), NEW a \in Version,
         Pipeline(c, e, a), e # <<>>
  PROVE  /\ Pipeline(Head(e), Tail(e), a)
         /\ Some(Held, Head(e), Tail(e)) => Some(Held, c, e)
         /\ Some(Marked, Head(e), Tail(e)) => Some(Marked, c, e)
         /\ All(Marked, c, e) => All(Marked, Head(e), Tail(e))
<1> DEFINE f == Tail(e)
           d == Head(e)
           n == Len(e)
<1>1. /\ n \in Nat \ {0} /\ Len(f) = n - 1
      /\ \A i \in 0..n - 1 : At(d, f, i) = At(c, e, i + 1) /\ i + 1 \in 0..n
      /\ At(c, e, n) = a
  BY AtShift DEF Pipeline
<1> HIDE DEF f, d
<1>2. At(d, f, n - 1) = a
  BY <1>1
<1>3. ASSUME NEW i \in 0..n - 1, NEW j \in 0..n - 1, i < j, Marked(At(d, f, i))
      PROVE  ~Held(At(d, f, j))
  BY <1>1, <1>3 DEF Pipeline
<1>4. ASSUME NEW i \in 0..n - 1, NEW m \in 0..n - 1, NEW j \in 0..n - 1,
             i < m, m < j, Marked(At(d, f, i)), Marked(At(d, f, j))
      PROVE  Marked(At(d, f, m))
  BY <1>1, <1>4 DEF Pipeline
<1>5. ASSUME ~Marked(a), NEW i \in 0..n - 1, NEW j \in 0..n - 1, j < i,
             Marked(At(d, f, i))
      PROVE  Marked(At(d, f, j))
  BY <1>1, <1>5 DEF Pipeline
<1>6. /\ Some(Held, d, f) => Some(Held, c, e)
      /\ Some(Marked, d, f) => Some(Marked, c, e)
      /\ All(Marked, c, e) => All(Marked, d, f)
  BY <1>1 DEF Some, All
<1> QED
  BY <1>1, <1>2, <1>3, <1>4, <1>5, <1>6 DEF Pipeline, f, d

\* A cache just filled from the API server.
LEMMA PipelineFresh ==
  ASSUME NEW a \in Version
  PROVE  Pipeline(a, <<>>, a)
BY DEF Pipeline, At, Some, Held

(***************************************************************************)
(* Writes to the API server.                                               *)
(***************************************************************************)

\* A new version v after a that gives up neither a finalizer nor a mark, adds
\* no finalizer, and marks only what the finalizer holds: what users and the
\* status patch write.
Benign(a, v) ==
    /\ Held(v) => Held(a)
    /\ Marked(v) => Marked(a) \/ Held(a)
    /\ Marked(a) => Marked(v)
    /\ a # NoObject /\ a.fin => v # NoObject /\ v.fin

\* The version v, if live and ready, was so already.
NoNews(a, v) ==
    v # NoObject /\ ~v.deleting /\ v.status.ready =>
       a # NoObject /\ ~a.deleting /\ v.status = a.status

\* The order on versions that PipelineAppend asks for.
Lawful(c, e, a, v) ==
    /\ Held(v) => ~Some(Marked, c, e)
    /\ Marked(v) => Held(a) \/ Marked(a)
    /\ ~Marked(v) /\ Marked(a) => All(Marked, c, e)
    /\ Some(Held, c, e) \/ Held(v) => v # NoObject /\ v.fin

\* A write that keeps finalizer and mark is one that the pipeline allows.
LEMMA BenignIsLawful ==
  ASSUME NEW c \in Version, NEW e \in Seq(Version), NEW a \in Version,
         NEW v \in Version, Pipeline(c, e, a), Benign(a, v)
  PROVE  Lawful(c, e, a, v)
<1>1. Len(e) \in Nat
  OBVIOUS
<1>2. ASSUME Held(v), NEW i \in 0..Len(e), Marked(At(c, e, i)) PROVE FALSE
  <2>1. Held(a) /\ ~Marked(a) /\ At(c, e, Len(e)) = a
    BY <1>2 DEF Benign, Pipeline, Held, Marked
  <2>2. i < Len(e)
    BY <1>1, <1>2, <2>1
  <2> QED
    BY <1>1, <1>2, <2>1, <2>2 DEF Pipeline
<1>3. Some(Held, c, e) \/ Held(v) => v # NoObject /\ v.fin
  BY DEF Pipeline, Benign, Held
<1> QED
  BY <1>2, <1>3 DEF Lawful, Some, Benign

\* A lawful write of a genuine version keeps every pipeline in order.
LEMMA LawfulWrite ==
  ASSUME LoopTypeOK, LoopInv, NEW k \in Keys, NEW v \in Version, Write(k, v),
         Genuine(k, v), v # api[k] => Lawful(cache[k], events[k], api[k], v)
  PROVE  /\ \A l \in Keys : Pipeline(cache'[l], events'[l], api'[l])
         /\ \A l \in Keys : \A i \in 0..Len(events'[l]) :
               Genuine(l, At(cache'[l], events'[l], i))
         /\ \A l \in Keys : l # k =>
               cache'[l] = cache[l] /\ events'[l] = events[l] /\ api'[l] = api[l]
         /\ api'[k] = v
         /\ Some(Held, cache'[k], events'[k]) =>
               Some(Held, cache[k], events[k]) \/ Held(v)
         /\ Some(Marked, cache'[k], events'[k]) =>
               Some(Marked, cache[k], events[k]) \/ Marked(v)
         /\ All(Marked, cache[k], events[k]) /\ Marked(v) =>
               All(Marked, cache'[k], events'[k])
<1> DEFINE c == cache[k]
           e == events[k]
           f == Append(e, v)
<1>1. /\ c \in Version /\ e \in Seq(Version) /\ api[k] \in Version
      /\ Pipeline(c, e, api[k])
      /\ \A i \in 0..Len(e) : Genuine(k, At(c, e, i))
  BY DEF LoopTypeOK, LoopInv
<1>2. \A l \in Keys : l # k =>
         cache'[l] = cache[l] /\ events'[l] = events[l] /\ api'[l] = api[l]
  BY DEF Write, LoopTypeOK
<1>3. api'[k] = v /\ cache'[k] = c
  BY DEF Write, LoopTypeOK
<1>4. CASE v = api[k]
  <2>1. cache' = cache /\ events' = events /\ api' = api
    BY <1>4 DEF Write, LoopTypeOK
  <2> QED
    BY <1>2, <1>3, <2>1 DEF LoopInv
<1>5. CASE v # api[k]
  <2>1. events'[k] = f
    BY <1>5 DEF Write, LoopTypeOK
  <2>2. Pipeline(c, f, v)
    BY <1>1, <1>5, PipelineAppend DEF Lawful
  <2>3. /\ Len(e) \in Nat /\ Len(f) = Len(e) + 1
        /\ \A i \in 0..Len(e) : At(c, f, i) = At(c, e, i)
        /\ At(c, f, Len(e) + 1) = v
    BY <1>1, AtAppend
  <2> HIDE DEF c, e, f
  <2>4. \A i \in 0..Len(f) : Genuine(k, At(c, f, i))
    BY <1>1, <2>3
  <2>5. /\ Some(Held, c, f) => Some(Held, c, e) \/ Held(v)
        /\ Some(Marked, c, f) => Some(Marked, c, e) \/ Marked(v)
        /\ All(Marked, c, e) /\ Marked(v) => All(Marked, c, f)
    BY <2>3 DEF Some, All
  <2>6. \A l \in Keys : l # k =>
           /\ Pipeline(cache'[l], events'[l], api'[l])
           /\ \A i \in 0..Len(events'[l]) :
                 Genuine(l, At(cache'[l], events'[l], i))
    BY <1>2 DEF LoopInv
  <2> QED
    BY <1>2, <1>3, <2>1, <2>2, <2>4, <2>5, <2>6 DEF c, e
<1> QED
  BY <1>4, <1>5

\* A benign write keeps what a pass relies on.
LEMMA BenignWrite ==
  ASSUME LoopTypeOK, LoopInv, NEW k \in Keys, NEW v \in Version, Write(k, v),
         Genuine(k, v), Benign(api[k], v), NEW l \in Keys
  PROVE  /\ Pipeline(cache[l], events[l], api[l])'
         /\ (\A i \in 0..Len(events[l]) : Genuine(l, At(cache[l], events[l], i)))'
         /\ Exists(l) /\ api[l].fin => (Exists(l) /\ api[l].fin)'
         /\ (Some(Marked, cache[l], events[l]) => Marked(api[l])) =>
               (Some(Marked, cache[l], events[l]) => Marked(api[l]))'
         /\ ~Some(Held, cache[l], events[l]) =>
               (~Some(Held, cache[l], events[l]))'
         /\ (/\ ~Some(Held, cache[l], events[l])
             /\ Marked(api[l]) => All(Marked, cache[l], events[l])) =>
               (Marked(api[l]) => All(Marked, cache[l], events[l]))'
<1>1. /\ cache[k] \in Version /\ events[k] \in Seq(Version)
      /\ api[k] \in Version /\ Pipeline(cache[k], events[k], api[k])
  BY DEF LoopTypeOK, LoopInv
<1>2. Lawful(cache[k], events[k], api[k], v)
  BY <1>1, BenignIsLawful
<1>3. Held(api[k]) => Some(Held, cache[k], events[k])
  BY <1>1 DEF Some, Pipeline
<1>4. CASE l # k
  BY <1>2, <1>4, LawfulWrite DEF Exists
<1>5. CASE l = k
  BY <1>2, <1>3, <1>5, LawfulWrite DEF Benign, Exists
<1> QED
  BY <1>4, <1>5

(***************************************************************************)
(* The invariant of the loop.                                              *)
(***************************************************************************)

\* Two versions of one object name the same bucket and role, versions of two
\* objects never do.
LEMMA SameNames ==
  ASSUME Exclusive, LoopAssumption, NEW k \in Keys, NEW l \in Keys,
         NEW v \in Bucket, NEW w \in Bucket, Genuine(k, v), Genuine(l, w)
  PROVE  /\ k = l => v.spec.name = w.spec.name /\ v.spec.role = w.spec.role
         /\ v.spec.name = w.spec.name => k = l
         /\ v.spec.role = w.spec.role /\ v.spec.role # NoRole => k = l
<1>1. v # NoObject /\ w # NoObject
  BY DEF LoopAssumption
<1>2. v.spec \in Allowed[k] /\ w.spec \in Allowed[l]
  BY <1>1 DEF Genuine
<1> QED
  BY <1>2 DEF Exclusive

\* The API server's version is genuine.
LEMMA ApiGenuine ==
  ASSUME LoopTypeOK, LoopInv, NEW k \in Keys
  PROVE  /\ Genuine(k, api[k]) /\ Genuine(k, cache[k])
         /\ Marked(api[k]) => Some(Marked, cache[k], events[k])
         /\ Held(api[k]) => Some(Held, cache[k], events[k])
         /\ Marked(cache[k]) => Some(Marked, cache[k], events[k])
         /\ Held(cache[k]) => Some(Held, cache[k], events[k])
<1>1. Len(events[k]) \in Nat
  BY DEF LoopTypeOK
<1>2. 0 \in 0..Len(events[k]) /\ At(cache[k], events[k], 0) = cache[k]
  BY <1>1 DEF At
<1>3. /\ Len(events[k]) \in 0..Len(events[k])
      /\ At(cache[k], events[k], Len(events[k])) = api[k]
  <2>1. Pipeline(cache[k], events[k], api[k])
    BY DEF LoopInv
  <2> QED
    BY <1>1, <2>1 DEF Pipeline
<1> QED
  BY <1>2, <1>3 DEF LoopInv, Some

\* Users and other controllers make benign writes of genuine versions.
LEMMA OthersWrite ==
  ASSUME LoopAssumption, Exclusive, LoopTypeOK, LoopInv, NEW k \in Keys,
         OthersAct(k)
  PROVE  /\ \E v \in Version : /\ Write(k, v) /\ Genuine(k, v)
                               /\ Benign(api[k], v) /\ NoNews(api[k], v)
         /\ UNCHANGED <<queue, pc, req, obj, faulty>>
<1>1. UNCHANGED <<queue, pc, req, obj, faulty>>
  BY DEF OthersAct, UserCreate, UserEdit, UserDelete, Hold, Release, workerVars
<1>2. Genuine(k, api[k])
  BY ApiGenuine
<1>3. CASE UserCreate(k)
  <2>1. PICK s \in Allowed[k] :
          Write(k, [spec |-> s, fin |-> FALSE, others |-> {}, deleting |-> FALSE,
                    status |-> [id |-> NoName, ready |-> FALSE]])
    BY <1>3 DEF UserCreate
  <2> DEFINE v == [spec |-> s, fin |-> FALSE, others |-> {}, deleting |-> FALSE,
                   status |-> [id |-> NoName, ready |-> FALSE]]
  <2>2. v \in Version
    BY DEF LoopAssumption, Version, Bucket, BucketStatus
  <2>3. Genuine(k, v)
    BY DEF Genuine
  <2>4. Benign(api[k], v)
    BY <1>3 DEF UserCreate, Exists, Benign, Held, Marked
  <2>5. NoNews(api[k], v)
    BY DEF NoNews
  <2> QED
    BY <1>1, <2>1, <2>2, <2>3, <2>4, <2>5
<1>4. CASE UserEdit(k)
  <2>1. PICK s \in Allowed[k] : Write(k, [api[k] EXCEPT !.spec = s])
    BY <1>4 DEF UserEdit
  <2> DEFINE v == [api[k] EXCEPT !.spec = s]
  <2>2. api[k] \in Bucket /\ s \in BucketSpec
    BY <1>4 DEF UserEdit, Exists, LoopTypeOK, Version, LoopAssumption
  <2>3. /\ v \in Bucket /\ v.spec = s /\ v.fin = api[k].fin
        /\ v.others = api[k].others
        /\ v.deleting = api[k].deleting /\ v.status = api[k].status
        /\ v # NoObject /\ api[k] # NoObject
    BY <2>2 DEF Bucket, LoopAssumption
  <2>4. api[k].spec \in Allowed[k] /\ api[k].spec.name = s.name
    BY <1>2, <2>3 DEF Genuine, Exclusive
  <2> HIDE DEF v
  <2>5. Genuine(k, v)
    BY <1>2, <2>3, <2>4 DEF Genuine
  <2>6. Benign(api[k], v) /\ NoNews(api[k], v)
    BY <2>3 DEF Benign, NoNews, Held, Marked
  <2> QED
    BY <1>1, <2>1, <2>3, <2>5, <2>6 DEF Version, v
<1>5. CASE UserDelete(k)
  <2>1. PICK fs \in SUBSET Foreign :
          Write(k, Stored([api[k] EXCEPT !.deleting = TRUE, !.others = @ \cup fs]))
    BY <1>5 DEF UserDelete
  <2> DEFINE w == [api[k] EXCEPT !.deleting = TRUE, !.others = @ \cup fs]
             v == Stored(w)
  <2>2. api[k] \in Bucket /\ ~api[k].deleting
    BY <1>5 DEF UserDelete, Live, Exists, LoopTypeOK, Version, LoopAssumption
  <2>3. /\ w \in Bucket /\ w.spec = api[k].spec /\ w.fin = api[k].fin
        /\ w.deleting /\ w.status = api[k].status
        /\ w # NoObject /\ api[k] # NoObject
    BY <2>2 DEF Bucket, LoopAssumption
  <2> HIDE DEF w
  <2>4. v = IF w.fin \/ w.others # {} THEN w ELSE NoObject
    BY <2>3 DEF Stored, Bucket
  <2>5. Genuine(k, v) /\ v \in Version
    BY <1>2, <2>3, <2>4 DEF Genuine, Version
  <2>6. Benign(api[k], v) /\ NoNews(api[k], v)
    BY <2>2, <2>3, <2>4 DEF Benign, NoNews, Held, Marked
  <2> QED
    BY <1>1, <2>1, <2>5, <2>6 DEF w
<1>6. CASE Hold(k)
  <2>1. PICK f \in Foreign : Write(k, [api[k] EXCEPT !.others = @ \cup {f}])
    BY <1>6 DEF Hold
  <2> DEFINE v == [api[k] EXCEPT !.others = @ \cup {f}]
  <2>2. api[k] \in Bucket
    BY <1>6 DEF Hold, Live, Exists, LoopTypeOK, Version
  <2>3. /\ v \in Bucket /\ v.spec = api[k].spec /\ v.fin = api[k].fin
        /\ v.deleting = api[k].deleting /\ v.status = api[k].status
        /\ v # NoObject /\ api[k] # NoObject /\ ~api[k].deleting
    BY <1>6, <2>2 DEF Bucket, LoopAssumption, Hold, Live
  <2> HIDE DEF v
  <2>4. Genuine(k, v)
    BY <1>2, <2>3 DEF Genuine
  <2>5. Benign(api[k], v) /\ NoNews(api[k], v)
    BY <2>3 DEF Benign, NoNews, Held, Marked
  <2> QED
    BY <1>1, <2>1, <2>3, <2>4, <2>5 DEF Version, v
<1>7. CASE Release(k)
  <2>1. PICK f \in Foreign : Write(k, Stored([api[k] EXCEPT !.others = @ \ {f}]))
    BY <1>7 DEF Release
  <2> DEFINE w == [api[k] EXCEPT !.others = @ \ {f}]
             v == Stored(w)
  <2>2. api[k] \in Bucket
    BY <1>7 DEF Release, Exists, LoopTypeOK, Version
  <2>3. /\ w \in Bucket /\ w.spec = api[k].spec /\ w.fin = api[k].fin
        /\ w.deleting = api[k].deleting /\ w.status = api[k].status
        /\ w # NoObject /\ api[k] # NoObject
    BY <2>2 DEF Bucket, LoopAssumption
  <2> HIDE DEF w
  <2>4. v = IF w.deleting /\ ~w.fin /\ w.others = {} THEN NoObject ELSE w
    BY DEF Stored
  <2>5. Genuine(k, v) /\ v \in Version
    BY <1>2, <2>3, <2>4 DEF Genuine, Version
  <2>6. Benign(api[k], v) /\ NoNews(api[k], v)
    BY <2>3, <2>4 DEF Benign, NoNews, Held, Marked
  <2> QED
    BY <1>1, <2>1, <2>5, <2>6 DEF w
<1> QED
  BY <1>3, <1>4, <1>5, <1>6, <1>7 DEF OthersAct

\* A pass that ends leaves nothing to rely on, and a step that leaves the
\* object's versions and the copy alone keeps its path.
LEMMA PassMoves ==
  ASSUME LoopTypeOK, LoopInv, UNCHANGED <<api, cache, events>>,
         \/ pc' = "idle"
         \/ /\ UNCHANGED <<req, obj>>
            /\ \/ pc \in HoldingSteps /\ pc' \in HoldingSteps
               \/ pc \in DeletingSteps /\ pc' \in DeletingSteps
               \/ /\ pc = "getCluster"
                  /\ pc' = IF obj.deleting THEN "existsDelete" ELSE "addFinalizer"
               \/ UNCHANGED pc
  PROVE  LoopInv'
<1>1. CASE pc' = "idle"
  BY <1>1 DEF LoopInv, PassInv, Normal, Deleting, HoldingSteps, DeletingSteps
<1>2. CASE UNCHANGED <<req, obj, pc>>
  BY <1>2 DEF LoopInv, PassInv, Normal, Deleting, Exists
<1>3. CASE /\ UNCHANGED <<req, obj>>
           /\ \/ pc \in HoldingSteps /\ pc' \in HoldingSteps
              \/ pc \in DeletingSteps /\ pc' \in DeletingSteps
              \/ /\ pc = "getCluster"
                 /\ pc' = IF obj.deleting THEN "existsDelete" ELSE "addFinalizer"
  <2>1. PassInv'
    BY <1>3 DEF LoopInv, PassInv, Normal, Deleting, Exists, HoldingSteps,
                DeletingSteps
  <2> QED
    BY <2>1 DEF LoopInv
<1> QED
  BY <1>1, <1>2, <1>3

\* A benign write keeps the invariant whatever pass is running.
LEMMA BenignKeeps ==
  ASSUME LoopTypeOK, LoopInv, NEW k \in Keys, NEW v \in Version, Write(k, v),
         Genuine(k, v), Benign(api[k], v), UNCHANGED <<pc, req, obj>>
  PROVE  LoopInv'
<1>1. pc # "idle" => req \in Keys
  BY DEF LoopTypeOK
<1>2. PassInv'
  <2>1. CASE pc = "idle"
    BY <2>1 DEF PassInv, Normal, Deleting, HoldingSteps, DeletingSteps
  <2>2. CASE pc # "idle"
    BY <1>1, <2>2, BenignWrite DEF LoopInv, PassInv, Normal, Deleting
  <2> QED
    BY <2>1, <2>2
<1> QED
  BY <1>2, BenignWrite DEF LoopInv

\* The informer takes the next version into its cache (Watch): the pipeline
\* gets shorter and loses its oldest version only.
LEMMA WatchKeeps ==
  ASSUME LoopTypeOK, LoopInv, NEW k \in Keys, Watch(k)
  PROVE  LoopInv'
<1>1. /\ cache[k] \in Version /\ events[k] \in Seq(Version)
      /\ api[k] \in Version /\ events[k] # <<>>
      /\ Pipeline(cache[k], events[k], api[k])
      /\ \A i \in 0..Len(events[k]) : Genuine(k, At(cache[k], events[k], i))
  BY DEF Watch, LoopTypeOK, LoopInv
<1>2. /\ cache'[k] = Head(events[k]) /\ events'[k] = Tail(events[k])
      /\ \A l \in Keys : l # k => cache'[l] = cache[l] /\ events'[l] = events[l]
      /\ UNCHANGED <<api, pc, req, obj>>
  BY DEF Watch, LoopTypeOK
<1>3. /\ Pipeline(cache'[k], events'[k], api'[k])
      /\ Some(Held, cache'[k], events'[k]) => Some(Held, cache[k], events[k])
      /\ Some(Marked, cache'[k], events'[k]) => Some(Marked, cache[k], events[k])
      /\ All(Marked, cache[k], events[k]) => All(Marked, cache'[k], events'[k])
  BY <1>1, <1>2, PipelineShift
<1>4. \A i \in 0..Len(events'[k]) : Genuine(k, At(cache'[k], events'[k], i))
  <2> SUFFICES ASSUME NEW i \in 0..Len(Tail(events[k]))
               PROVE  Genuine(k, At(Head(events[k]), Tail(events[k]), i))
    BY <1>2
  <2>1. /\ i + 1 \in 0..Len(events[k])
        /\ At(Head(events[k]), Tail(events[k]), i) = At(cache[k], events[k], i + 1)
    BY <1>1, AtShift
  <2> QED
    BY <1>1, <2>1
<1>5. PassInv'
  <2>1. CASE req = k
    BY <1>2, <1>3, <2>1 DEF LoopInv, PassInv, Normal, Deleting, Exists
  <2>2. CASE req # k
    <3>1. pc # "idle" => req \in Keys
      BY DEF LoopTypeOK
    <3>2. CASE pc = "idle"
      BY <1>2, <3>2 DEF PassInv, Normal, Deleting, HoldingSteps, DeletingSteps
    <3>3. CASE pc # "idle"
      BY <1>2, <2>2, <3>1, <3>3 DEF LoopInv, PassInv, Normal, Deleting, Exists
    <3> QED
      BY <3>2, <3>3
  <2> QED
    BY <2>1, <2>2
<1> QED
  BY <1>2, <1>3, <1>4, <1>5 DEF LoopInv

\* A pass begins with the cached version (Begin), and what holds of that
\* version holds of the pass's copy.
LEMMA BeginKeeps ==
  ASSUME LoopTypeOK, LoopInv, NEW k \in Keys, Begin(k)
  PROVE  LoopInv'
<1>0. UNCHANGED <<api, cache, events>> /\ obj' = cache[k] /\ pc = "idle"
  BY DEF Begin, clusterVars
<1>1. CASE cache[k] = NoObject
  BY <1>0, <1>1, PassMoves DEF Begin
<1>2. CASE cache[k] # NoObject
  <2> DEFINE c == cache[k]
             e == events[k]
             a == api[k]
  <2>1. pc' = "getCluster" /\ req' = k
    BY <1>2 DEF Begin
  <2>2. /\ Pipeline(c, e, a) /\ Len(e) \in Nat
        /\ At(c, e, 0) = c /\ At(c, e, Len(e)) = a
    <3>1. Pipeline(c, e, a) /\ Len(e) \in Nat
      BY DEF LoopInv, LoopTypeOK
    <3> QED
      BY <3>1 DEF At, Pipeline
  <2>3. Genuine(k, c) /\ (Held(c) => a # NoObject /\ a.fin)
    BY <2>2, ApiGenuine DEF Pipeline
  <2>4. ASSUME ~c.deleting, Some(Marked, c, e), ~Marked(a) PROVE FALSE
    <3>1. PICK i \in 0..Len(e) : Marked(At(c, e, i))
      BY <2>4 DEF Some
    <3>2. ~Marked(c)
      BY <2>4 DEF Marked
    <3>3. 0 < i
      BY <2>2, <3>1, <3>2
    <3> QED
      BY <2>2, <2>4, <3>1, <3>2, <3>3 DEF Pipeline
  <2>5. ASSUME c.deleting, c.fin
        PROVE  ~Some(Held, c, e) /\ (Marked(a) => All(Marked, c, e))
    <3>1. Marked(c) /\ ~Held(c)
      BY <1>2, <2>5 DEF Marked, Held
    <3>2. ASSUME NEW i \in 0..Len(e) PROVE ~Held(At(c, e, i))
      <4>1. CASE i = 0
        BY <2>2, <3>1, <4>1
      <4>2. CASE 0 < i
        BY <2>2, <3>1, <4>2 DEF Pipeline
      <4> QED
        BY <2>2, <4>1, <4>2
    <3>3. ASSUME Marked(a), NEW i \in 0..Len(e) PROVE Marked(At(c, e, i))
      <4>1. CASE i = 0 \/ i = Len(e)
        BY <2>2, <3>1, <3>3, <4>1
      <4>2. CASE 0 < i /\ i < Len(e)
        BY <2>2, <3>1, <3>3, <4>2 DEF Pipeline
      <4> QED
        BY <2>2, <4>1, <4>2
    <3> QED
      BY <3>2, <3>3 DEF Some, All
  <2> HIDE DEF c, e, a
  <2>6. PassInv'
    BY <1>0, <2>1, <2>3, <2>4, <2>5
       DEF PassInv, Normal, Deleting, Exists, HoldingSteps, DeletingSteps, c, e, a
  <2> QED
    BY <1>0, <2>6 DEF LoopInv
<1> QED
  BY <1>1, <1>2

\* After a restart (Crash) cache and API server agree and no pass runs.
LEMMA CrashKeeps ==
  ASSUME LoopTypeOK, LoopInv, Crash
  PROVE  LoopInv'
<1>1. pc' = "idle" /\ api' = api /\ cache' = api
      /\ events' = [k \in Keys |-> <<>>]
  BY DEF Crash
<1>2. PassInv'
  BY <1>1 DEF PassInv, Normal, Deleting, HoldingSteps, DeletingSteps
<1>3. ASSUME NEW k \in Keys
      PROVE  /\ Pipeline(cache'[k], events'[k], api'[k])
             /\ \A i \in 0..Len(events'[k]) :
                   Genuine(k, At(cache'[k], events'[k], i))
  <2>1. events'[k] = <<>> /\ cache'[k] = api[k] /\ api'[k] = api[k]
        /\ api[k] \in Version
    BY <1>1 DEF LoopTypeOK
  <2>2. Genuine(k, api[k])
    BY ApiGenuine
  <2> QED
    BY <2>1, <2>2, PipelineFresh DEF At
<1> QED
  BY <1>2, <1>3 DEF LoopInv

\* The pipelines in order and the pass over make the invariant.
LEMMA IdleKeeps ==
  ASSUME pc' = "idle",
         \A l \in Keys : Pipeline(cache'[l], events'[l], api'[l]),
         \A l \in Keys : \A i \in 0..Len(events'[l]) :
            Genuine(l, At(cache'[l], events'[l], i))
  PROVE  LoopInv'
<1>1. PassInv'
  BY DEF PassInv, Normal, Deleting, HoldingSteps, DeletingSteps
<1> QED
  BY <1>1 DEF LoopInv

\* The pass that adds the finalizer may do so: its copy was not marked, so no
\* marked version is on its way.
LEMMA AddFinalizerKeeps ==
  ASSUME LoopAssumption, LoopTypeOK, LoopInv, AddFinalizer
  PROVE  LoopInv'
<1>1. /\ pc = "addFinalizer" /\ req \in Keys /\ obj \in Bucket /\ obj # NoObject
      /\ ~obj.deleting
  BY DEF AddFinalizer, LoopTypeOK, Version, LoopInv, PassInv
<1>2. CASE obj.fin
  <2>1. UNCHANGED <<api, cache, events, req, obj>> /\ pc' = "exists"
    BY <1>2 DEF AddFinalizer, Goto, clusterVars
  <2>2. Exists(req) /\ api[req].fin
    BY <1>1, <1>2 DEF LoopInv, PassInv, Held
  <2>3. PassInv'
    BY <1>1, <2>1, <2>2 DEF LoopInv, PassInv, Normal, Deleting, Exists,
                            HoldingSteps, DeletingSteps
  <2> QED
    BY <2>1, <2>3 DEF LoopInv
<1>3. CASE Retry /\ UNCHANGED clusterVars
  BY <1>3, PassMoves DEF Retry, clusterVars
<1> DEFINE v == Relisted(TRUE)
<1>4. CASE /\ ~obj.fin /\ Exists(req) /\ ~Refuses(TRUE) /\ Write(req, v)
           /\ (obj' = v /\ Goto("exists")) \/ Retry
  <2>1. api[req] \in Bucket /\ Genuine(req, api[req])
    BY <1>1, <1>4, ApiGenuine DEF LoopTypeOK, Version, Exists
  <2>2. /\ v \in Bucket /\ v # NoObject /\ v.fin /\ v.spec = api[req].spec
        /\ v.deleting = api[req].deleting /\ v.status = api[req].status
        /\ api[req].deleting => api[req].fin
    BY <1>1, <1>4, <2>1 DEF Bucket, LoopAssumption, Relisted, Refuses
  <2> HIDE DEF v
  <2>3. Genuine(req, v) /\ v \in Version
    BY <1>4, <2>1, <2>2 DEF Genuine, Version, Exists
  <2>4. Some(Marked, cache[req], events[req]) => Marked(api[req])
    BY <1>1 DEF LoopInv, PassInv, Normal
  <2>5. v # api[req] => Lawful(cache[req], events[req], api[req], v)
    <3>1. Marked(v) <=> Marked(api[req])
      BY <1>4, <2>2 DEF Marked, Exists
    <3>2. Held(v) => ~Marked(api[req])
      BY <3>1 DEF Held, Marked
    <3> QED
      BY <2>2, <2>4, <3>1, <3>2 DEF Lawful
  <2>6. /\ \A l \in Keys : Pipeline(cache'[l], events'[l], api'[l])
        /\ \A l \in Keys : \A i \in 0..Len(events'[l]) :
              Genuine(l, At(cache'[l], events'[l], i))
        /\ api'[req] = v
        /\ Some(Marked, cache'[req], events'[req]) =>
              Some(Marked, cache[req], events[req]) \/ Marked(v)
    BY <1>1, <1>4, <2>3, <2>5, LawfulWrite
  <2>7. CASE Retry
    BY <2>6, <2>7, IdleKeeps DEF Retry
  <2>8. CASE obj' = v /\ Goto("exists")
    <3>1. pc' = "exists" /\ req' = req
      BY <2>8 DEF Goto
    <3>2. Some(Marked, cache'[req], events'[req]) => Marked(v)
      BY <1>4, <2>2, <2>4, <2>6 DEF Marked, Exists
    <3>3. PassInv'
      BY <2>2, <2>3, <2>6, <2>8, <3>1, <3>2
         DEF PassInv, Normal, Deleting, Exists, HoldingSteps, DeletingSteps
    <3> QED
      BY <2>6, <3>3 DEF LoopInv
  <2> QED
    BY <1>4, <2>7, <2>8
<1> QED
  BY <1>2, <1>3, <1>4 DEF AddFinalizer, Fail

\* A status is what its two fields are.
LEMMA StatusFields ==
  ASSUME NEW s \in BucketStatus, NEW t \in BucketStatus,
         s.id = t.id, s.ready = t.ready
  PROVE  s = t
BY DEF BucketStatus

\* What the status patch stores differs from the stored object in its status
\* only, which is genuine.
LEMMA StatusWritten ==
  ASSUME LoopAssumption, Exclusive, LoopTypeOK, LoopInv, pc = "status",
         NEW v, v = [api[req] EXCEPT
                       !.status.id = Merge(@, obj.status.id, obj.spec.name),
                       !.status.ready = Merge(@, obj.status.ready, TRUE)]
  PROVE  /\ req \in Keys /\ obj \in Bucket /\ api[req] \in Bucket
         /\ v \in Bucket /\ v # NoObject /\ Genuine(req, v)
         /\ v.spec = api[req].spec /\ v.fin = api[req].fin
         /\ v.deleting = api[req].deleting
         /\ Benign(api[req], v)
         /\ v.status = [id |-> obj.spec.name, ready |-> TRUE]
            \/ v.status = api[req].status
         /\ obj.spec.name = v.spec.name
<1>1. /\ req \in Keys /\ obj \in Bucket /\ api[req] \in Bucket
      /\ Genuine(req, obj) /\ Genuine(req, api[req])
      /\ obj # NoObject /\ api[req] # NoObject
  BY ApiGenuine DEF LoopTypeOK, Version, LoopInv, PassInv, HoldingSteps, Exists,
                    LoopAssumption
<1>2. obj.spec.name = api[req].spec.name
  BY <1>1, SameNames
<1>3. /\ v \in Bucket /\ v.spec = api[req].spec /\ v.fin = api[req].fin
      /\ v.others = api[req].others
      /\ v.deleting = api[req].deleting
      /\ v.status.id = Merge(api[req].status.id, obj.status.id, obj.spec.name)
      /\ v.status.ready = Merge(api[req].status.ready, obj.status.ready, TRUE)
      /\ v.status \in BucketStatus
  BY <1>1 DEF Bucket, BucketStatus, BucketSpec, Merge
<1>4. v.status = [id |-> obj.spec.name, ready |-> TRUE] \/ v.status = api[req].status
  <2>1. obj.spec.name # NoName
    BY <1>1 DEF Bucket, BucketSpec, LoopAssumption
  <2>2. CASE obj.status = [id |-> NoName, ready |-> FALSE]
    <3>5. obj.status.id = NoName /\ obj.status.ready = FALSE
      BY <2>2
    <3>6. v.status.id = obj.spec.name
      BY <1>3, <2>1, <3>5 DEF Merge
    <3>7. Merge(api[req].status.ready, FALSE, TRUE) = TRUE
      BY DEF Merge
    <3>1. v.status.id = obj.spec.name /\ v.status.ready = TRUE
      BY <1>3, <3>5, <3>6, <3>7, Zenon
    <3>2. [id |-> obj.spec.name, ready |-> TRUE] \in BucketStatus
      BY <1>1 DEF BucketStatus, Bucket, BucketSpec
    <3> DEFINE t == [id |-> obj.spec.name, ready |-> TRUE]
    <3>3. t.id = obj.spec.name /\ t.ready = TRUE
      OBVIOUS
    <3> HIDE DEF t
    <3>4. v.status = t
      BY <1>3, <3>1, <3>2, <3>3, StatusFields DEF t
    <3> QED
      BY <3>4 DEF t
  <2>3. CASE obj.status = [id |-> obj.spec.name, ready |-> TRUE]
    <3>1. /\ v.status.id = api[req].status.id
          /\ v.status.ready = api[req].status.ready
      BY <1>3, <2>3 DEF Merge
    <3>2. api[req].status \in BucketStatus
      BY <1>1 DEF Bucket
    <3> QED
      BY <1>3, <3>1, <3>2, StatusFields
  <2> QED
    BY <1>1, <2>2, <2>3 DEF Genuine
<1>5. v # NoObject
  BY <1>3 DEF LoopAssumption
<1>6. Genuine(req, v)
  BY <1>1, <1>2, <1>3, <1>4, <1>5 DEF Genuine
<1>7. Benign(api[req], v)
  BY <1>1, <1>3, <1>5 DEF Benign, Held, Marked
<1> QED
  BY <1>1, <1>2, <1>3, <1>4, <1>5, <1>6, <1>7

\* The status patch of reconcileNormal preserves LoopInv.
LEMMA PatchStatusKeeps ==
  ASSUME LoopAssumption, Exclusive, LoopTypeOK, LoopInv, PatchStatus
  PROVE  LoopInv'
<1> DEFINE v == [api[req] EXCEPT
                   !.status.id = Merge(@, obj.status.id, obj.spec.name),
                   !.status.ready = Merge(@, obj.status.ready, TRUE)]
<1>1. \/ Retry /\ UNCHANGED clusterVars
      \/ /\ Write(req, v)
         /\ Finish \/ Retry \/ (obj' = v /\ Goto("role"))
  BY DEF PatchStatus, Fail
<1>2. pc = "status"
  BY DEF PatchStatus
<1> HIDE DEF v
<1>3. CASE Retry /\ UNCHANGED clusterVars
  BY <1>3, PassMoves DEF Retry, clusterVars
<1>4. CASE Write(req, v) /\ (Finish \/ Retry \/ (obj' = v /\ Goto("role")))
  <2>1. /\ req \in Keys /\ v \in Bucket /\ v # NoObject
        /\ Genuine(req, v) /\ Benign(api[req], v)
    BY <1>2, StatusWritten DEF v
  <2>2. Exists(req) /\ api[req].fin
    BY <1>2 DEF LoopInv, PassInv, HoldingSteps
  <2>3. /\ \A l \in Keys : Pipeline(cache'[l], events'[l], api'[l])
        /\ \A l \in Keys : \A i \in 0..Len(events'[l]) :
              Genuine(l, At(cache'[l], events'[l], i))
        /\ Exists(req) /\ api[req].fin => api'[req] # NoObject /\ api'[req].fin
        /\ (Some(Marked, cache[req], events[req]) => Marked(api[req])) =>
              (Some(Marked, cache'[req], events'[req]) => Marked(api'[req]))
    BY <1>4, <2>1, BenignWrite DEF Version, Exists
  <2>4. CASE Finish \/ Retry
    BY <2>3, <2>4, IdleKeeps DEF Finish, Retry
  <2>5. CASE obj' = v /\ Goto("role")
    <3>1. pc' = "role" /\ req' = req
      BY <2>5 DEF Goto
    <3>2. api'[req] # NoObject /\ api'[req].fin
          /\ (Some(Marked, cache'[req], events'[req]) => Marked(api'[req]))
      BY <1>2, <2>2, <2>3 DEF LoopInv, PassInv, Normal, HoldingSteps
    <3>3. PassInv'
      BY <2>1, <2>5, <3>1, <3>2
         DEF PassInv, Normal, Deleting, Exists, HoldingSteps, DeletingSteps
    <3> QED
      BY <2>3, <3>3 DEF LoopInv
  <2> QED
    BY <1>4, <2>4, <2>5
<1> QED
  BY <1>1, <1>3, <1>4

\* A deleting pass may give up the finalizer: all versions still on their way
\* are marked.
LEMMA RemoveFinalizerKeeps ==
  ASSUME LoopAssumption, LoopTypeOK, LoopInv, RemoveFinalizer
  PROVE  LoopInv'
<1> DEFINE w == Relisted(FALSE)
           v == Stored(w)
<1>1. \/ Retry /\ UNCHANGED clusterVars
      \/ ~obj.fin /\ Write(req, api[req]) /\ (Finish \/ Retry)
      \/ obj.fin /\ Exists(req) /\ Write(req, v) /\ (Finish \/ Retry)
  BY DEF RemoveFinalizer, Fail
<1>2. /\ pc = "release" /\ req \in Keys /\ obj \in Bucket /\ obj # NoObject
      /\ obj.deleting
      /\ obj.fin => /\ ~Some(Held, cache[req], events[req])
                    /\ Marked(api[req]) => All(Marked, cache[req], events[req])
  BY DEF RemoveFinalizer, LoopTypeOK, Version, LoopInv, PassInv, Deleting,
         DeletingSteps, Genuine
<1>3. CASE Retry /\ UNCHANGED clusterVars
  BY <1>3, PassMoves DEF Retry, clusterVars
<1>5. CASE Write(req, api[req]) /\ (Finish \/ Retry)
  <2>1. UNCHANGED <<api, cache, events>>
    BY <1>2, <1>5 DEF Write, LoopTypeOK
  <2> QED
    BY <1>5, <2>1, PassMoves DEF Finish, Retry
<1>4. CASE obj.fin /\ Exists(req) /\ Write(req, v) /\ (Finish \/ Retry)
  <2>1. api[req] \in Bucket /\ Genuine(req, api[req]) /\ api[req] # NoObject
    BY <1>2, <1>4, ApiGenuine DEF LoopTypeOK, Version, Exists
  <2>2. /\ w \in Bucket /\ w # NoObject /\ w.fin = FALSE
        /\ w.spec = api[req].spec /\ w.deleting = api[req].deleting
        /\ w.status = api[req].status
    BY <1>2, <2>1 DEF Bucket, Relisted, LoopAssumption
  <2> HIDE DEF w
  <2>3. v = IF api[req].deleting /\ w.others = {} THEN NoObject ELSE w
    BY <2>2 DEF Stored
  <2> HIDE DEF v
  <2>4. Genuine(req, v) /\ v \in Version
    BY <2>1, <2>2, <2>3 DEF Genuine, Version
  <2>5. Lawful(cache[req], events[req], api[req], v)
    BY <1>2, <1>4, <2>1, <2>2, <2>3 DEF Lawful, Held, Marked
  <2>6. /\ \A l \in Keys : Pipeline(cache'[l], events'[l], api'[l])
        /\ \A l \in Keys : \A i \in 0..Len(events'[l]) :
              Genuine(l, At(cache'[l], events'[l], i))
    BY <1>2, <1>4, <2>4, <2>5, LawfulWrite
  <2> QED
    BY <1>4, <2>6, IdleKeeps DEF Finish, Retry
<1> QED
  BY <1>1, <1>3, <1>4, <1>5

\* Every step preserves LoopInv: what the cache will see and what a pass may
\* rely on.
LEMMA LoopInvStep ==
  ASSUME LoopAssumption, Exclusive, LoopTypeOK, LoopInv, [LoopNext]_loopVars
  PROVE  LoopInv'
<1>0. CASE UNCHANGED loopVars
  BY <1>0, PassMoves DEF loopVars
<1>1. ASSUME NEW k \in Keys, OthersAct(k) PROVE LoopInv'
  BY <1>1, OthersWrite, BenignKeeps
<1>2. ASSUME NEW k \in Keys, Watch(k) PROVE LoopInv'
  BY <1>2, WatchKeeps
<1>3. ASSUME NEW k \in Keys, Resync(k) PROVE LoopInv'
  BY <1>3, PassMoves DEF Resync, clusterVars
<1>4. CASE Crash
  BY <1>4, CrashKeeps
<1>5. CASE Stabilize
  BY <1>5, PassMoves DEF Stabilize, clusterVars, workerVars
<1>6. ASSUME NEW k \in Keys, Begin(k) PROVE LoopInv'
  BY <1>6, BeginKeeps
<1>7. CASE GetCluster
  BY <1>7, PassMoves DEF GetCluster, Goto, Fail, Retry, clusterVars
<1>8. CASE AddFinalizer
  BY <1>8, AddFinalizerKeeps
<1>9. CASE PatchStatus
  BY <1>9, PatchStatusKeeps
<1>10. CASE RemoveFinalizer
  BY <1>10, RemoveFinalizerKeeps
<1>11. CASE ServiceMove
  BY <1>11, PassMoves DEF ServiceMove, clusterVars, workerVars, Finish, Retry,
     HoldingSteps, DeletingSteps
<1> QED
  BY <1>0, <1>1, <1>2, <1>3, <1>4, <1>5, <1>6, <1>7, <1>8, <1>9, <1>10, <1>11
     DEF LoopNext, Environment, ControllerStep

\* LoopInv holds when the operator starts with an empty cluster.
LEMMA LoopInvInit ==
  ASSUME LoopInit
  PROVE  LoopInv
<1>1. PassInv
  BY DEF LoopInit, PassInv, Normal, Deleting, HoldingSteps, DeletingSteps
<1>2. ASSUME NEW k \in Keys
      PROVE  /\ Pipeline(cache[k], events[k], api[k])
             /\ \A i \in 0..Len(events[k]) : Genuine(k, At(cache[k], events[k], i))
  <2>1. api[k] = NoObject /\ cache[k] = NoObject /\ events[k] = <<>>
    BY DEF LoopInit
  <2>2. NoObject \in Version
    BY DEF Version
  <2> QED
    BY <2>1, <2>2, PipelineFresh DEF Genuine, At
<1> QED
  BY <1>1, <1>2 DEF LoopInv

(***************************************************************************)
(* What a step can bring about.                                            *)
(***************************************************************************)

\* A live object that says ready said so before the step, or the status patch
\* of the running pass has just said it, of the bucket the pass worked on.
LEMMA ReadyNews ==
  ASSUME LoopAssumption, Exclusive, LoopTypeOK, LoopInv, [LoopNext]_loopVars, NEW l \in Keys,
         api'[l] # NoObject, ~api'[l].deleting, api'[l].status.ready
  PROVE  \/ /\ api[l] # NoObject /\ ~api[l].deleting
            /\ api'[l].status = api[l].status
         \/ pc = "status" /\ api'[l].status.id = obj.spec.name
<1>1. CASE UNCHANGED api
  BY <1>1
<1>2. ASSUME NEW k \in Keys, NEW v, Write(k, v),
             \/ NoNews(api[k], v)
             \/ pc = "status" /\ v.status.id = obj.spec.name
      PROVE  \/ /\ api[l] # NoObject /\ ~api[l].deleting
                /\ api'[l].status = api[l].status
             \/ pc = "status" /\ api'[l].status.id = obj.spec.name
  <2>1. api'[k] = v /\ (l # k => api'[l] = api[l])
    BY <1>2 DEF Write, LoopTypeOK
  <2> QED
    BY <1>2, <2>1 DEF NoNews
<1>3. ASSUME NEW k \in Keys, OthersAct(k)
      PROVE  \E v : Write(k, v) /\ NoNews(api[k], v)
  BY <1>3, OthersWrite
<1>4. CASE ControllerStep /\ ~UNCHANGED api
  <2>1. \/ AddFinalizer /\ Exists(req) /\ Write(req, Relisted(TRUE))
        \/ PatchStatus
        \/ RemoveFinalizer /\ Exists(req)
           /\ Write(req, IF obj.fin THEN Stored(Relisted(FALSE)) ELSE api[req])
    BY <1>4 DEF ControllerStep, GetCluster, AddFinalizer, RemoveFinalizer, clusterVars
  <2>2. ASSUME Exists(req), pc # "idle"
        PROVE  /\ req \in Keys /\ api[req] \in Bucket /\ api[req] # NoObject
               /\ obj \in Bucket
    BY <2>2 DEF LoopTypeOK, Version, Exists
  <2>3. ASSUME NEW f \in BOOLEAN, Exists(req), pc # "idle"
        PROVE  /\ Relisted(f).deleting = api[req].deleting
               /\ Relisted(f).status = api[req].status
    BY <2>2, <2>3 DEF Bucket, Relisted
  <2>4. CASE AddFinalizer /\ Exists(req) /\ Write(req, Relisted(TRUE))
    <3>1. pc # "idle"
      BY <2>4 DEF AddFinalizer
    <3>2. req \in Keys /\ NoNews(api[req], Relisted(TRUE))
      BY <2>2, <2>3, <2>4, <3>1 DEF NoNews
    <3> QED
      BY <1>2, <2>4, <3>2
  <2>5. CASE PatchStatus
    <3> DEFINE v == [api[req] EXCEPT
                       !.status.id = Merge(@, obj.status.id, obj.spec.name),
                       !.status.ready = Merge(@, obj.status.ready, TRUE)]
    <3>1. pc = "status" /\ Write(req, v)
      BY <1>4, <2>5 DEF PatchStatus, clusterVars
    <3>2. /\ req \in Keys /\ v.deleting = api[req].deleting
          /\ v.status = [id |-> obj.spec.name, ready |-> TRUE]
             \/ v.status = api[req].status
          /\ api[req] # NoObject
      BY <3>1, StatusWritten DEF LoopAssumption
    <3> HIDE DEF v
    <3>3. NoNews(api[req], v) \/ v.status.id = obj.spec.name
      BY <3>2 DEF NoNews
    <3> QED
      BY <1>2, <3>1, <3>2, <3>3
  <2>6. CASE RemoveFinalizer /\ Exists(req)
           /\ Write(req, IF obj.fin THEN Stored(Relisted(FALSE)) ELSE api[req])
    <3>1. pc # "idle"
      BY <2>6 DEF RemoveFinalizer
    <3>2. /\ req \in Keys
          /\ NoNews(api[req], IF obj.fin THEN Stored(Relisted(FALSE)) ELSE api[req])
      BY <2>2, <2>3, <2>6, <3>1 DEF NoNews, Stored
    <3> QED
      BY <1>2, <2>6, <3>2
  <2> QED
    BY <2>1, <2>4, <2>5, <2>6
<1>5. ASSUME ~UNCHANGED api
      PROVE  ControllerStep \/ \E k \in Keys : OthersAct(k)
  BY <1>5 DEF LoopNext, ServiceMove, loopVars, Environment, Watch, Resync, Crash,
     Stabilize, Begin, clusterVars
<1> QED
  BY <1>1, <1>2, <1>3, <1>4, <1>5

\* The operator's finalizer leaves an object in one way: the last patch of a
\* pass over that very object.
LEMMA FinalizerStays ==
  ASSUME LoopAssumption, Exclusive, LoopTypeOK, LoopInv, [LoopNext]_loopVars,
         NEW l \in Keys, Exists(l), api[l].fin
  PROVE  \/ api'[l] # NoObject /\ api'[l].fin
         \/ pc = "release" /\ req = l /\ RemoveFinalizer
<1>1. CASE UNCHANGED api
  BY <1>1 DEF Exists
<1>2. ASSUME NEW k \in Keys, OthersAct(k)
      PROVE  api'[l] # NoObject /\ api'[l].fin
  <2>1. PICK v \in Version : Write(k, v) /\ Genuine(k, v) /\ Benign(api[k], v)
    BY <1>2, OthersWrite
  <2> QED
    BY <2>1, BenignWrite DEF Exists
<1>3. CASE AddFinalizer /\ ~UNCHANGED api
  <2>1. pc # "idle" /\ Exists(req) /\ Write(req, Relisted(TRUE))
    BY <1>3 DEF AddFinalizer, clusterVars
  <2>2. req \in Keys /\ api[req] \in Bucket /\ obj \in Bucket
    BY <2>1 DEF LoopTypeOK, Version, Exists
  <2>3. Relisted(TRUE) \in Bucket /\ Relisted(TRUE).fin
    BY <2>2 DEF Relisted, Bucket
  <2>4. Relisted(TRUE) # NoObject
    BY <2>3 DEF LoopAssumption
  <2>5. api'[req] = Relisted(TRUE) /\ \A k \in Keys : k # req => api'[k] = api[k]
    BY <2>1, <2>2 DEF Write, LoopTypeOK
  <2> QED
    BY <2>3, <2>4, <2>5 DEF Exists
<1>4. CASE PatchStatus /\ ~UNCHANGED api
  <2> DEFINE v == [api[req] EXCEPT
                     !.status.id = Merge(@, obj.status.id, obj.spec.name),
                     !.status.ready = Merge(@, obj.status.ready, TRUE)]
  <2>1. pc = "status" /\ Write(req, v)
    BY <1>4 DEF PatchStatus, clusterVars
  <2>2. req \in Keys /\ v # NoObject /\ v.fin = api[req].fin
    BY <2>1, StatusWritten
  <2> HIDE DEF v
  <2>3. api'[req] = v /\ \A k \in Keys : k # req => api'[k] = api[k]
    BY <2>1, <2>2 DEF Write, LoopTypeOK
  <2> QED
    BY <2>2, <2>3 DEF Exists
<1>5. CASE RemoveFinalizer /\ ~UNCHANGED api
  <2>1. pc = "release" /\ req \in Keys /\ \E v : Write(req, v)
    BY <1>5 DEF RemoveFinalizer, clusterVars, LoopTypeOK
  <2>2. l # req => api'[l] = api[l]
    BY <2>1 DEF Write, LoopTypeOK
  <2> QED
    BY <1>5, <2>1, <2>2 DEF Exists
<1>6. ASSUME ~UNCHANGED api
      PROVE  \/ \E k \in Keys : OthersAct(k)
             \/ AddFinalizer \/ PatchStatus \/ RemoveFinalizer
  BY <1>6 DEF LoopNext, loopVars, Environment, Watch, Resync, Crash, Stabilize,
     Begin, ControllerStep, GetCluster, ServiceMove, clusterVars
<1> QED
  BY <1>1, <1>2, <1>3, <1>4, <1>5, <1>6

(***************************************************************************)
(* Passes that nothing has overtaken.                                      *)
(***************************************************************************)

\* No change of k is on its way and k does not wait.
Quiet(k) == events[k] = <<>> /\ k \notin queue

\* A write that leaves nothing on its way to the cache has changed nothing.
LEMMA WriteIsSeen ==
  ASSUME LoopTypeOK, NEW k \in Keys, NEW v \in Version, Write(k, v), NEW l \in Keys,
         events'[l] = <<>>
  PROVE  api'[l] = api[l] /\ events[l] = <<>>
<1>1. events[k] \in Seq(Version) /\ api \in [Keys -> Version]
      /\ events \in [Keys -> Seq(Version)]
  BY DEF LoopTypeOK
<1>2. CASE l = k /\ v # api[k]
  <2>1. events'[k] = Append(events[k], v)
    <3>1. events' = [events EXCEPT ![k] = Append(@, v)]
      BY <1>2 DEF Write
    <3> QED
      BY <1>1, <3>1
  <2>2. Append(events[k], v) # <<>>
    <3>1. Len(Append(events[k], v)) = Len(events[k]) + 1 /\ Len(events[k]) \in Nat
      BY <1>1, AtAppend
    <3> QED
      BY <3>1
  <2> QED
    BY <1>2, <2>1, <2>2
<1>3. CASE v = api[k]
  BY <1>1, <1>3 DEF Write
<1>4. CASE l # k
  BY <1>1, <1>4 DEF Write
<1> QED
  BY <1>2, <1>3, <1>4

\* What a step of the controller writes, if it writes, is a version.
LEMMA ControllerWrites ==
  ASSUME LoopAssumption, Exclusive, LoopTypeOK, LoopInv, ControllerStep
  PROVE  \/ UNCHANGED clusterVars
         \/ req \in Keys /\ \E v \in Version : Write(req, v)
<1>1. pc # "idle" /\ req \in Keys /\ obj \in Bucket
  BY DEF ControllerStep, GetCluster, AddFinalizer, PatchStatus, RemoveFinalizer,
         LoopTypeOK, Version
<1>2. ASSUME Exists(req), NEW f \in BOOLEAN
      PROVE  Relisted(f) \in Version /\ Stored(Relisted(f)) \in Version
  BY <1>1, <1>2 DEF Exists, LoopTypeOK, Version, Bucket, Relisted, Stored
<1>3. CASE GetCluster
  BY <1>3 DEF GetCluster
<1>4. CASE AddFinalizer
  BY <1>1, <1>2, <1>4 DEF AddFinalizer
<1>5. CASE PatchStatus
  BY <1>1, <1>5, StatusWritten DEF PatchStatus, Version
<1>6. CASE RemoveFinalizer
  BY <1>1, <1>2, <1>6 DEF RemoveFinalizer, LoopTypeOK
<1> QED
  BY <1>3, <1>4, <1>5, <1>6 DEF ControllerStep

\* Once all versions of an object are marked, and no pass works on an older one, only
\* the removal of the finalizer brings another version.
LEMMA MarkedStays ==
  ASSUME LoopAssumption, Exclusive, LoopTypeOK, LoopInv, [LoopNext]_loopVars,
         NEW k \in Keys, All(Marked, cache[k], events[k]), req = k => Deleting
  PROVE  \/ /\ All(Marked, cache'[k], events'[k])
            /\ req' = k => Deleting'
         \/ pc = "release" /\ req = k /\ RemoveFinalizer
<1>1. /\ events[k] \in Seq(Version) /\ cache[k] \in Version /\ api[k] \in Version
      /\ Len(events[k]) \in Nat /\ Pipeline(cache[k], events[k], api[k])
  BY DEF LoopTypeOK, LoopInv
<1>2. Marked(api[k]) /\ Marked(cache[k])
  BY <1>1 DEF All, Pipeline, At
<1>3. ASSUME UNCHANGED <<cache, events, pc, req, obj>>
      PROVE  All(Marked, cache'[k], events'[k]) /\ (req' = k => Deleting')
  BY <1>3 DEF Deleting
<1>4. ASSUME NEW l \in Keys, OthersAct(l)
      PROVE  All(Marked, cache'[k], events'[k]) /\ (req' = k => Deleting')
  <2>1. /\ UNCHANGED <<pc, req, obj>>
        /\ \E v \in Version : Write(l, v) /\ Benign(api[l], v)
    BY <1>4, OthersWrite
  <2>2. req' = k => Deleting'
    BY <2>1 DEF Deleting
  <2>3. PICK v \in Version : Write(l, v) /\ Benign(api[l], v)
    BY <2>1
  <2>4. CASE l = k /\ v # api[k]
    <3>1. cache'[k] = cache[k] /\ events'[k] = Append(events[k], v)
      BY <2>3, <2>4 DEF Write, LoopTypeOK
    <3>2. Marked(v)
      BY <1>2, <2>3, <2>4 DEF Benign
    <3>3. /\ Len(events'[k]) = Len(events[k]) + 1
          /\ \A i \in 0..Len(events[k]) :
                At(cache'[k], events'[k], i) = At(cache[k], events[k], i)
          /\ At(cache'[k], events'[k], Len(events[k]) + 1) = v
      BY <1>1, <3>1, AtAppend
    <3> QED
      BY <1>1, <2>2, <3>2, <3>3 DEF All
  <2>5. CASE l # k \/ v = api[k]
    <3>1. cache'[k] = cache[k] /\ events'[k] = events[k]
      BY <2>3, <2>5 DEF Write, LoopTypeOK
    <3> QED
      BY <2>2, <3>1
  <2> QED
    BY <2>4, <2>5
<1>5. ASSUME NEW l \in Keys, Watch(l)
      PROVE  All(Marked, cache'[k], events'[k]) /\ (req' = k => Deleting')
  <2>1. /\ UNCHANGED <<pc, req, obj>>
        /\ IF l = k THEN /\ events[k] # <<>>
                         /\ cache'[k] = Head(events[k]) /\ events'[k] = Tail(events[k])
                    ELSE cache'[k] = cache[k] /\ events'[k] = events[k]
    BY <1>5 DEF Watch, LoopTypeOK
  <2>2. req' = k => Deleting'
    BY <2>1 DEF Deleting
  <2> QED
    BY <1>1, <2>1, <2>2, PipelineShift
<1>6. CASE Crash
  <2>1. req' = NoKey /\ cache'[k] = api[k] /\ events'[k] = <<>>
    BY <1>6 DEF Crash
  <2> QED
    BY <1>2, <2>1, LoopAssumption DEF All, At
<1>7. ASSUME NEW l \in Keys, Begin(l)
      PROVE  All(Marked, cache'[k], events'[k]) /\ (req' = k => Deleting')
  <2>1. UNCHANGED <<cache, events>> /\ req # k
    BY <1>7, LoopAssumption DEF Begin, clusterVars, LoopTypeOK
  <2>2. req' = k => pc' = "getCluster" /\ obj' = cache[k]
    BY <1>7, <2>1 DEF Begin
  <2> QED
    BY <1>2, <2>1, <2>2 DEF Marked, Deleting
<1>8. CASE ControllerStep /\ req # k
  <2>1. \/ UNCHANGED clusterVars
        \/ req \in Keys /\ \E v \in Version : Write(req, v)
    BY <1>8, ControllerWrites
  <2>2. cache'[k] = cache[k] /\ events'[k] = events[k]
    BY <1>8, <2>1 DEF clusterVars, Write, LoopTypeOK
  <2>3. req' = req \/ req' = NoKey
    BY <1>8 DEF ControllerStep, GetCluster, AddFinalizer, PatchStatus, RemoveFinalizer,
       Goto, Fail, Retry, Finish
  <2> QED
    BY <1>8, <2>2, <2>3, LoopAssumption
<1>9. CASE ControllerStep /\ req = k /\ ~RemoveFinalizer
  <2>1. GetCluster /\ obj.deleting /\ UNCHANGED <<cache, events>>
    BY <1>9 DEF ControllerStep, GetCluster, AddFinalizer, PatchStatus, Deleting,
       DeletingSteps, clusterVars
  <2>2. req' = NoKey \/ pc' = "existsDelete"
    BY <2>1 DEF GetCluster, Goto, Fail, Retry
  <2> QED
    BY <2>1, <2>2, LoopAssumption DEF Deleting, DeletingSteps
<1>10. CASE ServiceMove
  <2>1. UNCHANGED <<cache, events>>
    BY <1>10 DEF ServiceMove, clusterVars
  <2>2. req' = k => Deleting'
    BY <1>10, LoopAssumption DEF ServiceMove, workerVars, Retry, Finish, Deleting,
       DeletingSteps
  <2> QED
    BY <2>1, <2>2
<1>11. CASE ControllerStep /\ req = k /\ RemoveFinalizer
  BY <1>11 DEF RemoveFinalizer
<1>12. CASE \/ UNCHANGED loopVars \/ Stabilize \/ \E l \in Keys : Resync(l)
  BY <1>3, <1>12 DEF loopVars, Stabilize, Resync, clusterVars, workerVars
<1> QED
  BY <1>4, <1>5, <1>6, <1>7, <1>8, <1>9, <1>10, <1>11, <1>12 DEF LoopNext, Environment

\* An object becomes quiet only when a pass takes its key, or when the operator
\* restarts; until then it stays as it is.
LEMMA QuietFrom ==
  ASSUME LoopAssumption, Exclusive, LoopTypeOK, LoopInv, [LoopNext]_loopVars,
         NEW k \in Keys, Quiet(k)'
  PROVE  \/ Quiet(k) /\ api'[k] = api[k]
         \/ Begin(k) /\ UNCHANGED clusterVars
         \/ Crash /\ UNCHANGED api
<1>1. CASE UNCHANGED loopVars
  BY <1>1 DEF loopVars, Quiet
<1>2. ASSUME NEW l \in Keys, OthersAct(l)
      PROVE  Quiet(k) /\ api'[k] = api[k]
  <2>1. PICK v \in Version : Write(l, v)
    BY <1>2, OthersWrite
  <2>2. UNCHANGED queue
    BY <1>2, OthersWrite
  <2> QED
    BY <2>1, <2>2, WriteIsSeen DEF Quiet
<1>3. ASSUME NEW l \in Keys, Watch(l)
      PROVE  Quiet(k) /\ api'[k] = api[k]
  <2>1. l # k /\ events'[k] = events[k]
    BY <1>3 DEF Watch, Quiet, LoopTypeOK
  <2> QED
    BY <1>3, <2>1 DEF Watch, Quiet
<1>4. ASSUME NEW l \in Keys, Resync(l)
      PROVE  Quiet(k) /\ api'[k] = api[k]
  BY <1>4 DEF Resync, Quiet, clusterVars
<1>5. CASE Crash
  BY <1>5 DEF Crash
<1>6. CASE Stabilize
  BY <1>6 DEF Stabilize, clusterVars, workerVars, Quiet
<1>7. ASSUME NEW l \in Keys, Begin(l)
      PROVE  \/ Quiet(k) /\ api'[k] = api[k]
             \/ Begin(k) /\ UNCHANGED clusterVars
  BY <1>7 DEF Begin, Quiet, clusterVars
<1>8. CASE ControllerStep
  <2>1. queue' = queue \/ queue' = queue \cup {req}
    BY <1>8 DEF ControllerStep, GetCluster, AddFinalizer, PatchStatus,
       RemoveFinalizer, Goto, Finish, Fail, Retry
  <2>2. events[k] = <<>> /\ api'[k] = api[k]
    BY <1>8, ControllerWrites, WriteIsSeen DEF Quiet, clusterVars
  <2> QED
    BY <2>1, <2>2 DEF Quiet
<1>9. CASE ServiceMove
  BY <1>9 DEF ServiceMove, clusterVars, workerVars, Quiet, Finish, Retry
<1> QED
  BY <1>1, <1>2, <1>3, <1>4, <1>5, <1>6, <1>7, <1>8, <1>9 DEF LoopNext, Environment

\* In a quiet object's pipeline there is only the API server's version.
LEMMA QuietCache ==
  ASSUME LoopTypeOK, LoopInv, NEW k \in Keys, events[k] = <<>>
  PROVE  cache[k] = api[k]
<1>1. Pipeline(cache[k], events[k], api[k])
  BY DEF LoopInv
<1> QED
  BY <1>1 DEF Pipeline, At

\* How a pass goes on: with its copy, or with the server's answer to a patch.
LEMMA PassGoesOn ==
  ASSUME LoopAssumption, LoopTypeOK, [LoopNext]_loopVars, pc' # "idle", req' \in Keys
  PROVE  \/ Begin(req') /\ obj' = cache[req']
         \/ /\ pc # "idle" /\ req' = req
            /\ obj' = obj \/ obj' = api'[req]
<1>1. CASE UNCHANGED loopVars
  BY <1>1 DEF loopVars
<1>2. CASE Environment
  BY <1>2 DEF Environment, OthersAct, UserCreate, UserEdit, UserDelete, Hold,
     Release, Watch, Resync, Crash, Stabilize, workerVars
<1>3. ASSUME NEW k \in Keys, Begin(k)
      PROVE  Begin(req') /\ obj' = cache[req']
  <2>1. req' = k
    BY <1>3 DEF Begin
  <2> QED
    BY <1>3, <2>1 DEF Begin
<1>4. CASE ControllerStep
  <2>1. pc # "idle" /\ req' = req /\ req \in Keys
    BY <1>4 DEF ControllerStep, GetCluster, AddFinalizer, PatchStatus,
       RemoveFinalizer, Goto, Finish, Fail, Retry
  <2>2. UNCHANGED obj \/ Write(req, obj')
    BY <1>4, <2>1 DEF ControllerStep, GetCluster, AddFinalizer, PatchStatus,
       RemoveFinalizer, Goto, Finish, Fail, Retry
  <2> QED
    BY <2>1, <2>2 DEF Write, LoopTypeOK
<1>5. CASE ServiceMove
  <2>1. UNCHANGED <<req, obj>>
    BY <1>5 DEF ServiceMove, workerVars, Finish, Retry
  <2> QED
    BY <2>1 DEF LoopTypeOK, LoopAssumption
<1> QED
  BY <1>1, <1>2, <1>3, <1>4, <1>5 DEF LoopNext

\* A pass nothing has overtaken works on the API server's version.
LEMMA FreshStep ==
  ASSUME LoopAssumption, Exclusive, LoopTypeOK, LoopTypeOK', LoopInv, FreshInv,
         [LoopNext]_loopVars
  PROVE  FreshInv'
<1> SUFFICES ASSUME pc' # "idle", Fresh' PROVE obj' = api'[req']
  BY DEF FreshInv
<1>0. PICK k \in Keys : k = req'
  BY DEF LoopTypeOK
<1>1. Quiet(k)'
  BY <1>0 DEF Fresh, Quiet
<1>2. CASE Begin(k) /\ obj' = cache[k]
  <2>1. UNCHANGED clusterVars /\ events[k] = <<>>
    BY <1>1, <1>2 DEF Begin, clusterVars, Quiet
  <2>2. cache[k] = api[k]
    BY <1>1, <2>1, QuietCache
  <2> QED
    BY <1>0, <1>2, <2>1, <2>2 DEF clusterVars
<1>3. CASE pc # "idle" /\ k = req /\ (obj' = obj \/ obj' = api'[req])
  <2>1. ~Begin(k) /\ ~Crash
    BY <1>3 DEF Begin, Crash
  <2>2. Quiet(k) /\ api'[k] = api[k]
    BY <1>1, <2>1, QuietFrom
  <2>3. obj = api[k]
    BY <1>3, <2>2 DEF FreshInv, Fresh, Quiet
  <2> QED
    BY <1>0, <1>3, <2>2, <2>3
<1> QED
  BY <1>0, <1>2, <1>3, PassGoesOn

(***************************************************************************)
(* The lists of finalizers.                                                *)
(***************************************************************************)

\* An object is marked in a step that finds it held, or was marked before, and then
\* nobody's finalizer is added to it.
LEMMA MarkedFrom ==
  ASSUME LoopAssumption, Exclusive, LoopTypeOK, LoopInv, [LoopNext]_loopVars,
         NEW k \in Keys, Marked(api'[k])
  PROVE  \/ Held(api[k])
         \/ Marked(api[k]) /\ api'[k].others \subseteq api[k].others
<1> DEFINE Goal == \/ Held(api[k])
                   \/ Marked(api[k]) /\ api'[k].others \subseteq api[k].others
<1>1. CASE api'[k] = api[k]
  BY <1>1
<1>2. ASSUME NEW l \in Keys, OthersAct(l), api'[k] # api[k]
      PROVE  Goal
  <2>1. ASSUME NEW v, Write(l, v)
        PROVE  l = k /\ api'[k] = v
    BY <1>2, <2>1 DEF Write, LoopTypeOK
  <2>2. CASE UserCreate(l)
    <3>1. PICK s \in Allowed[l] :
            Write(l, [spec |-> s, fin |-> FALSE, others |-> {}, deleting |-> FALSE,
                      status |-> [id |-> NoName, ready |-> FALSE]])
      BY <2>2 DEF UserCreate
    <3> QED
      BY <2>1, <3>1 DEF Marked
  <2>3. CASE ~UserCreate(l)
    <3>1. Exists(l)
      BY <1>2, <2>3 DEF OthersAct, UserEdit, UserDelete, Hold, Release, Live
    <3>2. l = k /\ api[k] \in Bucket /\ api[k] # NoObject
      BY <1>2, <3>1, <2>1 DEF OthersAct, UserCreate, UserEdit, UserDelete, Hold, Release,
         LoopTypeOK, Version, Exists
    <3>3. CASE UserEdit(l)
      <4>1. PICK s \in Allowed[l] : Write(l, [api[l] EXCEPT !.spec = s])
        BY <3>3 DEF UserEdit
      <4>2. api'[k] = [api[k] EXCEPT !.spec = s]
        BY <2>1, <3>2, <4>1
      <4> QED
        BY <3>2, <4>2 DEF Marked, Bucket
    <3>4. CASE UserDelete(l)
      <4>1. PICK fs \in SUBSET Foreign :
              Write(l, Stored([api[l] EXCEPT !.deleting = TRUE, !.others = @ \cup fs]))
        BY <3>4 DEF UserDelete
      <4>2. api'[k] = Stored([api[k] EXCEPT !.deleting = TRUE, !.others = @ \cup fs])
        BY <2>1, <3>2, <4>1
      <4>3. ~api[k].deleting
        BY <3>2, <3>4 DEF UserDelete, Live
      <4>4. api[k].fin
        BY <3>2, <4>2 DEF Marked, Bucket, Stored
      <4> QED
        BY <3>2, <4>3, <4>4 DEF Held
    <3>5. CASE Hold(l)
      <4>1. PICK f \in Foreign : Write(l, [api[l] EXCEPT !.others = @ \cup {f}])
        BY <3>5 DEF Hold
      <4>2. api'[k] = [api[k] EXCEPT !.others = @ \cup {f}]
        BY <2>1, <3>2, <4>1
      <4>3. ~api[k].deleting
        BY <3>2, <3>5 DEF Hold, Live
      <4> QED
        BY <3>2, <4>2, <4>3 DEF Marked, Bucket
    <3>6. CASE Release(l)
      <4>1. PICK f \in Foreign : Write(l, Stored([api[l] EXCEPT !.others = @ \ {f}]))
        BY <3>6 DEF Release
      <4>2. api'[k] = Stored([api[k] EXCEPT !.others = @ \ {f}])
        BY <2>1, <3>2, <4>1
      <4>3. api'[k] = [api[k] EXCEPT !.others = @ \ {f}]
        BY <4>2 DEF Stored, Marked
      <4> QED
        BY <3>2, <4>3 DEF Marked, Bucket
    <3> QED
      BY <1>2, <2>3, <3>3, <3>4, <3>5, <3>6 DEF OthersAct
  <2> QED
    BY <2>2, <2>3
<1>3. CASE AddFinalizer /\ api'[k] # api[k]
  <2>1. /\ pc # "idle" /\ Exists(req) /\ ~Refuses(TRUE)
        /\ Write(req, Relisted(TRUE))
    BY <1>3 DEF AddFinalizer, clusterVars
  <2>2. req = k /\ api'[k] = Relisted(TRUE)
    BY <1>3, <2>1 DEF Write, LoopTypeOK
  <2>3. api[k] \in Bucket /\ api[k] # NoObject /\ obj \in Bucket
    BY <2>1, <2>2 DEF LoopTypeOK, Version, Exists
  <2>4. api'[k].deleting = api[k].deleting /\ api'[k].others = obj.others
    BY <2>2, <2>3 DEF Relisted, Bucket
  <2>5. api[k].deleting
    BY <2>4 DEF Marked
  <2>6. api[k].fin /\ obj.others \subseteq api[k].others
    BY <2>1, <2>2, <2>5 DEF Refuses
  <2> QED
    BY <2>3, <2>4, <2>5, <2>6 DEF Marked
<1>4. CASE PatchStatus /\ api'[k] # api[k]
  <2> DEFINE v == [api[req] EXCEPT
                     !.status.id = Merge(@, obj.status.id, obj.spec.name),
                     !.status.ready = Merge(@, obj.status.ready, TRUE)]
  <2>1. pc = "status" /\ Write(req, v)
    BY <1>4 DEF PatchStatus, clusterVars
  <2>2. /\ req \in Keys /\ api[req] \in Bucket
        /\ v.fin = api[req].fin /\ v.deleting = api[req].deleting
    BY <2>1, StatusWritten
  <2>3. v.others = api[req].others
    BY <2>2 DEF Bucket
  <2>4. api[req] # NoObject
    BY <2>2 DEF LoopAssumption
  <2> HIDE DEF v
  <2>5. req = k /\ api'[k] = v
    BY <1>4, <2>1, <2>2 DEF Write, LoopTypeOK
  <2> QED
    BY <2>2, <2>3, <2>4, <2>5 DEF Marked
<1>5. CASE RemoveFinalizer /\ api'[k] # api[k]
  <2>1. /\ pc # "idle" /\ Exists(req)
        /\ Write(req, IF obj.fin THEN Stored(Relisted(FALSE)) ELSE api[req])
    BY <1>5 DEF RemoveFinalizer, clusterVars
  <2>2. req = k /\ api'[k] = Stored(Relisted(FALSE))
    BY <1>5, <2>1 DEF Write, LoopTypeOK
  <2>3. api[k] \in Bucket /\ obj \in Bucket
    BY <2>1, <2>2 DEF LoopTypeOK, Version, Exists
  <2>4. api'[k] = Relisted(FALSE)
    BY <2>2 DEF Stored, Marked
  <2>5. ~api'[k].fin
    BY <2>2, <2>3, <2>4 DEF Relisted, Bucket
  <2> QED
    BY <2>5 DEF Marked
<1>6. ASSUME api'[k] # api[k]
      PROVE  \/ \E l \in Keys : OthersAct(l)
             \/ AddFinalizer \/ PatchStatus \/ RemoveFinalizer
  BY <1>6 DEF LoopNext, loopVars, Environment, Watch, Resync, Crash, Stabilize,
     Begin, ControllerStep, GetCluster, ServiceMove, clusterVars
<1> QED
  BY <1>1, <1>2, <1>3, <1>4, <1>5, <1>6

\* How the API server and the watch move: one write, one delivery or a restart.
LEMMA ClusterMoves ==
  ASSUME LoopAssumption, Exclusive, LoopTypeOK, LoopInv, [LoopNext]_loopVars
  PROVE  \/ UNCHANGED clusterVars
         \/ \E k \in Keys : \E v \in Version : Write(k, v)
         \/ \E k \in Keys : Watch(k)
         \/ Crash
<1>1. ASSUME NEW k \in Keys, OthersAct(k) PROVE \E v \in Version : Write(k, v)
  BY <1>1, OthersWrite
<1>2. CASE ControllerStep
  BY <1>2, ControllerWrites
<1>3. \/ UNCHANGED clusterVars \/ ControllerStep \/ Crash
      \/ \E k \in Keys : OthersAct(k) \/ Watch(k)
  BY DEF LoopNext, loopVars, Environment, Resync, Stabilize, Begin, ServiceMove,
     clusterVars
<1> QED
  BY <1>1, <1>2, <1>3

\* A pass that deletes has just begun, or has deleted before with the same copy.
LEMMA DeletingFrom ==
  ASSUME LoopAssumption, LoopTypeOK, [LoopNext]_loopVars, Deleting'
  PROVE  \/ Begin(req') /\ req' \in Keys /\ obj' = cache[req']
         \/ Deleting /\ UNCHANGED <<req, obj>>
<1>0. pc' # "idle"
  BY DEF Deleting, DeletingSteps
<1>1. CASE UNCHANGED <<pc, req, obj>>
  BY <1>1 DEF Deleting
<1>2. CASE Crash
  BY <1>0, <1>2 DEF Crash
<1>3. ASSUME NEW k \in Keys, Begin(k)
      PROVE  Begin(req') /\ req' \in Keys /\ obj' = cache[req']
  <2>1. req' = k
    BY <1>0, <1>3 DEF Begin
  <2> QED
    BY <1>3, <2>1 DEF Begin
<1>4. CASE ControllerStep
  <2>1. GetCluster
    BY <1>0, <1>4 DEF ControllerStep, AddFinalizer, PatchStatus, RemoveFinalizer, Goto,
       Fail, Retry, Finish, Deleting, DeletingSteps
  <2>2. pc = "getCluster" /\ UNCHANGED <<req, obj>> /\ obj.deleting
    BY <1>0, <2>1 DEF GetCluster, Goto, Fail, Retry, Deleting, DeletingSteps
  <2> QED
    BY <2>2 DEF Deleting
<1>5. CASE ServiceMove
  <2>1. \/ UNCHANGED workerVars
        \/ UNCHANGED <<req, obj>> /\ pc \in DeletingSteps
    BY <1>0, <1>5 DEF ServiceMove, Finish, Retry, Deleting, DeletingSteps
  <2> QED
    BY <1>1, <2>1 DEF workerVars, Deleting
<1>6. \/ UNCHANGED <<pc, req, obj>> \/ Crash \/ (\E k \in Keys : Begin(k))
      \/ ControllerStep \/ ServiceMove
  BY DEF LoopNext, loopVars, Environment, OthersAct, UserCreate, UserEdit, UserDelete,
     Hold, Release, Watch, Resync, Stabilize, workerVars
<1> QED
  BY <1>1, <1>2, <1>3, <1>4, <1>5, <1>6

\* The versions of an object after a step are those from before, from some place on,
\* and perhaps the API server's new one behind them.
LEMMA VersionsFrom ==
  ASSUME LoopAssumption, Exclusive, LoopTypeOK, LoopInv, [LoopNext]_loopVars,
         NEW k \in Keys
  PROVE  \E d \in Nat : \A i \in 0..Len(events'[k]) :
           \/ /\ i + d \in 0..Len(events[k])
              /\ At(cache'[k], events'[k], i) = At(cache[k], events[k], i + d)
           \/ i = Len(events'[k]) /\ At(cache'[k], events'[k], i) = api'[k]
<1> DEFINE From(d) == \A i \in 0..Len(events'[k]) :
             \/ /\ i + d \in 0..Len(events[k])
                /\ At(cache'[k], events'[k], i) = At(cache[k], events[k], i + d)
             \/ i = Len(events'[k]) /\ At(cache'[k], events'[k], i) = api'[k]
<1>1. /\ events[k] \in Seq(Version) /\ cache[k] \in Version /\ api[k] \in Version
      /\ Len(events[k]) \in Nat /\ Pipeline(cache[k], events[k], api[k])
  BY DEF LoopTypeOK, LoopInv
<1>2. At(cache[k], events[k], Len(events[k])) = api[k]
  BY <1>1 DEF Pipeline
<1>3. CASE cache'[k] = cache[k] /\ events'[k] = events[k]
  <2>1. From(0)
    BY <1>1, <1>3
  <2> QED
    BY <2>1
<1>4. ASSUME NEW l \in Keys, NEW v \in Version, Write(l, v)
      PROVE  \E d \in Nat : From(d)
  <2>1. CASE l = k /\ v # api[k]
    <3>1. cache'[k] = cache[k] /\ events'[k] = Append(events[k], v) /\ api'[k] = v
      BY <1>4, <2>1 DEF Write, LoopTypeOK
    <3>2. /\ Len(events'[k]) = Len(events[k]) + 1
          /\ \A i \in 0..Len(events[k]) :
                At(cache'[k], events'[k], i) = At(cache[k], events[k], i)
          /\ At(cache'[k], events'[k], Len(events[k]) + 1) = v
      BY <1>1, <3>1, AtAppend
    <3>3. From(0)
      BY <1>1, <3>1, <3>2
    <3> QED
      BY <3>3
  <2>2. CASE l # k \/ v = api[k]
    <3>1. cache'[k] = cache[k] /\ events'[k] = events[k]
      BY <1>4, <2>2 DEF Write, LoopTypeOK
    <3> QED
      BY <1>3, <3>1
  <2> QED
    BY <2>1, <2>2
<1>5. ASSUME NEW l \in Keys, Watch(l)
      PROVE  \E d \in Nat : From(d)
  <2>1. CASE l = k
    <3>1. /\ events[k] # <<>>
          /\ cache'[k] = Head(events[k]) /\ events'[k] = Tail(events[k])
      BY <1>5, <2>1 DEF Watch, LoopTypeOK
    <3>2. /\ Len(events'[k]) = Len(events[k]) - 1
          /\ \A i \in 0..Len(events'[k]) :
                At(cache'[k], events'[k], i) = At(cache[k], events[k], i + 1)
      BY <1>1, <3>1, AtShift
    <3>3. From(1)
      BY <1>1, <3>2
    <3> QED
      BY <3>3
  <2>2. CASE l # k
    BY <1>3, <1>5, <2>2 DEF Watch, LoopTypeOK
  <2> QED
    BY <2>1, <2>2
<1>6. CASE Crash
  <2>1. cache'[k] = api[k] /\ events'[k] = <<>> /\ api' = api
    BY <1>6 DEF Crash
  <2>2. Len(events'[k]) = 0 /\ At(cache'[k], events'[k], 0) = api'[k]
    BY <2>1 DEF At
  <2>3. From(0)
    BY <2>2
  <2> QED
    BY <2>3
<1>7. CASE UNCHANGED clusterVars
  BY <1>3, <1>7 DEF clusterVars
<1> QED
  BY <1>4, <1>5, <1>6, <1>7, ClusterMoves

\* At first there are no lists.
LEMMA ListInit ==
  ASSUME LoopInit
  PROVE  ListInv
<1>1. ~Deleting
  BY DEF LoopInit, Deleting, DeletingSteps
<1>2. ASSUME NEW k \in Keys PROVE ShorterLists(cache[k], events[k])
  <2>1. cache[k] = NoObject /\ events[k] = <<>>
    BY DEF LoopInit
  <2> QED
    BY <2>1 DEF ShorterLists, At
<1> QED
  BY <1>1, <1>2 DEF ListInv

\* While an object is being deleted its list of finalizers only gets shorter, also for
\* the pass that deletes: a patch that would add one is refused.
LEMMA ListStep ==
  ASSUME LoopAssumption, Exclusive, LoopTypeOK, LoopTypeOK', LoopInv, LoopInv', ListInv,
         [LoopNext]_loopVars
  PROVE  ListInv'
<1>0. ASSUME NEW k \in Keys
      PROVE  /\ Len(events[k]) \in Nat /\ Len(events'[k]) \in Nat
             /\ At(cache[k], events[k], Len(events[k])) = api[k]
             /\ ShorterLists(cache[k], events[k])
  <2>1. events[k] \in Seq(Version) /\ events'[k] \in Seq(Version)
    BY DEF LoopTypeOK
  <2>2. Pipeline(cache[k], events[k], api[k])
    BY DEF LoopInv
  <2> QED
    BY <2>1, <2>2 DEF Pipeline, ListInv
<1>1. ASSUME NEW k \in Keys
      PROVE  ShorterLists(cache'[k], events'[k])
  <2> DEFINE Old(i) == At(cache[k], events[k], i)
             New(i) == At(cache'[k], events'[k], i)
             n == Len(events[k])
             m == Len(events'[k])
  <2>1. PICK d \in Nat : \A i \in 0..m : \/ i + d \in 0..n /\ New(i) = Old(i + d)
                                         \/ i = m /\ New(i) = api'[k]
    BY VersionsFrom
  <2>2. n \in Nat /\ m \in Nat /\ Old(n) = api[k]
    BY <1>0
  <2>3. \A i, j \in 0..n : i < j /\ Marked(Old(i)) /\ Marked(Old(j)) =>
           Old(j).others \subseteq Old(i).others
    BY <1>0 DEF ShorterLists
  <2>4. \A i, j \in 0..n : i < j /\ Marked(Old(i)) => ~Held(Old(j))
    BY DEF LoopInv, Pipeline
  <2> HIDE DEF Old, New, n, m
  <2>5. ASSUME NEW i \in 0..m, NEW j \in 0..m, i < j, Marked(New(i)), Marked(New(j))
        PROVE  New(j).others \subseteq New(i).others
    <3>1. i + d \in 0..n /\ New(i) = Old(i + d)
      BY <2>1, <2>2, <2>5
    <3>2. CASE j + d \in 0..n /\ New(j) = Old(j + d)
      <4>1. i + d < j + d
        BY <2>2, <2>5
      <4> QED
        BY <2>3, <2>5, <3>1, <3>2, <4>1
    <3>3. CASE New(j) = api'[k]
      <4>1. \/ Held(api[k])
            \/ Marked(api[k]) /\ api'[k].others \subseteq api[k].others
        BY <2>5, <3>3, MarkedFrom
      <4>2. n \in 0..n /\ (i + d = n \/ i + d < n)
        BY <2>2, <3>1
      <4>3. ~Held(api[k])
        <5>1. CASE i + d = n
          BY <2>2, <2>5, <3>1, <5>1 DEF Held, Marked
        <5>2. CASE i + d < n
          BY <2>2, <2>4, <2>5, <3>1, <4>2, <5>2
        <5> QED
          BY <4>2, <5>1, <5>2
      <4>4. api[k].others \subseteq Old(i + d).others
        <5>1. CASE i + d = n
          BY <2>2, <5>1
        <5>2. CASE i + d < n
          BY <2>2, <2>3, <2>5, <3>1, <4>1, <4>2, <4>3, <5>2
        <5> QED
          BY <4>2, <5>1, <5>2
      <4> QED
        BY <3>1, <3>3, <4>1, <4>3, <4>4
    <3> QED
      BY <2>1, <3>2, <3>3
  <2> QED
    BY <2>5 DEF ShorterLists, New, m
<1>2. ASSUME Deleting', obj'.fin, NEW i \in 0..Len(events'[req']),
             Marked(At(cache'[req'], events'[req'], i))
      PROVE  At(cache'[req'], events'[req'], i).others \subseteq obj'.others
  <2>1. PICK k \in Keys : k = req'
    BY <1>2 DEF LoopTypeOK, Deleting, DeletingSteps
  <2>2. CASE Begin(k) /\ obj' = cache[k]
    <3>1. UNCHANGED <<cache, events>>
      BY <2>2 DEF Begin, clusterVars
    <3>2. Marked(cache[k])
      <4>1. obj'.deleting /\ pc' # "idle"
        BY <1>2 DEF LoopInv, PassInv, Deleting, DeletingSteps
      <4>2. cache[k] # NoObject
        BY <2>2, <4>1 DEF Begin
      <4> QED
        BY <1>2, <2>2, <4>1, <4>2 DEF Marked
    <3>3. CASE i = 0
      BY <2>1, <2>2, <3>1, <3>3 DEF At
    <3>4. CASE i # 0
      <4>1. 0 \in 0..Len(events[k]) /\ i \in 0..Len(events[k]) /\ 0 < i
        BY <1>0, <1>2, <2>1, <3>1, <3>4
      <4>2. At(cache[k], events[k], 0) = cache[k]
        BY DEF At
      <4>3. Marked(At(cache[k], events[k], i))
        BY <1>2, <2>1, <3>1
      <4>4. At(cache[k], events[k], i).others \subseteq cache[k].others
        BY <1>0, <3>2, <4>1, <4>2, <4>3 DEF ShorterLists
      <4> QED
        BY <2>1, <2>2, <3>1, <4>4
    <3> QED
      BY <3>3, <3>4
  <2>3. CASE Deleting /\ UNCHANGED <<req, obj>>
    <3>1. k = req /\ i \in 0..Len(events'[k]) /\ Marked(At(cache'[k], events'[k], i))
      BY <1>2, <2>1, <2>3
    <3>2. \A j \in 0..Len(events[k]) : Marked(At(cache[k], events[k], j)) =>
             At(cache[k], events[k], j).others \subseteq obj.others
      BY <1>2, <2>3, <3>1 DEF ListInv
    <3>3. PICK d \in Nat :
            \/ /\ i + d \in 0..Len(events[k])
               /\ At(cache'[k], events'[k], i) = At(cache[k], events[k], i + d)
            \/ At(cache'[k], events'[k], i) = api'[k]
      BY <3>1, VersionsFrom
    <3>4. CASE At(cache'[k], events'[k], i) = api'[k]
      <4>1. ~Held(api[k])
        BY <1>2, <2>3, <3>1, ApiGenuine DEF LoopInv, PassInv
      <4>2. Marked(api[k]) /\ api'[k].others \subseteq api[k].others
        BY <3>1, <3>4, <4>1, MarkedFrom
      <4>3. Len(events[k]) \in 0..Len(events[k])
        BY <1>0
      <4>4. api[k].others \subseteq obj.others
        BY <1>0, <3>2, <4>2, <4>3
      <4> QED
        BY <2>1, <2>3, <3>4, <4>2, <4>4
    <3> QED
      BY <2>1, <2>3, <3>1, <3>2, <3>3, <3>4
  <2> QED
    BY <1>2, <2>1, <2>2, <2>3, DeletingFrom
<1> QED
  BY <1>1, <1>2 DEF ListInv

(***************************************************************************)
(* The theorem.                                                            *)
(***************************************************************************)

\* Whatever a provider's service calls do, and with any lag, crash, retry and
\* finalizer of others: the types, what the passes and the versions on their way
\* to the cache have to do with one another, that a pass which no change has
\* overtaken works on the API server's version, and that nobody's finalizer is added
\* to an object while it is being deleted.
THEOREM LoopInvariance ==
  ASSUME Exclusive
  PROVE  LoopSpec => [](LoopTypeOK /\ LoopInv /\ FreshInv /\ ListInv)
<1>1. LoopInit => LoopTypeOK /\ LoopInv /\ FreshInv /\ ListInv
  <2>1. LoopInit => LoopTypeOK
    BY LoopAssumption DEF LoopInit, LoopTypeOK, Version, Steps
  <2>2. LoopInit => ListInv
    BY ListInit
  <2> QED
    BY <2>1, <2>2, LoopInvInit DEF LoopInit, FreshInv
<1>2. LoopTypeOK /\ [LoopNext]_loopVars => LoopTypeOK'
  BY LoopTypeStep
<1>3. LoopTypeOK /\ LoopInv /\ [LoopNext]_loopVars => LoopInv'
  BY LoopInvStep, LoopAssumption
<1>4. LoopTypeOK /\ LoopTypeOK' /\ LoopInv /\ FreshInv /\ [LoopNext]_loopVars => FreshInv'
  BY FreshStep, LoopAssumption
<1>5. /\ LoopTypeOK /\ LoopTypeOK' /\ LoopInv /\ LoopInv' /\ ListInv
      /\ [LoopNext]_loopVars
      => ListInv'
  BY ListStep, LoopAssumption
<1> QED
  BY <1>1, <1>2, <1>3, <1>4, <1>5, PTL DEF LoopSpec
=============================================================================
