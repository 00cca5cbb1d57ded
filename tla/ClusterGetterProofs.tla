------------------------ MODULE ClusterGetterProofs ------------------------
(***************************************************************************)
(* Proofs about ClusterGetter: its type invariant, and that a pass never   *)
(* works with credentials put together from objects that do not belong     *)
(* together, whatever the contents of the objects and however often and    *)
(* when they are edited.                                                   *)
(***************************************************************************)
EXTENDS ClusterGetter, SequenceTheorems, TLAPS

\* While a pass runs, the history holds what is there now.
Recorded ==
    pc \notin {"down", "idle"} =>
        /\ cluster \in since.clusters
        /\ \A s \in Slots : identities[s] \in since.identities[s]
        /\ \A s \in SecretSlots : Elements(secrets[s]) \subseteq since.secrets[s]

\* What the pass has read so far, step by step of GetCluster.
ReadSoFar ==
    /\ pc \in {"identity", "secret", "services", "calls"} =>
          /\ got.cluster \in since.clusters
          /\ RefersToIdentity(got.cluster)
    /\ pc \in {"secret", "services", "calls"} =>
          /\ \E s \in Slots : Names(got.cluster, s) /\ got.identity \in since.identities[s]
          /\ Valid(got.cluster, got.identity)
    /\ pc \notin {"services", "calls"} => got.secret = None
    /\ pc = "secret" => NeedsSecret(got.identity)
    /\ pc \in {"services", "calls"} =>
          got.secret \in IF NeedsSecret(got.identity)
                         THEN since.secrets[<<got.identity.secretNamespace,
                                              got.identity.secretName>>]
                         ELSE {None}

GetterInv == TypeOK /\ Recorded /\ ReadSoFar

-----------------------------------------------------------------------------
(* Facts about the operators.                                              *)

\* What a Secret's informer applies, or others add, stays among its versions.
LEMMA VersionsOfSecret ==
    ASSUME NEW S, NEW q \in Seq(S) \ {<<>>}, NEW v \in S
    PROVE  /\ Head(q) \in S /\ Head(q) \in Elements(q)
           /\ q[Len(q)] \in S
           /\ Append(q, v) \in Seq(S) \ {<<>>}
           /\ <<v>> \in Seq(S) \ {<<>>}
           /\ Len(q) > 1 => /\ Tail(q) \in Seq(S) \ {<<>>}
                            /\ Elements(Tail(q)) \subseteq Elements(q)
<1>1. q \in Seq(S) /\ Len(q) \in Nat \ {0} /\ DOMAIN q = 1 .. Len(q)
  OBVIOUS
<1>2. \A n \in 1 .. Len(q) : q[n] \in S
  BY <1>1
<1>3. Head(q) = q[1] /\ 1 \in DOMAIN q /\ Len(q) \in DOMAIN q
  BY <1>1
<1>4. Head(q) \in S /\ Head(q) \in Elements(q) /\ q[Len(q)] \in S
  BY <1>1, <1>2, <1>3 DEF Elements
<1>5. Append(q, v) \in Seq(S) /\ Len(Append(q, v)) = Len(q) + 1 /\ Len(<<>>) = 0
  BY <1>1
<1>6. Append(q, v) \in Seq(S) \ {<<>>}
  BY <1>1, <1>5
<1>7. <<v>> \in Seq(S) /\ Len(<<v>>) = 1
  OBVIOUS
<1>8. <<v>> \in Seq(S) \ {<<>>}
  BY <1>5, <1>7
<1>9. ASSUME Len(q) > 1
      PROVE  /\ Tail(q) \in Seq(S) \ {<<>>}
             /\ Elements(Tail(q)) \subseteq Elements(q)
  <2>1. /\ Tail(q) \in Seq(S)
        /\ Len(Tail(q)) = Len(q) - 1
        /\ \A n \in 1 .. Len(Tail(q)) : Tail(q)[n] = q[n + 1]
    BY HeadTailProperties
  <2>2. DOMAIN Tail(q) = 1 .. Len(Tail(q)) /\ Tail(q) # <<>>
    <3>1. DOMAIN Tail(q) = 1 .. Len(Tail(q))
      BY <2>1, LenProperties
    <3>2. Len(q) - 1 # 0
      BY <1>1, <1>9
    <3> QED BY <1>5, <2>1, <3>1, <3>2
  <2>3. \A n \in DOMAIN Tail(q) : n + 1 \in DOMAIN q /\ Tail(q)[n] = q[n + 1]
    BY <1>1, <2>1, <2>2
  <2>4. ASSUME NEW x \in Elements(Tail(q)) PROVE x \in Elements(q)
    <3>1. PICK n \in DOMAIN Tail(q) : x = Tail(q)[n]
      BY DEF Elements
    <3> QED BY <2>3, <3>1 DEF Elements
  <2> QED BY <2>1, <2>2, <2>4
<1> QED BY <1>4, <1>6, <1>8, <1>9

\* A cluster object that refers to an identity refers into Slots, and
\* getClusterCRIdentity looks where the reference leads.
LEMMA IdentitySlotIsNamed ==
    ASSUME provider \in {"capa", "capz"}, NEW c \in Contents(Clusters),
           RefersToIdentity(c)
    PROVE  IdentitySlot(c) \in Slots /\ Names(c, IdentitySlot(c))
<1>1. c \in Clusters[provider] /\ "identityName" \in DOMAIN c
  BY GetterAssumption DEF Contents, RefersToIdentity, NotEmpty, Readable
<1>2. <<Home, c.identityName>> \in Slots
  BY <1>1, GetterAssumption
<1>3. CASE provider = "capz" /\ NotEmpty(c, "identityNamespace")
  <2>1. "identityNamespace" \in DOMAIN c /\ c["identityNamespace"] \notin {"", Malformed}
    BY <1>3 DEF NotEmpty, Readable
  <2>2. <<c["identityNamespace"], c.identityName>> \in Slots
    BY <1>1, <2>1, GetterAssumption
  <2> QED BY <1>3, <2>1, <2>2 DEF IdentitySlot, HomeSlot, ToObjectKey, Names
<1>4. CASE ~(provider = "capz" /\ NotEmpty(c, "identityNamespace"))
  <2>1. provider = "capz" /\ "identityNamespace" \in DOMAIN c
           => c["identityNamespace"] = ""
    BY <1>4 DEF RefersToIdentity, NotMalformed, NotEmpty
  <2> QED BY <1>2, <1>4, <2>1 DEF IdentitySlot, HomeSlot, ToObjectKey, Names
<1> QED BY <1>3, <1>4

\* The Secret of a valid identity is one of SecretSlots.
LEMMA SecretIsNamed ==
    ASSUME NEW c, NEW i \in Contents(Identities), Valid(c, i), NeedsSecret(i)
    PROVE  <<i.secretNamespace, i.secretName>> \in SecretSlots
<1>1. i \in Identities["capz"]
  BY GetterAssumption DEF Contents, NeedsSecret
<1>2. Required["ManualServicePrincipal"] =
         {"tenantID", "clientID", "secretName", "secretNamespace"}
  BY DEF Required
<1>3. \A f \in {"secretName", "secretNamespace"} : Readable(i, f)
  BY <1>2 DEF Valid, ValidAzure, NeedsSecret
<1>4. {"secretNamespace", "secretName"} \subseteq DOMAIN i
  BY <1>3 DEF Readable
<1> QED BY <1>1, <1>4, GetterAssumption

-----------------------------------------------------------------------------
(* The invariant is inductive.                                             *)

\* The invariant holds before the process starts.
LEMMA InitEstablishes == Init => GetterInv
<1> SUFFICES ASSUME Init PROVE GetterInv
  OBVIOUS
<1>1. secrets \in [SecretSlots -> Seq(SecretContents) \ {<<>>}]
  <2>1. secrets \in [SecretSlots -> {<<v>> : v \in SecretContents}]
    BY DEF Init
  <2>2. ASSUME NEW s \in SecretSlots
        PROVE  secrets[s] \in Seq(SecretContents) \ {<<>>}
    <3>1. PICK v \in SecretContents : secrets[s] = <<v>>
      BY <2>1
    <3>2. <<v>> \in Seq(SecretContents) /\ Len(<<v>>) = 1 /\ Len(<<>>) = 0
      OBVIOUS
    <3> QED BY <3>1, <3>2
  <2> QED BY <2>1, <2>2
<1>2. got = Blank /\ pc = "down" /\ due = FALSE /\ changes = 0 /\ faulty = Faults
  BY DEF Init
<1>3. provider \in Providers /\ cluster \in ClusterContents
      /\ identities \in [Slots -> Contents(Identities) \cup {Absent}]
  BY DEF Init
<1>4. TypeOK
  <2>1. got \in [cluster  : Contents(Clusters) \cup {None},
                identity : Contents(Identities) \cup {None},
                secret   : Secrets \cup {None}]
    BY <1>2 DEF Blank
  <2>2. got.cluster = None /\ got.identity = None
    BY <1>2 DEF Blank
  <2>3. MaxChanges \in Nat /\ Faults \in BOOLEAN
    BY GetterAssumption, Zenon
  <2>4. changes \in 0 .. MaxChanges
    BY <1>2, <2>3
  <2>5. faulty \in BOOLEAN /\ due \in BOOLEAN
    BY <1>2, <2>3, Zenon
  <2> QED BY <1>1, <1>2, <1>3, <2>1, <2>2, <2>4, <2>5 DEF TypeOK
<1>5. Recorded /\ ReadSoFar
  BY <1>2 DEF Recorded, ReadSoFar, Blank
<1> QED BY <1>4, <1>5 DEF GetterInv

\* A pass that ends, well or not, leaves nothing behind.
LEMMA EndOfPass ==
    ASSUME GetterInv, pc # "down", NEW next \in {"down", "idle"},
           NEW again \in BOOLEAN, EndPass(next, again),
           UNCHANGED <<provider, objects, changes, faulty>>
    PROVE  GetterInv'
<1>1. TypeOK'
  <2>1. /\ got'.cluster = None /\ got'.identity = None
        /\ got' \in [cluster  : Contents(Clusters) \cup {None},
                    identity : Contents(Identities) \cup {None},
                    secret   : Secrets \cup {None}]
    BY DEF EndPass, Blank
  <2> QED BY <2>1 DEF GetterInv, TypeOK, ClusterContents, SecretContents, Contents,
                      EndPass, objects
<1>2. Recorded' /\ ReadSoFar'
  BY DEF EndPass, Blank, Recorded, ReadSoFar
<1> QED BY <1>1, <1>2 DEF GetterInv

\* The error paths of Reconcile.
LEMMA RetryKeeps ==
    ASSUME GetterInv, pc # "down", Retry, UNCHANGED <<provider, objects, changes, faulty>>
    PROVE  GetterInv'
BY EndOfPass DEF Retry

\* main: the process starts with fresh caches, or not at all.
LEMMA StartKeeps ==
    ASSUME GetterInv, Start
    PROVE  GetterInv'
<1>1. secrets' \in [SecretSlots -> Seq(SecretContents) \ {<<>>}]
  <2>1. ASSUME NEW s \in SecretSlots
        PROVE  <<Current(s)>> \in Seq(SecretContents) \ {<<>>}
    <3>1. secrets[s] \in Seq(SecretContents) \ {<<>>}
      BY DEF GetterInv, TypeOK
    <3>2. Current(s) \in SecretContents
      BY <3>1, VersionsOfSecret DEF Current
    <3> QED BY <3>1, <3>2, VersionsOfSecret
  <2> QED BY <2>1 DEF Start
<1>2. TypeOK'
  BY <1>1 DEF GetterInv, TypeOK, ClusterContents, SecretContents, Contents, Start
<1>3. Recorded' /\ ReadSoFar'
  BY DEF GetterInv, ReadSoFar, Recorded, Start
<1> QED BY <1>2, <1>3 DEF GetterInv

\* Reconcile begins: the history starts with what is there.
LEMMA BeginKeeps ==
    ASSUME GetterInv, Begin, UNCHANGED <<provider, objects, changes, faulty>>
    PROVE  GetterInv'
<1>1. TypeOK'
  BY DEF GetterInv, TypeOK, ClusterContents, SecretContents, Contents, Begin, objects
<1>2. Recorded'
  BY DEF Recorded, Begin, Now, objects
<1>3. ReadSoFar'
  BY DEF GetterInv, ReadSoFar, Begin
<1> QED BY <1>1, <1>2, <1>3 DEF GetterInv

\* getClusterCR and the checks of identityRef.
LEMMA ReadClusterKeeps ==
    ASSUME GetterInv, ReadCluster, UNCHANGED <<provider, objects, changes, faulty>>
    PROVE  GetterInv'
<1>1. CASE Retry
  BY <1>1, RetryKeeps DEF ReadCluster
<1>2. CASE /\ cluster # Absent /\ RefersToIdentity(cluster)
           /\ got' = [got EXCEPT !.cluster = cluster]
           /\ pc' = "identity" /\ UNCHANGED <<due, since>>
  <2>1. cluster \in Contents(Clusters) /\ cluster # None
    BY <1>2, GetterAssumption DEF GetterInv, TypeOK, ClusterContents, Contents
  <2>2. pc = "cluster"
    BY DEF ReadCluster
  <2>3. got'.cluster = cluster /\ got'.identity = got.identity /\ got'.secret = got.secret
    BY <1>2 DEF GetterInv, TypeOK
  <2>4. TypeOK'
    BY <1>2, <2>1, <2>2 DEF GetterInv, TypeOK, ClusterContents, SecretContents,
                            Contents, objects
  <2>5. Recorded'
    BY <1>2, <2>2 DEF GetterInv, Recorded, objects
  <2>6. ReadSoFar'
    BY <1>2, <2>2, <2>3 DEF GetterInv, Recorded, ReadSoFar, RefersToIdentity,
                            NotEmpty, NotMalformed, Readable
  <2> QED BY <2>4, <2>5, <2>6 DEF GetterInv
<1> QED BY <1>1, <1>2 DEF ReadCluster, Fails

\* getClusterCRIdentity and the checks of both objects.
LEMMA ReadIdentityKeeps ==
    ASSUME GetterInv, ReadIdentity, UNCHANGED <<provider, objects, changes, faulty>>
    PROVE  GetterInv'
<1> DEFINE slot == IdentitySlot(got.cluster)
           i    == identities[slot]
<1>1. CASE Retry
  BY <1>1, RetryKeeps DEF ReadIdentity
<1>2. CASE /\ i # Absent /\ Valid(got.cluster, i)
           /\ got' = [got EXCEPT !.identity = i]
           /\ pc' = IF NeedsSecret(i) THEN "secret" ELSE "services"
           /\ UNCHANGED <<due, since>>
  <2>1. pc = "identity" /\ provider \in {"capa", "capz"}
    BY DEF ReadIdentity, GetterInv, TypeOK
  <2>2. got.cluster \in Contents(Clusters) /\ RefersToIdentity(got.cluster)
    BY <2>1 DEF GetterInv, TypeOK, ReadSoFar
  <2>3. slot \in Slots /\ Names(got.cluster, slot)
    BY <2>1, <2>2, IdentitySlotIsNamed
  <2>4. i \in Contents(Identities) /\ i # None
    <3>1. i \in Contents(Identities)
      BY <1>2, <2>3 DEF GetterInv, TypeOK
    <3> QED BY <3>1, GetterAssumption DEF Contents
  <2>5. got'.cluster = got.cluster /\ got'.identity = i /\ got'.secret = got.secret
    BY <1>2 DEF GetterInv, TypeOK
  <2>6. TypeOK'
    BY <1>2, <2>1, <2>4 DEF GetterInv, TypeOK, ClusterContents, SecretContents,
                            Contents, objects
  <2>7. Recorded'
    BY <1>2, <2>1 DEF GetterInv, Recorded, objects
  <2>8. ReadSoFar'
    <3>1. i \in since'.identities[slot] /\ got.cluster \in since'.clusters
      BY <1>2, <2>1, <2>3 DEF GetterInv, Recorded, ReadSoFar
    <3>2. got'.secret = None
      BY <2>1, <2>5 DEF GetterInv, ReadSoFar
    <3>3. RefersToIdentity(got.cluster)'
      BY <2>2, <2>5 DEF RefersToIdentity, NotEmpty, NotMalformed, Readable
    <3>4. (\E s \in Slots : Names(got.cluster, s) /\ got.identity \in since.identities[s])'
      <4>1. \E s \in Slots : Names(got.cluster, s) /\ i \in since'.identities[s]
        BY <2>3, <3>1
      <4> QED BY <2>5, <4>1 DEF Names
    <3>5. Valid(got.cluster, got.identity)'
      BY <1>2, <2>5 DEF Valid, ValidAWS, ValidAzure, NotMalformed, Readable
    <3>6. NeedsSecret(got.identity)' <=> NeedsSecret(i)
      BY <2>5 DEF NeedsSecret
    <3> QED BY <1>2, <2>5, <3>1, <3>2, <3>3, <3>4, <3>5, <3>6 DEF ReadSoFar
  <2> QED BY <2>6, <2>7, <2>8 DEF GetterInv
<1> QED BY <1>1, <1>2 DEF ReadIdentity, Fails

\* The read of the Secret from the cache.
LEMMA ReadSecretKeeps ==
    ASSUME GetterInv, ReadSecret, UNCHANGED <<provider, objects, changes, faulty>>
    PROVE  GetterInv'
<1> DEFINE slot   == <<got.identity.secretNamespace, got.identity.secretName>>
           secret == Head(secrets[slot])
<1>1. CASE Retry
  BY <1>1, RetryKeeps DEF ReadSecret
<1>2. CASE /\ secret # Absent
           /\ got' = [got EXCEPT !.secret = secret]
           /\ pc' = "services" /\ UNCHANGED <<due, since>>
  <2>1. pc = "secret" /\ NeedsSecret(got.identity) /\ Valid(got.cluster, got.identity)
    BY DEF ReadSecret, GetterInv, ReadSoFar
  <2>2. got.identity \in Contents(Identities)
    BY <2>1 DEF GetterInv, TypeOK
  <2>3. slot \in SecretSlots
    BY <2>1, <2>2, SecretIsNamed
  <2>4. secret \in SecretContents /\ secret \in Elements(secrets[slot])
    <3>1. secrets[slot] \in Seq(SecretContents) \ {<<>>}
      BY <2>3 DEF GetterInv, TypeOK
    <3> QED BY <3>1, VersionsOfSecret
  <2>5. secret \in Secrets
    BY <1>2, <2>4 DEF SecretContents
  <2>6. got'.cluster = got.cluster /\ got'.identity = got.identity /\ got'.secret = secret
    BY <1>2 DEF GetterInv, TypeOK
  <2>7. TypeOK'
    BY <1>2, <2>1, <2>5 DEF GetterInv, TypeOK, ClusterContents, SecretContents,
                            Contents, objects
  <2>8. Recorded'
    BY <1>2, <2>1 DEF GetterInv, Recorded, objects
  <2>9. ReadSoFar'
    <3>1. secret \in since'.secrets[slot]
      BY <1>2, <2>1, <2>3, <2>4 DEF GetterInv, Recorded
    <3>2. /\ got.cluster \in since.clusters
          /\ RefersToIdentity(got.cluster)
          /\ \E s \in Slots : Names(got.cluster, s) /\ got.identity \in since.identities[s]
      BY <2>1 DEF GetterInv, ReadSoFar
    <3>3. RefersToIdentity(got.cluster)'
      BY <2>6, <3>2 DEF RefersToIdentity, NotEmpty, NotMalformed, Readable
    <3>4. (\E s \in Slots : Names(got.cluster, s) /\ got.identity \in since.identities[s])'
      BY <1>2, <2>6, <3>2 DEF Names
    <3>5. Valid(got.cluster, got.identity)' /\ NeedsSecret(got.identity)'
      BY <2>1, <2>6 DEF Valid, ValidAWS, ValidAzure, NotMalformed, Readable, NeedsSecret
    <3> QED BY <1>2, <2>6, <3>1, <3>2, <3>3, <3>4, <3>5 DEF ReadSoFar
  <2> QED BY <2>7, <2>8, <2>9 DEF GetterInv
<1> QED BY <1>1, <1>2 DEF ReadSecret, Cached, Fails

\* What a pass has read stays accounted for as the history grows.
LEMMA HistoryGrows ==
    ASSUME GetterInv, UNCHANGED <<provider, got>>,
           pc' = pc \/ (pc = "services" /\ pc' = "calls"),
           pc \notin {"down", "idle"} =>
               /\ since.clusters \subseteq since'.clusters
               /\ \A s \in Slots : since.identities[s] \subseteq since'.identities[s]
               /\ \A s \in SecretSlots : since.secrets[s] \subseteq since'.secrets[s]
    PROVE  ReadSoFar'
<1> USE DEF GetterInv
<1>1. pc' \in {"identity", "secret", "services", "calls"} =>
          got'.cluster \in since'.clusters /\ RefersToIdentity(got.cluster)'
  BY DEF ReadSoFar, RefersToIdentity, NotEmpty, NotMalformed, Readable
<1>2. ASSUME pc' \in {"secret", "services", "calls"}
      PROVE  /\ (\E s \in Slots : /\ Names(got.cluster, s)
                                  /\ got.identity \in since.identities[s])'
             /\ Valid(got.cluster, got.identity)'
  <2>1. PICK s \in Slots : Names(got.cluster, s) /\ got.identity \in since.identities[s]
    BY <1>2 DEF ReadSoFar
  <2>2. Names(got.cluster, s)' /\ got'.identity \in since'.identities[s]
    BY <1>2, <2>1 DEF Names
  <2>3. Valid(got.cluster, got.identity)'
    BY <1>2 DEF ReadSoFar, Valid, ValidAWS, ValidAzure, NotMalformed, Readable
  <2> QED BY <2>2, <2>3
<1>3. NeedsSecret(got.identity)' <=> NeedsSecret(got.identity)
  BY DEF NeedsSecret
<1>4. /\ pc' \notin {"services", "calls"} => got'.secret = None
      /\ pc' = "secret" => NeedsSecret(got.identity)'
  BY <1>3 DEF ReadSoFar
<1>5. ASSUME pc' \in {"services", "calls"}
      PROVE  got'.secret \in IF NeedsSecret(got.identity)'
                             THEN since'.secrets[<<got'.identity.secretNamespace,
                                                   got'.identity.secretName>>]
                             ELSE {None}
  <2>1. CASE NeedsSecret(got.identity)
    <3>1. got.identity \in Contents(Identities) /\ Valid(got.cluster, got.identity)
      BY <1>5 DEF TypeOK, ReadSoFar
    <3>2. <<got.identity.secretNamespace, got.identity.secretName>> \in SecretSlots
      BY <2>1, <3>1, SecretIsNamed
    <3> QED BY <1>3, <1>5, <2>1, <3>2 DEF ReadSoFar
  <2>2. CASE ~NeedsSecret(got.identity)
    BY <1>3, <1>5, <2>2 DEF ReadSoFar
  <2> QED BY <2>1, <2>2
<1> QED BY <1>1, <1>2, <1>4, <1>5 DEF ReadSoFar

\* The factories and the calls of the pass.
LEMMA ServicesKeep ==
    ASSUME GetterInv, NewServices \/ ServiceCalls,
           UNCHANGED <<provider, objects, changes, faulty>>
    PROVE  GetterInv'
<1>1. pc \in {"services", "calls"}
  BY DEF NewServices, ServiceCalls
<1>2. CASE pc = "services" /\ pc' = "calls" /\ UNCHANGED <<due, got, since>>
  <2>1. TypeOK'
    BY <1>2 DEF GetterInv, TypeOK, ClusterContents, SecretContents, Contents, objects
  <2>2. Recorded'
    BY <1>2 DEF GetterInv, Recorded, objects
  <2>3. ReadSoFar'
    BY <1>2, HistoryGrows
  <2> QED BY <2>1, <2>2, <2>3 DEF GetterInv
<1>3. CASE Retry
  BY <1>1, <1>3, RetryKeeps
<1>4. CASE EndPass("idle", due)
  <2>1. due \in BOOLEAN
    BY DEF GetterInv, TypeOK
  <2> QED BY <1>1, <1>4, <2>1, EndOfPass
<1> QED BY <1>2, <1>3, <1>4 DEF NewServices, ServiceCalls, Fails

\* A pass becomes due, or faults end: nothing else moves.
LEMMA EnqueueKeeps ==
    ASSUME GetterInv, Enqueue \/ Stabilize
    PROVE  GetterInv'
<1>1. UNCHANGED <<provider, objects, pc, got, since, changes>>
  BY DEF Enqueue, Stabilize, objects
<1>2. due' \in BOOLEAN /\ faulty' \in BOOLEAN
  BY Zenon DEF GetterInv, TypeOK, Enqueue, Stabilize
<1>3. TypeOK'
  BY <1>1, <1>2 DEF GetterInv, TypeOK, ClusterContents, SecretContents, Contents, objects
<1>4. Recorded'
  BY <1>1 DEF GetterInv, Recorded, objects
<1>5. ReadSoFar'
  BY <1>1, HistoryGrows
<1> QED BY <1>3, <1>4, <1>5 DEF GetterInv

\* The informer applies a change of a Secret.
LEMMA SecretWatchKeeps ==
    ASSUME GetterInv, NEW s \in SecretSlots, SecretWatch(s)
    PROVE  GetterInv'
<1>1. secrets[s] \in Seq(SecretContents) \ {<<>>} /\ Len(secrets[s]) > 1
  BY DEF GetterInv, TypeOK, SecretWatch
<1>2. /\ Tail(secrets[s]) \in Seq(SecretContents) \ {<<>>}
      /\ Elements(Tail(secrets[s])) \subseteq Elements(secrets[s])
  <2>1. Absent \in SecretContents
    BY DEF SecretContents
  <2> QED BY <1>1, <2>1, VersionsOfSecret
<1>3. TypeOK'
  BY <1>2 DEF GetterInv, TypeOK, ClusterContents, SecretContents, Contents, SecretWatch
<1>4. Recorded'
  <2>1. \A t \in SecretSlots : Elements(secrets'[t]) \subseteq Elements(secrets[t])
    BY <1>2 DEF GetterInv, TypeOK, SecretWatch
  <2> QED BY <2>1 DEF GetterInv, Recorded, SecretWatch
<1>5. ReadSoFar'
  BY HistoryGrows DEF SecretWatch
<1> QED BY <1>3, <1>4, <1>5 DEF GetterInv

\* Others edit an object in the middle of a pass.
LEMMA EditKeeps ==
    ASSUME GetterInv, Edit
    PROVE  GetterInv'
<1>1. UNCHANGED <<provider, pc, due, got, faulty>>
  BY DEF Edit
<1>2. changes' \in 0 .. MaxChanges
  <2>1. MaxChanges \in Nat
    BY GetterAssumption, Zenon
  <2>2. changes \in 0 .. MaxChanges /\ changes < MaxChanges /\ changes' = changes + 1
    BY DEF GetterInv, TypeOK, Edit
  <2> QED BY <2>1, <2>2
<1>3. /\ cluster' \in ClusterContents
      /\ identities' \in [Slots -> Contents(Identities) \cup {Absent}]
      /\ secrets' \in [SecretSlots -> Seq(SecretContents) \ {<<>>}]
  <2> USE DEF GetterInv, TypeOK
  <2>1. CASE cluster' \in ClusterContents /\ UNCHANGED <<identities, secrets>>
    BY <2>1
  <2>2. ASSUME NEW s \in Slots, NEW i \in IdentityContents(s),
               identities' = [identities EXCEPT ![s] = i], UNCHANGED <<cluster, secrets>>
        PROVE  <1>3!1 /\ <1>3!2 /\ <1>3!3
    BY <2>2 DEF IdentityContents
  <2>3. ASSUME NEW s \in SecretSlots, NEW v \in SecretContents,
               secrets' = [secrets EXCEPT ![s] = Append(@, v)],
               UNCHANGED <<cluster, identities>>
        PROVE  <1>3!1 /\ <1>3!2 /\ <1>3!3
    <3>1. Append(secrets[s], v) \in Seq(SecretContents) \ {<<>>}
      BY VersionsOfSecret
    <3> QED BY <2>3, <3>1
  <2> QED BY <2>1, <2>2, <2>3 DEF Edit
<1>4. TypeOK'
  BY <1>1, <1>2, <1>3 DEF GetterInv, TypeOK, ClusterContents, SecretContents, Contents
<1>5. pc \notin {"down", "idle"} =>
         since' = [clusters   |-> since.clusters \cup {cluster'},
                   identities |-> [s \in Slots |-> since.identities[s]
                                                     \cup {identities'[s]}],
                   secrets    |-> [s \in SecretSlots |-> since.secrets[s]
                                                 \cup Elements(secrets'[s])]]
  BY DEF Edit
<1>6. Recorded'
  BY <1>1, <1>5 DEF Recorded
<1>7. ReadSoFar'
  BY <1>1, <1>5, HistoryGrows
<1> QED BY <1>4, <1>6, <1>7 DEF GetterInv

\* The process dies at any point of a pass.
LEMMA CrashKeeps ==
    ASSUME GetterInv, Crash
    PROVE  GetterInv'
BY EndOfPass DEF Crash

\* Every step keeps the invariant.
LEMMA NextKeeps ==
    ASSUME GetterInv, [Next]_vars
    PROVE  GetterInv'
<1>1. CASE Pass
  BY <1>1, BeginKeeps, ReadClusterKeeps, ReadIdentityKeeps, ReadSecretKeeps,
     ServicesKeep DEF Pass
<1>2. CASE \E s \in SecretSlots : SecretWatch(s)
  BY <1>2, SecretWatchKeeps
<1>3. CASE UNCHANGED vars
  <2>1. UNCHANGED <<provider, objects, pc, due, got, since, changes, faulty>>
    BY <1>3 DEF vars
  <2>2. TypeOK'
    BY <2>1 DEF GetterInv, TypeOK, ClusterContents, SecretContents, Contents, objects
  <2>3. Recorded'
    BY <2>1 DEF GetterInv, Recorded, objects
  <2>4. ReadSoFar'
    BY <2>1, HistoryGrows
  <2> QED BY <2>2, <2>3, <2>4 DEF GetterInv
<1> QED BY <1>1, <1>2, <1>3, StartKeeps, EnqueueKeeps, EditKeeps, CrashKeeps DEF Next

-----------------------------------------------------------------------------
(* The theorems.                                                           *)

\* The process, its passes and the edits of others keep every variable within
\* its type, and a pass holds a copy of an object only after it has read it.
THEOREM GetterTypeCorrect == Spec => []TypeOK
<1>1. Init => GetterInv
  BY InitEstablishes
<1>2. GetterInv /\ [Next]_vars => GetterInv'
  BY NextKeeps
<1>3. GetterInv => TypeOK
  BY DEF GetterInv
<1> QED BY <1>1, <1>2, <1>3, PTL DEF Spec

\* For any contents of the objects and any edits between the reads of
\* GetCluster, the factories build clients only from a cluster object, the
\* identity it names and the Secret this identity names, all of this pass.
THEOREM CredentialsAreCoherent == Spec => []Coherent
<1>1. Init => GetterInv
  BY InitEstablishes
<1>2. GetterInv /\ [Next]_vars => GetterInv'
  BY NextKeeps
<1>3. GetterInv => Coherent
  BY DEF GetterInv, ReadSoFar, Coherent, NeedsSecret
<1> QED BY <1>1, <1>2, <1>3, PTL DEF Spec
=============================================================================
