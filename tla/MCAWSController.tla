-------------------------- MODULE MCAWSController --------------------------
(* Small instances of AWSController.                                       *)
EXTENDS AWSInvariant

SpecOf(expiration, tags, access) ==
    [name |-> "n1", role |-> "r1", reclaim |-> "Delete",
     expiration |-> expiration, tags |-> tags, access |-> access]

\* One object whose owner drops the expiration, retags and regrants.
OneKeys    == {"k1"}
OneNames   == {"n1"}
OneRoles   == {"r1"}
OneAllowed == [k \in Keys |->
    {SpecOf("e1", "t1", "a1"), SpecOf(NoExpiration, "t2", "a2")}]

\* One object that is never edited.
SoloAllowed == [k \in Keys |-> {SpecOf("e1", "t1", "a1")}]

\* One object whose owner may name a key of the cluster's tags again.
TaggedAllowed == [k \in Keys |-> SoloAllowed[k] \cup {SpecOf("e1", "t2", "a1")}]
=============================================================================
