------------------------ MODULE MCBucketController ------------------------
(* Small instances of BucketController.                                    *)
EXTENDS ControllerInvariant

\* A spec with fixed tags and access, under a policy and with an expiration.
SpecOf(name, role, reclaim, expiration) ==
    [name |-> name, role |-> role, reclaim |-> reclaim,
     expiration |-> expiration, tags |-> "t1", access |-> "a1"]

\* One object with an access role whose owner changes policy and expiration.
OneKeys    == {"k1"}
OneNames   == {"n1"}
OneRoles   == {"r1"}
OneAllowed == [k \in Keys |->
    {SpecOf("n1", "r1", "Delete", "e1"), SpecOf("n1", "r1", "", "e2")}]

\* The same, whose owner changes policy and tags, to some the provider refuses.
TaggedAllowed == [k \in Keys |->
    {SpecOf("n1", "r1", "Delete", "e1"),
     [SpecOf("n1", "r1", "", "e1") EXCEPT !.tags = "t2"]}]

\* Two objects, one with a role and one without, one of them to be retained.
TwoKeys    == {"k1", "k2"}
TwoNames   == {"n1", "n2"}
TwoAllowed == [k \in Keys |->
    IF k = "k1" THEN {SpecOf("n1", "r1", "Delete", "e1")}
                ELSE {SpecOf("n2", NoRole, "Retain", "e1")}]

\* The instances are exclusive, as the properties presuppose.
ASSUME ExclusiveInstance == Exclusive
=============================================================================
