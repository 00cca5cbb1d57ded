------------------------- MODULE MCAzureController -------------------------
(* Small instances of AzureController.                                     *)
EXTENDS AzureInvariant

SpecOf(name, role, expiration, tags) ==
    [name |-> name, role |-> role, reclaim |-> "Delete",
     expiration |-> expiration, tags |-> tags, access |-> "a1"]

OneKeys    == {"k1"}
\* "a-b" is the account "ab", and so is "ab-c" when names are cut at two.
AB         == <<"a", "-", "b">>
ABC        == <<"a", "b", "-", "c">>
Letters    == {"a", "b", "c"}
OneNames   == {AB}
OneRoles   == {"r1"}

\* One object that asks for a role, retagged and given another expiration.
OneAllowed == [k \in Keys |->
    {SpecOf(AB, "r1", "e1", "t1"), SpecOf(AB, "r1", "e2", "t2")}]

\* One object whose owner drops the expiration.
DropAllowed == [k \in Keys |->
    {SpecOf(AB, NoRole, "e1", "t1"), SpecOf(AB, NoRole, NoExpiration, "t1")}]

\* Two objects whose names differ only after the cut.
TwoKeys    == {"k1", "k2"}
TwoNames   == {AB, ABC}
TwoAllowed == [k \in Keys |->
    {SpecOf(IF k = "k1" THEN AB ELSE ABC, NoRole, "e1", "t1")}]
=============================================================================
