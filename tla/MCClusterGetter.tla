-------------------------- MODULE MCClusterGetter --------------------------
(***************************************************************************)
(* A small instance of ClusterGetter: on each provider a complete cluster  *)
(* object and identity, and versions of them that differ in what the       *)
(* getters look at.                                                        *)
(***************************************************************************)
EXTENDS ClusterGetter

Without(o, f)  == [g \in DOMAIN o \ {f} |-> o[g]]
With(o, f, v)  == [g \in DOMAIN o \cup {f} |-> IF g = f THEN v ELSE o[g]]

\* Two keys of the Bucket differ only before they are sanitized, and so do two
\* keys of the cluster; one value is empty.
Tags == << [key |-> <<"a", "-">>, value |-> "first"],
           [key |-> <<"a", "_">>, value |-> "second"],
           [key |-> <<"b">>, value |-> ""] >>
Dashed == [k \in {<<"x", "-">>, <<"x", "_">>} |->
             IF k = <<"x", "-">> THEN "dash" ELSE "underscore"]

\* A key of the cluster that the Bucket has too.
Clash  == [k \in {<<"a", "-">>} |-> "cluster"]

AWSCluster == [identityName |-> "i", additionalTags |-> Dashed]
AzureCluster == [identityName |-> "i", identityNamespace |-> "away",
                 additionalTags |-> Dashed, resourceGroup |-> "g",
                 subscriptionID |-> "u"]

ClustersOf == [
    capa |-> {AWSCluster, With(AWSCluster, "additionalTags", Clash),
              Without(AWSCluster, "identityName")},
    capz |-> {AzureCluster,
              [AzureCluster EXCEPT !.identityNamespace = "",
                                   !.additionalTags = Clash]}]

Principal == [type |-> "ManualServicePrincipal", tenantID |-> "t", clientID |-> "c",
              secretName |-> "s", secretNamespace |-> "home"]

IdentitiesOf == [
    capa |-> {[roleARN |-> "r1"], [roleARN |-> ""], [roleARN |-> Malformed]},
    capz |-> {Principal, [type |-> "UserAssignedMSI", clientID |-> "c"]}]

TwoSlots == {<<"home", "i">>, <<"away", "i">>}
OneSecret == {<<"home", "s">>}
SomeSecrets == {[owner |-> "", data |-> "k1"], [owner |-> "", data |-> "k2"],
                [owner |-> "helm", data |-> ""]}
=============================================================================
