--------------------------- MODULE MCZoneLifecycle ---------------------------
(* Instances of ZoneLifecycle: two hostnames under the apex domain of the     *)
(* zone there at first, and one under a domain that is not there yet.        *)
EXTENDS ZoneLifecycle, TLC

Shop == <<"shop", "example", "com">>
Apex == <<"example", "com">>
Other == <<"www", "example", "org">>

MCHosts == {Shop, Apex, Other}

CONSTANTS z1, z2, d1, d2

\* The zone the portal has created before.
OneCreated == [z \in {z1} |-> Shop]

\* And the domain that create has found or made.
OneKnown == [d \in {d1} |-> Apex]

Symmetry == Permutations(Calls)

=============================================================================
