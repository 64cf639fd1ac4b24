----------------------------- MODULE MCAlerting -----------------------------
(* Instances of Alerting: two addresses of which one contains the other, as *)
(* "10.0.0.11" does "10.0.0.1", and policies with and without a channel.    *)
EXTENDS Alerting, TLC

CONSTANTS short, long

MCIsIn(ip, title) == ip = title \/ (ip = short /\ title = long)

MCPolicies == [hook |-> [threshold |-> 2, window |-> 0, channel |-> "webhook"],
               mute |-> [threshold |-> 1, window |-> 1, channel |-> "none"]]

Symmetry == Permutations(Sweeps) \cup Permutations(Zones)

=============================================================================
