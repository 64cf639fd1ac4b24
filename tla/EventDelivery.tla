---------------------------- MODULE EventDelivery ----------------------------
(***************************************************************************)
(* What the telemetry path promises of each security event an edge records *)
(* (package comments of edge-plane/go/telemetry and control-plane/go/      *)
(* ingest): it is on its way for some time and then either in the log, once*)
(* and for good, or lost, for good.  Nothing is retried, nothing stays     *)
(* under way for ever, and nothing appears that was not recorded.          *)
(*                                                                         *)
(* The promise that every event settles is written as it is, not as        *)
(* fairness of an action: any event under way may settle at any time, so   *)
(* it constrains no finite behaviour.                                      *)
(***************************************************************************)
EXTENDS Sequences

CONSTANT Events

VARIABLES
    fate,   \* [Events -> "new", "underway", "stored" or "lost"]
    log     \* the stored events, in the order in which they were stored

DeliveryInit ==
    /\ fate = [v \in Events |-> "new"]
    /\ log = <<>>

\* An event is recorded, or dropped at once because there is no room for it.
Appear(v) ==
    /\ fate[v] = "new"
    /\ \E f \in {"underway", "lost"} : fate' = [fate EXCEPT ![v] = f]
    /\ UNCHANGED log

Store(v) ==
    /\ fate[v] = "underway"
    /\ fate' = [fate EXCEPT ![v] = "stored"]
    /\ log' = Append(log, v)

\* A batch, a buffer or a process is lost with all that was in it.
Lose(some) ==
    /\ some # {} /\ \A v \in some : fate[v] = "underway"
    /\ fate' = [v \in Events |-> IF v \in some THEN "lost" ELSE fate[v]]
    /\ UNCHANGED log

DeliveryNext ==
    \/ \E v \in Events : Appear(v) \/ Store(v)
    \/ \E some \in SUBSET Events : Lose(some)

DeliverySafety == DeliveryInit /\ [][DeliveryNext]_<<fate, log>>

DeliverySpec ==
    /\ DeliverySafety
    /\ \A v \in Events : (fate[v] = "underway") ~> (fate[v] \in {"stored", "lost"})

=============================================================================
