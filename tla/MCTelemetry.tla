----------------------------- MODULE MCTelemetry -----------------------------
(* Instances of Telemetry: one node that is let in, and one whose token is not *)
(* the configured one.                                                         *)
EXTENDS Telemetry

CONSTANTS e1, e2

MCRecorded == (e1 :> 2) @@ (e2 :> 1)

=============================================================================
