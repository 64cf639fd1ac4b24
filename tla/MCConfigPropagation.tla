------------------------- MODULE MCConfigPropagation -------------------------
(* The instances of MCDistributor with an edge node behind the store. *)
EXTENDS MCDistributor, ConfigPropagation
=============================================================================
