-------------------------- MODULE MCFederationHarvest --------------------------
(* Constants of the bounded instances of FederationHarvest. *)
EXTENDS FederationHarvest

Scheduler == {"scheduler"}
================================================================================
