-------------------------- MODULE MCCrowdRetention --------------------------
(* The names of passes for the runs of CrowdRetention. *)
EXTENDS CrowdRetention
CONSTANTS p1
=============================================================================
