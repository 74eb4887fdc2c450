-------------------------- MODULE MCMasterPipeline --------------------------
(* Instances of MasterPipeline for TLC; liveness rules symmetry out.       *)
EXTENDS MasterPipeline
=============================================================================
