---------------------------- MODULE MCSlavePool ----------------------------
(* An instance of SlavePool for TLC; its constants are all in the .cfg.    *)
EXTENDS SlavePool
=============================================================================
