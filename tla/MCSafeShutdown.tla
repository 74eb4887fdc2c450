--------------------------- MODULE MCSafeShutdown ---------------------------
(* Instances of SafeShutdown for TLC.                                      *)
EXTENDS SafeShutdown

AllHosts == [guard : BOOLEAN, worker : BOOLEAN]
=============================================================================
