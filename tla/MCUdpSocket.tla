---------------------------- MODULE MCUdpSocket ----------------------------
(* Instances of UdpSocket for TLC.                                         *)
EXTENDS UdpSocket, TLC

Symmetry == Permutations(Tasks)
=============================================================================
