---------------------------- MODULE MCTcpSocket -----------------------------
(* Instances of TcpSocket for TLC.                                         *)
EXTENDS TcpSocket, TLC

Symmetry == Permutations(Tasks)
=============================================================================
