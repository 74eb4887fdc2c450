----------------------------- MODULE MCTlsTrust -----------------------------
(* An instance of TlsTrust for TLC.                                        *)
EXTENDS TlsTrust, TLC
SocketSymmetry == Permutations(Sockets)
=============================================================================
