---------------------------- MODULE MCEventLoop -----------------------------
(* Instances of EventLoop for TLC.                                         *)
EXTENDS EventLoop, TLC

Symmetry == Permutations(Scripts) \cup Permutations(Workers)
=============================================================================
