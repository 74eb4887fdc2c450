---------------------------- MODULE MCAsyncState ----------------------------
(* An instance of AsyncState for TLC.                                      *)
EXTENDS AsyncState, TLC
StateSymmetry == Permutations(States)
=============================================================================
