------------------------------ MODULE ListScan ------------------------------
(***************************************************************************)
(* The loops of netutils.ecs that walk over a list with an iterator and    *)
(* erase some of its elements on the way: what is left, and what was       *)
(* erased, are the elements at a set of positions in their old order.  The *)
(* order is stated and not computed, so that a proof can use it.           *)
(***************************************************************************)
EXTENDS Naturals, FiniteSets

(* The positions of P in increasing order: the one sequence that has them. *)
Listings(P) ==
  {f \in [1 .. Cardinality(P) -> P] : \A i, j \in DOMAIN f : i < j => f[i] < f[j]}

(* The elements of s at the positions f lists.                             *)
At(s, f) == [i \in DOMAIN f |-> s[f[i]]]
=============================================================================
