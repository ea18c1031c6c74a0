-------------------------- MODULE MCGraphRenderer --------------------------
(***************************************************************************)
(* GraphRenderer for TLC.                                                  *)
(***************************************************************************)
EXTENDS GraphRenderer

\* Sound for safety: no definition singles out an id or a place.
Symmetry == Permutations(NodeIds) \cup Permutations(Places)
=============================================================================
