------------------------- MODULE MCScenePublication -------------------------
(***************************************************************************)
(* ScenePublication for TLC: contents are interchangeable model values.    *)
(***************************************************************************)
EXTENDS ScenePublication, TLC

\* Sound for every property: no definition singles out a content.
ContentSymmetry == Permutations(Contents)
=============================================================================
