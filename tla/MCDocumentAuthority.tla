------------------------ MODULE MCDocumentAuthority ------------------------
(***************************************************************************)
(* DocumentAuthority for TLC.                                              *)
(***************************************************************************)
EXTENDS DocumentAuthority

\* Sound for every property: no definition singles out a note, a word or an id.
Symmetry == Permutations(Notes) \cup Permutations(Words) \cup Permutations(Ids)
=============================================================================
