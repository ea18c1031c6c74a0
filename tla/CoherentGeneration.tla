------------------------ MODULE CoherentGeneration ------------------------
(***************************************************************************)
(* What the scene publisher promises a reader (the crate's own words are   *)
(* "either the previous coherent generation or the new coherent            *)
(* generation, never a mixed pair"): one register that goes from a         *)
(* coherent publication to a newer coherent publication in one step, and   *)
(* never from a full one to one made from the registry alone.              *)
(***************************************************************************)
EXTENDS Integers

CONSTANTS Contents, NoScene

VARIABLE current   \* what open_current would return

Publications ==
  [generation: Nat \ {0}, kind: {"registry_only", "full"}, registry: Nat, content: Contents]

\* publish accepts p on top of c.
Replaces(p, c) ==
  \/ c = NoScene
  \/ /\ p.generation > c.generation
     /\ ~(c.kind = "full" /\ p.kind = "registry_only")

Init == current = NoScene

\* A publication that may replace the current one takes its place.
Publish ==
  /\ current' \in Publications
  /\ Replaces(current', current)

Spec == Init /\ [][Publish]_current
=============================================================================
