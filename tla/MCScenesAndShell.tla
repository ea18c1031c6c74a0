-------------------------- MODULE MCScenesAndShell --------------------------
(***************************************************************************)
(* ScenePublication, SceneView and ShellEditor for TLC, which explores one *)
(* of the three in a behaviour: they share no variable.  The two that do   *)
(* not run stay in one of their initial states.                            *)
(***************************************************************************)
EXTENDS ScenePublication, SceneView, MCShellEditor, TLC

CONSTANTS hybrid, hopf

VARIABLE machine

TwoManifolds == <<hybrid, hopf>>

\* Sound for every property: no definition singles out a content.
ContentSymmetry == Permutations(Contents)

\* Bound: the first archive has no missing page.  Of the second one page may be
\* in any state.
FirstArchive == \A p \in Page : page[p] # "absent"

MCInit ==
  /\ machine \in {"publication", "view", "shell"}
  /\ Init
  /\ SceneInit
  /\ ShellInit
  /\ FirstArchive
  /\ machine # "view" => publishes /\ \A p \in Page : page[p] = "good"

MCNext ==
  \/ machine = "publication" /\ Next /\ UNCHANGED <<machine, sceneVars, shellVars>>
  \/ machine = "view" /\ SceneNext /\ UNCHANGED <<machine, vars, shellVars>>
  \/ machine = "shell" /\ ShellNext /\ UNCHANGED <<machine, vars, sceneVars>>

MCSpec == MCInit /\ [][MCNext]_<<machine, vars, sceneVars, shellVars>>
=============================================================================
