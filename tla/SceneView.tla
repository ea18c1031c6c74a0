------------------------------ MODULE SceneView ------------------------------
(***************************************************************************)
(* How a resident scene gets from the kernel into the graph window: the    *)
(* archive whose pages are verified when a thread first asks for them, the *)
(* kernel's view of the scene, and the window's copy of both.              *)
(*                                                                         *)
(* Three threads read pages: the kernel's worker when it opens a scene     *)
(* that is not resident yet, the graph window when it shows a manifold,    *)
(* and the proof once the window has been joined.  The kernel's state      *)
(* changes under one lock and the window works on a snapshot of it.        *)
(*                                                                         *)
(* A generation stands for its archive: cohort and contents are left out.  *)
(* A product index is named by the generation it is bound to.  The shared  *)
(* pages and a manifold's positions are one page here, and so are its      *)
(* guides and paths; a set of either is read page by page in the same way. *)
(* What wakes the window is GraphWindow's matter.                          *)
(***************************************************************************)
EXTENDS Integers, Sequences

CONSTANTS
  ManifoldList, \* Manifold::ALL; the first is Hybrid
  PageStates,   \* bound: what one page of an archive may be; the others are good
  MaxScene      \* bound: the backend's generation numbers

Manifolds == {ManifoldList[i] : i \in DOMAIN ManifoldList}
Hybrid == ManifoldList[1]

ASSUME SceneAssumption ==
  /\ ManifoldList \in Seq(Manifolds) \ {<<>>}
  /\ PageStates \subseteq {"good", "bad", "unusable", "absent"}
  /\ "good" \in PageStates
  /\ MaxScene \in Nat \ {0}

VARIABLES
  \* KernelState
  scene,      \* resident_scene
  index,      \* scene_product_index, or None
  view,       \* graph_view: its authority, manifold and filter
  publishes,  \* whether the kernel has a publisher
  \* the coordinator's worker
  opening,    \* the generation it opens, or None
  newest,     \* the newest generation it has tried to open
  \* the archives
  page,       \* what is in each page
  check,      \* verification
  hashed,     \* how often each page was hashed; verification_count is their sum
  \* the threads
  todo,       \* the pages a thread still wants
  at,         \* where it is in verify_page
  \* EmbeddedGraphApp
  window,     \* what it does
  snap,       \* the kernel snapshot it works on
  loaded,     \* loaded_generation, and loaded_graph_view with loaded_manifold
  drawn       \* GraphRenderer: scene, positions, product index and active_view

kernelVars == <<scene, index, view, publishes>>
workerVars == <<opening, newest, page>>
pageVars == <<check, hashed>>
threadVars == <<todo, at>>
windowVars == <<window, snap, loaded, drawn>>
sceneVars == <<kernelVars, workerVars, pageVars, threadVars, windowVars>>

None == 0
Scenes == 1..MaxScene
Threads == {"worker", "window", "proof"}
Page == [scene: Scenes, manifold: Manifolds, part: {"core", "guides"}]
Core(g, m) == [scene |-> g, manifold |-> m, part |-> "core"]
Guides(g, m) == [scene |-> g, manifold |-> m, part |-> "guides"]

Authorities == [scene: Scenes, index: 0..MaxScene]
GraphView ==
  [scene: 0..MaxScene, index: 0..MaxScene, manifold: Manifolds, filtered: BOOLEAN]
Unavailable == [scene |-> None, index |-> None, manifold |-> Hybrid, filtered |-> FALSE]
Snapshot == [scene: 0..MaxScene, index: 0..MaxScene, view: GraphView]

\* Every variable has its type, and the kernel's view always names a scene.
SceneTypeOK ==
  /\ scene \in Scenes
  /\ index \in 0..MaxScene
  /\ view \in GraphView
  /\ view.scene \in Scenes
  /\ publishes \in BOOLEAN
  /\ opening \in 0..MaxScene
  /\ newest \in Scenes
  /\ page \in [Page -> {"good", "bad", "unusable", "absent"}]
  /\ check \in [Page -> {"unverified", "verifying", "verified", "corrupt"}]
  /\ hashed \in [Page -> Nat]
  /\ todo \in [Threads -> Seq(Page)]
  /\ at \in [Threads -> {"idle", "look", "claim", "hash", "failed"}]
  /\ window \in {"waiting", "opening", "ended", "joined"}
  /\ snap \in Snapshot
  /\ loaded \in [scene: 0..MaxScene, view: GraphView]
  /\ drawn \in [scene: 0..MaxScene, positions: Manifolds, index: 0..MaxScene, view: GraphView]

-----------------------------------------------------------------------------
(***************************************************************************)
(* Pages: verify_page, by any thread that asks                             *)
(***************************************************************************)

\* A thread asks for pages one after the other.
Ask(t, pages) ==
  /\ todo' = [todo EXCEPT ![t] = pages]
  /\ at' = [at EXCEPT ![t] = IF pages = <<>> THEN "idle" ELSE "look"]

Move(t, place) == at' = [at EXCEPT ![t] = place]

\* The page is verified: it is parsed and the thread takes the next one.
Proceed(t) ==
  IF page[Head(todo[t])] = "unusable" THEN Move(t, "failed") /\ UNCHANGED todo
  ELSE Ask(t, Tail(todo[t]))

\* state.load: a page another thread verifies is looked at again and again.
Look(t) ==
  LET p == Head(todo[t]) IN
  /\ at[t] = "look"
  /\ \/ check[p] = "verified" /\ Proceed(t)
     \/ check[p] = "corrupt" /\ Move(t, "failed") /\ UNCHANGED todo
     \/ check[p] = "unverified" /\ Move(t, "claim") /\ UNCHANGED todo
  /\ UNCHANGED <<kernelVars, workerVars, pageVars, windowVars>>

\* compare_exchange: one thread wins, the others look again.
Claim(t) ==
  LET p == Head(todo[t]) IN
  /\ at[t] = "claim"
  /\ IF check[p] = "unverified"
     THEN check' = [check EXCEPT ![p] = "verifying"] /\ Move(t, "hash")
     ELSE check' = check /\ Move(t, "look")
  /\ UNCHANGED <<kernelVars, workerVars, hashed, todo, windowVars>>

\* The winner hashes the page and stores the outcome.
Hash(t) ==
  LET p == Head(todo[t]) IN
  /\ at[t] = "hash"
  /\ hashed' = [hashed EXCEPT ![p] = @ + 1]
  /\ IF page[p] = "bad"
     THEN check' = [check EXCEPT ![p] = "corrupt"] /\ Move(t, "failed") /\ UNCHANGED todo
     ELSE check' = [check EXCEPT ![p] = "verified"] /\ Proceed(t)
  /\ UNCHANGED <<kernelVars, workerVars, windowVars>>

ReadStep(t) == Look(t) \/ Claim(t) \/ Hash(t)

-----------------------------------------------------------------------------
(***************************************************************************)
(* The kernel's worker                                                     *)
(***************************************************************************)

WorkerFree == opening = None

\* What the archive of generation g may hold.
Archives(pages, g) ==
  {[pages EXCEPT ![p] = state] :
     p \in {Guides(g, m) : m \in Manifolds}, state \in PageStates}
    \cup {[pages EXCEPT ![Core(g, m)] = "bad"] : m \in Manifolds}

\* The publisher opens a pair it has put in place: from_archive asks for the
\* core pages of all manifolds.
OpenScene(g) ==
  /\ WorkerFree
  /\ publishes
  /\ g > newest
  /\ opening' = g
  /\ newest' = g
  /\ page' \in Archives(page, g)
  /\ Ask("worker", [i \in DOMAIN ManifoldList |-> Core(g, ManifoldList[i])])
  /\ UNCHANGED <<kernelVars, pageVars, windowVars>>

\* A core page is corrupt: the scene stays on disk, and the resident one stays.
SceneNotOpened ==
  /\ opening # None
  /\ at["worker"] = "failed"
  /\ opening' = None
  /\ Move("worker", "idle")
  /\ UNCHANGED <<kernelVars, newest, page, pageVars, todo, windowVars>>

\* Changed for the check of SyncNeverRejected: the new view is not bound to the
\* new product index.
InstallSceneUnbound ==
  /\ opening # None
  /\ at["worker"] = "idle"
  /\ scene' = opening
  /\ index' = opening
  /\ view' = [scene |-> opening, index |-> None, manifold |-> view.manifold,
              filtered |-> FALSE]
  /\ opening' = None
  /\ UNCHANGED <<publishes, newest, page, pageVars, threadVars, windowVars>>

\* install_published_scene_state: scene, index and view change together, and of
\* the old view only the manifold stays.
InstallScene ==
  /\ opening # None
  /\ at["worker"] = "idle"
  /\ scene' = opening
  /\ index' = opening
  /\ view' = [scene |-> opening, index |-> opening, manifold |-> view.manifold,
              filtered |-> FALSE]
  /\ opening' = None
  /\ UNCHANGED <<publishes, newest, page, pageVars, threadVars, windowVars>>

\* Changed for the check of SceneTypeOK: a new view is made for the manifold.
SetManifoldAnew(m) ==
  /\ WorkerFree
  /\ view' = [Unavailable EXCEPT !.manifold = m]
  /\ UNCHANGED <<scene, index, publishes, workerVars, pageVars, threadVars, windowVars>>

\* set_manifold
SetManifold(m) ==
  /\ WorkerFree
  /\ view' = [view EXCEPT !.manifold = m]
  /\ UNCHANGED <<scene, index, publishes, workerVars, pageVars, threadVars, windowVars>>

\* set_graph_view: the authority must be the current one, which the client may
\* have read before the last scene was installed.
SetGraphView(authority, m, filtered) ==
  /\ WorkerFree
  /\ authority = [scene |-> view.scene, index |-> view.index]
  /\ index = None => ~filtered
  /\ view' = [scene |-> authority.scene, index |-> authority.index, manifold |-> m,
              filtered |-> filtered]
  /\ UNCHANGED <<scene, index, publishes, workerVars, pageVars, threadVars, windowVars>>

-----------------------------------------------------------------------------
(***************************************************************************)
(* The end of the window, and the proof behind it                          *)
(***************************************************************************)

\* GraphWindow::shutdown of a window that came up: between two passes of its
\* loop, or when it has ended by itself, its thread is joined.
Joined ==
  /\ window \in {"waiting", "ended"}
  /\ loaded.scene # None
  /\ window' = "joined"
  /\ UNCHANGED <<snap, loaded, drawn>>

\* on_app_quit, and schedule_proof in a soak
CloseWindow == Joined /\ UNCHANGED <<kernelVars, workerVars, pageVars, threadVars>>

\* What prove_kernel asks for: the guides of the fixture's scene, which needs a
\* product index.
AskForGuides ==
  /\ ~publishes
  /\ index # None
  /\ page[Guides(scene, Hybrid)] # "absent"
  /\ Ask("proof", <<Guides(scene, Hybrid)>>)
  /\ UNCHANGED <<kernelVars, workerVars, pageVars>>

\* Changed for the check of OneThreadHashes: the window is not shut down first.
ReadGuidesFirst == at["proof"] = "idle" /\ AskForGuides /\ UNCHANGED windowVars

\* schedule_proof: the shutdown is awaited, then prove_kernel reads.
ReadGuides == Joined /\ AskForGuides

ProofFailed ==
  /\ at["proof"] = "failed"
  /\ Move("proof", "idle")
  /\ UNCHANGED <<kernelVars, workerVars, pageVars, todo, windowVars>>

-----------------------------------------------------------------------------
(***************************************************************************)
(* The graph window: initialize and sync_resident_scene                    *)
(***************************************************************************)

\* activate_manifold.  A set of pages too large for the hot budget is refused
\* before any of them is hashed; it fails here like one that does not parse.
Activate(g, m) ==
  Ask("window", IF page[Guides(g, m)] = "absent" THEN <<Core(g, m)>>
                ELSE <<Core(g, m), Guides(g, m)>>)

\* A snapshot of the kernel; pages are asked for when the scene or the manifold
\* is another.
Synchronize ==
  /\ window = "waiting"
  /\ loaded # [scene |-> scene, view |-> view]
  /\ window' = "opening"
  /\ snap' = [scene |-> scene, index |-> index, view |-> view]
  /\ IF loaded.scene # scene \/ loaded.view.manifold # view.manifold
     THEN Activate(scene, view.manifold) ELSE UNCHANGED threadVars
  /\ UNCHANGED <<kernelVars, workerVars, pageVars, loaded, drawn>>

\* What set_archive_scene, set_product_index and switch_archive_positions make
\* of the renderer.
NewScene ==
  [scene |-> snap.scene, positions |-> snap.view.manifold, index |-> snap.index,
   view |-> Unavailable]

\* Changed for the check of DrawnIsOneView: the positions stay.
SameSceneAndPositions ==
  [drawn EXCEPT !.index = IF loaded.view.index # snap.view.index THEN snap.index ELSE @]

SameScene ==
  [drawn EXCEPT !.positions = snap.view.manifold,
                !.index = IF loaded.view.index # snap.view.index THEN snap.index ELSE @]

\* validate_view_authority
Accepts(renderer, v) ==
  /\ v.scene # None
  /\ v.scene = renderer.scene
  /\ v.index = renderer.index
  /\ v.index = None => ~v.filtered

\* The pages are there: the renderer takes the scene, or the positions, and the
\* view.  Whatever it refuses ends the window.
Project ==
  LET renderer == IF loaded.scene # snap.scene THEN NewScene ELSE SameScene
      missing == loaded.scene = snap.scene /\ loaded.view.index # snap.view.index
                   /\ snap.index = None
      foreign == renderer.index \notin {None, renderer.scene}
  IN
  /\ window = "opening"
  /\ at["window"] = "idle"
  /\ IF ~missing /\ ~foreign /\ Accepts(renderer, snap.view)
     THEN /\ drawn' = [renderer EXCEPT !.view = snap.view]
          /\ loaded' = [scene |-> snap.scene, view |-> snap.view]
          /\ window' = "waiting"
     ELSE /\ window' = "ended"
          /\ UNCHANGED <<loaded, drawn>>
  /\ UNCHANGED <<kernelVars, workerVars, pageVars, threadVars, snap>>

\* A page is corrupt, too large or malformed.
NotActivated ==
  /\ window = "opening"
  /\ at["window"] = "failed"
  /\ window' = "ended"
  /\ UNCHANGED <<kernelVars, workerVars, pageVars, threadVars, snap, loaded, drawn>>

-----------------------------------------------------------------------------
\* A scene is resident whose core pages have been verified, with a product index
\* when the kernel publishes or was given one; the window has not begun.
SceneInit ==
  /\ scene = 1
  /\ index \in {None, 1}
  /\ publishes \in BOOLEAN
  /\ publishes => index = 1
  /\ view = [scene |-> 1, index |-> index, manifold |-> Hybrid, filtered |-> FALSE]
  /\ opening = None
  /\ newest = 1
  /\ page \in Archives([p \in Page |-> "good"], 1)
  /\ \A m \in Manifolds : page[Core(1, m)] = "good"
  /\ check = [p \in Page |-> IF p.scene = 1 /\ p.part = "core" THEN "verified"
                             ELSE "unverified"]
  /\ hashed = [p \in Page |-> IF p.scene = 1 /\ p.part = "core" THEN 1 ELSE 0]
  /\ todo = [t \in Threads |-> <<>>]
  /\ at = [t \in Threads |-> "idle"]
  /\ window = "waiting"
  /\ snap = [scene |-> None, index |-> None, view |-> Unavailable]
  /\ loaded = [scene |-> None, view |-> Unavailable]
  /\ drawn = [scene |-> None, positions |-> Hybrid, index |-> None, view |-> Unavailable]

SceneNext ==
  \/ \E t \in Threads : ReadStep(t)
  \/ \E g \in Scenes : OpenScene(g)
  \/ SceneNotOpened \/ InstallScene
  \/ \E m \in Manifolds : SetManifold(m)
  \/ \E authority \in Authorities, m \in Manifolds, filtered \in BOOLEAN :
       SetGraphView(authority, m, filtered)
  \/ CloseWindow \/ ReadGuides \/ ProofFailed
  \/ Synchronize \/ Project \/ NotActivated

SceneSpec == SceneInit /\ [][SceneNext]_sceneVars

-----------------------------------------------------------------------------
(***************************************************************************)
(* Properties                                                              *)
(***************************************************************************)

Hashes(t, p) == at[t] = "hash" /\ Head(todo[t]) = p

Reads(t, p) == at[t] \in {"look", "claim", "hash"} /\ Head(todo[t]) = p

\* A page is hashed once and keeps its outcome, and it is being verified exactly
\* while one thread hashes it (verify_page).
HashedOnce ==
  \A p \in Page :
    /\ hashed[p] = IF check[p] \in {"verified", "corrupt"} THEN 1 ELSE 0
    /\ check[p] = "verifying" <=> \E t \in Threads : Hashes(t, p)
    /\ \A t, other \in Threads : Hashes(t, p) /\ Hashes(other, p) => t = other

\* No two threads are on one page: the worker opens scenes nobody else has, and
\* the proof waits for the window's join (from_archive, schedule_proof).
ReadersStayApart ==
  \A p \in Page, t, other \in Threads : Reads(t, p) /\ Reads(other, p) => t = other

\* README: "page verification once on first access": a page is hashed once,
\* whichever thread is the first, and neither the UI thread nor any other ever
\* spins in verify_page behind a page that another one hashes.
OneThreadHashes == HashedOnce /\ ReadersStayApart

\* The window only ends over a page: no snapshot that it can take, however old
\* when it gets to the renderer, is refused there (sync_resident_scene,
\* install_published_scene_state, validate_view_authority).
SyncNeverRejected ==
  window = "ended" => page[Guides(snap.scene, snap.view.manifold)] \in {"bad", "unusable"}

\* The renderer never shows scene, positions, product index and view of
\* different snapshots, or a page that is not what its hash says.
DrawnIsOneView ==
  loaded.scene # None =>
    /\ drawn = [scene |-> loaded.scene, positions |-> loaded.view.manifold,
                index |-> loaded.view.index, view |-> loaded.view]
    /\ loaded.view.scene = loaded.scene
    /\ loaded.scene <= scene
    /\ page[Core(drawn.scene, drawn.positions)] = "good"
    /\ page[Guides(drawn.scene, drawn.positions)] \in {"good", "absent"}
=============================================================================
