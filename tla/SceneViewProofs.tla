--------------------------- MODULE SceneViewProofs ---------------------------
(***************************************************************************)
(* Proofs about SceneView for any manifolds, any state of the guide pages  *)
(* and any number of generations, in two stages: the threads and the pages *)
(* (ReadInv), and on top of it what kernel, snapshot and renderer know of  *)
(* each other (ViewInv) and who reads which scene (Apart).                 *)
(***************************************************************************)
EXTENDS SceneView, TLAPS

\* A thread that is somewhere in verify_page has a page to ask for.
ThreadsHaveWork == \A t \in Threads : at[t] # "idle" => todo[t] # <<>>

\* A thread asks for pages only when it has asked for no others, and the proof
\* asks behind the window's join.
ReadersRest ==
  /\ window # "joined" => at["proof"] = "idle"
  /\ opening = None => at["worker"] = "idle"
  /\ window = "waiting" => at["window"] = "idle"
  /\ window \in {"ended", "joined"} => at["window"] \in {"idle", "failed"}

ReadInv == SceneTypeOK /\ ThreadsHaveWork /\ ReadersRest /\ HashedOnce

-----------------------------------------------------------------------------
\* The manifolds' pages are pages.
LEMMA PageTypes ==
  /\ Hybrid \in Manifolds
  /\ \A g \in Scenes, m \in Manifolds : Core(g, m) \in Page /\ Guides(g, m) \in Page
  /\ None \notin Scenes
  /\ Scenes \subseteq Nat
<1>1. ManifoldList \in Seq(Manifolds) /\ ManifoldList # <<>> /\ MaxScene \in Nat \ {0}
  BY SceneAssumption
<1>2. 1 \in DOMAIN ManifoldList
  BY <1>1
<1> QED BY <1>1, <1>2 DEF Hybrid, Manifolds, Page, Core, Guides, None, Scenes

\* The core pages of a generation, in the order they are opened.
LEMMA CoreList ==
  ASSUME NEW g \in Scenes
  PROVE  LET pages == [i \in DOMAIN ManifoldList |-> Core(g, ManifoldList[i])] IN
         /\ pages \in Seq(Page)
         /\ pages # <<>>
         /\ DOMAIN pages = DOMAIN ManifoldList
<1> DEFINE pages == [i \in DOMAIN ManifoldList |-> Core(g, ManifoldList[i])]
<1>1. ManifoldList \in Seq(Manifolds) /\ ManifoldList # <<>>
  BY SceneAssumption
<1>2. PICK n \in Nat : DOMAIN ManifoldList = 1..n /\ n # 0
  BY <1>1
<1>3. \A i \in 1..n : ManifoldList[i] \in Manifolds
  BY <1>1, <1>2
<1>4. pages \in [1..n -> Page]
  BY <1>2, <1>3, PageTypes
<1>5. pages \in Seq(Page) /\ Len(pages) = n
  BY <1>4
<1> QED BY <1>2, <1>5

\* The rest of a list of pages.
LEMMA RestOfPages ==
  ASSUME NEW s \in Seq(Page), s # <<>>
  PROVE  /\ Head(s) \in Page
         /\ Tail(s) \in Seq(Page)
         /\ 1 \in DOMAIN s /\ s[1] = Head(s)
         /\ DOMAIN Tail(s) = 1..(Len(s) - 1)
         /\ \A i \in DOMAIN Tail(s) : i + 1 \in DOMAIN s /\ Tail(s)[i] = s[i + 1]
         /\ \A i \in DOMAIN s : i # 1 => i - 1 \in DOMAIN Tail(s)
OBVIOUS

\* Asking for pages changes nothing for the other threads.
LEMMA AskEffect ==
  ASSUME SceneTypeOK, NEW t \in Threads, NEW pages \in Seq(Page), Ask(t, pages)
  PROVE  /\ todo' \in [Threads -> Seq(Page)]
         /\ at' \in [Threads -> {"idle", "look", "claim", "hash", "failed"}]
         /\ todo'[t] = pages
         /\ at'[t] = IF pages = <<>> THEN "idle" ELSE "look"
         /\ \A u \in Threads \ {t} : at'[u] = at[u] /\ todo'[u] = todo[u]
BY DEF SceneTypeOK, Ask

LEMMA MoveEffect ==
  ASSUME SceneTypeOK, NEW t \in Threads,
         NEW place \in {"idle", "look", "claim", "hash", "failed"},
         Move(t, place)
  PROVE  /\ at' \in [Threads -> {"idle", "look", "claim", "hash", "failed"}]
         /\ at'[t] = place
         /\ \A u \in Threads \ {t} : at'[u] = at[u]
BY DEF SceneTypeOK, Move

\* After a verified page a thread takes the next one, rests, or fails over it.
LEMMA ProceedEffect ==
  ASSUME SceneTypeOK, NEW t \in Threads, todo[t] # <<>>, Proceed(t)
  PROVE  /\ todo' \in [Threads -> Seq(Page)]
         /\ at' \in [Threads -> {"idle", "look", "claim", "hash", "failed"}]
         /\ \A u \in Threads \ {t} : at'[u] = at[u] /\ todo'[u] = todo[u]
         /\ \/ /\ page[Head(todo[t])] = "unusable"
               /\ at'[t] = "failed"
               /\ todo'[t] = todo[t]
            \/ /\ page[Head(todo[t])] # "unusable"
               /\ todo'[t] = Tail(todo[t])
               /\ at'[t] = IF Tail(todo[t]) = <<>> THEN "idle" ELSE "look"
<1>1. todo[t] \in Seq(Page)
  BY DEF SceneTypeOK
<1>2. CASE page[Head(todo[t])] = "unusable"
  <2>1. Move(t, "failed") /\ todo' = todo
    BY <1>2 DEF Proceed
  <2> QED BY <1>2, <2>1, MoveEffect DEF SceneTypeOK
<1>3. CASE page[Head(todo[t])] # "unusable"
  <2>1. Ask(t, Tail(todo[t])) /\ Tail(todo[t]) \in Seq(Page)
    BY <1>1, <1>3, RestOfPages DEF Proceed
  <2> QED BY <1>3, <2>1, AskEffect
<1> QED BY <1>2, <1>3

-----------------------------------------------------------------------------
(***************************************************************************)
(* ReadInv                                                                 *)
(***************************************************************************)

LEMMA ReadInit == SceneInit => ReadInv
<1> SUFFICES ASSUME SceneInit PROVE ReadInv
  OBVIOUS
<1> USE PageTypes DEF SceneInit
<1>1. 1 \in Scenes /\ 1 \in Nat /\ 1 \in 0..MaxScene /\ 0 \in 0..MaxScene
  BY SceneAssumption DEF Scenes
<1>2. page \in [Page -> {"good", "bad", "unusable", "absent"}]
  BY SceneAssumption DEF Archives
<1>3. view \in GraphView /\ view.scene \in Scenes /\ Unavailable \in GraphView
  BY <1>1 DEF GraphView, Unavailable, None
<1>4. SceneTypeOK
  BY <1>1, <1>2, <1>3 DEF SceneTypeOK, Snapshot, None
<1>5. ThreadsHaveWork /\ ReadersRest
  BY DEF ThreadsHaveWork, ReadersRest, Threads
<1>6. HashedOnce
  BY DEF HashedOnce, Hashes
<1> QED BY <1>4, <1>5, <1>6 DEF ReadInv

\* A step of verify_page leaves the rest of the state alone, and keeps the types.
LEMMA ReadTypes ==
  ASSUME ReadInv, NEW t \in Threads, ReadStep(t)
  PROVE  /\ SceneTypeOK'
         /\ UNCHANGED <<kernelVars, workerVars, windowVars>>
         /\ at[t] # "idle"
         /\ todo[t] # <<>>
         /\ todo'[t] # <<>> \/ at'[t] = "idle"
         /\ \A u \in Threads \ {t} : at'[u] = at[u] /\ todo'[u] = todo[u]
<1> USE DEF ReadInv
<1>1. todo[t] # <<>> /\ at[t] # "idle" /\ Head(todo[t]) \in Page
  BY RestOfPages DEF ReadStep, Look, Claim, Hash, ThreadsHaveWork, SceneTypeOK
<1>2. UNCHANGED <<kernelVars, workerVars, windowVars>>
  BY DEF ReadStep, Look, Claim, Hash, workerVars
<1>3. /\ todo' \in [Threads -> Seq(Page)]
      /\ at' \in [Threads -> {"idle", "look", "claim", "hash", "failed"}]
      /\ todo'[t] # <<>> \/ at'[t] = "idle"
      /\ \A u \in Threads \ {t} : at'[u] = at[u] /\ todo'[u] = todo[u]
  <2>1. CASE Proceed(t)
    BY <1>1, <2>1, ProceedEffect
  <2>2. CASE \E place \in {"look", "claim", "hash", "failed"} : Move(t, place) /\ todo' = todo
    BY <1>1, <2>2, MoveEffect DEF SceneTypeOK
  <2> QED BY <2>1, <2>2 DEF ReadStep, Look, Claim, Hash
<1>4. /\ check' \in [Page -> {"unverified", "verifying", "verified", "corrupt"}]
      /\ hashed' \in [Page -> Nat]
  <2>1. CASE Look(t)
    BY <2>1 DEF Look, SceneTypeOK, pageVars
  <2>2. CASE Claim(t)
    BY <1>1, <2>2 DEF Claim, SceneTypeOK
  <2>3. CASE Hash(t)
    <3>1. /\ hashed' = [hashed EXCEPT ![Head(todo[t])] = @ + 1]
          /\ \/ check' = [check EXCEPT ![Head(todo[t])] = "corrupt"]
             \/ check' = [check EXCEPT ![Head(todo[t])] = "verified"]
      BY <2>3 DEF Hash
    <3>2. /\ check \in [Page -> {"unverified", "verifying", "verified", "corrupt"}]
          /\ hashed \in [Page -> Nat]
      BY DEF SceneTypeOK
    <3>3. hashed[Head(todo[t])] + 1 \in Nat
      BY <1>1, <3>2
    <3>4. hashed' \in [Page -> Nat]
      BY <1>1, <3>1, <3>2, <3>3
    <3>5. check' \in [Page -> {"unverified", "verifying", "verified", "corrupt"}]
      BY <1>1, <3>1, <3>2
    <3> QED BY <3>4, <3>5
  <2> QED BY <2>1, <2>2, <2>3 DEF ReadStep
<1>5. SceneTypeOK'
  BY <1>2, <1>3, <1>4 DEF SceneTypeOK, kernelVars, workerVars, windowVars
<1> QED BY <1>1, <1>2, <1>3, <1>5

\* A page is claimed and hashed by one thread, whatever the others do.
LEMMA ReadHashes ==
  ASSUME ReadInv, NEW t \in Threads, ReadStep(t)
  PROVE  HashedOnce'
<1> DEFINE p == Head(todo[t])
<1>1. /\ p \in Page /\ todo[t] # <<>>
      /\ check \in [Page -> {"unverified", "verifying", "verified", "corrupt"}]
      /\ hashed \in [Page -> Nat]
      /\ SceneTypeOK
      /\ HashedOnce
  BY ReadTypes, RestOfPages DEF ReadInv, SceneTypeOK
<1>2. \A u \in Threads \ {t}, q \in Page : Hashes(u, q)' <=> Hashes(u, q)
  BY ReadTypes DEF Hashes
<1>3. CASE Look(t)
  <2>1. check' = check /\ hashed' = hashed
    BY <1>3 DEF Look, pageVars
  <2>2. at[t] # "hash" /\ at'[t] # "hash"
    BY <1>1, <1>3, ProceedEffect, MoveEffect DEF Look
  <2>3. \A u \in Threads, q \in Page : Hashes(u, q)' <=> Hashes(u, q)
    BY <1>2, <2>2 DEF Hashes
  <2> QED BY <1>1, <2>1, <2>3 DEF HashedOnce
<1>4. CASE Claim(t) /\ check[p] # "unverified"
  <2>1. check' = check /\ hashed' = hashed /\ at[t] # "hash" /\ at'[t] # "hash"
    BY <1>1, <1>4, MoveEffect DEF Claim
  <2>2. \A u \in Threads, q \in Page : Hashes(u, q)' <=> Hashes(u, q)
    BY <1>2, <2>1 DEF Hashes
  <2> QED BY <1>1, <2>1, <2>2 DEF HashedOnce
<1>5. CASE Claim(t) /\ check[p] = "unverified"
  <2>1. /\ hashed' = hashed
        /\ check' = [check EXCEPT ![p] = "verifying"]
        /\ at[t] # "hash" /\ at'[t] = "hash" /\ todo' = todo
    BY <1>1, <1>5, MoveEffect DEF Claim
  <2>2. \A q \in Page : ~Hashes(t, q) /\ (Hashes(t, q)' <=> q = p)
    BY <2>1 DEF Hashes
  <2>3. \A u \in Threads : ~Hashes(u, p)
    BY <1>1, <1>5 DEF HashedOnce
  <2> QED BY <1>1, <1>2, <1>5, <2>1, <2>2, <2>3 DEF HashedOnce
<1>6. CASE Hash(t)
  <2>1. /\ at[t] = "hash" /\ at'[t] # "hash"
        /\ hashed' = [hashed EXCEPT ![p] = @ + 1]
        /\ \/ check' = [check EXCEPT ![p] = "corrupt"]
           \/ check' = [check EXCEPT ![p] = "verified"]
    BY <1>1, <1>6, ProceedEffect, MoveEffect DEF Hash
  <2>2. \A q \in Page : (Hashes(t, q) <=> q = p) /\ ~Hashes(t, q)'
    BY <2>1 DEF Hashes
  <2>3. check[p] = "verifying" /\ hashed[p] = 0
    BY <1>1, <2>2 DEF HashedOnce
  <2>4. \A u \in Threads \ {t} : ~Hashes(u, p)
    BY <1>1, <2>2 DEF HashedOnce
  <2> QED BY <1>1, <1>2, <2>1, <2>2, <2>3, <2>4 DEF HashedOnce
<1> QED BY <1>3, <1>4, <1>5, <1>6 DEF ReadStep

LEMMA ReadKeepsReading ==
  ASSUME ReadInv, NEW t \in Threads, ReadStep(t)
  PROVE  ReadInv'
<1>1. SceneTypeOK' /\ HashedOnce'
  BY ReadTypes, ReadHashes
<1>2. ThreadsHaveWork'
  BY ReadTypes DEF ReadInv, ThreadsHaveWork
<1>3. ReadersRest'
  <2>1. /\ UNCHANGED <<opening, window>>
        /\ at[t] # "idle"
        /\ \A u \in Threads \ {t} : at'[u] = at[u]
    BY ReadTypes DEF workerVars, windowVars
  <2>2. at[t] # "failed"
    BY DEF ReadStep, Look, Claim, Hash
  <2> QED BY <2>1, <2>2 DEF ReadInv, ReadersRest, Threads
<1> QED BY <1>1, <1>2, <1>3 DEF ReadInv

-----------------------------------------------------------------------------
\* A step that verifies nothing: its threads keep their place or begin or end a
\* list of pages.
Outside(t) ==
  \/ at'[t] = at[t] /\ todo'[t] = todo[t]
  \/ at[t] \in {"idle", "failed"} /\ at'[t] = "idle"
  \/ at[t] = "idle" /\ at'[t] = "look" /\ todo'[t] # <<>>

LEMMA OutsideKeeps ==
  ASSUME ReadInv, UNCHANGED pageVars, \A t \in Threads : Outside(t)
  PROVE  HashedOnce' /\ ThreadsHaveWork'
<1>1. check' = check /\ hashed' = hashed
  BY DEF pageVars
<1>2. \A t \in Threads, q \in Page : Hashes(t, q)' <=> Hashes(t, q)
  BY DEF Outside, Hashes
<1>3. HashedOnce'
  BY <1>1, <1>2 DEF ReadInv, HashedOnce
<1>4. ThreadsHaveWork'
  BY DEF Outside, ReadInv, ThreadsHaveWork
<1> QED BY <1>3, <1>4

\* The pages the window asks for when it shows a manifold.
LEMMA ActivateEffect ==
  ASSUME ReadInv, NEW g \in Scenes, NEW m \in Manifolds, Activate(g, m)
  PROVE  /\ todo' \in [Threads -> Seq(Page)]
         /\ at' \in [Threads -> {"idle", "look", "claim", "hash", "failed"}]
         /\ todo'["window"] = IF page[Guides(g, m)] = "absent" THEN <<Core(g, m)>>
                               ELSE <<Core(g, m), Guides(g, m)>>
         /\ todo'["window"] # <<>>
         /\ at'["window"] = "look"
         /\ \A u \in Threads \ {"window"} : at'[u] = at[u] /\ todo'[u] = todo[u]
<1> DEFINE pages == IF page[Guides(g, m)] = "absent" THEN <<Core(g, m)>>
                    ELSE <<Core(g, m), Guides(g, m)>>
<1>1. pages \in Seq(Page) /\ pages # <<>>
  BY PageTypes
<1>2. Ask("window", pages)
  BY DEF Activate
<1> HIDE DEF pages
<1>3. /\ todo' \in [Threads -> Seq(Page)]
      /\ at' \in [Threads -> {"idle", "look", "claim", "hash", "failed"}]
      /\ todo'["window"] = pages
      /\ todo'["window"] # <<>>
      /\ at'["window"] = "look"
      /\ \A u \in Threads \ {"window"} : at'[u] = at[u] /\ todo'[u] = todo[u]
  BY <1>1, <1>2, AskEffect DEF ReadInv, Threads
<1> QED BY <1>3 DEF pages

\* Opening, installing, showing and every other step keep ReadInv.
LEMMA OtherKeepsReading ==
  ASSUME ReadInv, SceneNext, \A t \in Threads : ~ReadStep(t)
  PROVE  ReadInv'
<1> USE DEF ReadInv
<1>0. /\ SceneTypeOK /\ ThreadsHaveWork /\ ReadersRest
      /\ 0 \in 0..MaxScene /\ \A g \in Scenes : g \in 0..MaxScene
      /\ Unavailable \in GraphView
  BY PageTypes, SceneAssumption DEF Scenes, GraphView, Unavailable, None
<1>1. UNCHANGED pageVars
  BY DEF SceneNext, SceneNotOpened, OpenScene, InstallScene, SetManifold, SetGraphView,
         CloseWindow, ReadGuides, AskForGuides, ProofFailed, Synchronize, Project, NotActivated
<1>2. CASE \E g \in Scenes : OpenScene(g)
  <2>1. PICK g \in Scenes : OpenScene(g)
    BY <1>2
  <2> DEFINE pages == [i \in DOMAIN ManifoldList |-> Core(g, ManifoldList[i])]
  <2>2. pages \in Seq(Page) /\ pages # <<>>
    BY CoreList
  <2>3. /\ Ask("worker", pages)
        /\ opening' = g /\ newest' = g /\ opening = None
        /\ page' \in Archives(page, g)
        /\ UNCHANGED <<kernelVars, pageVars, windowVars>>
    BY <2>1 DEF OpenScene, WorkerFree
  <2> HIDE DEF pages
  <2>4. /\ todo' \in [Threads -> Seq(Page)]
        /\ at' \in [Threads -> {"idle", "look", "claim", "hash", "failed"}]
        /\ todo'["worker"] = pages
        /\ at'["worker"] = "look"
        /\ \A u \in Threads \ {"worker"} : at'[u] = at[u] /\ todo'[u] = todo[u]
    BY <2>2, <2>3, AskEffect DEF Threads
  <2>5. page' \in [Page -> {"good", "bad", "unusable", "absent"}]
    <3>1. page \in [Page -> {"good", "bad", "unusable", "absent"}]
      BY <1>0 DEF SceneTypeOK
    <3>2. PICK p \in Page, state \in {"good", "bad", "unusable", "absent"} :
            page' = [page EXCEPT ![p] = state]
      BY <2>3, SceneAssumption, PageTypes DEF Archives
    <3> QED BY <3>1, <3>2
  <2>6. SceneTypeOK'
    BY <1>0, <2>3, <2>4, <2>5 DEF SceneTypeOK, kernelVars, pageVars, windowVars
  <2>7. \A t \in Threads : Outside(t)
    BY <1>0, <2>2, <2>3, <2>4 DEF Outside, ReadersRest
  <2>8. ReadersRest'
    BY <1>0, <2>3, <2>4, PageTypes DEF ReadersRest, windowVars, Threads
  <2> QED BY <1>1, <2>6, <2>7, <2>8, OutsideKeeps
<1>3. CASE SceneNotOpened
  <2>1. /\ at' \in [Threads -> {"idle", "look", "claim", "hash", "failed"}]
        /\ at'["worker"] = "idle" /\ at["worker"] = "failed"
        /\ \A u \in Threads \ {"worker"} : at'[u] = at[u]
        /\ todo' = todo /\ opening' = None
        /\ UNCHANGED <<kernelVars, newest, page, pageVars, windowVars>>
    BY <1>0, <1>3, MoveEffect DEF SceneNotOpened, Threads
  <2>2. SceneTypeOK'
    BY <1>0, <2>1 DEF SceneTypeOK, kernelVars, pageVars, windowVars, None
  <2>3. \A t \in Threads : Outside(t)
    BY <1>0, <2>1 DEF Outside
  <2>4. ReadersRest'
    BY <1>0, <2>1 DEF ReadersRest, windowVars, Threads
  <2> QED BY <1>1, <2>2, <2>3, <2>4, OutsideKeeps
<1>4. CASE InstallScene
  <2>1. /\ at' = at /\ todo' = todo /\ opening' = None /\ opening # None
        /\ at["worker"] = "idle"
        /\ scene' = opening /\ index' = opening
        /\ view' = [scene |-> opening, index |-> opening, manifold |-> view.manifold,
                    filtered |-> FALSE]
        /\ UNCHANGED <<publishes, newest, page, pageVars, windowVars>>
    BY <1>4 DEF InstallScene, threadVars
  <2>2. opening \in Scenes /\ view.manifold \in Manifolds
    BY <1>0, <2>1 DEF SceneTypeOK, None, Scenes, GraphView
  <2>3. view' \in GraphView /\ view'.scene \in Scenes
    BY <1>0, <2>1, <2>2 DEF GraphView
  <2>4. SceneTypeOK'
    BY <1>0, <2>1, <2>2, <2>3 DEF SceneTypeOK, pageVars, windowVars, None
  <2>5. \A t \in Threads : Outside(t)
    BY <2>1 DEF Outside
  <2>6. ReadersRest'
    BY <1>0, <2>1 DEF ReadersRest, windowVars
  <2> QED BY <1>1, <2>4, <2>5, <2>6, OutsideKeeps
<1>5. CASE \/ \E m \in Manifolds : SetManifold(m)
          \/ \E authority \in Authorities, m \in Manifolds, filtered \in BOOLEAN :
               SetGraphView(authority, m, filtered)
  <2>1. /\ view' \in GraphView /\ view'.scene \in Scenes
        /\ UNCHANGED <<scene, index, publishes, workerVars, pageVars, threadVars, windowVars>>
    <3>1. CASE \E m \in Manifolds : SetManifold(m)
      <4>1. PICK m \in Manifolds : SetManifold(m)
        BY <3>1
      <4>2. view \in GraphView /\ view.scene \in Scenes
        BY <1>0 DEF SceneTypeOK
      <4>3. view' = [view EXCEPT !.manifold = m]
        BY <4>1 DEF SetManifold
      <4>4. view' \in GraphView /\ view'.scene = view.scene
        BY <4>2, <4>3 DEF GraphView
      <4> QED BY <4>1, <4>2, <4>4 DEF SetManifold
    <3>2. CASE \E authority \in Authorities, m \in Manifolds, filtered \in BOOLEAN :
                 SetGraphView(authority, m, filtered)
      BY <1>0, <3>2 DEF SetGraphView, SceneTypeOK, GraphView, Authorities
    <3> QED BY <1>5, <3>1, <3>2
  <2>2. /\ UNCHANGED <<scene, index, publishes, opening, newest, page, check, hashed,
                       todo, at, window, snap, loaded, drawn>>
    BY <2>1 DEF workerVars, pageVars, threadVars, windowVars
  <2>3. SceneTypeOK'
    BY <1>0, <2>1, <2>2 DEF SceneTypeOK
  <2>4. \A t \in Threads : Outside(t)
    BY <2>2 DEF Outside
  <2>5. ReadersRest'
    BY <1>0, <2>2 DEF ReadersRest
  <2> QED BY <1>1, <2>3, <2>4, <2>5, OutsideKeeps
<1>6. CASE CloseWindow \/ ReadGuides \/ ProofFailed
  <2>1. /\ at' \in [Threads -> {"idle", "look", "claim", "hash", "failed"}]
        /\ todo' \in [Threads -> Seq(Page)]
        /\ Outside("proof")
        /\ \A u \in Threads \ {"proof"} : at'[u] = at[u] /\ todo'[u] = todo[u]
        /\ UNCHANGED <<kernelVars, workerVars, pageVars, snap, loaded, drawn>>
        /\ \/ window' = window /\ at'["proof"] = "idle"
           \/ window \in {"waiting", "ended"} /\ window' = "joined"
    <3>1. CASE ReadGuides
      <4> DEFINE pages == <<Guides(scene, Hybrid)>>
      <4>1. pages \in Seq(Page) /\ pages # <<>>
        BY <1>0, PageTypes DEF SceneTypeOK
      <4>2. /\ Ask("proof", pages) /\ at["proof"] = "idle"
            /\ window \in {"waiting", "ended"} /\ window' = "joined"
            /\ UNCHANGED <<kernelVars, workerVars, pageVars, snap, loaded, drawn>>
        BY <1>0, <3>1 DEF ReadGuides, AskForGuides, Joined, ReadersRest
      <4> HIDE DEF pages
      <4> QED BY <1>0, <4>1, <4>2, AskEffect DEF Outside, Threads
    <3>2. CASE ProofFailed
      BY <1>0, <3>2, MoveEffect DEF ProofFailed, Outside, Threads, SceneTypeOK, windowVars
    <3>3. CASE CloseWindow
      BY <1>0, <3>3 DEF CloseWindow, Joined, Outside, threadVars, SceneTypeOK
    <3> QED BY <1>6, <3>1, <3>2, <3>3
  <2>2. SceneTypeOK'
    BY <1>0, <2>1 DEF SceneTypeOK, kernelVars, workerVars, pageVars
  <2>3. \A t \in Threads : Outside(t)
    BY <2>1 DEF Outside
  <2>4. ReadersRest'
    BY <1>0, <2>1 DEF ReadersRest, Threads, workerVars
  <2> QED BY <1>1, <2>2, <2>3, <2>4, OutsideKeeps
<1>7. CASE Synchronize
  <2>1. /\ window = "waiting" /\ window' = "opening" /\ at["window"] = "idle"
        /\ snap' = [scene |-> scene, index |-> index, view |-> view]
        /\ UNCHANGED <<kernelVars, workerVars, pageVars, loaded, drawn>>
    BY <1>0, <1>7 DEF Synchronize, ReadersRest
  <2>2. scene \in Scenes /\ view.manifold \in Manifolds
    BY <1>0 DEF SceneTypeOK, GraphView
  <2>3. /\ at' \in [Threads -> {"idle", "look", "claim", "hash", "failed"}]
        /\ todo' \in [Threads -> Seq(Page)]
        /\ Outside("window")
        /\ \A u \in Threads \ {"window"} : at'[u] = at[u] /\ todo'[u] = todo[u]
    <3>1. CASE Activate(scene, view.manifold)
      BY <2>1, <2>2, <3>1, ActivateEffect DEF Outside
    <3>2. CASE UNCHANGED threadVars
      BY <1>0, <3>2 DEF Outside, threadVars, SceneTypeOK
    <3> QED BY <1>7, <3>1, <3>2 DEF Synchronize
  <2>4. snap' \in Snapshot
    BY <1>0, <2>1, <2>2 DEF SceneTypeOK, Snapshot
  <2>5. SceneTypeOK'
    BY <1>0, <2>1, <2>3, <2>4 DEF SceneTypeOK, kernelVars, workerVars, pageVars
  <2>6. \A t \in Threads : Outside(t)
    BY <2>3 DEF Outside
  <2>7. ReadersRest'
    BY <1>0, <2>1, <2>3 DEF ReadersRest, Threads, workerVars
  <2> QED BY <1>1, <2>5, <2>6, <2>7, OutsideKeeps
<1>8. CASE Project \/ NotActivated
  <2>1. /\ window = "opening" /\ window' \in {"waiting", "ended"}
        /\ at["window"] \in {"idle", "failed"}
        /\ window' = "waiting" => at["window"] = "idle"
        /\ UNCHANGED <<kernelVars, workerVars, pageVars, threadVars, snap>>
    BY <1>8 DEF Project, NotActivated
  <2>2. /\ snap.view.manifold \in Manifolds /\ snap.view \in GraphView
        /\ snap.scene \in 0..MaxScene /\ snap.index \in 0..MaxScene
        /\ drawn.positions \in Manifolds /\ drawn.scene \in 0..MaxScene
        /\ drawn.index \in 0..MaxScene /\ drawn.view \in GraphView
    BY <1>0 DEF SceneTypeOK, Snapshot, GraphView
  <2>3. /\ loaded' \in [scene: 0..MaxScene, view: GraphView]
        /\ drawn' \in [scene: 0..MaxScene, positions: Manifolds, index: 0..MaxScene,
                        view: GraphView]
    <3>1. /\ NewScene \in [scene: 0..MaxScene, positions: Manifolds, index: 0..MaxScene,
                            view: GraphView]
          /\ SameScene \in [scene: 0..MaxScene, positions: Manifolds, index: 0..MaxScene,
                             view: GraphView]
      BY <1>0, <2>2 DEF NewScene, SameScene, SceneTypeOK
    <3>2. CASE UNCHANGED <<loaded, drawn>>
      BY <1>0, <3>2 DEF SceneTypeOK
    <3>3. CASE /\ loaded' = [scene |-> snap.scene, view |-> snap.view]
               /\ \E renderer \in {NewScene, SameScene} :
                    drawn' = [renderer EXCEPT !.view = snap.view]
      BY <2>2, <3>1, <3>3
    <3> QED BY <1>8, <3>2, <3>3 DEF Project, NotActivated
  <2>4. SceneTypeOK'
    BY <1>0, <2>1, <2>3 DEF SceneTypeOK, kernelVars, workerVars, pageVars, threadVars
  <2>5. \A t \in Threads : Outside(t)
    BY <2>1 DEF Outside, threadVars
  <2>6. ReadersRest'
    BY <1>0, <2>1 DEF ReadersRest, workerVars, threadVars
  <2> QED BY <1>1, <2>4, <2>5, <2>6, OutsideKeeps
<1> QED BY <1>2, <1>3, <1>4, <1>5, <1>6, <1>7, <1>8 DEF SceneNext

LEMMA ReadInvStep == ReadInv /\ [SceneNext]_sceneVars => ReadInv'
<1>1. ASSUME ReadInv, SceneNext PROVE ReadInv'
  <2>1. CASE \E t \in Threads : ReadStep(t)
    BY <1>1, <2>1, ReadKeepsReading
  <2>2. CASE \A t \in Threads : ~ReadStep(t)
    BY <1>1, <2>2, OtherKeepsReading
  <2> QED BY <2>1, <2>2
<1>2. ASSUME ReadInv, UNCHANGED sceneVars PROVE ReadInv'
  BY <1>2 DEF ReadInv, SceneTypeOK, ThreadsHaveWork, ReadersRest, HashedOnce, Hashes,
     sceneVars, kernelVars, workerVars, pageVars, threadVars, windowVars
<1> QED BY <1>1, <1>2

LEMMA ReadInvAlways == SceneSpec => []ReadInv
<1>1. SceneInit => ReadInv
  BY ReadInit
<1>2. ReadInv /\ [SceneNext]_sceneVars => ReadInv'
  BY ReadInvStep
<1> QED BY <1>1, <1>2, PTL DEF SceneSpec

\* SceneTypeOK holds in every state: whatever is installed, chosen and shown, the
\* kernel's view names a scene and every thread reads pages of an archive.
THEOREM SceneTypesAlways == SceneSpec => []SceneTypeOK
<1>1. ReadInv => SceneTypeOK
  BY DEF ReadInv
<1> QED BY <1>1, ReadInvAlways, PTL

-----------------------------------------------------------------------------
(***************************************************************************)
(* ViewInv                                                                 *)
(***************************************************************************)

\* The product index of a generation: without a publisher there is one scene.
IndexOf(g) == IF publishes THEN g ELSE index

\* A view that names a scene the kernel has had, with its product index, and a
\* filter only when there is one.
Bound(v) ==
  /\ v.scene \in 1..scene
  /\ v.index = IndexOf(v.scene)
  /\ v.index = None => ~v.filtered
  /\ \A m \in Manifolds : page[Core(v.scene, m)] = "good"

\* Pages say what they hold, and only of archives somebody has opened.
PagesTell ==
  /\ \A g \in Scenes, m \in Manifolds : page[Core(g, m)] \in {"good", "bad"}
  /\ \A p \in Page : check[p] = "corrupt" => page[p] = "bad"
  /\ \A p \in Page : check[p] = "verified" => page[p] # "bad"
  /\ \A p \in Page : p.scene > newest => check[p] = "unverified"

ReadersTell ==
  /\ \A t \in Threads : at[t] # "idle" => \A i \in DOMAIN todo[t] : todo[t][i].scene <= newest
  /\ \A t \in Threads : at[t] = "failed" => page[Head(todo[t])] \in {"bad", "unusable"}

KernelIsBound ==
  /\ Bound(view)
  /\ view.scene = scene
  /\ index \in {None, scene}
  /\ publishes => index = scene
  /\ ~publishes => scene = 1 /\ opening = None
  /\ scene <= newest

\* What the worker opens becomes a scene whose core pages are verified.
OpeningVerifies ==
  opening # None =>
    /\ opening = newest
    /\ scene < newest
    /\ \A m \in Manifolds :
         \/ check[Core(opening, m)] = "verified"
         \/ /\ at["worker"] # "idle"
            /\ \E i \in DOMAIN todo["worker"] : todo["worker"][i] = Core(opening, m)

SnapCore == Core(snap.scene, snap.view.manifold)
SnapGuides == Guides(snap.scene, snap.view.manifold)

\* The window has read a prefix of what it has asked for.
WindowReads ==
  \/ at["window"] = "idle" /\ page[SnapGuides] \in {"good", "absent"}
  \/ /\ at["window"] # "idle"
     /\ \/ page[SnapGuides] = "absent" /\ todo["window"] = <<SnapCore>>
        \/ /\ page[SnapGuides] # "absent"
           /\ todo["window"] \in {<<SnapCore, SnapGuides>>, <<SnapGuides>>}

SnapIsBound ==
  /\ window \in {"opening", "ended"} =>
       Bound(snap.view) /\ snap.scene = snap.view.scene /\ snap.index = snap.view.index
  /\ window = "opening" => WindowReads

LoadedIsBound == loaded.scene # None => Bound(loaded.view)

ViewInv ==
  /\ PagesTell
  /\ ReadersTell
  /\ KernelIsBound
  /\ OpeningVerifies
  /\ SnapIsBound
  /\ LoadedIsBound
  /\ SyncNeverRejected
  /\ DrawnIsOneView

LEMMA ViewInit == SceneInit => ViewInv
<1> SUFFICES ASSUME SceneInit PROVE ViewInv
  OBVIOUS
<1> USE PageTypes DEF SceneInit
<1>1. 1 \in Scenes /\ 1 \in Nat /\ MaxScene \in Nat
  BY SceneAssumption DEF Scenes
<1>2. /\ page \in [Page -> {"good", "bad", "unusable", "absent"}]
      /\ \A g \in Scenes, m \in Manifolds : page[Core(g, m)] \in {"good", "bad"}
  <2> DEFINE pages == [p \in Page |-> "good"]
  <2>1. \/ \E q \in Page, state \in {"good", "bad", "unusable", "absent"} :
             q.part = "guides" /\ page = [pages EXCEPT ![q] = state]
        \/ \E q \in Page : page = [pages EXCEPT ![q] = "bad"]
    <3>1. \A m \in Manifolds : Guides(1, m) \in Page /\ Guides(1, m).part = "guides"
      BY <1>1 DEF Guides
    <3>2. page \in Archives(pages, 1) /\ \A m \in Manifolds : Core(1, m) \in Page
      BY <1>1
    <3>3. \/ \E m \in Manifolds, state \in PageStates : page = [pages EXCEPT ![Guides(1, m)] = state]
          \/ \E m \in Manifolds : page = [pages EXCEPT ![Core(1, m)] = "bad"]
      BY <3>2 DEF Archives
    <3> QED BY <3>1, <3>2, <3>3, SceneAssumption
  <2>2. \A g \in Scenes, m \in Manifolds : Core(g, m) \in Page /\ Core(g, m).part = "core"
    BY DEF Core
  <2> QED BY <2>1, <2>2
<1>3. \A p \in Page : p.scene = 1 /\ p.part = "core" => p = Core(1, p.manifold) /\ p.manifold \in Manifolds
  BY DEF Page, Core
<1>4. \A p \in Page : p.scene \in Nat
  BY DEF Page
<1>5. PagesTell
  <2>1. \A p \in Page : check[p] # "corrupt" /\ (p.scene > newest => check[p] = "unverified")
    BY <1>1, <1>4
  <2>2. \A p \in Page : check[p] = "verified" => page[p] = "good"
    BY <1>3
  <2> QED BY <1>2, <2>1, <2>2 DEF PagesTell
<1>6. ReadersTell /\ OpeningVerifies
  BY DEF ReadersTell, OpeningVerifies
<1>7. KernelIsBound
  BY <1>1 DEF KernelIsBound, Bound, IndexOf, None
<1>8. SnapIsBound /\ LoadedIsBound /\ SyncNeverRejected /\ DrawnIsOneView
  BY DEF SnapIsBound, LoadedIsBound, SyncNeverRejected, DrawnIsOneView
<1> QED BY <1>5, <1>6, <1>7, <1>8 DEF ViewInv

\* A view stays bound while the kernel goes to later scenes and pages change only
\* in archives that are opened later.
LEMMA BoundStays ==
  ASSUME ReadInv, ViewInv,
         publishes' = publishes, scene' \in Nat, scene <= scene', ~publishes => index' = index,
         \A p \in Page : p.scene <= newest => page'[p] = page[p],
         NEW v \in GraphView, Bound(v)
  PROVE  /\ v.scene \in 1..scene'
         /\ v.index = IF publishes' THEN v.scene ELSE index'
         /\ v.index = None => ~v.filtered
         /\ \A m \in Manifolds : page'[Core(v.scene, m)] = "good"
<1>1. /\ scene \in Scenes /\ newest \in Scenes /\ MaxScene \in Nat /\ scene <= newest
  BY SceneAssumption DEF ReadInv, SceneTypeOK, ViewInv, KernelIsBound
<1>2. v.scene \in 1..scene /\ v.scene \in Scenes /\ v.scene <= newest
  BY <1>1 DEF Bound, Scenes
<1>3. \A m \in Manifolds : Core(v.scene, m) \in Page /\ Core(v.scene, m).scene = v.scene
  BY <1>2, PageTypes DEF Core
<1>4. v.scene \in 1..scene'
  BY <1>1, <1>2 DEF Scenes
<1> QED BY <1>2, <1>3, <1>4 DEF Bound, IndexOf

\* What a step of verify_page does to the page at the head of the list.
LEMMA ReadEffect ==
  ASSUME ReadInv, PagesTell, NEW t \in Threads, ReadStep(t)
  PROVE  LET p == Head(todo[t]) IN
         /\ p \in Page
         /\ \A q \in Page \ {p} : check'[q] = check[q]
         /\ check[p] = "verified" => check'[p] = "verified"
         /\ check'[p] = "corrupt" => page[p] = "bad"
         /\ check'[p] = "verified" => page[p] # "bad"
         /\ \/ todo'[t] = todo[t] /\ at'[t] \in {"look", "claim", "hash"}
            \/ todo'[t] = todo[t] /\ at'[t] = "failed" /\ page[p] \in {"bad", "unusable"}
            \/ /\ todo'[t] = Tail(todo[t])
               /\ at'[t] = IF Tail(todo[t]) = <<>> THEN "idle" ELSE "look"
               /\ check'[p] = "verified"
               /\ page[p] \notin {"bad", "unusable"}
<1> DEFINE p == Head(todo[t])
<1>1. /\ p \in Page /\ todo[t] # <<>> /\ SceneTypeOK /\ HashedOnce
      /\ check \in [Page -> {"unverified", "verifying", "verified", "corrupt"}]
  BY ReadTypes, RestOfPages DEF ReadInv, SceneTypeOK
<1>2. /\ check[p] = "corrupt" => page[p] = "bad"
      /\ check[p] = "verified" => page[p] # "bad"
  BY <1>1 DEF PagesTell
<1>3. CASE Look(t)
  <2>1. check' = check
    BY <1>3 DEF Look, pageVars
  <2>2. CASE check[p] = "verified" /\ Proceed(t)
    BY <1>1, <1>2, <2>1, <2>2, ProceedEffect
  <2>3. CASE check[p] = "corrupt" /\ Move(t, "failed") /\ UNCHANGED todo
    BY <1>1, <1>2, <2>1, <2>3, MoveEffect
  <2>4. CASE check[p] = "unverified" /\ Move(t, "claim") /\ UNCHANGED todo
    BY <1>1, <1>2, <2>1, <2>4, MoveEffect
  <2> QED BY <1>3, <2>2, <2>3, <2>4 DEF Look
<1>4. CASE Claim(t)
  <2>1. todo' = todo /\ at'[t] \in {"look", "hash"}
    BY <1>1, <1>4, MoveEffect DEF Claim
  <2>2. CASE check' = check
    BY <1>1, <1>2, <2>1, <2>2
  <2>3. CASE check[p] = "unverified" /\ check' = [check EXCEPT ![p] = "verifying"]
    BY <1>1, <1>2, <2>1, <2>3
  <2> QED BY <1>4, <2>2, <2>3 DEF Claim
<1>5. CASE Hash(t)
  <2>1. check[p] = "verifying"
    BY <1>1, <1>5 DEF Hash, Hashes, HashedOnce
  <2>2. CASE page[p] = "bad"
    <3>1. check' = [check EXCEPT ![p] = "corrupt"] /\ Move(t, "failed") /\ todo' = todo
      BY <1>5, <2>2 DEF Hash
    <3> QED BY <1>1, <2>1, <2>2, <3>1, MoveEffect
  <2>3. CASE page[p] # "bad"
    <3>1. check' = [check EXCEPT ![p] = "verified"] /\ Proceed(t)
      BY <1>5, <2>3 DEF Hash
    <3> QED BY <1>1, <2>1, <2>3, <3>1, ProceedEffect
  <2> QED BY <2>2, <2>3
<1> QED BY <1>3, <1>4, <1>5 DEF ReadStep

LEMMA ReadKeepsView ==
  ASSUME ReadInv, ViewInv, NEW t \in Threads, ReadStep(t)
  PROVE  ViewInv'
<1> DEFINE p == Head(todo[t])
<1>1. /\ UNCHANGED <<scene, index, view, publishes, opening, newest, page>>
      /\ UNCHANGED <<window, snap, loaded, drawn>>
      /\ at[t] # "idle" /\ todo[t] # <<>> /\ todo[t] \in Seq(Page)
      /\ \A u \in Threads \ {t} : at'[u] = at[u] /\ todo'[u] = todo[u]
  BY ReadTypes DEF kernelVars, workerVars, windowVars, ReadInv, SceneTypeOK
<1>2. /\ PagesTell /\ ReadersTell /\ KernelIsBound /\ OpeningVerifies /\ SnapIsBound
      /\ LoadedIsBound /\ SyncNeverRejected /\ DrawnIsOneView /\ ReadersRest
      /\ newest \in Nat
  BY PageTypes DEF ViewInv, ReadInv, SceneTypeOK
<1>3. /\ p \in Page
      /\ \A q \in Page \ {p} : check'[q] = check[q]
      /\ check[p] = "verified" => check'[p] = "verified"
      /\ check'[p] = "corrupt" => page[p] = "bad"
      /\ check'[p] = "verified" => page[p] # "bad"
  BY <1>2, ReadEffect
<1>4. \/ todo'[t] = todo[t] /\ at'[t] \in {"look", "claim", "hash"}
      \/ todo'[t] = todo[t] /\ at'[t] = "failed" /\ page[p] \in {"bad", "unusable"}
      \/ /\ todo'[t] = Tail(todo[t])
         /\ at'[t] = IF Tail(todo[t]) = <<>> THEN "idle" ELSE "look"
         /\ check'[p] = "verified"
         /\ page[p] \notin {"bad", "unusable"}
  BY <1>2, ReadEffect
<1>5. /\ 1 \in DOMAIN todo[t] /\ todo[t][1] = p
      /\ \A i \in DOMAIN Tail(todo[t]) : i + 1 \in DOMAIN todo[t] /\ Tail(todo[t])[i] = todo[t][i + 1]
      /\ \A i \in DOMAIN todo[t] : i # 1 => i - 1 \in DOMAIN Tail(todo[t])
      /\ \A i \in DOMAIN todo[t] : i \in Nat
  BY <1>1, RestOfPages
<1>6. p.scene <= newest /\ p.scene \in Nat
  BY <1>1, <1>2, <1>3, <1>5 DEF ReadersTell, Page, Scenes
<1> HIDE DEF p
<1>7. PagesTell'
  BY <1>1, <1>2, <1>3, <1>6 DEF PagesTell
<1>8. ReadersTell'
  <2>1. at'[t] # "idle" => \A i \in DOMAIN todo'[t] : todo'[t][i].scene <= newest
    <3>1. \A i \in DOMAIN todo[t] : todo[t][i].scene <= newest
      BY <1>1, <1>2 DEF ReadersTell
    <3>2. CASE todo'[t] = todo[t]
      BY <3>1, <3>2
    <3>3. CASE todo'[t] = Tail(todo[t])
      BY <1>5, <3>1, <3>3
    <3> QED BY <1>4, <3>2, <3>3
  <2>2. at'[t] = "failed" => page[Head(todo'[t])] \in {"bad", "unusable"}
    BY <1>4 DEF p
  <2> QED BY <1>1, <1>2, <2>1, <2>2 DEF ReadersTell
<1>9. KernelIsBound' /\ LoadedIsBound' /\ SyncNeverRejected' /\ DrawnIsOneView'
  BY <1>1, <1>2 DEF KernelIsBound, LoadedIsBound, SyncNeverRejected, DrawnIsOneView, Bound, IndexOf
<1>10. OpeningVerifies'
  <2>1. \A q \in Page : check[q] = "verified" => check'[q] = "verified"
    BY <1>3
  <2>2. CASE opening = None
    BY <1>1, <2>2 DEF OpeningVerifies
  <2>3. CASE opening # None
    <3>1. SUFFICES ASSUME NEW m \in Manifolds
                   PROVE  \/ check'[Core(opening, m)] = "verified"
                          \/ /\ at'["worker"] # "idle"
                             /\ \E i \in DOMAIN todo'["worker"] :
                                  todo'["worker"][i] = Core(opening, m)
      BY <1>1, <1>2, <2>3 DEF OpeningVerifies
    <3>2. opening \in Scenes
      BY <2>3 DEF ReadInv, SceneTypeOK, Scenes, None
    <3>3. CASE check[Core(opening, m)] = "verified"
      BY <2>1, <3>2, <3>3, PageTypes
    <3>4. CASE check[Core(opening, m)] # "verified"
      <4>1. at["worker"] # "idle"
        BY <1>2, <2>3, <3>4 DEF OpeningVerifies
      <4>2. PICK i \in DOMAIN todo["worker"] : todo["worker"][i] = Core(opening, m)
        BY <1>2, <2>3, <3>4 DEF OpeningVerifies
      <4>3. CASE t # "worker"
        BY <1>1, <4>1, <4>2, <4>3 DEF Threads
      <4>4. CASE t = "worker" /\ todo'[t] = todo[t] /\ at'[t] # "idle"
        BY <4>2, <4>4
      <4>5. CASE t = "worker" /\ todo'[t] = Tail(todo[t]) /\ check'[p] = "verified"
                   /\ at'[t] = IF Tail(todo[t]) = <<>> THEN "idle" ELSE "look"
        <5>1. CASE i = 1
          BY <1>5, <4>2, <4>5, <5>1
        <5>2. CASE i # 1
          <6>1. /\ i - 1 \in DOMAIN Tail(todo[t])
                /\ i \in Nat
                /\ Tail(todo[t])[i - 1] = todo[t][(i - 1) + 1]
            BY <1>5, <4>2, <4>5, <5>2
          <6>2. Tail(todo[t])[i - 1] = Core(opening, m)
            BY <4>2, <4>5, <6>1
          <6>3. Tail(todo[t]) # <<>>
            BY <6>1
          <6> QED BY <4>5, <6>1, <6>2, <6>3
        <5> QED BY <5>1, <5>2
      <4> QED BY <1>4, <4>3, <4>4, <4>5
    <3> QED BY <3>3, <3>4
  <2> QED BY <2>2, <2>3
<1>11. SnapIsBound'
  <2>1. CASE t # "window"
    BY <1>1, <1>2, <2>1 DEF SnapIsBound, WindowReads, SnapCore, SnapGuides, Bound, IndexOf, Threads
  <2>2. CASE t = "window"
    <3>1. at[t] # "failed" /\ window = "opening"
      <4>1. at[t] # "failed"
        BY DEF ReadStep, Look, Claim, Hash
      <4> QED BY <1>1, <1>2, <2>2, <4>1 DEF ReadersRest, ReadInv, SceneTypeOK
    <3>2. /\ Bound(snap.view)' /\ snap'.scene = snap'.view.scene /\ snap'.index = snap'.view.index
      BY <1>1, <1>2, <3>1 DEF SnapIsBound, Bound, IndexOf
    <3>3. \/ page[SnapGuides] = "absent" /\ todo[t] = <<SnapCore>>
          \/ /\ page[SnapGuides] # "absent"
             /\ todo[t] \in {<<SnapCore, SnapGuides>>, <<SnapGuides>>}
      BY <1>1, <1>2, <2>2, <3>1 DEF SnapIsBound, WindowReads
    <3>4. UNCHANGED <<SnapCore, SnapGuides>>
      BY <1>1 DEF SnapCore, SnapGuides
    <3>5. WindowReads'
      <4>1. CASE todo'[t] = todo[t] /\ at'[t] # "idle"
        BY <1>1, <2>2, <3>3, <3>4, <4>1 DEF WindowReads
      <4>2. CASE /\ todo'[t] = Tail(todo[t])
                 /\ at'[t] = IF Tail(todo[t]) = <<>> THEN "idle" ELSE "look"
                 /\ page[p] \notin {"bad", "unusable"}
        <5>1. CASE page[SnapGuides] = "absent" /\ todo[t] = <<SnapCore>>
          <6>1. Tail(todo[t]) = <<>>
            BY <5>1
          <6> QED BY <1>1, <2>2, <3>4, <4>2, <5>1, <6>1 DEF WindowReads
        <5>2. CASE page[SnapGuides] # "absent" /\ todo[t] = <<SnapCore, SnapGuides>>
          <6>1. Tail(todo[t]) = <<SnapGuides>> /\ Tail(todo[t]) # <<>>
            BY <5>2
          <6> QED BY <1>1, <2>2, <3>4, <4>2, <5>2, <6>1 DEF WindowReads
        <5>3. CASE page[SnapGuides] # "absent" /\ todo[t] = <<SnapGuides>>
          <6>1. Tail(todo[t]) = <<>> /\ p = SnapGuides
            BY <1>5, <5>3
          <6>2. page[p] \in {"good", "bad", "unusable", "absent"}
            BY <1>3 DEF ReadInv, SceneTypeOK
          <6> QED BY <1>1, <2>2, <3>4, <4>2, <5>3, <6>1, <6>2 DEF WindowReads
        <5> QED BY <3>3, <5>1, <5>2, <5>3
      <4> QED BY <1>4, <4>1, <4>2
    <3> QED BY <3>2, <3>5 DEF SnapIsBound
  <2> QED BY <2>1, <2>2
<1> QED BY <1>7, <1>8, <1>9, <1>10, <1>11 DEF ViewInv

\* What the window has and shows stays right while the others work on.
LEMMA WindowStays ==
  ASSUME ReadInv, ViewInv,
         UNCHANGED <<window, snap, loaded, drawn>>,
         at'["window"] = at["window"], todo'["window"] = todo["window"],
         publishes' = publishes, scene' \in Nat, scene <= scene', ~publishes => index' = index,
         \A p \in Page : p.scene <= newest => page'[p] = page[p]
  PROVE  SnapIsBound' /\ LoadedIsBound' /\ SyncNeverRejected' /\ DrawnIsOneView'
<1>1. /\ scene \in Nat /\ newest \in Nat /\ scene <= newest
      /\ Scenes \subseteq Nat
      /\ snap.view \in GraphView /\ loaded.view \in GraphView
      /\ snap.view.manifold \in Manifolds /\ loaded.view.manifold \in Manifolds
      /\ snap.scene \in 0..MaxScene /\ loaded.scene \in 0..MaxScene
      /\ window \in {"waiting", "opening", "ended", "joined"}
      /\ SnapIsBound /\ LoadedIsBound /\ SyncNeverRejected /\ DrawnIsOneView
  BY PageTypes DEF ReadInv, ViewInv, SceneTypeOK, Snapshot, GraphView, KernelIsBound
<1>2. \A g \in Scenes, m \in Manifolds : g <= scene =>
        /\ page'[Core(g, m)] = page[Core(g, m)]
        /\ page'[Guides(g, m)] = page[Guides(g, m)]
  <2>1. \A g \in Scenes, m \in Manifolds :
          /\ Core(g, m) \in Page /\ Core(g, m).scene = g
          /\ Guides(g, m) \in Page /\ Guides(g, m).scene = g
    BY PageTypes DEF Core, Guides
  <2>2. \A g \in Scenes : g <= scene => g <= newest
    <3>1. SUFFICES ASSUME NEW g \in Scenes, g <= scene PROVE g <= newest
      OBVIOUS
    <3>2. g \in Nat /\ scene \in Nat /\ newest \in Nat /\ scene <= newest
      BY <1>1
    <3> QED BY <3>1, <3>2
  <2> QED BY <2>1, <2>2
<1>3. \A v \in GraphView : Bound(v) => v.scene \in Scenes /\ v.scene <= scene
  <2>1. scene \in 1..MaxScene /\ MaxScene \in Nat
    BY SceneAssumption DEF ReadInv, SceneTypeOK, Scenes
  <2> QED BY <2>1 DEF Bound, Scenes
<1>4. SnapIsBound' /\ SyncNeverRejected'
  <2>1. CASE window \in {"waiting", "joined"}
    BY <2>1 DEF SnapIsBound, SyncNeverRejected
  <2>2. CASE window \notin {"waiting", "joined"}
    <3>1. Bound(snap.view) /\ snap.scene = snap.view.scene /\ snap.index = snap.view.index
      BY <1>1, <2>2 DEF SnapIsBound
    <3>2. Bound(snap.view)'
      BY <1>1, <3>1, BoundStays DEF Bound, IndexOf
    <3>3. page'[Guides(snap.scene, snap.view.manifold)] = page[Guides(snap.scene, snap.view.manifold)]
      BY <1>1, <1>2, <1>3, <3>1
    <3>4. window = "opening" => WindowReads'
      BY <1>1, <3>3 DEF SnapIsBound, WindowReads, SnapCore, SnapGuides
    <3> QED BY <1>1, <3>1, <3>2, <3>3, <3>4 DEF SnapIsBound, SyncNeverRejected
  <2> QED BY <2>1, <2>2
<1>5. LoadedIsBound' /\ DrawnIsOneView'
  <2>1. CASE loaded.scene = None
    BY <2>1 DEF LoadedIsBound, DrawnIsOneView
  <2>2. CASE loaded.scene # None
    <3>1. /\ Bound(loaded.view) /\ loaded.view.scene = loaded.scene /\ loaded.scene <= scene
          /\ drawn.scene = loaded.scene /\ drawn.positions = loaded.view.manifold
      BY <1>1, <2>2 DEF LoadedIsBound, DrawnIsOneView
    <3>2. Bound(loaded.view)'
      BY <1>1, <3>1, BoundStays DEF Bound, IndexOf
    <3>3. /\ page'[Core(drawn.scene, drawn.positions)] = page[Core(drawn.scene, drawn.positions)]
          /\ page'[Guides(drawn.scene, drawn.positions)] = page[Guides(drawn.scene, drawn.positions)]
      BY <1>1, <1>2, <1>3, <3>1
    <3>4. loaded.scene <= scene'
      BY <1>1, <3>1
    <3> QED BY <1>1, <2>2, <3>2, <3>3, <3>4 DEF LoadedIsBound, DrawnIsOneView
  <2> QED BY <2>1, <2>2
<1> QED BY <1>4, <1>5

\* Threads that begin or end a list leave the pages as they are.
LEMMA PagesStay ==
  ASSUME PagesTell, ReadersTell, UNCHANGED <<page, newest, check>>,
         \A t \in Threads :
           \/ at'[t] = at[t] /\ todo'[t] = todo[t]
           \/ at'[t] = "idle"
           \/ at'[t] = "look" /\ \A i \in DOMAIN todo'[t] : todo'[t][i].scene <= newest
  PROVE  PagesTell' /\ ReadersTell'
<1>1. PagesTell'
  BY DEF PagesTell
<1>2. ReadersTell'
  <2>1. SUFFICES ASSUME NEW t \in Threads
                 PROVE  /\ at'[t] # "idle" => \A i \in DOMAIN todo'[t] : todo'[t][i].scene <= newest
                        /\ at'[t] = "failed" => page[Head(todo'[t])] \in {"bad", "unusable"}
    BY DEF ReadersTell
  <2> QED BY DEF ReadersTell
<1> QED BY <1>1, <1>2

LEMMA OpenKeepsView ==
  ASSUME ReadInv, ViewInv, NEW g \in Scenes, OpenScene(g)
  PROVE  ViewInv'
<1> DEFINE pages == [i \in DOMAIN ManifoldList |-> Core(g, ManifoldList[i])]
<1>1. pages \in Seq(Page) /\ pages # <<>> /\ DOMAIN pages = DOMAIN ManifoldList
  BY CoreList
<1>2. /\ Ask("worker", pages)
      /\ opening' = g /\ newest' = g /\ opening = None /\ g > newest /\ publishes
      /\ page' \in Archives(page, g)
      /\ UNCHANGED <<scene, index, view, publishes, check, hashed, window, snap, loaded, drawn>>
  BY DEF OpenScene, WorkerFree, kernelVars, pageVars, windowVars
<1>3. /\ SceneTypeOK /\ ThreadsHaveWork /\ PagesTell /\ ReadersTell /\ KernelIsBound
      /\ g \in Nat /\ newest \in Nat /\ scene \in Nat /\ scene <= newest /\ view \in GraphView
      /\ \A p \in Page : p.scene \in Nat
      /\ page \in [Page -> {"good", "bad", "unusable", "absent"}]
  BY PageTypes DEF ReadInv, ViewInv, SceneTypeOK, KernelIsBound, Page
<1>4. \A i \in DOMAIN pages : pages[i] = Core(g, ManifoldList[i]) /\ pages[i].scene = g
  BY <1>1 DEF Core
<1> HIDE DEF pages
<1>5. /\ todo'["worker"] = pages /\ at'["worker"] = "look"
      /\ \A u \in Threads \ {"worker"} : at'[u] = at[u] /\ todo'[u] = todo[u]
  BY <1>1, <1>2, <1>3, AskEffect DEF Threads
<1>6. /\ \A p \in Page : p.scene <= newest => page'[p] = page[p]
      /\ \A h \in Scenes, m \in Manifolds : page'[Core(h, m)] \in {"good", "bad"}
  <2>1. \A h \in Scenes, m \in Manifolds :
          /\ Core(h, m) \in Page /\ Core(h, m).part = "core" /\ Core(h, m).scene = h
          /\ Guides(h, m) \in Page /\ Guides(h, m).part = "guides" /\ Guides(h, m).scene = h
    BY PageTypes DEF Core, Guides
  <2>2. \/ \E m \in Manifolds, state \in PageStates : page' = [page EXCEPT ![Guides(g, m)] = state]
        \/ \E m \in Manifolds : page' = [page EXCEPT ![Core(g, m)] = "bad"]
    BY <1>2 DEF Archives
  <2>3. ~(g <= newest)
    BY <1>2, <1>3
  <2>4. \A h \in Scenes, m \in Manifolds : page[Core(h, m)] \in {"good", "bad"}
    BY <1>3 DEF PagesTell
  <2> QED BY <1>3, <2>1, <2>2, <2>3, <2>4
<1>7. PagesTell'
  BY <1>2, <1>3, <1>6 DEF PagesTell
<1>8. ReadersTell'
  <2>1. SUFFICES ASSUME NEW t \in Threads
                 PROVE  /\ at'[t] # "idle" => \A i \in DOMAIN todo'[t] : todo'[t][i].scene <= g
                        /\ at'[t] = "failed" => page'[Head(todo'[t])] \in {"bad", "unusable"}
    BY <1>2 DEF ReadersTell
  <2>2. CASE t = "worker"
    BY <1>3, <1>4, <1>5, <2>2
  <2>3. CASE t # "worker" /\ at[t] # "idle"
    <3>1. /\ todo[t] \in Seq(Page) /\ todo[t] # <<>> /\ at'[t] = at[t] /\ todo'[t] = todo[t]
      BY <1>3, <1>5, <2>3 DEF SceneTypeOK, ThreadsHaveWork
    <3>2. /\ Head(todo[t]) \in Page /\ 1 \in DOMAIN todo[t] /\ todo[t][1] = Head(todo[t])
          /\ \A i \in DOMAIN todo[t] : todo[t][i] \in Page
      BY <3>1, RestOfPages
    <3>3. \A i \in DOMAIN todo[t] : todo[t][i].scene <= newest
      BY <1>3, <2>3 DEF ReadersTell
    <3>4. \A i \in DOMAIN todo[t] : todo[t][i].scene <= g
      BY <1>2, <1>3, <3>2, <3>3
    <3>5. page'[Head(todo[t])] = page[Head(todo[t])]
      BY <1>6, <3>2, <3>3
    <3> QED BY <1>3, <3>1, <3>4, <3>5 DEF ReadersTell
  <2>4. CASE t # "worker" /\ at[t] = "idle"
    BY <1>5, <2>4
  <2> QED BY <2>2, <2>3, <2>4
<1>9. KernelIsBound'
  <2>1. Bound(view)'
    BY <1>2, <1>3, <1>6, BoundStays DEF KernelIsBound, Bound, IndexOf
  <2>2. scene <= g
    BY <1>2, <1>3
  <2> QED BY <1>2, <1>3, <2>1, <2>2 DEF KernelIsBound
<1>10. OpeningVerifies'
  <2>1. \A m \in Manifolds : \E i \in DOMAIN pages : pages[i] = Core(g, m)
    BY <1>1, <1>4 DEF Manifolds
  <2>2. scene < g
    BY <1>2, <1>3
  <2> QED BY <1>2, <1>5, <2>1, <2>2 DEF OpeningVerifies
<1>11. SnapIsBound' /\ LoadedIsBound' /\ SyncNeverRejected' /\ DrawnIsOneView'
  BY <1>2, <1>3, <1>5, <1>6, WindowStays DEF Threads
<1> QED BY <1>7, <1>8, <1>9, <1>10, <1>11 DEF ViewInv

\* A scene that did not open, one that is installed, and the client's choices.
LEMMA KernelKeepsView ==
  ASSUME ReadInv, ViewInv,
         \/ SceneNotOpened
         \/ InstallScene
         \/ \E m \in Manifolds : SetManifold(m)
         \/ \E authority \in Authorities, m \in Manifolds, filtered \in BOOLEAN :
              SetGraphView(authority, m, filtered)
  PROVE  ViewInv'
<1>1. /\ UNCHANGED <<publishes, newest, page, check, window, snap, loaded, drawn>>
      /\ \A t \in Threads : (at'[t] = at[t] /\ todo'[t] = todo[t]) \/ at'[t] = "idle"
      /\ at'["window"] = at["window"] /\ todo'["window"] = todo["window"]
  <2>1. CASE SceneNotOpened
    <3>1. /\ Move("worker", "idle") /\ todo' = todo
          /\ UNCHANGED <<publishes, newest, page, check, window, snap, loaded, drawn>>
      BY <2>1 DEF SceneNotOpened, kernelVars, pageVars, windowVars
    <3> QED BY <3>1, MoveEffect DEF ReadInv, Threads
  <2>2. CASE ~SceneNotOpened
    BY <2>2 DEF InstallScene, SetManifold, SetGraphView, workerVars, pageVars, threadVars, windowVars
  <2> QED BY <2>1, <2>2
<1>2. /\ SceneTypeOK /\ PagesTell /\ ReadersTell /\ KernelIsBound /\ OpeningVerifies
      /\ newest \in Nat /\ scene \in Nat /\ scene <= newest /\ view \in GraphView
  BY PageTypes DEF ReadInv, ViewInv, SceneTypeOK, KernelIsBound
<1>3. PagesTell' /\ ReadersTell'
  BY <1>1, <1>2, PagesStay
<1>4. /\ scene' \in Nat /\ scene <= scene'
      /\ ~publishes => index' = index
      /\ KernelIsBound' /\ OpeningVerifies'
  <2>1. CASE SceneNotOpened
    <3>1. opening' = None /\ UNCHANGED <<scene, index, view, publishes, newest, page>>
      BY <2>1 DEF SceneNotOpened, kernelVars
    <3> QED BY <1>2, <3>1 DEF KernelIsBound, OpeningVerifies, Bound, IndexOf
  <2>2. CASE InstallScene
    <3>1. /\ opening # None /\ at["worker"] = "idle" /\ opening' = None
          /\ scene' = opening /\ index' = opening
          /\ view' = [scene |-> opening, index |-> opening, manifold |-> view.manifold,
                      filtered |-> FALSE]
          /\ UNCHANGED <<publishes, newest, page, check>>
      BY <2>2 DEF InstallScene, pageVars
    <3>2. opening \in Scenes /\ opening = newest /\ scene < newest /\ publishes
      BY <1>2, <3>1 DEF OpeningVerifies, KernelIsBound, SceneTypeOK
    <3>3. \A m \in Manifolds : page[Core(opening, m)] = "good"
      <4>1. SUFFICES ASSUME NEW m \in Manifolds PROVE page[Core(opening, m)] = "good"
        OBVIOUS
      <4>2. Core(opening, m) \in Page /\ check[Core(opening, m)] = "verified"
        BY <1>2, <3>1, <3>2, PageTypes DEF OpeningVerifies
      <4> QED BY <1>2, <3>2, <4>2 DEF PagesTell
    <3>4. opening \in Nat /\ opening >= 1 /\ opening # None
      BY <3>1, <3>2, PageTypes, SceneAssumption DEF Scenes
    <3>5. Bound(view)'
      BY <3>1, <3>2, <3>3, <3>4 DEF Bound, IndexOf
    <3> QED BY <1>2, <3>1, <3>2, <3>4, <3>5 DEF KernelIsBound, OpeningVerifies
  <2>3. CASE \/ \E m \in Manifolds : SetManifold(m)
            \/ \E authority \in Authorities, m \in Manifolds, filtered \in BOOLEAN :
                 SetGraphView(authority, m, filtered)
    <3>1. /\ view'.scene = view.scene /\ view'.index = view.index
          /\ view'.index = None => ~view'.filtered
          /\ UNCHANGED <<scene, index, publishes, opening, newest, page, check, todo, at>>
      <4>1. CASE \E m \in Manifolds : SetManifold(m)
        BY <1>2, <4>1 DEF SetManifold, workerVars, pageVars, threadVars, GraphView,
                        KernelIsBound, Bound
      <4>2. CASE \E authority \in Authorities, m \in Manifolds, filtered \in BOOLEAN :
                   SetGraphView(authority, m, filtered)
        <5>1. view.index = index
          BY <1>2 DEF KernelIsBound, Bound, IndexOf
        <5>2. PICK authority \in Authorities, m \in Manifolds, filtered \in BOOLEAN :
                SetGraphView(authority, m, filtered)
          BY <4>2
        <5> QED BY <5>1, <5>2 DEF SetGraphView, workerVars, pageVars, threadVars
      <4> QED BY <2>3, <4>1, <4>2
    <3>2. Bound(view)'
      BY <1>2, <3>1 DEF KernelIsBound, Bound, IndexOf
    <3> QED BY <1>2, <3>1, <3>2 DEF KernelIsBound, OpeningVerifies
  <2> QED BY <2>1, <2>2, <2>3
<1>5. SnapIsBound' /\ LoadedIsBound' /\ SyncNeverRejected' /\ DrawnIsOneView'
  BY <1>1, <1>4, WindowStays
<1> QED BY <1>3, <1>4, <1>5 DEF ViewInv

LEMMA ProofKeepsView ==
  ASSUME ReadInv, ViewInv, CloseWindow \/ ReadGuides \/ ProofFailed
  PROVE  ViewInv'
<1>1. /\ SceneTypeOK /\ PagesTell /\ ReadersTell /\ KernelIsBound /\ OpeningVerifies
      /\ SnapIsBound /\ LoadedIsBound /\ DrawnIsOneView
      /\ scene \in Nat /\ scene <= newest /\ scene \in Scenes
  BY PageTypes DEF ReadInv, ViewInv, SceneTypeOK, KernelIsBound
<1>2. /\ UNCHANGED <<scene, index, view, publishes, opening, newest, page, check>>
      /\ UNCHANGED <<snap, loaded, drawn>>
      /\ \A u \in Threads \ {"proof"} : at'[u] = at[u] /\ todo'[u] = todo[u]
      /\ \/ at'["proof"] = "idle"
         \/ at'["proof"] = at["proof"] /\ todo'["proof"] = todo["proof"]
         \/ /\ at'["proof"] = "look"
            /\ \A i \in DOMAIN todo'["proof"] : todo'["proof"][i].scene <= newest
      /\ window' \in {window, "joined"}
  <2>1. CASE ReadGuides
    <3> DEFINE pages == <<Guides(scene, Hybrid)>>
    <3>1. pages \in Seq(Page) /\ pages # <<>> /\ \A i \in DOMAIN pages : pages[i].scene = scene
      BY <1>1, PageTypes DEF Guides
    <3>2. /\ Ask("proof", pages)
          /\ UNCHANGED <<scene, index, view, publishes, opening, newest, page, check>>
          /\ UNCHANGED <<snap, loaded, drawn>>
          /\ window' = "joined"
      BY <2>1 DEF ReadGuides, AskForGuides, Joined, kernelVars, workerVars, pageVars
    <3> HIDE DEF pages
    <3> QED BY <1>1, <3>1, <3>2, AskEffect DEF Threads
  <2>2. CASE ProofFailed
    BY <1>1, <2>2, MoveEffect DEF ProofFailed, kernelVars, workerVars, pageVars, windowVars, Threads
  <2>3. CASE CloseWindow
    BY <2>3 DEF CloseWindow, Joined, kernelVars, workerVars, pageVars, threadVars
  <2> QED BY <2>1, <2>2, <2>3
<1>3. PagesTell' /\ ReadersTell'
  BY <1>1, <1>2, PagesStay DEF Threads
<1>4. KernelIsBound' /\ OpeningVerifies'
  BY <1>1, <1>2 DEF KernelIsBound, OpeningVerifies, Bound, IndexOf, Threads
<1>5. CASE window' = window
  <2>1. SnapIsBound' /\ LoadedIsBound' /\ SyncNeverRejected' /\ DrawnIsOneView'
    BY <1>1, <1>2, <1>5, WindowStays DEF Threads
  <2> QED BY <1>3, <1>4, <2>1 DEF ViewInv
<1>6. CASE window' = "joined"
  <2>1. SnapIsBound' /\ SyncNeverRejected'
    BY <1>6 DEF SnapIsBound, SyncNeverRejected
  <2>2. LoadedIsBound' /\ DrawnIsOneView'
    BY <1>1, <1>2 DEF LoadedIsBound, DrawnIsOneView, Bound, IndexOf
  <2> QED BY <1>3, <1>4, <2>1, <2>2 DEF ViewInv
<1> QED BY <1>2, <1>5, <1>6

LEMMA SynchronizeKeepsView ==
  ASSUME ReadInv, ViewInv, Synchronize
  PROVE  ViewInv'
<1>1. /\ SceneTypeOK /\ ReadersRest /\ PagesTell /\ ReadersTell /\ KernelIsBound
      /\ OpeningVerifies /\ LoadedIsBound /\ DrawnIsOneView
      /\ scene \in Nat /\ newest \in Nat /\ scene <= newest /\ scene \in Scenes
      /\ view \in GraphView /\ view.manifold \in Manifolds
      /\ page \in [Page -> {"good", "bad", "unusable", "absent"}]
  BY PageTypes DEF ReadInv, ViewInv, SceneTypeOK, KernelIsBound, GraphView
<1>2. /\ window' = "opening" /\ at["window"] = "idle"
      /\ snap' = [scene |-> scene, index |-> index, view |-> view]
      /\ UNCHANGED <<scene, index, view, publishes, opening, newest, page, check, loaded, drawn>>
  BY <1>1 DEF Synchronize, ReadersRest, kernelVars, workerVars, pageVars
<1>3. view.scene = scene /\ view.index = index /\ Bound(view)
  BY <1>1 DEF KernelIsBound, Bound, IndexOf
<1>4. SnapCore' = Core(scene, view.manifold) /\ SnapGuides' = Guides(scene, view.manifold)
  BY <1>2 DEF SnapCore, SnapGuides
<1>5. /\ \A u \in Threads \ {"window"} : at'[u] = at[u] /\ todo'[u] = todo[u]
      /\ \/ at'["window"] = "idle"
         \/ /\ at'["window"] = "look"
            /\ \A i \in DOMAIN todo'["window"] : todo'["window"][i].scene <= newest
      /\ WindowReads'
  <2>1. CASE Activate(scene, view.manifold)
    <3>1. /\ todo'["window"] = IF page[Guides(scene, view.manifold)] = "absent"
                               THEN <<Core(scene, view.manifold)>>
                               ELSE <<Core(scene, view.manifold), Guides(scene, view.manifold)>>
          /\ at'["window"] = "look"
          /\ \A u \in Threads \ {"window"} : at'[u] = at[u] /\ todo'[u] = todo[u]
      BY <1>1, <2>1, ActivateEffect
    <3>2. \A i \in DOMAIN todo'["window"] : todo'["window"][i].scene <= newest
      BY <1>1, <3>1 DEF Core, Guides
    <3>3. WindowReads'
      BY <1>2, <1>4, <3>1 DEF WindowReads
    <3> QED BY <3>1, <3>2, <3>3
  <2>2. CASE loaded.scene = scene /\ loaded.view.manifold = view.manifold /\ UNCHANGED threadVars
    <3>1. page[Guides(scene, view.manifold)] \in {"good", "absent"}
      BY <1>1, <2>2, PageTypes DEF DrawnIsOneView
    <3> QED BY <1>2, <1>4, <2>2, <3>1 DEF WindowReads, threadVars
  <2> QED BY <2>1, <2>2 DEF Synchronize
<1>6. PagesTell' /\ ReadersTell'
  BY <1>1, <1>2, <1>5, PagesStay DEF Threads
<1>7. KernelIsBound' /\ OpeningVerifies'
  BY <1>1, <1>2, <1>5 DEF KernelIsBound, OpeningVerifies, Bound, IndexOf, Threads
<1>8. SnapIsBound'
  BY <1>2, <1>3, <1>5 DEF SnapIsBound, Bound, IndexOf
<1>9. LoadedIsBound' /\ DrawnIsOneView' /\ SyncNeverRejected'
  BY <1>1, <1>2 DEF LoadedIsBound, DrawnIsOneView, SyncNeverRejected, Bound, IndexOf
<1> QED BY <1>6, <1>7, <1>8, <1>9 DEF ViewInv

\* What the window has read is taken by the renderer, and only a page can end it.
LEMMA ProjectKeepsView ==
  ASSUME ReadInv, ViewInv, Project \/ NotActivated
  PROVE  ViewInv'
<1>1. /\ SceneTypeOK /\ PagesTell /\ ReadersTell /\ KernelIsBound /\ OpeningVerifies
      /\ SnapIsBound /\ LoadedIsBound /\ DrawnIsOneView
      /\ scene \in Nat
      /\ window = "opening"
  BY PageTypes DEF ReadInv, ViewInv, SceneTypeOK, Project, NotActivated
<1>2. /\ UNCHANGED <<scene, index, view, publishes, opening, newest, page, check, todo, at, snap>>
  BY DEF Project, NotActivated, kernelVars, workerVars, pageVars, threadVars
<1>3. /\ Bound(snap.view) /\ snap.scene = snap.view.scene /\ snap.index = snap.view.index
      /\ WindowReads
  BY <1>1 DEF SnapIsBound
<1>4. PagesTell' /\ ReadersTell' /\ KernelIsBound' /\ OpeningVerifies'
  BY <1>1, <1>2 DEF PagesTell, ReadersTell, KernelIsBound, OpeningVerifies, Bound, IndexOf
<1>5. CASE NotActivated
  <2>1. window' = "ended" /\ at["window"] = "failed" /\ UNCHANGED <<loaded, drawn>>
    BY <1>5 DEF NotActivated
  <2>2. page[SnapGuides] \in {"bad", "unusable"}
    <3>1. page[Head(todo["window"])] \in {"bad", "unusable"}
      BY <1>1, <2>1 DEF ReadersTell, Threads
    <3>2. page[SnapCore] = "good"
      BY <1>1, <1>3 DEF Bound, SnapCore, SceneTypeOK, Snapshot, GraphView
    <3>3. Head(todo["window"]) \in {SnapCore, SnapGuides}
      BY <1>3, <2>1 DEF WindowReads
    <3> QED BY <3>1, <3>2, <3>3
  <2> QED BY <1>1, <1>2, <1>3, <1>4, <2>1, <2>2
          DEF ViewInv, SnapIsBound, LoadedIsBound, SyncNeverRejected, DrawnIsOneView, Bound,
              IndexOf, SnapGuides
<1>6. CASE Project
  <2>1. at["window"] = "idle" /\ page[SnapGuides] \in {"good", "absent"}
    BY <1>3, <1>6 DEF Project, WindowReads
  <2>2. /\ snap.view.scene \in 1..scene /\ snap.view.manifold \in Manifolds
        /\ snap.view.index \in {None, snap.view.scene}
        /\ snap.view.index = None => ~snap.view.filtered
        /\ page[SnapCore] = "good"
    <3>1. snap.view \in GraphView /\ snap.view.manifold \in Manifolds
      BY <1>1 DEF SceneTypeOK, Snapshot, GraphView
    <3>2. snap.view.index \in {None, snap.view.scene}
      BY <1>1, <1>3 DEF Bound, IndexOf, KernelIsBound
    <3>3. page[SnapCore] = "good"
      BY <1>3, <3>1 DEF Bound, SnapCore
    <3> QED BY <1>3, <3>1, <3>2, <3>3 DEF Bound
  <2>3. CASE loaded.scene # snap.scene
    <3>1. /\ drawn' = [scene |-> snap.scene, positions |-> snap.view.manifold,
                       index |-> snap.index, view |-> snap.view]
          /\ loaded' = [scene |-> snap.scene, view |-> snap.view]
          /\ window' = "waiting"
      BY <1>3, <1>6, <2>2, <2>3 DEF Project, NewScene, Accepts, None
    <3> QED BY <1>1, <1>2, <1>3, <1>4, <2>1, <2>2, <3>1
            DEF ViewInv, SnapIsBound, LoadedIsBound, SyncNeverRejected, DrawnIsOneView, Bound,
                IndexOf, SnapGuides, SnapCore
  <2>4. CASE loaded.scene = snap.scene
    <3>1. /\ loaded.scene # None /\ loaded.view.scene = loaded.scene
          /\ loaded.view.index = snap.view.index
          /\ drawn = [scene |-> loaded.scene, positions |-> loaded.view.manifold,
                      index |-> loaded.view.index, view |-> loaded.view]
      BY <1>1, <1>3, <2>2, <2>4 DEF LoadedIsBound, DrawnIsOneView, Bound, IndexOf, None
    <3>2. /\ drawn' = [scene |-> snap.scene, positions |-> snap.view.manifold,
                       index |-> snap.index, view |-> snap.view]
          /\ loaded' = [scene |-> snap.scene, view |-> snap.view]
          /\ window' = "waiting"
      BY <1>3, <1>6, <2>2, <2>4, <3>1 DEF Project, SameScene, Accepts, None
    <3> QED BY <1>1, <1>2, <1>3, <1>4, <2>1, <2>2, <3>2
            DEF ViewInv, SnapIsBound, LoadedIsBound, SyncNeverRejected, DrawnIsOneView, Bound,
                IndexOf, SnapGuides, SnapCore
  <2> QED BY <2>3, <2>4
<1> QED BY <1>5, <1>6

LEMMA ViewInvStep == ReadInv /\ ViewInv /\ [SceneNext]_sceneVars => ViewInv'
<1>1. ASSUME ReadInv, ViewInv, SceneNext PROVE ViewInv'
  BY <1>1, ReadKeepsView, OpenKeepsView, KernelKeepsView, ProofKeepsView,
     SynchronizeKeepsView, ProjectKeepsView DEF SceneNext
<1>2. ASSUME ReadInv, ViewInv, UNCHANGED sceneVars PROVE ViewInv'
  <2>1. UNCHANGED <<scene, index, view, publishes, opening, newest, page, check, hashed,
                    todo, at, window, snap, loaded, drawn>>
    BY <1>2 DEF sceneVars, kernelVars, workerVars, pageVars, threadVars, windowVars
  <2>2. /\ PagesTell' = PagesTell /\ ReadersTell' = ReadersTell /\ KernelIsBound' = KernelIsBound
        /\ OpeningVerifies' = OpeningVerifies
    BY <2>1 DEF PagesTell, ReadersTell, KernelIsBound, OpeningVerifies, Bound, IndexOf
  <2>3. SnapIsBound' /\ LoadedIsBound' /\ SyncNeverRejected' /\ DrawnIsOneView'
    BY <1>2, <2>1 DEF ViewInv, SnapIsBound, LoadedIsBound, SyncNeverRejected, DrawnIsOneView,
       WindowReads, SnapCore, SnapGuides, Bound, IndexOf
  <2> QED BY <1>2, <2>2, <2>3 DEF ViewInv
<1> QED BY <1>1, <1>2

LEMMA ViewInvAlways == SceneSpec => []ViewInv
<1>1. SceneInit => ViewInv
  BY ViewInit
<1>2. ReadInv /\ ViewInv /\ [SceneNext]_sceneVars => ViewInv'
  BY ViewInvStep
<1> QED BY <1>1, <1>2, ReadInvAlways, PTL DEF SceneSpec

-----------------------------------------------------------------------------
(***************************************************************************)
(* OneThreadHashes                                                         *)
(***************************************************************************)

\* The worker reads the scene it opens, and the proof reads only where there is
\* no publisher, and so nothing to open.
WorkerReads ==
  at["worker"] # "idle" => \A i \in DOMAIN todo["worker"] : todo["worker"][i].scene = opening
ProofReadsFixture == at["proof"] # "idle" => ~publishes
Apart == WorkerReads /\ ProofReadsFixture

LEMMA ApartInit == SceneInit => Apart
BY DEF SceneInit, Apart, WorkerReads, ProofReadsFixture, Threads

LEMMA ApartStep ==
  ASSUME ReadInv, ViewInv, Apart, [SceneNext]_sceneVars
  PROVE  Apart'
<1> USE DEF Apart, WorkerReads, ProofReadsFixture
<1>1. SceneTypeOK /\ \A g \in Scenes : g # None
  BY PageTypes DEF ReadInv
<1>2. CASE UNCHANGED sceneVars
  BY <1>2 DEF sceneVars, kernelVars, workerVars, threadVars
<1>3. ASSUME NEW t \in Threads, ReadStep(t) PROVE Apart'
  <2>1. /\ UNCHANGED <<publishes, opening>> /\ at[t] # "idle" /\ todo[t] # <<>>
        /\ \A u \in Threads \ {t} : at'[u] = at[u] /\ todo'[u] = todo[u]
    BY <1>3, ReadTypes DEF kernelVars, workerVars
  <2>2. todo[t] \in Seq(Page)
    BY <1>1 DEF SceneTypeOK
  <2>3. todo'[t] = todo[t] \/ todo'[t] = Tail(todo[t])
    <3>1. CASE Proceed(t)
      BY <1>1, <2>1, <3>1, ProceedEffect
    <3>2. CASE todo' = todo
      BY <3>2
    <3> QED BY <1>3, <3>1, <3>2 DEF ReadStep, Look, Claim, Hash
  <2>4. \A i \in DOMAIN todo'[t] : \E j \in DOMAIN todo[t] : todo'[t][i] = todo[t][j]
    <3>1. CASE todo'[t] = todo[t]
      BY <3>1
    <3>2. CASE todo'[t] = Tail(todo[t])
      <4>1. \A i \in DOMAIN Tail(todo[t]) :
              i + 1 \in DOMAIN todo[t] /\ Tail(todo[t])[i] = todo[t][i + 1]
        BY <2>1, <2>2, RestOfPages
      <4> QED BY <3>2, <4>1
    <3> QED BY <2>3, <3>1, <3>2
  <2> QED BY <2>1, <2>4 DEF Threads
<1>4. ASSUME NEW g \in Scenes, OpenScene(g) PROVE Apart'
  <2> DEFINE pages == [i \in DOMAIN ManifoldList |-> Core(g, ManifoldList[i])]
  <2>1. pages \in Seq(Page) /\ DOMAIN pages = DOMAIN ManifoldList
    BY CoreList
  <2>2. \A i \in DOMAIN pages : pages[i].scene = g
    BY <2>1 DEF Core
  <2>3. Ask("worker", pages) /\ opening' = g /\ UNCHANGED publishes
    BY <1>4 DEF OpenScene, kernelVars
  <2> HIDE DEF pages
  <2> QED BY <1>1, <2>1, <2>2, <2>3, AskEffect DEF Threads
<1>5. CASE SceneNotOpened \/ ProofFailed
  <2>1. PICK t \in {"worker", "proof"} :
          /\ Move(t, "idle") /\ todo' = todo /\ publishes' = publishes
          /\ t = "worker" \/ opening' = opening
    BY <1>5 DEF SceneNotOpened, ProofFailed, kernelVars, workerVars
  <2> QED BY <1>1, <2>1, MoveEffect DEF Threads
<1>6. CASE InstallScene
  BY <1>6 DEF InstallScene, threadVars
<1>7. CASE \/ CloseWindow \/ Project \/ NotActivated
           \/ \E m \in Manifolds : SetManifold(m)
           \/ \E authority \in Authorities, m \in Manifolds, filtered \in BOOLEAN :
                SetGraphView(authority, m, filtered)
  BY <1>7 DEF CloseWindow, Project, NotActivated, SetManifold, SetGraphView, kernelVars,
              workerVars, threadVars
<1>8. CASE ReadGuides
  <2> DEFINE pages == <<Guides(scene, Hybrid)>>
  <2>1. pages \in Seq(Page)
    BY <1>1, PageTypes DEF SceneTypeOK
  <2>2. Ask("proof", pages) /\ ~publishes /\ UNCHANGED <<publishes, opening>>
    BY <1>8 DEF ReadGuides, AskForGuides, kernelVars, workerVars
  <2> HIDE DEF pages
  <2> QED BY <1>1, <2>1, <2>2, AskEffect DEF Threads
<1>9. CASE Synchronize
  <2>1. scene \in Scenes /\ view.manifold \in Manifolds
    BY <1>1 DEF SceneTypeOK, GraphView
  <2>2. \A u \in Threads \ {"window"} : at'[u] = at[u] /\ todo'[u] = todo[u]
    BY <1>9, <2>1, ActivateEffect DEF Synchronize, threadVars
  <2> QED BY <1>9, <2>2 DEF Synchronize, kernelVars, workerVars, Threads
<1> QED BY <1>2, <1>3, <1>4, <1>5, <1>6, <1>7, <1>8, <1>9 DEF SceneNext

\* The window and the worker read different scenes, and the proof reads alone.
LEMMA ReadersAreApart ==
  ASSUME ReadInv, ViewInv, Apart
  PROVE  ReadersStayApart
<1>1. /\ SceneTypeOK /\ ThreadsHaveWork /\ ReadersRest /\ KernelIsBound /\ OpeningVerifies
      /\ SnapIsBound /\ scene \in Nat
  BY PageTypes DEF ReadInv, ViewInv, SceneTypeOK
<1>2. SUFFICES ASSUME NEW p \in Page, NEW t \in Threads, NEW other \in Threads,
                      Reads(t, p), Reads(other, p), t # other
               PROVE  FALSE
  BY DEF ReadersStayApart
<1>3. ASSUME Reads("worker", p) PROVE p.scene = opening /\ opening # None /\ scene < opening
  <2>1. at["worker"] # "idle" /\ Head(todo["worker"]) = p /\ opening # None
    BY <1>1, <1>3 DEF Reads, ReadersRest
  <2>2. todo["worker"] \in Seq(Page) /\ todo["worker"] # <<>>
    BY <1>1, <2>1 DEF SceneTypeOK, ThreadsHaveWork, Threads
  <2>3. 1 \in DOMAIN todo["worker"] /\ todo["worker"][1] = p
    BY <2>1, <2>2, RestOfPages
  <2>4. p.scene = opening
    BY <2>1, <2>3 DEF Apart, WorkerReads
  <2> QED BY <1>1, <2>1, <2>4 DEF OpeningVerifies
<1>4. ASSUME Reads("window", p) PROVE window = "opening" /\ p.scene <= scene /\ p.scene \in Nat
  <2>1. window = "opening" /\ at["window"] # "idle"
    BY <1>1, <1>4 DEF Reads, ReadersRest, SceneTypeOK
  <2>2. Head(todo["window"]) \in {SnapCore, SnapGuides}
    BY <1>1, <2>1 DEF SnapIsBound, WindowReads
  <2>3. p.scene = snap.scene /\ snap.scene \in 1..scene
    BY <1>1, <1>4, <2>1, <2>2 DEF Reads, SnapIsBound, Bound, SnapCore, SnapGuides, Core, Guides
  <2> QED BY <1>1, <2>1, <2>3
<1>5. ASSUME Reads("proof", p) PROVE window = "joined" /\ opening = None
  BY <1>1, <1>5 DEF Reads, ReadersRest, KernelIsBound, Apart, ProofReadsFixture
<1>6. opening = None \/ opening \in Nat
  BY <1>1, PageTypes DEF SceneTypeOK, None
<1> QED BY <1>1, <1>2, <1>3, <1>4, <1>5, <1>6 DEF Threads

\* OneThreadHashes holds in every state: verify_page hashes a page once for worker,
\* window and proof, and none of them waits there for another.
THEOREM OneThreadHashesAlways == SceneSpec => []OneThreadHashes
<1>1. SceneInit => Apart
  BY ApartInit
<1>2. ReadInv /\ ViewInv /\ Apart /\ [SceneNext]_sceneVars => Apart'
  BY ApartStep
<1>3. ReadInv /\ ViewInv /\ Apart => OneThreadHashes
  BY ReadersAreApart DEF OneThreadHashes, ReadInv
<1> QED BY <1>1, <1>2, <1>3, ReadInvAlways, ViewInvAlways, PTL DEF SceneSpec

-----------------------------------------------------------------------------
\* SyncNeverRejected holds in every state: an old snapshot is still one the renderer
\* takes, so only a page the window cannot read ends sync_resident_scene.
THEOREM SnapshotsAreTaken == SceneSpec => []SyncNeverRejected
<1>1. ViewInv => SyncNeverRejected
  BY DEF ViewInv
<1> QED BY <1>1, ViewInvAlways, PTL

\* DrawnIsOneView holds in every state: scene, positions, product index and view in
\* the renderer are of one snapshot, and of pages that are what their hashes say.
THEOREM OneViewIsDrawn == SceneSpec => []DrawnIsOneView
<1>1. ViewInv => DrawnIsOneView
  BY DEF ViewInv
<1> QED BY <1>1, ViewInvAlways, PTL
=============================================================================
