----------------------- MODULE ScenePublicationProofs -----------------------
(***************************************************************************)
(* Proofs about ScenePublication for any contents and any bounds: the      *)
(* crash-safety of the manifest, the agreement of the kernel's memory with *)
(* it, and that the store implements CoherentGeneration.                   *)
(***************************************************************************)
EXTENDS ScenePublication, TLAPS

\* What an operation knows of the disk at each of its steps.
Progress ==
  /\ pc \in {"building", "built", "archived", "indexed"} => Admissible(draft)
  /\ pc \in {"archived", "indexed"} => archives[draft.generation] = draft.content
  /\ pc = "indexed" => indexes[draft.generation] = draft.content
  /\ pc \in {"committed", "opened"} => manifest = draft
  /\ pc \in {"committed", "opened"} /\ resident # NoScene
       => draft.generation > resident.generation

\* What an operation is for.
Purpose ==
  /\ pc = "down" \/ (caller = "start" /\ pc # "idle") => resident = NoScene
  /\ caller = "full" /\ pc \notin {"down", "idle"} => draft.kind = "full"
  /\ pc = "saved" => caller = "registry"

IInv ==
  /\ TypeOK
  /\ ManifestNamesPair
  /\ ResidentIsCommitted
  /\ ResidentMatchesAtlas
  /\ Progress
  /\ Purpose

-----------------------------------------------------------------------------
\* A publication has a generation, a kind, a registry revision and a content.
LEMMA PublicationFields ==
  ASSUME NEW p \in Publication
  PROVE  /\ p.generation \in Generations /\ p.generation \in Nat
         /\ p.kind \in {"registry_only", "full"}
         /\ p.registry \in Registries
         /\ p.content \in Contents
         /\ p # NoScene
BY PublicationAssumption, NoSceneAssumption DEF Publication, Generations, Registries

LEMMA InitInv == Init => IInv
<1> SUFFICES ASSUME Init PROVE IInv
  OBVIOUS
<1> USE PublicationAssumption DEF Init
<1>1. TypeOK
  BY DEF TypeOK, Registries, Steps, Generations, PublicationAssumption
<1>2. ManifestNamesPair /\ ResidentIsCommitted /\ ResidentMatchesAtlas
  BY DEF ManifestNamesPair, ResidentIsCommitted, ResidentMatchesAtlas
<1>3. Progress /\ Purpose
  BY DEF Progress, Purpose
<1> QED BY <1>1, <1>2, <1>3 DEF IInv

\* Steps of the callers: the disk keeps its publications.
LEMMA CallerSteps ==
  ASSUME IInv,
         \/ StartCurrent \/ StartPublish \/ SaveRegistry \/ KeepFullScene \/ RefreshScene
         \/ PublishFull
  PROVE  IInv'
<1> USE PublicationFields, PublicationAssumption
    DEF IInv, TypeOK, ManifestNamesPair, ResidentIsCommitted, ResidentMatchesAtlas, Progress,
        Purpose, PairInPlace, IsFull, disk, memory
<1>1. CASE StartCurrent
  BY <1>1 DEF StartCurrent, Steps
<1>2. CASE StartPublish
  BY <1>2 DEF StartPublish, RegistryDraft, Publication, Steps
<1>3. CASE SaveRegistry
  <2>1. PICK r \in Registries : registry' = r /\ draft' = [draft EXCEPT !.registry = r]
    BY <1>3 DEF SaveRegistry
  <2>2. draft' \in Publication
    BY <2>1 DEF Publication
  <2>3. /\ pc' = "saved" /\ caller' = "registry" /\ registry' \in Registries
        /\ UNCHANGED <<manifest, archives, indexes, atlas, resident>>
        /\ pc = "idle"
    BY <1>3, <2>1 DEF SaveRegistry
  <2>4. TypeOK' /\ Progress' /\ Purpose'
    BY <2>2, <2>3 DEF Steps
  <2>5. ManifestNamesPair' /\ ResidentIsCommitted' /\ ResidentMatchesAtlas'
    BY <2>3
  <2> QED BY ONLY <2>4, <2>5 DEF IInv
<1>4. CASE KeepFullScene
  BY <1>4 DEF KeepFullScene, Steps
<1>5. CASE RefreshScene
  <2>1. draft' \in Publication
    BY <1>5 DEF RefreshScene, RegistryDraft, Publication
  <2>2. pc' = "draft" /\ UNCHANGED <<disk, memory, caller>> /\ caller = "registry"
    BY <1>5 DEF RefreshScene
  <2> QED BY <2>1, <2>2 DEF Steps
<1>6. CASE PublishFull
  BY <1>6 DEF PublishFull, Publication, Steps
<1> QED BY <1>1, <1>2, <1>3, <1>4, <1>5, <1>6

\* Steps of publish and install.
LEMMA PublishSteps ==
  ASSUME IInv,
         \/ Check \/ BuildPair \/ MoveArchive \/ MoveIndex \/ CommitManifest \/ OpenReceipt
         \/ Install
  PROVE  IInv'
<1> USE PublicationFields, PublicationAssumption
    DEF IInv, TypeOK, ManifestNamesPair, ResidentIsCommitted, ResidentMatchesAtlas, Progress,
        Purpose, PairInPlace, Admissible, disk, memory
<1>1. CASE Check
  BY <1>1 DEF Check, Steps
<1>2. CASE BuildPair
  BY <1>2 DEF BuildPair, Steps
<1>3. CASE MoveArchive
  BY <1>3 DEF MoveArchive, Steps
<1>4. CASE MoveIndex
  BY <1>4 DEF MoveIndex, Steps
<1>5. CASE CommitManifest
  BY <1>5 DEF CommitManifest, Steps
<1>6. CASE OpenReceipt
  BY <1>6 DEF OpenReceipt, Steps
<1>7. CASE Install
  BY <1>7 DEF Install, Steps
<1> QED BY <1>1, <1>2, <1>3, <1>4, <1>5, <1>6, <1>7

\* Failures leave the disk as it is; a crash also empties the memory.
LEMMA FailureSteps ==
  ASSUME IInv, Fail \/ Crash
  PROVE  IInv'
<1> USE PublicationFields, PublicationAssumption
    DEF IInv, TypeOK, ManifestNamesPair, ResidentIsCommitted, ResidentMatchesAtlas, Progress,
        Purpose, PairInPlace, disk, memory
<1>1. CASE Fail
  BY <1>1 DEF Fail, Steps
<1>2. CASE Crash
  BY <1>2 DEF Crash, Steps
<1> QED BY <1>1, <1>2

LEMMA NextInv == IInv /\ [Next]_vars => IInv'
<1> SUFFICES ASSUME IInv, [Next]_vars PROVE IInv'
  OBVIOUS
<1>1. CASE UNCHANGED vars
  BY <1>1 DEF vars, disk, memory, IInv, TypeOK, ManifestNamesPair, ResidentIsCommitted,
     ResidentMatchesAtlas, Progress, Purpose, PairInPlace, Admissible
<1>2. CASE Next
  BY <1>2, CallerSteps, PublishSteps, FailureSteps DEF Next
<1> QED BY <1>1, <1>2

-----------------------------------------------------------------------------
LEMMA Invariant == Spec => []IInv
BY InitInv, NextInv, PTL DEF Spec

\* Disk, memory and the operation under way keep their types.
THEOREM TypeCorrect == Spec => []TypeOK
<1>1. IInv => TypeOK
  BY DEF IInv
<1> QED BY <1>1, Invariant, PTL

\* The manifest names a complete, matching pair after any failure or kill.
THEOREM ManifestSafe == Spec => []ManifestNamesPair
<1>1. IInv => ManifestNamesPair
  BY DEF IInv
<1> QED BY <1>1, Invariant, PTL

\* The resident scene is one the disk still has and the manifest has reached.
THEOREM ResidentSafe == Spec => []ResidentIsCommitted
<1>1. IInv => ResidentIsCommitted
  BY DEF IInv
<1> QED BY <1>1, Invariant, PTL

\* A registry scene in memory shows the registry in memory.
THEOREM ResidentCurrent == Spec => []ResidentMatchesAtlas
<1>1. IInv => ResidentMatchesAtlas
  BY DEF IInv
<1> QED BY <1>1, Invariant, PTL

\* The stale-generation error of install_published_scene is never returned.
THEOREM InstallFresh == Spec => []InstallNeverStale
<1>1. IInv => InstallNeverStale
  BY DEF IInv, Progress, InstallNeverStale
<1> QED BY <1>1, Invariant, PTL

-----------------------------------------------------------------------------
(***************************************************************************)
(* The refinement: only the manifest's replacement changes what readers    *)
(* see, and then the pair is already in place.                             *)
(***************************************************************************)
LEMMA CurrentIsManifest ==
  ASSUME IInv
  PROVE  Current = manifest
BY DEF IInv, ManifestNamesPair, Current

LEMMA PublicationIsAbstract ==
  ASSUME NEW p \in Publication
  PROVE  p \in Coherent!Publications
BY PublicationAssumption DEF Publication, Coherent!Publications, Generations, Registries

LEMMA StepRefines ==
  ASSUME IInv, IInv', [Next]_vars
  PROVE  [Coherent!Publish]_Current
<1>1. Current = manifest /\ Current' = manifest'
  BY CurrentIsManifest DEF IInv, ManifestNamesPair, Current
<1>2. CASE CommitManifest
  <2>1. manifest' = draft /\ draft \in Publication /\ Admissible(draft)
    BY <1>2 DEF CommitManifest, IInv, TypeOK, Progress
  <2>2. manifest' \in Coherent!Publications
    BY <2>1, PublicationIsAbstract
  <2>3. Coherent!Replaces(manifest', manifest)
    BY <2>1 DEF Admissible, Coherent!Replaces
  <2> QED BY <1>1, <2>2, <2>3 DEF Coherent!Publish
<1>3. CASE Next /\ ~CommitManifest
  <2>1. manifest' = manifest
    BY <1>3 DEF Next, StartCurrent, StartPublish, SaveRegistry, KeepFullScene, RefreshScene,
       PublishFull, Check, BuildPair, MoveArchive, MoveIndex, OpenReceipt, Install, Fail,
       Crash, disk
  <2> QED BY <1>1, <2>1
<1>4. CASE UNCHANGED vars
  BY <1>1, <1>4 DEF vars, disk
<1> QED BY <1>2, <1>3, <1>4

\* The publisher's promise to its readers: the store, with every failure and
\* kill it can meet, implements the register of coherent generations.
THEOREM Refinement == Spec => CoherentSpec
<1>1. Init => Coherent!Init
  BY DEF Init, Coherent!Init, Current
<1> QED BY <1>1, Invariant, StepRefines, PTL DEF Spec, Coherent!Spec, CoherentSpec
=============================================================================
