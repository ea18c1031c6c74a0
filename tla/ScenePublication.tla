-------------------------- MODULE ScenePublication --------------------------
(***************************************************************************)
(* How a scene generation reaches the disk and the resident kernel: the    *)
(* publication store (two immutable artifacts, then the manifest), and the *)
(* kernel's use of it when it starts, when the entity registry changes and *)
(* when the backend publishes a full scene.                                *)
(*                                                                         *)
(* One process works on a workspace, and inside it one thread at a time    *)
(* (the starting thread, then the coordinator's worker).  Every step that  *)
(* touches the disk can fail, and the process can be killed between any    *)
(* two of them; the disk then keeps what it has and the memory is lost.    *)
(*                                                                         *)
(* A publication's pages and products are one content value.  Pending      *)
(* files have names of their own (process id and nonce) and are not        *)
(* modelled; moving one into place is atomic and refuses an existing name. *)
(***************************************************************************)
EXTENDS Integers

CONSTANTS
  Contents,       \* what a publication can contain
  NoScene,        \* no manifest, no resident scene, no artifact
  MaxGeneration,  \* bound: the backend's generation numbers
  MaxRegistry     \* bound: registry revisions

ASSUME PublicationAssumption ==
  /\ NoScene \notin Contents
  /\ Contents # {}
  /\ MaxGeneration \in Nat \ {0}
  /\ MaxRegistry \in Nat \ {0}

Generations == 1..MaxGeneration
Registries == 1..MaxRegistry
Publication ==
  [generation: Generations, kind: {"registry_only", "full"}, registry: Registries,
   content: Contents]

\* NoScene is not a record with the fields of a publication.
ASSUME NoSceneAssumption == NoScene \notin Publication

VARIABLES
  \* on disk
  manifest,   \* current.pspm: the receipt of the committed generation
  archives,   \* generation-N.psa
  indexes,    \* generation-N.pspi
  registry,   \* the revision of the saved entity registry
  \* in memory
  atlas,      \* KernelState.atlas_registry.registry_revision
  resident,   \* KernelState.resident_scene and its scene_publication receipt
  \* the operation under way
  pc,         \* where it is
  caller,     \* what it is: "start", "registry" or "full"
  draft       \* the publication it makes; its registry is the one it installs

disk == <<manifest, archives, indexes, registry>>
memory == <<atlas, resident>>
vars == <<disk, memory, pc, caller, draft>>

Steps == {"down", "idle", "saved", "draft", "building", "built", "archived", "indexed",
          "committed", "opened"}

TypeOK ==
  /\ manifest \in Publication \cup {NoScene}
  /\ archives \in [Generations -> Contents \cup {NoScene}]
  /\ indexes \in [Generations -> Contents \cup {NoScene}]
  /\ registry \in Registries
  /\ atlas \in Registries
  /\ resident \in Publication \cup {NoScene}
  /\ pc \in Steps
  /\ caller \in {"start", "registry", "full"}
  /\ draft \in Publication

\* A new workspace: an empty registry counts as revision 1, nothing published.
Init ==
  /\ manifest = NoScene
  /\ archives = [g \in Generations |-> NoScene]
  /\ indexes = [g \in Generations |-> NoScene]
  /\ registry = 1
  /\ atlas = 1
  /\ resident = NoScene
  /\ pc = "down"
  /\ caller = "start"
  /\ draft \in {p \in Publication : p.generation = 1 /\ p.registry = 1
                                     /\ p.kind = "registry_only"}

-----------------------------------------------------------------------------
(***************************************************************************)
(* Where publications come from                                            *)
(***************************************************************************)

IsFull(s) == s # NoScene /\ s.kind = "full"

\* next_generation: one more than the manifest's.
NextGeneration == IF manifest = NoScene THEN 1 ELSE manifest.generation + 1

\* registry_publication for registry revision r.
RegistryDraft(r) ==
  /\ NextGeneration \in Generations
  /\ \E c \in Contents :
       draft' = [generation |-> NextGeneration, kind |-> "registry_only", registry |-> r,
                 content |-> c]

\* Startup loads the registry and the manifest.  A full scene, or one made from
\* this very registry, becomes resident.
StartCurrent ==
  /\ pc = "down"
  /\ manifest # NoScene
  /\ ~IsFull(manifest) => manifest.registry = registry
  /\ atlas' = registry
  /\ resident' = manifest
  /\ pc' = "idle"
  /\ UNCHANGED <<disk, caller, draft>>

\* With no scene, or one made from an older registry, startup publishes.  With
\* one made from a newer registry startup fails (PublishedRegistryAhead).
StartPublish ==
  /\ pc = "down"
  /\ manifest # NoScene => ~IsFull(manifest) /\ manifest.registry < registry
  /\ RegistryDraft(registry)
  /\ atlas' = registry
  /\ caller' = "start"
  /\ pc' = "draft"
  /\ UNCHANGED <<disk, resident>>

\* Changed for the check of TypeOK: the revision is moved without checked_add.
SaveRegistryUnchecked ==
  /\ pc = "idle"
  /\ \E r \in {atlas + 1, atlas + 2} :
       /\ registry' = r
       /\ draft' = [draft EXCEPT !.registry = r]
  /\ caller' = "registry"
  /\ pc' = "saved"
  /\ UNCHANGED <<manifest, archives, indexes, memory>>

\* publish_ner, save_document and tag_selection change a clone of the registry
\* in memory and save it.  A tag on changed content moves the revision twice,
\* once to re-anchor the mentions and once for the tag.
SaveRegistry ==
  /\ pc = "idle"
  /\ \E r \in {atlas + 1, atlas + 2} \cap Registries :
       /\ registry' = r
       /\ draft' = [draft EXCEPT !.registry = r]
  /\ caller' = "registry"
  /\ pc' = "saved"
  /\ UNCHANGED <<manifest, archives, indexes, memory>>

\* Changed for the check of ResidentMatchesAtlas: the registry is installed
\* before the scene made from it.
RefreshSceneEarly ==
  /\ pc = "saved"
  /\ ~IsFull(resident)
  /\ RegistryDraft(draft.registry)
  /\ atlas' = draft.registry
  /\ pc' = "draft"
  /\ UNCHANGED <<disk, resident, caller>>

\* refresh_registry_scene: a full scene stays, the registry is installed alone.
KeepFullScene ==
  /\ pc = "saved"
  /\ IsFull(resident)
  /\ atlas' = draft.registry
  /\ pc' = "idle"
  /\ UNCHANGED <<disk, resident, caller, draft>>

RefreshScene ==
  /\ pc = "saved"
  /\ ~IsFull(resident)
  /\ RegistryDraft(draft.registry)
  /\ pc' = "draft"
  /\ UNCHANGED <<disk, memory, caller>>

\* publish_full_scene: any generation, but the registry must be the current one.
PublishFull ==
  /\ pc = "idle"
  /\ \E g \in Generations, c \in Contents :
       draft' = [generation |-> g, kind |-> "full", registry |-> atlas, content |-> c]
  /\ caller' = "full"
  /\ pc' = "draft"
  /\ UNCHANGED <<disk, memory>>

-----------------------------------------------------------------------------
(***************************************************************************)
(* publish                                                                 *)
(***************************************************************************)

\* Changed for the checks of CoherentSpec and InstallNeverStale: the manifest's
\* generation is not looked at, only its kind and the names on disk.
AdmissibleAnyGeneration(p) ==
  manifest # NoScene => ~(manifest.kind = "full" /\ p.kind = "registry_only")

\* A publication the manifest admits.
Admissible(p) ==
  manifest # NoScene =>
    /\ ~(manifest.kind = "full" /\ p.kind = "registry_only")
    /\ p.generation > manifest.generation

Check ==
  /\ pc = "draft"
  /\ Admissible(draft)
  /\ archives[draft.generation] = NoScene
  /\ indexes[draft.generation] = NoScene
  /\ pc' = "building"
  /\ UNCHANGED <<disk, memory, caller, draft>>

\* build_pair writes and re-opens both pending files.
BuildPair ==
  /\ pc = "building"
  /\ pc' = "built"
  /\ UNCHANGED <<disk, memory, caller, draft>>

MoveArchive ==
  /\ pc = "built"
  /\ archives[draft.generation] = NoScene
  /\ archives' = [archives EXCEPT ![draft.generation] = draft.content]
  /\ pc' = "archived"
  /\ UNCHANGED <<manifest, indexes, registry, memory, caller, draft>>

\* Changed for the check of ManifestNamesPair: the manifest is committed before
\* the index is in place.
MoveIndexLater ==
  /\ pc = "archived"
  /\ manifest' = draft
  /\ pc' = "committed"
  /\ UNCHANGED <<archives, indexes, registry, memory, caller, draft>>

MoveIndex ==
  /\ pc = "archived"
  /\ indexes[draft.generation] = NoScene
  /\ indexes' = [indexes EXCEPT ![draft.generation] = draft.content]
  /\ pc' = "indexed"
  /\ UNCHANGED <<manifest, archives, registry, memory, caller, draft>>

CommitManifest ==
  /\ pc = "indexed"
  /\ manifest' = draft
  /\ pc' = "committed"
  /\ UNCHANGED <<archives, indexes, registry, memory, caller, draft>>

\* open_receipt: the committed pair is opened and checked against the receipt.
OpenReceipt ==
  /\ pc = "committed"
  /\ archives[draft.generation] = draft.content
  /\ indexes[draft.generation] = draft.content
  /\ pc' = "opened"
  /\ UNCHANGED <<disk, memory, caller, draft>>

\* Changed for the check of ResidentIsCommitted: the scene built is made resident
\* without waiting for the manifest.
InstallUncommitted ==
  /\ pc = "indexed"
  /\ resident' = draft
  /\ atlas' = draft.registry
  /\ pc' = "idle"
  /\ UNCHANGED <<disk, caller, draft>>

\* The scene becomes resident, with the registry when the call changed it.
\* install_published_scene refuses a generation the kernel is already past.
Install ==
  /\ pc = "opened"
  /\ \/ /\ caller \in {"start", "registry"}
        /\ resident' = draft
        /\ atlas' = draft.registry
     \/ /\ caller = "full"
        /\ resident # NoScene => draft.generation > resident.generation
        /\ resident' = draft
        /\ UNCHANGED atlas
  /\ pc' = "idle"
  /\ UNCHANGED <<disk, caller, draft>>

-----------------------------------------------------------------------------
(***************************************************************************)
(* Failures                                                                *)
(***************************************************************************)

\* An error returned at any step: the command fails and the kernel goes on with
\* the memory it had, or the start fails.  What is on disk stays there.
Fail ==
  /\ pc \notin {"down", "idle"}
  /\ pc' = IF caller = "start" THEN "down" ELSE "idle"
  /\ UNCHANGED <<disk, memory, caller, draft>>

\* The process ends, by a shutdown or a kill; memory is lost.
Crash ==
  /\ pc # "down"
  /\ pc' = "down"
  /\ atlas' = registry
  /\ resident' = NoScene
  /\ UNCHANGED <<disk, caller, draft>>

Next ==
  \/ StartCurrent \/ StartPublish \/ SaveRegistry \/ KeepFullScene \/ RefreshScene
  \/ PublishFull \/ Check \/ BuildPair \/ MoveArchive \/ MoveIndex \/ CommitManifest
  \/ OpenReceipt \/ Install \/ Fail \/ Crash

Spec == Init /\ [][Next]_vars

-----------------------------------------------------------------------------
(***************************************************************************)
(* What is guaranteed                                                      *)
(***************************************************************************)

PairInPlace(p) ==
  /\ archives[p.generation] = p.content
  /\ indexes[p.generation] = p.content

\* Whatever failed or was killed on the way, the manifest names two artifacts
\* that are in place and belong together, so open_current can open them.
ManifestNamesPair == manifest # NoScene => PairInPlace(manifest)

\* The resident scene is the committed one, or an older one whose artifacts are
\* still there; it is never a scene that a restart would not know.
ResidentIsCommitted ==
  resident # NoScene =>
    /\ manifest # NoScene
    /\ resident = manifest \/ resident.generation < manifest.generation
    /\ PairInPlace(resident)

\* A scene made from the registry shows the registry in memory, also after
\* commands that failed between the two.
ResidentMatchesAtlas ==
  resident # NoScene /\ resident.kind = "registry_only" => resident.registry = atlas

\* What reached the manifest is never refused by install_published_scene: that
\* error would leave the kernel behind a publication already committed.
InstallNeverStale ==
  pc = "opened" /\ resident # NoScene => draft.generation > resident.generation

\* What open_current returns: the manifest's publication when its pair is in
\* place, otherwise a mixed one.
Current ==
  IF manifest = NoScene \/ PairInPlace(manifest) THEN manifest
  ELSE [manifest EXCEPT !.content = NoScene]

Coherent == INSTANCE CoherentGeneration WITH current <- Current

\* Readers see coherent generations, each newer than the one before.
CoherentSpec == Coherent!Spec

(***************************************************************************)
(* What the documents say and the code does not do                         *)
(***************************************************************************)

\* The publisher's crate comment: the manifest "is the sole commit point".  Read
\* as: a publication that never reached the manifest does not decide whether a
\* later one is accepted.
SoleCommitPoint ==
  pc = "draft" /\ Admissible(draft) =>
    /\ archives[draft.generation] = NoScene
    /\ indexes[draft.generation] = NoScene
=============================================================================
