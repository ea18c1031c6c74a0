-------------------------- MODULE DocumentAuthority --------------------------
(***************************************************************************)
(* The kernel's authority over documents: leases, saves and tags, the      *)
(* entity registry that follows them, and the anchors the editor is shown. *)
(* A command writes the document and the registry to disk one after the    *)
(* other, publishes a scene, and only then changes the kernel's memory;    *)
(* each write can fail, and the process can end between any two.           *)
(*                                                                         *)
(* Commands run one at a time on the coordinator's worker.  A command      *)
(* whose lease token is not the active lease's is refused and changes      *)
(* nothing, so a token is not a variable here: a late or repeated command  *)
(* is one that is refused or finds the same lease again.  The kernel is a  *)
(* production one, which has a publisher; the publication of a scene is    *)
(* one step here, and the one at a start is left out: ScenePublication has *)
(* both step by step.                                                      *)
(***************************************************************************)
EXTENDS EntityRegistry

CONSTANTS
  NoNote,         \* a folder is selected
  NoLease,        \* no document is open
  NoAnchors,      \* nothing is highlighted
  MaxRevision,    \* bound: document revisions, over all documents
  MaxNer,         \* bound: revisions of NER batches
  MaxGeneration   \* bound: scene generations

ASSUME AuthorityAssumption ==
  /\ NoNote \notin Notes
  /\ NoLease \notin Lease
  /\ MaxRevision \in Nat
  /\ MaxNer \in Nat
  /\ MaxGeneration \in Nat \ {0}

VARIABLES
  \* on disk
  notes,     \* the workspace's notes: not created yet, there, or deleted
  docs,      \* the document files; revision 0 is no file
  stored,    \* the entity registry
  \* KernelState
  active,    \* active_entry and active_document
  lease,     \* active_document_lease
  registry,  \* entity_registry and atlas_registry
  anchors,   \* document_anchors
  scene,     \* resident_scene: its generation, and whether it is a full one
  \* the command under way
  pc,        \* where it is
  op         \* what it is going to install

disk == <<notes, docs, stored>>
memory == <<active, lease, registry, anchors, scene>>
vars == <<disk, memory, pc, op>>

Anchors ==
  [note: Notes, revision: Nat, content: Texts, generation: 0..MaxGeneration,
   spans: SUBSET [start: 0..MaxLength, end: 0..MaxLength]]
Kinds == {"none", "save", "tag", "ner"}

TypeOK ==
  /\ notes \in [Notes -> {"unborn", "there", "deleted"}]
  /\ docs \in [Notes -> [revision: Nat, content: Texts]]
  /\ stored \in Registry
  /\ active \in Notes \cup {NoNote}
  /\ lease \in Lease \cup {NoLease}
  /\ registry \in Registry
  /\ anchors \in Anchors \cup {NoAnchors}
  /\ scene \in [generation: 1..MaxGeneration, full: BOOLEAN]
  /\ pc \in {"down", "idle", "committed", "saved"}
  /\ op \in [kind: Kinds, lease: Lease \cup {NoLease}, registry: Registry]

NoOp == [kind |-> "none", lease |-> NoLease, registry |-> EmptyRegistry]

Present == {n \in Notes : notes[n] = "there"}

\* A workspace whose notes have no files yet, as the seeded one, an empty
\* registry, and the first scene.
Init ==
  /\ \E N \in (SUBSET Notes) \ {{}} :
       notes = [n \in Notes |-> IF n \in N THEN "there" ELSE "unborn"]
  /\ docs = [n \in Notes |-> [revision |-> 0, content |-> <<>>]]
  /\ stored = EmptyRegistry
  /\ active = NoNote
  /\ lease = NoLease
  /\ registry = EmptyRegistry
  /\ anchors = NoAnchors
  /\ scene = [generation |-> 1, full |-> FALSE]
  /\ pc = "down"
  /\ op = NoOp

-----------------------------------------------------------------------------
(***************************************************************************)
(* Opening a document                                                      *)
(***************************************************************************)

\* open_document
Opened(n) == [note |-> n, revision |-> docs[n].revision, content |-> docs[n].content]

\* registry_anchors, for candidates that verify.
RegistryAnchors(r, l) ==
  IF ActiveMentions(r, l) = {} THEN NoAnchors
  ELSE [note |-> l.note, revision |-> l.revision, content |-> l.content, generation |-> 0,
        spans |-> {Span(m) : m \in ActiveMentions(r, l)}]

\* start_internal opens the first note, whichever that is, with the registry on
\* disk.  It fails when the note's anchors do not verify.
Start ==
  /\ pc = "down"
  /\ registry' = stored
  /\ \/ /\ Present = {}
        /\ active' = NoNote
        /\ lease' = NoLease
        /\ anchors' = NoAnchors
     \/ \E n \in Present :
          /\ Verifies(Opened(n), ActiveMentions(stored, Opened(n)))
          /\ active' = n
          /\ lease' = Opened(n)
          /\ anchors' = RegistryAnchors(stored, Opened(n))
  /\ pc' = "idle"
  /\ UNCHANGED <<disk, scene, op>>

\* select_entry on a note: a fresh lease and its anchors, or an error.
SelectNote ==
  /\ pc = "idle"
  /\ \E n \in Present :
       /\ Verifies(Opened(n), ActiveMentions(registry, Opened(n)))
       /\ active' = n
       /\ lease' = Opened(n)
       /\ anchors' = RegistryAnchors(registry, Opened(n))
  /\ UNCHANGED <<disk, registry, scene, pc, op>>

\* select_entry on a folder.
SelectFolder ==
  /\ pc = "idle"
  /\ active' = NoNote
  /\ lease' = NoLease
  /\ anchors' = NoAnchors
  /\ UNCHANGED <<disk, registry, scene, pc, op>>

CreateNote ==
  /\ pc = "idle"
  /\ \E n \in Notes :
       /\ notes[n] = "unborn"
       /\ notes' = [notes EXCEPT ![n] = "there"]
  /\ UNCHANGED <<docs, stored, memory, pc, op>>

\* A delete takes every note below the entry.  Document files and mentions stay
\* where they are; ids are not used again.
DeleteNotes ==
  /\ pc = "idle"
  /\ \E D \in (SUBSET Present) \ {{}} :
       /\ notes' = [n \in Notes |-> IF n \in D THEN "deleted" ELSE notes[n]]
       /\ IF active \in D
          THEN active' = NoNote /\ lease' = NoLease /\ anchors' = NoAnchors
          ELSE UNCHANGED <<active, lease, anchors>>
  /\ UNCHANGED <<docs, stored, registry, scene, pc, op>>

-----------------------------------------------------------------------------
(***************************************************************************)
(* Save, tag and NER batch: the disk                                       *)
(***************************************************************************)

\* Changed for the check of StaleSaveReplacesNothing: the file is not read again.
CommittableUnread(l) == lease # NoLease

\* commit_document reads the file again: it must be what the lease says.
Committable(l) == Opened(l.note) = l

\* The lease a commit of c gives: the same text is not written again.
NextLease(l, c) ==
  IF c = l.content THEN l ELSE [l EXCEPT !.revision = docs[l.note].revision + 1, !.content = c]

\* The bound on commits.
RevisionsLeft(next) ==
  next = lease \/ MapThenSumSet(LAMBDA n : docs[n].revision, Notes) < MaxRevision

WriteDocument(l) ==
  docs' = [docs EXCEPT ![l.note] = [revision |-> l.revision, content |-> l.content]]

\* save_document up to the committed document.
CommitSave ==
  /\ pc = "idle"
  /\ lease # NoLease
  /\ Committable(lease)
  /\ \E c \in Texts :
       LET next == NextLease(lease, c) IN
         /\ RevisionsLeft(next)
         /\ WriteDocument(next)
         /\ op' = [kind |-> "save", lease |-> next, registry |-> Reanchor(registry, next)]
  /\ pc' = "committed"
  /\ UNCHANGED <<notes, stored, memory>>

\* Changed for the check of StoredBehindDocuments: the registry is saved before
\* the document is committed.
CommitTagRegistryFirst ==
  /\ pc = "idle"
  /\ lease # NoLease
  /\ \E c \in Texts :
       LET next == NextLease(lease, c) IN
         /\ RevisionsLeft(next)
         /\ \E e \in 1..Len(c) : \E s \in 0..(e - 1), id \in Ids :
              stored' = Tagged(Reanchor(registry, next), next, s, e, id)
         /\ op' = [kind |-> "tag", lease |-> next, registry |-> stored']
  /\ pc' = "committed"
  /\ UNCHANGED <<notes, docs, memory>>

\* tag_selection up to the committed document: the tag is put on the text to be,
\* and only then a changed text is committed.
CommitTag ==
  /\ pc = "idle"
  /\ lease # NoLease
  /\ \E c \in Texts :
       LET next == IF c = lease.content THEN lease
                   ELSE [lease EXCEPT !.revision = @ + 1, !.content = c]
           r == Reanchor(registry, next)
       IN /\ RevisionsLeft(next)
          /\ \E e \in 1..Len(c) : \E s \in 0..(e - 1) : \E id \in TagTargets(r, next, s, e) :
               /\ Cardinality(KeptMentions(r, next, s, e, id)) < MaxMentions
               /\ op' = [kind |-> "tag", lease |-> next,
                         registry |-> Tagged(r, next, s, e, id)]
          /\ \/ c = lease.content /\ UNCHANGED docs
             \/ c # lease.content /\ Committable(lease) /\ WriteDocument(next)
  /\ pc' = "committed"
  /\ UNCHANGED <<notes, stored, memory>>

\* publish_ner_batch: a newer batch within the entity limit.
AcceptBatch ==
  /\ pc = "idle"
  /\ \E batch \in SUBSET Ids, revision \in (registry.nerRevision + 1)..MaxNer :
       /\ Cardinality(registry.users \cup batch) <= MaxEntities
       /\ op' = [kind |-> "ner", lease |-> NoLease,
                 registry |-> WithBatch(registry, revision, batch)]
  /\ pc' = "committed"
  /\ UNCHANGED <<disk, memory>>

\* A save that leaves every mention as it was does not write the registry.
RegistryChanged == op.kind # "save" \/ op.registry # registry

\* save_atomic
SaveRegistry ==
  /\ pc = "committed"
  /\ stored' = IF RegistryChanged THEN op.registry ELSE stored
  /\ pc' = "saved"
  /\ UNCHANGED <<notes, docs, memory, op>>

\* Changed for the check of LeaseIsCommitted: the error is returned as it is,
\* and the kernel goes on with the next revision of the lease it had.
SaveRegistryFailsLate ==
  /\ pc = "committed"
  /\ RegistryChanged
  /\ IF op.kind = "ner" THEN UNCHANGED <<lease, anchors>>
     ELSE lease' = [lease EXCEPT !.revision = op.lease.revision] /\ anchors' = NoAnchors
  /\ pc' = "idle"
  /\ op' = NoOp
  /\ UNCHANGED <<disk, active, registry, scene>>

\* It fails: the committed document is installed without a registry.
SaveRegistryFails ==
  /\ pc = "committed"
  /\ RegistryChanged
  /\ IF op.kind = "ner" THEN UNCHANGED <<lease, anchors>>
     ELSE lease' = op.lease /\ anchors' = NoAnchors
  /\ pc' = "idle"
  /\ op' = NoOp
  /\ UNCHANGED <<disk, active, registry, scene>>

-----------------------------------------------------------------------------
(***************************************************************************)
(* Save, tag and NER batch: the memory                                     *)
(***************************************************************************)

\* The anchors of the text to be installed verify; a NER batch makes none.
AnchorsVerify ==
  op.kind # "ner" => Verifies(op.lease, ActiveMentions(op.registry, op.lease))

\* refresh_registry_scene makes a scene unless a full one is resident.
NeedsScene == RegistryChanged /\ ~scene.full

\* The anchors do not verify or the scene's publication fails: the command ends
\* with an error and memory stays as it was.
FailBeforeInstall ==
  /\ pc = "saved"
  /\ ~AnchorsVerify \/ NeedsScene
  /\ pc' = "idle"
  /\ op' = NoOp
  /\ UNCHANGED <<disk, memory>>

\* install_committed_document, or what publish_ner_batch does at its end: lease,
\* registry and anchors, then the new scene, which takes the anchors away again.
Install ==
  /\ pc = "saved"
  /\ AnchorsVerify
  /\ registry' = op.registry
  /\ lease' = IF op.kind = "ner" THEN lease ELSE op.lease
  /\ IF NeedsScene
     THEN /\ scene.generation < MaxGeneration
          /\ scene' = [scene EXCEPT !.generation = @ + 1]
          /\ anchors' = NoAnchors
     ELSE /\ anchors' = IF op.kind = "ner" THEN anchors ELSE RegistryAnchors(op.registry, op.lease)
          /\ UNCHANGED scene
  /\ pc' = "idle"
  /\ op' = NoOp
  /\ UNCHANGED <<disk, active>>

\* Changed for the check of AnchorsFit: the anchors stay when a scene
\* is published.
PublishFullKeepAnchors ==
  /\ pc = "idle"
  /\ scene.generation < MaxGeneration
  /\ scene' = [generation |-> scene.generation + 1, full |-> TRUE]
  /\ UNCHANGED <<disk, active, lease, registry, anchors, pc, op>>

\* publish_full_scene
PublishFull ==
  /\ pc = "idle"
  /\ scene.generation < MaxGeneration
  /\ scene' = [generation |-> scene.generation + 1, full |-> TRUE]
  /\ anchors' = NoAnchors
  /\ UNCHANGED <<disk, active, lease, registry, pc, op>>

\* publish_document_anchors: verified anchors for the active lease, of no graph
\* generation or of the resident one.
PublishAnchors ==
  /\ pc = "idle"
  /\ lease # NoLease
  /\ \E e \in 1..Len(lease.content) : \E s \in 0..(e - 1), g \in {0, scene.generation} :
       anchors' = [note |-> lease.note, revision |-> lease.revision, content |-> lease.content,
                   generation |-> g, spans |-> {[start |-> s, end |-> e]}]
  /\ UNCHANGED <<disk, active, lease, registry, scene, pc, op>>

-----------------------------------------------------------------------------
\* The process ends.
Crash ==
  /\ pc # "down"
  /\ pc' = "down"
  /\ active' = NoNote
  /\ lease' = NoLease
  /\ registry' = stored
  /\ anchors' = NoAnchors
  /\ op' = NoOp
  /\ UNCHANGED <<disk, scene>>

Next ==
  \/ Start \/ SelectNote \/ SelectFolder \/ CreateNote \/ DeleteNotes
  \/ CommitSave \/ CommitTag \/ AcceptBatch \/ SaveRegistry \/ SaveRegistryFails
  \/ FailBeforeInstall \/ Install \/ PublishFull \/ PublishAnchors \/ Crash

Spec == Init /\ [][Next]_vars

-----------------------------------------------------------------------------
(***************************************************************************)
(* What is guaranteed                                                      *)
(***************************************************************************)

\* What the editor highlights fits what it edits: the anchors are those of the
\* active lease, inside its text and apart from each other, and none speaks of a
\* graph generation that is no longer resident, whatever was saved, selected,
\* deleted or published and whatever failed since they were made.
AnchorsFit ==
  anchors # NoAnchors =>
    /\ lease # NoLease
    /\ anchors.note = active
    /\ [note |-> anchors.note, revision |-> anchors.revision, content |-> anchors.content] = lease
    /\ anchors.generation \in {0, scene.generation}
    /\ \A s \in anchors.spans : s.start < s.end /\ s.end <= Len(lease.content)
    /\ \A s, t \in anchors.spans : s # t => s.end <= t.start \/ t.end <= s.start

\* A lease never runs ahead of its file: what the kernel hands out as revision n
\* is what revision n was on disk, also after a command that failed half-way.
LeaseIsCommitted ==
  lease # NoLease =>
    /\ lease.note = active
    /\ lease.revision <= docs[lease.note].revision
    /\ lease.revision = docs[lease.note].revision => lease.content = docs[lease.note].content

\* A document is only replaced by its next revision, by a command that held the
\* revision and the text it replaces: a stale save cannot replace it.
StaleSaveReplacesNothing ==
  [][\A n \in Notes : docs'[n] # docs[n] =>
       /\ lease # NoLease
       /\ lease = Opened(n)
       /\ docs'[n].revision = docs[n].revision + 1]_docs

\* The registry on disk never describes a text that is not there yet: a process
\* that ends between the two writes leaves mentions of an older revision, which
\* are not shown, and none of one that was never written.
StoredBehindDocuments ==
  \A m \in stored.mentions : m.active =>
    /\ m.revision <= docs[m.note].revision
    /\ m.revision = docs[m.note].revision => m.content = docs[m.note].content

\* Wherever the text has gone through edits, an active mention is at a place
\* where its text has its surface.  Every mention names an entity of its registry,
\* whatever batches came and went (one that does not makes every later save of the
\* registry fail), and no two mentions share an entity.
MentionsCoherent ==
  \A r \in {stored, registry} : \A m, k \in r.mentions :
    /\ m.active => m.end <= Len(m.content) /\ Slice(m.content, m.start, m.end) = m.surface
    /\ m.entity \in Known(r)
    /\ m.entity = k.entity => m = k

(***************************************************************************)
(* What the tests say and the code does not do                             *)
(***************************************************************************)

\* Tests document_save_is_kernel_owned_and_restart_durable and
\* manual_entity_tag_is_verified_reused_and_restart_durable: what was saved and
\* tagged can be opened again.
NotesOpen ==
  pc = "down" => \A n \in Present : Verifies(Opened(n), ActiveMentions(stored, Opened(n)))
=============================================================================
