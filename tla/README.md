# Verification of the phoenix-native kernel, shell, scenes, graph window and renderer

TLA+ modules, TLC runs and TLAPS proofs for the parts of `phoenix-native` in
which several threads, or several files, have to agree.

Check a run with `tlc -workers 2 -config <cfg> <MC module>`, a proof module with
`tlapm <module>.tla`.

## 1. The system

`phoenix-native` is one desktop process over one workspace directory. A shell
(GPUI) edits Markdown documents, a resident kernel owns the workspace, an entity
registry and the current graph scene, and an embedded child window draws the
scene with wgpu. Four kinds of threads matter: the UI thread, the kernel's worker,
the window's event-loop thread, and short-lived background threads (a proof
script, the start and the shutdown of the window).

| component | state it keeps | operations |
|---|---|---|
| kernel coordinator (`phoenix-app-core/src/lib.rs`, `metrics.rs`) | `KernelState` behind an `RwLock`, bounded command channel (64), bounded event queue (256), sequence and metric atomics, the worker's join handle | `execute`, `drain_events`, `events_after`, `snapshot`, `shutdown`, `coordinator_loop` |
| kernel scene and registry installation (`scene_publication.rs`, `atlas.rs`, `entity_tags.rs`) | resident scene and its receipt, atlas registry, document leases, document anchors | startup, save, tag, NER batch, full scene |
| scene publication store (`phoenix-scene-publisher`) | per generation an archive and a product index, one manifest | `publish`, `open_current`, `next_generation` |
| workspace tree (`phoenix-workspace/src/lib.rs`) | entries with parents, next id, revision, one manifest file | `create`, `rename`, `delete`, `validate`, `save_atomic`, `load_or_seed` |
| document store (`documents.rs`) | content-addressed document files and their records | `open`, `commit` |
| entity registry (`entities.rs`) | entities, mentions, revision | `tag`, `publish_ner`, `reanchor_document`, save, open |
| kernel view and style commands (`graph_view.rs`) | the graph view (authority, manifold, filter), the style | `set_manifold`, `set_graph_view`, `set_style` |
| scene contract (`phoenix-scene-contract`) | resident scenes, view authorities, highlight anchors | opening, `activate_manifold`, anchor verification |
| scene archive (`phoenix-scene-archive`) | a mapped file, one verification state per page | `open_manifold`, `guides`, `paths`, `verify_page`; writer |
| scene product index (`phoenix-scene-product-index`) | a file bound to one scene | writer, mapped reader |
| embedded graph window (`phoenix-shell-proof/src/graph_window*`) | viewport mailbox, bounded command channel, event loop, loaded generation and manifold | `start`, `set_viewport`, `hide_viewport`, `sync_kernel_state`, queries, proof lease, `shutdown` |
| renderer scene state, picking (`graph-render-wgpu`) | slots, pending diffs, GPU buffers, asynchronous pick readback, event queue | `set_scene`, `apply_diff`, `request`, `poll`, `drain` |
| shell (`phoenix-shell-proof/src/shell*`) | its copy of the document lease, the editor's text and dirty flag, an armed delete, widgets | select, create, rename, delete, save, tag, highlight modes, manifold buttons |

How they interact:

- Threads call the kernel through one `Arc<PhoenixKernel>`: a command goes into the
  channel, the worker executes it and answers over a per-call reply channel; what
  happened is also queued as an event and drained by the shell.
- The worker calls the workspace, the document store, the registry and the
  publication store; each of them writes files before the kernel's memory changes.
- The window reads the kernel's snapshot (resident generation, selected manifold)
  whenever its event loop runs. The shell and the proof thread talk to it through
  the mailbox (the latest viewport only) and the command channel, and wake it with
  user events.

What is hard about it:

- a command's sequence, its place in the channel, its effect and its event come
  about in separate steps of different threads, and its caller may have left;
- a full event queue, a full channel, a shutdown behind queued commands;
- one command writes a document, a registry, two artifacts and a manifest: every
  write may fail, and the process may end between any two;
- wake-ups are coalesced: one lost wake leaves the window asleep over work;
- two writers of the viewport (layout and proof), one of them with a lease;
- joins of threads that may never end;
- commands whose caller gave up after ten seconds and that are applied later, under a shell
  that has gone on with its own text and its own copy of the lease;
- pages verified on first access by one of three threads, which the program keeps apart by order
  alone: the worker opens a scene before it is resident, and the proof reads guides only after
  the window's thread has been joined (`shell.rs:292-312`);
- scene, product index and view, three fields that the window copies and compares later.

Correctness, per component:

- *coordinator*: whoever calls, an answer is about the call it answers; a commit is
  always published; no call is counted twice or not at all; every call returns;
  shutdown stops the worker and nothing commits after it.
- *publication*: readers see one coherent generation, then a newer one, whatever
  fails; the resident scene is one a restart would find; registry and scene agree.
- *graph window*: no sleep over work; no layout is published between a proof and its lease;
  the calls and the shutdown return.
- *documents, leases, anchors*: an accepted save is on disk and its anchors describe the
  text of its revision; a stale lease is refused and a fresh one can be had.
- *registry*: mentions stand where their text is, each for an entity of its own that exists.
- *workspace tree*: the manifest on disk always loads again; ids are never given twice.
- *shell*: what the user typed is in the editor or in the document of its own note.
- *scene archive, view*: a page is hashed once and no thread waits for another to do it; scene, positions, product index
  and view that are drawn are of one snapshot; no snapshot of the kernel ends the window.
- *scene state, picking*: the GPU's slots agree with the scene; a pick that comes back in the
  revision it was drawn in names the node that was drawn.

`PROJECT.json` lists all components with the reason where one is not modelled, and
under "hazards" each of these points at its source line.

## 2. Plan

Done, in this order: `KernelCoordinator`, `ScenePublication` (with the abstract
`CoherentGeneration`), `GraphWindow`, the proofs of the first two, `DocumentAuthority` over
`EntityRegistry`, `GraphRenderer` over `SceneState`, `ShellEditor` over `WorkspaceTree`,
`SceneView`, and the proofs about `ShellEditor`, `SceneView`, `DocumentAuthority`,
`GraphWindow` and `GraphRenderer`. Every safety property that a passing run checks is a theorem.

Next, most important first:

1. The renderer's event queue (`events.rs`: latest hover, sequenced selections, 32 events,
   `ClearSelection` past the queue) and the product index by slot (`gpu_scene.rs:178`).
2. The places of mentions (`Locate`) against a reference definition, over longer texts of two
   words; labels and the identity conflicts of NER batches.
3. `ShellEditor` over `DocumentAuthority` in place of its own, simpler documents.
4. Proofs about what these add.

All modules are written without RECURSIVE operators, with named assumptions on their
constants and invariants in named parts, so that they can be proved about.

## 3. Modules

### KernelCoordinator

One step is one access to memory that threads share. Callers are `Threads`; `pc[t]`
is the place inside `execute` (`CheckShutdown`, `Reserve`, `TrySend`,
`CountSubmitted`, `CountUnsent`, `TakeReply`, `CommandTimeout`) or `shutdown`
(`BeginShutdown`, `SendShutdown`, `TakeShutdownReply`, `ShutdownTimeout`, `LockHandle`,
`FinishJoin`). The worker goes through `coordinator_loop`: `Receive`,
`CheckEventSpace`, then `Refuse`, `InstallAndFail`, `Commit` or `MarkShuttingDown`,
`PushEvent`, `Answer` or `AnswerShutdown`, and at its end `ReportExit` and
`DropReceiver`, which drops every message still queued.

Abstractions: what a command does is one of three outcomes (refused without effect;
state changed and event published; state changed and then failed, which
`entity_tags.rs` does when the document is committed and the registry is not).
Consecutive updates of the metric atomics by one thread are one step. `effect` and
`verdict` are history variables and no action reads them.

### ScenePublication and CoherentGeneration

The disk is `manifest`, `archives`, `indexes` and `registry`; memory is `atlas` and
`resident`; `pc`, `caller` and `draft` are the operation under way. `publish` is the chain
`Check`, `BuildPair`, `MoveArchive`, `MoveIndex`, `CommitManifest`, `OpenReceipt`,
`Install`; in front of it are the three users: startup, a registry change
(`SaveRegistry`, then `KeepFullScene` or `RefreshScene`), a full scene from the backend.
`Fail` may happen at every step of an operation and `Crash` everywhere. Encodings and
hashes become equality of contents; pending files have unique names and are left out.

`CoherentGeneration` is what the crate promises its readers: a register that moves from
one coherent publication to a newer one in a single step, never from a full scene to a
registry scene. `ScenePublication` implements it with `current` as what `open_current` would
return.

### GraphWindow

Three threads (`ui`, `proof`, `closer`) drive the window thread. The mailbox is `latest`,
`wakePending` and `proofActive` (`viewport.rs`), the commands are `channel` and `pending`,
the loop's user events are the number `wakes`. A call is `publish`, `wake_viewport`, then
`begin`, `sending`, `sent`, `waiting` as far as it needs them; a failed send is cancelled.
The window thread is `Initialize`, then the dispatch of `UserEvent` and `AboutToWait`, each
a pass over mailbox, commands (a user event only) and scene, then the exit and the drop of
the receiver. The start (`TakeReady`, `ReadyTimeout`, `StartFails`) and the shutdown
(`BeginShutdown`, `Join`) are included.

Abstractions: the proof's script is any order of the calls it makes; `CommandsReady` and
`ViewportReady` are handled alike by the loop and are not told apart; rendering, telemetry
values and input are left out, their failures are exits of the loop. The kernel's scene is a
generation and a manifold that change on their own.

### EntityRegistry and DocumentAuthority

`EntityRegistry` has the registry's operations as operators on a record: `Tagged`
(`tag`), `WithBatch` (`publish_ner`), `Reanchor` (`reanchor_document`), `ActiveMentions`,
and the editor's check of anchors, `Verifies`. `Locate` finds a mention's place in a new
text as `locate_mention` does: the old place, else the only match, else the only match in
the old context.

`DocumentAuthority` is the kernel around it. The disk is `notes`, `docs` and `stored`; the
memory is `active`, `lease`, `registry`, `anchors` and `scene`; `pc` and `op` are the command
under way. A save, a tag and a NER batch are each a chain of `CommitSave`, `CommitTag` or
`AcceptBatch`, then `SaveRegistry` or `SaveRegistryFails`, then `Install` or
`FailBeforeInstall`. Opening, selecting, creating and deleting notes, full scenes and
published anchors are one step each. `Crash` may happen everywhere.

Abstractions: a text is a sequence of words, its hash the text itself; offsets count
words. Ids, labels, kinds and the registry's revision: a new id is any id that is not in
use, labels and kinds are left out, the revision is in `ScenePublication`. A command with
a lease token that is not the active lease's is refused without effect, so tokens are not
variables: what remains of a late or repeated save is one against a file that has moved
on (`Committable`). Commands do not interleave, because the coordinator's worker runs them
one at a time; `KernelCoordinator` has that part.

### SceneState and GraphRenderer

`SceneState` has the slot stores of `scene_state.rs` as operators on a record: a store is what
is at each slot, the slot of each id and the stack of vacant slots. `Pack` builds one from a
snapshot or an archive, `Vacate`, `Occupy` and `Revise` are what a diff does to one, `VacateAll`,
`OccupyAll` and `ReviseAll` its three loops and `Changed` all of it; `ValidLanes` and `ValidEnds`
are its validation, `Agree` is what a store must be like.

`GraphRenderer` is the renderer around two stores, of nodes and of edges: `gpuNodes` and
`gpuEdges` are the records that are drawn, written whole by `SetScene` and only at dirty slots
by `ApplyDiff` and `Highlight`; `hover` and `selected` are ids; `pending` and `readback` are the
picking pass. `Render` draws the slot under the pointer, `TakePick` resolves it when the GPU
answers, and everything else may happen in between. `sent` and `picked` are history variables
and no action reads them: the graph the host has described, and the node that was drawn.

Abstractions: a visual is an id and a place, or an id and two ends; values that are not finite
are refused before anything changes, except by a position switch, which then ends its only
host. The packed records on the CPU and the GPU's buffers are one, because every write of the
former is followed by the same write of the latter. The pixel under the pointer is any node
that is drawn, or none. Camera, lens, product index, buffer sizes and the event queue are left
out.

### WorkspaceTree and ShellEditor

`WorkspaceTree` has `WorkspaceDocument` as a function from ids to entries with `next_id` and
`revision`, and `Create`, `Rename` and `Delete` as operators whose value is the set with the
changed copy, or the empty set when the operation is refused. `Valid` is `validate`. Two
definitions say without recursion what the code does with loops: `Rooted` (no set of entries
has all its parents inside itself, for `validate_ancestry`) and `Branch` (the least set with
an entry and all children of its members, for the work list of `delete`). A name is a value
with two foldings, because `create` and `rename` compare by ASCII case and `validate` by
Unicode lower case.

`ShellEditor` is the shell over that tree. The disk is `tree` and `envelopes`; the kernel is
`activeEntry`, `activeLease`, the number of `events` and the command `queue`; the shell is
`editor` (lease, text, dirty flag), `armed`, `parent` and `within`, the handler in which the UI
thread blocks. `Work` is the worker taking one command; `Room` is `ensure_event_space`. A handler
is two or more actions: one up to `Send`, and one for each way its `execute` comes back
(`EntrySelected`, `EntryNotSelected`, and so on). When `GaveUp` ends it the command stays in
`queue` and is applied later. `Restart` may happen everywhere.

Abstractions: a text is the number of the edit that made it and the note it was typed into.
What a save does to registry, anchors and scene is three outcomes: all went well, the registry
could not be saved (the kernel takes the new lease and answers with an error), or something
behind that failed (the kernel keeps the old lease; `behind` counts it). `typed`, `late`,
`behind` and `restarts` count incidents; no action depends on them except through the bound.

### SceneView

How a resident scene gets into the window. Three threads ask for pages (`Ask`): the worker when
it opens a scene, the window when it shows a manifold, and the proof, which is the end of a
fixture run: a window that came up is shut down and joined (`Joined`), and only then does
`prove_kernel` read the guides (`ReadGuides`; a soak or a quit joins without it, `CloseWindow`).
`Look`, `Claim` and `Hash` are the steps of `verify_page`: the load, the compare_exchange, and
the hash with its store. They are modelled for any threads, although no two ever meet there:
that (`ReadersStayApart`, a part of `OneThreadHashes`) is what the order of opening, installing
and joining has to guarantee, and the changed `ReadGuidesFirst` breaks it. The kernel's `scene`,
`index` and `view` change in `InstallScene`, `SetManifold` and `SetGraphView`, under one lock
each. The window takes a snapshot in `Synchronize`, verifies the pages it needs, and gives the
snapshot to the renderer in `Project`, which checks the authority (`Accepts`); what it refuses
ends the window, as does a bad page (`NotActivated`).

Abstractions: a generation stands for its archive; a product index is named by the generation
it is bound to; a filter is on or off; the shared pages and positions of a manifold are one
page and its guides and paths another. What is in a page is chosen when its archive appears:
good, bad (the hash differs), unusable (verified, but it does not parse or is too large), or
absent.

### Three machines in one run

`MCScenesAndShell` explores `ScenePublication`, `SceneView` or `ShellEditor`, one of the three
in each behaviour: they share no variable, so a product of them would show nothing more, and
every property of a machine that does not run is judged in its initial states only.
`GraphWindow` has what wakes the window and `SceneView` what it does once awake;
`ScenePublication` has how a generation is committed and `SceneView` how it is shown.

### Definitions that no run's specification uses

A definition whose comment begins with "Changed for the check of ..." is the one it is named
after with one plausible mistake in it. `PROJECT.json` names, for each property, the changed
definition that makes TLC report the property; they show that the properties can fail.

## 4. Runs

| run | question | bounds |
|---|---|---|
| `coordinator` | answers, counters, events and shutdown in every interleaving; every call returns and shutdown stops the worker, without any timeout | 2 threads, channel 1, events 2, sequences and revisions up to 3 |
| `scenes_and_shell` | store: refinement of the coherent register, memory agrees with the disk, under failures and kills | 2 contents, 4 generations, 4 registry revisions |
| | scenes: pages are hashed once and no reader waits for another, nothing the kernel holds is refused, one view is drawn | 2 scenes, 2 manifolds, one page of the second archive in any state, one of the first corrupt or unusable |
| | shell: edits stay, the manifest reopens, ids are new, queues keep to their limits | 1 folder and 1 note at the start, 5 entries, 1 name typed, commands 2, events 2, incidents 6 (3 besides the 3 revisions the start has) |
| `publication_commit_point` | finding: an uncommitted publication blocks its generation | 2 contents, 4 generations, 4 registry revisions |
| `shell_save` | finding: the text of one note is saved into another | 1 folder and 2 notes at the start, 6 entries, otherwise as `scenes_and_shell` |
| `window_safety` | wakes, lease, counters | 1 shape, shown and hidden, 2 manifolds, 2 revisions, 2 generations, channel 1, 6 wakes |
| `window_liveness` | viewports settle, calls and shutdown return | 1 manifold, 1 generation, 2 revisions |
| `window_start` | finding: a start that timed out never returns | no viewport traffic |
| `window_generation` | finding: a resident generation need not reach the window | no viewport traffic, 2 generations |
| `documents` | leases, files, mentions and anchors agree, under failures and kills | 2 notes, texts of up to 2 words, 2 entities, 2 mentions, 3 commits, 1 NER batch, 2 scenes |
| `documents_open` | finding: a note that cannot be opened | 1 note, 2 commits |
| `renderer` | slots, scene, GPU records and picks, under scenes, diffs, switches and highlights in any order | 2 nodes, 1 edge, 2 places, 3 revisions |
| `renderer_pick` | finding: a pick names a node that was not drawn there | same, 2 revisions |

Why the bounds are enough: two callers are what the program has (UI and proof thread) and
what overtaking, a second shutdown and the contended join mutex need; a channel of 1 makes
it full, and an event queue of 2 is full after two commits and nearly full before a shutdown,
which needs room too. Two commands let one time out, or overtake, and the other find the
consequences. Four generations hold a
startup, a registry publication, a failed one and the full scene over it; a tag moves the
registry by two revisions, so four hold a failed tag and what is written over it. Two
geometry revisions are what coalescing is about: one applied while the other is published.
Three commits hold a text, an edit of it that failed half-way and an edit after that; a
text of two equal words is the shortest in which a mention can lose its place, find
another and meet a second mention. With one word and one word of context, `Locate`'s
third rule tells matches apart by whether there is context at all; longer texts are
planned as a check of their own. Two nodes are what a slot that changes hands needs, and
the three revisions are a scene, a diff that vacates a slot and a diff that takes it; every
scene and every diff over two nodes and one edge is tried, loops included.
Three incidents hold a create, a delete and a restart (an id given twice), two edits around a
late command, or an edit, a failed save and another edit; a queue of two events is full after
two clicks. The shell's first note and a created one are the two notes between which an edit
can go astray. The invariants of the proofs (section 5) were checked by TLC at the same or
larger bounds. Two scenes hold an open window, a snapshot that is out of date while its pages are
read, and the scene after it; a third adds nothing, because the window only compares its
loaded scene with the newest.
Symmetry is used for contents, notes, ids and places in the runs without liveness only;
nothing distinguishes them.

`CHECK_DEADLOCK FALSE` everywhere: after the shutdown, and at the bounds, nothing has to
happen. That callers do not wait on each other for ever is what the liveness
properties say.

### Fairness

- Coordinator: weak fairness of the worker's step and of each thread's next step inside a
  call. No fairness of timeouts, of new calls or of drains: the properties hold although
  timeouts never run out and nobody drains.
- Window: weak fairness of the window's thread, of the start and of each thread's next step
  inside a call; strong fairness of the blocking send, because `std::sync::mpsc::sync_channel`
  serves the senders it has blocked in order, so a sender cannot be passed over for ever.
  No fairness of timeouts, of new calls or of system events.

These are the operating system's scheduling of runnable threads and nothing more.

## 5. Proofs

`KernelCoordinatorProofs`, for any set of threads and any capacities, from
`CoordinatorAssumption` alone:

- `TypeCorrect`: types and both queue capacities. `TypeOK` is not inductive: that an
  answering worker holds a message and that a thread past `Reserve` has a ticket are added
  (`TypeInv`), because `Answer` and the returns index by them.
- `CommitsPublish` needs that between `CheckEventSpace` and `PushEvent` only drains touch
  the queue (`RoomKept`).
- `CallsAccounted`: a count of sequences against pending, completed, rejected and the
  worker's hand (`CallsAreAccounted`, inductive with the types).
- `RevisionsIncrease` needs that while a commit is unpublished its revision is beyond all
  queued ones (`Sorted`).
- `NothingCommitsAfterShutdown` needs that once the state says shutting down the worker
  is past its last commit for good (`PastLastCommit`).
- `ShutdownOkIsFinal` needs who holds the join mutex and that a taken handle with a free
  mutex means a joined worker (`JoinInv`).
- `AnswersStayTrue` follows a command from `Reserve` to its reply. `PlaceInv`: a sequence is in
  one message, one thread's hand or the worker's, never in two. `EffectsAgree`: before its commit
  a command has no effect, the result the worker holds and the reply it has sent agree with the
  effect, and a verdict is given only when nothing can touch the command any more.

`ScenePublicationProofs`, for any contents and any bounds: the inductive invariant `IInv` is
the type invariant, `ManifestNamesPair`, `ResidentIsCommitted`, `ResidentMatchesAtlas`,
`Progress` (what an operation knows of the disk at each step: its draft is still admissible,
its moved artifacts are its own) and `Purpose` (what it is for: a start has no resident
scene, a full publication is full). From it follow `TypeCorrect`, `ManifestSafe`,
`ResidentSafe`, `ResidentCurrent`, `InstallFresh`, and `Refinement`: every step is a step of
`CoherentGeneration` or leaves its register alone, `CommitManifest` being the only former.

`SceneViewProofs`, for any manifolds, page states and number of scenes. `ReadInv` is the type
invariant, `HashedOnce`, that a thread past `Ask` has a page in its list
(`ThreadsHaveWork`), and that worker and window are at rest when they ask for nothing and the
proof until the window is joined (`ReadersRest`); it gives `SceneTypesAlways`. `ViewInv` adds what
each step knows of the scenes: a verified page is a good one (`PagesTell`), a reader without
pages left has verified all it asked for (`ReadersTell`, `OpeningVerifies`), and kernel,
snapshot and loaded view each name one scene and its index (`KernelIsBound`, `SnapIsBound`,
`LoadedIsBound`). It gives `SnapshotsAreTaken` and `OneViewIsDrawn`. `OneThreadHashesAlways` needs
both, and that the worker reads only the scene it opens, the proof only without a publisher
(`Apart`): the worker's scene is then newer than any the window holds, and the proof is alone.

`ShellEditorProofs`, for any names, foldings, trees and capacities. `DeletionsAreValid` says
that what `delete` leaves of a valid tree is valid: what stays keeps its parent, because an
entry whose parent is in the branch is in the branch (`Branch` is closed under children, and
least). `CreationsAreValid` says the same of `create` where the two foldings agree. `ShellInv` is
the type invariant with what the queued commands and the reply are about; from it follow
`ShellTypesAlways`, `ManifestAlwaysReopens`, and, with ids of documents below `next_id`,
`NewNotesFindNothing`. `NoEditIsLost` needs `EditInv`: as long as no command was given up and
no save failed behind its commit, at most one command is queued, the one the UI thread waits
for, and the editor's lease is the kernel's unless a handler is about to bring it.

`DocumentAuthorityProofs`, for any notes, words, entities and bounds. `AuthorityInv`: the three
registries (on disk, in memory, in the command under way) are each `Sound` (mentions at their
places, of users' entities, one for each) and behind the document files, and so is every lease.
Only what speaks of a file's current revision must have its text (`BehindFile`), because of an
older one nothing is left. What makes it inductive are lemmas on the operators: `LocateFinds`
(a place that `locate_mention` gives has the mention's surface), and that tagging, a batch and
reanchoring keep a registry sound. `MatchesAreLeftmost` says of the recursive function in
`Matches` what the search it stands for promises: an occurrence is taken exactly if it overlaps
none taken before it. The invariant gives `AuthorityTypeCorrect`, `LeasesAreCommitted`,
`RegistryStaysBehind` and `MentionsStayCoherent`; `AnchorsAlwaysFit` and the action property
`StaleSavesReplaceNothing` follow with one more case analysis each.

`GraphWindowProofs`, for any shapes, manifolds, capacity and bounds, in three layers.
`CallInv` is the type invariant with what each thread carries through its call; a thread that has
incremented the count of pending commands and not yet sent keeps the count from going below zero
(`Counted`); it gives `WindowTypeCorrect`. `ProofKeepsItsGeometry` needs only that and the
mailbox's lock. `MailboxInv` is the mailbox as its two sides see it (the revisions applied, taken
and published are in order, and a geometry not applied has a wake pending), `LeavingInv` says
who may have failed once the loop is told to exit, and `WorkInv` names, for each piece of work,
the one who still owes its wake: a thread before its `send_event`, an event in the queue, or the
pass the loop is in. Together they give `LoopNeverSleepsOnWork`, for every coalescing of wakes.

`SceneStateProofs`, for any store (`IsStore`: the parts agree and there is no slot more than there
are ids), has what the changes of a store do. `VacateKeeps`, `OccupyKeeps` and `ReviseKeeps` are
one removal, addition and update; `VacateLane`, `OccupyLane` and `ReviseLane` are the loops, by
counting through the stores after each element (`CountingUp`, from the well-foundedness of the
natural numbers); `ChangedKeeps` is a whole diff: a valid one leaves a store (`IsStore`) in which
what stays kept its slot, what came is at the slot of its id, and every slot that changed is
dirty (`FollowsDiff`). `OccupyKeeps` counts: when no slot is vacant there are as many slots as
resident ids, so a new slot never exceeds the ids. `PackKeeps` is a whole scene.

`GraphRendererProofs`, for any ids, places and number of revisions. `RendererInv` is `IsStore` of
both stores, that edges run between resident nodes (`EndsResident`, from `ValidEnds` with the
incident edges that a diff does not name), `SceneIsWhatWasSent`, `Shown` and
`PickIsRightWithinRevision`. The slots that a diff or a highlight does not write are shown to
need no writing: their visual, the slots of an edge's ends, and the highlights of a node are
what they were (`NodesShownAfterDiff`, `EdgesShownAfterDiff`, `HighlightShows`). It gives
`RendererSlotsAgree`, `ResidentSceneIsSent`, `GpuIsInStep`, `PicksAreRightWithinRevision` and
`RendererTypeCorrect`. That a pick may cross a revision is finding 4, and the theorem says that
nothing else can make it wrong.

TLC has checked each inductive invariant as an invariant of its run's specification and bounds
before it was proved.

Only model-checked: liveness (`EveryCallReturns`, `ShutdownStopsWorker`, `ViewportSettles`,
`CallsReturn`, `ShutdownReturns`), because fairness and ENABLED are out of the prover's reach,
and the findings, which are counterexamples.

## 6. Findings and observations

Each finding is a run that TLC ends with a counterexample; `PROJECT.json` has the details.

1. A publication that stops between the archive's move and the manifest blocks its
   generation number for good, against the crate's "sole commit point" (`store.rs:103`).
2. `GraphWindow::start` joins after its timeout a thread that may sleep for ever, so the
   timeout error is never returned (`graph_window.rs:146`).
3. Two tagged occurrences that an edit leaves only one place for are both moved there; the
   save then reports overlapping anchors after document and registry are on disk, and a
   restarted kernel cannot open the note (`entity_tags.rs:69`).
4. A pick is resolved in the scene of the moment it comes back, not in the one it was drawn
   in, so it can name a node that was never under the pointer (`picking.rs:283`), against
   README.md:180.
5. After a selection that was applied late, a failed save gives the shell the lease of the
   other note and leaves it its text; the next save writes the text into the other note
   (`shell.rs:504`), against README.md:161-165.
6. Nothing wakes the window for a new resident generation, so with an idle user it shows the
   old one for ever (`graph_window.rs:524`), against contract 14 (README.md:189-190).

Observations, seen in the models and not stated by a run:

- Sequences are taken and commands sent in two steps (`lib.rs:400`, `:417`), so events can
  carry decreasing sequences; no property forbids it. Their kernel revisions always increase
  (`EventRevisionsIncrease`).
- A registry command that fails after its save leaves the kernel on the old registry, and the
  next one saves over the newer file (`entity_tags.rs:168`, `atlas.rs:78`).
- The shell drains events after its successes only, and not after a manifold button: 256
  clicks fill the queue, every command is refused, and no success follows that would drain it
  (`drawer.rs:242`). No property forbids it: `ShellTypeOK` says that the queue keeps to its limit.
- A click on the open note passes the dirty check; after a save that failed behind its commit
  it opens the new document and replaces what was typed since (`shell.rs:430`). This is why
  `UnsavedEditsStay` excepts such saves.
- `update_packed_positions` validates each position in the loop that replaces them
  (`scene_state.rs:238`), so an invalid one leaves a part moved, against contract 5; its only
  host then drops the renderer.
- `set_graph_view` replaces the whole view, the manifold too, if only the authority is current:
  a manifold selected between the client's read and its command is lost (`graph_view.rs:30`),
  and no property forbids it.

## 7. Not modelled

Binary formats (archive, index, manifest encoding), hashes, palettes, camera, pipelines,
shaders and widgets: pure data transformation, I/O or floating point. The graph demo is a
historical harness and the vendored editor is third-party. The archive's and the index's
writers are sequential I/O on pending files, and a file appears only as a whole
(`ScenePublication`). Panes, expanded rows, status texts and layout of the shell change no
state that another part reads. What is planned is listed in section 2.
