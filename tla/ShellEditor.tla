----------------------------- MODULE ShellEditor -----------------------------
(***************************************************************************)
(* The shell over the kernel: the tree of entries the user clicks on, the  *)
(* embedded editor with its text, the shell's copy of the document lease,  *)
(* and the commands the two turn into.                                     *)
(*                                                                         *)
(* The UI thread blocks in PhoenixKernel::execute.  When COMMAND_TIMEOUT   *)
(* runs out it goes on as after an error, while its command stays in the   *)
(* channel and is applied later.  The worker applies commands one at a     *)
(* time; what a command does to registry, anchors and scene is             *)
(* DocumentAuthority's and ScenePublication's matter, and here only        *)
(* whether it fails before or behind the commit of the document.           *)
(*                                                                         *)
(* Which rows are expanded, panes, status and the text being typed as a    *)
(* name are left out, and so are the anchors published for the proof's own *)
(* text.                                                                   *)
(***************************************************************************)
EXTENDS WorkspaceTree, Sequences

CONSTANTS
  CommandCapacity,  \* COMMAND_CAPACITY
  EventCapacity,    \* EVENT_CAPACITY
  StartTrees,       \* manifests that are found at the first start
  TypedNames,       \* bound: the names the user types
  MaxIncidents      \* bound: edits, revisions of the tree, commands given up, saves
                    \* that fail behind their commit and restarts, together

ASSUME ShellAssumption ==
  /\ CommandCapacity \in Nat \ {0}
  /\ EventCapacity \in Nat \ {0}
  /\ \A w \in StartTrees : IsWorkspace(w) /\ Valid(w)
  /\ TypedNames \subseteq Names
  /\ MaxIncidents \in Nat

VARIABLES
  \* on disk
  tree,         \* the manifest, and KernelState.workspace, which mutate_workspace
                \* changes together
  envelopes,    \* the document files of the notes that have one
  \* KernelState and KernelShared
  activeEntry,  \* active_entry
  activeLease,  \* active_document_lease
  events,       \* how many events wait to be drained
  queue,        \* the commands in the channel
  \* PhoenixShell, on the UI thread
  editor,       \* editor_lease, and the editor's text and dirty flag
  armed,        \* delete_armed
  within,       \* the handler it blocks in, "idle" when in none
  reply,        \* what the reply channel of its command holds
  parent,       \* delete_selected's parent
  \* what has happened
  typed,        \* edits so far
  late,         \* commands given up so far
  behind,       \* saves failed behind their commit, the kernel left on the old lease
  restarts      \* ends of the process so far

durable == <<tree, envelopes>>
selection == <<activeEntry, activeLease>>
shell == <<editor, armed, within, parent>>
history == <<typed, late, behind, restarts>>
shellVars == <<durable, selection, events, queue, shell, reply, history>>

Incidents == tree.revision + typed + late + behind + restarts

\* A text is told from others by the edit that made it; "of" is the note in
\* whose document it was typed.  Every text without an edit is empty.
Text == [of: Nat, version: Nat]
NoText == [of |-> NoEntry, version |-> 0]
Blank(note) == [of |-> note, version |-> 0]
SameContent(one, other) == one = other \/ (one.version = 0 /\ other.version = 0)

Document == [revision: Nat, text: Text]
DocumentLease == [note: Nat, revision: Nat, text: Text]
NothingOpen == [note |-> NoEntry, revision |-> 0, text |-> NoText]
LeaseOn(note, document) ==
  [note |-> note, revision |-> document.revision, text |-> document.text]

Command ==
  [op: {"select", "delete"}, id: Nat]
    \cup [op: {"create"}, kind: {"folder", "note"}, name: Names]
    \cup [op: {"rename"}, id: Nat, name: Names]
    \cup [op: {"save"}, lease: DocumentLease, text: Text]
    \cup [op: {"view"}]
Handlers == {"select", "create", "open_created", "rename", "delete", "open_parent", "save",
             "manifold", "style"}
Reply == [result: {"none", "ok", "error"}, created: Nat]
NoReply == [result |-> "none", created |-> NoEntry]
Failed == [result |-> "error", created |-> NoEntry]

\* Every variable has its type, and the queues keep to their capacities.
ShellTypeOK ==
  /\ IsWorkspace(tree)
  /\ envelopes \in [DOMAIN envelopes -> Document]
  /\ DOMAIN envelopes \subseteq EntryId
  /\ activeEntry \in EntryId
  /\ activeLease \in DocumentLease
  /\ events \in 0..EventCapacity
  /\ queue \in Seq(Command)
  /\ Len(queue) <= CommandCapacity
  /\ editor \in [lease: DocumentLease, text: Text, dirty: BOOLEAN]
  /\ armed \in Nat
  /\ within \in Handlers \cup {"idle"}
  /\ reply \in Reply
  /\ parent \in Nat
  /\ {typed, late, behind, restarts} \subseteq Nat

-----------------------------------------------------------------------------
(***************************************************************************)
(* The kernel: commands on the coordinator's worker                        *)
(***************************************************************************)

\* load_or_empty, and open_document
Stored(files, note) ==
  IF note \in DOMAIN files THEN files[note] ELSE [revision |-> 0, text |-> Blank(note)]
OpenDocument(note) == LeaseOn(note, Stored(envelopes, note))
LeaseOf(w, id) == IF id \in NotesOf(w) THEN OpenDocument(id) ELSE NothingOpen

\* The command at the head is the one the UI thread waits for if it waits at
\* all and nothing is queued behind.
Answer(result, created) ==
  reply' = IF within # "idle" /\ reply = NoReply /\ Len(queue) = 1
           THEN [result |-> result, created |-> created] ELSE reply

\* An error that leaves the kernel as it was.
Refuse ==
  /\ Answer("error", NoEntry)
  /\ UNCHANGED <<durable, selection, events, behind>>

\* push_event, which finds the room ensure_event_space saw.
PushEvent == events' = events + 1

\* select_entry.  Opening the note, or verifying its anchors, can fail.
ApplySelect(id) ==
  \/ /\ id \in EntryIds(tree)
     /\ activeEntry' = id
     /\ activeLease' = LeaseOf(tree, id)
     /\ PushEvent
     /\ Answer("ok", NoEntry)
     /\ UNCHANGED <<durable, behind>>
  \/ id \notin EntryIds(tree) \cup {n \in EntryIds(tree) : Kind(tree, n) = "folder"} /\ Refuse
  \/ id \in NotesOf(tree) /\ Refuse

\* Changed for the check of ManifestReopens: saved as it is.
ApplyMutationUnchecked(candidates, created) ==
  \/ \E w \in candidates :
       /\ tree' = w
       /\ activeEntry' = IF activeEntry \in EntryIds(w) THEN activeEntry ELSE ROOT_ID
       /\ activeLease' = IF activeEntry \in EntryIds(w) THEN activeLease ELSE NothingOpen
       /\ PushEvent
       /\ Answer("ok", created)
       /\ UNCHANGED <<envelopes, behind>>
  \/ Refuse

\* mutate_workspace: validated and saved, then taken into memory, where a
\* selection that is gone falls back to the root.
ApplyMutation(candidates, created) ==
  \/ \E w \in {candidate \in candidates : Valid(candidate)} :
       /\ tree' = w
       /\ activeEntry' = IF activeEntry \in EntryIds(w) THEN activeEntry ELSE ROOT_ID
       /\ activeLease' = IF activeEntry \in EntryIds(w) THEN activeLease ELSE NothingOpen
       /\ PushEvent
       /\ Answer("ok", created)
       /\ UNCHANGED <<envelopes, behind>>
  \/ Refuse

\* save_document and tag_selection, as far as the document goes.  A tag sends
\* the editor's text as well, changed or not.
ApplySave(base, text) ==
  LET note == base.note
      next == [revision |-> base.revision + 1, text |-> text]
      files == IF SameContent(text, base.text) THEN envelopes
               ELSE [id \in DOMAIN envelopes \cup {note} |->
                       IF id = note THEN next ELSE envelopes[id]]
  IN
  \/ /\ activeLease # NothingOpen
     /\ activeLease = base
     /\ OpenDocument(note) = base
     /\ envelopes' = files
     /\ \/ \* all went well
           /\ activeLease' = LeaseOn(note, Stored(files, note))
           /\ PushEvent
           /\ Answer("ok", NoEntry)
           /\ UNCHANGED behind
        \/ \* the registry could not be saved: install_committed_document, and an error
           /\ activeLease' = LeaseOn(note, Stored(files, note))
           /\ Answer("error", NoEntry)
           /\ UNCHANGED <<events, behind>>
        \/ \* the anchors did not verify or the scene was not published
           /\ Incidents < MaxIncidents
           /\ behind' = behind + 1
           /\ Answer("error", NoEntry)
           /\ UNCHANGED <<activeLease, events>>
     /\ UNCHANGED <<tree, activeEntry>>
  \/ Refuse

ApplyView ==
  /\ PushEvent
  /\ Answer("ok", NoEntry)
  /\ UNCHANGED <<durable, selection, behind>>

Apply(command) ==
  \/ command.op = "select" /\ ApplySelect(command.id)
  \/ /\ command.op = "create"
     /\ ApplyMutation(
          Create(tree, ParentForCreate(tree, activeEntry), command.kind, command.name),
          tree.next_id)
  \/ command.op = "rename" /\ ApplyMutation(Rename(tree, command.id, command.name), NoEntry)
  \/ command.op = "delete" /\ ApplyMutation(Delete(tree, command.id), NoEntry)
  \/ command.op = "save" /\ ApplySave(command.lease, command.text)
  \/ command.op = "view" /\ ApplyView

\* Changed for the check of ShellTypeOK: one event more than fits.
RoomForOneMore == events <= EventCapacity

\* ensure_event_space: a full event queue refuses every command.
Room == events < EventCapacity

Work ==
  /\ queue # <<>>
  /\ queue' = Tail(queue)
  /\ IF Room THEN Apply(Head(queue)) ELSE Refuse
  /\ UNCHANGED <<shell, typed, late, restarts>>

-----------------------------------------------------------------------------
(***************************************************************************)
(* execute, as the UI thread sees it                                       *)
(***************************************************************************)

\* try_send, and then blocked in the handler.
Send(command, handler) ==
  /\ IF Len(queue) < CommandCapacity
     THEN queue' = Append(queue, command) /\ reply' = NoReply
     ELSE queue' = queue /\ reply' = Failed
  /\ within' = handler

Returned(handler) ==
  /\ within = handler
  /\ reply # NoReply
  /\ late' = late

\* recv_timeout ran out.
GaveUp(handler) ==
  /\ within = handler
  /\ reply = NoReply
  /\ Incidents < MaxIncidents
  /\ late' = late + 1

Succeeded(handler) == Returned(handler) /\ reply.result = "ok"
NotDone(handler) == GaveUp(handler) \/ (Returned(handler) /\ reply.result = "error")

GoOn ==
  /\ within' = "idle"
  /\ reply' = NoReply
  /\ UNCHANGED queue

kernel == <<durable, selection>>
counts == <<typed, behind, restarts>>
Drain == events' = 0

\* reload_editor_from_kernel
Reloaded ==
  IF editor.lease # NothingOpen /\ editor.lease = activeLease THEN editor
  ELSE [lease |-> activeLease, text |-> activeLease.text, dirty |-> FALSE]

-----------------------------------------------------------------------------
(***************************************************************************)
(* The shell's handlers                                                    *)
(***************************************************************************)

\* The user types into the open note.
Edit ==
  /\ within = "idle"
  /\ editor.lease # NothingOpen
  /\ Incidents < MaxIncidents
  /\ typed' = typed + 1
  /\ editor' = [editor EXCEPT !.text.version = typed + 1, !.dirty = TRUE]
  /\ UNCHANGED <<kernel, events, queue, armed, within, reply, parent, late, behind, restarts>>

Unsaved == editor.lease # NothingOpen /\ editor.dirty
\* Changed for the check of UnsavedEditsStay: only the note itself is guarded.
SelectBlockedOnSame(id) == id = activeEntry /\ Unsaved

SelectBlocked(id) == id # activeEntry /\ Unsaved

\* select_entry, on a row of the tree.
ClickEntry(id) ==
  /\ within = "idle"
  /\ armed' = NoEntry
  /\ IF SelectBlocked(id) THEN UNCHANGED <<queue, reply, within>>
     ELSE Send([op |-> "select", id |-> id], "select")
  /\ UNCHANGED <<kernel, events, editor, parent, late, counts>>

EntrySelected ==
  /\ Succeeded("select")
  /\ Drain
  /\ editor' = Reloaded
  /\ GoOn
  /\ UNCHANGED <<kernel, armed, parent, counts>>

EntryNotSelected ==
  /\ NotDone("select")
  /\ GoOn
  /\ UNCHANGED <<kernel, events, editor, armed, parent, counts>>

\* set_edit_mode
SetEditMode ==
  /\ within = "idle"
  /\ armed # NoEntry
  /\ armed' = NoEntry
  /\ UNCHANGED <<kernel, events, queue, editor, within, reply, parent, late, counts>>

\* commit_edit
CommitCreate(kind, name) ==
  /\ within = "idle"
  /\ Incidents < MaxIncidents
  /\ Send([op |-> "create", kind |-> kind, name |-> name], "create")
  /\ UNCHANGED <<kernel, events, editor, armed, parent, late, counts>>

\* The new entry is selected as by a click, and then events are drained.
EntryCreated ==
  /\ Succeeded("create")
  /\ armed' = NoEntry
  /\ IF SelectBlocked(reply.created) THEN GoOn /\ Drain
     ELSE Send([op |-> "select", id |-> reply.created], "open_created") /\ UNCHANGED events
  /\ UNCHANGED <<kernel, editor, parent, counts>>

CreatedOpened ==
  /\ Succeeded("open_created")
  /\ Drain
  /\ editor' = Reloaded
  /\ GoOn
  /\ UNCHANGED <<kernel, armed, parent, counts>>

CreatedNotOpened ==
  /\ NotDone("open_created")
  /\ Drain
  /\ GoOn
  /\ UNCHANGED <<kernel, editor, armed, parent, counts>>

CommitRename(name) ==
  /\ within = "idle"
  /\ Incidents < MaxIncidents
  /\ Send([op |-> "rename", id |-> activeEntry, name |-> name], "rename")
  /\ UNCHANGED <<kernel, events, editor, armed, parent, late, counts>>

Renamed ==
  /\ Succeeded("rename")
  /\ Drain
  /\ GoOn
  /\ UNCHANGED <<kernel, editor, armed, parent, counts>>

EditNotCommitted ==
  /\ NotDone("create") \/ NotDone("rename")
  /\ GoOn
  /\ UNCHANGED <<kernel, events, editor, armed, parent, counts>>

\* delete_selected: the first press arms it, the second deletes the branch.
PressDelete ==
  /\ within = "idle"
  /\ ~Unsaved
  /\ activeEntry # ROOT_ID
  /\ Incidents < MaxIncidents
  /\ IF armed # activeEntry
     THEN armed' = activeEntry /\ UNCHANGED <<queue, reply, within, parent>>
     ELSE /\ parent' = Parent(tree, activeEntry)
          /\ Send([op |-> "delete", id |-> activeEntry], "delete")
          /\ UNCHANGED armed
  /\ UNCHANGED <<kernel, events, editor, late, counts>>

EntryDeleted ==
  /\ Succeeded("delete")
  /\ Send([op |-> "select", id |-> parent], "open_parent")
  /\ UNCHANGED <<kernel, events, editor, armed, parent, counts>>

EntryNotDeleted ==
  /\ NotDone("delete")
  /\ GoOn
  /\ UNCHANGED <<kernel, events, editor, armed, parent, counts>>

\* Whatever became of the selection of the parent.
ParentOpened ==
  /\ Returned("open_parent") \/ GaveUp("open_parent")
  /\ editor' = Reloaded
  /\ Drain
  /\ armed' = NoEntry
  /\ GoOn
  /\ UNCHANGED <<kernel, parent, counts>>

\* on_editor_event, for SaveRequested.
RequestSave ==
  /\ within = "idle"
  /\ editor.lease # NothingOpen
  /\ Send([op |-> "save", lease |-> editor.lease, text |-> editor.text], "save")
  /\ UNCHANGED <<kernel, events, editor, armed, parent, late, counts>>

\* tag_entity_selection: lease and text go with the tag as in a save, and it goes
\* on in the same way.
RequestTag == RequestSave

Saved ==
  /\ Succeeded("save")
  /\ editor' = [editor EXCEPT !.lease = activeLease, !.dirty = FALSE]
  /\ Drain
  /\ GoOn
  /\ UNCHANGED <<kernel, armed, parent, counts>>

\* The lease is taken from the kernel, the text stays.
NotSaved ==
  /\ NotDone("save")
  /\ editor' = [editor EXCEPT !.lease = activeLease]
  /\ GoOn
  /\ UNCHANGED <<kernel, events, armed, parent, counts>>

\* The drawer's manifold buttons, which drain nothing, and the highlight modes.
ClickView(handler) ==
  /\ within = "idle"
  /\ Send([op |-> "view"], handler)
  /\ UNCHANGED <<kernel, events, editor, armed, parent, late, counts>>

StyleSet ==
  /\ Succeeded("style")
  /\ Drain
  /\ GoOn
  /\ UNCHANGED <<kernel, editor, armed, parent, counts>>

ViewDone ==
  /\ Succeeded("manifold") \/ NotDone("manifold") \/ NotDone("style")
  /\ GoOn
  /\ UNCHANGED <<kernel, events, editor, armed, parent, counts>>

Handler ==
  \/ Edit
  \/ \E id \in EntryIds(tree) : ClickEntry(id)
  \/ EntrySelected \/ EntryNotSelected
  \/ SetEditMode
  \/ \E kind \in {"folder", "note"}, name \in TypedNames : CommitCreate(kind, name)
  \/ EntryCreated \/ CreatedOpened \/ CreatedNotOpened
  \/ \E name \in TypedNames : CommitRename(name)
  \/ Renamed \/ EditNotCommitted
  \/ PressDelete \/ EntryDeleted \/ EntryNotDeleted \/ ParentOpened
  \/ RequestSave \/ RequestTag \/ Saved \/ NotSaved
  \/ ClickView("manifold") \/ ClickView("style") \/ StyleSet \/ ViewDone

-----------------------------------------------------------------------------
(***************************************************************************)
(* Start, end and start again                                              *)
(***************************************************************************)

\* start_internal on the manifest w: the first note is open, and
\* PhoenixShell::new puts its text into the editor.
StartsOn(w, files) ==
  LET note == FirstNote(w)
      opened == IF note = NoEntry THEN NothingOpen ELSE LeaseOn(note, Stored(files, note))
  IN [activeEntry |-> IF note = NoEntry THEN ROOT_ID ELSE note,
      lease |-> opened,
      editor |-> [lease |-> opened, text |-> opened.text, dirty |-> FALSE]]

ShellInit ==
  LET start == StartsOn(tree, envelopes) IN
  /\ tree \in StartTrees
  /\ envelopes = [id \in {} |-> [revision |-> 0, text |-> Blank(id)]]
  /\ activeEntry = start.activeEntry
  /\ activeLease = start.lease
  /\ editor = start.editor
  /\ events = 0
  /\ queue = <<>>
  /\ armed = NoEntry
  /\ within = "idle"
  /\ reply = NoReply
  /\ parent = NoEntry
  /\ typed = 0
  /\ late = 0
  /\ behind = 0
  /\ restarts = 0

\* The process ends anywhere, also while a command runs, and starts again.
Restart ==
  LET start == StartsOn(tree, envelopes) IN
  /\ Incidents < MaxIncidents
  /\ restarts' = restarts + 1
  /\ activeEntry' = start.activeEntry
  /\ activeLease' = start.lease
  /\ editor' = start.editor
  /\ events' = 0
  /\ queue' = <<>>
  /\ armed' = NoEntry
  /\ within' = "idle"
  /\ reply' = NoReply
  /\ parent' = NoEntry
  /\ UNCHANGED <<durable, typed, late, behind>>

ShellNext == Work \/ Handler \/ Restart
ShellSpec == ShellInit /\ [][ShellNext]_shellVars

-----------------------------------------------------------------------------
(***************************************************************************)
(* Properties                                                              *)
(***************************************************************************)

\* The manifest on disk always loads again: what create and rename let through
\* and validate would refuse never gets there (save_atomic, load).
ManifestReopens == Valid(tree)

\* A new entry never finds a document that an earlier, deleted note has left
\* behind: ids are not given twice, over restarts either (next_id).
NewNotesAreEmpty ==
  [][\A id \in EntryIds(tree') \ EntryIds(tree) : id \notin DOMAIN envelopes]_shellVars

\* What the user typed leaves the editor only when it is in the document of its
\* note, unless a command was given up or failed behind its commit, or the
\* process ended (select_entry, delete_selected, reload_editor_from_kernel).
UnsavedEditsStay ==
  [][late' = 0 /\ behind' = 0 /\ restarts' = restarts /\ Unsaved
     => Unsaved' \/ Stored(envelopes', editor.lease.note).text = editor.text]_shellVars

\* A document only ever holds text that was typed into its own note: a lease
\* that is stale is refused, and the text with it.
TextStaysInItsNote == \A note \in DOMAIN envelopes : envelopes[note].text.of = note
=============================================================================
