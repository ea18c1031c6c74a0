-------------------------- MODULE ShellEditorProofs --------------------------
(***************************************************************************)
(* Proofs about ShellEditor, for any manifest it starts on, any names and  *)
(* any capacities.                                                         *)
(***************************************************************************)
EXTENDS ShellEditor, FiniteSetTheorems, WellFoundedInduction, TLAPS

\* Documents are of entries whose ids have been given, and so is the open one.
IdsAreSpent ==
  /\ \A note \in DOMAIN envelopes : note < tree.next_id
  /\ activeLease # NothingOpen => activeLease.note \in EntryId /\ activeLease.note < tree.next_id

ShellInv ==
  /\ ShellTypeOK
  /\ ManifestReopens
  /\ activeEntry \in EntryIds(tree)
  /\ IdsAreSpent

-----------------------------------------------------------------------------
(***************************************************************************)
(* The tree                                                                *)
(***************************************************************************)

\* A tree with notes has a first one.
LEMMA FirstNoteIsOne ==
  ASSUME NEW w, IsWorkspace(w)
  PROVE  FirstNote(w) \in NotesOf(w) \cup {NoEntry}
<1>1. NotesOf(w) \subseteq Nat
  BY DEF IsWorkspace, NotesOf, EntryId
<1>2. CASE NotesOf(w) # {}
  <2>1. PICK id \in NotesOf(w) : \A other \in NotesOf(w) : ~(<<other, id>> \in OpToRel(<, Nat))
    BY <1>1, <1>2, WFMin, NatLessThanWellFounded
  <2>2. \A other \in NotesOf(w) : ~(other < id)
    BY <1>1, <2>1, Zenon DEF OpToRel
  <2>3. \A other \in NotesOf(w) : id <= other
    BY <1>1, <2>2
  <2> QED BY <1>2, <2>3 DEF FirstNote
<1> QED BY <1>2 DEF FirstNote

\* What create, rename and delete make of a workspace is one, a folder stays a
\* folder and a note a note; only create adds an id, the next one, and ids are
\* counted on.
Follows(w, next) ==
  /\ IsWorkspace(next)
  /\ \A id \in EntryIds(w) \cap EntryIds(next) : Kind(next, id) = Kind(w, id)
  /\ EntryIds(next) \subseteq EntryIds(w) \cup {w.next_id}
  /\ next.next_id >= w.next_id

LEMMA CreateFollows ==
  ASSUME NEW w, IsWorkspace(w), IdsBelowNext(w), NEW parentId \in Nat, NEW kind \in {"folder", "note"},
         NEW name \in Names, NEW next \in Create(w, parentId, kind, name)
  PROVE  Follows(w, next) /\ EntryIds(w) \subseteq EntryIds(next)
<1>1. next = [entries |-> [id \in EntryIds(w) \cup {w.next_id} |->
                IF id = w.next_id THEN Entry(parentId, kind, name) ELSE w.entries[id]],
              next_id |-> w.next_id + 1,
              revision |-> w.revision + 1]
  BY DEF Create
<1>2. Entry(parentId, kind, name) \in WorkspaceEntry
  BY DEF Entry, WorkspaceEntry
<1>3. IsFiniteSet(EntryIds(w) \cup {w.next_id})
  BY FS_AddElement DEF IsWorkspace
<1>4. IsWorkspace(next) /\ EntryIds(next) = EntryIds(w) \cup {w.next_id}
      /\ next.next_id >= w.next_id
  BY <1>1, <1>2, <1>3 DEF IsWorkspace, EntryIds, EntryId, NoEntry
<1>5. \A id \in EntryIds(w) : id # w.next_id => Kind(next, id) = Kind(w, id)
  BY <1>1 DEF Kind, EntryIds
<1>6. w.next_id \notin EntryIds(w)
  BY DEF IdsBelowNext, IsWorkspace, EntryId
<1> QED BY <1>4, <1>5, <1>6 DEF Follows

LEMMA RenameFollows ==
  ASSUME NEW w, IsWorkspace(w), NEW id \in Nat, NEW name \in Names,
         NEW next \in Rename(w, id, name)
  PROVE  Follows(w, next) /\ EntryIds(w) \subseteq EntryIds(next)
<1>1. id \in EntryIds(w) /\ next = [w EXCEPT !.entries[id].name = name, !.revision = @ + 1]
  BY DEF Rename
<1>2. /\ w = [entries |-> w.entries, next_id |-> w.next_id, revision |-> w.revision]
      /\ w.entries \in [EntryIds(w) -> WorkspaceEntry]
      /\ w.next_id \in EntryId /\ w.revision \in Nat /\ EntryIds(w) \subseteq EntryId
      /\ IsFiniteSet(EntryIds(w))
  BY DEF IsWorkspace
<1>3. /\ next = [entries |-> next.entries, next_id |-> next.next_id, revision |-> next.revision]
      /\ next.entries = [w.entries EXCEPT ![id].name = name]
      /\ next.next_id = w.next_id
      /\ next.revision = w.revision + 1
  BY <1>1, <1>2
<1>4. [w.entries[id] EXCEPT !.name = name] \in WorkspaceEntry
  BY <1>1, <1>2 DEF WorkspaceEntry
<1>5. next.entries \in [EntryIds(w) -> WorkspaceEntry]
  BY <1>1, <1>2, <1>3, <1>4
<1>6. IsWorkspace(next) /\ EntryIds(next) = EntryIds(w) /\ next.next_id = w.next_id
  BY <1>2, <1>3, <1>5 DEF IsWorkspace, EntryIds
<1>7. \A one \in EntryIds(w) : Kind(next, one) = Kind(w, one)
  <2>1. [w.entries[id] EXCEPT !.name = name].kind = w.entries[id].kind
    BY <1>1, <1>2 DEF WorkspaceEntry
  <2>2. next.entries = [w.entries EXCEPT ![id] = [w.entries[id] EXCEPT !.name = name]]
    BY <1>3
  <2> QED BY <1>1, <1>2, <2>1, <2>2 DEF Kind
<1> QED BY <1>2, <1>6, <1>7 DEF Follows, EntryId

LEMMA DeleteFollows ==
  ASSUME NEW w, IsWorkspace(w), NEW id \in Nat, NEW next \in Delete(w, id)
  PROVE  Follows(w, next)
<1> DEFINE kept == EntryIds(w) \ Branch(w, id)
<1>1. next = [entries |-> [one \in kept |-> w.entries[one]],
              next_id |-> w.next_id,
              revision |-> w.revision + 1]
  BY DEF Delete
<1>2. kept \subseteq EntryIds(w) /\ IsFiniteSet(kept)
  BY FS_Subset DEF IsWorkspace
<1> HIDE DEF kept
<1>3. IsWorkspace(next) /\ EntryIds(next) = kept /\ next.next_id = w.next_id
  BY <1>1, <1>2 DEF IsWorkspace, EntryIds, EntryId
<1>4. \A one \in kept : Kind(next, one) = Kind(w, one)
  BY <1>1 DEF Kind
<1> QED BY <1>2, <1>3, <1>4 DEF Follows, IsWorkspace, EntryId

-----------------------------------------------------------------------------
(***************************************************************************)
(* When validate refuses an operation                                      *)
(***************************************************************************)

\* What a deletion leaves is valid: validate never refuses one (delete, validate).
THEOREM DeletionsAreValid ==
  ASSUME NEW w, IsWorkspace(w), Valid(w), NEW id \in Nat, NEW next \in Delete(w, id)
  PROVE  Valid(next)
<1> DEFINE ids == EntryIds(w)
           gone == Branch(w, id)
           kept == ids \ gone
<1>1. /\ id # ROOT_ID /\ id \in ids
      /\ next = [entries |-> [one \in kept |-> w.entries[one]],
                 next_id |-> w.next_id,
                 revision |-> w.revision + 1]
  BY DEF Delete
<1>2. /\ Cardinality(ids) \in 1..MaxEntries /\ IsFiniteSet(ids) /\ MaxEntries \in Nat
      /\ \A one \in ids : ValidName(w.entries[one].name)
      /\ RootIsFolder(w) /\ ParentsAreFolders(w) /\ SiblingNamesDiffer(w) /\ Rooted(w)
      /\ IdsBelowNext(w)
      /\ ids \subseteq EntryId
  BY TreeAssumption DEF Valid, IsWorkspace
<1>3. ROOT_ID \in kept
  <2>1. ROOT_ID \in ids /\ Parent(w, ROOT_ID) = NoEntry
    BY <1>2 DEF RootIsFolder
  <2> DEFINE S == ids \ {ROOT_ID}
  <2>2. NoEntry \notin S /\ S \in SUBSET ids /\ id \in S
    BY <1>1, <1>2 DEF EntryId
  <2>3. \A child \in ids : Parent(w, child) \in S => child \in S
    BY <2>1, <2>2
  <2> HIDE DEF S
  <2>4. \A member \in gone : member \in S
    BY <2>2, <2>3 DEF Branch
  <2> QED BY <2>1, <2>4 DEF S
<1>4. \A one \in kept \ {ROOT_ID} : Parent(w, one) \in kept
  <2>1. SUFFICES ASSUME NEW one \in kept \ {ROOT_ID}, Parent(w, one) \in gone PROVE one \in gone
    BY <1>2 DEF ParentsAreFolders
  <2>2. SUFFICES ASSUME NEW S \in SUBSET ids, id \in S,
                        \A child \in ids : Parent(w, child) \in S => child \in S
                 PROVE  one \in S
    BY DEF Branch
  <2>3. Parent(w, one) \in S
    BY <2>1, <2>2 DEF Branch
  <2> QED BY <2>2, <2>3
<1>5. kept \subseteq ids
  OBVIOUS
<1> HIDE DEF kept, gone
<1>6. /\ EntryIds(next) = kept /\ next.next_id = w.next_id
      /\ \A one \in kept : next.entries[one] = w.entries[one]
  BY <1>1 DEF EntryIds
<1>7. Cardinality(kept) \in 1..MaxEntries
  <2>1. IsFiniteSet(kept) /\ Cardinality(kept) <= Cardinality(ids)
    BY <1>2, <1>5, FS_Subset
  <2>2. Cardinality(kept) \in Nat /\ Cardinality(kept) # 0
    BY <1>3, <2>1, FS_EmptySet, FS_CardinalityType
  <2> QED BY <1>2, <2>1, <2>2
<1>8. \A one \in kept : Parent(next, one) = Parent(w, one) /\ Kind(next, one) = Kind(w, one)
  BY <1>6 DEF Parent, Kind
<1>9. RootIsFolder(next)
  BY <1>2, <1>3, <1>6, <1>8 DEF RootIsFolder
<1>10. ParentsAreFolders(next)
  BY <1>2, <1>4, <1>5, <1>6, <1>8 DEF ParentsAreFolders
<1>11. SiblingNamesDiffer(next)
  BY <1>2, <1>5, <1>6, <1>8 DEF SiblingNamesDiffer
<1>12. Rooted(next)
  BY <1>2, <1>5, <1>6, <1>8 DEF Rooted
<1> QED BY <1>2, <1>5, <1>6, <1>7, <1>9, <1>10, <1>11, <1>12 DEF Valid, IdsBelowNext

\* What a creation makes is valid where the two foldings of names agree: only a
\* name they fold differently passes ensure_unique_name and is refused by validate.
THEOREM CreationsAreValid ==
  ASSUME NEW w, IsWorkspace(w), Valid(w), NEW parentId \in Nat, NEW kind \in {"folder", "note"},
         NEW name \in Names, NEW next \in Create(w, parentId, kind, name),
         \A one, other \in Names : CaseFold[one] = CaseFold[other] => AsciiFold[one] = AsciiFold[other]
  PROVE  Valid(next)
<1> DEFINE ids == EntryIds(w)
           new == w.next_id
<1>1. /\ Cardinality(ids) < MaxEntries /\ parentId \in ids /\ Kind(w, parentId) = "folder"
      /\ ValidName(name)
      /\ NameIsFree(w, parentId, name, NoEntry)
      /\ next = [entries |-> [id \in ids \cup {new} |->
                   IF id = new THEN Entry(parentId, kind, name) ELSE w.entries[id]],
                 next_id |-> w.next_id + 1,
                 revision |-> w.revision + 1]
  BY DEF Create
<1>2. /\ Cardinality(ids) \in 1..MaxEntries /\ IsFiniteSet(ids) /\ MaxEntries \in Nat
      /\ \A one \in ids : ValidName(w.entries[one].name)
      /\ RootIsFolder(w) /\ ParentsAreFolders(w) /\ SiblingNamesDiffer(w) /\ Rooted(w)
      /\ IdsBelowNext(w)
      /\ ids \subseteq EntryId /\ new \in Nat
      /\ \A one \in ids : w.entries[one].name \in Names
  BY TreeAssumption DEF Valid, IsWorkspace, EntryId, WorkspaceEntry
<1>3. new \notin ids /\ ROOT_ID \in ids /\ new # ROOT_ID
  BY <1>2 DEF IdsBelowNext, RootIsFolder, EntryId
<1>4. /\ EntryIds(next) = ids \cup {new} /\ next.next_id = new + 1
      /\ \A one \in ids : next.entries[one] = w.entries[one]
      /\ next.entries[new].parent = parentId /\ next.entries[new].kind = kind
      /\ next.entries[new].name = name
  BY <1>1, <1>3 DEF EntryIds, Entry
<1>5. /\ \A one \in ids : Parent(next, one) = Parent(w, one) /\ Kind(next, one) = Kind(w, one)
      /\ Parent(next, new) = parentId
  BY <1>4 DEF Parent, Kind
<1> HIDE DEF new
<1>6. Cardinality(ids \cup {new}) \in 1..MaxEntries
  <2>1. Cardinality(ids \cup {new}) = Cardinality(ids) + 1
    BY <1>2, <1>3, FS_AddElement
  <2> QED BY <1>1, <1>2, <2>1
<1>7. RootIsFolder(next)
  BY <1>2, <1>3, <1>4, <1>5 DEF RootIsFolder
<1>8. ParentsAreFolders(next)
  <2>1. SUFFICES ASSUME NEW id \in EntryIds(next) \ {ROOT_ID}
                 PROVE  Parent(next, id) \in EntryIds(next) /\ Kind(next, Parent(next, id)) = "folder"
    BY DEF ParentsAreFolders
  <2>2. CASE id = new
    BY <1>1, <1>4, <1>5, <2>2
  <2>3. CASE id # new
    <3>1. id \in ids \ {ROOT_ID}
      BY <1>4, <2>1, <2>3
    <3>2. Parent(w, id) \in ids /\ Kind(w, Parent(w, id)) = "folder"
      BY <1>2, <3>1 DEF ParentsAreFolders
    <3> QED BY <1>4, <1>5, <3>1, <3>2
  <2> QED BY <2>2, <2>3
<1>9. SiblingNamesDiffer(next)
  <2>1. \A one \in ids \ {ROOT_ID} : Parent(w, one) = parentId =>
          CaseFold[w.entries[one].name] # CaseFold[name]
    <3>1. SUFFICES ASSUME NEW one \in ids \ {ROOT_ID}, Parent(w, one) = parentId
                   PROVE  CaseFold[w.entries[one].name] # CaseFold[name]
      OBVIOUS
    <3>2. AsciiFold[w.entries[one].name] # AsciiFold[name]
      BY <1>1, <1>2, <3>1 DEF NameIsFree, EntryId
    <3> QED BY <1>2, <3>2
  <2> QED BY <1>2, <1>3, <1>4, <1>5, <2>1 DEF SiblingNamesDiffer
<1>10. Rooted(next)
  <2>1. SUFFICES ASSUME NEW S \in (SUBSET (EntryIds(next) \ {ROOT_ID})) \ {{}}
                 PROVE  \E id \in S : Parent(next, id) \notin S
    BY DEF Rooted
  <2>2. CASE S \ {new} = {}
    <3>1. \A x \in S : x = new
      BY <2>2
    <3>2. S # {}
      BY <2>1
    <3>3. PICK id \in S : id = new
      BY <3>1, <3>2
    <3> QED BY <1>1, <1>3, <1>5, <3>1, <3>3
  <2>3. CASE S \ {new} # {}
    <3>1. S \ {new} \in (SUBSET (ids \ {ROOT_ID})) \ {{}}
      <4>1. \A x \in S \ {new} : x \in ids \ {ROOT_ID}
        BY <1>4, <2>1
      <4> QED BY <2>3, <4>1
    <3>2. PICK id \in S \ {new} : Parent(w, id) \notin S \ {new}
      BY <1>2, <3>1 DEF Rooted
    <3>3. id \in ids \ {ROOT_ID} /\ Parent(w, id) \in ids
      BY <1>2, <1>4, <2>1, <3>2 DEF ParentsAreFolders
    <3> QED BY <1>3, <1>5, <3>2, <3>3
  <2> QED BY <2>2, <2>3
<1>11. IdsBelowNext(next)
  BY <1>2, <1>4 DEF IdsBelowNext, EntryId, new
<1>12. \A one \in EntryIds(next) : ValidName(next.entries[one].name)
  BY <1>1, <1>2, <1>4
<1> QED BY <1>4, <1>6, <1>7, <1>8, <1>9, <1>10, <1>11, <1>12 DEF Valid

-----------------------------------------------------------------------------
(***************************************************************************)
(* The kernel                                                              *)
(***************************************************************************)

\* What a command leaves behind.
KernelMoves ==
  /\ IsWorkspace(tree') /\ Valid(tree')
  /\ envelopes' \in [DOMAIN envelopes' -> Document] /\ DOMAIN envelopes' \subseteq EntryId
  /\ activeEntry' \in EntryIds(tree')
  /\ activeLease' \in DocumentLease
  /\ IdsAreSpent'
  /\ events' \in 0..EventCapacity
  /\ reply' \in Reply
  /\ behind' \in Nat
  /\ \A id \in EntryIds(tree') \ EntryIds(tree) : id \notin DOMAIN envelopes

LEMMA AnswerIsReply ==
  ASSUME ShellInv, NEW result \in {"ok", "error"}, NEW created \in Nat, Answer(result, created)
  PROVE  reply' \in Reply
BY DEF ShellInv, ShellTypeOK, Answer, Reply

LEMMA RefuseMoves ==
  ASSUME ShellInv, Refuse
  PROVE  KernelMoves
<1>1. reply' \in Reply
  BY AnswerIsReply DEF Refuse, NoEntry
<1>2. UNCHANGED <<tree, envelopes, activeEntry, activeLease, events, behind>>
  BY DEF Refuse, durable, selection
<1> QED BY <1>1, <1>2 DEF KernelMoves, ShellInv, ShellTypeOK, ManifestReopens, IdsAreSpent

\* The lease on a note of the tree.
LEMMA LeaseTypes ==
  ASSUME ShellInv, NEW id \in EntryIds(tree)
  PROVE  /\ id \in EntryId /\ id < tree.next_id
         /\ Stored(envelopes, id) \in Document
         /\ OpenDocument(id) \in DocumentLease /\ OpenDocument(id).note = id
         /\ LeaseOf(tree, id) \in DocumentLease
         /\ LeaseOf(tree, id) # NothingOpen => LeaseOf(tree, id).note = id
<1>1. id \in EntryId /\ id < tree.next_id /\ id \in Nat
  BY DEF ShellInv, ShellTypeOK, ManifestReopens, Valid, IdsBelowNext, IsWorkspace, EntryId
<1>2. Stored(envelopes, id) \in Document
  BY <1>1 DEF ShellInv, ShellTypeOK, Stored, Document, Text, Blank
<1>3. OpenDocument(id) \in DocumentLease /\ OpenDocument(id).note = id
  BY <1>1, <1>2 DEF OpenDocument, LeaseOn, Document, DocumentLease
<1>4. NothingOpen \in DocumentLease
  BY DEF NothingOpen, NoText, DocumentLease, Text, NoEntry
<1> QED BY <1>1, <1>2, <1>3, <1>4 DEF LeaseOf

LEMMA SelectMoves ==
  ASSUME ShellInv, events < EventCapacity, NEW id \in Nat, ApplySelect(id)
  PROVE  KernelMoves
<1>1. CASE Refuse
  BY <1>1, RefuseMoves
<1>2. CASE /\ id \in EntryIds(tree)
           /\ activeEntry' = id
           /\ activeLease' = LeaseOf(tree, id)
           /\ PushEvent
           /\ Answer("ok", NoEntry)
           /\ UNCHANGED <<durable, behind>>
  <2>1. reply' \in Reply
    BY <1>2, AnswerIsReply DEF NoEntry
  <2>2. UNCHANGED <<tree, envelopes, behind>> /\ events' = events + 1
    BY <1>2 DEF durable, PushEvent
  <2>3. /\ id \in EntryId /\ id < tree.next_id
        /\ LeaseOf(tree, id) \in DocumentLease
        /\ LeaseOf(tree, id) # NothingOpen => LeaseOf(tree, id).note = id
    BY <1>2, LeaseTypes
  <2>4. IdsAreSpent'
    BY <1>2, <2>2, <2>3 DEF ShellInv, IdsAreSpent
  <2>5. events' \in 0..EventCapacity
    BY <2>2, ShellAssumption DEF ShellInv, ShellTypeOK
  <2> QED BY <1>2, <2>1, <2>2, <2>3, <2>4, <2>5
          DEF KernelMoves, ShellInv, ShellTypeOK, ManifestReopens
<1> QED BY <1>1, <1>2 DEF ApplySelect

LEMMA MutationMoves ==
  ASSUME ShellInv, events < EventCapacity, NEW candidates, NEW created \in Nat,
         \A w \in candidates : Follows(tree, w),
         ApplyMutation(candidates, created)
  PROVE  KernelMoves
<1>1. CASE Refuse
  BY <1>1, RefuseMoves
<1>2. CASE ~Refuse
  <2>1. PICK w \in candidates :
          /\ Valid(w)
          /\ tree' = w
          /\ activeEntry' = IF activeEntry \in EntryIds(w) THEN activeEntry ELSE ROOT_ID
          /\ activeLease' = IF activeEntry \in EntryIds(w) THEN activeLease ELSE NothingOpen
          /\ PushEvent
          /\ Answer("ok", created)
          /\ UNCHANGED <<envelopes, behind>>
    BY <1>2 DEF ApplyMutation
  <2>2. reply' \in Reply
    BY <2>1, AnswerIsReply
  <2>3. /\ IsWorkspace(w) /\ w.next_id \in Nat /\ tree.next_id \in Nat
        /\ EntryIds(w) \subseteq EntryIds(tree) \cup {tree.next_id}
        /\ w.next_id >= tree.next_id
        /\ \A id \in DOMAIN envelopes : id \in Nat
    BY DEF Follows, IsWorkspace, EntryId, ShellInv, ShellTypeOK
  <2>4. activeEntry' \in EntryIds(w) /\ activeLease' \in DocumentLease
    BY <2>1 DEF Valid, RootIsFolder, ShellInv, ShellTypeOK, NothingOpen, NoText, DocumentLease,
       Text, NoEntry
  <2>5. IdsAreSpent'
    <3>1. \A note \in DOMAIN envelopes : note < w.next_id
      BY <2>3 DEF ShellInv, IdsAreSpent
    <3>2. activeLease' # NothingOpen => activeLease'.note \in EntryId /\ activeLease'.note < w.next_id
      BY <2>1, <2>3 DEF ShellInv, IdsAreSpent, EntryId
    <3> QED BY <2>1, <3>1, <3>2 DEF IdsAreSpent
  <2>6. \A id \in EntryIds(w) \ EntryIds(tree) : id \notin DOMAIN envelopes
    BY <2>3 DEF ShellInv, IdsAreSpent
  <2>7. events' \in 0..EventCapacity
    BY <2>1, ShellAssumption DEF ShellInv, ShellTypeOK, PushEvent
  <2> QED BY <2>1, <2>2, <2>3, <2>4, <2>5, <2>6, <2>7 DEF KernelMoves, ShellInv, ShellTypeOK
<1> QED BY <1>1, <1>2

LEMMA SaveMoves ==
  ASSUME ShellInv, events < EventCapacity, NEW base \in DocumentLease, NEW text \in Text,
         ApplySave(base, text)
  PROVE  KernelMoves
<1> DEFINE note == base.note
           next == [revision |-> base.revision + 1, text |-> text]
           files == IF SameContent(text, base.text) THEN envelopes
                    ELSE [id \in DOMAIN envelopes \cup {note} |->
                            IF id = note THEN next ELSE envelopes[id]]
<1>1. CASE Refuse
  BY <1>1, RefuseMoves
<1>2. CASE ~Refuse
  <2>1. /\ activeLease # NothingOpen /\ activeLease = base
        /\ envelopes' = files
        /\ UNCHANGED <<tree, activeEntry>>
    BY <1>2 DEF ApplySave
  <2>2. \/ activeLease' = LeaseOn(note, Stored(files, note))
        \/ activeLease' = activeLease
    BY <1>2 DEF ApplySave
  <2>3. /\ events' = events + 1 \/ events' = events
        /\ reply' \in Reply
        /\ behind' = behind \/ behind' = behind + 1
    <3>1. Answer("ok", NoEntry) \/ Answer("error", NoEntry)
      BY <1>2 DEF ApplySave
    <3> QED BY <1>2, <3>1, AnswerIsReply DEF ApplySave, PushEvent, NoEntry
  <2>4. note \in EntryId /\ note < tree.next_id
    BY <2>1 DEF ShellInv, IdsAreSpent
  <2>5. next \in Document
    BY DEF Document, DocumentLease
  <2> HIDE DEF note, next
  <2>6. /\ files \in [DOMAIN files -> Document] /\ DOMAIN files \subseteq EntryId
        /\ \A id \in DOMAIN files : id < tree.next_id
    BY <2>4, <2>5 DEF ShellInv, ShellTypeOK, IdsAreSpent
  <2> HIDE DEF files
  <2>7. Stored(files, note) \in Document
    BY <2>4, <2>6 DEF Stored, Document, Blank, Text, EntryId
  <2>8. LeaseOn(note, Stored(files, note)) \in DocumentLease
        /\ LeaseOn(note, Stored(files, note)).note = note
    BY <2>4, <2>7 DEF LeaseOn, Document, DocumentLease, EntryId
  <2>9. activeLease' \in DocumentLease /\ activeLease'.note = note
    BY <2>1, <2>2, <2>8 DEF ShellInv, ShellTypeOK, note
  <2>10. IdsAreSpent'
    BY <2>1, <2>4, <2>6, <2>9 DEF IdsAreSpent
  <2>11. events' \in 0..EventCapacity /\ behind' \in Nat
    BY <2>3, ShellAssumption DEF ShellInv, ShellTypeOK
  <2> QED BY <2>1, <2>3, <2>6, <2>9, <2>10, <2>11
          DEF KernelMoves, ShellInv, ShellTypeOK, ManifestReopens
<1> QED BY <1>1, <1>2

LEMMA ViewMoves ==
  ASSUME ShellInv, events < EventCapacity, ApplyView
  PROVE  KernelMoves
<1>1. reply' \in Reply
  BY AnswerIsReply DEF ApplyView, NoEntry
<1>2. events' = events + 1 /\ UNCHANGED <<tree, envelopes, activeEntry, activeLease, behind>>
  BY DEF ApplyView, PushEvent, durable, selection
<1>3. events' \in 0..EventCapacity
  BY <1>2, ShellAssumption DEF ShellInv, ShellTypeOK
<1> QED BY <1>1, <1>2, <1>3 DEF KernelMoves, ShellInv, ShellTypeOK, ManifestReopens, IdsAreSpent

LEMMA CommandFields ==
  ASSUME NEW command \in Command
  PROVE  /\ command.op \in {"select", "delete", "rename"} => command.id \in Nat
         /\ command.op = "create" => command.kind \in {"folder", "note"}
         /\ command.op \in {"create", "rename"} => command.name \in Names
         /\ command.op = "save" => command.lease \in DocumentLease /\ command.text \in Text
BY DEF Command

LEMMA ApplyMoves ==
  ASSUME ShellInv, events < EventCapacity, NEW command \in Command, Apply(command)
  PROVE  KernelMoves
<1>1. /\ IsWorkspace(tree) /\ IdsBelowNext(tree)
      /\ tree.next_id \in Nat /\ NoEntry \in Nat
  BY DEF ShellInv, ShellTypeOK, ManifestReopens, Valid, IsWorkspace, EntryId, NoEntry
<1>2. CASE command.op = "select" /\ ApplySelect(command.id)
  BY <1>2, SelectMoves, CommandFields
<1>3. CASE /\ command.op = "create"
           /\ ApplyMutation(
                Create(tree, ParentForCreate(tree, activeEntry), command.kind, command.name),
                tree.next_id)
  <2>1. ParentForCreate(tree, activeEntry) \in Nat
    BY <1>1 DEF ParentForCreate, ShellInv, IsWorkspace, Parent, WorkspaceEntry, EntryId
  <2>2. \A w \in Create(tree, ParentForCreate(tree, activeEntry), command.kind, command.name) :
          Follows(tree, w)
    BY <1>1, <1>3, <2>1, CommandFields, CreateFollows
  <2> QED BY <1>1, <1>3, <2>2, MutationMoves
<1>4. CASE command.op = "rename" /\ ApplyMutation(Rename(tree, command.id, command.name), NoEntry)
  <2>1. \A w \in Rename(tree, command.id, command.name) : Follows(tree, w)
    BY <1>1, <1>4, CommandFields, RenameFollows
  <2> QED BY <1>1, <1>4, <2>1, MutationMoves
<1>5. CASE command.op = "delete" /\ ApplyMutation(Delete(tree, command.id), NoEntry)
  <2>1. \A w \in Delete(tree, command.id) : Follows(tree, w)
    BY <1>1, <1>5, CommandFields, DeleteFollows
  <2> QED BY <1>1, <1>5, <2>1, MutationMoves
<1>6. CASE command.op = "save" /\ ApplySave(command.lease, command.text)
  BY <1>6, SaveMoves, CommandFields
<1>7. CASE command.op = "view" /\ ApplyView
  BY <1>7, ViewMoves
<1> QED BY <1>2, <1>3, <1>4, <1>5, <1>6, <1>7 DEF Apply

LEMMA WorkKeeps ==
  ASSUME ShellInv, Work
  PROVE  /\ ShellInv'
         /\ \A id \in EntryIds(tree') \ EntryIds(tree) : id \notin DOMAIN envelopes
<1>1. /\ queue \in Seq(Command) /\ queue # <<>> /\ Len(queue) <= CommandCapacity
      /\ CommandCapacity \in Nat /\ EventCapacity \in Nat /\ events \in 0..EventCapacity
  BY ShellAssumption DEF Work, ShellInv, ShellTypeOK
<1>2. Head(queue) \in Command /\ Tail(queue) \in Seq(Command) /\ Len(Tail(queue)) <= CommandCapacity
  BY <1>1
<1>3. KernelMoves
  <2>1. CASE events < EventCapacity
    BY <1>2, <2>1, ApplyMoves DEF Work, Room
  <2>2. CASE ~(events < EventCapacity)
    BY <2>2, RefuseMoves DEF Work, Room
  <2> QED BY <2>1, <2>2
<1>4. queue' = Tail(queue) /\ UNCHANGED <<editor, armed, within, parent, typed, late, restarts>>
  BY DEF Work, shell
<1>5. activeEntry' \in EntryId
  BY <1>3 DEF KernelMoves, IsWorkspace
<1>6. ShellTypeOK'
  BY <1>2, <1>3, <1>4, <1>5 DEF KernelMoves, ShellInv, ShellTypeOK
<1> QED BY <1>3, <1>6 DEF KernelMoves, ShellInv, ManifestReopens

-----------------------------------------------------------------------------
(***************************************************************************)
(* The shell                                                               *)
(***************************************************************************)

Editor == [lease: DocumentLease, text: Text, dirty: BOOLEAN]

\* What a handler's step leaves behind: the kernel as it was.
HandlerMoves ==
  /\ UNCHANGED <<tree, envelopes, activeEntry, activeLease, behind, restarts>>
  /\ events' \in 0..EventCapacity
  /\ queue' \in Seq(Command) /\ Len(queue') <= CommandCapacity
  /\ editor' \in Editor
  /\ armed' \in Nat
  /\ within' \in Handlers \cup {"idle"}
  /\ reply' \in Reply
  /\ parent' \in Nat
  /\ typed' \in Nat /\ late' \in Nat

LEMMA SendMoves ==
  ASSUME ShellInv, NEW command \in Command, NEW handler \in Handlers, Send(command, handler)
  PROVE  /\ queue' \in Seq(Command) /\ Len(queue') <= CommandCapacity
         /\ within' \in Handlers \cup {"idle"}
         /\ reply' \in Reply
<1>1. queue \in Seq(Command) /\ Len(queue) <= CommandCapacity /\ CommandCapacity \in Nat
  BY ShellAssumption DEF ShellInv, ShellTypeOK
<1>2. CASE Len(queue) < CommandCapacity
  <2>1. queue' = Append(queue, command) /\ reply' = NoReply /\ within' = handler
    BY <1>2 DEF Send
  <2> QED BY <1>1, <1>2, <2>1 DEF Reply, NoReply, NoEntry
<1>3. CASE ~(Len(queue) < CommandCapacity)
  BY <1>1, <1>3 DEF Send, Reply, Failed, NoEntry
<1> QED BY <1>2, <1>3

LEMMA CommandTypes ==
  /\ \A id \in Nat : [op |-> "select", id |-> id] \in Command
  /\ \A id \in Nat : [op |-> "delete", id |-> id] \in Command
  /\ \A kind \in {"folder", "note"}, name \in Names :
       [op |-> "create", kind |-> kind, name |-> name] \in Command
  /\ \A id \in Nat, name \in Names : [op |-> "rename", id |-> id, name |-> name] \in Command
  /\ \A lease \in DocumentLease, text \in Text :
       [op |-> "save", lease |-> lease, text |-> text] \in Command
  /\ [op |-> "view"] \in Command
BY DEF Command

LEMMA GoOnMoves ==
  ASSUME ShellInv, GoOn
  PROVE  /\ queue' \in Seq(Command) /\ Len(queue') <= CommandCapacity
         /\ within' \in Handlers \cup {"idle"}
         /\ reply' \in Reply
BY DEF GoOn, ShellInv, ShellTypeOK, Reply, NoReply, NoEntry

\* What stays typed when it is not touched, and what it is reset to.
LEMMA ShellFacts ==
  ASSUME ShellInv
  PROVE  /\ events \in 0..EventCapacity /\ 0 \in 0..EventCapacity
         /\ queue \in Seq(Command) /\ Len(queue) <= CommandCapacity
         /\ editor \in Editor /\ editor.lease \in DocumentLease /\ editor.text \in Text
         /\ Reloaded \in Editor
         /\ activeLease \in DocumentLease
         /\ [editor EXCEPT !.lease = activeLease] \in Editor
         /\ [editor EXCEPT !.lease = activeLease, !.dirty = FALSE] \in Editor
         /\ armed \in Nat /\ NoEntry \in Nat /\ activeEntry \in Nat
         /\ EntryIds(tree) \subseteq Nat
         /\ Parent(tree, activeEntry) \in Nat
         /\ within \in Handlers \cup {"idle"}
         /\ reply \in Reply /\ reply.created \in Nat
         /\ parent \in Nat
         /\ typed \in Nat /\ late \in Nat
<1>1. /\ ShellTypeOK /\ activeEntry \in EntryIds(tree) /\ IsWorkspace(tree)
  BY DEF ShellInv, ShellTypeOK
<1>2. editor \in Editor /\ editor.lease \in DocumentLease /\ editor.text \in Text
  BY <1>1 DEF ShellTypeOK, Editor
<1>3. Reloaded \in Editor
  BY <1>1, <1>2 DEF ShellTypeOK, Reloaded, Editor, DocumentLease
<1>4. /\ [editor EXCEPT !.lease = activeLease] \in Editor
      /\ [editor EXCEPT !.lease = activeLease, !.dirty = FALSE] \in Editor
  BY <1>1, <1>2 DEF ShellTypeOK, Editor
<1>5. EntryIds(tree) \subseteq Nat /\ Parent(tree, activeEntry) \in Nat
  BY <1>1 DEF IsWorkspace, EntryId, Parent, WorkspaceEntry
<1> QED BY <1>1, <1>2, <1>3, <1>4, <1>5, ShellAssumption DEF ShellTypeOK, Reply, NoEntry, EntryId

LEMMA LateIsNat ==
  ASSUME ShellInv, NEW handler,
         Succeeded(handler) \/ NotDone(handler) \/ Returned(handler) \/ GaveUp(handler)
  PROVE  late' \in Nat
BY ShellFacts DEF Succeeded, NotDone, Returned, GaveUp

LEMMA HandlerKeeps ==
  ASSUME ShellInv, Handler
  PROVE  HandlerMoves
<1> USE ShellFacts DEF HandlerMoves, kernel, counts, durable, selection
<1>1. CASE Edit
  <2>1. /\ editor' = [editor EXCEPT !.text.version = typed + 1, !.dirty = TRUE]
        /\ typed' = typed + 1
    BY <1>1 DEF Edit
  <2>2. [editor.text EXCEPT !.version = typed + 1] \in Text
    <3>1. editor.text \in Text /\ typed + 1 \in Nat
      OBVIOUS
    <3>2. editor.text = [of |-> editor.text.of, version |-> editor.text.version]
          /\ editor.text.of \in Nat
      BY <3>1 DEF Text
    <3>3. [editor.text EXCEPT !.version = typed + 1] = [of |-> editor.text.of, version |-> typed + 1]
      BY <3>2
    <3> QED BY <3>1, <3>2, <3>3 DEF Text
  <2>3. editor' = [lease |-> editor.lease, text |-> [editor.text EXCEPT !.version = typed + 1],
                   dirty |-> TRUE]
    BY <2>1 DEF Editor
  <2>4. editor' \in Editor
    BY <2>2, <2>3 DEF Editor
  <2> QED BY <1>1, <2>1, <2>4 DEF Edit
<1>2. CASE \E id \in EntryIds(tree) : ClickEntry(id)
  BY <1>2, SendMoves, CommandTypes DEF ClickEntry, Handlers
<1>3. CASE EntrySelected \/ CreatedOpened \/ ParentOpened
  BY <1>3, GoOnMoves, LateIsNat DEF EntrySelected, CreatedOpened, ParentOpened, Drain
<1>4. CASE EntryNotSelected \/ CreatedNotOpened \/ Renamed \/ EditNotCommitted \/ EntryNotDeleted
             \/ StyleSet \/ ViewDone
  BY <1>4, GoOnMoves, LateIsNat DEF EntryNotSelected, CreatedNotOpened, Renamed, EditNotCommitted,
     EntryNotDeleted, StyleSet, ViewDone, Drain
<1>5. CASE SetEditMode
  BY <1>5 DEF SetEditMode
<1>6. CASE \E kind \in {"folder", "note"}, name \in TypedNames : CommitCreate(kind, name)
  BY <1>6, SendMoves, CommandTypes, ShellAssumption DEF CommitCreate, Handlers
<1>7. CASE EntryCreated
  BY <1>7, SendMoves, GoOnMoves, LateIsNat, CommandTypes DEF EntryCreated, Handlers, Drain
<1>8. CASE \E name \in TypedNames : CommitRename(name)
  BY <1>8, SendMoves, CommandTypes, ShellAssumption DEF CommitRename, Handlers
<1>9. CASE PressDelete
  BY <1>9, SendMoves, CommandTypes DEF PressDelete, Handlers
<1>10. CASE EntryDeleted
  BY <1>10, SendMoves, LateIsNat, CommandTypes DEF EntryDeleted, Handlers
<1>11. CASE RequestSave \/ RequestTag
  BY <1>11, SendMoves, CommandTypes DEF RequestSave, RequestTag, Handlers
<1>12. CASE Saved \/ NotSaved
  BY <1>12, GoOnMoves, LateIsNat DEF Saved, NotSaved, Drain
<1>13. CASE ClickView("manifold") \/ ClickView("style")
  BY <1>13, SendMoves, CommandTypes DEF ClickView, Handlers
<1> QED BY <1>1, <1>2, <1>3, <1>4, <1>5, <1>6, <1>7, <1>8, <1>9, <1>10, <1>11, <1>12, <1>13
        DEF Handler

-----------------------------------------------------------------------------
(***************************************************************************)
(* Start and end                                                           *)
(***************************************************************************)

\* What a start makes of a manifest and its documents.
LEMMA StartTypes ==
  ASSUME NEW w, IsWorkspace(w), Valid(w),
         NEW files, files \in [DOMAIN files -> Document]
  PROVE  LET start == StartsOn(w, files) IN
         /\ start.activeEntry \in EntryIds(w)
         /\ start.lease \in DocumentLease
         /\ start.lease # NothingOpen => start.lease.note \in EntryIds(w)
         /\ start.editor \in Editor
<1> DEFINE note == FirstNote(w)
           start == StartsOn(w, files)
<1>1. note \in NotesOf(w) \cup {NoEntry} /\ NotesOf(w) \subseteq EntryIds(w)
  BY FirstNoteIsOne DEF NotesOf
<1>2. EntryIds(w) \subseteq EntryId /\ ROOT_ID \in EntryIds(w)
  BY DEF IsWorkspace, Valid, RootIsFolder
<1>3. NothingOpen \in DocumentLease
  BY DEF NothingOpen, NoText, DocumentLease, Text, NoEntry
<1>4. /\ start.activeEntry = IF note = NoEntry THEN ROOT_ID ELSE note
      /\ start.editor = [lease |-> start.lease, text |-> start.lease.text, dirty |-> FALSE]
      /\ start.lease = IF note = NoEntry THEN NothingOpen ELSE LeaseOn(note, Stored(files, note))
  BY DEF StartsOn
<1> HIDE DEF note
<1>5. CASE note = NoEntry
  BY <1>2, <1>3, <1>4, <1>5 DEF Editor, DocumentLease
<1>6. CASE note # NoEntry
  <2>1. note \in EntryIds(w) /\ note \in Nat
    BY <1>1, <1>2, <1>6 DEF EntryId
  <2>2. Stored(files, note) \in Document
    BY <2>1 DEF Stored, Document, Blank, Text
  <2>3. LeaseOn(note, Stored(files, note)) \in DocumentLease
        /\ LeaseOn(note, Stored(files, note)).note = note
    BY <2>1, <2>2 DEF LeaseOn, Document, DocumentLease
  <2> QED BY <1>4, <1>6, <2>1, <2>3 DEF Editor, DocumentLease
<1> QED BY <1>5, <1>6

LEMMA ShellInitHolds == ShellInit => ShellInv
<1> SUFFICES ASSUME ShellInit PROVE ShellInv
  OBVIOUS
<1> DEFINE start == StartsOn(tree, envelopes)
<1>1. IsWorkspace(tree) /\ Valid(tree)
  BY ShellAssumption DEF ShellInit
<1>2. DOMAIN envelopes = {} /\ envelopes \in [DOMAIN envelopes -> Document]
  BY DEF ShellInit
<1>3. /\ start.activeEntry \in EntryIds(tree)
      /\ start.lease \in DocumentLease
      /\ start.lease # NothingOpen => start.lease.note \in EntryIds(tree)
      /\ start.editor \in Editor
  BY <1>1, <1>2, StartTypes
<1>4. activeEntry = start.activeEntry /\ activeLease = start.lease /\ editor = start.editor
  BY DEF ShellInit
<1> HIDE DEF start
<1>5. /\ events = 0 /\ queue = <<>> /\ armed = 0 /\ within = "idle" /\ reply = NoReply
      /\ parent = 0 /\ typed = 0 /\ late = 0 /\ behind = 0 /\ restarts = 0
  BY DEF ShellInit, NoEntry
<1>6. EntryIds(tree) \subseteq EntryId /\ IdsBelowNext(tree)
  BY <1>1 DEF IsWorkspace, Valid
<1>7. ShellTypeOK
  BY <1>1, <1>2, <1>3, <1>4, <1>5, <1>6, ShellAssumption
     DEF ShellTypeOK, Editor, Reply, NoReply, NoEntry
<1>8. IdsAreSpent
  BY <1>2, <1>3, <1>4, <1>6 DEF IdsAreSpent, IdsBelowNext
<1> QED BY <1>1, <1>3, <1>4, <1>7, <1>8 DEF ShellInv, ManifestReopens

LEMMA RestartKeeps ==
  ASSUME ShellInv, Restart
  PROVE  ShellInv'
<1> DEFINE start == StartsOn(tree, envelopes)
<1>1. /\ IsWorkspace(tree) /\ Valid(tree) /\ envelopes \in [DOMAIN envelopes -> Document]
      /\ DOMAIN envelopes \subseteq EntryId
      /\ \A note \in DOMAIN envelopes : note < tree.next_id
      /\ restarts \in Nat /\ typed \in Nat /\ late \in Nat /\ behind \in Nat
  BY DEF ShellInv, ShellTypeOK, ManifestReopens, IdsAreSpent
<1>2. /\ start.activeEntry \in EntryIds(tree)
      /\ start.lease \in DocumentLease
      /\ start.lease # NothingOpen => start.lease.note \in EntryIds(tree)
      /\ start.editor \in Editor
  BY <1>1, StartTypes
<1>3. activeEntry' = start.activeEntry /\ activeLease' = start.lease /\ editor' = start.editor
  BY DEF Restart
<1> HIDE DEF start
<1>4. /\ events' = 0 /\ queue' = <<>> /\ armed' = 0 /\ within' = "idle" /\ reply' = NoReply
      /\ parent' = 0 /\ restarts' = restarts + 1
      /\ UNCHANGED <<tree, envelopes, typed, late, behind>>
  BY DEF Restart, NoEntry, durable
<1>5. EntryIds(tree) \subseteq EntryId /\ IdsBelowNext(tree)
  BY <1>1 DEF IsWorkspace, Valid
<1>6. ShellTypeOK'
  BY <1>1, <1>2, <1>3, <1>4, <1>5, ShellAssumption
     DEF ShellTypeOK, Editor, Reply, NoReply, NoEntry
<1>7. IdsAreSpent'
  BY <1>1, <1>2, <1>3, <1>4, <1>5 DEF IdsAreSpent, IdsBelowNext
<1> QED BY <1>1, <1>2, <1>3, <1>4, <1>6, <1>7 DEF ShellInv, ManifestReopens

LEMMA ShellStep ==
  ShellInv /\ [ShellNext]_shellVars =>
    /\ ShellInv'
    /\ \A id \in EntryIds(tree') \ EntryIds(tree) : id \notin DOMAIN envelopes
<1> SUFFICES ASSUME ShellInv, [ShellNext]_shellVars
             PROVE  /\ ShellInv'
                    /\ \A id \in EntryIds(tree') \ EntryIds(tree) : id \notin DOMAIN envelopes
  OBVIOUS
<1>1. CASE Work
  BY <1>1, WorkKeeps
<1>2. CASE Handler
  <2>1. HandlerMoves
    BY <1>2, HandlerKeeps
  <2> QED BY <2>1 DEF HandlerMoves, Editor, ShellInv, ShellTypeOK, ManifestReopens, IdsAreSpent
<1>3. CASE Restart
  <2>1. tree' = tree
    BY <1>3 DEF Restart, durable
  <2> QED BY <1>3, <2>1, RestartKeeps
<1>4. CASE UNCHANGED shellVars
  BY <1>4 DEF shellVars, durable, selection, shell, history, ShellInv, ShellTypeOK,
     ManifestReopens, IdsAreSpent
<1> QED BY <1>1, <1>2, <1>3, <1>4 DEF ShellNext

LEMMA ShellInvAlways == ShellSpec => []ShellInv
<1>1. ShellInv /\ [ShellNext]_shellVars => ShellInv'
  BY ShellStep
<1> QED BY <1>1, ShellInitHolds, PTL DEF ShellSpec

\* ShellTypeOK holds in every state: whatever is clicked, typed, given up or ended,
\* the tree is a workspace and no queue holds more than its capacity.
THEOREM ShellTypesAlways == ShellSpec => []ShellTypeOK
<1>1. ShellInv => ShellTypeOK
  BY DEF ShellInv
<1> QED BY <1>1, ShellInvAlways, PTL

\* ManifestReopens holds in every state: what mutate_workspace saves is what load
\* accepts, whatever the two foldings of names are.
THEOREM ManifestAlwaysReopens == ShellSpec => []ManifestReopens
<1>1. ShellInv => ManifestReopens
  BY DEF ShellInv
<1> QED BY <1>1, ShellInvAlways, PTL

\* NewNotesAreEmpty holds of every step: documents are only of ids that have been
\* given, and the next id is beyond them, over deletions and restarts.
THEOREM NewNotesFindNothing == ShellSpec => NewNotesAreEmpty
<1>1. ShellInv /\ [ShellNext]_shellVars =>
        [\A id \in EntryIds(tree') \ EntryIds(tree) : id \notin DOMAIN envelopes]_shellVars
  BY ShellStep
<1> QED BY <1>1, ShellInvAlways, PTL DEF ShellSpec, NewNotesAreEmpty

-----------------------------------------------------------------------------
(***************************************************************************)
(* Unsaved edits                                                           *)
(***************************************************************************)

\* As long as no command was given up or failed behind its commit.
Orderly == late = 0 /\ behind = 0

\* The handler that waits for each command, and what it knew when it sent it.
Matches(command) ==
  \/ /\ within \in {"select", "open_created"}
     /\ command.op = "select"
     /\ Unsaved => command.id = activeEntry
  \/ within = "open_parent" /\ command.op = "select" /\ ~Unsaved
  \/ within = "create" /\ command.op = "create"
  \/ within = "rename" /\ command.op = "rename"
  \/ within = "delete" /\ command.op = "delete" /\ ~Unsaved
  \/ /\ within = "save"
     /\ command = [op |-> "save", lease |-> editor.lease, text |-> editor.text]
  \/ within \in {"manifold", "style"} /\ command.op = "view"

OneCommand ==
  \/ within = "idle" /\ reply = NoReply /\ queue = <<>>
  \/ within # "idle" /\ reply # NoReply /\ queue = <<>>
  \/ within # "idle" /\ reply = NoReply /\ \E command \in Command : queue = <<command>> /\ Matches(command)

\* The active lease is the newest of the selected note.
LeaseIsNew ==
  activeLease # NothingOpen =>
    activeLease.note = activeEntry /\ activeEntry \in NotesOf(tree) /\ activeLease = OpenDocument(activeEntry)

\* The editor's lease is the kernel's, but for what a handler has yet to learn.
EditorFollows ==
  /\ editor.dirty => editor.text.version # 0
  /\ within \in {"delete", "open_parent"} => ~Unsaved
  /\ \/ editor.lease = activeLease
     \/ within = "open_parent"
     \/ within \in {"select", "open_created"} /\ reply.result = "ok" /\ ~Unsaved
     \/ within = "delete" /\ reply.result = "ok"
     \/ within = "save" /\ reply # NoReply /\ (Unsaved => activeLease # NothingOpen)
  /\ within = "save" /\ reply.result = "ok" /\ Unsaved =>
       Stored(envelopes, editor.lease.note).text = editor.text

EditInv == Orderly => OneCommand /\ LeaseIsNew /\ EditorFollows

LEMMA SameEditor ==
  ASSUME editor' = editor
  PROVE  Unsaved' <=> Unsaved
BY DEF Unsaved

\* A command that changes the tree leaves the open note open if the note is kept.
LEMMA MutationKeepsLease ==
  ASSUME ShellInv, LeaseIsNew, NEW candidates, NEW created,
         \A w \in candidates : Follows(tree, w),
         ApplyMutation(candidates, created)
  PROVE  /\ LeaseIsNew'
         /\ activeLease' = activeLease \/ Answer("ok", created)
         /\ (\A w \in candidates : EntryIds(tree) \subseteq EntryIds(w)) => activeLease' = activeLease
<1>1. CASE Refuse
  BY <1>1 DEF Refuse, durable, selection, LeaseIsNew, OpenDocument, Stored
<1>2. CASE ~Refuse
  <2>1. PICK w \in candidates :
          /\ tree' = w
          /\ activeEntry' = IF activeEntry \in EntryIds(w) THEN activeEntry ELSE ROOT_ID
          /\ activeLease' = IF activeEntry \in EntryIds(w) THEN activeLease ELSE NothingOpen
          /\ envelopes' = envelopes
          /\ Answer("ok", created)
    BY <1>2 DEF ApplyMutation
  <2>2. activeEntry \in EntryIds(tree)
    BY DEF ShellInv
  <2>3. CASE activeEntry \in EntryIds(w)
    <3>1. Kind(w, activeEntry) = Kind(tree, activeEntry)
      BY <2>2, <2>3 DEF Follows
    <3> QED BY <2>1, <2>3, <3>1 DEF LeaseIsNew, OpenDocument, Stored, NotesOf
  <2>4. CASE activeEntry \notin EntryIds(w)
    BY <1>2, <2>1, <2>2, <2>4 DEF LeaseIsNew
  <2> QED BY <2>3, <2>4
<1> QED BY <1>1, <1>2

\* What the worker does for a handler that waits.
LEMMA WorkEdits ==
  ASSUME ShellInv, OneCommand, LeaseIsNew, EditorFollows, Work, behind = 0, behind' = 0
  PROVE  OneCommand' /\ LeaseIsNew' /\ EditorFollows'
<1>1. /\ queue' = Tail(queue) /\ queue # <<>>
      /\ UNCHANGED <<editor, armed, within, parent>>
  BY DEF Work, shell
<1>2. /\ within # "idle" /\ reply = NoReply
      /\ \E command \in Command : queue = <<command>> /\ Matches(command)
  BY <1>1 DEF OneCommand
<1>3. PICK command \in Command : queue = <<command>> /\ Matches(command)
  BY <1>2
<1>4. Head(queue) = command /\ Tail(queue) = <<>> /\ Len(queue) = 1
  BY <1>3
<1>5. \A result, created : Answer(result, created) =>
        reply' = [result |-> result, created |-> created]
  BY <1>2, <1>4 DEF Answer
<1>6. /\ editor.dirty => editor.text.version # 0
      /\ within \in {"delete", "open_parent"} => ~Unsaved
      /\ editor.lease = activeLease \/ within = "open_parent"
  BY <1>2 DEF EditorFollows, NoReply
<1>7. Unsaved' <=> Unsaved
  BY <1>1, SameEditor
<1>8. CASE Refuse
  <2>1. /\ reply' = [result |-> "error", created |-> NoEntry]
        /\ UNCHANGED <<tree, envelopes, activeEntry, activeLease>>
    BY <1>5, <1>8 DEF Refuse, durable, selection
  <2>2. OneCommand'
    BY <1>1, <1>2, <1>4, <2>1 DEF OneCommand, NoReply
  <2>3. LeaseIsNew'
    BY <2>1 DEF LeaseIsNew, OpenDocument, Stored
  <2>4. EditorFollows'
    BY <1>1, <1>6, <1>7, <2>1 DEF EditorFollows
  <2> QED BY <2>2, <2>3, <2>4
<1>9. CASE ~Refuse /\ Apply(command)
  <2>0. /\ IsWorkspace(tree) /\ IdsBelowNext(tree) /\ command \in Command
        /\ NothingOpen.note = NoEntry
    BY DEF ShellInv, ShellTypeOK, ManifestReopens, Valid, NothingOpen
  <2>1. CASE command.op = "select" /\ ApplySelect(command.id)
    <3>1. /\ command.id \in EntryIds(tree)
          /\ activeEntry' = command.id
          /\ activeLease' = LeaseOf(tree, command.id)
          /\ reply' = [result |-> "ok", created |-> NoEntry]
          /\ UNCHANGED <<tree, envelopes>>
      BY <1>5, <1>9, <2>1 DEF ApplySelect, durable
    <3>2. within \in {"select", "open_created", "open_parent"}
      BY <1>3, <2>1 DEF Matches
    <3>3. OneCommand'
      BY <1>1, <1>2, <1>4, <3>1 DEF OneCommand, NoReply
    <3>4. LeaseIsNew'
      <4>1. LeaseOf(tree, command.id) # NothingOpen =>
              /\ command.id \in NotesOf(tree)
              /\ LeaseOf(tree, command.id) = OpenDocument(command.id)
              /\ LeaseOf(tree, command.id).note = command.id
        BY <3>1, LeaseTypes DEF LeaseOf
      <4> QED BY <3>1, <4>1 DEF LeaseIsNew, OpenDocument, Stored
    <3>5. Unsaved /\ within # "open_parent" => activeLease' = activeLease
      <4>1. SUFFICES ASSUME Unsaved, within # "open_parent" PROVE activeLease' = activeLease
        OBVIOUS
      <4>2. command.id = activeEntry /\ editor.lease = activeLease /\ activeLease # NothingOpen
        BY <1>3, <1>6, <2>1, <3>2, <4>1 DEF Matches, Unsaved
      <4> QED BY <3>1, <4>2 DEF LeaseIsNew, LeaseOf
    <3>6. EditorFollows'
      BY <1>1, <1>6, <1>7, <3>1, <3>2, <3>5 DEF EditorFollows
    <3> QED BY <3>3, <3>4, <3>6
  <2>2. CASE /\ command.op = "create"
             /\ ApplyMutation(
                  Create(tree, ParentForCreate(tree, activeEntry), command.kind, command.name),
                  tree.next_id)
    <3>0. ParentForCreate(tree, activeEntry) \in Nat
      BY <2>0 DEF ParentForCreate, ShellInv, IsWorkspace, Parent, WorkspaceEntry, EntryId
    <3>1. \A w \in Create(tree, ParentForCreate(tree, activeEntry), command.kind, command.name) :
            Follows(tree, w) /\ EntryIds(tree) \subseteq EntryIds(w)
      BY <2>0, <2>2, <3>0, CommandFields, CreateFollows
    <3>2. LeaseIsNew' /\ activeLease' = activeLease
      BY <2>2, <3>1, MutationKeepsLease
    <3>3. envelopes' = envelopes /\ Answer("ok", tree.next_id)
      BY <1>9, <2>2 DEF ApplyMutation
    <3>4. within = "create" /\ reply' = [result |-> "ok", created |-> tree.next_id]
      BY <1>3, <1>5, <2>2, <3>3 DEF Matches
    <3>5. OneCommand'
      BY <1>1, <1>4, <3>4 DEF OneCommand, NoReply
    <3>6. EditorFollows'
      BY <1>1, <1>6, <1>7, <3>2, <3>4 DEF EditorFollows
    <3> QED BY <3>2, <3>5, <3>6
  <2>3. CASE command.op = "rename" /\ ApplyMutation(Rename(tree, command.id, command.name), NoEntry)
    <3>1. \A w \in Rename(tree, command.id, command.name) :
            Follows(tree, w) /\ EntryIds(tree) \subseteq EntryIds(w)
      BY <2>0, <2>3, CommandFields, RenameFollows
    <3>2. LeaseIsNew' /\ activeLease' = activeLease
      BY <2>3, <3>1, MutationKeepsLease
    <3>3. envelopes' = envelopes /\ Answer("ok", NoEntry)
      BY <1>9, <2>3 DEF ApplyMutation
    <3>4. within = "rename" /\ reply' = [result |-> "ok", created |-> NoEntry]
      BY <1>3, <1>5, <2>3, <3>3 DEF Matches
    <3>5. OneCommand'
      BY <1>1, <1>4, <3>4 DEF OneCommand, NoReply
    <3>6. EditorFollows'
      BY <1>1, <1>6, <1>7, <3>2, <3>4 DEF EditorFollows
    <3> QED BY <3>2, <3>5, <3>6
  <2>4. CASE command.op = "delete" /\ ApplyMutation(Delete(tree, command.id), NoEntry)
    <3>1. \A w \in Delete(tree, command.id) : Follows(tree, w)
      BY <2>0, <2>4, CommandFields, DeleteFollows
    <3>2. LeaseIsNew'
      BY <2>4, <3>1, MutationKeepsLease
    <3>3. Answer("ok", NoEntry)
      BY <1>9, <2>4 DEF ApplyMutation
    <3>4. within = "delete" /\ reply' = [result |-> "ok", created |-> NoEntry]
      BY <1>3, <1>5, <2>4, <3>3 DEF Matches
    <3>5. OneCommand'
      BY <1>1, <1>4, <3>4 DEF OneCommand, NoReply
    <3>6. EditorFollows'
      BY <1>1, <1>6, <1>7, <3>4 DEF EditorFollows
    <3> QED BY <3>2, <3>5, <3>6
  <2>5. CASE command.op = "save" /\ ApplySave(command.lease, command.text)
    <3> DEFINE base == command.lease
               text == command.text
               note == base.note
               next == [revision |-> base.revision + 1, text |-> text]
               files == IF SameContent(text, base.text) THEN envelopes
                        ELSE [id \in DOMAIN envelopes \cup {note} |->
                                IF id = note THEN next ELSE envelopes[id]]
    <3>1. within = "save" /\ base = editor.lease /\ text = editor.text
      BY <1>3, <2>5 DEF Matches
    <3>2. /\ activeLease # NothingOpen /\ activeLease = base
          /\ OpenDocument(note) = base
          /\ envelopes' = files
          /\ UNCHANGED <<tree, activeEntry>>
      BY <1>9, <2>5 DEF ApplySave
    <3>3. activeLease' = LeaseOn(note, Stored(files, note))
      BY <1>9, <2>5 DEF ApplySave
    <3>4. \E result \in {"ok", "error"} : reply' = [result |-> result, created |-> NoEntry]
      BY <1>5, <1>9, <2>5 DEF ApplySave
    <3>5. note = activeEntry /\ note \in NotesOf(tree) /\ note # NoEntry
      BY <3>2 DEF LeaseIsNew, ShellInv, IdsAreSpent, EntryId
    <3>6. Unsaved => Stored(files, note).text = editor.text
      <4>1. Stored(envelopes, note).text = base.text
        BY <3>2 DEF OpenDocument, LeaseOn
      <4>2. CASE SameContent(text, base.text)
        BY <1>6, <3>1, <4>1, <4>2 DEF SameContent, Unsaved
      <4>3. CASE ~SameContent(text, base.text)
        BY <3>1, <4>3 DEF Stored
      <4> QED BY <4>2, <4>3
    <3> HIDE DEF files, base, text
    <3>7. activeLease'.note = note /\ activeLease' # NothingOpen
      BY <2>0, <3>3, <3>5 DEF LeaseOn
    <3>8. OneCommand'
      BY <1>1, <1>4, <3>1, <3>4 DEF OneCommand, NoReply
    <3>9. LeaseIsNew'
      BY <3>2, <3>3, <3>5, <3>7 DEF LeaseIsNew, OpenDocument
    <3>10. EditorFollows'
      BY <1>1, <1>6, <1>7, <3>1, <3>2, <3>4, <3>6, <3>7 DEF EditorFollows, NoReply
    <3> QED BY <3>8, <3>9, <3>10
  <2>6. CASE command.op = "view" /\ ApplyView
    <3>1. /\ reply' = [result |-> "ok", created |-> NoEntry]
          /\ UNCHANGED <<tree, envelopes, activeEntry, activeLease>>
      BY <1>5, <2>6 DEF ApplyView, durable, selection
    <3>2. within \in {"manifold", "style"}
      BY <1>3, <2>6 DEF Matches
    <3>3. OneCommand'
      BY <1>1, <1>4, <3>1, <3>2 DEF OneCommand, NoReply
    <3>4. LeaseIsNew'
      BY <3>1 DEF LeaseIsNew, OpenDocument, Stored
    <3>5. EditorFollows'
      BY <1>1, <1>6, <1>7, <3>1, <3>2 DEF EditorFollows
    <3> QED BY <3>3, <3>4, <3>5
  <2> QED BY <1>9, <2>1, <2>2, <2>3, <2>4, <2>5, <2>6 DEF Apply
<1> QED BY <1>4, <1>8, <1>9 DEF Work

\* A command that is sent while none is on its way is taken.
LEMMA SendAlone ==
  ASSUME queue = <<>>, NEW command, NEW handler, Send(command, handler)
  PROVE  queue' = <<command>> /\ reply' = NoReply /\ within' = handler
BY ShellAssumption DEF Send

\* What the property says of one step.
EditsStay == Unsaved => Unsaved' \/ Stored(envelopes', editor.lease.note).text = editor.text

\* What a handler makes of the editor.
LEMMA HandlerEdits ==
  ASSUME ShellInv, OneCommand, LeaseIsNew, EditorFollows, Handler, late = 0, late' = 0
  PROVE  OneCommand' /\ LeaseIsNew' /\ EditorFollows' /\ EditsStay
<1>1. UNCHANGED <<tree, envelopes, activeEntry, activeLease>>
  BY HandlerKeeps DEF HandlerMoves
<1>2. LeaseIsNew'
  BY <1>1 DEF LeaseIsNew, OpenDocument, Stored
<1>3. \A handler : NotDone(handler) => within = handler /\ reply # NoReply /\ reply.result = "error"
  BY DEF NotDone, GaveUp, Returned
<1>4. \A handler : Succeeded(handler) => within = handler /\ reply # NoReply /\ reply.result = "ok"
  BY DEF Succeeded, Returned
<1>5. /\ editor.dirty => editor.text.version # 0
      /\ within \in {"delete", "open_parent"} => ~Unsaved
  BY DEF EditorFollows
<1>6. within = "idle" => queue = <<>> /\ reply = NoReply /\ editor.lease = activeLease
  BY DEF OneCommand, EditorFollows
<1>7. within # "idle" /\ reply # NoReply => queue = <<>>
  BY DEF OneCommand
<1>8. GoOn /\ reply # NoReply /\ within # "idle" => OneCommand'
  BY <1>7 DEF GoOn, OneCommand
<1>9. editor.lease \in DocumentLease /\ editor.text \in Text /\ activeEntry \in Nat
      /\ EntryIds(tree) \subseteq Nat
  BY ShellFacts
<1>10. CASE \* the kernel's lease is taken as it is
            /\ editor' = Reloaded
            /\ GoOn
            /\ reply # NoReply /\ within # "idle"
            /\ Unsaved => editor.lease = activeLease
  <2>1. editor'.lease = activeLease
    BY <1>10 DEF Reloaded
  <2>2. editor'.dirty => editor'.text.version # 0
    BY <1>5, <1>10 DEF Reloaded
  <2>3. Unsaved => Unsaved'
    BY <1>10 DEF Reloaded, Unsaved
  <2>4. EditorFollows'
    BY <1>1, <1>10, <2>1, <2>2 DEF EditorFollows, GoOn
  <2> QED BY <1>2, <1>8, <1>10, <2>3, <2>4 DEF EditsStay
<1>11. CASE \* nothing is taken from the kernel
            /\ editor' = editor
            /\ GoOn
            /\ reply # NoReply /\ within # "idle"
            /\ editor.lease = activeLease
  <2>1. EditorFollows'
    BY <1>1, <1>5, <1>11 DEF EditorFollows, GoOn
  <2> QED BY <1>2, <1>8, <1>11, <2>1, SameEditor DEF EditsStay
<1>12. CASE \* a command is sent
            /\ editor' = editor
            /\ queue = <<>>
            /\ editor.lease = activeLease
            /\ \E handler \in Handlers, command \in Command :
                 /\ Send(command, handler)
                 /\ handler \in {"delete", "open_parent"} => ~Unsaved
                 /\ Matches(command)'
  <2>1. PICK handler \in Handlers, command \in Command :
               /\ Send(command, handler)
               /\ handler \in {"delete", "open_parent"} => ~Unsaved
               /\ Matches(command)'
    BY <1>12
  <2>2. queue' = <<command>> /\ reply' = NoReply /\ within' = handler /\ handler # "idle"
    BY <1>12, <2>1, SendAlone DEF Handlers
  <2>3. OneCommand'
    BY <2>1, <2>2 DEF OneCommand
  <2>4. EditorFollows'
    BY <1>1, <1>5, <1>12, <2>1, <2>2, SameEditor DEF EditorFollows, NoReply
  <2> QED BY <1>2, <1>12, <2>3, <2>4, SameEditor DEF EditsStay
<1>13. CASE within = "idle" /\ UNCHANGED <<editor, queue, reply, within>>
  <2>1. OneCommand'
    BY <1>6, <1>13 DEF OneCommand
  <2>2. EditorFollows'
    BY <1>1, <1>5, <1>6, <1>13, SameEditor DEF EditorFollows
  <2> QED BY <1>2, <1>13, <2>1, <2>2, SameEditor DEF EditsStay
<1>14. CASE Edit
  <2>1. /\ within = "idle" /\ editor.lease # NothingOpen
        /\ editor' = [editor EXCEPT !.text.version = typed + 1, !.dirty = TRUE]
        /\ UNCHANGED <<queue, reply, within>>
    BY <1>14 DEF Edit
  <2>2. typed + 1 # 0
    BY ShellFacts
  <2>3. editor'.lease = editor.lease /\ editor'.dirty /\ editor'.text.version # 0
    <3>1. /\ editor = [lease |-> editor.lease, text |-> editor.text, dirty |-> editor.dirty]
          /\ editor.text = [of |-> editor.text.of, version |-> editor.text.version]
      BY ShellFacts DEF Editor, Text
    <3>2. editor' = [lease |-> editor.lease,
                     text |-> [of |-> editor.text.of, version |-> typed + 1], dirty |-> TRUE]
      BY <2>1, <3>1
    <3> QED BY <2>2, <3>2
  <2>4. OneCommand'
    BY <1>6, <2>1 DEF OneCommand
  <2>5. EditorFollows'
    BY <1>1, <1>6, <2>1, <2>3 DEF EditorFollows
  <2> QED BY <1>2, <2>1, <2>3, <2>4, <2>5 DEF EditsStay, Unsaved
<1>15. CASE \E id \in EntryIds(tree) : ClickEntry(id)
  <2>1. PICK id \in EntryIds(tree) : ClickEntry(id)
    BY <1>15
  <2>2. within = "idle" /\ editor' = editor
    BY <2>1 DEF ClickEntry
  <2>3. CASE SelectBlocked(id)
    BY <1>13, <2>1, <2>2, <2>3 DEF ClickEntry
  <2>4. CASE ~SelectBlocked(id)
    <3>1. Send([op |-> "select", id |-> id], "select") /\ [op |-> "select", id |-> id] \in Command
      BY <1>9, <2>1, <2>4, CommandTypes DEF ClickEntry
    <3>2. within' = "select"
      BY <3>1 DEF Send
    <3>3. Unsaved' => id = activeEntry'
      BY <1>1, <2>2, <2>4, SameEditor DEF SelectBlocked
    <3>4. Matches([op |-> "select", id |-> id])'
      BY <3>2, <3>3 DEF Matches
    <3> QED BY <1>6, <1>12, <2>2, <3>1, <3>4 DEF Handlers
  <2> QED BY <2>3, <2>4
<1>16. CASE EntrySelected \/ CreatedOpened
  <2>1. /\ editor' = Reloaded /\ GoOn /\ reply # NoReply
        /\ within \in {"select", "open_created"}
    BY <1>4, <1>16 DEF EntrySelected, CreatedOpened
  <2>2. Unsaved => editor.lease = activeLease
    BY <2>1 DEF EditorFollows
  <2> QED BY <1>10, <2>1, <2>2
<1>17. CASE EntryNotSelected \/ CreatedNotOpened \/ EditNotCommitted \/ EntryNotDeleted
  <2>1. /\ editor' = editor /\ GoOn /\ reply # NoReply /\ reply.result = "error"
        /\ within \in {"select", "open_created", "create", "rename", "delete"}
    BY <1>3, <1>17 DEF EntryNotSelected, CreatedNotOpened, EditNotCommitted, EntryNotDeleted
  <2>2. editor.lease = activeLease
    BY <2>1 DEF EditorFollows
  <2> QED BY <1>11, <2>1, <2>2
<1>18. CASE Renamed \/ StyleSet \/ ViewDone
  <2>1. /\ editor' = editor /\ GoOn /\ reply # NoReply
        /\ within \in {"rename", "style", "manifold"}
    BY <1>3, <1>4, <1>18 DEF Renamed, StyleSet, ViewDone
  <2>2. editor.lease = activeLease
    BY <2>1 DEF EditorFollows
  <2> QED BY <1>11, <2>1, <2>2
<1>19. CASE SetEditMode
  BY <1>13, <1>19 DEF SetEditMode
<1>20. CASE \E kind \in {"folder", "note"}, name \in TypedNames : CommitCreate(kind, name)
  <2>1. PICK kind \in {"folder", "note"}, name \in TypedNames : CommitCreate(kind, name)
    BY <1>20
  <2> DEFINE command == [op |-> "create", kind |-> kind, name |-> name]
  <2>2. /\ within = "idle" /\ editor' = editor /\ Send(command, "create") /\ command \in Command
    BY <2>1, CommandTypes, ShellAssumption DEF CommitCreate
  <2>3. Matches(command)'
    BY <2>2 DEF Matches, Send
  <2> QED BY <1>6, <1>12, <2>2, <2>3 DEF Handlers
<1>21. CASE \E name \in TypedNames : CommitRename(name)
  <2>1. PICK name \in TypedNames : CommitRename(name)
    BY <1>21
  <2>2. within = "idle" /\ editor' = editor
    BY <2>1 DEF CommitRename
  <2>3. PICK command \in Command : command.op = "rename" /\ Send(command, "rename")
    BY <1>9, <2>1, CommandTypes, ShellAssumption DEF CommitRename
  <2>4. Matches(command)'
    BY <2>3 DEF Matches, Send
  <2> QED BY <1>6, <1>12, <2>2, <2>3, <2>4 DEF Handlers
<1>22. CASE EntryCreated
  <2>1. within = "create" /\ reply # NoReply /\ queue = <<>> /\ editor' = editor
    BY <1>4, <1>7, <1>22 DEF EntryCreated
  <2>2. editor.lease = activeLease
    BY <2>1 DEF EditorFollows
  <2>3. CASE SelectBlocked(reply.created)
    BY <1>11, <1>22, <2>1, <2>2, <2>3 DEF EntryCreated
  <2>4. CASE ~SelectBlocked(reply.created)
    <3>1. PICK command \in Command :
            /\ command.op = "select" /\ command.id = reply.created
            /\ Send(command, "open_created")
      BY <1>22, <2>4, CommandTypes, ShellFacts DEF EntryCreated
    <3>2. Unsaved' => command.id = activeEntry'
      BY <1>1, <2>1, <2>4, <3>1, SameEditor DEF SelectBlocked
    <3>3. Matches(command)'
      BY <3>1, <3>2 DEF Matches, Send
    <3> QED BY <1>12, <2>1, <2>2, <3>1, <3>3 DEF Handlers
  <2> QED BY <2>3, <2>4
<1>23. CASE PressDelete
  <2>1. within = "idle" /\ editor' = editor /\ ~Unsaved
    BY <1>23 DEF PressDelete
  <2>2. CASE UNCHANGED <<queue, reply, within>>
    BY <1>13, <2>1, <2>2
  <2>3. CASE Send([op |-> "delete", id |-> activeEntry], "delete")
    <3>1. PICK command \in Command : command.op = "delete" /\ Send(command, "delete")
      BY <1>9, <2>3, CommandTypes
    <3>2. Matches(command)'
      BY <2>1, <3>1, SameEditor DEF Matches, Send
    <3> QED BY <1>6, <1>12, <2>1, <3>1, <3>2 DEF Handlers
  <2> QED BY <1>23, <2>2, <2>3 DEF PressDelete
<1>24. CASE EntryDeleted
  <2>1. /\ within = "delete" /\ reply # NoReply /\ queue = <<>> /\ editor' = editor
    BY <1>4, <1>7, <1>24 DEF EntryDeleted
  <2>2. PICK command \in Command : command.op = "select" /\ Send(command, "open_parent")
    BY <1>24, CommandTypes, ShellFacts DEF EntryDeleted
  <2>3. queue' = <<command>> /\ reply' = NoReply /\ within' = "open_parent"
    BY <2>1, <2>2, SendAlone
  <2>4. ~Unsaved /\ ~Unsaved'
    BY <1>5, <2>1, SameEditor
  <2>5. Matches(command)'
    BY <2>2, <2>3, <2>4 DEF Matches
  <2>6. OneCommand'
    BY <2>2, <2>3, <2>5 DEF OneCommand
  <2>7. EditorFollows'
    BY <1>5, <2>1, <2>3, <2>4 DEF EditorFollows
  <2> QED BY <1>2, <2>4, <2>6, <2>7 DEF EditsStay
<1>25. CASE ParentOpened
  <2>1. Returned("open_parent")
    BY <1>25 DEF ParentOpened, GaveUp
  <2>2. within = "open_parent" /\ reply # NoReply /\ editor' = Reloaded /\ GoOn
    BY <1>25, <2>1 DEF ParentOpened, Returned
  <2> QED BY <1>5, <1>10, <2>2
<1>26. CASE RequestSave \/ RequestTag
  <2> DEFINE command == [op |-> "save", lease |-> editor.lease, text |-> editor.text]
  <2>1. /\ within = "idle" /\ editor' = editor /\ Send(command, "save") /\ command \in Command
    BY <1>9, <1>26, CommandTypes DEF RequestSave, RequestTag
  <2>2. Matches(command)'
    BY <2>1 DEF Matches, Send
  <2> QED BY <1>6, <1>12, <2>1, <2>2 DEF Handlers
<1>27. CASE Saved \/ NotSaved
  <2>1. /\ within = "save" /\ reply # NoReply /\ GoOn
        /\ \/ /\ reply.result = "ok"
              /\ editor' = [editor EXCEPT !.lease = activeLease, !.dirty = FALSE]
           \/ editor' = [editor EXCEPT !.lease = activeLease]
    BY <1>3, <1>4, <1>27 DEF Saved, NotSaved
  <2>2. editor = [lease |-> editor.lease, text |-> editor.text, dirty |-> editor.dirty]
    BY ShellFacts DEF Editor
  <2>3. /\ editor'.lease = activeLease /\ editor'.text = editor.text
        /\ editor'.dirty => editor.dirty
        /\ editor'.dirty \/ reply.result = "ok" \/ ~editor.dirty
    BY <2>1, <2>2
  <2>4. Unsaved => activeLease # NothingOpen
    BY <2>1 DEF EditorFollows, Unsaved
  <2>5. EditsStay
    <3>1. SUFFICES ASSUME Unsaved
                   PROVE  Unsaved' \/ Stored(envelopes', editor.lease.note).text = editor.text
      BY DEF EditsStay
    <3>2. CASE editor'.dirty
      BY <1>1, <2>3, <2>4, <3>1, <3>2 DEF Unsaved
    <3>3. CASE ~editor'.dirty
      BY <1>1, <2>1, <2>3, <3>1, <3>3 DEF EditorFollows, Unsaved
    <3> QED BY <3>2, <3>3
  <2>6. EditorFollows'
    BY <1>1, <1>5, <2>1, <2>3 DEF EditorFollows, GoOn
  <2> QED BY <1>2, <1>8, <2>1, <2>5, <2>6
<1>28. CASE ClickView("manifold") \/ ClickView("style")
  <2>1. PICK handler \in {"manifold", "style"} : ClickView(handler)
    BY <1>28
  <2>2. /\ within = "idle" /\ editor' = editor /\ Send([op |-> "view"], handler)
        /\ [op |-> "view"] \in Command
    BY <2>1, CommandTypes DEF ClickView
  <2>3. Matches([op |-> "view"])'
    BY <2>2 DEF Matches, Send
  <2> QED BY <1>6, <1>12, <2>2, <2>3 DEF Handlers
<1> QED BY <1>14, <1>15, <1>16, <1>17, <1>18, <1>19, <1>20, <1>21, <1>22, <1>23, <1>24, <1>25,
           <1>26, <1>27, <1>28 DEF Handler

\* At a start the editor shows what the kernel has opened.
LEMMA StartEdits ==
  ASSUME NEW w, IsWorkspace(w), NEW files
  PROVE  LET start == StartsOn(w, files) IN
         /\ start.lease # NothingOpen =>
              /\ start.lease.note = start.activeEntry
              /\ start.activeEntry \in NotesOf(w)
              /\ start.lease = LeaseOn(start.activeEntry, Stored(files, start.activeEntry))
         /\ start.editor.lease = start.lease
         /\ ~start.editor.dirty
<1> DEFINE note == FirstNote(w)
<1>1. note \in NotesOf(w) \cup {NoEntry}
  BY FirstNoteIsOne
<1> HIDE DEF note
<1>2. CASE note = NoEntry
  BY <1>2 DEF StartsOn, note
<1>3. CASE note # NoEntry
  BY <1>1, <1>3 DEF StartsOn, LeaseOn, note
<1> QED BY <1>2, <1>3

LEMMA EditInit == ShellInit => EditInv
<1> SUFFICES ASSUME ShellInit PROVE EditInv
  OBVIOUS
<1>1. /\ IsWorkspace(tree)
      /\ activeEntry = StartsOn(tree, envelopes).activeEntry
      /\ activeLease = StartsOn(tree, envelopes).lease
      /\ editor = StartsOn(tree, envelopes).editor
      /\ queue = <<>> /\ within = "idle" /\ reply = NoReply
  BY ShellAssumption DEF ShellInit
<1>2. OneCommand
  BY <1>1 DEF OneCommand
<1>3. LeaseIsNew /\ EditorFollows
  BY <1>1, StartEdits DEF LeaseIsNew, OpenDocument, EditorFollows
<1> QED BY <1>2, <1>3 DEF EditInv

LEMMA EditStep ==
  ASSUME ShellInv, EditInv, [ShellNext]_shellVars
  PROVE  EditInv' /\ (late' = 0 /\ behind' = 0 /\ restarts' = restarts => EditsStay)
<1> SUFFICES ASSUME late' = 0, behind' = 0
             PROVE  /\ OneCommand' /\ LeaseIsNew' /\ EditorFollows'
                    /\ restarts' = restarts => EditsStay
  BY DEF EditInv, Orderly
<1>1. late \in Nat /\ behind \in Nat /\ restarts \in Nat
  BY DEF ShellInv, ShellTypeOK
<1>2. CASE Work
  <2>1. late = 0 /\ editor' = editor
    BY <1>2 DEF Work, shell
  <2>2. behind = 0
    <3>1. behind' = behind \/ behind' = behind + 1
      BY <1>2 DEF Work, Apply, ApplySelect, ApplyMutation, ApplySave, ApplyView, Refuse
    <3> QED BY <1>1, <3>1
  <2>3. OneCommand' /\ LeaseIsNew' /\ EditorFollows'
    BY <1>2, <2>1, <2>2, WorkEdits DEF EditInv, Orderly
  <2> QED BY <2>1, <2>3, SameEditor DEF EditsStay
<1>3. CASE Handler
  <2>1. behind = 0
    BY <1>3, HandlerKeeps DEF HandlerMoves
  <2>2. late = 0
    <3>1. late' = late \/ late' = late + 1
      BY <1>3 DEF Handler, Edit, ClickEntry, EntrySelected, EntryNotSelected, SetEditMode,
         CommitCreate, EntryCreated, CreatedOpened, CreatedNotOpened, CommitRename, Renamed,
         EditNotCommitted, PressDelete, EntryDeleted, EntryNotDeleted, ParentOpened, RequestSave,
         RequestTag, Saved, NotSaved, ClickView, StyleSet, ViewDone, Succeeded, NotDone,
         Returned, GaveUp
    <3> QED BY <1>1, <3>1
  <2> QED BY <1>3, <2>1, <2>2, HandlerEdits DEF EditInv, Orderly
<1>4. CASE Restart
  <2>1. /\ UNCHANGED <<tree, envelopes>> /\ restarts' # restarts
        /\ activeEntry' = StartsOn(tree, envelopes).activeEntry
        /\ activeLease' = StartsOn(tree, envelopes).lease
        /\ editor' = StartsOn(tree, envelopes).editor
        /\ queue' = <<>> /\ within' = "idle" /\ reply' = NoReply
    BY <1>1, <1>4 DEF Restart, durable
  <2>2. IsWorkspace(tree)
    BY DEF ShellInv, ShellTypeOK
  <2>3. OneCommand'
    BY <2>1 DEF OneCommand
  <2>4. LeaseIsNew' /\ EditorFollows'
    BY <2>1, <2>2, StartEdits DEF LeaseIsNew, OpenDocument, EditorFollows
  <2> QED BY <2>1, <2>3, <2>4
<1>5. CASE UNCHANGED shellVars
  <2>1. UNCHANGED <<tree, envelopes, activeEntry, activeLease, queue, editor, within, reply, late, behind>>
    BY <1>5 DEF shellVars, durable, selection, shell, history
  <2>2. OneCommand /\ LeaseIsNew /\ EditorFollows
    BY <2>1 DEF EditInv, Orderly
  <2>3. Unsaved' <=> Unsaved
    BY <2>1, SameEditor
  <2>4. OneCommand'
    BY <2>1, <2>2, <2>3 DEF OneCommand, Matches
  <2>5. LeaseIsNew' /\ EditorFollows'
    BY <2>1, <2>2, <2>3 DEF LeaseIsNew, EditorFollows, OpenDocument, Stored
  <2> QED BY <2>3, <2>4, <2>5 DEF EditsStay
<1> QED BY <1>2, <1>3, <1>4, <1>5 DEF ShellNext

\* UnsavedEditsStay holds of every step: a click, a new entry, a renaming, a deletion,
\* a save or a tag loses no edit as long as every command is answered in time and no
\* save fails behind its commit.
THEOREM NoEditIsLost == ShellSpec => UnsavedEditsStay
<1>1. ShellInit => EditInv
  BY EditInit
<1>2. ShellInv /\ EditInv /\ [ShellNext]_shellVars =>
        EditInv' /\ (late' = 0 /\ behind' = 0 /\ restarts' = restarts => EditsStay)
  BY EditStep
<1>3. (late' = 0 /\ behind' = 0 /\ restarts' = restarts => EditsStay) =>
        [late' = 0 /\ behind' = 0 /\ restarts' = restarts /\ Unsaved
          => Unsaved' \/ Stored(envelopes', editor.lease.note).text = editor.text]_shellVars
  BY DEF EditsStay
<1> QED BY <1>1, <1>2, <1>3, ShellInvAlways, PTL DEF ShellSpec, UnsavedEditsStay
=============================================================================
