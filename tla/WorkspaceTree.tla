---------------------------- MODULE WorkspaceTree ----------------------------
(***************************************************************************)
(* The workspace document: a tree of folders and notes with stable ids,    *)
(* and the operations on it.  An operation works on a copy: its result     *)
(* here is the set with that copy, or the empty set when it is refused.    *)
(*                                                                         *)
(* Entries are only ever appended, with increasing ids, so the order of    *)
(* the vector is the order of the ids and a function from ids stands for   *)
(* it.  Depth and order of the rows that are shown are layout.             *)
(***************************************************************************)
EXTENDS Integers, FiniteSets

CONSTANTS
  Names,       \* what can be typed as a name, trimmed, and the seed's names
  BadName,     \* a name that validated_name refuses
  AsciiFold,   \* a name as eq_ignore_ascii_case sees it
  CaseFold,    \* a name as to_lowercase makes it
  SeedName,    \* the names of the entries of the seeded workspace
  MaxEntries   \* MAX_ENTRIES

ASSUME TreeAssumption ==
  /\ BadName \in Names
  /\ AsciiFold \in [Names -> Names]
  /\ CaseFold \in [Names -> Names]
  /\ SeedName \in [1..5 -> Names \ {BadName}]
  /\ CaseFold[SeedName[2]] # CaseFold[SeedName[4]]
  /\ MaxEntries \in Nat
  /\ MaxEntries >= 5

ROOT_ID == 1
NoEntry == 0
EntryId == Nat \ {NoEntry}

WorkspaceEntry == [parent: Nat, kind: {"folder", "note"}, name: Names]

EntryIds(w) == DOMAIN w.entries
IsWorkspace(w) ==
  /\ w = [entries |-> w.entries, next_id |-> w.next_id, revision |-> w.revision]
  /\ EntryIds(w) \subseteq EntryId
  /\ IsFiniteSet(EntryIds(w))
  /\ w.entries \in [EntryIds(w) -> WorkspaceEntry]
  /\ w.next_id \in EntryId
  /\ w.revision \in Nat

Kind(w, id) == w.entries[id].kind
Parent(w, id) == w.entries[id].parent
NotesOf(w) == {id \in EntryIds(w) : Kind(w, id) = "note"}

Entry(parent, kind, name) == [parent |-> parent, kind |-> kind, name |-> name]

Seeded ==
  [entries |-> [id \in 1..5 |->
     CASE id = ROOT_ID -> Entry(NoEntry, "folder", SeedName[1])
       [] id = 2 -> Entry(ROOT_ID, "folder", SeedName[2])
       [] id = 3 -> Entry(2, "note", SeedName[3])
       [] id = 4 -> Entry(ROOT_ID, "folder", SeedName[4])
       [] OTHER -> Entry(4, "note", SeedName[5])],
   next_id |-> 6,
   revision |-> 1]

FirstNote(w) ==
  IF NotesOf(w) = {} THEN NoEntry
  ELSE CHOOSE id \in NotesOf(w) : \A other \in NotesOf(w) : id <= other

-----------------------------------------------------------------------------
(***************************************************************************)
(* validate, run before every save and after every load                    *)
(***************************************************************************)

ValidName(name) == name # BadName

RootIsFolder(w) ==
  ROOT_ID \in EntryIds(w) /\ Parent(w, ROOT_ID) = NoEntry /\ Kind(w, ROOT_ID) = "folder"

ParentsAreFolders(w) ==
  \A id \in EntryIds(w) \ {ROOT_ID} :
    Parent(w, id) \in EntryIds(w) /\ Kind(w, Parent(w, id)) = "folder"

SiblingNamesDiffer(w) ==
  \A one, other \in EntryIds(w) \ {ROOT_ID} :
    /\ one # other
    /\ Parent(w, one) = Parent(w, other)
    => CaseFold[w.entries[one].name] # CaseFold[w.entries[other].name]

\* validate_ancestry: following parents from any entry leads to the root, so
\* no entries have all their parents among themselves.
Rooted(w) ==
  \A S \in (SUBSET (EntryIds(w) \ {ROOT_ID})) \ {{}} : \E id \in S : Parent(w, id) \notin S

IdsBelowNext(w) == \A id \in EntryIds(w) : id < w.next_id

Valid(w) ==
  /\ Cardinality(EntryIds(w)) \in 1..MaxEntries
  /\ \A id \in EntryIds(w) : ValidName(w.entries[id].name)
  /\ RootIsFolder(w)
  /\ ParentsAreFolders(w)
  /\ SiblingNamesDiffer(w)
  /\ Rooted(w)
  /\ IdsBelowNext(w)

-----------------------------------------------------------------------------
(***************************************************************************)
(* The operations                                                          *)
(***************************************************************************)

\* ensure_unique_name_except, which folds less than validate does.
NameIsFree(w, parent, name, except) ==
  \A id \in EntryIds(w) \ {except} :
    Parent(w, id) = parent => AsciiFold[w.entries[id].name] # AsciiFold[name]

ParentForCreate(w, selected) ==
  IF Kind(w, selected) = "folder" THEN selected ELSE Parent(w, selected)

Create(w, parent, kind, name) ==
  IF /\ Cardinality(EntryIds(w)) < MaxEntries
     /\ parent \in EntryIds(w)
     /\ Kind(w, parent) = "folder"
     /\ ValidName(name)
     /\ NameIsFree(w, parent, name, NoEntry)
  THEN {[entries |-> [id \in EntryIds(w) \cup {w.next_id} |->
                        IF id = w.next_id THEN Entry(parent, kind, name) ELSE w.entries[id]],
         next_id |-> w.next_id + 1,
         revision |-> w.revision + 1]}
  ELSE {}

Rename(w, id, name) ==
  IF /\ id # ROOT_ID
     /\ ValidName(name)
     /\ id \in EntryIds(w)
     /\ NameIsFree(w, Parent(w, id), name, id)
  THEN {[w EXCEPT !.entries[id].name = name, !.revision = @ + 1]}
  ELSE {}

\* What the work list of delete removes: every entry that a set with id and
\* with all children of its members must hold.
Branch(w, id) ==
  {member \in EntryIds(w) :
     \A S \in SUBSET EntryIds(w) :
       (id \in S /\ \A child \in EntryIds(w) : Parent(w, child) \in S => child \in S)
         => member \in S}

\* Changed for the check of NewNotesAreEmpty: the ids of deleted entries are free
\* again.
DeleteFreeingIds(w, id) ==
  IF id # ROOT_ID /\ id \in EntryIds(w)
  THEN LET kept == EntryIds(w) \ Branch(w, id) IN
       {[entries |-> [member \in kept |-> w.entries[member]],
         next_id |-> 1 + CHOOSE last \in kept : \A member \in kept : member <= last,
         revision |-> w.revision + 1]}
  ELSE {}

Delete(w, id) ==
  IF id # ROOT_ID /\ id \in EntryIds(w)
  THEN {[entries |-> [kept \in EntryIds(w) \ Branch(w, id) |-> w.entries[kept]],
         next_id |-> w.next_id,
         revision |-> w.revision + 1]}
  ELSE {}
=============================================================================
