--------------------------- MODULE EntityRegistry ---------------------------
(***************************************************************************)
(* The entity registry: user-tagged mentions in documents, the entities    *)
(* they name, and how mentions follow a document that is edited.           *)
(*                                                                         *)
(* A text is a sequence of words, a content hash is the text itself, and   *)
(* offsets count words.  A new entity's hashed id is any id not in use.    *)
(* Labels and kinds are left out, and so is the registry's revision, which *)
(* ScenePublication has.  An entity has at most one mention, so the vector *)
(* of mentions is a set.                                                   *)
(***************************************************************************)
EXTENDS Integers, Sequences, FiniteSets, SequencesExt

CONSTANTS
  Notes,        \* entry ids of notes
  Words,        \* what texts are made of
  Ids,          \* entity ids
  MaxLength,    \* bound: words in a text
  Context,      \* CONTEXT_CHARS
  MaxEntities,  \* MAX_ENTITIES
  MaxMentions   \* MAX_MENTIONS

ASSUME RegistryAssumption ==
  /\ MaxLength \in Nat
  /\ Context \in Nat
  /\ MaxEntities \in Nat
  /\ MaxMentions \in Nat
  /\ IsFiniteSet(Ids)

Texts == UNION {[1..n -> Words] : n \in 0..MaxLength}
Lease == [note: Notes, revision: Nat, content: Texts]
Mention ==
  [entity: Ids, note: Notes, revision: Nat, content: Texts, start: 0..MaxLength,
   end: 0..MaxLength, surface: Texts, prefix: Texts, suffix: Texts, active: BOOLEAN]
Registry ==
  [users: SUBSET Ids, ners: SUBSET Ids, nerRevision: Nat, mentions: SUBSET Mention]

EmptyRegistry == [users |-> {}, ners |-> {}, nerRevision |-> 0, mentions |-> {}]
Known(r) == r.users \cup r.ners

-----------------------------------------------------------------------------
(***************************************************************************)
(* Places in a text                                                        *)
(***************************************************************************)

Slice(text, start, end) == SubSeq(text, start + 1, end)

\* quote_context
Before(text, start) ==
  Slice(text, IF start > Context THEN start - Context ELSE 0, start)
After(text, end) ==
  Slice(text, end, IF end + Context < Len(text) THEN end + Context ELSE Len(text))

\* Where the surface occurs.
Occurrences(text, surface) ==
  {s \in 0..(Len(text) - Len(surface)) : Slice(text, s, s + Len(surface)) = surface}

\* match_indices: the occurrences from left to right that do not overlap.
Matches(text, surface) ==
  LET occurrences == Occurrences(text, surface)
      matched[s \in Nat] ==
        \A t \in occurrences : t < s /\ t + Len(surface) > s => ~matched[t]
  IN  {s \in occurrences : matched[s]}

\* locate_mention, as the set of the one start it finds or the empty set: the
\* old place, else the only match, else the only match in the old context.
Locate(text, m) ==
  LET matches == Matches(text, m.surface)
      contextual == {s \in matches :
                       /\ IsSuffix(m.prefix, Before(text, s))
                       /\ IsPrefix(m.suffix, After(text, s + Len(m.surface)))}
  IN  IF m.end <= Len(text) /\ Slice(text, m.start, m.end) = m.surface THEN {m.start}
      ELSE IF Cardinality(matches) = 1 THEN matches
      ELSE IF Cardinality(contextual) = 1 THEN contextual
      ELSE {}

-----------------------------------------------------------------------------
(***************************************************************************)
(* reanchor_document, tag, publish_ner                                     *)
(***************************************************************************)

\* Changed for the check of TypeOK: the end is one word too far.
MovedTooFar(m, lease, start) ==
  [m EXCEPT !.revision = lease.revision, !.content = lease.content,
            !.start = start, !.end = start + Len(m.surface) + 1, !.active = TRUE]

\* The mention at its new start in the lease's text.
MovedTo(m, lease, start) ==
  LET end == start + Len(m.surface)
  IN  [m EXCEPT !.revision = lease.revision, !.content = lease.content,
                !.start = start, !.end = end,
                !.prefix = Before(lease.content, start),
                !.suffix = After(lease.content, end),
                !.active = TRUE]

\* Changed for the check of MentionsCoherent: a mention that is found again keeps its
\* offsets.
ReanchoredInPlace(m, lease) ==
  IF Locate(lease.content, m) = {} THEN [m EXCEPT !.active = FALSE]
  ELSE [m EXCEPT !.revision = lease.revision, !.content = lease.content, !.active = TRUE]

\* A mention not found keeps its old place and is no longer active.
Reanchored(m, lease) ==
  LET starts == Locate(lease.content, m)
  IN  IF starts = {} THEN [m EXCEPT !.active = FALSE]
      ELSE MovedTo(m, lease, CHOOSE s \in starts : TRUE)

Reanchor(r, lease) ==
  [r EXCEPT !.mentions =
     {IF m.note = lease.note THEN Reanchored(m, lease) ELSE m : m \in r.mentions}]

\* The entities of the active mentions at exactly this place; one is reused.
TaggedAt(r, lease, start, end) ==
  {m.entity : m \in {n \in r.mentions : n.active /\ n.note = lease.note
                                         /\ n.start = start /\ n.end = end}}

\* The entities a tag can be given to: a new one only below the limit.
TagTargets(r, lease, start, end) ==
  IF TaggedAt(r, lease, start, end) # {} THEN TaggedAt(r, lease, start, end)
  ELSE IF Cardinality(Known(r)) < MaxEntities THEN Ids \ Known(r)
  ELSE {}

\* The mentions that stay: no active one overlaps the tag, and none is the
\* entity's own at this place.
KeptMentions(r, lease, start, end, id) ==
  {m \in r.mentions :
     m.note = lease.note =>
       /\ ~(m.active /\ start < m.end /\ m.start < end)
       /\ ~(m.entity = id /\ m.start = start /\ m.end = end)}

\* tag, for one of its targets.
Tagged(r, lease, start, end, id) ==
  [r EXCEPT
     !.users = @ \cup {id},
     !.mentions = KeptMentions(r, lease, start, end, id) \cup
       {[entity |-> id, note |-> lease.note, revision |-> lease.revision,
         content |-> lease.content, start |-> start, end |-> end,
         surface |-> Slice(lease.content, start, end),
         prefix |-> Before(lease.content, start), suffix |-> After(lease.content, end),
         active |-> TRUE]}]

\* publish_ner: the batch takes the place of the last one; entities a user has
\* tagged stay.
WithBatch(r, revision, batch) ==
  [r EXCEPT !.ners = batch, !.nerRevision = revision]

-----------------------------------------------------------------------------
(***************************************************************************)
(* Anchors                                                                 *)
(***************************************************************************)

\* active_mentions_for
ActiveMentions(r, lease) ==
  {m \in r.mentions :
     /\ m.active
     /\ m.note = lease.note
     /\ m.revision = lease.revision
     /\ m.content = lease.content
     /\ m.entity \in Known(r)}

\* VerifiedDocumentAnchors::verify: every candidate is in the text at its place
\* and no two overlap.
Verifies(lease, candidates) ==
  /\ \A m \in candidates :
       /\ m.start < m.end /\ m.end <= Len(lease.content)
       /\ Slice(lease.content, m.start, m.end) = m.surface
  /\ \A m, n \in candidates : m # n => m.end <= n.start \/ n.end <= m.start

Span(m) == [start |-> m.start, end |-> m.end]
=============================================================================
