----------------------- MODULE DocumentAuthorityProofs -----------------------
(***************************************************************************)
(* Proofs about DocumentAuthority, for any notes, texts, entities and any  *)
(* bounds.                                                                 *)
(*                                                                         *)
(* The registry exists three times: on disk, in memory, and in the command *)
(* between its commit and its installation.  All three are sound (of the   *)
(* type, with mentions at their places, owned by users' entities and one   *)
(* for each) and behind the document files, and so is every lease.         *)
(***************************************************************************)
EXTENDS DocumentAuthority, SequenceTheorems, WellFoundedInduction, TLAPS

\* A mention is at a place of its text, and while it is active it says so rightly.
Placed(m) ==
  /\ m.start <= m.end
  /\ m.active => m.end <= Len(m.content) /\ Slice(m.content, m.start, m.end) = m.surface

\* Mentions belong to entities users have tagged: no NER batch takes those away.
Sound(r) ==
  /\ r \in Registry
  /\ \A m \in r.mentions : Placed(m) /\ m.entity \in r.users
  /\ \A m, k \in r.mentions : m.entity = k.entity => m = k

\* What speaks of revision n of a document speaks of the text revision n had.
BehindFile(x, files) ==
  /\ x.revision <= files[x.note].revision
  /\ x.revision = files[x.note].revision => x.content = files[x.note].content

RegistryBehind(r, files) == \A m \in r.mentions : m.active => BehindFile(m, files)

\* The command under way is about to install a sound registry and a lease of the
\* active note that is on disk.
OpSound ==
  /\ Sound(op.registry) /\ RegistryBehind(op.registry, docs)
  /\ pc \in {"committed", "saved"} /\ op.kind # "ner" =>
       /\ lease # NoLease
       /\ op.lease \in Lease
       /\ op.lease.note = active
       /\ BehindFile(op.lease, docs)

AuthorityInv ==
  /\ TypeOK
  /\ Sound(stored) /\ RegistryBehind(stored, docs)
  /\ Sound(registry) /\ RegistryBehind(registry, docs)
  /\ OpSound
  /\ LeaseIsCommitted

-----------------------------------------------------------------------------
(***************************************************************************)
(* Texts, and places in them                                               *)
(***************************************************************************)

\* A text is a sequence of at most MaxLength words.
LEMMA TextIsSequence ==
  ASSUME NEW text
  PROVE  text \in Texts <=> text \in Seq(Words) /\ Len(text) <= MaxLength
<1> USE RegistryAssumption DEF RegistryAssumption
<1>1. ASSUME text \in Texts PROVE text \in Seq(Words) /\ Len(text) <= MaxLength
  <2>1. PICK n \in 0..MaxLength : text \in [1..n -> Words]
    BY <1>1 DEF Texts
  <2> QED BY <2>1
<1>2. ASSUME text \in Seq(Words), Len(text) <= MaxLength PROVE text \in Texts
  <2>1. Len(text) \in 0..MaxLength /\ text \in [1..Len(text) -> Words]
    BY <1>2, LenProperties
  <2> QED BY <2>1 DEF Texts
<1> QED BY <1>1, <1>2

\* A slice that ends inside a text is a text, and as long as the places say.
LEMMA SliceIsText ==
  ASSUME NEW text \in Texts, NEW i \in Nat, NEW j \in 0..Len(text)
  PROVE  /\ Slice(text, i, j) \in Texts
         /\ Len(Slice(text, i, j)) = IF i < j THEN j - i ELSE 0
<1> USE RegistryAssumption DEF RegistryAssumption
<1>1. text \in Seq(Words) /\ Len(text) \in Nat /\ Len(text) <= MaxLength
  BY TextIsSequence, LenProperties
<1>2. \A k \in (i + 1)..j : text[k] \in Words
  <2> TAKE k \in (i + 1)..j
  <2>1. k \in 1..Len(text)
    BY <1>1
  <2> QED BY <1>1, <2>1, ElementOfSeq
<1>3. /\ SubSeq(text, i + 1, j) \in Seq(Words)
      /\ Len(SubSeq(text, i + 1, j)) = IF i + 1 <= j THEN j - (i + 1) + 1 ELSE 0
  BY <1>1, <1>2, SubSeqProperties
<1>4. /\ Len(SubSeq(text, i + 1, j)) = IF i < j THEN j - i ELSE 0
      /\ Len(SubSeq(text, i + 1, j)) <= MaxLength
  BY <1>1, <1>3
<1>5. SubSeq(text, i + 1, j) \in Texts
  BY <1>3, <1>4, TextIsSequence
<1> QED BY <1>4, <1>5 DEF Slice

\* The context of a place in a text is a text.
LEMMA ContextIsText ==
  ASSUME NEW text \in Texts, NEW i \in 0..Len(text)
  PROVE  Before(text, i) \in Texts /\ After(text, i) \in Texts
<1> USE RegistryAssumption DEF RegistryAssumption
<1>1. Len(text) \in Nat
  BY TextIsSequence, LenProperties
<1>2. Before(text, i) \in Texts
  <2> DEFINE from == IF i > Context THEN i - Context ELSE 0
  <2>1. from \in Nat
    BY <1>1
  <2> QED BY <2>1, SliceIsText DEF Before
<1>3. After(text, i) \in Texts
  <2> DEFINE to == IF i + Context < Len(text) THEN i + Context ELSE Len(text)
  <2>1. to \in 0..Len(text) /\ i \in Nat
    BY <1>1
  <2> QED BY <2>1, SliceIsText DEF After
<1> QED BY <1>2, <1>3

\* What 0 has, and n + 1 where n has it, all numbers have.
LEMMA CountingUp ==
  ASSUME NEW G, 0 \in G, \A n \in Nat : n \in G => n + 1 \in G
  PROVE  Nat \subseteq G
<1> SUFFICES ASSUME Nat \ G # {} PROVE FALSE
  OBVIOUS
<1>1. PICK n \in Nat \ G : \A m \in Nat \ G : ~(<<m, n>> \in OpToRel(<, Nat))
  BY WFMin, NatLessThanWellFounded
<1>2. \A m \in Nat \ G : ~(m < n)
  BY <1>1, Zenon DEF OpToRel
<1>3. n - 1 \in Nat /\ n - 1 < n /\ n = (n - 1) + 1
  OBVIOUS
<1> QED BY <1>2, <1>3

\* match_indices takes an occurrence exactly if it overlaps none that it has taken
\* before: matches do not overlap, and none is left out without need.
THEOREM MatchesAreLeftmost ==
  ASSUME NEW text \in Texts, NEW surface \in Texts
  PROVE  \A s \in Occurrences(text, surface) :
           s \in Matches(text, surface) <=>
             \A t \in Matches(text, surface) : t < s => t + Len(surface) <= s
<1> DEFINE L == Len(surface)
<1> DEFINE occurrences == Occurrences(text, surface)
<1> DEFINE Free(f, s) == \A t \in occurrences : t < s /\ t + L > s => ~f[t]
<1> DEFINE matched == CHOOSE f : f = [s \in Nat |-> Free(f, s)]
<1>1. L \in Nat /\ Len(text) \in Nat /\ occurrences \subseteq 0..Len(text)
  BY TextIsSequence, LenProperties DEF Occurrences
<1>2. Matches(text, surface) = {s \in occurrences : matched[s]}
  BY DEF Matches
<1> HIDE DEF L, occurrences
<1> DEFINE G == {n \in Nat : \E f \in [Nat -> BOOLEAN] : \A s \in 0..n : f[s] = Free(f, s)}
<1>3. 0 \in G
  <2> DEFINE f == [s \in Nat |-> TRUE]
  <2>1. f \in [Nat -> BOOLEAN] /\ f[0] = TRUE
    OBVIOUS
  <2>2. Free(f, 0) = TRUE
    BY <1>1
  <2> HIDE DEF f
  <2>3. \A s \in 0..0 : f[s] = Free(f, s)
    <3>1. \A s \in 0..0 : s = 0
      OBVIOUS
    <3> HIDE DEF Free
    <3> QED BY <2>1, <2>2, <3>1
  <2> QED BY <2>1, <2>3
<1>4. ASSUME NEW n \in Nat, n \in G PROVE n + 1 \in G
  <2>1. PICK f \in [Nat -> BOOLEAN] : \A s \in 0..n : f[s] = Free(f, s)
    BY <1>4
  <2> DEFINE now == Free(f, n + 1)
  <2> DEFINE g == [f EXCEPT ![n + 1] = now]
  <2>2. g \in [Nat -> BOOLEAN] /\ g[n + 1] = now /\ \A s \in 0..n : g[s] = f[s]
    <3>1. now \in BOOLEAN
      OBVIOUS
    <3> HIDE DEF now
    <3> QED BY <3>1
  <2> HIDE DEF g
  <2>3. \A s \in 0..(n + 1) : Free(g, s) = Free(f, s)
    BY <1>1, <2>2
  <2> HIDE DEF Free
  <2>4. \A s \in 0..(n + 1) : s \in 0..n \/ s = n + 1
    OBVIOUS
  <2>5. \A s \in 0..(n + 1) : g[s] = Free(g, s)
    BY <2>1, <2>2, <2>3, <2>4
  <2> QED BY <2>2, <2>5
<1>5. PICK f \in [Nat -> BOOLEAN] : \A s \in 0..Len(text) : f[s] = Free(f, s)
  <2> HIDE DEF Free, G
  <2>1. Len(text) \in G
    BY <1>1, <1>3, <1>4, CountingUp
  <2> QED BY <2>1 DEF G
<1>6. matched = [s \in Nat |-> Free(matched, s)]
  <2> DEFINE g == [s \in Nat |-> Free(f, s)]
  <2>1. \A t \in occurrences : t \in Nat /\ t \in 0..Len(text)
    BY <1>1
  <2>2. \A t \in occurrences : g[t] = f[t]
    <3> HIDE DEF Free
    <3> QED BY <1>5, <2>1
  <2> HIDE DEF g
  <2>3. \A s \in Nat : Free(g, s) = Free(f, s)
    BY <2>2
  <2>4. g = [s \in Nat |-> Free(g, s)]
    <3> HIDE DEF Free
    <3> QED BY <2>3 DEF g
  <2>5. \E h : h = [s \in Nat |-> Free(h, s)]
    BY <2>4
  <2> QED BY <2>5
<1> HIDE DEF matched
<1>7. \A s \in occurrences : matched[s] <=> Free(matched, s)
  <2> HIDE DEF Free
  <2> QED BY <1>1, <1>6
<1> QED BY <1>1, <1>2, <1>7 DEF L, occurrences

\* locate_mention only names places that have the mention's surface, and stays
\* inside the text.
LEMMA LocateFinds ==
  ASSUME NEW text \in Texts, NEW m \in Mention, m.start <= m.end,
         NEW s \in Locate(text, m)
  PROVE  /\ s \in Nat
         /\ s + Len(m.surface) \in 0..Len(text)
         /\ Slice(text, s, s + Len(m.surface)) = m.surface
<1> USE RegistryAssumption DEF RegistryAssumption
<1>1. /\ Len(text) \in Nat /\ Len(m.surface) \in Nat
      /\ m.start \in Nat /\ m.end \in Nat /\ m.surface \in Texts
  BY TextIsSequence, LenProperties DEF Mention
<1>2. CASE m.end <= Len(text) /\ Slice(text, m.start, m.end) = m.surface
  <2>1. s = m.start
    BY <1>2 DEF Locate
  <2>2. Len(m.surface) = IF m.start < m.end THEN m.end - m.start ELSE 0
    BY <1>1, <1>2, SliceIsText
  <2>3. m.start + Len(m.surface) = m.end
    BY <1>1, <2>2
  <2> QED BY <1>1, <1>2, <2>1, <2>3
<1>3. CASE ~(m.end <= Len(text) /\ Slice(text, m.start, m.end) = m.surface)
  <2>1. s \in Matches(text, m.surface)
    BY <1>3 DEF Locate
  <2>2. s \in Occurrences(text, m.surface)
    BY <2>1 DEF Matches
  <2> QED BY <1>1, <2>2 DEF Occurrences
<1> QED BY <1>2, <1>3

-----------------------------------------------------------------------------
(***************************************************************************)
(* The registry                                                            *)
(***************************************************************************)

\* A mention that is found again is where its text is; one that is not found
\* keeps its old place.
LEMMA ReanchoredIsPlaced ==
  ASSUME NEW m \in Mention, Placed(m), NEW l \in Lease, m.note = l.note
  PROVE  /\ Reanchored(m, l) \in Mention
         /\ Placed(Reanchored(m, l))
         /\ Reanchored(m, l).entity = m.entity
         /\ Reanchored(m, l).note = l.note
         /\ Reanchored(m, l).active =>
              Reanchored(m, l).revision = l.revision /\ Reanchored(m, l).content = l.content
<1> USE RegistryAssumption DEF RegistryAssumption
<1>1. CASE Locate(l.content, m) = {}
  <2>1. Reanchored(m, l) = [m EXCEPT !.active = FALSE]
    BY <1>1 DEF Reanchored
  <2> QED BY <2>1 DEF Mention, Placed
<1>2. CASE Locate(l.content, m) # {}
  <2> DEFINE s == CHOOSE x \in Locate(l.content, m) : TRUE
             end == s + Len(m.surface)
  <2>1. Reanchored(m, l) = MovedTo(m, l, s)
    BY <1>2 DEF Reanchored
  <2>2. s \in Locate(l.content, m)
    BY <1>2
  <2>3. l.content \in Texts /\ m.start <= m.end /\ m.surface \in Texts
    BY DEF Lease, Mention, Placed
  <2> HIDE DEF s
  <2>4. s \in Nat /\ end \in 0..Len(l.content) /\ Slice(l.content, s, end) = m.surface
    BY <2>2, <2>3, LocateFinds
  <2>5. Len(l.content) \in Nat /\ Len(l.content) <= MaxLength /\ Len(m.surface) \in Nat
    BY <2>3, TextIsSequence, LenProperties
  <2>6. s \in 0..Len(l.content) /\ s \in 0..MaxLength /\ end \in 0..MaxLength /\ s <= end
    BY <2>4, <2>5
  <2>7. Before(l.content, s) \in Texts /\ After(l.content, end) \in Texts
    BY <2>3, <2>4, <2>6, ContextIsText
  <2>8. MovedTo(m, l, s) =
          [m EXCEPT !.revision = l.revision, !.content = l.content, !.start = s, !.end = end,
                    !.prefix = Before(l.content, s), !.suffix = After(l.content, end),
                    !.active = TRUE]
    BY DEF MovedTo
  <2> HIDE DEF end
  <2>9. MovedTo(m, l, s) \in Mention
    BY <2>3, <2>6, <2>7, <2>8 DEF Mention, Lease
  <2>10. Placed(MovedTo(m, l, s))
    BY <2>4, <2>5, <2>6, <2>8 DEF Mention, Placed
  <2> QED BY <2>1, <2>8, <2>9, <2>10 DEF Mention
<1> QED BY <1>1, <1>2

\* What follows a document that is saved is a sound registry, and as far as the
\* lease is behind its file the registry is.
LEMMA ReanchorKeeps ==
  ASSUME NEW r, Sound(r), NEW l \in Lease, NEW files
  PROVE  /\ Sound(Reanchor(r, l))
         /\ RegistryBehind(r, files) /\ BehindFile(l, files) => RegistryBehind(Reanchor(r, l), files)
<1> DEFINE f(m) == IF m.note = l.note THEN Reanchored(m, l) ELSE m
           R == Reanchor(r, l)
<1>1. r \in Registry /\ r.mentions \subseteq Mention
  BY DEF Sound, Registry
<1>2. R.mentions = {f(m) : m \in r.mentions} /\ R.users = r.users
  BY <1>1 DEF Reanchor, Registry
<1>3. ASSUME NEW m \in r.mentions
      PROVE  f(m) \in Mention /\ Placed(f(m)) /\ f(m).entity = m.entity
  BY <1>1, ReanchoredIsPlaced DEF Sound
<1>4. R \in Registry
  <2>1. {f(m) : m \in r.mentions} \subseteq Mention
    BY <1>3
  <2>2. R = [r EXCEPT !.mentions = {f(m) : m \in r.mentions}]
    BY DEF Reanchor
  <2> HIDE DEF f, R
  <2> QED BY <1>1, <2>1, <2>2 DEF Registry
<1>5. \A m \in R.mentions : Placed(m) /\ m.entity \in R.users
  BY <1>2, <1>3 DEF Sound
<1>6. \A m, k \in R.mentions : m.entity = k.entity => m = k
  <2> SUFFICES ASSUME NEW m \in r.mentions, NEW k \in r.mentions, f(m).entity = f(k).entity
               PROVE  f(m) = f(k)
    BY <1>2
  <2>1. m = k
    BY <1>3 DEF Sound
  <2> QED BY <2>1
<1>7. ASSUME RegistryBehind(r, files), BehindFile(l, files) PROVE RegistryBehind(R, files)
  <2> SUFFICES ASSUME NEW m \in r.mentions, f(m).active PROVE BehindFile(f(m), files)
    BY <1>2 DEF RegistryBehind
  <2>1. CASE m.note = l.note
    BY <1>1, <1>7, <2>1, ReanchoredIsPlaced DEF Sound, BehindFile
  <2>2. CASE m.note # l.note
    BY <1>7, <2>2 DEF RegistryBehind
  <2> QED BY <2>1, <2>2
<1> QED BY <1>4, <1>5, <1>6, <1>7 DEF Sound

\* A tag makes a sound registry of a sound one: whichever entity it is given, no
\* other mention of that entity stays.
LEMMA TaggedKeeps ==
  ASSUME NEW r, Sound(r), NEW l \in Lease, NEW files,
         NEW e \in 1..Len(l.content), NEW s \in 0..(e - 1), NEW id \in TagTargets(r, l, s, e)
  PROVE  /\ Sound(Tagged(r, l, s, e, id))
         /\ RegistryBehind(r, files) /\ BehindFile(l, files) => RegistryBehind(Tagged(r, l, s, e, id), files)
<1> USE RegistryAssumption DEF RegistryAssumption
<1> DEFINE R == Tagged(r, l, s, e, id)
           kept == KeptMentions(r, l, s, e, id)
           new == [entity |-> id, note |-> l.note, revision |-> l.revision,
                   content |-> l.content, start |-> s, end |-> e,
                   surface |-> Slice(l.content, s, e),
                   prefix |-> Before(l.content, s), suffix |-> After(l.content, e),
                   active |-> TRUE]
<1>1. r \in Registry /\ r.mentions \subseteq Mention
  BY DEF Sound, Registry
<1>2. l.content \in Texts /\ Len(l.content) \in Nat /\ Len(l.content) <= MaxLength
  BY TextIsSequence, LenProperties DEF Lease
<1>3. /\ s \in Nat /\ s \in 0..Len(l.content) /\ e \in 0..Len(l.content) /\ s < e
      /\ s \in 0..MaxLength /\ e \in 0..MaxLength
  BY <1>2
<1>4. id \in Ids
  BY <1>1 DEF TagTargets, TaggedAt, Mention
<1>5. new \in Mention
  <2>1. /\ Slice(l.content, s, e) \in Texts
        /\ Before(l.content, s) \in Texts /\ After(l.content, e) \in Texts
    BY <1>2, <1>3, SliceIsText, ContextIsText
  <2> QED BY <1>2, <1>3, <1>4, <2>1 DEF Mention, Lease
<1>6. Placed(new)
  BY <1>3 DEF Placed
<1>7. kept \subseteq r.mentions
  BY DEF KeptMentions
<1>8. /\ R = [r EXCEPT !.users = r.users \cup {id}, !.mentions = kept \cup {new}]
      /\ R.users = r.users \cup {id} /\ R.mentions = kept \cup {new}
  BY <1>1 DEF Tagged, Registry
<1>9. ASSUME NEW m \in kept PROVE m.entity # id
  <2> SUFFICES ASSUME m.entity = id PROVE FALSE
    OBVIOUS
  <2>1. m \in r.mentions /\ id \in Known(r)
    BY <1>7 DEF Sound, Known
  <2>2. id \in TaggedAt(r, l, s, e)
    BY <2>1 DEF TagTargets
  <2>3. PICK n \in r.mentions : n.active /\ n.note = l.note /\ n.start = s /\ n.end = e
                                /\ n.entity = id
    BY <2>2 DEF TaggedAt
  <2>4. n = m
    BY <2>1, <2>3 DEF Sound
  <2> QED BY <1>3, <2>3, <2>4 DEF KeptMentions
<1>n. /\ new.entity = id /\ new.note = l.note
      /\ new.revision = l.revision /\ new.content = l.content
  OBVIOUS
<1> HIDE DEF R, kept, new
<1>10. R \in Registry
  BY <1>1, <1>4, <1>5, <1>7, <1>8 DEF Registry
<1>11. \A m \in R.mentions : Placed(m) /\ m.entity \in R.users
  BY <1>6, <1>7, <1>8, <1>n DEF Sound
<1>12. \A m, k \in R.mentions : m.entity = k.entity => m = k
  BY <1>7, <1>8, <1>9, <1>n DEF Sound
<1>13. ASSUME RegistryBehind(r, files), BehindFile(l, files) PROVE RegistryBehind(R, files)
  BY <1>7, <1>8, <1>n, <1>13 DEF RegistryBehind, BehindFile
<1> HIDE DEF Sound
<1>14. Sound(R)
  BY ONLY <1>10, <1>11, <1>12 DEF Sound
<1> QED BY <1>13, <1>14 DEF R

\* A NER batch leaves mentions and users' entities alone.
LEMMA BatchKeeps ==
  ASSUME NEW r, Sound(r), NEW n \in Nat, NEW batch \in SUBSET Ids, NEW files
  PROVE  /\ Sound(WithBatch(r, n, batch))
         /\ RegistryBehind(r, files) => RegistryBehind(WithBatch(r, n, batch), files)
<1>1. /\ WithBatch(r, n, batch) \in Registry
      /\ WithBatch(r, n, batch).mentions = r.mentions
      /\ WithBatch(r, n, batch).users = r.users
  BY DEF Sound, WithBatch, Registry
<1> QED BY <1>1 DEF Sound, RegistryBehind

-----------------------------------------------------------------------------
(***************************************************************************)
(* The invariant is kept                                                   *)
(***************************************************************************)

\* The initial state, with nothing on disk, satisfies the invariant.
LEMMA AuthorityInit == Init => AuthorityInv
<1> SUFFICES ASSUME Init PROVE AuthorityInv
  OBVIOUS
<1> USE RegistryAssumption, AuthorityAssumption
    DEF RegistryAssumption, AuthorityAssumption, Init
<1>1. <<>> \in Texts
  <2>1. <<>> \in Seq(Words) /\ Len(<<>>) = 0
    BY EmptySeq
  <2>2. <<>> \in Texts <=> <<>> \in Seq(Words) /\ Len(<<>>) <= MaxLength
    BY ONLY TextIsSequence
  <2> QED BY <2>1, <2>2
<1>2. EmptyRegistry \in Registry /\ EmptyRegistry.mentions = {}
  BY DEF EmptyRegistry, Registry
<1>3. Sound(EmptyRegistry) /\ RegistryBehind(EmptyRegistry, docs)
  BY <1>2 DEF Sound, RegistryBehind
<1>4. NoOp \in [kind: Kinds, lease: Lease \cup {NoLease}, registry: Registry]
  BY <1>2 DEF NoOp, Kinds
<1>5. notes \in [Notes -> {"unborn", "there", "deleted"}]
  OBVIOUS
<1>6. docs \in [Notes -> [revision: Nat, content: Texts]]
  BY <1>1
<1>7. TypeOK
  BY <1>2, <1>4, <1>5, <1>6 DEF TypeOK
<1>8. OpSound
  BY <1>3 DEF OpSound, NoOp
<1> QED BY <1>3, <1>7, <1>8 DEF AuthorityInv, LeaseIsCommitted

\* A file's lease is of the note, and is what the file says.
LEMMA OpenedIsLease ==
  ASSUME TypeOK, NEW n \in Notes
  PROVE  Opened(n) \in Lease /\ Opened(n).note = n /\ BehindFile(Opened(n), docs)
BY DEF Opened, TypeOK, Lease, BehindFile

\* Anchors made from a registry are of the lease they are made for.
LEMMA RegistryAnchorsType ==
  ASSUME NEW r \in Registry, NEW l \in Lease
  PROVE  RegistryAnchors(r, l) \in Anchors \cup {NoAnchors}
<1> USE AuthorityAssumption DEF AuthorityAssumption
<1>1. CASE ActiveMentions(r, l) = {}
  BY <1>1 DEF RegistryAnchors
<1>2. CASE ActiveMentions(r, l) # {}
  <2>1. ActiveMentions(r, l) \subseteq Mention
    BY DEF ActiveMentions, Registry
  <2>2. {Span(m) : m \in ActiveMentions(r, l)} \in SUBSET [start: 0..MaxLength, end: 0..MaxLength]
    BY <2>1 DEF Span, Mention
  <2>3. 0 \in 0..MaxGeneration
    OBVIOUS
  <2> QED BY <1>2, <2>2, <2>3 DEF RegistryAnchors, Anchors, Lease
<1> QED BY <1>1, <1>2

\* What is behind the files stays behind them when a document is replaced by a
\* later revision.
LEMMA LaterRevisionKeepsBehind ==
  ASSUME TypeOK, NEW l \in Lease, WriteDocument(l),
         docs' = docs \/ l.revision > docs[l.note].revision
  PROVE  /\ \A x : x.note \in Notes /\ x.revision \in Nat /\ BehindFile(x, docs) => BehindFile(x, docs')
         /\ \A r : r \in Registry /\ RegistryBehind(r, docs) => RegistryBehind(r, docs')
         /\ docs' \in [Notes -> [revision: Nat, content: Texts]]
         /\ BehindFile(l, docs')
<1>1. docs \in [Notes -> [revision: Nat, content: Texts]]
  BY DEF TypeOK
<1>2. docs' = [docs EXCEPT ![l.note] = [revision |-> l.revision, content |-> l.content]]
  BY DEF WriteDocument
<1>3. l.note \in Notes /\ l.revision \in Nat /\ l.content \in Texts
  BY DEF Lease
<1>4. docs' \in [Notes -> [revision: Nat, content: Texts]]
  BY <1>1, <1>2, <1>3
<1>5. /\ docs'[l.note].revision = l.revision /\ docs'[l.note].content = l.content
      /\ \A n \in Notes : n # l.note => docs'[n] = docs[n]
  BY <1>1, <1>2, <1>3
<1>6. ASSUME NEW x, x.note \in Notes, x.revision \in Nat, BehindFile(x, docs) PROVE BehindFile(x, docs')
  <2>1. /\ docs[x.note].revision \in Nat /\ docs'[x.note].revision \in Nat
    BY <1>1, <1>4, <1>6
  <2>2. docs'[x.note] = docs[x.note] \/ docs'[x.note].revision > docs[x.note].revision
    BY <1>5, <1>6
  <2> QED BY <1>6, <2>1, <2>2 DEF BehindFile
<1>7. ASSUME NEW r \in Registry, RegistryBehind(r, docs) PROVE RegistryBehind(r, docs')
  <2>1. \A m \in r.mentions : m.note \in Notes /\ m.revision \in Nat
    BY <1>7 DEF Registry, Mention
  <2> QED BY <1>6, <1>7, <2>1 DEF RegistryBehind
<1>8. BehindFile(l, docs')
  BY <1>3, <1>5 DEF BehindFile
<1> QED BY <1>4, <1>6, <1>7, <1>8

\* A step outside commands leaves the disk as it is and takes the registry in
\* memory from there, if anywhere.
LEMMA RestKeeps ==
  ASSUME AuthorityInv, UNCHANGED <<docs, stored>>,
         registry' = registry \/ registry' = stored, op' = op \/ op' = NoOp,
         pc' \notin {"committed", "saved"}
  PROVE  /\ Sound(stored)' /\ RegistryBehind(stored, docs)'
         /\ Sound(registry)' /\ RegistryBehind(registry, docs)'
         /\ OpSound'
<1> USE DEF AuthorityInv
<1>1. Sound(stored)' /\ RegistryBehind(stored, docs)'
  OBVIOUS
<1>2. Sound(registry)' /\ RegistryBehind(registry, docs)'
  OBVIOUS
<1>3. Sound(op'.registry) /\ RegistryBehind(op'.registry, docs')
  <2>1. CASE op' = op
    BY <2>1 DEF OpSound
  <2>2. CASE op' = NoOp
    <3>1. op'.registry = EmptyRegistry
      BY <2>2 DEF NoOp
    <3>2. EmptyRegistry \in Registry /\ EmptyRegistry.mentions = {}
      BY DEF EmptyRegistry, Registry
    <3> QED BY <3>1, <3>2 DEF Sound, RegistryBehind
  <2> QED BY <2>1, <2>2
<1>4. OpSound'
  BY <1>3 DEF OpSound
<1> QED BY <1>1, <1>2, <1>4

\* Starting, selecting, creating, deleting, publishing and ending keep the
\* invariant: a lease is taken from its file, or stays, or goes.
LEMMA SelectKeeps ==
  ASSUME AuthorityInv,
         \/ Start \/ SelectNote \/ SelectFolder \/ CreateNote \/ DeleteNotes
         \/ PublishFull \/ PublishAnchors \/ Crash
  PROVE  AuthorityInv'
<1> USE RegistryAssumption, AuthorityAssumption
    DEF RegistryAssumption, AuthorityAssumption, disk, memory
<1>0. TypeOK /\ LeaseIsCommitted /\ Present \subseteq Notes /\ stored \in Registry
      /\ registry \in Registry
  BY DEF AuthorityInv, Present, Sound
<1>1. CASE Start
  <2> USE <1>1 DEF Start
  <2>1. /\ active' \in Notes \cup {NoNote} /\ lease' \in Lease \cup {NoLease}
        /\ anchors' \in Anchors \cup {NoAnchors} /\ LeaseIsCommitted'
    BY <1>0, OpenedIsLease, RegistryAnchorsType DEF LeaseIsCommitted, BehindFile
  <2>2. TypeOK'
    BY <1>0, <2>1 DEF TypeOK
  <2> QED BY <2>1, <2>2, RestKeeps DEF AuthorityInv
<1>2. CASE SelectNote
  <2> USE <1>2 DEF SelectNote
  <2>1. /\ active' \in Notes \cup {NoNote} /\ lease' \in Lease \cup {NoLease}
        /\ anchors' \in Anchors \cup {NoAnchors} /\ LeaseIsCommitted'
    BY <1>0, OpenedIsLease, RegistryAnchorsType DEF LeaseIsCommitted, BehindFile
  <2>2. TypeOK'
    BY <1>0, <2>1 DEF TypeOK
  <2> QED BY <2>1, <2>2, RestKeeps DEF AuthorityInv
<1>3. CASE SelectFolder
  <2> USE <1>3 DEF SelectFolder
  <2>1. TypeOK' /\ LeaseIsCommitted'
    BY <1>0 DEF TypeOK, LeaseIsCommitted
  <2> QED BY <2>1, RestKeeps DEF AuthorityInv
<1>4. CASE CreateNote
  <2> USE <1>4 DEF CreateNote
  <2>1. notes' \in [Notes -> {"unborn", "there", "deleted"}]
    BY <1>0 DEF TypeOK
  <2>2. TypeOK' /\ LeaseIsCommitted'
    BY <1>0, <2>1 DEF TypeOK, LeaseIsCommitted
  <2> QED BY <2>2, RestKeeps DEF AuthorityInv
<1>5. CASE DeleteNotes
  <2> USE <1>5 DEF DeleteNotes
  <2>1. notes' \in [Notes -> {"unborn", "there", "deleted"}]
    BY <1>0 DEF TypeOK
  <2>2. /\ UNCHANGED <<docs, stored, registry, scene, pc, op>> /\ pc = "idle"
        /\ \/ active' = NoNote /\ lease' = NoLease /\ anchors' = NoAnchors
           \/ UNCHANGED <<active, lease, anchors>>
    OBVIOUS
  <2>3. TypeOK' /\ LeaseIsCommitted'
    BY ONLY <1>0, <2>1, <2>2 DEF TypeOK, LeaseIsCommitted
  <2> QED BY <2>2, <2>3, RestKeeps DEF AuthorityInv
<1>6. CASE PublishFull
  <2> USE <1>6 DEF PublishFull
  <2>1. scene' \in [generation: 1..MaxGeneration, full: BOOLEAN]
    BY <1>0 DEF TypeOK
  <2>2. TypeOK' /\ LeaseIsCommitted'
    BY <1>0, <2>1 DEF TypeOK, LeaseIsCommitted
  <2> QED BY <2>2, RestKeeps DEF AuthorityInv
<1>7. CASE PublishAnchors
  <2> USE <1>7 DEF PublishAnchors
  <2>1. lease \in Lease /\ lease.content \in Texts
    BY <1>0 DEF TypeOK, Lease
  <2>2. Len(lease.content) \in Nat /\ Len(lease.content) <= MaxLength
    BY <2>1, TextIsSequence, LenProperties
  <2>a. PICK e \in 1..Len(lease.content) :
          \E s \in 0..(e - 1), g \in {0, scene.generation} :
            anchors' = [note |-> lease.note, revision |-> lease.revision,
                        content |-> lease.content, generation |-> g,
                        spans |-> {[start |-> s, end |-> e]}]
    OBVIOUS
  <2>3. PICK s \in 0..(e - 1), g \in {0, scene.generation} :
          anchors' = [note |-> lease.note, revision |-> lease.revision,
                      content |-> lease.content, generation |-> g,
                      spans |-> {[start |-> s, end |-> e]}]
    BY <2>a
  <2>4. s \in 0..MaxLength /\ e \in 0..MaxLength /\ g \in 0..MaxGeneration
    BY <1>0, <2>2 DEF TypeOK
  <2>b. {[start |-> s, end |-> e]} \in SUBSET [start: 0..MaxLength, end: 0..MaxLength]
    BY <2>4
  <2>c. lease.note \in Notes /\ lease.revision \in Nat /\ lease.content \in Texts
    BY <2>1 DEF Lease
  <2>5. anchors' \in Anchors
    BY ONLY <2>3, <2>4, <2>b, <2>c DEF Anchors
  <2>6. TypeOK' /\ LeaseIsCommitted'
    BY <1>0, <2>5 DEF TypeOK, LeaseIsCommitted
  <2> QED BY <2>6, RestKeeps DEF AuthorityInv
<1>8. CASE Crash
  <2> USE <1>8 DEF Crash
  <2>1. op' \in [kind: Kinds, lease: Lease \cup {NoLease}, registry: Registry]
    BY DEF NoOp, Kinds, EmptyRegistry, Registry
  <2>2. TypeOK' /\ LeaseIsCommitted'
    BY <1>0, <2>1 DEF TypeOK, LeaseIsCommitted
  <2> QED BY <2>2, RestKeeps DEF AuthorityInv
<1> QED BY <1>1, <1>2, <1>3, <1>4, <1>5, <1>6, <1>7, <1>8

\* What holds after a command's first step: the document it has committed, if any,
\* and what it is about to install.
LEMMA CommittedKeeps ==
  ASSUME AuthorityInv, UNCHANGED <<notes, stored, memory>>, pc' = "committed",
         docs' \in [Notes -> [revision: Nat, content: Texts]],
         \A x : x.note \in Notes /\ x.revision \in Nat /\ BehindFile(x, docs)
                => BehindFile(x, docs'),
         \A r : r \in Registry /\ RegistryBehind(r, docs) => RegistryBehind(r, docs'),
         NEW kind \in {"save", "tag", "ner"}, NEW l \in Lease \cup {NoLease},
         NEW r, Sound(r), RegistryBehind(r, docs'),
         kind # "ner" => lease # NoLease /\ l \in Lease /\ l.note = active /\ BehindFile(l, docs'),
         op' = [kind |-> kind, lease |-> l, registry |-> r]
  PROVE  AuthorityInv'
<1> USE DEF memory
<1>1. op' \in [kind: Kinds, lease: Lease \cup {NoLease}, registry: Registry]
  BY DEF Kinds, Sound
<1>2. TypeOK'
  BY <1>1 DEF AuthorityInv, TypeOK
<1>3. Sound(stored)' /\ RegistryBehind(stored, docs)'
  BY DEF AuthorityInv, Sound
<1>4. Sound(registry)' /\ RegistryBehind(registry, docs)'
  BY DEF AuthorityInv, Sound
<1>5. op'.kind = kind /\ op'.lease = l /\ op'.registry = r
  OBVIOUS
<1>6. OpSound'
  BY <1>5 DEF OpSound
<1>7. LeaseIsCommitted'
  <2> SUFFICES ASSUME lease # NoLease
               PROVE  lease.note = active /\ BehindFile(lease, docs')
    BY DEF LeaseIsCommitted, BehindFile
  <2>1. lease \in Lease /\ lease.note = active /\ BehindFile(lease, docs)
    BY DEF AuthorityInv, TypeOK, LeaseIsCommitted, BehindFile
  <2> QED BY <2>1 DEF Lease
<1> QED BY <1>2, <1>3, <1>4, <1>6, <1>7 DEF AuthorityInv

\* The commit of a save, of a tag and of a NER batch keep the invariant: a
\* document is replaced only by a later revision, and the registry that is made
\* speaks of that one.
LEMMA CommitKeeps ==
  ASSUME AuthorityInv, CommitSave \/ CommitTag \/ AcceptBatch
  PROVE  AuthorityInv'
<1> USE RegistryAssumption, AuthorityAssumption DEF RegistryAssumption, AuthorityAssumption
<1>0. /\ TypeOK /\ Sound(registry) /\ RegistryBehind(registry, docs)
      /\ docs \in [Notes -> [revision: Nat, content: Texts]]
      /\ lease # NoLease =>
           lease \in Lease /\ lease.note = active /\ lease.note \in Notes
             /\ BehindFile(lease, docs)
  BY DEF AuthorityInv, TypeOK, LeaseIsCommitted, BehindFile, Lease
<1>1. CASE CommitSave
  <2>1. PICK c \in Texts :
          /\ WriteDocument(NextLease(lease, c))
          /\ op' = [kind |-> "save", lease |-> NextLease(lease, c),
                    registry |-> Reanchor(registry, NextLease(lease, c))]
    BY <1>1 DEF CommitSave
  <2> DEFINE next == NextLease(lease, c)
  <2>2. lease # NoLease /\ lease = Opened(lease.note)
        /\ UNCHANGED <<notes, stored, memory>> /\ pc' = "committed"
    BY <1>1 DEF CommitSave, Committable
  <2>3. /\ docs[lease.note].revision = lease.revision
        /\ docs[lease.note].content = lease.content
        /\ docs[lease.note] \in [revision: Nat, content: Texts]
    BY <1>0, <2>2 DEF Opened
  <2>4. next \in Lease /\ next.note = lease.note
    <3>1. CASE c = lease.content
      BY <1>0, <2>2, <3>1 DEF NextLease
    <3>2. CASE c # lease.content
      <4>1. next = [lease EXCEPT !.revision = docs[lease.note].revision + 1, !.content = c]
        BY <3>2 DEF NextLease
      <4>2. docs[lease.note].revision + 1 \in Nat
        BY <2>3
      <4> HIDE DEF next
      <4> QED BY <1>0, <2>2, <4>1, <4>2 DEF Lease
    <3> QED BY <3>1, <3>2
  <2>5. docs' = docs \/ next.revision > docs[next.note].revision
    <3>1. CASE c = lease.content
      <4>1. next = lease
        BY <3>1 DEF NextLease
      <4>2. docs[lease.note] = [revision |-> lease.revision, content |-> lease.content]
        BY <2>3
      <4> QED BY <1>0, <2>1, <4>1, <4>2 DEF WriteDocument
    <3>2. CASE c # lease.content
      <4>1. next.revision = docs[lease.note].revision + 1
        BY <1>0, <2>2, <3>2 DEF NextLease, Lease
      <4> QED BY <2>3, <2>4, <4>1
    <3> QED BY <3>1, <3>2
  <2> HIDE DEF next
  <2>6. /\ \A x : x.note \in Notes /\ x.revision \in Nat /\ BehindFile(x, docs)
                => BehindFile(x, docs')
        /\ \A r : r \in Registry /\ RegistryBehind(r, docs) => RegistryBehind(r, docs')
        /\ docs' \in [Notes -> [revision: Nat, content: Texts]]
        /\ BehindFile(next, docs')
    BY <1>0, <2>1, <2>4, <2>5, LaterRevisionKeepsBehind DEF next
  <2>7. Sound(Reanchor(registry, next)) /\ RegistryBehind(Reanchor(registry, next), docs')
    <3>1. RegistryBehind(registry, docs')
      BY <1>0, <2>6 DEF Sound
    <3> QED BY <1>0, <2>4, <2>6, <3>1, ReanchorKeeps
  <2>8. op' = [kind |-> "save", lease |-> next, registry |-> Reanchor(registry, next)]
    BY <2>1 DEF next
  <2> QED BY <1>0, <2>2, <2>4, <2>6, <2>7, <2>8, CommittedKeeps
<1>2. CASE CommitTag
  <2> DEFINE nextOf(c) == IF c = lease.content THEN lease
                          ELSE [lease EXCEPT !.revision = @ + 1, !.content = c]
  <2>1. PICK c \in Texts :
          /\ \E e \in 1..Len(c) : \E s \in 0..(e - 1) :
               \E id \in TagTargets(Reanchor(registry, nextOf(c)), nextOf(c), s, e) :
                 op' = [kind |-> "tag", lease |-> nextOf(c),
                        registry |-> Tagged(Reanchor(registry, nextOf(c)), nextOf(c), s, e, id)]
          /\ \/ c = lease.content /\ UNCHANGED docs
             \/ c # lease.content /\ Committable(lease) /\ WriteDocument(nextOf(c))
    BY <1>2, ZenonT(60) DEF CommitTag
  <2> DEFINE next == nextOf(c)
             r == Reanchor(registry, next)
  <2>2. lease # NoLease /\ UNCHANGED <<notes, stored, memory>> /\ pc' = "committed"
    BY <1>2 DEF CommitTag
  <2>3. next \in Lease /\ next.note = lease.note /\ next.content = c
    <3>1. CASE c = lease.content
      BY <1>0, <2>2, <3>1
    <3>2. CASE c # lease.content
      <4>1. next = [lease EXCEPT !.revision = lease.revision + 1, !.content = c]
        BY <3>2
      <4>2. lease.revision + 1 \in Nat
        BY <1>0, <2>2 DEF Lease
      <4> HIDE DEF next
      <4> QED BY <1>0, <2>2, <4>1, <4>2 DEF Lease
    <3> QED BY <3>1, <3>2
  <2>4. PICK e \in 1..Len(next.content) : \E s \in 0..(e - 1) :
               \E id \in TagTargets(r, next, s, e) :
                 op' = [kind |-> "tag", lease |-> next, registry |-> Tagged(r, next, s, e, id)]
    BY <2>1, <2>3
  <2>5. PICK s \in 0..(e - 1), id \in Ids :
          /\ id \in TagTargets(r, next, s, e)
          /\ op' = [kind |-> "tag", lease |-> next, registry |-> Tagged(r, next, s, e, id)]
    <3>1. \A s \in 0..(e - 1) : TagTargets(r, next, s, e) \subseteq Ids
      <4>1. r \in Registry
        BY <1>0, <2>3, ReanchorKeeps DEF Sound
      <4> QED BY <4>1 DEF TagTargets, TaggedAt, Registry, Mention
    <3> QED BY <2>4, <3>1
  <2>6. /\ \A x : x.note \in Notes /\ x.revision \in Nat /\ BehindFile(x, docs)
                => BehindFile(x, docs')
        /\ \A q : q \in Registry /\ RegistryBehind(q, docs) => RegistryBehind(q, docs')
        /\ docs' \in [Notes -> [revision: Nat, content: Texts]]
        /\ BehindFile(next, docs')
    <3>1. CASE c = lease.content /\ UNCHANGED docs
      <4>1. next = lease
        BY <3>1
      <4> QED BY <1>0, <2>2, <3>1, <4>1
    <3>2. CASE c # lease.content /\ Committable(lease) /\ WriteDocument(next)
      <4>1. next.revision = lease.revision + 1
        BY <1>0, <2>2, <3>2 DEF Lease
      <4>2. docs[lease.note].revision = lease.revision /\ lease.revision \in Nat
        BY <1>0, <2>2, <3>2 DEF Committable, Opened, Lease
      <4>3. next.revision > docs[next.note].revision
        BY <2>3, <4>1, <4>2
      <4> HIDE DEF next
      <4> QED BY <1>0, <2>3, <3>2, <4>3, LaterRevisionKeepsBehind
    <3> QED BY <2>1, <3>1, <3>2
  <2> HIDE DEF next, nextOf
  <2>7. Sound(r) /\ RegistryBehind(r, docs')
    <3>1. RegistryBehind(registry, docs')
      BY <1>0, <2>6 DEF Sound
    <3> QED BY <1>0, <2>3, <2>6, <3>1, ReanchorKeeps
  <2> HIDE DEF r
  <2>8. /\ Sound(Tagged(r, next, s, e, id))
        /\ RegistryBehind(Tagged(r, next, s, e, id), docs')
    BY <2>3, <2>5, <2>6, <2>7, TaggedKeeps
  <2> QED BY <1>0, <2>2, <2>3, <2>5, <2>6, <2>8, CommittedKeeps
<1>3. CASE AcceptBatch
  <2>1. PICK batch \in SUBSET Ids, n \in (registry.nerRevision + 1)..MaxNer :
          op' = [kind |-> "ner", lease |-> NoLease, registry |-> WithBatch(registry, n, batch)]
    BY <1>3 DEF AcceptBatch
  <2>2. n \in Nat
    BY <1>0 DEF Sound, Registry
  <2>3. /\ Sound(WithBatch(registry, n, batch))
        /\ RegistryBehind(WithBatch(registry, n, batch), docs)
    BY <1>0, <2>2, BatchKeeps
  <2>4. UNCHANGED <<notes, docs, stored, memory>> /\ pc' = "committed"
    BY <1>3 DEF AcceptBatch, disk
  <2> QED BY <1>0, <2>1, <2>3, <2>4, CommittedKeeps
<1> QED BY <1>1, <1>2, <1>3

\* The steps after the commit keep the invariant: the registry reaches the disk
\* after the document it speaks of, and a command that fails on the way leaves a
\* lease that is on disk.
LEMMA InstallKeeps ==
  ASSUME AuthorityInv, SaveRegistry \/ SaveRegistryFails \/ FailBeforeInstall \/ Install
  PROVE  AuthorityInv'
<1> USE RegistryAssumption, AuthorityAssumption
    DEF RegistryAssumption, AuthorityAssumption, disk, memory
<1>0. /\ TypeOK /\ OpSound /\ LeaseIsCommitted
      /\ Sound(stored) /\ RegistryBehind(stored, docs)
      /\ Sound(registry) /\ RegistryBehind(registry, docs)
      /\ Sound(op.registry) /\ RegistryBehind(op.registry, docs)
  BY DEF AuthorityInv, OpSound
<1>n. /\ NoOp \in [kind: Kinds, lease: Lease \cup {NoLease}, registry: Registry]
      /\ Sound(NoOp.registry) /\ RegistryBehind(NoOp.registry, docs)
  BY DEF NoOp, Kinds, EmptyRegistry, Registry, Sound, RegistryBehind
<1>1. CASE SaveRegistry
  <2>1. /\ stored' = op.registry \/ stored' = stored
        /\ pc = "committed" /\ pc' = "saved" /\ UNCHANGED <<notes, docs, memory, op>>
    BY <1>1 DEF SaveRegistry
  <2>2. Sound(stored)' /\ RegistryBehind(stored, docs)'
    BY <1>0, <2>1
  <2>3. TypeOK'
    BY <1>0, <2>1, <2>2 DEF TypeOK, Sound
  <2>4. OpSound' /\ LeaseIsCommitted'
    BY <1>0, <2>1 DEF OpSound, LeaseIsCommitted
  <2>5. Sound(registry)' /\ RegistryBehind(registry, docs)'
    BY <1>0, <2>1
  <2> QED BY <2>2, <2>3, <2>4, <2>5 DEF AuthorityInv
<1>2. CASE SaveRegistryFails
  <2>1. /\ pc = "committed" /\ pc' = "idle" /\ op' = NoOp
        /\ UNCHANGED <<notes, docs, stored, active, registry, scene>>
        /\ IF op.kind = "ner" THEN UNCHANGED <<lease, anchors>>
           ELSE lease' = op.lease /\ anchors' = NoAnchors
    BY <1>2 DEF SaveRegistryFails
  <2>2. lease' \in Lease \cup {NoLease} /\ anchors' \in Anchors \cup {NoAnchors}
    BY <1>0, <2>1 DEF OpSound, TypeOK
  <2>3. TypeOK'
    BY <1>0, <1>n, <2>1, <2>2 DEF TypeOK
  <2>4. LeaseIsCommitted'
    BY <1>0, <2>1 DEF OpSound, LeaseIsCommitted, BehindFile
  <2> QED BY <2>1, <2>3, <2>4, RestKeeps DEF AuthorityInv
<1>3. CASE FailBeforeInstall
  <2> USE <1>3 DEF FailBeforeInstall
  <2>1. TypeOK' /\ LeaseIsCommitted'
    BY <1>0, <1>n DEF TypeOK, LeaseIsCommitted
  <2> QED BY <2>1, RestKeeps DEF AuthorityInv
<1>4. CASE Install
  <2>1. /\ pc = "saved" /\ pc' = "idle" /\ op' = NoOp /\ registry' = op.registry
        /\ lease' = IF op.kind = "ner" THEN lease ELSE op.lease
        /\ UNCHANGED <<notes, docs, stored, active>>
    BY <1>4 DEF Install
  <2>2. lease' \in Lease \cup {NoLease} /\ LeaseIsCommitted'
    BY <1>0, <2>1 DEF OpSound, TypeOK, LeaseIsCommitted, BehindFile
  <2>3. /\ anchors' \in Anchors \cup {NoAnchors}
        /\ scene' \in [generation: 1..MaxGeneration, full: BOOLEAN]
    <3>1. CASE NeedsScene
      <4>1. /\ scene.generation < MaxGeneration
            /\ scene' = [scene EXCEPT !.generation = @ + 1]
            /\ anchors' = NoAnchors
        BY <1>4, <3>1 DEF Install
      <4> QED BY <1>0, <4>1 DEF TypeOK
    <3>2. CASE ~NeedsScene
      <4>1. /\ anchors' = IF op.kind = "ner" THEN anchors ELSE RegistryAnchors(op.registry, op.lease)
            /\ UNCHANGED scene
        BY <1>4, <3>2 DEF Install
      <4> QED BY <1>0, <2>1, <4>1, RegistryAnchorsType DEF TypeOK, OpSound, Sound
    <3> QED BY <3>1, <3>2
  <2>4. TypeOK'
    BY <1>0, <1>n, <2>1, <2>2, <2>3 DEF TypeOK, Sound
  <2>5. Sound(registry)' /\ RegistryBehind(registry, docs)'
    BY <1>0, <2>1
  <2>6. OpSound'
    BY <1>n, <2>1 DEF OpSound
  <2>7. Sound(stored)' /\ RegistryBehind(stored, docs)'
    BY <1>0, <2>1
  <2> QED BY <2>2, <2>4, <2>5, <2>6, <2>7 DEF AuthorityInv
<1> QED BY <1>1, <1>2, <1>3, <1>4

\* Every command, failure and restart keeps the invariant.
LEMMA AuthorityNext == AuthorityInv /\ [Next]_vars => AuthorityInv'
<1> SUFFICES ASSUME AuthorityInv, [Next]_vars PROVE AuthorityInv'
  OBVIOUS
<1>1. CASE UNCHANGED vars
  BY <1>1 DEF vars, disk, memory, AuthorityInv, TypeOK, OpSound, LeaseIsCommitted
<1> QED BY <1>1, SelectKeeps, CommitKeeps, InstallKeeps DEF Next

\* So it holds in every behaviour.
LEMMA AuthorityHolds == Spec => []AuthorityInv
BY AuthorityInit, AuthorityNext, PTL DEF Spec

-----------------------------------------------------------------------------
(***************************************************************************)
(* The theorems                                                            *)
(***************************************************************************)

\* Every reachable state has well-typed variables: no offset leaves a text, no
\* text and no scene generation its bound.
THEOREM AuthorityTypeCorrect == Spec => []TypeOK
<1>1. AuthorityInv => TypeOK
  BY DEF AuthorityInv
<1> QED BY <1>1, AuthorityHolds, PTL

\* What the kernel hands out as revision n of a document is what revision n was on
\* disk, also after a save or tag that failed half-way.
THEOREM LeasesAreCommitted == Spec => []LeaseIsCommitted
<1>1. AuthorityInv => LeaseIsCommitted
  BY DEF AuthorityInv
<1> QED BY <1>1, AuthorityHolds, PTL

\* The registry on disk never describes a text that is not there yet, wherever
\* the process ends.
THEOREM RegistryStaysBehind == Spec => []StoredBehindDocuments
<1>1. AuthorityInv => StoredBehindDocuments
  BY DEF AuthorityInv, RegistryBehind, BehindFile, StoredBehindDocuments
<1> QED BY <1>1, AuthorityHolds, PTL

\* Mentions are where their text is, name known entities, one for each, whatever
\* was edited, tagged and published since.
THEOREM MentionsStayCoherent == Spec => []MentionsCoherent
<1>1. AuthorityInv => MentionsCoherent
  BY DEF AuthorityInv, Sound, Placed, Known, MentionsCoherent
<1> QED BY <1>1, AuthorityHolds, PTL

-----------------------------------------------------------------------------
(***************************************************************************)
(* Anchors                                                                 *)
(***************************************************************************)

\* What verifies becomes anchors that fit the lease they were verified against.
LEMMA RegistryAnchorsFit ==
  ASSUME NEW r, NEW l \in Lease, NEW a, a = RegistryAnchors(r, l), a # NoAnchors,
         Verifies(l, ActiveMentions(r, l))
  PROVE  /\ a.note = l.note
         /\ [note |-> a.note, revision |-> a.revision, content |-> a.content] = l
         /\ a.generation = 0
         /\ \A s \in a.spans : s.start < s.end /\ s.end <= Len(l.content)
         /\ \A s, t \in a.spans : s # t => s.end <= t.start \/ t.end <= s.start
<1> DEFINE M == ActiveMentions(r, l)
<1>1. a = [note |-> l.note, revision |-> l.revision, content |-> l.content, generation |-> 0,
           spans |-> {Span(m) : m \in M}]
  BY DEF RegistryAnchors
<1>2. [note |-> a.note, revision |-> a.revision, content |-> a.content] = l
  BY <1>1 DEF Lease
<1> HIDE DEF M
<1>3. a.spans = {Span(m) : m \in M} /\ a.note = l.note /\ a.generation = 0
  BY <1>1
<1>4. \A m \in M : Span(m).start = m.start /\ Span(m).end = m.end
  BY DEF Span
<1>5. \A m \in M : m.start < m.end /\ m.end <= Len(l.content)
  BY DEF Verifies, M
<1>6. \A m, n \in M : m # n => m.end <= n.start \/ n.end <= m.start
  BY DEF Verifies, M
<1>7. \A s \in a.spans : s.start < s.end /\ s.end <= Len(l.content)
  BY <1>3, <1>4, <1>5
<1>8. ASSUME NEW s \in a.spans, NEW t \in a.spans, s # t
      PROVE  s.end <= t.start \/ t.end <= s.start
  <2>1. PICK m \in M, n \in M : s = Span(m) /\ t = Span(n)
    BY <1>3
  <2>2. m # n
    BY <1>8, <2>1
  <2> QED BY <1>4, <1>6, <2>1, <2>2
<1> QED BY <1>2, <1>3, <1>7, <1>8

\* Every step leaves anchors that fit, or none.
LEMMA AnchorsNext == AuthorityInv /\ AnchorsFit /\ [Next]_vars => AnchorsFit'
<1> SUFFICES ASSUME AuthorityInv, AnchorsFit, [Next]_vars PROVE AnchorsFit'
  OBVIOUS
<1> USE DEF disk, memory
<1>t. TypeOK /\ OpSound /\ Present \subseteq Notes
  BY DEF AuthorityInv, Present
<1>0. CASE anchors' = NoAnchors
  BY <1>0 DEF AnchorsFit
<1>1. CASE UNCHANGED <<active, lease, anchors, scene>>
  BY <1>1 DEF AnchorsFit
<1>2. ASSUME NEW n \in Present, NEW r, Verifies(Opened(n), ActiveMentions(r, Opened(n))),
             active' = n, lease' = Opened(n), anchors' = RegistryAnchors(r, Opened(n))
      PROVE  AnchorsFit'
  <2>1. Opened(n) \in Lease /\ Opened(n).note = n
    BY <1>t, OpenedIsLease
  <2>2. lease' # NoLease
    BY <1>2, <2>1, AuthorityAssumption DEF AuthorityAssumption
  <2> QED BY <1>2, <2>1, <2>2, RegistryAnchorsFit DEF AnchorsFit
<1>3. CASE Start \/ SelectNote
  BY <1>0, <1>2, <1>3 DEF Start, SelectNote
<1>4. CASE SelectFolder \/ PublishFull \/ Crash
  BY <1>0, <1>4 DEF SelectFolder, PublishFull, Crash
<1>5. CASE CreateNote \/ DeleteNotes
  BY <1>0, <1>1, <1>5 DEF CreateNote, DeleteNotes
<1>6. CASE CommitSave \/ CommitTag \/ AcceptBatch \/ SaveRegistry \/ FailBeforeInstall
  BY <1>1, <1>6 DEF CommitSave, CommitTag, AcceptBatch, SaveRegistry, FailBeforeInstall
<1>7. CASE SaveRegistryFails
  BY <1>0, <1>1, <1>7 DEF SaveRegistryFails
<1>8. CASE Install
  <2>1. CASE NeedsScene
    BY <1>0, <1>8, <2>1 DEF Install
  <2>2. CASE ~NeedsScene /\ op.kind = "ner"
    BY <1>1, <1>8, <2>2 DEF Install
  <2>3. CASE ~NeedsScene /\ op.kind # "ner"
    <3>1. /\ op.lease \in Lease /\ op.lease.note = active /\ lease' = op.lease
          /\ anchors' = RegistryAnchors(op.registry, op.lease)
          /\ Verifies(op.lease, ActiveMentions(op.registry, op.lease))
          /\ active' = active
      BY <1>t, <1>8, <2>3 DEF Install, OpSound, AnchorsVerify
    <3>2. lease' # NoLease
      BY <3>1, AuthorityAssumption DEF AuthorityAssumption
    <3> QED BY <3>1, <3>2, RegistryAnchorsFit DEF AnchorsFit
  <2> QED BY <2>1, <2>2, <2>3
<1>9. CASE PublishAnchors
  <2>1. lease \in Lease /\ lease.note = active /\ lease # NoLease
    BY <1>t, <1>9 DEF PublishAnchors, TypeOK, AuthorityInv, LeaseIsCommitted
  <2>2. PICK e \in 1..Len(lease.content) :
          \E s \in 0..(e - 1), g \in {0, scene.generation} :
            anchors' = [note |-> lease.note, revision |-> lease.revision,
                        content |-> lease.content, generation |-> g,
                        spans |-> {[start |-> s, end |-> e]}]
    BY <1>9 DEF PublishAnchors
  <2>3. PICK s \in 0..(e - 1), g \in {0, scene.generation} :
          anchors' = [note |-> lease.note, revision |-> lease.revision,
                      content |-> lease.content, generation |-> g,
                      spans |-> {[start |-> s, end |-> e]}]
    BY <2>2
  <2>4. UNCHANGED <<active, lease, scene>>
    BY <1>9 DEF PublishAnchors
  <2>5. [note |-> lease.note, revision |-> lease.revision, content |-> lease.content] = lease
    BY <2>1 DEF Lease
  <2>6. s < e /\ e <= Len(lease.content)
    <3>1. Len(lease.content) \in Nat
      BY <2>1, TextIsSequence, LenProperties DEF Lease
    <3> QED BY <3>1
  <2> QED BY <2>1, <2>3, <2>4, <2>5, <2>6 DEF AnchorsFit
<1>10. CASE UNCHANGED vars
  BY <1>1, <1>10 DEF vars
<1> QED BY <1>3, <1>4, <1>5, <1>6, <1>7, <1>8, <1>9, <1>10 DEF Next

\* What the editor highlights fits the text it edits, whatever command ran since
\* and wherever it failed.
THEOREM AnchorsAlwaysFit == Spec => []AnchorsFit
<1>1. Init => AnchorsFit
  BY DEF Init, AnchorsFit
<1> QED BY <1>1, AuthorityInit, AuthorityNext, AnchorsNext, PTL DEF Spec

-----------------------------------------------------------------------------
(***************************************************************************)
(* Stale saves                                                             *)
(***************************************************************************)
Replaces ==
  \A n \in Notes : docs'[n] # docs[n] =>
    /\ lease # NoLease
    /\ lease = Opened(n)
    /\ docs'[n].revision = docs[n].revision + 1

\* Only the commit of a save or of a tag replaces a document, and both read the
\* file again first.
LEMMA ReplacesNext == AuthorityInv /\ [Next]_vars => [Replaces]_docs
<1> SUFFICES ASSUME AuthorityInv, [Next]_vars, docs' # docs PROVE Replaces
  OBVIOUS
<1>1. docs \in [Notes -> [revision: Nat, content: Texts]] /\ lease \in Lease \cup {NoLease}
  BY DEF AuthorityInv, TypeOK
<1>2. ASSUME NEW l, lease \in Lease, Committable(lease), WriteDocument(l), l.note = lease.note,
             docs' # docs => l.revision = docs[lease.note].revision + 1, lease # NoLease
      PROVE  Replaces
  <2>1. lease.note \in Notes
    BY <1>2 DEF Lease
  <2>2. docs' = [docs EXCEPT ![lease.note] = [revision |-> l.revision, content |-> l.content]]
    BY <1>2 DEF WriteDocument
  <2>3. SUFFICES ASSUME NEW n \in Notes, docs'[n] # docs[n]
                 PROVE  lease = Opened(n) /\ docs'[n].revision = docs[n].revision + 1
    BY <1>2 DEF Replaces
  <2>4. n = lease.note
    BY <1>1, <2>1, <2>2, <2>3
  <2> QED BY <1>1, <1>2, <2>1, <2>2, <2>4 DEF Committable
<1>3. CASE CommitSave
  <2>1. PICK c \in Texts : WriteDocument(NextLease(lease, c))
    BY <1>3 DEF CommitSave
  <2>2. lease \in Lease /\ lease # NoLease /\ Committable(lease)
    BY <1>1, <1>3 DEF CommitSave
  <2>3. CASE c = lease.content
    <3>1. NextLease(lease, c) = lease
      BY <2>3 DEF NextLease
    <3>2. docs[lease.note] = [revision |-> lease.revision, content |-> lease.content]
      BY <1>1, <2>2 DEF Committable, Opened, Lease
    <3>3. docs' = docs
      BY <1>1, <2>1, <3>1, <3>2 DEF WriteDocument
    <3> QED BY <3>3
  <2>4. CASE c # lease.content
    <3>1. NextLease(lease, c) = [lease EXCEPT !.revision = docs[lease.note].revision + 1,
                                              !.content = c]
      BY <2>4 DEF NextLease
    <3>2. /\ NextLease(lease, c).note = lease.note
          /\ NextLease(lease, c).revision = docs[lease.note].revision + 1
      BY <2>2, <3>1 DEF Lease
    <3> QED BY <1>2, <2>1, <2>2, <3>2
  <2> QED BY <2>3, <2>4
<1>4. CASE CommitTag
  <2>1. PICK c \in Texts :
          \/ UNCHANGED docs
          \/ /\ c # lease.content /\ Committable(lease)
             /\ WriteDocument([lease EXCEPT !.revision = @ + 1, !.content = c])
    BY <1>4 DEF CommitTag
  <2>2. lease \in Lease /\ lease # NoLease
    BY <1>1, <1>4 DEF CommitTag
  <2> DEFINE next == [lease EXCEPT !.revision = @ + 1, !.content = c]
  <2>3. Committable(lease) /\ WriteDocument(next)
    BY <2>1
  <2>4. next.note = lease.note /\ next.revision = lease.revision + 1
    BY <2>2 DEF Lease
  <2>5. docs[lease.note].revision = lease.revision
    BY <1>1, <2>2, <2>3 DEF Committable, Opened, Lease
  <2> HIDE DEF next
  <2> QED BY <1>2, <2>2, <2>3, <2>4, <2>5
<1>5. CASE \/ Start \/ SelectNote \/ SelectFolder \/ CreateNote \/ DeleteNotes \/ AcceptBatch
           \/ SaveRegistry \/ SaveRegistryFails \/ FailBeforeInstall \/ Install
           \/ PublishFull \/ PublishAnchors \/ Crash \/ UNCHANGED vars
  <2>1. docs' = docs
    BY <1>5 DEF Start, SelectNote, SelectFolder, CreateNote, DeleteNotes, AcceptBatch,
       SaveRegistry, SaveRegistryFails, FailBeforeInstall, Install, PublishFull, PublishAnchors,
       Crash, disk, vars
  <2> QED BY <2>1
<1> QED BY <1>3, <1>4, <1>5 DEF Next

\* A document is only ever replaced by its next revision, by a command that held
\* the revision and the text it replaces.
THEOREM StaleSavesReplaceNothing == Spec => StaleSaveReplacesNothing
<1>1. Spec => [][Replaces]_docs
  BY AuthorityInit, AuthorityNext, ReplacesNext, PTL DEF Spec
<1> QED BY <1>1, Zenon DEF StaleSaveReplacesNothing, Replaces
=============================================================================
