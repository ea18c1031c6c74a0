-------------------------- MODULE SceneStateProofs --------------------------
(***************************************************************************)
(* What the changes to a slot store do, for any store and any lanes.       *)
(***************************************************************************)
EXTENDS SceneState, FiniteSetTheorems, WellFoundedInduction, TLAPS

\* A store of visuals in V with ids in J whose parts agree; there is no slot more
\* than there are ids.
IsStore(store, V, J) ==
  /\ store = [at |-> store.at, of |-> store.of, free |-> store.free]
  /\ store.at \in Seq(V \cup {Vacant})
  /\ store.of \in [Ids(store) -> DOMAIN store.at]
  /\ store.free \in Seq(DOMAIN store.at)
  /\ \A id \in Ids(store) : VisualOf(store, id) \in V
  /\ Agree(store)
  /\ Ids(store) \subseteq J /\ Len(store.at) <= Cardinality(J)

-----------------------------------------------------------------------------
(***************************************************************************)
(* The stack of vacant slots                                               *)
(***************************************************************************)

\* A pushed slot is added to those of the stack, and stays apart if it was.
LEMMA Pushed ==
  ASSUME NEW T, NEW s \in Seq(T), NEW x \in T
  PROVE  /\ Append(s, x) \in Seq(T)
         /\ ToSet(Append(s, x)) = ToSet(s) \cup {x}
         /\ IsInjective(s) /\ x \notin ToSet(s) => IsInjective(Append(s, x))
<1> DEFINE n == Len(s)
<1>1. n \in Nat /\ DOMAIN s = 1..n /\ DOMAIN Append(s, x) = 1..(n + 1) /\ Append(s, x)[n + 1] = x
      /\ Append(s, x) \in Seq(T)
  OBVIOUS
<1>2. \A i \in 1..n : Append(s, x)[i] = s[i]
  OBVIOUS
<1>3. 1..(n + 1) = (1..n) \cup {n + 1}
  BY <1>1
<1> HIDE DEF n
<1>4. ToSet(Append(s, x)) = ToSet(s) \cup {x}
  BY <1>1, <1>2, <1>3 DEF ToSet
<1>5. ASSUME IsInjective(s), x \notin ToSet(s) PROVE IsInjective(Append(s, x))
  BY <1>1, <1>2, <1>3, <1>5 DEF IsInjective, ToSet
<1> QED BY <1>1, <1>4, <1>5

\* Popping takes the last slot off, and it is on the stack once.
LEMMA Popped ==
  ASSUME NEW T, NEW s \in Seq(T), s # <<>>, IsInjective(s)
  PROVE  /\ Last(s) \in T /\ Last(s) \in ToSet(s)
         /\ Front(s) \in Seq(T) /\ IsInjective(Front(s))
         /\ ToSet(Front(s)) = ToSet(s) \ {Last(s)}
<1> DEFINE n == Len(s)
<1>1. n \in Nat \ {0} /\ DOMAIN s = 1..n /\ n \in 1..n /\ \A i \in 1..n : s[i] \in T
  OBVIOUS
<1>2. /\ Front(s) = SubSeq(s, 1, n - 1) /\ Len(Front(s)) = n - 1 /\ DOMAIN Front(s) = 1..(n - 1)
      /\ Front(s) \in Seq(T) /\ \A i \in 1..(n - 1) : Front(s)[i] = s[i]
  BY <1>1 DEF Front
<1>3. Last(s) = s[n]
  BY DEF Last
<1>4. 1..n = (1..(n - 1)) \cup {n} /\ n \notin 1..(n - 1)
  BY <1>1
<1> HIDE DEF n
<1>5. IsInjective(Front(s))
  BY <1>1, <1>2, <1>4 DEF IsInjective
<1>6. ToSet(Front(s)) = ToSet(s) \ {Last(s)}
  BY <1>1, <1>2, <1>3, <1>4 DEF ToSet, IsInjective
<1> QED BY <1>1, <1>2, <1>3, <1>5, <1>6 DEF ToSet

-----------------------------------------------------------------------------
(***************************************************************************)
(* One removal, one addition, one update                                   *)
(***************************************************************************)

\* Two resident ids have two slots, and a resident id's slot is not free.
LEMMA SlotsApart ==
  ASSUME NEW V, NEW J, NEW store, IsStore(store, V, J), Vacant \notin V
  PROVE  /\ \A id \in Ids(store) : store.of[id] \in DOMAIN store.at /\ store.of[id] \notin ToSet(store.free)
         /\ \A id, other \in Ids(store) : store.of[id] = store.of[other] => id = other
<1>1. \A id \in Ids(store) : store.of[id] \in DOMAIN store.at
  BY DEF IsStore
<1>2. \A id \in Ids(store) : VisualOf(store, id).id = id /\ VisualOf(store, id) # Vacant
  BY DEF IsStore, Agree
<1>3. \A slot \in DOMAIN store.at : slot \in ToSet(store.free) => store.at[slot] = Vacant
  BY DEF IsStore, Agree
<1>4. \A id \in Ids(store) : store.of[id] \notin ToSet(store.free)
  BY <1>1, <1>2, <1>3 DEF VisualOf
<1>5. \A id, other \in Ids(store) : store.of[id] = store.of[other] => id = other
  BY <1>2 DEF VisualOf
<1> QED BY <1>1, <1>4, <1>5

\* There are n numbers from 1 to n.
LEMMA NumbersUpTo ==
  ASSUME NEW n \in Nat
  PROVE  IsFiniteSet(1..n) /\ Cardinality(1..n) = n
<1>1. 1 \in Int /\ n \in Int /\ n = IF 1 > n THEN 0 ELSE n - 1 + 1
  OBVIOUS
<1>2. IsFiniteSet(1..n) /\ Cardinality(1..n) = IF 1 > n THEN 0 ELSE n - 1 + 1
  BY ONLY <1>1, FS_Interval
<1> QED BY <1>1, <1>2

\* With no vacant slot there are as many slots as ids.
LEMMA FullStore ==
  ASSUME NEW V, NEW J, NEW store, IsStore(store, V, J), Vacant \notin V, IsFiniteSet(J),
         store.free = <<>>
  PROVE  Len(store.at) = Cardinality(Ids(store)) /\ Cardinality(Ids(store)) \in Nat
<1>1. store.of \in Bijection(Ids(store), DOMAIN store.at)
  <2>1. store.of \in [Ids(store) -> DOMAIN store.at] /\ ToSet(store.free) = {}
    BY DEF IsStore, ToSet
  <2>2. \A slot \in DOMAIN store.at : \E id \in Ids(store) : store.of[id] = slot
    <3> SUFFICES ASSUME NEW slot \in DOMAIN store.at
                 PROVE  \E id \in Ids(store) : store.of[id] = slot
      OBVIOUS
    <3>1. SlotOf(store, store.at[slot].id) = slot /\ slot # 0
      BY <2>1 DEF IsStore, Agree
    <3> QED BY <3>1 DEF SlotOf
  <2> QED BY <2>1, <2>2, SlotsApart, Zenon DEF Bijection, Injection, Surjection, IsInjective
<1>2. IsFiniteSet(Ids(store))
  BY FS_Subset DEF IsStore
<1>3. Cardinality(DOMAIN store.at) = Cardinality(Ids(store))
  BY <1>1, <1>2, FS_Bijection DEF ExistsBijection
<1>4. Len(store.at) \in Nat /\ DOMAIN store.at = 1..Len(store.at)
  BY DEF IsStore
<1>5. Cardinality(1..Len(store.at)) = Len(store.at)
  BY <1>4, NumbersUpTo
<1> QED BY <1>2, <1>3, <1>4, <1>5, FS_CardinalityType

\* With as many slots as ids no slot is vacant.
LEMMA NoneVacant ==
  ASSUME NEW V, NEW J, NEW store, IsStore(store, V, J), Vacant \notin V, IsFiniteSet(J),
         Cardinality(Ids(store)) = Len(store.at)
  PROVE  ToSet(store.free) = {} /\ \A slot \in DOMAIN store.at : store.at[slot] \in V
<1>1. Len(store.at) \in Nat /\ DOMAIN store.at = 1..Len(store.at)
  BY DEF IsStore
<1>2. IsFiniteSet(DOMAIN store.at) /\ Cardinality(DOMAIN store.at) = Cardinality(Ids(store))
  BY <1>1, NumbersUpTo
<1>3. store.of \in Injection(Ids(store), DOMAIN store.at)
  <2>1. store.of \in [Ids(store) -> DOMAIN store.at]
    BY DEF IsStore
  <2> QED BY <2>1, SlotsApart, Zenon DEF Injection, IsInjective
<1>4. \A slot \in DOMAIN store.at : \E id \in Ids(store) : store.of[id] = slot
  <2>1. store.of \in Surjection(Ids(store), DOMAIN store.at)
    BY <1>2, <1>3, FS_Injection
  <2> QED BY <2>1 DEF Surjection
<1>5. \A slot \in DOMAIN store.at : slot \notin ToSet(store.free)
  BY <1>4, SlotsApart
<1>6. ToSet(store.free) \subseteq DOMAIN store.at
  BY DEF IsStore, ToSet
<1>7. \A slot \in DOMAIN store.at : store.at[slot] \in V
  BY <1>4 DEF IsStore, VisualOf
<1> QED BY <1>5, <1>6, <1>7

\* A removal frees the slot of its id and touches no other.
LEMMA VacateKeeps ==
  ASSUME NEW V, NEW J, NEW store, IsStore(store, V, J), Vacant \notin V, NEW id \in Ids(store)
  PROVE  LET new == Vacate(store, id) IN
         /\ IsStore(new, V, J)
         /\ Ids(new) = Ids(store) \ {id}
         /\ \A other \in Ids(new) : new.of[other] = store.of[other]
         /\ DOMAIN new.at = DOMAIN store.at
         /\ \A slot \in DOMAIN store.at : slot # store.of[id] => new.at[slot] = store.at[slot]
<1> DEFINE new == Vacate(store, id)
<1> DEFINE gone == store.of[id]
<1>1. gone \in DOMAIN store.at /\ gone \notin ToSet(store.free)
  BY SlotsApart
<1>2. /\ new.at = [store.at EXCEPT ![gone] = Vacant]
      /\ new.of = Restrict(store.of, Ids(store) \ {id})
      /\ new.free = Append(store.free, gone)
      /\ new = [at |-> new.at, of |-> new.of, free |-> new.free]
  BY DEF Vacate
<1> HIDE DEF new
<1>3. store.at \in Seq(V \cup {Vacant}) /\ store.free \in Seq(DOMAIN store.at)
      /\ store.of \in [Ids(store) -> DOMAIN store.at]
  BY DEF IsStore
<1>4. /\ new.at \in Seq(V \cup {Vacant})
      /\ DOMAIN new.at = DOMAIN store.at /\ Len(new.at) = Len(store.at)
  BY <1>1, <1>2, <1>3
<1>5. \A slot \in DOMAIN store.at : slot # gone => new.at[slot] = store.at[slot]
  BY <1>1, <1>2, <1>3
<1>6. new.at[gone] = Vacant
  BY <1>1, <1>2, <1>3
<1>7. Ids(new) = Ids(store) \ {id} /\ \A other \in Ids(new) : new.of[other] = store.of[other]
  BY <1>2 DEF Ids, Restrict
<1>8. new.free \in Seq(DOMAIN new.at) /\ ToSet(new.free) = ToSet(store.free) \cup {gone}
  BY <1>1, <1>2, <1>3, <1>4, Pushed
<1>9. IsInjective(new.free)
  BY <1>1, <1>2, <1>3, Pushed DEF IsStore, Agree
<1>10. new.of \in [Ids(new) -> DOMAIN new.at]
  BY <1>2, <1>3, <1>4, <1>7 DEF Restrict, Ids
<1>11. \A other \in Ids(new) : VisualOf(new, other) = VisualOf(store, other)
  BY <1>3, <1>5, <1>7, SlotsApart DEF VisualOf
<1>12. \A slot \in DOMAIN new.at :
         IF slot \in ToSet(new.free) THEN new.at[slot] = Vacant
         ELSE new.at[slot] # Vacant /\ SlotOf(new, new.at[slot].id) = slot
  <2> TAKE slot \in DOMAIN new.at
  <2>1. CASE slot = gone
    BY <1>6, <1>8, <2>1
  <2>2. CASE slot # gone /\ slot \in ToSet(store.free)
    BY <1>4, <1>5, <1>8, <2>2 DEF IsStore, Agree
  <2>3. CASE slot # gone /\ slot \notin ToSet(store.free)
    <3>1. store.at[slot] # Vacant /\ SlotOf(store, store.at[slot].id) = slot
      BY <1>4, <2>3 DEF IsStore, Agree
    <3>2. slot # 0
      BY <1>3, <1>4
    <3>3. store.at[slot].id \in Ids(store) /\ store.of[store.at[slot].id] = slot
      BY <3>1, <3>2 DEF SlotOf
    <3>4. store.at[slot].id \in Ids(new)
      BY <1>7, <2>3, <3>3
    <3> QED BY <1>4, <1>5, <1>7, <1>8, <2>3, <3>1, <3>3, <3>4 DEF SlotOf
  <2> QED BY <2>1, <2>2, <2>3
<1>13. Agree(new)
  BY <1>7, <1>9, <1>11, <1>12 DEF Agree, IsStore
<1>14. IsStore(new, V, J)
  BY <1>2, <1>4, <1>7, <1>8, <1>10, <1>11, <1>13 DEF IsStore
<1> QED BY <1>4, <1>5, <1>7, <1>14 DEF new

\* An addition takes the slot vacated last, or a new one, and touches no other.
LEMMA OccupyKeeps ==
  ASSUME NEW V, NEW J, NEW store, IsStore(store, V, J), Vacant \notin V, NEW visual \in V,
         visual.id \in J \ Ids(store), IsFiniteSet(J)
  PROVE  LET new == Occupy(store, visual) IN
         /\ IsStore(new, V, J)
         /\ Ids(new) = Ids(store) \cup {visual.id}
         /\ \A id \in Ids(store) : new.of[id] = store.of[id]
         /\ VisualOf(new, visual.id) = visual
         /\ \A slot \in DOMAIN new.at :
              slot # new.of[visual.id] => slot \in DOMAIN store.at /\ new.at[slot] = store.at[slot]
         /\ DOMAIN store.at \subseteq DOMAIN new.at
         /\ Len(new.at) = IF store.free = <<>> THEN Len(store.at) + 1 ELSE Len(store.at)
<1> DEFINE new == Occupy(store, visual)
<1> DEFINE reused == store.free # <<>>
<1> DEFINE taken == IF reused THEN Last(store.free) ELSE Len(store.at) + 1
<1>1. /\ new.at = IF reused THEN [store.at EXCEPT ![taken] = visual] ELSE Append(store.at, visual)
      /\ new.of = [id \in Ids(store) \cup {visual.id} |->
                     IF id = visual.id THEN taken ELSE store.of[id]]
      /\ new.free = IF reused THEN Front(store.free) ELSE <<>>
      /\ new = [at |-> new.at, of |-> new.of, free |-> new.free]
  BY DEF Occupy
<1> HIDE DEF new
<1>2. store.at \in Seq(V \cup {Vacant}) /\ store.free \in Seq(DOMAIN store.at)
      /\ store.of \in [Ids(store) -> DOMAIN store.at] /\ IsInjective(store.free)
  BY DEF IsStore, Agree
<1>3. DOMAIN store.at = 1..Len(store.at) /\ Len(store.at) \in Nat
  BY <1>2
<1>4. reused => /\ taken \in DOMAIN store.at /\ taken \in ToSet(store.free)
                /\ new.free \in Seq(DOMAIN store.at) /\ IsInjective(new.free)
                /\ ToSet(new.free) = ToSet(store.free) \ {taken}
  BY <1>1, <1>2, Popped
<1>5. ~reused => /\ taken = Len(store.at) + 1
                 /\ new.free = <<>> /\ ToSet(new.free) = {} /\ ToSet(store.free) = {}
  BY <1>1, <1>2 DEF ToSet
<1>6. /\ new.at \in Seq(V \cup {Vacant})
      /\ DOMAIN new.at = DOMAIN store.at \cup {taken}
      /\ new.at[taken] = visual
      /\ \A slot \in DOMAIN new.at :
           slot # taken => slot \in DOMAIN store.at /\ new.at[slot] = store.at[slot]
      /\ Len(new.at) = IF reused THEN Len(store.at) ELSE Len(store.at) + 1
  <2> HIDE DEF taken
  <2>1. CASE reused
    BY <1>1, <1>2, <1>3, <1>4, <2>1
  <2>2. CASE ~reused
    <3>1. new.at = Append(store.at, visual) /\ taken = Len(store.at) + 1
      BY <1>1, <1>5, <2>2
    <3>2. new.at \in Seq(V \cup {Vacant}) /\ Len(new.at) = Len(store.at) + 1
          /\ DOMAIN new.at = 1..(Len(store.at) + 1) /\ new.at[Len(store.at) + 1] = visual
          /\ \A slot \in 1..Len(store.at) : new.at[slot] = store.at[slot]
      BY <1>2, <3>1
    <3> QED BY <1>3, <2>2, <3>1, <3>2
  <2> QED BY <2>1, <2>2
<1> HIDE DEF taken
<1>7. Ids(new) = Ids(store) \cup {visual.id} /\ new.of[visual.id] = taken
      /\ \A id \in Ids(store) : new.of[id] = store.of[id]
  BY <1>1 DEF Ids
<1>8. \A id \in Ids(store) : store.of[id] # taken
  BY <1>2, <1>3, <1>4, <1>5, SlotsApart
<1>9. VisualOf(new, visual.id) = visual
      /\ \A id \in Ids(store) : VisualOf(new, id) = VisualOf(store, id)
  BY <1>2, <1>6, <1>7, <1>8 DEF VisualOf
<1>10. new.of \in [Ids(new) -> DOMAIN new.at]
  <2>1. \A id \in Ids(new) : new.of[id] \in DOMAIN new.at
    BY <1>2, <1>6, <1>7
  <2>2. new.of = [id \in Ids(new) |-> new.of[id]]
    BY <1>1, <1>7
  <2> QED BY ONLY <2>1, <2>2
<1>11. new.free \in Seq(DOMAIN new.at) /\ IsInjective(new.free)
  <2>1. CASE reused
    <3>1. DOMAIN new.at = DOMAIN store.at
      BY <1>4, <1>6, <2>1
    <3> QED BY <1>4, <2>1, <3>1
  <2>2. CASE ~reused
    <3>1. DOMAIN new.free = {} /\ <<>> \in Seq(DOMAIN new.at)
      BY <1>5, <2>2
    <3> QED BY <1>5, <2>2, <3>1 DEF IsInjective
  <2> QED BY <2>1, <2>2
<1>12. \A slot \in DOMAIN new.at :
         IF slot \in ToSet(new.free) THEN new.at[slot] = Vacant
         ELSE new.at[slot] # Vacant /\ SlotOf(new, new.at[slot].id) = slot
  <2> TAKE slot \in DOMAIN new.at
  <2>1. CASE slot = taken
    BY <1>4, <1>5, <1>6, <1>7, <2>1 DEF SlotOf
  <2>2. CASE slot # taken /\ slot \in ToSet(store.free)
    BY <1>4, <1>5, <1>6, <2>2 DEF IsStore, Agree
  <2>3. CASE slot # taken /\ slot \notin ToSet(store.free)
    <3>1. slot \in DOMAIN store.at /\ new.at[slot] = store.at[slot]
      BY <1>6, <2>3
    <3>2. store.at[slot] # Vacant /\ SlotOf(store, store.at[slot].id) = slot
      BY <2>3, <3>1 DEF IsStore, Agree
    <3>3. store.at[slot].id \in Ids(store) /\ store.of[store.at[slot].id] = slot
      BY <1>3, <3>1, <3>2 DEF SlotOf
    <3> QED BY <1>4, <1>5, <1>7, <2>3, <3>1, <3>2, <3>3 DEF SlotOf
  <2> QED BY <2>1, <2>2, <2>3
<1>13. Agree(new)
  BY <1>7, <1>9, <1>11, <1>12 DEF Agree, IsStore
<1>14. Ids(new) \subseteq J /\ Len(new.at) <= Cardinality(J)
  <2>1. Ids(store) \subseteq J /\ Len(store.at) <= Cardinality(J) /\ Cardinality(J) \in Nat
    BY FS_CardinalityType DEF IsStore
  <2>2. CASE reused
    BY <1>6, <1>7, <2>1, <2>2
  <2>3. CASE ~reused
    <3>1. Len(store.at) = Cardinality(Ids(store)) /\ IsFiniteSet(Ids(store))
      BY <2>1, <2>3, FullStore, FS_Subset
    <3>2. Cardinality(Ids(new)) = Cardinality(Ids(store)) + 1
      BY <1>7, <3>1, FS_AddElement
    <3>3. Cardinality(Ids(new)) <= Cardinality(J)
      BY <1>7, <2>1, FS_Subset
    <3> QED BY <1>6, <1>7, <2>1, <2>3, <3>1, <3>2, <3>3
  <2> QED BY <2>2, <2>3
<1>15. IsStore(new, V, J)
  BY <1>1, <1>6, <1>7, <1>9, <1>10, <1>11, <1>13, <1>14 DEF IsStore
<1> QED BY <1>6, <1>7, <1>9, <1>15 DEF new

\* An update replaces the visual at the slot of its id.
LEMMA ReviseKeeps ==
  ASSUME NEW V, NEW J, NEW store, IsStore(store, V, J), Vacant \notin V, NEW visual \in V,
         visual.id \in Ids(store)
  PROVE  LET new == Revise(store, visual) IN
         /\ IsStore(new, V, J)
         /\ new.of = store.of /\ Ids(new) = Ids(store)
         /\ VisualOf(new, visual.id) = visual
         /\ DOMAIN new.at = DOMAIN store.at
         /\ \A slot \in DOMAIN store.at :
              slot # store.of[visual.id] => new.at[slot] = store.at[slot]
<1> DEFINE new == Revise(store, visual)
<1> DEFINE slot == store.of[visual.id]
<1>0. store = [at |-> store.at, of |-> store.of, free |-> store.free]
  BY DEF IsStore
<1>1. /\ new.at = [store.at EXCEPT ![slot] = visual] /\ new.of = store.of /\ new.free = store.free
      /\ new = [at |-> new.at, of |-> new.of, free |-> new.free]
  BY <1>0 DEF Revise
<1> HIDE DEF new
<1>2. store.at \in Seq(V \cup {Vacant}) /\ store.free \in Seq(DOMAIN store.at)
      /\ store.of \in [Ids(store) -> DOMAIN store.at]
  BY DEF IsStore
<1>3. slot \in DOMAIN store.at /\ slot \notin ToSet(store.free)
  BY SlotsApart
<1>4. /\ new.at \in Seq(V \cup {Vacant}) /\ new.at[slot] = visual
      /\ DOMAIN new.at = DOMAIN store.at /\ Len(new.at) = Len(store.at)
      /\ \A other \in DOMAIN store.at : other # slot => new.at[other] = store.at[other]
  BY <1>1, <1>2, <1>3
<1>5. Ids(new) = Ids(store)
  BY <1>1 DEF Ids
<1>6. VisualOf(new, visual.id) = visual
      /\ \A id \in Ids(store) \ {visual.id} : VisualOf(new, id) = VisualOf(store, id)
  BY <1>1, <1>2, <1>4, SlotsApart DEF VisualOf
<1>7. SlotOf(store, visual.id) = slot
  BY DEF SlotOf
<1>8. \A other \in DOMAIN new.at :
        IF other \in ToSet(new.free) THEN new.at[other] = Vacant
        ELSE new.at[other] # Vacant /\ SlotOf(new, new.at[other].id) = other
  BY <1>1, <1>3, <1>4, <1>5, <1>7 DEF IsStore, Agree, SlotOf
<1>9. Agree(new)
  <2>1. \A id \in Ids(store) : VisualOf(store, id).id = id
    BY DEF IsStore, Agree
  <2>2. \A id \in Ids(new) : VisualOf(new, id).id = id
    BY <1>5, <1>6, <2>1
  <2>3. IsInjective(new.free)
    BY <1>1 DEF IsStore, Agree
  <2> QED BY <1>8, <2>2, <2>3 DEF Agree
<1>10. IsStore(new, V, J)
  <2>1. \A id \in Ids(new) : VisualOf(new, id) \in V
    BY <1>5, <1>6 DEF IsStore
  <2> QED BY <1>1, <1>2, <1>4, <1>5, <1>9, <2>1 DEF IsStore
<1> QED BY <1>1, <1>4, <1>5, <1>6, <1>10 DEF new

-----------------------------------------------------------------------------
(***************************************************************************)
(* Folds over a lane                                                       *)
(***************************************************************************)

\* A set of numbers that has 0 and with each number the next has them all.
LEMMA CountingUp ==
  ASSUME NEW G, 0 \in G, \A n \in Nat : n \in G => n + 1 \in G
  PROVE  Nat \subseteq G
<1> SUFFICES ASSUME Nat \ G # {} PROVE FALSE
  OBVIOUS
<1>1. PICK n \in Nat \ G : \A m \in Nat \ G : ~(<<m, n>> \in OpToRel(<, Nat))
  BY WFMin, NatLessThanWellFounded
<1>2. \A m \in Nat \ G : ~(m < n)
  BY <1>1, Zenon DEF OpToRel
<1>3. n # 0
  OBVIOUS
<1>4. n - 1 \in Nat /\ n - 1 < n /\ n = (n - 1) + 1
  BY <1>3
<1>5. n - 1 \in G
  BY <1>2, <1>4
<1> QED BY <1>4, <1>5

\* The greatest of some numbers up to m is one of them, the others are below.
LEMMA GreatestIsOne ==
  ASSUME NEW m \in Nat, NEW s \in SUBSET (1..m), s # {}
  PROVE  Max(s) \in s /\ \A y \in s : y <= Max(s)
<1> DEFINE bounds == {b \in Nat : \A y \in s : y <= b}
<1>1. m \in bounds /\ bounds \subseteq Nat
  OBVIOUS
<1>2. PICK b \in bounds : \A c \in bounds : ~(<<c, b>> \in OpToRel(<, Nat))
  BY <1>1, WFMin, NatLessThanWellFounded
<1>3. \A c \in bounds : ~(c < b)
  BY <1>2, Zenon DEF OpToRel
<1>4. b \in s
  <2> SUFFICES ASSUME b \notin s PROVE FALSE
    OBVIOUS
  <2>1. \A y \in s : y <= b /\ y # b /\ y \in Nat /\ y >= 1
    OBVIOUS
  <2>2. PICK y \in s : TRUE
    OBVIOUS
  <2>3. b \in Nat /\ y \in Nat /\ y >= 1 /\ y <= b
    BY <2>1, <2>2
  <2>4. b - 1 \in Nat /\ b - 1 < b
    BY <2>3
  <2>5. b - 1 \in bounds
    BY <2>1, <2>3, <2>4
  <2> QED BY <1>3, <2>4, <2>5
<1>5. \E x \in s : \A y \in s : x >= y
  BY <1>4
<1>6. Max(s) \in s /\ \A y \in s : Max(s) >= y
  BY <1>5 DEF Max
<1> QED BY <1>6

\* The first k numbers, their greatest and the rest of them.
LEMMA FirstNumbers ==
  ASSUME NEW n \in Nat, NEW k \in 1..n
  PROVE  /\ 1..k \in SUBSET (1..n) /\ 1..k # {} /\ k - 1 \in 0..n /\ k \in 0..n
         /\ Max(1..k) = k /\ (1..k) \ {k} = 1..(k - 1)
<1>1. k \in Nat /\ k >= 1 /\ k <= n /\ k \in 1..k
  OBVIOUS
<1>2. Max(1..k) \in 1..k /\ \A y \in 1..k : y <= Max(1..k)
  BY <1>1, GreatestIsOne
<1>3. Max(1..k) = k
  BY <1>1, <1>2
<1>4. \A y : y \in (1..k) \ {k} <=> y \in 1..(k - 1)
  BY <1>1
<1> QED BY <1>1, <1>3, <1>4

\* A lane of removals goes through the stores after each of them.
LEMMA FoldVacate ==
  ASSUME NEW store, NEW removed, NEW n \in Nat, DOMAIN removed = 1..n
  PROVE  \E after : /\ after[0] = store
                    /\ \A k \in 1..n : after[k] = Vacate(after[k - 1], removed[k])
                    /\ VacateAll(store, removed) = after[n]
<1> DEFINE Step(f, s) == IF s = {} THEN store ELSE Vacate(f[s \ {Max(s)}], removed[Max(s)])
<1> DEFINE iter == CHOOSE f : f = [s \in SUBSET (DOMAIN removed) |-> Step(f, s)]
<1> DEFINE G == {m \in Nat : \E f : f = [s \in SUBSET (1..m) |-> Step(f, s)]}
<1>1. VacateAll(store, removed) = iter[DOMAIN removed]
  BY DEF VacateAll, FoldLeft, MapThenFoldSet
<1>2. 0 \in G
  <2> DEFINE f == [s \in SUBSET (1..0) |-> store]
  <2>1. f = [s \in SUBSET (1..0) |-> Step(f, s)]
    <3>1. \A s \in SUBSET (1..0) : s = {}
      OBVIOUS
    <3> HIDE DEF f
    <3>2. \A s \in SUBSET (1..0) : Step(f, s) = store
      BY <3>1
    <3> HIDE DEF Step
    <3> QED BY <3>2 DEF f
  <2> QED BY <2>1
<1>3. ASSUME NEW m \in Nat, m \in G PROVE m + 1 \in G
  <2>1. PICK f : f = [s \in SUBSET (1..m) |-> Step(f, s)]
    BY <1>3
  <2> DEFINE h == [s \in SUBSET (1..(m + 1)) |-> Step(f, s)]
  <2>2. 1..m \subseteq 1..(m + 1)
    OBVIOUS
  <2>3. \A s \in SUBSET (1..m) : h[s] = f[s]
    <3> HIDE DEF Step
    <3> QED BY <2>1, <2>2
  <2>4. \A s \in SUBSET (1..(m + 1)) : s # {} => s \ {Max(s)} \in SUBSET (1..m)
    <3> SUFFICES ASSUME NEW s \in SUBSET (1..(m + 1)), s # {}, NEW y \in s \ {Max(s)}
                 PROVE  y \in 1..m
      OBVIOUS
    <3>0. m + 1 \in Nat
      OBVIOUS
    <3>1. Max(s) \in s /\ y <= Max(s) /\ y # Max(s)
      BY <3>0, GreatestIsOne
    <3>2. y \in 1..(m + 1) /\ Max(s) \in 1..(m + 1)
      BY <3>1
    <3> QED BY <3>1, <3>2
  <2>5. \A s \in SUBSET (1..(m + 1)) : Step(h, s) = Step(f, s)
    <3> HIDE DEF h
    <3> QED BY <2>3, <2>4
  <2>6. h = [s \in SUBSET (1..(m + 1)) |-> Step(h, s)]
    <3> HIDE DEF Step
    <3> QED BY <2>5
  <2> HIDE DEF h
  <2>7. \E next : next = [s \in SUBSET (1..(m + 1)) |-> Step(next, s)]
    BY <2>6
  <2>8. m + 1 \in Nat
    OBVIOUS
  <2> HIDE DEF Step
  <2> QED BY <2>7, <2>8
<1>4. n \in G
  <2> HIDE DEF G
  <2> QED BY <1>2, <1>3, CountingUp
<1>5. iter = [s \in SUBSET (1..n) |-> Step(iter, s)]
  <2>1. \E f : f = [s \in SUBSET (DOMAIN removed) |-> Step(f, s)]
    BY <1>4
  <2> HIDE DEF Step
  <2> QED BY <2>1
<1> DEFINE after == [k \in 0..n |-> iter[1..k]]
<1> HIDE DEF iter
<1>6. after[0] = store
  <2>1. 1..0 = {} /\ {} \in SUBSET (1..n)
    OBVIOUS
  <2> QED BY <1>5, <2>1
<1>7. ASSUME NEW k \in 1..n PROVE after[k] = Vacate(after[k - 1], removed[k])
  <2>1. 1..k \in SUBSET (1..n) /\ 1..k # {} /\ k - 1 \in 0..n
    BY FirstNumbers
  <2>2. Max(1..k) = k /\ (1..k) \ {k} = 1..(k - 1)
    BY FirstNumbers
  <2>4. iter[1..k] = Step(iter, 1..k)
    <3> HIDE DEF Step
    <3> QED BY <1>5, <2>1
  <2>5. Step(iter, 1..k) = Vacate(iter[1..(k - 1)], removed[k])
    BY <2>1, <2>2
  <2> QED BY <2>1, <2>4, <2>5
<1>8. VacateAll(store, removed) = after[n]
  BY <1>1
<1> QED BY <1>6, <1>7, <1>8

\* The same for additions.
LEMMA FoldOccupy ==
  ASSUME NEW store, NEW added, NEW n \in Nat, DOMAIN added = 1..n
  PROVE  \E after : /\ after[0] = store
                    /\ \A k \in 1..n : after[k] = Occupy(after[k - 1], added[k])
                    /\ OccupyAll(store, added) = after[n]
<1> DEFINE Step(f, s) == IF s = {} THEN store ELSE Occupy(f[s \ {Max(s)}], added[Max(s)])
<1> DEFINE iter == CHOOSE f : f = [s \in SUBSET (DOMAIN added) |-> Step(f, s)]
<1> DEFINE G == {m \in Nat : \E f : f = [s \in SUBSET (1..m) |-> Step(f, s)]}
<1>1. OccupyAll(store, added) = iter[DOMAIN added]
  BY DEF OccupyAll, FoldLeft, MapThenFoldSet
<1>2. 0 \in G
  <2> DEFINE f == [s \in SUBSET (1..0) |-> store]
  <2>1. f = [s \in SUBSET (1..0) |-> Step(f, s)]
    <3>1. \A s \in SUBSET (1..0) : s = {}
      OBVIOUS
    <3> HIDE DEF f
    <3>2. \A s \in SUBSET (1..0) : Step(f, s) = store
      BY <3>1
    <3> HIDE DEF Step
    <3> QED BY <3>2 DEF f
  <2> QED BY <2>1
<1>3. ASSUME NEW m \in Nat, m \in G PROVE m + 1 \in G
  <2>1. PICK f : f = [s \in SUBSET (1..m) |-> Step(f, s)]
    BY <1>3
  <2> DEFINE h == [s \in SUBSET (1..(m + 1)) |-> Step(f, s)]
  <2>2. 1..m \subseteq 1..(m + 1)
    OBVIOUS
  <2>3. \A s \in SUBSET (1..m) : h[s] = f[s]
    <3> HIDE DEF Step
    <3> QED BY <2>1, <2>2
  <2>4. \A s \in SUBSET (1..(m + 1)) : s # {} => s \ {Max(s)} \in SUBSET (1..m)
    <3> SUFFICES ASSUME NEW s \in SUBSET (1..(m + 1)), s # {}, NEW y \in s \ {Max(s)}
                 PROVE  y \in 1..m
      OBVIOUS
    <3>0. m + 1 \in Nat
      OBVIOUS
    <3>1. Max(s) \in s /\ y <= Max(s) /\ y # Max(s)
      BY <3>0, GreatestIsOne
    <3>2. y \in 1..(m + 1) /\ Max(s) \in 1..(m + 1)
      BY <3>1
    <3> QED BY <3>1, <3>2
  <2>5. \A s \in SUBSET (1..(m + 1)) : Step(h, s) = Step(f, s)
    <3> HIDE DEF h
    <3> QED BY <2>3, <2>4
  <2>6. h = [s \in SUBSET (1..(m + 1)) |-> Step(h, s)]
    <3> HIDE DEF Step
    <3> QED BY <2>5
  <2> HIDE DEF h
  <2>7. \E next : next = [s \in SUBSET (1..(m + 1)) |-> Step(next, s)]
    BY <2>6
  <2>8. m + 1 \in Nat
    OBVIOUS
  <2> HIDE DEF Step
  <2> QED BY <2>7, <2>8
<1>4. n \in G
  <2> HIDE DEF G
  <2> QED BY <1>2, <1>3, CountingUp
<1>5. iter = [s \in SUBSET (1..n) |-> Step(iter, s)]
  <2>1. \E f : f = [s \in SUBSET (DOMAIN added) |-> Step(f, s)]
    BY <1>4
  <2> HIDE DEF Step
  <2> QED BY <2>1
<1> DEFINE after == [k \in 0..n |-> iter[1..k]]
<1> HIDE DEF iter
<1>6. after[0] = store
  <2>1. 1..0 = {} /\ {} \in SUBSET (1..n)
    OBVIOUS
  <2> QED BY <1>5, <2>1
<1>7. ASSUME NEW k \in 1..n PROVE after[k] = Occupy(after[k - 1], added[k])
  <2>1. 1..k \in SUBSET (1..n) /\ 1..k # {} /\ k - 1 \in 0..n
    BY FirstNumbers
  <2>2. Max(1..k) = k /\ (1..k) \ {k} = 1..(k - 1)
    BY FirstNumbers
  <2>4. iter[1..k] = Step(iter, 1..k)
    <3> HIDE DEF Step
    <3> QED BY <1>5, <2>1
  <2>5. Step(iter, 1..k) = Occupy(iter[1..(k - 1)], added[k])
    BY <2>1, <2>2
  <2> QED BY <2>1, <2>4, <2>5
<1>8. OccupyAll(store, added) = after[n]
  BY <1>1
<1> QED BY <1>6, <1>7, <1>8

\* The same for updates.
LEMMA FoldRevise ==
  ASSUME NEW store, NEW updated, NEW n \in Nat, DOMAIN updated = 1..n
  PROVE  \E after : /\ after[0] = store
                    /\ \A k \in 1..n : after[k] = Revise(after[k - 1], updated[k])
                    /\ ReviseAll(store, updated) = after[n]
<1> DEFINE Step(f, s) == IF s = {} THEN store ELSE Revise(f[s \ {Max(s)}], updated[Max(s)])
<1> DEFINE iter == CHOOSE f : f = [s \in SUBSET (DOMAIN updated) |-> Step(f, s)]
<1> DEFINE G == {m \in Nat : \E f : f = [s \in SUBSET (1..m) |-> Step(f, s)]}
<1>1. ReviseAll(store, updated) = iter[DOMAIN updated]
  BY DEF ReviseAll, FoldLeft, MapThenFoldSet
<1>2. 0 \in G
  <2> DEFINE f == [s \in SUBSET (1..0) |-> store]
  <2>1. f = [s \in SUBSET (1..0) |-> Step(f, s)]
    <3>1. \A s \in SUBSET (1..0) : s = {}
      OBVIOUS
    <3> HIDE DEF f
    <3>2. \A s \in SUBSET (1..0) : Step(f, s) = store
      BY <3>1
    <3> HIDE DEF Step
    <3> QED BY <3>2 DEF f
  <2> QED BY <2>1
<1>3. ASSUME NEW m \in Nat, m \in G PROVE m + 1 \in G
  <2>1. PICK f : f = [s \in SUBSET (1..m) |-> Step(f, s)]
    BY <1>3
  <2> DEFINE h == [s \in SUBSET (1..(m + 1)) |-> Step(f, s)]
  <2>2. 1..m \subseteq 1..(m + 1)
    OBVIOUS
  <2>3. \A s \in SUBSET (1..m) : h[s] = f[s]
    <3> HIDE DEF Step
    <3> QED BY <2>1, <2>2
  <2>4. \A s \in SUBSET (1..(m + 1)) : s # {} => s \ {Max(s)} \in SUBSET (1..m)
    <3> SUFFICES ASSUME NEW s \in SUBSET (1..(m + 1)), s # {}, NEW y \in s \ {Max(s)}
                 PROVE  y \in 1..m
      OBVIOUS
    <3>0. m + 1 \in Nat
      OBVIOUS
    <3>1. Max(s) \in s /\ y <= Max(s) /\ y # Max(s)
      BY <3>0, GreatestIsOne
    <3>2. y \in 1..(m + 1) /\ Max(s) \in 1..(m + 1)
      BY <3>1
    <3> QED BY <3>1, <3>2
  <2>5. \A s \in SUBSET (1..(m + 1)) : Step(h, s) = Step(f, s)
    <3> HIDE DEF h
    <3> QED BY <2>3, <2>4
  <2>6. h = [s \in SUBSET (1..(m + 1)) |-> Step(h, s)]
    <3> HIDE DEF Step
    <3> QED BY <2>5
  <2> HIDE DEF h
  <2>7. \E next : next = [s \in SUBSET (1..(m + 1)) |-> Step(next, s)]
    BY <2>6
  <2>8. m + 1 \in Nat
    OBVIOUS
  <2> HIDE DEF Step
  <2> QED BY <2>7, <2>8
<1>4. n \in G
  <2> HIDE DEF G
  <2> QED BY <1>2, <1>3, CountingUp
<1>5. iter = [s \in SUBSET (1..n) |-> Step(iter, s)]
  <2>1. \E f : f = [s \in SUBSET (DOMAIN updated) |-> Step(f, s)]
    BY <1>4
  <2> HIDE DEF Step
  <2> QED BY <2>1
<1> DEFINE after == [k \in 0..n |-> iter[1..k]]
<1> HIDE DEF iter
<1>6. after[0] = store
  <2>1. 1..0 = {} /\ {} \in SUBSET (1..n)
    OBVIOUS
  <2> QED BY <1>5, <2>1
<1>7. ASSUME NEW k \in 1..n PROVE after[k] = Revise(after[k - 1], updated[k])
  <2>1. 1..k \in SUBSET (1..n) /\ 1..k # {} /\ k - 1 \in 0..n
    BY FirstNumbers
  <2>2. Max(1..k) = k /\ (1..k) \ {k} = 1..(k - 1)
    BY FirstNumbers
  <2>4. iter[1..k] = Step(iter, 1..k)
    <3> HIDE DEF Step
    <3> QED BY <1>5, <2>1
  <2>5. Step(iter, 1..k) = Revise(iter[1..(k - 1)], updated[k])
    BY <2>1, <2>2
  <2> QED BY <2>1, <2>4, <2>5
<1>8. ReviseAll(store, updated) = after[n]
  BY <1>1
<1> QED BY <1>6, <1>7, <1>8

-----------------------------------------------------------------------------
(***************************************************************************)
(* What the lanes do                                                       *)
(***************************************************************************)

\* Numbers up to k are those up to k - 1 and k.
LEMMA UpTo ==
  ASSUME NEW n \in Nat, NEW k \in Nat, k + 1 <= n
  PROVE  /\ k + 1 \in 1..n /\ (k + 1) - 1 = k
         /\ 1..(k + 1) = (1..k) \cup {k + 1} /\ k + 1 \notin 1..k /\ 1..k \subseteq 1..n
OBVIOUS

\* Removals: their ids are gone, their slots are vacant, the rest is as it was.
LEMMA VacateLane ==
  ASSUME NEW V, NEW J, NEW store, IsStore(store, V, J), Vacant \notin V,
         NEW removed, NEW n \in Nat, DOMAIN removed = 1..n, IsInjective(removed),
         ToSet(removed) \subseteq Ids(store)
  PROVE  LET new == VacateAll(store, removed) IN
         /\ IsStore(new, V, J)
         /\ Ids(new) = Ids(store) \ ToSet(removed)
         /\ \A id \in Ids(new) : new.of[id] = store.of[id]
         /\ DOMAIN new.at = DOMAIN store.at
         /\ \A slot \in DOMAIN store.at :
              slot \notin {store.of[id] : id \in ToSet(removed)} => new.at[slot] = store.at[slot]
<1>1. PICK after : /\ after[0] = store
                   /\ \A k \in 1..n : after[k] = Vacate(after[k - 1], removed[k])
                   /\ VacateAll(store, removed) = after[n]
  BY FoldVacate
<1> DEFINE Done(k) == {removed[i] : i \in 1..k}
<1> DEFINE P(k, st) ==
      /\ IsStore(st, V, J)
      /\ Ids(st) = Ids(store) \ Done(k)
      /\ \A id \in Ids(st) : st.of[id] = store.of[id]
      /\ DOMAIN st.at = DOMAIN store.at
      /\ \A slot \in DOMAIN store.at :
           slot \notin {store.of[id] : id \in Done(k)} => st.at[slot] = store.at[slot]
<1> DEFINE G == {k \in Nat : k <= n => P(k, after[k])}
<1>2. 0 \in G
  <2>1. Done(0) = {}
    OBVIOUS
  <2> HIDE DEF Done
  <2>2. P(0, store)
    BY <2>1
  <2> HIDE DEF P
  <2> QED BY <1>1, <2>2
<1>3. ASSUME NEW k \in Nat, k \in G PROVE k + 1 \in G
  <2> SUFFICES ASSUME k + 1 <= n PROVE P(k + 1, after[k + 1])
    OBVIOUS
  <2> DEFINE old == after[k]
  <2> DEFINE id == removed[k + 1]
  <2>1. P(k, old)
    BY <1>3
  <2>2. after[k + 1] = Vacate(old, id)
    BY <1>1, UpTo
  <2>3. id \in ToSet(removed) /\ id \notin Done(k) /\ Done(k + 1) = Done(k) \cup {id}
    BY UpTo, SMTT(30) DEF ToSet, IsInjective
  <2> HIDE DEF Done, id
  <2>4. id \in Ids(old)
    BY <2>1, <2>3
  <2>5. old.of[id] = store.of[id]
    BY <2>1, <2>4
  <2> DEFINE new == after[k + 1]
  <2>6. /\ IsStore(new, V, J)
        /\ Ids(new) = Ids(old) \ {id}
        /\ \A other \in Ids(new) : new.of[other] = old.of[other]
        /\ DOMAIN new.at = DOMAIN old.at
        /\ \A slot \in DOMAIN old.at : slot # old.of[id] => new.at[slot] = old.at[slot]
    BY <2>1, <2>2, <2>4, VacateKeeps
  <2> HIDE DEF new, old
  <2>7. Ids(new) = Ids(store) \ Done(k + 1)
    BY <2>1, <2>3, <2>6
  <2>8. \A other \in Ids(new) : new.of[other] = store.of[other]
    BY <2>1, <2>6
  <2>9. \A slot \in DOMAIN store.at :
          slot \notin {store.of[other] : other \in Done(k + 1)} => new.at[slot] = store.at[slot]
    BY <2>1, <2>3, <2>5, <2>6
  <2> QED BY <2>1, <2>6, <2>7, <2>8, <2>9 DEF new
<1>4. n \in G
  <2> HIDE DEF G
  <2> QED BY <1>2, <1>3, CountingUp
<1>5. P(n, after[n])
  BY <1>4
<1>6. Done(n) = ToSet(removed)
  BY DEF ToSet
<1> HIDE DEF Done
<1> QED BY <1>1, <1>5, <1>6

\* Additions: their visuals are at their slots, which were vacant or are new, the
\* rest is as it was.
LEMMA OccupyLane ==
  ASSUME NEW V, NEW J, NEW store, IsStore(store, V, J), Vacant \notin V, IsFiniteSet(J),
         NEW added \in Seq(V), IsInjective(IdsOf(added)),
         ToSet(IdsOf(added)) \subseteq J \ Ids(store)
  PROVE  LET new == OccupyAll(store, added) IN
         /\ IsStore(new, V, J)
         /\ Ids(new) = Ids(store) \cup ToSet(IdsOf(added))
         /\ \A id \in Ids(store) : new.of[id] = store.of[id]
         /\ \A i \in DOMAIN added : VisualOf(new, added[i].id) = added[i]
         /\ DOMAIN store.at \subseteq DOMAIN new.at
         /\ \A slot \in DOMAIN new.at :
              slot \notin {new.of[id] : id \in ToSet(IdsOf(added))}
                => slot \in DOMAIN store.at /\ new.at[slot] = store.at[slot]
<1> DEFINE n == Len(added)
<1>0. n \in Nat /\ DOMAIN added = 1..n /\ \A i \in 1..n : added[i] \in V
  OBVIOUS
<1> HIDE DEF n
<1>1. PICK after : /\ after[0] = store
                   /\ \A k \in 1..n : after[k] = Occupy(after[k - 1], added[k])
                   /\ OccupyAll(store, added) = after[n]
  BY ONLY <1>0, FoldOccupy
<1> DEFINE Done(k) == {added[i].id : i \in 1..k}
<1> DEFINE P(k, st) ==
      /\ IsStore(st, V, J)
      /\ Ids(st) = Ids(store) \cup Done(k)
      /\ \A id \in Ids(store) : st.of[id] = store.of[id]
      /\ \A i \in 1..k : VisualOf(st, added[i].id) = added[i]
      /\ DOMAIN store.at \subseteq DOMAIN st.at
      /\ \A slot \in DOMAIN st.at :
           slot \notin {st.of[id] : id \in Done(k)}
             => slot \in DOMAIN store.at /\ st.at[slot] = store.at[slot]
<1> DEFINE G == {k \in Nat : k <= n => P(k, after[k])}
<1>2. 0 \in G
  <2>1. Done(0) = {}
    OBVIOUS
  <2> HIDE DEF Done
  <2>2. P(0, store)
    BY <2>1
  <2> HIDE DEF P
  <2> QED BY <1>1, <2>2
<1>3. ASSUME NEW k \in Nat, k \in G PROVE k + 1 \in G
  <2> SUFFICES ASSUME k + 1 <= n PROVE P(k + 1, after[k + 1])
    OBVIOUS
  <2> DEFINE old == after[k]
  <2> DEFINE visual == added[k + 1]
  <2>1. P(k, old)
    BY <1>0, <1>3
  <2>2. after[k + 1] = Occupy(old, visual)
    BY <1>0, <1>1, UpTo
  <2>3. visual.id \in ToSet(IdsOf(added)) /\ visual.id \notin Done(k)
        /\ Done(k + 1) = Done(k) \cup {visual.id} /\ visual \in V
    BY <1>0, UpTo DEF ToSet, IdsOf, IsInjective
  <2>4. \A i \in 1..(k + 1) : i \in 1..k \/ added[i] = visual
    BY <1>0, UpTo
  <2>5. \A i \in 1..k : added[i].id \in Done(k)
    OBVIOUS
  <2> HIDE DEF Done, visual
  <2>6. visual.id \in J \ Ids(old)
    BY <2>1, <2>3
  <2> DEFINE new == after[k + 1]
  <2>7. /\ IsStore(new, V, J)
        /\ Ids(new) = Ids(old) \cup {visual.id}
        /\ \A id \in Ids(old) : new.of[id] = old.of[id]
        /\ VisualOf(new, visual.id) = visual
        /\ \A slot \in DOMAIN new.at :
             slot # new.of[visual.id] => slot \in DOMAIN old.at /\ new.at[slot] = old.at[slot]
        /\ DOMAIN old.at \subseteq DOMAIN new.at
    BY <2>1, <2>2, <2>3, <2>6, OccupyKeeps
  <2>8. \A id, other \in Ids(new) : new.of[id] = new.of[other] => id = other
    BY <2>7, SlotsApart
  <2>9. \A id \in Ids(new) : new.of[id] \in DOMAIN new.at
    BY <2>7, SlotsApart
  <2> HIDE DEF new, old
  <2>10. \A id \in Ids(old) : VisualOf(new, id) = VisualOf(old, id)
    BY <2>6, <2>7, <2>8, <2>9 DEF VisualOf
  <2>11. \A i \in 1..(k + 1) : VisualOf(new, added[i].id) = added[i]
    BY <2>1, <2>4, <2>5, <2>7, <2>10
  <2>12. \A slot \in DOMAIN new.at :
           slot \notin {new.of[id] : id \in Done(k + 1)}
             => slot \in DOMAIN store.at /\ new.at[slot] = store.at[slot]
    BY <2>1, <2>3, <2>7
  <2> QED BY <2>1, <2>3, <2>7, <2>11, <2>12 DEF new
<1>4. n \in G
  <2> HIDE DEF G
  <2> QED BY <1>0, <1>2, <1>3, CountingUp
<1>5. P(n, after[n])
  BY <1>0, <1>4
<1>6. Done(n) = ToSet(IdsOf(added))
  BY <1>0 DEF ToSet, IdsOf
<1> HIDE DEF Done
<1> QED BY <1>0, <1>1, <1>5, <1>6

\* Updates: their visuals are at their slots, the rest is as it was.
LEMMA ReviseLane ==
  ASSUME NEW V, NEW J, NEW store, IsStore(store, V, J), Vacant \notin V,
         NEW updated \in Seq(V), IsInjective(IdsOf(updated)),
         ToSet(IdsOf(updated)) \subseteq Ids(store)
  PROVE  LET new == ReviseAll(store, updated) IN
         /\ IsStore(new, V, J)
         /\ new.of = store.of /\ Ids(new) = Ids(store)
         /\ \A i \in DOMAIN updated : VisualOf(new, updated[i].id) = updated[i]
         /\ DOMAIN new.at = DOMAIN store.at
         /\ \A slot \in DOMAIN store.at :
              slot \notin {store.of[id] : id \in ToSet(IdsOf(updated))}
                => new.at[slot] = store.at[slot]
<1> DEFINE n == Len(updated)
<1>0. n \in Nat /\ DOMAIN updated = 1..n /\ \A i \in 1..n : updated[i] \in V
  OBVIOUS
<1> HIDE DEF n
<1>1. PICK after : /\ after[0] = store
                   /\ \A k \in 1..n : after[k] = Revise(after[k - 1], updated[k])
                   /\ ReviseAll(store, updated) = after[n]
  BY <1>0, FoldRevise
<1> DEFINE Done(k) == {updated[i].id : i \in 1..k}
<1> DEFINE P(k, st) ==
      /\ IsStore(st, V, J)
      /\ st.of = store.of /\ Ids(st) = Ids(store)
      /\ \A i \in 1..k : VisualOf(st, updated[i].id) = updated[i]
      /\ DOMAIN st.at = DOMAIN store.at
      /\ \A slot \in DOMAIN store.at :
           slot \notin {store.of[id] : id \in Done(k)} => st.at[slot] = store.at[slot]
<1> DEFINE G == {k \in Nat : k <= n => P(k, after[k])}
<1>2. 0 \in G
  <2>1. Done(0) = {}
    OBVIOUS
  <2> HIDE DEF Done
  <2>2. P(0, store)
    BY <2>1
  <2> HIDE DEF P
  <2> QED BY <1>1, <2>2
<1>3. ASSUME NEW k \in Nat, k \in G PROVE k + 1 \in G
  <2> SUFFICES ASSUME k + 1 <= n PROVE P(k + 1, after[k + 1])
    OBVIOUS
  <2> DEFINE old == after[k]
  <2> DEFINE visual == updated[k + 1]
  <2>1. P(k, old)
    BY <1>0, <1>3
  <2>2. after[k + 1] = Revise(old, visual)
    BY <1>0, <1>1, UpTo
  <2>3. visual.id \in ToSet(IdsOf(updated)) /\ visual.id \notin Done(k)
        /\ Done(k + 1) = Done(k) \cup {visual.id} /\ visual \in V
    BY <1>0, UpTo DEF ToSet, IdsOf, IsInjective
  <2>4. \A i \in 1..(k + 1) : i \in 1..k \/ updated[i] = visual
    BY <1>0, UpTo
  <2>5. \A i \in 1..k : updated[i].id \in Done(k) /\ updated[i].id \in Ids(store)
    BY <1>0, UpTo DEF ToSet, IdsOf
  <2> HIDE DEF Done, visual
  <2>6. visual.id \in Ids(old)
    BY <2>1, <2>3
  <2> DEFINE new == after[k + 1]
  <2>7. /\ IsStore(new, V, J)
        /\ new.of = old.of /\ Ids(new) = Ids(old)
        /\ VisualOf(new, visual.id) = visual
        /\ DOMAIN new.at = DOMAIN old.at
        /\ \A slot \in DOMAIN old.at : slot # old.of[visual.id] => new.at[slot] = old.at[slot]
    BY <2>1, <2>2, <2>3, <2>6, ReviseKeeps
  <2>8. /\ \A id, other \in Ids(store) : store.of[id] = store.of[other] => id = other
        /\ \A id \in Ids(store) : store.of[id] \in DOMAIN store.at
    BY SlotsApart
  <2> HIDE DEF new, old
  <2>9. \A id \in Ids(store) \ {visual.id} : VisualOf(new, id) = VisualOf(old, id)
    BY <2>1, <2>3, <2>7, <2>8 DEF VisualOf
  <2>10. \A i \in 1..(k + 1) : VisualOf(new, updated[i].id) = updated[i]
    BY <2>1, <2>3, <2>4, <2>5, <2>7, <2>9
  <2>11. \A slot \in DOMAIN store.at :
           slot \notin {store.of[id] : id \in Done(k + 1)} => new.at[slot] = store.at[slot]
    BY <2>1, <2>3, <2>7
  <2> QED BY <2>1, <2>7, <2>10, <2>11 DEF new
<1>4. n \in G
  <2> HIDE DEF G
  <2> QED BY <1>0, <1>2, <1>3, CountingUp
<1>5. P(n, after[n])
  BY <1>0, <1>4
<1>6. Done(n) = ToSet(IdsOf(updated))
  BY <1>0 DEF ToSet, IdsOf
<1> HIDE DEF Done
<1> QED BY <1>0, <1>1, <1>5, <1>6

-----------------------------------------------------------------------------
(***************************************************************************)
(* Whole scenes and diffs                                                  *)
(***************************************************************************)

\* Two sequences one after the other.
LEMMA Joined ==
  ASSUME NEW T, NEW s \in Seq(T), NEW t \in Seq(T)
  PROVE  /\ s \o t \in Seq(T) /\ ToSet(s \o t) = ToSet(s) \cup ToSet(t)
         /\ IsInjective(s \o t) =>
              IsInjective(s) /\ IsInjective(t) /\ ToSet(s) \cap ToSet(t) = {}
<1> DEFINE m == Len(s)
<1> DEFINE n == Len(t)
<1> DEFINE st == s \o t
<1>1. /\ m \in Nat /\ n \in Nat /\ DOMAIN s = 1..m /\ DOMAIN t = 1..n
      /\ st \in Seq(T) /\ DOMAIN st = 1..(m + n)
      /\ \A i \in 1..m : st[i] = s[i]
      /\ \A i \in 1..n : st[m + i] = t[i]
  OBVIOUS
<1>2. \A i \in 1..(m + n) : i \in 1..m \/ (i - m \in 1..n /\ m + (i - m) = i)
  BY <1>1
<1>3. (\A i \in 1..m : i \in 1..(m + n)) /\ (\A i \in 1..n : m + i \in 1..(m + n) /\ m + i \notin 1..m)
  BY <1>1
<1>4. \A i, j \in 1..n : m + i = m + j => i = j
  BY <1>1
<1> HIDE DEF m, n, st
<1>5. ToSet(st) = ToSet(s) \cup ToSet(t)
  <2>1. \A i \in 1..(m + n) : st[i] \in ToSet(s) \cup ToSet(t)
    BY <1>1, <1>2 DEF ToSet
  <2>2. \A i \in 1..m : s[i] \in ToSet(st)
    BY <1>1, <1>3 DEF ToSet
  <2>3. \A i \in 1..n : t[i] \in ToSet(st)
    BY <1>1, <1>3 DEF ToSet
  <2>4. ToSet(st) \subseteq ToSet(s) \cup ToSet(t)
    BY <1>1, <2>1 DEF ToSet
  <2>5. ToSet(s) \subseteq ToSet(st) /\ ToSet(t) \subseteq ToSet(st)
    BY <1>1, <2>2, <2>3 DEF ToSet
  <2> QED BY <2>4, <2>5
<1>6. ASSUME IsInjective(st) PROVE IsInjective(s) /\ IsInjective(t) /\ ToSet(s) \cap ToSet(t) = {}
  <2>1. IsInjective(s)
    BY <1>1, <1>3, <1>6 DEF IsInjective
  <2>2. IsInjective(t)
    <3> SUFFICES ASSUME NEW i \in 1..n, NEW j \in 1..n, t[i] = t[j] PROVE i = j
      BY <1>1 DEF IsInjective
    <3>1. st[m + i] = st[m + j] /\ m + i \in DOMAIN st /\ m + j \in DOMAIN st
      BY <1>1, <1>3
    <3>2. m + i = m + j
      BY <1>6, <3>1 DEF IsInjective
    <3> QED BY <1>4, <3>2
  <2>3. \A i \in 1..m, j \in 1..n : s[i] # t[j]
    BY <1>1, <1>3, <1>6 DEF IsInjective
  <2> QED BY <1>1, <2>1, <2>2, <2>3 DEF ToSet
<1> QED BY <1>1, <1>5, <1>6 DEF st

\* The length of the two.
LEMMA ConcatLength ==
  ASSUME NEW T, NEW s \in Seq(T), NEW t \in Seq(T)
  PROVE  s \o t \in Seq(T) /\ Len(s \o t) = Len(s) + Len(t)
OBVIOUS

\* The ids of visuals are a sequence too, and those of two sequences follow one
\* another.
LEMMA IdsJoined ==
  ASSUME NEW V, NEW J, \A visual \in V : visual.id \in J, NEW a \in Seq(V), NEW b \in Seq(V)
  PROVE  /\ IdsOf(a) \in Seq(J) /\ IdsOf(a \o b) = IdsOf(a) \o IdsOf(b)
<1>1. Len(a) \in Nat /\ Len(b) \in Nat /\ DOMAIN a = 1..Len(a) /\ DOMAIN b = 1..Len(b)
      /\ DOMAIN (a \o b) = 1..(Len(a) + Len(b))
  OBVIOUS
<1>2. /\ IdsOf(a) \in Seq(J) /\ Len(IdsOf(a)) = Len(a)
      /\ IdsOf(b) \in Seq(J) /\ Len(IdsOf(b)) = Len(b)
  <2>1. (\A i \in 1..Len(a) : a[i].id \in J) /\ (\A i \in 1..Len(b) : b[i].id \in J)
    OBVIOUS
  <2> QED BY <1>1, <2>1 DEF IdsOf
<1>3. \A i \in 1..(Len(a) + Len(b)) :
        IF i <= Len(a) THEN i \in 1..Len(a) /\ (a \o b)[i] = a[i]
        ELSE i - Len(a) \in 1..Len(b) /\ (a \o b)[i] = b[i - Len(a)]
  BY <1>1
<1> DEFINE both == IdsOf(a) \o IdsOf(b)
<1>4. \A i \in 1..(Len(a) + Len(b)) :
        both[i] = IF i <= Len(a) THEN IdsOf(a)[i] ELSE IdsOf(b)[i - Len(a)]
  BY <1>1, <1>2
<1>5. both = [i \in 1..(Len(a) + Len(b)) |-> both[i]]
  <2>1. both \in Seq(J) /\ Len(both) = Len(a) + Len(b)
    <3>1. /\ IdsOf(a) \o IdsOf(b) \in Seq(J)
          /\ Len(IdsOf(a) \o IdsOf(b)) = Len(IdsOf(a)) + Len(IdsOf(b))
      BY <1>2, ConcatLength
    <3> QED BY <1>2, <3>1
  <2> HIDE DEF both
  <2>2. both \in [1..(Len(a) + Len(b)) -> J]
    BY <2>1
  <2> QED BY <2>2
<1> HIDE DEF both
<1>6. \A i \in 1..(Len(a) + Len(b)) : both[i] = (a \o b)[i].id
  BY <1>1, <1>3, <1>4 DEF IdsOf
<1>7. IdsOf(a \o b) = [i \in 1..(Len(a) + Len(b)) |-> (a \o b)[i].id]
  BY <1>1 DEF IdsOf
<1>8. both = IdsOf(a \o b)
  BY <1>5, <1>6, <1>7
<1> QED BY <1>2, <1>8 DEF both

\* A whole scene: each visual is at a slot of its own, none is vacant.
LEMMA PackKeeps ==
  ASSUME NEW V, NEW J, Vacant \notin V, IsFiniteSet(J), \A visual \in V : visual.id \in J,
         NEW visuals \in Seq(V), Distinct(visuals)
  PROVE  LET new == Pack(visuals) IN
         /\ IsStore(new, V, J)
         /\ Ids(new) = ToSet(IdsOf(visuals))
         /\ \A i \in DOMAIN visuals : VisualOf(new, visuals[i].id) = visuals[i]
<1> DEFINE n == Len(visuals)
<1> DEFINE new == Pack(visuals)
<1>1. n \in Nat /\ DOMAIN visuals = 1..n /\ \A i \in 1..n : visuals[i] \in V
  OBVIOUS
<1>2. /\ new.at = visuals /\ new.free = <<>>
      /\ new.of = [id \in ToSet(IdsOf(visuals)) |-> CHOOSE i \in DOMAIN visuals : visuals[i].id = id]
      /\ new = [at |-> new.at, of |-> new.of, free |-> new.free]
  BY DEF Pack
<1> HIDE DEF new, n
<1>3. \A i, j \in 1..n : visuals[i].id = visuals[j].id => i = j
  BY <1>1 DEF Distinct, IsInjective, IdsOf
<1>4. \A id \in ToSet(IdsOf(visuals)) : \E i \in 1..n : visuals[i].id = id
  BY <1>1 DEF ToSet, IdsOf
<1>5. \A i \in 1..n : visuals[i].id \in ToSet(IdsOf(visuals)) /\ visuals[i].id \in J
  BY <1>1 DEF ToSet, IdsOf
<1>6. Ids(new) = ToSet(IdsOf(visuals))
  BY <1>2 DEF Ids
<1>7. \A id \in Ids(new) : new.of[id] \in 1..n /\ visuals[new.of[id]].id = id
  BY <1>1, <1>2, <1>4, <1>6
<1>8. \A i \in 1..n : new.of[visuals[i].id] = i
  BY <1>3, <1>5, <1>6, <1>7
<1>9. Len(visuals) <= Cardinality(J)
  <2>1. IdsOf(visuals) \in Injection(1..n, J)
    BY <1>1, <1>3, <1>5 DEF Injection, IdsOf, IsInjective
  <2>2. Cardinality(1..n) <= Cardinality(J)
    BY <2>1, FS_Injection
  <2>3. Cardinality(1..n) = n
    BY <1>1, NumbersUpTo
  <2> QED BY <2>2, <2>3 DEF n
<1>10. ToSet(new.free) = {} /\ IsInjective(new.free) /\ new.free \in Seq(DOMAIN new.at)
  <2>1. DOMAIN new.free = {} /\ <<>> \in Seq(DOMAIN new.at)
    BY <1>2
  <2> QED BY <1>2, <2>1 DEF ToSet, IsInjective
<1>11. Agree(new)
  <2>1. \A id \in Ids(new) : VisualOf(new, id).id = id
    BY <1>2, <1>7 DEF VisualOf
  <2>2. \A slot \in DOMAIN new.at :
          new.at[slot] # Vacant /\ SlotOf(new, new.at[slot].id) = slot
    BY <1>1, <1>2, <1>5, <1>6, <1>8 DEF SlotOf
  <2> QED BY <1>10, <2>1, <2>2 DEF Agree
<1>12. IsStore(new, V, J)
  <2>1. new.of \in [Ids(new) -> DOMAIN new.at]
    BY <1>1, <1>2, <1>6, <1>7
  <2>2. new.at \in Seq(V \cup {Vacant})
    BY <1>2
  <2>3. \A id \in Ids(new) : VisualOf(new, id) \in V
    BY <1>1, <1>2, <1>7 DEF VisualOf
  <2>4. Ids(new) \subseteq J
    BY <1>4, <1>5, <1>6
  <2> QED BY <1>2, <1>9, <1>10, <1>11, <2>1, <2>2, <2>3, <2>4 DEF IsStore
<1>13. \A i \in 1..n : VisualOf(new, visuals[i].id) = visuals[i]
  BY <1>2, <1>8 DEF VisualOf
<1> QED BY <1>1, <1>6, <1>12, <1>13 DEF new

\* The ids of each lane are apart from one another and from those of the others.
Apart(lanes, J) ==
  /\ IsInjective(IdsOf(lanes.added \o lanes.updated))
  /\ IsInjective(IdsOf(lanes.added)) /\ IsInjective(IdsOf(lanes.updated))
  /\ IsInjective(lanes.removed)
  /\ ToSet(IdsOf(lanes.added)) \cap ToSet(IdsOf(lanes.updated)) = {}
  /\ ToSet(IdsOf(lanes.added \o lanes.updated)) =
       ToSet(IdsOf(lanes.added)) \cup ToSet(IdsOf(lanes.updated))
  /\ ToSet(IdsOf(lanes.added \o lanes.updated)) \cap ToSet(lanes.removed) = {}
  /\ ToSet(IdsOf(lanes.added)) \subseteq J

\* What validate_diff has found valid is so for each lane.
LEMMA LanesApart ==
  ASSUME NEW V, NEW J, \A visual \in V : visual.id \in J, NEW store,
         NEW lanes \in [added: Seq(V), updated: Seq(V), removed: Seq(J)], ValidLanes(store, lanes)
  PROVE  Apart(lanes, J)
<1> DEFINE a == lanes.added
<1> DEFINE u == lanes.updated
<1>1. a \in Seq(V) /\ u \in Seq(V) /\ a \o u \in Seq(V) /\ lanes.removed \in Seq(J)
  OBVIOUS
<1>2. /\ IdsOf(a) \in Seq(J) /\ IdsOf(u) \in Seq(J) /\ IdsOf(a \o u) \in Seq(J)
      /\ IdsOf(a \o u) = IdsOf(a) \o IdsOf(u)
  <2>1. \A s, t \in Seq(V) : IdsOf(s) \in Seq(J) /\ IdsOf(s \o t) = IdsOf(s) \o IdsOf(t)
    BY IdsJoined
  <2> HIDE DEF a, u
  <2> QED BY <1>1, <2>1
<1>3. IsInjective(IdsOf(a \o u) \o lanes.removed)
  BY DEF ValidLanes
<1>4. /\ IsInjective(IdsOf(a \o u)) /\ IsInjective(lanes.removed)
      /\ ToSet(IdsOf(a \o u)) \cap ToSet(lanes.removed) = {}
  BY <1>1, <1>2, <1>3, Joined
<1>5. /\ IsInjective(IdsOf(a)) /\ IsInjective(IdsOf(u)) /\ ToSet(IdsOf(a)) \cap ToSet(IdsOf(u)) = {}
      /\ ToSet(IdsOf(a \o u)) = ToSet(IdsOf(a)) \cup ToSet(IdsOf(u))
  BY <1>2, <1>4, Joined
<1>6. ToSet(IdsOf(a)) \subseteq J
  BY <1>2 DEF ToSet
<1> QED BY <1>4, <1>5, <1>6 DEF Apart

\* What a diff makes of a store: the ids are those that stay or come, those that
\* stay keep their slots, what is given is where its id is, and every slot that has
\* changed is dirty.
FollowsDiff(store, lanes, new) ==
  LET given == lanes.added \o lanes.updated IN
  /\ Ids(new) = (Ids(store) \ ToSet(lanes.removed)) \cup ToSet(IdsOf(given))
  /\ \A id \in Ids(store) \ ToSet(lanes.removed) : new.of[id] = store.of[id]
  /\ \A i \in DOMAIN given : VisualOf(new, given[i].id) = given[i]
  /\ \A slot \in DOMAIN new.at \ DirtySlots(store, lanes) :
       slot \in DOMAIN store.at /\ new.at[slot] = store.at[slot]
  /\ \A id \in Ids(new) \ ToSet(IdsOf(given)) : VisualOf(new, id) = VisualOf(store, id)
  /\ \A id \in ToSet(lanes.removed) : store.of[id] \in DirtySlots(store, lanes)
  /\ \A id \in ToSet(IdsOf(given)) : new.of[id] \in DirtySlots(store, lanes)

\* A valid diff leaves a store that is well formed and follows it.
LEMMA ChangedKeeps ==
  ASSUME NEW V, NEW J, NEW store, IsStore(store, V, J), Vacant \notin V, IsFiniteSet(J),
         \A visual \in V : visual.id \in J,
         NEW lanes \in [added: Seq(V), updated: Seq(V), removed: Seq(J)], ValidLanes(store, lanes)
  PROVE  IsStore(Changed(store, lanes), V, J) /\ FollowsDiff(store, lanes, Changed(store, lanes))
<1> DEFINE a == lanes.added
<1> DEFINE u == lanes.updated
<1> DEFINE d == lanes.removed
<1> DEFINE first == VacateAll(store, d)
<1> DEFINE second == OccupyAll(first, a)
<1> DEFINE new == Changed(store, lanes)
<1> DEFINE given == a \o u
<1>1. /\ IsInjective(IdsOf(a)) /\ IsInjective(IdsOf(u)) /\ IsInjective(d)
      /\ ToSet(IdsOf(a)) \cap ToSet(IdsOf(u)) = {}
      /\ ToSet(IdsOf(given)) = ToSet(IdsOf(a)) \cup ToSet(IdsOf(u))
      /\ ToSet(IdsOf(given)) \cap ToSet(d) = {}
      /\ ToSet(IdsOf(a)) \subseteq J
  <2>1. Apart(lanes, J)
    BY LanesApart
  <2> QED BY <2>1 DEF Apart
<1>2. /\ ToSet(IdsOf(a)) \cap Ids(store) = {}
      /\ ToSet(IdsOf(u)) \subseteq Ids(store) /\ ToSet(d) \subseteq Ids(store)
  BY DEF ValidLanes
<1>3. /\ IsStore(first, V, J)
      /\ Ids(first) = Ids(store) \ ToSet(d)
      /\ \A id \in Ids(first) : first.of[id] = store.of[id]
      /\ DOMAIN first.at = DOMAIN store.at
      /\ \A slot \in DOMAIN store.at :
           slot \notin {store.of[id] : id \in ToSet(d)} => first.at[slot] = store.at[slot]
  <2>1. Len(d) \in Nat /\ DOMAIN d = 1..Len(d)
    OBVIOUS
  <2> HIDE DEF d
  <2> QED BY <1>1, <1>2, <2>1, VacateLane
<1>4. a \in Seq(V) /\ u \in Seq(V)
  OBVIOUS
<1> HIDE DEF a, u, d, first
<1>5. /\ IsStore(second, V, J)
      /\ Ids(second) = Ids(first) \cup ToSet(IdsOf(a))
      /\ \A id \in Ids(first) : second.of[id] = first.of[id]
      /\ \A i \in DOMAIN a : VisualOf(second, a[i].id) = a[i]
      /\ DOMAIN first.at \subseteq DOMAIN second.at
      /\ \A slot \in DOMAIN second.at :
           slot \notin {second.of[id] : id \in ToSet(IdsOf(a))}
             => slot \in DOMAIN first.at /\ second.at[slot] = first.at[slot]
  <2>1. ToSet(IdsOf(a)) \subseteq J \ Ids(first)
    BY <1>1, <1>2, <1>3
  <2> QED BY <1>1, <1>3, <1>4, <2>1, OccupyLane
<1> HIDE DEF second
<1>6. new = ReviseAll(second, u)
  BY DEF new, second, first, a, u, d, Changed
<1>7. /\ IsStore(new, V, J)
      /\ new.of = second.of /\ Ids(new) = Ids(second)
      /\ \A i \in DOMAIN u : VisualOf(new, u[i].id) = u[i]
      /\ DOMAIN new.at = DOMAIN second.at
      /\ \A slot \in DOMAIN second.at :
           slot \notin {second.of[id] : id \in ToSet(IdsOf(u))} => new.at[slot] = second.at[slot]
  <2>1. ToSet(IdsOf(u)) \subseteq Ids(second)
    BY <1>1, <1>2, <1>3, <1>5
  <2> HIDE DEF new
  <2>2. IsInjective(IdsOf(u)) /\ IsStore(second, V, J) /\ u \in Seq(V)
    BY <1>1, <1>4, <1>5
  <2> QED BY ONLY <1>6, <2>1, <2>2, ReviseLane, Vacant \notin V, SMTT(30)
<1>8. DirtySlots(store, lanes) =
        {store.of[id] : id \in ToSet(d)} \cup {new.of[id] : id \in ToSet(IdsOf(given))}
  BY DEF DirtySlots, new, given, a, u, d
<1> HIDE DEF new
<1>9. Ids(new) = (Ids(store) \ ToSet(d)) \cup ToSet(IdsOf(given))
  BY <1>1, <1>2, <1>3, <1>5, <1>7
<1>10. \A id \in Ids(store) \ ToSet(d) : new.of[id] = store.of[id]
  BY <1>3, <1>5, <1>7
<1>11. \A i \in DOMAIN a : VisualOf(new, a[i].id) = a[i]
  <2> SUFFICES ASSUME NEW i \in DOMAIN a PROVE VisualOf(new, a[i].id) = a[i]
    OBVIOUS
  <2>1. a[i].id \in ToSet(IdsOf(a))
    BY DEF ToSet, IdsOf
  <2>2. a[i].id \in Ids(second) /\ a[i].id \notin ToSet(IdsOf(u))
    BY <1>1, <1>5, <2>1
  <2>3. ToSet(IdsOf(u)) \subseteq Ids(second)
    BY <1>1, <1>2, <1>3, <1>5
  <2>4. /\ second.of[a[i].id] \in DOMAIN second.at
        /\ second.of[a[i].id] \notin {second.of[id] : id \in ToSet(IdsOf(u))}
    BY <1>5, <2>2, <2>3, SlotsApart, SMTT(30)
  <2> QED BY <1>5, <1>7, <2>4 DEF VisualOf
<1>12. \A i \in DOMAIN given : VisualOf(new, given[i].id) = given[i]
  <2>1. \A i \in DOMAIN given :
          (\E j \in DOMAIN a : given[i] = a[j]) \/ (\E j \in DOMAIN u : given[i] = u[j])
    <3>1. /\ Len(a) \in Nat /\ Len(u) \in Nat /\ DOMAIN a = 1..Len(a) /\ DOMAIN u = 1..Len(u)
          /\ DOMAIN given = 1..(Len(a) + Len(u))
      BY <1>4
    <3>2. \A i \in 1..(Len(a) + Len(u)) :
            IF i <= Len(a) THEN i \in 1..Len(a) /\ given[i] = a[i]
            ELSE i - Len(a) \in 1..Len(u) /\ given[i] = u[i - Len(a)]
      BY <1>4, <3>1
    <3> HIDE DEF given
    <3> QED BY <3>1, <3>2
  <2> QED BY <1>7, <1>11, <2>1
<1>13. \A slot \in DOMAIN new.at \ DirtySlots(store, lanes) :
         slot \in DOMAIN store.at /\ new.at[slot] = store.at[slot]
  BY <1>1, <1>3, <1>5, <1>7, <1>8, SMTT(30)
<1>14. \A id \in Ids(new) \ ToSet(IdsOf(given)) : VisualOf(new, id) = VisualOf(store, id)
  <2> SUFFICES ASSUME NEW id \in Ids(new) \ ToSet(IdsOf(given))
               PROVE  VisualOf(new, id) = VisualOf(store, id)
    OBVIOUS
  <2>1. id \in Ids(store) \ ToSet(d) /\ new.of[id] = store.of[id]
    BY <1>9, <1>10
  <2>2. new.of[id] \notin {new.of[other] : other \in ToSet(IdsOf(given))}
    BY <1>7, <1>9, SlotsApart
  <2>3. store.of[id] \notin {store.of[other] : other \in ToSet(d)}
    BY <1>2, <2>1, SlotsApart
  <2>4. new.of[id] \in DOMAIN new.at \ DirtySlots(store, lanes)
    BY <1>7, <1>8, <2>1, <2>2, <2>3, SlotsApart
  <2> QED BY <1>13, <2>1, <2>4 DEF VisualOf
<1>15. FollowsDiff(store, lanes, new)
  BY <1>8, <1>9, <1>10, <1>12, <1>13, <1>14 DEF FollowsDiff, given, a, u, d
<1> QED BY <1>7, <1>15 DEF new
=============================================================================
