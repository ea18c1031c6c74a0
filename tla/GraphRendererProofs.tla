------------------------ MODULE GraphRendererProofs ------------------------
(***************************************************************************)
(* Proofs about GraphRenderer, for any ids, places and number of scenes.   *)
(*                                                                         *)
(* The inductive invariant says that both stores are well formed, that the *)
(* ends of the resident edges are resident, that they hold what was sent,  *)
(* that the GPU shows it and that a pick under way is right as long as the *)
(* scene is the one that was drawn.                                        *)
(***************************************************************************)
EXTENDS GraphRenderer, SceneStateProofs

\* The stores of the scene, as SceneStateProofs has them.
StoresFit ==
  /\ IsStore(nodes, NodeVisual, NodeIds)
  /\ IsStore(edges, EdgeVisual, EdgeIds)

\* Every resident edge runs between resident nodes.
EndsResident(edgeStore, nodeStore) ==
  \A id \in Ids(edgeStore) :
    {VisualOf(edgeStore, id).source, VisualOf(edgeStore, id).target} \subseteq Ids(nodeStore)

\* The graph that was sent has functions for its two parts.
SentFits ==
  sent = [places |-> [id \in DOMAIN sent.places |-> sent.places[id]],
          ends |-> [id \in DOMAIN sent.ends |-> sent.ends[id]]]

\* The GPU shows the scene.
Shown ==
  /\ gpuNodes = NodeRecords(nodes, hover, selected)
  /\ gpuEdges = EdgeRecords(edges, nodes)

\* Revision, highlights and requests have their types; what is under way was
\* drawn at a revision not later than the scene's.
RestFits ==
  /\ revision \in 0..MaxRevision
  /\ hover \in NodeOrNone /\ selected \in NodeOrNone
  /\ pending \in Intents \cup {"none"}
  /\ readback \in [intent: Intents \cup {"none"}, slot: Slots]
  /\ picked \in [node: NodeOrNone, revision: 0..MaxRevision]
  /\ picked.revision <= revision

RendererInv ==
  /\ StoresFit
  /\ EndsResident(edges, nodes)
  /\ SceneIsWhatWasSent
  /\ SentFits
  /\ Shown
  /\ RestFits
  /\ PickIsRightWithinRevision

-----------------------------------------------------------------------------
(***************************************************************************)
(* The records for the GPU                                                 *)
(***************************************************************************)

\* A visual is something, and has an id.
LEMMA VisualsHaveIds ==
  /\ Vacant \notin NodeVisual /\ Vacant \notin EdgeVisual
  /\ IsFiniteSet(NodeIds) /\ IsFiniteSet(EdgeIds)
  /\ \A visual \in NodeVisual : visual.id \in NodeIds
  /\ \A visual \in EdgeVisual : visual.id \in EdgeIds
BY SceneAssumption DEF SceneAssumption, NodeVisual, EdgeVisual

\* When the slots that are not dirty need no new record, writing the dirty ones
\* makes the records those of the scene.
LEMMA RefreshedIsShown ==
  ASSUME NEW records, NEW dirty, NEW shown, shown = [slot \in DOMAIN shown |-> shown[slot]],
         \A slot \in DOMAIN shown \ dirty : slot \in DOMAIN records /\ records[slot] = shown[slot]
  PROVE  Refreshed(records, dirty, shown) = shown
<1>1. \A slot \in DOMAIN shown : Refreshed(records, dirty, shown)[slot] = shown[slot]
  BY DEF Refreshed
<1>2. Refreshed(records, dirty, shown) = [slot \in DOMAIN shown |-> Refreshed(records, dirty, shown)[slot]]
  BY DEF Refreshed
<1> QED BY <1>1, <1>2

\* The visual at a slot is one, and the slot is that of its id.
LEMMA AtSlot ==
  ASSUME NEW V, NEW J, NEW store, IsStore(store, V, J), NEW slot \in DOMAIN store.at
  PROVE  /\ slot # 0 /\ slot \in 1..Len(store.at) /\ Len(store.at) \in Nat
         /\ store.at[slot] # Vacant =>
              /\ store.at[slot] \in V
              /\ store.at[slot].id \in Ids(store) /\ store.of[store.at[slot].id] = slot
<1>1. store.at \in Seq(V \cup {Vacant})
  BY DEF IsStore
<1>2. slot \in 1..Len(store.at) /\ Len(store.at) \in Nat /\ slot # 0
  BY <1>1
<1>3. store.at[slot] # Vacant => store.at[slot] \in V
  BY <1>1
<1>4. store.at[slot] # Vacant => SlotOf(store, store.at[slot].id) = slot
  BY DEF IsStore, Agree
<1> QED BY <1>2, <1>3, <1>4 DEF SlotOf

\* After a diff each node's slot has the record of the node that is there now.
LEMMA NodesShownAfterDiff ==
  ASSUME NEW store, IsStore(store, NodeVisual, NodeIds),
         NEW lanes \in [added: Seq(NodeVisual), updated: Seq(NodeVisual), removed: Seq(NodeIds)],
         ValidLanes(store, lanes), NEW hovered, NEW chosen
  PROVE  Refreshed(NodeRecords(store, hovered, chosen), DirtySlots(store, lanes),
                   NodeRecords(Changed(store, lanes), hovered, chosen))
           = NodeRecords(Changed(store, lanes), hovered, chosen)
<1> DEFINE new == Changed(store, lanes)
<1>1. \A slot \in DOMAIN new.at \ DirtySlots(store, lanes) :
        slot \in DOMAIN store.at /\ new.at[slot] = store.at[slot]
  <2>1. FollowsDiff(store, lanes, new)
    BY VisualsHaveIds, ChangedKeeps
  <2> QED BY <2>1 DEF FollowsDiff
<1> HIDE DEF new
<1> DEFINE shown == NodeRecords(new, hovered, chosen)
<1> DEFINE records == NodeRecords(store, hovered, chosen)
<1>2. DOMAIN shown = DOMAIN new.at /\ DOMAIN records = DOMAIN store.at
      /\ shown = [slot \in DOMAIN shown |-> shown[slot]]
  BY DEF NodeRecords
<1>3. \A slot \in DOMAIN shown \ DirtySlots(store, lanes) :
        slot \in DOMAIN records /\ records[slot] = shown[slot]
  BY <1>1, <1>2 DEF NodeRecords
<1> HIDE DEF shown, records
<1> QED BY <1>2, <1>3, RefreshedIsShown DEF shown, records, new

\* A slot that is not dirty holds what it held, and a diff names no edge there.
LEMMA CleanEdges ==
  ASSUME NEW store, IsStore(store, EdgeVisual, EdgeIds), NEW lanes, NEW new,
         FollowsDiff(store, lanes, new),
         NEW slot \in DOMAIN new.at \ DirtySlots(store, lanes)
  PROVE  /\ slot \in DOMAIN store.at /\ new.at[slot] = store.at[slot]
         /\ store.at[slot] # Vacant =>
              /\ store.at[slot].id \in Ids(store) \ ToSet(lanes.removed)
              /\ store.at[slot].id \notin ToSet(IdsOf(lanes.added \o lanes.updated))
              /\ VisualOf(store, store.at[slot].id) = store.at[slot]
<1>1. slot \in DOMAIN store.at /\ new.at[slot] = store.at[slot]
  BY DEF FollowsDiff
<1>2. ASSUME store.at[slot] # Vacant
      PROVE  /\ store.at[slot].id \in Ids(store) \ ToSet(lanes.removed)
             /\ store.at[slot].id \notin ToSet(IdsOf(lanes.added \o lanes.updated))
             /\ VisualOf(store, store.at[slot].id) = store.at[slot]
  <2> DEFINE id == store.at[slot].id
  <2>1. id \in Ids(store) /\ store.of[id] = slot
    BY <1>1, <1>2, AtSlot
  <2>2. id \notin ToSet(lanes.removed)
    BY <2>1 DEF FollowsDiff
  <2>3. id \notin ToSet(IdsOf(lanes.added \o lanes.updated))
    BY <2>1, <2>2 DEF FollowsDiff
  <2> QED BY <2>1, <2>2, <2>3 DEF VisualOf
<1> QED BY <1>1, <1>2

\* After a diff each edge's slot has the record of the edge that is there now, with
\* the slots where its ends are now, also when the edge itself is not named.
LEMMA EdgesShownAfterDiff ==
  ASSUME NEW nodeStore, NEW newNodes, NEW nodeLanes, FollowsDiff(nodeStore, nodeLanes, newNodes),
         NEW store, IsStore(store, EdgeVisual, EdgeIds),
         NEW lanes, NEW new, FollowsDiff(store, lanes, new),
         ToSet(IdsOf(lanes.updated)) \subseteq ToSet(IdsOf(lanes.added \o lanes.updated)),
         EndsResident(store, nodeStore), ValidEnds(nodeStore, nodeLanes, store, lanes)
  PROVE  Refreshed(EdgeRecords(store, nodeStore), DirtySlots(store, lanes),
                   EdgeRecords(new, newNodes)) = EdgeRecords(new, newNodes)
<1> DEFINE shown == EdgeRecords(new, newNodes)
<1> DEFINE records == EdgeRecords(store, nodeStore)
<1>1. DOMAIN shown = DOMAIN new.at /\ DOMAIN records = DOMAIN store.at
      /\ shown = [slot \in DOMAIN shown |-> shown[slot]]
  BY DEF EdgeRecords
<1>2. \A slot \in DOMAIN shown \ DirtySlots(store, lanes) :
        slot \in DOMAIN records /\ records[slot] = shown[slot]
  <2> SUFFICES ASSUME NEW slot \in DOMAIN new.at \ DirtySlots(store, lanes)
               PROVE  slot \in DOMAIN store.at /\ records[slot] = shown[slot]
    BY <1>1
  <2> DEFINE edge == store.at[slot]
  <2>1. slot \in DOMAIN store.at /\ new.at[slot] = edge
    BY CleanEdges
  <2>2. records[slot] = EdgeRecord(edge, nodeStore) /\ shown[slot] = EdgeRecord(edge, newNodes)
    BY <2>1 DEF EdgeRecords
  <2>3. CASE edge = Vacant
    BY <2>1, <2>2, <2>3 DEF EdgeRecord
  <2>4. CASE edge # Vacant
    <3>1. /\ edge.id \in Ids(store) \ ToSet(lanes.removed)
          /\ edge.id \notin ToSet(IdsOf(lanes.added \o lanes.updated))
          /\ VisualOf(store, edge.id) = edge
      BY <2>4, CleanEdges
    <3> HIDE DEF edge
    <3>2. ToSet(nodeLanes.removed) \cap {edge.source, edge.target} = {}
      BY <3>1 DEF ValidEnds
    <3>3. {edge.source, edge.target} \subseteq Ids(nodeStore) \ ToSet(nodeLanes.removed)
      BY <3>1, <3>2 DEF EndsResident
    <3>4. \A end \in {edge.source, edge.target} : SlotOf(newNodes, end) = SlotOf(nodeStore, end)
      BY <3>3 DEF SlotOf, FollowsDiff
    <3>5. EdgeRecord(edge, nodeStore) = EdgeRecord(edge, newNodes)
      BY <3>4 DEF EdgeRecord
    <3> QED BY <2>1, <2>2, <3>5
  <2> QED BY <2>3, <2>4
<1> HIDE DEF shown, records
<1> QED BY <1>1, <1>2, RefreshedIsShown DEF shown, records

\* After a diff every edge runs between resident nodes again.
LEMMA EndsResidentAfterDiff ==
  ASSUME NEW nodeStore, NEW newNodes, NEW nodeLanes, FollowsDiff(nodeStore, nodeLanes, newNodes),
         ToSet(IdsOf(nodeLanes.added)) \subseteq ToSet(IdsOf(nodeLanes.added \o nodeLanes.updated)),
         NEW store, IsStore(store, EdgeVisual, EdgeIds),
         NEW lanes, NEW new, IsStore(new, EdgeVisual, EdgeIds), FollowsDiff(store, lanes, new),
         ToSet(IdsOf(lanes.updated)) \subseteq ToSet(IdsOf(lanes.added \o lanes.updated)),
         EndsResident(store, nodeStore), ValidEnds(nodeStore, nodeLanes, store, lanes)
  PROVE  EndsResident(new, newNodes)
<1> SUFFICES ASSUME NEW id \in Ids(new)
             PROVE  {VisualOf(new, id).source, VisualOf(new, id).target} \subseteq Ids(newNodes)
  BY DEF EndsResident
<1> DEFINE given == lanes.added \o lanes.updated
<1>1. CASE id \in ToSet(IdsOf(given))
  <2>1. PICK i \in DOMAIN given : given[i].id = id
    BY <1>1 DEF ToSet, IdsOf
  <2>2. VisualOf(new, id) = given[i]
    BY <2>1 DEF FollowsDiff
  <2>3. {given[i].source, given[i].target} \subseteq
          (Ids(nodeStore) \ ToSet(nodeLanes.removed)) \cup ToSet(IdsOf(nodeLanes.added))
    BY DEF ValidEnds, EndsIn
  <2> QED BY <2>2, <2>3 DEF FollowsDiff
<1>2. CASE id \notin ToSet(IdsOf(given))
  <2>1. id \in Ids(store) \ ToSet(lanes.removed) /\ new.of[id] = store.of[id]
    BY <1>2 DEF FollowsDiff
  <2>2. VisualOf(new, id) = VisualOf(store, id)
    BY <1>2 DEF FollowsDiff
  <2>3. ToSet(nodeLanes.removed) \cap {VisualOf(store, id).source, VisualOf(store, id).target} = {}
    BY <1>2, <2>1 DEF ValidEnds
  <2> QED BY <2>1, <2>2, <2>3 DEF EndsResident, FollowsDiff
<1> QED BY <1>1, <1>2

-----------------------------------------------------------------------------
(***************************************************************************)
(* The graph that was sent                                                 *)
(***************************************************************************)

\* Visuals with different ids give each id its place.
LEMMA PlacesGiven ==
  ASSUME NEW visuals, IsInjective(IdsOf(visuals))
  PROVE  /\ DOMAIN PlacesIn(visuals) = ToSet(IdsOf(visuals))
         /\ PlacesIn(visuals) = [id \in DOMAIN PlacesIn(visuals) |-> PlacesIn(visuals)[id]]
         /\ \A i \in DOMAIN visuals : PlacesIn(visuals)[visuals[i].id] = visuals[i].place
<1>1. \A i, j \in DOMAIN visuals : visuals[i].id = visuals[j].id => i = j
  BY DEF IsInjective, IdsOf
<1>2. \A i \in DOMAIN visuals :
        /\ visuals[i].id \in ToSet(IdsOf(visuals))
        /\ (CHOOSE visual \in ToSet(visuals) : visual.id = visuals[i].id) = visuals[i]
  <2> SUFFICES ASSUME NEW i \in DOMAIN visuals
               PROVE  /\ visuals[i].id \in ToSet(IdsOf(visuals))
                      /\ (CHOOSE visual \in ToSet(visuals) : visual.id = visuals[i].id) = visuals[i]
    OBVIOUS
  <2>1. visuals[i].id \in ToSet(IdsOf(visuals)) /\ visuals[i] \in ToSet(visuals)
    BY DEF ToSet, IdsOf
  <2>2. \A visual \in ToSet(visuals) : visual.id = visuals[i].id => visual = visuals[i]
    BY <1>1 DEF ToSet
  <2> QED BY <2>1, <2>2
<1>3. DOMAIN PlacesIn(visuals) = ToSet(IdsOf(visuals))
  BY DEF PlacesIn
<1>4. PlacesIn(visuals) = [id \in DOMAIN PlacesIn(visuals) |-> PlacesIn(visuals)[id]]
  BY DEF PlacesIn
<1>5. \A id \in ToSet(IdsOf(visuals)) :
        PlacesIn(visuals)[id] = (CHOOSE visual \in ToSet(visuals) : visual.id = id).place
  BY DEF PlacesIn
<1>6. \A i \in DOMAIN visuals : PlacesIn(visuals)[visuals[i].id] = visuals[i].place
  BY <1>2, <1>5
<1> QED BY <1>3, <1>4, <1>6

\* They give each edge its ends.
LEMMA EndsGiven ==
  ASSUME NEW visuals, IsInjective(IdsOf(visuals))
  PROVE  /\ DOMAIN EndsOf(visuals) = ToSet(IdsOf(visuals))
         /\ EndsOf(visuals) = [id \in DOMAIN EndsOf(visuals) |-> EndsOf(visuals)[id]]
         /\ \A i \in DOMAIN visuals :
              EndsOf(visuals)[visuals[i].id] = <<visuals[i].source, visuals[i].target>>
<1>1. \A i, j \in DOMAIN visuals : visuals[i].id = visuals[j].id => i = j
  BY DEF IsInjective, IdsOf
<1>2. \A i \in DOMAIN visuals :
        /\ visuals[i].id \in ToSet(IdsOf(visuals))
        /\ (CHOOSE visual \in ToSet(visuals) : visual.id = visuals[i].id) = visuals[i]
  <2> SUFFICES ASSUME NEW i \in DOMAIN visuals
               PROVE  /\ visuals[i].id \in ToSet(IdsOf(visuals))
                      /\ (CHOOSE visual \in ToSet(visuals) : visual.id = visuals[i].id) = visuals[i]
    OBVIOUS
  <2>1. visuals[i].id \in ToSet(IdsOf(visuals)) /\ visuals[i] \in ToSet(visuals)
    BY DEF ToSet, IdsOf
  <2>2. \A visual \in ToSet(visuals) : visual.id = visuals[i].id => visual = visuals[i]
    BY <1>1 DEF ToSet
  <2> QED BY <2>1, <2>2
<1>3. DOMAIN EndsOf(visuals) = ToSet(IdsOf(visuals))
  BY DEF EndsOf
<1>4. EndsOf(visuals) = [id \in DOMAIN EndsOf(visuals) |-> EndsOf(visuals)[id]]
  <2> DEFINE edge(id) == CHOOSE visual \in ToSet(visuals) : visual.id = id
  <2>1. EndsOf(visuals) = [id \in ToSet(IdsOf(visuals)) |-> <<edge(id).source, edge(id).target>>]
    BY DEF EndsOf
  <2> HIDE DEF edge
  <2> QED BY <2>1
<1>5. \A id \in ToSet(IdsOf(visuals)) :
        EndsOf(visuals)[id] = LET edge == CHOOSE visual \in ToSet(visuals) : visual.id = id
                              IN  <<edge.source, edge.target>>
  BY DEF EndsOf
<1>6. \A i \in DOMAIN visuals : EndsOf(visuals)[visuals[i].id] = <<visuals[i].source, visuals[i].target>>
  <2> SUFFICES ASSUME NEW i \in DOMAIN visuals
               PROVE  EndsOf(visuals)[visuals[i].id] = <<visuals[i].source, visuals[i].target>>
    OBVIOUS
  <2>1. visuals[i].id \in ToSet(IdsOf(visuals))
    BY <1>2
  <2>2. (CHOOSE visual \in ToSet(visuals) : visual.id = visuals[i].id) = visuals[i]
    BY <1>2
  <2> QED BY <1>5, <2>1, <2>2
<1> QED BY <1>3, <1>4, <1>6

\* A store of nodes has these places, one of edges has these ends.
PlacesAre(store, places) ==
  /\ DOMAIN places = Ids(store)
  /\ \A id \in Ids(store) : VisualOf(store, id).place = places[id]
EndsAre(store, ends) ==
  /\ DOMAIN ends = Ids(store)
  /\ \A id \in Ids(store) :
       <<VisualOf(store, id).source, VisualOf(store, id).target>> = ends[id]

\* The history of a diff is what the store has after it: places of nodes.
LEMMA PlacesAfterDiff ==
  ASSUME NEW store, NEW lanes, NEW new, FollowsDiff(store, lanes, new),
         IsInjective(IdsOf(lanes.added \o lanes.updated)),
         NEW places, PlacesAre(store, places)
  PROVE  LET after == Amended(places, lanes.removed, PlacesIn(lanes.added \o lanes.updated)) IN
         PlacesAre(new, after) /\ after = [id \in DOMAIN after |-> after[id]]
<1> DEFINE given == lanes.added \o lanes.updated
<1> DEFINE after == Amended(places, lanes.removed, PlacesIn(given))
<1> HIDE DEF given
<1>1. DOMAIN PlacesIn(given) = ToSet(IdsOf(given))
      /\ \A i \in DOMAIN given : PlacesIn(given)[given[i].id] = given[i].place
  BY PlacesGiven DEF given
<1>2. /\ Ids(new) = (Ids(store) \ ToSet(lanes.removed)) \cup ToSet(IdsOf(given))
      /\ \A i \in DOMAIN given : VisualOf(new, given[i].id) = given[i]
      /\ \A id \in Ids(new) \ ToSet(IdsOf(given)) : VisualOf(new, id) = VisualOf(store, id)
  BY DEF FollowsDiff, given
<1>3. DOMAIN after = Ids(new) /\ after = [id \in DOMAIN after |-> after[id]]
  BY <1>1, <1>2 DEF Amended, PlacesAre
<1>4. \A id \in Ids(new) :
        after[id] = IF id \in ToSet(IdsOf(given)) THEN PlacesIn(given)[id] ELSE places[id]
  BY <1>1, <1>2 DEF Amended, PlacesAre
<1>5. \A id \in ToSet(IdsOf(given)) : VisualOf(new, id).place = PlacesIn(given)[id]
  BY <1>1, <1>2 DEF ToSet, IdsOf
<1>6. \A id \in Ids(new) \ ToSet(IdsOf(given)) : id \in Ids(store)
  BY <1>2
<1> HIDE DEF after
<1>7. PlacesAre(new, after)
  BY <1>2, <1>3, <1>4, <1>5, <1>6 DEF PlacesAre
<1> QED BY <1>3, <1>7 DEF after, given

\* The same for the ends of edges.
LEMMA EndsAfterDiff ==
  ASSUME NEW store, NEW lanes, NEW new, FollowsDiff(store, lanes, new),
         IsInjective(IdsOf(lanes.added \o lanes.updated)),
         NEW ends, EndsAre(store, ends)
  PROVE  LET after == Amended(ends, lanes.removed, EndsOf(lanes.added \o lanes.updated)) IN
         EndsAre(new, after) /\ after = [id \in DOMAIN after |-> after[id]]
<1> DEFINE given == lanes.added \o lanes.updated
<1> DEFINE after == Amended(ends, lanes.removed, EndsOf(given))
<1> HIDE DEF given
<1>1. DOMAIN EndsOf(given) = ToSet(IdsOf(given))
      /\ \A i \in DOMAIN given : EndsOf(given)[given[i].id] = <<given[i].source, given[i].target>>
  BY EndsGiven DEF given
<1>2. /\ Ids(new) = (Ids(store) \ ToSet(lanes.removed)) \cup ToSet(IdsOf(given))
      /\ \A i \in DOMAIN given : VisualOf(new, given[i].id) = given[i]
      /\ \A id \in Ids(new) \ ToSet(IdsOf(given)) : VisualOf(new, id) = VisualOf(store, id)
  BY DEF FollowsDiff, given
<1>3. DOMAIN after = Ids(new) /\ after = [id \in DOMAIN after |-> after[id]]
  BY <1>1, <1>2 DEF Amended, EndsAre
<1>4. \A id \in Ids(new) :
        after[id] = IF id \in ToSet(IdsOf(given)) THEN EndsOf(given)[id] ELSE ends[id]
  BY <1>1, <1>2 DEF Amended, EndsAre
<1>5. \A id \in ToSet(IdsOf(given)) :
        <<VisualOf(new, id).source, VisualOf(new, id).target>> = EndsOf(given)[id]
  BY <1>1, <1>2 DEF ToSet, IdsOf
<1>6. \A id \in Ids(new) \ ToSet(IdsOf(given)) : id \in Ids(store)
  BY <1>2
<1> HIDE DEF after
<1>7. EndsAre(new, after)
  BY <1>2, <1>3, <1>4, <1>5, <1>6 DEF EndsAre
<1> QED BY <1>3, <1>7 DEF after, given
-----------------------------------------------------------------------------
(***************************************************************************)
(* The steps                                                               *)
(***************************************************************************)

\* Sequences up to some length are sequences.
LEMMA SeqOfIsSeq ==
  ASSUME NEW T, NEW n
  PROVE  SeqOf(T, n) \subseteq Seq(T)
<1> SUFFICES ASSUME NEW m \in 0..n, NEW s \in [1..m -> T]
             PROVE  s \in Seq(T)
  BY DEF SeqOf
<1> QED OBVIOUS

\* The inputs of a diff are lanes of visuals and ids.
LEMMA LanesAreSeqs ==
  /\ NodeLanes \subseteq [added: Seq(NodeVisual), updated: Seq(NodeVisual), removed: Seq(NodeIds)]
  /\ EdgeLanes \subseteq [added: Seq(EdgeVisual), updated: Seq(EdgeVisual), removed: Seq(EdgeIds)]
<1>1. NodeSeqs \subseteq Seq(NodeVisual) /\ EdgeSeqs \subseteq Seq(EdgeVisual)
  BY SeqOfIsSeq DEF NodeSeqs, EdgeSeqs, VisualSeqs
<1>2. InjectiveSeqs(NodeIds) \subseteq Seq(NodeIds) /\ InjectiveSeqs(EdgeIds) \subseteq Seq(EdgeIds)
  BY SeqOfIsSeq DEF InjectiveSeqs
<1> QED BY <1>1, <1>2 DEF NodeLanes, EdgeLanes, DisjointLanes

\* Nothing is resident at first, nothing was sent and nothing is shown.
LEMMA InitRenderer == Init => RendererInv
<1> SUFFICES ASSUME Init PROVE RendererInv
  OBVIOUS
<1>1. \A V, J : IsFiniteSet(J) => IsStore(Empty, V, J)
  <2> SUFFICES ASSUME NEW V, NEW J, IsFiniteSet(J) PROVE IsStore(Empty, V, J)
    OBVIOUS
  <2>1. Cardinality(J) \in Nat
    BY FS_CardinalityType
  <2>2. Empty.at = <<>> /\ Empty.of = <<>> /\ Empty.free = <<>> /\ DOMAIN Empty.of = {} /\ Ids(Empty) = {}
        /\ Empty = [at |-> Empty.at, of |-> Empty.of, free |-> Empty.free]
    BY DEF Empty, Ids
  <2>3. Agree(Empty)
    BY <2>2 DEF Agree, IsInjective
  <2> QED BY <2>1, <2>2, <2>3 DEF IsStore
<1>2. StoresFit
  BY <1>1, VisualsHaveIds DEF Init, StoresFit
<1>3. Ids(nodes) = {} /\ Ids(edges) = {} /\ DOMAIN nodes.at = {} /\ DOMAIN edges.at = {}
  BY DEF Init, Empty, Ids
<1>4. EndsResident(edges, nodes)
  BY <1>3 DEF EndsResident
<1>5. SceneIsWhatWasSent /\ SentFits
  BY <1>3 DEF Init, SceneIsWhatWasSent, SentFits
<1>6. Shown
  BY <1>3 DEF Init, Shown, NodeRecords, EdgeRecords
<1>7. Cardinality(NodeIds) \in Nat
  BY FS_CardinalityType, VisualsHaveIds
<1>8. RestFits /\ PickIsRightWithinRevision
  BY <1>7, RendererAssumption
     DEF Init, RestFits, PickIsRightWithinRevision, Idle, NotPicked, NodeOrNone, Slots
<1> QED BY <1>2, <1>4, <1>5, <1>6, <1>8 DEF RendererInv

\* A whole scene is packed, shown and remembered as it was sent.
LEMMA SetSceneKeeps ==
  ASSUME RendererInv, NEW r \in Revisions,
         NEW nodeVisuals \in Seq(NodeVisual), NEW edgeVisuals \in Seq(EdgeVisual),
         SetScene(r, nodeVisuals, edgeVisuals)
  PROVE  RendererInv'
<1>1. /\ r \in 1..MaxRevision /\ r > revision /\ revision' = r
      /\ nodes' = Pack(nodeVisuals) /\ edges' = Pack(edgeVisuals)
      /\ Distinct(nodeVisuals) /\ Distinct(edgeVisuals)
      /\ EndsIn(edgeVisuals, ToSet(IdsOf(nodeVisuals)))
      /\ sent' = [places |-> PlacesIn(nodeVisuals), ends |-> EndsOf(edgeVisuals)]
      /\ pending' = pending /\ readback' = readback /\ picked' = picked
  BY DEF SetScene, Revisions, pickVars
<1>2. /\ IsStore(nodes', NodeVisual, NodeIds) /\ Ids(nodes') = ToSet(IdsOf(nodeVisuals))
      /\ \A i \in DOMAIN nodeVisuals : VisualOf(nodes', nodeVisuals[i].id) = nodeVisuals[i]
  BY <1>1, VisualsHaveIds, PackKeeps
<1>3. /\ IsStore(edges', EdgeVisual, EdgeIds) /\ Ids(edges') = ToSet(IdsOf(edgeVisuals))
      /\ \A i \in DOMAIN edgeVisuals : VisualOf(edges', edgeVisuals[i].id) = edgeVisuals[i]
  BY <1>1, VisualsHaveIds, PackKeeps
<1>4. StoresFit'
  BY <1>2, <1>3 DEF StoresFit
<1>5. EndsResident(edges', nodes')
  <2> SUFFICES ASSUME NEW id \in Ids(edges')
               PROVE  {VisualOf(edges', id).source, VisualOf(edges', id).target} \subseteq Ids(nodes')
    BY DEF EndsResident
  <2>1. PICK i \in DOMAIN edgeVisuals : edgeVisuals[i].id = id
    BY <1>3 DEF ToSet, IdsOf
  <2>2. VisualOf(edges', id) = edgeVisuals[i]
    BY <1>3, <2>1
  <2> QED BY <1>1, <1>2, <2>2 DEF EndsIn
<1>6. /\ DOMAIN sent'.places = Ids(nodes')
      /\ sent'.places = [id \in DOMAIN sent'.places |-> sent'.places[id]]
      /\ \A i \in DOMAIN nodeVisuals : sent'.places[nodeVisuals[i].id] = nodeVisuals[i].place
  BY <1>1, <1>2, PlacesGiven DEF Distinct
<1>7. /\ DOMAIN sent'.ends = Ids(edges')
      /\ sent'.ends = [id \in DOMAIN sent'.ends |-> sent'.ends[id]]
      /\ \A i \in DOMAIN edgeVisuals :
           sent'.ends[edgeVisuals[i].id] = <<edgeVisuals[i].source, edgeVisuals[i].target>>
  BY <1>1, <1>3, EndsGiven DEF Distinct
<1>8. SentFits'
  BY <1>1, <1>6, <1>7 DEF SentFits
<1>9. SceneIsWhatWasSent'
  BY <1>2, <1>3, <1>6, <1>7 DEF SceneIsWhatWasSent, ToSet, IdsOf
<1>10. Shown'
  BY DEF SetScene, Shown
<1>11. RestFits' /\ PickIsRightWithinRevision'
  <2>1. hover' \in NodeOrNone /\ selected' \in NodeOrNone
    BY DEF SetScene, RendererInv, RestFits, Kept, NodeOrNone
  <2>2. picked.revision <= revision /\ picked.revision \in 0..MaxRevision
        /\ revision \in 0..MaxRevision
    BY DEF RendererInv, RestFits
  <2>3. picked'.revision <= revision' /\ picked'.revision # revision' /\ revision' \in 0..MaxRevision
    BY <1>1, <2>2, RendererAssumption
  <2> QED BY <1>1, <2>1, <2>3 DEF RendererInv, RestFits, PickIsRightWithinRevision
<1> QED BY <1>4, <1>5, <1>8, <1>9, <1>10, <1>11 DEF RendererInv

\* A diff that is valid changes the stores, what is shown of them and what was sent
\* in the same way.
LEMMA ApplyDiffKeeps ==
  ASSUME RendererInv, NEW r \in Revisions, NEW nodeLanes \in NodeLanes, NEW edgeLanes \in EdgeLanes,
         ApplyDiff(r, nodeLanes, edgeLanes)
  PROVE  RendererInv'
<1>1. /\ r \in 1..MaxRevision /\ r > revision /\ revision' = r
      /\ ValidLanes(nodes, nodeLanes) /\ ValidLanes(edges, edgeLanes)
      /\ ValidEnds(nodes, nodeLanes, edges, edgeLanes)
      /\ nodes' = Changed(nodes, nodeLanes) /\ edges' = Changed(edges, edgeLanes)
      /\ gpuNodes' = Refreshed(gpuNodes, DirtySlots(nodes, nodeLanes),
                               NodeRecords(nodes', hover, selected))
      /\ gpuEdges' = Refreshed(gpuEdges, DirtySlots(edges, edgeLanes), EdgeRecords(edges', nodes'))
      /\ sent' = [places |-> Amended(sent.places, nodeLanes.removed,
                                     PlacesIn(nodeLanes.added \o nodeLanes.updated)),
                  ends |-> Amended(sent.ends, edgeLanes.removed,
                                   EndsOf(edgeLanes.added \o edgeLanes.updated))]
      /\ hover' = hover /\ selected' = selected
      /\ pending' = pending /\ readback' = readback /\ picked' = picked
  BY DEF ApplyDiff, Revisions, pickVars
<1>2. IsStore(nodes, NodeVisual, NodeIds) /\ IsStore(edges, EdgeVisual, EdgeIds)
      /\ EndsResident(edges, nodes)
  BY DEF RendererInv, StoresFit
<1>3. /\ nodeLanes \in [added: Seq(NodeVisual), updated: Seq(NodeVisual), removed: Seq(NodeIds)]
      /\ edgeLanes \in [added: Seq(EdgeVisual), updated: Seq(EdgeVisual), removed: Seq(EdgeIds)]
  BY LanesAreSeqs
<1>4. Apart(nodeLanes, NodeIds) /\ Apart(edgeLanes, EdgeIds)
  BY <1>1, <1>3, LanesApart, VisualsHaveIds
<1>5. IsStore(nodes', NodeVisual, NodeIds) /\ FollowsDiff(nodes, nodeLanes, nodes')
  BY <1>1, <1>2, <1>3, ChangedKeeps, VisualsHaveIds
<1>6. IsStore(edges', EdgeVisual, EdgeIds) /\ FollowsDiff(edges, edgeLanes, edges')
  BY <1>1, <1>2, <1>3, ChangedKeeps, VisualsHaveIds
<1>7. /\ ToSet(IdsOf(nodeLanes.added)) \subseteq ToSet(IdsOf(nodeLanes.added \o nodeLanes.updated))
      /\ ToSet(IdsOf(edgeLanes.updated)) \subseteq ToSet(IdsOf(edgeLanes.added \o edgeLanes.updated))
      /\ IsInjective(IdsOf(nodeLanes.added \o nodeLanes.updated))
      /\ IsInjective(IdsOf(edgeLanes.added \o edgeLanes.updated))
  BY <1>4 DEF Apart
<1>8. EndsResident(edges', nodes')
  BY <1>1, <1>2, <1>5, <1>6, <1>7, EndsResidentAfterDiff
<1>9. gpuNodes' = NodeRecords(nodes', hover', selected')
  <2>1. gpuNodes = NodeRecords(nodes, hover, selected)
    BY DEF RendererInv, Shown
  <2>2. gpuNodes' = Refreshed(NodeRecords(nodes, hover, selected), DirtySlots(nodes, nodeLanes),
                              NodeRecords(Changed(nodes, nodeLanes), hover, selected))
    BY <1>1, <2>1
  <2>3. gpuNodes' = NodeRecords(Changed(nodes, nodeLanes), hover, selected)
    BY <1>1, <1>2, <1>3, <2>2, NodesShownAfterDiff
  <2> QED BY <1>1, <2>3
<1>10. gpuEdges' = EdgeRecords(edges', nodes')
  <2>1. gpuEdges = EdgeRecords(edges, nodes)
    BY DEF RendererInv, Shown
  <2>2. Refreshed(EdgeRecords(edges, nodes), DirtySlots(edges, edgeLanes), EdgeRecords(edges', nodes'))
          = EdgeRecords(edges', nodes')
    BY <1>1, <1>2, <1>5, <1>6, <1>7, EdgesShownAfterDiff
  <2> QED BY <1>1, <2>1, <2>2
<1>11. PlacesAre(nodes, sent.places) /\ EndsAre(edges, sent.ends)
  BY DEF RendererInv, SceneIsWhatWasSent, PlacesAre, EndsAre
<1>12. PlacesAre(nodes', sent'.places)
       /\ sent'.places = [id \in DOMAIN sent'.places |-> sent'.places[id]]
  BY <1>1, <1>5, <1>7, <1>11, PlacesAfterDiff
<1>13. EndsAre(edges', sent'.ends) /\ sent'.ends = [id \in DOMAIN sent'.ends |-> sent'.ends[id]]
  BY <1>1, <1>6, <1>7, <1>11, EndsAfterDiff
<1>14. SceneIsWhatWasSent' /\ SentFits'
  <2>1. sent' = [places |-> sent'.places, ends |-> sent'.ends]
    BY <1>1
  <2> QED BY <1>12, <1>13, <2>1 DEF SceneIsWhatWasSent, SentFits, PlacesAre, EndsAre
<1>15. RestFits' /\ PickIsRightWithinRevision'
  <2>1. picked.revision <= revision /\ picked.revision \in 0..MaxRevision
        /\ revision \in 0..MaxRevision
    BY DEF RendererInv, RestFits
  <2>2. picked'.revision <= revision' /\ picked'.revision # revision' /\ revision' \in 0..MaxRevision
    BY <1>1, <2>1, RendererAssumption
  <2> QED BY <1>1, <2>2 DEF RendererInv, RestFits, PickIsRightWithinRevision
<1> QED BY <1>5, <1>6, <1>8, <1>9, <1>10, <1>14, <1>15 DEF RendererInv, StoresFit, Shown

\* With no slot vacant, giving each slot another place keeps its id.
LEMMA SwitchKeepsStore ==
  ASSUME NEW store, IsStore(store, NodeVisual, NodeIds), Cardinality(Ids(store)) = Len(store.at),
         NEW places \in [DOMAIN store.at -> Places]
  PROVE  LET new == [store EXCEPT !.at =
                       [slot \in DOMAIN store.at |-> [store.at[slot] EXCEPT !.place = places[slot]]]]
         IN  /\ IsStore(new, NodeVisual, NodeIds)
             /\ new.of = store.of /\ DOMAIN new.at = DOMAIN store.at
             /\ \A slot \in DOMAIN store.at :
                  /\ store.at[slot] \in NodeVisual /\ store.at[slot] # Vacant
                  /\ new.at[slot] \in NodeVisual /\ new.at[slot] # Vacant
                  /\ new.at[slot] = [store.at[slot] EXCEPT !.place = places[slot]]
                  /\ new.at[slot].id = store.at[slot].id /\ new.at[slot].place = places[slot]
<1> DEFINE moved == [slot \in DOMAIN store.at |-> [store.at[slot] EXCEPT !.place = places[slot]]]
<1> DEFINE new == [store EXCEPT !.at = moved]
<1>1. ToSet(store.free) = {} /\ \A slot \in DOMAIN store.at : store.at[slot] \in NodeVisual
  BY NoneVacant, VisualsHaveIds
<1>2. /\ store = [at |-> store.at, of |-> store.of, free |-> store.free]
      /\ store.at \in Seq(NodeVisual \cup {Vacant}) /\ store.of \in [Ids(store) -> DOMAIN store.at]
      /\ store.free \in Seq(DOMAIN store.at)
      /\ Ids(store) \subseteq NodeIds /\ Len(store.at) <= Cardinality(NodeIds)
  BY DEF IsStore
<1>3. \A slot \in DOMAIN store.at :
        /\ moved[slot] \in NodeVisual /\ moved[slot] # Vacant /\ store.at[slot] # Vacant
        /\ moved[slot] = [store.at[slot] EXCEPT !.place = places[slot]]
        /\ moved[slot].id = store.at[slot].id /\ moved[slot].place = places[slot]
  BY <1>1, VisualsHaveIds DEF NodeVisual
<1>4. moved \in Seq(NodeVisual \cup {Vacant}) /\ DOMAIN moved = DOMAIN store.at
      /\ Len(moved) = Len(store.at)
  <2>1. DOMAIN store.at = 1..Len(store.at) /\ Len(store.at) \in Nat
    BY <1>2
  <2>2. DOMAIN moved = DOMAIN store.at /\ moved \in [1..Len(store.at) -> NodeVisual \cup {Vacant}]
    BY <1>3, <2>1
  <2> HIDE DEF moved
  <2> QED BY <2>1, <2>2
<1> HIDE DEF moved
<1>5. /\ new.at = moved /\ new.of = store.of /\ new.free = store.free
      /\ new = [at |-> new.at, of |-> new.of, free |-> new.free]
  BY <1>2
<1> HIDE DEF new
<1>6. Ids(new) = Ids(store)
  BY <1>5 DEF Ids
<1>7. \A id \in Ids(store) : VisualOf(store, id).id = id
  BY DEF IsStore, Agree
<1>8. Agree(new)
  <2>1. \A slot \in DOMAIN store.at : SlotOf(store, store.at[slot].id) = slot
    BY <1>1 DEF IsStore, Agree
  <2>2. \A slot \in DOMAIN new.at : SlotOf(new, new.at[slot].id) = slot
    BY <1>3, <1>4, <1>5, <1>6, <2>1 DEF SlotOf
  <2>3. \A id \in Ids(new) : VisualOf(new, id).id = id
    <3> SUFFICES ASSUME NEW id \in Ids(store)
                 PROVE  moved[store.of[id]].id = id
      BY <1>5, <1>6 DEF VisualOf
    <3>1. store.of[id] \in DOMAIN store.at /\ store.at[store.of[id]].id = id
      BY <1>2, <1>7 DEF VisualOf
    <3> QED BY <1>3, <3>1
  <2>4. IsInjective(new.free)
    BY <1>5 DEF IsStore, Agree
  <2> QED BY <1>1, <1>3, <1>4, <1>5, <2>2, <2>3, <2>4 DEF Agree
<1>9. \A id \in Ids(new) : VisualOf(new, id) \in NodeVisual
  BY <1>2, <1>3, <1>5, <1>6 DEF VisualOf
<1>10. IsStore(new, NodeVisual, NodeIds)
  BY <1>2, <1>4, <1>5, <1>6, <1>8, <1>9 DEF IsStore
<1> QED BY <1>1, <1>3, <1>4, <1>5, <1>10 DEF new, moved

\* Other places, of a scene with no vacant slot, keep who is where.
LEMMA SwitchPositionsKeeps ==
  ASSUME RendererInv, NEW places \in [DOMAIN nodes.at -> Places], SwitchPositions(places)
  PROVE  RendererInv'
<1>1. /\ Cardinality(Ids(nodes)) = Len(nodes.at)
      /\ nodes' = [nodes EXCEPT !.at =
                     [slot \in DOMAIN nodes.at |-> [nodes.at[slot] EXCEPT !.place = places[slot]]]]
      /\ gpuNodes' = [slot \in DOMAIN gpuNodes |-> [gpuNodes[slot] EXCEPT !.place = places[slot]]]
      /\ sent' = [sent EXCEPT !.places = [id \in DOMAIN @ |-> places[nodes.of[id]]]]
      /\ revision' = revision /\ edges' = edges /\ gpuEdges' = gpuEdges
      /\ hover' = hover /\ selected' = selected
      /\ pending' = pending /\ readback' = readback /\ picked' = picked
  BY DEF SwitchPositions, pickVars
<1>2. IsStore(nodes, NodeVisual, NodeIds) /\ IsStore(edges, EdgeVisual, EdgeIds)
  BY DEF RendererInv, StoresFit
<1>3. /\ IsStore(nodes', NodeVisual, NodeIds)
      /\ nodes'.of = nodes.of /\ DOMAIN nodes'.at = DOMAIN nodes.at
      /\ \A slot \in DOMAIN nodes.at :
           /\ nodes.at[slot] \in NodeVisual /\ nodes.at[slot] # Vacant
           /\ nodes'.at[slot] \in NodeVisual /\ nodes'.at[slot] # Vacant
           /\ nodes'.at[slot] = [nodes.at[slot] EXCEPT !.place = places[slot]]
           /\ nodes'.at[slot].id = nodes.at[slot].id /\ nodes'.at[slot].place = places[slot]
  <2> DEFINE moved == [slot \in DOMAIN nodes.at |-> [nodes.at[slot] EXCEPT !.place = places[slot]]]
  <2> DEFINE new == [nodes EXCEPT !.at = moved]
  <2>1. /\ IsStore(new, NodeVisual, NodeIds)
        /\ new.of = nodes.of /\ DOMAIN new.at = DOMAIN nodes.at
        /\ \A slot \in DOMAIN nodes.at :
             /\ nodes.at[slot] \in NodeVisual /\ nodes.at[slot] # Vacant
             /\ new.at[slot] \in NodeVisual /\ new.at[slot] # Vacant
             /\ new.at[slot] = [nodes.at[slot] EXCEPT !.place = places[slot]]
             /\ new.at[slot].id = nodes.at[slot].id /\ new.at[slot].place = places[slot]
    BY <1>1, <1>2, SwitchKeepsStore
  <2>2. nodes' = new
    BY <1>1
  <2> HIDE DEF new
  <2> QED BY <2>1, <2>2
<1>4. Ids(nodes') = Ids(nodes)
  BY <1>3 DEF Ids
<1>5. EndsResident(edges', nodes')
  BY <1>1, <1>4 DEF RendererInv, EndsResident
<1>6. nodes.of \in [Ids(nodes) -> DOMAIN nodes.at]
  BY <1>2 DEF IsStore
<1>7. /\ sent'.places = [id \in DOMAIN sent.places |-> places[nodes.of[id]]]
      /\ sent'.ends = sent.ends /\ sent' = [places |-> sent'.places, ends |-> sent'.ends]
  <2>1. sent = [places |-> sent.places, ends |-> sent.ends]
    BY DEF RendererInv, SentFits
  <2> QED BY <1>1, <2>1
<1>8. SentFits'
  <2>1. sent.ends = [id \in DOMAIN sent.ends |-> sent.ends[id]]
    BY DEF RendererInv, SentFits
  <2> QED BY <1>7, <2>1 DEF SentFits
<1>9. SceneIsWhatWasSent'
  <2>1. DOMAIN sent'.places = Ids(nodes')
    BY <1>4, <1>7 DEF RendererInv, SceneIsWhatWasSent
  <2>2. \A id \in Ids(nodes') : VisualOf(nodes', id).place = sent'.places[id]
    <3> SUFFICES ASSUME NEW id \in Ids(nodes)
                 PROVE  nodes'.at[nodes.of[id]].place = places[nodes.of[id]]
      BY <1>3, <1>4, <1>7, <2>1 DEF VisualOf
    <3> QED BY <1>3, <1>6
  <2>3. EndsAre(edges', sent'.ends)
    BY <1>1, <1>7 DEF RendererInv, SceneIsWhatWasSent, EndsAre
  <2> QED BY <2>1, <2>2, <2>3 DEF SceneIsWhatWasSent, EndsAre
<1>10. gpuNodes' = NodeRecords(nodes', hover', selected')
  <2>1. gpuNodes = NodeRecords(nodes, hover, selected)
    BY DEF RendererInv, Shown
  <2>2. \A slot \in DOMAIN nodes.at :
          [NodeRecord(nodes.at[slot], hover, selected) EXCEPT !.place = places[slot]]
            = NodeRecord(nodes'.at[slot], hover, selected)
    <3> SUFFICES ASSUME NEW slot \in DOMAIN nodes.at
                 PROVE  [NodeRecord(nodes.at[slot], hover, selected) EXCEPT !.place = places[slot]]
                          = NodeRecord(nodes'.at[slot], hover, selected)
      OBVIOUS
    <3> DEFINE old == nodes.at[slot]
    <3> DEFINE new == nodes'.at[slot]
    <3>1. old # Vacant /\ new # Vacant /\ new.id = old.id /\ new.place = places[slot]
      BY <1>3
    <3> HIDE DEF old, new
    <3>2. [NodeRecord(old, hover, selected) EXCEPT !.place = places[slot]]
            = NodeRecord(new, hover, selected)
      BY <3>1 DEF NodeRecord
    <3> QED BY <3>2 DEF old, new
  <2>3. DOMAIN gpuNodes = DOMAIN nodes.at
        /\ \A slot \in DOMAIN nodes.at : gpuNodes[slot] = NodeRecord(nodes.at[slot], hover, selected)
    BY <2>1 DEF NodeRecords
  <2>4. gpuNodes' = [slot \in DOMAIN nodes'.at |-> NodeRecord(nodes'.at[slot], hover, selected)]
    <3>1. gpuNodes' = [slot \in DOMAIN nodes.at |-> [gpuNodes[slot] EXCEPT !.place = places[slot]]]
      BY <1>1, <2>3
    <3>2. \A slot \in DOMAIN nodes.at :
            [gpuNodes[slot] EXCEPT !.place = places[slot]] = NodeRecord(nodes'.at[slot], hover, selected)
      BY <2>2, <2>3
    <3>3. DOMAIN nodes'.at = DOMAIN nodes.at
      BY <1>3
    <3> QED BY ONLY <3>1, <3>2, <3>3
  <2> QED BY <1>1, <2>4 DEF NodeRecords
<1>11. gpuEdges' = EdgeRecords(edges', nodes')
  <2>1. gpuEdges = EdgeRecords(edges, nodes)
    BY DEF RendererInv, Shown
  <2>2. \A id : SlotOf(nodes', id) = SlotOf(nodes, id)
    BY <1>3, <1>4 DEF SlotOf
  <2>3. \A visual : EdgeRecord(visual, nodes') = EdgeRecord(visual, nodes)
    BY <2>2 DEF EdgeRecord
  <2> QED BY <1>1, <2>1, <2>3 DEF EdgeRecords
<1>12. RestFits' /\ PickIsRightWithinRevision'
  <2>1. \A slot : NodeAtSlot(slot)' = NodeAtSlot(slot)
    BY <1>3 DEF NodeAtSlot
  <2> QED BY <1>1, <2>1 DEF RendererInv, RestFits, PickIsRightWithinRevision
<1> QED BY <1>1, <1>2, <1>3, <1>5, <1>8, <1>9, <1>10, <1>11, <1>12
        DEF RendererInv, StoresFit, Shown

\* update_highlights writes again what was or becomes highlighted; no other record
\* depends on the highlights.
LEMMA HighlightShows ==
  ASSUME RendererInv, NEW newHover \in NodeOrNone, NEW newSelected \in NodeOrNone,
         Highlight(newHover, newSelected)
  PROVE  /\ gpuNodes' = NodeRecords(nodes, hover', selected')
         /\ hover' \in NodeOrNone /\ selected' \in NodeOrNone
<1> DEFINE ids == {hover, newHover, selected, newSelected} \cap Ids(nodes)
<1> DEFINE touched == {nodes.of[id] : id \in ids}
<1>1. /\ hover' = Kept(newHover, nodes) /\ selected' = Kept(newSelected, nodes)
      /\ gpuNodes' = Refreshed(gpuNodes, touched, NodeRecords(nodes, hover', selected'))
  BY DEF Highlight
<1>2. hover' \in {newHover, NoNode} /\ selected' \in {newSelected, NoNode}
  BY <1>1 DEF Kept
<1>3. gpuNodes = NodeRecords(nodes, hover, selected) /\ IsStore(nodes, NodeVisual, NodeIds)
  BY DEF RendererInv, Shown, StoresFit
<1>4. \A slot \in DOMAIN nodes.at \ touched :
        NodeRecord(nodes.at[slot], hover, selected) = NodeRecord(nodes.at[slot], hover', selected')
  <2> SUFFICES ASSUME NEW slot \in DOMAIN nodes.at \ touched, nodes.at[slot] # Vacant
               PROVE  NodeRecord(nodes.at[slot], hover, selected)
                        = NodeRecord(nodes.at[slot], hover', selected')
    BY DEF NodeRecord
  <2> DEFINE id == nodes.at[slot].id
  <2>1. id \in Ids(nodes) /\ nodes.of[id] = slot /\ id \in NodeIds
    <3>1. id \in Ids(nodes) /\ nodes.of[id] = slot
      BY <1>3, AtSlot
    <3> QED BY <1>3, <3>1 DEF IsStore
  <2>2. id \notin {hover, newHover, selected, newSelected}
    BY <2>1
  <2>3. id \notin {hover', selected'}
    BY <1>2, <2>1, <2>2, RendererAssumption
  <2> QED BY <2>2, <2>3 DEF NodeRecord
<1> DEFINE shown == NodeRecords(nodes, hover', selected')
<1>5. DOMAIN shown = DOMAIN nodes.at /\ DOMAIN gpuNodes = DOMAIN nodes.at
      /\ shown = [slot \in DOMAIN shown |-> shown[slot]]
  BY <1>3 DEF NodeRecords
<1>6. \A slot \in DOMAIN shown \ touched : slot \in DOMAIN gpuNodes /\ gpuNodes[slot] = shown[slot]
  BY <1>3, <1>4, <1>5 DEF NodeRecords
<1> HIDE DEF shown, touched
<1>7. gpuNodes' = shown
  BY <1>1, <1>5, <1>6, RefreshedIsShown DEF shown
<1> QED BY <1>2, <1>7 DEF shown, NodeOrNone

\* What stands at a slot is a node or none.
LEMMA NodeAtSlotType ==
  ASSUME RendererInv, NEW slot
  PROVE  NodeAtSlot(slot) \in NodeOrNone
<1>1. IsStore(nodes, NodeVisual, NodeIds)
  BY DEF RendererInv, StoresFit
<1>2. ASSUME slot \in DOMAIN nodes.at, nodes.at[slot] # Vacant
      PROVE  nodes.at[slot].id \in NodeIds
  <2>1. nodes.at[slot] \in NodeVisual
    BY <1>1, <1>2, AtSlot
  <2> QED BY <2>1, VisualsHaveIds
<1> QED BY <1>2 DEF NodeAtSlot, NodeOrNone

\* A change of the highlights leaves the rest as it is.
LEMMA HighlightKeeps ==
  ASSUME RendererInv, NEW newHover \in NodeOrNone, NEW newSelected \in NodeOrNone,
         Highlight(newHover, newSelected), UNCHANGED <<sceneVars, nodes, pending>>,
         \/ readback' = readback /\ picked' = picked
         \/ readback' = Idle /\ picked' = NotPicked
  PROVE  RendererInv'
<1>1. /\ revision' = revision /\ nodes' = nodes /\ edges' = edges /\ gpuEdges' = gpuEdges
      /\ sent' = sent /\ pending' = pending
  BY DEF sceneVars
<1>2. /\ gpuNodes' = NodeRecords(nodes', hover', selected')
      /\ hover' \in NodeOrNone /\ selected' \in NodeOrNone
  BY <1>1, HighlightShows
<1>3. Shown'
  BY <1>1, <1>2 DEF RendererInv, Shown
<1>4. RestFits'
  <2>1. NotPicked \in [node: NodeOrNone, revision: 0..MaxRevision] /\ NotPicked.revision = 0
    BY RendererAssumption DEF NotPicked, NodeOrNone
  <2>2. Idle \in [intent: Intents \cup {"none"}, slot: Slots]
    BY VisualsHaveIds, FS_CardinalityType DEF Idle, Slots
  <2>3. RestFits
    BY DEF RendererInv
  <2> QED BY <1>1, <1>2, <2>1, <2>2, <2>3 DEF RestFits
<1>5. PickIsRightWithinRevision'
  <2>1. NodeAtSlot(readback.slot)' = NodeAtSlot(readback'.slot)
    BY <1>1 DEF NodeAtSlot
  <2>2. CASE readback' = Idle
    BY <2>2 DEF PickIsRightWithinRevision
  <2>3. CASE readback' = readback /\ picked' = picked
    BY <1>1, <2>1, <2>3 DEF RendererInv, PickIsRightWithinRevision
  <2> QED BY <2>2, <2>3
<1> QED BY <1>1, <1>3, <1>4, <1>5
        DEF RendererInv, StoresFit, EndsResident, SceneIsWhatWasSent, SentFits

\* What a step that touches neither scene nor highlights leaves to show.
LEMMA SceneStays ==
  ASSUME RendererInv, UNCHANGED <<sceneVars, nodes, gpuNodes, hover, selected>>,
         RestFits', PickIsRightWithinRevision'
  PROVE  RendererInv'
BY DEF RendererInv, StoresFit, EndsResident, SceneIsWhatWasSent, SentFits, Shown, sceneVars

\* The slot that is copied has the node that is drawn there.
LEMMA RenderKeeps ==
  ASSUME RendererInv, NEW slot, Render(slot)
  PROVE  RendererInv'
<1>1. /\ UNCHANGED <<sceneVars, nodes, gpuNodes, hover, selected>>
      /\ slot \in {0} \cup {drawn \in DOMAIN gpuNodes : gpuNodes[drawn] # Vacant}
      /\ pending' = "none" /\ readback' = [intent |-> pending, slot |-> slot]
      /\ picked' = [node |-> IF slot = 0 THEN NoNode ELSE gpuNodes[slot].id, revision |-> revision]
      /\ revision' = revision /\ nodes' = nodes
  BY DEF Render, sceneVars
<1>2. gpuNodes = NodeRecords(nodes, hover, selected) /\ IsStore(nodes, NodeVisual, NodeIds)
  BY DEF RendererInv, Shown, StoresFit
<1>3. RestFits
  BY DEF RendererInv
<1>4. NodeAtSlot(slot) = picked'.node /\ slot \in Slots
  <2>1. Cardinality(NodeIds) \in Nat
    BY VisualsHaveIds, FS_CardinalityType
  <2>2. nodes.at \in Seq(NodeVisual \cup {Vacant}) /\ Len(nodes.at) <= Cardinality(NodeIds)
    BY <1>2 DEF IsStore
  <2>3. CASE slot = 0
    BY <1>1, <2>1, <2>2, <2>3 DEF NodeAtSlot, Slots
  <2>4. CASE slot # 0
    <3>1. slot \in DOMAIN nodes.at /\ gpuNodes[slot] = NodeRecord(nodes.at[slot], hover, selected)
      BY <1>1, <1>2, <2>4 DEF NodeRecords
    <3>2. nodes.at[slot] # Vacant /\ gpuNodes[slot].id = nodes.at[slot].id
      BY <1>1, <2>4, <3>1 DEF NodeRecord
    <3>3. slot \in Slots
      BY <2>1, <2>2, <3>1 DEF Slots
    <3> QED BY <1>1, <2>4, <3>1, <3>2, <3>3 DEF NodeAtSlot
  <2> QED BY <2>3, <2>4
<1>5. RestFits'
  <2>1. picked' \in [node: NodeOrNone, revision: 0..MaxRevision]
    BY <1>1, <1>3, <1>4, NodeAtSlotType DEF RestFits
  <2>2. readback' \in [intent: Intents \cup {"none"}, slot: Slots]
    BY <1>1, <1>3, <1>4 DEF RestFits
  <2> QED BY <1>1, <1>3, <2>1, <2>2 DEF RestFits
<1>6. PickIsRightWithinRevision'
  <2>1. NodeAtSlot(readback.slot)' = NodeAtSlot(slot)
    BY <1>1 DEF NodeAtSlot
  <2> QED BY <1>4, <2>1 DEF PickIsRightWithinRevision
<1> QED BY <1>1, <1>5, <1>6, SceneStays

\* A readback that arrives highlights what stands at its slot now.
LEMMA TakePickKeeps ==
  ASSUME RendererInv, TakePick
  PROVE  RendererInv'
<1> DEFINE node == NodeAtSlot(readback.slot)
<1>1. /\ readback' = Idle /\ picked' = NotPicked /\ UNCHANGED <<sceneVars, nodes, pending>>
      /\ \/ Highlight(node, selected)
         \/ Highlight(hover, node)
         \/ UNCHANGED <<gpuNodes, hover, selected>>
  BY DEF TakePick
<1>2. node \in NodeOrNone
  BY NodeAtSlotType
<1>3. hover \in NodeOrNone /\ selected \in NodeOrNone
  BY DEF RendererInv, RestFits
<1> HIDE DEF node
<1>4. CASE Highlight(node, selected)
  BY <1>1, <1>2, <1>3, <1>4, HighlightKeeps
<1>5. CASE Highlight(hover, node)
  BY <1>1, <1>2, <1>3, <1>5, HighlightKeeps
<1>6. CASE UNCHANGED <<gpuNodes, hover, selected>>
  <2>1. RestFits'
    <3>1. NotPicked \in [node: NodeOrNone, revision: 0..MaxRevision] /\ NotPicked.revision = 0
      BY RendererAssumption DEF NotPicked, NodeOrNone
    <3>2. Idle \in [intent: Intents \cup {"none"}, slot: Slots]
      BY VisualsHaveIds, FS_CardinalityType DEF Idle, Slots
    <3> QED BY <1>1, <1>6, <3>1, <3>2 DEF RendererInv, RestFits, sceneVars
  <2>2. PickIsRightWithinRevision'
    BY <1>1 DEF PickIsRightWithinRevision
  <2> QED BY <1>1, <1>6, <2>1, <2>2, SceneStays DEF sceneVars
<1> QED BY <1>1, <1>4, <1>5, <1>6

\* Requests, and a readback that fails, touch nothing else.
LEMMA RequestsKeep ==
  ASSUME RendererInv,
         DropRequest \/ DropPick \/ \E intent \in Intents : RequestPick(intent)
  PROVE  RendererInv'
<1>1. /\ UNCHANGED <<sceneVars, nodes, gpuNodes, hover, selected>>
      /\ pending' \in Intents \cup {"none"}
      /\ \/ readback' = readback /\ picked' = picked
         \/ readback' = Idle /\ picked' = NotPicked
  BY DEF DropRequest, DropPick, RequestPick, RendererInv, RestFits
<1>2. NotPicked \in [node: NodeOrNone, revision: 0..MaxRevision] /\ NotPicked.revision = 0
  BY RendererAssumption DEF NotPicked, NodeOrNone
<1>3. Idle \in [intent: Intents \cup {"none"}, slot: Slots]
  BY VisualsHaveIds, FS_CardinalityType DEF Idle, Slots
<1>4. RestFits'
  BY <1>1, <1>2, <1>3 DEF RendererInv, RestFits, sceneVars
<1>5. PickIsRightWithinRevision'
  <2>1. NodeAtSlot(readback.slot)' = NodeAtSlot(readback'.slot) /\ revision' = revision
    BY <1>1 DEF NodeAtSlot, sceneVars
  <2> QED BY <1>1, <2>1 DEF RendererInv, PickIsRightWithinRevision
<1> QED BY <1>1, <1>4, <1>5, SceneStays

-----------------------------------------------------------------------------
(***************************************************************************)
(* The theorems                                                            *)
(***************************************************************************)

\* Every step of the renderer keeps the invariant.
LEMMA RendererNext == RendererInv /\ [Next]_vars => RendererInv'
<1> SUFFICES ASSUME RendererInv, [Next]_vars
             PROVE  RendererInv'
  OBVIOUS
<1>1. CASE HostSetsScene
  <2>1. PICK r \in Revisions, nodeVisuals \in SeqOf(NodeVisual, Cardinality(NodeIds)),
             edgeVisuals \in SeqOf(EdgeVisual, Cardinality(EdgeIds)) :
          SetScene(r, nodeVisuals, edgeVisuals)
    BY <1>1 DEF HostSetsScene
  <2>2. nodeVisuals \in Seq(NodeVisual) /\ edgeVisuals \in Seq(EdgeVisual)
    BY SeqOfIsSeq
  <2> QED BY <2>1, <2>2, SetSceneKeeps
<1>2. CASE HostChangesScene
  BY <1>2, ApplyDiffKeeps DEF HostChangesScene
<1>3. CASE HostSwitchesPositions
  BY <1>3, SwitchPositionsKeeps DEF HostSwitchesPositions
<1>4. CASE DropRequest \/ DropPick \/ \E intent \in Intents : RequestPick(intent)
  BY <1>4, RequestsKeep
<1>5. CASE ClearSelection
  <2>1. Highlight(hover, NoNode) /\ UNCHANGED <<sceneVars, nodes, pending>>
        /\ readback' = readback /\ picked' = picked
    BY <1>5 DEF ClearSelection, pickVars
  <2>2. hover \in NodeOrNone /\ NoNode \in NodeOrNone
    BY DEF RendererInv, RestFits, NodeOrNone
  <2> QED BY <2>1, <2>2, HighlightKeeps
<1>6. CASE HostRenders
  BY <1>6, RenderKeeps DEF HostRenders
<1>7. CASE TakePick
  BY <1>7, TakePickKeeps
<1>8. CASE UNCHANGED vars
  <2>1. RestFits'
    BY <1>8 DEF RendererInv, RestFits, vars
  <2>2. PickIsRightWithinRevision'
    <3>1. NodeAtSlot(readback.slot)' = NodeAtSlot(readback'.slot)
      BY <1>8 DEF NodeAtSlot, vars
    <3> QED BY <1>8, <3>1 DEF RendererInv, PickIsRightWithinRevision, vars
  <2> QED BY <1>8, <2>1, <2>2, SceneStays DEF vars, sceneVars
<1> QED BY <1>1, <1>2, <1>3, <1>4, <1>5, <1>6, <1>7, <1>8 DEF Next

\* scene_state.rs, gpu_scene.rs and picking.rs: the invariant holds in every
\* behaviour, for any ids, places and number of revisions.
THEOREM RendererHolds == Spec => []RendererInv
BY InitRenderer, RendererNext, PTL DEF Spec

\* scene_state.rs: after any scenes, diffs and switches of positions, the id map, the
\* slots and the free list tell one story: no slot is lost, shared or freed twice.
THEOREM RendererSlotsAgree == Spec => []SlotsAgree
<1>1. RendererInv => SlotsAgree
  BY DEF RendererInv, StoresFit, IsStore, SlotsAgree
<1> QED BY <1>1, RendererHolds, PTL

\* set_snapshot, apply_diff, update_packed_positions: what is resident is the graph
\* that the accepted calls describe.
THEOREM ResidentSceneIsSent == Spec => []SceneIsWhatWasSent
<1>1. RendererInv => SceneIsWhatWasSent
  BY DEF RendererInv
<1> QED BY <1>1, RendererHolds, PTL

\* gpu_scene.rs: although only dirty slots are written, each slot on the GPU has the
\* record of what is there now with its highlights, and edges end at drawn nodes.
THEOREM GpuIsInStep == Spec => []GpuShowsScene
<1>1. RendererInv => GpuShowsScene
  <2> SUFFICES ASSUME RendererInv,
                      NEW slot \in DOMAIN gpuEdges, gpuEdges[slot] # Vacant
               PROVE  0 \notin {gpuEdges[slot].source, gpuEdges[slot].target}
    BY DEF GpuShowsScene, RendererInv, Shown
  <2>1. IsStore(nodes, NodeVisual, NodeIds) /\ IsStore(edges, EdgeVisual, EdgeIds)
        /\ gpuEdges = EdgeRecords(edges, nodes)
    BY DEF RendererInv, StoresFit, Shown
  <2> DEFINE edge == edges.at[slot]
  <2>2. slot \in DOMAIN edges.at /\ gpuEdges[slot] = EdgeRecord(edge, nodes) /\ edge # Vacant
    BY <2>1 DEF EdgeRecords, EdgeRecord
  <2>3. edge.id \in Ids(edges) /\ VisualOf(edges, edge.id) = edge
    BY <2>1, <2>2, AtSlot DEF VisualOf
  <2>4. {edge.source, edge.target} \subseteq Ids(nodes)
    BY <2>3 DEF RendererInv, EndsResident
  <2>5. \A id \in Ids(nodes) : SlotOf(nodes, id) # 0
    BY <2>1, AtSlot DEF SlotOf, IsStore
  <2> HIDE DEF edge
  <2> QED BY <2>2, <2>4, <2>5 DEF EdgeRecord
<1> QED BY <1>1, RendererHolds, PTL

\* picking.rs: until the revision changes, the slot that comes back stands for the node
\* that was drawn there, whatever was highlighted, moved or asked for since.
THEOREM PicksAreRightWithinRevision == Spec => []PickIsRightWithinRevision
<1>1. RendererInv => PickIsRightWithinRevision
  BY DEF RendererInv
<1> QED BY <1>1, RendererHolds, PTL

\* The records that are drawn have slots of the GPU's buffers, and what was sent is a
\* graph over the ids: every variable has its type.
THEOREM RendererTypeCorrect == Spec => []TypeOK
<1>1. RendererInv => TypeOK
  <2> SUFFICES ASSUME RendererInv
               PROVE  TypeOK
    OBVIOUS
  <2>1. IsStore(nodes, NodeVisual, NodeIds) /\ IsStore(edges, EdgeVisual, EdgeIds)
        /\ gpuNodes = NodeRecords(nodes, hover, selected) /\ gpuEdges = EdgeRecords(edges, nodes)
        /\ RestFits
    BY DEF RendererInv, StoresFit, Shown
  <2>2. \A V, J, store : IsStore(store, V, J) =>
          StoreOK(store, J) /\ ToSet(store.at) \subseteq V \cup {Vacant}
    BY DEF IsStore, StoreOK, ToSet
  <2>3. ToSet(gpuNodes) \subseteq NodeGpu \cup {Vacant}
    <3> SUFFICES ASSUME NEW slot \in DOMAIN nodes.at
                 PROVE  NodeRecord(nodes.at[slot], hover, selected) \in NodeGpu \cup {Vacant}
      BY <2>1 DEF NodeRecords, ToSet
    <3>1. nodes.at[slot] # Vacant => nodes.at[slot] \in NodeVisual
      BY <2>1, AtSlot
    <3> QED BY <3>1 DEF NodeRecord, NodeGpu, NodeVisual
  <2>4. ToSet(gpuEdges) \subseteq EdgeGpu \cup {Vacant}
    <3> SUFFICES ASSUME NEW slot \in DOMAIN edges.at
                 PROVE  EdgeRecord(edges.at[slot], nodes) \in EdgeGpu \cup {Vacant}
      BY <2>1 DEF EdgeRecords, ToSet
    <3>1. edges.at[slot] # Vacant => edges.at[slot] \in EdgeVisual
      BY <2>1, AtSlot
    <3>2. \A id : SlotOf(nodes, id) \in Slots
      <4>1. Cardinality(NodeIds) \in Nat
        BY VisualsHaveIds, FS_CardinalityType
      <4>2. nodes.at \in Seq(NodeVisual \cup {Vacant}) /\ Len(nodes.at) <= Cardinality(NodeIds)
            /\ nodes.of \in [Ids(nodes) -> DOMAIN nodes.at]
        BY <2>1 DEF IsStore
      <4> QED BY <4>1, <4>2 DEF SlotOf, Slots
    <3> QED BY <3>1, <3>2 DEF EdgeRecord, EdgeGpu, EdgeVisual
  <2>5. sent \in Graph
    <3>1. /\ sent = [places |-> sent.places, ends |-> sent.ends]
          /\ sent.places = [id \in DOMAIN sent.places |-> sent.places[id]]
          /\ sent.ends = [id \in DOMAIN sent.ends |-> sent.ends[id]]
      BY DEF RendererInv, SentFits
    <3>2. DOMAIN sent.places \in SUBSET NodeIds /\ DOMAIN sent.ends \in SUBSET EdgeIds
      BY <2>1 DEF RendererInv, SceneIsWhatWasSent, IsStore
    <3>3. \A id \in DOMAIN sent.places : sent.places[id] \in Places
      BY <2>1 DEF RendererInv, SceneIsWhatWasSent, IsStore, NodeVisual
    <3>4. \A id \in DOMAIN sent.ends : sent.ends[id] \in NodeIds \X NodeIds
      <4> SUFFICES ASSUME NEW id \in DOMAIN sent.ends
                   PROVE  sent.ends[id] \in NodeIds \X NodeIds
        OBVIOUS
      <4>1. id \in Ids(edges)
            /\ sent.ends[id] = <<VisualOf(edges, id).source, VisualOf(edges, id).target>>
        BY DEF RendererInv, SceneIsWhatWasSent
      <4>2. VisualOf(edges, id).source \in NodeIds /\ VisualOf(edges, id).target \in NodeIds
        BY <2>1, <4>1 DEF IsStore, EdgeVisual
      <4> QED BY <4>1, <4>2
    <3>5. sent.places \in [DOMAIN sent.places -> Places]
          /\ sent.ends \in [DOMAIN sent.ends -> NodeIds \X NodeIds]
      BY <3>1, <3>3, <3>4
    <3> QED BY <3>1, <3>2, <3>5 DEF Graph
  <2> QED BY <2>1, <2>2, <2>3, <2>4, <2>5 DEF TypeOK, RestFits
<1> QED BY <1>1, RendererHolds, PTL
=============================================================================
