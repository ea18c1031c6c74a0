----------------------------- MODULE SceneState -----------------------------
(***************************************************************************)
(* The renderer's slot stores (scene_state.rs): nodes and edges have       *)
(* stable ids outside and slots inside.  A slot that is vacated is used    *)
(* again, the one vacated last first.                                      *)
(*                                                                         *)
(* A store has the visual or Vacant at each slot, the slot of each         *)
(* resident id, and the stack of vacant slots.  Slots count from 1, so a   *)
(* slot is what the picking shader writes and 0 is its background.  Of a   *)
(* visual only its id, a node's place and an edge's ends are kept.         *)
(***************************************************************************)
EXTENDS Integers, Sequences, FiniteSets, SequencesExt

CONSTANTS
  NodeIds, EdgeIds,
  Places,   \* what a node's visual may say besides its id
  Vacant    \* no visual

NodeVisual == [id: NodeIds, place: Places]
EdgeVisual == [id: EdgeIds, source: NodeIds, target: NodeIds]

ASSUME SceneAssumption ==
  /\ IsFiniteSet(NodeIds) /\ IsFiniteSet(EdgeIds)
  /\ Vacant \notin NodeVisual \cup EdgeVisual

Empty == [at |-> <<>>, of |-> <<>>, free |-> <<>>]
Ids(store) == DOMAIN store.of
VisualOf(store, id) == store.at[store.of[id]]

\* node_slot and edge_slot, 0 for an id that is not resident
SlotOf(store, id) == IF id \in Ids(store) THEN store.of[id] ELSE 0

\* The ids of a sequence of visuals.
IdsOf(visuals) == [i \in DOMAIN visuals |-> visuals[i].id]

\* What each slot number in a store refers to is there.
StoreOK(store, ids) ==
  /\ Ids(store) \subseteq ids
  /\ \A id \in Ids(store) : store.of[id] \in DOMAIN store.at
  /\ \A i \in DOMAIN store.free : store.free[i] \in DOMAIN store.at

\* Each resident id is at its slot, each other slot is vacant and waits in the
\* free list exactly once.
Agree(store) ==
  /\ \A id \in Ids(store) : VisualOf(store, id).id = id
  /\ \A slot \in DOMAIN store.at :
       IF slot \in ToSet(store.free) THEN store.at[slot] = Vacant
       ELSE /\ store.at[slot] # Vacant
            /\ SlotOf(store, store.at[slot].id) = slot
  /\ IsInjective(store.free)

-----------------------------------------------------------------------------
(***************************************************************************)
(* Changes to a store                                                      *)
(***************************************************************************)

\* set_snapshot and set_archive_pages: slots in the order of the visuals
Pack(visuals) ==
  [at |-> visuals,
   of |-> [id \in ToSet(IdsOf(visuals)) |-> CHOOSE i \in DOMAIN visuals : visuals[i].id = id],
   free |-> <<>>]

\* Changed for the check of SlotsAgree: the slot is not given back.
VacateForGood(store, id) ==
  [store EXCEPT !.at[store.of[id]] = Vacant, !.of = Restrict(@, Ids(store) \ {id})]

Vacate(store, id) ==
  [at |-> [store.at EXCEPT ![store.of[id]] = Vacant],
   of |-> Restrict(store.of, Ids(store) \ {id}),
   free |-> Append(store.free, store.of[id])]

\* Changed for the check of TypeOK: a new slot leaves one out.
OccupyBeyond(store, visual) ==
  LET slot == Len(store.at) + 2
  IN  [store EXCEPT !.at = Append(@, visual),
                    !.of = [id \in Ids(store) \cup {visual.id} |->
                              IF id = visual.id THEN slot ELSE store.of[id]]]

\* allocate_node_slot, allocate_edge_slot and the assignments after them
Occupy(store, visual) ==
  LET reused == store.free # <<>>
      slot == IF reused THEN Last(store.free) ELSE Len(store.at) + 1
  IN  [at |-> IF reused THEN [store.at EXCEPT ![slot] = visual] ELSE Append(store.at, visual),
       of |-> [id \in Ids(store) \cup {visual.id} |->
                 IF id = visual.id THEN slot ELSE store.of[id]],
       free |-> IF reused THEN Front(store.free) ELSE <<>>]

Revise(store, visual) == [store EXCEPT !.at[store.of[visual.id]] = visual]

\* apply_diff on one of the stores: removals, then additions, then updates.
VacateAll(store, removed) == FoldLeft(Vacate, store, removed)
OccupyAll(store, added) == FoldLeft(Occupy, store, added)
ReviseAll(store, updated) == FoldLeft(Revise, store, updated)
Changed(store, lanes) ==
  ReviseAll(OccupyAll(VacateAll(store, lanes.removed), lanes.added), lanes.updated)

\* dirty_node_slots, dirty_edge_slots
DirtySlots(store, lanes) ==
  {store.of[id] : id \in ToSet(lanes.removed)} \cup
  {Changed(store, lanes).of[id] : id \in ToSet(IdsOf(lanes.added \o lanes.updated))}

-----------------------------------------------------------------------------
(***************************************************************************)
(* What may be installed (validate_diff, GraphInventory)                   *)
(***************************************************************************)

Distinct(visuals) == IsInjective(IdsOf(visuals))
EndsIn(edgeVisuals, ids) ==
  \A i \in DOMAIN edgeVisuals : {edgeVisuals[i].source, edgeVisuals[i].target} \subseteq ids

\* insert_node_lane, insert_edge_lane and the checks for presence
ValidLanes(store, lanes) ==
  /\ IsInjective(IdsOf(lanes.added \o lanes.updated) \o lanes.removed)
  /\ ToSet(IdsOf(lanes.added)) \cap Ids(store) = {}
  /\ ToSet(IdsOf(lanes.updated)) \cup ToSet(lanes.removed) \subseteq Ids(store)

\* Every edge that stays or comes has both ends among the nodes that stay or
\* come: validate_predicted_endpoints, and IncidentEdgeNotRemoved for the
\* resident edges that the diff does not name.
ValidEnds(nodeStore, nodeLanes, edgeStore, edgeLanes) ==
  LET removed == ToSet(nodeLanes.removed)
      named == ToSet(edgeLanes.removed) \cup ToSet(IdsOf(edgeLanes.updated))
  IN  /\ EndsIn(edgeLanes.added \o edgeLanes.updated,
                (Ids(nodeStore) \ removed) \cup ToSet(IdsOf(nodeLanes.added)))
      /\ \A id \in Ids(edgeStore) \ named :
           LET edge == VisualOf(edgeStore, id)
           IN  removed \cap {edge.source, edge.target} = {}
=============================================================================
