--------------------------- MODULE GraphRenderer ---------------------------
(***************************************************************************)
(* The renderer of one graph window: its scene, what the GPU draws of it,  *)
(* hover and selection, and picking, where the GPU answers with a slot     *)
(* some time after it was asked and the scene may have changed since.      *)
(*                                                                         *)
(* All calls come from the window's thread; only the GPU runs on its own.  *)
(* A step is one call of the renderer by its host.                         *)
(* Camera, lens, product index, event queue and buffer sizes are left out. *)
(* The packed records on the CPU and the buffers hold the same, since each *)
(* write of the former is followed by one of the same slots to the latter. *)
(***************************************************************************)
EXTENDS SceneState

CONSTANTS
  NoNode,
  MaxRevision  \* bound: revisions of the scene

ASSUME RendererAssumption ==
  /\ NoNode \notin NodeIds
  /\ MaxRevision \in Nat

VARIABLES
  revision,   \* SceneState::revision, 0 before the first scene
  nodes,      \* node_slots, nodes, free_node_slots
  edges,      \* edge_slots, edges, free_edge_slots
  gpuNodes,   \* node_gpu_data and the part of node_buffer that is drawn
  gpuEdges,   \* edge_gpu_data and the part of edge_buffer that is drawn
  hover,      \* hover_node
  selected,   \* selected_node
  pending,    \* the intent of PickingPass::pending
  readback,   \* inflight_intent and the slot that is copied for it, or Idle
  \* History:
  sent,       \* the graph that the accepted snapshots and diffs describe
  picked      \* node and revision that the readback under way is about

vars == <<revision, nodes, edges, gpuNodes, gpuEdges, hover, selected, pending, readback,
          sent, picked>>
sceneVars == <<revision, nodes, edges, gpuEdges, sent>>
pickVars == <<pending, readback, picked>>

Intents == {"hover", "select"}
NodeOrNone == NodeIds \cup {NoNode}
Slots == 0..Cardinality(NodeIds)

NodeGpu == [id: NodeIds, place: Places, hovered: BOOLEAN, selected: BOOLEAN]
EdgeGpu == [id: EdgeIds, source: Slots, target: Slots]
Graph == [places: UNION {[S -> Places] : S \in SUBSET NodeIds},
          ends: UNION {[S -> NodeIds \X NodeIds] : S \in SUBSET EdgeIds}]

\* map_state: the renderer asks only whether it is MAP_IDLE, except in poll, which
\* lets the callback of map_async run first.  So MAP_PENDING, MAP_READY and
\* MAP_FAILED are one state, and how the readback ended is chosen in update.
Idle == [intent |-> "none", slot |-> 0]
NotPicked == [node |-> NoNode, revision |-> 0]

Init ==
  /\ revision = 0
  /\ nodes = Empty /\ edges = Empty
  /\ gpuNodes = <<>> /\ gpuEdges = <<>>
  /\ hover = NoNode /\ selected = NoNode
  /\ pending = "none" /\ readback = Idle
  /\ sent = [places |-> <<>>, ends |-> <<>>]
  /\ picked = NotPicked

-----------------------------------------------------------------------------
(***************************************************************************)
(* The projection of the scene for the GPU                                 *)
(***************************************************************************)

\* NodeGpu::from_visual, or NodeGpu::TOMBSTONE, which draws nothing
NodeRecord(visual, hovered, chosen) ==
  IF visual = Vacant THEN Vacant
  ELSE [id |-> visual.id, place |-> visual.place,
        hovered |-> visual.id = hovered, selected |-> visual.id = chosen]

\* EdgeGpu::from_visual, with the slots of its ends
EdgeRecord(visual, nodeStore) ==
  IF visual = Vacant THEN Vacant
  ELSE [id |-> visual.id, source |-> SlotOf(nodeStore, visual.source),
        target |-> SlotOf(nodeStore, visual.target)]

\* The records of a whole scene.
NodeRecords(nodeStore, hovered, chosen) ==
  [slot \in DOMAIN nodeStore.at |-> NodeRecord(nodeStore.at[slot], hovered, chosen)]
EdgeRecords(edgeStore, nodeStore) ==
  [slot \in DOMAIN edgeStore.at |-> EdgeRecord(edgeStore.at[slot], nodeStore)]

\* rebuild_dirty_cpu_ranges and write_dirty_ranges: the records at the dirty
\* slots are made anew, the others stay.
Refreshed(records, dirty, shown) ==
  [slot \in DOMAIN shown |->
     IF slot \in dirty THEN shown[slot]
     ELSE IF slot \in DOMAIN records THEN records[slot] ELSE Vacant]

Kept(id, store) == IF id \in Ids(store) THEN id ELSE NoNode

-----------------------------------------------------------------------------
(***************************************************************************)
(* Scenes from the host                                                    *)
(***************************************************************************)

\* For the history: the places and the ends that visuals describe.
PlacesIn(visuals) ==
  [id \in ToSet(IdsOf(visuals)) |->
     (CHOOSE visual \in ToSet(visuals) : visual.id = id).place]
EndsOf(visuals) ==
  [id \in ToSet(IdsOf(visuals)) |->
     LET edge == CHOOSE visual \in ToSet(visuals) : visual.id = id
     IN  <<edge.source, edge.target>>]

\* For the history: what is left after the removals, with what is given.
Amended(function, removed, given) ==
  [id \in (DOMAIN function \ ToSet(removed)) \cup DOMAIN given |->
     IF id \in DOMAIN given THEN given[id] ELSE function[id]]

\* set_snapshot, set_archive_scene and, in both, rebuild_projection
SetScene(r, nodeVisuals, edgeVisuals) ==
  /\ r > revision
  /\ Distinct(nodeVisuals) /\ Distinct(edgeVisuals)
  /\ EndsIn(edgeVisuals, ToSet(IdsOf(nodeVisuals)))
  /\ revision' = r
  /\ nodes' = Pack(nodeVisuals)
  /\ edges' = Pack(edgeVisuals)
  /\ hover' = Kept(hover, nodes') /\ selected' = Kept(selected, nodes')
  /\ gpuNodes' = NodeRecords(nodes', hover', selected')
  /\ gpuEdges' = EdgeRecords(edges', nodes')
  /\ sent' = [places |-> PlacesIn(nodeVisuals), ends |-> EndsOf(edgeVisuals)]
  /\ UNCHANGED pickVars

ApplyDiff(r, nodeLanes, edgeLanes) ==
  /\ revision # 0
  /\ r > revision
  /\ ValidLanes(nodes, nodeLanes)
  /\ ValidLanes(edges, edgeLanes)
  /\ ValidEnds(nodes, nodeLanes, edges, edgeLanes)
  /\ revision' = r
  /\ nodes' = Changed(nodes, nodeLanes)
  /\ edges' = Changed(edges, edgeLanes)
  /\ gpuNodes' = Refreshed(gpuNodes, DirtySlots(nodes, nodeLanes),
                           NodeRecords(nodes', hover, selected))
  /\ gpuEdges' = Refreshed(gpuEdges, DirtySlots(edges, edgeLanes),
                           EdgeRecords(edges', nodes'))
  /\ sent' = [places |-> Amended(sent.places, nodeLanes.removed,
                                 PlacesIn(nodeLanes.added \o nodeLanes.updated)),
              ends |-> Amended(sent.ends, edgeLanes.removed,
                               EndsOf(edgeLanes.added \o edgeLanes.updated))]
  /\ UNCHANGED <<hover, selected, pickVars>>

\* Changed for the check of SceneIsWhatWasSent: only the packed records move.
SwitchPositionsOnGpu(places) ==
  /\ Cardinality(Ids(nodes)) = Len(nodes.at)
  /\ gpuNodes' = [slot \in DOMAIN gpuNodes |-> [gpuNodes[slot] EXCEPT !.place = places[slot]]]
  /\ sent' = [sent EXCEPT !.places = [id \in DOMAIN @ |-> places[nodes.of[id]]]]
  /\ UNCHANGED <<revision, nodes, edges, gpuEdges, hover, selected, pickVars>>

\* switch_archive_positions: refused when a slot is vacant.  A position that is not
\* finite stops the switch midway; the only host that switches, sync_resident_scene,
\* then ends with its renderer.
SwitchPositions(places) ==
  /\ Cardinality(Ids(nodes)) = Len(nodes.at)
  /\ nodes' = [nodes EXCEPT !.at =
                 [slot \in DOMAIN nodes.at |-> [nodes.at[slot] EXCEPT !.place = places[slot]]]]
  /\ gpuNodes' = [slot \in DOMAIN gpuNodes |-> [gpuNodes[slot] EXCEPT !.place = places[slot]]]
  /\ sent' = [sent EXCEPT !.places = [id \in DOMAIN @ |-> places[nodes.of[id]]]]
  /\ UNCHANGED <<revision, edges, gpuEdges, hover, selected, pickVars>>

-----------------------------------------------------------------------------
(***************************************************************************)
(* Highlights                                                              *)
(***************************************************************************)

\* Changed for the check of GpuShowsScene: what was highlighted before stays so.
HighlightMore(newHover, newSelected) ==
  LET touched == {nodes.of[id] : id \in {newHover, newSelected} \cap Ids(nodes)}
  IN  /\ hover' = Kept(newHover, nodes)
      /\ selected' = Kept(newSelected, nodes)
      /\ gpuNodes' = Refreshed(gpuNodes, touched, NodeRecords(nodes, hover', selected'))

\* update_highlights: only the nodes that were or become highlighted are
\* written again.
Highlight(newHover, newSelected) ==
  LET touched == {nodes.of[id] : id \in {hover, newHover, selected, newSelected} \cap Ids(nodes)}
  IN  /\ hover' = Kept(newHover, nodes)
      /\ selected' = Kept(newSelected, nodes)
      /\ gpuNodes' = Refreshed(gpuNodes, touched, NodeRecords(nodes, hover', selected'))

\* GraphInput::ClearSelection
ClearSelection ==
  /\ selected # NoNode
  /\ Highlight(hover, NoNode)
  /\ UNCHANGED <<sceneVars, nodes, pickVars>>

-----------------------------------------------------------------------------
(***************************************************************************)
(* Picking                                                                 *)
(***************************************************************************)

\* PickingPass::request: a hover does not displace a selection that waits.
RequestPick(intent) ==
  /\ ~(intent = "hover" /\ pending = "select")
  /\ pending' = intent
  /\ UNCHANGED <<sceneVars, nodes, gpuNodes, hover, selected, readback, picked>>

\* PickingPass::request for a hover outside of the viewport, and resize
DropRequest ==
  /\ pending' = "none"
  /\ UNCHANGED <<sceneVars, nodes, gpuNodes, hover, selected, readback, picked>>

\* render: encode_if_ready, the submit and begin_map_after_submit.  The pixel
\* shows nothing or a node that is drawn.  A hover may have to wait for its
\* interval, which is a step that does not happen.
Render(slot) ==
  /\ readback = Idle
  /\ pending # "none"
  /\ slot \in {0} \cup {drawn \in DOMAIN gpuNodes : gpuNodes[drawn] # Vacant}
  /\ pending' = "none"
  /\ readback' = [intent |-> pending, slot |-> slot]
  /\ picked' = [node |-> IF slot = 0 THEN NoNode ELSE gpuNodes[slot].id, revision |-> revision]
  /\ UNCHANGED <<sceneVars, nodes, gpuNodes, hover, selected>>

\* Changed for the check of PickIsRightWithinRevision: the 1 that the shader adds is
\* not taken off again.
NodeAtNextSlot(slot) ==
  IF slot + 1 \in DOMAIN nodes.at /\ nodes.at[slot + 1] # Vacant THEN nodes.at[slot + 1].id
  ELSE NoNode

\* node_id_by_slot of the slot that was read
NodeAtSlot(slot) ==
  IF slot \in DOMAIN nodes.at /\ nodes.at[slot] # Vacant THEN nodes.at[slot].id ELSE NoNode

\* update, with PickingPass::poll: the map succeeded
TakePick ==
  LET node == NodeAtSlot(readback.slot)
  IN  /\ readback # Idle
      /\ readback' = Idle /\ picked' = NotPicked
      /\ CASE readback.intent = "hover" /\ hover # node -> Highlight(node, selected)
           [] readback.intent = "select" /\ selected # node -> Highlight(hover, node)
           [] OTHER -> UNCHANGED <<gpuNodes, hover, selected>>
      /\ UNCHANGED <<sceneVars, nodes, pending>>

\* update, with PickingPass::poll: the map failed
DropPick ==
  /\ readback # Idle
  /\ readback' = Idle /\ picked' = NotPicked
  /\ UNCHANGED <<sceneVars, nodes, gpuNodes, hover, selected, pending>>

-----------------------------------------------------------------------------
(***************************************************************************)
(* The specification                                                       *)
(***************************************************************************)

\* Inputs.  A diff with an id twice is refused whatever the scene is, so only the
\* others are tried.  Revisions beyond the next one make no difference.
Revisions == {revision, revision + 1} \cap 1..MaxRevision
InjectiveSeqs(S) == {s \in SeqOf(S, Cardinality(S)) : IsInjective(s)}
VisualSeqs(visuals, n) == {s \in SeqOf(visuals, n) : Distinct(s)}
NodeSeqs == VisualSeqs(NodeVisual, Cardinality(NodeIds))
EdgeSeqs == VisualSeqs(EdgeVisual, Cardinality(EdgeIds))
DisjointLanes(visualSeqs, ids) ==
  {lanes \in [added: visualSeqs, updated: visualSeqs, removed: InjectiveSeqs(ids)] :
     IsInjective(IdsOf(lanes.added \o lanes.updated) \o lanes.removed)}
NodeLanes == DisjointLanes(NodeSeqs, NodeIds)
EdgeLanes == DisjointLanes(EdgeSeqs, EdgeIds)

HostSetsScene ==
  \E r \in Revisions, nodeVisuals \in SeqOf(NodeVisual, Cardinality(NodeIds)),
     edgeVisuals \in SeqOf(EdgeVisual, Cardinality(EdgeIds)) :
    SetScene(r, nodeVisuals, edgeVisuals)
HostChangesScene ==
  \E r \in Revisions, nodeLanes \in NodeLanes :
    /\ r > revision /\ ValidLanes(nodes, nodeLanes)
    /\ \E edgeLanes \in EdgeLanes : ApplyDiff(r, nodeLanes, edgeLanes)
HostSwitchesPositions == \E places \in [DOMAIN nodes.at -> Places] : SwitchPositions(places)
HostRenders == \E slot \in 0..Len(gpuNodes) : Render(slot)

Next ==
  \/ HostSetsScene
  \/ HostChangesScene
  \/ HostSwitchesPositions
  \/ \E intent \in Intents : RequestPick(intent)
  \/ DropRequest
  \/ ClearSelection
  \/ HostRenders
  \/ TakePick
  \/ DropPick

Spec == Init /\ [][Next]_vars

-----------------------------------------------------------------------------
(***************************************************************************)
(* Properties                                                              *)
(***************************************************************************)

\* The variables have their types: of stores, records, requests and readbacks.
TypeOK ==
  /\ revision \in 0..MaxRevision
  /\ StoreOK(nodes, NodeIds) /\ ToSet(nodes.at) \subseteq NodeVisual \cup {Vacant}
  /\ StoreOK(edges, EdgeIds) /\ ToSet(edges.at) \subseteq EdgeVisual \cup {Vacant}
  /\ ToSet(gpuNodes) \subseteq NodeGpu \cup {Vacant}
  /\ ToSet(gpuEdges) \subseteq EdgeGpu \cup {Vacant}
  /\ hover \in NodeOrNone /\ selected \in NodeOrNone
  /\ pending \in Intents \cup {"none"}
  /\ readback \in [intent: Intents \cup {"none"}, slot: Slots]
  /\ sent \in Graph
  /\ picked \in [node: NodeOrNone, revision: 0..MaxRevision]

\* scene_state.rs: the id map, the slots and the free list tell one story after
\* any sequence of scenes and diffs.
SlotsAgree == Agree(nodes) /\ Agree(edges)

\* set_snapshot, apply_diff, update_packed_positions: what is resident is the graph
\* that the accepted calls describe, whatever slots it went through.
SceneIsWhatWasSent ==
  /\ Ids(nodes) = DOMAIN sent.places
  /\ \A id \in Ids(nodes) : VisualOf(nodes, id).place = sent.places[id]
  /\ Ids(edges) = DOMAIN sent.ends
  /\ \A id \in Ids(edges) :
       <<VisualOf(edges, id).source, VisualOf(edges, id).target>> = sent.ends[id]

\* gpu_scene.rs: what the GPU draws is the scene with its highlights.  Each slot has
\* the record of its node, an edge has the slots where its ends are now, and a
\* vacant slot draws nothing, although only dirty slots are ever written.
GpuShowsScene ==
  /\ gpuNodes = NodeRecords(nodes, hover, selected)
  /\ gpuEdges = EdgeRecords(edges, nodes)
  /\ \A slot \in DOMAIN gpuEdges :
       gpuEdges[slot] # Vacant => 0 \notin {gpuEdges[slot].source, gpuEdges[slot].target}

\* picking.rs: as long as the scene's revision is the one that was drawn, the slot
\* that comes back stands for the node that was drawn there, whatever else happened
\* to highlights, positions and requests.
PickIsRightWithinRevision ==
  readback # Idle /\ picked.revision = revision
    => NodeAtSlot(readback.slot) = picked.node

\* README.md, contract 7: slots stay inside of the renderer, and what the host sees of
\* a pick is a stable id; the node it names is the node that was drawn there.
PickNamesPickedNode ==
  [][TakePick => {hover', selected'} \subseteq {hover, selected, picked.node, NoNode}]_vars
=============================================================================
