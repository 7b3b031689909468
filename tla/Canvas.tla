------------------------------- MODULE Canvas -------------------------------
(***************************************************************************)
(* Editing a graph: the canvas half of store.ts, its history (history.ts), *)
(* and the two modes in which the keyboard makes and holds connections     *)
(* (Canvas.tsx, connect-mode.ts, edge-focus.ts).                           *)
(*                                                                         *)
(* Every operation of the store is one action. React Flow, which draws the *)
(* canvas, calls the store back with changes of its own: frames of a drag, *)
(* its end, and what its Delete key removes. A step has one input and one  *)
(* output; which components' ends fit is a constant. A step's identifier   *)
(* is its component with a number, and one more number for every time it   *)
(* was copied. Which steps are selected is written on the steps            *)
(* themselves, and so it is in every snapshot. A save takes the graph      *)
(* along and is answered later; what a disk and a question do to a         *)
(* project, and two saves at once, are in Document.                        *)
(***************************************************************************)
EXTENDS Naturals, Sequences, FiniteSets

CONSTANTS
  Component, \* the components steps are made of
  Fits,      \* the pairs of components of which the first may feed the second
  Place,     \* where a step can be
  Config,    \* what can be configured
  Default,   \* the configuration a step starts with
  None,      \* no step, no save
  Limit,     \* history.ts LIMIT
  MaxNodes,  \* bound: steps on the canvas
  MaxAdds,   \* bound: steps placed in one session
  MaxCopies, \* bound: times a step is a copy of a copy
  MaxEdits   \* bound: changes made and saves asked for

ASSUME CanvasAssumption ==
  /\ Fits \subseteq Component \X Component
  /\ Place # {}
  /\ Default \in Config
  /\ Limit \in Nat \ {0}
  /\ {MaxNodes, MaxAdds, MaxCopies, MaxEdits} \subseteq Nat

VARIABLES
  nodes,       \* the steps, in the order they were placed
  edges,       \* the connections
  selected,    \* the identifiers of the selected steps
  nextId,      \* makeId's counter, which starts again with the program
  history,     \* the snapshots to go back and forward to
  clipboard,   \* what was copied last
  dirty,       \* whether the project reads as unsaved
  dragging,    \* the step under the pointer, or None
  connecting,  \* the connection the keyboard is making, or None
  focusedEdge, \* the connection the keyboard holds, or None

  saved,       \* the graph in the project file
  saving,      \* the graph that a save on its way has taken along, or None
  base,        \* history: the graph last saved, or put on the canvas by replacing it
  overtaken,   \* history: whether the canvas was changed or replaced while a save was
               \* on its way, and not found as it was saved since
  shown,       \* history: what has been on this project's canvas
  missed,      \* history: ends the keyboard connected when they were gone
  opened,      \* history: whether a saved project has been opened in this session
  mixed,       \* history: whether a step was placed in this session after that
  edits        \* history: the changes made and the saves asked for so far

documentVars == <<nodes, edges, selected>>
modeVars     == <<dragging, connecting, focusedEdge>>
fileVars     == <<saved, saving, base, opened>>
vars == <<documentVars, modeVars, fileVars, nextId, history, clipboard, dirty, shown,
          overtaken, missed, mixed, edits>>

canvas == [nodes |-> nodes, edges |-> edges, selected |-> selected]

Id   == [of : Component, n : Seq(Nat)]
Node == [id : Id, config : Config, disabled : BOOLEAN, at : Place]
Edge == [source : Id, target : Id]
Snapshot == [nodes : Seq(Node), edges : SUBSET Edge, selected : SUBSET Id]
Clip     == [nodes : Seq(Node), edges : SUBSET Edge]
Graph    == [nodes : SUBSET Node, edges : SUBSET Edge]

TypeOK ==
  /\ canvas \in Snapshot
  /\ nextId \in Nat
  /\ history \in [past : Seq(Snapshot), future : Seq(Snapshot)]
  /\ Len(history.past) + Len(history.future) <= Limit
  /\ clipboard \in Clip
  /\ {dirty, overtaken, opened, mixed} \subseteq BOOLEAN
  /\ dragging \in Id \cup {None}
  /\ {connecting, focusedEdge} \subseteq Edge \cup {None}
  /\ {saved, base} \subseteq Graph /\ saving \in Graph \cup {None}
  /\ shown \subseteq Clip
  /\ missed \subseteq Id
  /\ edits \in 0 .. MaxEdits

Ids(ns) == {ns[i].id : i \in DOMAIN ns}

\* onSelectionChange: the step the inspector shows is the first selected one.
First(ns, sel) ==
  LET chosen == {i \in DOMAIN ns : ns[i].id \in sel}
  IN  IF chosen = {} THEN None ELSE ns[CHOOSE i \in chosen : \A j \in chosen : i <= j].id
selectedNodeId == First(nodes, selected)

\* toGraph: an object by identifier, so that of two steps with one the later is kept.
toGraph(ns, es) ==
  [nodes |-> {ns[i] : i \in {i \in DOMAIN ns : \A j \in DOMAIN ns : j > i => ns[j].id # ns[i].id}},
   edges |-> es]

----------------------------------------------------------------------------
(***************************************************************************)
(* history.ts.                                                             *)
(***************************************************************************)
emptyHistory == [past |-> <<>>, future |-> <<>>]
Latest(s) == IF Len(s) > Limit THEN SubSeq(s, Len(s) - Limit + 1, Len(s)) ELSE s

recordKeepingRedo(h, snapshot) == \* mutant: what was undone can still be redone
  [past |-> Latest(Append(h.past, snapshot)), future |-> h.future]
record(h, snapshot) ==
  [past |-> Latest(Append(h.past, snapshot)), future |-> <<>>]

undo(h, current) ==
  [past   |-> SubSeq(h.past, 1, Len(h.past) - 1),
   future |-> SubSeq(<<current>> \o h.future, 1, IF Len(h.future) < Limit THEN Len(h.future) + 1
                                                                          ELSE Limit)]
redo(h, current) ==
  [past   |-> Latest(Append(h.past, current)),
   future |-> Tail(h.future)]

\* The steps with these identifiers, in the order they had.
Kept(ns, ids) ==
  LET kept[i \in 0 .. Len(ns)] ==
        IF i = 0 THEN <<>>
        ELSE IF ns[i].id \in ids THEN Append(kept[i - 1], ns[i]) ELSE kept[i - 1]
  IN  kept[Len(ns)]

cut(ns, es, sel) ==
  [nodes |-> Kept(ns, sel),
   edges |-> {e \in es : e.source \in sel /\ e.target \in sel}]

\* The first name for a copy that nothing has, and what every step is renamed to.
Copy(id, k) == [id EXCEPT !.n = Append(@, k)]
Fresh(id, taken) ==
  Copy(id, CHOOSE k \in 1 .. Cardinality(taken) + 1 :
             /\ Copy(id, k) \notin taken
             /\ \A j \in 1 .. k - 1 : Copy(id, j) \in taken)
RenamingBlindly(ns, existing) == [id \in Ids(ns) |-> Copy(id, 1)] \* mutant: takes the first name
Renamed(id, old) ==
  LET new == Fresh(id, old.taken)
  IN  [taken |-> old.taken \cup {new, id},
       to    |-> [x \in DOMAIN old.to \cup {id} |-> IF x = id THEN new ELSE old.to[x]]]
Renaming(ns, existing) ==
  LET step[i \in 0 .. Len(ns)] ==
        IF i = 0 THEN [taken |-> existing, to |-> <<>>] ELSE Renamed(ns[i].id, step[i - 1])
  IN  step[Len(ns)].to

paste(clip, existing) ==
  LET to  == Renaming(clip.nodes, existing)
      end(id) == IF id \in DOMAIN to THEN to[id] ELSE id
  IN  [nodes |-> [i \in DOMAIN clip.nodes |-> [clip.nodes[i] EXCEPT !.id = to[@]]],
       edges |-> {[source |-> end(e.source), target |-> end(e.target)] : e \in clip.edges}]

----------------------------------------------------------------------------
(***************************************************************************)
(* What every change has in common.                                        *)
(***************************************************************************)
Empty == [nodes |-> <<>>, edges |-> {}]
Blank == toGraph(<<>>, {})

\* Both modes end when another step is shown in the inspector than before.
Modes(c, f) ==
  LET same == First(nodes', selected') = selectedNodeId
  IN  /\ connecting'  = IF same THEN c ELSE None
      /\ focusedEdge' = IF same THEN f ELSE None

Show(ns, es, sel) ==
  /\ nodes' = ns /\ edges' = es /\ selected' = sel
  /\ shown' = shown \cup {[nodes |-> ns, edges |-> es]}
  /\ overtaken' = (overtaken \/ saving # None)

Recorded   == history' = record(history, canvas)
Unrecorded == UNCHANGED history

Change(ns, es, sel) ==
  /\ edits < MaxEdits /\ edits' = edits + 1
  /\ Show(ns, es, sel)
  /\ dirty' = TRUE
  /\ UNCHANGED <<clipboard, fileVars>>

Settle == Modes(connecting, focusedEdge) /\ UNCHANGED <<dragging, missed>>

\* A step as it is placed.
Step(c, k, p) ==
  [id |-> [of |-> c, n |-> <<k>>], config |-> Default, disabled |-> FALSE, at |-> p]

Init ==
  /\ nodes = <<>> /\ edges = {} /\ selected = {}
  /\ nextId = 1
  /\ history = emptyHistory
  /\ clipboard = Empty
  /\ dirty = FALSE
  /\ dragging = None /\ connecting = None /\ focusedEdge = None
  /\ \/ saved = Blank
     \/ \E s, t \in Component : \* a project of an earlier session
          /\ <<s, t>> \in Fits
          /\ saved = LET p == CHOOSE p \in Place : TRUE
                     IN  toGraph(<<Step(s, 1, p), Step(t, 2, p)>>,
                                 {[source |-> Step(s, 1, p).id, target |-> Step(t, 2, p).id]})
  /\ saving = None /\ base = Blank /\ overtaken = FALSE
  /\ shown = {Empty} /\ missed = {}
  /\ opened = FALSE /\ mixed = FALSE /\ edits = 0

----------------------------------------------------------------------------
(***************************************************************************)
(* Steps.                                                                  *)
(***************************************************************************)
addNode(c, p) ==
  /\ Len(nodes) < MaxNodes /\ nextId <= MaxAdds
  /\ nextId' = nextId + 1 /\ mixed' = opened
  /\ Change(Append(nodes, Step(c, nextId, p)), edges, {Step(c, nextId, p).id})
  /\ Recorded /\ Settle

\* A click, an arrow key, Escape, selectAll.
Select == \E sel \in {{id} : id \in Ids(nodes)} \cup {{}, Ids(nodes)} :
  /\ selected' = sel /\ UNCHANGED <<nodes, edges>>
  /\ Modes(connecting, focusedEdge)
  /\ UNCHANGED <<dragging, fileVars, nextId, history, clipboard, dirty, shown,
                 overtaken, missed, mixed, edits>>

With(id, change(_)) == [i \in DOMAIN nodes |-> IF nodes[i].id \in id THEN change(nodes[i])
                                                                     ELSE nodes[i]]

setConfig(id, value) ==
  /\ Change(With({id}, LAMBDA n : [n EXCEPT !.config = value]), edges, selected)
  /\ Unrecorded /\ Settle /\ UNCHANGED <<nextId, mixed>>

toggleDisabled(id) ==
  /\ Change(With({id}, LAMBDA n : [n EXCEPT !.disabled = ~@]), edges, selected)
  /\ Unrecorded /\ Settle /\ UNCHANGED <<nextId, mixed>>

\* Off for all of them, unless all of them are off.
toggleDisabledMany(chosen) ==
  LET off == \E i \in DOMAIN nodes : nodes[i].id \in chosen /\ ~nodes[i].disabled
  IN  /\ chosen \cap Ids(nodes) # {}
      /\ Change(With(chosen, LAMBDA n : [n EXCEPT !.disabled = off]), edges, selected)
      /\ Unrecorded /\ Settle /\ UNCHANGED <<nextId, mixed>>

\* deleteSelected, deleteStep, deleteSteps: the connections go with the step.
Without(gone) == Kept(nodes, Ids(nodes) \ gone)
ApartLoosely(gone) == {e \in edges : e.source \notin gone} \* mutant: keeps what leads to it
Apart(gone) == {e \in edges : e.source \notin gone /\ e.target \notin gone}
deleteSteps(gone) ==
  /\ gone \cap Ids(nodes) # {}
  /\ Change(Without(gone), Apart(gone), selected \ gone)
  /\ Recorded /\ Settle /\ UNCHANGED <<nextId, mixed>>

----------------------------------------------------------------------------
(***************************************************************************)
(* What React Flow reports.                                                *)
(***************************************************************************)
\* A frame of a drag: onNodesChange with a position and dragging true.
DragFrame == \E id \in Ids(nodes), p \in Place :
  /\ dragging \in {None, id}
  /\ dragging' = id
  /\ Change(With({id}, LAMBDA n : [n EXCEPT !.at = p]), edges, selected)
  /\ Unrecorded /\ Modes(connecting, focusedEdge)
  /\ UNCHANGED <<nextId, mixed, missed>>

\* The pointer is let go: recorded now, with the steps where they are by now.
DragEnd ==
  /\ dragging # None
  /\ dragging' = None
  /\ Change(nodes, edges, selected)
  /\ Recorded /\ Modes(connecting, focusedEdge)
  /\ UNCHANGED <<nextId, mixed, missed>>

\* Its Delete key removes connections first, then steps, each in a call of its own.
onEdgesRemovedUnsaved(gone) == \* mutant: the removal does not count as an edit
  /\ edits < MaxEdits /\ edits' = edits + 1
  /\ Show(nodes, edges \ gone, selected)
  /\ UNCHANGED <<dirty, clipboard, fileVars>>
  /\ Unrecorded /\ Settle /\ UNCHANGED <<nextId, mixed>>
onEdgesRemoved(gone) ==
  /\ Change(nodes, edges \ gone, selected)
  /\ Unrecorded /\ Settle /\ UNCHANGED <<nextId, mixed>>

onNodesRemoved(gone) ==
  /\ gone # {} /\ Apart(gone) = edges
  /\ Change(Without(gone), edges, selected \ gone)
  /\ Recorded /\ Settle /\ UNCHANGED <<nextId, mixed>>

----------------------------------------------------------------------------
(***************************************************************************)
(* Connections.                                                            *)
(***************************************************************************)
\* isConnectionLegal: never to itself, and only between ends that are there and fit.
Legal(s, t) == s # t /\ {s, t} \subseteq Ids(nodes) /\ <<s.of, t.of>> \in Fits

\* connect: one connection to an input, and the new one replaces what was there.
JoinedBeside(s, t) == edges \cup {[source |-> s, target |-> t]} \* mutant: adds
Joined(s, t) == {e \in edges : e.target # t} \cup {[source |-> s, target |-> t]}
connect(s, t) == Change(nodes, Joined(s, t), selected) /\ Recorded /\ UNCHANGED <<nextId, mixed>>

\* A wire is dropped where it may go.
DropWire == \E s, t \in Ids(nodes) : Legal(s, t) /\ connect(s, t) /\ Settle

deleteConnection(e) ==
  /\ e \in edges
  /\ Change(nodes, edges \ {e}, selected)
  /\ Recorded /\ Settle /\ UNCHANGED <<nextId, mixed>>

\* candidateTargets. Which of them comes first is the walk's business.
Targets(s) == {t \in Ids(nodes) : Legal(s, t)}

KeysOnly(c, f) ==
  /\ connecting' = c /\ focusedEdge' = f
  /\ UNCHANGED <<documentVars, dragging, fileVars, nextId, history, clipboard, dirty, shown,
                 overtaken, missed, mixed, edits>>

beginConnect == \E t \in Targets(selectedNodeId) :
  /\ connecting = None
  /\ selectedNodeId # None
  /\ KeysOnly([source |-> selectedNodeId, target |-> t], None)

moveTarget ==
  /\ connecting # None
  /\ \E t \in Targets(connecting.source) : KeysOnly([connecting EXCEPT !.target = t], focusedEdge)

\* Whatever was offered last, without asking again whether it may be.
finishConnect ==
  /\ connecting # None
  /\ connect(connecting.source, connecting.target)
  /\ Modes(None, focusedEdge)
  /\ missed' = missed \cup ({connecting.source, connecting.target} \ Ids(nodes))
  /\ UNCHANGED dragging

cancelConnect == connecting # None /\ KeysOnly(None, focusedEdge)

\* E on a step, and again to go on; Escape or an arrow lets go.
moveFocusedEdge == \E e \in edges :
  /\ connecting = None
  /\ selectedNodeId \in {e.source, e.target}
  /\ KeysOnly(None, e)
dropFocusedEdge == focusedEdge # None /\ connecting = None /\ KeysOnly(None, None)

deleteFocusedEdge ==
  /\ focusedEdge # None /\ connecting = None
  /\ IF focusedEdge \in edges
     THEN /\ Change(nodes, edges \ {focusedEdge}, selected)
          /\ Recorded /\ Modes(connecting, None)
          /\ UNCHANGED <<nextId, mixed, dragging, missed>>
     ELSE KeysOnly(None, None)

----------------------------------------------------------------------------
(***************************************************************************)
(* Going back, copying, and other projects.                                *)
(***************************************************************************)
Revisit(h, s) ==
  /\ history' = h
  /\ dirty' = TRUE
  /\ Show(s.nodes, s.edges, s.selected)
  /\ Settle
  /\ UNCHANGED <<fileVars, nextId, mixed, clipboard, edits>>

Undo == /\ history.past # <<>>
        /\ Revisit(undo(history, canvas), history.past[Len(history.past)])
Redo == /\ history.future # <<>>
        /\ Revisit(redo(history, canvas), Head(history.future))

copySelection ==
  /\ selected # {}
  /\ clipboard' = cut(nodes, edges, selected)
  /\ UNCHANGED <<documentVars, modeVars, fileVars, nextId, history, dirty, shown, overtaken,
                 missed, mixed, edits>>

\* duplicateSelection pastes what is selected in the same step.
pasteClipboard(clip) ==
  LET pasted == paste(clip, Ids(nodes))
  IN  /\ clip.nodes # <<>>
      /\ Len(nodes) + Len(clip.nodes) <= MaxNodes
      /\ \A i \in DOMAIN clip.nodes : Len(clip.nodes[i].id.n) <= MaxCopies
      /\ edits < MaxEdits /\ edits' = edits + 1
      /\ Show(nodes \o pasted.nodes, edges \cup pasted.edges, Ids(pasted.nodes))
      /\ dirty' = TRUE
      /\ Recorded /\ Settle
      /\ UNCHANGED <<fileVars, nextId, mixed>>
Paste == pasteClipboard(clipboard) /\ UNCHANGED clipboard
duplicateSelection ==
  LET clip == cut(nodes, edges, selected)
  IN  selected # {} /\ pasteClipboard(clip) /\ clipboard' = clip

\* saveProject takes the graph along, and is answered some time later or fails: the
\* answer clears dirty, whatever has become of the canvas meanwhile.
SaveProject ==
  /\ edits < MaxEdits /\ edits' = edits + 1
  /\ saving = None /\ saving' = toGraph(nodes, edges)
  /\ UNCHANGED <<documentVars, modeVars, saved, base, opened, nextId, history, clipboard, dirty,
                 shown, overtaken, missed, mixed>>

SaveAnswered ==
  /\ saving # None /\ saving' = None
  /\ saved' = saving /\ base' = saving /\ dirty' = FALSE
  /\ overtaken' = (overtaken /\ toGraph(nodes, edges) # saving)
  /\ UNCHANGED <<documentVars, modeVars, opened, nextId, history, clipboard, shown, missed,
                 mixed, edits>>

SaveFailed ==
  /\ saving # None /\ saving' = None
  /\ UNCHANGED <<documentVars, modeVars, saved, base, opened, nextId, history, clipboard, dirty,
                 shown, overtaken, missed, mixed, edits>>

ReplaceOnly(ns, es) == \* mutant: keeps the history of the project before
  /\ nodes' = ns /\ edges' = es /\ selected' = {}
  /\ shown' = {[nodes |-> ns, edges |-> es]}
  /\ UNCHANGED history
  /\ dirty' = FALSE
  /\ base' = toGraph(ns, es)
Replace(ns, es) ==
  /\ nodes' = ns /\ edges' = es /\ selected' = {}
  /\ shown' = {[nodes |-> ns, edges |-> es]}
  /\ history' = emptyHistory
  /\ dirty' = FALSE
  /\ base' = toGraph(ns, es)

\* applyProject: the steps in the order of the file, which is any.
Ordered(S) == CHOOSE ns \in [1 .. Cardinality(S) -> S] : {ns[i] : i \in DOMAIN ns} = S
applyProject ==
  /\ Replace(Ordered(saved.nodes), saved.edges)
  /\ opened' = TRUE /\ overtaken' = (saving # None)
  /\ Settle
  /\ UNCHANGED <<saved, saving, mixed, nextId, clipboard, edits>>

NewProject ==
  /\ Replace(<<>>, {})
  /\ overtaken' = (saving # None)
  /\ Settle
  /\ UNCHANGED <<saved, saving, opened, mixed, nextId, clipboard, edits>>

\* The program is closed and started again: only the file is left.
Restart ==
  /\ saving' = None /\ overtaken' = FALSE
  /\ Replace(<<>>, {})
  /\ nextId' = 1 /\ clipboard' = Empty
  /\ dragging' = None /\ connecting' = None /\ focusedEdge' = None
  /\ opened' = FALSE /\ mixed' = FALSE
  /\ UNCHANGED <<saved, missed, edits>>

Steps ==
  \/ \E c \in Component, p \in Place : addNode(c, p)
  \/ \E id \in {selectedNodeId} \ {None} : \* a menu selects the step it opens on
       \/ \E value \in Config : setConfig(id, value)
       \/ toggleDisabled(id)
       \/ deleteSteps({id})
  \/ toggleDisabledMany(selected) \/ deleteSteps(selected)
  \/ Select

Reports ==
  \/ DragFrame \/ DragEnd
  \/ \E e \in edges : onEdgesRemoved({e})
  \/ onNodesRemoved(selected)

Connections ==
  \/ DropWire
  \/ \E e \in edges : deleteConnection(e)
  \/ beginConnect \/ moveTarget \/ finishConnect \/ cancelConnect
  \/ moveFocusedEdge \/ dropFocusedEdge \/ deleteFocusedEdge

Projects ==
  \/ Undo \/ Redo
  \/ copySelection \/ Paste \/ duplicateSelection
  \/ SaveProject \/ SaveAnswered \/ SaveFailed
  \/ applyProject \/ NewProject \/ Restart

Next == Steps \/ Reports \/ Connections \/ Projects
Spec == Init /\ [][Next]_vars
----------------------------------------------------------------------------
(***************************************************************************)
(* Properties.                                                             *)
(***************************************************************************)
\* store.ts, connect: "One value per input", however the connections came about, as
\* long as the keyboard has connected nothing that was gone. A connection to a step
\* that was gone waits for the next copy that takes its name, and feeds it too.
OneFeedUnlessMissed ==
  missed = {} => \A e, f \in edges : e.target = f.target => e = f

\* A connection whose end is not on the canvas was made from the keyboard to a step
\* that had gone: nothing else leaves a connection dangling, in any order.
LooseOnlyByConnectMode ==
  \A e \in edges : {e.source, e.target} \subseteq Ids(nodes) \cup missed

\* No two steps have one identifier, though steps are copied, deleted and brought back
\* in any order, unless the session placed one after it had opened a file.
UniqueUnlessMixed ==
  ~mixed => \A i, j \in DOMAIN nodes : nodes[i].id = nodes[j].id => i = j

\* A project that reads as saved is what was saved or opened, whichever operation
\* changed it, unless it was changed or replaced while a save was on its way.
CleanMeansSaved == ~dirty => toGraph(nodes, edges) = base \/ overtaken

\* Undo and redo lead to what this project has looked like, and to no other project.
UndoOnlyRevisits ==
  \A s \in {history.past[i] : i \in DOMAIN history.past}
             \cup {history.future[i] : i \in DOMAIN history.future} :
    [nodes |-> s.nodes, edges |-> s.edges] \in shown

\* Undo and redo move along one line of documents.
Line == INSTANCE Timeline WITH
  line <- history.past \o <<canvas>> \o history.future,
  at   <- Len(history.past) + 1
KeepsOneLine == Line!Spec

\* docs/PRODUCT-ROADMAP.md:94: "a graph survives save -> close -> open".
SavingKeepsSteps == Cardinality(toGraph(nodes, edges).nodes) = Len(nodes)
=============================================================================
