----------------------------- MODULE Document -----------------------------
(***************************************************************************)
(* The project on the canvas, the projects on disk, and the question in    *)
(* between.                                                                *)
(*                                                                         *)
(* The editor (store.ts, App.tsx, UnsavedChanges.tsx) holds one canvas. It *)
(* asks the runtime (src-tauri/src/lib.rs) to save, open and restore, and  *)
(* goes on working while the answer is on its way. The runtime answers     *)
(* each such command on a thread of its own: it reads the project file,    *)
(* adds to its history, and moves a new file into place. Whatever replaces *)
(* the canvas asks first when there is unsaved work in it.                 *)
(*                                                                         *)
(* A graph is a number: 0 is the empty canvas, every edit makes the next   *)
(* one. A project file is its history, a sequence of graphs; its graph is  *)
(* the last of them. The system's choosers are modal to the window, so a   *)
(* command that needs one is sent with the answer already in it.           *)
(***************************************************************************)
EXTENDS Naturals, Sequences, FiniteSets, SequencesExt

CONSTANTS
  Project,      \* where projects are on disk
  None,         \* no project, no command, no question
  MaxSnapshots, \* the most versions a file may declare and still be opened
  MaxEdits,     \* bound: edits made
  MaxCalls,     \* bound: commands in flight at once
  MaxSent       \* bound: commands sent

ASSUME DocumentAssumption ==
  /\ None \notin Project
  /\ MaxSnapshots \in Nat \ {0}
  /\ MaxEdits \in Nat
  /\ {MaxCalls, MaxSent} \subseteq Nat \ {0}

VARIABLES
  canvas,   \* nodes and edges
  path,     \* projectPath
  versions, \* the versions the inspector lists
  dirty,    \* the editor's answer to "is there unsaved work"
  busy,     \* the editor's busy
  question, \* pendingDiscard: the work that waits for an answer, or None
  calls,    \* the commands in flight, by slot

  disk,     \* the history in each project file; <<>> when there is no file
  reported, \* Runtime.dirty: the editor's dirty, some time later
  window,   \* "open", "closing" once the editor has asked for it, "gone"

  edits,    \* history: the edits made so far
  sent,     \* history: the commands sent so far
  kept,     \* history: graphs that have been in a project file
  agreed,   \* history: graphs a person said may go
  beside,   \* history: graphs made while a command was in flight, or closed on
            \* before the runtime had heard that they are unsaved
  lost      \* history: graphs that went neither saved nor asked about

onScreen    == <<canvas, path, versions, dirty>>
runtimeVars == <<disk, reported, window>>
vars == <<onScreen, busy, question, calls, runtimeVars, edits, sent, kept, agreed, beside, lost>>

Blank == 0
Demo  == MaxEdits + 1
Graph == 0 .. MaxEdits + 1
Slot  == 1 .. MaxCalls

(***************************************************************************)
(* A piece of work that replaces the canvas or closes the window, and a    *)
(* command in flight with what was taken along when it was sent. A version *)
(* is named by its place in the history and its graph, which is what a     *)
(* snapshot's identifier is made of.                                       *)
(***************************************************************************)
Work == [what : {"new", "demo", "close"}]
          \cup [what : {"open"}, from : Project]
          \cup [what : {"restore"}, at : Nat, graph : Graph]
Call == [kind    : {"save", "open", "reopen", "restore"},
         stage   : {"asked", "read", "blind", "done", "failed", "listing"},
         path    : Project,
         graph   : Graph,
         at      : Nat,
         history : Seq(Graph),
         next    : Work \cup {None}]

ASSUME NoneAssumption == None \notin Work /\ None \notin Call

TypeOK ==
  /\ canvas \in Graph
  /\ path \in Project \cup {None}
  /\ versions \in Seq(Graph)
  /\ {dirty, busy, reported} \subseteq BOOLEAN
  /\ question \in Work \cup {None}
  /\ calls \in [Slot -> Call \cup {None}]
  /\ disk \in [Project -> Seq(Graph)]
  /\ window \in {"open", "closing", "gone"}
  /\ edits \in 0 .. MaxEdits
  /\ sent \in 0 .. MaxSent
  /\ {kept, agreed, beside, lost} \subseteq SUBSET Graph

Alive    == window # "gone"
InFlight == {s \in Slot : calls[s] # None}

\* Project::open refuses a file that is not there or declares too many versions. It
\* may fail on any other: an error of the disk, a damaged archive, a newer schema.
Openable(h) == h # <<>> /\ Len(h) <= MaxSnapshots

Ask(kind, p) ==
  [kind |-> kind, stage |-> "asked", path |-> p, graph |-> Blank, at |-> 0,
   history |-> <<>>, next |-> None]

Init ==
  /\ canvas = Blank /\ path = None /\ versions = <<>> /\ dirty = FALSE
  /\ busy = FALSE
  /\ question = None
  /\ disk \in [Project -> {<<>>, <<Demo>>}]
  /\ \/ calls = [s \in Slot |-> None]
     \/ \E p \in Project : \* reopenProject, when the preference asks for it
          calls = [s \in Slot |-> IF s = 1 THEN Ask("reopen", p) ELSE None]
  /\ reported = FALSE
  /\ window = "open"
  /\ edits = 0 /\ sent = 0
  /\ kept = {Blank, Demo} /\ agreed = {} /\ beside = {} /\ lost = {}

----------------------------------------------------------------------------
(***************************************************************************)
(* The work itself, beside the commands cs and with busy as b: what runs   *)
(* at once on a clean canvas, or once the question has been answered.      *)
(***************************************************************************)
\* The canvas goes. What was on it is lost if it is in no file and nobody let it go.
Forget == lost' = lost \cup ({canvas} \ (kept \cup agreed'))

\* doNewProject, doLoadDemo
Clear(g, cs, b) ==
  /\ Forget
  /\ canvas' = g /\ path' = None /\ versions' = <<>> /\ dirty' = (g = Demo)
  /\ busy' = b
  /\ calls' = cs
  /\ UNCHANGED <<window, sent>>

\* A command c goes out beside the commands cs, in the first free slot.
Send(c, cs) ==
  LET free == {s \in Slot : cs[s] = None}
  IN  /\ sent < MaxSent
      /\ sent' = sent + 1
      /\ \E s \in free :
           (\A t \in free : s <= t) /\ calls' = [cs EXCEPT ![s] = c]
      /\ busy' = TRUE

\* doOpenProject, doOpenFromLibrary, doRestoreVersion
Request(c, cs) == Send(c, cs) /\ UNCHANGED <<onScreen, lost, window>>

Stay(cs, b) == busy' = b /\ calls' = cs /\ UNCHANGED <<onScreen, lost, sent>>

Do(w, cs, b) ==
  \/ w.what = "new"  /\ Clear(Blank, cs, b)
  \/ w.what = "demo" /\ Clear(Demo, cs, b)
  \/ w.what = "open" /\ Request(Ask("open", w.from), cs)
  \/ /\ w.what = "restore" \* of the project that is open now, not when it was asked for
     /\ path # None
     /\ Request([Ask("restore", path) EXCEPT !.at = w.at, !.graph = w.graph], cs)
  \/ w.what = "restore" /\ path = None /\ Stay(cs, b) /\ UNCHANGED window
  \/ w.what = "close" /\ Stay(cs, b) /\ window' = "closing"

----------------------------------------------------------------------------
(***************************************************************************)
(* The person.                                                             *)
(***************************************************************************)
\* An edit, whatever it is. Nothing holds it back while a command is in
\* flight, nor, from the keyboard, while the question is up.
Edit ==
  /\ Alive /\ edits < MaxEdits
  /\ edits' = edits + 1
  /\ canvas' = edits + 1
  /\ dirty' = TRUE
  /\ beside' = IF InFlight = {} /\ window = "open" THEN beside ELSE beside \cup {edits + 1}
  /\ UNCHANGED <<path, versions, busy, question, calls, runtimeVars, sent, kept, agreed, lost>>

ReplaceDirty(w) == \* mutant: only work under an open project is asked about
  /\ Alive
  /\ UNCHANGED <<disk, reported, edits, kept, agreed, beside>>
  /\ IF dirty /\ path # None
     THEN question' = w /\ Stay(calls, busy) /\ UNCHANGED window
     ELSE UNCHANGED question /\ Do(w, calls, busy)

\* Work that replaces the canvas: at once when it is clean, or after a question.
Replace(w) ==
  /\ Alive
  /\ UNCHANGED <<disk, reported, edits, kept, agreed, beside>>
  /\ IF dirty
     THEN question' = w /\ Stay(calls, busy) /\ UNCHANGED window
     ELSE UNCHANGED question /\ Do(w, calls, busy)

\* The buttons for these are behind the question; the keys for opening are not.
NewProject  == question = None /\ Replace([what |-> "new"])
LoadDemo    == question = None /\ Replace([what |-> "demo"])
OpenProject == \E p \in Project : Replace([what |-> "open", from |-> p])
RestoreVersion == \E i \in DOMAIN versions :
  /\ question = None /\ path # None
  /\ Replace([what |-> "restore", at |-> i, graph |-> versions[i]])

ConfirmDiscard ==
  /\ Alive /\ ~busy /\ question # None
  /\ question' = None
  /\ agreed' = agreed \cup {canvas}
  /\ Do(question, calls, busy)
  /\ UNCHANGED <<disk, reported, edits, kept, beside>>

\* The button is disabled while busy; Escape is not.
CancelDiscard ==
  /\ Alive /\ question # None
  /\ question' = None
  /\ Stay(calls, busy)
  /\ UNCHANGED <<runtimeVars, edits, kept, agreed, beside>>

\* saveProject takes the path and the graph along. "Save as" chooses any path.
StartSave(p, next) ==
  /\ Send([Ask("save", p) EXCEPT !.graph = canvas, !.next = next], calls)
  /\ UNCHANGED <<onScreen, question, runtimeVars, edits, kept, agreed, beside, lost>>

SaveProject == \E p \in Project : Alive /\ StartSave(p, None)
SaveThenProceed == \E p \in Project :
  /\ Alive /\ ~busy /\ question # None
  /\ path \in {None, p}
  /\ StartSave(p, question)

\* The process ends, with everything it held but the files.
End ==
  /\ window' = "gone"
  /\ Forget
  /\ canvas' = Blank /\ path' = None /\ versions' = <<>> /\ dirty' = FALSE
  /\ busy' = FALSE
  /\ question' = None
  /\ calls' = [s \in Slot |-> None]
  /\ reported' = FALSE
  /\ UNCHANGED <<disk, edits, sent, kept>>

\* The window's own close button, in the runtime: refused and put to the editor
\* when there is unsaved work as far as the runtime knows. The editor asks, or
\* closes the window when it knows better.
PressClose ==
  /\ Alive
  /\ UNCHANGED agreed
  /\ \/ reported /\ window = "open" /\ Replace([what |-> "close"])
     \/ /\ ~reported \/ window = "closing"
        /\ beside' = IF reported = dirty THEN beside ELSE beside \cup {canvas}
        /\ End

----------------------------------------------------------------------------
(***************************************************************************)
(* The runtime.                                                            *)
(***************************************************************************)
Move(s, stage, h) == calls' = [calls EXCEPT ![s].stage = stage, ![s].history = h]

\* Each change of dirty is told, in order; a report overtaken by the next is left out.
HearReport ==
  /\ Alive /\ reported # dirty
  /\ reported' = dirty
  /\ UNCHANGED <<onScreen, busy, question, calls, disk, window, edits, sent, kept, agreed,
                 beside, lost>>

RecordOver(h, g) == IF h = <<>> THEN <<g>> ELSE Append(Front(h), g) \* mutant: amends
Record(h, g) == IF h # <<>> /\ Last(h) = g THEN h ELSE Append(h, g)

\* open_project, and the first half of save_project and restore_version. For a save
\* a file that cannot be opened, why ever, counts as a new project: it goes on blind.
Read == \E s \in InFlight :
  /\ Alive
  /\ calls[s].stage = "asked"
  /\ LET c == calls[s]
         h == disk[c.path]
     IN  \/ c.kind \in {"open", "reopen"} /\ Openable(h) /\ Move(s, "done", h)
         \/ c.kind = "save" /\ (Openable(h) \/ h = <<>>) /\ Move(s, "read", h)
         \/ c.kind = "save" /\ Move(s, "blind", <<>>)
         \/ /\ c.kind = "restore" /\ Openable(h)
            /\ c.at \in DOMAIN h /\ h[c.at] = c.graph
            /\ Move(s, "read", h)
         \/ c.kind # "save" /\ Move(s, "failed", <<>>)
  /\ UNCHANGED <<onScreen, busy, question, runtimeVars, edits, sent, kept, agreed, beside, lost>>

\* Project::save: the new file is moved into place, or the old one stays.
Write == \E s \in InFlight :
  /\ Alive
  /\ calls[s].stage \in {"read", "blind"}
  /\ LET c == calls[s]
         h == IF c.kind = "save" THEN Record(c.history, c.graph) ELSE Append(c.history, c.graph)
     IN  \/ /\ disk' = [disk EXCEPT ![c.path] = h]
            /\ kept' = kept \cup {c.graph}
            /\ Move(s, "done", h)
         \/ Move(s, "failed", <<>>) /\ UNCHANGED <<disk, kept>>
  /\ UNCHANGED <<onScreen, busy, question, reported, window, edits, sent, agreed, beside, lost>>

CloseWindow ==
  /\ window = "closing"
  /\ UNCHANGED <<agreed, beside>>
  /\ End

----------------------------------------------------------------------------
(***************************************************************************)
(* The answers, back in the editor.                                        *)
(***************************************************************************)
SaveAnsweredAnyway == \* mutant: a save that failed counts
\E s \in InFlight :
  /\ Alive
  /\ calls[s].kind = "save" /\ calls[s].stage \in {"done", "failed"}
  /\ path' = calls[s].path
  /\ versions' = calls[s].history
  /\ dirty' = FALSE
  /\ Move(s, "listing", <<>>)
  /\ UNCHANGED <<canvas, busy, question, runtimeVars, edits, sent, kept, agreed, beside, lost>>

\* saveProject goes on to list the library, and is busy until that is answered.
SaveAnswered == \E s \in InFlight :
  /\ Alive
  /\ calls[s].kind = "save" /\ calls[s].stage = "done"
  /\ path' = calls[s].path
  /\ versions' = calls[s].history
  /\ dirty' = FALSE
  /\ Move(s, "listing", <<>>)
  /\ UNCHANGED <<canvas, busy, question, runtimeVars, edits, sent, kept, agreed, beside, lost>>

\* applyProject. doOpenProject and doOpenFromLibrary go on to list the library.
OpenAnswered == \E s \in InFlight :
  /\ Alive
  /\ calls[s].kind # "save" /\ calls[s].stage = "done"
  /\ UNCHANGED <<question, runtimeVars, edits, sent, kept, agreed, beside>>
  /\ Forget
  /\ canvas' = Last(calls[s].history)
  /\ path' = calls[s].path
  /\ versions' = calls[s].history
  /\ dirty' = FALSE
  /\ IF calls[s].kind = "open"
     THEN Move(s, "listing", <<>>) /\ UNCHANGED busy
     ELSE calls' = [calls EXCEPT ![s] = None] /\ busy' = (busy /\ calls[s].kind = "reopen")

FinishBusy == \E s \in InFlight : \* mutant: a failure skips the finally
  /\ Alive
  /\ calls[s].stage \in {"failed", "listing"}
  /\ UNCHANGED <<disk, reported, edits, kept, agreed, beside>>
  /\ LET others == [calls EXCEPT ![s] = None]
         b == busy /\ (calls[s].kind = "reopen" \/ calls[s].stage = "failed")
     IN  IF calls[s].next # None /\ ~dirty
         THEN question' = None /\ Do(calls[s].next, others, b)
         ELSE Stay(others, b) /\ UNCHANGED <<question, window>>

\* What every one of them ends with, and what saveThenProceed goes on to.
Finish == \E s \in InFlight :
  /\ Alive
  /\ calls[s].stage \in {"failed", "listing"}
  /\ UNCHANGED <<disk, reported, edits, kept, agreed, beside>>
  /\ LET others == [calls EXCEPT ![s] = None]
         b == busy /\ calls[s].kind = "reopen"
     IN  IF calls[s].next # None /\ ~dirty
         THEN question' = None /\ Do(calls[s].next, others, b)
         ELSE Stay(others, b) /\ UNCHANGED <<question, window>>

Person == \/ Edit \/ NewProject \/ LoadDemo \/ OpenProject \/ RestoreVersion
          \/ ConfirmDiscard \/ CancelDiscard \/ SaveProject \/ SaveThenProceed \/ PressClose
Runtime == HearReport \/ Read \/ Write \/ CloseWindow
Editor == SaveAnswered \/ OpenAnswered \/ Finish

Next == Person \/ Runtime \/ Editor
Spec == Init /\ [][Next]_vars
----------------------------------------------------------------------------
(***************************************************************************)
(* Properties.                                                             *)
(***************************************************************************)
\* Unsaved work goes without a question only when it was done while a command was
\* in flight, or when the window closed before the runtime had heard of it: with
\* nothing on its way the question always comes first.
LostOnlyBeside == lost \subseteq beside

\* A canvas that reads as saved is in a file, or the answer that said so was
\* overtaken by edits made while it was on its way.
CleanMeansKept == ~dirty => canvas \in kept \cup beside

\* Busy controls come back: whenever the editor is busy an answer is still due.
BusyMeansAnswerDue == busy => InFlight # {}

\* docs/BETA-0.5.md:22: "Unsaved work never discarded silently". Here: as long as
\* the window is there, nothing that was on its canvas has gone unsaved and unasked.
NothingLostSilently == Alive => lost = {}

\* A file's history only grows, but for the write of a save that could not open the
\* file, or of a command that had read it before another one wrote it.
Stale(s) == calls[s].stage = "read" /\ calls[s].history # disk[calls[s].path]
Shortens(s) == calls[s].stage = "blind" \/ Stale(s)
HistoryGrows == [][\A p \in Project :
  \/ IsPrefix(disk[p], disk'[p])
  \/ \E s \in InFlight : calls[s].path = p /\ calls'[s] # calls[s] /\ Shortens(s)]_vars
=============================================================================
