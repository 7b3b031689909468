------------------------------- MODULE Library -------------------------------
(***************************************************************************)
(* The library: its index and the copies of imported publications, the     *)
(* commands that change them (LibraryHandle and the commands of the        *)
(* desktop runtime, encastra-library, the import of encastra-publish), the *)
(* editor's side of importing and removing, and the closing of the window  *)
(* while that goes on.                                                     *)
(*                                                                         *)
(* A command runs on a thread of its own, side by side with others. The    *)
(* index lock is held through a whole import; the other commands hold it   *)
(* for one step, so only an import is ever seen holding it. The process    *)
(* may die at any step and be started again. The disk is one library that  *)
(* one process uses, its index readable; saves and deletions may fail.     *)
(***************************************************************************)
EXTENDS ImportDialog, Naturals, FiniteSets

CONSTANTS
  Publication, \* what can be imported
  Project,     \* what can be saved or opened
  Size,        \* the bytes of a publication
  Call,        \* the commands that can run side by side
  None,
  MaxBytes,    \* MAX_LIBRARY_BYTES
  MaxStarts,   \* bound: times the program is started again
  MaxAsked     \* bound: commands asked for

ASSUME LibraryAssumption ==
  /\ IsFiniteSet(Publication)
  /\ Size \in [Publication -> Nat]
  /\ {MaxBytes, MaxStarts, MaxAsked} \subseteq Nat
  /\ Publication \cap Project = {}
  /\ None \notin Call

VARIABLES
  index,     \* the identifiers in library.json
  memory,    \* the identifiers in the running program's index
  copies,    \* the publications whose folder is in imports/
  young,     \* staging folders nobody works on, younger than an hour
  old,       \* and older ones
  lock,      \* the import that holds the index lock, or None
  importing, \* the runtime's flag: an import is in flight
  calls,     \* the commands and how far each has come

  dialog,    \* importState: its phase and the publication that was read
  waiting,   \* the choosers and the inspections the editor waits for
  busy,      \* the editor's general flag

  window,    \* "open", "gone", or "down" while the program is not running
  closer,    \* how far closing the window has come

  stray,     \* history: unlisted copies somebody or something is to blame for
  twice,     \* history: publications two removals of which were in flight at once
  starts, asked \* history: what the bounds count

diskVars   == <<index, copies, young, old>>
editorVars == <<dialog, waiting, busy>>
closeVars  == <<window, closer>>
boundVars  == <<stray, twice, starts, asked>>
vars == <<diskVars, memory, lock, importing, calls, editorVars, closeVars, boundVars>>

Idle == [op |-> "none"]
Ops  == [op : {"none"}]
  \cup [op : {"import"}, of : Publication, late : BOOLEAN, used : Nat,
        at : {"asked", "flagged", "measured", "staged", "landed", "done", "failed"}]
  \cup [op : {"remove"}, of : Publication \cup Project, copy : BOOLEAN,
        at : {"asked", "found", "forgotten", "done", "failed"}]
  \cup [op : {"remember"}, of : Project, at : {"asked", "done"}]
  \cup [op : {"list"}, after : {"import", "remove"}, at : {"asked", "done"}]

TypeOK ==
  /\ {index, memory} \subseteq SUBSET (Publication \cup Project)
  /\ {copies, stray, twice} \subseteq SUBSET Publication
  /\ {young, old} \subseteq [Publication -> Nat]
  /\ lock \in Call \cup {None}
  /\ {importing, busy} \subseteq BOOLEAN
  /\ calls \in [Call -> Ops]
  /\ dialog \in [phase : Phase, of : Publication \cup {None}]
  /\ waiting \in [{"chooser", "inspection"} -> Nat]
  /\ window \in {"open", "gone", "down"}
  /\ closer \in {"none", "asked", "sent", "checked", "closing"}
  /\ {starts, asked} \subseteq Nat

Init ==
  /\ index = {} /\ memory = {} /\ copies = {}
  /\ young = [p \in Publication |-> 0] /\ old = [p \in Publication |-> 0]
  /\ lock = None /\ importing = FALSE
  /\ calls = [c \in Call |-> Idle]
  /\ dialog = [phase |-> "idle", of |-> None]
  /\ waiting = [chooser |-> 0, inspection |-> 0]
  /\ busy = FALSE
  /\ window = "open" /\ closer = "none"
  /\ stray = {} /\ twice = {} /\ starts = 0 /\ asked = 0

Runs(c, op, at) == calls[c].op = op /\ calls[c].at = at
Imports(c) == calls[c].op = "import" /\ calls[c].at \in {"flagged", "measured", "staged", "landed"}
Removes(c, p) == /\ calls[c].op = "remove" /\ calls[c].of = p /\ calls[c].copy
                 /\ calls[c].at \in {"found", "forgotten"}
Become(c, at) == calls' = [calls EXCEPT ![c].at = at]

---------------------------------------------------------------------------
\* The bytes of the library.

Staged == {calls[c].of : c \in {d \in Call : Runs(d, "import", "staged")}}

\* What lies in imports/: the copies, the folder being staged, and what was left of others.
Left == UNION {{"left"} \X {p} \X (1 .. young[p] + old[p]) : p \in Publication}
Folders == ({"copy"} \X copies \X {1}) \cup ({"staged"} \X Staged \X {1}) \cup Left

\* One element for each byte of a folder: there are as many as the sizes add up to.
Bytes(F) == UNION {{f} \X (1 .. Size[f[2]]) : f \in F}

measure_imports == Cardinality(Bytes(Folders))
imported_bytes  == Cardinality(Bytes({"copy"} \X (memory \cap Publication) \X {1}))

bytes_in_use_claimed == imported_bytes \* mutant: the index is believed
bytes_in_use == IF measure_imports > imported_bytes THEN measure_imports ELSE imported_bytes

room_for(used, needed) == used + needed <= MaxBytes

---------------------------------------------------------------------------
\* The editor. Every answer it waited for comes while the window is open.

SetImport(next, p) ==
  /\ dialog' = [phase |-> next, of |-> p]
  /\ busy' = (next \in Busy)
Settle(event) == SetImport(transition(dialog.phase, event), dialog.of)

Ask(c, call) ==
  /\ calls[c] = Idle
  /\ asked < MaxAsked
  /\ calls' = [calls EXCEPT ![c] = call]
  /\ asked' = asked + 1

\* The button of an empty library looks at the dialog alone.
beginImport ==
  /\ window = "open"
  /\ transition(dialog.phase, "begin") # dialog.phase
  /\ Settle("begin")
  /\ waiting' = [waiting EXCEPT !.chooser = @ + 1]
  /\ UNCHANGED <<diskVars, memory, lock, importing, calls, closeVars, boundVars>>

Dismiss ==
  /\ window = "open" /\ waiting.chooser > 0
  /\ Settle("dismissed")
  /\ waiting' = [waiting EXCEPT !.chooser = @ - 1]
  /\ UNCHANGED <<diskVars, memory, lock, importing, calls, closeVars, boundVars>>

Choose ==
  /\ window = "open" /\ waiting.chooser > 0
  /\ Settle("chose")
  /\ waiting' = [chooser |-> waiting.chooser - 1, inspection |-> waiting.inspection + 1]
  /\ UNCHANGED <<diskVars, memory, lock, importing, calls, closeVars, boundVars>>

Inspected(p) ==
  /\ window = "open" /\ waiting.inspection > 0
  /\ SetImport(transition(dialog.phase, "inspected"), p)
  /\ waiting' = [waiting EXCEPT !.inspection = @ - 1]
  /\ UNCHANGED <<diskVars, memory, lock, importing, calls, closeVars, boundVars>>

InspectionFails ==
  /\ window = "open" /\ waiting.inspection > 0
  /\ Settle("failed")
  /\ waiting' = [waiting EXCEPT !.inspection = @ - 1]
  /\ UNCHANGED <<diskVars, memory, lock, importing, calls, closeVars, boundVars>>

closeImport ==
  /\ window = "open"
  /\ transition(dialog.phase, "acknowledge") # dialog.phase
  /\ dialog' = [phase |-> "idle", of |-> None]
  /\ UNCHANGED <<diskVars, memory, lock, importing, calls, waiting, busy, closeVars, boundVars>>

confirmImport(c) ==
  /\ window = "open"
  /\ transition(dialog.phase, "confirm") # dialog.phase
  /\ Settle("confirm")
  /\ Ask(c, [op |-> "import", of |-> dialog.of, late |-> FALSE, used |-> 0, at |-> "asked"])
  /\ UNCHANGED <<diskVars, memory, lock, importing, waiting, closeVars, stray, twice, starts>>

\* decideRemoval: only a copy this software made may be asked to go.
removeFromLibrary(c, i, copy) ==
  /\ window = "open" /\ ~busy
  /\ i \in memory
  /\ copy => i \in Publication
  /\ busy' = TRUE
  /\ Ask(c, [op |-> "remove", of |-> i, copy |-> copy, at |-> "asked"])
  /\ UNCHANGED <<diskVars, memory, lock, importing, dialog, waiting, closeVars, stray, twice, starts>>

\* A project is saved or opened, by a button or by a key.
Remember(c, i) ==
  /\ window = "open"
  /\ busy' = TRUE
  /\ Ask(c, [op |-> "remember", of |-> i, at |-> "asked"])
  /\ UNCHANGED <<diskVars, memory, lock, importing, dialog, waiting, closeVars, stray, twice, starts>>

ImportAnswered(c) ==
  /\ window = "open"
  /\ \/ /\ Runs(c, "import", "done")
        /\ Settle("imported")
        /\ calls' = [calls EXCEPT ![c] = [op |-> "list", after |-> "import", at |-> "asked"]]
     \/ /\ Runs(c, "import", "failed")
        /\ Settle("failed")
        /\ calls' = [calls EXCEPT ![c] = Idle]
  /\ UNCHANGED <<diskVars, memory, lock, importing, waiting, closeVars, boundVars>>

RemoveAnswered(c) ==
  /\ window = "open"
  /\ \/ /\ Runs(c, "remove", "done")
        /\ calls' = [calls EXCEPT ![c] = [op |-> "list", after |-> "remove", at |-> "asked"]]
        /\ UNCHANGED busy
     \/ /\ Runs(c, "remove", "failed")
        /\ calls' = [calls EXCEPT ![c] = Idle]
        /\ busy' = FALSE
  /\ UNCHANGED <<diskVars, memory, lock, importing, dialog, waiting, closeVars, boundVars>>

\* The listing that follows an import acknowledges whatever is on screen by then.
ListAnswered(c) ==
  /\ window = "open"
  /\ Runs(c, "list", "done")
  /\ calls' = [calls EXCEPT ![c] = Idle]
  /\ IF calls[c].after = "import"
     THEN Settle("acknowledge")
     ELSE busy' = FALSE /\ UNCHANGED dialog
  /\ UNCHANGED <<diskVars, memory, lock, importing, waiting, closeVars, boundVars>>

RememberAnswered(c) ==
  /\ window = "open"
  /\ Runs(c, "remember", "done")
  /\ calls' = [calls EXCEPT ![c] = Idle]
  /\ busy' = FALSE
  /\ UNCHANGED <<diskVars, memory, lock, importing, dialog, waiting, closeVars, boundVars>>

---------------------------------------------------------------------------
\* Importing. The lock is taken before anything is measured and let go when the
\* command ends; the flag is up a little longer at both ends.

Enter(c) ==
  /\ Runs(c, "import", "asked")
  /\ importing' = TRUE
  /\ calls' = [calls EXCEPT ![c].at = "flagged",
                            ![c].late = closer \in {"checked", "closing"} \/ window = "gone"]
  /\ UNCHANGED <<diskVars, memory, lock, editorVars, closeVars, boundVars>>

Measure(c) ==
  /\ Runs(c, "import", "flagged")
  /\ lock = None
  /\ lock' = c
  /\ calls' = [calls EXCEPT ![c].at = "measured", ![c].used = bytes_in_use]
  /\ UNCHANGED <<diskVars, memory, importing, editorVars, closeVars, boundVars>>

End(c, at) ==
  /\ Become(c, at)
  /\ lock' = None
  /\ importing' = FALSE
  /\ UNCHANGED <<editorVars, closeVars, twice, starts, asked>>

\* The folder is refused, or it was imported before.
RefuseFolder(c) ==
  /\ Runs(c, "import", "measured")
  /\ End(c, "failed")
  /\ UNCHANGED <<diskVars, memory, stray>>

sweep_staging == old' = [p \in Publication |-> 0]

RefuseFull(c) ==
  /\ Runs(c, "import", "measured")
  /\ calls[c].of \notin copies
  /\ ~room_for(calls[c].used, Size[calls[c].of])
  /\ sweep_staging
  /\ End(c, "failed")
  /\ UNCHANGED <<index, copies, young, memory, stray>>

Stage(c) ==
  /\ Runs(c, "import", "measured")
  /\ calls[c].of \notin copies
  /\ room_for(calls[c].used, Size[calls[c].of])
  /\ sweep_staging
  /\ Become(c, "staged")
  /\ UNCHANGED <<index, copies, young, memory, lock, importing, editorVars, closeVars, boundVars>>

\* Writing or moving into place fails, and so may clearing up after it.
StagingFails(c) ==
  /\ Runs(c, "import", "staged")
  /\ \E cleared \in BOOLEAN :
       young' = IF cleared THEN young ELSE [young EXCEPT ![calls[c].of] = @ + 1]
  /\ End(c, "failed")
  /\ UNCHANGED <<index, copies, old, memory, stray>>

Land(c) ==
  /\ Runs(c, "import", "staged")
  /\ copies' = copies \cup {calls[c].of}
  /\ Become(c, "landed")
  /\ UNCHANGED <<index, young, old, memory, lock, importing, editorVars, closeVars, boundVars>>

Keep(I) == index' = I /\ memory' = I

List(c) ==
  /\ Runs(c, "import", "landed")
  /\ Keep(memory \cup {calls[c].of})
  /\ stray' = stray \ {calls[c].of}
  /\ End(c, "done")
  /\ UNCHANGED <<copies, young, old>>

ListingFailsKeepingCopy(c) == \* mutant: the copy stays
  /\ Runs(c, "import", "landed")
  /\ UNCHANGED <<copies, stray>>
  /\ End(c, "failed")
  /\ UNCHANGED <<index, young, old, memory>>

\* The index cannot be written: the copy goes back, if it can be deleted.
ListingFails(c) ==
  /\ Runs(c, "import", "landed")
  /\ \/ copies' = copies \ {calls[c].of} /\ UNCHANGED stray
     \/ UNCHANGED copies /\ stray' = stray \cup {calls[c].of}
  /\ End(c, "failed")
  /\ UNCHANGED <<index, young, old, memory>>

import_reserving(c) ==
  \/ Measure(c) \/ RefuseFolder(c) \/ RefuseFull(c) \/ Stage(c)
  \/ StagingFails(c) \/ Land(c) \/ List(c) \/ ListingFails(c)

---------------------------------------------------------------------------
\* The commands that hold the lock for one step.

FindEntry(c) ==
  /\ Runs(c, "remove", "asked")
  /\ lock = None
  /\ Become(c, IF calls[c].of \in memory THEN "found" ELSE "done")
  /\ twice' = IF calls[c].of \in memory /\ calls[c].copy /\ \E d \in Call : Removes(d, calls[c].of)
              THEN twice \cup {calls[c].of} ELSE twice
  /\ UNCHANGED <<diskVars, memory, lock, importing, editorVars, closeVars, stray, starts, asked>>

Forget(c) ==
  /\ Runs(c, "remove", "found")
  /\ lock = None
  /\ Keep(memory \ {calls[c].of})
  /\ Become(c, IF calls[c].copy THEN "forgotten" ELSE "done")
  /\ stray' = IF calls[c].copy THEN stray ELSE stray \cup ({calls[c].of} \cap copies)
  /\ UNCHANGED <<copies, young, old, lock, importing, editorVars, closeVars, twice, starts, asked>>

ForgettingFailsUnnoticed(c) == \* mutant: the copy goes though the row stays
  /\ Runs(c, "remove", "found")
  /\ lock = None
  /\ Become(c, IF calls[c].copy THEN "forgotten" ELSE "failed")
  /\ UNCHANGED <<diskVars, memory, lock, importing, editorVars, closeVars, boundVars>>

\* The index cannot be written: nothing is changed.
ForgettingFails(c) ==
  /\ Runs(c, "remove", "found")
  /\ lock = None
  /\ Become(c, "failed")
  /\ UNCHANGED <<diskVars, memory, lock, importing, editorVars, closeVars, boundVars>>

\* remove_imported_copy, after the lock has been let go.
DeleteCopy(c) ==
  /\ Runs(c, "remove", "forgotten")
  /\ \/ /\ copies' = copies \ {calls[c].of}
        /\ stray' = stray \ {calls[c].of}
        /\ Become(c, "done")
     \/ /\ calls[c].of \in copies
        /\ stray' = stray \cup {calls[c].of}
        /\ Become(c, "failed")
        /\ UNCHANGED copies
  /\ UNCHANGED <<index, young, old, memory, lock, importing, editorVars, closeVars, twice, starts, asked>>

library_remove(c) == FindEntry(c) \/ Forget(c) \/ ForgettingFails(c) \/ DeleteCopy(c)

\* An index that did not keep up is not a failed save of the project.
remember(c) ==
  /\ Runs(c, "remember", "asked")
  /\ lock = None
  /\ Keep(memory \cup {calls[c].of}) \/ UNCHANGED <<index, memory>>
  /\ Become(c, "done")
  /\ UNCHANGED <<copies, young, old, lock, importing, editorVars, closeVars, boundVars>>

library_list(c) ==
  /\ Runs(c, "list", "asked")
  /\ lock = None
  /\ Become(c, "done")
  /\ UNCHANGED <<diskVars, memory, lock, importing, editorVars, closeVars, boundVars>>

---------------------------------------------------------------------------
\* Closing, dying and starting again.

mayCloseUnaware(dirty) == closer = "closing" \/ ~dirty \* mutant: imports are not looked at
mayClose(dirty) == closer = "closing" \/ ~(dirty \/ importing)

\* The operating system asks; what is unsaved is Document's and anything here.
CloseRequested ==
  /\ window = "open"
  /\ \E dirty \in BOOLEAN :
       \/ mayClose(dirty) /\ window' = "gone" /\ UNCHANGED closer
       \/ /\ ~mayClose(dirty) /\ closer = "none"
          /\ closer' = "asked" /\ UNCHANGED window
  /\ UNCHANGED <<diskVars, memory, lock, importing, calls, editorVars, boundVars>>

\* The editor hears of it. The question about unsaved work, asked in a window
\* above everything, comes to the same command or to none.
HearClose ==
  /\ window = "open" /\ closer = "asked"
  /\ closer' = IF dialog.phase \in Busy THEN "none" ELSE "sent"
  /\ UNCHANGED <<diskVars, memory, lock, importing, calls, editorVars, window, boundVars>>

\* close_window: the check, then the flag, then the window, which may refuse.
CheckClose ==
  /\ closer = "sent"
  /\ closer' = IF importing THEN "none" ELSE "checked"
  /\ UNCHANGED <<diskVars, memory, lock, importing, calls, editorVars, window, boundVars>>

SetClosing ==
  /\ closer = "checked"
  /\ closer' = "closing"
  /\ UNCHANGED <<diskVars, memory, lock, importing, calls, editorVars, window, boundVars>>

CloseFails ==
  /\ window = "open" /\ closer = "closing"
  /\ closer' = "none"
  /\ UNCHANGED <<diskVars, memory, lock, importing, calls, editorVars, window, boundVars>>

\* The process ends: the window is gone, or it was killed, or the machine was.
Die ==
  /\ window # "down"
  /\ starts < MaxStarts
  /\ window' = "down" /\ closer' = "none"
  /\ young' = [p \in Publication |-> young[p] + IF p \in Staged THEN 1 ELSE 0]
  /\ stray' = stray \cup (copies \ index)
  /\ memory' = {} /\ lock' = None /\ importing' = FALSE
  /\ calls' = [c \in Call |-> Idle]
  /\ dialog' = [phase |-> "idle", of |-> None]
  /\ waiting' = [chooser |-> 0, inspection |-> 0]
  /\ busy' = FALSE
  /\ UNCHANGED <<index, copies, old, twice, starts, asked>>

Age ==
  /\ \E p \in Publication : young[p] > 0
  /\ young' = [p \in Publication |-> 0]
  /\ old' = [p \in Publication |-> old[p] + young[p]]
  /\ UNCHANGED <<index, copies, memory, lock, importing, calls, editorVars, closeVars, boundVars>>

\* LibraryHandle::open.
Start ==
  /\ window = "down"
  /\ window' = "open"
  /\ sweep_staging
  /\ memory' = index
  /\ starts' = starts + 1
  /\ UNCHANGED <<index, copies, young, lock, importing, calls, editorVars, closer, stray, twice, asked>>

---------------------------------------------------------------------------
Editor ==
  \/ beginImport \/ Dismiss \/ Choose \/ InspectionFails \/ closeImport
  \/ \E p \in Publication : Inspected(p)
  \/ \E c \in Call :
       \/ confirmImport(c) \/ ImportAnswered(c) \/ RemoveAnswered(c)
       \/ ListAnswered(c) \/ RememberAnswered(c)
       \/ \E i \in Publication \cup Project, copy \in BOOLEAN : removeFromLibrary(c, i, copy)
       \/ \E i \in Project : Remember(c, i)
Command(c) == Enter(c) \/ import_reserving(c) \/ library_remove(c) \/ remember(c) \/ library_list(c)
Window == CloseRequested \/ HearClose \/ CheckClose \/ SetClosing \/ CloseFails

Next == Editor \/ (\E c \in Call : Command(c)) \/ Window \/ Die \/ Age \/ Start

Spec == Init /\ [][Next]_vars

---------------------------------------------------------------------------
\* What imports/ weighs never passes the ceiling: not with what a program that
\* died left in staging, nor with copies the index does not list
\* (LibraryHandle::import_reserving, "what makes the ceiling a ceiling").
WithinCeiling == measure_imports <= MaxBytes

\* An imported publication that is listed has its copy, unless two removals of
\* it overlapped: a removal deletes outside the lock, and the second can delete
\* what was imported again meanwhile (library_remove).
ListedIsThere == index \cap Publication \subseteq copies \cup twice

\* A copy that is not listed belongs to a command that is still at it, or was
\* left by a person who kept it, a deletion that failed, or a program that died
\* (import_reserving, "A folder nothing in the application can see").
UnlistedIsExplained ==
  \A p \in copies \ index :
    \/ p \in stray
    \/ \E c \in Call : Runs(c, "import", "landed") /\ calls[c].of = p
    \/ \E c \in Call : Removes(c, p)

\* When the window goes, an import that is cut short began after closing was
\* last checked (close_window, should_prevent_close).
CloseCutsOnlyLateImports ==
  window = "gone" => \A c \in Call : Imports(c) => calls[c].late

\* The dialog is busy exactly while one answer is awaited, the one its stage
\* waits for: it can always be closed in the end, and no second import is
\* begun beside the first (import-machine.ts, "the rule the dialog rests on").
Awaited(stage) ==
  CASE stage = "choosing"   -> waiting.chooser
    [] stage = "inspecting" -> waiting.inspection
    [] stage = "importing"  -> Cardinality({c \in Call : calls[c].op = "import"})
BusyIsOwned == \A stage \in Busy : Awaited(stage) = IF dialog.phase = stage THEN 1 ELSE 0

=============================================================================
