--------------------------- MODULE DocumentProofs ---------------------------
(***************************************************************************)
(* The project on the canvas, for any number of projects on disk, of edits *)
(* and of commands in flight at once.                                      *)
(*                                                                         *)
(* Every graph is followed to where it may be found again. What stands in  *)
(* a file, or in the answer to a command, has been in a file. While a save *)
(* is on its way the canvas is what the save took along, or was edited     *)
(* meanwhile, or came out of a file; while a command that replaces the     *)
(* canvas is on its way, or the window is closing, the person has let the  *)
(* canvas go unless it was edited meanwhile. From that it follows what an  *)
(* answer may call saved and what may be forgotten.                        *)
(***************************************************************************)
EXTENDS Document, SequenceTheorems, TLAPS

AllKept(h) == \A i \in DOMAIN h : h[i] \in kept
MayGo      == canvas \in kept \cup beside \cup agreed

FilesAreKept ==
  /\ {Blank, Demo} \subseteq kept
  /\ \A p \in Project : AllKept(disk[p])

CallOK(c) ==
  /\ AllKept(c.history)
  /\ c.kind # "save" /\ c.stage \in {"read", "done"} => c.history # <<>>
  /\ c.kind = "save" /\ c.stage = "done" => c.graph \in kept
  /\ c.kind = "save" => canvas \in {c.graph} \cup kept \cup beside
  /\ c.kind # "save" => MayGo

CallsOK(cs) == \A s \in Slot : cs[s] # None => CallOK(cs[s])

ClosingMayGo == window = "closing" => MayGo

\* The project that is reopened at the start is the one command nobody waits for.
DueIn(cs) == \E s \in Slot : cs[s] # None /\ cs[s].kind # "reopen"
BusyForACommand == busy => DueIn(calls)

DocumentInv ==
  /\ TypeOK
  /\ FilesAreKept
  /\ CallsOK(calls)
  /\ ClosingMayGo
  /\ BusyForACommand
  /\ CleanMeansKept
  /\ LostOnlyBeside

-----------------------------------------------------------------------------
(* Commands in flight.                                                     *)

Commands == [Slot -> Call \cup {None}]
Stage    == {"asked", "read", "blind", "done", "failed", "listing"}

LEMMA Asking ==
  ASSUME NEW kind \in {"save", "open", "reopen", "restore"}, NEW p \in Project
  PROVE  /\ Ask(kind, p) \in Call
         /\ Ask(kind, p).kind = kind /\ Ask(kind, p).stage = "asked"
         /\ Ask(kind, p).path = p /\ Ask(kind, p).history = <<>>
<1>1. <<>> \in Seq(Graph) /\ Blank \in Graph /\ 0 \in Nat
  BY DocumentAssumption DEF Graph, Blank
<1> QED BY <1>1 DEF Ask, Call

LEMMA Sending ==
  ASSUME TypeOK, NEW c \in Call, NEW cs \in Commands, Send(c, cs)
  PROVE  /\ calls' \in Commands
         /\ sent' \in 0 .. MaxSent
         /\ busy'
         /\ \E s \in Slot : /\ calls'[s] = c
                            /\ \A t \in Slot : t # s => calls'[t] = cs[t]
<1>1. PICK s \in Slot : cs[s] = None /\ calls' = [cs EXCEPT ![s] = c]
  BY DEF Send
<1>2. sent' \in 0 .. MaxSent
  BY DocumentAssumption DEF Send, TypeOK
<1>3. /\ calls' \in Commands
      /\ calls'[s] = c
      /\ \A t \in Slot : t # s => calls'[t] = cs[t]
  BY <1>1 DEF Commands
<1> QED BY <1>2, <1>3 DEF Send

LEMMA Moving ==
  ASSUME TypeOK, NEW s \in Slot, calls[s] # None,
         NEW stage \in Stage, NEW h \in Seq(Graph), Move(s, stage, h)
  PROVE  /\ calls[s] \in Call
         /\ calls' \in Commands
         /\ calls'[s] \in Call /\ calls'[s] # None
         /\ calls'[s].kind = calls[s].kind /\ calls'[s].graph = calls[s].graph
         /\ calls'[s].stage = stage /\ calls'[s].history = h
         /\ \A t \in Slot : t # s => calls'[t] = calls[t]
<1>1. calls[s] \in Call
  BY DEF TypeOK
<1> DEFINE moved == [calls[s] EXCEPT !.stage = stage, !.history = h]
<1>2. moved \in Call
  BY <1>1 DEF Call, Stage
<1>3. calls' = [calls EXCEPT ![s] = moved]
  BY DEF Move
<1>5. /\ moved.kind = calls[s].kind /\ moved.graph = calls[s].graph
      /\ moved.stage = stage /\ moved.history = h
  BY <1>1 DEF Call
<1> HIDE DEF moved
<1>4. /\ calls' \in Commands
      /\ calls'[s] = moved
      /\ \A t \in Slot : t # s => calls'[t] = calls[t]
  BY <1>2, <1>3 DEF TypeOK, Commands
<1> QED BY <1>1, <1>2, <1>4, <1>5, NoneAssumption DEF moved


\* A command that is left alone stays in order as long as nothing is taken back and
\* the canvas changes only to what is in a file or was edited beside it.
Grows ==
  /\ kept \subseteq kept' /\ beside \subseteq beside' /\ agreed \subseteq agreed'
  /\ canvas' = canvas \/ canvas' \in kept' \cup beside'

LEMMA CallStays ==
  ASSUME NEW c \in Call, CallOK(c), Grows
  PROVE  CallOK(c)'
BY DEF CallOK, Grows, AllKept, MayGo

LEMMA CallsStay ==
  ASSUME NEW cs \in Commands, CallsOK(cs), Grows
  PROVE  CallsOK(cs)'
BY CallStays DEF CallsOK, Commands

LEMMA FilesStay ==
  ASSUME FilesAreKept, Grows, UNCHANGED disk
  PROVE  FilesAreKept'
BY DEF FilesAreKept, Grows, AllKept

-----------------------------------------------------------------------------
(* What replaces the canvas or closes the window, beside the commands cs.  *)

LEMMA WorkFields ==
  ASSUME NEW w \in Work
  PROVE  /\ w.what = "open" => w.from \in Project
         /\ w.what = "restore" => w.at \in Nat /\ w.graph \in Graph
BY DEF Work

LEMMA StayKeeps ==
  ASSUME DocumentInv, NEW cs \in Commands, NEW b \in BOOLEAN,
         CallsOK(cs), b => DueIn(cs), Stay(cs, b),
         kept' = kept, beside' = beside, agreed \subseteq agreed', agreed' \subseteq Graph,
         UNCHANGED <<disk, reported, edits>>,
         question' \in Work \cup {None},
         window' = window \/ (window' = "closing" /\ canvas \in kept \cup beside \cup agreed')
  PROVE  DocumentInv'
<1>1. UNCHANGED <<onScreen, lost, sent>> /\ busy' = b /\ calls' = cs
  BY DEF Stay
<1>2. TypeOK'
  BY <1>1 DEF DocumentInv, TypeOK, onScreen, Commands
<1>3. Grows
  BY <1>1 DEF Grows, onScreen
<1>4. FilesAreKept' /\ CallsOK(calls)'
  BY <1>1, <1>3, FilesStay, CallsStay DEF DocumentInv
<1>5. ClosingMayGo'
  BY <1>1 DEF DocumentInv, ClosingMayGo, MayGo, onScreen
<1>6. BusyForACommand'
  BY <1>1 DEF BusyForACommand, DueIn
<1>7. CleanMeansKept' /\ LostOnlyBeside'
  BY <1>1 DEF DocumentInv, CleanMeansKept, LostOnlyBeside, onScreen
<1> QED BY <1>2, <1>4, <1>5, <1>6, <1>7 DEF DocumentInv

LEMMA ClearKeeps ==
  ASSUME DocumentInv, NEW g \in {Blank, Demo}, NEW cs \in Commands, NEW b \in BOOLEAN,
         CallsOK(cs), b => DueIn(cs), Clear(g, cs, b),
         kept' = kept, beside' = beside, agreed \subseteq agreed', agreed' \subseteq Graph,
         UNCHANGED <<disk, reported, edits>>,
         question' \in Work \cup {None},
         canvas \in kept \cup beside \cup agreed'
  PROVE  DocumentInv'
<1>1. /\ canvas' = g /\ path' = None /\ versions' = <<>> /\ dirty' = (g = Demo)
      /\ busy' = b /\ calls' = cs
      /\ lost' = lost \cup ({canvas} \ (kept \cup agreed'))
      /\ UNCHANGED <<window, sent>>
  BY DEF Clear, Forget
<1>2. g \in kept /\ g \in Graph
  BY DocumentAssumption DEF DocumentInv, FilesAreKept, Graph, Blank, Demo
<1>3. TypeOK'
  <2>1. lost' \subseteq Graph
    BY <1>1 DEF DocumentInv, TypeOK
  <2>2. versions' \in Seq(Graph)
    BY <1>1
  <2> QED BY <1>1, <1>2, <2>1, <2>2 DEF DocumentInv, TypeOK, Commands
<1>4. Grows
  BY <1>1, <1>2 DEF Grows
<1>5. FilesAreKept' /\ CallsOK(calls)'
  BY <1>1, <1>4, FilesStay, CallsStay DEF DocumentInv
<1>6. ClosingMayGo' /\ CleanMeansKept' /\ BusyForACommand'
  BY <1>1, <1>2 DEF ClosingMayGo, MayGo, CleanMeansKept, BusyForACommand, DueIn
<1>7. LostOnlyBeside'
  BY <1>1 DEF DocumentInv, LostOnlyBeside
<1> QED BY <1>3, <1>5, <1>6, <1>7 DEF DocumentInv

\* A command that goes out: a save takes the canvas along, any other may replace it.
LEMMA SendKeeps ==
  ASSUME DocumentInv, NEW c \in Call, NEW cs \in Commands, CallsOK(cs), Send(c, cs),
         UNCHANGED <<onScreen, lost, disk, reported, window, edits>>,
         kept' = kept, beside' = beside, agreed \subseteq agreed', agreed' \subseteq Graph,
         question' \in Work \cup {None},
         c.kind # "reopen", c.stage = "asked", c.history = <<>>,
         IF c.kind = "save" THEN c.graph = canvas
                            ELSE canvas \in kept \cup beside \cup agreed'
  PROVE  DocumentInv'
<1>1. /\ calls' \in Commands /\ sent' \in 0 .. MaxSent /\ busy'
      /\ busy' \in BOOLEAN
  BY Sending DEF DocumentInv, Send
<1>2. PICK s \in Slot : calls'[s] = c /\ \A t \in Slot : t # s => calls'[t] = cs[t]
  BY Sending DEF DocumentInv
<1>3. TypeOK'
  BY <1>1 DEF DocumentInv, TypeOK, onScreen, Commands
<1>4. Grows
  BY DEF Grows, onScreen
<1>5. CallOK(c)'
  BY DEF CallOK, AllKept, MayGo, onScreen
<1>6. CallsOK(cs)'
  BY <1>4, CallsStay DEF DocumentInv
<1>7. CallsOK(calls)'
  BY <1>2, <1>5, <1>6 DEF CallsOK
<1>8. BusyForACommand'
  BY <1>2, NoneAssumption DEF BusyForACommand, DueIn
<1>9. FilesAreKept'
  BY <1>4, FilesStay DEF DocumentInv
<1>10. ClosingMayGo' /\ CleanMeansKept' /\ LostOnlyBeside'
  BY DEF DocumentInv, ClosingMayGo, MayGo, CleanMeansKept, LostOnlyBeside, onScreen
<1> QED BY <1>3, <1>7, <1>8, <1>9, <1>10 DEF DocumentInv

LEMMA DoKeeps ==
  ASSUME DocumentInv, NEW w \in Work, NEW cs \in Commands, NEW b \in BOOLEAN,
         CallsOK(cs), b => DueIn(cs), Do(w, cs, b),
         kept' = kept, beside' = beside, agreed \subseteq agreed', agreed' \subseteq Graph,
         UNCHANGED <<disk, reported, edits>>,
         question' \in Work \cup {None},
         canvas \in kept \cup beside \cup agreed'
  PROVE  DocumentInv'
<1>1. CASE w.what = "new" /\ Clear(Blank, cs, b)
  BY <1>1, ClearKeeps
<1>2. CASE w.what = "demo" /\ Clear(Demo, cs, b)
  BY <1>2, ClearKeeps
<1>3. CASE w.what = "open" /\ Request(Ask("open", w.from), cs)
  <2>1. w.from \in Project
    BY <1>3, WorkFields
  <2> DEFINE c == Ask("open", w.from)
  <2>2. c \in Call /\ c.kind = "open" /\ c.stage = "asked" /\ c.history = <<>>
    BY <2>1, Asking
  <2> HIDE DEF c
  <2>3. Send(c, cs) /\ UNCHANGED <<onScreen, lost, window>>
    BY <1>3 DEF Request, c
  <2> QED BY <2>2, <2>3, SendKeeps
<1>4. CASE /\ w.what = "restore" /\ path # None
           /\ Request([Ask("restore", path) EXCEPT !.at = w.at, !.graph = w.graph], cs)
  <2>1. path \in Project /\ w.at \in Nat /\ w.graph \in Graph
    BY <1>4, WorkFields DEF DocumentInv, TypeOK
  <2> DEFINE c == [Ask("restore", path) EXCEPT !.at = w.at, !.graph = w.graph]
  <2>2. c \in Call /\ c.kind = "restore" /\ c.stage = "asked" /\ c.history = <<>>
    <3>1. Ask("restore", path) \in Call
      BY <2>1, Asking
    <3> QED BY <2>1, <3>1 DEF Ask, Call
  <2> HIDE DEF c
  <2>3. Send(c, cs) /\ UNCHANGED <<onScreen, lost, window>>
    BY <1>4 DEF Request, c
  <2> QED BY <2>2, <2>3, SendKeeps
<1>5. CASE w.what = "restore" /\ path = None /\ Stay(cs, b) /\ UNCHANGED window
  BY <1>5, StayKeeps
<1>6. CASE w.what = "close" /\ Stay(cs, b) /\ window' = "closing"
  BY <1>6, StayKeeps
<1> QED BY <1>1, <1>2, <1>3, <1>4, <1>5, <1>6 DEF Do


-----------------------------------------------------------------------------
(* The person.                                                             *)

LEMMA InvFacts ==
  ASSUME DocumentInv
  PROVE  /\ calls \in Commands /\ CallsOK(calls)
         /\ busy \in BOOLEAN /\ busy => DueIn(calls)
         /\ question \in Work \cup {None} /\ question # None => question \in Work
         /\ agreed \subseteq Graph /\ canvas \in Graph
         /\ ~dirty => canvas \in kept \cup beside
         /\ lost \subseteq beside
BY DEF DocumentInv, TypeOK, Commands, BusyForACommand, CleanMeansKept, LostOnlyBeside

LEMMA ReplaceKeeps ==
  ASSUME DocumentInv, NEW w \in Work, Replace(w)
  PROVE  DocumentInv'
<1>1. /\ kept' = kept /\ beside' = beside /\ agreed' = agreed
      /\ agreed \subseteq agreed' /\ agreed' \subseteq Graph
      /\ UNCHANGED <<disk, reported, edits>>
  BY DEF Replace, DocumentInv, TypeOK
<1>2. calls \in Commands /\ CallsOK(calls) /\ busy \in BOOLEAN /\ (busy => DueIn(calls))
  BY DEF DocumentInv, TypeOK, Commands, BusyForACommand
<1>3. CASE dirty
  <2>1. question' \in Work \cup {None} /\ Stay(calls, busy) /\ window' = window
    BY <1>3 DEF Replace
  <2>2. window' = window \/ (window' = "closing" /\ canvas \in kept \cup beside \cup agreed')
    BY <2>1
  <2> QED BY <1>1, <1>2, <2>1, <2>2, StayKeeps
<1>4. CASE ~dirty
  <2>1. Do(w, calls, busy)
    BY <1>4 DEF Replace
  <2>3. question' \in Work \cup {None}
    BY <1>4 DEF Replace, DocumentInv, TypeOK
  <2>2. canvas \in kept \cup beside \cup agreed'
    BY <1>4 DEF DocumentInv, CleanMeansKept
  <2> QED BY <1>1, <1>2, <2>1, <2>2, <2>3, DoKeeps
<1> QED BY <1>3, <1>4

LEMMA EditKeeps ==
  ASSUME DocumentInv, Edit
  PROVE  DocumentInv'
<1>1. /\ edits \in 0 .. MaxEdits /\ edits < MaxEdits
      /\ edits' = edits + 1 /\ canvas' = edits + 1 /\ dirty'
      /\ beside' = IF InFlight = {} /\ window = "open" THEN beside ELSE beside \cup {edits + 1}
      /\ UNCHANGED <<path, versions, busy, question, calls, runtimeVars, sent, kept, agreed, lost>>
  BY DEF Edit, DocumentInv, TypeOK
<1>2. edits + 1 \in Graph /\ edits + 1 \in 0 .. MaxEdits
  BY <1>1, DocumentAssumption DEF Graph
<1>3. TypeOK'
  BY <1>1, <1>2 DEF DocumentInv, TypeOK, Edit, runtimeVars
<1>4. CASE InFlight = {} /\ window = "open"
  <2>1. \A s \in Slot : calls'[s] = None
    BY <1>1, <1>4 DEF InFlight
  <2>2. CallsOK(calls)' /\ ClosingMayGo'
    BY <1>1, <1>4, <2>1 DEF CallsOK, ClosingMayGo, runtimeVars
  <2>3. FilesAreKept' /\ BusyForACommand' /\ CleanMeansKept' /\ LostOnlyBeside'
    BY <1>1, <1>4 DEF DocumentInv, FilesAreKept, AllKept, BusyForACommand, DueIn,
         CleanMeansKept, LostOnlyBeside, runtimeVars
  <2> QED BY <1>3, <2>2, <2>3 DEF DocumentInv
<1>5. CASE ~ (InFlight = {} /\ window = "open")
  <2>1. beside' = beside \cup {edits + 1} /\ canvas' \in beside'
    BY <1>1, <1>5
  <2>2. Grows
    BY <1>1, <2>1 DEF Grows
  <2>3. CallsOK(calls)' /\ FilesAreKept'
    BY <1>1, <2>2, CallsStay, FilesStay, InvFacts DEF DocumentInv, runtimeVars, CallsOK
  <2>4. ClosingMayGo' /\ BusyForACommand' /\ CleanMeansKept' /\ LostOnlyBeside'
    BY <1>1, <2>1 DEF DocumentInv, ClosingMayGo, MayGo, BusyForACommand, DueIn,
         CleanMeansKept, LostOnlyBeside
  <2> QED BY <1>3, <2>3, <2>4 DEF DocumentInv
<1> QED BY <1>4, <1>5

LEMMA ConfirmKeeps ==
  ASSUME DocumentInv, ConfirmDiscard
  PROVE  DocumentInv'
<1>1. question \in Work /\ Do(question, calls, busy)
  BY DEF ConfirmDiscard, DocumentInv, TypeOK
<1>2. /\ kept' = kept /\ beside' = beside
      /\ agreed \subseteq agreed' /\ agreed' \subseteq Graph
      /\ UNCHANGED <<disk, reported, edits>>
      /\ question' \in Work \cup {None}
      /\ canvas \in kept \cup beside \cup agreed'
  BY DEF ConfirmDiscard, DocumentInv, TypeOK
<1>3. calls \in Commands /\ CallsOK(calls) /\ busy \in BOOLEAN /\ (busy => DueIn(calls))
  BY DEF DocumentInv, TypeOK, Commands, BusyForACommand
<1> QED BY <1>1, <1>2, <1>3, DoKeeps

LEMMA CancelKeeps ==
  ASSUME DocumentInv, CancelDiscard
  PROVE  DocumentInv'
<1>1. /\ kept' = kept /\ beside' = beside
      /\ agreed \subseteq agreed' /\ agreed' \subseteq Graph
      /\ UNCHANGED <<disk, reported, edits>>
      /\ question' \in Work \cup {None}
      /\ window' = window /\ Stay(calls, busy)
  BY DEF CancelDiscard, DocumentInv, TypeOK, runtimeVars
<1>2. calls \in Commands /\ CallsOK(calls) /\ busy \in BOOLEAN /\ (busy => DueIn(calls))
  BY DEF DocumentInv, TypeOK, Commands, BusyForACommand
<1>3. window' = window \/ (window' = "closing" /\ canvas \in kept \cup beside \cup agreed')
  BY <1>1
<1> QED BY <1>1, <1>2, <1>3, StayKeeps

LEMMA StartSaveKeeps ==
  ASSUME DocumentInv, NEW p \in Project, NEW next \in Work \cup {None}, StartSave(p, next)
  PROVE  DocumentInv'
<1> DEFINE c == [Ask("save", p) EXCEPT !.graph = canvas, !.next = next]
<1>1. c \in Call /\ c.kind = "save" /\ c.stage = "asked" /\ c.history = <<>> /\ c.graph = canvas
  <2>1. Ask("save", p) \in Call
    BY Asking
  <2> QED BY <2>1, InvFacts DEF Ask, Call
<1>2. Send(c, calls)
  BY DEF StartSave
<1> HIDE DEF c
<1>3. /\ UNCHANGED <<onScreen, question, runtimeVars, edits, kept, agreed, beside, lost>>
  BY DEF StartSave
<1>4. /\ kept' = kept /\ beside' = beside
      /\ agreed \subseteq agreed' /\ agreed' \subseteq Graph
      /\ UNCHANGED <<onScreen, lost, disk, reported, window, edits>>
      /\ question' \in Work \cup {None}
  BY <1>3 DEF DocumentInv, TypeOK, runtimeVars
<1>5. calls \in Commands /\ CallsOK(calls)
  BY DEF DocumentInv, TypeOK, Commands
<1>6. c.kind # "reopen"
  BY <1>1
<1>7. IF c.kind = "save" THEN c.graph = canvas ELSE canvas \in kept \cup beside \cup agreed'
  BY <1>1
<1> QED BY <1>1, <1>2, <1>4, <1>5, <1>6, <1>7, SendKeeps

\* The window goes: what it showed was saved, agreed to, or edited meanwhile.
LEMMA EndKeeps ==
  ASSUME DocumentInv, End, agreed' = agreed,
         beside \subseteq beside', beside' \subseteq Graph,
         canvas \in kept \cup beside' \cup agreed
  PROVE  DocumentInv'
<1>1. /\ window' = "gone" /\ canvas' = Blank /\ path' = None /\ versions' = <<>>
      /\ dirty' = FALSE /\ busy' = FALSE /\ question' = None
      /\ calls' = [s \in Slot |-> None] /\ reported' = FALSE
      /\ lost' = lost \cup ({canvas} \ (kept \cup agreed'))
      /\ UNCHANGED <<disk, edits, sent, kept>>
  BY DEF End, Forget
<1>2. versions' \in Seq(Graph) /\ Blank \in Graph /\ Blank \in kept
  BY <1>1, DocumentAssumption DEF DocumentInv, FilesAreKept, Graph, Blank
<1>3. TypeOK'
  <2>1. calls' \in [Slot -> Call \cup {None}]
    BY <1>1
  <2>2. lost' \subseteq Graph
    BY <1>1 DEF DocumentInv, TypeOK
  <2> QED BY <1>1, <1>2, <2>1, <2>2 DEF DocumentInv, TypeOK
<1>4. \A s \in Slot : calls'[s] = None
  BY <1>1
<1>5. CallsOK(calls)' /\ ClosingMayGo' /\ BusyForACommand' /\ CleanMeansKept'
  BY <1>1, <1>2, <1>4 DEF CallsOK, ClosingMayGo, BusyForACommand, CleanMeansKept
<1>6. FilesAreKept' /\ LostOnlyBeside'
  BY <1>1 DEF DocumentInv, FilesAreKept, AllKept, LostOnlyBeside
<1> QED BY <1>3, <1>5, <1>6 DEF DocumentInv

LEMMA PressCloseKeeps ==
  ASSUME DocumentInv, PressClose
  PROVE  DocumentInv'
<1>1. CASE reported /\ window = "open" /\ Replace([what |-> "close"])
  <2>1. [what |-> "close"] \in Work
    BY DEF Work
  <2> QED BY <1>1, <2>1, ReplaceKeeps
<1>2. CASE /\ ~reported \/ window = "closing"
           /\ beside' = IF reported = dirty THEN beside ELSE beside \cup {canvas}
           /\ End
  <2>1. beside \subseteq beside' /\ beside' \subseteq Graph
    BY <1>2 DEF DocumentInv, TypeOK
  <2>2. canvas \in kept \cup beside' \cup agreed
    BY <1>2 DEF DocumentInv, CleanMeansKept, ClosingMayGo, MayGo
  <2> QED BY <1>2, <2>1, <2>2, EndKeeps DEF PressClose
<1> QED BY <1>1, <1>2 DEF PressClose

LEMMA PersonKeeps ==
  ASSUME DocumentInv, Person
  PROVE  DocumentInv'
<1>1. ASSUME NewProject \/ LoadDemo PROVE DocumentInv'
  <2>1. [what |-> "new"] \in Work /\ [what |-> "demo"] \in Work
    BY DEF Work
  <2> QED BY <1>1, <2>1, ReplaceKeeps DEF NewProject, LoadDemo
<1>2. CASE OpenProject
  <2>1. PICK p \in Project : Replace([what |-> "open", from |-> p])
    BY <1>2 DEF OpenProject
  <2>2. [what |-> "open", from |-> p] \in Work
    BY DEF Work
  <2> QED BY <2>1, <2>2, ReplaceKeeps
<1>3. CASE RestoreVersion
  <2>1. PICK i \in DOMAIN versions :
          Replace([what |-> "restore", at |-> i, graph |-> versions[i]])
    BY <1>3 DEF RestoreVersion
  <2>2. i \in Nat /\ versions[i] \in Graph
    BY LenProperties DEF DocumentInv, TypeOK
  <2>3. [what |-> "restore", at |-> i, graph |-> versions[i]] \in Work
    BY <2>2 DEF Work
  <2> QED BY <2>1, <2>3, ReplaceKeeps
<1>4. CASE SaveProject
  BY <1>4, StartSaveKeeps DEF SaveProject
<1>5. CASE SaveThenProceed
  <2>1. question \in Work \cup {None}
    BY DEF DocumentInv, TypeOK
  <2> QED BY <1>5, <2>1, StartSaveKeeps DEF SaveThenProceed
<1> QED BY <1>1, <1>2, <1>3, <1>4, <1>5, EditKeeps, ConfirmKeeps, CancelKeeps, PressCloseKeeps
     DEF Person


-----------------------------------------------------------------------------
(* The runtime.                                                            *)

LEMMA ReportKeeps ==
  ASSUME DocumentInv, HearReport
  PROVE  DocumentInv'
<1>1. TypeOK'
  BY DEF DocumentInv, TypeOK, HearReport, onScreen
<1>2. Grows
  BY DEF HearReport, Grows, onScreen
<1>3. UNCHANGED <<calls, disk, window, busy, dirty, canvas, kept, beside, agreed, lost>>
  BY DEF HearReport, onScreen
<1>4. FilesAreKept' /\ CallsOK(calls)'
  BY <1>2, <1>3, FilesStay, CallsStay, InvFacts DEF DocumentInv, CallsOK
<1>5. ClosingMayGo' /\ BusyForACommand' /\ CleanMeansKept' /\ LostOnlyBeside'
  BY <1>3 DEF DocumentInv, ClosingMayGo, MayGo, BusyForACommand, DueIn, CleanMeansKept,
       LostOnlyBeside
<1> QED BY <1>1, <1>4, <1>5 DEF DocumentInv

\* A command that moves a stage on: the others are as they were, and it stays due.
LEMMA MoveKeeps ==
  ASSUME DocumentInv, NEW s \in Slot, calls[s] # None,
         NEW stage \in Stage, NEW h \in Seq(Graph), Move(s, stage, h),
         Grows,
         \A c \in Call : /\ c.kind = calls[s].kind /\ c.graph = calls[s].graph
                         /\ c.stage = stage /\ c.history = h
                         => CallOK(c)'
  PROVE  CallsOK(calls)' /\ (DueIn(calls) => DueIn(calls)')
<1>1. /\ calls[s] \in Call /\ calls \in Commands
      /\ calls'[s] \in Call /\ calls'[s] # None
      /\ calls'[s].kind = calls[s].kind /\ calls'[s].graph = calls[s].graph
      /\ calls'[s].stage = stage /\ calls'[s].history = h
      /\ \A t \in Slot : t # s => calls'[t] = calls[t]
      /\ calls' \in Commands
  <2>1. TypeOK /\ calls \in Commands
    BY InvFacts DEF DocumentInv
  <2> QED BY <2>1, Moving
<1>2. CallsOK(calls)'
  <2>1. \A t \in Slot, c \in Call : t # s /\ calls[t] = c => CallOK(c)'
    <3> TAKE t \in Slot, c \in Call
    <3> HAVE t # s /\ calls[t] = c
    <3>1. CallOK(c)
      BY NoneAssumption DEF DocumentInv, CallsOK
    <3> QED BY <3>1, CallStays
  <2>2. \A t \in Slot, c \in Call : calls'[t] = c => CallOK(c)'
    BY <1>1, <2>1
  <2> SUFFICES ASSUME NEW t \in Slot, calls'[t] # None PROVE CallOK(calls[t])'
    BY DEF CallsOK
  <2>3. calls'[t] \in Call
    BY <1>1 DEF Commands
  <2> QED BY <2>2, <2>3
<1>3. DueIn(calls) => DueIn(calls)'
  BY <1>1 DEF DueIn
<1> QED BY <1>2, <1>3


LEMMA CallFields ==
  ASSUME DocumentInv, NEW s \in Slot, calls[s] # None
  PROVE  /\ calls[s] \in Call /\ CallOK(calls[s])
         /\ calls[s].path \in Project /\ calls[s].graph \in Graph
         /\ calls[s].history \in Seq(Graph)
         /\ calls[s].kind \in {"save", "open", "reopen", "restore"}
         /\ calls[s].next \in Work \cup {None}
<1>1. calls[s] \in Call
  BY DEF DocumentInv, TypeOK
<1>2. CallOK(calls[s])
  BY DEF DocumentInv, CallsOK
<1> QED BY <1>1, <1>2 DEF Call

\* A command that only moves on, the screen and the files left as they are.
LEMMA MoveAloneKeeps ==
  ASSUME DocumentInv, NEW s \in Slot, calls[s] # None,
         NEW stage \in Stage, NEW h \in Seq(Graph), Move(s, stage, h),
         AllKept(h), calls[s].kind # "save" /\ stage \in {"read", "done"} => h # <<>>,
         ~ (calls[s].kind = "save" /\ stage = "done"),
         UNCHANGED <<onScreen, busy, question, runtimeVars, edits, sent, kept, agreed, beside, lost>>
  PROVE  DocumentInv'
<1>1. Grows
  BY DEF Grows, onScreen
<1>2. ASSUME NEW c \in Call, c.kind = calls[s].kind, c.graph = calls[s].graph,
             c.stage = stage, c.history = h
      PROVE  CallOK(c)'
  <2>1. CallOK(calls[s])
    BY CallFields
  <2>2. UNCHANGED <<canvas, kept, beside, agreed>>
    BY DEF onScreen
  <2> QED BY <1>2, <2>1, <2>2 DEF CallOK, AllKept, MayGo
<1>3. CallsOK(calls)' /\ (DueIn(calls) => DueIn(calls)')
  BY <1>1, <1>2, MoveKeeps
<1>4. TypeOK'
  <2>1. calls' \in Commands
    BY Moving DEF DocumentInv
  <2> QED BY <2>1 DEF DocumentInv, TypeOK, Commands, onScreen, runtimeVars
<1>5. FilesAreKept'
  BY <1>1, FilesStay DEF DocumentInv, runtimeVars
<1>6. BusyForACommand'
  BY <1>3 DEF DocumentInv, BusyForACommand
<1>7. ClosingMayGo' /\ CleanMeansKept' /\ LostOnlyBeside'
  BY DEF DocumentInv, ClosingMayGo, MayGo, CleanMeansKept, LostOnlyBeside, onScreen, runtimeVars
<1> QED BY <1>3, <1>4, <1>5, <1>6, <1>7 DEF DocumentInv

LEMMA ReadKeeps ==
  ASSUME DocumentInv, Read
  PROVE  DocumentInv'
<1>1. PICK s \in InFlight :
        LET c == calls[s]
            h == disk[c.path]
        IN  \/ c.kind \in {"open", "reopen"} /\ Openable(h) /\ Move(s, "done", h)
            \/ c.kind = "save" /\ (Openable(h) \/ h = <<>>) /\ Move(s, "read", h)
            \/ c.kind = "save" /\ Move(s, "blind", <<>>)
            \/ /\ c.kind = "restore" /\ Openable(h)
               /\ c.at \in DOMAIN h /\ h[c.at] = c.graph
               /\ Move(s, "read", h)
            \/ c.kind # "save" /\ Move(s, "failed", <<>>)
  BY DEF Read
<1> DEFINE h == disk[calls[s].path]
<1>2. s \in Slot /\ calls[s] # None
  BY DEF InFlight
<1>3. h \in Seq(Graph) /\ AllKept(h)
  BY <1>2, CallFields DEF DocumentInv, TypeOK, FilesAreKept
<1>4. <<>> \in Seq(Graph) /\ AllKept(<<>>)
  BY DEF AllKept
<1>6. UNCHANGED <<onScreen, busy, question, runtimeVars, edits, sent, kept, agreed, beside, lost>>
  BY DEF Read
<1>7. {"done", "read", "blind", "failed"} \subseteq Stage
  BY DEF Stage
<1>8. \/ calls[s].kind \in {"open", "reopen"} /\ h # <<>> /\ Move(s, "done", h)
      \/ calls[s].kind = "save" /\ Move(s, "read", h)
      \/ calls[s].kind = "save" /\ Move(s, "blind", <<>>)
      \/ calls[s].kind = "restore" /\ h # <<>> /\ Move(s, "read", h)
      \/ calls[s].kind # "save" /\ Move(s, "failed", <<>>)
  BY <1>1 DEF Openable
<1> HIDE DEF h
<1>9. CASE calls[s].kind \in {"open", "reopen"} /\ h # <<>> /\ Move(s, "done", h)
  BY <1>2, <1>3, <1>6, <1>7, <1>9, MoveAloneKeeps
<1>5. CASE calls[s].kind = "save" /\ Move(s, "read", h)
  BY <1>2, <1>3, <1>5, <1>6, <1>7, MoveAloneKeeps
<1>10. CASE calls[s].kind = "save" /\ Move(s, "blind", <<>>)
  BY <1>2, <1>4, <1>6, <1>7, <1>10, MoveAloneKeeps
<1>11. CASE calls[s].kind = "restore" /\ h # <<>> /\ Move(s, "read", h)
  BY <1>2, <1>3, <1>6, <1>7, <1>11, MoveAloneKeeps
<1>12. CASE calls[s].kind # "save" /\ Move(s, "failed", <<>>)
  BY <1>2, <1>4, <1>6, <1>7, <1>12, MoveAloneKeeps
<1> QED BY <1>5, <1>8, <1>9, <1>10, <1>11, <1>12

LEMMA RecordKeeps ==
  ASSUME NEW h \in Seq(Graph), NEW g \in Graph, AllKept(h)
  PROVE  /\ Record(h, g) \in Seq(Graph) /\ Append(h, g) \in Seq(Graph)
         /\ \A i \in DOMAIN Record(h, g) : Record(h, g)[i] \in kept \cup {g}
         /\ \A i \in DOMAIN Append(h, g) : Append(h, g)[i] \in kept \cup {g}
         /\ Append(h, g) # <<>>
<1>1. /\ Append(h, g) \in Seq(Graph)
      /\ Len(Append(h, g)) = Len(h) + 1
      /\ \A i \in 1 .. Len(h) : Append(h, g)[i] = h[i]
      /\ Append(h, g)[Len(h) + 1] = g
  BY AppendProperties
<1>2. DOMAIN Append(h, g) = 1 .. Len(h) + 1 /\ DOMAIN h = 1 .. Len(h) /\ Len(h) \in Nat
  BY <1>1, LenProperties
<1>3. \A i \in DOMAIN Append(h, g) : Append(h, g)[i] \in kept \cup {g}
  BY <1>1, <1>2 DEF AllKept
<1>4. Append(h, g) # <<>>
  <2>1. Len(Append(h, g)) # 0
    BY <1>1, <1>2
  <2> QED BY <1>1, <2>1, EmptySeq
<1> QED BY <1>1, <1>3, <1>4 DEF Record, AllKept


LEMMA WriteKeeps ==
  ASSUME DocumentInv, Write
  PROVE  DocumentInv'
<1>1. PICK s \in InFlight :
        /\ calls[s].stage \in {"read", "blind"}
        /\ LET c == calls[s]
               h == IF c.kind = "save" THEN Record(c.history, c.graph)
                                       ELSE Append(c.history, c.graph)
           IN  \/ /\ disk' = [disk EXCEPT ![c.path] = h]
                  /\ kept' = kept \cup {c.graph}
                  /\ Move(s, "done", h)
               \/ Move(s, "failed", <<>>) /\ UNCHANGED <<disk, kept>>
  BY DEF Write
<1> DEFINE g == calls[s].graph
           h == IF calls[s].kind = "save" THEN Record(calls[s].history, g)
                                          ELSE Append(calls[s].history, g)
<1>2. s \in Slot /\ calls[s] # None
  BY DEF InFlight
<1>3. UNCHANGED <<onScreen, busy, question, reported, window, edits, sent, agreed, beside, lost>>
  BY DEF Write
<1>4. {"done", "failed"} \subseteq Stage
  BY DEF Stage
<1>5. CASE Move(s, "failed", <<>>) /\ UNCHANGED <<disk, kept>>
  <2>1. <<>> \in Seq(Graph) /\ AllKept(<<>>)
    BY DEF AllKept
  <2>2. UNCHANGED <<onScreen, busy, question, runtimeVars, edits, sent, kept, agreed, beside, lost>>
    BY <1>3, <1>5 DEF runtimeVars
  <2> QED BY <1>2, <1>4, <1>5, <2>1, <2>2, MoveAloneKeeps
<1>6. CASE /\ disk' = [disk EXCEPT ![calls[s].path] = h]
           /\ kept' = kept \cup {g}
           /\ Move(s, "done", h)
  <2>1. /\ calls[s].history \in Seq(Graph) /\ g \in Graph /\ calls[s].path \in Project
        /\ AllKept(calls[s].history) /\ CallOK(calls[s])
    BY <1>2, CallFields DEF CallOK
  <2>2. h \in Seq(Graph) /\ (calls[s].kind # "save" => h # <<>>)
    BY <2>1, RecordKeeps
  <2>3. \A i \in DOMAIN h : h[i] \in kept \cup {g}
    <3>1. CASE calls[s].kind = "save"
      BY <2>1, <3>1, RecordKeeps
    <3>2. CASE calls[s].kind # "save"
      BY <2>1, <3>2, RecordKeeps
    <3> QED BY <3>1, <3>2
  <2> HIDE DEF h, g
  <2>4. Grows
    BY <1>3, <1>6 DEF Grows, onScreen
  <2>5. ASSUME NEW c \in Call, c.kind = calls[s].kind, c.graph = calls[s].graph,
               c.stage = "done", c.history = h
        PROVE  CallOK(c)'
    <3>1. UNCHANGED <<canvas, beside, agreed>>
      BY <1>3 DEF onScreen
    <3> QED BY <1>6, <2>1, <2>2, <2>3, <2>5, <3>1 DEF CallOK, AllKept, MayGo, g
  <2>6. CallsOK(calls)' /\ (DueIn(calls) => DueIn(calls)')
    BY <1>2, <1>4, <1>6, <2>2, <2>4, <2>5, MoveKeeps
  <2>7. TypeOK'
    <3>1. calls' \in Commands
      BY <1>2, <1>4, <1>6, <2>2, Moving DEF DocumentInv
    <3>2. disk' \in [Project -> Seq(Graph)]
      BY <1>6, <2>1, <2>2 DEF DocumentInv, TypeOK
    <3>3. kept' \subseteq Graph
      BY <1>6, <2>1 DEF DocumentInv, TypeOK
    <3> QED BY <1>3, <3>1, <3>2, <3>3 DEF DocumentInv, TypeOK, Commands, onScreen
  <2>8. FilesAreKept'
    <3>1. \A p \in Project : disk'[p] = IF p = calls[s].path THEN h ELSE disk[p]
      BY <1>6, <2>1 DEF DocumentInv, TypeOK
    <3> QED BY <1>6, <2>3, <3>1 DEF DocumentInv, FilesAreKept, AllKept
  <2>9. BusyForACommand'
    BY <1>3, <2>6 DEF DocumentInv, BusyForACommand
  <2>10. ClosingMayGo' /\ CleanMeansKept' /\ LostOnlyBeside'
    BY <1>3, <1>6 DEF DocumentInv, ClosingMayGo, MayGo, CleanMeansKept, LostOnlyBeside, onScreen
  <2> QED BY <2>6, <2>7, <2>8, <2>9, <2>10 DEF DocumentInv
<1> QED BY <1>1, <1>5, <1>6

LEMMA CloseWindowKeeps ==
  ASSUME DocumentInv, CloseWindow
  PROVE  DocumentInv'
<1>1. canvas \in kept \cup beside' \cup agreed /\ beside' = beside
  BY DEF CloseWindow, DocumentInv, ClosingMayGo, MayGo
<1>2. beside' \subseteq Graph
  BY <1>1 DEF DocumentInv, TypeOK
<1> QED BY <1>1, <1>2, EndKeeps DEF CloseWindow

-----------------------------------------------------------------------------
(* The answers.                                                            *)

LEMMA SaveAnsweredKeeps ==
  ASSUME DocumentInv, SaveAnswered
  PROVE  DocumentInv'
<1>1. PICK s \in InFlight :
        /\ calls[s].kind = "save" /\ calls[s].stage = "done"
        /\ path' = calls[s].path
        /\ versions' = calls[s].history
        /\ Move(s, "listing", <<>>)
  BY DEF SaveAnswered
<1>2. /\ dirty' = FALSE
      /\ UNCHANGED <<canvas, busy, question, runtimeVars, edits, sent, kept, agreed, beside, lost>>
  BY DEF SaveAnswered
<1>3. s \in Slot /\ calls[s] # None /\ "listing" \in Stage /\ <<>> \in Seq(Graph)
  BY DEF InFlight, Stage
<1>4. /\ calls[s].path \in Project /\ calls[s].history \in Seq(Graph)
      /\ CallOK(calls[s])
  BY <1>3, CallFields
<1>5. canvas \in kept \cup beside
  BY <1>1, <1>4 DEF CallOK
<1>6. Grows
  BY <1>2 DEF Grows
<1>7. ASSUME NEW c \in Call, c.kind = calls[s].kind, c.graph = calls[s].graph,
             c.stage = "listing", c.history = <<>>
      PROVE  CallOK(c)'
  BY <1>1, <1>2, <1>5, <1>7 DEF CallOK, AllKept, MayGo
<1>8. CallsOK(calls)' /\ (DueIn(calls) => DueIn(calls)')
  <2> DEFINE e == <<>>
  <2>1. e \in Seq(Graph) /\ Move(s, "listing", e)
    BY <1>1
  <2>2. \A c \in Call : /\ c.kind = calls[s].kind /\ c.graph = calls[s].graph
                       /\ c.stage = "listing" /\ c.history = e
                       => CallOK(c)'
    BY <1>7
  <2> HIDE DEF e
  <2> QED BY <1>3, <1>6, <2>1, <2>2, MoveKeeps
<1>9. TypeOK'
  <2>1. calls' \in Commands
    BY <1>1, <1>3, Moving DEF DocumentInv
  <2>2. path' \in Project /\ versions' \in Seq(Graph) /\ dirty' \in BOOLEAN
    BY <1>1, <1>2, <1>4
  <2> QED BY <1>2, <2>1, <2>2 DEF DocumentInv, TypeOK, Commands, runtimeVars
<1>10. FilesAreKept'
  BY <1>2, <1>6, FilesStay DEF DocumentInv, runtimeVars
<1>11. BusyForACommand'
  BY <1>2, <1>8 DEF DocumentInv, BusyForACommand
<1>12. ClosingMayGo' /\ CleanMeansKept' /\ LostOnlyBeside'
  BY <1>2, <1>5 DEF DocumentInv, ClosingMayGo, MayGo, CleanMeansKept, LostOnlyBeside, runtimeVars
<1> QED BY <1>8, <1>9, <1>10, <1>11, <1>12 DEF DocumentInv


LEMMA Dropping ==
  ASSUME DocumentInv, NEW s \in Slot
  PROVE  /\ [calls EXCEPT ![s] = None] \in Commands
         /\ CallsOK([calls EXCEPT ![s] = None])
         /\ calls[s].kind = "reopen" /\ busy => DueIn([calls EXCEPT ![s] = None])
<1> DEFINE cs == [calls EXCEPT ![s] = None]
<1>1. /\ cs \in Commands
      /\ cs[s] = None
      /\ \A t \in Slot : t # s => cs[t] = calls[t]
  BY DEF DocumentInv, TypeOK, Commands
<1> HIDE DEF cs
<1>2. CallsOK(cs)
  BY <1>1 DEF DocumentInv, CallsOK
<1>3. ASSUME calls[s].kind = "reopen", busy PROVE DueIn(cs)
  BY <1>1, <1>3 DEF DocumentInv, BusyForACommand, DueIn
<1> QED BY <1>1, <1>2, <1>3 DEF cs

LEMMA OpenAnsweredKeeps ==
  ASSUME DocumentInv, OpenAnswered
  PROVE  DocumentInv'
<1>1. PICK s \in InFlight :
        /\ calls[s].kind # "save" /\ calls[s].stage = "done"
        /\ Forget
        /\ canvas' = Last(calls[s].history)
        /\ path' = calls[s].path
        /\ versions' = calls[s].history
        /\ IF calls[s].kind = "open"
           THEN Move(s, "listing", <<>>) /\ UNCHANGED busy
           ELSE calls' = [calls EXCEPT ![s] = None] /\ busy' = (busy /\ calls[s].kind = "reopen")
  BY DEF OpenAnswered
<1>2. dirty' = FALSE /\ UNCHANGED <<question, runtimeVars, edits, sent, kept, agreed, beside>>
  BY DEF OpenAnswered
<1>3. s \in Slot /\ calls[s] # None /\ "listing" \in Stage /\ <<>> \in Seq(Graph)
  BY DEF InFlight, Stage
<1>4. /\ calls[s].path \in Project /\ calls[s].history \in Seq(Graph)
      /\ CallOK(calls[s])
  BY <1>3, CallFields
<1>5. canvas \in kept \cup beside \cup agreed
  BY <1>1, <1>4 DEF CallOK, MayGo
<1>6. canvas' \in kept /\ canvas' \in Graph
  <2>1. calls[s].history # <<>> /\ AllKept(calls[s].history)
    BY <1>1, <1>4 DEF CallOK
  <2>2. Len(calls[s].history) \in DOMAIN calls[s].history
    BY <1>4, <2>1, LenProperties, EmptySeq
  <2> QED BY <1>1, <1>4, <2>1, <2>2 DEF AllKept, Last
<1>7. Grows
  BY <1>2, <1>6 DEF Grows
<1>8. calls' \in Commands /\ CallsOK(calls)' /\ BusyForACommand' /\ busy' \in BOOLEAN
  <2>1. CASE calls[s].kind = "open"
    <3>1. Move(s, "listing", <<>>) /\ busy' = busy
      BY <1>1, <2>1
    <3>2. calls' \in Commands
      BY <1>3, <3>1, Moving DEF DocumentInv
    <3>3. ASSUME NEW c \in Call, c.kind = calls[s].kind, c.graph = calls[s].graph,
                 c.stage = "listing", c.history = <<>>
          PROVE  CallOK(c)'
      BY <1>1, <1>2, <1>6, <3>3 DEF CallOK, AllKept, MayGo
    <3>4. CallsOK(calls)' /\ (DueIn(calls) => DueIn(calls)')
      <4> DEFINE e == <<>>
      <4>1. e \in Seq(Graph) /\ Move(s, "listing", e)
        BY <3>1
      <4>2. \A c \in Call : /\ c.kind = calls[s].kind /\ c.graph = calls[s].graph
                           /\ c.stage = "listing" /\ c.history = e
                           => CallOK(c)'
        BY <3>3
      <4> HIDE DEF e
      <4> QED BY <1>3, <1>7, <4>1, <4>2, MoveKeeps
    <3> QED BY <3>1, <3>2, <3>4 DEF DocumentInv, TypeOK, BusyForACommand
  <2>2. CASE calls[s].kind # "open"
    <3> DEFINE cs == [calls EXCEPT ![s] = None]
    <3>1. calls' = cs /\ busy' = (busy /\ calls[s].kind = "reopen")
      BY <1>1, <2>2
    <3>2. cs \in Commands /\ CallsOK(cs) /\ (busy' => DueIn(cs))
      BY <1>3, <3>1, Dropping
    <3>3. busy' \in BOOLEAN
      BY <3>1
    <3> HIDE DEF cs
    <3>4. CallsOK(calls)'
      BY <1>7, <3>1, <3>2, CallsStay
    <3>5. BusyForACommand'
      BY <3>1, <3>2 DEF BusyForACommand, DueIn
    <3> QED BY <3>1, <3>2, <3>3, <3>4, <3>5
  <2> QED BY <2>1, <2>2
<1>9. lost' = lost \cup ({canvas} \ (kept \cup agreed))
  BY <1>1, <1>2 DEF Forget
<1>10. TypeOK'
  <2>1. path' \in Project /\ versions' \in Seq(Graph) /\ dirty' \in BOOLEAN /\ lost' \subseteq Graph
    BY <1>1, <1>2, <1>4, <1>9 DEF DocumentInv, TypeOK
  <2> QED BY <1>2, <1>6, <1>8, <2>1 DEF DocumentInv, TypeOK, Commands, runtimeVars
<1>11. FilesAreKept'
  BY <1>2, <1>7, FilesStay DEF DocumentInv, runtimeVars
<1>12. ClosingMayGo' /\ CleanMeansKept'
  BY <1>2, <1>6 DEF ClosingMayGo, MayGo, CleanMeansKept
<1>13. LostOnlyBeside'
  BY <1>2, <1>5, <1>9 DEF DocumentInv, LostOnlyBeside
<1> QED BY <1>8, <1>10, <1>11, <1>12, <1>13 DEF DocumentInv

LEMMA FinishKeeps ==
  ASSUME DocumentInv, Finish
  PROVE  DocumentInv'
<1>1. PICK s \in InFlight :
        LET others == [calls EXCEPT ![s] = None]
            b == busy /\ calls[s].kind = "reopen"
        IN  IF calls[s].next # None /\ ~dirty
            THEN question' = None /\ Do(calls[s].next, others, b)
            ELSE Stay(others, b) /\ UNCHANGED <<question, window>>
  BY DEF Finish
<1> DEFINE others == [calls EXCEPT ![s] = None]
           b == busy /\ calls[s].kind = "reopen"
<1>2. s \in Slot /\ calls[s] # None
  BY DEF InFlight
<1>3. others \in Commands /\ CallsOK(others) /\ (b => DueIn(others)) /\ b \in BOOLEAN
  BY <1>2, Dropping
<1>4. /\ kept' = kept /\ beside' = beside
      /\ agreed \subseteq agreed' /\ agreed' \subseteq Graph
      /\ UNCHANGED <<disk, reported, edits>>
  BY DEF Finish, DocumentInv, TypeOK
<1> HIDE DEF others, b
<1>5. CASE calls[s].next # None /\ ~dirty
  <2> DEFINE w == calls[s].next
  <2>1. w \in Work
    BY <1>2, <1>5, CallFields
  <2>2. Do(w, others, b) /\ question' = None
    BY <1>1, <1>5 DEF others, b
  <2>3. canvas \in kept \cup beside \cup agreed' /\ question' \in Work \cup {None}
    BY <1>5, <2>2 DEF DocumentInv, CleanMeansKept
  <2> HIDE DEF w
  <2> QED BY <1>3, <1>4, <2>1, <2>2, <2>3, DoKeeps
<1>6. CASE ~ (calls[s].next # None /\ ~dirty)
  <2>1. Stay(others, b) /\ question' = question /\ window' = window
    BY <1>1, <1>6 DEF others, b
  <2>2. question' \in Work \cup {None}
    BY <2>1 DEF DocumentInv, TypeOK
  <2>3. window' = window \/ (window' = "closing" /\ canvas \in kept \cup beside \cup agreed')
    BY <2>1
  <2> QED BY <1>3, <1>4, <2>1, <2>2, <2>3, StayKeeps
<1> QED BY <1>5, <1>6


-----------------------------------------------------------------------------
LEMMA InitEstablishes == Init => DocumentInv
<1> SUFFICES ASSUME Init PROVE DocumentInv
  OBVIOUS
<1>1. Blank \in Graph /\ Demo \in Graph /\ 0 \in 0 .. MaxEdits /\ 0 \in 0 .. MaxSent
  BY DocumentAssumption DEF Graph, Blank, Demo
<1>2. <<>> \in Seq(Graph) /\ <<Demo>> \in Seq(Graph)
  BY <1>1
<1>3. /\ canvas = Blank /\ path = None /\ versions = <<>> /\ dirty = FALSE
      /\ busy = FALSE /\ question = None /\ reported = FALSE /\ window = "open"
      /\ edits = 0 /\ sent = 0
      /\ kept = {Blank, Demo} /\ agreed = {} /\ beside = {} /\ lost = {}
      /\ disk \in [Project -> {<<>>, <<Demo>>}]
  BY DEF Init
<1>4. calls \in Commands /\ \A s \in Slot : calls[s] # None => CallOK(calls[s])
  <2>1. CASE calls = [s \in Slot |-> None]
    BY <2>1 DEF Commands
  <2>2. CASE \E p \in Project :
               calls = [s \in Slot |-> IF s = 1 THEN Ask("reopen", p) ELSE None]
    <3>1. PICK p \in Project :
                 calls = [s \in Slot |-> IF s = 1 THEN Ask("reopen", p) ELSE None]
      BY <2>2
    <3> DEFINE c == Ask("reopen", p)
    <3>2. c \in Call /\ c.kind = "reopen" /\ c.stage = "asked" /\ c.history = <<>>
      BY Asking
    <3> HIDE DEF c
    <3>3. calls = [s \in Slot |-> IF s = 1 THEN c ELSE None]
      BY <3>1 DEF c
    <3>4. CallOK(c)
      BY <1>3, <3>2 DEF CallOK, AllKept, MayGo
    <3> QED BY <3>2, <3>3, <3>4 DEF Commands
  <2> QED BY <2>1, <2>2 DEF Init
<1>5. TypeOK
  <2>1. disk \in [Project -> Seq(Graph)]
    BY <1>2, <1>3
  <2> QED BY <1>1, <1>2, <1>3, <1>4, <2>1 DEF TypeOK, Commands
<1>6. FilesAreKept
  <2>1. AllKept(<<>>) /\ AllKept(<<Demo>>)
    BY <1>3 DEF AllKept
  <2>2. \A p \in Project : disk[p] = <<>> \/ disk[p] = <<Demo>>
    BY <1>3
  <2> QED BY <1>3, <2>1, <2>2 DEF FilesAreKept
<1>7. ClosingMayGo /\ BusyForACommand /\ CleanMeansKept /\ LostOnlyBeside
  BY <1>3 DEF ClosingMayGo, BusyForACommand, CleanMeansKept, LostOnlyBeside
<1> QED BY <1>4, <1>5, <1>6, <1>7 DEF DocumentInv, CallsOK

LEMMA StutterKeeps ==
  ASSUME DocumentInv, UNCHANGED vars
  PROVE  DocumentInv'
<1>1. /\ UNCHANGED <<canvas, path, versions, dirty, busy, question, calls, disk, reported, window>>
      /\ UNCHANGED <<edits, sent, kept, agreed, beside, lost>>
  BY DEF vars, onScreen, runtimeVars
<1>2. TypeOK'
  BY <1>1 DEF DocumentInv, TypeOK
<1>3. Grows
  BY <1>1 DEF Grows
<1>4. FilesAreKept' /\ CallsOK(calls)'
  BY <1>1, <1>3, FilesStay, CallsStay, InvFacts DEF DocumentInv, CallsOK
<1>5. ClosingMayGo' /\ BusyForACommand' /\ CleanMeansKept' /\ LostOnlyBeside'
  BY <1>1 DEF DocumentInv, ClosingMayGo, MayGo, BusyForACommand, DueIn, CleanMeansKept,
       LostOnlyBeside
<1> QED BY <1>2, <1>4, <1>5 DEF DocumentInv

LEMMA StepKeeps == DocumentInv /\ [Next]_vars => DocumentInv'
BY PersonKeeps, ReportKeeps, ReadKeeps, WriteKeeps, CloseWindowKeeps, SaveAnsweredKeeps,
   OpenAnsweredKeeps, FinishKeeps, StutterKeeps DEF Next, Runtime, Editor

-----------------------------------------------------------------------------
(* The history of a file.                                                  *)

LEMMA PrefixOfItself ==
  ASSUME NEW h \in Seq(Graph)
  PROVE  IsPrefix(h, h)
BY LenProperties DEF IsPrefix

LEMMA PrefixOfAppend ==
  ASSUME NEW h \in Seq(Graph), NEW g \in Graph
  PROVE  IsPrefix(h, Append(h, g))
<1> DEFINE a == Append(h, g)
<1>1. /\ a \in Seq(Graph) /\ Len(a) = Len(h) + 1 /\ Len(h) \in Nat
      /\ \A i \in 1 .. Len(h) : a[i] = h[i]
  BY AppendProperties, LenProperties
<1>2. SubSeq(h, 1, Len(h)) = SubSeq(a, 1, Len(h))
  BY <1>1
<1> QED BY <1>1, <1>2 DEF IsPrefix

\* Only a write changes a file, and it adds to what it read or leaves it.
LEMMA StepGrowsHistory ==
  ASSUME DocumentInv, [Next]_vars, NEW p \in Project
  PROVE  \/ IsPrefix(disk[p], disk'[p])
         \/ \E s \in InFlight : calls[s].path = p /\ calls'[s] # calls[s] /\ Shortens(s)
<1>1. disk[p] \in Seq(Graph)
  BY DEF DocumentInv, TypeOK
<1>2. CASE disk' = disk
  BY <1>1, <1>2, PrefixOfItself
<1>3. CASE Write
  <2>1. PICK s \in InFlight :
          /\ calls[s].stage \in {"read", "blind"}
          /\ LET c == calls[s]
                 h == IF c.kind = "save" THEN Record(c.history, c.graph)
                                         ELSE Append(c.history, c.graph)
             IN  \/ disk' = [disk EXCEPT ![c.path] = h] /\ Move(s, "done", h)
                 \/ UNCHANGED disk
    BY <1>3 DEF Write
  <2>2. /\ s \in Slot /\ calls[s].path \in Project /\ calls[s].history \in Seq(Graph)
        /\ calls[s].graph \in Graph /\ calls[s] \in Call
    BY CallFields DEF InFlight, DocumentInv, TypeOK
  <2>3. CASE disk' # disk /\ p = calls[s].path /\ ~Shortens(s)
    <3>1. calls[s].history = disk[p]
      BY <2>1, <2>3 DEF Shortens, Stale
    <3>3. disk'[p] \in {disk[p], Append(disk[p], calls[s].graph)}
      BY <2>1, <2>2, <2>3, <3>1 DEF Record, DocumentInv, TypeOK
    <3> QED BY <1>1, <2>2, <3>3, PrefixOfItself, PrefixOfAppend
  <2>5. CASE disk' # disk /\ p = calls[s].path /\ Shortens(s)
    <3>1. calls'[s].stage = "done" /\ calls[s].stage # "done"
      BY <2>1, <2>2, <2>5 DEF Move, Call, DocumentInv, TypeOK
    <3> QED BY <2>5, <3>1
  <2>4. CASE disk' # disk /\ p # calls[s].path
    <3>1. disk'[p] = disk[p]
      BY <2>1, <2>4 DEF DocumentInv, TypeOK
    <3> QED BY <1>1, <3>1, PrefixOfItself
  <2> QED BY <1>2, <2>3, <2>4, <2>5
<1>4. Write \/ disk' = disk
  BY DEF Next, Person, Runtime, Editor, Edit, NewProject, LoadDemo, OpenProject, RestoreVersion,
         ConfirmDiscard, CancelDiscard, SaveProject, SaveThenProceed, StartSave, PressClose,
         Replace, End, HearReport, Read, CloseWindow, SaveAnswered, OpenAnswered, Finish,
         runtimeVars, vars
<1> QED BY <1>2, <1>3, <1>4

-----------------------------------------------------------------------------
\* Where every graph may be found again, in every state: any number of projects,
\* of edits and of commands in flight at once.
THEOREM DocumentInvariant == Spec => []DocumentInv
BY InitEstablishes, StepKeeps, PTL DEF Spec

\* Every variable of the editor, the runtime and the files keeps its type.
THEOREM DocumentTypes == Spec => []TypeOK
<1>1. DocumentInv => TypeOK
  BY DEF DocumentInv
<1> QED BY <1>1, DocumentInvariant, PTL

\* guardDiscard and the close request lose nothing unasked that was not edited
\* while a command was in flight or before the runtime had heard of it.
THEOREM OnlyTheRestIsLost == Spec => []LostOnlyBeside
<1>1. DocumentInv => LostOnlyBeside
  BY DEF DocumentInv
<1> QED BY <1>1, DocumentInvariant, PTL

\* A canvas that reads as saved (dirty is false) is in a file, or was edited while
\* the answer that said so was on its way.
THEOREM CleanIsKept == Spec => []CleanMeansKept
<1>1. DocumentInv => CleanMeansKept
  BY DEF DocumentInv
<1> QED BY <1>1, DocumentInvariant, PTL

\* While the editor is busy a command is in flight whose end clears it.
THEOREM BusyIsAnswered == Spec => []BusyMeansAnswerDue
<1>1. DocumentInv => BusyMeansAnswerDue
  BY DEF DocumentInv, BusyForACommand, DueIn, BusyMeansAnswerDue, InFlight
<1> QED BY <1>1, DocumentInvariant, PTL

\* save_project and restore_version add to the history they read. Only the write of
\* a command that was overtaken, or of a save that could not open the file, shortens it.
THEOREM HistoryIsNeverShortened == Spec => HistoryGrows
<1>1. DocumentInv /\ [Next]_vars =>
        [\A p \in Project :
           \/ IsPrefix(disk[p], disk'[p])
           \/ \E s \in InFlight :
                calls[s].path = p /\ calls'[s] # calls[s] /\ Shortens(s)]_vars
  BY StepGrowsHistory
<1> QED BY <1>1, DocumentInvariant, PTL DEF Spec, HistoryGrows
=============================================================================
