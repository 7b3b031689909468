----------------------------- MODULE Lifecycle -----------------------------
(***************************************************************************)
(* Starting and stopping a workflow from the desktop editor.               *)
(*                                                                         *)
(* Three parties. The editor sends start and stop commands and shows       *)
(* whether something is running. The runtime answers commands one at a     *)
(* time on its main thread and keeps the workflow that is running in one   *)
(* slot. A thread per workflow does the work, tells the editor how it      *)
(* stands, and empties the slot when it is done. Answers to commands and   *)
(* status events reach the editor by different ways, in either order.      *)
(*                                                                         *)
(* A start command and the workflow it may lead to have one name.          *)
(***************************************************************************)
EXTENDS Naturals, Sequences, FiniteSets

CONSTANTS
  Call,      \* the start commands a person gives
  None,      \* no workflow
  MaxEvents  \* bound: the status events on their way at once

ASSUME LifecycleAssumption ==
  /\ None \notin Call
  /\ MaxEvents \in Nat \ {0}

VARIABLES
  slot,     \* Runtime.running: the workflow running, or None
  thread,   \* what the thread of each workflow is doing
  watching, \* the workflows that have triggers and run until they are stopped
  stop,     \* the workflows whose stop flag is set

  call,     \* how far each start command has come
  stopSent, \* a stop command is on its way
  events,   \* the status events on their way, in order: running or not

  shown,    \* the editor's running
  busy,     \* the editor's busy, one flag for all its commands
  moved,    \* the commands since whose sending a status event came (statusSeq)
  hasty,    \* history: a start was given while something was shown running, or
            \* while the answer to another was due
  around    \* history: a start was given while the button for it was not there, or
            \* another command cleared busy while the answer to a start was due

runtimeVars == <<slot, thread, watching, stop>>
wireVars    == <<call, stopSent, events>>
editorVars  == <<shown, busy, moved, hasty, around>>
vars == <<runtimeVars, wireVars, editorVars>>

Working == {"looping", "running"}
Alive   == Working \cup {"ending", "closing"}
Waiting == {"sent", "started", "refused"}

TypeOK ==
  /\ slot \in Call \cup {None}
  /\ thread \in [Call -> Alive \cup {"none", "gone"}]
  /\ watching \in SUBSET Call
  /\ stop \in SUBSET Call
  /\ call \in [Call -> Waiting \cup {"unused", "answered"}]
  /\ stopSent \in BOOLEAN
  /\ events \in Seq(BOOLEAN)
  /\ {shown, busy, hasty, around} \subseteq BOOLEAN
  /\ moved \in SUBSET Call

Init ==
  /\ slot = None
  /\ thread = [c \in Call |-> "none"]
  /\ watching = {}
  /\ stop = {}
  /\ call = [c \in Call |-> "unused"]
  /\ stopSent = FALSE
  /\ events = <<>>
  /\ shown = FALSE
  /\ busy = FALSE
  /\ moved = {}
  /\ hasty = FALSE /\ around = FALSE

-----------------------------------------------------------------------------
(* The editor.                                                             *)

\* The answer to a start has not been heard.
Due == \E c \in Call : call[c] \in Waiting

AskBeforeBusy(c) == \* mutant: busy is not set while the start is asked for
  /\ call[c] = "unused"
  /\ hasty' = (hasty \/ shown \/ Due)
  /\ call' = [call EXCEPT ![c] = "sent"]
  /\ UNCHANGED <<runtimeVars, stopSent, events, shown, moved, busy>>
Ask(c) ==
  /\ call[c] = "unused"
  /\ hasty' = (hasty \/ shown \/ Due)
  /\ call' = [call EXCEPT ![c] = "sent"]
  /\ busy' = TRUE
  /\ UNCHANGED <<runtimeVars, stopSent, events, shown, moved>>

\* The button is there when nothing is shown running and nothing is busy.
PressButton(c) == ~shown /\ ~busy /\ Ask(c) /\ UNCHANGED around

\* Ctrl+Enter is always there.
PressShortcut(c) == Ask(c) /\ around' = (around \/ shown \/ busy)

\* Saving, checking, opening and the import dialog set busy, and clear it when
\* they are done, whoever else has set it since.
OtherCommand == \E b \in BOOLEAN :
  /\ busy' = b
  /\ around' = (around \/ (~b /\ Due))
  /\ UNCHANGED <<runtimeVars, wireVars, shown, moved, hasty>>

OvertakenAlways(c) == TRUE \* mutant: no answer is applied
OvertakenNever(c) == FALSE \* mutant: an overtaken answer is applied
Overtaken(c) == c \in moved

\* The answer to a start: "running", unless the workflow has reported for itself
\* by then; an error, and whatever was shown before is replaced. If the graph was
\* to blame the editor goes on to check it, and stays busy until that is done.
HearAnswer(c) ==
  /\ call[c] \in {"started", "refused"}
  /\ shown' = IF call[c] = "refused" THEN FALSE
              ELSE IF Overtaken(c) THEN shown ELSE TRUE
  /\ busy' \in IF call[c] = "refused" THEN BOOLEAN ELSE {FALSE}
  /\ call' = [call EXCEPT ![c] = "answered"]
  /\ UNCHANGED <<runtimeVars, stopSent, events, moved, hasty, around>>

HearStatus ==
  /\ events # <<>>
  /\ shown' = Head(events)
  /\ events' = Tail(events)
  /\ moved' = moved \cup {c \in Call : call[c] \in Waiting}
  /\ UNCHANGED <<runtimeVars, call, stopSent, busy, hasty, around>>

PressStop ==
  /\ shown
  /\ ~stopSent
  /\ stopSent' = TRUE
  /\ UNCHANGED <<runtimeVars, call, events, editorVars>>

-----------------------------------------------------------------------------
(* The runtime's main thread.                                              *)

Answer(c, a) == call' = [call EXCEPT ![c] = a]

\* Something is running, or the workflow cannot be: a grant, an input or the
\* graph itself is refused.
RefuseStart(c) ==
  /\ call[c] = "sent"
  /\ Answer(c, "refused")
  /\ UNCHANGED <<runtimeVars, stopSent, events, editorVars>>

MayStartAnyway(c) == call[c] = "sent" \* mutant: the slot is not looked at
MayStart(c) ==
  /\ call[c] = "sent"
  /\ slot = None

Start(c) ==
  /\ MayStart(c)
  /\ slot' = c
  /\ \/ /\ watching' = watching \cup {c}
        /\ thread' = [thread EXCEPT ![c] = "looping"]
     \/ /\ thread' = [thread EXCEPT ![c] = "running"]
        /\ UNCHANGED watching
  /\ Answer(c, "started")
  /\ UNCHANGED <<stop, stopSent, events, editorVars>>

\* The system has no thread to give. The slot was filled before it was asked.
StartWithoutThread(c) ==
  /\ MayStart(c)
  /\ slot' = c
  /\ \/ watching' = watching \cup {c}
     \/ UNCHANGED watching
  /\ Answer(c, "refused")
  /\ UNCHANGED <<thread, stop, stopSent, events, editorVars>>

HandleStop ==
  /\ stopSent
  /\ stopSent' = FALSE
  /\ stop' = IF slot = None THEN stop ELSE stop \cup {slot}
  /\ UNCHANGED <<slot, thread, watching, call, events, editorVars>>

-----------------------------------------------------------------------------
(* The thread of a workflow.                                               *)

Go(c, from, to) ==
  /\ thread[c] = from
  /\ thread' = [thread EXCEPT ![c] = to]

Tell(running) ==
  /\ Len(events) < MaxEvents
  /\ events' = Append(events, running)

BeginTick(c) ==
  /\ c \notin stop
  /\ Go(c, "looping", "running")
  /\ UNCHANGED <<slot, watching, stop, wireVars, editorVars>>

EndTick(c) ==
  /\ c \in watching
  /\ Go(c, "running", "looping")
  /\ Tell(TRUE)
  /\ UNCHANGED <<slot, watching, stop, call, stopSent, editorVars>>

\* A run past its time stops the workflow it is part of.
Overrun(c) ==
  /\ thread[c] = "running"
  /\ stop' = stop \cup {c}
  /\ UNCHANGED <<slot, thread, watching, wireVars, editorVars>>

EndWatching(c) ==
  /\ c \in stop
  /\ Go(c, "looping", "ending")
  /\ UNCHANGED <<slot, watching, stop, wireVars, editorVars>>

EndRun(c) ==
  /\ c \notin watching
  /\ Go(c, "running", "ending")
  /\ UNCHANGED <<slot, watching, stop, wireVars, editorVars>>

PanicUncaught(c) == \* mutant: a panic skips the clearing up
  /\ Go(c, "running", "gone")
  /\ UNCHANGED <<slot, watching, stop, wireVars, editorVars>>

\* A component panicked: the thread goes on to clear up all the same.
Panic(c) ==
  /\ Go(c, "running", "ending")
  /\ UNCHANGED <<slot, watching, stop, wireVars, editorVars>>

AnnounceEnd(c) ==
  /\ Go(c, "ending", "closing")
  /\ Tell(FALSE)
  /\ UNCHANGED <<slot, watching, stop, call, stopSent, editorVars>>

EmptySlot(c) ==
  /\ Go(c, "closing", "gone")
  /\ slot' = None
  /\ UNCHANGED <<watching, stop, wireVars, editorVars>>

-----------------------------------------------------------------------------
Work(c) ==
  \/ BeginTick(c) \/ EndTick(c) \/ EndWatching(c) \/ EndRun(c)
  \/ AnnounceEnd(c) \/ EmptySlot(c)

Handle(c) == RefuseStart(c) \/ Start(c) \/ StartWithoutThread(c)

Next ==
  \/ \E c \in Call : \/ PressButton(c) \/ PressShortcut(c) \/ HearAnswer(c)
                     \/ Handle(c) \/ Work(c) \/ Overrun(c) \/ Panic(c)
  \/ OtherCommand
  \/ HearStatus
  \/ PressStop
  \/ HandleStop

\* Messages arrive, and a thread keeps going. Nobody has to press anything.
Fairness ==
  /\ \A c \in Call : WF_vars(Work(c)) /\ WF_vars(Handle(c)) /\ WF_vars(HearAnswer(c))
  /\ WF_vars(HearStatus)
  /\ WF_vars(HandleStop)

Spec == Init /\ [][Next]_vars /\ Fairness

-----------------------------------------------------------------------------
(* What must hold of starting and stopping.                                *)

\* Nothing is on its way between the editor and the runtime.
Quiet ==
  /\ events = <<>>
  /\ ~stopSent
  /\ ~Due

\* One workflow at a time: two that write into the same folders at once is a
\* surprise nobody asked for. The slot is what guards it, and a thread keeps the
\* slot until it has stopped working.
OneWorkflowAtATime ==
  \A c, d \in Call : thread[c] \in Working /\ thread[d] \in Working => c = d

\* Once everything has arrived, the editor does not show a workflow that is over
\* as running, however fast it was over.
NeverShowsFinished ==
  Quiet /\ (\A c \in Call : thread[c] \notin Alive) => ~shown

\* A workflow that was stopped, or that runs once, leaves the slot, panic or not,
\* so that another can start.
WorkflowLeavesSlot ==
  \A c \in Call :
    thread[c] \in Working /\ (c \in stop \/ c \notin watching) ~> slot # c

\* Once everything has arrived, the button that stops a workflow is there while
\* one works, unless a start was given over one that was shown or not yet answered.
\* A start can still be refused: the last workflow may hold the slot when it is no
\* longer shown.
StopWhileLive ==
  Quiet /\ ~hasty /\ (\E c \in Call : thread[c] \in Working) => shown

\* The button alone gives no such start: it takes the shortcut, or another command
\* that ends, and clears the busy flag all commands share, under a start.
ButtonKeepsStartsApart == hasty => around
=============================================================================
