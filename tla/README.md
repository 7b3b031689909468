# Encastra: formal models

Encastra runs workflows: graphs of steps, drawn in a desktop editor, that a
Rust runtime validates, executes and can start by itself when a file appears or
a timer fires. This directory holds TLA+ models of the parts where order,
concurrency and failure make it hard to be right, the TLC runs that check them
on small instances, and proofs, checked by TLAPS, of what holds for every
instance.

Paths below are relative to `src/`. `PROJECT.json` maps every definition that
models code to the lines it models, and lists the hazards one by one, at the
line where each bites, with the properties that are about it.

## Inventory

| Part | State it keeps | Operations | Talks to |
|---|---|---|---|
| Executor, `encastra-core/src/runner.rs` | `outputs`, `consumers_left`, `live_bytes`, the journal | `execute`: one turn per step of the order | components (call), broker (call), observer (callback), the stop flag (shared) |
| Journal, `journal.rs` | a record per step, the verdict | `finish` | written by the executor, read by the editor |
| Graph and validation, `graph.rs`, `validate.rs` | none | `validate`, `topological_order`, `find_cycle` | run before everything |
| Types and coercions, `type_graph.rs`, `packages/type-graph`, `convert.rs` | none | `check`, `apply_ops` | editor and validation (decide), executor (convert) |
| Session, `session.rs` | bounded queue of events, stop flag, counters | `tick`, `stop` | triggers (poll), executor (call), the thread that owns it |
| Triggers, `encastra-builtins/src/triggers.rs` | what was seen and what was handed over | `poll` | the file system, through the broker |
| Capability broker, `broker.rs` | grants, handles, reachability, calls | guarded reads and writes, `take_calls` | components, triggers |
| Desktop runtime, `apps/desktop/src-tauri/src/lib.rs` | the slot with the running workflow, what the person chose, project and library handles | commands, each on a thread of its own; one thread per workflow | editor (commands, answers, events), session |
| Editor, `apps/desktop/src/store.ts`, `App.tsx` | the canvas, its history, the clipboard, what is running, the open project | user actions, answers, event handlers | runtime, React Flow (callbacks) |
| Connect mode and connection focus, `connect-mode.ts`, `edge-focus.ts` | the step offered, the connection held | keys | the store |
| Projects and history, `encastra-project` | one archive per project, with its versions | open, save, restore | runtime |
| Library, `encastra-library` | an index and imported copies | load, upsert, remove, import | runtime, importer |
| Publishing and import, `encastra-publish` | staging directories | bundle, inspect, import, sweep | library |
| Import dialog, `import-machine.ts` | its stage | `transition` | the store |
| Built-in components, CLI, manifests, panels, website | none of their own | | |

What makes the parts hard, and what would make them right:

* **Executor.** Stop and the deadline fall between any two steps; a step has
  eight ways to end, all of which have to release what it was given and leave a
  record; a counter of bytes is kept by adding and subtracting. Right means: a
  step sees what its producers made; a value is held as long as somebody is to
  read it and no longer; the bytes never drift; the verdict follows from what
  happened.
* **Session.** Polls report more than the queue holds; Stop falls anywhere; one
  flag is shared by everybody. Right means: what is lost is the oldest and is
  counted; what waits is run; Stop is quick.
* **Watch Folder.** The folder belongs to other programs, which act between the
  listing and the opening. Right means: nothing twice, nothing half written,
  nothing that was there before, and nothing missed.
* **Starting and stopping.** Answers and events come by different ways; the
  button is held back by a flag that every command sets and clears; threads fail
  to start, and panic. Right means: one workflow at a time, a slot that is
  given back, and an editor that shows what is so.
* **The open project.** Saving, opening and restoring go on beside editing, each
  on a thread, and the window can close. Right means: unsaved work is never
  replaced without a question, what reads as saved is in a file, a file's
  history only grows, and the controls come back. Not all of it is so
  (Divergences).
* **The canvas.** Pointer, keyboard, menus, undo, paste and React Flow's own
  deletions change one graph in any order. Right means: one identifier per step,
  one connection per input, no connection without its ends, an undo that leads
  to what was there, and a project that reads as saved only when it is.
* **The library.** Imports and removals run side by side, with several writes
  each, and the program can die between any two. Right means: no entry without
  its copy, no copy nobody can account for, a ceiling that holds, no import cut
  off by closing, and a dialog that does not get stuck.
* **Types.** A connection is admitted from a table, and the value converted by a
  list of operations worked out beside it. Right means: what arrives is of the
  type it should be, and nothing is admitted that must fail.

## The modules

| Module | What it is |
|---|---|
| `Wiring` | the shape of a workflow, how a step can end, the verdict |
| `Dataflow` | abstract: what one run promises, with no order, store, budget or clock |
| `Runner` | the executor of one run |
| `RunnerProperties` | what must hold of it, and the mapping onto `Dataflow` |
| `RunnerInvariant` | its inductive invariant |
| `RunnerProofs` | its proofs |
| `Session`, `SessionProofs` | the loop of a session and its bounded queue |
| `Watcher`, `WatcherProofs` | the Watch Folder trigger |
| `Lifecycle`, `LifecycleProofs` | starting and stopping, from the editor's button to the thread |
| `Document`, `DocumentProofs` | the open project: editing, saving, opening, restoring, the question about unsaved work, the window |
| `Timeline` | abstract: what undo and redo promise |
| `Canvas`, `CanvasProofs` | the graph on the canvas, its history and clipboard, and the two keyboard modes |
| `ImportDialog` | the machine behind the import dialog, a function |
| `Library`, `LibraryProofs` | the library on disk, the commands that change it, the editor's side of them, closing and restarting |
| `TypeGraph`, `TypeGraphProofs` | which connections are legal, and what conversions make of values |
| `MC*` | instances for TLC |

How they meet. `Session` takes a run as something that lasts a while and ends;
`Runner` says what happens in it: one turn for each step of a finite order, in
which nothing waits but for the component it started, so that a run ends if
components return, which `Session` assumes. `Session` polls triggers that report
any number of events; `Watcher` says what one of them reports. `Lifecycle` takes
a session's loop as `BeginTick` and `EndTick`, and a run that passes its time as
`Overrun`. `Document` takes a graph as a number that every edit changes and is
about where graphs go; `Canvas` is about what is in one: a save there takes the
graph along and is answered later, one at a time, and opening is one step.
`Library` uses the dialog's machine for its editor half. `Runner` says that a
conversion may fail; `TypeGraph` says which can, and what comes out.

### Runner

A turn of the loop is one action: nobody else touches the state of a run, apart
from the stop flag and the clock, which the code reads once at the top of a
turn. A step that runs a component is two, `StartStep` and one of
`FinishStep`, `FailStep` and `Unwind`, because Stop, the deadline and the
component's requests to the broker fall in between.

| Code | Model |
|---|---|
| `for node_id in &validation.order` | `at`, a position in `Order`; `Turn(n)` |
| `outputs` | `held` (the keys), `present` (those whose value is not `Absent`), `size` |
| `consumers_left`, `live_bytes` | `consumersLeft`, `liveBytes` |
| `cancel`, `started_at` | `cancel`, `overdue`; `Stopped`, `KeepFlag` |
| `journal.nodes[n]` | `status[n]`, `cause[n]`, `recorded` (outputs), `delivered` (inputs) |
| the observer | `announced`, the last it was told of each step |
| `broker.calls` | `calls`, the steps with calls that nobody took yet |
| `upstream_blocker` | `Blockers`; which one is named is left open |
| `gather_inputs` | `Unreadable` (may fail), `Unwrappable` (must), `Arriving` |
| the release at the end of a turn | `ReadsBy`, `Released`, `EndTurn` |

Values have a size and are absent or not; what is in them is left out. A
component returns any subset of its ports with any sizes, fails, or panics. A
conversion fails or does not, by its kind: `unwrap-option` fails on an absent
value and only then, others leave an absent value alone. `saturating_sub` is
`Minus`; sums that would pass 2^64 are not modelled, because the budget is far
below. Input ports are not named: validation refuses two connections into one.
Bytes are counted as the cardinality of a set with one element per byte, which
is the sum of the sizes, and which the provers can reason about without
recursion.

Left out: the branches for a component that is not installed or has no code
(validation refuses both before `execute`), and seeds on output ports of steps
that are not triggers, which only the command line makes.

### Session

A tick is `BeginTick`, one `PassTrigger` or `Poll` per mounted trigger, then
`StartRun` or `EndTickIdle`. Stop can fall between any two. Events are numbered
as they are queued. `ran` and `late` are histories. Sleeping between ticks and
the period of each trigger are left out: a trigger may or may not be due.

### Watcher

A poll is `List` followed by one action per file listed, in the order of the
paths; between any two of them other programs write, remove and put back files.
What a file looks like (its size and time of change) is one version number, so
two writes within one tick of the file system's clock that leave the size alone
are one. `reported`, `forgiven`, `lost` and `before` are histories.

### Lifecycle

Commands are handled one at a time, on the runtime's main thread; answers and
status events reach the editor separately, events in order. A workflow's thread
announces its end and then empties the slot: two actions, because a start may be
handled in between. `Overtaken` is the comparison of `statusSeq`. A start can be
refused for reasons of its own (grants, inputs, an invalid graph), so
`RefuseStart` has no further guard; the editor may go on to check the graph then
and stay busy.

`busy` is one flag for all commands, set when one begins and cleared when one
ends, whoever else has set it since (`OtherCommand`: saving, checking, opening,
importing). The button that starts looks at `busy` and at what is shown
(`PressButton`), Ctrl+Enter at nothing (`PressShortcut`). `hasty` and `around`
are histories: a start was given while something was shown running or another
start was not yet answered; and the ways that can come about, a start by
Ctrl+Enter while the button was not there, or a command that ended and cleared
`busy` under a start. Reloading the page is left out, and so is the wording of
statuses.

### Document

A command is a record in a slot of `calls` with the stage it is at: asked, read
(the file was read, not yet written), blind (a save that could not open the file
and goes on with a new project), done, failed, or listing (its answer is
back and the library is being listed). The runtime's part is `Read` and `Write`:
other commands on the same file, and edits, fall in between. The answers are
`SaveAnswered`, `OpenAnswered` and `Finish`. `question` is what waits while
`UnsavedChanges` asks (`ConfirmDiscard`, `CancelDiscard`, `SaveThenProceed`);
`reported` is the copy of dirty that the runtime decides
about closing on, which `HearReport` brings up to date some time later.

A project file is the sequence of its versions. `Project::open` may fail on any
file, for reasons the model does not tell apart (the disk, a damaged archive, a
newer schema, a limit), and always fails where there is none or the versions are
over their limit (`Openable`); a save then goes on with a new project and a
history of its own, as `save_project` does. A save of the graph that is already
the last version adds none.

The system's choosers are modal, so a command that needs one is sent with the
answer in it. Several reports of dirty on their way are one, the last. Left out:
the format of the archive, the lock file (`restore_version` does not touch it
either), comparing versions, and two saves of one project that write to one
temporary file at the same moment.

### Canvas

Each operation of the store is an action. The changes that React Flow reports
back are actions of their own, because they come in an order of its choosing:
frames of a drag and its end, removed connections, removed steps. Identifiers
are what `makeId` and the renaming of copies make of them: a component, a number
that starts again with each start of the program, and a suffix for each copy;
that two can meet is the point. `history` is the pair of `history.ts`, with its
limit. Undo restores snapshots with the selection in them, and a connection mode
open at that time stays open.

A save is three actions: `SaveProject` takes the graph along (`saving`), and
some time later `SaveAnswered` clears `dirty`, whatever was edited meanwhile, or
`SaveFailed` leaves things as they are. `overtaken` says that the canvas was
changed or replaced while a save was on its way, until an answer finds it as it
was saved. `base`, `overtaken`, `shown`, `missed`, `opened` and `mixed` are
histories. Two saves at once, and openings that are answered later, are in
`Document`. The sample project (`doLoadDemo`) is left out: it replaces the
canvas as New does, and reads as unsaved, by a graph whose steps have names
without a number, which `makeId` never gives.

A step has one input and one output; which components fit is a constant. Inputs
and grants, the texts of refusals, the order in which keys walk the steps, and
menus but for what they invoke are left out.

### Library and ImportDialog

An import is `Enter` (the flag and the lock), then measuring, staging, moving
into place, and the index, an action each; a removal is finding, forgetting and
deleting. `Die` stops the program at any of them, `Start` sweeps staging
folders that are old enough, `Age` makes them old. Saving the index can fail,
and so can deleting a copy. The disk's index and the one in memory are written
in one step, as the code writes under one lock; flag and lock are released in
one step. Everything an inspection checks in a folder is one refusal that may
come. The editor's side is the dialog's machine, what it waits for, and its
busy flag; answers arrive in any order and late. Closing the window is asking,
sending, checking and going, with imports beginning in between.

`young` and `old` count staging folders by publication; `stray` and `twice` are
histories that excuse exactly the cases the code gives rise to (below).

Left out: the quarantine of an index that cannot be read, the limit on entries,
the sorting and status of rows, and a second running program on the same folder.

### TypeGraph

`check` is the decision (`type-graph.ts` and its Rust copy walk one table), and
`apply_ops` the conversion, both as recursive functions: `check` over pairs of
types that are wrapped at most `MaxDepth` times (`Decided` is its body),
`apply_ops` over operations, for every value as deep as such a type (`Applied`).
A state is one connection, drawn and then used: two types, and one value of the
first. A value is known by its kind, a list by its items. Parsing a text can
give any outcome. `Fitting` is what a type admits: a kind of file is a file, and
lists have any length. `Full` is a value in which nothing is missing.
Explanations of a refusal, the parser of type expressions, and unknown names are
left out.

## What is checked

Every property of a passing run is broken by a mutant, a definition with the
same parameters beside the one it stands in for, marked `mutant`: a guard
dropped, a reset forgotten, a count off by one.

| Run | What it shows | Size |
|---|---|---|
| `runner` | the store, its counters and the budget (`HeldExactlyWhileNeeded`, `LiveBytesExact`, `PeakWithinBudget`), the records and the verdict (`JournalCoherent`, `SkipExplained`, `OkMeansAllRan`, `StopIsFinal`), and that the run implements `Dataflow` (`Implements`) | 109 thousand states |
| `session` | what waits is the newest, in order, nothing lost uncounted, one run at most after Stop, an end after Stop, and no starvation | 10 thousand |
| `watcher` | nothing twice, nothing unsettled, nothing that was there before, and the one way to miss a file | 171 thousand |
| `lifecycle` | one workflow at a time (`OneWorkflowAtATime`), nothing over is shown as live (`NeverShowsFinished`), what is live can be stopped unless a start was given over it (`StopWhileLive`) and how such a start can come about (`ButtonKeepsStartsApart`), a slot given back (`WorkflowLeavesSlot`) | 56 thousand |
| `document` | work is lost only beside a command that was on its way (`LostOnlyBeside`), what reads as saved was saved (`CleanMeansKept`), busy controls come back (`BusyMeansAnswerDue`), a file's history only grows (`HistoryGrows`), each but for the cases under Divergences | 2.1 million |
| `canvas` | one connection per input, no loose ends, one identifier per step, a project that reads as saved is (`CleanMeansSaved`), and that undo and redo implement `Timeline` (`KeepsOneLine`) and lead nowhere new (`UndoOnlyRevisits`), each but for the cases under Divergences | 509 thousand |
| `library` | the ceiling, entries with their copies, copies with a reason, closing, and the dialog | 3.0 million |
| `types` | what arrives is of the type it should be (`DeliveredFits`), and no verdict admits what must fail (`LegalCanSucceed`) | 59 thousand |
| `session_long`, `watcher_vanish`, `document_discard`, `canvas_ids` | claims that the code does not keep (below) | |

**Bounds.** `MCRunner` has a trigger with two outputs, two steps that read one
of them (one of the two on two inputs), a step that merges what they make with
the trigger's other output, and one after it: shared values, a consumer wired
twice, a value that outlives its first reader, a conversion that unwraps and one
that can fail, and a step that is skipped because another was. Sizes are 1 and 2
and the budget 5, so that a step is sometimes refused for what others hold.
`MCSession` has three triggers, a queue of three and polls that report up to
four events, so that one poll overflows an empty queue; a session sees nine
events. `MCWatcher` has two files, so that one can be handed over in the poll in
which the other goes, and three versions of each, so that a file can change
again after it was handed over. `MCLifecycle` has two starts, so that one meets
the other at every stage; `MaxEvents` bounds the events on their way to two, and
a thread with more to tell waits. Its invariant has also been checked with three
starts and three events (3,443,636 states).

`MCDocument` has one project and two commands at once, so that every pair of
them meets on one file, and a limit of one version, so that a second one makes a
file overlong. `MCCanvas` has four steps, so that a pair can be pasted beside
itself, a history of one step, so that it overflows at the second edit, and two
changes, of which a save counts as one, from an empty canvas
or from a project of an earlier session with two connected steps: a save meets a
change before it, while it is on its way or after it, and any number of undos,
redos and openings. With three changes a run does not end in time, and the
proofs are what there is. `MCLibrary` has a
publication that fills the library alone, so that anything left over refuses the
next import; three commands at once and four in all let two removals overlap
with an import between them, and two restarts let leftovers of one run meet the
next. With a second publication it has 5.9 million states and the same
properties hold. `MCTypeGraph` has every pair of types wrapped up to twice and
every value with up to two items.

Deadlock is not checked where the system may stop: a run that is over, a session
that is over, an editor whose commands are used up, a connection that was used.
The watcher and the canvas never stop, and there it is checked.

**Fairness.** `Session` and `Watcher`: the owning thread keeps turning the loop.
For a session this is weak fairness of the loop's steps together, because only
one of them is possible at a time unless polls and passes compete, and either
will do. `Lifecycle`: threads keep going, and messages arrive; nobody has to
press anything. No fairness is assumed of other programs, of people, or of
panics. `Runner`, `Document`, `Canvas`, `Library` and `TypeGraph` state safety
alone: a component takes as long as it takes, and a command's thread as the disk
does.

Type invariants are proved (`TypeCorrect`, `SessionTypes`, `WatcherTypes`,
`DocumentTypes`, `LibraryTypes`, `CanvasTypes`, and as part of `LifecycleInv`),
and no run repeats them.

## Divergences

Runs that find a claim violated:

| Run | Said | Done |
|---|---|---|
| `session_long` | runner.rs: the limit on a run leaves a session unaffected | the run sets the flag its session shares, and the session ends |
| `watcher_vanish` | triggers.rs: starts the workflow whenever a file appears | a file that goes between listing and opening takes with it the events of files before it |
| `document_discard` | docs/BETA-0.5.md:22: unsaved work is never discarded silently | an edit made while an opening or restoring is on its way (the project of the last session is reopened at start without a question) is replaced by the answer, and its undo history with it |
| `canvas_ids` | docs/PRODUCT-ROADMAP.md:93: a graph survives saving and opening | identifiers count from 1 in each session and are not compared with those of an opened project: two steps can share one, and only the later is in the file |

Others, which a model met and which the properties therefore leave out by name.
No run is spent on them.

* **One value per input** (`store.ts:528`). Open a project with a connection
  from s to t; select both and duplicate (s′ to t′); select s, begin a
  connection by keyboard, which offers t′; undo: the copies go, the mode stays.
  Enter connects s to t′, which is not there. Paste: the copies come back by the
  same names with their connection, and t′ is fed twice. `OneFeedUnlessMissed`
  is the claim without this case; TLC shows the case with four steps and three
  edits (`MaxNodes = 4`, `MaxEdits = 3`, one `Place`).
* **Connect mode** is only reset when the selected step changes
  (`Canvas.tsx:378`), so Enter can connect to a step that has gone
  (docs/PRODUCT-ROADMAP.md:94: "an illegal connection is impossible to make").
  `missed` in `LooseOnlyByConnectMode`.
* **Undo** (`history.ts`, "state *before* an edit"). A drag is recorded at its
  end, with the steps already moved, so undoing it does nothing. Removing a
  connection through React Flow and changing a setting or switching a step off
  make no entry at all. `Amend` in `Timeline`.
* **A save that cannot open the file it goes to** takes it for a new project
  (`lib.rs:691`), whatever the reason: more than 1000 versions, another limit, a
  newer schema, a damaged archive, an error of the disk. The file is replaced
  and its history and identity are gone, where docs/PROJECT-FORMAT.md:254 says
  that saving over an existing project "keeps its identity and its history". The
  stage `blind`, and `Shortens` in `HistoryGrows`.
* **Overlapping saves** of one project read the file before either has written
  it, and the second write drops the first one's version. `Stale`.
* **An edit made while a save is on its way** is not in the file, and the answer
  says that nothing is unsaved: `saveProject` takes the graph along
  (`store.ts:777`) and sets `dirty` to false when it is answered
  (`store.ts:785`). The project reads as saved though it is not what was saved,
  until the next edit. `overtaken` in `CleanMeansSaved`, `beside` in
  `CleanMeansKept`.
* **A save answered after New** attaches the path of the old project to the new
  canvas (`store.ts:785`), so the next save goes over the old project, as a new
  version of it. `SaveAnswered` sets `path` to that of the command.
* **A second start.** Ctrl+Enter (`App.tsx:332`) starts a workflow whatever is
  shown. The button does so too when another command (a save by Ctrl+S, say)
  ended while the answer to the first start was due: its `finally` clears the
  one `busy` flag (`store.ts:795`), and the button looks at no other
  (`App.tsx:149`). The second start is refused, and the refusal is shown over
  the live workflow: Stop is gone (docs/DESKTOP.md: while a session is live the
  button is Stop). `hasty` in `StopWhileLive`; that nothing else leads there is
  `ButtonKeepsStartsApart`.
* **The slot** (`lib.rs:1225`) is filled before the thread is asked for; when
  there is no thread it stays filled and nothing can be started.
  `StartWithoutThread`.
* **A trigger's calls** are in no record (`broker.rs:10` against
  `runner.rs:687`), and the record of a trigger, and of a step whose inputs
  could not be gathered, closes without the observer being told; the editor goes
  on preferring the event stream after the run (`store.ts:1163` against
  docs/DESKTOP.md:260), so such a step reads as pending.
* **An absent value** at a required input makes the step fail, or lets it run,
  where `flow.rs:3` says it is skipped (`convert.rs:65`).
* **An orphan copy.** A crash, or a failed save of the index, between moving an
  import into place and listing it leaves a copy that is never swept and that
  blocks importing the same publication again; so does "forget, keep the copy".
  `stray` in `UnlistedIsExplained`. Two removals of one publication that overlap
  can delete what was imported again between them, because the copy is deleted
  after the lock is let go. `twice` in `ListedIsThere`.
* **option of a list to option of a list** is `["map", …]`, which fails for an
  absent list although absence is said to survive conversion (`convert.rs:57`).
  No component in the repository has such a port. `DeliveredFits` counts a
  failure as nothing delivered.

## What is proved

In every module below: the inductive invariant, established by the initial
states and kept by every action, and from it the properties the runs check, for
every value of the constants. The invariants were checked by TLC first.

**The executor** (`RunnerProofs`). For every graph, order, budget and set of
sizes that satisfies the assumptions of `Wiring` and `Runner`
(`ShapeAssumption`, `OrderAssumption`, `KindAssumption`, `SizeAssumption`): type
correctness, all the safety properties of the run `runner`, three more that are
conjuncts or consequences of its invariant (`CountersExact`, `CallsJournalled`,
`AnnouncedNeverWrong`), and that the executor implements `Dataflow`. The
assumptions are what validation guarantees: the order lists every step once,
producers before consumers; a trigger has no inputs. Each is a line of
`validate.rs` or of the manifest rules, and TLC evaluates them on the instance.

1. Lemmas on the operators (a set of bytes is finite and its size additive; the
   readers of a port that are left lose exactly the connections of the step
   whose turn ends; producers come first), and `TypeCorrect`.
2. Then the turns themselves: each way a step can end is an instance of one
   form, `Settle`: the step at the cursor becomes `o`, values `N` join the store
   with the bytes they weigh, and what has no reader left is released. Every
   step of the run settles a step of the graph, begins one, or is `Quiet`
   (`StepCases`), so the parts of the invariant need three cases and not twelve.
3. The invariant and what follows from it. No property is inductive alone.
   `HeldExactlyWhileNeeded` needs that a value counts as held only from its
   producer's turn (`StoreInv`), that nothing ahead of the cursor has begun
   (`CursorInv`) and that the counters are exact; `LiveBytesExact` needs that
   the bytes subtracted were once added, so that `saturating_sub` never
   saturates; `JournalCoherent` needs that what a step is given is still in the
   store, which is `StoreInv` again, and that an enabled step has no disabled
   producer (`DisabledInv`); `OkMeansAllRan` needs `SkipExplained`, as the
   verdict looks at failed and cancelled steps alone.
4. The refinement: the initial states map to initial states and every step to a
   step or a stutter. `Dataflow` reads values that were *made*, the executor
   values that are *held*; the heart of the proof is that in a step's turn they
   are the same for that step.

**A session** (`SessionProofs`): `QueueIsTheLatest`, `EveryEventAccounted`,
`RunsInOrder`, `StopIsQuick`, for every queue length, number of triggers and
size of a poll. The queue is always an interval of event numbers that ends at
the last one reported (`SessionInv`); from that, what a full queue loses is its
oldest end, and what runs next is newer than whatever ran. `StopIsQuick` needs
that a run that began after Stop is the last, because the loop looks at the flag
before it polls again.

**The watcher** (`WatcherProofs`): `ExistingLeftAlone`, `NeverTwice`, and
`SettledFirst` where the watcher waits for two polls or more, as it does. What a
listing shows of a file is never older than what an earlier one showed
(`NeverGoesBack`); so an event, once spoken of, is of the version remembered or
of one no listing shows again (`SpokenIsRememberedOrOld`), and what is due
cannot have been spoken of. `SettledFirst` needs that the version a count
belongs to was seen by the listing before, also when the poll before broke off
(`CountsBelongToSights`): then it lies between two equal bounds.

**Starting and stopping** (`LifecycleProofs`): `OneWorkflowAtATime`,
`NeverShowsFinished`, `StopWhileLive`, `ButtonKeepsStartsApart`, for any number
of starts and of words on their way. `SlotInv`: a thread that works owns the
slot, so two are one. `WordInv`: once nobody has anything more to say, the last
word on its way, or the last one heard, is the end; and an answer that comes
after its workflow fell silent is known to be late. `ButtonInv`: as long as no
start is given over one that is shown or not yet answered, one is asked for at a
time, and only after the last end was heard, and then the button is where it
should be; and as long as nobody went around the button and no command cleared
`busy` under a start, `busy` is set while an answer is due, so that no such
start is given.

**The open project** (`DocumentProofs`): `LostOnlyBeside`, `CleanMeansKept`,
`BusyMeansAnswerDue`, `HistoryGrows`, for any projects, any limit on versions
and any number of commands in flight at once. `DocumentInv` follows every graph
to where it may be found again: what stands in a file, or in an answer, has been
in a file; while a save is on its way the canvas is what it took along, or was
edited meanwhile, or came out of a file; while a command that replaces the
canvas is on its way, or the window is closing, the person has let the canvas go
unless it was edited meanwhile. Busy has an owner among the commands.
`HistoryGrows` is a fact about each write alone: what it adds is at the end of
what was read, so only a save that could not open the file, or a read that has
gone stale, can shorten a history.

**The canvas** (`CanvasProofs`): `OneFeedUnlessMissed`,
`LooseOnlyByConnectMode`, `UniqueUnlessMixed`, `CleanMeansSaved`,
`UndoOnlyRevisits`, and that the history implements `Timeline` (`KeepsOneLine`),
for any components and connections that fit, any number of steps, copies and
edits, and a history of any length. The assumption is that a step can be
somewhere (`Place # {}`), which the project of an earlier session needs. What a
property says of the canvas is not inductive, because undo, redo, pasting and
opening put something else there: `CanvasInv` says it of every document that can
come back, the history's (`DocumentsSound`), the clipboard's (`ClipboardSound`)
and the file's (`FileSound`), as far as the session allows. It adds that
connections in the clipboard never leave it, which is why pasting feeds nothing
that is here; that a save on its way has the canvas with it unless that was
changed since (`CarriesCanvas`); that before a file is opened every identifier
begins with a number already given out (`Rooted`), which is why a new step is
new; and that what is on screen counts as shown, which is why undoing leads
nowhere new. Every action is one of eleven kinds (`Kinds`), so that each part is
proved of a kind and not of every action. That history.ts makes a line of
documents needs that the past and the future together never pass the limit,
which is why neither `slice` of undo and redo ever drops anything.

**The library** (`LibraryProofs`): `WithinCeiling`, `ListedIsThere`,
`UnlistedIsExplained`, `CloseCutsOnlyLateImports`, `BusyIsOwned`, for any finite
set of publications of any sizes, any ceiling, any number of commands in flight
and of restarts. The assumptions are that publications are finitely many, that
none is also a project's folder, and that no call is called `None`.
`LibraryInv`: the lock belongs to the one import between measuring and its end
(`LockIsHeld`); the index in memory is the one on disk while the program runs
(`MemoryIsTheIndex`); there is never more in the folder than the import that
has measured counted, as only removals happen beside it (`RoomWasMeasured`); a
removal that has found its entry has a copy to delete, and an import meets a
removal of its own publication only if two removals met (`CopiesInv`); once
closing is decided, every import under way began after that (`ClosingInv`); and
the dialog waits exactly for what is on its way (`DialogWaits`). Sizes are
counted as in `Runner`, a set with one element per byte.

**Types and coercions** (`TypeGraphProofs`): `DeliveredFits` and
`LegalCanSucceed`, for types of any depth, lists of any length and every value
of a type. A verdict is `Sound` when its operations take what fits the one type
to what fits the other, or fail, and take a full value to something that did not
fail, with the two exceptions the properties name. That a verdict is sound
follows from the verdict on the types within, one lemma for each branch of
`check` (`SameSound`, `ToOptionSound`, `OptionSound`, `UnwrapSound`,
`ListSound`, `NamedSound`); the last rests on the table, row by row
(`TableCoerces`). `LegalCanSucceed` for names needs `Narrows`: a row that leaves
from an ancestor succeeds for the descendant, or leads back among its siblings.
`UnwrapSound` and `OptionSound` need that no operation but `unwrap-option` does
anything to what is absent (`Evaluator`).

**Recursion.** The installed provers cannot use the library's induction
theorems. `LeastNatural` stands in for them: a set of numbers that is not empty
has a least, from the well-foundedness of finite subsets. Two loops of
history.ts, the filter and the renaming of copies, are recursive functions over
the rounds of the loop, and `CanvasProofs` proves what such a loop returns by
its least counterexample (`LoopRuns`, `Upward`, `KeptSteps`, `RenamingIsFresh`).
The recursive functions of `TypeGraph` go by the size of types and operations.
`Recursion` says, for any such definition, that when its body makes of a
function with some property another with that property, the function defined
exists and has it; so existence and soundness are one proof for each function
(`ApplyOps`, `FittingStep`, `FullStep`, `ValuesFit`, `CheckSound`).

**Only model-checked.** Liveness (`StopEnds`,
`NothingWaitsForever`, `OnlyFailedPollsLose`, `WorkflowLeavesSlot`) is beyond
the proof system.

## Not modelled

* What components compute, media probing, the parsing of manifests, archives and
  type expressions, the wording of statuses, errors and logs, licences and
  money: functions of one text or file, with no state and no order, whose unit
  tests say what there is to say.
* The command line, which calls the executor once and prints. The timer trigger,
  which keeps one due time.
* Consent: grants and chosen folders are sets that only grow within a session
  and are asked for one at a time.
* Panels, views, preferences, onboarding, translations and the website: drawing
  and texts. Of the 36,909 lines of TypeScript a third are tables of
  translations and most of the rest draws; the Rust crates, which the executor,
  session, watcher, project and library models are about, are not among them.
  The part of the TypeScript with state that two actors share is `store.ts`, the
  two keyboard modes, the history, the import machine and the type check, and
  those are mapped.
* A second copy of the program on the same library or project; reloading the
  page; a file system that reorders writes across a power failure.

What would come next: consent as a model of its own (a component opens a handle
only where a connection brought it), `topological_order` and `find_cycle`
against a definition of cycles, so that `OrderAssumption` is checked against
`validate.rs`, and ports in `Canvas`.
