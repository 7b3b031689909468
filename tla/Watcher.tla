------------------------------- MODULE Watcher -------------------------------
(***************************************************************************)
(* The Watch Folder trigger. Each poll lists the folder, notes what is new *)
(* or has changed, and hands over every file that has looked the same for  *)
(* STABLE_POLLS polls. Handing over opens the file again, after the        *)
(* listing, and the folder belongs to other programs in between: a poll is *)
(* a listing followed by one action per file it listed.                    *)
(*                                                                         *)
(* What a file looks like (its size and its time of change) is a version.  *)
(* Two writes that leave both the same are one version here.               *)
(***************************************************************************)
EXTENDS Naturals

CONSTANTS
  FileCount,       \* how many names the extension filter lets through
  Stable,          \* STABLE_POLLS
  IncludeExisting, \* the "existing" setting
  MaxVersion       \* bound: the versions a file may go through

ASSUME WatcherAssumption ==
  /\ FileCount \in Nat \ {0}
  /\ Stable \in Nat \ {0}
  /\ IncludeExisting \in BOOLEAN
  /\ MaxVersion \in Nat \ {0}

Files == 1 .. FileCount \* in the order of their paths
Versions == 1 .. MaxVersion
Absent == 0

VARIABLES
  folder,    \* the version of each file on disk, Absent when it is not there
  newest,    \* the last version each file has had
  primed,    \* primed
  emitted,   \* emitted: the version each file was handed over as, Absent if none
  observed,  \* observed: what each file looked like and for how many polls
  listing,   \* the entries of the poll in progress
  cursor,    \* the file the poll has come to, 0 between polls
  batch,     \* fired: what the poll in progress has to report
  reported,  \* history: events polls returned, of files listed ever since
  forgiven,  \* history: what was there when the watcher was primed, likewise
  lost,      \* history: events that went with a poll that failed, likewise
  before     \* history: the listing of the poll before

pollVars == <<primed, emitted, observed, listing, cursor, batch>>
vars == <<folder, newest, pollVars, reported, forgiven, lost, before>>

Unseen == [version |-> Absent, stable |-> 0]

TypeOK ==
  /\ folder \in [Files -> Versions \cup {Absent}]
  /\ newest \in [Files -> Versions \cup {Absent}]
  /\ primed \in BOOLEAN
  /\ emitted \in [Files -> Versions \cup {Absent}]
  /\ observed \in [Files -> [version : Versions \cup {Absent}, stable : 0 .. Stable]]
  /\ listing \in [Files -> Versions \cup {Absent}]
  /\ cursor \in Files \cup {0}
  /\ batch \in SUBSET (Files \X Versions)
  /\ reported \in SUBSET (Files \X Versions)
  /\ forgiven \in SUBSET (Files \X Versions)
  /\ lost \in SUBSET (Files \X Versions)
  /\ before \in [Files -> Versions \cup {Absent}]

Init ==
  /\ folder \in [Files -> {Absent, 1}]
  /\ newest = folder
  /\ primed = FALSE
  /\ emitted = [f \in Files |-> Absent]
  /\ observed = [f \in Files |-> Unseen]
  /\ listing = [f \in Files |-> Absent]
  /\ cursor = 0
  /\ batch = {}
  /\ reported = {}
  /\ forgiven = {}
  /\ lost = {}
  /\ before = [f \in Files |-> Absent]

-----------------------------------------------------------------------------
(* Other programs.                                                         *)

\* A file is created, or changed, or grows.
Write(f) ==
  /\ newest[f] < MaxVersion
  /\ folder' = [folder EXCEPT ![f] = newest[f] + 1]
  /\ newest' = [newest EXCEPT ![f] = newest[f] + 1]
  /\ UNCHANGED <<pollVars, reported, forgiven, lost, before>>

Remove(f) ==
  /\ folder[f] # Absent
  /\ folder' = [folder EXCEPT ![f] = Absent]
  /\ UNCHANGED <<newest, pollVars, reported, forgiven, lost, before>>

\* A file moved away and back looks the way it did.
PutBack(f) ==
  /\ folder[f] = Absent
  /\ newest[f] # Absent
  /\ folder' = [folder EXCEPT ![f] = newest[f]]
  /\ UNCHANGED <<newest, pollVars, reported, forgiven, lost, before>>

-----------------------------------------------------------------------------
(* A poll.                                                                 *)

After(f) == IF f < FileCount THEN f + 1 ELSE 0

SkipsNothing == FALSE \* mutant: what is already there counts as new
SkipsExisting == ~primed /\ ~IncludeExisting

\* The listing, the priming of the first poll, and the forgetting of what is
\* gone. A folder that cannot be listed leaves the watcher as it is.
List ==
  /\ cursor = 0
  /\ listing' = folder
  /\ primed' = TRUE
  /\ emitted' = [f \in Files |-> IF folder[f] = Absent \/ SkipsExisting
                                 THEN folder[f] ELSE emitted[f]]
  /\ observed' = [f \in Files |-> IF folder[f] = Absent THEN Unseen ELSE observed[f]]
  /\ cursor' = 1
  /\ batch' = {}
  /\ before' = listing
  /\ reported' = {e \in reported : folder[e[1]] # Absent}
  /\ forgiven' = IF primed \/ IncludeExisting
                 THEN {e \in forgiven : folder[e[1]] # Absent}
                 ELSE {e \in Files \X Versions : folder[e[1]] = e[2]}
  /\ lost' = {e \in lost : folder[e[1]] # Absent}
  /\ UNCHANGED <<folder, newest>>

\* Counts of Stable and more are one: the count is only compared with it.
OneMore(k) == IF k < Stable THEN k + 1 ELSE Stable

NotedHasty(f) == \* mutant: a file that changed keeps its count
  [version |-> listing[f], stable |-> OneMore(observed[f].stable)]

\* What is known of f after looking at it once more: a file seen for the first
\* time counts that sight, a file that changed starts again from nothing.
Noted(f) ==
  [version |-> listing[f],
   stable  |-> IF observed[f].version \in {Absent, listing[f]}
               THEN OneMore(observed[f].stable) ELSE 0]

HandedAlways(f) == listing[f] = Absent \* mutant: what was handed over is forgotten
HandedOnce(f) == listing[f] = Absent \/ emitted[f] # Absent \* mutant: changes pass unseen
Handed(f) == listing[f] = Absent \/ emitted[f] = listing[f]

\* The poll goes on to the next file, or returns what it has gathered.
GoOn(f, out) ==
  /\ cursor' = After(f)
  /\ batch' = out
  /\ reported' = IF After(f) = 0 THEN reported \cup out ELSE reported

PassFile(f) ==
  /\ cursor = f
  /\ Handed(f)
  /\ GoOn(f, batch)
  /\ UNCHANGED <<folder, newest, primed, emitted, observed, listing, forgiven, lost, before>>

WaitForFile(f) ==
  /\ cursor = f
  /\ ~Handed(f)
  /\ Noted(f).stable < Stable
  /\ observed' = [observed EXCEPT ![f] = Noted(f)]
  /\ emitted' = [emitted EXCEPT ![f] = Absent]
  /\ GoOn(f, batch)
  /\ UNCHANGED <<folder, newest, primed, listing, forgiven, lost, before>>

\* The version remembered is the one listed, which the file may no longer be.
HandOver(f) ==
  /\ cursor = f
  /\ ~Handed(f)
  /\ Noted(f).stable >= Stable
  /\ folder[f] # Absent
  /\ observed' = [observed EXCEPT ![f] = Unseen]
  /\ emitted' = [emitted EXCEPT ![f] = listing[f]]
  /\ GoOn(f, batch \cup {<<f, listing[f]>>})
  /\ UNCHANGED <<folder, newest, primed, listing, forgiven, lost, before>>

\* The file is gone by the time it is opened. The poll returns the error, and
\* the events it had gathered go with it.
HandOverFails(f) ==
  /\ cursor = f
  /\ ~Handed(f)
  /\ Noted(f).stable >= Stable
  /\ folder[f] = Absent
  /\ observed' = [observed EXCEPT ![f] = Noted(f)]
  /\ emitted' = [emitted EXCEPT ![f] = Absent]
  /\ cursor' = 0
  /\ batch' = {}
  /\ lost' = lost \cup batch
  /\ UNCHANGED <<folder, newest, primed, listing, reported, forgiven, before>>

-----------------------------------------------------------------------------
Step == List \/ \E f \in Files : PassFile(f) \/ WaitForFile(f) \/ HandOver(f) \/ HandOverFails(f)

Next == Step \/ \E f \in Files : Write(f) \/ Remove(f) \/ PutBack(f)

\* The session polls a watcher again and again until it is stopped.
Spec == Init /\ [][Next]_vars /\ WF_vars(Step)

-----------------------------------------------------------------------------
(* What must hold of a watcher.                                            *)

NewEvents == batch' \ batch

\* A file is not handed over twice for the same contents, as long as every
\* listing since has shown it: "kept so a file is not processed twice".
NeverTwice == [][NewEvents \cap reported = {}]_vars

\* A file is handed over only as it looked in the listing before as well, so one
\* that is still growing from poll to poll is left alone, also when the poll in
\* between broke off.
SettledFirst == [][\A e \in NewEvents : before[e[1]] = e[2]]_vars

\* With "existing" off, what was in the folder when the workflow was switched on
\* is never handed over, unless it changed or went away and came back.
ExistingLeftAlone == reported \cap forgiven = {}

\* Once the folder comes to rest, every file in it has started the workflow, was
\* there from the beginning, or was handed over by a poll that then failed at a
\* later file: there is no other way for a file to be missed.
OnlyFailedPollsLose ==
  <>[][FALSE]_folder =>
    \A f \in Files :
      <>[](folder[f] # Absent => <<f, folder[f]>> \in reported \cup forgiven \cup lost)

\* triggers.rs, the component's description: "Starts the workflow whenever a file
\* appears in a folder." The events of a poll that fails are lost.
EveryFileStarts ==
  <>[][FALSE]_folder =>
    \A f \in Files :
      <>[](folder[f] # Absent => <<f, folder[f]>> \in reported \cup forgiven)
=============================================================================
